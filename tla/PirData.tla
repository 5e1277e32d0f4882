------------------------------ MODULE PirData ------------------------------
(***************************************************************************)
(* The payload database as the server's properties see it: a function from *)
(* payload index to payload value.  `database/storage.rs` stores payload i *)
(* as a run of base-p digits down one column; the payloads i whose digits  *)
(* share those coefficient rows are the Cols consecutive indices with the  *)
(* same quotient i \div Cols (`try_payload_address`).  We call that set of *)
(* rows a stripe.  The server multiplies whole coefficient rows, so two    *)
(* databases agree on a row of the product only if they agree on the whole *)
(* stripe.                                                                 *)
(***************************************************************************)
EXTENDS Integers, Sequences

CONSTANTS
  Cols,         \* payloads per stripe: DatabaseLayout::cols
  NumStripes,   \* grid rows times payloads per column
  Values,       \* payload values
  Zero,         \* the payload a zeroed database decodes to
  Garbage,      \* what decrypting with another database's masks gives
  Placeholder,  \* a Database without matrices (Database::placeholder)
  Nothing       \* None

Capacity == NumStripes * Cols
Index == 0 .. Capacity - 1
Stripes == 0 .. NumStripes - 1
Stripe(i) == i \div Cols

Databases == [Index -> Values]

\* A Database value of the program: with its matrices, or the shell without.
Stored == Databases \cup {Placeholder}

ASSUME DataAssumption ==
  /\ Cols \in Nat \ {0}
  /\ NumStripes \in Nat \ {0}
  /\ Zero \in Values
  /\ Garbage \notin Values
  /\ Placeholder \notin Databases
  /\ Nothing \notin Stored

\* `from_layout`: freshly allocated matrices are zeroed.
Zeroed == [i \in Index |-> Zero]

\* The payload indices a shard of len payloads at start occupies, and their stripes.
Shard(start, len) == {i \in Index : start <= i /\ i < start + len}
Touched(start, len) == {Stripe(i) : i \in Shard(start, len)}

\* `try_encode_shard` accepts the shard.  On a placeholder every non-empty
\* shard panics: the matrix window [m_lo, m_hi) is empty, so is the chunk size.
Accepts(db, start, vals) ==
  /\ start + Len(vals) <= Capacity
  /\ vals # <<>> => db # Placeholder

\* The effect of an accepted shard; every other payload keeps its value.
EncodeShard(db, start, vals) ==
  IF vals = <<>> THEN db
  ELSE [i \in Index |-> IF i \in Shard(start, Len(vals))
                        THEN vals[i - start + 1] ELSE db[i]]

SameStripe(d, e, s) == \A i \in Index : Stripe(i) = s => d[i] = e[i]
=============================================================================

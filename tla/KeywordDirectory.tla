-------------------------- MODULE KeywordDirectory --------------------------
(***************************************************************************)
(* The keyword directory of `keyword/directory.rs` as a value, and its     *)
(* operations as operators.  A directory is a minimal perfect hash over a  *)
(* fixed key set followed by the keys added since, in the order in which   *)
(* they were added.  `base`, the key set the hash was built over, is kept  *)
(* for the properties only: the program does not store it.                 *)
(***************************************************************************)
EXTENDS Integers, Sequences, FiniteSets, SequencesExt

CONSTANT Keys

\* The hashes `KeywordIndex::build` may return for a key set: injective on the
\* set, and total, with an arbitrary slot for a key outside of it.
Mphfs(base) ==
  {slot \in [Keys -> 0 .. Cardinality(base) - 1] :
     \A k, l \in base : slot[k] = slot[l] => k = l}

\* `KeywordDirectory::new`, when the hash fits the capacity.
NewDirectory(base, slot, capacity, version) ==
  [base |-> base, slot |-> slot, delta |-> <<>>, lookup |-> <<>>,
   version |-> version, capacity |-> capacity]

BaseLen(d) == Cardinality(d.base)
DirectoryLen(d) == BaseLen(d) + Len(d.delta)
Known(d) == d.base \cup ToSet(d.delta)

\* Mutant: the delta is not consulted, the hash answers every key.
IndexHashOnly(d, k) == d.slot[k]

\* index: the delta first, the hash second
IndexOf(d, k) ==
  IF k \in DOMAIN d.lookup THEN BaseLen(d) + d.lookup[k] ELSE d.slot[k]

\* The insertions of push and read_delta_entries: each new key gets the next
\* position, in both the vector and the reverse map.
Extend(d, tail) ==
  [d EXCEPT !.delta = @ \o tail,
            !.lookup = [k \in DOMAIN @ \cup ToSet(tail) |->
                          IF k \in DOMAIN @ THEN @[k]
                          ELSE Len(d.delta) + (CHOOSE j \in 1 .. Len(tail) : tail[j] = k) - 1]]

CanPush(d, k) == k \notin DOMAIN d.lookup /\ DirectoryLen(d) < d.capacity
Push(d, k) == Extend(d, <<k>>)

NeedsRebuildAt(d, threshold) == Len(d.delta) >= threshold

\* Mutant: the new directory may address no more than its own keys.
RebuiltTight(d, all, slot) == NewDirectory(all, slot, Cardinality(all), d.version + 1)

\* rebuilt, given one hash the construction may find for the complete key set
CanRebuild(d, all) == Cardinality(all) <= d.capacity
Rebuilt(d, all, slot) == NewDirectory(all, slot, d.capacity, d.version + 1)

\* write_delta_envelope_from: refused when have is past the end
CanWriteEnvelope(d, have) == have <= Len(d.delta)
Envelope(d, have) ==
  [version |-> d.version, baseLen |-> BaseLen(d), start |-> have,
   capacity |-> d.capacity, keys |-> SubSeq(d.delta, have + 1, Len(d.delta))]

\* The entries read_delta_entries appends before it stops at a key it has, or
\* at the end of what arrived: an error leaves the entries already read.
NewEntries(d, keys) ==
  SubSeq(keys, 1, CHOOSE n \in 0 .. Len(keys) :
    /\ \A a \in 1 .. n : keys[a] \notin DOMAIN d.lookup /\ \A b \in 1 .. a - 1 : keys[b] # keys[a]
    /\ n < Len(keys) =>
         keys[n + 1] \in DOMAIN d.lookup \cup {keys[b] : b \in 1 .. n})

\* read_delta_entries on a count of which only the first keys arrived
ReadEntries(d, count, keys) ==
  IF DirectoryLen(d) + count > d.capacity THEN d ELSE Extend(d, NewEntries(d, keys))

\* Mutant: the generation is not compared.
AcceptsAnyVersion(d, e) ==
  /\ e.baseLen = BaseLen(d)
  /\ e.start = Len(d.delta)
  /\ e.capacity = d.capacity

\* Mutant: the start offset is taken for an index of the directory.
AcceptsDirectoryOffset(d, e) ==
  /\ e.version = d.version
  /\ e.baseLen = BaseLen(d)
  /\ e.start = DirectoryLen(d)
  /\ e.capacity = d.capacity

\* The header checks of apply_delta_envelope
AcceptsEnvelope(d, e) ==
  /\ e.version = d.version
  /\ e.baseLen = BaseLen(d)
  /\ e.start = Len(d.delta)
  /\ e.capacity = d.capacity

\* apply_delta_envelope when the first `arrived` keys of the envelope can be read
ApplyEnvelope(d, e, arrived) ==
  IF AcceptsEnvelope(d, e)
  THEN ReadEntries(d, Len(e.keys), SubSeq(e.keys, 1, arrived)) ELSE d

\* write_to then read_from of the whole blob: the reverse map is derived again
\* from the order of the entries.
Transferred(d) ==
  ReadEntries(NewDirectory(d.base, d.slot, d.capacity, d.version),
              Len(d.delta), d.delta)
=============================================================================

---------------------------- MODULE RefreshLoop ----------------------------
(***************************************************************************)
(* The refresh loop documented on PrecompContext (`server/mod.rs`): detach *)
(* a context once, then fill the staging database, run offline_for on it,  *)
(* install the pair and refill what install hands back, while the server   *)
(* keeps answering.  The loop is the caller's code; the calls it makes are *)
(* the actions of RecursionServer.  The records come from a source that    *)
(* changes while they are copied; a payload value is its version.          *)
(*                                                                         *)
(* A precomputation may panic (a Gemm backend can be the caller's own).  A *)
(* caller that catches the panic calls offline_for again with the buffer   *)
(* it is left with, or allocates a new one, or discards the context too.   *)
(***************************************************************************)
EXTENDS RecursionServer

CONSTANTS
  ShardLen,      \* payloads copied per encode_shard call
  MaxVersion,    \* bound on the changes of one payload of the source
  Recovery,      \* what a caller may do about a caught panic
  MaxPanics      \* bound on panics

VARIABLES
  source,   \* the record store the loop copies from
  phase,    \* the loop's place
  cursor,   \* the next payload to copy into staging
  panics

loopVars == <<source, phase, cursor, panics>>
allVars == <<vars, loopVars>>

ASSUME LoopAssumption ==
  /\ ShardLen \in Nat \ {0}
  /\ MaxVersion \in Nat /\ MaxPanics \in Nat
  /\ Recovery \subseteq {"retry", "allocate", "discard"} /\ Recovery # {}
  /\ Capacity % ShardLen = 0
  /\ Values = 0 .. MaxVersion /\ Zero = 0

LoopInit ==
  /\ Init
  /\ source = Zeroed
  /\ phase = [w \in Workers |-> "start"]
  /\ cursor = [w \in Workers |-> 0]
  /\ panics = 0

-----------------------------------------------------------------------------
Goto(w, p) == phase' = [phase EXCEPT ![w] = p]

\* The record store changes under the loop.
ChangeSource(i) ==
  /\ source[i] < MaxVersion
  /\ source' = [source EXCEPT ![i] = @ + 1]
  /\ UNCHANGED <<vars, phase, cursor, panics>>

\* let mut ctx = server.lock().precomp_context();
Start(w) ==
  /\ phase[w] = "start"
  /\ Detach(w)
  /\ Goto(w, "allocate")
  /\ UNCHANGED <<source, cursor, panics>>

\* Mutant: a buffer that cannot be filled is not replaced.
AllocateOnce(w) ==
  /\ \/ phase[w] = "allocate"
     \/ phase[w] = "unwound" /\ "allocate" \in Recovery
  /\ NewDatabase(w)
  /\ Goto(w, "refill")
  /\ cursor' = [cursor EXCEPT ![w] = 0]
  /\ UNCHANGED <<source, panics>>

Allocate(w) ==
  /\ \/ phase[w] \in {"allocate", "unfillable"}
     \/ phase[w] = "unwound" /\ "allocate" \in Recovery
  /\ NewDatabase(w)
  /\ Goto(w, "refill")
  /\ cursor' = [cursor EXCEPT ![w] = 0]
  /\ UNCHANGED <<source, panics>>

\* One encode_shard call of a full refill.
Refill(w) ==
  /\ phase[w] = "refill"
  /\ Fill(w, cursor[w], [k \in 1 .. ShardLen |-> source[cursor[w] + k - 1]])
  /\ cursor' = [cursor EXCEPT ![w] = @ + ShardLen]
  /\ IF cursor[w] + ShardLen = Capacity THEN Goto(w, "filled") ELSE UNCHANGED phase
  /\ UNCHANGED <<source, panics>>

\* encode_shard panics on a buffer that has no matrices.
RefillPanics(w) ==
  /\ phase[w] = "refill" /\ staging[w] = Placeholder
  /\ Goto(w, "unfillable")
  /\ UNCHANGED <<vars, source, cursor, panics>>

\* let (precomp, _) = ctx.offline_for(&mut staging);
OfflineFor(w) ==
  /\ \/ phase[w] = "filled" /\ SwapIn(w) /\ Goto(w, "offline")
     \/ phase[w] = "offline" /\ Precompute(w) /\ UNCHANGED phase
     \/ phase[w] = "offline" /\ SwapOut(w) /\ Goto(w, "computed")
  /\ UNCHANGED <<source, cursor, panics>>

OfflineForPanics(w) ==
  /\ phase[w] = "offline" /\ panics < MaxPanics
  /\ PrecomputePanics(w)
  /\ Goto(w, "unwound")
  /\ panics' = panics + 1
  /\ UNCHANGED <<source, cursor, writes>>

RetryOfflineFor(w) ==
  /\ phase[w] = "unwound" /\ "retry" \in Recovery
  /\ Goto(w, "filled")
  /\ UNCHANGED <<vars, source, cursor, panics>>

DiscardContext(w) ==
  /\ phase[w] = "unwound" /\ "discard" \in Recovery
  /\ Drop(w)
  /\ Goto(w, "start")
  /\ UNCHANGED <<source, cursor, panics>>

\* Mutant: the buffer install hands back is taken to be filled.
InstallUnfilled(w) ==
  /\ phase[w] = "computed"
  /\ Install(w)
  /\ Goto(w, "filled")
  /\ cursor' = [cursor EXCEPT ![w] = 0]
  /\ UNCHANGED <<source, panics>>

\* server.lock().install(&mut staging, precomp);
InstallPair(w) ==
  /\ phase[w] = "computed"
  /\ Install(w)
  /\ Goto(w, "refill")
  /\ cursor' = [cursor EXCEPT ![w] = 0]
  /\ UNCHANGED <<source, panics>>

Serve ==
  /\ ServerStep
  /\ UNCHANGED <<loopVars, writes>>

LoopStep(w) ==
  /\ \/ Start(w) \/ Allocate(w) \/ Refill(w) \/ RefillPanics(w)
     \/ OfflineFor(w) \/ RetryOfflineFor(w) \/ DiscardContext(w)
     \/ InstallPair(w)
  /\ UNCHANGED writes

LoopNext ==
  \/ \E i \in Index : ChangeSource(i)
  \/ Serve
  \/ \E w \in Workers : LoopStep(w) \/ OfflineForPanics(w)

LoopSpec == LoopInit /\ [][LoopNext]_allVars

\* SETUP is called, and a worker that can take its next step takes it: nothing
\* in offline_for waits for the live server.
Fairness ==
  /\ WF_allVars(GenerateQueryMask /\ UNCHANGED <<loopVars, writes>>)
  /\ \A w \in Workers : WF_allVars(LoopStep(w))

FairLoopSpec == LoopSpec /\ Fairness

-----------------------------------------------------------------------------
(* Properties *)

LoopTypeOK ==
  /\ TypeOK
  /\ source \in [Index -> Values]
  /\ phase \in [Workers -> {"start", "allocate", "refill", "filled", "offline",
                            "computed", "unwound", "unfillable"}]
  /\ cursor \in [Workers -> 0 .. Capacity]
  /\ panics \in 0 .. MaxPanics

\* Under the documented loop what is served is always an exact pair, caught
\* panics, repeated calls and reused buffers included: after a panic the server
\* may lose its database to a shell, but then the precomputation is empty too
\* and respond refuses instead of answering wrongly.
ServedPairExact == CanRespond => database = precomputation

\* The loop implements a store that is replaced as a whole: a batch never mixes
\* two databases, and no reply holds garbage.
Store == INSTANCE SnapshotStore WITH store <- precomputation
ImplementsStore == Store!Spec

\* One loop never serves an older version of a payload after a newer one, although
\* the buffer it refills is the database before last: always, if it discards its
\* context after a panic; up to the second panic, if it keeps it.  (The database
\* the first panic left inside a kept context comes back to the caller when a
\* second call unwinds and is retried.)
NotOlder(seen, now) ==
  \A i \in DOMAIN seen \cap DOMAIN now :
    seen[i] = Garbage \/ now[i] = Garbage \/ now[i] >= seen[i]

MonotonicReads ==
  [][panics' <= 1 \/ Recovery = {"discard"} =>
       \A c \in Clients : reply[c] # Nothing /\ reply'[c] # Nothing
                            => NotOlder(reply[c], reply'[c])]_allVars

\* When the source stops changing the server ends up serving it, even after an
\* outage in which a database without matrices was installed.
Converges == <>[](precomputation = source /\ database = source)
=============================================================================

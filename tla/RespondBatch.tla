---------------------------- MODULE RespondBatch ----------------------------
(***************************************************************************)
(* `respond_recursion_batch` of `server/recursion/online.rs`: a batch is   *)
(* cut into chunks whose level-1 bodies fit a memory budget; the queries   *)
(* of a chunk are finished by scoped workers, each with a run of the       *)
(* queries, the bodies and the response slots, and a slab of the scratch   *)
(* arenas, which are moved out of the server for the duration.  A worker   *)
(* may panic (a kernel of the caller's, a malformed query, no offline); a  *)
(* caller that catches the panic keeps the server and calls again.         *)
(*                                                                         *)
(* The queries of a batch are 1, 2, ...; a response is the query and the   *)
(* bodies it was made from.                                                *)
(***************************************************************************)
EXTENDS Integers, Sequences

CONSTANTS
  Cores,      \* num_threads_online(usize::MAX): the online worker budget
  Warmed,     \* arenas the offline phase leaves in the pool
  ChunkCap,   \* queries whose bodies fit BODY_BUDGET
  MaxBatch,   \* bound on the length of a batch
  MaxPanics   \* bound on panics

VARIABLES
  pool,       \* length of Server::scratch_pool
  phase,      \* "idle", "select" (level-1 bodies), or "finish" (the scope)
  batch,      \* length of the batch of the last call
  responses,  \* what the call has collected
  taken,      \* arenas moved out of the server
  slots,      \* the response slots of the chunk, Empty at first
  answered,   \* per worker of the scope, how many of its queries are done
  stopped,    \* the workers that panicked
  panics

batchVars == <<pool, phase, batch, responses, taken, slots, answered, stopped, panics>>

ASSUME BatchAssumption ==
  /\ Cores \in Nat \ {0}
  /\ {Warmed, ChunkCap, MaxBatch, MaxPanics} \subseteq Nat

Min(a, b) == IF a < b THEN a ELSE b
Max(a, b) == IF a < b THEN b ELSE a

-----------------------------------------------------------------------------
(* Shares *)

\* The cap is clamped to one query at least and the batch at most.
ChunkLen == Min(Max(ChunkCap, 1), batch)
Offset == Len(responses)
Chunk == Min(ChunkLen, batch - Offset)

ThreadsPerQuery == Max(Cores \div Chunk, 1)

\* Mutant: every query gets a worker.
ParallelQueriesAll == Chunk

ParallelQueries == Max(Min(Cores \div ThreadsPerQuery, Chunk), 1)
PoolNeeded == ParallelQueries * ThreadsPerQuery
ScopeWorkers == 0 .. ParallelQueries - 1

\* Mutant: the remainder is not dealt.
CountFloor(w) == Chunk \div ParallelQueries

\* Queries of worker w: the first ones get one more.
Count(w) == Chunk \div ParallelQueries + (IF w < Chunk % ParallelQueries THEN 1 ELSE 0)

\* Mutant: the queries are counted off as if all shares were of a size.
FirstEven(w) == w * (Chunk \div ParallelQueries)

\* q_start: the queries of the workers before w
First(w) == w * (Chunk \div ParallelQueries) + Min(w, Chunk % ParallelQueries)

\* What the workers before w took off the bodies and the slots
Split(w) == w * (Chunk \div ParallelQueries) + Min(w, Chunk % ParallelQueries)

Empty == [query |-> 0, bodies |-> 0]

\* split_at_mut in steps of threads_per_query
Slab(w) == w * ThreadsPerQuery .. (w + 1) * ThreadsPerQuery - 1

-----------------------------------------------------------------------------
BatchInit ==
  /\ pool = Warmed
  /\ phase = "idle"
  /\ batch = 0
  /\ responses = << >>
  /\ taken = 0
  /\ slots = << >>
  /\ answered = << >>
  /\ stopped = {}
  /\ panics = 0

\* A call with a batch that is not empty (the empty one returns at once)
Call(n) ==
  /\ phase = "idle"
  /\ phase' = "select"
  /\ batch' = n
  /\ responses' = << >>
  /\ UNCHANGED <<pool, taken, slots, answered, stopped, panics>>

\* recursion_l1_bodies, then the pool is moved out and grown to what is needed
SelectBodies ==
  /\ phase = "select"
  /\ phase' = "finish"
  /\ pool' = 0
  /\ taken' = Max(pool, PoolNeeded)
  /\ slots' = [q \in 1 .. Chunk |-> Empty]
  /\ answered' = [w \in ScopeWorkers |-> 0]
  /\ stopped' = {}
  /\ UNCHANGED <<batch, responses, panics>>

\* The level-1 product panics: the pool has not been moved.
SelectPanics ==
  /\ phase = "select" /\ panics < MaxPanics
  /\ phase' = "idle"
  /\ batch' = 0
  /\ responses' = << >>
  /\ panics' = panics + 1
  /\ UNCHANGED <<pool, taken, slots, answered, stopped>>

Busy(w) == w \notin stopped /\ answered[w] < Count(w)

\* A worker finishes its next query and fills that query's slot.  Bodies and slots
\* are dealt by splitting, the queries by a running start.
FinishQuery(w) ==
  /\ phase = "finish" /\ Busy(w)
  /\ LET i == answered[w] + 1
     IN slots' = [slots EXCEPT ![Split(w) + i] =
          [query |-> Offset + First(w) + i, bodies |-> Offset + Split(w) + i]]
  /\ answered' = [answered EXCEPT ![w] = @ + 1]
  /\ UNCHANGED <<pool, phase, batch, responses, taken, stopped, panics>>

\* The other workers run on: the scope joins them all before it unwinds.
WorkerPanics(w) ==
  /\ phase = "finish" /\ Busy(w) /\ panics < MaxPanics
  /\ stopped' = stopped \cup {w}
  /\ panics' = panics + 1
  /\ UNCHANGED <<pool, phase, batch, responses, taken, slots, answered>>

\* Mutant: the scope ends when every query is answered.
JoinedByCount == phase = "finish" /\ \A w \in ScopeWorkers : answered[w] = Count(w)

Joined == phase = "finish" /\ \A w \in ScopeWorkers : ~Busy(w)

\* Mutant: the pool is only put back after the last chunk.
CollectKeepsPool ==
  /\ Joined /\ stopped = {}
  /\ pool' = IF Offset + Chunk = batch THEN taken ELSE 0
  /\ taken' = 0
  /\ responses' = responses \o slots
  /\ phase' = IF Offset + Chunk = batch THEN "idle" ELSE "select"
  /\ UNCHANGED <<batch, slots, answered, stopped, panics>>

\* The pool goes back and the slots are collected; the last chunk ends the call.
Collect ==
  /\ Joined /\ stopped = {}
  /\ pool' = taken
  /\ taken' = 0
  /\ responses' = responses \o slots
  /\ phase' = IF Offset + Chunk = batch THEN "idle" ELSE "select"
  /\ UNCHANGED <<batch, slots, answered, stopped, panics>>

\* A panic leaves the scope: the arenas are freed with the local that holds them.
Unwind ==
  /\ Joined /\ stopped # {}
  /\ phase' = "idle"
  /\ batch' = 0
  /\ responses' = << >>
  /\ taken' = 0
  /\ UNCHANGED <<pool, slots, answered, stopped, panics>>

Step ==
  \/ SelectBodies
  \/ \E w \in 0 .. Cores - 1 : w \in DOMAIN answered /\ FinishQuery(w)
  \/ Collect
  \/ Unwind

BatchNext ==
  \/ \E n \in 1 .. MaxBatch : Call(n)
  \/ Step
  \/ SelectPanics
  \/ \E w \in 0 .. Cores - 1 : w \in DOMAIN answered /\ WorkerPanics(w)

\* A call that runs keeps running.
BatchSpec == BatchInit /\ [][BatchNext]_batchVars /\ WF_batchVars(Step)

-----------------------------------------------------------------------------
(* Properties *)

TypeOK ==
  /\ {pool, taken, batch, panics} \subseteq Nat
  /\ phase \in {"idle", "select", "finish"}
  /\ \A k \in DOMAIN responses : {responses[k].query, responses[k].bodies} \subseteq 1 .. batch
  /\ phase = "finish" =>
       /\ DOMAIN slots = 1 .. Chunk
       /\ answered \in [ScopeWorkers -> 0 .. Chunk]
       /\ stopped \subseteq ScopeWorkers

\* A response is the answer to the query at its place in the batch, made from
\* that query's own bodies, in every chunk and whatever the order in which the
\* workers finish; a call that returns has one response for every query.
AnswersInOrder ==
  /\ \A k \in DOMAIN responses : responses[k] = [query |-> k, bodies |-> k]
  /\ phase = "idle" => Len(responses) = batch

\* The workers of a scope share no arena, ask for none that is not there, and
\* are never more than the budget.
SlabsFit ==
  phase = "finish" =>
    /\ PoolNeeded <= Cores
    /\ \A w \in ScopeWorkers : \A a \in Slab(w) : a < taken
    /\ \A v, w \in ScopeWorkers : v # w => Slab(v) \cap Slab(w) = {}

\* Arenas are only ever given up to a call, and come back when it ends: a server
\* loses warmed arenas to a worker's panic and to nothing else.
ArenasLostOnlyToPanics ==
  [][phase' # "finish" /\ pool' + taken' < pool + taken => stopped # {}]_batchVars

\* Every call returns or unwinds.
CallsEnd == phase # "idle" ~> phase = "idle"

\* online.rs:113 says of the split of the cores that either way every core stays
\* busy.
EveryCoreBusy == phase = "finish" => PoolNeeded = Cores
=============================================================================

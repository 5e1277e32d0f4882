-------------------------- MODULE RecursionServer --------------------------
(***************************************************************************)
(* The InsPIRe^2 (Collapse::Recursion) server of `server/mod.rs` and       *)
(* `server/recursion/`, with the detached precomputation contexts that run *)
(* beside it.  Each action is one call; the calls on the Server take       *)
(* `&self` or `&mut self` and are atomic with respect to one another, the  *)
(* steps of `PrecompContext::offline_for` are not: they borrow nothing     *)
(* from the Server and interleave with its calls.                          *)
(*                                                                         *)
(* A precomputation is represented by the database it is the mask side of; *)
(* Placeholder stands for the default one, whose l1_precompute is empty,   *)
(* which is also what a context computes from a database without matrices. *)
(*                                                                         *)
(* The calls may come in any order the API allows.  dirty and stagingDirty *)
(* are history variables: what was written since the pair last agreed.     *)
(***************************************************************************)
EXTENDS PirData

CONSTANTS
  Workers,      \* threads that own a PrecompContext and a staging database
  Clients,
  ShardValues,  \* the payload runs the callers write
  Loads,        \* the databases the callers write as a whole
  Batches,      \* the sets of payload indices a batch asks for
  MaxWrites     \* bound on the number of writes

VARIABLES
  database,         \* Server::database
  masksReady,       \* RecursionState::q0_masks and q1_masks are not empty
  precomputation,   \* Server::precomputation
  dirty,            \* stripes written since the last offline or install
  pc,               \* where a worker is: "ready", or inside offline_for
  inner,            \* PrecompContext::inner.database, Nothing without a context
  innerPre,         \* PrecompContext::inner.precomputation
  staging,          \* the worker's staging database
  handed,           \* the precomputation offline_for returned and install has not taken
  stagingDirty,     \* stripes of staging that may differ from what handed was computed on
  reply,            \* the last batch of decoded payloads of each client
  writes

serverVars == <<database, masksReady, precomputation, dirty>>
workerVars == <<pc, inner, innerPre, staging, handed, stagingDirty>>
vars == <<serverVars, workerVars, reply, writes>>

ASSUME ServerAssumption ==
  /\ ShardValues \subseteq Seq(Values)
  /\ Loads \subseteq Databases
  /\ Batches \subseteq SUBSET Index
  /\ MaxWrites \in Nat

Init ==
  /\ database = Zeroed
  /\ masksReady = FALSE
  /\ precomputation = Placeholder
  /\ dirty = {}
  /\ pc = [w \in Workers |-> "ready"]
  /\ inner = [w \in Workers |-> Nothing]
  /\ innerPre = [w \in Workers |-> Placeholder]
  /\ staging = [w \in Workers |-> Nothing]
  /\ handed = [w \in Workers |-> Nothing]
  /\ stagingDirty = [w \in Workers |-> {}]
  /\ reply = [c \in Clients |-> Nothing]
  /\ writes = 0

-----------------------------------------------------------------------------
(* The live server *)

\* Arc::get_mut succeeds only when no context shares the SETUP state.
Exclusive == \A w \in Workers : inner[w] = Nothing

\* SETUP.  While a context is alive the call panics before it stores a mask.
GenerateQueryMask ==
  /\ Exclusive
  /\ masksReady' = TRUE
  /\ UNCHANGED <<database, precomputation, dirty, workerVars, reply>>

UpdateShard(start, vals) ==
  /\ Accepts(database, start, vals)
  /\ database' = EncodeShard(database, start, vals)
  /\ dirty' = dirty \cup Touched(start, Len(vals))
  /\ UNCHANGED <<masksReady, precomputation, workerVars, reply>>

\* encode: all records at once.  Without matrices the first write is out of bounds.
Encode(load) ==
  /\ database # Placeholder
  /\ database' = load
  /\ dirty' = Stripes
  /\ UNCHANGED <<masksReady, precomputation, workerVars, reply>>

\* Mutant: offline skips a server that has a precomputation already.
OfflineOnce ==
  /\ masksReady \/ Exclusive
  /\ masksReady' = TRUE
  /\ precomputation' = IF precomputation = Placeholder THEN database ELSE precomputation
  /\ dirty' = {}
  /\ UNCHANGED <<database, workerVars, reply>>

\* offline: SETUP first when it has not run, then the precomputation, which is
\* assigned as a whole after every product has succeeded.
Offline ==
  /\ masksReady \/ Exclusive
  /\ masksReady' = TRUE
  /\ precomputation' = database
  /\ dirty' = {}
  /\ UNCHANGED <<database, workerVars, reply>>

\* A panic inside a product unwinds before the assignment.
OfflinePanics ==
  /\ masksReady \/ Exclusive
  /\ masksReady' = TRUE
  /\ UNCHANGED <<database, precomputation, dirty, workerVars, reply>>

\* What the client decodes for payload i.  The body side multiplies the live
\* database, the mask side is the precomputation: the product decrypts where
\* the two agree on the whole coefficient row.
Answer(i) ==
  IF database # Placeholder /\ SameStripe(database, precomputation, Stripe(i))
  THEN database[i] ELSE Garbage

\* "call Server::offline() before respond()"
CanRespond == precomputation # Placeholder

\* Mutant: the first payload a client got is cached across calls.
RespondBatchCached(c, batch) ==
  /\ batch # {} => CanRespond
  /\ reply' = [reply EXCEPT ![c] =
       [i \in batch |-> IF i = 0 /\ reply[c] # Nothing /\ 0 \in DOMAIN reply[c]
                        THEN reply[c][0] ELSE Answer(i)]]
  /\ UNCHANGED <<serverVars, workerVars>>

\* respond_batch: one call answers every query of the batch; an empty batch
\* returns before anything is looked at.
RespondBatch(c, batch) ==
  /\ batch # {} => CanRespond
  /\ reply' = [reply EXCEPT ![c] = [i \in batch |-> Answer(i)]]
  /\ UNCHANGED <<serverVars, workerVars>>

-----------------------------------------------------------------------------
(* Detached precomputation *)

\* Mutant: the context expands its masks itself.
DetachBeforeSetup(w) ==
  /\ pc[w] = "ready" /\ inner[w] = Nothing
  /\ inner' = [inner EXCEPT ![w] = Placeholder]
  /\ innerPre' = [innerPre EXCEPT ![w] = Placeholder]
  /\ UNCHANGED <<serverVars, pc, staging, handed, stagingDirty, reply>>

Detach(w) ==
  /\ pc[w] = "ready" /\ inner[w] = Nothing
  /\ masksReady
  /\ inner' = [inner EXCEPT ![w] = Placeholder]
  /\ innerPre' = [innerPre EXCEPT ![w] = Placeholder]
  /\ UNCHANGED <<serverVars, pc, staging, handed, stagingDirty, reply>>

\* The context goes out of scope, with whatever database it holds.
Drop(w) ==
  /\ pc[w] = "ready" /\ inner[w] # Nothing
  /\ inner' = [inner EXCEPT ![w] = Nothing]
  /\ innerPre' = [innerPre EXCEPT ![w] = Placeholder]
  /\ UNCHANGED <<serverVars, pc, staging, handed, stagingDirty, reply>>

NewDatabase(w) ==
  /\ pc[w] = "ready"
  /\ staging' = [staging EXCEPT ![w] = Zeroed]
  /\ stagingDirty' = [stagingDirty EXCEPT ![w] = Stripes]
  /\ UNCHANGED <<serverVars, pc, inner, innerPre, handed, reply>>

Fill(w, start, vals) ==
  /\ pc[w] = "ready" /\ staging[w] # Nothing
  /\ Accepts(staging[w], start, vals)
  /\ staging' = [staging EXCEPT ![w] = EncodeShard(staging[w], start, vals)]
  /\ stagingDirty' = [stagingDirty EXCEPT ![w] = @ \cup Touched(start, Len(vals))]
  /\ UNCHANGED <<serverVars, pc, inner, innerPre, handed, reply>>

EncodeStaging(w, load) ==
  /\ pc[w] = "ready" /\ staging[w] \notin {Nothing, Placeholder}
  /\ staging' = [staging EXCEPT ![w] = load]
  /\ stagingDirty' = [stagingDirty EXCEPT ![w] = Stripes]
  /\ UNCHANGED <<serverVars, pc, inner, innerPre, handed, reply>>

\* offline_for, first swap: the caller is left with what the context held.
\* A caller that calls again before install may keep the precomputation it has.
SwapIn(w) ==
  /\ pc[w] = "ready" /\ inner[w] # Nothing /\ staging[w] # Nothing
  /\ pc' = [pc EXCEPT ![w] = "swapped"]
  /\ inner' = [inner EXCEPT ![w] = staging[w]]
  /\ staging' = [staging EXCEPT ![w] = inner[w]]
  /\ stagingDirty' = [stagingDirty EXCEPT ![w] = Stripes]
  /\ UNCHANGED <<serverVars, innerPre, handed, reply>>

\* offline_recursion_precompute on the swapped-in database
Precompute(w) ==
  /\ pc[w] = "swapped"
  /\ pc' = [pc EXCEPT ![w] = "computed"]
  /\ innerPre' = [innerPre EXCEPT ![w] = inner[w]]
  /\ UNCHANGED <<serverVars, inner, staging, handed, stagingDirty, reply>>

\* Mutant: offline_for returns without the second swap.
SwapOutForgotten(w) ==
  /\ pc[w] = "computed"
  /\ pc' = [pc EXCEPT ![w] = "ready"]
  /\ handed' = [handed EXCEPT ![w] = innerPre[w]]
  /\ innerPre' = [innerPre EXCEPT ![w] = Placeholder]
  /\ stagingDirty' = [stagingDirty EXCEPT ![w] = {}]
  /\ UNCHANGED <<serverVars, inner, staging, reply>>

\* Mutant: the precomputation is taken and no default is left in its place.
SwapOutTakes(w) ==
  /\ pc[w] = "computed"
  /\ pc' = [pc EXCEPT ![w] = "ready"]
  /\ inner' = [inner EXCEPT ![w] = staging[w]]
  /\ staging' = [staging EXCEPT ![w] = inner[w]]
  /\ handed' = [handed EXCEPT ![w] = innerPre[w]]
  /\ innerPre' = [innerPre EXCEPT ![w] = Nothing]
  /\ stagingDirty' = [stagingDirty EXCEPT ![w] = {}]
  /\ UNCHANGED <<serverVars, reply>>

\* Second swap, then the precomputation is moved out to the caller.
SwapOut(w) ==
  /\ pc[w] = "computed"
  /\ pc' = [pc EXCEPT ![w] = "ready"]
  /\ inner' = [inner EXCEPT ![w] = staging[w]]
  /\ staging' = [staging EXCEPT ![w] = inner[w]]
  /\ handed' = [handed EXCEPT ![w] = innerPre[w]]
  /\ innerPre' = [innerPre EXCEPT ![w] = Placeholder]
  /\ stagingDirty' = [stagingDirty EXCEPT ![w] = {}]
  /\ UNCHANGED <<serverVars, reply>>

\* A product panics and the caller catches it: nothing swaps back.
PrecomputePanics(w) ==
  /\ pc[w] = "swapped"
  /\ pc' = [pc EXCEPT ![w] = "ready"]
  /\ UNCHANGED <<serverVars, inner, innerPre, staging, handed, stagingDirty,
                 reply, writes>>

\* Mutant: only the database is swapped in.
InstallDatabaseOnly(w) ==
  /\ pc[w] = "ready" /\ handed[w] # Nothing /\ staging[w] # Nothing
  /\ database' = staging[w]
  /\ dirty' = stagingDirty[w]
  /\ staging' = [staging EXCEPT ![w] = database]
  /\ handed' = [handed EXCEPT ![w] = Nothing]
  /\ stagingDirty' = [stagingDirty EXCEPT ![w] = Stripes]
  /\ UNCHANGED <<masksReady, precomputation, pc, inner, innerPre, reply>>

\* install: the precomputation moves in, the databases swap.
Install(w) ==
  /\ pc[w] = "ready" /\ handed[w] # Nothing /\ staging[w] # Nothing
  /\ precomputation' = handed[w]
  /\ database' = staging[w]
  /\ dirty' = stagingDirty[w]
  /\ staging' = [staging EXCEPT ![w] = database]
  /\ handed' = [handed EXCEPT ![w] = Nothing]
  /\ stagingDirty' = [stagingDirty EXCEPT ![w] = Stripes]
  /\ UNCHANGED <<masksReady, pc, inner, innerPre, reply>>

-----------------------------------------------------------------------------
ServerStep ==
  \/ GenerateQueryMask
  \/ Offline
  \/ OfflinePanics
  \/ \E c \in Clients, batch \in Batches : RespondBatch(c, batch)

WorkerStep(w) ==
  \/ Detach(w)
  \/ Drop(w)
  \/ NewDatabase(w)
  \/ SwapIn(w)
  \/ Precompute(w)
  \/ SwapOut(w)
  \/ PrecomputePanics(w)
  \/ Install(w)

Write(start, vals) ==
  \/ UpdateShard(start, vals)
  \/ \E w \in Workers : Fill(w, start, vals)

Rewrite(load) ==
  \/ Encode(load)
  \/ \E w \in Workers : EncodeStaging(w, load)

Next ==
  \/ ServerStep /\ UNCHANGED writes
  \/ (\E w \in Workers : WorkerStep(w)) /\ UNCHANGED writes
  \/ /\ writes < MaxWrites
     /\ writes' = writes + 1
     /\ \/ \E start \in Index, vals \in ShardValues : Write(start, vals)
        \/ \E load \in Loads : Rewrite(load)

Spec == Init /\ [][Next]_vars

-----------------------------------------------------------------------------
(* Properties *)

TypeOK ==
  /\ database \in Stored
  /\ masksReady \in BOOLEAN
  /\ precomputation \in Stored
  /\ dirty \subseteq Stripes
  /\ pc \in [Workers -> {"ready", "swapped", "computed"}]
  /\ inner \in [Workers -> Stored \cup {Nothing}]
  /\ innerPre \in [Workers -> Stored]
  /\ staging \in [Workers -> Stored \cup {Nothing}]
  /\ handed \in [Workers -> Stored \cup {Nothing}]
  /\ stagingDirty \in [Workers -> SUBSET Stripes]
  /\ DOMAIN reply = Clients
  /\ writes \in 0 .. MaxWrites

\* Two uses of the same words: a database and a precomputation agree on every
\* stripe outside d, unless the precomputation is the empty one.
AgreeOutside(db, pre, d) ==
  pre # Placeholder =>
    \A s \in Stripes \ d : db \in Databases /\ SameStripe(db, pre, s)

\* The live pair differs only where a caller wrote since the last offline
\* or install, however many workers fill, precompute, panic and install in
\* between: what `install` calls a pair that must correspond.
LivePairAgrees == AgreeOutside(database, precomputation, dirty)

\* A worker's staging buffer and the precomputation it got for it differ only
\* where the worker filled the buffer afterwards, or gave it up to a call that
\* did not return.
StagedPairAgrees ==
  \A w \in Workers :
    handed[w] # Nothing /\ staging[w] # Nothing =>
      AgreeOutside(staging[w], handed[w], stagingDirty[w])

\* A live context implies that SETUP has run, so the offline phase never needs
\* exclusive access to the state a context shares (the expect in
\* recursion_state_mut never fires from offline or offline_for).
ContextsFollowSetup == Exclusive \/ masksReady

\* Every payload a respond call returns is the live database's, unless its
\* stripe was written after the last offline or install: staleness is confined
\* to the Cols payloads that share coefficient rows with the write.
GarbageOnlyFromDirtyStripes ==
  [][\A c \in Clients : reply'[c] # reply[c] =>
       \A i \in DOMAIN reply'[c] :
         \/ database \in Databases /\ reply'[c][i] = database[i]
         \/ reply'[c][i] = Garbage /\ Stripe(i) \in dirty]_vars
=============================================================================

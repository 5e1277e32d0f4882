------------------------- MODULE RefreshLoop_proofs -------------------------
(***************************************************************************)
(* Proofs about RecursionServer and about RefreshLoop, which extends it.   *)
(*                                                                         *)
(* First the live server and its contexts, for every shape of the          *)
(* database, every set of values, workers and clients, and any number of   *)
(* writes.  The properties of pairs are not inductive as they stand: what  *)
(* a worker is handed agrees with its staging buffer because, inside       *)
(* offline_for, the precomputation was made from the very database the     *)
(* second swap gives back.  InsideOfflineFor says so.                      *)
(*                                                                         *)
(* Then the loop: it serves exact pairs only, and it implements the        *)
(* snapshot store, for any number of loops on one server, any database,    *)
(* any number of panics and any way of recovering from them; and a server  *)
(* with one loop never goes back to an older version.                      *)
(***************************************************************************)
EXTENDS RefreshLoop, TLAPS

-----------------------------------------------------------------------------
(* The data *)

\* A payload's stripe is a stripe of the database.
LEMMA StripeRange == ASSUME NEW i \in Index PROVE Stripe(i) \in Stripes
<1>1. /\ Cols \in Nat /\ Cols > 0 /\ NumStripes \in Nat
      /\ i \in Int /\ 0 <= i /\ i < NumStripes * Cols
  BY DataAssumption DEF Index, Capacity
<1>2. i \div Cols \in Int /\ 0 <= i \div Cols
  BY <1>1
<1>3. Cols * (i \div Cols) <= i
  BY <1>1
<1>4. i \div Cols < NumStripes
  BY <1>1, <1>2, <1>3
<1> QED
  BY <1>1, <1>2, <1>4 DEF Stripe, Stripes

LEMMA TouchedStripes ==
  ASSUME NEW start \in Index, NEW len \in Nat
  PROVE  Touched(start, len) \subseteq Stripes
BY StripeRange DEF Touched, Shard

LEMMA ZeroedType == Zeroed \in Databases
BY DataAssumption DEF Zeroed, Databases

\* An accepted shard leaves a database a database.
LEMMA EncodeShardType ==
  ASSUME NEW db \in Stored, NEW start \in Index, NEW vals \in Seq(Values),
         Accepts(db, start, vals)
  PROVE  /\ EncodeShard(db, start, vals) \in Stored
         /\ db \in Databases => EncodeShard(db, start, vals) \in Databases
<1>1. CASE vals = <<>>
  BY <1>1 DEF EncodeShard
<1>2. CASE vals # <<>>
  <2>1. db \in Databases
    BY <1>2 DEF Accepts, Stored
  <2>2. ASSUME NEW i \in Shard(start, Len(vals))
        PROVE  vals[i - start + 1] \in Values
    <3>1. /\ i \in Int /\ start \in Int /\ Len(vals) \in Nat
          /\ start <= i /\ i < start + Len(vals)
      BY DEF Shard, Index
    <3>2. i - start + 1 \in 1 .. Len(vals)
      BY <3>1
    <3> QED
      BY <3>2
  <2>3. EncodeShard(db, start, vals) \in [Index -> Values]
    BY <1>2, <2>1, <2>2 DEF EncodeShard, Databases
  <2> QED
    BY <2>3 DEF Databases, Stored
<1> QED
  BY <1>1, <1>2

\* A shard disturbs the agreement of a database and a precomputation on the
\* stripes it touches and on no other.
LEMMA EncodeShardAgrees ==
  ASSUME NEW db \in Stored, NEW pre, NEW d, NEW start \in Index,
         NEW vals \in Seq(Values), Accepts(db, start, vals), AgreeOutside(db, pre, d)
  PROVE  AgreeOutside(EncodeShard(db, start, vals), pre, d \cup Touched(start, Len(vals)))
<1> SUFFICES ASSUME pre # Placeholder,
                    NEW s \in Stripes \ (d \cup Touched(start, Len(vals)))
             PROVE  /\ EncodeShard(db, start, vals) \in Databases
                    /\ SameStripe(EncodeShard(db, start, vals), pre, s)
  BY DEF AgreeOutside
<1>1. db \in Databases /\ SameStripe(db, pre, s)
  BY DEF AgreeOutside
<1>2. EncodeShard(db, start, vals) \in Databases
  BY <1>1, EncodeShardType
<1>3. ASSUME NEW i \in Index, Stripe(i) = s
      PROVE  EncodeShard(db, start, vals)[i] = db[i]
  <2>1. i \notin Shard(start, Len(vals))
    BY <1>3 DEF Touched
  <2> QED
    BY <2>1 DEF EncodeShard
<1> QED
  BY <1>1, <1>2, <1>3 DEF SameStripe

\* A database agrees everywhere with the precomputation made from it.
LEMMA OwnPrecomputationAgrees ==
  ASSUME NEW db \in Stored
  PROVE  AgreeOutside(db, db, {})
BY DEF AgreeOutside, Stored, SameStripe

\* Of a pair of which every stripe is in doubt nothing is claimed.
LEMMA NothingClaimed ==
  ASSUME NEW db, NEW pre
  PROVE  AgreeOutside(db, pre, Stripes)
BY DEF AgreeOutside

LEMMA StoredMembers == Zeroed \in Stored /\ Placeholder \in Stored /\ Nothing \notin Stored
BY ZeroedType, DataAssumption DEF Stored

-----------------------------------------------------------------------------
(* The invariant *)

\* A worker inside offline_for holds a database, left one to its caller, and
\* after the products its precomputation is the one of the database it holds.
InsideOfflineFor ==
  \A w \in Workers :
    /\ pc[w] # "ready" => inner[w] # Nothing /\ staging[w] # Nothing
    /\ pc[w] = "computed" => innerPre[w] = inner[w]

IInv == TypeOK /\ InsideOfflineFor /\ LivePairAgrees /\ StagedPairAgrees /\ ContextsFollowSetup

LEMMA InitIInv == Init => IInv
<1> SUFFICES ASSUME Init PROVE IInv
  OBVIOUS
<1>1. TypeOK
  <2>1. masksReady \in BOOLEAN
    BY DEF Init
  <2>2. writes \in 0 .. MaxWrites
    BY ServerAssumption DEF Init
  <2> QED
    BY <2>1, <2>2, StoredMembers DEF Init, TypeOK
<1>2. InsideOfflineFor
  BY DEF Init, InsideOfflineFor
<1>3. LivePairAgrees
  BY DEF Init, LivePairAgrees, AgreeOutside
<1>4. StagedPairAgrees
  BY DEF Init, StagedPairAgrees
<1>5. ContextsFollowSetup
  BY DEF Init, ContextsFollowSetup, Exclusive
<1> QED
  BY <1>1, <1>2, <1>3, <1>4, <1>5 DEF IInv
-----------------------------------------------------------------------------
(* The calls on the live server.  They leave the workers alone. *)

\* SETUP writes the masks only.
LEMMA GenerateQueryMaskIInv ==
  ASSUME IInv, writes' \in 0 .. MaxWrites, GenerateQueryMask
  PROVE  IInv'
<1>1. TypeOK'
  BY DEF GenerateQueryMask, workerVars, IInv, TypeOK
<1>2. InsideOfflineFor'
  BY DEF GenerateQueryMask, workerVars, IInv, InsideOfflineFor, TypeOK
<1>3. LivePairAgrees'
  BY DEF GenerateQueryMask, workerVars, IInv, LivePairAgrees
<1>4. StagedPairAgrees'
  BY DEF GenerateQueryMask, workerVars, IInv, StagedPairAgrees, TypeOK
<1>5. ContextsFollowSetup'
  BY DEF GenerateQueryMask, workerVars, IInv, ContextsFollowSetup, Exclusive, TypeOK
<1> QED
  BY <1>1, <1>2, <1>3, <1>4, <1>5 DEF IInv

\* offline pairs the database with its own precomputation.
LEMMA OfflineIInv ==
  ASSUME IInv, writes' \in 0 .. MaxWrites, Offline
  PROVE  IInv'
<1>1. TypeOK'
  BY DEF Offline, workerVars, IInv, TypeOK
<1>2. InsideOfflineFor'
  BY DEF Offline, workerVars, IInv, InsideOfflineFor, TypeOK
<1>3. LivePairAgrees'
  BY OwnPrecomputationAgrees DEF Offline, IInv, TypeOK, LivePairAgrees
<1>4. StagedPairAgrees'
  BY DEF Offline, workerVars, IInv, StagedPairAgrees, TypeOK
<1>5. ContextsFollowSetup'
  BY DEF Offline, workerVars, IInv, ContextsFollowSetup, Exclusive, TypeOK
<1> QED
  BY <1>1, <1>2, <1>3, <1>4, <1>5 DEF IInv

\* A failed offline leaves the pair that was there.
LEMMA OfflinePanicsIInv ==
  ASSUME IInv, writes' \in 0 .. MaxWrites, OfflinePanics
  PROVE  IInv'
<1>1. TypeOK'
  BY DEF OfflinePanics, workerVars, IInv, TypeOK
<1>2. InsideOfflineFor'
  BY DEF OfflinePanics, workerVars, IInv, InsideOfflineFor, TypeOK
<1>3. LivePairAgrees'
  BY DEF OfflinePanics, workerVars, IInv, LivePairAgrees
<1>4. StagedPairAgrees'
  BY DEF OfflinePanics, workerVars, IInv, StagedPairAgrees, TypeOK
<1>5. ContextsFollowSetup'
  BY DEF OfflinePanics, workerVars, IInv, ContextsFollowSetup, Exclusive, TypeOK
<1> QED
  BY <1>1, <1>2, <1>3, <1>4, <1>5 DEF IInv

\* A write marks the stripes it takes out of agreement.
LEMMA UpdateShardIInv ==
  ASSUME IInv, writes' \in 0 .. MaxWrites, NEW start \in Index,
         NEW vals \in Seq(Values), UpdateShard(start, vals)
  PROVE  IInv'
<1>1. TypeOK'
  <2>1. EncodeShard(database, start, vals) \in Stored
    BY EncodeShardType DEF IInv, TypeOK, UpdateShard
  <2>2. Touched(start, Len(vals)) \subseteq Stripes
    BY TouchedStripes
  <2> QED
    BY <2>1, <2>2 DEF UpdateShard, workerVars, IInv, TypeOK
<1>2. InsideOfflineFor'
  BY DEF UpdateShard, workerVars, IInv, InsideOfflineFor, TypeOK
<1>3. LivePairAgrees'
  BY EncodeShardAgrees DEF UpdateShard, IInv, TypeOK, LivePairAgrees
<1>4. StagedPairAgrees'
  BY DEF UpdateShard, workerVars, IInv, StagedPairAgrees, TypeOK
<1>5. ContextsFollowSetup'
  BY DEF UpdateShard, workerVars, IInv, ContextsFollowSetup, Exclusive, TypeOK
<1> QED
  BY <1>1, <1>2, <1>3, <1>4, <1>5 DEF IInv

\* A load takes every stripe out of agreement.
LEMMA EncodeIInv ==
  ASSUME IInv, writes' \in 0 .. MaxWrites, NEW load \in Loads, Encode(load)
  PROVE  IInv'
<1>1. TypeOK'
  BY ServerAssumption DEF Encode, workerVars, IInv, TypeOK, Stored
<1>2. InsideOfflineFor'
  BY DEF Encode, workerVars, IInv, InsideOfflineFor, TypeOK
<1>3. LivePairAgrees'
  BY NothingClaimed DEF Encode, LivePairAgrees
<1>4. StagedPairAgrees'
  BY DEF Encode, workerVars, IInv, StagedPairAgrees, TypeOK
<1>5. ContextsFollowSetup'
  BY DEF Encode, workerVars, IInv, ContextsFollowSetup, Exclusive, TypeOK
<1> QED
  BY <1>1, <1>2, <1>3, <1>4, <1>5 DEF IInv

-----------------------------------------------------------------------------
(* The workers *)

\* A context starts with neither database nor precomputation, after SETUP.
LEMMA DetachIInv ==
  ASSUME IInv, writes' \in 0 .. MaxWrites, NEW w \in Workers, Detach(w)
  PROVE  IInv'
<1>1. TypeOK'
  BY StoredMembers DEF Detach, serverVars, IInv, TypeOK
<1>2. InsideOfflineFor'
  BY DEF Detach, serverVars, IInv, InsideOfflineFor, TypeOK
<1>3. LivePairAgrees'
  BY DEF Detach, serverVars, IInv, LivePairAgrees
<1>4. StagedPairAgrees'
  BY DEF Detach, serverVars, IInv, StagedPairAgrees, TypeOK
<1>5. ContextsFollowSetup'
  BY DEF Detach, serverVars, IInv, ContextsFollowSetup, Exclusive, TypeOK
<1> QED
  BY <1>1, <1>2, <1>3, <1>4, <1>5 DEF IInv

\* Dropping a context touches no pair.
LEMMA DropIInv ==
  ASSUME IInv, writes' \in 0 .. MaxWrites, NEW w \in Workers, Drop(w)
  PROVE  IInv'
<1>1. TypeOK'
  BY StoredMembers DEF Drop, serverVars, IInv, TypeOK
<1>2. InsideOfflineFor'
  BY DEF Drop, serverVars, IInv, InsideOfflineFor, TypeOK
<1>3. LivePairAgrees'
  BY DEF Drop, serverVars, IInv, LivePairAgrees
<1>4. StagedPairAgrees'
  BY DEF Drop, serverVars, IInv, StagedPairAgrees, TypeOK
<1>5. ContextsFollowSetup'
  BY DEF Drop, serverVars, IInv, ContextsFollowSetup, Exclusive, TypeOK
<1> QED
  BY <1>1, <1>2, <1>3, <1>4, <1>5 DEF IInv

\* A fresh staging buffer is in doubt everywhere.
LEMMA NewDatabaseIInv ==
  ASSUME IInv, writes' \in 0 .. MaxWrites, NEW w \in Workers, NewDatabase(w)
  PROVE  IInv'
<1>1. TypeOK'
  BY StoredMembers DEF NewDatabase, serverVars, IInv, TypeOK
<1>2. InsideOfflineFor'
  BY DEF NewDatabase, serverVars, IInv, InsideOfflineFor, TypeOK
<1>3. LivePairAgrees'
  BY DEF NewDatabase, serverVars, IInv, LivePairAgrees
<1>4. StagedPairAgrees'
  BY NothingClaimed DEF NewDatabase, serverVars, IInv, StagedPairAgrees, TypeOK
<1>5. ContextsFollowSetup'
  BY DEF NewDatabase, serverVars, IInv, ContextsFollowSetup, Exclusive, TypeOK
<1> QED
  BY <1>1, <1>2, <1>3, <1>4, <1>5 DEF IInv

\* A fill marks the stripes it takes out of agreement.
LEMMA FillIInv ==
  ASSUME IInv, writes' \in 0 .. MaxWrites, NEW w \in Workers, NEW start \in Index,
         NEW vals \in Seq(Values), Fill(w, start, vals)
  PROVE  IInv'
<1>1. TypeOK'
  <2>1. staging[w] \in Stored
    BY DEF Fill, IInv, TypeOK
  <2>2. EncodeShard(staging[w], start, vals) \in Stored
    BY <2>1, EncodeShardType DEF Fill
  <2>3. Touched(start, Len(vals)) \subseteq Stripes
    BY TouchedStripes
  <2> QED
    BY <2>2, <2>3 DEF Fill, serverVars, IInv, TypeOK
<1>2. InsideOfflineFor'
  BY DEF Fill, serverVars, IInv, InsideOfflineFor, TypeOK
<1>3. LivePairAgrees'
  BY DEF Fill, serverVars, IInv, LivePairAgrees
<1>4. StagedPairAgrees'
  <2> SUFFICES ASSUME NEW x \in Workers, handed'[x] # Nothing, staging'[x] # Nothing
               PROVE  AgreeOutside(staging'[x], handed'[x], stagingDirty'[x])
    BY DEF StagedPairAgrees
  <2>1. CASE x = w
    <3>1. staging[w] \in Stored /\ AgreeOutside(staging[w], handed[w], stagingDirty[w])
      BY <2>1 DEF Fill, IInv, TypeOK, StagedPairAgrees
    <3> QED
      BY <2>1, <3>1, EncodeShardAgrees DEF Fill, IInv, TypeOK
  <2>2. CASE x # w
    BY <2>2 DEF Fill, IInv, TypeOK, StagedPairAgrees
  <2> QED
    BY <2>1, <2>2
<1>5. ContextsFollowSetup'
  BY DEF Fill, serverVars, IInv, ContextsFollowSetup, Exclusive, TypeOK
<1> QED
  BY <1>1, <1>2, <1>3, <1>4, <1>5 DEF IInv

\* So does a load of a staging buffer.
LEMMA EncodeStagingIInv ==
  ASSUME IInv, writes' \in 0 .. MaxWrites, NEW w \in Workers, NEW load \in Loads,
         EncodeStaging(w, load)
  PROVE  IInv'
<1>1. TypeOK'
  <2>1. load \in Stored
    BY ServerAssumption DEF Stored
  <2> QED
    BY <2>1 DEF EncodeStaging, serverVars, IInv, TypeOK
<1>2. InsideOfflineFor'
  BY DEF EncodeStaging, serverVars, IInv, InsideOfflineFor, TypeOK
<1>3. LivePairAgrees'
  BY DEF EncodeStaging, serverVars, IInv, LivePairAgrees
<1>4. StagedPairAgrees'
  BY NothingClaimed DEF EncodeStaging, serverVars, IInv, StagedPairAgrees, TypeOK
<1>5. ContextsFollowSetup'
  BY DEF EncodeStaging, serverVars, IInv, ContextsFollowSetup, Exclusive, TypeOK
<1> QED
  BY <1>1, <1>2, <1>3, <1>4, <1>5 DEF IInv

\* The caller's buffer goes in; what comes out is in doubt everywhere.
LEMMA SwapInIInv ==
  ASSUME IInv, writes' \in 0 .. MaxWrites, NEW w \in Workers, SwapIn(w)
  PROVE  IInv'
<1>1. TypeOK'
  BY DEF SwapIn, serverVars, IInv, TypeOK
<1>2. InsideOfflineFor'
  BY DEF SwapIn, serverVars, IInv, InsideOfflineFor, TypeOK
<1>3. LivePairAgrees'
  BY DEF SwapIn, serverVars, IInv, LivePairAgrees
<1>4. StagedPairAgrees'
  BY NothingClaimed DEF SwapIn, serverVars, IInv, StagedPairAgrees, TypeOK
<1>5. ContextsFollowSetup'
  BY DEF SwapIn, serverVars, IInv, ContextsFollowSetup, Exclusive, TypeOK
<1> QED
  BY <1>1, <1>2, <1>3, <1>4, <1>5 DEF IInv

\* The products are those of the database that is inside.
LEMMA PrecomputeIInv ==
  ASSUME IInv, writes' \in 0 .. MaxWrites, NEW w \in Workers, Precompute(w)
  PROVE  IInv'
<1>1. TypeOK'
  <2>1. inner[w] \in Stored
    BY DEF Precompute, IInv, TypeOK, InsideOfflineFor
  <2> QED
    BY <2>1 DEF Precompute, serverVars, IInv, TypeOK
<1>2. InsideOfflineFor'
  BY DEF Precompute, serverVars, IInv, InsideOfflineFor, TypeOK
<1>3. LivePairAgrees'
  BY DEF Precompute, serverVars, IInv, LivePairAgrees
<1>4. StagedPairAgrees'
  BY DEF Precompute, serverVars, IInv, StagedPairAgrees, TypeOK
<1>5. ContextsFollowSetup'
  BY DEF Precompute, serverVars, IInv, ContextsFollowSetup, Exclusive, TypeOK
<1> QED
  BY <1>1, <1>2, <1>3, <1>4, <1>5 DEF IInv

\* The buffer comes back beside the precomputation made from it.
LEMMA SwapOutIInv ==
  ASSUME IInv, writes' \in 0 .. MaxWrites, NEW w \in Workers, SwapOut(w)
  PROVE  IInv'
<1>1. TypeOK'
  BY StoredMembers DEF SwapOut, serverVars, IInv, TypeOK
<1>2. InsideOfflineFor'
  BY DEF SwapOut, serverVars, IInv, InsideOfflineFor, TypeOK
<1>3. LivePairAgrees'
  BY DEF SwapOut, serverVars, IInv, LivePairAgrees
<1>4. StagedPairAgrees'
  <2> SUFFICES ASSUME NEW x \in Workers, handed'[x] # Nothing, staging'[x] # Nothing
               PROVE  AgreeOutside(staging'[x], handed'[x], stagingDirty'[x])
    BY DEF StagedPairAgrees
  <2>1. CASE x = w
    <3>1. staging'[w] = inner[w] /\ handed'[w] = inner[w] /\ stagingDirty'[w] = {}
      BY DEF SwapOut, IInv, TypeOK, InsideOfflineFor
    <3>2. inner[w] \in Stored
      BY DEF SwapOut, IInv, TypeOK, InsideOfflineFor
    <3> QED
      BY <2>1, <3>1, <3>2, OwnPrecomputationAgrees
  <2>2. CASE x # w
    BY <2>2 DEF SwapOut, IInv, TypeOK, StagedPairAgrees
  <2> QED
    BY <2>1, <2>2
<1>5. ContextsFollowSetup'
  <2>1. inner[w] # Nothing
    BY DEF SwapOut, IInv, InsideOfflineFor
  <2> QED
    BY <2>1 DEF SwapOut, serverVars, IInv, ContextsFollowSetup, Exclusive
<1> QED
  BY <1>1, <1>2, <1>3, <1>4, <1>5 DEF IInv

\* A caught panic leaves the databases swapped and makes no pair.
LEMMA PrecomputePanicsIInv ==
  ASSUME IInv, writes' \in 0 .. MaxWrites, NEW w \in Workers, PrecomputePanics(w)
  PROVE  IInv'
<1>1. TypeOK'
  BY DEF PrecomputePanics, serverVars, IInv, TypeOK
<1>2. InsideOfflineFor'
  BY DEF PrecomputePanics, serverVars, IInv, InsideOfflineFor, TypeOK
<1>3. LivePairAgrees'
  BY DEF PrecomputePanics, serverVars, IInv, LivePairAgrees
<1>4. StagedPairAgrees'
  BY DEF PrecomputePanics, serverVars, IInv, StagedPairAgrees, TypeOK
<1>5. ContextsFollowSetup'
  BY DEF PrecomputePanics, serverVars, IInv, ContextsFollowSetup, Exclusive, TypeOK
<1> QED
  BY <1>1, <1>2, <1>3, <1>4, <1>5 DEF IInv

\* The staged pair becomes the live one; the retired database is in doubt.
LEMMA InstallIInv ==
  ASSUME IInv, writes' \in 0 .. MaxWrites, NEW w \in Workers, Install(w)
  PROVE  IInv'
<1>1. TypeOK'
  BY DEF Install, serverVars, IInv, TypeOK
<1>2. InsideOfflineFor'
  BY DEF Install, serverVars, IInv, InsideOfflineFor, TypeOK
<1>3. LivePairAgrees'
  <2>1. AgreeOutside(staging[w], handed[w], stagingDirty[w])
    BY DEF Install, IInv, StagedPairAgrees
  <2> QED
    BY <2>1 DEF Install, LivePairAgrees
<1>4. StagedPairAgrees'
  BY NothingClaimed DEF Install, serverVars, IInv, StagedPairAgrees, TypeOK
<1>5. ContextsFollowSetup'
  BY DEF Install, serverVars, IInv, ContextsFollowSetup, Exclusive, TypeOK
<1> QED
  BY <1>1, <1>2, <1>3, <1>4, <1>5 DEF IInv

-----------------------------------------------------------------------------
(* The invariant holds, and what follows *)

\* Steps that change neither the server nor a worker.
LEMMA RepliesIInv ==
  ASSUME IInv, writes' \in 0 .. MaxWrites, DOMAIN reply' = Clients,
         UNCHANGED <<serverVars, workerVars>>
  PROVE  IInv'
BY DEF serverVars, workerVars, IInv, TypeOK, InsideOfflineFor, LivePairAgrees,
       StagedPairAgrees, ContextsFollowSetup, Exclusive

LEMMA NextIInv == IInv /\ [Next]_vars => IInv'
<1> SUFFICES ASSUME IInv, [Next]_vars PROVE IInv'
  OBVIOUS
<1>1. ASSUME ServerStep, UNCHANGED writes PROVE IInv'
  <2>1. writes' \in 0 .. MaxWrites
    BY <1>1 DEF IInv, TypeOK
  <2>2. ASSUME NEW c \in Clients, NEW batch \in Batches, RespondBatch(c, batch)
        PROVE  IInv'
    <3>1. DOMAIN reply' = Clients
      BY <2>2 DEF RespondBatch, IInv, TypeOK
    <3> QED
      BY <2>1, <2>2, <3>1, RepliesIInv DEF RespondBatch
  <2> QED
    BY <1>1, <2>1, <2>2, GenerateQueryMaskIInv, OfflineIInv, OfflinePanicsIInv DEF ServerStep
<1>2. ASSUME NEW w \in Workers, WorkerStep(w), UNCHANGED writes PROVE IInv'
  <2>1. writes' \in 0 .. MaxWrites
    BY <1>2 DEF IInv, TypeOK
  <2> QED
    BY <1>2, <2>1, DetachIInv, DropIInv, NewDatabaseIInv, SwapInIInv, PrecomputeIInv,
       SwapOutIInv, PrecomputePanicsIInv, InstallIInv DEF WorkerStep
<1>3. ASSUME writes < MaxWrites, writes' = writes + 1,
             NEW start \in Index, NEW vals \in ShardValues, Write(start, vals)
      PROVE  IInv'
  <2>1. writes' \in 0 .. MaxWrites
    BY <1>3, ServerAssumption DEF IInv, TypeOK
  <2> QED
    BY <1>3, <2>1, UpdateShardIInv, FillIInv, ServerAssumption DEF Write
<1>4. ASSUME writes < MaxWrites, writes' = writes + 1, NEW load \in Loads, Rewrite(load)
      PROVE  IInv'
  <2>1. writes' \in 0 .. MaxWrites
    BY <1>4, ServerAssumption DEF IInv, TypeOK
  <2> QED
    BY <1>4, <2>1, EncodeIInv, EncodeStagingIInv DEF Rewrite
<1>5. CASE UNCHANGED vars
  <2>1. writes' \in 0 .. MaxWrites /\ DOMAIN reply' = Clients
    BY <1>5 DEF vars, IInv, TypeOK
  <2> QED
    BY <1>5, <2>1, RepliesIInv DEF vars
<1> QED
  BY <1>1, <1>2, <1>3, <1>4, <1>5 DEF Next

THEOREM Invariance == Spec => []IInv
<1> QED
  BY InitIInv, NextIInv, PTL DEF Spec

\* Every variable keeps its type: a pair is never left half moved, and the
\* shell of a context never loses its precomputation's default.
THEOREM TypeCorrect == Spec => []TypeOK
<1>1. IInv => TypeOK
  BY DEF IInv
<1> QED
  BY <1>1, Invariance, PTL

\* The live database and the live precomputation agree but for the stripes
\* a caller wrote since (server/mod.rs, install).
THEOREM LivePairSafe == Spec => []LivePairAgrees
<1>1. IInv => LivePairAgrees
  BY DEF IInv
<1> QED
  BY <1>1, Invariance, PTL

\* What offline_for hands out belongs to the buffer it gives back, whatever
\* panics and detours the worker went through before (server/mod.rs, offline_for).
THEOREM StagedPairSafe == Spec => []StagedPairAgrees
<1>1. IInv => StagedPairAgrees
  BY DEF IInv
<1> QED
  BY <1>1, Invariance, PTL

\* No context exists before SETUP, so offline never meets shared state it must own.
THEOREM SetupBeforeContexts == Spec => []ContextsFollowSetup
<1>1. IInv => ContextsFollowSetup
  BY DEF IInv
<1> QED
  BY <1>1, Invariance, PTL

\* A batch shows the live payloads, but for the stripes that are in doubt.
LEMMA BatchAnswers ==
  ASSUME IInv, NEW c \in Clients, NEW batch \in Batches, RespondBatch(c, batch),
         NEW i \in batch
  PROVE  \/ database \in Databases /\ Answer(i) = database[i]
         \/ Answer(i) = Garbage /\ Stripe(i) \in dirty
<1>1. i \in Index /\ Stripe(i) \in Stripes
  BY StripeRange, ServerAssumption
<1>2. precomputation # Placeholder
  BY DEF RespondBatch, CanRespond
<1>3. CASE database # Placeholder /\ SameStripe(database, precomputation, Stripe(i))
  BY <1>3 DEF Answer, IInv, TypeOK, Stored
<1>4. CASE ~(database # Placeholder /\ SameStripe(database, precomputation, Stripe(i)))
  <2>1. Answer(i) = Garbage
    BY <1>4 DEF Answer
  <2>2. ASSUME Stripe(i) \notin dirty PROVE FALSE
    <3>1. database \in Databases /\ SameStripe(database, precomputation, Stripe(i))
      BY <1>1, <1>2, <2>2 DEF IInv, LivePairAgrees, AgreeOutside
    <3>2. database # Placeholder
      BY <3>1, DataAssumption
    <3> QED
      BY <1>4, <3>1, <3>2
  <2> QED
    BY <2>1, <2>2
<1> QED
  BY <1>3, <1>4

\* Stale or mismatched coefficients reach a client only from the stripes written
\* since the last offline or install: every other payload of every batch is the
\* live one (server/recursion/online.rs).
THEOREM RepliesSafe == Spec => GarbageOnlyFromDirtyStripes
<1> DEFINE Shown ==
      \A c \in Clients : reply'[c] # reply[c] =>
        \A i \in DOMAIN reply'[c] :
          \/ database \in Databases /\ reply'[c][i] = database[i]
          \/ reply'[c][i] = Garbage /\ Stripe(i) \in dirty
<1>1. ASSUME IInv, [Next]_vars PROVE [Shown]_vars
  <2>1. CASE UNCHANGED reply
    BY <2>1
  <2>2. ASSUME NEW c \in Clients, NEW batch \in Batches, RespondBatch(c, batch)
        PROVE  Shown
    <3> SUFFICES ASSUME NEW d \in Clients, reply'[d] # reply[d], NEW i \in DOMAIN reply'[d]
                 PROVE  \/ database \in Databases /\ reply'[d][i] = database[i]
                        \/ reply'[d][i] = Garbage /\ Stripe(i) \in dirty
      OBVIOUS
    <3>1. d = c /\ reply'[c] = [j \in batch |-> Answer(j)]
      BY <2>2 DEF RespondBatch, IInv, TypeOK
    <3>2. i \in batch /\ reply'[d][i] = Answer(i)
      BY <3>1
    <3> QED
      BY <1>1, <2>2, <3>2, BatchAnswers
  <2>3. UNCHANGED reply \/ \E c \in Clients, batch \in Batches : RespondBatch(c, batch)
    BY <1>1 DEF Next, ServerStep, WorkerStep, Write, Rewrite, vars, GenerateQueryMask, Offline,
       OfflinePanics, Detach, Drop, NewDatabase, SwapIn, Precompute, SwapOut,
       PrecomputePanics, Install, UpdateShard, Fill, Encode, EncodeStaging
  <2> QED
    BY <2>1, <2>2, <2>3
<1> QED
  BY <1>1, Invariance, PTL DEF Spec, GarbageOnlyFromDirtyStripes

-----------------------------------------------------------------------------
(* The refresh loop *)

\* What a worker holds at each place of the loop.  Between offline_for and
\* install the staging buffer is the very database of the precomputation, which
\* is what makes the installed pair exact; nothing is written in between.
LoopPlaces ==
  \A w \in Workers :
    /\ phase[w] # "offline" => pc[w] = "ready"
    /\ phase[w] \in {"filled", "offline", "computed", "unwound"} => staging[w] # Nothing
    /\ phase[w] = "computed" => staging[w] = handed[w]

LoopIInv == IInv /\ LoopTypeOK /\ LoopPlaces /\ ServedPairExact

-----------------------------------------------------------------------------
LEMMA InitLoopIInv == LoopInit => LoopIInv
<1> SUFFICES ASSUME LoopInit PROVE LoopIInv
  OBVIOUS
<1>1. IInv
  BY InitIInv DEF LoopInit
<1>2. LoopTypeOK
  <2>1. Zeroed \in [Index -> Values]
    BY ZeroedType DEF Databases
  <2>2. 0 \in 0 .. Capacity /\ 0 \in 0 .. MaxPanics
    BY DataAssumption, LoopAssumption DEF Capacity
  <2> QED
    BY <1>1, <2>1, <2>2 DEF IInv, LoopInit, LoopTypeOK
<1>3. LoopPlaces
  BY DEF LoopInit, Init, LoopPlaces
<1>4. ServedPairExact
  BY DEF LoopInit, Init, ServedPairExact, CanRespond
<1> QED
  BY <1>1, <1>2, <1>3, <1>4 DEF LoopIInv

\* A shard of the source is a run of payload values.
LEMMA SourceShard ==
  ASSUME LoopTypeOK, NEW w \in Workers, cursor[w] + ShardLen <= Capacity
  PROVE  /\ cursor[w] \in Index
         /\ [k \in 1 .. ShardLen |-> source[cursor[w] + k - 1]] \in Seq(Values)
         /\ Len([k \in 1 .. ShardLen |-> source[cursor[w] + k - 1]]) = ShardLen
<1>1. cursor[w] \in Nat /\ ShardLen \in Nat /\ ShardLen > 0 /\ Capacity \in Nat
  BY DataAssumption, LoopAssumption DEF LoopTypeOK, Capacity
<1>2. ASSUME NEW k \in 1 .. ShardLen PROVE source[cursor[w] + k - 1] \in Values
  <2>1. cursor[w] + k - 1 \in Index
    BY <1>1 DEF Index
  <2> QED
    BY <2>1 DEF LoopTypeOK
<1>3. cursor[w] \in Index
  BY <1>1 DEF Index
<1> QED
  BY <1>1, <1>2, <1>3

\* What a refill writes.
LEMMA RefillWrites ==
  ASSUME LoopTypeOK, NEW w \in Workers, Refill(w)
  PROVE  /\ cursor[w] + ShardLen \in 0 .. Capacity
         /\ \E start \in Index, vals \in Seq(Values) : Fill(w, start, vals)
<1> DEFINE vals == [k \in 1 .. ShardLen |-> source[cursor[w] + k - 1]]
<1>1. Fill(w, cursor[w], vals)
  BY DEF Refill
<1>2. Len(vals) = ShardLen
  BY LoopAssumption
<1>3. cursor[w] + ShardLen <= Capacity
  BY <1>1, <1>2 DEF Fill, Accepts
<1>4. cursor[w] \in Index /\ vals \in Seq(Values)
  BY <1>3, SourceShard
<1>5. cursor[w] + ShardLen \in 0 .. Capacity
  BY <1>3, DataAssumption, LoopAssumption DEF LoopTypeOK, Capacity
<1> HIDE DEF vals
<1> QED
  BY <1>1, <1>4, <1>5

\* The loop makes no call that the server's own invariant does not survive.
LEMMA LoopStepIInv ==
  ASSUME LoopIInv, NEW w \in Workers, LoopStep(w) \/ OfflineForPanics(w)
  PROVE  IInv'
<1>1. IInv /\ LoopTypeOK
  BY DEF LoopIInv
<1>2. writes' \in 0 .. MaxWrites
  BY <1>1 DEF IInv, TypeOK, LoopStep, OfflineForPanics, PrecomputePanics
<1>3. CASE UNCHANGED vars
  BY <1>1, <1>2, <1>3, RepliesIInv DEF vars, IInv, TypeOK
<1>4. CASE Refill(w)
  BY <1>1, <1>2, <1>4, RefillWrites, FillIInv
<1>5. CASE Start(w) \/ Allocate(w) \/ DiscardContext(w) \/ InstallPair(w)
  BY <1>1, <1>2, <1>5, DetachIInv, NewDatabaseIInv, DropIInv, InstallIInv
     DEF Start, Allocate, DiscardContext, InstallPair
<1>6. CASE OfflineFor(w) \/ OfflineForPanics(w)
  BY <1>1, <1>2, <1>6, SwapInIInv, PrecomputeIInv, SwapOutIInv, PrecomputePanicsIInv
     DEF OfflineFor, OfflineForPanics
<1> QED
  BY <1>3, <1>4, <1>5, <1>6 DEF LoopStep, RefillPanics, RetryOfflineFor

LEMMA LoopStepTypeOK ==
  ASSUME LoopIInv, NEW w \in Workers, LoopStep(w) \/ OfflineForPanics(w)
  PROVE  LoopTypeOK'
<1>1. LoopTypeOK /\ TypeOK'
  BY LoopStepIInv DEF LoopIInv, IInv
<1>2. 0 \in 0 .. Capacity
  BY DataAssumption DEF Capacity
<1>3. CASE Refill(w)
  BY <1>1, <1>3, RefillWrites DEF LoopTypeOK, Refill, Goto
<1>4. CASE OfflineForPanics(w)
  BY <1>1, <1>4, LoopAssumption DEF LoopTypeOK, OfflineForPanics, Goto
<1>5. CASE OfflineFor(w)
  BY <1>1, <1>5 DEF LoopTypeOK, OfflineFor, Goto
<1>6. CASE Start(w) \/ Allocate(w) \/ DiscardContext(w) \/ InstallPair(w)
  BY <1>1, <1>2, <1>6 DEF LoopTypeOK, Start, Allocate, DiscardContext, InstallPair, Goto
<1>7. CASE RefillPanics(w) \/ RetryOfflineFor(w)
  BY <1>1, <1>7 DEF LoopTypeOK, RefillPanics, RetryOfflineFor, Goto
<1> QED
  BY <1>3, <1>4, <1>5, <1>6, <1>7 DEF LoopStep

LEMMA LoopStepPlaces ==
  ASSUME LoopIInv, NEW w \in Workers, LoopStep(w) \/ OfflineForPanics(w)
  PROVE  LoopPlaces'
<1> USE DEF LoopIInv, LoopTypeOK, TypeOK, LoopPlaces, Goto
<1>1. CASE Start(w)
  BY <1>1 DEF Start, Detach
<1>2. CASE Allocate(w)
  BY <1>2, StoredMembers DEF Allocate, NewDatabase
<1>3. CASE Refill(w)
  <2>1. PICK start \in Index, vals \in Seq(Values) : Fill(w, start, vals)
    BY <1>3, RefillWrites
  <2>2. staging'[w] # Nothing
    BY <2>1, EncodeShardType, StoredMembers DEF Fill
  <2> QED
    BY <1>3, <2>1, <2>2 DEF Refill, Fill
<1>4. CASE phase[w] = "filled" /\ SwapIn(w) /\ Goto(w, "offline")
  BY <1>4 DEF SwapIn
<1>5. CASE phase[w] = "offline" /\ Precompute(w) /\ UNCHANGED phase
  BY <1>5 DEF Precompute
<1>6. CASE phase[w] = "offline" /\ SwapOut(w) /\ Goto(w, "computed")
  BY <1>6 DEF SwapOut, IInv, InsideOfflineFor
<1>7. CASE OfflineForPanics(w)
  BY <1>7 DEF OfflineForPanics, PrecomputePanics
<1>8. CASE RefillPanics(w) \/ RetryOfflineFor(w)
  BY <1>8 DEF RefillPanics, RetryOfflineFor, vars, workerVars
<1>9. CASE DiscardContext(w)
  BY <1>9 DEF DiscardContext, Drop
<1>10. CASE InstallPair(w)
  BY <1>10 DEF InstallPair, Install
<1> QED
  BY <1>1, <1>2, <1>3, <1>4, <1>5, <1>6, <1>7, <1>8, <1>9, <1>10 DEF LoopStep, OfflineFor

\* install is the only step of a loop that touches the live pair.
LEMMA LoopStepServes ==
  ASSUME LoopIInv, NEW w \in Workers, LoopStep(w) \/ OfflineForPanics(w)
  PROVE  ServedPairExact'
<1>1. CASE InstallPair(w)
  BY <1>1 DEF LoopIInv, LoopPlaces, ServedPairExact, CanRespond, InstallPair, Install
<1>2. CASE UNCHANGED serverVars
  BY <1>2 DEF LoopIInv, ServedPairExact, CanRespond, serverVars
<1>3. InstallPair(w) \/ UNCHANGED serverVars
  BY DEF LoopStep, Start, Detach, Allocate, NewDatabase, Refill, Fill, RefillPanics,
     OfflineFor, SwapIn, Precompute, SwapOut, OfflineForPanics, PrecomputePanics,
     RetryOfflineFor, DiscardContext, Drop, vars
<1> QED
  BY <1>1, <1>2, <1>3

\* The calls between two installs: none of them writes to the live database.
LEMMA ServeLoopIInv == ASSUME LoopIInv, Serve PROVE LoopIInv'
<1>1. IInv'
  BY NextIInv DEF LoopIInv, Serve, Next
<1>2. UNCHANGED workerVars
  BY DEF Serve, ServerStep, GenerateQueryMask, Offline, OfflinePanics, RespondBatch
<1>3. LoopTypeOK'
  BY <1>1 DEF LoopIInv, IInv, LoopTypeOK, Serve, loopVars
<1>4. LoopPlaces'
  BY <1>2 DEF LoopIInv, LoopPlaces, Serve, loopVars, workerVars
<1>5. ServedPairExact'
  BY DEF LoopIInv, ServedPairExact, CanRespond, Serve, ServerStep, GenerateQueryMask,
     Offline, OfflinePanics, RespondBatch, serverVars
<1> QED
  BY <1>1, <1>3, <1>4, <1>5 DEF LoopIInv

LEMMA NextLoopIInv == LoopIInv /\ [LoopNext]_allVars => LoopIInv'
<1> SUFFICES ASSUME LoopIInv, [LoopNext]_allVars PROVE LoopIInv'
  OBVIOUS
<1>1. ASSUME NEW w \in Workers, LoopStep(w) \/ OfflineForPanics(w) PROVE LoopIInv'
  BY <1>1, LoopStepIInv, LoopStepTypeOK, LoopStepPlaces, LoopStepServes DEF LoopIInv
<1>2. CASE Serve
  BY <1>2, ServeLoopIInv
<1>3. CASE UNCHANGED vars /\ UNCHANGED <<phase, cursor, panics>> /\ source' \in [Index -> Values]
  <2>1. IInv'
    BY <1>3, NextIInv DEF LoopIInv
  <2>2. LoopTypeOK'
    BY <1>3, <2>1 DEF LoopIInv, IInv, LoopTypeOK
  <2>3. LoopPlaces' /\ ServedPairExact'
    BY <1>3 DEF LoopIInv, LoopPlaces, ServedPairExact, CanRespond, vars, serverVars, workerVars
  <2> QED
    BY <2>1, <2>2, <2>3 DEF LoopIInv
<1>4. ASSUME NEW i \in Index, ChangeSource(i) PROVE source' \in [Index -> Values]
  <2>1. source[i] \in Nat /\ source[i] + 1 \in Values
    BY <1>4, LoopAssumption DEF LoopIInv, LoopTypeOK, ChangeSource
  <2> QED
    BY <1>4, <2>1 DEF LoopIInv, LoopTypeOK, ChangeSource
<1>5. CASE UNCHANGED allVars
  BY <1>3, <1>5 DEF LoopIInv, LoopTypeOK, allVars, loopVars
<1> QED
  BY <1>1, <1>2, <1>3, <1>4, <1>5 DEF LoopNext, ChangeSource

THEOREM LoopInvariance == LoopSpec => []LoopIInv
<1> QED
  BY InitLoopIInv, NextLoopIInv, PTL DEF LoopSpec

\* The loop's own variables keep their types, the retired buffer's included.
THEOREM LoopTypeCorrect == LoopSpec => []LoopTypeOK
<1>1. LoopIInv => LoopTypeOK
  BY DEF LoopIInv
<1> QED
  BY <1>1, LoopInvariance, PTL

\* The documented loop (server/mod.rs, PrecompContext) never serves a database
\* with another database's precomputation, whatever panics and recoveries.
THEOREM LoopServesExactPairs == LoopSpec => []ServedPairExact
<1>1. LoopIInv => ServedPairExact
  BY DEF LoopIInv
<1> QED
  BY <1>1, LoopInvariance, PTL

-----------------------------------------------------------------------------
(* Refinement *)

\* A batch answered from an exact pair is a read of the store.
LEMMA RespondReads ==
  ASSUME LoopIInv, NEW c \in Clients, NEW batch \in Batches, RespondBatch(c, batch)
  PROVE  Store!Read(c, batch)
<1>1. ASSUME NEW i \in batch PROVE Answer(i) = precomputation[i]
  <2>1. precomputation # Placeholder /\ database = precomputation
    BY DEF LoopIInv, ServedPairExact, RespondBatch, CanRespond
  <2> QED
    BY <2>1 DEF Answer, SameStripe
<1>2. [i \in batch |-> Answer(i)] = [i \in batch |-> precomputation[i]]
  BY <1>1
<1> QED
  BY <1>2 DEF RespondBatch, CanRespond, Store!Read, serverVars

\* Every step of the loop and of the server is a read, a publication of a whole
\* store, or invisible to clients.
LEMMA LoopNextRefines ==
  LoopIInv /\ LoopIInv' /\ [LoopNext]_allVars => [Store!Next]_<<precomputation, reply>>
<1> SUFFICES ASSUME LoopIInv, LoopIInv', [LoopNext]_allVars
             PROVE  [Store!Next]_<<precomputation, reply>>
  OBVIOUS
<1>1. CASE UNCHANGED reply
  <2>1. precomputation' \in Stored
    BY DEF LoopIInv, IInv, TypeOK
  <2> QED
    BY <1>1, <2>1 DEF Store!Next, Store!Publish, Store!Stored, Stored, Store!Databases, Databases,
                      Store!Index, Index, Store!Capacity, Capacity
<1>2. ASSUME NEW c \in Clients, NEW batch \in Batches, RespondBatch(c, batch)
      PROVE  Store!Next
  BY <1>2, RespondReads DEF Store!Next
<1>3. UNCHANGED reply \/ \E c \in Clients, batch \in Batches : RespondBatch(c, batch)
  BY DEF LoopNext, Serve, ServerStep, GenerateQueryMask, Offline, OfflinePanics, LoopStep,
     Start, Detach, Allocate, NewDatabase, Refill, Fill, RefillPanics, OfflineFor, SwapIn,
     Precompute, SwapOut, OfflineForPanics, PrecomputePanics, RetryOfflineFor,
     DiscardContext, Drop, InstallPair, Install, ChangeSource, vars, allVars
<1> QED
  BY <1>1, <1>2, <1>3

\* The server under the refresh loop implements the snapshot store: its clients
\* cannot tell it from one store that is replaced as a whole.
THEOREM LoopImplementsStore == LoopSpec => ImplementsStore
<1>1. LoopInit => Store!Init
  BY DEF LoopInit, Init, Store!Init
<1> QED
  BY <1>1, LoopInvariance, LoopNextRefines, PTL DEF LoopSpec, ImplementsStore, Store!Spec
-----------------------------------------------------------------------------
(* Versions never go back *)

\* The buffer that will be served next, wherever the call that is under way has put it
Pending(w) == IF phase[w] = "offline" THEN inner[w] ELSE staging[w]

\* The payloads of it that have been copied since it was last handed back
Copied(w) ==
  CASE phase[w] = "refill" -> 0 .. cursor[w] - 1
    [] phase[w] \in {"filled", "offline", "computed"} -> Index
    [] OTHER -> {}

\* What is served, and what clients have seen, is no newer than the source, and no
\* client has seen a version that is newer than what is served.
ServedNotAhead ==
  /\ database \in Databases => \A i \in Index : database[i] <= source[i]
  /\ \A c \in Clients : reply[c] # Nothing =>
       /\ DOMAIN reply[c] \subseteq Index
       /\ \A i \in DOMAIN reply[c] :
            /\ reply[c][i] \in Values
            /\ reply[c][i] <= source[i]
            /\ database \in Databases => reply[c][i] <= database[i]

\* What has been copied is no older than what is served and what clients have seen: while
\* the server is out of service there is nothing served to compare it with.
PendingNotBehind ==
  \A w \in Workers : Pending(w) \in Databases =>
    \A i \in Copied(w) :
      /\ Pending(w)[i] <= source[i]
      /\ database \in Databases => database[i] <= Pending(w)[i]
      /\ \A c \in Clients : reply[c] # Nothing /\ i \in DOMAIN reply[c]
                              => reply[c][i] <= Pending(w)[i]

\* Until a panic a context keeps no database between calls, so that the first panic
\* leaves its caller with a shell; a discarded context keeps none either.
KeptShell ==
  \A w \in Workers :
    /\ phase[w] = "unwound" => staging[w] = Placeholder /\ panics > 0
    /\ panics = 0 \/ Recovery = {"discard"} =>
         IF phase[w] = "offline" THEN staging[w] = Placeholder
         ELSE phase[w] # "unwound" => inner[w] \in {Placeholder, Nothing}

Fresh == ServedNotAhead /\ PendingNotBehind /\ KeptShell

\* The promise ends with the second panic of a caller that keeps its context.
FewPanics == panics <= 1 \/ Recovery = {"discard"}
FreshInv == FewPanics => Fresh

\* Before the first call there is nothing to be older than.
LEMMA InitFresh == LoopInit => FreshInv
<1> SUFFICES ASSUME LoopInit PROVE Fresh
  BY DEF FreshInv
<1>1. ServedNotAhead
  BY DataAssumption, LoopAssumption DEF LoopInit, Init, ServedNotAhead, Zeroed
<1>2. PendingNotBehind
  BY StoredMembers DEF LoopInit, Init, PendingNotBehind, Pending, Copied
<1>3. KeptShell
  BY DEF LoopInit, Init, KeptShell
<1> QED
  BY <1>1, <1>2, <1>3 DEF Fresh

\* Payload values are version numbers.
LEMMA VersionsAreNumbers ==
  ASSUME LoopIInv
  PROVE  /\ Values \subseteq Nat
         /\ \A i \in Index : source[i] \in Nat
         /\ database \in Databases => \A i \in Index : database[i] \in Nat
<1>1. Values \subseteq Nat /\ source \in [Index -> Values]
  BY LoopAssumption DEF LoopIInv, LoopTypeOK
<1> QED
  BY <1>1 DEF Databases

\* A source that has moved on leaves everything else behind it.
LEMMA ChangeSourceFresh ==
  ASSUME LoopIInv, Fresh, NEW j \in Index, ChangeSource(j)
  PROVE  Fresh'
<1>1. \A i \in Index : source[i] \in Nat /\ source'[i] \in Nat /\ source[i] <= source'[i]
  BY VersionsAreNumbers DEF LoopIInv, LoopTypeOK, ChangeSource
<1>2. UNCHANGED <<vars, phase, cursor, panics>>
  BY DEF ChangeSource
<1>3. /\ UNCHANGED <<database, reply, inner, staging>>
      /\ \A w \in Workers : Pending(w)' = Pending(w) /\ Copied(w)' = Copied(w)
  BY <1>2 DEF vars, serverVars, workerVars, Pending, Copied
<1>4. \A w \in Workers : Copied(w) \subseteq Index
  <2> SUFFICES ASSUME NEW w \in Workers PROVE Copied(w) \subseteq Index
    OBVIOUS
  <2>1. cursor[w] \in 0 .. Capacity /\ Capacity \in Nat
    BY DataAssumption DEF LoopIInv, LoopTypeOK, Capacity
  <2> QED
    BY <2>1 DEF Copied, Index
<1>5. ServedNotAhead'
  <2>1. database \in Databases => \A i \in Index : database[i] <= source'[i]
    BY <1>1, VersionsAreNumbers DEF Fresh, ServedNotAhead
  <2>2. ASSUME NEW c \in Clients, reply[c] # Nothing, NEW i \in DOMAIN reply[c]
        PROVE  reply[c][i] <= source'[i]
    <3>1. i \in Index /\ reply[c][i] \in Nat /\ reply[c][i] <= source[i]
      BY <2>2, VersionsAreNumbers DEF Fresh, ServedNotAhead
    <3> QED
      BY <1>1, <3>1
  <2> QED
    BY <1>3, <2>1, <2>2 DEF Fresh, ServedNotAhead
<1>6. PendingNotBehind'
  <2>1. ASSUME NEW w \in Workers, Pending(w) \in Databases, NEW i \in Copied(w)
        PROVE  Pending(w)[i] <= source'[i]
    <3>1. i \in Index /\ Pending(w)[i] <= source[i]
      BY <1>4, <2>1 DEF Fresh, PendingNotBehind
    <3>2. Pending(w)[i] \in Nat
      BY <2>1, <3>1, VersionsAreNumbers DEF Databases
    <3> QED
      BY <1>1, <3>1, <3>2
  <2> QED
    BY <1>3, <2>1 DEF Fresh, PendingNotBehind
<1>7. KeptShell'
  BY <1>2, <1>3 DEF Fresh, KeptShell
<1> QED
  BY <1>5, <1>6, <1>7 DEF Fresh
\* A client is answered with the versions that are served.
LEMMA RespondVersions ==
  ASSUME LoopIInv, NEW c \in Clients, NEW batch \in Batches, RespondBatch(c, batch)
  PROVE  /\ batch \subseteq Index
         /\ reply' = [reply EXCEPT ![c] = [i \in batch |-> precomputation[i]]]
         /\ batch # {} => database = precomputation /\ database \in Databases
<1>1. batch \subseteq Index
  BY ServerAssumption
<1>2. batch # {} => database = precomputation /\ database \in Databases
  BY DEF LoopIInv, IInv, TypeOK, Stored, ServedPairExact, RespondBatch, CanRespond
<1>3. \A i \in batch : Answer(i) = precomputation[i]
  BY <1>2, DataAssumption DEF Answer, SameStripe
<1>4. [i \in batch |-> Answer(i)] = [i \in batch |-> precomputation[i]]
  BY <1>3
<1> QED
  BY <1>1, <1>2, <1>4 DEF RespondBatch

\* An answer is no newer than what is served, so nothing falls behind it.
LEMMA RespondFresh ==
  ASSUME LoopIInv, Fresh, NEW c \in Clients, NEW batch \in Batches, RespondBatch(c, batch),
         UNCHANGED <<loopVars, writes>>
  PROVE  Fresh'
<1> DEFINE answers == [i \in batch |-> precomputation[i]]
<1>1. /\ UNCHANGED <<database, inner, staging, source, phase, cursor, panics>>
      /\ \A w \in Workers : Pending(w)' = Pending(w) /\ Copied(w)' = Copied(w)
  BY DEF RespondBatch, serverVars, workerVars, loopVars, Pending, Copied
<1>2. /\ batch \subseteq Index /\ DOMAIN reply = Clients
      /\ reply' = [reply EXCEPT ![c] = answers]
      /\ \A i \in batch : database \in Databases /\ answers[i] = database[i]
  BY RespondVersions DEF LoopIInv, IInv, TypeOK
<1>3. \A i \in batch : database[i] \in Values /\ database[i] \in Nat /\ database[i] <= source[i]
  BY <1>2, VersionsAreNumbers DEF Databases, Fresh, ServedNotAhead
<1>4. DOMAIN answers = batch
  OBVIOUS
<1> HIDE DEF answers
<1>5. \A d \in Clients : reply'[d] = IF d = c THEN answers ELSE reply[d]
  BY <1>2
<1>6. ServedNotAhead'
  <2>1. ASSUME NEW i \in batch
        PROVE  /\ answers[i] \in Values /\ answers[i] <= source[i]
               /\ answers[i] <= database[i]
    BY <1>2, <1>3
  <2>2. ASSUME NEW d \in Clients, reply'[d] # Nothing
        PROVE  /\ DOMAIN reply'[d] \subseteq Index
               /\ \A i \in DOMAIN reply'[d] :
                    /\ reply'[d][i] \in Values
                    /\ reply'[d][i] <= source[i]
                    /\ database \in Databases => reply'[d][i] <= database[i]
    <3>1. CASE d = c
      BY <1>2, <1>4, <1>5, <2>1, <3>1
    <3>2. CASE d # c
      BY <1>5, <2>2, <3>2 DEF Fresh, ServedNotAhead
    <3> QED
      BY <3>1, <3>2
  <2> QED
    BY <1>1, <2>2 DEF Fresh, ServedNotAhead
<1>7. PendingNotBehind'
  <2>1. ASSUME NEW w \in Workers, Pending(w) \in Databases, NEW i \in Copied(w),
               NEW d \in Clients, reply'[d] # Nothing, i \in DOMAIN reply'[d]
        PROVE  reply'[d][i] <= Pending(w)[i]
    <3>1. CASE d = c
      <4>1. i \in batch /\ reply'[d][i] = database[i]
        BY <1>2, <1>4, <1>5, <2>1, <3>1
      <4> QED
        BY <1>2, <2>1, <4>1 DEF Fresh, PendingNotBehind
    <3>2. CASE d # c
      BY <1>5, <2>1, <3>2 DEF Fresh, PendingNotBehind
    <3> QED
      BY <3>1, <3>2
  <2> QED
    BY <1>1, <2>1 DEF Fresh, PendingNotBehind
<1>8. KeptShell'
  BY <1>1 DEF Fresh, KeptShell
<1> QED
  BY <1>6, <1>7, <1>8 DEF Fresh

\* SETUP and the offline phase change no payload.
LEMMA ServeFresh ==
  ASSUME LoopIInv, Fresh, Serve
  PROVE  Fresh'
<1>1. CASE GenerateQueryMask \/ Offline \/ OfflinePanics
  <2>1. UNCHANGED <<database, reply, inner, staging, source, phase, cursor, panics>>
    BY <1>1 DEF Serve, GenerateQueryMask, Offline, OfflinePanics, workerVars, loopVars
  <2>2. \A w \in Workers : Pending(w)' = Pending(w) /\ Copied(w)' = Copied(w)
    BY <2>1 DEF Pending, Copied
  <2> QED
    BY <2>1, <2>2 DEF Fresh, ServedNotAhead, PendingNotBehind, KeptShell
<1>2. ASSUME NEW c \in Clients, NEW batch \in Batches, RespondBatch(c, batch)
      PROVE  Fresh'
  BY <1>2, RespondFresh DEF Serve
<1> QED
  BY <1>1, <1>2 DEF Serve, ServerStep
\* A step that writes neither the live database nor the replies leaves what is served where
\* it was.
LEMMA ServedUntouched ==
  ASSUME ServedNotAhead, UNCHANGED <<database, reply, source>>
  PROVE  ServedNotAhead'
BY DEF ServedNotAhead

\* A buffer that is only moved is where it was among the versions.
LEMMA PendingUntouched ==
  ASSUME PendingNotBehind, UNCHANGED <<database, reply, source>>,
         \A w \in Workers : Pending(w)' \in Databases =>
           Pending(w)' = Pending(w) /\ Copied(w)' \subseteq Copied(w)
  PROVE  PendingNotBehind'
BY DEF PendingNotBehind

\* A refill copies the newest versions over a part of the buffer.
LEMMA RefillFresh ==
  ASSUME LoopIInv, Fresh, NEW w \in Workers, Workers = {w}, Refill(w), UNCHANGED writes
  PROVE  Fresh'
<1> DEFINE vals == [k \in 1 .. ShardLen |-> source[cursor[w] + k - 1]]
           start == cursor[w]
<1>1. Fill(w, start, vals)
  BY DEF Refill
<1>2. UNCHANGED <<database, reply, source, inner, panics>>
  BY <1>1 DEF Refill, serverVars, Fill
<1>3. /\ start \in Nat /\ ShardLen \in Nat \ {0} /\ Len(vals) = ShardLen /\ vals # <<>>
      /\ start + ShardLen <= Capacity /\ Capacity \in Nat
  <2>1. start \in 0 .. Capacity /\ Capacity \in Nat
    BY DataAssumption DEF LoopIInv, LoopTypeOK, Capacity
  <2>2. Len(vals) = ShardLen /\ ShardLen \in Nat \ {0}
    BY LoopAssumption
  <2> HIDE DEF vals
  <2>3. start + ShardLen <= Capacity
    BY <1>1, <2>2 DEF Fill, Accepts
  <2>4. vals # <<>>
    BY <2>2
  <2> QED
    BY <2>1, <2>2, <2>3, <2>4
<1>4. /\ phase[w] = "refill" /\ cursor'[w] = start + ShardLen
      /\ staging'[w] = EncodeShard(staging[w], start, vals)
      /\ phase'[w] = IF start + ShardLen = Capacity THEN "filled" ELSE "refill"
  <2> HIDE DEF vals
  <2> QED
    BY <1>1, <1>3 DEF Refill, Fill, Goto, LoopIInv, LoopTypeOK, IInv, TypeOK
<1>5. Copied(w) = 0 .. start - 1 /\ Copied(w)' = 0 .. start + ShardLen - 1
  <2>1. Copied(w) = 0 .. start - 1
    BY <1>4 DEF Copied
  <2>2. CASE start + ShardLen = Capacity
    <3>1. Copied(w)' = Index
      BY <1>4, <2>2 DEF Copied
    <3> QED
      BY <1>3, <2>1, <2>2, <3>1 DEF Index
  <2>3. CASE start + ShardLen # Capacity
    <3>1. Copied(w)' = 0 .. cursor'[w] - 1
      BY <1>4, <2>3 DEF Copied
    <3> QED
      BY <1>3, <1>4, <2>1, <3>1
  <2> QED
    BY <2>2, <2>3
<1>6. Pending(w) = staging[w] /\ Pending(w)' = staging'[w]
  BY <1>4 DEF Pending
<1>7. staging[w] \in Databases
  <2> HIDE DEF vals
  <2> QED
    BY <1>1, <1>3 DEF Fill, Accepts, LoopIInv, IInv, TypeOK, Stored
<1>8. ASSUME NEW i \in 0 .. start + ShardLen - 1
      PROVE  staging'[w][i] = IF i < start THEN staging[w][i] ELSE source[i]
  <2>1. i \in Index
    BY <1>3 DEF Index
  <2>2. CASE i < start
    <3>1. i \notin Shard(start, ShardLen)
      BY <1>3, <2>2 DEF Shard
    <3> HIDE DEF vals
    <3> QED
      BY <1>3, <1>4, <2>1, <2>2, <3>1 DEF EncodeShard
  <2>3. CASE ~(i < start)
    <3>1. i \in Shard(start, ShardLen) /\ i - start + 1 \in 1 .. ShardLen
      BY <1>3, <2>1, <2>3 DEF Shard
    <3>2. vals[i - start + 1] = source[i]
      <4>1. start + (i - start + 1) - 1 = i
        BY <1>3
      <4> QED
        BY <3>1, <4>1
    <3> HIDE DEF vals
    <3> QED
      BY <1>3, <1>4, <2>1, <2>3, <3>1, <3>2 DEF EncodeShard
  <2> QED
    BY <2>2, <2>3
<1> HIDE DEF vals
<1>9. PendingNotBehind'
  <2> SUFFICES ASSUME NEW i \in 0 .. start + ShardLen - 1
               PROVE  /\ staging'[w][i] <= source[i]
                      /\ database \in Databases => database[i] <= staging'[w][i]
                      /\ \A c \in Clients : reply[c] # Nothing /\ i \in DOMAIN reply[c]
                                              => reply[c][i] <= staging'[w][i]
    BY <1>2, <1>5, <1>6 DEF PendingNotBehind
  <2>1. CASE i < start
    <3>1. i \in Copied(w)
      BY <1>3, <1>5, <2>1
    <3> QED
      BY <1>6, <1>7, <1>8, <2>1, <3>1 DEF Fresh, PendingNotBehind
  <2>2. CASE ~(i < start)
    <3>1. i \in Index /\ staging'[w][i] = source[i]
      BY <1>3, <1>8, <2>2 DEF Index
    <3>2. source[i] <= source[i]
      BY <3>1, VersionsAreNumbers
    <3> QED
      BY <3>1, <3>2 DEF Fresh, ServedNotAhead
  <2> QED
    BY <2>1, <2>2
<1>10. KeptShell'
  BY <1>2, <1>4 DEF Fresh, KeptShell
<1> QED
  BY <1>2, <1>9, <1>10, ServedUntouched DEF Fresh
\* install serves what has been copied last, and starts to refill what it hands back.
LEMMA InstallFresh ==
  ASSUME LoopIInv, Fresh, NEW w \in Workers, Workers = {w}, InstallPair(w)
  PROVE  Fresh'
<1>1. /\ phase[w] = "computed" /\ phase'[w] = "refill" /\ cursor'[w] = 0
      /\ database' = staging[w] /\ UNCHANGED <<reply, source, inner, panics>>
  BY DEF InstallPair, Install, Goto, LoopIInv, LoopTypeOK
<1>2. Pending(w) = staging[w] /\ Copied(w) = Index /\ Copied(w)' = {}
  <2>1. Copied(w)' = 0 .. -1
    BY <1>1 DEF Copied
  <2> QED
    BY <1>1, <2>1 DEF Pending, Copied
<1>3. ServedNotAhead'
  <2>1. database' \in Databases => \A i \in Index : database'[i] <= source[i]
    BY <1>1, <1>2 DEF Fresh, PendingNotBehind
  <2>2. ASSUME NEW c \in Clients, reply[c] # Nothing, NEW i \in DOMAIN reply[c],
               database' \in Databases
        PROVE  reply[c][i] <= database'[i]
    <3>1. i \in Index
      BY <2>2 DEF Fresh, ServedNotAhead
    <3> QED
      BY <1>1, <1>2, <2>2, <3>1 DEF Fresh, PendingNotBehind
  <2> QED
    BY <1>1, <2>1, <2>2 DEF Fresh, ServedNotAhead
<1>4. PendingNotBehind'
  BY <1>2 DEF PendingNotBehind
<1>5. KeptShell'
  BY <1>1 DEF Fresh, KeptShell
<1> QED
  BY <1>3, <1>4, <1>5 DEF Fresh

\* A new buffer holds no copies yet.
LEMMA AllocateFresh ==
  ASSUME LoopIInv, Fresh, NEW w \in Workers, Workers = {w}, Allocate(w)
  PROVE  Fresh'
<1>1. /\ phase'[w] = "refill" /\ cursor'[w] = 0
      /\ phase[w] \in {"allocate", "unfillable", "unwound"}
      /\ phase[w] = "unwound" => "allocate" \in Recovery
      /\ UNCHANGED <<database, reply, source, inner, panics>>
  BY DEF Allocate, NewDatabase, Goto, LoopIInv, LoopTypeOK, serverVars
<1>2. Copied(w)' = 0 .. -1
  BY <1>1 DEF Copied
<1>3. PendingNotBehind'
  BY <1>2 DEF PendingNotBehind
<1>4. KeptShell'
  BY <1>1 DEF Fresh, KeptShell
<1> QED
  BY <1>1, <1>3, <1>4, ServedUntouched DEF Fresh

\* offline_for moves the buffer into the context and back.
LEMMA OfflineForFresh ==
  ASSUME LoopIInv, Fresh, NEW w \in Workers, Workers = {w}, OfflineFor(w)
  PROVE  Fresh'
<1>1. UNCHANGED <<database, reply, source, cursor, panics>>
  BY DEF OfflineFor, SwapIn, Precompute, SwapOut, serverVars
<1>2. CASE phase[w] = "filled" /\ SwapIn(w) /\ Goto(w, "offline")
  <2>1. /\ phase'[w] = "offline" /\ inner'[w] = staging[w] /\ staging'[w] = inner[w]
        /\ inner[w] # Nothing
    BY <1>2 DEF SwapIn, Goto, LoopIInv, LoopTypeOK, IInv, TypeOK
  <2>2. Pending(w)' = Pending(w) /\ Copied(w)' = Copied(w)
    BY <1>2, <2>1 DEF Pending, Copied
  <2>3. KeptShell'
    BY <1>1, <1>2, <2>1 DEF Fresh, KeptShell
  <2> QED
    BY <1>1, <2>2, <2>3, ServedUntouched, PendingUntouched DEF Fresh
<1>3. CASE phase[w] = "offline" /\ Precompute(w) /\ UNCHANGED phase
  <2>1. UNCHANGED <<phase, inner, staging>>
    BY <1>3 DEF Precompute
  <2>2. Pending(w)' = Pending(w) /\ Copied(w)' = Copied(w)
    BY <1>1, <2>1 DEF Pending, Copied
  <2>3. KeptShell'
    BY <1>1, <2>1 DEF Fresh, KeptShell
  <2> QED
    BY <1>1, <2>2, <2>3, ServedUntouched, PendingUntouched DEF Fresh
<1>4. CASE phase[w] = "offline" /\ SwapOut(w) /\ Goto(w, "computed")
  <2>1. phase'[w] = "computed" /\ inner'[w] = staging[w] /\ staging'[w] = inner[w]
    BY <1>4 DEF SwapOut, Goto, LoopIInv, LoopTypeOK, IInv, TypeOK
  <2>2. Pending(w)' = Pending(w) /\ Copied(w)' = Copied(w)
    BY <1>4, <2>1 DEF Pending, Copied
  <2>3. KeptShell'
    BY <1>1, <1>4, <2>1 DEF Fresh, KeptShell
  <2> QED
    BY <1>1, <2>2, <2>3, ServedUntouched, PendingUntouched DEF Fresh
<1> QED
  BY <1>2, <1>3, <1>4 DEF OfflineFor

\* What is left to a caller that catches a panic is not a database.
LEMMA PanicFresh ==
  ASSUME LoopIInv, Fresh, NEW w \in Workers, Workers = {w}, OfflineForPanics(w), FewPanics'
  PROVE  Fresh'
<1>1. /\ UNCHANGED <<database, reply, source, staging, inner>>
      /\ phase[w] = "offline" /\ phase'[w] = "unwound" /\ panics' = panics + 1
      /\ panics \in Nat
  BY LoopAssumption DEF OfflineForPanics, PrecomputePanics, Goto, LoopIInv, LoopTypeOK, serverVars
<1>2. staging[w] = Placeholder
  <2>1. panics = 0 \/ Recovery = {"discard"}
    BY <1>1 DEF FewPanics
  <2> QED
    BY <1>1, <2>1 DEF Fresh, KeptShell
<1>3. Copied(w)' = {}
  BY <1>1 DEF Copied
<1>4. PendingNotBehind'
  BY <1>3 DEF PendingNotBehind
<1>5. KeptShell'
  BY <1>1, <1>2 DEF KeptShell
<1> QED
  BY <1>1, <1>4, <1>5, ServedUntouched DEF Fresh

\* The steps that move no buffer: a context is detached or dropped, a refill gives up, a
\* caller decides to call again.
LEMMA OtherStepsFresh ==
  ASSUME LoopIInv, Fresh, NEW w \in Workers, Workers = {w}, UNCHANGED writes,
         Start(w) \/ RefillPanics(w) \/ RetryOfflineFor(w) \/ DiscardContext(w)
  PROVE  Fresh'
<1>1. UNCHANGED <<database, reply, source, staging, cursor, panics>>
  BY DEF Start, Detach, RefillPanics, RetryOfflineFor, DiscardContext, Drop, vars,
         serverVars, workerVars
<1>2. CASE Start(w) \/ RefillPanics(w) \/ DiscardContext(w)
  <2>1. phase'[w] \in {"allocate", "unfillable", "start"}
    BY <1>2 DEF Start, RefillPanics, DiscardContext, Goto, LoopIInv, LoopTypeOK
  <2>2. Copied(w)' = {}
    BY <2>1 DEF Copied
  <2>3. PendingNotBehind'
    BY <2>2 DEF PendingNotBehind
  <2>4. inner'[w] \in {Placeholder, Nothing} \/ (RefillPanics(w) /\ inner'[w] = inner[w])
    BY <1>2 DEF Start, Detach, RefillPanics, DiscardContext, Drop, vars, workerVars,
       LoopIInv, IInv, TypeOK
  <2>5. KeptShell'
    BY <1>1, <2>1, <2>4 DEF Fresh, KeptShell, RefillPanics
  <2> QED
    BY <1>1, <2>3, <2>5, ServedUntouched DEF Fresh
<1>3. CASE RetryOfflineFor(w)
  <2>1. /\ phase[w] = "unwound" /\ phase'[w] = "filled" /\ inner' = inner
        /\ "retry" \in Recovery
    BY <1>3 DEF RetryOfflineFor, Goto, LoopIInv, LoopTypeOK, vars, workerVars
  <2>2. staging[w] = Placeholder /\ panics > 0
    BY <2>1 DEF Fresh, KeptShell
  <2>3. Pending(w)' \notin Databases
    BY <1>1, <2>1, <2>2, DataAssumption DEF Pending
  <2>4. PendingNotBehind'
    BY <2>3 DEF PendingNotBehind, Databases, Index, Capacity
  <2>5. KeptShell'
    <3>1. Recovery # {"discard"}
      BY <2>1
    <3>2. panics \in Nat
      BY LoopAssumption DEF LoopIInv, LoopTypeOK
    <3> QED
      BY <1>1, <2>1, <2>2, <3>1, <3>2 DEF KeptShell
  <2> QED
    BY <1>1, <2>4, <2>5, ServedUntouched DEF Fresh
<1> QED
  BY <1>2, <1>3
\* Panics are counted and never forgotten.
LEMMA FewPanicsBefore ==
  ASSUME LoopIInv, [LoopNext]_allVars, FewPanics'
  PROVE  FewPanics
<1>1. panics \in Nat
  BY LoopAssumption DEF LoopIInv, LoopTypeOK
<1>2. ASSUME NEW w \in Workers, LoopStep(w)
      PROVE  panics' = panics
  BY <1>2 DEF LoopStep, Start, Allocate, Refill, RefillPanics, OfflineFor, RetryOfflineFor,
     DiscardContext, InstallPair
<1>3. ASSUME NEW w \in Workers, OfflineForPanics(w)
      PROVE  panics' = panics + 1
  BY <1>3 DEF OfflineForPanics
<1>4. panics' = panics \/ panics' = panics + 1
  BY <1>2, <1>3 DEF LoopNext, ChangeSource, Serve, loopVars, allVars
<1> QED
  BY <1>1, <1>4 DEF FewPanics

\* Every step keeps the versions in their order, as long as the promise holds.
LEMMA NextFresh ==
  ASSUME NEW w \in Workers, Workers = {w}
  PROVE  LoopIInv /\ FreshInv /\ [LoopNext]_allVars => FreshInv'
<1> SUFFICES ASSUME LoopIInv, FreshInv, [LoopNext]_allVars, FewPanics'
             PROVE  Fresh'
  BY DEF FreshInv
<1>1. CASE UNCHANGED allVars
  <2>1. UNCHANGED <<database, reply, source, inner, staging, phase, cursor, panics>>
    BY <1>1 DEF allVars, loopVars, vars, serverVars, workerVars
  <2>2. Pending(w)' = Pending(w) /\ Copied(w)' = Copied(w)
    BY <2>1 DEF Pending, Copied
  <2> QED
    BY <2>1, <2>2 DEF FreshInv, FewPanics, Fresh, ServedNotAhead, PendingNotBehind, KeptShell
<1>2. CASE LoopNext
  <2>1. FewPanics
    BY FewPanicsBefore
  <2>2. Fresh
    BY <2>1 DEF FreshInv
  <2>3. ASSUME NEW i \in Index, ChangeSource(i) PROVE Fresh'
    BY <2>2, <2>3, ChangeSourceFresh
  <2>4. CASE Serve
    BY <2>2, <2>4, ServeFresh
  <2>5. CASE LoopStep(w)
    BY <2>2, <2>5, InstallFresh, AllocateFresh, RefillFresh, OfflineForFresh, OtherStepsFresh
       DEF LoopStep
  <2>6. CASE OfflineForPanics(w)
    BY <2>2, <2>6, PanicFresh
  <2> QED
    BY <1>2, <2>3, <2>4, <2>5, <2>6 DEF LoopNext
<1> QED
  BY <1>1, <1>2

\* A client's next answer is no older than its last.
LEMMA ReadsNotOlder ==
  ASSUME LoopIInv, FreshInv, FewPanics, [LoopNext]_allVars,
         NEW c \in Clients, reply[c] # Nothing, reply'[c] # Nothing
  PROVE  NotOlder(reply[c], reply'[c])
<1>1. Fresh
  BY DEF FreshInv
<1>2. CASE UNCHANGED reply
  <2>1. \A i \in DOMAIN reply[c] : reply[c][i] \in Nat
    BY <1>1, VersionsAreNumbers DEF Fresh, ServedNotAhead
  <2> QED
    BY <1>2, <2>1 DEF NotOlder
<1>3. ASSUME NEW d \in Clients, NEW batch \in Batches, RespondBatch(d, batch)
      PROVE  NotOlder(reply[c], reply'[c])
  <2> DEFINE answers == [i \in batch |-> precomputation[i]]
  <2>1. /\ batch \subseteq Index /\ reply' = [reply EXCEPT ![d] = answers]
        /\ \A i \in batch : answers[i] = database[i] /\ database \in Databases
    BY <1>3, RespondVersions
  <2>2. DOMAIN answers = batch /\ DOMAIN reply = Clients
    BY DEF LoopIInv, IInv, TypeOK
  <2> HIDE DEF answers
  <2>3. \A i \in DOMAIN reply[c] : reply[c][i] \in Nat
    BY <1>1, VersionsAreNumbers DEF Fresh, ServedNotAhead
  <2>4. CASE c = d
    <3>1. reply'[c] = answers
      BY <2>1, <2>2, <2>4
    <3>2. ASSUME NEW i \in DOMAIN reply[c] \cap batch
          PROVE  answers[i] >= reply[c][i]
      <4>1. answers[i] = database[i] /\ database[i] \in Nat
        BY <2>1, VersionsAreNumbers
      <4>2. reply[c][i] <= database[i]
        BY <1>1, <2>1 DEF Fresh, ServedNotAhead
      <4> QED
        BY <2>3, <4>1, <4>2
    <3> QED
      BY <2>2, <3>1, <3>2 DEF NotOlder
  <2>5. CASE c # d
    <3>1. reply'[c] = reply[c]
      BY <2>1, <2>2, <2>5
    <3> QED
      BY <2>3, <3>1 DEF NotOlder
  <2> QED
    BY <2>4, <2>5
<1>4. UNCHANGED reply \/ \E d \in Clients, batch \in Batches : RespondBatch(d, batch)
  BY DEF LoopNext, Serve, ServerStep, GenerateQueryMask, Offline, OfflinePanics, LoopStep,
     Start, Detach, Allocate, NewDatabase, Refill, Fill, RefillPanics, OfflineFor, SwapIn,
     Precompute, SwapOut, OfflineForPanics, PrecomputePanics, RetryOfflineFor,
     DiscardContext, Drop, InstallPair, Install, ChangeSource, vars, allVars
<1> QED
  BY <1>2, <1>3, <1>4

\* With one loop on a server (offline_for of server/mod.rs, as documented there) no client
\* reads an older version of a payload after a newer one, although the buffer that is
\* refilled is the database before last: for any database, source and clients, whatever
\* a caller does about its first panic, and about every panic if it discards its context.
THEOREM ReadsMonotonic ==
  ASSUME NEW w \in Workers, Workers = {w}
  PROVE  LoopSpec => MonotonicReads
<1> DEFINE Forward ==
             panics' <= 1 \/ Recovery = {"discard"} =>
               \A c \in Clients : reply[c] # Nothing /\ reply'[c] # Nothing
                                    => NotOlder(reply[c], reply'[c])
<1>1. LoopInit => FreshInv
  BY InitFresh
<1>2. LoopIInv /\ FreshInv /\ [LoopNext]_allVars => FreshInv'
  BY NextFresh
<1>3. LoopIInv /\ FreshInv /\ [LoopNext]_allVars => [Forward]_allVars
  <2> SUFFICES ASSUME LoopIInv, FreshInv, [LoopNext]_allVars, panics' <= 1 \/ Recovery = {"discard"}
               PROVE  \A c \in Clients : reply[c] # Nothing /\ reply'[c] # Nothing
                                           => NotOlder(reply[c], reply'[c])
    OBVIOUS
  <2>1. FewPanics
    BY FewPanicsBefore DEF FewPanics
  <2> QED
    BY <2>1, ReadsNotOlder
<1>4. LoopSpec => []LoopIInv
  BY LoopInvariance
<1>5. LoopSpec => [][Forward]_allVars
  BY <1>1, <1>2, <1>3, <1>4, PTL DEF LoopSpec
<1> QED
  BY <1>5 DEF MonotonicReads
=============================================================================

------------------------------ MODULE Packing ------------------------------
(***************************************************************************)
(* packing/: how a batch of LWE ciphertexts becomes one ring ciphertext.   *)
(*                                                                         *)
(* Before the query, from the masks alone: aggregate the masks into one    *)
(* column for each element of the Galois group (threads, each a chunk of   *)
(* the columns), collapse the columns one key switch at a time, and keep   *)
(* the mask of each switch in the view its baby step wants.  With the      *)
(* query: multiply the kept masks with the baby keys, group by group, move *)
(* each group by its giant step, and add to the bodies.                    *)
(*                                                                         *)
(* Full packing takes N ciphertexts in two halves and a merge; partial     *)
(* packing takes Gamma <= N / 2 in one half.                               *)
(***************************************************************************)
EXTENDS PackingKeys, WorkSplit, FiniteSets

CONSTANTS
  Cases,       \* the calls: partial, gamma, babySize, chunkSize, threads, salt
  Vector(_)    \* what is drawn: secrets, masks and bodies

Case == [partial: BOOLEAN, gamma: 1 .. N, babySize: Nat \ {0}, chunkSize: Nat \ {0},
         threads: Nat \ {0}, salt: Nat]

ASSUME CasesAssumption ==
  /\ \E e \in 1 .. N : N = 2 ^ e
  /\ \A c \in Cases :
       /\ c \in Case
       /\ \E e \in 0 .. N : c.gamma = 2 ^ e
       /\ IF c.partial THEN c.gamma <= N \div 2 ELSE c.gamma = N
       /\ \A draw \in 0 .. N + 2 : Vector(c.salt + draw) \in Poly

\* The shift to the right by log2(gamma) is the inverse of gamma.
ASSUME OddModulus == Q % 2 = 1

\* What powers are, as far as they are used here; the provers know nothing of them.
ASSUME PowersAssumption == 2 ^ 0 = 1 /\ \A k \in 0 .. N - 1 : 2 ^ (k + 1) = 2 * 2 ^ k

VARIABLES
  call,       \* the call in progress
  stage,      \* what it does next
  next,       \* worker -> its next column, counted from the start of its chunk
  panels,     \* worker -> its local columns
  aggregate,  \* the columns after the merge
  half, work, first, step,        \* the collapse
  bodyVmpMasks, finalMask,        \* what it records
  bsgsMasks, bsgsGiant,           \* the same in the views of the online pass
  chunk, bodyAcc,                 \* the online pass
  result

vars == <<call, stage, next, panels, aggregate, half, work, first, step, bodyVmpMasks,
          finalMask, bsgsMasks, bsgsGiant, chunk, bodyAcc, result>>

Log2(m) == CHOOSE e \in 0 .. m : 2 ^ e = m

(***************************************************************************)
(* The inputs of a call: vectors of the ring, drawn from its salt on.      *)
(***************************************************************************)
Rows == 0 .. call.gamma - 1
Secret == Vector(call.salt)
Seed == Vector(call.salt + 1)
LweMask(k) == Vector(call.salt + k + 2)
LweBody(k) == Vector(call.salt + N + 2)[k]
Bodies == [i \in Coef |-> IF i \in Rows THEN LweBody(i) ELSE 0]

(* What ciphertext k decrypts to *)
LwePhase(k) == (LweBody(k) + SumUpTo([i \in Coef |-> LweMask(k)[i] * Secret[i]], N)) % Q

Keys ==
  IF call.partial THEN GeneratePartialKey(Secret, Seed, (N \div 2) \div call.gamma)
  ELSE GenerateKeys(Secret, Seed)

(***************************************************************************)
(* Shapes                                                                  *)
(***************************************************************************)
Stride == IF call.partial THEN (N \div 2) \div call.gamma ELSE 1

(* Columns of the aggregate in one half, and the elements their columns belong to *)
Columns == IF call.partial THEN call.gamma ELSE N \div 2
HList(j) == GaloisElement(Stride * j)

Halves == IF call.partial THEN 1 ELSE 2
Steps == IF call.partial THEN call.gamma - 1 ELSE N - 1
KgSteps == IF call.partial THEN Steps ELSE Steps - 1
HalfSteps == IF call.partial THEN KgSteps ELSE KgSteps \div 2
GroupsPerHalf == CeilDiv(HalfSteps, call.babySize)
GroupCount == Halves * GroupsPerHalf

GroupStartStep(grp) ==
  (grp \div GroupsPerHalf) * HalfSteps + (grp % GroupsPerHalf) * call.babySize

GroupLen(grp) ==
  Least(HalfSteps - (GroupStartStep(grp) % HalfSteps), call.babySize)

(***************************************************************************)
(* Aggregation (packing_mask_preprocessing.rs)                             *)
(***************************************************************************)
Workers == 0 .. Least(call.threads, Columns) - 1

(* Contiguous chunks of the columns that differ in length by at most one *)
ChunkLen(w) ==
  Columns \div Cardinality(Workers) + IF w < Columns % Cardinality(Workers) THEN 1 ELSE 0

ChunkStart(w) == SumUpTo([v \in 0 .. w |-> ChunkLen(v)], w)

(* The masks as polynomials, divided by their number *)
Transposed == [k \in Rows |-> Scale(InvModQ(call.gamma), LweMask(k))]

(* Mutant: the levels a leaf climbs through stay occupied. *)
TreeStepKeepsLevels(tree, leaf) ==
  LET levels == DOMAIN tree.node
      free == {l \in levels : ~tree.occupied[l]}
      level == IF free = {} THEN Cardinality(levels)
               ELSE CHOOSE l \in free : \A m \in free : l <= m
      sum == Plus(leaf, PlusUpTo(tree.node, level))
  IN  [node |-> [tree.node EXCEPT ![level] = sum],
       occupied |-> [l \in levels |-> l = level \/ tree.occupied[l]],
       out |-> IF level = Cardinality(levels) THEN sum ELSE tree.out]

(* One leaf enters a binary tree of partial sums: it climbs through the
   occupied levels, and what leaves the top is the column. *)
TreeStep(tree, leaf) ==
  LET levels == DOMAIN tree.node
      free == {l \in levels : ~tree.occupied[l]}
      level == IF free = {} THEN Cardinality(levels)
               ELSE CHOOSE l \in free : \A m \in free : l <= m
      sum == Plus(leaf, PlusUpTo(tree.node, level))
  IN  [node |-> [tree.node EXCEPT ![level] = sum],
       occupied |-> [l \in levels |-> l = level \/ (l > level /\ tree.occupied[l])],
       out |-> IF level = Cardinality(levels) THEN sum ELSE tree.out]

StreamLeaves(leaf) ==
  LET levels == 0 .. Log2(call.gamma) - 1
      tree[k \in 0 .. call.gamma] ==
        IF k = 0 THEN [node |-> [l \in levels |-> Zero],
                       occupied |-> [l \in levels |-> FALSE], out |-> Zero]
        ELSE TreeStep(tree[k - 1], leaf[k - 1])
  IN  tree[call.gamma].out

(* The columns of one h: through the trees when packing fully, else added up *)
ProcessHFull(h) ==
  << StreamLeaves([k \in Rows |-> Rotate(k, Galois(-h, Transposed[k]))]),
     StreamLeaves([k \in Rows |-> Rotate(k, Galois(h, Transposed[k]))]) >>

ProcessHPartial(h) ==
  << PlusUpTo([k \in Rows |-> Rotate(k, Galois(-h, Transposed[k]))], call.gamma) >>

(* A worker computes its next column (or pair of columns) into its panel. *)
Aggregate(w) ==
  /\ stage = "aggregate"
  /\ next[w] < ChunkLen(w)
  /\ LET h == HList(ChunkStart(w) + next[w])
     IN panels' = [panels EXCEPT ![w] =
                     @ \o (IF call.partial THEN ProcessHPartial(h) ELSE ProcessHFull(h))]
  /\ next' = [next EXCEPT ![w] = @ + 1]
  /\ UNCHANGED <<call, stage, aggregate, half, work, first, step, bodyVmpMasks, finalMask,
                 bsgsMasks, bsgsGiant, chunk, bodyAcc, result>>

(* Where the local column of a panel goes: j of the chunk, and the half *)
LocalColumn(jj, hf) == Halves * jj + hf

(* All have joined; the panels are copied to their columns. *)
MergePanels ==
  /\ stage = "aggregate"
  /\ \A w \in Workers : next[w] = ChunkLen(w)
  /\ aggregate' = [c \in 0 .. Halves * Columns - 1 |->
       LET j == c % Columns
           w == CHOOSE v \in Workers :
                  ChunkStart(v) <= j /\ j < ChunkStart(v) + ChunkLen(v)
       IN panels[w][LocalColumn(j - ChunkStart(w), c \div Columns) + 1]]
  /\ stage' = "copyHalf"
  /\ UNCHANGED <<call, next, panels, half, work, first, step, bodyVmpMasks, finalMask,
                 bsgsMasks, bsgsGiant, chunk, bodyAcc, result>>

(***************************************************************************)
(* The collapse of the masks (packing_precomputations.rs)                  *)
(***************************************************************************)

(* The secret a column of a half is under is Galois(1/SecretView, s). *)
SecretView(col, hf) ==
  LET g == GaloisInv(GaloisElement(Stride * col)) IN IF hf = 1 THEN -g ELSE g

CopyAggregateHalf ==
  /\ stage = "copyHalf"
  /\ work' = [c \in 0 .. HalfSteps |-> aggregate[half * (HalfSteps + 1) + c]]
  /\ stage' = "collapse"
  /\ UNCHANGED <<call, next, panels, aggregate, half, first, step, bodyVmpMasks, finalMask,
                 bsgsMasks, bsgsGiant, chunk, bodyAcc, result>>

(* The step that moves column target + 1 to column target *)
TargetCol == (HalfSteps - 1) - (step - (half * HalfSteps))

CollapseStep ==
  /\ stage = "collapse"
  /\ TargetCol >= 0
  /\ LET view == SecretView(TargetCol, half)
         term == Galois(view, work[TargetCol + 1])
         addend == Times(term, MaskKeyG(Seed, Stride))
     IN /\ bodyVmpMasks' = [bodyVmpMasks EXCEPT ![step] = term]
        /\ work' = [work EXCEPT ![TargetCol] = Plus(@, Galois(GaloisInv(view), addend))]
  /\ step' = step + 1
  /\ UNCHANGED <<call, stage, next, panels, aggregate, half, first, finalMask,
                 bsgsMasks, bsgsGiant, chunk, bodyAcc, result>>

(* The first of two halves is kept while the second is collapsed. *)
NextHalf ==
  /\ stage = "collapse"
  /\ TargetCol < 0
  /\ half = 0 /\ Halves = 2
  /\ first' = work[0]
  /\ half' = 1
  /\ stage' = "copyHalf"
  /\ UNCHANGED <<call, next, panels, aggregate, work, step, bodyVmpMasks, finalMask,
                 bsgsMasks, bsgsGiant, chunk, bodyAcc, result>>

FinishCollapse ==
  /\ stage = "collapse"
  /\ TargetCol < 0
  /\ half = Halves - 1
  /\ IF call.partial
     THEN finalMask' = work[0] /\ UNCHANGED bodyVmpMasks
     ELSE /\ bodyVmpMasks' = [bodyVmpMasks EXCEPT ![step] = work[0]]
          /\ finalMask' = Plus(Times(work[0], MaskKeyH(Seed)), first)
  /\ stage' = "build"
  /\ UNCHANGED <<call, next, panels, aggregate, half, work, first, step, bsgsMasks,
                 bsgsGiant, chunk, bodyAcc, result>>

(* Mutant: the giant step of the second half keeps the sign of the first. *)
GiantAlphaOneSign(grp) ==
  LET target == HalfSteps - 1 - ((grp % GroupsPerHalf) * call.babySize)
  IN  GaloisInv(SecretView(target, 0))

(* Where the sum of a group of baby steps has to be moved *)
GiantAlpha(grp) ==
  LET target == HalfSteps - 1 - ((grp % GroupsPerHalf) * call.babySize)
  IN  GaloisInv(SecretView(target, grp \div GroupsPerHalf))

BuildBsgs ==
  /\ stage = "build"
  /\ bsgsGiant' = [grp \in 0 .. GroupCount - 1 |-> GiantAlpha(grp)]
  /\ bsgsMasks' = [s \in 0 .. Steps - 1 |->
       IF s >= KgSteps THEN bodyVmpMasks[s]
       ELSE LET grp == CHOOSE g \in 0 .. GroupCount - 1 :
                         s - GroupStartStep(g) \in 0 .. GroupLen(g) - 1
                b == s - GroupStartStep(grp)
            IN  Galois(GaloisInv(GaloisElement(Stride * b)), bodyVmpMasks[s])]
  /\ stage' = "pack"
  /\ UNCHANGED <<call, next, panels, aggregate, half, work, first, step, bodyVmpMasks,
                 finalMask, chunk, bodyAcc, result>>

(***************************************************************************)
(* The online pass (packing.rs)                                            *)
(***************************************************************************)
Prepared == PrepareKeys(Keys, call.babySize, Stride, call.partial)

ChunkGroups == chunk * call.chunkSize ..
               Least((chunk + 1) * call.chunkSize, GroupCount) - 1

(* The sum of the products of a group, moved by its giant step *)
GroupSum(grp) ==
  Galois(bsgsGiant[grp],
       PlusUpTo([b \in 0 .. GroupLen(grp) - 1 |->
                   Times(bsgsMasks[GroupStartStep(grp) + b], Prepared.babyKeyG[b])],
                GroupLen(grp)))

PackChunk ==
  /\ stage = "pack"
  /\ chunk < CeilDiv(GroupCount, call.chunkSize)
  /\ LET lo == chunk * call.chunkSize
     IN bodyAcc' = Plus(bodyAcc, PlusUpTo([i \in 0 .. Cardinality(ChunkGroups) - 1 |->
                                             GroupSum(lo + i)], Cardinality(ChunkGroups)))
  /\ chunk' = chunk + 1
  /\ UNCHANGED <<call, stage, next, panels, aggregate, half, work, first, step,
                 bodyVmpMasks, finalMask, bsgsMasks, bsgsGiant, result>>

PackFinish ==
  /\ stage = "pack"
  /\ chunk = CeilDiv(GroupCount, call.chunkSize)
  /\ bodyAcc' = IF call.partial THEN bodyAcc
                ELSE Plus(bodyAcc, Times(bsgsMasks[KgSteps], Prepared.keyH))
  /\ result' = [body |-> bodyAcc', mask |-> finalMask]
  /\ stage' = "done"
  /\ UNCHANGED <<call, next, panels, aggregate, half, work, first, step, bodyVmpMasks,
                 finalMask, bsgsMasks, bsgsGiant, chunk>>

(***************************************************************************)
(* The specification                                                       *)
(***************************************************************************)
Init ==
  /\ call \in Cases
  /\ KeysAccepted(Keys, Stride, call.partial)
  /\ stage = "aggregate"
  /\ next = [w \in Workers |-> 0]
  /\ panels = [w \in Workers |-> << >>]
  /\ aggregate = << >>
  /\ half = 0 /\ work = << >> /\ first = Zero /\ step = 0
  /\ bodyVmpMasks = [s \in 0 .. Steps - 1 |-> Zero]
  /\ finalMask = Zero
  /\ bsgsMasks = << >> /\ bsgsGiant = << >>
  /\ chunk = 0
  /\ bodyAcc = Bodies
  /\ result = << >>

Next ==
  \/ \E w \in Workers : Aggregate(w)
  \/ MergePanels
  \/ CopyAggregateHalf
  \/ CollapseStep
  \/ NextHalf
  \/ FinishCollapse
  \/ BuildBsgs
  \/ PackChunk
  \/ PackFinish

Spec == Init /\ [][Next]_vars
-----------------------------------------------------------------------------
(***************************************************************************)
(* Properties                                                              *)
(***************************************************************************)

(* The aggregate is the direct sum: column j of the first half adds up
   X^k Galois(-h_j, a_k), of the second half X^k Galois(h_j, a_k), over all k, with
   h_j = 5^(stride j), however many workers there were and in whatever order
   they ran, and whether the leaves went through the trees or were added up
   (packing_mask_preprocessing.rs). *)
AggregateIsReference ==
  stage = "copyHalf" /\ half = 0 =>
    \A c \in DOMAIN aggregate :
      LET h == HList(c % Columns)
          g == IF c < Columns THEN -h ELSE h
      IN  aggregate[c] =
            [i \in Coef |->
               (InvModQ(call.gamma) *
                SumUpTo([k \in Rows |-> Rotate(k, Galois(g, LweMask(k)))[i]], call.gamma)) % Q]

(* The secret that column c of half hf of the aggregate is under *)
ColumnSecret(c, hf) == Galois(GaloisInv(SecretView(c, hf)), Secret)

(* What the columns left in work decrypt to together *)
WorkPhase ==
  LET live == Least(TargetCol + 2, HalfSteps + 1)
  IN  PlusUpTo([c \in 0 .. live - 1 |-> Times(work[c], ColumnSecret(c, half))], live)

(* What the steps of this half recorded so far will add to the bodies *)
RecordedBodies ==
  LET done == step - (half * HalfSteps)
      target(i) == HalfSteps - 1 - i
      body == SplitOutputKey(Keys.g.body, GaloisElement(Stride))
  IN  PlusUpTo([i \in 0 .. done - 1 |->
                  Galois(GaloisInv(SecretView(target(i), half)),
                       Times(bodyVmpMasks[half * HalfSteps + i], body))], done)

(* Each step of the collapse moves a part of the ciphertext from the masks to
   what it records for the bodies, and loses nothing: at every step the columns
   left and the products recorded decrypt to what the half decrypted to before
   (precompute_collapse_half, packing_precomputations.rs). *)
CollapseKeepsPhase ==
  stage = "collapse" =>
    Plus(WorkPhase, RecordedBodies) =
      PlusUpTo([c \in 0 .. HalfSteps |->
                  Times(aggregate[half * (HalfSteps + 1) + c], ColumnSecret(c, half))],
               HalfSteps + 1)

(* The packed ciphertext decrypts, in coefficient k, to what ciphertext k of the
   batch decrypts to, for every split into baby and giant steps, every chunk
   size and every number of threads, packed fully or partially
   (pack_default, packing.rs; pack_precompute_default, default.rs). *)
PackedDecrypts ==
  stage = "done" =>
    \A k \in Rows : Plus(result.body, Times(result.mask, Secret))[k] = LwePhase(k)

=============================================================================

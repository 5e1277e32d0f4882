---------------------------- MODULE TiledProducts ----------------------------
(***************************************************************************)
(* server/common.rs and server/gemm.rs: the two products of the server,    *)
(* database times query mask (before a query) and database times query     *)
(* bodies (for a batch of queries), as threads tile them.                  *)
(*                                                                         *)
(* A database is a grid of row groups and column blocks.  Buffers are flat *)
(* and row-major, as in the code, and a floating point number is the       *)
(* history of its additions: a sequence of summands, so that two numbers   *)
(* are equal here when they are equal bit for bit.  A summand is what one  *)
(* kernel call adds, the products in the order the kernel adds them; the   *)
(* dense kernel is an external library and adds them in the order of the   *)
(* inner dimension, whatever the shape.                                    *)
(***************************************************************************)
EXTENDS WorkSplit, Sequences, FiniteSets

CONSTANTS
  Lanes,     \* numbers in a vector register
  RowBlock,  \* rows the AVX512 kernel takes at a time
  RowTile,   \* rows of a panel that are widened at a time
  Jobs

Job == [kind : {"body", "mask"}, kernel : {"avx512", "avx2", "scalar"},
        split : {"cols", "blocks"}, threads : Nat \ {0},
        groups : Nat \ {0}, blocks : Nat \ {0}, rowsOut : Nat \ {0},
        width : Nat \ {0}, lastWidth : Nat \ {0}, n : Nat \ {0},
        gamma : Nat \ {0}, t : Nat \ {0}]

ASSUME TiledAssumption ==
  /\ {Lanes, RowBlock, RowTile} \subseteq Nat \ {0}
  /\ \A j \in Jobs :
       /\ j \in Job
       /\ j.lastWidth <= j.width
       /\ j.rowsOut % j.gamma = 0
       /\ j.t <= j.groups * (j.rowsOut \div j.gamma)
       /\ j.kind = "mask" => j.groups = 1

VARIABLES
  job,     \* the product in progress; n is the queries of a batch, or the mask's columns
  turn,    \* worker -> kernel calls it has made
  acc,     \* row group -> the accumulator all tiles write into
  local,   \* worker -> its own accumulator (mask product)
  joined,  \* workers whose local result has been merged
  bodies   \* query -> record batch -> its body (body product)

vars == <<job, turn, acc, local, joined, bodies>>

(***************************************************************************)
(* Flat buffers                                                            *)
(***************************************************************************)
Slice(f, lo, hi) == [i \in 0 .. hi - lo - 1 |-> f[lo + i]]

Zeros(len) == [i \in 0 .. len - 1 |-> << >>]

RowsIn(bc) == IF bc = job.blocks - 1 THEN job.lastWidth ELSE job.width

(* The panel of row group rg and column block bc *)
U(rg, bc) ==
  [i \in 0 .. job.rowsOut * RowsIn(bc) - 1 |-> <<rg, bc, i \div RowsIn(bc), i % RowsIn(bc)>>]

(* The right-hand side: the queries' bodies (or the mask's columns) side by side *)
Rhs(bc) == [i \in 0 .. RowsIn(bc) * job.n - 1 |-> <<bc, i \div job.n, i % job.n>>]

(***************************************************************************)
(* Kernels (gemm.rs)                                                       *)
(***************************************************************************)

(* dst += lhs * rhs, the dense kernel *)
GemmF64Add(dst, lhs, rhs, k, n) ==
  [x \in DOMAIN dst |->
     Append(dst[x],
            [lanes |-> << >>,
             tail |-> [p \in 1 .. k |-> <<lhs[(x \div n) * k + p - 1],
                                          rhs[((p - 1) * n) + (x % n)]>>]])]

(* One row times a vector: Lanes partial sums, then the rest one by one *)
RowSum(u, start, b, k) ==
  LET full == k \div Lanes
  IN [lanes |-> [l \in 0 .. Lanes - 1 |->
                   [s \in 1 .. full |-> <<u[start + (s - 1) * Lanes + l],
                                          b[(s - 1) * Lanes + l]>>]],
      tail |-> [s \in 1 .. k - full * Lanes |->
                  <<u[start + full * Lanes + s - 1], b[full * Lanes + s - 1]>>]]

(* Mutant: the rows left over are counted from the first. *)
GemvAvx512Restarts(dst, u, b, rows, k) ==
  LET blocked == (rows \div RowBlock) * RowBlock
  IN [i \in DOMAIN dst |->
        Append(dst[i],
               IF i < blocked
               THEN RowSum(u, (((i \div RowBlock) * RowBlock) + (i % RowBlock)) * k, b, k)
               ELSE RowSum(u, (i - blocked) * k, b, k))]

(* RowBlock rows at a time, then the rows left over *)
GemvAvx512(dst, u, b, rows, k) ==
  LET blocked == (rows \div RowBlock) * RowBlock
  IN [i \in DOMAIN dst |->
        Append(dst[i],
               IF i < blocked
               THEN RowSum(u, (((i \div RowBlock) * RowBlock) + (i % RowBlock)) * k, b, k)
               ELSE RowSum(u, i * k, b, k))]

GemvAvx2(dst, u, b, k) ==
  [i \in DOMAIN dst |-> Append(dst[i], RowSum(u, i * k, b, k))]

GemvScalar(dst, u, b, k) ==
  [i \in DOMAIN dst |->
     Append(dst[i], [lanes |-> << >>, tail |-> [s \in 1 .. k |-> <<u[i * k + s - 1], b[s - 1]>>]])]

GemvI16(dst, u, b, rows, k) ==
  CASE job.kernel = "avx512" -> GemvAvx512(dst, u, b, rows, k)
    [] job.kernel = "avx2"   -> GemvAvx2(dst, u, b, k)
    [] OTHER                 -> GemvScalar(dst, u, b, k)

(* One query goes to the vector kernel; more of them to the dense kernel, the
   panel widened RowTile rows at a time. *)
GemmI16F64Add(dst, u, b, rows, k, n) ==
  IF n = 1 THEN GemvI16(dst, u, b, rows, k)
  ELSE LET tile(x) == (((x \div n) \div RowTile) * RowTile)
           last(r) == r + Least(RowTile, rows - r)
           done == [r \in {tile(x) : x \in DOMAIN dst} |->
                      GemmF64Add(Slice(dst, r * n, last(r) * n), Slice(u, r * k, last(r) * k),
                                 b, k, n)]
       IN [x \in DOMAIN dst |-> done[tile(x)][x - tile(x) * n]]

(***************************************************************************)
(* The body product: tiles are bands of rows of a group (common.rs)        *)
(***************************************************************************)
TilesPerGroup == CeilDiv(job.threads, job.groups)
Band == CeilDiv(job.rowsOut, TilesPerGroup)
BandsPerGroup == CeilDiv(job.rowsOut, Band)
TileCount == job.groups * BandsPerGroup

Tile(i) ==
  LET r0 == (i % BandsPerGroup) * Band
  IN  [rg |-> i \div BandsPerGroup, r0 |-> r0, len |-> Least(Band, job.rowsOut - r0)]

TileChunk == CeilDiv(TileCount, job.threads)

(* The tiles of one thread *)
TileGroup(w) == w * TileChunk .. Least((w + 1) * TileChunk, TileCount) - 1

(***************************************************************************)
(* The mask product: strips of columns, or ranges of blocks (common.rs)    *)
(***************************************************************************)
MaskThreads == Clamp(job.threads, 1, job.n)

Axis ==
  IF MaskThreads > 1 /\ job.split = "blocks" /\ job.blocks >= 2 THEN "blocks" ELSE "cols"

BlockThreads == Least(MaskThreads, job.blocks)

StripStart(w) == PartStart(job.n, MaskThreads, w)
StripWidth(w) == PartLen(job.n, MaskThreads, w)

Workers ==
  0 .. (IF job.kind = "body" THEN CeilDiv(TileCount, TileChunk)
        ELSE IF Axis = "blocks" THEN BlockThreads
        ELSE MaskThreads) - 1

(* The kernel calls a worker makes *)
Calls(w) ==
  IF job.kind = "body" THEN Cardinality(TileGroup(w)) * job.blocks
  ELSE IF Axis = "blocks" THEN PartLen(job.blocks, BlockThreads, w)
  ELSE job.blocks

Ended(w) == turn[w] = Calls(w)

(* The right-hand side of one strip *)
RhsStrip(bc, w) ==
  [i \in 0 .. RowsIn(bc) * StripWidth(w) - 1 |->
     Rhs(bc)[((i \div StripWidth(w)) * job.n) + StripStart(w) + (i % StripWidth(w))]]

(***************************************************************************)
(* Steps                                                                   *)
(***************************************************************************)

(* Mutant: a band reads the rows of the panel from the top. *)
BandRowsFromTop(u, tile, k) == Slice(u, 0, tile.len * k)

(* The rows of the panel a band multiplies *)
BandRows(u, tile, k) == Slice(u, tile.r0 * k, (tile.r0 + tile.len) * k)

(* A thread adds one block to its current band. *)
BodyTile(w) ==
  /\ job.kind = "body"
  /\ ~Ended(w)
  /\ LET tile == Tile(w * TileChunk + (turn[w] \div job.blocks))
         bc == turn[w] % job.blocks
         lo == tile.r0 * job.n
         hi == (tile.r0 + tile.len) * job.n
         sum == GemmI16F64Add(Slice(acc[tile.rg], lo, hi), BandRows(U(tile.rg, bc), tile, RowsIn(bc)),
                              Rhs(bc), tile.len, RowsIn(bc), job.n)
     IN acc' = [acc EXCEPT ![tile.rg] =
                  [x \in DOMAIN @ |-> IF lo <= x /\ x < hi THEN sum[x - lo] ELSE @[x]]]
  /\ turn' = [turn EXCEPT ![w] = @ + 1]
  /\ UNCHANGED <<job, local, joined, bodies>>

(* A thread adds its next block to its strip, or to its partial sum. *)
MaskStep(w) ==
  /\ job.kind = "mask"
  /\ ~Ended(w)
  /\ local' = [local EXCEPT ![w] =
       IF Axis = "blocks"
       THEN LET bc == PartStart(job.blocks, BlockThreads, w) + turn[w]
            IN GemmF64Add(@, U(0, bc), Rhs(bc), RowsIn(bc), job.n)
       ELSE GemmF64Add(@, U(0, turn[w]), RhsStrip(turn[w], w), RowsIn(turn[w]), StripWidth(w))]
  /\ turn' = [turn EXCEPT ![w] = @ + 1]
  /\ UNCHANGED <<job, acc, joined, bodies>>

(* The next strip is copied to its columns once its thread has ended. *)
JoinStrip ==
  /\ job.kind = "mask" /\ Axis = "cols"
  /\ joined \in Workers /\ Ended(joined)
  /\ LET w == joined
         Here(x) == (x % job.n) - StripStart(w)
     IN acc' = [acc EXCEPT ![0] =
          [x \in DOMAIN @ |->
             IF Here(x) \in 0 .. StripWidth(w) - 1
             THEN local[w][(x \div job.n) * StripWidth(w) + Here(x)] ELSE @[x]]]
  /\ joined' = joined + 1
  /\ UNCHANGED <<job, turn, local, bodies>>

(* The partial sums are added up in the order of their blocks when all have
   ended: the first is taken over as it is. *)
ReduceBlocks ==
  /\ job.kind = "mask" /\ Axis = "blocks"
  /\ joined \in Workers /\ \A w \in Workers : Ended(w)
  /\ acc' = [acc EXCEPT ![0] =
       [x \in DOMAIN @ |-> IF joined = 0 THEN local[0][x]
                           ELSE Append(@[x], [part |-> local[joined][x]])]]
  /\ joined' = joined + 1
  /\ UNCHANGED <<job, turn, local, bodies>>

(* The accumulators become one body for each query and record batch: column qi
   of the group's accumulator, and of it gamma rows for each batch. *)
SplitBodies ==
  /\ job.kind = "body"
  /\ bodies = << >>
  /\ \A w \in Workers : Ended(w)
  /\ LET perGroup == job.rowsOut \div job.gamma
     IN bodies' =
       [qi \in 0 .. job.n - 1 |-> [k \in 0 .. job.t - 1 |->
          [c \in 0 .. job.gamma - 1 |->
             acc[k \div perGroup][((k % perGroup) * job.gamma + c) * job.n + qi]]]]
  /\ UNCHANGED <<job, turn, acc, local, joined>>

Init ==
  /\ job \in Jobs
  /\ turn = [w \in Workers |-> 0]
  /\ acc = [rg \in 0 .. job.groups - 1 |-> Zeros(job.rowsOut * job.n)]
  /\ local = [w \in Workers |->
       IF job.kind = "body" THEN << >>
       ELSE Zeros(job.rowsOut * IF Axis = "blocks" THEN job.n ELSE StripWidth(w))]
  /\ joined = 0
  /\ bodies = << >>

Next ==
  \/ \E w \in Workers : BodyTile(w)
  \/ \E w \in Workers : MaskStep(w)
  \/ JoinStrip
  \/ ReduceBlocks
  \/ SplitBodies

Spec == Init /\ [][Next]_vars
-----------------------------------------------------------------------------
(***************************************************************************)
(* Properties                                                              *)
(***************************************************************************)
Done ==
  IF job.kind = "body" THEN bodies # << >> ELSE joined = Cardinality(Workers)

(* The products that make up row r of group rg times column c *)
Products(rg, r, c) ==
  {<< <<rg, bc, r, j>>, <<bc, j, c>> >> : bc \in 0 .. job.blocks - 1, j \in 0 .. job.width - 1}
    \ {<< <<rg, job.blocks - 1, r, j>>, <<job.blocks - 1, j, c>> >> :
          j \in job.lastWidth .. job.width - 1}

(* The products in one summand, and how many of them there are *)
InSummand(s) ==
  {s.tail[i] : i \in DOMAIN s.tail}
    \cup UNION {{s.lanes[l][i] : i \in DOMAIN s.lanes[l]} : l \in DOMAIN s.lanes}

SummandLen(s) ==
  Len(s.tail) + (IF s.lanes = << >> THEN 0 ELSE Lanes * Len(s.lanes[0]))

(* A number adds up exactly the given products, each once. *)
AddsUpOnce(summands, products) ==
  LET all == UNION {InSummand(summands[i]) : i \in DOMAIN summands}
      len[i \in 0 .. Len(summands)] ==
        IF i = 0 THEN 0 ELSE len[i - 1] + SummandLen(summands[i])
  IN  all = products /\ len[Len(summands)] = Cardinality(products)

(* A partial sum taken over whole is a sum of its summands: flatten it. *)
Flat(number) ==
  LET flat[i \in 0 .. Len(number)] ==
        IF i = 0 THEN << >>
        ELSE flat[i - 1] \o IF DOMAIN number[i] = {"part"} THEN number[i].part
                            ELSE <<number[i]>>
  IN flat[Len(number)]

(* Every output number is the sum of exactly its products, each added once,
   however threads, bands, strips, row tiles and vector blocks fall: the body
   of query qi for record batch k is rows gamma k .. of the database times the
   query's own column, and element (r, c) of a mask product is row r times
   column c (body_product_acc_parallel and mask_product_acc, common.rs). *)
EachProductOnce ==
  Done =>
    IF job.kind = "body"
    THEN \A qi \in DOMAIN bodies : \A k \in DOMAIN bodies[qi] : \A c \in DOMAIN bodies[qi][k] :
           LET row == k * job.gamma + c
           IN AddsUpOnce(bodies[qi][k][c], Products(row \div job.rowsOut, row % job.rowsOut, qi))
    ELSE \A x \in DOMAIN acc[0] :
           AddsUpOnce(Flat(acc[0][x]), Products(0, x \div job.n, x % job.n))

(* The same sum in one thread, over whole panels *)
Sequential(rg) ==
  LET sum[bc \in 0 .. job.blocks] ==
        IF bc = 0 THEN Zeros(job.rowsOut * job.n)
        ELSE IF job.kind = "body"
        THEN GemmI16F64Add(sum[bc - 1], U(rg, bc - 1), Rhs(bc - 1), job.rowsOut,
                           RowsIn(bc - 1), job.n)
        ELSE GemmF64Add(sum[bc - 1], U(rg, bc - 1), Rhs(bc - 1), RowsIn(bc - 1), job.n)
  IN sum[job.blocks]

(* Splitting rows, columns or record batches among threads does not change a
   single bit: the sum is added in the order of the sequential product.  Ranges
   of blocks do change the order, and are the option for those who accept it
   (MaskSplit, common.rs:278-294). *)
SplitKeepsBits ==
  Done /\ ~(job.kind = "mask" /\ Axis = "blocks") =>
    \A rg \in DOMAIN acc : acc[rg] = Sequential(rg)
=============================================================================

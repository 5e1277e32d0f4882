------------------------ MODULE TiledProducts_proofs ------------------------
(***************************************************************************)
(* Proofs about TiledProducts: however many threads there are, and however *)
(* the bands, strips, row tiles and vector blocks fall, every number of a  *)
(* product has the bits it has in one thread, and it is the sum of exactly *)
(* its products, each added once, also where threads take ranges of blocks *)
(* and the order of the sum is another.                                    *)
(*                                                                         *)
(* The prover knows nothing of recursive functions.  Sequential is one: it *)
(* is shown to be the function AccTo, which is written down without        *)
(* recursion, by induction on a set of numbers of blocks (StepsReachAll).  *)
(* So are Flat (FlatIs) and the count of products in AddsUpOnce (the sums  *)
(* of WorkSplit_proofs).                                                   *)
(*                                                                         *)
(* The last part is about RespondBatch, the batch whose bodies are such    *)
(* products: chunks, shares and slots, for any number of cores, any budget *)
(* and any number of panics.                                               *)
(***************************************************************************)
EXTENDS TiledProducts, RespondBatch, WorkSplit_proofs, SequenceTheorems, FiniteSetTheorems

-----------------------------------------------------------------------------
(* Numbers *)

\* Products of numbers are numbers.
LEMMA Times ==
  ASSUME NEW a \in Nat, NEW b \in Nat
  PROVE  a * b \in Nat /\ a * b = b * a
BY SMT

\* One row more is one row further.
LEMMA NextRow ==
  ASSUME NEW a \in Int, NEW b \in Int, NEW c \in Int
  PROVE  /\ a * b \in Int /\ (a + c) * b = a * b + c * b /\ (a + 1) * b = a * b + b
         /\ (a - c) * b = a * b - c * b
BY SMT

\* A place in a row-major buffer has one row and one column.
LEMMA RowAndColumn ==
  ASSUME NEW q \in Nat, NEW b \in Nat \ {0}, NEW r \in 0 .. b - 1
  PROVE  (q * b + r) \div b = q /\ (q * b + r) % b = r /\ q * b + r \in Nat
<1> DEFINE a == q * b + r
           x == a \div b
           y == a % b
<1>1. a \in Nat /\ q * b \in Nat
  BY Times
<1>2. x \in Nat /\ y \in 0 .. b - 1 /\ a = b * x + y
  BY <1>1, Quotient
<1>3. a = q * b + r
  OBVIOUS
<1> HIDE DEF a, x, y
<1>4. x * b \in Nat /\ b * x = x * b /\ a = x * b + y
  BY <1>2, Times
<1>5. ~(x < q)
  <2> SUFFICES ASSUME x < q PROVE FALSE
    OBVIOUS
  <2>1. (x + 1) * b <= q * b
    BY <1>2, ProductMonotone
  <2>2. (x + 1) * b = x * b + b
    BY <1>2, NextRow
  <2> QED
    BY <1>1, <1>2, <1>3, <1>4, <2>1, <2>2
<1>6. ~(q < x)
  <2> SUFFICES ASSUME q < x PROVE FALSE
    OBVIOUS
  <2>1. (q + 1) * b <= x * b
    BY <1>2, ProductMonotone
  <2>2. (q + 1) * b = q * b + b
    BY NextRow
  <2> QED
    BY <1>1, <1>2, <1>3, <1>4, <2>1, <2>2
<1>7. x = q
  BY <1>2, <1>5, <1>6
<1>8. y = r
  BY <1>1, <1>2, <1>3, <1>4, <1>7
<1> QED
  BY <1>1, <1>7, <1>8 DEF a, x, y

\* The row and the column of a place.
LEMMA PlaceIs ==
  ASSUME NEW rows \in Nat, NEW b \in Nat \ {0}, NEW x \in 0 .. rows * b - 1
  PROVE  /\ x \in Nat /\ x \div b \in 0 .. rows - 1 /\ x % b \in 0 .. b - 1
         /\ x = (x \div b) * b + (x % b)
<1>0. rows * b \in Nat
  BY Times
<1>1. x \in Nat /\ x < rows * b
  BY <1>0
<1> DEFINE q == x \div b
           r == x % b
<1>2. q \in Nat /\ r \in 0 .. b - 1 /\ x = b * q + r
  BY <1>1, Quotient
<1> HIDE DEF q, r
<1>3. b * q = q * b /\ q * b \in Nat
  BY <1>2, Times
<1>4. q < rows
  <2> SUFFICES ASSUME rows <= q PROVE FALSE
    BY <1>2
  <2>1. rows * b <= q * b
    BY <1>2, ProductMonotone
  <2> QED
    BY <1>0, <1>1, <1>2, <1>3, <2>1
<1> QED
  BY <1>1, <1>2, <1>3, <1>4 DEF q, r

-----------------------------------------------------------------------------
(* What a number is made of *)

\* What one call of the dense kernel adds to element x of a row group
DenseSummand(rg, bc, x) ==
  [lanes |-> << >>,
   tail |-> [p \in 1 .. RowsIn(bc) |-> <<U(rg, bc)[((x \div job.n) * RowsIn(bc)) + p - 1],
                                         Rhs(bc)[((p - 1) * job.n) + (x % job.n)]>>]]

\* What block bc adds to element x of row group rg, by the kernel of the job
Summand(rg, bc, x) ==
  IF job.kind = "mask" \/ job.n # 1 THEN DenseSummand(rg, bc, x)
  ELSE IF job.kernel = "scalar"
  THEN [lanes |-> << >>,
        tail |-> [s \in 1 .. RowsIn(bc) |-> <<U(rg, bc)[x * RowsIn(bc) + s - 1], Rhs(bc)[s - 1]>>]]
  ELSE RowSum(U(rg, bc), x * RowsIn(bc), Rhs(bc), RowsIn(bc))

\* The number at x once the first b blocks are added, in their order
UpTo(rg, x, b) == [i \in 1 .. b |-> Summand(rg, i - 1, x)]

\* The accumulator of a row group in one thread, after b blocks
AccTo(rg, b) == [x \in 0 .. job.rowsOut * job.n - 1 |-> UpTo(rg, x, b)]

\* The parameters of a job are positive numbers.
LEMMA JobIs ==
  ASSUME job \in Jobs
  PROVE  /\ job \in Job /\ job.lastWidth <= job.width
         /\ {job.threads, job.groups, job.blocks, job.rowsOut, job.width, job.lastWidth,
             job.n, job.gamma, job.t} \subseteq Nat \ {0}
         /\ {Lanes, RowBlock, RowTile} \subseteq Nat \ {0}
         /\ job.kind \in {"body", "mask"} /\ job.kernel \in {"avx512", "avx2", "scalar"}
         /\ job.kind = "mask" => job.groups = 1
         /\ \A bc : RowsIn(bc) \in Nat \ {0}
<1>1. /\ job \in Job /\ job.lastWidth <= job.width
      /\ job.kind = "mask" => job.groups = 1
      /\ {Lanes, RowBlock, RowTile} \subseteq Nat \ {0}
  BY TiledAssumption
<1>2. /\ {job.threads, job.groups, job.blocks, job.rowsOut, job.width, job.lastWidth,
          job.n, job.gamma, job.t} \subseteq Nat \ {0}
      /\ job.kind \in {"body", "mask"} /\ job.kernel \in {"avx512", "avx2", "scalar"}
  BY <1>1 DEF Job
<1>3. \A bc : RowsIn(bc) \in Nat \ {0}
  BY <1>2 DEF RowsIn
<1> QED
  BY <1>1, <1>2, <1>3

\* One more block is one more summand.
LEMMA NextSummand ==
  ASSUME NEW rg, NEW x, NEW b \in Nat
  PROVE  /\ Append(UpTo(rg, x, b), Summand(rg, b, x)) = UpTo(rg, x, b + 1)
         /\ UpTo(rg, x, 0) = << >>
<1> DEFINE S == {Summand(rg, i, x) : i \in Nat}
           s == UpTo(rg, x, b)
           e == Summand(rg, b, x)
<1>1. s \in [1 .. b -> S] /\ e \in S
  BY DEF UpTo
<1>2. UpTo(rg, x, b + 1) \in [1 .. b + 1 -> S]
  BY DEF UpTo
<1>3. \A i \in 1 .. b + 1 : UpTo(rg, x, b + 1)[i] = IF i = b + 1 THEN e ELSE s[i]
  <2> SUFFICES ASSUME NEW i \in 1 .. b + 1
               PROVE  UpTo(rg, x, b + 1)[i] = IF i = b + 1 THEN e ELSE s[i]
    OBVIOUS
  <2>1. UpTo(rg, x, b + 1)[i] = Summand(rg, i - 1, x)
    BY DEF UpTo
  <2>2. CASE i = b + 1
    BY <2>1, <2>2
  <2>3. CASE i # b + 1
    <3>1. i \in 1 .. b
      BY <2>3
    <3> QED
      BY <2>1, <2>3, <3>1 DEF UpTo
  <2> QED
    BY <2>2, <2>3
<1>4. UpTo(rg, x, 0) = << >>
  <2>1. UpTo(rg, x, 0) \in [1 .. 0 -> S]
    BY DEF UpTo
  <2> HIDE DEF S
  <2>2. UpTo(rg, x, 0) \in Seq(S) /\ Len(UpTo(rg, x, 0)) = 0
    BY <2>1
  <2> QED
    BY <2>2
<1> HIDE DEF S, s, e
<1>5. s \in Seq(S) /\ Len(s) = b
  BY <1>1
<1>6. /\ Append(s, e) \in [1 .. b + 1 -> S]
      /\ \A i \in 1 .. b + 1 : Append(s, e)[i] = IF i = b + 1 THEN e ELSE s[i]
  <2>1. /\ Append(s, e) \in Seq(S) /\ Len(Append(s, e)) = b + 1
        /\ \A i \in 1 .. b : Append(s, e)[i] = s[i]
        /\ Append(s, e)[b + 1] = e
    BY <1>1, <1>5, AppendProperties
  <2>2. Append(s, e) \in [1 .. b + 1 -> S]
    <3> DEFINE r == Append(s, e)
    <3>1. r \in Seq(S) /\ Len(r) = b + 1
      BY <2>1
    <3> HIDE DEF r
    <3>2. r \in [1 .. Len(r) -> S]
      BY <3>1
    <3> QED
      BY <3>1, <3>2 DEF r
  <2> QED
    BY <2>1, <2>2
<1>7. Append(s, e) = UpTo(rg, x, b + 1)
  BY <1>2, <1>3, <1>6
<1> QED
  BY <1>4, <1>7 DEF s, e

-----------------------------------------------------------------------------
(* The kernels on a band of rows *)

\* u holds the rows of panel (rg, bc) from row r0 on, len of them.
HoldsRows(u, rg, bc, r0, len) ==
  \A i \in 0 .. len - 1, s \in 0 .. RowsIn(bc) - 1 :
    u[i * RowsIn(bc) + s] = U(rg, bc)[(r0 + i) * RowsIn(bc) + s]

\* u from a on, and v from c on, hold the same k numbers.
SameRow(u, a, v, c, k) == \A s \in 0 .. k - 1 : u[a + s] = v[c + s]

\* A row times a vector depends on the row only, not on where it stands.
LEMMA RowSumSame ==
  ASSUME NEW u, NEW v, NEW a \in Nat, NEW c \in Nat, NEW b, NEW k \in Nat, Lanes \in Nat \ {0},
         SameRow(u, a, v, c, k)
  PROVE  RowSum(u, a, b, k) = RowSum(v, c, b, k)
<1>0. \A s \in 0 .. k - 1 : u[a + s] = v[c + s]
  BY DEF SameRow
<1> DEFINE full == k \div Lanes
<1>1. full \in Nat /\ full * Lanes \in Nat /\ full * Lanes <= k
  <2>1. full \in Nat /\ (k % Lanes) \in 0 .. Lanes - 1 /\ k = Lanes * full + (k % Lanes)
    BY Quotient
  <2> HIDE DEF full
  <2>2. Lanes * full = full * Lanes /\ full * Lanes \in Nat
    BY <2>1, Times
  <2> QED
    BY <2>1, <2>2
<1> HIDE DEF full
<1>2. ASSUME NEW l \in 0 .. Lanes - 1, NEW s \in 1 .. full
      PROVE  u[a + (s - 1) * Lanes + l] = v[c + (s - 1) * Lanes + l]
  <2> DEFINE m == (s - 1) * Lanes
  <2>1. m \in Nat /\ m + Lanes <= full * Lanes
    <3>1. s - 1 \in Nat /\ (s - 1) + 1 <= full
      BY <1>1
    <3>2. m \in Nat /\ ((s - 1) + 1) * Lanes = m + Lanes
      BY <3>1, Times, NextRow
    <3>3. ((s - 1) + 1) * Lanes <= full * Lanes
      BY <1>1, <3>1, ProductMonotone
    <3> QED
      BY <3>2, <3>3
  <2> HIDE DEF m
  <2>2. m + l \in 0 .. k - 1 /\ a + m + l = a + (m + l) /\ c + m + l = c + (m + l)
    BY <1>1, <2>1
  <2> QED
    BY <1>0, <2>2 DEF m
<1>3. ASSUME NEW s \in 1 .. k - full * Lanes
      PROVE  u[a + full * Lanes + s - 1] = v[c + full * Lanes + s - 1]
  <2> DEFINE m == full * Lanes
  <2>1. m \in Nat /\ m <= k /\ s \in 1 .. k - m
    BY <1>1
  <2> HIDE DEF m
  <2>2. m + s - 1 \in 0 .. k - 1 /\ a + m + s - 1 = a + (m + s - 1) /\ c + m + s - 1 = c + (m + s - 1)
    BY <2>1
  <2> QED
    BY <1>0, <2>2 DEF m
<1> QED
  BY <1>2, <1>3 DEF RowSum, full

\* sum is dst and the given summand of each row, of a band that starts at row r0
AddsRows(sum, dst, rg, bc, r0, len) ==
  sum = [y \in 0 .. len - 1 |-> Append(dst[y], Summand(rg, bc, r0 + y))]

\* The same of each number of the band, by the dense kernel
AddsDense(sum, dst, rg, bc, r0, len) ==
  sum = [y \in 0 .. len * job.n - 1 |-> Append(dst[y], DenseSummand(rg, bc, r0 * job.n + y))]

\* The same, by the kernel of the job
AddsBand(sum, dst, rg, bc, r0, len) ==
  sum = [y \in 0 .. len * job.n - 1 |-> Append(dst[y], Summand(rg, bc, r0 * job.n + y))]

\* One query: each vector kernel adds to each row of the band the sum it adds to that row of
\* the group.  The blocks of rows of the widest one put every row where it is.
LEMMA VectorKernelAdds ==
  ASSUME job \in Jobs, job.kind = "body", job.n = 1, NEW rg, NEW bc, NEW r0 \in Nat, NEW len \in Nat,
         NEW dst, DOMAIN dst = 0 .. len - 1, NEW u, HoldsRows(u, rg, bc, r0, len)
  PROVE  AddsRows(GemvI16(dst, u, Rhs(bc), len, RowsIn(bc)), dst, rg, bc, r0, len)
<1> DEFINE k == RowsIn(bc)
           v == U(rg, bc)
           b == Rhs(bc)
<1>1. k \in Nat /\ Lanes \in Nat \ {0} /\ RowBlock \in Nat \ {0}
  BY JobIs
<1>2. \A i \in 0 .. len - 1, s \in 0 .. k - 1 : u[i * k + s] = v[(r0 + i) * k + s]
  BY DEF HoldsRows
<1>3. \A x : Summand(rg, bc, x) =
        IF job.kernel = "scalar"
        THEN [lanes |-> << >>, tail |-> [s \in 1 .. k |-> <<v[x * k + s - 1], b[s - 1]>>]]
        ELSE RowSum(v, x * k, b, k)
  BY DEF Summand
<1> HIDE DEF k, v, b
<1>4. ASSUME NEW i \in 0 .. len - 1
      PROVE  /\ i * k \in Nat /\ (r0 + i) * k \in Nat
             /\ RowSum(u, i * k, b, k) = RowSum(v, (r0 + i) * k, b, k)
  <2>1. i \in Nat /\ r0 + i \in Nat
    OBVIOUS
  <2>2. i * k \in Nat /\ (r0 + i) * k \in Nat
    BY <1>1, <2>1, Times
  <2> DEFINE a == i * k
             c == (r0 + i) * k
  <2>3. SameRow(u, a, v, c, k)
    BY <1>2 DEF SameRow
  <2> HIDE DEF a, c
  <2>4. a \in Nat /\ c \in Nat
    BY <2>2 DEF a, c
  <2>5. RowSum(u, a, b, k) = RowSum(v, c, b, k)
    BY <1>1, <2>3, <2>4, RowSumSame
  <2> QED
    BY <2>2, <2>5 DEF a, c
<1>5. CASE job.kernel = "scalar"
  <2>1. ASSUME NEW i \in 0 .. len - 1, NEW s \in 1 .. k
        PROVE  u[i * k + s - 1] = v[(r0 + i) * k + s - 1]
    <3>1. s - 1 \in 0 .. k - 1
      BY <1>1
    <3>2. u[i * k + (s - 1)] = v[(r0 + i) * k + (s - 1)]
      BY <1>2, <3>1
    <3>3. i * k + s - 1 = i * k + (s - 1) /\ (r0 + i) * k + s - 1 = (r0 + i) * k + (s - 1)
      <4> DEFINE x == i * k
                 y == (r0 + i) * k
      <4>1. x \in Nat /\ y \in Nat /\ s \in Nat
        BY <1>1, <1>4
      <4> HIDE DEF x, y
      <4> QED
        BY <4>1 DEF x, y
    <3> QED
      BY <3>2, <3>3
  <2>2. ASSUME NEW i \in 0 .. len - 1
        PROVE  [s \in 1 .. k |-> <<u[i * k + s - 1], b[s - 1]>>]
                 = [s \in 1 .. k |-> <<v[(r0 + i) * k + s - 1], b[s - 1]>>]
    BY <2>1
  <2>3. GemvI16(dst, u, b, len, k) = GemvScalar(dst, u, b, k)
    BY <1>5 DEF GemvI16
  <2> DEFINE e(i) == [lanes |-> << >>, tail |-> [s \in 1 .. k |-> <<u[i * k + s - 1], b[s - 1]>>]]
  <2>4. ASSUME NEW i \in 0 .. len - 1
        PROVE  e(i) = Summand(rg, bc, r0 + i)
    <3>1. Summand(rg, bc, r0 + i) =
            [lanes |-> << >>, tail |-> [s \in 1 .. k |-> <<v[(r0 + i) * k + s - 1], b[s - 1]>>]]
      BY <1>3, <1>5
    <3> QED
      BY <2>2, <3>1
  <2>5. GemvScalar(dst, u, b, k) = [i \in 0 .. len - 1 |-> Append(dst[i], e(i))]
    BY DEF GemvScalar
  <2> HIDE DEF e
  <2> QED
    BY <2>3, <2>4, <2>5 DEF AddsRows, k, b
<1>6. CASE job.kernel = "avx2"
  <2>1. GemvI16(dst, u, b, len, k) = GemvAvx2(dst, u, b, k)
    BY <1>6 DEF GemvI16
  <2> QED
    BY <1>3, <1>4, <1>6, <2>1 DEF AddsRows, GemvAvx2, k, b
<1>7. CASE job.kernel = "avx512"
  <2>1. GemvI16(dst, u, b, len, k) = GemvAvx512(dst, u, b, len, k)
    BY <1>7 DEF GemvI16
  <2>2. \A i \in 0 .. len - 1 : ((i \div RowBlock) * RowBlock) + (i % RowBlock) = i
    <3> SUFFICES ASSUME NEW i \in 0 .. len - 1
                 PROVE  ((i \div RowBlock) * RowBlock) + (i % RowBlock) = i
      OBVIOUS
    <3> DEFINE q == i \div RowBlock
               r == i % RowBlock
    <3>1. i \in Nat /\ RowBlock \in Nat \ {0}
      BY <1>1
    <3>3. q \in Nat /\ r \in 0 .. RowBlock - 1 /\ i = RowBlock * q + r
      BY <3>1, Quotient
    <3> HIDE DEF q, r
    <3>2. RowBlock * q = q * RowBlock /\ q * RowBlock \in Nat
      BY <3>1, <3>3, Times
    <3> QED
      BY <3>3, <3>2 DEF q, r
  <2>3. GemvAvx512(dst, u, b, len, k) =
          [i \in 0 .. len - 1 |-> Append(dst[i], RowSum(u, i * k, b, k))]
    BY <2>2 DEF GemvAvx512
  <2> QED
    BY <1>3, <1>4, <1>7, <2>1, <2>3 DEF AddsRows, k, b
<1> QED
  BY <1>5, <1>6, <1>7, JobIs

\* Row i of u times column c of the right-hand side
RowSummand(u, i, bc, c) ==
  [lanes |-> << >>,
   tail |-> [p \in 1 .. RowsIn(bc) |-> <<u[i * RowsIn(bc) + p - 1], Rhs(bc)[((p - 1) * job.n) + c]>>]]

\* A row of the band times a column of the right-hand side is that row of the group times it.
LEMMA DenseRow ==
  ASSUME job \in Jobs, NEW rg, NEW bc, NEW r0 \in Nat, NEW len \in Nat, NEW u,
         HoldsRows(u, rg, bc, r0, len), NEW i \in 0 .. len - 1, NEW c \in 0 .. job.n - 1
  PROVE  RowSummand(u, i, bc, c) = DenseSummand(rg, bc, (r0 + i) * job.n + c)
<1> DEFINE k == RowsIn(bc)
           v == U(rg, bc)
           b == Rhs(bc)
           x == (r0 + i) * job.n + c
<1>1. k \in Nat /\ job.n \in Nat \ {0} /\ i \in Nat /\ r0 + i \in Nat
  BY JobIs
<1>2. x \div job.n = r0 + i /\ x % job.n = c
  BY <1>1, RowAndColumn
<1>3. \A s \in 0 .. k - 1 : u[i * k + s] = v[(r0 + i) * k + s]
  BY DEF HoldsRows
<1>4. DenseSummand(rg, bc, x) =
        [lanes |-> << >>, tail |-> [p \in 1 .. k |-> <<v[((x \div job.n) * k) + p - 1],
                                                      b[((p - 1) * job.n) + (x % job.n)]>>]]
  BY DEF DenseSummand
<1>5. i * k \in Nat /\ (r0 + i) * k \in Nat
  BY <1>1, Times
<1> HIDE DEF k, v, b, x
<1>6. ASSUME NEW p \in 1 .. k
      PROVE  u[i * k + p - 1] = v[(r0 + i) * k + p - 1]
  <2> DEFINE y == i * k
             z == (r0 + i) * k
  <2>1. p - 1 \in 0 .. k - 1
    BY <1>1
  <2>2. u[y + (p - 1)] = v[z + (p - 1)]
    BY <1>3, <2>1
  <2>3. y \in Nat /\ z \in Nat /\ p \in Nat
    BY <1>1, <1>5
  <2> HIDE DEF y, z
  <2>4. y + p - 1 = y + (p - 1) /\ z + p - 1 = z + (p - 1)
    BY <2>3
  <2> QED
    BY <2>2, <2>4 DEF y, z
<1>7. DenseSummand(rg, bc, x) =
        [lanes |-> << >>, tail |-> [p \in 1 .. k |-> <<v[((r0 + i) * k) + p - 1], b[((p - 1) * job.n) + c]>>]]
  BY <1>2, <1>4
<1> QED
  BY <1>6, <1>7 DEF RowSummand, k, b, x

\* Column c of row i, counted from row r in a buffer that ends at row m
PlaceFrom(r, i, m, b, c) ==
  /\ r * b \in Nat /\ m * b \in Nat /\ i * b \in Nat
  /\ (i - r) * b + c \in 0 .. m * b - r * b - 1
  /\ r * b + ((i - r) * b + c) = i * b + c

\* A place in rows r .. m - 1 of a buffer stays where it is when counted from the first of them.
LEMMA PlaceInRows ==
  ASSUME NEW r \in Nat, NEW i \in Nat, NEW m \in Nat, r <= i, i < m, NEW b \in Nat, NEW c \in 0 .. b - 1
  PROVE  PlaceFrom(r, i, m, b, c)
<1>1. r * b \in Nat /\ m * b \in Nat /\ i * b \in Nat
  BY Times
<1>2. (i - r) * b = i * b - r * b
  BY NextRow
<1>3. r * b <= i * b
  BY ProductMonotone
<1>4. (i + 1) * b = i * b + b
  BY NextRow
<1>5. (i + 1) * b <= m * b
  <2>1. i + 1 \in Nat /\ i + 1 <= m
    OBVIOUS
  <2> QED
    BY <2>1, ProductMonotone
<1> DEFINE x == r * b
           y == m * b
           z == i * b
           v == (i + 1) * b
           w == (i - r) * b
<1>6. x \in Nat /\ y \in Nat /\ z \in Nat /\ w = z - x /\ x <= z /\ v = z + b /\ v <= y
  BY <1>1, <1>2, <1>3, <1>4, <1>5
<1> HIDE DEF x, y, z, v, w
<1>7. w + c \in 0 .. y - x - 1 /\ x + (w + c) = z + c
  BY <1>6
<1> QED
  BY <1>6, <1>7 DEF PlaceFrom, x, y, z, w

\* More queries: the dense kernel, the band widened RowTile rows at a time, adds to each number
\* of the band what it adds to it in the whole group.
LEMMA DenseKernelAdds ==
  ASSUME job \in Jobs, job.n # 1, NEW rg, NEW bc, NEW r0 \in Nat, NEW len \in Nat,
         NEW dst, DOMAIN dst = 0 .. len * job.n - 1, NEW u, HoldsRows(u, rg, bc, r0, len)
  PROVE  AddsDense(GemmI16F64Add(dst, u, Rhs(bc), len, RowsIn(bc), job.n), dst, rg, bc, r0, len)
<1> DEFINE k == RowsIn(bc)
           b == Rhs(bc)
           n == job.n
           tile(x) == ((x \div n) \div RowTile) * RowTile
           last(r) == r + Least(RowTile, len - r)
           done == [r \in {tile(x) : x \in DOMAIN dst} |->
                      GemmF64Add(Slice(dst, r * n, last(r) * n), Slice(u, r * k, last(r) * k), b, k, n)]
<1>1. k \in Nat /\ n \in Nat \ {0} /\ RowTile \in Nat \ {0}
  BY JobIs
<1>2. GemmI16F64Add(dst, u, b, len, k, n) = [x \in 0 .. len * n - 1 |-> done[tile(x)][x - tile(x) * n]]
  BY DEF GemmI16F64Add
<1>3. ASSUME NEW x \in 0 .. len * n - 1
      PROVE  done[tile(x)][x - tile(x) * n] = Append(dst[x], DenseSummand(rg, bc, r0 * n + x))
  <2> DEFINE i == x \div n
             c == x % n
             r == tile(x)
             m == last(r)
             z == x - r * n
             l == Slice(dst, r * n, m * n)
             h == Slice(u, r * k, m * k)
  <2>1. x \in Nat /\ i \in 0 .. len - 1 /\ c \in 0 .. n - 1 /\ x = i * n + c
    BY <1>1, PlaceIs
  <2>2. r \in Nat /\ r <= i /\ i < r + RowTile
    <3> HIDE DEF i
    <3> DEFINE q == i \div RowTile
               e == i % RowTile
    <3>1. i \in Nat
      BY <2>1
    <3>2. q \in Nat /\ e \in 0 .. RowTile - 1 /\ i = RowTile * q + e
      BY <1>1, <3>1, Quotient
    <3>3. r = q * RowTile
      BY DEF i
    <3> HIDE DEF q, e, r
    <3>4. RowTile * q = q * RowTile /\ q * RowTile \in Nat
      BY <1>1, <3>2, Times
    <3> QED
      BY <1>1, <3>1, <3>2, <3>3, <3>4
  <2>3. done[r] = GemmF64Add(l, h, b, k, n)
    OBVIOUS
  <2>4. m \in Nat /\ i < m /\ m <= len
    <3> HIDE DEF i, r, tile
    <3> QED
      BY <1>1, <2>1, <2>2 DEF Least
  <2> HIDE DEF i, c, r, m, tile, last, done
  <2>5. /\ r * n \in Nat /\ m * n \in Nat /\ z = (i - r) * n + c
        /\ z \in 0 .. m * n - r * n - 1 /\ r * n + z = x
    <3> DEFINE z0 == (i - r) * n + c
    <3>1. /\ r * n \in Nat /\ m * n \in Nat /\ i * n \in Nat
          /\ z0 \in 0 .. m * n - r * n - 1 /\ r * n + z0 = i * n + c
      <4>1. PlaceFrom(r, i, m, n, c)
        <5>1. n \in Nat /\ i \in Nat
          BY <1>1, <2>1
        <5> HIDE DEF n
        <5> QED
          BY <2>1, <2>2, <2>4, <5>1, PlaceInRows
      <4> QED
        BY <4>1 DEF PlaceFrom
    <3>2. r * n + z0 = x
      BY <2>1, <3>1
    <3> DEFINE e == r * n
               g == m * n
    <3> HIDE DEF z0, e
    <3>3. e \in Nat /\ z0 \in Int /\ x = e + z0 /\ z = x - e
      <4> HIDE DEF g
      <4>1. e \in Nat /\ z0 \in 0 .. g - e - 1
        BY <3>1 DEF e, g
      <4> QED
        BY <3>2, <4>1 DEF e
    <3>4. z = z0
      BY <3>3
    <3> QED
      BY <3>1, <3>2, <3>4 DEF z0, e
  <2>6. z \div n = i - r /\ z % n = c
    <3>1. i - r \in Nat
      BY <2>1, <2>2
    <3> HIDE DEF z
    <3> QED
      BY <1>1, <2>1, <2>5, <3>1, RowAndColumn
  <2>7. z \in DOMAIN l /\ l[z] = dst[x]
    <3> HIDE DEF z
    <3> QED
      BY <2>5 DEF Slice
  <2>8. \A p \in 1 .. k : h[((i - r) * k) + p - 1] = u[i * k + p - 1]
    <3> SUFFICES ASSUME NEW p \in 1 .. k
                 PROVE  h[((i - r) * k) + p - 1] = u[i * k + p - 1]
      OBVIOUS
    <3> DEFINE y == ((i - r) * k) + p - 1
    <3>1. p - 1 \in 0 .. k - 1 /\ ((i - r) * k) + p - 1 = ((i - r) * k) + (p - 1)
      <4>1. (i - r) * k \in Int /\ p \in Nat
        BY <1>1, <2>1, <2>2, NextRow
      <4> QED
        BY <1>1, <4>1
    <3>2. y \in 0 .. m * k - r * k - 1 /\ r * k + y = i * k + (p - 1) /\ i * k + (p - 1) = i * k + p - 1
      <4>1. /\ ((i - r) * k) + (p - 1) \in 0 .. m * k - r * k - 1 /\ i * k \in Nat
            /\ r * k + (((i - r) * k) + (p - 1)) = i * k + (p - 1)
        <5>1. k \in Nat /\ i \in Nat
          BY <1>1, <2>1
        <5>2. PlaceFrom(r, i, m, k, p - 1)
          <6> HIDE DEF k
          <6> QED
            BY <2>2, <2>4, <3>1, <5>1, PlaceInRows
        <5> QED
          BY <5>2 DEF PlaceFrom
      <4>2. i * k + (p - 1) = i * k + p - 1
        BY <4>1
      <4> QED
        BY <3>1, <4>1, <4>2
    <3> HIDE DEF y
    <3>3. h[y] = u[r * k + y]
      BY <3>2 DEF Slice
    <3> QED
      BY <3>2, <3>3 DEF y
  <2>9. GemmF64Add(l, h, b, k, n)[z] =
          Append(dst[x], RowSummand(u, i, bc, c))
    <3> HIDE DEF l, h, z
    <3>1. GemmF64Add(l, h, b, k, n)[z] =
            Append(l[z], [lanes |-> << >>,
                          tail |-> [p \in 1 .. k |-> <<h[(z \div n) * k + p - 1], b[((p - 1) * n) + (z % n)]>>]])
      BY <2>7 DEF GemmF64Add
    <3> QED
      BY <2>6, <2>7, <2>8, <3>1 DEF RowSummand
  <2>10. (r0 + i) * n + c = r0 * n + x
    <3>1. i \in Nat /\ n \in Nat
      BY <1>1, <2>1
    <3> HIDE DEF n
    <3>2. (r0 + i) * n = r0 * n + i * n /\ r0 * n \in Nat /\ i * n \in Nat
      BY <3>1, NextRow, Times
    <3> DEFINE e == (r0 + i) * n
               f == r0 * n
               g == i * n
    <3>3. e = f + g /\ f \in Nat /\ g \in Nat /\ c \in Nat /\ x = g + c
      BY <1>1, <2>1, <3>2
    <3> HIDE DEF e, f, g
    <3>4. e + c = f + x
      BY <3>3
    <3> QED
      BY <3>4 DEF e, f
  <2>11. RowSummand(u, i, bc, c) = DenseSummand(rg, bc, r0 * n + x)
    BY <2>1, <2>10, DenseRow
  <2> QED
    BY <2>3, <2>9, <2>11 DEF r
<1> QED
  BY <1>2, <1>3 DEF AddsDense

\* A batch of queries, whatever its size: a band takes what its rows take in the whole group.
LEMMA BandAdds ==
  ASSUME job \in Jobs, job.kind = "body", NEW rg, NEW bc, NEW r0 \in Nat, NEW len \in Nat,
         NEW dst, DOMAIN dst = 0 .. len * job.n - 1, NEW u, HoldsRows(u, rg, bc, r0, len)
  PROVE  AddsBand(GemmI16F64Add(dst, u, Rhs(bc), len, RowsIn(bc), job.n), dst, rg, bc, r0, len)
<1>1. CASE job.n = 1
  <2>1. len * job.n = len /\ r0 * job.n = r0
    BY <1>1
  <2>2. AddsRows(GemvI16(dst, u, Rhs(bc), len, RowsIn(bc)), dst, rg, bc, r0, len)
    <3>1. DOMAIN dst = 0 .. len - 1
      BY <2>1
    <3> QED
      BY <1>1, <3>1, VectorKernelAdds
  <2>3. GemmI16F64Add(dst, u, Rhs(bc), len, RowsIn(bc), job.n)
          = GemvI16(dst, u, Rhs(bc), len, RowsIn(bc))
    BY <1>1 DEF GemmI16F64Add
  <2> QED
    BY <2>1, <2>2, <2>3 DEF AddsRows, AddsBand
<1>2. CASE job.n # 1
  <2>1. \A x : Summand(rg, bc, x) = DenseSummand(rg, bc, x)
    BY <1>2 DEF Summand
  <2>2. AddsDense(GemmI16F64Add(dst, u, Rhs(bc), len, RowsIn(bc), job.n), dst, rg, bc, r0, len)
    BY <1>2, DenseKernelAdds
  <2> QED
    BY <2>1, <2>2 DEF AddsDense, AddsBand
<1> QED
  BY <1>1, <1>2

\* The slice of the panel that a band reads holds the band's rows; the panel holds all rows.
LEMMA BandRowsHeld ==
  ASSUME job \in Jobs, NEW rg, NEW bc
  PROVE  /\ HoldsRows(U(rg, bc), rg, bc, 0, job.rowsOut)
         /\ \A tile : tile.r0 \in Nat /\ tile.len \in Nat /\ tile.r0 + tile.len <= job.rowsOut
              => HoldsRows(BandRows(U(rg, bc), tile, RowsIn(bc)), rg, bc, tile.r0, tile.len)
<1> DEFINE k == RowsIn(bc)
           v == U(rg, bc)
<1>1. k \in Nat
  BY JobIs
<1>2. HoldsRows(v, rg, bc, 0, job.rowsOut)
  <2>1. job.rowsOut \in Nat
    BY JobIs
  <2>2. \A i \in 0 .. job.rowsOut - 1 : 0 + i = i
    BY <2>1
  <2> QED
    BY <2>2 DEF HoldsRows
<1>3. ASSUME NEW tile, tile.r0 \in Nat, tile.len \in Nat
      PROVE  HoldsRows(BandRows(v, tile, k), rg, bc, tile.r0, tile.len)
  <2> DEFINE r0 == tile.r0
             len == tile.len
             u == BandRows(v, tile, k)
             m == r0 + len
  <2>1. u = Slice(v, r0 * k, m * k)
    BY DEF BandRows
  <2>2. ASSUME NEW i \in 0 .. len - 1, NEW s \in 0 .. k - 1
        PROVE  u[i * k + s] = v[(r0 + i) * k + s]
    <3> DEFINE y == i * k + s
    <3>1. r0 \in Nat /\ r0 + i \in Nat /\ m \in Nat /\ r0 <= r0 + i /\ r0 + i < m /\ (r0 + i) - r0 = i
      BY <1>3
    <3>2. PlaceFrom(r0, r0 + i, m, k, s)
      <4> DEFINE j == r0 + i
      <4>1. j \in Nat /\ r0 \in Nat /\ m \in Nat /\ r0 <= j /\ j < m
        BY <3>1
      <4> HIDE DEF j, k, m, r0
      <4>2. PlaceFrom(r0, j, m, k, s)
        BY <1>1, <4>1, PlaceInRows
      <4> QED
        BY <4>2 DEF j
    <3>3. y \in 0 .. m * k - r0 * k - 1 /\ r0 * k + y = (r0 + i) * k + s
      BY <3>1, <3>2 DEF PlaceFrom
    <3> HIDE DEF y
    <3>4. u[y] = v[r0 * k + y]
      BY <2>1, <3>3 DEF Slice
    <3> QED
      BY <3>3, <3>4 DEF y
  <2> QED
    BY <2>2 DEF HoldsRows
<1> QED
  BY <1>2, <1>3

\* The accumulator of one thread, one block after the other
LEMMA NextBlock ==
  ASSUME job \in Jobs, NEW rg, NEW b \in Nat
  PROVE  /\ job.kind = "body" =>
              GemmI16F64Add(AccTo(rg, b), U(rg, b), Rhs(b), job.rowsOut, RowsIn(b), job.n) = AccTo(rg, b + 1)
         /\ job.kind = "mask" =>
              GemmF64Add(AccTo(rg, b), U(rg, b), Rhs(b), RowsIn(b), job.n) = AccTo(rg, b + 1)
         /\ AccTo(rg, 0) = Zeros(job.rowsOut * job.n)
<1> DEFINE dst == AccTo(rg, b)
           len == job.rowsOut
<1>1. len \in Nat /\ job.n \in Nat /\ len * job.n \in Nat
  BY JobIs, Times
<1>2. DOMAIN dst = 0 .. len * job.n - 1 /\ \A x \in 0 .. len * job.n - 1 : dst[x] = UpTo(rg, x, b)
  BY DEF AccTo
<1>3. AccTo(rg, b + 1) = [x \in 0 .. len * job.n - 1 |-> Append(dst[x], Summand(rg, b, x))]
  BY <1>2, NextSummand DEF AccTo
<1>4. AccTo(rg, 0) = Zeros(len * job.n)
  BY NextSummand DEF AccTo, Zeros
<1>5. CASE job.kind = "body"
  <2> HIDE DEF dst
  <2>1. AddsBand(GemmI16F64Add(dst, U(rg, b), Rhs(b), len, RowsIn(b), job.n), dst, rg, b, 0, len)
    <3>1. HoldsRows(U(rg, b), rg, b, 0, len)
      BY BandRowsHeld
    <3> QED
      BY <1>1, <1>2, <1>5, <3>1, BandAdds
  <2>2. \A y \in 0 .. len * job.n - 1 : 0 * job.n + y = y
    BY <1>1
  <2> QED
    BY <1>3, <1>4, <1>5, <2>1, <2>2 DEF AddsBand, dst
<1>6. CASE job.kind = "mask"
  <2>1. \A x : Summand(rg, b, x) = DenseSummand(rg, b, x)
    BY <1>6 DEF Summand
  <2> HIDE DEF dst
  <2>2. GemmF64Add(dst, U(rg, b), Rhs(b), RowsIn(b), job.n)
          = [x \in 0 .. len * job.n - 1 |-> Append(dst[x], DenseSummand(rg, b, x))]
    BY <1>2 DEF GemmF64Add, DenseSummand
  <2> QED
    BY <1>3, <1>4, <1>6, <2>1, <2>2 DEF dst
<1> QED
  BY <1>4, <1>5, <1>6, JobIs

\* The recursive sum in one thread is the accumulator after all blocks.
LEMMA SequentialIs ==
  ASSUME job \in Jobs, NEW rg
  PROVE  Sequential(rg) = AccTo(rg, job.blocks)
<1> DEFINE add(s) == [bc \in 0 .. job.blocks |->
             IF bc = 0 THEN Zeros(job.rowsOut * job.n)
             ELSE IF job.kind = "body"
             THEN GemmI16F64Add(s[bc - 1], U(rg, bc - 1), Rhs(bc - 1), job.rowsOut,
                                RowsIn(bc - 1), job.n)
             ELSE GemmF64Add(s[bc - 1], U(rg, bc - 1), Rhs(bc - 1), RowsIn(bc - 1), job.n)]
           sum == CHOOSE s : s = add(s)
           whole == [bc \in 0 .. job.blocks |-> AccTo(rg, bc)]
           S == {bc \in 0 .. job.blocks : sum[bc] = AccTo(rg, bc)}
<1>1. job.blocks \in Nat /\ job.kind \in {"body", "mask"}
  BY JobIs
<1>2. Sequential(rg) = sum[job.blocks]
  BY DEF Sequential
<1>3. ASSUME NEW s, NEW bc \in 0 .. job.blocks, bc # 0, s[bc - 1] = AccTo(rg, bc - 1)
      PROVE  add(s)[bc] = AccTo(rg, bc)
  <2>1. bc - 1 \in Nat /\ (bc - 1) + 1 = bc
    BY <1>1, <1>3
  <2>2. add(s)[bc] =
          IF job.kind = "body"
          THEN GemmI16F64Add(s[bc - 1], U(rg, bc - 1), Rhs(bc - 1), job.rowsOut, RowsIn(bc - 1), job.n)
          ELSE GemmF64Add(s[bc - 1], U(rg, bc - 1), Rhs(bc - 1), RowsIn(bc - 1), job.n)
    BY <1>3
  <2> HIDE DEF add
  <2> DEFINE b == bc - 1
  <2>3. b \in Nat /\ b + 1 = bc /\ s[b] = AccTo(rg, b)
    BY <1>3, <2>1
  <2>4. add(s)[bc] =
          IF job.kind = "body"
          THEN GemmI16F64Add(s[b], U(rg, b), Rhs(b), job.rowsOut, RowsIn(b), job.n)
          ELSE GemmF64Add(s[b], U(rg, b), Rhs(b), RowsIn(b), job.n)
    BY <2>2
  <2> HIDE DEF b
  <2>5. /\ job.kind = "body" =>
             GemmI16F64Add(AccTo(rg, b), U(rg, b), Rhs(b), job.rowsOut, RowsIn(b), job.n) = AccTo(rg, b + 1)
        /\ job.kind = "mask" =>
             GemmF64Add(AccTo(rg, b), U(rg, b), Rhs(b), RowsIn(b), job.n) = AccTo(rg, b + 1)
    BY <2>3, NextBlock
  <2> QED
    BY <1>1, <2>3, <2>4, <2>5
<1>4. \A s : add(s)[0] = AccTo(rg, 0)
  <2>1. AccTo(rg, 0) = Zeros(job.rowsOut * job.n)
    BY NextBlock
  <2> QED
    BY <1>1, <2>1
<1>5. whole = add(whole)
  <2>1. ASSUME NEW bc \in 0 .. job.blocks
        PROVE  add(whole)[bc] = AccTo(rg, bc)
    <3>1. CASE bc = 0
      BY <1>4, <3>1
    <3>2. CASE bc # 0
      <4>1. whole[bc - 1] = AccTo(rg, bc - 1)
        BY <1>1, <3>2
      <4> HIDE DEF add, whole
      <4> QED
        BY <1>3, <3>2, <4>1
    <3> QED
      BY <3>1, <3>2
  <2>2. add(whole) = [bc \in 0 .. job.blocks |-> add(whole)[bc]]
    OBVIOUS
  <2> HIDE DEF add
  <2> QED
    BY <2>1, <2>2
<1>6. sum = add(sum)
  <2> HIDE DEF add, whole
  <2> QED
    BY <1>5
<1> HIDE DEF sum, add
<1>7. 0 \in S
  BY <1>1, <1>4, <1>6
<1>8. \A bc \in 0 .. job.blocks - 1 : bc \in S => bc + 1 \in S
  <2> SUFFICES ASSUME NEW bc \in 0 .. job.blocks - 1, sum[bc] = AccTo(rg, bc)
               PROVE  bc + 1 \in 0 .. job.blocks /\ sum[bc + 1] = AccTo(rg, bc + 1)
    OBVIOUS
  <2> DEFINE c == bc + 1
  <2>1. c \in 0 .. job.blocks /\ c # 0 /\ c - 1 = bc
    BY <1>1
  <2>2. sum[c - 1] = AccTo(rg, c - 1)
    BY <2>1
  <2> HIDE DEF c
  <2>3. add(sum)[c] = AccTo(rg, c)
    BY <1>3, <2>1, <2>2
  <2> QED
    BY <1>6, <2>1, <2>3 DEF c
<1>9. 0 .. job.blocks \subseteq S
  <2> HIDE DEF S
  <2> QED
    BY <1>1, <1>7, <1>8, StepsReachAll
<1> QED
  BY <1>1, <1>2, <1>9

-----------------------------------------------------------------------------
(* The steps of a product *)

\* While the job stays the same, so does everything that is computed from it alone.
LEMMA SameJob ==
  ASSUME job' = job
  PROVE  /\ \A rg, x, b : UpTo(rg, x, b)' = UpTo(rg, x, b)
         /\ \A i : Tile(i)' = Tile(i)
         /\ \A w : TileGroup(w)' = TileGroup(w)
         /\ \A w : Calls(w)' = Calls(w)
         /\ \A w : StripStart(w)' = StripStart(w) /\ StripWidth(w)' = StripWidth(w)
         /\ Workers' = Workers /\ TileChunk' = TileChunk /\ Axis' = Axis /\ MaskThreads' = MaskThreads
<1>1. \A bc : RowsIn(bc)' = RowsIn(bc)
  BY DEF RowsIn
<1>2. \A rg, bc : U(rg, bc)' = U(rg, bc)
  BY <1>1 DEF U
<1>3. \A bc : Rhs(bc)' = Rhs(bc)
  BY <1>1 DEF Rhs
<1>4. \A rg, bc, x : DenseSummand(rg, bc, x)' = DenseSummand(rg, bc, x)
  BY <1>1, <1>2, <1>3 DEF DenseSummand
<1>5. \A rg, bc, x : Summand(rg, bc, x)' = Summand(rg, bc, x)
  <2> SUFFICES ASSUME NEW rg, NEW bc, NEW x
               PROVE  Summand(rg, bc, x)' = Summand(rg, bc, x)
    OBVIOUS
  <2>1. RowsIn(bc)' = RowsIn(bc) /\ U(rg, bc)' = U(rg, bc) /\ Rhs(bc)' = Rhs(bc)
    BY <1>1, <1>2, <1>3
  <2>2. RowSum(U(rg, bc), x * RowsIn(bc), Rhs(bc), RowsIn(bc))'
          = RowSum(U(rg, bc), x * RowsIn(bc), Rhs(bc), RowsIn(bc))
    BY <2>1 DEF RowSum
  <2> QED
    BY <1>4, <2>1, <2>2 DEF Summand
<1>6. \A rg, x, b : UpTo(rg, x, b)' = UpTo(rg, x, b)
  BY <1>5 DEF UpTo
<1>7. TilesPerGroup' = TilesPerGroup
  BY DEF TilesPerGroup
<1>8. Band' = Band
  BY <1>7 DEF Band
<1>9. BandsPerGroup' = BandsPerGroup
  BY <1>8 DEF BandsPerGroup
<1>10. TileCount' = TileCount
  BY <1>9 DEF TileCount
<1>11. \A i : Tile(i)' = Tile(i)
  BY <1>8, <1>9 DEF Tile
<1>12. TileChunk' = TileChunk
  BY <1>10 DEF TileChunk
<1>13. \A w : TileGroup(w)' = TileGroup(w)
  BY <1>10, <1>12 DEF TileGroup
<1>14. MaskThreads' = MaskThreads
  BY DEF MaskThreads
<1>15. Axis' = Axis
  BY <1>14 DEF Axis
<1>16. BlockThreads' = BlockThreads
  BY <1>14 DEF BlockThreads
<1>17. \A w : StripStart(w)' = StripStart(w) /\ StripWidth(w)' = StripWidth(w)
  BY <1>14 DEF StripStart, StripWidth
<1>18. Workers' = Workers
  BY <1>10, <1>12, <1>14, <1>15, <1>16 DEF Workers
<1>19. \A w : Calls(w)' = Calls(w)
  BY <1>13, <1>15, <1>16 DEF Calls
<1> QED
  BY <1>6, <1>11, <1>12, <1>13, <1>14, <1>15, <1>17, <1>18, <1>19

-----------------------------------------------------------------------------
(* Bands, and the threads they fall to *)

\* A quotient rounded up
LEMMA CeilIs ==
  ASSUME NEW a \in Nat \ {0}, NEW b \in Nat \ {0}
  PROVE  /\ CeilDiv(a, b) \in Nat \ {0} /\ CeilDiv(a, b) * b \in Nat
         /\ a <= CeilDiv(a, b) * b
         /\ (CeilDiv(a, b) - 1) * b < a
<1> DEFINE c == a + b - 1
           q == c \div b
           r == c % b
<1>1. c \in Nat
  OBVIOUS
<1>2. q \in Nat /\ r \in 0 .. b - 1 /\ c = b * q + r
  <2> HIDE DEF c
  <2> QED
    BY <1>1, Quotient
<1>3. CeilDiv(a, b) = q
  BY DEF CeilDiv
<1> HIDE DEF q, r
<1>4. b * q = q * b /\ q * b \in Nat /\ (q - 1) * b = q * b - b
  BY <1>2, Times, NextRow
<1>5. q # 0
  <2> SUFFICES ASSUME q = 0 PROVE FALSE
    OBVIOUS
  <2>1. q * b = 0
    BY <1>2
  <2> QED
    BY <1>2, <1>4, <2>1
<1> QED
  BY <1>2, <1>3, <1>4, <1>5

\* How many bands, tiles and tiles of a thread there are: none of them is nought.
LEMMA TileNumbers ==
  ASSUME job \in Jobs
  PROVE  /\ Band \in Nat \ {0} /\ BandsPerGroup \in Nat \ {0}
         /\ TileCount \in Nat \ {0} /\ TileChunk \in Nat \ {0}
         /\ job.rowsOut <= BandsPerGroup * Band /\ BandsPerGroup * Band \in Nat
         /\ (BandsPerGroup - 1) * Band < job.rowsOut
         /\ CeilDiv(TileCount, TileChunk) \in Nat \ {0}
         /\ CeilDiv(TileCount, TileChunk) * TileChunk \in Nat
         /\ TileCount <= CeilDiv(TileCount, TileChunk) * TileChunk
         /\ (CeilDiv(TileCount, TileChunk) - 1) * TileChunk < TileCount
<1>1. {job.threads, job.groups, job.rowsOut} \subseteq Nat \ {0}
  BY JobIs
<1>2. TilesPerGroup \in Nat \ {0}
  BY <1>1, CeilIs DEF TilesPerGroup
<1>3. Band \in Nat \ {0}
  BY <1>1, <1>2, CeilIs DEF Band
<1>4. /\ BandsPerGroup \in Nat \ {0} /\ BandsPerGroup * Band \in Nat
      /\ job.rowsOut <= BandsPerGroup * Band /\ (BandsPerGroup - 1) * Band < job.rowsOut
  BY <1>1, <1>3, CeilIs DEF BandsPerGroup
<1>5. TileCount \in Nat \ {0}
  <2>1. 1 * BandsPerGroup <= job.groups * BandsPerGroup /\ job.groups * BandsPerGroup \in Nat
    BY <1>1, <1>4, ProductMonotone
  <2>2. 1 * BandsPerGroup = BandsPerGroup
    BY <1>4
  <2> DEFINE p == job.groups * BandsPerGroup
  <2>3. p \in Nat /\ BandsPerGroup <= p /\ BandsPerGroup \in Nat \ {0} /\ TileCount = p
    BY <1>4, <2>1, <2>2 DEF TileCount
  <2> HIDE DEF p
  <2> QED
    BY <2>3
<1>6. TileChunk \in Nat \ {0}
  BY <1>1, <1>5, CeilIs DEF TileChunk
<1>7. /\ CeilDiv(TileCount, TileChunk) \in Nat \ {0} /\ CeilDiv(TileCount, TileChunk) * TileChunk \in Nat
      /\ TileCount <= CeilDiv(TileCount, TileChunk) * TileChunk
      /\ (CeilDiv(TileCount, TileChunk) - 1) * TileChunk < TileCount
  BY <1>5, <1>6, CeilIs
<1> QED
  BY <1>3, <1>4, <1>5, <1>6, <1>7

\* The places of a tile in the accumulator of its row group
InTile(i) == Tile(i).r0 * job.n .. (Tile(i).r0 + Tile(i).len) * job.n - 1

\* A tile is a band of rows of one group.
LEMMA TileIs ==
  ASSUME job \in Jobs, NEW i \in 0 .. TileCount - 1
  PROVE  /\ Tile(i).rg \in 0 .. job.groups - 1 /\ Tile(i).rg = i \div BandsPerGroup
         /\ i % BandsPerGroup \in 0 .. BandsPerGroup - 1
         /\ i = Tile(i).rg * BandsPerGroup + (i % BandsPerGroup)
         /\ Tile(i).r0 \in Nat /\ Tile(i).r0 = (i % BandsPerGroup) * Band
         /\ Tile(i).len \in Nat \ {0} /\ Tile(i).len = Least(Band, job.rowsOut - Tile(i).r0)
         /\ Tile(i).r0 + Tile(i).len <= job.rowsOut
         /\ InTile(i) \subseteq 0 .. job.rowsOut * job.n - 1
<1> DEFINE j == i % BandsPerGroup
           q == i \div BandsPerGroup
           r0 == j * Band
           len == Least(Band, job.rowsOut - r0)
<1>1. Tile(i).rg = q /\ Tile(i).r0 = r0 /\ Tile(i).len = len
  BY DEF Tile
<1>2. q \in 0 .. job.groups - 1 /\ j \in 0 .. BandsPerGroup - 1 /\ i = q * BandsPerGroup + j
  <2>1. job.groups \in Nat /\ BandsPerGroup \in Nat \ {0} /\ i \in 0 .. job.groups * BandsPerGroup - 1
    BY JobIs, TileNumbers DEF TileCount
  <2> QED
    BY <2>1, PlaceIs
<1> HIDE DEF j, q
<1>3. r0 \in Nat /\ r0 < job.rowsOut
  <2>1. j \in Nat /\ BandsPerGroup - 1 \in Nat /\ j <= BandsPerGroup - 1 /\ Band \in Nat
    BY <1>2, TileNumbers
  <2>2. j * Band \in Nat /\ (BandsPerGroup - 1) * Band \in Nat /\ j * Band <= (BandsPerGroup - 1) * Band
    BY <2>1, ProductMonotone
  <2>3. (BandsPerGroup - 1) * Band < job.rowsOut /\ job.rowsOut \in Nat
    BY TileNumbers, JobIs
  <2> QED
    BY <2>2, <2>3
<1> HIDE DEF r0
<1>4. len \in Nat \ {0} /\ r0 + len <= job.rowsOut
  <2>1. Band \in Nat \ {0} /\ job.rowsOut \in Nat
    BY TileNumbers, JobIs
  <2> QED
    BY <1>3, <2>1 DEF Least
<1> HIDE DEF len
<1>5. r0 * job.n .. (r0 + len) * job.n - 1 \subseteq 0 .. job.rowsOut * job.n - 1
  <2>1. job.rowsOut \in Nat /\ job.n \in Nat /\ r0 + len \in Nat
    BY <1>3, <1>4, JobIs
  <2> DEFINE x == r0 * job.n
             y == (r0 + len) * job.n
             z == job.rowsOut * job.n
  <2>2. x \in Nat /\ y \in Nat /\ z \in Nat /\ y <= z
    BY <1>3, <1>4, <2>1, Times, ProductMonotone
  <2> HIDE DEF x, y, z
  <2>3. x .. y - 1 \subseteq 0 .. z - 1
    BY <2>2
  <2> QED
    BY <2>3 DEF x, y, z
<1>6. InTile(i) = r0 * job.n .. (r0 + len) * job.n - 1
  BY <1>1 DEF InTile
<1> QED
  BY <1>1, <1>2, <1>3, <1>4, <1>5, <1>6 DEF j, q, r0, len

\* Bands one after the other have no place in common.
LEMMA BandBefore ==
  ASSUME job \in Jobs, NEW i \in 0 .. TileCount - 1, NEW j \in 0 .. TileCount - 1,
         i % BandsPerGroup < j % BandsPerGroup
  PROVE  InTile(i) \cap InTile(j) = {}
<1> DEFINE a == i % BandsPerGroup
           b == j % BandsPerGroup
           e == Tile(i).r0 + Tile(i).len
           f == Tile(j).r0
<1>1. a \in Nat /\ b \in Nat /\ a < b /\ Band \in Nat /\ job.rowsOut \in Nat /\ job.n \in Nat
  BY TileIs, TileNumbers, JobIs
<1>2. /\ Tile(i).r0 = a * Band /\ Tile(i).r0 \in Nat /\ Tile(i).len \in Nat /\ Tile(i).len <= Band
      /\ f = b * Band /\ f \in Nat
  <2>1. /\ Tile(i).r0 = a * Band /\ Tile(i).r0 \in Nat /\ Tile(i).len \in Nat
        /\ Tile(i).len = Least(Band, job.rowsOut - Tile(i).r0) /\ f = b * Band /\ f \in Nat
    BY TileIs
  <2> HIDE DEF a, b, f
  <2>2. Least(Band, job.rowsOut - Tile(i).r0) <= Band
    BY <1>1, <2>1 DEF Least
  <2> QED
    BY <2>1, <2>2
<1> HIDE DEF a, b
<1>3. e <= f
  <2>1. a + 1 \in Nat /\ a + 1 <= b
    BY <1>1
  <2>2. (a + 1) * Band <= b * Band
    BY <1>1, <2>1, ProductMonotone
  <2>3. (a + 1) * Band = a * Band + Band
    BY <1>1, NextRow
  <2> QED
    BY <1>1, <1>2, <2>2, <2>3
<1>4. e \in Nat
  BY <1>2
<1> HIDE DEF e, f
<1>5. e * job.n <= f * job.n /\ e * job.n \in Nat /\ f * job.n \in Nat
  BY <1>1, <1>2, <1>3, <1>4, ProductMonotone
<1>6. \A x \in InTile(i) : x < e * job.n
  <2>1. InTile(i) = Tile(i).r0 * job.n .. e * job.n - 1
    BY DEF InTile, e
  <2> QED
    BY <1>5, <2>1
<1>7. \A x \in InTile(j) : x \in Int /\ f * job.n <= x
  <2>1. InTile(j) = f * job.n .. (Tile(j).r0 + Tile(j).len) * job.n - 1
    BY DEF InTile, f
  <2> QED
    BY <1>5, <2>1
<1> QED
  BY <1>5, <1>6, <1>7

\* Different tiles of a group have no place in common.
LEMMA TilesApart ==
  ASSUME job \in Jobs, NEW i \in 0 .. TileCount - 1, NEW j \in 0 .. TileCount - 1,
         i # j, Tile(i).rg = Tile(j).rg
  PROVE  InTile(i) \cap InTile(j) = {}
<1>1. /\ i % BandsPerGroup \in Int /\ i = Tile(i).rg * BandsPerGroup + (i % BandsPerGroup)
      /\ j % BandsPerGroup \in Int /\ j = Tile(j).rg * BandsPerGroup + (j % BandsPerGroup)
  BY TileIs
<1>2. i % BandsPerGroup # j % BandsPerGroup
  BY <1>1
<1>3. i % BandsPerGroup < j % BandsPerGroup \/ j % BandsPerGroup < i % BandsPerGroup
  BY <1>1, <1>2
<1> QED
  BY <1>3, BandBefore

\* The tiles of a thread are a stretch of all tiles; its kernel calls are one for each block of
\* each of them.
LEMMA TilesOfThread ==
  ASSUME job \in Jobs, job.kind = "body", NEW w \in Workers
  PROVE  /\ w \in Nat /\ w * TileChunk \in Nat
         /\ TileGroup(w) \subseteq 0 .. TileCount - 1
         /\ \A v \in Workers : \A i : i \in TileGroup(v) /\ i \in TileGroup(w) => v = w
         /\ \E size \in Nat : /\ TileGroup(w) = w * TileChunk .. w * TileChunk + size - 1
                              /\ Calls(w) = size * job.blocks
<1>1. Workers = 0 .. CeilDiv(TileCount, TileChunk) - 1
  BY DEF Workers
<1>2. /\ TileCount \in Nat \ {0} /\ TileChunk \in Nat \ {0}
      /\ CeilDiv(TileCount, TileChunk) \in Nat \ {0}
      /\ (CeilDiv(TileCount, TileChunk) - 1) * TileChunk < TileCount
  BY TileNumbers
<1> DEFINE m == CeilDiv(TileCount, TileChunk) - 1
<1>3. m \in Nat /\ m * TileChunk < TileCount /\ m * TileChunk \in Nat
  BY <1>2, Times
<1> HIDE DEF m
<1>4. ASSUME NEW v \in Workers
      PROVE  /\ v \in Nat /\ v * TileChunk \in Nat /\ v * TileChunk < TileCount
             /\ (v + 1) * TileChunk = v * TileChunk + TileChunk
  <2>1. v \in Nat /\ v <= m
    BY <1>1, <1>3 DEF m
  <2>2. v * TileChunk \in Nat /\ v * TileChunk <= m * TileChunk
    BY <1>2, <1>3, <2>1, ProductMonotone
  <2>3. (v + 1) * TileChunk = v * TileChunk + TileChunk
    BY <1>2, <2>1, NextRow
  <2> QED
    BY <1>2, <1>3, <2>1, <2>2, <2>3
<1>5. ASSUME NEW v \in Workers
      PROVE  TileGroup(v) \subseteq 0 .. TileCount - 1 /\ TileGroup(v) \subseteq v * TileChunk .. (v + 1) * TileChunk - 1
  <2> DEFINE a == v * TileChunk
             b == (v + 1) * TileChunk
  <2>1. TileGroup(v) = a .. Least(b, TileCount) - 1
    BY DEF TileGroup
  <2>2. a \in Nat /\ b = a + TileChunk
    BY <1>4
  <2> HIDE DEF a, b
  <2>3. TileGroup(v) \subseteq 0 .. TileCount - 1 /\ TileGroup(v) \subseteq a .. b - 1
    BY <1>2, <2>1, <2>2 DEF Least
  <2> QED
    BY <2>3 DEF a, b
<1>6. ASSUME NEW v \in Workers, NEW u \in Workers, v < u, NEW i, i \in TileGroup(v), i \in TileGroup(u)
      PROVE  FALSE
  <2>1. v + 1 \in Nat /\ u \in Nat /\ v + 1 <= u
    BY <1>4, <1>6
  <2>2. (v + 1) * TileChunk <= u * TileChunk /\ (v + 1) * TileChunk \in Nat /\ u * TileChunk \in Nat
    BY <1>2, <2>1, ProductMonotone
  <2>3. i \in v * TileChunk .. (v + 1) * TileChunk - 1 /\ i \in u * TileChunk .. (u + 1) * TileChunk - 1
    BY <1>5, <1>6
  <2> DEFINE a == v * TileChunk
             b == (v + 1) * TileChunk
             c == u * TileChunk
             d == (u + 1) * TileChunk
  <2>4. i \in a .. b - 1 /\ i \in c .. d - 1 /\ b <= c /\ b \in Nat /\ c \in Nat
    BY <2>2, <2>3
  <2> HIDE DEF a, b, c, d
  <2> QED
    BY <2>4
<1>7. \A v \in Workers : \A i : i \in TileGroup(v) /\ i \in TileGroup(w) => v = w
  <2> SUFFICES ASSUME NEW v \in Workers, NEW i, i \in TileGroup(v), i \in TileGroup(w), v # w
               PROVE  FALSE
    OBVIOUS
  <2>1. v < w \/ w < v
    BY <1>4
  <2> QED
    BY <1>6, <2>1
<1>8. \E size \in Nat : /\ TileGroup(w) = w * TileChunk .. w * TileChunk + size - 1
                        /\ Calls(w) = size * job.blocks
  <2> DEFINE a == w * TileChunk
             b == (w + 1) * TileChunk
             size == Least(b, TileCount) - a
  <2>1. TileGroup(w) = a .. Least(b, TileCount) - 1
    BY DEF TileGroup
  <2>2. a \in Nat /\ b = a + TileChunk /\ a < TileCount
    BY <1>4
  <2> HIDE DEF a, b
  <2>3. size \in Nat /\ size # 0 /\ TileGroup(w) = a .. a + size - 1
    BY <1>2, <2>1, <2>2 DEF Least
  <2> HIDE DEF size
  <2>4. Cardinality(TileGroup(w)) = size
    <3>1. a \in Int /\ a + size - 1 \in Int /\ ~(a > a + size - 1) /\ (a + size - 1) - a + 1 = size
      BY <2>2, <2>3
    <3> QED
      BY <2>3, <3>1, FS_Interval
  <2>5. Calls(w) = size * job.blocks
    BY <2>4 DEF Calls
  <2> QED
    BY <2>3, <2>5 DEF a
<1> QED
  BY <1>4, <1>5, <1>7, <1>8

\* Every number of every group has a tile, and every tile a thread.
LEMMA TilesCover ==
  ASSUME job \in Jobs, job.kind = "body", NEW rg \in 0 .. job.groups - 1,
         NEW x \in 0 .. job.rowsOut * job.n - 1
  PROVE  \E w \in Workers : \E i \in TileGroup(w) : Tile(i).rg = rg /\ x \in InTile(i)
<1> DEFINE r == x \div job.n
           j == r \div Band
           i == rg * BandsPerGroup + j
           w == i \div TileChunk
<1>1. {job.n, job.rowsOut, job.groups, Band, BandsPerGroup, TileCount, TileChunk} \subseteq Nat \ {0}
  BY JobIs, TileNumbers
<1>2. x \in Nat /\ r \in 0 .. job.rowsOut - 1 /\ x = r * job.n + (x % job.n) /\ (x % job.n) \in 0 .. job.n - 1
  BY <1>1, PlaceIs
<1> HIDE DEF r
<1>3. /\ j \in 0 .. BandsPerGroup - 1 /\ (r % Band) \in 0 .. Band - 1
      /\ r = j * Band + (r % Band)
  <2>1. r \in 0 .. BandsPerGroup * Band - 1
    BY <1>1, <1>2, TileNumbers
  <2> QED
    BY <1>1, <2>1, PlaceIs
<1> HIDE DEF j
<1>4. i \in Nat /\ i \div BandsPerGroup = rg /\ i % BandsPerGroup = j
  <2>1. rg \in Nat
    BY <1>1
  <2> QED
    BY <1>1, <1>3, <2>1, RowAndColumn
<1>5. i \in 0 .. TileCount - 1
  <2>1. rg \in Nat /\ rg + 1 \in Nat /\ rg + 1 <= job.groups
    BY <1>1
  <2>2. (rg + 1) * BandsPerGroup <= job.groups * BandsPerGroup
    BY <1>1, <2>1, ProductMonotone
  <2>3. (rg + 1) * BandsPerGroup = rg * BandsPerGroup + BandsPerGroup /\ rg * BandsPerGroup \in Nat
    BY <1>1, <2>1, NextRow, Times
  <2> DEFINE a == rg * BandsPerGroup
             b == (rg + 1) * BandsPerGroup
  <2>4. i = a + j /\ b = a + BandsPerGroup /\ b <= TileCount /\ a \in Nat
    BY <2>2, <2>3 DEF TileCount
  <2> HIDE DEF a, b, i
  <2> QED
    BY <1>1, <1>3, <2>4
<1> HIDE DEF i
<1>6. Tile(i).rg = rg /\ Tile(i).r0 = j * Band /\ Tile(i).r0 \in Nat
      /\ Tile(i).len = Least(Band, job.rowsOut - Tile(i).r0)
  BY <1>4, <1>5, TileIs
<1>7. Tile(i).r0 <= r /\ r < Tile(i).r0 + Tile(i).len /\ Tile(i).len \in Nat
  <2> DEFINE r0 == Tile(i).r0
             len == Tile(i).len
  <2>1. r0 \in Nat /\ r = r0 + (r % Band) /\ len = Least(Band, job.rowsOut - r0)
    BY <1>3, <1>6
  <2> HIDE DEF r0, len
  <2> DEFINE s == r % Band
  <2>2. s \in 0 .. Band - 1 /\ r = r0 + s
    BY <1>3, <2>1
  <2> HIDE DEF s
  <2>3. r0 <= r /\ r < r0 + len /\ len \in Nat
    BY <1>1, <1>2, <2>1, <2>2 DEF Least
  <2> QED
    BY <2>3 DEF r0, len
<1>8. x \in InTile(i)
  <2> DEFINE r0 == Tile(i).r0
             m == Tile(i).r0 + Tile(i).len
  <2>1. r0 \in Nat /\ m \in Nat /\ r \in Nat /\ r0 <= r /\ r + 1 <= m /\ r + 1 \in Nat
    BY <1>1, <1>2, <1>6, <1>7
  <2> HIDE DEF r0, m
  <2>2. r0 * job.n <= r * job.n /\ (r + 1) * job.n <= m * job.n
    BY <1>1, <2>1, ProductMonotone
  <2>3. (r + 1) * job.n = r * job.n + job.n /\ r * job.n \in Nat /\ r0 * job.n \in Nat /\ m * job.n \in Nat
    BY <1>1, <2>1, NextRow, Times
  <2> DEFINE a == r0 * job.n
             b == r * job.n
             c == m * job.n
             d == (r + 1) * job.n
             y == x % job.n
  <2>4. /\ a \in Nat /\ b \in Nat /\ c \in Nat /\ a <= b /\ d <= c /\ d = b + job.n
        /\ x = b + y /\ y \in 0 .. job.n - 1
    BY <1>2, <2>2, <2>3
  <2> HIDE DEF a, b, c, d, y
  <2>5. x \in a .. c - 1
    BY <1>1, <2>4
  <2> QED
    BY <2>5 DEF InTile, a, c, r0, m
<1>9. /\ w \in Nat /\ w * TileChunk \in Nat /\ w * TileChunk <= i
      /\ i < (w + 1) * TileChunk /\ (w + 1) * TileChunk \in Nat
  <2> DEFINE y == i % TileChunk
  <2>1. w \in Nat /\ y \in 0 .. TileChunk - 1 /\ i = TileChunk * w + y
    BY <1>1, <1>4, Quotient
  <2> HIDE DEF w, y
  <2>2. TileChunk * w = w * TileChunk /\ w * TileChunk \in Nat /\ (w + 1) * TileChunk = w * TileChunk + TileChunk
    BY <1>1, <2>1, Times, NextRow
  <2> QED
    BY <1>1, <2>1, <2>2
<1> HIDE DEF w
<1>10. w \in Workers
  <2> DEFINE m == CeilDiv(TileCount, TileChunk)
  <2>1. m \in Nat /\ m * TileChunk \in Nat /\ TileCount <= m * TileChunk
    BY TileNumbers
  <2>2. Workers = 0 .. m - 1
    BY DEF Workers
  <2> HIDE DEF m
  <2>3. ~(m <= w)
    <3> SUFFICES ASSUME m <= w PROVE FALSE
      OBVIOUS
    <3>1. m * TileChunk <= w * TileChunk
      BY <1>1, <1>9, <2>1, ProductMonotone
    <3> QED
      BY <1>1, <1>5, <1>9, <2>1, <3>1
  <2> QED
    BY <1>9, <2>1, <2>2, <2>3
<1>11. i \in TileGroup(w)
  <2> DEFINE a == w * TileChunk
             b == (w + 1) * TileChunk
  <2>1. TileGroup(w) = a .. Least(b, TileCount) - 1 /\ a \in Nat /\ b \in Nat /\ a <= i /\ i < b
    BY <1>9 DEF TileGroup
  <2> HIDE DEF a, b
  <2> QED
    BY <1>1, <1>5, <2>1 DEF Least
<1> QED
  BY <1>6, <1>8, <1>10, <1>11

\* How many blocks a thread has added to its tile number d, after t kernel calls of it
Added(t, d) ==
  IF t <= d * job.blocks THEN 0
  ELSE IF (d + 1) * job.blocks <= t THEN job.blocks
  ELSE t - d * job.blocks

\* A kernel call adds the next block to the tile at hand, and to no other.
LEMMA CallsInOrder ==
  ASSUME job \in Jobs, NEW size \in Nat, NEW t \in Nat, t < size * job.blocks
  PROVE  /\ t \div job.blocks \in 0 .. size - 1 /\ t % job.blocks \in 0 .. job.blocks - 1
         /\ Added(t, t \div job.blocks) = t % job.blocks
         /\ Added(t + 1, t \div job.blocks) = (t % job.blocks) + 1
         /\ \A d \in Nat : d # t \div job.blocks => Added(t + 1, d) = Added(t, d)
<1> DEFINE n == job.blocks
           q == t \div n
           r == t % n
<1>1. n \in Nat \ {0}
  BY JobIs
<1>2. q \in 0 .. size - 1 /\ r \in 0 .. n - 1 /\ t = q * n + r
  <2>1. size * n \in Nat
    BY <1>1, Times
  <2>2. t \in 0 .. size * n - 1
    BY <2>1
  <2> QED
    BY <1>1, <2>2, PlaceIs
<1> HIDE DEF q, r, n
<1>3. q \in Nat /\ q * n \in Nat /\ (q + 1) * n = q * n + n
  BY <1>1, <1>2, Times, NextRow
<1>4. Added(t, q) = r
  BY <1>1, <1>2, <1>3 DEF Added, n
<1>5. Added(t + 1, q) = r + 1
  BY <1>1, <1>2, <1>3 DEF Added, n
<1>6. ASSUME NEW d \in Nat, d < q
      PROVE  Added(t + 1, d) = Added(t, d)
  <2>1. (d + 1) * n <= q * n /\ (d + 1) * n \in Nat
    <3>1. d + 1 \in Nat /\ d + 1 <= q
      BY <1>3, <1>6
    <3> QED
      BY <1>1, <1>3, <3>1, ProductMonotone
  <2>2. (d + 1) * n = d * n + n /\ d * n \in Nat
    BY <1>1, NextRow, Times
  <2> QED
    BY <1>1, <1>2, <1>3, <2>1, <2>2 DEF Added, n
<1>7. ASSUME NEW d \in Nat, q < d
      PROVE  Added(t + 1, d) = Added(t, d)
  <2>1. (q + 1) * n <= d * n /\ d * n \in Nat
    <3>1. q + 1 \in Nat /\ q + 1 <= d
      BY <1>3, <1>7
    <3> QED
      BY <1>1, <3>1, ProductMonotone
  <2> QED
    BY <1>1, <1>2, <1>3, <2>1 DEF Added, n
<1>8. \A d \in Nat : d # q => Added(t + 1, d) = Added(t, d)
  BY <1>3, <1>6, <1>7
<1> QED
  BY <1>2, <1>4, <1>5, <1>8 DEF q, r, n

\* At first nothing is added; a thread that has made all its calls has added every block to every
\* tile of its own.
LEMMA CallsMade ==
  ASSUME job \in Jobs, NEW size \in Nat
  PROVE  /\ \A d \in Nat : Added(0, d) = 0
         /\ \A d \in 0 .. size - 1 : Added(size * job.blocks, d) = job.blocks
<1> DEFINE n == job.blocks
<1>1. n \in Nat \ {0}
  BY JobIs
<1> HIDE DEF n
<1>2. \A d \in Nat : Added(0, d) = 0
  <2> SUFFICES ASSUME NEW d \in Nat PROVE Added(0, d) = 0
    OBVIOUS
  <2>1. d * n \in Nat
    BY <1>1, Times
  <2> QED
    BY <2>1 DEF Added, n
<1>3. ASSUME NEW d \in 0 .. size - 1
      PROVE  Added(size * n, d) = n
  <2>1. d \in Nat /\ d + 1 \in Nat /\ d + 1 <= size
    OBVIOUS
  <2>2. (d + 1) * n <= size * n /\ size * n \in Nat
    BY <1>1, <2>1, ProductMonotone
  <2>3. (d + 1) * n = d * n + n /\ d * n \in Nat
    BY <1>1, <2>1, NextRow, Times
  <2> DEFINE t == size * n
  <2>4. t \in Nat /\ (d + 1) * n <= t
    BY <2>2
  <2> HIDE DEF t
  <2>5. Added(t, d) = n
    BY <1>1, <2>3, <2>4 DEF Added, n
  <2> QED
    BY <2>5 DEF t
<1> QED
  BY <1>2, <1>3 DEF n

-----------------------------------------------------------------------------
(* Strips of columns *)

\* Element y of the strip of a thread, as a place in the whole product
StripPlace(w, y) == (y \div StripWidth(w)) * job.n + StripStart(w) + (y % StripWidth(w))

\* The strips of the threads: columns of their own for each, and each makes a call for each block.
LEMMA StripsAre ==
  ASSUME job \in Jobs, job.kind = "mask", Axis = "cols"
  PROVE  /\ MaskThreads \in Nat \ {0} /\ Workers = 0 .. MaskThreads - 1
         /\ \A w \in Workers : /\ StripStart(w) \in Nat /\ StripWidth(w) \in Nat \ {0}
                               /\ StripStart(w) + StripWidth(w) <= job.n
                               /\ Calls(w) = job.blocks
         /\ \A c \in 0 .. job.n - 1 : \E w \in Workers : c - StripStart(w) \in 0 .. StripWidth(w) - 1
<1> DEFINE m == MaskThreads
           n == job.n
<1>1. n \in Nat \ {0} /\ job.threads \in Nat \ {0}
  BY JobIs
<1>2. m \in Nat \ {0} /\ m <= n
  BY <1>1 DEF MaskThreads, Clamp, Least, Most
<1>3. Workers = 0 .. m - 1
  BY DEF Workers
<1> HIDE DEF m, n
<1>4. \A w : StripStart(w) = PartStart(n, m, w) /\ StripWidth(w) = PartLen(n, m, w)
  BY DEF StripStart, StripWidth, m, n
<1>5. ASSUME NEW w \in Workers
      PROVE  /\ StripStart(w) \in Nat /\ StripWidth(w) \in Nat
             /\ StripStart(w) + StripWidth(w) <= n
  <2>1. n \in Nat /\ m \in Nat \ {0} /\ w \in 0 .. m - 1
    BY <1>1, <1>2, <1>3
  <2>2. /\ PartLen(n, m, w) \in Nat /\ PartStart(n, m, w) \in Nat
        /\ PartStart(n, m, w + 1) = PartStart(n, m, w) + PartLen(n, m, w)
    BY <2>1, NextPart
  <2>3. PartStart(n, m, w + 1) <= PartStart(n, m, m)
    <3>1. w + 1 \in 0 .. m /\ m \in 0 .. m /\ w + 1 <= m
      BY <2>1
    <3> QED
      BY <2>1, <3>1, PartsInOrder
  <2>4. PartStart(n, m, m) = n
    BY <2>1, PartsEnds
  <2> QED
    BY <1>4, <2>2, <2>3, <2>4
<1>6. \A w \in Workers : StripWidth(w) # 0
  <2> SUFFICES ASSUME NEW w \in Workers
               PROVE  StripWidth(w) # 0
    OBVIOUS
  <2> DEFINE q == n \div m
             r == n % m
  <2>1. q \in Nat /\ r \in 0 .. m - 1 /\ n = m * q + r
    BY <1>1, <1>2, Quotient
  <2>2. StripWidth(w) = q + IF w < r THEN 1 ELSE 0
    BY <1>4 DEF PartLen
  <2> HIDE DEF q, r
  <2>3. q # 0
    <3> SUFFICES ASSUME q = 0 PROVE FALSE
      OBVIOUS
    <3>1. m * q = 0
      BY <1>2
    <3> QED
      BY <1>1, <1>2, <2>1, <3>1
  <2> QED
    BY <2>1, <2>2, <2>3
<1>7. \A w : Calls(w) = job.blocks
  BY DEF Calls
<1>8. ASSUME NEW c \in 0 .. n - 1
      PROVE  \E w \in Workers : c - StripStart(w) \in 0 .. StripWidth(w) - 1
  <2>1. PICK w \in 0 .. m - 1 : c \in Part(n, m, w)
    <3>1. n \in Nat /\ m \in Nat \ {0}
      BY <1>1, <1>2
    <3> QED
      BY <3>1, PartsCover
  <2>2. w \in Workers
    BY <1>3
  <2>3. c \in StripStart(w) .. StripStart(w) + StripWidth(w) - 1
    BY <1>4, <2>1 DEF Part
  <2>4. c - StripStart(w) \in 0 .. StripWidth(w) - 1
    BY <1>5, <2>2, <2>3
  <2> QED
    BY <2>2, <2>4
<1> QED
  BY <1>2, <1>3, <1>5, <1>6, <1>7, <1>8 DEF m, n

\* A place of the strip is a place of the product, and the only one with its row and column.
LEMMA StripPlaceIs ==
  ASSUME job \in Jobs, job.kind = "mask", Axis = "cols", NEW w \in Workers,
         NEW y \in 0 .. job.rowsOut * StripWidth(w) - 1
  PROVE  /\ y \div StripWidth(w) \in 0 .. job.rowsOut - 1 /\ y % StripWidth(w) \in 0 .. StripWidth(w) - 1
         /\ StripPlace(w, y) \div job.n = y \div StripWidth(w)
         /\ StripPlace(w, y) % job.n = StripStart(w) + (y % StripWidth(w))
<1> DEFINE sw == StripWidth(w)
           ss == StripStart(w)
           r == y \div sw
           c == y % sw
<1>1. job.n \in Nat \ {0} /\ job.rowsOut \in Nat /\ sw \in Nat \ {0} /\ ss \in Nat /\ ss + sw <= job.n
  BY JobIs, StripsAre
<1> HIDE DEF sw, ss
<1>2. r \in 0 .. job.rowsOut - 1 /\ c \in 0 .. sw - 1
  <2>1. y \in 0 .. job.rowsOut * sw - 1
    BY DEF sw
  <2> QED
    BY <1>1, <2>1, PlaceIs
<1>3. StripPlace(w, y) = r * job.n + ss + c
  BY DEF StripPlace, sw, ss
<1> HIDE DEF r, c
<1>4. r * job.n + ss + c = r * job.n + (ss + c) /\ r \in Nat /\ ss + c \in 0 .. job.n - 1
  <2>1. r \in Nat /\ c \in Nat
    BY <1>1, <1>2
  <2>2. r * job.n \in Nat
    BY <1>1, <2>1, Times
  <2> QED
    BY <1>1, <1>2, <2>1, <2>2
<1> DEFINE e == ss + c
<1>5. (r * job.n + e) \div job.n = r /\ (r * job.n + e) % job.n = e
  <2> HIDE DEF e
  <2>1. r \in Nat /\ e \in 0 .. job.n - 1
    BY <1>4 DEF e
  <2> QED
    BY <1>1, <2>1, RowAndColumn
<1> QED
  BY <1>2, <1>3, <1>4, <1>5 DEF r, c, sw, ss

\* sum is dst and the given summand of each number of a strip.
AddsStrip(sum, dst, bc, w) ==
  sum = [y \in 0 .. job.rowsOut * StripWidth(w) - 1 |-> Append(dst[y], Summand(0, bc, StripPlace(w, y)))]

\* The dense kernel on a strip adds to each number what it adds to it in the whole product.
LEMMA StripAdds ==
  ASSUME job \in Jobs, job.kind = "mask", Axis = "cols", NEW w \in Workers, NEW bc,
         NEW dst, DOMAIN dst = 0 .. job.rowsOut * StripWidth(w) - 1
  PROVE  AddsStrip(GemmF64Add(dst, U(0, bc), RhsStrip(bc, w), RowsIn(bc), StripWidth(w)), dst, bc, w)
<1> DEFINE k == RowsIn(bc)
           sw == StripWidth(w)
           ss == StripStart(w)
           n == job.n
           u == U(0, bc)
           b == Rhs(bc)
           h == RhsStrip(bc, w)
<1>1. k \in Nat /\ sw \in Nat \ {0} /\ ss \in Nat /\ n \in Nat
  BY JobIs, StripsAre
<1>2. GemmF64Add(dst, u, h, k, sw) =
        [y \in 0 .. job.rowsOut * sw - 1 |->
           Append(dst[y], [lanes |-> << >>,
                           tail |-> [p \in 1 .. k |-> <<u[(y \div sw) * k + p - 1],
                                                         h[((p - 1) * sw) + (y % sw)]>>]])]
  BY DEF GemmF64Add
<1>3. h = [i \in 0 .. k * sw - 1 |-> b[((i \div sw) * n) + ss + (i % sw)]]
  BY DEF RhsStrip
<1>4. \A y : Summand(0, bc, StripPlace(w, y)) =
        [lanes |-> << >>,
         tail |-> [p \in 1 .. k |-> <<u[((StripPlace(w, y) \div n) * k) + p - 1],
                                       b[((p - 1) * n) + (StripPlace(w, y) % n)]>>]]
  BY DEF Summand, DenseSummand
<1>5. \A y \in 0 .. job.rowsOut * sw - 1 :
        /\ (y % sw) \in 0 .. sw - 1
        /\ StripPlace(w, y) \div n = y \div sw /\ StripPlace(w, y) % n = ss + (y % sw)
  BY StripPlaceIs
<1> HIDE DEF k, sw, ss, n, u, b, h
<1>6. ASSUME NEW c \in 0 .. sw - 1, NEW p \in 1 .. k
      PROVE  h[((p - 1) * sw) + c] = b[((p - 1) * n) + (ss + c)]
  <2> DEFINE q == p - 1
             i == q * sw + c
  <2>1. q \in Nat /\ q \in 0 .. k - 1 /\ c \in Nat
    BY <1>1
  <2> HIDE DEF q
  <2>2. i \div sw = q /\ i % sw = c
    BY <1>1, <2>1, RowAndColumn
  <2>3. i \in 0 .. k * sw - 1
    <3>1. (q + 1) * sw <= k * sw /\ k * sw \in Nat
      <4>1. q + 1 \in Nat /\ q + 1 <= k
        BY <1>1, <2>1
      <4> QED
        BY <1>1, <4>1, ProductMonotone
    <3>2. (q + 1) * sw = q * sw + sw /\ q * sw \in Nat
      BY <1>1, <2>1, NextRow, Times
    <3> DEFINE x == q * sw
               z == k * sw
    <3>3. x \in Nat /\ z \in Nat /\ x + sw <= z
      BY <3>1, <3>2
    <3> HIDE DEF x, z
    <3>4. x + c \in 0 .. z - 1
      BY <1>1, <3>3
    <3> QED
      BY <3>4 DEF x, z
  <2>4. h[i] = b[(q * n) + ss + c]
    <3> HIDE DEF i
    <3> QED
      BY <1>3, <2>2, <2>3
  <2>5. (q * n) + ss + c = (q * n) + (ss + c)
    <3>1. q * n \in Nat
      BY <1>1, <2>1, Times
    <3> QED
      BY <1>1, <2>1, <3>1
  <2> QED
    BY <2>4, <2>5 DEF q
<1>7. ASSUME NEW y \in 0 .. job.rowsOut * sw - 1
      PROVE  Summand(0, bc, StripPlace(w, y)) =
               [lanes |-> << >>,
                tail |-> [p \in 1 .. k |-> <<u[(y \div sw) * k + p - 1], h[((p - 1) * sw) + (y % sw)]>>]]
  <2>1. \A p \in 1 .. k : b[((p - 1) * n) + (StripPlace(w, y) % n)] = h[((p - 1) * sw) + (y % sw)]
    BY <1>5, <1>6
  <2> QED
    BY <1>4, <1>5, <2>1
<1> QED
  BY <1>2, <1>7 DEF AddsStrip, k, sw, u, h

-----------------------------------------------------------------------------
(* The invariant *)

\* The accumulators have a number for every row and column of their group.
AccShape ==
  acc = [rg \in 0 .. job.groups - 1 |-> [x \in 0 .. job.rowsOut * job.n - 1 |-> acc[rg][x]]]

\* Each number holds the blocks that the thread of its tile has added to the tile, in their order.
BandsHold ==
  \A w \in Workers : \A i \in TileGroup(w) : \A x \in InTile(i) :
    acc[Tile(i).rg][x] = UpTo(Tile(i).rg, x, Added(turn[w], i - w * TileChunk))

\* The bodies are split off when nothing is added any more.
BodiesLast == bodies # << >> => \A w \in Workers : Ended(w)

BodyInv ==
  /\ \A w \in Workers : turn[w] <= Calls(w)
  /\ BandsHold
  /\ BodiesLast

\* The places in the whole product that are in the strip of a thread
InStrip(w) ==
  {x \in 0 .. job.rowsOut * job.n - 1 : (x % job.n) - StripStart(w) \in 0 .. StripWidth(w) - 1}

\* Each thread's strip holds the blocks it has added.
StripsHold ==
  local = [w \in Workers |-> [y \in 0 .. job.rowsOut * StripWidth(w) - 1 |->
                                UpTo(0, StripPlace(w, y), turn[w])]]

\* The strips joined so far are whole in the product.
JoinedHold ==
  \A w \in Workers : w < joined => \A x \in InStrip(w) : acc[0][x] = UpTo(0, x, job.blocks)

StripInv == StripsHold /\ JoinedHold

SplitInv ==
  /\ job \in Jobs
  /\ turn \in [Workers -> Nat]
  /\ AccShape
  /\ job.kind = "body" => BodyInv
  /\ job.kind = "mask" /\ Axis = "cols" => StripInv

\* Nothing is added at first.
LEMMA SplitInvInit == Init => SplitInv
<1> SUFFICES ASSUME Init PROVE SplitInv
  OBVIOUS
<1>1. /\ job \in Jobs /\ turn = [w \in Workers |-> 0] /\ joined = 0 /\ bodies = << >>
      /\ acc = [rg \in 0 .. job.groups - 1 |-> Zeros(job.rowsOut * job.n)]
  BY DEF Init
<1>2. turn \in [Workers -> Nat]
  BY <1>1
<1>3. AccShape
  BY <1>1 DEF AccShape, Zeros
<1>4. ASSUME job.kind = "body"
      PROVE  BodyInv
  <2>1. ASSUME NEW w \in Workers
        PROVE  /\ turn[w] <= Calls(w)
               /\ \A i \in TileGroup(w) : \A x \in InTile(i) :
                    acc[Tile(i).rg][x] = UpTo(Tile(i).rg, x, Added(turn[w], i - w * TileChunk))
    <3>1. PICK size \in Nat : /\ TileGroup(w) = w * TileChunk .. w * TileChunk + size - 1
                              /\ Calls(w) = size * job.blocks
      BY <1>1, <1>4, TilesOfThread
    <3>2. size * job.blocks \in Nat
      <4>1. job.blocks \in Nat
        BY <1>1, JobIs
      <4> QED
        BY <4>1, Times
    <3>3. turn[w] = 0 /\ turn[w] <= Calls(w)
      BY <1>1, <3>1, <3>2
    <3> SUFFICES ASSUME NEW i \in TileGroup(w), NEW x \in InTile(i)
                 PROVE  acc[Tile(i).rg][x] = UpTo(Tile(i).rg, x, Added(turn[w], i - w * TileChunk))
      BY <3>3
    <3>4. i \in 0 .. TileCount - 1 /\ w * TileChunk \in Nat
      BY <1>1, <1>4, TilesOfThread
    <3>5. Tile(i).rg \in 0 .. job.groups - 1 /\ x \in 0 .. job.rowsOut * job.n - 1
      BY <1>1, <3>4, TileIs
    <3>6. acc[Tile(i).rg][x] = << >>
      BY <1>1, <3>5 DEF Zeros
    <3>7. i - w * TileChunk \in Nat
      <4> DEFINE a == w * TileChunk
      <4>1. a \in Nat /\ i \in a .. a + size - 1
        BY <3>1, <3>4
      <4> HIDE DEF a
      <4>2. i - a \in Nat
        BY <4>1
      <4> QED
        BY <4>2 DEF a
    <3>8. Added(turn[w], i - w * TileChunk) = 0
      BY <1>1, <3>1, <3>3, <3>7, CallsMade
    <3>9. 0 \in Nat /\ UpTo(Tile(i).rg, x, 0) = << >>
      BY NextSummand
    <3> QED
      BY <3>6, <3>8, <3>9
  <2>2. BodiesLast
    BY <1>1 DEF BodiesLast
  <2> QED
    BY <2>1, <2>2 DEF BodyInv, BandsHold
<1>5. ASSUME job.kind = "mask", Axis = "cols"
      PROVE  StripInv
  <2>1. local = [w \in Workers |-> Zeros(job.rowsOut * StripWidth(w))]
    BY <1>5 DEF Init
  <2>2. \A w, y : UpTo(0, StripPlace(w, y), 0) = << >>
    BY NextSummand
  <2>3. StripsHold
    BY <1>1, <2>1, <2>2 DEF StripsHold, Zeros
  <2>4. JoinedHold
    <3>1. \A w \in Workers : ~(w < joined)
      BY <1>1, <1>5, StripsAre
    <3> QED
      BY <3>1 DEF JoinedHold
  <2> QED
    BY <2>3, <2>4 DEF StripInv
<1> QED
  BY <1>1, <1>2, <1>3, <1>4, <1>5 DEF SplitInv

\* Copying a strip into the product puts every number where it belongs.
LEMMA JoinStripKeeps ==
  ASSUME SplitInv, JoinStrip
  PROVE  SplitInv'
<1>1. /\ job.kind = "mask" /\ Axis = "cols" /\ joined \in Workers /\ Ended(joined)
      /\ joined' = joined + 1 /\ job' = job /\ turn' = turn /\ local' = local
      /\ acc' = [acc EXCEPT ![0] =
           [x \in DOMAIN @ |->
             IF (x % job.n) - StripStart(joined) \in 0 .. StripWidth(joined) - 1
             THEN local[joined][(x \div job.n) * StripWidth(joined) + ((x % job.n) - StripStart(joined))]
             ELSE @[x]]]
  BY DEF JoinStrip
<1>2. job \in Jobs /\ turn \in [Workers -> Nat] /\ AccShape /\ StripsHold /\ JoinedHold
  BY <1>1 DEF SplitInv, StripInv
<1>3. /\ Workers' = Workers /\ Axis' = Axis /\ \A w : InStrip(w)' = InStrip(w)
      /\ \A w : StripWidth(w)' = StripWidth(w)
      /\ \A w, y : StripPlace(w, y)' = StripPlace(w, y)
      /\ \A rg, x, b : UpTo(rg, x, b)' = UpTo(rg, x, b)
  <2>1. \A w : StripStart(w)' = StripStart(w) /\ StripWidth(w)' = StripWidth(w)
    BY <1>1, SameJob
  <2>2. \A w : InStrip(w)' = InStrip(w)
    BY <1>1, <2>1 DEF InStrip
  <2>3. \A w, y : StripPlace(w, y)' = StripPlace(w, y)
    BY <1>1, <2>1 DEF StripPlace
  <2> QED
    BY <1>1, <2>1, <2>2, <2>3, SameJob
<1>4. job.groups = 1 /\ 0 \in 0 .. job.groups - 1
  BY <1>1, <1>2, JobIs
<1>5. acc[0] = [x \in 0 .. job.rowsOut * job.n - 1 |-> acc[0][x]]
  BY <1>2, <1>4 DEF AccShape
<1>6. /\ DOMAIN acc[0] = 0 .. job.rowsOut * job.n - 1
      /\ acc' = [acc EXCEPT ![0] = [x \in 0 .. job.rowsOut * job.n - 1 |-> acc'[0][x]]]
      /\ \A x \in 0 .. job.rowsOut * job.n - 1 :
           acc'[0][x] = IF (x % job.n) - StripStart(joined) \in 0 .. StripWidth(joined) - 1
             THEN local[joined][(x \div job.n) * StripWidth(joined) + ((x % job.n) - StripStart(joined))]
             ELSE acc[0][x]
  <2>1. DOMAIN acc[0] = 0 .. job.rowsOut * job.n - 1
    BY <1>5
  <2>2. 0 \in DOMAIN acc
    BY <1>2, <1>4 DEF AccShape
  <2>3. acc'[0] = [x \in 0 .. job.rowsOut * job.n - 1 |->
             IF (x % job.n) - StripStart(joined) \in 0 .. StripWidth(joined) - 1
             THEN local[joined][(x \div job.n) * StripWidth(joined) + ((x % job.n) - StripStart(joined))]
             ELSE acc[0][x]]
    BY <1>1, <2>1, <2>2
  <2>4. acc' = [acc EXCEPT ![0] = acc'[0]]
    BY <1>1, <2>1, <2>2, <2>3
  <2> QED
    BY <2>1, <2>3, <2>4
<1>7. AccShape'
  <2> DEFINE places == 0 .. job.rowsOut * job.n - 1
  <2>1. acc = [rg \in 0 .. job.groups - 1 |-> [x \in places |-> acc[rg][x]]]
    BY <1>2 DEF AccShape
  <2>2. acc' = [acc EXCEPT ![0] = [x \in places |-> acc'[0][x]]]
    BY <1>6
  <2> HIDE DEF places
  <2>3. acc' = [rg \in 0 .. job.groups - 1 |-> [x \in places |-> acc'[rg][x]]]
    BY <1>4, <2>1, <2>2
  <2> QED
    BY <1>1, <2>3 DEF AccShape, places
<1>8. ASSUME NEW x \in InStrip(joined)
      PROVE  acc'[0][x] = UpTo(0, x, job.blocks)
  <2> DEFINE sw == StripWidth(joined)
             ss == StripStart(joined)
             r == x \div job.n
             c == (x % job.n) - ss
             y == r * sw + c
  <2>1. x \in 0 .. job.rowsOut * job.n - 1 /\ c \in 0 .. sw - 1
    BY DEF InStrip
  <2>2. /\ sw \in Nat \ {0} /\ ss \in Nat /\ turn[joined] = job.blocks
        /\ job.n \in Nat \ {0} /\ job.rowsOut \in Nat
    BY <1>1, <1>2, StripsAre, JobIs DEF Ended
  <2>3. r \in 0 .. job.rowsOut - 1 /\ x = r * job.n + (x % job.n) /\ (x % job.n) \in 0 .. job.n - 1
    BY <2>1, <2>2, PlaceIs
  <2>4. acc'[0][x] = local[joined][y]
    BY <1>6, <2>1
  <2> DEFINE e == x % job.n
  <2>5. e \in Nat /\ c = e - ss /\ x = r * job.n + e
    BY <2>3
  <2> HIDE DEF r, c, sw, ss, e
  <2>6. y \in 0 .. job.rowsOut * sw - 1 /\ y \div sw = r /\ y % sw = c
    <3>1. r \in Nat /\ c \in Nat
      BY <2>1, <2>2, <2>3
    <3>2. y \div sw = r /\ y % sw = c
      BY <2>1, <2>2, <3>1, RowAndColumn
    <3>3. (r + 1) * sw <= job.rowsOut * sw /\ job.rowsOut * sw \in Nat
      <4>1. r + 1 \in Nat /\ r + 1 <= job.rowsOut
        BY <2>2, <2>3
      <4> QED
        BY <2>2, <4>1, ProductMonotone
    <3>4. (r + 1) * sw = r * sw + sw /\ r * sw \in Nat
      BY <2>2, <3>1, NextRow, Times
    <3> DEFINE f == r * sw
               z == job.rowsOut * sw
    <3>5. f \in Nat /\ z \in Nat /\ f + sw <= z
      BY <3>3, <3>4
    <3> HIDE DEF f, z
    <3>6. f + c \in 0 .. z - 1
      BY <2>1, <2>2, <3>5
    <3> QED
      BY <3>2, <3>6 DEF f, z
  <2> HIDE DEF y
  <2>7. local[joined][y] = UpTo(0, StripPlace(joined, y), job.blocks)
    BY <1>1, <1>2, <2>2, <2>6 DEF StripsHold, sw
  <2>8. StripPlace(joined, y) = x
    <3>1. StripPlace(joined, y) = r * job.n + ss + c
      BY <2>6 DEF StripPlace, sw, ss
    <3>2. r * job.n \in Nat
      <4>1. r \in Nat
        BY <2>2, <2>3
      <4> QED
        BY <2>2, <4>1, Times
    <3> QED
      BY <2>2, <2>5, <3>1, <3>2
  <2> QED
    BY <2>4, <2>7, <2>8
<1>9. JoinedHold'
  <2> SUFFICES ASSUME NEW w \in Workers, w < joined + 1, NEW x \in InStrip(w)
               PROVE  acc'[0][x] = UpTo(0, x, job.blocks)
    BY <1>1, <1>3 DEF JoinedHold
  <2>1. CASE w = joined
    BY <1>8, <2>1
  <2>2. CASE w # joined
    <3>1. w < joined
      BY <1>1, <1>2, <2>2, StripsAre
    <3>2. acc[0][x] = UpTo(0, x, job.blocks)
      BY <1>2, <3>1 DEF JoinedHold
    <3>3. CASE x \in InStrip(joined)
      BY <1>8, <3>3
    <3>4. CASE x \notin InStrip(joined)
      <4>1. x \in 0 .. job.rowsOut * job.n - 1
        BY DEF InStrip
      <4>2. ~((x % job.n) - StripStart(joined) \in 0 .. StripWidth(joined) - 1)
        BY <3>4, <4>1 DEF InStrip
      <4> QED
        BY <1>6, <3>2, <4>1, <4>2
    <3> QED
      BY <3>3, <3>4
  <2> QED
    BY <2>1, <2>2
<1>10. StripsHold'
  BY <1>1, <1>2, <1>3 DEF StripsHold
<1> QED
  BY <1>1, <1>2, <1>3, <1>7, <1>9, <1>10 DEF SplitInv, StripInv

\* A thread's next block goes on top of its strip.
LEMMA MaskStepKeeps ==
  ASSUME SplitInv, NEW v \in Workers, MaskStep(v)
  PROVE  SplitInv'
<1>1. /\ job.kind = "mask" /\ ~Ended(v) /\ turn' = [turn EXCEPT ![v] = @ + 1]
      /\ job' = job /\ acc' = acc /\ joined' = joined
      /\ Axis # "blocks" =>
           local' = [local EXCEPT ![v] =
             GemmF64Add(@, U(0, turn[v]), RhsStrip(turn[v], v), RowsIn(turn[v]), StripWidth(v))]
  BY DEF MaskStep
<1>2. job \in Jobs /\ turn \in [Workers -> Nat] /\ AccShape
  BY DEF SplitInv
<1>3. /\ Workers' = Workers /\ Axis' = Axis /\ \A w : InStrip(w)' = InStrip(w)
      /\ \A w : StripWidth(w)' = StripWidth(w)
      /\ \A w, y : StripPlace(w, y)' = StripPlace(w, y)
      /\ \A rg, x, b : UpTo(rg, x, b)' = UpTo(rg, x, b)
  <2>1. \A w : StripStart(w)' = StripStart(w) /\ StripWidth(w)' = StripWidth(w)
    BY <1>1, SameJob
  <2>2. \A w : InStrip(w)' = InStrip(w)
    BY <1>1, <2>1 DEF InStrip
  <2>3. \A w, y : StripPlace(w, y)' = StripPlace(w, y)
    BY <1>1, <2>1 DEF StripPlace
  <2> QED
    BY <1>1, <2>1, <2>2, <2>3, SameJob
<1>4. turn' \in [Workers' -> Nat]
  BY <1>1, <1>2, <1>3
<1>5. AccShape'
  BY <1>1, <1>2 DEF AccShape
<1>6. ASSUME Axis = "cols"
      PROVE  StripInv'
  <2>1. StripsHold /\ JoinedHold
    BY <1>1, <1>6 DEF SplitInv, StripInv
  <2>2. StripsHold'
    <3> DEFINE t == turn[v]
               places == 0 .. job.rowsOut * StripWidth(v) - 1
               sum == GemmF64Add(local[v], U(0, t), RhsStrip(t, v), RowsIn(t), StripWidth(v))
    <3>1. t \in Nat /\ local' = [local EXCEPT ![v] = sum]
      BY <1>1, <1>2, <1>6
    <3>2. local[v] = [y \in places |-> UpTo(0, StripPlace(v, y), t)]
      BY <2>1 DEF StripsHold
    <3>3. sum = [y \in places |-> Append(local[v][y], Summand(0, t, StripPlace(v, y)))]
      <4>1. DOMAIN local[v] = 0 .. job.rowsOut * StripWidth(v) - 1
        BY <3>2
      <4> DEFINE dst == local[v]
      <4> HIDE DEF dst, t
      <4>2. AddsStrip(GemmF64Add(dst, U(0, t), RhsStrip(t, v), RowsIn(t), StripWidth(v)), dst, t, v)
        <5>1. DOMAIN dst = 0 .. job.rowsOut * StripWidth(v) - 1
          BY <4>1 DEF dst
        <5> QED
          BY <1>1, <1>2, <1>6, <5>1, StripAdds
      <4> QED
        BY <4>2 DEF AddsStrip, dst
    <3>4. sum = [y \in places |-> UpTo(0, StripPlace(v, y), t + 1)]
      <4>1. \A y \in places : Append(local[v][y], Summand(0, t, StripPlace(v, y)))
                                = UpTo(0, StripPlace(v, y), t + 1)
        <5> HIDE DEF places, t, sum
        <5> QED
          BY <3>1, <3>2, NextSummand
      <4> HIDE DEF sum, places, t
      <4> QED
        BY <3>3, <4>1
    <3> DEFINE strip(w, n) == [y \in 0 .. job.rowsOut * StripWidth(w) - 1 |-> UpTo(0, StripPlace(w, y), n)]
    <3>5. local = [w \in Workers |-> strip(w, turn[w])]
      BY <2>1 DEF StripsHold
    <3>6. sum = strip(v, t + 1) /\ turn'[v] = t + 1 /\ \A w \in Workers : w # v => turn'[w] = turn[w]
      BY <1>1, <1>2, <3>4
    <3>7. local' = [w \in Workers |-> strip(w, turn'[w])]
      <4> HIDE DEF strip, sum, t
      <4>1. \A w \in Workers : strip(w, turn'[w]) = IF w = v THEN sum ELSE local[w]
        BY <3>5, <3>6
      <4> QED
        BY <3>1, <3>5, <4>1
    <3> QED
      BY <1>1, <1>3, <3>7 DEF StripsHold
  <2>3. JoinedHold'
    BY <1>1, <1>3, <2>1 DEF JoinedHold
  <2> QED
    BY <2>2, <2>3 DEF StripInv
<1> QED
  BY <1>1, <1>2, <1>3, <1>4, <1>5, <1>6 DEF SplitInv

\* Adding up partial sums is not the business of bands or strips.
LEMMA ReduceBlocksKeeps ==
  ASSUME SplitInv, ReduceBlocks
  PROVE  SplitInv'
<1>1. /\ job.kind = "mask" /\ Axis = "blocks" /\ job' = job /\ turn' = turn
      /\ acc' = [acc EXCEPT ![0] =
           [x \in DOMAIN @ |-> IF joined = 0 THEN local[0][x]
                               ELSE Append(@[x], [part |-> local[joined][x]])]]
  BY DEF ReduceBlocks
<1>2. job \in Jobs /\ turn \in [Workers -> Nat] /\ AccShape
  BY DEF SplitInv
<1>3. Workers' = Workers /\ Axis' = Axis
  BY <1>1, SameJob
<1>4. AccShape'
  <2> DEFINE places == 0 .. job.rowsOut * job.n - 1
             sum(x) == IF joined = 0 THEN local[0][x] ELSE Append(acc[0][x], [part |-> local[joined][x]])
  <2>1. 0 \in 0 .. job.groups - 1
    BY <1>1, <1>2, JobIs
  <2>2. acc = [rg \in 0 .. job.groups - 1 |-> [x \in places |-> acc[rg][x]]]
    BY <1>2 DEF AccShape
  <2>3. DOMAIN acc[0] = places
    BY <2>1, <2>2
  <2>4. acc' = [acc EXCEPT ![0] = [x \in places |-> sum(x)]]
    BY <1>1, <2>3
  <2> HIDE DEF places, sum
  <2>5. acc' = [rg \in 0 .. job.groups - 1 |-> [x \in places |-> acc'[rg][x]]]
    BY <2>1, <2>2, <2>4
  <2> QED
    BY <1>1, <2>5 DEF AccShape, places
<1> QED
  BY <1>1, <1>2, <1>3, <1>4 DEF SplitInv

\* Splitting the bodies off changes no accumulator.
LEMMA SplitBodiesKeeps ==
  ASSUME SplitInv, SplitBodies
  PROVE  SplitInv'
<1>1. /\ job.kind = "body" /\ \A w \in Workers : Ended(w)
      /\ job' = job /\ turn' = turn /\ acc' = acc
  BY DEF SplitBodies
<1>2. job \in Jobs /\ turn \in [Workers -> Nat] /\ AccShape /\ BodyInv
  BY <1>1 DEF SplitInv
<1>3. /\ Workers' = Workers /\ \A w : Calls(w)' = Calls(w) /\ TileGroup(w)' = TileGroup(w)
      /\ \A i : Tile(i)' = Tile(i) /\ TileChunk' = TileChunk
      /\ \A rg, x, b : UpTo(rg, x, b)' = UpTo(rg, x, b)
  BY <1>1, SameJob
<1>4. (\A i : InTile(i)' = InTile(i)) /\ (\A t, d : Added(t, d)' = Added(t, d))
  BY <1>1, <1>3 DEF InTile, Added
<1>5. BandsHold'
  BY <1>1, <1>2, <1>3, <1>4 DEF BodyInv, BandsHold
<1>6. BodiesLast'
  BY <1>1, <1>3 DEF BodiesLast, Ended
<1>7. BodyInv'
  BY <1>1, <1>2, <1>3, <1>5, <1>6 DEF BodyInv
<1>8. AccShape'
  BY <1>1, <1>2 DEF AccShape
<1> QED
  BY <1>1, <1>2, <1>3, <1>7, <1>8 DEF SplitInv

\* A thread's next block goes on top of every number of its current band, and of no other.
LEMMA BandTakesBlock ==
  ASSUME SplitInv, NEW v \in Workers, BodyTile(v), NEW i0, i0 = v * TileChunk + (turn[v] \div job.blocks),
         i0 \in TileGroup(v), NEW bc \in Nat, bc = turn[v] % job.blocks
  PROVE  /\ AccShape'
         /\ \A rg \in 0 .. job.groups - 1, x \in 0 .. job.rowsOut * job.n - 1 :
              acc'[rg][x] = IF rg = Tile(i0).rg /\ x \in InTile(i0)
                            THEN Append(acc[rg][x], Summand(rg, bc, x)) ELSE acc[rg][x]
<1> DEFINE tile == Tile(i0)
           g == tile.rg
           lo == tile.r0 * job.n
           hi == (tile.r0 + tile.len) * job.n
           dst == Slice(acc[g], lo, hi)
           sum == GemmI16F64Add(dst, BandRows(U(g, bc), tile, RowsIn(bc)), Rhs(bc), tile.len, RowsIn(bc), job.n)
           places == 0 .. job.rowsOut * job.n - 1
<1>1. job.kind = "body" /\ job' = job
  BY DEF BodyTile
<1>2. job \in Jobs /\ AccShape
  BY DEF SplitInv
<1>3. acc' = [acc EXCEPT ![g] = [x \in DOMAIN @ |-> IF lo <= x /\ x < hi THEN sum[x - lo] ELSE @[x]]]
  BY DEF BodyTile
<1>4. i0 \in 0 .. TileCount - 1
  BY <1>1, <1>2, TilesOfThread
<1>5. /\ g \in 0 .. job.groups - 1 /\ tile.r0 \in Nat /\ tile.len \in Nat
      /\ tile.r0 + tile.len <= job.rowsOut /\ InTile(i0) = lo .. hi - 1
      /\ lo .. hi - 1 \subseteq places
  BY <1>2, <1>4, TileIs DEF InTile
<1>6. /\ job.n \in Nat /\ job.rowsOut * job.n \in Nat /\ lo \in Nat /\ hi \in Nat
      /\ hi = lo + tile.len * job.n /\ tile.len * job.n \in Nat
  <2>1. job.n \in Nat /\ job.rowsOut \in Nat
    BY <1>2, JobIs
  <2>2. job.rowsOut * job.n \in Nat /\ lo \in Nat /\ tile.len * job.n \in Nat
    BY <1>5, <2>1, Times
  <2>3. hi = lo + tile.len * job.n
    BY <1>5, <2>1, NextRow
  <2> QED
    BY <2>1, <2>2, <2>3
<1>7. DOMAIN dst = 0 .. tile.len * job.n - 1
  <2> DEFINE m == tile.len * job.n
  <2>1. DOMAIN dst = 0 .. hi - lo - 1
    BY DEF Slice
  <2>2. hi = lo + m /\ m \in Nat /\ lo \in Nat
    BY <1>6
  <2> HIDE DEF hi, lo, m, dst
  <2>3. hi - lo - 1 = m - 1
    BY <2>2
  <2> QED
    BY <2>1, <2>3 DEF m
<1>8. \A x \in lo .. hi - 1 : dst[x - lo] = acc[g][x] /\ x - lo \in 0 .. tile.len * job.n - 1
  <2> DEFINE m == tile.len * job.n
             f == acc[g]
  <2>1. hi = lo + m /\ m \in Nat /\ lo \in Nat /\ dst = [i \in 0 .. hi - lo - 1 |-> f[lo + i]]
    BY <1>6 DEF Slice
  <2> HIDE DEF hi, lo, m, f, dst
  <2>2. \A x \in lo .. hi - 1 : dst[x - lo] = f[x] /\ x - lo \in 0 .. m - 1
    <3> SUFFICES ASSUME NEW x \in lo .. hi - 1
                 PROVE  dst[x - lo] = f[x] /\ x - lo \in 0 .. m - 1
      OBVIOUS
    <3> DEFINE z == x - lo
    <3>1. z \in 0 .. hi - lo - 1 /\ z \in 0 .. m - 1 /\ lo + z = x
      BY <2>1
    <3> HIDE DEF z
    <3>2. dst[z] = f[x]
      BY <2>1, <3>1
    <3> QED
      BY <3>1, <3>2 DEF z
  <2> QED
    BY <2>2 DEF m, f
<1>9. AddsBand(sum, dst, g, bc, tile.r0, tile.len)
  <2> DEFINE u == BandRows(U(g, bc), tile, RowsIn(bc))
  <2>1. HoldsRows(u, g, bc, tile.r0, tile.len)
    BY <1>2, <1>5, BandRowsHeld
  <2>2. sum = GemmI16F64Add(dst, u, Rhs(bc), tile.len, RowsIn(bc), job.n)
    OBVIOUS
  <2> DEFINE r0 == tile.r0
             len == tile.len
  <2>3. r0 \in Nat /\ len \in Nat /\ HoldsRows(u, g, bc, r0, len) /\ DOMAIN dst = 0 .. len * job.n - 1
    BY <1>5, <1>7, <2>1
  <2>4. sum = GemmI16F64Add(dst, u, Rhs(bc), len, RowsIn(bc), job.n)
    BY <2>2
  <2> HIDE DEF u, dst, sum, g, r0, len
  <2>5. AddsBand(GemmI16F64Add(dst, u, Rhs(bc), len, RowsIn(bc), job.n), dst, g, bc, r0, len)
    BY <1>1, <1>2, <2>3, BandAdds
  <2> QED
    BY <2>4, <2>5 DEF r0, len
<1>10. ASSUME NEW x \in lo .. hi - 1
       PROVE  sum[x - lo] = Append(acc[g][x], Summand(g, bc, x))
  <2> DEFINE z == x - lo
  <2>1. z \in 0 .. tile.len * job.n - 1 /\ dst[z] = acc[g][x]
    BY <1>8
  <2>2. tile.r0 * job.n + z = x
    <3>1. z = x - lo /\ lo \in Nat /\ x \in Int
      BY <1>6
    <3> HIDE DEF z
    <3>2. lo + z = x
      <4> HIDE DEF lo
      <4> QED
        BY <3>1
    <3> QED
      BY <3>2
  <2> HIDE DEF z, sum, dst
  <2>3. sum[z] = Append(dst[z], Summand(g, bc, tile.r0 * job.n + z))
    BY <1>9, <2>1 DEF AddsBand
  <2>4. sum[z] = Append(acc[g][x], Summand(g, bc, x))
    BY <2>1, <2>2, <2>3
  <2> QED
    BY <2>4 DEF z
<1> HIDE DEF sum, dst
<1>11. /\ acc = [rg \in 0 .. job.groups - 1 |-> [x \in places |-> acc[rg][x]]]
       /\ DOMAIN acc[g] = places
  <2>1. acc = [rg \in 0 .. job.groups - 1 |-> [x \in places |-> acc[rg][x]]]
    BY <1>2 DEF AccShape
  <2> HIDE DEF places
  <2> QED
    BY <1>5, <2>1
<1>12. acc' = [acc EXCEPT ![g] = [x \in places |-> IF lo <= x /\ x < hi THEN sum[x - lo] ELSE acc[g][x]]]
  <2> HIDE DEF places, lo, hi, g
  <2>1. g \in DOMAIN acc
    BY <1>5, <1>11
  <2> QED
    BY <1>3, <1>11, <2>1
<1>13. AccShape'
  <2> DEFINE new(x) == IF lo <= x /\ x < hi THEN sum[x - lo] ELSE acc[g][x]
  <2>1. acc' = [acc EXCEPT ![g] = [x \in places |-> new(x)]]
    BY <1>12
  <2> HIDE DEF places, new, g
  <2>2. acc' = [rg \in 0 .. job.groups - 1 |-> [x \in places |-> acc'[rg][x]]]
    BY <1>5, <1>11, <2>1
  <2> QED
    BY <1>1, <2>2 DEF AccShape, places
<1>14. ASSUME NEW rg \in 0 .. job.groups - 1, NEW x \in places
       PROVE  acc'[rg][x] = IF rg = g /\ x \in InTile(i0)
                            THEN Append(acc[rg][x], Summand(rg, bc, x)) ELSE acc[rg][x]
  <2>1. CASE rg # g
    BY <1>11, <1>12, <2>1
  <2>2. CASE rg = g
    <3>1. acc'[g][x] = IF lo <= x /\ x < hi THEN sum[x - lo] ELSE acc[g][x]
      <4> HIDE DEF places, lo, hi, g
      <4> QED
        BY <1>5, <1>11, <1>12
    <3>2. (lo <= x /\ x < hi) <=> x \in lo .. hi - 1
      <4>1. x \in Int /\ lo \in Nat /\ hi \in Nat
        BY <1>6
      <4> HIDE DEF lo, hi
      <4> QED
        BY <4>1
    <3> HIDE DEF lo, hi
    <3> QED
      BY <1>5, <1>10, <2>2, <3>1, <3>2
  <2> QED
    BY <2>1, <2>2
<1> QED
  BY <1>13, <1>14

\* A thread adds the next block to its current band: each number of each tile holds the blocks
\* its own thread has added, whichever threads share the group.
LEMMA BodyTileKeeps ==
  ASSUME SplitInv, NEW v \in Workers, BodyTile(v)
  PROVE  SplitInv'
<1> DEFINE t == turn[v]
           q == t \div job.blocks
           bc == t % job.blocks
           i0 == v * TileChunk + q
<1>1. /\ job.kind = "body" /\ job' = job /\ bodies' = bodies /\ ~Ended(v)
      /\ turn' = [turn EXCEPT ![v] = @ + 1]
  BY DEF BodyTile
<1>2. job \in Jobs /\ turn \in [Workers -> Nat] /\ AccShape /\ BodyInv
  BY <1>1 DEF SplitInv
<1>3. PICK size \in Nat : /\ TileGroup(v) = v * TileChunk .. v * TileChunk + size - 1
                          /\ Calls(v) = size * job.blocks
  BY <1>1, <1>2, TilesOfThread
<1>4. t \in Nat /\ t < size * job.blocks /\ size * job.blocks \in Nat
  <2>1. job.blocks \in Nat
    BY <1>2, JobIs
  <2>2. size * job.blocks \in Nat
    BY <2>1, Times
  <2>3. t \in Nat /\ t <= Calls(v) /\ t # Calls(v)
    BY <1>1, <1>2 DEF BodyInv, Ended
  <2> HIDE DEF t
  <2> QED
    BY <1>3, <2>2, <2>3
<1>5. /\ q \in 0 .. size - 1 /\ bc \in 0 .. job.blocks - 1
      /\ Added(t, q) = bc /\ Added(t + 1, q) = bc + 1
      /\ \A d \in Nat : d # q => Added(t + 1, d) = Added(t, d)
  <2> HIDE DEF t
  <2> QED
    BY <1>2, <1>4, CallsInOrder
<1>6. /\ v * TileChunk \in Nat /\ TileGroup(v) \subseteq 0 .. TileCount - 1
      /\ \A w \in Workers : \A i : i \in TileGroup(w) => i \in 0 .. TileCount - 1
      /\ \A w \in Workers : \A i : i \in TileGroup(w) /\ i \in TileGroup(v) => w = v
  BY <1>1, <1>2, TilesOfThread
<1>7. i0 \in TileGroup(v) /\ i0 - v * TileChunk = q /\ bc \in Nat /\ job.blocks \in Nat
  <2> DEFINE a == v * TileChunk
  <2>1. a \in Nat /\ job.blocks \in Nat
    BY <1>2, <1>6, JobIs
  <2>2. TileGroup(v) = a .. a + size - 1 /\ i0 = a + q
    BY <1>3
  <2> HIDE DEF a, q, bc, i0
  <2>3. i0 \in TileGroup(v) /\ i0 - a = q /\ bc \in Nat
    BY <1>5, <2>1, <2>2
  <2> QED
    BY <2>1, <2>3 DEF a
<1>8. /\ AccShape'
      /\ \A rg \in 0 .. job.groups - 1, x \in 0 .. job.rowsOut * job.n - 1 :
           acc'[rg][x] = IF rg = Tile(i0).rg /\ x \in InTile(i0)
                         THEN Append(acc[rg][x], Summand(rg, bc, x)) ELSE acc[rg][x]
  BY <1>7, BandTakesBlock
<1>9. /\ Workers' = Workers /\ \A w : Calls(w)' = Calls(w) /\ TileGroup(w)' = TileGroup(w)
      /\ \A i : Tile(i)' = Tile(i) /\ TileChunk' = TileChunk
      /\ \A rg, x, b : UpTo(rg, x, b)' = UpTo(rg, x, b)
  BY <1>1, SameJob
<1>10. (\A i : InTile(i)' = InTile(i)) /\ (\A m, d : Added(m, d)' = Added(m, d))
  BY <1>1, <1>9 DEF InTile, Added
<1> HIDE DEF i0, q, bc, t
<1>11. turn'[v] = t + 1 /\ \A w \in Workers : w # v => turn'[w] = turn[w]
  BY <1>1, <1>2 DEF t
<1>12. ASSUME NEW w \in Workers, NEW i \in TileGroup(w), NEW x \in InTile(i)
       PROVE  acc'[Tile(i).rg][x] = UpTo(Tile(i).rg, x, Added(turn'[w], i - w * TileChunk))
  <2> DEFINE g == Tile(i).rg
  <2>1. acc[g][x] = UpTo(g, x, Added(turn[w], i - w * TileChunk))
    BY <1>2 DEF BodyInv, BandsHold
  <2>2. i \in 0 .. TileCount - 1 /\ i0 \in 0 .. TileCount - 1
    BY <1>6, <1>7
  <2>3. g \in 0 .. job.groups - 1 /\ x \in 0 .. job.rowsOut * job.n - 1
    BY <1>2, <2>2, TileIs
  <2>4. CASE i = i0
    <3>1. w = v /\ i - w * TileChunk = q
      BY <1>6, <1>7, <2>4
    <3>2. acc[g][x] = UpTo(g, x, bc)
      BY <1>5, <2>1, <3>1 DEF t
    <3>3. acc'[g][x] = Append(acc[g][x], Summand(g, bc, x))
      BY <1>8, <2>3, <2>4
    <3>4. acc'[g][x] = UpTo(g, x, bc + 1)
      <4> HIDE DEF g
      <4> QED
        BY <1>7, <3>2, <3>3, NextSummand
    <3>5. Added(turn'[w], i - w * TileChunk) = bc + 1
      BY <1>5, <1>11, <3>1
    <3> QED
      BY <3>4, <3>5
  <2>5. CASE i # i0
    <3>1. ~(g = Tile(i0).rg /\ x \in InTile(i0))
      BY <1>2, <2>2, <2>5, TilesApart
    <3>2. acc'[g][x] = acc[g][x]
      BY <1>8, <2>3, <3>1
    <3>3. Added(turn'[w], i - w * TileChunk) = Added(turn[w], i - w * TileChunk)
      <4>1. CASE w # v
        BY <1>11, <4>1
      <4>2. CASE w = v
        <5> DEFINE a == v * TileChunk
                   d == i - a
        <5>1. a \in Nat /\ i \in a .. a + size - 1
          BY <1>3, <1>6, <4>2
        <5>2. i0 \in Int /\ i0 - a = q
          BY <1>7, <2>2
        <5> HIDE DEF a
        <5>3. d \in Nat /\ d # q
          BY <2>5, <5>1, <5>2
        <5> HIDE DEF d
        <5>4. Added(t + 1, d) = Added(t, d)
          BY <1>5, <5>3
        <5> QED
          BY <1>11, <4>2, <5>4 DEF d, a, t
      <4> QED
        BY <4>1, <4>2
    <3> QED
      BY <2>1, <3>2, <3>3
  <2> QED
    BY <2>4, <2>5
<1>13. BandsHold'
  BY <1>9, <1>10, <1>12 DEF BandsHold
<1>14. \A w \in Workers : turn'[w] <= Calls(w)
  <2> SUFFICES ASSUME NEW w \in Workers
               PROVE  turn'[w] <= Calls(w)
    OBVIOUS
  <2>1. CASE w = v
    BY <1>3, <1>4, <1>11, <2>1
  <2>2. CASE w # v
    BY <1>2, <1>11, <2>2 DEF BodyInv
  <2> QED
    BY <2>1, <2>2
<1>15. BodiesLast'
  <2>1. bodies = << >>
    BY <1>1, <1>2 DEF BodyInv, BodiesLast
  <2> QED
    BY <1>1, <2>1 DEF BodiesLast
<1>16. turn' \in [Workers' -> Nat]
  BY <1>1, <1>2, <1>9
<1> QED
  BY <1>1, <1>2, <1>8, <1>9, <1>13, <1>14, <1>15, <1>16 DEF SplitInv, BodyInv

\* A step that changes nothing
LEMMA SplitInvStutters ==
  ASSUME SplitInv, UNCHANGED vars
  PROVE  SplitInv'
<1>1. job' = job /\ turn' = turn /\ acc' = acc /\ local' = local /\ joined' = joined /\ bodies' = bodies
  BY DEF vars
<1>2. /\ Workers' = Workers /\ \A w : Calls(w)' = Calls(w) /\ TileGroup(w)' = TileGroup(w)
      /\ \A i : Tile(i)' = Tile(i) /\ TileChunk' = TileChunk /\ Axis' = Axis
      /\ \A rg, x, b : UpTo(rg, x, b)' = UpTo(rg, x, b)
      /\ \A w : StripStart(w)' = StripStart(w) /\ StripWidth(w)' = StripWidth(w)
  BY <1>1, SameJob
<1>3. /\ \A i : InTile(i)' = InTile(i)
      /\ \A t, d : Added(t, d)' = Added(t, d)
      /\ \A w : InStrip(w)' = InStrip(w)
      /\ \A w, y : StripPlace(w, y)' = StripPlace(w, y)
  BY <1>1, <1>2 DEF InTile, Added, InStrip, StripPlace
<1>4. AccShape' <=> AccShape
  BY <1>1 DEF AccShape
<1>5. BodyInv' <=> BodyInv
  BY <1>1, <1>2, <1>3 DEF BodyInv, BandsHold, BodiesLast, Ended
<1>6. StripInv' <=> StripInv
  <2>1. StripsHold' <=> StripsHold
    BY <1>1, <1>2, <1>3 DEF StripsHold
  <2>2. JoinedHold' <=> JoinedHold
    BY <1>1, <1>2, <1>3 DEF JoinedHold
  <2> QED
    BY <2>1, <2>2 DEF StripInv
<1> QED
  BY <1>1, <1>2, <1>4, <1>5, <1>6 DEF SplitInv

\* Every step keeps the invariant.
LEMMA SplitInvStep == SplitInv /\ [Next]_vars => SplitInv'
<1> SUFFICES ASSUME SplitInv, [Next]_vars PROVE SplitInv'
  OBVIOUS
<1>1. ASSUME NEW w \in Workers, BodyTile(w) PROVE SplitInv'
  BY <1>1, BodyTileKeeps
<1>2. ASSUME NEW w \in Workers, MaskStep(w) PROVE SplitInv'
  BY <1>2, MaskStepKeeps
<1>3. CASE JoinStrip
  BY <1>3, JoinStripKeeps
<1>4. CASE ReduceBlocks
  BY <1>4, ReduceBlocksKeeps
<1>5. CASE SplitBodies
  BY <1>5, SplitBodiesKeeps
<1>6. CASE UNCHANGED vars
  BY <1>6, SplitInvStutters
<1> QED
  BY <1>1, <1>2, <1>3, <1>4, <1>5, <1>6 DEF Next

\* Once all is done, every tile or strip is whole, and together they are the whole product.
LEMMA SplitInvImplies == SplitInv => SplitKeepsBits
<1> SUFFICES ASSUME SplitInv, Done, ~(job.kind = "mask" /\ Axis = "blocks"), NEW g \in DOMAIN acc
             PROVE  acc[g] = Sequential(g)
  BY DEF SplitKeepsBits
<1>1. job \in Jobs /\ AccShape /\ turn \in [Workers -> Nat]
  BY DEF SplitInv
<1>2. g \in 0 .. job.groups - 1 /\ acc[g] = [x \in 0 .. job.rowsOut * job.n - 1 |-> acc[g][x]]
  BY <1>1 DEF AccShape
<1>3. SUFFICES ASSUME NEW x \in 0 .. job.rowsOut * job.n - 1
               PROVE  acc[g][x] = UpTo(g, x, job.blocks)
  BY <1>1, <1>2, SequentialIs DEF AccTo
<1>4. CASE job.kind = "body"
  <2>1. PICK w \in Workers : \E i \in TileGroup(w) : Tile(i).rg = g /\ x \in InTile(i)
    BY <1>1, <1>2, <1>4, TilesCover
  <2>2. PICK i \in TileGroup(w) : Tile(i).rg = g /\ x \in InTile(i)
    BY <2>1
  <2>3. PICK size \in Nat : /\ TileGroup(w) = w * TileChunk .. w * TileChunk + size - 1
                            /\ Calls(w) = size * job.blocks
    BY <1>1, <1>4, TilesOfThread
  <2>4. BodyInv /\ bodies # << >>
    BY <1>4 DEF SplitInv, Done
  <2>5. turn[w] = size * job.blocks
    BY <2>3, <2>4 DEF BodyInv, BodiesLast, Ended
  <2> DEFINE a == w * TileChunk
             d == i - a
  <2>6. d \in 0 .. size - 1
    <3>1. a \in Nat /\ i \in a .. a + size - 1
      BY <1>1, <1>4, <2>3, TilesOfThread
    <3> HIDE DEF a
    <3> QED
      BY <3>1
  <2>7. Added(turn[w], d) = job.blocks
    <3> HIDE DEF d
    <3> QED
      BY <1>1, <2>5, <2>6, CallsMade
  <2>8. acc[g][x] = UpTo(g, x, Added(turn[w], d))
    BY <2>2, <2>4 DEF BodyInv, BandsHold
  <2> QED
    BY <2>7, <2>8
<1>5. CASE job.kind = "mask"
  <2>1. Axis = "cols"
    BY <1>5 DEF Axis
  <2>2. StripInv /\ joined = Cardinality(Workers)
    BY <1>5, <2>1 DEF SplitInv, Done
  <2>3. MaskThreads \in Nat \ {0} /\ Workers = 0 .. MaskThreads - 1
    BY <1>1, <1>5, <2>1, StripsAre
  <2>4. joined = MaskThreads
    <3>1. /\ 0 \in Int /\ MaskThreads - 1 \in Int /\ ~(0 > MaskThreads - 1)
          /\ (MaskThreads - 1) - 0 + 1 = MaskThreads
      BY <2>3
    <3>2. Cardinality(0 .. MaskThreads - 1) = MaskThreads
      BY <3>1, FS_Interval
    <3> QED
      BY <2>2, <2>3, <3>2
  <2>5. x % job.n \in 0 .. job.n - 1
    <3>1. job.n \in Nat \ {0} /\ job.rowsOut \in Nat
      BY <1>1, JobIs
    <3> QED
      BY <3>1, PlaceIs
  <2>6. PICK w \in Workers : (x % job.n) - StripStart(w) \in 0 .. StripWidth(w) - 1
    BY <1>1, <1>5, <2>1, <2>5, StripsAre
  <2>7. x \in InStrip(w)
    BY <2>6 DEF InStrip
  <2>8. w < joined
    BY <2>3, <2>4
  <2>9. acc[0][x] = UpTo(0, x, job.blocks)
    BY <2>2, <2>7, <2>8 DEF StripInv, JoinedHold
  <2>10. g = 0
    BY <1>1, <1>2, <1>5, JobIs
  <2> QED
    BY <2>9, <2>10
<1> QED
  BY <1>1, <1>4, <1>5, JobIs

-----------------------------------------------------------------------------
(* The theorem *)

\* Splitting a product among threads by rows, columns or record batches changes no bit of it:
\* when all threads have ended, every accumulator is the one that a single thread computes
\* (body_product_acc_parallel and mask_product_acc_cols_parallel, common.rs).
THEOREM SplitIsSequential == Spec => []SplitKeepsBits
<1>1. Init => SplitInv
  BY SplitInvInit
<1>2. SplitInv /\ [Next]_vars => SplitInv'
  BY SplitInvStep
<1>3. SplitInv => SplitKeepsBits
  BY SplitInvImplies
<1> QED
  BY <1>1, <1>2, <1>3, PTL DEF Spec

-----------------------------------------------------------------------------
(* The products of a number, each once *)

\* Row r of a group times column c, at row j of block bc
Product(rg, r, c, bc, j) == << <<rg, bc, r, j>>, <<bc, j, c>> >>

\* How many products a number adds up
ProductCount == (job.blocks - 1) * job.width + job.lastWidth

\* What the panel and the right-hand side have at a row and a column.
LEMMA PanelAt ==
  ASSUME job \in Jobs, NEW rg, NEW bc, NEW r \in 0 .. job.rowsOut - 1, NEW c \in 0 .. job.n - 1,
         NEW j \in 0 .. RowsIn(bc) - 1
  PROVE  /\ U(rg, bc)[r * RowsIn(bc) + j] = <<rg, bc, r, j>>
         /\ Rhs(bc)[j * job.n + c] = <<bc, j, c>>
<1> DEFINE k == RowsIn(bc)
           n == job.n
           rows == job.rowsOut
<1>1. k \in Nat \ {0} /\ n \in Nat \ {0} /\ rows \in Nat \ {0}
  BY JobIs
<1>2. U(rg, bc) = [i \in 0 .. rows * k - 1 |-> <<rg, bc, i \div k, i % k>>]
  BY DEF U
<1>3. Rhs(bc) = [i \in 0 .. k * n - 1 |-> <<bc, i \div n, i % n>>]
  BY DEF Rhs
<1>4. r \in 0 .. rows - 1 /\ c \in 0 .. n - 1 /\ j \in 0 .. k - 1
  OBVIOUS
<1> HIDE DEF k, n, rows
<1>5. ASSUME NEW a \in Nat \ {0}, NEW b \in Nat \ {0}, NEW q \in 0 .. a - 1, NEW s \in 0 .. b - 1
      PROVE  q * b + s \in 0 .. a * b - 1
  <2>1. (q + 1) * b <= a * b /\ a * b \in Nat
    BY ProductMonotone
  <2>2. (q + 1) * b = q * b + b /\ q * b \in Nat
    BY NextRow, Times
  <2> QED
    BY <2>1, <2>2
<1>6. r * k + j \in 0 .. rows * k - 1 /\ j * n + c \in 0 .. k * n - 1
  BY <1>1, <1>4, <1>5
<1>7. (r * k + j) \div k = r /\ (r * k + j) % k = j /\ (j * n + c) \div n = j /\ (j * n + c) % n = c
  <2>1. r \in Nat /\ j \in Nat
    BY <1>1, <1>4
  <2>2. (r * k + j) \div k = r /\ (r * k + j) % k = j
    BY <1>1, <1>4, <2>1, RowAndColumn
  <2>3. (j * n + c) \div n = j /\ (j * n + c) % n = c
    BY <1>1, <1>4, <2>1, RowAndColumn
  <2> QED
    BY <2>2, <2>3
<1>8. U(rg, bc)[r * k + j] = <<rg, bc, r, j>> /\ Rhs(bc)[j * n + c] = <<bc, j, c>>
  BY <1>2, <1>3, <1>6, <1>7
<1> QED
  BY <1>8 DEF k, n

\* The products are one for each row of each block.
LEMMA ProductsAre ==
  ASSUME job \in Jobs, NEW rg, NEW r, NEW c, NEW p
  PROVE  p \in Products(rg, r, c)
           <=> \E bc \in 0 .. job.blocks - 1 : \E j \in 0 .. RowsIn(bc) - 1 : p = Product(rg, r, c, bc, j)
<1>1. /\ job.blocks \in Nat \ {0} /\ job.width \in Nat \ {0} /\ job.lastWidth \in Nat \ {0}
      /\ job.lastWidth <= job.width
  BY JobIs
<1> DEFINE last == job.blocks - 1
           of == {Product(rg, r, c, bc, j) : bc \in 0 .. last, j \in 0 .. job.width - 1}
           none == {Product(rg, r, c, last, j) : j \in job.lastWidth .. job.width - 1}
<1>2. Products(rg, r, c) = of \ none
  BY DEF Products, Product
<1> HIDE DEF last
<1>4. \A bc : RowsIn(bc) = IF bc = last THEN job.lastWidth ELSE job.width
  BY DEF RowsIn, last
<1>5. ASSUME p \in of, p \notin none
      PROVE  \E bc \in 0 .. last : \E j \in 0 .. RowsIn(bc) - 1 : p = Product(rg, r, c, bc, j)
  <2>1. PICK bc \in 0 .. last, j \in 0 .. job.width - 1 : p = Product(rg, r, c, bc, j)
    BY <1>5
  <2>2. bc = last => j \notin job.lastWidth .. job.width - 1
    BY <1>5, <2>1
  <2>3. j \in 0 .. RowsIn(bc) - 1
    BY <1>1, <1>4, <2>2
  <2> QED
    BY <2>1, <2>3
<1>6. ASSUME NEW bc \in 0 .. last, NEW j \in 0 .. RowsIn(bc) - 1, p = Product(rg, r, c, bc, j)
      PROVE  p \in of /\ p \notin none
  <2>1. j \in 0 .. job.width - 1
    BY <1>1, <1>4
  <2>2. bc = last => j \in 0 .. job.lastWidth - 1
    BY <1>4
  <2>3. p \in of
    BY <1>6, <2>1
  <2>4. ASSUME NEW i \in job.lastWidth .. job.width - 1, p = Product(rg, r, c, last, i)
        PROVE  FALSE
    <3> HIDE DEF of, none
    <3>0. Product(rg, r, c, bc, j) = Product(rg, r, c, last, i)
      BY <1>6, <2>4
    <3>1. bc = last /\ j = i
      BY <3>0 DEF Product
    <3> QED
      BY <1>1, <2>2, <3>1
  <2> QED
    BY <2>3, <2>4
<1> HIDE DEF of, none
<1>7. p \in Products(rg, r, c)
        <=> \E bc \in 0 .. last : \E j \in 0 .. RowsIn(bc) - 1 : p = Product(rg, r, c, bc, j)
  BY <1>2, <1>5, <1>6
<1> QED
  BY <1>7 DEF last

\* The rows of all blocks, and the row that a count up to them falls on.
LEMMA RowOfBlock ==
  ASSUME job \in Jobs
  PROVE  /\ ProductCount \in Nat /\ job.width \in Nat \ {0}
         /\ \A i \in 0 .. ProductCount - 1 :
              /\ i \div job.width \in 0 .. job.blocks - 1
              /\ i % job.width \in 0 .. RowsIn(i \div job.width) - 1
              /\ i = (i \div job.width) * job.width + (i % job.width)
         /\ \A bc \in 0 .. job.blocks - 1 : \A j \in 0 .. RowsIn(bc) - 1 :
              /\ bc * job.width + j \in 0 .. ProductCount - 1
              /\ (bc * job.width + j) \div job.width = bc /\ (bc * job.width + j) % job.width = j
<1> DEFINE w == job.width
           last == job.blocks - 1
           lw == job.lastWidth
           full == last * w
<1>1. w \in Nat \ {0} /\ last \in Nat /\ lw \in Nat \ {0} /\ lw <= w /\ job.blocks = last + 1
  BY JobIs
<1>2. ProductCount = full + lw
  BY DEF ProductCount
<1>3. \A bc : RowsIn(bc) = IF bc = last THEN lw ELSE w
  BY DEF RowsIn
<1> HIDE DEF w, last, lw
<1>4. full \in Nat /\ (last + 1) * w = full + w
  BY <1>1, Times, NextRow
<1>5. ASSUME NEW i \in 0 .. ProductCount - 1
      PROVE  /\ i \div w \in 0 .. last /\ i % w \in 0 .. RowsIn(i \div w) - 1
             /\ i = (i \div w) * w + (i % w)
  <2> DEFINE q == i \div w
             s == i % w
  <2> HIDE DEF full
  <2>1. i \in 0 .. (last + 1) * w - 1
    BY <1>1, <1>2, <1>4
  <2>2. q \in 0 .. (last + 1) - 1 /\ s \in 0 .. w - 1 /\ i = q * w + s
    <3>1. last + 1 \in Nat
      BY <1>1
    <3> QED
      BY <1>1, <2>1, <3>1, PlaceIs
  <2> HIDE DEF q, s
  <2>3. q = last => s \in 0 .. lw - 1
    BY <1>1, <1>2, <1>4, <2>2
  <2>4. q \in 0 .. last /\ s \in 0 .. RowsIn(q) - 1
    BY <1>1, <1>3, <2>2, <2>3
  <2> QED
    BY <2>2, <2>4 DEF q, s
<1>6. ASSUME NEW bc \in 0 .. last, NEW j \in 0 .. RowsIn(bc) - 1
      PROVE  bc * w + j \in 0 .. ProductCount - 1 /\ (bc * w + j) \div w = bc /\ (bc * w + j) % w = j
  <2>1. j \in 0 .. w - 1 /\ (bc = last => j \in 0 .. lw - 1)
    BY <1>1, <1>3
  <2>2. bc * w \in Nat
    BY <1>1, Times
  <2>3. bc # last => bc * w + w <= full
    <3> SUFFICES ASSUME bc # last PROVE bc * w + w <= full
      OBVIOUS
    <3>1. bc + 1 <= last
      BY <1>1
    <3>2. (bc + 1) * w <= last * w
      BY <1>1, <3>1, ProductMonotone
    <3>3. (bc + 1) * w = bc * w + w
      BY <1>1, NextRow
    <3> QED
      BY <3>2, <3>3
  <2>4. bc = last => bc * w = full
    OBVIOUS
  <2> HIDE DEF full
  <2>5. bc * w + j \in 0 .. ProductCount - 1
    <3>1. CASE bc = last
      BY <1>1, <1>2, <1>4, <2>1, <2>2, <2>4, <3>1
    <3>2. CASE bc # last
      BY <1>1, <1>2, <1>4, <2>1, <2>2, <2>3, <3>2
    <3> QED
      BY <3>1, <3>2
  <2>6. (bc * w + j) \div w = bc /\ (bc * w + j) % w = j
    <3>1. bc \in Nat
      BY <1>1
    <3> QED
      BY <1>1, <2>1, <3>1, RowAndColumn
  <2> QED
    BY <2>5, <2>6
<1>7. ProductCount \in Nat
  BY <1>1, <1>2, <1>4
<1> QED
  BY <1>1, <1>5, <1>6, <1>7 DEF w, last

\* There are as many products as the blocks have rows.
LEMMA ProductsNumber ==
  ASSUME job \in Jobs, NEW rg, NEW r, NEW c
  PROVE  Cardinality(Products(rg, r, c)) = ProductCount
<1> DEFINE w == job.width
           top == ProductCount - 1
           P == Products(rg, r, c)
           f == [i \in 0 .. top |-> Product(rg, r, c, i \div w, i % w)]
<1>1. /\ ProductCount \in Nat /\ w \in Nat \ {0}
      /\ \A i \in 0 .. top : /\ i \div w \in 0 .. job.blocks - 1
                             /\ i % w \in 0 .. RowsIn(i \div w) - 1
                             /\ i = (i \div w) * w + (i % w)
      /\ \A bc \in 0 .. job.blocks - 1 : \A j \in 0 .. RowsIn(bc) - 1 :
           bc * w + j \in 0 .. top /\ (bc * w + j) \div w = bc /\ (bc * w + j) % w = j
  BY RowOfBlock
<1>2. \A p : p \in P <=> \E bc \in 0 .. job.blocks - 1 : \E j \in 0 .. RowsIn(bc) - 1 :
                          p = Product(rg, r, c, bc, j)
  BY ProductsAre
<1>3. \A a, b, i, j : Product(rg, r, c, a, i) = Product(rg, r, c, b, j) => a = b /\ i = j
  BY DEF Product
<1> HIDE DEF w, P
<1>4. f \in [0 .. top -> P]
  BY <1>1, <1>2
<1>5. \A i, k \in 0 .. top : f[i] = f[k] => i = k
  <2> SUFFICES ASSUME NEW i \in 0 .. top, NEW k \in 0 .. top, f[i] = f[k] PROVE i = k
    OBVIOUS
  <2>1. i \div w = k \div w /\ i % w = k % w
    BY <1>3
  <2> QED
    BY <1>1, <2>1
<1>6. \A p \in P : \E i \in 0 .. top : f[i] = p
  <2> SUFFICES ASSUME NEW p \in P PROVE \E i \in 0 .. top : f[i] = p
    OBVIOUS
  <2>1. PICK bc \in 0 .. job.blocks - 1 : \E j \in 0 .. RowsIn(bc) - 1 : p = Product(rg, r, c, bc, j)
    BY <1>2
  <2>2. PICK j \in 0 .. RowsIn(bc) - 1 : p = Product(rg, r, c, bc, j)
    BY <2>1
  <2>3. f[bc * w + j] = p /\ bc * w + j \in 0 .. top
    BY <1>1, <2>2
  <2> QED
    BY <2>3
<1> HIDE DEF f
<1>7. ExistsBijection(0 .. top, P)
  BY <1>4, <1>5, <1>6 DEF ExistsBijection, Bijection, Injection, Surjection, IsInjective
<1>8. IsFiniteSet(0 .. top) /\ Cardinality(0 .. top) = ProductCount
  <2>1. 0 \in Int /\ top \in Int
    BY <1>1
  <2>2. IsFiniteSet(0 .. top) /\ Cardinality(0 .. top) = IF 0 > top THEN 0 ELSE top - 0 + 1
    BY <2>1, FS_Interval
  <2> QED
    BY <1>1, <2>2
<1>9. Cardinality(P) = Cardinality(0 .. top)
  BY <1>7, <1>8, FS_Bijection
<1> QED
  BY <1>8, <1>9 DEF P

\* The blocks have that many rows together.
LEMMA RowsTogether ==
  ASSUME job \in Jobs, NEW f, \A i \in 0 .. job.blocks - 1 : f[i] = RowsIn(i)
  PROVE  Sum(f, job.blocks) = ProductCount
<1> DEFINE w == job.width
           last == job.blocks - 1
           S == {m \in 0 .. last : Sum(f, m) = m * w}
<1>1. w \in Nat \ {0} /\ last \in Nat /\ job.blocks = last + 1 /\ job.lastWidth \in Nat
  BY JobIs
<1>2. \A i \in 0 .. last - 1 : f[i] = w
  BY <1>1 DEF RowsIn
<1>3. f[last] = job.lastWidth
  BY <1>1 DEF RowsIn
<1> HIDE DEF w, last
<1>4. 0 \in S
  BY <1>1, SumNext
<1>5. ASSUME NEW m \in 0 .. last - 1, m \in S
      PROVE  m + 1 \in S
  <2>1. Sum(f, m + 1) = Sum(f, m) + f[m] /\ Sum(f, m) = m * w
    BY <1>5, SumNext
  <2>2. (m + 1) * w = m * w + w
    BY <1>1, NextRow
  <2> QED
    BY <1>1, <1>2, <2>1, <2>2
<1>6. 0 .. last \subseteq S
  BY <1>1, <1>4, <1>5, StepsReachAll
<1>7. Sum(f, last) = last * w
  BY <1>1, <1>6
<1>8. Sum(f, last + 1) = Sum(f, last) + f[last]
  BY <1>1, SumNext
<1> QED
  BY <1>1, <1>3, <1>7, <1>8 DEF ProductCount, w, last

\* A summand that adds the products of one block, one for each row of it
AddsBlock(s, rg, r, c, bc) ==
  /\ \A p : p \in InSummand(s) <=> \E j \in 0 .. RowsIn(bc) - 1 : p = Product(rg, r, c, bc, j)
  /\ SummandLen(s) = RowsIn(bc)

\* A summand with the given tail of k products
HasTail(s, t, k) == k \in Nat /\ DOMAIN t = 1 .. k /\ Len(t) = k /\ s.tail = t

\* A summand with as many lanes as a register, of full products each
HasLanes(s, v, full) ==
  /\ full \in Nat /\ DOMAIN v = 0 .. Lanes - 1 /\ s.lanes = v
  /\ \A l \in 0 .. Lanes - 1 : DOMAIN v[l] = 1 .. full /\ Len(v[l]) = full

\* A summand without lanes adds its tail.
LEMMA TailOnly ==
  ASSUME NEW k, NEW t, NEW s, HasTail(s, t, k), s.lanes = << >>
  PROVE  (\A p : p \in InSummand(s) <=> \E i \in 1 .. k : p = t[i]) /\ SummandLen(s) = k
<1>1. s.lanes = << >> /\ s.tail = t /\ k \in Nat
  BY DEF HasTail
<1>2. DOMAIN << >> = {} /\ DOMAIN t = 1 .. k /\ Len(t) = k
  BY DEF HasTail
<1>3. UNION {{s.lanes[l][i] : i \in DOMAIN s.lanes[l]} : l \in DOMAIN s.lanes} = {}
  BY <1>1, <1>2
<1>4. InSummand(s) = {t[i] : i \in 1 .. k}
  BY <1>1, <1>2, <1>3 DEF InSummand
<1> QED
  BY <1>1, <1>2, <1>4 DEF SummandLen

\* A summand with lanes and a tail adds them.
LEMMA LanesAndTail ==
  ASSUME NEW full, NEW k, NEW t, NEW v, NEW s, Lanes \in Nat \ {0}, HasTail(s, t, k), HasLanes(s, v, full)
  PROVE  /\ \A p : p \in InSummand(s) <=> \/ \E l \in 0 .. Lanes - 1 : \E i \in 1 .. full : p = v[l][i]
                                          \/ \E i \in 1 .. k : p = t[i]
         /\ SummandLen(s) = k + Lanes * full
<1>1. s.lanes = v /\ s.tail = t /\ full \in Nat /\ k \in Nat
  BY DEF HasTail, HasLanes
<1>2. /\ DOMAIN v = 0 .. Lanes - 1 /\ 0 \in DOMAIN v
      /\ \A l \in 0 .. Lanes - 1 : DOMAIN v[l] = 1 .. full
  BY DEF HasLanes
<1>3. DOMAIN t = 1 .. k /\ Len(t) = k
  BY DEF HasTail
<1>4. Len(v[0]) = full
  BY DEF HasLanes
<1>5. v # << >>
  <2>1. DOMAIN << >> = {}
    OBVIOUS
  <2> QED
    BY <1>2, <2>1
<1>6. \A p : p \in InSummand(s) <=> \/ \E l \in DOMAIN v : \E i \in DOMAIN v[l] : p = v[l][i]
                                    \/ \E i \in DOMAIN t : p = t[i]
  <2> DEFINE A == {t[i] : i \in DOMAIN t}
             B == {{v[l][i] : i \in DOMAIN v[l]} : l \in DOMAIN v}
  <2>1. InSummand(s) = A \cup UNION B
    BY <1>1 DEF InSummand
  <2>2. \A p : p \in A <=> \E i \in DOMAIN t : p = t[i]
    OBVIOUS
  <2>3. \A p : p \in UNION B <=> \E l \in DOMAIN v : \E i \in DOMAIN v[l] : p = v[l][i]
    OBVIOUS
  <2> HIDE DEF A, B
  <2> QED
    BY <2>1, <2>2, <2>3, Zenon
<1>7. \A p : p \in InSummand(s) <=> \/ \E l \in 0 .. Lanes - 1 : \E i \in 1 .. full : p = v[l][i]
                                    \/ \E i \in 1 .. k : p = t[i]
  <2>1. \A p : (\E l \in DOMAIN v : \E i \in DOMAIN v[l] : p = v[l][i])
                 <=> \E l \in 0 .. Lanes - 1 : \E i \in 1 .. full : p = v[l][i]
    BY <1>2
  <2>2. \A p : (\E i \in DOMAIN t : p = t[i]) <=> \E i \in 1 .. k : p = t[i]
    BY <1>3
  <2> SUFFICES ASSUME NEW p
               PROVE  p \in InSummand(s) <=> \/ \E l \in 0 .. Lanes - 1 : \E i \in 1 .. full : p = v[l][i]
                                             \/ \E i \in 1 .. k : p = t[i]
    OBVIOUS
  <2>3. p \in InSummand(s) <=> \/ \E l \in DOMAIN v : \E i \in DOMAIN v[l] : p = v[l][i]
                               \/ \E i \in DOMAIN t : p = t[i]
    BY <1>6
  <2>4. (\E l \in DOMAIN v : \E i \in DOMAIN v[l] : p = v[l][i])
          <=> \E l \in 0 .. Lanes - 1 : \E i \in 1 .. full : p = v[l][i]
    BY <2>1
  <2>5. (\E i \in DOMAIN t : p = t[i]) <=> \E i \in 1 .. k : p = t[i]
    BY <2>2
  <2> QED
    BY <2>3, <2>4, <2>5
<1> QED
  BY <1>1, <1>3, <1>4, <1>5, <1>7 DEF SummandLen

\* The sum of one row in lanes adds the products of the row, whatever the lanes leave over.
LEMMA RowSumAdds ==
  ASSUME job \in Jobs, job.n = 1, NEW rg, NEW bc, NEW r \in 0 .. job.rowsOut - 1
  PROVE  AddsBlock(RowSum(U(rg, bc), r * RowsIn(bc), Rhs(bc), RowsIn(bc)), rg, r, 0, bc)
<1> DEFINE k == RowsIn(bc)
           u == U(rg, bc)
           b == Rhs(bc)
           full == k \div Lanes
           rest == k % Lanes
           a == r * k
           t == [i \in 1 .. rest |-> <<u[a + full * Lanes + i - 1], b[full * Lanes + i - 1]>>]
           v == [l \in 0 .. Lanes - 1 |-> [i \in 1 .. full |-> <<u[a + (i - 1) * Lanes + l], b[(i - 1) * Lanes + l]>>]]
           s == [lanes |-> v, tail |-> t]
           P(j) == Product(rg, r, 0, bc, j)
<1>1. k \in Nat \ {0} /\ Lanes \in Nat \ {0}
  BY JobIs
<1>2. full \in Nat /\ rest \in 0 .. Lanes - 1 /\ k = Lanes * full + rest
  BY <1>1, Quotient
<1>3. full * Lanes \in Nat /\ full * Lanes = Lanes * full /\ a \in Nat
  <2>1. r \in Nat /\ k \in Nat /\ Lanes \in Nat
    BY <1>1, JobIs
  <2> HIDE DEF full, k
  <2> QED
    BY <1>2, <2>1, Times
<1>4. RowSum(u, a, b, k) = s
  <2>1. k - full * Lanes = rest
    BY <1>1, <1>2, <1>3
  <2> QED
    BY <2>1 DEF RowSum
<1>5. \A j \in 0 .. k - 1 : <<u[a + j], b[j]>> = P(j)
  <2> SUFFICES ASSUME NEW j \in 0 .. k - 1 PROVE u[a + j] = <<rg, bc, r, j>> /\ b[j] = <<bc, j, 0>>
    BY DEF Product
  <2>1. 0 \in 0 .. job.n - 1 /\ j * job.n + 0 = j
    BY <1>1
  <2> QED
    BY <2>1, PanelAt
<1> HIDE DEF k, full, rest, u, b, a, P
<1>6. \A i \in 1 .. rest : full * Lanes + i - 1 \in 0 .. k - 1 /\ t[i] = P(full * Lanes + i - 1)
  <2> SUFFICES ASSUME NEW i \in 1 .. rest
               PROVE  full * Lanes + i - 1 \in 0 .. k - 1 /\ t[i] = P(full * Lanes + i - 1)
    OBVIOUS
  <2>1. full * Lanes + i - 1 \in 0 .. k - 1 /\ a + full * Lanes + i - 1 = a + (full * Lanes + i - 1)
    BY <1>1, <1>2, <1>3
  <2>2. t[i] = <<u[a + full * Lanes + i - 1], b[full * Lanes + i - 1]>>
    OBVIOUS
  <2> QED
    BY <1>5, <2>1, <2>2
<1>7. \A l \in 0 .. Lanes - 1 : \A i \in 1 .. full :
        (i - 1) * Lanes + l \in 0 .. full * Lanes - 1 /\ v[l][i] = P((i - 1) * Lanes + l)
  <2> SUFFICES ASSUME NEW l \in 0 .. Lanes - 1, NEW i \in 1 .. full
               PROVE  (i - 1) * Lanes + l \in 0 .. full * Lanes - 1 /\ v[l][i] = P((i - 1) * Lanes + l)
    OBVIOUS
  <2> DEFINE m == (i - 1) * Lanes
  <2>1. i \in Nat /\ i <= full /\ i * Lanes <= full * Lanes /\ i * Lanes \in Nat
    BY <1>1, <1>2, ProductMonotone
  <2>2. m = i * Lanes - 1 * Lanes /\ m \in Nat
    BY <1>1, <2>1, NextRow, Times
  <2>3. v[l][i] = <<u[a + m + l], b[m + l]>>
    OBVIOUS
  <2> HIDE DEF m, v
  <2>4. m + l \in 0 .. full * Lanes - 1 /\ a + m + l = a + (m + l)
    BY <1>1, <1>3, <2>1, <2>2
  <2>5. m + l \in 0 .. k - 1
    BY <1>1, <1>2, <1>3, <2>4
  <2>6. v[l][i] = P(m + l)
    BY <1>5, <2>3, <2>4, <2>5
  <2> QED
    BY <2>4, <2>6 DEF m
<1>8. ASSUME NEW j \in 0 .. k - 1
      PROVE  \/ \E l \in 0 .. Lanes - 1 : \E i \in 1 .. full : P(j) = v[l][i]
             \/ \E i \in 1 .. rest : P(j) = t[i]
  <2>1. CASE j < full * Lanes
    <3>1. j \in 0 .. full * Lanes - 1
      BY <1>3, <2>1
    <3> DEFINE i == (j \div Lanes) + 1
               l == j % Lanes
    <3>2. j \div Lanes \in 0 .. full - 1 /\ l \in 0 .. Lanes - 1 /\ j = (j \div Lanes) * Lanes + l
      BY <1>1, <1>2, <3>1, PlaceIs
    <3>3. i \in 1 .. full /\ i - 1 = j \div Lanes
      BY <1>2, <3>2
    <3>4. v[l][i] = P((i - 1) * Lanes + l)
      BY <1>7, <3>2, <3>3
    <3>5. (i - 1) * Lanes + l = j
      BY <3>2, <3>3
    <3> HIDE DEF i, l
    <3> QED
      BY <3>2, <3>3, <3>4, <3>5
  <2>2. CASE ~(j < full * Lanes)
    <3> DEFINE i == j - full * Lanes + 1
    <3>1. i \in 1 .. rest /\ full * Lanes + i - 1 = j
      BY <1>1, <1>2, <1>3, <2>2
    <3> HIDE DEF i, t, v
    <3> QED
      BY <1>6, <3>1
  <2> QED
    BY <2>1, <2>2
<1>9. /\ \A p : p \in InSummand(s) <=> \/ \E l \in 0 .. Lanes - 1 : \E i \in 1 .. full : p = v[l][i]
                                       \/ \E i \in 1 .. rest : p = t[i]
      /\ SummandLen(s) = rest + Lanes * full
  <2>1. DOMAIN t = 1 .. rest /\ DOMAIN v = 0 .. Lanes - 1 /\ Len(t) = rest
    BY <1>2
  <2>2. rest \in Nat
    BY <1>2
  <2>3. \A l \in 0 .. Lanes - 1 : DOMAIN v[l] = 1 .. full /\ Len(v[l]) = full
    BY <1>2
  <2>4. s.lanes = v /\ s.tail = t
    OBVIOUS
  <2> HIDE DEF t, v, s
  <2>5. HasTail(s, t, rest) /\ HasLanes(s, v, full)
    BY <1>2, <2>1, <2>2, <2>3, <2>4 DEF HasTail, HasLanes
  <2> QED
    BY <1>1, <2>5, LanesAndTail
<1> HIDE DEF t, v, s
<1>10. \A p : p \in InSummand(s) <=> \E j \in 0 .. k - 1 : p = P(j)
  <2> SUFFICES ASSUME NEW p PROVE p \in InSummand(s) <=> \E j \in 0 .. k - 1 : p = P(j)
    OBVIOUS
  <2>1. ASSUME NEW l \in 0 .. Lanes - 1, NEW i \in 1 .. full, p = v[l][i]
        PROVE  \E j \in 0 .. k - 1 : p = P(j)
    <3>1. (i - 1) * Lanes + l \in 0 .. full * Lanes - 1 /\ p = P((i - 1) * Lanes + l)
      BY <1>7, <2>1
    <3>2. \A j \in 0 .. full * Lanes - 1 : j \in 0 .. k - 1
      BY <1>1, <1>2, <1>3
    <3> QED
      BY <3>1, <3>2
  <2>2. ASSUME NEW i \in 1 .. rest, p = t[i]
        PROVE  \E j \in 0 .. k - 1 : p = P(j)
    BY <1>6, <2>2
  <2> QED
    BY <1>8, <1>9, <2>1, <2>2
<1>11. SummandLen(s) = k
  BY <1>1, <1>2, <1>9
<1> QED
  BY <1>4, <1>10, <1>11 DEF AddsBlock, k, u, b, a, P

\* Without lanes, the kernels add the products of a row and a column, in the order of the rows.
LEMMA TailAdds ==
  ASSUME job \in Jobs, NEW rg, NEW bc, NEW r \in 0 .. job.rowsOut - 1, NEW c \in 0 .. job.n - 1,
         NEW t, t = [p \in 1 .. RowsIn(bc) |-> <<U(rg, bc)[r * RowsIn(bc) + (p - 1)],
                                                 Rhs(bc)[(p - 1) * job.n + c]>>]
  PROVE  AddsBlock([lanes |-> << >>, tail |-> t], rg, r, c, bc)
<1> DEFINE k == RowsIn(bc)
           s == [lanes |-> << >>, tail |-> t]
<1>1. k \in Nat \ {0}
  BY JobIs
<1>2. \A j \in 0 .. k - 1 : /\ U(rg, bc)[r * k + j] = <<rg, bc, r, j>>
                            /\ Rhs(bc)[j * job.n + c] = <<bc, j, c>>
  BY PanelAt
<1>3. t = [p \in 1 .. k |-> <<U(rg, bc)[r * k + (p - 1)], Rhs(bc)[(p - 1) * job.n + c]>>]
  OBVIOUS
<1> HIDE DEF k
<1>4. \A p \in 1 .. k : t[p] = Product(rg, r, c, bc, p - 1)
  <2> SUFFICES ASSUME NEW p \in 1 .. k PROVE t[p] = Product(rg, r, c, bc, p - 1)
    OBVIOUS
  <2>1. p - 1 \in 0 .. k - 1
    BY <1>1
  <2>2. t[p] = <<U(rg, bc)[r * k + (p - 1)], Rhs(bc)[(p - 1) * job.n + c]>>
    BY <1>3
  <2> QED
    BY <1>2, <2>1, <2>2 DEF Product
<1>5. DOMAIN t = 1 .. k /\ Len(t) = k
  <2> DEFINE v == [p \in 1 .. k |-> <<U(rg, bc)[r * k + (p - 1)], Rhs(bc)[(p - 1) * job.n + c]>>]
  <2>1. DOMAIN v = 1 .. k /\ Len(v) = k
    BY <1>1
  <2> QED
    BY <1>3, <2>1
<1>6. (\A p : p \in InSummand(s) <=> \E i \in 1 .. k : p = t[i]) /\ SummandLen(s) = k
  <2>1. k \in Nat
    BY <1>1
  <2>2. s.lanes = << >> /\ s.tail = t
    OBVIOUS
  <2> HIDE DEF s
  <2>3. HasTail(s, t, k)
    BY <1>5, <2>1, <2>2 DEF HasTail
  <2> QED
    BY <2>2, <2>3, TailOnly
<1> HIDE DEF s
<1>7. \A p : p \in InSummand(s) <=> \E j \in 0 .. k - 1 : p = Product(rg, r, c, bc, j)
  <2> SUFFICES ASSUME NEW p
               PROVE  p \in InSummand(s) <=> \E j \in 0 .. k - 1 : p = Product(rg, r, c, bc, j)
    OBVIOUS
  <2>1. \A i \in 1 .. k : i - 1 \in 0 .. k - 1
    BY <1>1
  <2>2. \A j \in 0 .. k - 1 : j + 1 \in 1 .. k /\ (j + 1) - 1 = j
    BY <1>1
  <2>3. ASSUME NEW j \in 0 .. k - 1
        PROVE  \E i \in 1 .. k : t[i] = Product(rg, r, c, bc, j)
    BY <1>4, <2>2
  <2>4. ASSUME NEW i \in 1 .. k, p = t[i]
        PROVE  \E j \in 0 .. k - 1 : p = Product(rg, r, c, bc, j)
    BY <1>4, <2>1, <2>4
  <2> QED
    BY <1>6, <2>3, <2>4
<1> QED
  BY <1>6, <1>7 DEF AddsBlock, k, s

\* Every kernel adds to a number the products of its row and its column in the block.
LEMMA SummandAdds ==
  ASSUME job \in Jobs, NEW rg, NEW bc, NEW x \in 0 .. job.rowsOut * job.n - 1
  PROVE  AddsBlock(Summand(rg, bc, x), rg, x \div job.n, x % job.n, bc)
<1> DEFINE k == RowsIn(bc)
           n == job.n
           r == x \div n
           c == x % n
<1>1. n \in Nat \ {0} /\ job.rowsOut \in Nat \ {0} /\ k \in Nat \ {0}
  BY JobIs
<1>2. x \in Nat /\ r \in 0 .. job.rowsOut - 1 /\ c \in 0 .. n - 1
  BY <1>1, PlaceIs
<1>3. CASE job.kind = "mask" \/ n # 1
  <2> DEFINE t == [p \in 1 .. k |-> <<U(rg, bc)[(r * k) + p - 1], Rhs(bc)[((p - 1) * n) + c]>>]
             v == [p \in 1 .. k |-> <<U(rg, bc)[r * k + (p - 1)], Rhs(bc)[(p - 1) * n + c]>>]
  <2>1. Summand(rg, bc, x) = [lanes |-> << >>, tail |-> t]
    BY <1>3 DEF Summand, DenseSummand
  <2>2. t = v
    <3>1. r * k \in Nat
      BY <1>1, <1>2, Times
    <3> HIDE DEF r, k
    <3>2. \A p \in 1 .. k : (r * k) + p - 1 = r * k + (p - 1)
      BY <3>1
    <3> QED
      BY <3>2
  <2>3. AddsBlock([lanes |-> << >>, tail |-> v], rg, r, c, bc)
    <3> HIDE DEF r, c
    <3> QED
      BY <1>2, TailAdds
  <2> QED
    BY <2>1, <2>2, <2>3
<1>4. CASE job.kind # "mask" /\ n = 1
  <2>1. r = x /\ c = 0
    BY <1>2, <1>4
  <2>2. CASE job.kernel = "scalar"
    <3> DEFINE t == [s \in 1 .. k |-> <<U(rg, bc)[x * k + s - 1], Rhs(bc)[s - 1]>>]
               v == [p \in 1 .. k |-> <<U(rg, bc)[x * k + (p - 1)], Rhs(bc)[(p - 1) * n + 0]>>]
    <3>1. Summand(rg, bc, x) = [lanes |-> << >>, tail |-> t]
      BY <1>4, <2>2 DEF Summand
    <3>2. t = v
      <4>1. x * k \in Nat
        BY <1>1, <1>2, Times
      <4> HIDE DEF k
      <4>2. \A p \in 1 .. k : x * k + p - 1 = x * k + (p - 1) /\ p - 1 = (p - 1) * n + 0
        BY <1>4, <4>1
      <4> QED
        BY <4>2
    <3>3. AddsBlock([lanes |-> << >>, tail |-> v], rg, x, 0, bc)
      <4>1. x \in 0 .. job.rowsOut - 1 /\ 0 \in 0 .. n - 1
        BY <1>1, <1>2, <2>1
      <4> QED
        BY <4>1, TailAdds
    <3> QED
      BY <2>1, <3>1, <3>2, <3>3
  <2>3. CASE job.kernel # "scalar"
    <3>1. Summand(rg, bc, x) = RowSum(U(rg, bc), x * k, Rhs(bc), k)
      BY <1>4, <2>3 DEF Summand
    <3>2. x \in 0 .. job.rowsOut - 1
      BY <1>2, <2>1
    <3>3. AddsBlock(RowSum(U(rg, bc), x * k, Rhs(bc), k), rg, x, 0, bc)
      BY <1>4, <3>2, RowSumAdds
    <3> QED
      BY <2>1, <3>1, <3>3
  <2> QED
    BY <2>2, <2>3
<1> QED
  BY <1>3, <1>4

\* A number that has taken all the blocks in their order adds up its products, each once.
LEMMA AllBlocksAddUp ==
  ASSUME job \in Jobs, NEW rg, NEW x \in 0 .. job.rowsOut * job.n - 1
  PROVE  AddsUpOnce(UpTo(rg, x, job.blocks), Products(rg, x \div job.n, x % job.n))
<1> DEFINE r == x \div job.n
           c == x % job.n
           m == job.blocks
           s == UpTo(rg, x, m)
           P == Products(rg, r, c)
           f == [i \in 0 .. m - 1 |-> SummandLen(s[i + 1])]
           Adds(a) == a = [i \in 0 .. Len(s) |-> IF i = 0 THEN 0 ELSE a[i - 1] + SummandLen(s[i])]
           a == CHOOSE b : Adds(b)
<1>1. m \in Nat \ {0}
  BY JobIs
<1>2. s = [i \in 1 .. m |-> Summand(rg, i - 1, x)]
  BY DEF UpTo
<1>3. \A bc : AddsBlock(Summand(rg, bc, x), rg, r, c, bc)
  BY SummandAdds
<1>4. \A p : p \in P <=> \E bc \in 0 .. m - 1 : \E j \in 0 .. RowsIn(bc) - 1 : p = Product(rg, r, c, bc, j)
  <2> HIDE DEF r, c
  <2> QED
    BY ProductsAre
<1>5. Cardinality(P) = ProductCount
  <2> HIDE DEF r, c
  <2> QED
    BY ProductsNumber
<1>6. AddsUpOnce(s, P) <=> /\ UNION {InSummand(s[i]) : i \in DOMAIN s} = P
                           /\ a[Len(s)] = Cardinality(P)
  BY DEF AddsUpOnce
<1> HIDE DEF s, r, c, m, P
<1>7. Len(s) = m /\ DOMAIN s = 1 .. m /\ \A i \in 1 .. m : s[i] = Summand(rg, i - 1, x)
  BY <1>1, <1>2
<1>8. \A i \in 0 .. m - 1 : f[i] = RowsIn(i)
  <2> SUFFICES ASSUME NEW i \in 0 .. m - 1 PROVE f[i] = RowsIn(i)
    OBVIOUS
  <2>1. i + 1 \in 1 .. m /\ (i + 1) - 1 = i
    BY <1>1
  <2>2. s[i + 1] = Summand(rg, i, x)
    BY <1>7, <2>1
  <2> QED
    BY <1>3, <2>2 DEF AddsBlock
<1>9. \A i \in 0 .. m : i # 0 => f[i - 1] = SummandLen(s[i])
  <2> SUFFICES ASSUME NEW i \in 0 .. m, i # 0 PROVE f[i - 1] = SummandLen(s[i])
    OBVIOUS
  <2>1. i - 1 \in 0 .. m - 1 /\ (i - 1) + 1 = i
    BY <1>1
  <2> QED
    BY <2>1
<1> HIDE DEF f
<1>10. PICK b : AddsUp(b, f, m)
  BY <1>1, SumsAreThere
<1>11. Adds(b)
  <2>1. b = [i \in 0 .. m |-> IF i = 0 THEN 0 ELSE b[i - 1] + f[i - 1]]
    BY <1>10 DEF AddsUp
  <2>2. b = [i \in 0 .. m |-> IF i = 0 THEN 0 ELSE b[i - 1] + SummandLen(s[i])]
    BY <1>9, <2>1
  <2> QED
    BY <1>7, <2>2
<1>12. Adds(a)
  BY <1>11, Zenon
<1> HIDE DEF a
<1>13. AddsUp(a, f, m)
  <2>1. a = [i \in 0 .. m |-> IF i = 0 THEN 0 ELSE a[i - 1] + SummandLen(s[i])]
    BY <1>7, <1>12
  <2>2. a = [i \in 0 .. m |-> IF i = 0 THEN 0 ELSE a[i - 1] + f[i - 1]]
    BY <1>9, <2>1
  <2> QED
    BY <2>2 DEF AddsUp
<1>14. a[m] = ProductCount
  <2>1. a[m] = Sum(f, m)
    BY <1>1, <1>13, SumsAreUnique
  <2>2. Sum(f, m) = ProductCount
    BY <1>8, RowsTogether DEF m
  <2> QED
    BY <2>1, <2>2
<1>15. UNION {InSummand(s[i]) : i \in DOMAIN s} = P
  <2>1. ASSUME NEW i \in 1 .. m, NEW p \in InSummand(s[i])
        PROVE  p \in P
    <3>1. i - 1 \in 0 .. m - 1
      BY <1>1
    <3>2. \E j \in 0 .. RowsIn(i - 1) - 1 : p = Product(rg, r, c, i - 1, j)
      BY <1>3, <1>7, <2>1 DEF AddsBlock
    <3> QED
      BY <1>4, <3>1, <3>2
  <2>2. ASSUME NEW p \in P
        PROVE  \E i \in 1 .. m : p \in InSummand(s[i])
    <3>1. PICK bc \in 0 .. m - 1 : \E j \in 0 .. RowsIn(bc) - 1 : p = Product(rg, r, c, bc, j)
      BY <1>4, <2>2
    <3>2. bc + 1 \in 1 .. m /\ (bc + 1) - 1 = bc
      BY <1>1
    <3>3. p \in InSummand(Summand(rg, bc, x))
      BY <1>3, <3>1 DEF AddsBlock
    <3>4. s[bc + 1] = Summand(rg, bc, x)
      BY <1>7, <3>2
    <3> QED
      BY <3>2, <3>3, <3>4
  <2> QED
    BY <1>7, <2>1, <2>2
<1> QED
  BY <1>5, <1>6, <1>7, <1>14, <1>15 DEF s, r, c, m, P

-----------------------------------------------------------------------------
(* The bodies *)

\* What SplitBodies makes of the accumulators
BodiesOf ==
  [qi \in 0 .. job.n - 1 |-> [k \in 0 .. job.t - 1 |-> [c \in 0 .. job.gamma - 1 |->
     acc[k \div (job.rowsOut \div job.gamma)]
        [((k % (job.rowsOut \div job.gamma)) * job.gamma + c) * job.n + qi]]]]

\* The bodies stay what the accumulators were split into.
BodiesHold == job.kind = "body" /\ bodies # << >> => bodies = BodiesOf

\* Nothing is split at first.
LEMMA BodiesHoldInit == Init => BodiesHold
BY DEF Init, BodiesHold

\* The accumulators do not change once they are split.
LEMMA BodiesHoldStep ==
  ASSUME SplitInv, BodiesHold, [Next]_vars
  PROVE  BodiesHold'
<1>1. ASSUME NEW w \in Workers, BodyTile(w) PROVE BodiesHold'
  <2>1. job.kind = "body" /\ ~Ended(w) /\ bodies' = bodies
    BY <1>1 DEF BodyTile
  <2>2. bodies = << >>
    BY <2>1 DEF SplitInv, BodyInv, BodiesLast
  <2> QED
    BY <2>1, <2>2 DEF BodiesHold
<1>2. ASSUME job' = job, job.kind # "body" PROVE BodiesHold'
  BY <1>2 DEF BodiesHold
<1>3. ASSUME NEW w \in Workers, MaskStep(w) PROVE BodiesHold'
  BY <1>2, <1>3 DEF MaskStep
<1>4. CASE JoinStrip
  BY <1>2, <1>4 DEF JoinStrip
<1>5. CASE ReduceBlocks
  BY <1>2, <1>5 DEF ReduceBlocks
<1>6. CASE SplitBodies
  <2>1. bodies' = BodiesOf /\ job' = job /\ acc' = acc
    BY <1>6 DEF SplitBodies, BodiesOf
  <2>2. BodiesOf' = BodiesOf
    BY <2>1 DEF BodiesOf
  <2> QED
    BY <2>1, <2>2 DEF BodiesHold
<1>7. CASE UNCHANGED vars
  <2>1. job' = job /\ acc' = acc /\ bodies' = bodies
    BY <1>7 DEF vars
  <2>2. BodiesOf' = BodiesOf
    BY <2>1 DEF BodiesOf
  <2> QED
    BY <2>1, <2>2 DEF BodiesHold
<1> QED
  BY <1>1, <1>3, <1>4, <1>5, <1>6, <1>7 DEF Next

\* The row group and the row of a record batch's coefficient, and its place in the accumulator.
LEMMA RowOfBatch ==
  ASSUME job \in Jobs, NEW qi \in 0 .. job.n - 1, NEW k \in 0 .. job.t - 1, NEW c \in 0 .. job.gamma - 1
  PROVE  LET perGroup == job.rowsOut \div job.gamma
             r == (k % perGroup) * job.gamma + c
             x == r * job.n + qi
         IN /\ k \div perGroup \in 0 .. job.groups - 1
            /\ x \in 0 .. job.rowsOut * job.n - 1 /\ x \div job.n = r /\ x % job.n = qi
            /\ (k * job.gamma + c) \div job.rowsOut = k \div perGroup
            /\ (k * job.gamma + c) % job.rowsOut = r
<1> DEFINE rows == job.rowsOut
           g == job.gamma
           n == job.n
           p == rows \div g
           q == k \div p
           b == k % p
           r == b * g + c
           x == r * n + qi
<1>1. /\ rows \in Nat \ {0} /\ g \in Nat \ {0} /\ n \in Nat \ {0} /\ job.t \in Nat /\ job.groups \in Nat \ {0}
      /\ qi \in 0 .. n - 1 /\ c \in 0 .. g - 1
  BY JobIs
<1>2. rows % g = 0 /\ job.t <= job.groups * p
  BY TiledAssumption
<1>3. p \in Nat /\ rows = g * p
  <2>1. rows \div g \in Nat /\ rows = g * (rows \div g) + (rows % g)
    BY <1>1, Quotient
  <2> HIDE DEF rows, g
  <2>2. g * p \in Nat
    BY <1>1, <2>1, Times
  <2> HIDE DEF p
  <2> QED
    BY <1>2, <2>1, <2>2 DEF p
<1> HIDE DEF rows, g, n, p
<1>4. p \in Nat \ {0} /\ rows = p * g
  BY <1>1, <1>3, Times
<1>5. k \in 0 .. job.groups * p - 1
  <2>1. job.groups * p \in Nat
    BY <1>1, <1>3, Times
  <2> QED
    BY <1>1, <1>2, <2>1
<1>6. q \in 0 .. job.groups - 1 /\ b \in 0 .. p - 1 /\ k = q * p + b
  BY <1>1, <1>4, <1>5, PlaceIs
<1> HIDE DEF q, b
<1>7. ASSUME NEW i \in Nat \ {0}, NEW j \in Nat \ {0}, NEW s \in 0 .. i - 1, NEW y \in 0 .. j - 1
      PROVE  s * j + y \in 0 .. i * j - 1
  <2>1. (s + 1) * j <= i * j /\ i * j \in Nat
    BY ProductMonotone
  <2>2. (s + 1) * j = s * j + j /\ s * j \in Nat
    BY NextRow, Times
  <2> QED
    BY <2>1, <2>2
<1>8. r \in 0 .. rows - 1
  BY <1>1, <1>4, <1>6, <1>7
<1> HIDE DEF r
<1>9. x \in 0 .. rows * n - 1 /\ r \in Nat
  BY <1>1, <1>7, <1>8
<1>10. x \div n = r /\ x % n = qi
  BY <1>1, <1>9, RowAndColumn
<1>11. k * g + c = q * rows + r
  <2>1. q \in Nat /\ b \in Nat /\ q * p \in Nat /\ b * g \in Nat
    BY <1>1, <1>4, <1>6, Times
  <2>2. k * g = (q * p) * g + b * g
    BY <1>1, <1>6, <2>1, NextRow
  <2>3. (q * p) * g = q * (p * g) /\ (q * p) * g \in Nat
    <3>1. p \in Nat /\ g \in Nat
      BY <1>1, <1>4
    <3> QED
      BY <2>1, <3>1, SMT
  <2>4. q * rows = (q * p) * g
    BY <1>4, <2>3
  <2>5. k * g + c = q * rows + (b * g + c)
    <3> DEFINE e == (q * p) * g
    <3>1. e \in Nat /\ k * g = e + b * g /\ q * rows = e /\ c \in Nat
      BY <1>1, <2>2, <2>3, <2>4
    <3> HIDE DEF e
    <3> QED
      BY <2>1, <3>1
  <2> QED
    BY <2>5 DEF r
<1>12. (k * g + c) \div rows = q /\ (k * g + c) % rows = r
  <2>1. q \in Nat
    BY <1>1, <1>6
  <2>2. (q * rows + r) \div rows = q /\ (q * rows + r) % rows = r
    BY <1>1, <1>8, <2>1, RowAndColumn
  <2> QED
    BY <1>11, <2>2
<1> QED
  BY <1>6, <1>9, <1>10, <1>12 DEF rows, g, n, p, q, b, r, x

\* The bodies are sums of exactly their products.
LEMMA BodiesAddUp ==
  ASSUME SplitInv, BodiesHold, Done, job.kind = "body",
         NEW qi \in DOMAIN bodies, NEW k \in DOMAIN bodies[qi], NEW c \in DOMAIN bodies[qi][k]
  PROVE  AddsUpOnce(bodies[qi][k][c],
                    Products((k * job.gamma + c) \div job.rowsOut, (k * job.gamma + c) % job.rowsOut, qi))
<1>1. job \in Jobs /\ AccShape
  BY DEF SplitInv
<1>2. bodies = BodiesOf
  BY DEF BodiesHold, Done
<1>3. DOMAIN bodies = 0 .. job.n - 1 /\ qi \in 0 .. job.n - 1
  BY <1>2 DEF BodiesOf
<1>4. DOMAIN bodies[qi] = 0 .. job.t - 1 /\ k \in 0 .. job.t - 1
  BY <1>2, <1>3 DEF BodiesOf
<1>5. DOMAIN bodies[qi][k] = 0 .. job.gamma - 1 /\ c \in 0 .. job.gamma - 1
  BY <1>2, <1>3, <1>4 DEF BodiesOf
<1> DEFINE perGroup == job.rowsOut \div job.gamma
           rg == k \div perGroup
           r == (k % perGroup) * job.gamma + c
           x == r * job.n + qi
           row == k * job.gamma + c
<1>6. bodies[qi][k][c] = acc[rg][x]
  BY <1>2, <1>3, <1>4, <1>5 DEF BodiesOf
<1>7. /\ rg \in 0 .. job.groups - 1
      /\ x \in 0 .. job.rowsOut * job.n - 1 /\ x \div job.n = r /\ x % job.n = qi
      /\ row \div job.rowsOut = rg /\ row % job.rowsOut = r
  BY <1>1, <1>3, <1>4, <1>5, RowOfBatch
<1> HIDE DEF rg, r, x, row
<1>8. acc[rg] = AccTo(rg, job.blocks)
  <2>1. rg \in DOMAIN acc
    BY <1>1, <1>7 DEF AccShape
  <2>2. acc[rg] = Sequential(rg)
    BY <2>1, SplitInvImplies DEF SplitKeepsBits
  <2> QED
    BY <1>1, <2>2, SequentialIs
<1>9. acc[rg][x] = UpTo(rg, x, job.blocks)
  BY <1>7, <1>8 DEF AccTo
<1>10. AddsUpOnce(UpTo(rg, x, job.blocks), Products(rg, x \div job.n, x % job.n))
  BY <1>1, <1>7, AllBlocksAddUp
<1>11. AddsUpOnce(bodies[qi][k][c], Products(row \div job.rowsOut, row % job.rowsOut, qi))
  BY <1>6, <1>7, <1>9, <1>10
<1> QED
  BY <1>11 DEF row

-----------------------------------------------------------------------------
(* Partial sums taken over whole *)

\* A sequence of n elements
OfLength(s, n) == s = [i \in 1 .. n |-> s[i]]

\* A sequence with an element more.
LEMMA AppendedIs ==
  ASSUME NEW n \in Nat, NEW s, OfLength(s, n), NEW r, OfLength(r, n + 1), \A i \in 1 .. n : r[i] = s[i]
  PROVE  Append(s, r[n + 1]) = r
<1> DEFINE e == r[n + 1]
           S == {r[i] : i \in 1 .. n + 1}
           a == Append(s, e)
<1>1. r \in [1 .. n + 1 -> S] /\ e \in S
  BY DEF OfLength
<1>2. s \in [1 .. n -> S]
  <2>1. \A i \in 1 .. n : s[i] \in S
    OBVIOUS
  <2> HIDE DEF S
  <2> QED
    BY <2>1 DEF OfLength
<1> HIDE DEF S, e
<1>3. s \in Seq(S) /\ Len(s) = n
  BY <1>2
<1>4. /\ a \in Seq(S) /\ Len(a) = n + 1 /\ a[n + 1] = e
      /\ \A i \in 1 .. n : a[i] = s[i]
  BY <1>1, <1>3, AppendProperties
<1> HIDE DEF a
<1>5. a \in [1 .. n + 1 -> S]
  <2>1. a \in [1 .. Len(a) -> S]
    BY <1>4
  <2> QED
    BY <1>4, <2>1
<1>6. \A i \in 1 .. n + 1 : a[i] = r[i]
  <2> SUFFICES ASSUME NEW i \in 1 .. n + 1 PROVE a[i] = r[i]
    OBVIOUS
  <2>1. CASE i = n + 1
    BY <1>4, <2>1 DEF e
  <2>2. CASE i # n + 1
    <3>1. i \in 1 .. n
      BY <2>2
    <3> QED
      BY <1>4, <3>1
  <2> QED
    BY <2>1, <2>2
<1>7. a = r
  BY <1>1, <1>5, <1>6
<1> QED
  BY <1>7 DEF a, e

\* A sequence r that has the m elements of s and then the n elements of t
Joins(r, s, m, t, n) ==
  /\ OfLength(s, m) /\ OfLength(t, n) /\ OfLength(r, m + n)
  /\ \A i \in 1 .. m : r[i] = s[i]
  /\ \A i \in 1 .. n : r[m + i] = t[i]

\* Two sequences, one after the other.
LEMMA JoinedIs ==
  ASSUME NEW m \in Nat, NEW n \in Nat, NEW s, NEW t, NEW r, Joins(r, s, m, t, n)
  PROVE  s \o t = r
<1> DEFINE S == {r[i] : i \in 1 .. m + n}
           a == s \o t
<1>0. /\ OfLength(s, m) /\ OfLength(t, n) /\ OfLength(r, m + n)
      /\ \A i \in 1 .. m : r[i] = s[i]
      /\ \A i \in 1 .. n : r[m + i] = t[i]
  BY DEF Joins
<1>1. r \in [1 .. m + n -> S]
  BY <1>0 DEF OfLength
<1>2. s \in [1 .. m -> S]
  <2>1. \A i \in 1 .. m : s[i] \in S
    BY <1>0
  <2> HIDE DEF S
  <2> QED
    BY <1>0, <2>1 DEF OfLength
<1>3. t \in [1 .. n -> S]
  <2>1. \A i \in 1 .. n : m + i \in 1 .. m + n
    OBVIOUS
  <2>2. \A i \in 1 .. n : t[i] \in S
    BY <1>0, <2>1
  <2> HIDE DEF S
  <2> QED
    BY <1>0, <2>2 DEF OfLength
<1> HIDE DEF S
<1>4. s \in Seq(S) /\ Len(s) = m /\ t \in Seq(S) /\ Len(t) = n
  BY <1>2, <1>3
<1>5. /\ a \in Seq(S) /\ Len(a) = m + n
      /\ \A i \in 1 .. m + n : a[i] = IF i <= m THEN s[i] ELSE t[i - m]
  <2>1. /\ a \in Seq(S) /\ Len(a) = Len(s) + Len(t)
        /\ \A i \in 1 .. Len(s) + Len(t) : a[i] = IF i <= Len(s) THEN s[i] ELSE t[i - Len(s)]
    BY <1>4, ConcatProperties
  <2> HIDE DEF a
  <2> QED
    BY <1>4, <2>1
<1> HIDE DEF a
<1>6. a \in [1 .. m + n -> S]
  <2>1. a \in [1 .. Len(a) -> S]
    BY <1>5
  <2> QED
    BY <1>5, <2>1
<1>7. \A i \in 1 .. m + n : a[i] = r[i]
  <2> SUFFICES ASSUME NEW i \in 1 .. m + n PROVE a[i] = r[i]
    OBVIOUS
  <2>1. CASE i <= m
    <3>1. i \in 1 .. m
      BY <2>1
    <3> QED
      BY <1>0, <1>5, <2>1, <3>1
  <2>2. CASE ~(i <= m)
    <3>1. i - m \in 1 .. n /\ m + (i - m) = i
      BY <2>2
    <3>2. r[m + (i - m)] = t[i - m]
      BY <1>0, <3>1
    <3> QED
      BY <1>5, <2>2, <3>1, <3>2
  <2> QED
    BY <2>1, <2>2
<1>8. a = r
  BY <1>1, <1>6, <1>7
<1> QED
  BY <1>8 DEF a

\* What a summand, or a partial sum taken over whole, is in the flattened number
Piece(e) == IF DOMAIN e = {"part"} THEN e.part ELSE <<e>>

\* The beginnings of a number, flattened
Flattens(g, number, m) ==
  /\ OfLength(number, m) /\ g[0] = << >>
  /\ \A i \in 0 .. m - 1 : g[i + 1] = g[i] \o Piece(number[i + 1])

\* A number flattened is the last of its beginnings flattened.
LEMMA FlatIs ==
  ASSUME NEW m \in Nat, NEW number, NEW g, Flattens(g, number, m)
  PROVE  Flat(number) = g[m]
<1> DEFINE Adds(b) == b = [i \in 0 .. Len(number) |->
                             IF i = 0 THEN << >>
                             ELSE b[i - 1] \o IF DOMAIN number[i] = {"part"} THEN number[i].part
                                              ELSE <<number[i]>>]
           flat == CHOOSE b : Adds(b)
           Grows(b) == b = [i \in 0 .. m |-> IF i = 0 THEN << >> ELSE b[i - 1] \o Piece(number[i])]
           h == [i \in 0 .. m |-> g[i]]
           S == {i \in 0 .. m : flat[i] = g[i]}
<1>1. Len(number) = m
  <2> DEFINE n == [i \in 1 .. m |-> number[i]]
  <2>1. Len(n) = m
    OBVIOUS
  <2>2. number = n
    BY DEF Flattens, OfLength
  <2> HIDE DEF n
  <2> QED
    BY <2>1, <2>2
<1>2. Flat(number) = flat[Len(number)]
  BY DEF Flat
<1>3. \A b : Grows(b) <=> Adds(b)
  BY <1>1 DEF Piece
<1> HIDE DEF Adds
<1>4. Grows(h)
  <2>1. \A i \in 0 .. m : h[i] = IF i = 0 THEN << >> ELSE h[i - 1] \o Piece(number[i])
    <3> SUFFICES ASSUME NEW i \in 0 .. m
                 PROVE  h[i] = IF i = 0 THEN << >> ELSE h[i - 1] \o Piece(number[i])
      OBVIOUS
    <3>1. CASE i = 0
      BY <3>1 DEF Flattens
    <3>2. CASE i # 0
      <4>1. i - 1 \in 0 .. m - 1 /\ i - 1 \in 0 .. m /\ (i - 1) + 1 = i
        BY <3>2
      <4>2. g[(i - 1) + 1] = g[i - 1] \o Piece(number[(i - 1) + 1])
        BY <4>1 DEF Flattens
      <4>3. g[i] = g[i - 1] \o Piece(number[i])
        BY <4>1, <4>2
      <4>4. h[i] = g[i] /\ h[i - 1] = g[i - 1]
        BY <4>1
      <4> QED
        BY <3>2, <4>3, <4>4
    <3> QED
      BY <3>1, <3>2
  <2>2. h = [i \in 0 .. m |-> h[i]]
    OBVIOUS
  <2> HIDE DEF h
  <2> QED
    BY <2>1, <2>2
<1>5. Grows(flat)
  <2>1. Adds(h)
    BY <1>3, <1>4
  <2> HIDE DEF h
  <2>2. Adds(flat)
    BY <2>1, Zenon
  <2> QED
    BY <1>3, <2>2
<1> HIDE DEF flat, h
<1>6. 0 \in S
  BY <1>5 DEF Flattens
<1>7. ASSUME NEW i \in 0 .. m - 1, i \in S
      PROVE  i + 1 \in S
  <2>1. i + 1 \in 0 .. m /\ i + 1 # 0 /\ (i + 1) - 1 = i
    OBVIOUS
  <2>2. flat[i + 1] = flat[i] \o Piece(number[i + 1])
    BY <1>5, <2>1
  <2>3. g[i + 1] = g[i] \o Piece(number[i + 1])
    BY DEF Flattens
  <2> QED
    BY <1>7, <2>1, <2>2, <2>3
<1>8. 0 .. m \subseteq S
  BY <1>6, <1>7, StepsReachAll
<1> QED
  BY <1>1, <1>2, <1>8

\* A summand of a mask product is not a partial sum, and stays as it is.
LEMMA MaskPiece ==
  ASSUME job.kind = "mask", NEW rg, NEW bc, NEW x
  PROVE  Piece(Summand(rg, bc, x)) = <<Summand(rg, bc, x)>>
<1>1. Summand(rg, bc, x) = DenseSummand(rg, bc, x)
  BY DEF Summand
<1>2. DOMAIN DenseSummand(rg, bc, x) = {"lanes", "tail"}
  BY DEF DenseSummand
<1>3. {"lanes", "tail"} # {"part"}
  <2>1. "lanes" \in {"lanes", "tail"} /\ "lanes" \notin {"part"}
    OBVIOUS
  <2> QED
    BY <2>1
<1> QED
  BY <1>1, <1>2, <1>3 DEF Piece

\* One summand more, as a sequence of one.
LEMMA UpToNext ==
  ASSUME NEW rg, NEW x, NEW b \in Nat
  PROVE  UpTo(rg, x, b) \o <<Summand(rg, b, x)>> = UpTo(rg, x, b + 1)
<1> DEFINE s == UpTo(rg, x, b)
           t == <<Summand(rg, b, x)>>
           r == UpTo(rg, x, b + 1)
<1>1. OfLength(s, b) /\ OfLength(r, b + 1)
  BY DEF OfLength, UpTo
<1>2. OfLength(t, 1) /\ t[1] = Summand(rg, b, x)
  BY DEF OfLength
<1>3. \A i \in 1 .. b : r[i] = s[i]
  BY DEF UpTo
<1>4. r[b + 1] = Summand(rg, b, x)
  BY DEF UpTo
<1> HIDE DEF s, t, r
<1>5. \A i \in 1 .. 1 : r[b + i] = t[i]
  BY <1>2, <1>4
<1>6. s \o t = r
  <2>1. Joins(r, s, b, t, 1)
    BY <1>1, <1>2, <1>3, <1>5 DEF Joins
  <2> QED
    BY <2>1, JoinedIs
<1> QED
  BY <1>6 DEF s, t, r

\* A number of a mask product without partial sums is flat.
LEMMA FlatUpTo ==
  ASSUME job.kind = "mask", NEW x, NEW m \in Nat
  PROVE  Flat(UpTo(0, x, m)) = UpTo(0, x, m)
<1> DEFINE g == [i \in 0 .. m |-> UpTo(0, x, i)]
           number == UpTo(0, x, m)
<1>1. OfLength(number, m)
  BY DEF OfLength, UpTo
<1>2. g[0] = << >>
  BY NextSummand
<1>3. ASSUME NEW i \in 0 .. m - 1
      PROVE  g[i + 1] = g[i] \o Piece(number[i + 1])
  <2>1. i \in Nat /\ i \in 0 .. m /\ i + 1 \in 0 .. m /\ i + 1 \in 1 .. m /\ (i + 1) - 1 = i
    OBVIOUS
  <2>2. number[i + 1] = Summand(0, i, x)
    BY <2>1 DEF UpTo
  <2>3. Piece(number[i + 1]) = <<Summand(0, i, x)>>
    BY <2>2, MaskPiece
  <2>4. UpTo(0, x, i) \o <<Summand(0, i, x)>> = UpTo(0, x, i + 1)
    BY <2>1, UpToNext
  <2>5. g[i] = UpTo(0, x, i) /\ g[i + 1] = UpTo(0, x, i + 1)
    BY <2>1
  <2> QED
    BY <2>3, <2>4, <2>5
<1>4. g[m] = number
  OBVIOUS
<1> HIDE DEF g, number
<1>5. Flattens(g, number, m)
  BY <1>1, <1>2, <1>3 DEF Flattens
<1>6. Flat(number) = g[m]
  BY <1>5, FlatIs
<1> QED
  BY <1>4, <1>6 DEF number

-----------------------------------------------------------------------------
(* Ranges of blocks *)

\* The first block of a thread, and how many it has
FirstBlock(w) == PartStart(job.blocks, BlockThreads, w)
BlocksOf(w) == PartLen(job.blocks, BlockThreads, w)

\* The partial sum of a thread at x, once it has added b of its blocks
RangeTo(w, x, b) == [i \in 1 .. b |-> Summand(0, FirstBlock(w) + (i - 1), x)]

\* The number at x with the partial sums of the first threads merged
Merged(x, threads) ==
  [i \in 1 .. BlocksOf(0) + threads - 1 |->
     IF i <= BlocksOf(0) THEN Summand(0, i - 1, x)
     ELSE [part |-> RangeTo(i - BlocksOf(0), x, BlocksOf(i - BlocksOf(0)))]]

\* The blocks of the threads follow one another, and together they are all.
LEMMA BlockRangesAre ==
  ASSUME job \in Jobs, job.kind = "mask", Axis = "blocks"
  PROVE  /\ BlockThreads \in Nat \ {0} /\ Workers = 0 .. BlockThreads - 1
         /\ FirstBlock(0) = 0 /\ FirstBlock(BlockThreads) = job.blocks
         /\ \A w \in Workers : /\ BlocksOf(w) \in Nat /\ FirstBlock(w) \in Nat
                               /\ FirstBlock(w + 1) = FirstBlock(w) + BlocksOf(w)
                               /\ Calls(w) = BlocksOf(w)
<1> DEFINE m == BlockThreads
           n == job.blocks
<1>1. n \in Nat \ {0} /\ job.threads \in Nat \ {0} /\ job.n \in Nat \ {0}
  BY JobIs
<1>2. MaskThreads \in Nat \ {0}
  BY <1>1 DEF MaskThreads, Clamp, Least, Most
<1>3. m \in Nat \ {0}
  BY <1>1, <1>2 DEF BlockThreads, Least
<1>4. Workers = 0 .. m - 1
  BY DEF Workers
<1>5. \A w : Calls(w) = BlocksOf(w)
  BY DEF Calls, BlocksOf
<1> HIDE DEF m, n
<1>6. \A w : FirstBlock(w) = PartStart(n, m, w) /\ BlocksOf(w) = PartLen(n, m, w)
  BY DEF FirstBlock, BlocksOf, m, n
<1>7. FirstBlock(0) = 0 /\ FirstBlock(m) = n
  BY <1>1, <1>3, <1>6, PartsEnds
<1>8. \A w \in 0 .. m - 1 : /\ BlocksOf(w) \in Nat /\ FirstBlock(w) \in Nat
                            /\ FirstBlock(w + 1) = FirstBlock(w) + BlocksOf(w)
  BY <1>1, <1>3, <1>6, NextPart
<1> QED
  BY <1>3, <1>4, <1>5, <1>7, <1>8 DEF m, n

\* A thread's next block.
LEMMA RangeNext ==
  ASSUME NEW w, NEW x, NEW b \in Nat
  PROVE  /\ Append(RangeTo(w, x, b), Summand(0, FirstBlock(w) + b, x)) = RangeTo(w, x, b + 1)
         /\ RangeTo(w, x, 0) = << >>
<1> DEFINE s == RangeTo(w, x, b)
           r == RangeTo(w, x, b + 1)
           e == Summand(0, FirstBlock(w) + b, x)
<1>1. OfLength(s, b) /\ OfLength(r, b + 1)
  BY DEF OfLength, RangeTo
<1>2. \A i \in 1 .. b : r[i] = s[i]
  BY DEF RangeTo
<1>3. r[b + 1] = e
  <2>1. b + 1 \in 1 .. b + 1 /\ (b + 1) - 1 = b
    OBVIOUS
  <2>2. r[b + 1] = Summand(0, FirstBlock(w) + ((b + 1) - 1), x)
    BY <2>1 DEF RangeTo
  <2> QED
    BY <2>1, <2>2
<1>4. RangeTo(w, x, 0) = << >>
  <2> DEFINE f == [i \in 1 .. 0 |-> Summand(0, FirstBlock(w) + (i - 1), x)]
             S == {f[i] : i \in 1 .. 0}
  <2>1. f \in [1 .. 0 -> S]
    OBVIOUS
  <2>2. RangeTo(w, x, 0) = f
    BY DEF RangeTo
  <2> HIDE DEF S, f
  <2>3. f \in Seq(S) /\ Len(f) = 0
    BY <2>1
  <2> QED
    BY <2>2, <2>3
<1> HIDE DEF s, r, e
<1>5. Append(s, r[b + 1]) = r
  BY <1>1, <1>2, AppendedIs
<1> QED
  BY <1>3, <1>4, <1>5 DEF s, r, e

\* The next thread's partial sum.
LEMMA MergedNext ==
  ASSUME NEW x, NEW threads \in Nat \ {0}, BlocksOf(0) \in Nat
  PROVE  /\ Append(Merged(x, threads), [part |-> RangeTo(threads, x, BlocksOf(threads))])
              = Merged(x, threads + 1)
         /\ FirstBlock(0) = 0 => RangeTo(0, x, BlocksOf(0)) = Merged(x, 1)
<1> DEFINE l == BlocksOf(0)
           n == l + threads - 1
           s == Merged(x, threads)
           r == Merged(x, threads + 1)
           at(i) == IF i <= l THEN Summand(0, i - 1, x) ELSE [part |-> RangeTo(i - l, x, BlocksOf(i - l))]
<1>1. n \in Nat /\ l + (threads + 1) - 1 = n + 1 /\ l \in Nat /\ n + 1 > l /\ (n + 1) - l = threads
  OBVIOUS
<1>2. s = [i \in 1 .. n |-> at(i)]
  BY DEF Merged
<1>3. r = [i \in 1 .. n + 1 |-> at(i)]
  <2>1. r = [i \in 1 .. l + (threads + 1) - 1 |-> at(i)]
    BY DEF Merged
  <2> HIDE DEF at, r, n, l
  <2> QED
    BY <1>1, <2>1
<1>4. at(n + 1) = [part |-> RangeTo(threads, x, BlocksOf(threads))]
  <2> HIDE DEF n
  <2> QED
    BY <1>1
<1>5. FirstBlock(0) = 0 => RangeTo(0, x, l) = Merged(x, 1)
  <2> SUFFICES ASSUME FirstBlock(0) = 0 PROVE RangeTo(0, x, l) = Merged(x, 1)
    OBVIOUS
  <2>1. RangeTo(0, x, l) = [i \in 1 .. l |-> Summand(0, 0 + (i - 1), x)]
    BY DEF RangeTo
  <2>2. Merged(x, 1) = [i \in 1 .. l + 1 - 1 |-> at(i)]
    BY DEF Merged
  <2>3. \A i \in 1 .. l : at(i) = Summand(0, 0 + (i - 1), x)
    <3> SUFFICES ASSUME NEW i \in 1 .. l PROVE at(i) = Summand(0, 0 + (i - 1), x)
      OBVIOUS
    <3>1. i <= l /\ 0 + (i - 1) = i - 1
      BY <1>1
    <3> QED
      BY <3>1
  <2>4. l + 1 - 1 = l
    BY <1>1
  <2> HIDE DEF at, l
  <2> QED
    BY <2>1, <2>2, <2>3, <2>4
<1> HIDE DEF n, s, r, at, l
<1>6. OfLength(s, n) /\ OfLength(r, n + 1) /\ \A i \in 1 .. n : r[i] = s[i]
  <2>1. \A i \in 1 .. n : r[i] = s[i]
    BY <1>1, <1>2, <1>3
  <2>2. OfLength(s, n)
    BY <1>2 DEF OfLength
  <2>3. OfLength(r, n + 1)
    BY <1>3 DEF OfLength
  <2> QED
    BY <2>1, <2>2, <2>3
<1>7. Append(s, r[n + 1]) = r
  BY <1>1, <1>6, AppendedIs
<1>8. r[n + 1] = at(n + 1)
  BY <1>1, <1>3
<1> QED
  BY <1>4, <1>5, <1>7, <1>8 DEF s, r, l

\* The blocks of the next thread follow those before them.
LEMMA RangeFollows ==
  ASSUME NEW w, NEW x, FirstBlock(w) \in Nat, BlocksOf(w) \in Nat
  PROVE  UpTo(0, x, FirstBlock(w)) \o RangeTo(w, x, BlocksOf(w)) = UpTo(0, x, FirstBlock(w) + BlocksOf(w))
<1> DEFINE a == FirstBlock(w)
           l == BlocksOf(w)
           s == UpTo(0, x, a)
           t == RangeTo(w, x, l)
           r == UpTo(0, x, a + l)
<1>1. a \in Nat /\ l \in Nat
  OBVIOUS
<1>2. OfLength(s, a) /\ OfLength(r, a + l) /\ OfLength(t, l)
  BY DEF OfLength, UpTo, RangeTo
<1>3. t = [i \in 1 .. l |-> Summand(0, a + (i - 1), x)]
  BY DEF RangeTo
<1> HIDE DEF a, l
<1>4. \A i \in 1 .. a : r[i] = s[i]
  BY <1>1 DEF UpTo
<1>5. ASSUME NEW i \in 1 .. l
      PROVE  r[a + i] = t[i]
  <2>1. a + i \in 1 .. a + l /\ (a + i) - 1 = a + (i - 1)
    BY <1>1
  <2>2. r[a + i] = Summand(0, (a + i) - 1, x)
    BY <2>1 DEF UpTo
  <2>3. t[i] = Summand(0, a + (i - 1), x)
    BY <1>3
  <2> QED
    BY <2>1, <2>2, <2>3
<1> HIDE DEF s, t, r
<1>6. s \o t = r
  <2>1. Joins(r, s, a, t, l)
    BY <1>2, <1>4, <1>5 DEF Joins
  <2> QED
    BY <1>1, <2>1, JoinedIs
<1> QED
  BY <1>6 DEF a, l, s, t, r

\* All partial sums merged are, flattened, the sum of all blocks in their order.
LEMMA FlatMerged ==
  ASSUME job \in Jobs, job.kind = "mask", Axis = "blocks", NEW x
  PROVE  Flat(Merged(x, BlockThreads)) = UpTo(0, x, job.blocks)
<1> DEFINE l == BlocksOf(0)
           k == BlockThreads
           m == l + k - 1
           number == Merged(x, k)
           at(i) == IF i <= l THEN i ELSE FirstBlock(i - l + 1)
           g == [i \in 0 .. m |-> UpTo(0, x, at(i))]
<1>1. /\ k \in Nat \ {0} /\ Workers = 0 .. k - 1
      /\ FirstBlock(0) = 0 /\ FirstBlock(k) = job.blocks
      /\ \A w \in 0 .. k - 1 : /\ BlocksOf(w) \in Nat /\ FirstBlock(w) \in Nat
                               /\ FirstBlock(w + 1) = FirstBlock(w) + BlocksOf(w)
  BY BlockRangesAre
<1> HIDE DEF k
<1>2. l \in Nat /\ FirstBlock(1) = l /\ m \in Nat
  <2>1. 0 \in 0 .. k - 1 /\ 0 + 1 = 1
    BY <1>1
  <2>2. BlocksOf(0) \in Nat /\ FirstBlock(0 + 1) = FirstBlock(0) + BlocksOf(0)
    BY <1>1, <2>1
  <2>3. l \in Nat /\ FirstBlock(1) = l
    BY <1>1, <2>1, <2>2
  <2> HIDE DEF l
  <2> QED
    BY <1>1, <2>3
<1>3. number = [i \in 1 .. m |-> IF i <= l THEN Summand(0, i - 1, x)
                                 ELSE [part |-> RangeTo(i - l, x, BlocksOf(i - l))]]
  BY DEF Merged
<1> HIDE DEF l, number
<1>4. OfLength(number, m)
  BY <1>3 DEF OfLength
<1>5. g[0] = << >>
  <2>1. at(0) = 0 /\ 0 \in 0 .. m
    BY <1>2
  <2> HIDE DEF m, at
  <2> QED
    BY <2>1, NextSummand
<1>6. ASSUME NEW i \in 0 .. m - 1
      PROVE  g[i + 1] = g[i] \o Piece(number[i + 1])
  <2>1. i \in Nat /\ i \in 0 .. m /\ i + 1 \in 0 .. m /\ i + 1 \in 1 .. m /\ (i + 1) - 1 = i
    BY <1>2
  <2>2. g[i] = UpTo(0, x, at(i)) /\ g[i + 1] = UpTo(0, x, at(i + 1))
    <3> HIDE DEF at, m
    <3> QED
      BY <2>1
  <2>3. CASE i < l
    <3>1. i <= l /\ i + 1 <= l
      BY <1>2, <2>1, <2>3
    <3>2. at(i) = i /\ at(i + 1) = i + 1
      BY <3>1
    <3>3. number[i + 1] = Summand(0, i, x)
      <4> HIDE DEF m
      <4>1. number[i + 1] = Summand(0, (i + 1) - 1, x)
        BY <1>3, <2>1, <3>1
      <4> QED
        BY <2>1, <4>1
    <3>4. Piece(number[i + 1]) = <<Summand(0, i, x)>>
      BY <3>3, MaskPiece
    <3>5. UpTo(0, x, i) \o <<Summand(0, i, x)>> = UpTo(0, x, i + 1)
      BY <2>1, UpToNext
    <3> HIDE DEF g, at, m
    <3> QED
      BY <2>2, <3>2, <3>4, <3>5
  <2>4. CASE ~(i < l)
    <3> DEFINE w == (i + 1) - l
    <3>1. /\ w \in 1 .. k - 1 /\ w \in 0 .. k - 1 /\ (i + 1) - l + 1 = w + 1 /\ ~(i + 1 <= l)
          /\ i # l => ~(i <= l) /\ i - l + 1 = w
          /\ i = l => w = 1 /\ i <= l
      BY <1>1, <1>2, <2>1, <2>4
    <3>2. at(i + 1) = FirstBlock(w + 1)
      BY <3>1
    <3>3. at(i) = FirstBlock(w)
      <4>1. CASE i = l
        BY <1>2, <3>1, <4>1
      <4>2. CASE i # l
        BY <3>1, <4>2
      <4> QED
        BY <4>1, <4>2
    <3>4. number[i + 1] = [part |-> RangeTo(w, x, BlocksOf(w))]
      <4>1. (i + 1) - l = w
        OBVIOUS
      <4> HIDE DEF m, w, at, g
      <4>2. number[i + 1] = [part |-> RangeTo((i + 1) - l, x, BlocksOf((i + 1) - l))]
        BY <1>3, <2>1, <3>1
      <4> QED
        BY <4>1, <4>2
    <3>5. Piece(number[i + 1]) = RangeTo(w, x, BlocksOf(w))
      <4> DEFINE e == [part |-> RangeTo(w, x, BlocksOf(w))]
      <4>1. DOMAIN e = {"part"} /\ e.part = RangeTo(w, x, BlocksOf(w))
        OBVIOUS
      <4> HIDE DEF e, w
      <4>2. Piece(e) = RangeTo(w, x, BlocksOf(w))
        BY <4>1 DEF Piece
      <4> QED
        BY <3>4, <4>2 DEF e
    <3> HIDE DEF w, at, m, g
    <3>6. FirstBlock(w) \in Nat /\ BlocksOf(w) \in Nat /\ FirstBlock(w + 1) = FirstBlock(w) + BlocksOf(w)
      BY <1>1, <3>1
    <3>7. UpTo(0, x, FirstBlock(w)) \o RangeTo(w, x, BlocksOf(w)) = UpTo(0, x, FirstBlock(w + 1))
      BY <3>6, RangeFollows
    <3> QED
      BY <2>2, <3>2, <3>3, <3>5, <3>7
  <2> QED
    BY <1>2, <2>1, <2>3, <2>4
<1>7. g[m] = UpTo(0, x, job.blocks)
  <2>1. at(m) = job.blocks
    <3>1. CASE k = 1
      <4>1. m = l
        BY <1>2, <3>1
      <4> QED
        BY <1>1, <1>2, <3>1, <4>1
    <3>2. CASE k # 1
      <4>1. ~(m <= l) /\ m - l + 1 = k
        BY <1>1, <1>2, <3>2
      <4> HIDE DEF m
      <4> QED
        BY <1>1, <4>1
    <3> QED
      BY <3>1, <3>2
  <2>2. m \in 0 .. m
    BY <1>2
  <2> HIDE DEF m, at
  <2> QED
    BY <2>1, <2>2
<1> HIDE DEF g, m
<1>8. Flattens(g, number, m)
  BY <1>4, <1>5, <1>6 DEF Flattens
<1>9. Flat(number) = g[m]
  BY <1>2, <1>8, FlatIs
<1> QED
  BY <1>7, <1>9 DEF number, k

\* Each thread's partial sum holds the blocks it has added.
RangesHold ==
  local = [w \in Workers |-> [x \in 0 .. job.rowsOut * job.n - 1 |-> RangeTo(w, x, turn[w])]]

\* The partial sums are merged when nothing is added any more, and the first of them are merged.
MergedHold ==
  joined # 0 =>
    /\ \A w \in Workers : Ended(w)
    /\ \A x \in 0 .. job.rowsOut * job.n - 1 : acc[0][x] = Merged(x, joined)

\* What holds while ranges of blocks are added and merged
BlocksInv ==
  job.kind = "mask" /\ Axis = "blocks" =>
    /\ RangesHold
    /\ \A w \in Workers : turn[w] <= Calls(w)
    /\ joined \in Nat
    /\ MergedHold

\* No block is added at first.
LEMMA BlocksInvInit == Init => BlocksInv
<1> SUFFICES ASSUME Init, job.kind = "mask", Axis = "blocks"
             PROVE  /\ RangesHold /\ joined \in Nat /\ MergedHold
                    /\ \A w \in Workers : turn[w] <= Calls(w)
  BY DEF BlocksInv
<1>1. /\ job \in Jobs /\ turn = [w \in Workers |-> 0] /\ joined = 0
      /\ local = [w \in Workers |-> Zeros(job.rowsOut * job.n)]
  BY DEF Init
<1>2. RangesHold
  <2>1. \A w, x : RangeTo(w, x, 0) = << >>
    BY RangeNext
  <2> DEFINE places == 0 .. job.rowsOut * job.n - 1
  <2>2. Zeros(job.rowsOut * job.n) = [x \in places |-> << >>]
    BY DEF Zeros
  <2>3. ASSUME NEW w \in Workers
        PROVE  Zeros(job.rowsOut * job.n) = [x \in places |-> RangeTo(w, x, turn[w])]
    <3>1. turn[w] = 0
      BY <1>1
    <3> HIDE DEF places
    <3> QED
      BY <2>1, <2>2, <3>1
  <2> DEFINE z == Zeros(job.rowsOut * job.n)
             range(w) == [x \in places |-> RangeTo(w, x, turn[w])]
  <2>4. local = [w \in Workers |-> range(w)]
    <3>1. \A w \in Workers : range(w) = z
      BY <2>3
    <3>2. local = [w \in Workers |-> z]
      BY <1>1
    <3> HIDE DEF z, range
    <3> QED
      BY <3>1, <3>2
  <2> QED
    BY <2>4 DEF RangesHold
<1>3. \A w \in Workers : turn[w] <= Calls(w)
  BY <1>1, BlockRangesAre
<1> QED
  BY <1>1, <1>2, <1>3 DEF MergedHold

\* The ranges of the threads belong to the job.
LEMMA SameRanges ==
  ASSUME job' = job
  PROVE  /\ BlockThreads' = BlockThreads
         /\ \A w, x, b : RangeTo(w, x, b)' = RangeTo(w, x, b)
         /\ \A x, k : Merged(x, k)' = Merged(x, k)
         /\ \A w : BlocksOf(w)' = BlocksOf(w) /\ FirstBlock(w)' = FirstBlock(w)
<1>1. MaskThreads' = MaskThreads
  BY DEF MaskThreads
<1>2. BlockThreads' = BlockThreads
  BY <1>1 DEF BlockThreads
<1>3. \A w : BlocksOf(w)' = BlocksOf(w) /\ FirstBlock(w)' = FirstBlock(w)
  BY <1>2 DEF BlocksOf, FirstBlock
<1>4. \A bc : RowsIn(bc)' = RowsIn(bc)
  BY DEF RowsIn
<1>5. \A bc : U(0, bc)' = U(0, bc)
  BY <1>4 DEF U
<1>6. \A bc : Rhs(bc)' = Rhs(bc)
  BY <1>4 DEF Rhs
<1>7. \A bc, x : DenseSummand(0, bc, x)' = DenseSummand(0, bc, x)
  BY <1>4, <1>5, <1>6 DEF DenseSummand
<1>8. \A bc, x : Summand(0, bc, x)' = Summand(0, bc, x)
  <2> SUFFICES ASSUME NEW bc, NEW x
               PROVE  Summand(0, bc, x)' = Summand(0, bc, x)
    OBVIOUS
  <2>1. RowsIn(bc)' = RowsIn(bc) /\ U(0, bc)' = U(0, bc) /\ Rhs(bc)' = Rhs(bc)
    BY <1>4, <1>5, <1>6
  <2>2. RowSum(U(0, bc), x * RowsIn(bc), Rhs(bc), RowsIn(bc))'
          = RowSum(U(0, bc), x * RowsIn(bc), Rhs(bc), RowsIn(bc))
    BY <2>1 DEF RowSum
  <2> QED
    BY <1>7, <2>1, <2>2 DEF Summand
<1>9. \A w, x, b : RangeTo(w, x, b)' = RangeTo(w, x, b)
  BY <1>3, <1>8 DEF RangeTo
<1>10. \A x, k : Merged(x, k)' = Merged(x, k)
  BY <1>3, <1>8, <1>9 DEF Merged
<1> QED
  BY <1>2, <1>3, <1>9, <1>10

\* A thread adds its next block to its partial sum.
LEMMA MaskStepAddsBlock ==
  ASSUME SplitInv, BlocksInv, NEW v \in Workers, MaskStep(v)
  PROVE  BlocksInv'
<1>1. /\ job.kind = "mask" /\ ~Ended(v) /\ turn' = [turn EXCEPT ![v] = @ + 1]
      /\ job' = job /\ acc' = acc /\ joined' = joined
  BY DEF MaskStep
<1>2. job \in Jobs /\ turn \in [Workers -> Nat]
  BY DEF SplitInv
<1>3. Workers' = Workers /\ Axis' = Axis /\ \A w : Calls(w)' = Calls(w)
  BY <1>1, SameJob
<1> SUFFICES ASSUME Axis = "blocks" PROVE BlocksInv'
  BY <1>3 DEF BlocksInv
<1> DEFINE places == 0 .. job.rowsOut * job.n - 1
           t == turn[v]
           bc == PartStart(job.blocks, BlockThreads, v) + t
           sum == GemmF64Add(local[v], U(0, bc), Rhs(bc), RowsIn(bc), job.n)
           range(w, b) == [x \in places |-> RangeTo(w, x, b)]
<1>4. RangesHold /\ joined \in Nat /\ MergedHold /\ \A w \in Workers : turn[w] <= Calls(w)
  BY <1>1 DEF BlocksInv
<1>5. local' = [local EXCEPT ![v] = sum]
  BY DEF MaskStep
<1>6. joined = 0
  BY <1>1, <1>4 DEF MergedHold
<1>7. t \in Nat /\ bc = FirstBlock(v) + t
  BY <1>2 DEF FirstBlock
<1>8. local = [w \in Workers |-> range(w, turn[w])]
  BY <1>4 DEF RangesHold
<1>9. sum = [x \in places |-> Append(local[v][x], Summand(0, bc, x))]
  <2>1. DOMAIN local[v] = places
    BY <1>8
  <2>2. \A x : Summand(0, bc, x) = DenseSummand(0, bc, x)
    BY <1>1 DEF Summand
  <2> HIDE DEF bc, places, range
  <2>3. sum = [x \in places |-> Append(local[v][x], DenseSummand(0, bc, x))]
    BY <2>1 DEF GemmF64Add, DenseSummand
  <2> QED
    BY <2>2, <2>3
<1>10. sum = range(v, t + 1)
  <2>1. \A x \in places : local[v][x] = RangeTo(v, x, t)
    BY <1>8
  <2>2. \A x : Append(RangeTo(v, x, t), Summand(0, FirstBlock(v) + t, x)) = RangeTo(v, x, t + 1)
    BY <1>7, RangeNext
  <2> HIDE DEF sum, places, t, bc
  <2>3. \A x \in places : Append(local[v][x], Summand(0, bc, x)) = RangeTo(v, x, t + 1)
    BY <1>7, <2>1, <2>2
  <2> QED
    BY <1>9, <2>3
<1>11. turn'[v] = t + 1 /\ \A w \in Workers : w # v => turn'[w] = turn[w]
  BY <1>1, <1>2
<1>12. local' = [w \in Workers |-> range(w, turn'[w])]
  <2> HIDE DEF range, sum, t
  <2>1. \A w \in Workers : range(w, turn'[w]) = IF w = v THEN sum ELSE local[w]
    BY <1>8, <1>10, <1>11
  <2> QED
    BY <1>5, <1>8, <2>1
<1>13. RangesHold'
  BY <1>1, <1>3, <1>12, SameRanges DEF RangesHold
<1>14. \A w \in Workers : turn'[w] <= Calls(w)
  <2>1. Calls(v) \in Nat
    BY <1>1, <1>2, BlockRangesAre
  <2>2. t <= Calls(v) /\ t # Calls(v)
    BY <1>1, <1>4 DEF Ended
  <2> HIDE DEF t
  <2>3. t + 1 <= Calls(v)
    BY <1>7, <2>1, <2>2
  <2> QED
    BY <1>4, <1>11, <2>3
<1>15. MergedHold'
  BY <1>1, <1>6 DEF MergedHold
<1> QED
  BY <1>1, <1>3, <1>4, <1>13, <1>14, <1>15 DEF BlocksInv

\* The next partial sum is merged, the first as it is.
LEMMA ReduceBlocksMerges ==
  ASSUME SplitInv, BlocksInv, ReduceBlocks
  PROVE  BlocksInv'
<1> DEFINE places == 0 .. job.rowsOut * job.n - 1
<1>1. /\ job.kind = "mask" /\ Axis = "blocks" /\ job' = job /\ turn' = turn /\ local' = local
      /\ joined \in Workers /\ \A w \in Workers : Ended(w)
      /\ joined' = joined + 1
      /\ acc' = [acc EXCEPT ![0] =
           [x \in DOMAIN @ |-> IF joined = 0 THEN local[0][x]
                               ELSE Append(@[x], [part |-> local[joined][x]])]]
  BY DEF ReduceBlocks
<1>2. job \in Jobs /\ turn \in [Workers -> Nat] /\ AccShape
  BY DEF SplitInv
<1>3. /\ BlockThreads \in Nat \ {0} /\ Workers = 0 .. BlockThreads - 1 /\ FirstBlock(0) = 0
      /\ \A w \in Workers : BlocksOf(w) \in Nat /\ Calls(w) = BlocksOf(w)
  BY <1>1, <1>2, BlockRangesAre
<1>4. RangesHold /\ joined \in Nat /\ MergedHold /\ \A w \in Workers : turn[w] <= Calls(w)
  BY <1>1 DEF BlocksInv
<1>5. DOMAIN acc[0] = places /\ 0 \in DOMAIN acc
  <2>1. 0 \in 0 .. job.groups - 1
    BY <1>1, <1>2, JobIs
  <2> QED
    BY <1>2, <2>1 DEF AccShape
<1>6. \A w \in Workers : \A x \in places : local[w][x] = RangeTo(w, x, BlocksOf(w))
  BY <1>1, <1>3, <1>4 DEF RangesHold, Ended
<1>7. 0 \in Workers /\ BlocksOf(0) \in Nat
  BY <1>3
<1>8. ASSUME NEW x \in places
      PROVE  acc'[0][x] = Merged(x, joined + 1)
  <2>1. acc'[0][x] = IF joined = 0 THEN local[0][x] ELSE Append(acc[0][x], [part |-> local[joined][x]])
    BY <1>1, <1>5
  <2> HIDE DEF places
  <2>2. CASE joined = 0
    <3>1. acc'[0][x] = RangeTo(0, x, BlocksOf(0))
      BY <1>6, <1>7, <2>1, <2>2
    <3>2. RangeTo(0, x, BlocksOf(0)) = Merged(x, 1)
      <4>1. 1 \in Nat \ {0}
        OBVIOUS
      <4> QED
        BY <1>3, <1>7, <4>1, MergedNext
    <3>3. joined + 1 = 1
      BY <2>2
    <3> QED
      BY <3>1, <3>2, <3>3
  <2>3. CASE joined # 0
    <3>1. acc[0][x] = Merged(x, joined)
      BY <1>4, <2>3 DEF MergedHold, places
    <3>2. local[joined][x] = RangeTo(joined, x, BlocksOf(joined))
      BY <1>1, <1>6
    <3>3. Append(Merged(x, joined), [part |-> RangeTo(joined, x, BlocksOf(joined))]) = Merged(x, joined + 1)
      <4>1. joined \in Nat \ {0}
        BY <1>4, <2>3
      <4> QED
        BY <1>7, <4>1, MergedNext
    <3> QED
      BY <2>1, <2>3, <3>1, <3>2, <3>3
  <2> QED
    BY <2>2, <2>3
<1>9. /\ Workers' = Workers /\ Axis' = Axis /\ \A w : Calls(w)' = Calls(w)
      /\ \A w, x, b : RangeTo(w, x, b)' = RangeTo(w, x, b)
      /\ \A x, k : Merged(x, k)' = Merged(x, k)
  BY <1>1, SameJob, SameRanges
<1>10. RangesHold'
  BY <1>1, <1>4, <1>9 DEF RangesHold
<1>11. MergedHold'
  <2>1. \A w \in Workers : Ended(w)'
    BY <1>1, <1>9 DEF Ended
  <2>2. \A x \in places : acc'[0][x] = Merged(x, joined')
    BY <1>1, <1>8
  <2> QED
    BY <1>1, <1>9, <2>1, <2>2 DEF MergedHold
<1>12. joined' \in Nat /\ \A w \in Workers : turn'[w] <= Calls(w)
  BY <1>1, <1>4
<1> QED
  BY <1>9, <1>10, <1>11, <1>12 DEF BlocksInv

\* Every step keeps the ranges.
LEMMA BlocksInvStep ==
  ASSUME SplitInv, BlocksInv, [Next]_vars
  PROVE  BlocksInv'
<1>1. ASSUME job' = job, ~(job.kind = "mask" /\ Axis = "blocks") PROVE BlocksInv'
  <2>1. Axis' = Axis
    BY <1>1, SameJob
  <2> QED
    BY <1>1, <2>1 DEF BlocksInv
<1>2. ASSUME NEW w \in Workers, BodyTile(w) PROVE BlocksInv'
  BY <1>1, <1>2 DEF BodyTile
<1>3. ASSUME NEW w \in Workers, MaskStep(w) PROVE BlocksInv'
  BY <1>3, MaskStepAddsBlock
<1>4. CASE JoinStrip
  BY <1>1, <1>4 DEF JoinStrip
<1>5. CASE ReduceBlocks
  BY <1>5, ReduceBlocksMerges
<1>6. CASE SplitBodies
  BY <1>1, <1>6 DEF SplitBodies
<1>7. CASE UNCHANGED vars
  <2>1. job' = job /\ turn' = turn /\ acc' = acc /\ local' = local /\ joined' = joined
    BY <1>7 DEF vars
  <2>2. /\ Workers' = Workers /\ Axis' = Axis /\ \A w : Calls(w)' = Calls(w)
        /\ \A w, x, b : RangeTo(w, x, b)' = RangeTo(w, x, b)
        /\ \A x, k : Merged(x, k)' = Merged(x, k)
    BY <2>1, SameJob, SameRanges
  <2>3. RangesHold' <=> RangesHold
    BY <2>1, <2>2 DEF RangesHold
  <2>4. MergedHold' <=> MergedHold
    BY <2>1, <2>2 DEF MergedHold, Ended
  <2> QED
    BY <2>1, <2>2, <2>3, <2>4 DEF BlocksInv
<1> QED
  BY <1>2, <1>3, <1>4, <1>5, <1>6, <1>7 DEF Next

\* The numbers of a mask product are sums of exactly their products.
LEMMA MaskAddsUp ==
  ASSUME SplitInv, BlocksInv, Done, job.kind = "mask", NEW x \in DOMAIN acc[0]
  PROVE  AddsUpOnce(Flat(acc[0][x]), Products(0, x \div job.n, x % job.n))
<1>1. job \in Jobs /\ AccShape
  BY DEF SplitInv
<1>2. 0 \in DOMAIN acc /\ x \in 0 .. job.rowsOut * job.n - 1
  <2>1. 0 \in 0 .. job.groups - 1
    BY <1>1, JobIs
  <2> QED
    BY <1>1, <2>1 DEF AccShape
<1>3. Flat(acc[0][x]) = UpTo(0, x, job.blocks)
  <2>1. CASE Axis = "blocks"
    <3>1. BlockThreads \in Nat \ {0} /\ Workers = 0 .. BlockThreads - 1
      BY <1>1, <2>1, BlockRangesAre
    <3>2. joined = BlockThreads
      <4>1. /\ 0 \in Int /\ BlockThreads - 1 \in Int /\ ~(0 > BlockThreads - 1)
            /\ (BlockThreads - 1) - 0 + 1 = BlockThreads
        BY <3>1
      <4>2. Cardinality(0 .. BlockThreads - 1) = BlockThreads
        BY <4>1, FS_Interval
      <4> QED
        BY <3>1, <4>2 DEF Done
    <3>3. acc[0][x] = Merged(x, BlockThreads)
      BY <1>2, <2>1, <3>1, <3>2 DEF BlocksInv, MergedHold
    <3> QED
      BY <1>1, <2>1, <3>3, FlatMerged
  <2>2. CASE Axis # "blocks"
    <3>1. acc[0] = Sequential(0)
      BY <1>2, <2>2, SplitInvImplies DEF SplitKeepsBits
    <3>2. acc[0][x] = UpTo(0, x, job.blocks)
      BY <1>1, <1>2, <3>1, SequentialIs DEF AccTo
    <3>3. job.blocks \in Nat
      BY <1>1, JobIs
    <3> QED
      BY <3>2, <3>3, FlatUpTo
  <2> QED
    BY <2>1, <2>2
<1> QED
  BY <1>1, <1>2, <1>3, AllBlocksAddUp

\* However the work is split, also by ranges of blocks, every number of the result is the sum of
\* exactly its products, each added once (body_product_acc_parallel and mask_product_acc, common.rs).
THEOREM ProductsAddedOnce == Spec => []EachProductOnce
<1> DEFINE Inv == SplitInv /\ BodiesHold /\ BlocksInv
<1>1. Init => Inv
  BY SplitInvInit, BodiesHoldInit, BlocksInvInit
<1>2. Inv /\ [Next]_vars => Inv'
  BY SplitInvStep, BodiesHoldStep, BlocksInvStep
<1>3. Inv => EachProductOnce
  <2> SUFFICES ASSUME Inv, Done
               PROVE  IF job.kind = "body"
                      THEN \A qi \in DOMAIN bodies : \A k \in DOMAIN bodies[qi] : \A c \in DOMAIN bodies[qi][k] :
                             LET row == k * job.gamma + c
                             IN AddsUpOnce(bodies[qi][k][c],
                                           Products(row \div job.rowsOut, row % job.rowsOut, qi))
                      ELSE \A x \in DOMAIN acc[0] :
                             AddsUpOnce(Flat(acc[0][x]), Products(0, x \div job.n, x % job.n))
    BY DEF EachProductOnce
  <2>1. CASE job.kind = "body"
    BY <2>1, BodiesAddUp
  <2>2. CASE job.kind # "body"
    <3>1. job.kind = "mask"
      BY <2>2, JobIs DEF SplitInv
    <3> QED
      BY <2>2, <3>1, MaskAddsUp
  <2> QED
    BY <2>1, <2>2
<1> QED
  BY <1>1, <1>2, <1>3, PTL DEF Spec

-----------------------------------------------------------------------------
(* A batch of queries: chunks, shares of workers, slabs of arenas *)

\* Quotient and rest, by a number that is not zero
LEMMA Dividing ==
  ASSUME NEW c \in Nat, NEW p \in Nat, p > 0
  PROVE  /\ c \div p \in Nat /\ c % p \in Nat
         /\ c % p < p
         /\ c = p * (c \div p) + (c % p)
<1> DEFINE x == c \div p
           y == c % p
<1>1. p \in Nat \ {0}
  OBVIOUS
<1>2. x \in Nat /\ y \in 0 .. p - 1 /\ c = p * x + y
  BY <1>1, Quotient
<1> HIDE DEF x, y
<1>3. y \in Nat /\ y < p
  BY <1>1, <1>2
<1> QED
  BY <1>2, <1>3 DEF x, y

\* Where the w-th of the shares begins: the first r shares have b + 1, the others b.
ShareStart(b, r, w) == w * b + Min(w, r)
ShareSize(b, r, w) == b + (IF w < r THEN 1 ELSE 0)

\* A share ends within the chunk.
LEMMA ShareInChunk ==
  ASSUME NEW p \in Nat, NEW b \in Nat, NEW r \in Nat, r < p,
         NEW w \in 0 .. p - 1, NEW i \in 1 .. ShareSize(b, r, w)
  PROVE  ShareStart(b, r, w) + i \in 1 .. p * b + r
<1>1. w \in Nat /\ i \in Nat /\ i >= 1
  BY DEF ShareSize
<1>2. w * b \in Nat /\ (w + 1) * b = w * b + b /\ (w + 1) * b <= p * b /\ p * b \in Nat
  <2>1. w + 1 \in Nat /\ w + 1 <= p
    BY <1>1
  <2>2. (w + 1) * b <= p * b /\ p * b \in Nat
    BY <2>1, ProductMonotone
  <2>3. w * b \in Nat
    BY <1>1, ProductMonotone
  <2>4. (w + 1) * b = w * b + b
    BY <1>1, SMT
  <2> QED
    BY <2>2, <2>3, <2>4
<1>3. CASE w < r
  <2>1. ShareStart(b, r, w) = w * b + w /\ i <= b + 1
    BY <1>3, <1>1 DEF ShareStart, ShareSize, Min
  <2> QED
    BY <1>1, <1>2, <1>3, <2>1
<1>4. CASE ~(w < r)
  <2>1. ShareStart(b, r, w) = w * b + r /\ i <= b
    BY <1>4, <1>1 DEF ShareStart, ShareSize, Min
  <2> QED
    BY <1>1, <1>2, <1>4, <2>1
<1> QED
  BY <1>3, <1>4

Covered(p, b, r, j) ==
  \E w \in 0 .. p - 1 : \E i \in 1 .. ShareSize(b, r, w) : ShareStart(b, r, w) + i = j

\* Every place of the chunk is in a share.
LEMMA SharesCover ==
  ASSUME NEW p \in Nat, NEW b \in Nat, NEW r \in Nat, r < p,
         NEW j \in 1 .. p * b + r
  PROVE  Covered(p, b, r, j)
<1>0. j \in Nat /\ j >= 1 /\ p * b \in Nat /\ r * b \in Nat /\ j <= p * b + r
  <2>1. p * b \in Nat /\ r * b \in Nat
    BY ProductMonotone
  <2> QED
    BY <2>1
<1>1. CASE j <= r * b + r
  <2> DEFINE w == (j - 1) \div (b + 1)
             i == ((j - 1) % (b + 1)) + 1
  <2>1. w \in Nat /\ i \in 1 .. b + 1 /\ j - 1 = (b + 1) * w + (i - 1)
    BY <1>0, Dividing
  <2> HIDE DEF w, i
  <2>2. (b + 1) * w = w * b + w /\ w * b \in Nat
    BY <2>1, SMT
  <2>3. w < r
    <3> SUFFICES ASSUME r <= w PROVE FALSE
      BY <2>1
    <3>1. r * b <= w * b
      BY <2>1, ProductMonotone
    <3> QED
      BY <1>0, <1>1, <2>1, <2>2, <3>1
  <2>4. w \in 0 .. p - 1 /\ i \in 1 .. ShareSize(b, r, w)
    BY <2>1, <2>3 DEF ShareSize
  <2>5. ShareStart(b, r, w) + i = j
    BY <1>0, <2>1, <2>2, <2>3 DEF ShareStart, Min
  <2> QED
    BY <2>4, <2>5 DEF Covered
<1>2. CASE j > r * b + r
  <2> DEFINE d == j - 1 - (r * b + r)
             k == d \div b
             w == r + k
             i == (d % b) + 1
  <2>1. b > 0
    <3> SUFFICES ASSUME b = 0 PROVE FALSE
      OBVIOUS
    <3>1. p * b = 0 /\ r * b = 0
      BY SMT
    <3> QED
      BY <1>0, <1>2, <3>1
  <2>2. d \in Nat
    BY <1>0, <1>2
  <2>3. k \in Nat /\ i \in 1 .. b /\ d = b * k + (i - 1)
    <3> HIDE DEF d
    <3> QED
      BY <2>1, <2>2, Dividing
  <2>4. d = j - 1 - (r * b + r)
    OBVIOUS
  <2> HIDE DEF d, k, i
  <2>5. w * b = r * b + b * k /\ w \in Nat
    BY <2>3, SMT
  <2>6. w < p
    <3> SUFFICES ASSUME p <= w PROVE FALSE
      BY <2>5
    <3>1. p * b <= w * b
      BY <2>5, ProductMonotone
    <3> QED
      BY <1>0, <2>3, <2>4, <2>5, <3>1
  <2>7. w \in 0 .. p - 1 /\ i \in 1 .. ShareSize(b, r, w)
    BY <2>3, <2>5, <2>6 DEF ShareSize
  <2>8. ShareStart(b, r, w) + i = j
    BY <1>0, <2>3, <2>4, <2>5 DEF ShareStart, Min
  <2> QED
    BY <2>7, <2>8 DEF Covered
<1> QED
  BY <1>0, <1>1, <1>2

\* A function on an initial segment is a sequence; sequences joined are one.
LEMMA FunctionIsSeq ==
  ASSUME NEW T, NEW n \in Nat, NEW f \in [1 .. n -> T]
  PROVE  f \in Seq(T) /\ Len(f) = n
OBVIOUS

LEMMA JoinedSeq ==
  ASSUME NEW T, NEW s \in Seq(T), NEW t \in Seq(T)
  PROVE  /\ s \o t \in Seq(T) /\ Len(s \o t) = Len(s) + Len(t)
         /\ \A k \in 1 .. Len(s) : (s \o t)[k] = s[k]
         /\ \A k \in 1 .. Len(t) : (s \o t)[Len(s) + k] = t[k]
OBVIOUS

-----------------------------------------------------------------------------
(* The invariant *)

\* The answer that belongs at place k of the batch
Own(k) == [query |-> k, bodies |-> k]

\* What is collected is in order, a call that runs has more to do, and the pool is
\* either in the server or with the call.
CallProgress ==
  /\ {pool, taken, batch, panics} \subseteq Nat
  /\ phase \in {"idle", "select", "finish"}
  /\ responses \in Seq([query : Nat, bodies : Nat])
  /\ \A k \in DOMAIN responses : responses[k] = Own(k)
  /\ phase = "idle" => Len(responses) = batch
  /\ phase # "idle" => Len(responses) < batch
  /\ phase # "finish" => taken = 0

\* Inside the scope the slots a worker has passed are filled, and a filled slot
\* holds the answer that belongs there.
ScopeProgress ==
  phase = "finish" =>
    /\ pool = 0 /\ PoolNeeded <= taken
    /\ slots \in [1 .. Chunk -> [query : Nat, bodies : Nat]]
    /\ \A j \in 1 .. Chunk : slots[j] \in {Empty, Own(Offset + j)}
    /\ answered \in [ScopeWorkers -> Nat]
    /\ \A w \in ScopeWorkers : answered[w] <= Count(w)
    /\ \A w \in ScopeWorkers : \A i \in 1 .. answered[w] : slots[Split(w) + i] # Empty
    /\ stopped \subseteq ScopeWorkers

BatchIInv == CallProgress /\ ScopeProgress

\* The sizes of a chunk's shares, and the budget they keep to.
LEMMA Sizes ==
  ASSUME CallProgress, phase # "idle"
  PROVE  /\ Offset \in Nat /\ Chunk \in Nat /\ Chunk >= 1 /\ Offset + Chunk <= batch
         /\ ThreadsPerQuery \in Nat /\ ThreadsPerQuery >= 1
         /\ ParallelQueries \in Nat /\ ParallelQueries >= 1
         /\ PoolNeeded \in Nat /\ PoolNeeded <= Cores
<1>1. Offset \in Nat /\ batch \in Nat /\ Offset < batch
  BY DEF CallProgress, Offset
<1>2. ChunkLen \in Nat /\ ChunkLen >= 1
  BY <1>1, BatchAssumption DEF ChunkLen, Min, Max
<1>3. Chunk \in Nat /\ Chunk >= 1 /\ Offset + Chunk <= batch
  BY <1>1, <1>2 DEF Chunk, Min
<1>4. Cores \in Nat /\ Cores >= 1
  BY BatchAssumption
<1>5. Cores \div Chunk \in Nat /\ Cores \div Chunk <= Cores
  <2>1. /\ Cores \div Chunk \in Nat /\ Cores % Chunk \in Nat
        /\ Cores = Chunk * (Cores \div Chunk) + (Cores % Chunk)
    BY <1>3, <1>4, Dividing
  <2>2. 1 * (Cores \div Chunk) <= Chunk * (Cores \div Chunk)
        /\ Chunk * (Cores \div Chunk) \in Nat
    BY <1>3, <2>1, ProductMonotone
  <2> QED
    BY <1>4, <2>1, <2>2
<1>6. ThreadsPerQuery \in Nat /\ ThreadsPerQuery >= 1 /\ ThreadsPerQuery <= Cores
  BY <1>4, <1>5 DEF ThreadsPerQuery, Max
<1>7. /\ Cores \div ThreadsPerQuery \in Nat
      /\ ThreadsPerQuery * (Cores \div ThreadsPerQuery) <= Cores
      /\ Cores < ThreadsPerQuery * (Cores \div ThreadsPerQuery) + ThreadsPerQuery
      /\ ThreadsPerQuery * (Cores \div ThreadsPerQuery)
           = (Cores \div ThreadsPerQuery) * ThreadsPerQuery
  <2> HIDE DEF ThreadsPerQuery
  <2>1. /\ Cores \div ThreadsPerQuery \in Nat /\ Cores % ThreadsPerQuery \in Nat
        /\ Cores % ThreadsPerQuery < ThreadsPerQuery
        /\ Cores = ThreadsPerQuery * (Cores \div ThreadsPerQuery) + (Cores % ThreadsPerQuery)
    BY <1>4, <1>6, Dividing
  <2> QED
    BY <1>4, <1>6, <2>1, SMT
<1>8. Cores \div ThreadsPerQuery >= 1
  <2> SUFFICES ASSUME Cores \div ThreadsPerQuery = 0 PROVE FALSE
    BY <1>7
  <2>1. ThreadsPerQuery * 0 = 0
    BY <1>6
  <2> QED
    BY <1>4, <1>6, <1>7, <2>1
<1>9. ParallelQueries \in Nat /\ ParallelQueries >= 1
      /\ ParallelQueries <= Cores \div ThreadsPerQuery
  BY <1>3, <1>7, <1>8 DEF ParallelQueries, Min, Max
<1>10. PoolNeeded \in Nat /\ PoolNeeded <= Cores
  <2>1. /\ ParallelQueries * ThreadsPerQuery \in Nat
        /\ ParallelQueries * ThreadsPerQuery
             <= (Cores \div ThreadsPerQuery) * ThreadsPerQuery
        /\ (Cores \div ThreadsPerQuery) * ThreadsPerQuery \in Nat
    BY <1>6, <1>7, <1>9, ProductMonotone
  <2> QED
    BY <1>4, <1>7, <2>1 DEF PoolNeeded
<1> QED
  BY <1>1, <1>3, <1>6, <1>9, <1>10

\* The shares of the workers lie in the chunk, and are all of it.
LEMMA Deal ==
  ASSUME CallProgress, phase # "idle"
  PROVE  /\ \A w \in ScopeWorkers : Split(w) \in Nat /\ Count(w) \in Nat /\ First(w) = Split(w)
         /\ \A w \in ScopeWorkers : \A i \in 1 .. Count(w) : Split(w) + i \in 1 .. Chunk
         /\ \A j \in 1 .. Chunk : \E w \in ScopeWorkers : \E i \in 1 .. Count(w) : Split(w) + i = j
<1> DEFINE p == ParallelQueries
           b == Chunk \div ParallelQueries
           r == Chunk % ParallelQueries
<1>1. Chunk \in Nat /\ p \in Nat /\ p >= 1
  BY Sizes
<1>2. b \in Nat /\ r \in Nat /\ r < p /\ Chunk = p * b + r
  BY <1>1, Dividing
<1>3. ASSUME NEW w \in ScopeWorkers
      PROVE  /\ Split(w) = ShareStart(b, r, w) /\ First(w) = Split(w)
             /\ Count(w) = ShareSize(b, r, w)
             /\ Split(w) \in Nat /\ Count(w) \in Nat
  <2>1. w \in Nat
    BY <1>1 DEF ScopeWorkers
  <2>2. w * b \in Nat
    BY <1>2, <2>1, ProductMonotone
  <2> QED
    BY <1>2, <2>1, <2>2 DEF Split, First, Count, ShareStart, ShareSize, Min
<1>4. ScopeWorkers = 0 .. p - 1
  BY DEF ScopeWorkers
<1> HIDE DEF p, b, r
<1>5. ASSUME NEW w \in ScopeWorkers, NEW i \in 1 .. Count(w) PROVE Split(w) + i \in 1 .. Chunk
  BY <1>1, <1>2, <1>3, <1>4, ShareInChunk
<1>6. ASSUME NEW j \in 1 .. Chunk
      PROVE  \E w \in ScopeWorkers : \E i \in 1 .. Count(w) : Split(w) + i = j
  <2>1. j \in 1 .. p * b + r
    BY <1>2
  <2>2. Covered(p, b, r, j)
    BY <1>1, <1>2, <2>1, SharesCover
  <2> QED
    BY <1>3, <1>4, <2>2 DEF Covered
<1> QED
  BY <1>3, <1>5, <1>6

-----------------------------------------------------------------------------
LEMMA InitIInv == BatchInit => BatchIInv
BY BatchAssumption DEF BatchInit, BatchIInv, CallProgress, ScopeProgress

LEMMA CallIInv ==
  ASSUME BatchIInv, NEW n \in 1 .. MaxBatch, Call(n)
  PROVE  BatchIInv'
BY BatchAssumption DEF BatchIInv, CallProgress, ScopeProgress, Call

LEMMA SelectBodiesIInv ==
  ASSUME BatchIInv, SelectBodies
  PROVE  BatchIInv'
<1>1. /\ Chunk' = Chunk /\ PoolNeeded' = PoolNeeded /\ ScopeWorkers' = ScopeWorkers
      /\ Offset' = Offset /\ \A w : Count(w)' = Count(w)
  BY DEF SelectBodies, Chunk, ChunkLen, Offset, PoolNeeded, ParallelQueries,
         ThreadsPerQuery, ScopeWorkers, Count
<1>2. PoolNeeded \in Nat
  BY Sizes DEF BatchIInv, SelectBodies
<1>3. \A w \in ScopeWorkers : Count(w) \in Nat
  BY Deal DEF BatchIInv, SelectBodies
<1>4. CallProgress'
  BY <1>2 DEF BatchIInv, CallProgress, SelectBodies, Max
<1>5. ScopeProgress'
  <2>1. pool' = 0 /\ PoolNeeded <= taken'
    BY <1>2 DEF BatchIInv, CallProgress, SelectBodies, Max
  <2>2. slots' = [q \in 1 .. Chunk |-> Empty] /\ answered' = [w \in ScopeWorkers |-> 0]
        /\ stopped' = {}
    BY DEF SelectBodies
  <2>3. Empty \in [query : Nat, bodies : Nat]
    BY DEF Empty
  <2>4. \A w \in ScopeWorkers : 1 .. answered'[w] = {}
    BY <2>2
  <2> QED
    BY <1>1, <1>3, <2>1, <2>2, <2>3, <2>4 DEF ScopeProgress
<1> QED
  BY <1>4, <1>5 DEF BatchIInv

LEMMA FinishQueryIInv ==
  ASSUME BatchIInv, NEW w \in DOMAIN answered, FinishQuery(w)
  PROVE  BatchIInv'
<1> DEFINE i == answered[w] + 1
           j == Split(w) + i
<1>0. phase = "finish" /\ CallProgress /\ ScopeProgress
  BY DEF BatchIInv, FinishQuery
<1>1. /\ Chunk' = Chunk /\ PoolNeeded' = PoolNeeded /\ ScopeWorkers' = ScopeWorkers
      /\ Offset' = Offset /\ \A v : Count(v)' = Count(v) /\ Split(v)' = Split(v)
  BY DEF FinishQuery, Chunk, ChunkLen, Offset, PoolNeeded, ParallelQueries,
         ThreadsPerQuery, ScopeWorkers, Count, Split
<1>2. w \in ScopeWorkers /\ answered[w] \in Nat /\ answered[w] < Count(w)
      /\ Count(w) \in Nat /\ Split(w) \in Nat /\ First(w) = Split(w) /\ Offset \in Nat
  BY <1>0, Deal, Sizes DEF ScopeProgress, FinishQuery, Busy
<1>3. i \in 1 .. Count(w) /\ j \in 1 .. Chunk /\ Offset + First(w) + i = Offset + j
      /\ Offset + Split(w) + i = Offset + j
  BY <1>0, <1>2, Deal
<1>4. slots' = [slots EXCEPT ![j] = Own(Offset + j)]
  BY <1>3 DEF FinishQuery, Own
<1>5. answered' = [answered EXCEPT ![w] = i]
  BY DEF FinishQuery
<1>6. Offset + j \in Nat /\ Offset + j # 0 /\ Own(Offset + j) # Empty
      /\ Own(Offset + j) \in [query : Nat, bodies : Nat]
  BY <1>2, <1>3 DEF Own, Empty
<1> HIDE DEF i, j
<1>7. CallProgress'
  BY <1>0, <1>1 DEF CallProgress, FinishQuery
<1>8. /\ slots' \in [1 .. Chunk -> [query : Nat, bodies : Nat]]
      /\ \A k \in 1 .. Chunk : slots'[k] \in {Empty, Own(Offset + k)}
      /\ \A k \in 1 .. Chunk : slots[k] # Empty \/ k = j => slots'[k] # Empty
  BY <1>0, <1>3, <1>4, <1>6 DEF ScopeProgress
<1>9. answered' \in [ScopeWorkers -> Nat] /\ \A v \in ScopeWorkers : answered'[v] <= Count(v)
  BY <1>0, <1>2, <1>3, <1>5 DEF ScopeProgress
<1>10. ASSUME NEW v \in ScopeWorkers, NEW m \in 1 .. answered'[v]
       PROVE  slots'[Split(v) + m] # Empty
  <2>1. Split(v) + m \in 1 .. Chunk
    <3>1. m \in 1 .. Count(v)
      BY <1>0, <1>9, Deal
    <3> QED
      BY <1>0, <3>1, Deal
  <2>2. m \in 1 .. answered[v] \/ (v = w /\ m = i)
    <3>1. i = answered[w] + 1
      BY DEF i
    <3> QED
      BY <1>0, <1>2, <1>5, <3>1 DEF ScopeProgress
  <2>3. CASE m \in 1 .. answered[v]
    BY <1>0, <1>8, <2>1, <2>3 DEF ScopeProgress
  <2>4. CASE v = w /\ m = i
    BY <1>8, <2>1, <2>4 DEF j
  <2> QED
    BY <2>2, <2>3, <2>4
<1>11. ScopeProgress'
  <2>1. phase' = phase /\ pool' = pool /\ taken' = taken /\ stopped' = stopped
    BY DEF FinishQuery
  <2> QED
    BY <1>0, <1>1, <1>8, <1>9, <1>10, <2>1 DEF ScopeProgress
<1> QED
  BY <1>7, <1>11 DEF BatchIInv

\* A panic changes nothing but who is still at work.
LEMMA WorkerPanicsIInv ==
  ASSUME BatchIInv, NEW w \in DOMAIN answered, WorkerPanics(w)
  PROVE  BatchIInv'
<1>1. /\ Chunk' = Chunk /\ PoolNeeded' = PoolNeeded /\ ScopeWorkers' = ScopeWorkers
      /\ Offset' = Offset /\ \A v : Count(v)' = Count(v) /\ Split(v)' = Split(v)
  BY DEF WorkerPanics, Chunk, ChunkLen, Offset, PoolNeeded, ParallelQueries,
         ThreadsPerQuery, ScopeWorkers, Count, Split
<1>2. w \in ScopeWorkers
  BY DEF BatchIInv, ScopeProgress, WorkerPanics
<1>3. CallProgress'
  BY DEF BatchIInv, CallProgress, WorkerPanics
<1>4. ScopeProgress'
  BY <1>1, <1>2 DEF BatchIInv, ScopeProgress, WorkerPanics
<1> QED
  BY <1>3, <1>4 DEF BatchIInv

\* When all workers are through every slot is filled, so that what is collected
\* continues the answers in order.
LEMMA CollectIInv ==
  ASSUME BatchIInv, Collect
  PROVE  BatchIInv'
<1>0. phase = "finish" /\ CallProgress /\ ScopeProgress /\ stopped = {}
      /\ \A w \in ScopeWorkers : ~Busy(w)
  BY DEF BatchIInv, Collect, Joined
<1>1. /\ Offset \in Nat /\ Chunk \in Nat /\ Chunk >= 1 /\ Offset + Chunk <= batch
      /\ batch \in Nat /\ Offset = Len(responses)
  BY <1>0, Sizes DEF Offset, CallProgress
<1>2. \A w \in ScopeWorkers : answered[w] = Count(w)
  BY <1>0, Deal DEF ScopeProgress, Busy
<1>3. \A j \in 1 .. Chunk : slots[j] = Own(Offset + j)
  <2> SUFFICES ASSUME NEW j \in 1 .. Chunk PROVE slots[j] # Empty
    BY <1>0 DEF ScopeProgress
  <2>1. PICK w \in ScopeWorkers : \E i \in 1 .. Count(w) : Split(w) + i = j
    BY <1>0, Deal
  <2> QED
    BY <1>0, <1>2, <2>1 DEF ScopeProgress
<1>4. slots \in Seq([query : Nat, bodies : Nat]) /\ Len(slots) = Chunk
  <2> DEFINE T == [query : Nat, bodies : Nat]
  <2>1. slots \in [1 .. Chunk -> T]
    BY <1>0 DEF ScopeProgress
  <2> HIDE DEF T
  <2>2. slots \in Seq(T) /\ Len(slots) = Chunk
    BY <1>1, <2>1, FunctionIsSeq
  <2> QED
    BY <2>2 DEF T
<1>5. /\ responses' = responses \o slots
      /\ responses' \in Seq([query : Nat, bodies : Nat])
      /\ Len(responses') = Offset + Chunk
  BY <1>0, <1>1, <1>4, JoinedSeq DEF Collect, CallProgress
<1>6. ASSUME NEW k \in DOMAIN responses' PROVE responses'[k] = Own(k)
  <2>1. k \in 1 .. Offset + Chunk
    BY <1>5
  <2>2. CASE k <= Offset
    BY <1>0, <1>1, <1>4, <1>5, <2>1, <2>2 DEF CallProgress
  <2>3. CASE k > Offset
    <3>0. k - Offset \in 1 .. Chunk
      BY <1>1, <2>1, <2>3
    <3>1. responses'[k] = slots[k - Offset]
      BY SMTT(30), <1>0, <1>1, <1>4, <1>5, <2>1, <2>3 DEF CallProgress
    <3>2. Offset + (k - Offset) = k
      BY <1>1, <2>1
    <3> QED
      BY <1>3, <3>0, <3>1, <3>2
  <2> QED
    BY <1>1, <2>1, <2>2, <2>3
<1>7. CallProgress'
  <2>1. /\ phase' = IF Offset + Chunk = batch THEN "idle" ELSE "select"
        /\ batch' = batch /\ pool' = taken /\ taken' = 0 /\ panics' = panics
    BY DEF Collect
  <2>2. /\ phase' \in {"idle", "select"}
        /\ phase' = "idle" => Len(responses') = batch'
        /\ phase' # "idle" => Len(responses') < batch'
    <3>1. CASE Offset + Chunk = batch
      BY <1>5, <2>1, <3>1
    <3>2. CASE Offset + Chunk # batch
      <4>1. Offset + Chunk < batch
        BY <1>1, <3>2
      <4> QED
        BY <1>5, <2>1, <3>2, <4>1
    <3> QED
      BY <3>1, <3>2
  <2> QED
    BY <1>0, <1>5, <1>6, <2>1, <2>2 DEF CallProgress
<1>8. ScopeProgress'
  BY DEF Collect, ScopeProgress
<1> QED
  BY <1>7, <1>8 DEF BatchIInv

LEMMA NextIInv == BatchIInv /\ [BatchNext]_batchVars => BatchIInv'
<1> SUFFICES ASSUME BatchIInv, [BatchNext]_batchVars PROVE BatchIInv'
  OBVIOUS
<1>1. ASSUME SelectPanics PROVE BatchIInv'
  BY <1>1, BatchAssumption DEF BatchIInv, CallProgress, ScopeProgress, SelectPanics
<1>2. ASSUME Unwind PROVE BatchIInv'
  BY <1>2 DEF BatchIInv, CallProgress, ScopeProgress, Unwind
<1>3. ASSUME UNCHANGED batchVars PROVE BatchIInv'
  BY <1>3 DEF BatchIInv, CallProgress, ScopeProgress, batchVars, Own, Chunk, ChunkLen, Offset,
              PoolNeeded, ParallelQueries, ThreadsPerQuery, ScopeWorkers, Count, Split
<1> QED
  BY <1>1, <1>2, <1>3, CallIInv, SelectBodiesIInv, FinishQueryIInv, WorkerPanicsIInv,
     CollectIInv DEF BatchNext, Step

THEOREM BatchInvariance == BatchSpec => []BatchIInv
<1> QED
  BY InitIInv, NextIInv, PTL DEF BatchSpec

-----------------------------------------------------------------------------
(* The properties *)

\* Every variable keeps its type.
THEOREM BatchTypeCorrect == BatchSpec => []TypeOK
<1>1. ASSUME BatchIInv PROVE TypeOK
  <2>1. CallProgress /\ ScopeProgress
    BY <1>1 DEF BatchIInv
  <2>2. DOMAIN responses = 1 .. Len(responses) /\ Len(responses) \in Nat
        /\ batch \in Nat /\ Len(responses) <= batch
    BY <2>1 DEF CallProgress
  <2>3. \A k \in DOMAIN responses : {responses[k].query, responses[k].bodies} \subseteq 1 .. batch
    <3> TAKE k \in DOMAIN responses
    <3>1. responses[k] = Own(k)
      BY <2>1 DEF CallProgress
    <3>2. responses[k].query = k /\ responses[k].bodies = k
      BY <3>1 DEF Own
    <3>3. k \in 1 .. batch
      BY <2>2
    <3> QED
      BY <3>2, <3>3
  <2>4. ASSUME phase = "finish"
        PROVE  /\ DOMAIN slots = 1 .. Chunk
               /\ answered \in [ScopeWorkers -> 0 .. Chunk]
               /\ stopped \subseteq ScopeWorkers
    <3>1. ASSUME NEW w \in ScopeWorkers PROVE answered[w] \in 0 .. Chunk
      <4>1. answered[w] \in Nat /\ answered[w] <= Count(w) /\ Split(w) \in Nat
            /\ Count(w) \in Nat /\ Chunk \in Nat
        BY <2>1, <2>4, Deal, Sizes DEF ScopeProgress
      <4>2. CASE Count(w) = 0
        BY <4>1, <4>2
      <4>3. CASE Count(w) # 0
        <5>1. Count(w) \in 1 .. Count(w)
          BY <4>1, <4>3
        <5>2. Split(w) + Count(w) \in 1 .. Chunk
          BY <2>1, <2>4, <5>1, Deal
        <5> QED
          BY <4>1, <5>2
      <4> QED
        BY <4>2, <4>3
    <3> QED
      BY <2>1, <2>4, <3>1 DEF ScopeProgress
  <2> QED
    BY <2>1, <2>3, <2>4 DEF CallProgress, TypeOK
<1> QED
  BY <1>1, BatchInvariance, PTL

\* Every response stands at the place of its query and was made from that query's
\* bodies, and a call that returns has answered all (respond_recursion_batch).
THEOREM AnswersSafe == BatchSpec => []AnswersInOrder
<1>1. BatchIInv => AnswersInOrder
  BY DEF BatchIInv, CallProgress, AnswersInOrder, Own
<1> QED
  BY <1>1, BatchInvariance, PTL

\* The slabs of arenas cut for the workers of a scope are there, are apart, and
\* are no more than the budget of cores.
THEOREM SlabsSafe == BatchSpec => []SlabsFit
<1>1. ASSUME BatchIInv, phase = "finish"
      PROVE  /\ PoolNeeded <= Cores
             /\ \A w \in ScopeWorkers : \A a \in Slab(w) : a < taken
             /\ \A v, w \in ScopeWorkers : v # w => Slab(v) \cap Slab(w) = {}
  <2> DEFINE t == ThreadsPerQuery
  <2>1. /\ t \in Nat /\ ParallelQueries \in Nat
        /\ PoolNeeded \in Nat /\ PoolNeeded <= Cores /\ PoolNeeded = ParallelQueries * t
        /\ PoolNeeded <= taken /\ taken \in Nat
    BY <1>1, Sizes DEF BatchIInv, CallProgress, ScopeProgress, PoolNeeded
  <2> HIDE DEF t
  <2>2. ASSUME NEW v \in Nat, NEW w \in Nat, v < w
        PROVE  v * t \in Nat /\ (v + 1) * t \in Nat /\ w * t \in Nat /\ (v + 1) * t <= w * t
    <3>1. v + 1 \in Nat /\ v + 1 <= w
      BY <2>2
    <3> QED
      BY <2>1, <3>1, ProductMonotone
  <2>3. \A w \in ScopeWorkers : w \in Nat /\ w < ParallelQueries
    BY <2>1 DEF ScopeWorkers
  <2>4. \A w \in ScopeWorkers : Slab(w) = w * t .. (w + 1) * t - 1
    BY DEF Slab, t
  <2>5. ASSUME NEW w \in ScopeWorkers, NEW a \in Slab(w) PROVE a < taken
    <3>1. w * t \in Nat /\ (w + 1) * t \in Nat /\ (w + 1) * t <= ParallelQueries * t
      BY <2>1, <2>2, <2>3
    <3> QED
      BY <2>1, <2>4, <3>1
  <2>6. ASSUME NEW v \in ScopeWorkers, NEW w \in ScopeWorkers, v < w
        PROVE  Slab(v) \cap Slab(w) = {}
    <3>1. v * t \in Nat /\ (v + 1) * t \in Nat /\ w * t \in Nat /\ (v + 1) * t <= w * t
      BY <2>2, <2>3, <2>6
    <3>2. (w + 1) * t \in Nat
      BY <2>1, <2>2, <2>3
    <3> QED
      BY <2>4, <3>1, <3>2
  <2>7. ASSUME NEW v \in ScopeWorkers, NEW w \in ScopeWorkers, v # w
        PROVE  Slab(v) \cap Slab(w) = {}
    <3>1. v < w \/ w < v
      BY <2>3, <2>7
    <3>2. CASE v < w
      BY <2>6, <3>2
    <3>3. CASE w < v
      BY <2>6, <3>3
    <3> QED
      BY <3>1, <3>2, <3>3
  <2> QED
    BY <2>1, <2>5, <2>7
<1>2. BatchIInv => SlabsFit
  BY <1>1 DEF SlabsFit
<1> QED
  BY <1>2, BatchInvariance, PTL

\* The scratch pool that is moved out of the server comes back with the call, but
\* for what a worker's panic frees.
THEOREM ArenasSafe == BatchSpec => ArenasLostOnlyToPanics
<1> DEFINE Kept == phase' # "finish" /\ pool' + taken' < pool + taken => stopped # {}
<1>1. ASSUME BatchIInv, [BatchNext]_batchVars PROVE [Kept]_batchVars
  <2> SUFFICES ASSUME phase' # "finish", pool' + taken' < pool + taken, stopped = {}
               PROVE  FALSE
    OBVIOUS
  <2>1. pool \in Nat /\ taken \in Nat
    BY <1>1 DEF BatchIInv, CallProgress
  <2>2. (pool' = pool /\ taken' = taken) \/ Collect
    BY <1>1 DEF BatchNext, Step, Call, SelectBodies, SelectPanics, FinishQuery, WorkerPanics,
                Unwind, batchVars
  <2>3. CASE Collect
    <3>1. pool = 0
      BY <1>1, <2>3 DEF BatchIInv, ScopeProgress, Collect, Joined
    <3>2. pool' = taken /\ taken' = 0
      BY <2>3 DEF Collect
    <3> QED
      BY <2>1, <3>1, <3>2
  <2> QED
    BY <2>1, <2>2, <2>3
<1> QED
  BY <1>1, BatchInvariance, PTL DEF BatchSpec, ArenasLostOnlyToPanics
=============================================================================

------------------------- MODULE ShardEncode_proofs -------------------------
(***************************************************************************)
(* Proofs about ShardEncode, for any shape of database, worker budget and  *)
(* run of shards.                                                          *)
(*                                                                         *)
(* The argument: an index has one place (grid row, payload of the column,  *)
(* column), the address readers compute; a worker that walks a matrix      *)
(* writes payloads at these places and no others; the chunks cover every   *)
(* matrix that has a payload of the shard; places do not overlap.          *)
(***************************************************************************)
EXTENDS ShardEncode, InterpolationServer, FiniteSetTheorems, TLAPS

-----------------------------------------------------------------------------
(* Facts of arithmetic the provers need to be told *)

\* Products of natural numbers are natural numbers.
LEMMA Product ==
  ASSUME NEW a \in Nat, NEW b \in Nat
  PROVE  a * b \in Nat /\ a * b = b * a
BY SMT

\* Products grow with a factor.
LEMMA ProductGrows ==
  ASSUME NEW a \in Nat, NEW b \in Nat, NEW c \in Nat, a <= b
  PROVE  a * c <= b * c
<1> DEFINE d == b - a
<1>1. d \in Nat /\ b = a + d
  OBVIOUS
<1>2. b * c = a * c + d * c
  BY <1>1, SMT
<1>3. a * c \in Nat /\ d * c \in Nat
  BY <1>1, Product
<1> QED
  BY <1>2, <1>3

\* A factor more is a term more.
LEMMA OneMore ==
  ASSUME NEW a \in Nat, NEW b \in Nat
  PROVE  (a + 1) * b = a * b + b
BY SMT

\* A quotient and its rest.
LEMMA Quotient ==
  ASSUME NEW a \in Nat, NEW b \in Nat \ {0}
  PROVE  a \div b \in Nat /\ (a % b) \in 0 .. b - 1 /\ a = (a \div b) * b + (a % b)
<1>1. a \div b \in Nat
  BY SMT
<1>2. (a % b) \in 0 .. b - 1
  BY SMT
<1>3. a = b * (a \div b) + (a % b)
  BY SMT
<1>4. b * (a \div b) = (a \div b) * b
  BY <1>1, Product
<1> QED
  BY <1>1, <1>2, <1>3, <1>4

\* There is only one such pair.
LEMMA OnePair ==
  ASSUME NEW b \in Nat \ {0}, NEW q \in Nat, NEW s \in Nat, NEW r \in 0 .. b - 1, NEW t \in 0 .. b - 1,
         q * b + r = s * b + t
  PROVE  q = s /\ r = t
<1>1. q * b \in Nat /\ s * b \in Nat /\ r \in Nat /\ t \in Nat
  BY Product
<1>2. CASE q < s
  <2>1. (q + 1) * b <= s * b
    BY <1>2, ProductGrows
  <2>2. (q + 1) * b = q * b + b
    BY OneMore
  <2> QED
    BY <1>1, <2>1, <2>2
<1>3. CASE s < q
  <2>1. (s + 1) * b <= q * b
    BY <1>3, ProductGrows
  <2>2. (s + 1) * b = s * b + b
    BY OneMore
  <2> QED
    BY <1>1, <2>1, <2>2
<1>4. CASE q = s
  BY <1>1, <1>4
<1> QED
  BY <1>2, <1>3, <1>4

\* Dividing a number by the base it is written in gives its digits back.
LEMMA QuotientOf ==
  ASSUME NEW b \in Nat \ {0}, NEW q \in Nat, NEW r \in 0 .. b - 1
  PROVE  /\ q * b + r \in Nat
         /\ (q * b + r) \div b = q /\ (q * b + r) % b = r
<1> DEFINE a == q * b + r
<1>1. a \in Nat
  BY Product
<1> HIDE DEF a
<1>2. a \div b \in Nat /\ (a % b) \in 0 .. b - 1 /\ a = (a \div b) * b + (a % b)
  BY <1>1, Quotient
<1>3. (a \div b) * b + (a % b) = q * b + r
  BY <1>2 DEF a
<1>4. a \div b = q /\ a % b = r
  BY <1>2, <1>3, OnePair
<1> QED
  BY <1>1, <1>4 DEF a

\* A number below a product has a quotient below the other factor, and conversely.
LEMMA QuotientBelow ==
  ASSUME NEW b \in Nat \ {0}, NEW m \in Nat, NEW q \in Nat, NEW r \in 0 .. b - 1
  PROVE  q * b + r < m * b <=> q < m
<1>1. q * b \in Nat /\ m * b \in Nat /\ r \in Nat
  BY Product
<1>2. CASE q < m
  <2>1. (q + 1) * b <= m * b
    BY <1>2, ProductGrows
  <2>2. (q + 1) * b = q * b + b
    BY OneMore
  <2> QED
    BY <1>1, <1>2, <2>1, <2>2
<1>3. CASE m <= q
  <2>1. m * b <= q * b
    BY <1>3, ProductGrows
  <2> QED
    BY <1>1, <1>3, <2>1
<1> QED
  BY <1>2, <1>3

\* Quotients keep the order.
LEMMA QuotientMonotone ==
  ASSUME NEW a \in Nat, NEW c \in Nat, NEW b \in Nat \ {0}, a <= c
  PROVE  a \div b <= c \div b
<1>1. /\ a \div b \in Nat /\ (a % b) \in 0 .. b - 1 /\ a = (a \div b) * b + (a % b)
      /\ c \div b \in Nat /\ (c % b) \in 0 .. b - 1 /\ c = (c \div b) * b + (c % b)
  BY Quotient
<1> SUFFICES ASSUME c \div b < a \div b PROVE FALSE
  BY <1>1
<1> DEFINE p == c \div b
           q == a \div b
<1>2. (p + 1) * b <= q * b /\ (p + 1) * b = p * b + b
  BY <1>1, ProductGrows, OneMore
<1>3. p * b \in Nat /\ q * b \in Nat
  BY <1>1, Product
<1> HIDE DEF p, q
<1>4. /\ (a % b) \in 0 .. b - 1 /\ a = q * b + (a % b)
      /\ (c % b) \in 0 .. b - 1 /\ c = p * b + (c % b)
  BY <1>1 DEF p, q
<1> QED
  BY <1>2, <1>3, <1>4

\* Rounding up covers, and is not zero.
LEMMA Ceiling ==
  ASSUME NEW a \in Nat \ {0}, NEW b \in Nat \ {0}
  PROVE  /\ DivCeil(a, b) \in Nat \ {0} /\ a <= DivCeil(a, b) * b
         /\ DivCeil(a, b) = (a - 1) \div b + 1
<1> DEFINE q == (a - 1) \div b
           r == (a - 1) % b
<1>1. q \in Nat /\ r \in 0 .. b - 1 /\ a - 1 = q * b + r
  <2>1. a - 1 \in Nat
    OBVIOUS
  <2> QED
    BY <2>1, Quotient
<1> HIDE DEF q, r
<1>2. (q + 1) * b = q * b + b /\ q * b \in Nat
  BY <1>1, OneMore, Product
<1>3. a + b - 1 = (q + 1) * b + r
  BY <1>1, <1>2
<1>4. ((q + 1) * b + r) \div b = q + 1
  BY <1>1, QuotientOf
<1>5. DivCeil(a, b) = q + 1
  BY <1>3, <1>4 DEF DivCeil
<1> QED
  BY <1>1, <1>2, <1>5 DEF q
-----------------------------------------------------------------------------
(* Shapes and places *)

\* The sizes of a layout are natural numbers, and those that are divided by are positive.
LEMMA Sizes ==
  ASSUME NEW L \in Layouts
  PROVE  /\ L.n \in Nat \ {0} /\ L.cols \in Nat \ {0} /\ L.height \in Nat \ {0}
         /\ L.exponent \in Nat \ {0} /\ L.gridRows \in Nat \ {0}
         /\ PayloadsPerColumn(L) \in Nat \ {0}
         /\ PayloadsPerColumn(L) * L.exponent <= L.height
         /\ PayloadsPerGridRow(L) = PayloadsPerColumn(L) * L.cols
         /\ PayloadsPerGridRow(L) \in Nat \ {0}
         /\ RowsPerGroup(L) \in Nat \ {0} /\ RowsPerGroup(L) * L.height = L.n
         /\ ColumnBlocks(L) \in Nat \ {0} /\ L.cols <= ColumnBlocks(L) * L.n
         /\ PhysicalRows(L) \in Nat \ {0} /\ L.gridRows <= PhysicalRows(L) * RowsPerGroup(L)
         /\ PayloadCapacity(L) = L.gridRows * PayloadsPerGridRow(L) /\ PayloadCapacity(L) \in Nat
         /\ NumMatrices(L) = PhysicalRows(L) * ColumnBlocks(L) /\ NumMatrices(L) \in Nat
<1> DEFINE n == L.n
           cols == L.cols
           height == L.height
           exponent == L.exponent
           gridRows == L.gridRows
<1>1. /\ n \in Nat \ {0} /\ cols \in Nat \ {0} /\ height \in Nat \ {0}
      /\ exponent \in Nat \ {0} /\ gridRows \in Nat \ {0}
      /\ n % height = 0 /\ exponent <= height
  BY LayoutAssumption
<1>2. /\ PayloadsPerColumn(L) = height \div exponent /\ RowsPerGroup(L) = n \div height
      /\ ColumnBlocks(L) = DivCeil(cols, n)
      /\ PayloadsPerGridRow(L) = PayloadsPerColumn(L) * cols
      /\ PhysicalRows(L) = DivCeil(gridRows, RowsPerGroup(L))
      /\ PayloadCapacity(L) = gridRows * PayloadsPerGridRow(L)
      /\ NumMatrices(L) = PhysicalRows(L) * ColumnBlocks(L)
  BY DEF PayloadsPerColumn, RowsPerGroup, ColumnBlocks, PayloadsPerGridRow, PhysicalRows,
         PayloadCapacity, NumMatrices
<1> HIDE DEF n, cols, height, exponent, gridRows
<1>3. PayloadsPerColumn(L) \in Nat \ {0} /\ PayloadsPerColumn(L) * exponent <= height
  <2> DEFINE q == height \div exponent
             r == height % exponent
  <2>1. q \in Nat /\ r \in 0 .. exponent - 1 /\ height = q * exponent + r
    BY <1>1, Quotient
  <2> HIDE DEF q, r
  <2>2. q * exponent \in Nat
    BY <1>1, <2>1, Product
  <2>3. q # 0
    <3> SUFFICES ASSUME q = 0 PROVE FALSE
      OBVIOUS
    <3>1. 0 * exponent = 0
      BY <1>1, SMT
    <3> QED
      BY <1>1, <2>1, <3>1
  <2> QED
    BY <1>1, <1>2, <2>1, <2>2, <2>3 DEF q
<1>4. RowsPerGroup(L) \in Nat \ {0} /\ RowsPerGroup(L) * height = n
  <2> DEFINE q == n \div height
  <2>1. q \in Nat /\ n = q * height
    <3>1. q \in Nat /\ n = q * height + (n % height)
      BY <1>1, Quotient
    <3>2. q * height \in Nat
      BY <1>1, <3>1, Product
    <3> QED
      BY <1>1, <3>1, <3>2
  <2> HIDE DEF q
  <2>2. q # 0
    <3>1. 0 * height = 0
      BY <1>1, SMT
    <3> QED
      BY <1>1, <2>1, <3>1
  <2> QED
    BY <1>2, <2>1, <2>2 DEF q
<1>5. PayloadsPerGridRow(L) \in Nat \ {0}
  <2> DEFINE ppc == PayloadsPerColumn(L)
  <2>1. ppc \in Nat \ {0}
    BY <1>3
  <2> HIDE DEF ppc
  <2>2. ppc * cols \in Nat /\ 1 * cols <= ppc * cols /\ 1 * cols = cols
    BY <1>1, <2>1, Product, ProductGrows
  <2> QED
    BY <1>1, <1>2, <2>2 DEF ppc
<1>6. ColumnBlocks(L) \in Nat \ {0} /\ cols <= ColumnBlocks(L) * n
  BY <1>1, <1>2, Ceiling
<1>7. PhysicalRows(L) \in Nat \ {0} /\ gridRows <= PhysicalRows(L) * RowsPerGroup(L)
  BY <1>1, <1>2, <1>4, Ceiling
<1>8. PayloadCapacity(L) \in Nat /\ NumMatrices(L) \in Nat
  BY <1>1, <1>2, <1>5, <1>6, <1>7, Product
<1> QED
  BY <1>1, <1>2, <1>3, <1>4, <1>5, <1>6, <1>7, <1>8 DEF n, cols, height, exponent, gridRows

\* The place of an index: its grid row, which payload of its column it is, and the column
GridRow(L, i) == i \div PayloadsPerGridRow(L)
InColumn(L, i) == (i % PayloadsPerGridRow(L)) \div L.cols
Column(L, i) == (i % PayloadsPerGridRow(L)) % L.cols

IndexAt(L, g, pic, col) == g * PayloadsPerGridRow(L) + (pic * L.cols + col)

\* An index has a place within the shape, which is the address readers compute.
LEMMA PlaceOfIndex ==
  ASSUME NEW L \in Layouts, NEW i \in Indices(L)
  PROVE  /\ GridRow(L, i) \in 0 .. L.gridRows - 1
         /\ InColumn(L, i) \in 0 .. PayloadsPerColumn(L) - 1
         /\ Column(L, i) \in 0 .. L.cols - 1
         /\ i = IndexAt(L, GridRow(L, i), InColumn(L, i), Column(L, i))
         /\ PayloadAddress(L, i) =
              [gridRow |-> GridRow(L, i), column |-> Column(L, i),
               offset |-> InColumn(L, i) * L.exponent]
<1> DEFINE ppg == PayloadsPerGridRow(L)
           ppc == PayloadsPerColumn(L)
           cols == L.cols
           gridRows == L.gridRows
           local == i % ppg
<1>1. /\ ppg \in Nat \ {0} /\ ppc \in Nat \ {0} /\ cols \in Nat \ {0} /\ gridRows \in Nat \ {0}
      /\ ppg = ppc * cols /\ PayloadCapacity(L) = gridRows * ppg /\ PayloadCapacity(L) \in Nat
  BY Sizes
<1>2. i \in Nat /\ i < gridRows * ppg
  BY <1>1 DEF Indices
<1>3. /\ GridRow(L, i) = i \div ppg /\ InColumn(L, i) = local \div cols
      /\ Column(L, i) = local % cols
  BY DEF GridRow, InColumn, Column
<1>4. PayloadAddress(L, i) =
        [gridRow |-> GridRow(L, i), column |-> Column(L, i),
         offset |-> InColumn(L, i) * L.exponent]
  BY DEF PayloadAddress, GridRow, InColumn, Column
<1> HIDE DEF ppg, ppc, cols, gridRows
<1>5. i \div ppg \in Nat /\ local \in 0 .. ppg - 1 /\ i = (i \div ppg) * ppg + local
  BY <1>1, <1>2, Quotient
<1>6. i \div ppg < gridRows
  BY <1>1, <1>2, <1>5, QuotientBelow
<1> HIDE DEF local
<1>7. local \in Nat /\ local < ppc * cols
  BY <1>1, <1>5
<1>8. /\ local \div cols \in Nat /\ (local % cols) \in 0 .. cols - 1
      /\ local = (local \div cols) * cols + (local % cols)
  BY <1>1, <1>7, Quotient
<1>9. local \div cols < ppc
  BY <1>1, <1>7, <1>8, QuotientBelow
<1>10. GridRow(L, i) \in 0 .. gridRows - 1 /\ InColumn(L, i) \in 0 .. ppc - 1
       /\ Column(L, i) \in 0 .. cols - 1
  BY <1>1, <1>3, <1>5, <1>6, <1>8, <1>9
<1>11. i = GridRow(L, i) * ppg + (InColumn(L, i) * cols + Column(L, i))
  BY <1>3, <1>5, <1>8
<1> QED
  BY <1>4, <1>10, <1>11 DEF IndexAt, ppg, ppc, cols, gridRows

\* A place within the shape is that of an index.
LEMMA IndexOfPlace ==
  ASSUME NEW L \in Layouts, NEW g \in 0 .. L.gridRows - 1,
         NEW pic \in 0 .. PayloadsPerColumn(L) - 1, NEW col \in 0 .. L.cols - 1
  PROVE  LET i == IndexAt(L, g, pic, col) IN
         /\ i \in Indices(L)
         /\ GridRow(L, i) = g /\ InColumn(L, i) = pic /\ Column(L, i) = col
<1> DEFINE ppg == PayloadsPerGridRow(L)
           ppc == PayloadsPerColumn(L)
           cols == L.cols
           gridRows == L.gridRows
           local == pic * cols + col
           i == g * ppg + local
<1>1. /\ ppg \in Nat \ {0} /\ ppc \in Nat \ {0} /\ cols \in Nat \ {0} /\ gridRows \in Nat \ {0}
      /\ ppg = ppc * cols /\ PayloadCapacity(L) = gridRows * ppg /\ PayloadCapacity(L) \in Nat
  BY Sizes
<1>2. g \in Nat /\ g < gridRows /\ pic \in Nat /\ pic < ppc /\ col \in 0 .. cols - 1
  BY <1>1
<1>3. IndexAt(L, g, pic, col) = i
  BY DEF IndexAt
<1>4. /\ GridRow(L, i) = i \div ppg /\ InColumn(L, i) = (i % ppg) \div cols
      /\ Column(L, i) = (i % ppg) % cols
  BY DEF GridRow, InColumn, Column
<1> HIDE DEF ppg, ppc, cols, gridRows
<1>5. local \in Nat /\ local \div cols = pic /\ local % cols = col
  BY <1>1, <1>2, QuotientOf
<1>6. local < ppg
  BY <1>1, <1>2, QuotientBelow
<1> HIDE DEF local
<1>7. local \in 0 .. ppg - 1
  BY <1>1, <1>5, <1>6
<1>8. i \in Nat /\ i \div ppg = g /\ i % ppg = local
  BY <1>1, <1>2, <1>7, QuotientOf
<1>9. i < gridRows * ppg
  BY <1>1, <1>2, <1>7, QuotientBelow
<1> HIDE DEF i
<1>10. i \in Indices(L)
  BY <1>1, <1>8, <1>9 DEF Indices
<1> QED
  BY <1>3, <1>4, <1>5, <1>8, <1>10
-----------------------------------------------------------------------------
(* The coefficients of a payload *)

\* Where the digits of i begin
Entry(L, i) ==
  [matrix |-> (GridRow(L, i) \div RowsPerGroup(L)) * ColumnBlocks(L) + Column(L, i) \div L.n,
   row    |-> (GridRow(L, i) % RowsPerGroup(L)) * L.height + InColumn(L, i) * L.exponent,
   col    |-> Column(L, i) % L.n,
   index  |-> i]

DigitOf(L, i, k) == DigitCell(L, PayloadAddress(L, i), k)

\* The parts of an address are in range: the row group, the column block, the row of the
\* group, the rows of the payload and the column of the block.
LEMMA EntryParts ==
  ASSUME NEW L \in Layouts, NEW i \in Indices(L)
  PROVE  /\ GridRow(L, i) \div RowsPerGroup(L) \in 0 .. PhysicalRows(L) - 1
         /\ (GridRow(L, i) % RowsPerGroup(L)) \in 0 .. RowsPerGroup(L) - 1
         /\ GridRow(L, i) = (GridRow(L, i) \div RowsPerGroup(L)) * RowsPerGroup(L)
                            + (GridRow(L, i) % RowsPerGroup(L))
         /\ Column(L, i) \div L.n \in 0 .. ColumnBlocks(L) - 1
         /\ (Column(L, i) % L.n) \in 0 .. L.n - 1
         /\ Column(L, i) = (Column(L, i) \div L.n) * L.n + (Column(L, i) % L.n)
         /\ InColumn(L, i) * L.exponent \in Nat
         /\ InColumn(L, i) * L.exponent + L.exponent <= L.height
<1> DEFINE g == GridRow(L, i)
           pic == InColumn(L, i)
           col == Column(L, i)
           rpg == RowsPerGroup(L)
           cb == ColumnBlocks(L)
           pr == PhysicalRows(L)
           ppc == PayloadsPerColumn(L)
           n == L.n
           exponent == L.exponent
<1>1. /\ rpg \in Nat \ {0} /\ cb \in Nat \ {0} /\ pr \in Nat \ {0} /\ ppc \in Nat \ {0}
      /\ n \in Nat \ {0} /\ exponent \in Nat \ {0} /\ L.height \in Nat
      /\ L.gridRows \in Nat /\ L.gridRows <= pr * rpg
      /\ L.cols \in Nat /\ L.cols <= cb * n /\ ppc * exponent <= L.height
  BY Sizes
<1>2. g \in 0 .. L.gridRows - 1 /\ pic \in 0 .. ppc - 1 /\ col \in 0 .. L.cols - 1
  BY PlaceOfIndex
<1> HIDE DEF g, pic, col, rpg, cb, pr, ppc, n, exponent
<1>3. g \in Nat /\ pic \in Nat /\ col \in Nat /\ pr * rpg \in Nat /\ cb * n \in Nat
  BY <1>1, <1>2, Product
<1>4. g < pr * rpg /\ col < cb * n
  BY <1>1, <1>2, <1>3
<1>5. g \div rpg \in Nat /\ (g % rpg) \in 0 .. rpg - 1 /\ g = (g \div rpg) * rpg + (g % rpg)
  BY <1>1, <1>3, Quotient
<1>6. g \div rpg < pr
  BY <1>1, <1>4, <1>5, QuotientBelow
<1>7. col \div n \in Nat /\ (col % n) \in 0 .. n - 1 /\ col = (col \div n) * n + (col % n)
  BY <1>1, <1>3, Quotient
<1>8. col \div n < cb
  BY <1>1, <1>4, <1>7, QuotientBelow
<1>9. pic * exponent \in Nat /\ pic * exponent + exponent <= L.height
  <2>1. (pic + 1) * exponent <= ppc * exponent /\ (pic + 1) * exponent = pic * exponent + exponent
    BY <1>1, <1>2, <1>3, ProductGrows, OneMore
  <2>2. pic * exponent \in Nat /\ ppc * exponent \in Nat
    BY <1>1, <1>3, Product
  <2> QED
    BY <1>1, <2>1, <2>2
<1>10. g \div rpg \in 0 .. pr - 1 /\ col \div n \in 0 .. cb - 1
  BY <1>1, <1>5, <1>6, <1>7, <1>8
<1> QED
  BY <1>5, <1>7, <1>9, <1>10 DEF g, pic, col, rpg, cb, pr, ppc, n, exponent

\* The digits of a payload run down one column of one matrix.
LEMMA DigitsBelowEntry ==
  ASSUME NEW L \in Layouts, NEW i \in Indices(L), NEW k \in 0 .. L.exponent - 1
  PROVE  /\ DigitOf(L, i, k) =
              [matrix |-> Entry(L, i).matrix, row |-> Entry(L, i).row + k, col |-> Entry(L, i).col]
         /\ DigitOf(L, i, k) \in Cells(L)
         /\ Entry(L, i).matrix \in 0 .. NumMatrices(L) - 1
         /\ Entry(L, i).row \in Nat /\ Entry(L, i).row + L.exponent <= L.n
         /\ Entry(L, i).col \in 0 .. L.n - 1
<1> DEFINE rg == GridRow(L, i) \div RowsPerGroup(L)
           r == GridRow(L, i) % RowsPerGroup(L)
           bl == Column(L, i) \div L.n
           c == Column(L, i) % L.n
           offset == InColumn(L, i) * L.exponent
           rpg == RowsPerGroup(L)
           cb == ColumnBlocks(L)
           pr == PhysicalRows(L)
           height == L.height
           n == L.n
<1>1. /\ rpg \in Nat \ {0} /\ cb \in Nat \ {0} /\ pr \in Nat \ {0} /\ height \in Nat \ {0}
      /\ n \in Nat \ {0} /\ L.exponent \in Nat \ {0} /\ rpg * height = n
      /\ NumMatrices(L) = pr * cb
  BY Sizes
<1>2. /\ rg \in 0 .. pr - 1 /\ r \in 0 .. rpg - 1 /\ bl \in 0 .. cb - 1 /\ c \in 0 .. n - 1
      /\ offset \in Nat /\ offset + L.exponent <= height
  BY EntryParts
<1>3. /\ DigitOf(L, i, k) = [matrix |-> rg * cb + bl, row |-> r * height + offset + k, col |-> c]
      /\ Entry(L, i) = [matrix |-> rg * cb + bl, row |-> r * height + offset, col |-> c, index |-> i]
  BY PlaceOfIndex DEF DigitOf, DigitCell, Entry
<1> HIDE DEF rg, r, bl, c, offset, rpg, cb, pr, height, n
<1>4. rg * cb + bl \in Nat /\ rg * cb + bl < pr * cb
  <2>1. cb \in Nat \ {0} /\ pr \in Nat /\ rg \in Nat /\ rg < pr /\ bl \in 0 .. cb - 1
    BY <1>1, <1>2
  <2>2. rg * cb + bl < pr * cb
    BY <2>1, QuotientBelow
  <2> QED
    BY <2>1, <2>2, QuotientOf
<1>5. r * height \in Nat /\ r * height + height <= n
  <2>1. (r + 1) * height <= rpg * height /\ (r + 1) * height = r * height + height
        /\ r * height \in Nat
    BY <1>1, <1>2, ProductGrows, OneMore, Product
  <2> QED
    BY <1>1, <2>1
<1>6. r * height + offset \in Nat /\ r * height + offset + L.exponent <= n
  BY <1>1, <1>2, <1>5
<1>7. rg * cb + bl \in 0 .. NumMatrices(L) - 1
  <2>1. pr * cb \in Nat
    BY <1>1, Product
  <2> QED
    BY <1>1, <1>4, <2>1
<1> DEFINE row == r * height + offset
           place == rg * cb + bl
<1> HIDE DEF row, place
<1>8. row + k \in 0 .. n - 1
  <2>1. k \in Nat /\ k < L.exponent /\ row \in Nat /\ row + L.exponent <= n
    BY <1>1, <1>6 DEF row
  <2> QED
    BY <1>1, <2>1
<1>9. /\ DigitOf(L, i, k) = [matrix |-> place, row |-> row + k, col |-> c]
      /\ Entry(L, i) = [matrix |-> place, row |-> row, col |-> c, index |-> i]
  BY <1>3 DEF row, place
<1>10. /\ place \in 0 .. NumMatrices(L) - 1 /\ row \in Nat /\ row + L.exponent <= n
       /\ c \in 0 .. n - 1
  BY <1>2, <1>6, <1>7 DEF row, place
<1> QED
  BY <1>8, <1>9, <1>10 DEF Cells, n

\* No coefficient is of two payloads, or two digits of one.
LEMMA DigitsApart ==
  ASSUME NEW L \in Layouts, NEW i \in Indices(L), NEW j \in Indices(L),
         NEW k \in 0 .. L.exponent - 1, NEW l \in 0 .. L.exponent - 1,
         DigitOf(L, i, k) = DigitOf(L, j, l)
  PROVE  i = j /\ k = l
<1> DEFINE rg(x) == GridRow(L, x) \div RowsPerGroup(L)
           r(x) == GridRow(L, x) % RowsPerGroup(L)
           bl(x) == Column(L, x) \div L.n
           c(x) == Column(L, x) % L.n
           pic(x) == InColumn(L, x)
           rpg == RowsPerGroup(L)
           cb == ColumnBlocks(L)
           height == L.height
           n == L.n
           exponent == L.exponent
<1>1. /\ rpg \in Nat \ {0} /\ cb \in Nat \ {0} /\ height \in Nat \ {0} /\ n \in Nat \ {0}
      /\ exponent \in Nat \ {0}
  BY Sizes
<1>2. ASSUME NEW x \in Indices(L)
      PROVE  /\ rg(x) \in Nat /\ r(x) \in Nat /\ bl(x) \in 0 .. cb - 1 /\ c(x) \in 0 .. n - 1
             /\ pic(x) \in Nat
             /\ pic(x) * exponent \in Nat /\ pic(x) * exponent + exponent <= height
             /\ GridRow(L, x) = rg(x) * rpg + r(x) /\ Column(L, x) = bl(x) * n + c(x)
             /\ x = IndexAt(L, GridRow(L, x), pic(x), Column(L, x))
  <2>1. PayloadsPerColumn(L) \in Nat /\ PhysicalRows(L) \in Nat
    BY Sizes
  <2>2. rg(x) \in 0 .. PhysicalRows(L) - 1 /\ r(x) \in 0 .. rpg - 1
        /\ pic(x) \in 0 .. PayloadsPerColumn(L) - 1
    BY EntryParts, PlaceOfIndex
  <2>3. rg(x) \in Nat /\ r(x) \in Nat /\ pic(x) \in Nat
    BY <1>1, <2>1, <2>2
  <2> QED
    BY <2>3, EntryParts, PlaceOfIndex
<1>3. ASSUME NEW x \in Indices(L), NEW d \in 0 .. exponent - 1
      PROVE  DigitOf(L, x, d) = [matrix |-> rg(x) * cb + bl(x),
                                 row |-> r(x) * height + pic(x) * exponent + d, col |-> c(x)]
  BY PlaceOfIndex DEF DigitOf, DigitCell
<1> HIDE DEF rg, r, bl, c, pic, rpg, cb, height, n, exponent
<1>4. /\ rg(i) * cb + bl(i) = rg(j) * cb + bl(j) /\ c(i) = c(j)
      /\ r(i) * height + pic(i) * exponent + k = r(j) * height + pic(j) * exponent + l
  <2>1. k \in 0 .. exponent - 1 /\ l \in 0 .. exponent - 1
    BY DEF exponent
  <2>2. [matrix |-> rg(i) * cb + bl(i), row |-> r(i) * height + pic(i) * exponent + k, col |-> c(i)]
        = [matrix |-> rg(j) * cb + bl(j), row |-> r(j) * height + pic(j) * exponent + l, col |-> c(j)]
    BY <1>3, <2>1
  <2> QED
    BY <2>2
<1>5. rg(i) = rg(j) /\ bl(i) = bl(j)
  <2>1. rg(i) \in Nat /\ rg(j) \in Nat /\ bl(i) \in 0 .. cb - 1 /\ bl(j) \in 0 .. cb - 1
    BY <1>2
  <2> QED
    BY <1>1, <1>4, <2>1, OnePair
<1>6. k \in 0 .. exponent - 1 /\ l \in 0 .. exponent - 1
  BY DEF exponent
<1>7. r(i) = r(j) /\ pic(i) * exponent + k = pic(j) * exponent + l
  <2> DEFINE a == pic(i) * exponent + k
             b == pic(j) * exponent + l
  <2>1. a \in 0 .. height - 1 /\ b \in 0 .. height - 1
    <3>1. /\ pic(i) * exponent \in Nat /\ pic(i) * exponent + exponent <= height
          /\ pic(j) * exponent \in Nat /\ pic(j) * exponent + exponent <= height
      BY <1>2
    <3> QED
      BY <1>1, <1>6, <3>1
  <2>2. r(i) * height + a = r(j) * height + b
    <3>1. /\ r(i) * height \in Nat /\ r(j) * height \in Nat
          /\ pic(i) * exponent \in Nat /\ pic(j) * exponent \in Nat
      BY <1>1, <1>2, Product
    <3> QED
      BY <1>4, <1>6, <3>1
  <2>3. r(i) \in Nat /\ r(j) \in Nat
    BY <1>2
  <2> HIDE DEF a, b
  <2>4. r(i) = r(j) /\ a = b
    BY <1>1, <2>1, <2>2, <2>3, OnePair
  <2> QED
    BY <2>4 DEF a, b
<1>8. pic(i) = pic(j) /\ k = l
  <2> DEFINE p == pic(i)
             q == pic(j)
  <2>1. p \in Nat /\ q \in Nat /\ p * exponent + k = q * exponent + l
    BY <1>2, <1>7
  <2> HIDE DEF p, q
  <2>2. p = q /\ k = l
    BY <1>1, <1>6, <2>1, OnePair
  <2> QED
    BY <2>2 DEF p, q
<1>9. GridRow(L, i) = GridRow(L, j) /\ Column(L, i) = Column(L, j)
  BY <1>2, <1>4, <1>5, <1>7
<1>10. i = j
  BY <1>2, <1>8, <1>9
<1> QED
  BY <1>8, <1>10
-----------------------------------------------------------------------------
(* What a worker writes in a matrix *)

\* The grid row of a row of matrix m, the index of the first payload in it, and how
\* many columns of the matrix precede a position
GridRowIn(L, m, r) == (m \div ColumnBlocks(L)) * RowsPerGroup(L) + r
FirstIndex(L, m, r, pic) ==
  GridRowIn(L, m, r) * PayloadsPerGridRow(L) + pic * L.cols + (m % ColumnBlocks(L)) * L.n
ColumnsUpTo(L, m, r, pic, position) ==
  Min(SaturatingSub(position, FirstIndex(L, m, r, pic)), Width(L, m % ColumnBlocks(L)))

\* The entries a worker has for a matrix are those of the places in it that the shard has.
LEMMA MatrixWritesAre ==
  ASSUME NEW L, NEW m, NEW s, NEW p
  PROVE  p \in MatrixWrites(L, m, s) <=>
         \E r \in 0 .. RowsPerGroup(L) - 1, pic \in 0 .. PayloadsPerColumn(L) - 1 :
           /\ GridRowIn(L, m, r) < L.gridRows
           /\ \E c \in ColumnsUpTo(L, m, r, pic, s.start) .. ColumnsUpTo(L, m, r, pic, s.end) - 1 :
                p = [matrix |-> m, row |-> RowOffset(L, r, pic), col |-> c,
                     index |-> FirstIndex(L, m, r, pic) + c]
<1> DEFINE rows == {x \in 0 .. RowsPerGroup(L) - 1 : GridRowIn(L, m, x) < L.gridRows}
           places == 0 .. PayloadsPerColumn(L) - 1
           columns(r, pic) ==
             ColumnsUpTo(L, m, r, pic, s.start) .. ColumnsUpTo(L, m, r, pic, s.end) - 1
           write(r, pic, c) == [matrix |-> m, row |-> RowOffset(L, r, pic), col |-> c,
                                index |-> FirstIndex(L, m, r, pic) + c]
           writes(r, pic) == {write(r, pic, c) : c \in columns(r, pic)}
<1>1. MatrixWrites(L, m, s) = UNION {writes(r, pic) : r \in rows, pic \in places}
  BY DEF MatrixWrites, GridRowIn, FirstIndex, ColumnsUpTo
<1> HIDE DEF places, columns, write
<1>2. \A r, pic : p \in writes(r, pic) <=> \E c \in columns(r, pic) : p = write(r, pic, c)
  OBVIOUS
<1> HIDE DEF rows, writes
<1>3. p \in MatrixWrites(L, m, s) <=> \E r \in rows, pic \in places : p \in writes(r, pic)
  BY <1>1
<1> QED
  BY <1>2, <1>3 DEF rows, places, columns, write

\* The columns a worker takes are those of the matrix whose payloads are of the shard.
LEMMA ColumnsTaken ==
  ASSUME NEW start \in Nat, NEW end \in Nat, NEW first \in Nat, NEW width \in Int, NEW c \in Int
  PROVE  c \in Min(SaturatingSub(start, first), width) .. Min(SaturatingSub(end, first), width) - 1
         <=> 0 <= c /\ c < width /\ start <= first + c /\ first + c < end
BY DEF Min, SaturatingSub

\* A worker's matrix, row and column of a payload are those of its place.
LEMMA SamePlace ==
  ASSUME NEW L \in Layouts, NEW rg \in Nat, NEW bl \in 0 .. ColumnBlocks(L) - 1,
         NEW r \in 0 .. RowsPerGroup(L) - 1, rg * RowsPerGroup(L) + r < L.gridRows,
         NEW pic \in 0 .. PayloadsPerColumn(L) - 1,
         NEW c \in 0 .. L.n - 1, bl * L.n + c < L.cols
  PROVE  LET m == rg * ColumnBlocks(L) + bl
             i == IndexAt(L, rg * RowsPerGroup(L) + r, pic, bl * L.n + c)
         IN /\ m \div ColumnBlocks(L) = rg /\ m % ColumnBlocks(L) = bl
            /\ FirstIndex(L, m, r, pic) \in Nat /\ FirstIndex(L, m, r, pic) + c = i
            /\ i \in Indices(L)
            /\ Entry(L, i) = [matrix |-> m, row |-> RowOffset(L, r, pic), col |-> c, index |-> i]
<1> DEFINE rpg == RowsPerGroup(L)
           cb == ColumnBlocks(L)
           ppg == PayloadsPerGridRow(L)
           ppc == PayloadsPerColumn(L)
           n == L.n
           cols == L.cols
           m == rg * cb + bl
           g == rg * rpg + r
           col == bl * n + c
           i == IndexAt(L, g, pic, col)
<1>1. /\ rpg \in Nat \ {0} /\ cb \in Nat \ {0} /\ ppg \in Nat \ {0} /\ ppc \in Nat \ {0}
      /\ n \in Nat \ {0} /\ cols \in Nat \ {0} /\ L.gridRows \in Nat
  BY Sizes
<1>2. m \in Nat /\ m \div cb = rg /\ m % cb = bl
  BY <1>1, QuotientOf
<1>3. g \in Nat /\ g \div rpg = rg /\ g % rpg = r
  BY <1>1, QuotientOf
<1>4. bl \in Nat /\ col \in Nat /\ col \div n = bl /\ col % n = c
  <2>1. bl \in Nat
    BY <1>1
  <2> QED
    BY <1>1, <2>1, QuotientOf
<1>5. g \in 0 .. L.gridRows - 1 /\ col \in 0 .. cols - 1 /\ pic \in 0 .. ppc - 1
  <2>1. g < L.gridRows /\ col < cols
    OBVIOUS
  <2> HIDE DEF g, col, cols
  <2> QED
    BY <1>1, <1>3, <1>4, <2>1
<1>6. i \in Indices(L) /\ GridRow(L, i) = g /\ InColumn(L, i) = pic /\ Column(L, i) = col
  BY <1>5, IndexOfPlace
<1>7. FirstIndex(L, m, r, pic) \in Nat /\ FirstIndex(L, m, r, pic) + c = i
  <2> DEFINE a == g * ppg
             b == pic * cols
             d == bl * n
  <2>1. a \in Nat /\ b \in Nat /\ d \in Nat /\ c \in Nat
    <3>1. pic \in Nat /\ c \in Nat /\ ppg \in Nat /\ cols \in Nat /\ n \in Nat
      BY <1>1, <1>5
    <3> HIDE DEF g, n, cols, ppg
    <3> QED
      BY <1>3, <1>4, <3>1, Product
  <2>2. GridRowIn(L, m, r) = g
    BY <1>2 DEF GridRowIn
  <2>3. FirstIndex(L, m, r, pic) = a + b + d
    BY <1>2, <2>2 DEF FirstIndex
  <2>4. i = a + (b + (d + c))
    BY DEF IndexAt
  <2> HIDE DEF a, b, d, i, m
  <2> QED
    BY <2>1, <2>3, <2>4
<1>8. Entry(L, i) = [matrix |-> m, row |-> RowOffset(L, r, pic), col |-> c, index |-> i]
  <2> HIDE DEF g, col, i
  <2> QED
    BY <1>3, <1>4, <1>6 DEF Entry, RowOffset, g, col
<1> QED
  BY <1>2, <1>6, <1>7, <1>8

\* Whatever a worker writes in a matrix is a payload of the shard, at its address.
LEMMA WritesAtAddresses ==
  ASSUME NEW L \in Layouts, NEW m \in 0 .. NumMatrices(L) - 1, NEW s,
         s.start \in Nat, s.end \in Nat, NEW p \in MatrixWrites(L, m, s)
  PROVE  /\ p.index \in Indices(L) /\ p = Entry(L, p.index)
         /\ s.start <= p.index /\ p.index < s.end
<1> DEFINE rpg == RowsPerGroup(L)
           cb == ColumnBlocks(L)
           n == L.n
           rg == m \div cb
           bl == m % cb
<1>1. PICK r \in 0 .. rpg - 1, pic \in 0 .. PayloadsPerColumn(L) - 1 :
        /\ GridRowIn(L, m, r) < L.gridRows
        /\ \E c \in ColumnsUpTo(L, m, r, pic, s.start) .. ColumnsUpTo(L, m, r, pic, s.end) - 1 :
             p = [matrix |-> m, row |-> RowOffset(L, r, pic), col |-> c,
                  index |-> FirstIndex(L, m, r, pic) + c]
  BY MatrixWritesAre
<1>2. PICK c \in ColumnsUpTo(L, m, r, pic, s.start) .. ColumnsUpTo(L, m, r, pic, s.end) - 1 :
             p = [matrix |-> m, row |-> RowOffset(L, r, pic), col |-> c,
                  index |-> FirstIndex(L, m, r, pic) + c]
  BY <1>1
<1>3. /\ cb \in Nat \ {0} /\ rpg \in Nat \ {0} /\ n \in Nat \ {0} /\ L.cols \in Nat
      /\ NumMatrices(L) \in Nat /\ PayloadsPerGridRow(L) \in Nat /\ PayloadsPerColumn(L) \in Nat
  BY Sizes
<1>4. m \in Nat
  BY <1>3
<1>5. rg \in Nat /\ bl \in 0 .. cb - 1 /\ m = rg * cb + bl
  BY <1>3, <1>4, Quotient
<1> DEFINE width == Width(L, bl)
           first == FirstIndex(L, m, r, pic)
<1>6. /\ first \in Nat /\ width \in Int
      /\ \A x \in Int : x < width => x < n /\ bl * n + x < L.cols
  <2>1. bl \in Nat /\ bl * n \in Nat
    <3>1. bl \in Nat
      BY <1>3, <1>5
    <3> QED
      BY <1>3, <3>1, Product
  <2>2. width = Min(L.cols - bl * n, n)
    BY DEF Width
  <2>3. first = (rg * rpg + r) * PayloadsPerGridRow(L) + pic * L.cols + bl * n
    BY DEF FirstIndex, GridRowIn
  <2> HIDE DEF width, first, rg, bl, rpg, n
  <2>4. /\ rg * rpg \in Nat /\ r \in Nat /\ pic \in Nat
    BY <1>3, <1>5, Product
  <2>5. /\ rg * rpg + r \in Nat
    BY <2>4
  <2>6. (rg * rpg + r) * PayloadsPerGridRow(L) \in Nat /\ pic * L.cols \in Nat
    BY <1>3, <2>4, <2>5, Product
  <2>7. first \in Nat
    BY <2>1, <2>3, <2>6
  <2> DEFINE d == bl * n
  <2> HIDE DEF d
  <2>8. width \in Int /\ \A x \in Int : x < width => x < n /\ d + x < L.cols
    <3>1. d \in Nat /\ width = Min(L.cols - d, n) /\ n \in Nat /\ L.cols \in Nat
      BY <1>3, <2>1, <2>2 DEF d
    <3> QED
      BY <3>1 DEF Min
  <2> QED
    BY <2>7, <2>8 DEF d
<1>7. c \in Int /\ c \in Min(SaturatingSub(s.start, first), width)
                          .. Min(SaturatingSub(s.end, first), width) - 1
  BY <1>2 DEF ColumnsUpTo
<1> HIDE DEF width, first
<1>8. 0 <= c /\ c < width /\ s.start <= first + c /\ first + c < s.end
  BY <1>6, <1>7, ColumnsTaken
<1>9. c \in 0 .. n - 1 /\ bl * n + c < L.cols
  BY <1>3, <1>6, <1>7, <1>8
<1>10. rg * rpg + r < L.gridRows
  BY <1>1 DEF GridRowIn
<1> DEFINE i == IndexAt(L, rg * rpg + r, pic, bl * n + c)
<1>11. /\ first + c = i /\ i \in Indices(L)
       /\ Entry(L, i) = [matrix |-> m, row |-> RowOffset(L, r, pic), col |-> c, index |-> i]
  <2> HIDE DEF rg, bl, i
  <2> QED
    BY <1>1, <1>5, <1>9, <1>10, SamePlace DEF first, i
<1> HIDE DEF i
<1>12. p = [matrix |-> m, row |-> RowOffset(L, r, pic), col |-> c, index |-> i]
  BY <1>2, <1>11 DEF first
<1>13. p.index = i /\ p = Entry(L, i)
  BY <1>11, <1>12
<1> QED
  BY <1>8, <1>11, <1>13

\* A payload of the shard is written by whoever walks its matrix.
LEMMA AddressesWritten ==
  ASSUME NEW L \in Layouts, NEW i \in Indices(L), NEW s,
         s.start \in Nat, s.end \in Nat, s.start <= i, i < s.end
  PROVE  Entry(L, i) \in MatrixWrites(L, Entry(L, i).matrix, s)
<1> DEFINE rpg == RowsPerGroup(L)
           cb == ColumnBlocks(L)
           n == L.n
           g == GridRow(L, i)
           col == Column(L, i)
           pic == InColumn(L, i)
           rg == g \div rpg
           r == g % rpg
           bl == col \div n
           c == col % n
           m == rg * cb + bl
<1>1. /\ cb \in Nat \ {0} /\ rpg \in Nat \ {0} /\ n \in Nat \ {0} /\ L.cols \in Nat
      /\ L.gridRows \in Nat /\ PhysicalRows(L) \in Nat
  BY Sizes
<1>2. /\ rg \in 0 .. PhysicalRows(L) - 1 /\ r \in 0 .. rpg - 1 /\ g = rg * rpg + r
      /\ bl \in 0 .. cb - 1 /\ c \in 0 .. n - 1 /\ col = bl * n + c
  BY EntryParts
<1>3. g \in 0 .. L.gridRows - 1 /\ pic \in 0 .. PayloadsPerColumn(L) - 1 /\ col \in 0 .. L.cols - 1
      /\ i = IndexAt(L, g, pic, col)
  BY PlaceOfIndex
<1> HIDE DEF rpg, cb, n, g, col, pic, rg, r, bl, c
<1>4. rg \in Nat /\ rg * rpg + r < L.gridRows /\ bl * n + c < L.cols
  BY <1>1, <1>2, <1>3
<1>5. /\ m \div cb = rg /\ m % cb = bl
      /\ FirstIndex(L, m, r, pic) \in Nat /\ FirstIndex(L, m, r, pic) + c = i
      /\ Entry(L, i) = [matrix |-> m, row |-> RowOffset(L, r, pic), col |-> c, index |-> i]
  <2>1. i = IndexAt(L, rg * rpg + r, pic, bl * n + c)
    BY <1>2, <1>3
  <2> QED
    BY <1>2, <1>3, <1>4, <2>1, SamePlace DEF rpg, cb, n
<1> HIDE DEF m
<1>6. GridRowIn(L, m, r) = g /\ GridRowIn(L, m, r) < L.gridRows
  BY <1>2, <1>4, <1>5 DEF GridRowIn, cb, rpg
<1> DEFINE first == FirstIndex(L, m, r, pic)
           width == Width(L, bl)
<1>7. width \in Int /\ c < width /\ c \in Int /\ 0 <= c
  <2> DEFINE d == bl * n
  <2>1. d \in Nat /\ d + c < L.cols /\ width = Min(L.cols - d, n)
    <3>1. bl \in Nat
      BY <1>1, <1>2
    <3> QED
      BY <1>1, <1>4, <3>1, Product DEF Width, n
  <2> HIDE DEF d, width
  <2> QED
    BY <1>1, <1>2, <2>1 DEF Min
<1>8. c \in ColumnsUpTo(L, m, r, pic, s.start) .. ColumnsUpTo(L, m, r, pic, s.end) - 1
  <2>1. \A position : ColumnsUpTo(L, m, r, pic, position) = Min(SaturatingSub(position, first), width)
    BY <1>5 DEF ColumnsUpTo, cb
  <2>2. first \in Nat /\ s.start <= first + c /\ first + c < s.end
    BY <1>5
  <2> HIDE DEF first, width
  <2>3. c \in Min(SaturatingSub(s.start, first), width) .. Min(SaturatingSub(s.end, first), width) - 1
    BY <1>7, <2>2, ColumnsTaken
  <2> QED
    BY <2>1, <2>3
<1>9. Entry(L, i).matrix = m
  BY <1>5
<1>10. Entry(L, i) = [matrix |-> m, row |-> RowOffset(L, r, pic), col |-> c,
                      index |-> FirstIndex(L, m, r, pic) + c]
  BY <1>5
<1>11. Entry(L, i) \in MatrixWrites(L, m, s)
  BY <1>2, <1>3, <1>6, <1>8, <1>10, MatrixWritesAre DEF rpg
<1> QED
  BY <1>9, <1>11
-----------------------------------------------------------------------------
(* The matrices of a shard and how they are dealt *)

\* A shard that fits the database
Run(L, s) == s.start \in Nat /\ s.end \in Nat /\ s.start < s.end /\ s.end <= PayloadCapacity(L)

\* The window is a range of matrices, with those of every payload of the shard.
LEMMA WindowHolds ==
  ASSUME NEW L \in Layouts, NEW s, Run(L, s)
  PROVE  \E lo, hi \in 0 .. NumMatrices(L) - 1 :
           /\ lo <= hi /\ Window(L, s) = lo .. hi
           /\ \A i \in Indices(L) : s.start <= i /\ i < s.end => Entry(L, i).matrix \in lo .. hi
<1> DEFINE rpg == RowsPerGroup(L)
           cb == ColumnBlocks(L)
           ppg == PayloadsPerGridRow(L)
           num == NumMatrices(L)
           group(i) == (i \div ppg) \div rpg
           first == group(s.start)
           last == group(s.end - 1)
           lo == first * cb
           top == Min((last + 1) * cb, num)
<1>1. /\ rpg \in Nat \ {0} /\ cb \in Nat \ {0} /\ ppg \in Nat \ {0} /\ num \in Nat
      /\ PayloadCapacity(L) \in Nat /\ L.exponent \in Nat \ {0}
  BY Sizes
<1>2. /\ s.start \in Indices(L) /\ s.end - 1 \in Indices(L)
      /\ s.start \in Nat /\ s.end \in Nat /\ s.start < s.end
  BY <1>1 DEF Run, Indices
<1>3. Window(L, s) = lo .. top - 1
  BY DEF Window
<1>4. ASSUME NEW i \in Indices(L)
      PROVE  /\ group(i) \in Nat /\ Entry(L, i).matrix \in 0 .. num - 1
             /\ group(i) * cb <= Entry(L, i).matrix
             /\ Entry(L, i).matrix < (group(i) + 1) * cb
  <2> DEFINE rg == group(i)
             bl == Column(L, i) \div L.n
             m == Entry(L, i).matrix
  <2>1. PhysicalRows(L) \in Nat /\ 0 \in 0 .. L.exponent - 1
    BY <1>1, Sizes
  <2>2. rg \in Nat /\ bl \in 0 .. cb - 1
    <3>1. GridRow(L, i) \div rpg \in 0 .. PhysicalRows(L) - 1 /\ bl \in 0 .. cb - 1
      BY EntryParts
    <3> QED
      BY <2>1, <3>1 DEF GridRow
  <2>3. m = rg * cb + bl /\ m \in 0 .. num - 1
    BY <2>1, DigitsBelowEntry DEF Entry, GridRow
  <2> HIDE DEF rg, bl, m, cb
  <2>4. rg * cb \in Nat /\ (rg + 1) * cb = rg * cb + cb
    BY <1>1, <2>2, Product, OneMore
  <2>5. rg * cb <= m /\ m < (rg + 1) * cb
    BY <1>1, <2>2, <2>3, <2>4
  <2> QED
    BY <2>2, <2>3, <2>5 DEF rg, m
<1>5. ASSUME NEW i \in Indices(L), s.start <= i, i < s.end
      PROVE  first <= group(i) /\ group(i) <= last
  <2>1. i \in Nat /\ s.end - 1 \in Nat /\ i <= s.end - 1
    BY <1>1, <1>2, <1>5 DEF Indices
  <2>2. /\ s.start \div ppg \in Nat /\ i \div ppg \in Nat /\ (s.end - 1) \div ppg \in Nat
    BY <1>1, <1>2, <2>1, Quotient
  <2>3. s.start \div ppg <= i \div ppg /\ i \div ppg <= (s.end - 1) \div ppg
    BY <1>1, <1>2, <1>5, <2>1, QuotientMonotone
  <2> HIDE DEF ppg, rpg
  <2> QED
    BY <1>1, <2>2, <2>3, QuotientMonotone
<1>6. first \in Nat /\ last \in Nat
  BY <1>2, <1>4
<1> HIDE DEF group, first, last, cb, num
<1>7. lo \in Nat /\ (last + 1) * cb \in Nat /\ top \in Nat /\ top <= num
  <2>1. lo \in Nat /\ (last + 1) * cb \in Nat
    BY <1>1, <1>6, Product
  <2> HIDE DEF lo
  <2> QED
    BY <1>1, <2>1 DEF Min
<1>8. ASSUME NEW i \in Indices(L), s.start <= i, i < s.end
      PROVE  Entry(L, i).matrix \in lo .. top - 1
  <2> DEFINE m == Entry(L, i).matrix
             rg == group(i)
  <2>1. /\ rg \in Nat /\ m \in 0 .. num - 1 /\ rg * cb <= m /\ m < (rg + 1) * cb
        /\ first <= rg /\ rg <= last
    BY <1>4, <1>5, <1>8
  <2> HIDE DEF m, rg
  <2>2. first * cb <= rg * cb /\ (rg + 1) * cb <= (last + 1) * cb
    BY <1>1, <1>6, <2>1, ProductGrows
  <2>3. rg * cb \in Nat /\ (rg + 1) * cb \in Nat
    BY <1>1, <2>1, Product
  <2> DEFINE a == rg * cb
             b == (rg + 1) * cb
             c == (last + 1) * cb
  <2>4. /\ a \in Nat /\ b \in Nat /\ c \in Nat /\ lo <= a /\ b <= c /\ a <= m /\ m < b
        /\ top = Min(c, num) /\ m \in Nat /\ m < num
    BY <1>1, <1>7, <2>1, <2>2, <2>3
  <2> HIDE DEF a, b, c, lo, top
  <2>5. lo <= m /\ m < top
    BY <1>1, <1>7, <2>4 DEF Min
  <2>6. m \in lo .. top - 1
    BY <1>7, <2>4, <2>5
  <2> QED
    BY <2>6 DEF m
<1>9. lo \in 0 .. num - 1 /\ top - 1 \in 0 .. num - 1 /\ lo <= top - 1
  <2>1. Entry(L, s.start).matrix \in lo .. top - 1
    <3>1. s.start <= s.start
      BY <1>2
    <3> QED
      BY <1>2, <1>8, <3>1
  <2> HIDE DEF lo, top
  <2> QED
    BY <1>1, <1>7, <2>1
<1> HIDE DEF lo, top
<1> QED
  BY <1>3, <1>8, <1>9 DEF num

\* Every matrix of the window is in a chunk, and the chunks have no others.
LEMMA ChunksCover ==
  ASSUME budget \in Budgets, NEW L, NEW s, NEW lo \in Nat, NEW hi \in Nat,
         lo <= hi, Window(L, s) = lo .. hi
  PROVE  /\ \A j \in DOMAIN Chunks(L, s) : Chunks(L, s)[j] \subseteq lo .. hi
         /\ \A m \in lo .. hi : \E j \in DOMAIN Chunks(L, s) : m \in Chunks(L, s)[j]
<1> DEFINE window == lo .. hi
           count == Cardinality(window)
           per == DivCeil(count, NumWorkers(count))
           first == CHOOSE m \in window : \A o \in window : m <= o
           chunk(j) == {m \in window : j * per <= m - first /\ m - first < (j + 1) * per}
<1>1. Chunks(L, s) = [j \in 0 .. DivCeil(count, per) - 1 |-> chunk(j)]
  BY DEF Chunks
<1>2. count = hi - lo + 1 /\ count \in Nat \ {0}
  <2>1. Cardinality(lo .. hi) = IF lo > hi THEN 0 ELSE hi - lo + 1
    BY FS_Interval
  <2> QED
    BY <2>1
<1>3. budget \in Nat \ {0}
  BY LayoutAssumption
<1>4. first = lo
  OBVIOUS
<1> HIDE DEF count, first
<1>5. NumWorkers(count) \in Nat \ {0}
  BY <1>2, <1>3 DEF NumWorkers, Min
<1>6. per \in Nat \ {0}
  BY <1>2, <1>5, Ceiling
<1> HIDE DEF per
<1>7. DivCeil(count, per) \in Nat \ {0} /\ DivCeil(count, per) = (count - 1) \div per + 1
  BY <1>2, <1>6, Ceiling
<1>8. ASSUME NEW m \in window
      PROVE  \E j \in 0 .. DivCeil(count, per) - 1 : m \in chunk(j)
  <2> DEFINE d == m - first
             j == d \div per
  <2>1. d \in Nat /\ d <= count - 1 /\ count - 1 \in Nat
    BY <1>2, <1>4
  <2> HIDE DEF d
  <2>2. j \in Nat /\ (d % per) \in 0 .. per - 1 /\ d = j * per + (d % per)
    BY <1>6, <2>1, Quotient
  <2>3. j <= (count - 1) \div per /\ (count - 1) \div per \in Nat
    BY <1>6, <2>1, QuotientMonotone, Quotient
  <2> HIDE DEF j
  <2>4. j * per \in Nat /\ (j + 1) * per = j * per + per
    BY <1>6, <2>2, Product, OneMore
  <2>5. j * per <= d /\ d < (j + 1) * per
    BY <1>6, <2>1, <2>2, <2>4
  <2>6. m \in chunk(j)
    BY <2>5 DEF d
  <2>7. j \in 0 .. DivCeil(count, per) - 1
    BY <1>7, <2>2, <2>3
  <2> QED
    BY <2>6, <2>7
<1>9. \A j : chunk(j) \subseteq window
  OBVIOUS
<1> HIDE DEF chunk
<1> QED
  BY <1>1, <1>8, <1>9

\* The workers write the payloads of the shard, all of them, at their addresses.
LEMMA PlanIsShard ==
  ASSUME budget \in Budgets, NEW L \in Layouts, NEW s, Run(L, s)
  PROVE  /\ \A j \in DOMAIN Plan(L, s) : \A p \in Plan(L, s)[j] :
              /\ p.index \in Indices(L) /\ p = Entry(L, p.index)
              /\ s.start <= p.index /\ p.index < s.end
         /\ \A i \in Indices(L) : s.start <= i /\ i < s.end =>
              \E j \in DOMAIN Plan(L, s) : Entry(L, i) \in Plan(L, s)[j]
<1> DEFINE chunks == Chunks(L, s)
<1>1. Plan(L, s) = [j \in DOMAIN chunks |-> UNION {MatrixWrites(L, m, s) : m \in chunks[j]}]
  BY DEF Plan
<1>2. PICK lo \in 0 .. NumMatrices(L) - 1, hi \in 0 .. NumMatrices(L) - 1 :
        /\ lo <= hi /\ Window(L, s) = lo .. hi
        /\ \A i \in Indices(L) : s.start <= i /\ i < s.end => Entry(L, i).matrix \in lo .. hi
  BY WindowHolds
<1>3. NumMatrices(L) \in Nat
  BY Sizes
<1>4. lo \in Nat /\ hi \in Nat
  BY <1>3
<1>5. /\ \A j \in DOMAIN chunks : chunks[j] \subseteq lo .. hi
      /\ \A m \in lo .. hi : \E j \in DOMAIN chunks : m \in chunks[j]
  BY <1>2, <1>4, ChunksCover
<1> HIDE DEF chunks
<1>6. ASSUME NEW j \in DOMAIN Plan(L, s), NEW p \in Plan(L, s)[j]
      PROVE  /\ p.index \in Indices(L) /\ p = Entry(L, p.index)
             /\ s.start <= p.index /\ p.index < s.end
  <2>1. PICK m \in chunks[j] : p \in MatrixWrites(L, m, s)
    BY <1>1, <1>6
  <2>2. m \in 0 .. NumMatrices(L) - 1
    <3>1. m \in lo .. hi
      BY <1>1, <1>5, <1>6
    <3> QED
      BY <1>3, <3>1
  <2> QED
    BY <2>1, <2>2, WritesAtAddresses DEF Run
<1>7. ASSUME NEW i \in Indices(L), s.start <= i, i < s.end
      PROVE  \E j \in DOMAIN Plan(L, s) : Entry(L, i) \in Plan(L, s)[j]
  <2>1. PICK j \in DOMAIN chunks : Entry(L, i).matrix \in chunks[j]
    BY <1>2, <1>5, <1>7
  <2>2. Entry(L, i) \in MatrixWrites(L, Entry(L, i).matrix, s)
    BY <1>7, AddressesWritten DEF Run
  <2> QED
    BY <1>1, <2>1, <2>2
<1> QED
  BY <1>6, <1>7
-----------------------------------------------------------------------------
(* The invariant *)

\* What stands at i's address in a store f
Read(f, L, i) ==
  LET v == f[DigitOf(L, i, 0)].value
  IN IF \A k \in 0 .. L.exponent - 1 :
          f[DigitOf(L, i, k)] = [value |-> v, k |-> IF v = Blank THEN 0 ELSE k]
     THEN v ELSE Torn

\* payload() reads at the address it computes.
LEMMA PayloadIsRead ==
  ASSUME NEW i
  PROVE  Payload(i) = Read(cells, layout, i) /\ Payload(i)' = Read(cells', layout', i)
BY DEF Payload, Read, DigitOf

\* A payload has a first digit.
LEMMA FirstDigit ==
  ASSUME NEW L \in Layouts
  PROVE  0 \in 0 .. L.exponent - 1
<1>1. L.exponent \in Nat \ {0}
  BY Sizes
<1> QED
  BY <1>1

\* A payload whose digits are all of one value that is not zero is that value.
LEMMA HeldIsRead ==
  ASSUME NEW L \in Layouts, NEW f, NEW i, NEW v, v # Blank,
         \A k \in 0 .. L.exponent - 1 : f[DigitOf(L, i, k)] = [value |-> v, k |-> k]
  PROVE  Read(f, L, i) = v
<1>1. f[DigitOf(L, i, 0)] = [value |-> v, k |-> 0]
  BY FirstDigit
<1> QED
  BY <1>1 DEF Read

\* Reading depends on the payload's own coefficients only.
LEMMA SameRead ==
  ASSUME NEW L \in Layouts, NEW f, NEW g, NEW i,
         \A k \in 0 .. L.exponent - 1 : f[DigitOf(L, i, k)] = g[DigitOf(L, i, k)]
  PROVE  Read(f, L, i) = Read(g, L, i)
<1>1. f[DigitOf(L, i, 0)] = g[DigitOf(L, i, 0)]
  BY FirstDigit
<1> QED
  BY <1>1 DEF Read

ShapeInv ==
  /\ layout \in Layouts /\ budget \in Budgets
  /\ DOMAIN cells = Cells(layout)
  /\ shard.start \in Nat /\ shard.end \in Nat /\ shard.start <= shard.end
  /\ shard.end <= PayloadCapacity(layout)
  /\ failed \in BOOLEAN /\ shards \in 0 .. MaxShards
  /\ DOMAIN before = Indices(layout)

\* What a worker has still to do are payloads of the shard at their addresses.
TodoInv ==
  \A j \in DOMAIN todo : \A p \in todo[j] :
    p.index \in Indices(layout) /\ InShard(p.index) /\ p = Entry(layout, p.index) /\ shards # 0

\* A payload of the shard that is not written is still to be written, unless its worker
\* panicked.
ProgressInv ==
  \A i \in Indices(layout) :
    IF InShard(i)
    THEN Payload(i) = New(i) \/ failed \/ \E j \in DOMAIN todo : Entry(layout, i) \in todo[j]
    ELSE Payload(i) = before[i]

IInv == ShapeInv /\ TodoInv /\ ProgressInv /\ PayloadsWhole /\ PaddingStaysZero
-----------------------------------------------------------------------------
(* Every step keeps the invariant *)

\* At first all cells are zero and no worker has anything to write.
LEMMA InitInvariant ==
  ASSUME Init
  PROVE  IInv
<1>1. /\ layout \in Layouts /\ budget \in Budgets
      /\ cells = [c \in Cells(layout) |-> BlankDigit]
      /\ shard = [start |-> 0, end |-> 0] /\ todo = << >> /\ failed = FALSE /\ shards = 0
      /\ before = [i \in Indices(layout) |-> Blank]
  BY DEF Init
<1>2. MaxShards \in Nat /\ PayloadCapacity(layout) \in Nat
  BY <1>1, Sizes, LayoutAssumption
<1>3. ShapeInv
  <2>1. shard.start = 0 /\ shard.end = 0 /\ 0 <= 0 /\ 0 <= PayloadCapacity(layout)
        /\ 0 \in Nat /\ 0 \in 0 .. MaxShards
    BY <1>1, <1>2
  <2>2. DOMAIN cells = Cells(layout) /\ DOMAIN before = Indices(layout)
    BY <1>1
  <2> QED
    BY <1>1, <2>1, <2>2 DEF ShapeInv
<1>4. TodoInv
  BY <1>1 DEF TodoInv
<1>5. ASSUME NEW i \in Indices(layout)
      PROVE  ~InShard(i) /\ Payload(i) = before[i]
  <2>1. ~InShard(i)
    <3>1. i \in Nat
      BY <1>2 DEF Indices
    <3> QED
      BY <1>1, <3>1 DEF InShard
  <2>2. \A k \in 0 .. layout.exponent - 1 : cells[DigitOf(layout, i, k)] = BlankDigit
    BY <1>1, DigitsBelowEntry
  <2>3. cells[DigitOf(layout, i, 0)] = BlankDigit
    BY <1>1, <2>2, FirstDigit
  <2>4. Read(cells, layout, i) = Blank
    BY <2>2, <2>3 DEF Read, BlankDigit
  <2> QED
    BY <1>1, <2>1, <2>4, PayloadIsRead
<1>6. ProgressInv /\ PayloadsWhole
  BY <1>5 DEF ProgressInv, PayloadsWhole
<1>7. PaddingStaysZero
  BY <1>1 DEF PaddingStaysZero
<1> QED
  BY <1>3, <1>4, <1>6, <1>7 DEF IInv

\* A shard that begins finds all payloads as they are, and is all to be written.
LEMMA BeginInvariant ==
  ASSUME IInv, NEW start \in Indices(layout), NEW len \in Lens, Begin(start, len)
  PROVE  IInv'
<1>1. /\ shards < MaxShards /\ start + len <= PayloadCapacity(layout)
      /\ shard' = [start |-> start, end |-> start + len]
      /\ todo' = Plan(layout, shard') /\ failed' = FALSE /\ shards' = shards + 1
      /\ before' = [i \in Indices(layout) |-> Payload(i)]
      /\ UNCHANGED <<layout, budget, cells>>
  BY DEF Begin
<1>2. layout \in Layouts /\ budget \in Budgets /\ shards \in 0 .. MaxShards
  BY DEF IInv, ShapeInv
<1>3. PayloadCapacity(layout) \in Nat /\ MaxShards \in Nat /\ len \in Nat \ {0}
  BY <1>2, Sizes, LayoutAssumption
<1>4. start \in Nat
  BY <1>3 DEF Indices
<1>5. shard'.start = start /\ shard'.end = start + len
  BY <1>1
<1>6. Run(layout, shard')
  BY <1>1, <1>3, <1>4, <1>5 DEF Run
<1>7. ShapeInv'
  <2>1. /\ shard'.start \in Nat /\ shard'.end \in Nat /\ shard'.start <= shard'.end
        /\ shard'.end <= PayloadCapacity(layout)
    BY <1>6 DEF Run
  <2>2. shards' \in 0 .. MaxShards
    BY <1>1, <1>2, <1>3
  <2>3. DOMAIN before' = Indices(layout) /\ failed' \in BOOLEAN
    BY <1>1
  <2> QED
    BY <1>1, <2>1, <2>2, <2>3 DEF IInv, ShapeInv
<1>8. /\ \A j \in DOMAIN todo' : \A p \in todo'[j] :
           /\ p.index \in Indices(layout) /\ p = Entry(layout, p.index)
           /\ shard'.start <= p.index /\ p.index < shard'.end
      /\ \A i \in Indices(layout) : shard'.start <= i /\ i < shard'.end =>
           \E j \in DOMAIN todo' : Entry(layout, i) \in todo'[j]
  BY <1>1, <1>2, <1>6, PlanIsShard
<1>9. TodoInv'
  <2>1. shards' # 0
    BY <1>1, <1>2, <1>3
  <2> QED
    BY <1>1, <1>8, <2>1 DEF TodoInv, InShard
<1>10. \A i \in Indices(layout) : Payload(i)' = before'[i]
  BY <1>1, PayloadIsRead
<1>11. ProgressInv'
  BY <1>1, <1>8, <1>10 DEF ProgressInv, InShard
<1>12. PayloadsWhole'
  BY <1>1, <1>10 DEF PayloadsWhole
<1>13. PaddingStaysZero'
  BY <1>1 DEF IInv, PaddingStaysZero
<1> QED
  BY <1>7, <1>9, <1>11, <1>12, <1>13 DEF IInv

\* A payload that is written is the new one, and no other payload and no padding is touched.
LEMMA WriteInvariant ==
  ASSUME IInv, NEW j \in DOMAIN todo, WritePayload(j)
  PROVE  IInv'
<1>1. UNCHANGED <<layout, budget, shard, failed, shards, before>>
  BY DEF WritePayload
<1>2. PICK p \in todo[j] :
        /\ cells' = [c \in DOMAIN cells |->
             IF c \in {[matrix |-> p.matrix, row |-> p.row + k, col |-> p.col] :
                         k \in 0 .. layout.exponent - 1}
             THEN [value |-> <<shards, p.index - shard.start>>, k |-> c.row - p.row]
             ELSE cells[c]]
        /\ todo' = [todo EXCEPT ![j] = todo[j] \ {p}]
  BY DEF WritePayload
<1> DEFINE x == p.index
           written == {DigitOf(layout, x, k) : k \in 0 .. layout.exponent - 1}
<1>3. /\ layout \in Layouts /\ x \in Indices(layout) /\ InShard(x) /\ p = Entry(layout, x)
      /\ shards # 0 /\ DOMAIN cells = Cells(layout)
  BY DEF IInv, TodoInv, ShapeInv
<1>4. /\ p.row \in Nat
      /\ \A k \in 0 .. layout.exponent - 1 :
           /\ DigitOf(layout, x, k) = [matrix |-> p.matrix, row |-> p.row + k, col |-> p.col]
           /\ DigitOf(layout, x, k) \in Cells(layout)
  BY <1>3, FirstDigit, DigitsBelowEntry
<1>5. cells' = [c \in Cells(layout) |->
                  IF c \in written THEN [value |-> New(x), k |-> c.row - p.row] ELSE cells[c]]
  <2>1. {[matrix |-> p.matrix, row |-> p.row + k, col |-> p.col] :
           k \in 0 .. layout.exponent - 1} = written
    BY <1>4
  <2> QED
    BY <1>2, <1>3, <2>1 DEF New
<1> HIDE DEF x
<1>6. ASSUME NEW k \in 0 .. layout.exponent - 1
      PROVE  cells'[DigitOf(layout, x, k)] = [value |-> New(x), k |-> k]
  <2>1. DigitOf(layout, x, k) \in written /\ DigitOf(layout, x, k) \in Cells(layout)
        /\ DigitOf(layout, x, k).row = p.row + k
    BY <1>4
  <2>2. (p.row + k) - p.row = k
    BY <1>4
  <2> HIDE DEF written
  <2> QED
    BY <1>5, <2>1, <2>2
<1>7. Payload(x)' = New(x)
  <2>1. New(x) # Blank
    BY <1>3 DEF New, Blank
  <2>2. Read(cells', layout, x) = New(x)
    BY <1>3, <1>6, <2>1, HeldIsRead
  <2> QED
    BY <1>1, <2>2, PayloadIsRead
<1>8. ASSUME NEW i \in Indices(layout), i # x
      PROVE  Payload(i)' = Payload(i)
  <2>1. ASSUME NEW k \in 0 .. layout.exponent - 1
        PROVE  cells'[DigitOf(layout, i, k)] = cells[DigitOf(layout, i, k)]
    <3>1. DigitOf(layout, i, k) \notin written
      BY <1>3, <1>8, DigitsApart
    <3>2. DigitOf(layout, i, k) \in Cells(layout)
      BY <1>3, DigitsBelowEntry
    <3> HIDE DEF written
    <3> QED
      BY <1>5, <3>1, <3>2
  <2>2. Read(cells', layout, i) = Read(cells, layout, i)
    BY <1>3, <2>1, SameRead
  <2> QED
    BY <1>1, <2>2, PayloadIsRead
<1>9. \A i : New(i)' = New(i) /\ InShard(i)' = InShard(i)
  BY <1>1 DEF New, InShard
<1>10. /\ DOMAIN todo' = DOMAIN todo
       /\ \A l \in DOMAIN todo : todo'[l] \subseteq todo[l]
       /\ \A l \in DOMAIN todo : \A q \in todo[l] : q # p => q \in todo'[l]
  BY <1>2
<1>11. ShapeInv'
  BY <1>1, <1>3, <1>5 DEF IInv, ShapeInv
<1>12. TodoInv'
  <2> SUFFICES ASSUME NEW l \in DOMAIN todo', NEW q \in todo'[l]
               PROVE  /\ q.index \in Indices(layout) /\ InShard(q.index)
                      /\ q = Entry(layout, q.index) /\ shards # 0
    BY <1>1, <1>9 DEF TodoInv
  <2> QED
    BY <1>10 DEF IInv, TodoInv
<1>13. ProgressInv'
  <2> SUFFICES ASSUME NEW i \in Indices(layout)
               PROVE  IF InShard(i)
                      THEN Payload(i)' = New(i) \/ failed
                           \/ \E l \in DOMAIN todo' : Entry(layout, i) \in todo'[l]
                      ELSE Payload(i)' = before[i]
    BY <1>1, <1>9 DEF ProgressInv
  <2>1. CASE i = x
    BY <1>3, <1>7, <2>1
  <2>2. CASE i # x
    <3>1. Payload(i)' = Payload(i)
      BY <1>8, <2>2
    <3>2. Entry(layout, i) # p
      <4>1. Entry(layout, i).index = i
        BY DEF Entry
      <4> QED
        BY <2>2, <4>1 DEF x
    <3> QED
      BY <1>10, <3>1, <3>2 DEF IInv, ProgressInv
  <2> QED
    BY <2>1, <2>2
<1>14. PayloadsWhole'
  <2> SUFFICES ASSUME NEW i \in Indices(layout)
               PROVE  Payload(i)' = before[i] \/ (InShard(i) /\ Payload(i)' = New(i))
    BY <1>1, <1>9 DEF PayloadsWhole
  <2> QED
    BY <1>3, <1>7, <1>8 DEF IInv, PayloadsWhole
<1>15. PaddingStaysZero'
  <2> SUFFICES ASSUME NEW c \in Cells(layout) \ UNION {PayloadCells(layout, i) : i \in Indices(layout)}
               PROVE  cells'[c] = BlankDigit
    BY <1>1 DEF PaddingStaysZero
  <2>1. c \notin written
    BY <1>3 DEF PayloadCells, DigitOf
  <2> HIDE DEF written
  <2>2. cells'[c] = cells[c]
    BY <1>5, <2>1
  <2> QED
    BY <2>2 DEF IInv, PaddingStaysZero
<1> QED
  BY <1>11, <1>12, <1>13, <1>14, <1>15 DEF IInv

\* A worker that panics leaves the payloads it has not reached as they were.
LEMMA PanicInvariant ==
  ASSUME IInv, NEW j \in DOMAIN todo, WorkerPanics(j)
  PROVE  IInv'
<1>1. /\ todo' = [todo EXCEPT ![j] = {}] /\ failed' = TRUE
      /\ UNCHANGED <<layout, budget, cells, shard, shards, before>>
  BY DEF WorkerPanics
<1>2. \A i : Payload(i)' = Payload(i) /\ New(i)' = New(i) /\ InShard(i)' = InShard(i)
  BY <1>1, PayloadIsRead DEF New, InShard
<1>3. ShapeInv'
  BY <1>1 DEF IInv, ShapeInv
<1>4. TodoInv'
  <2>1. DOMAIN todo' = DOMAIN todo /\ \A l \in DOMAIN todo : todo'[l] \subseteq todo[l]
    BY <1>1
  <2> SUFFICES ASSUME NEW l \in DOMAIN todo', NEW q \in todo'[l]
               PROVE  /\ q.index \in Indices(layout) /\ InShard(q.index)
                      /\ q = Entry(layout, q.index) /\ shards # 0
    BY <1>1, <1>2 DEF TodoInv
  <2> QED
    BY <2>1 DEF IInv, TodoInv
<1>5. ProgressInv'
  <2> SUFFICES ASSUME NEW i \in Indices(layout), ~InShard(i) PROVE Payload(i) = before[i]
    BY <1>1, <1>2 DEF ProgressInv
  <2> QED
    BY DEF IInv, ProgressInv
<1>6. PayloadsWhole'
  <2> SUFFICES ASSUME NEW i \in Indices(layout)
               PROVE  Payload(i) = before[i] \/ (InShard(i) /\ Payload(i) = New(i))
    BY <1>1, <1>2 DEF PayloadsWhole
  <2> QED
    BY DEF IInv, PayloadsWhole
<1>7. PaddingStaysZero'
  BY <1>1 DEF IInv, PaddingStaysZero
<1> QED
  BY <1>3, <1>4, <1>5, <1>6, <1>7 DEF IInv

\* Nothing changes.
LEMMA StutterInvariant ==
  ASSUME IInv, UNCHANGED vars
  PROVE  IInv'
<1>1. UNCHANGED <<layout, budget, cells, shard, todo, failed, shards, before>>
  BY DEF vars
<1>2. \A i : Payload(i)' = Payload(i) /\ New(i)' = New(i) /\ InShard(i)' = InShard(i)
  BY <1>1, PayloadIsRead DEF New, InShard
<1>3. ShapeInv'
  BY <1>1 DEF IInv, ShapeInv
<1>4. TodoInv'
  BY <1>1, <1>2 DEF IInv, TodoInv
<1>5. ProgressInv'
  BY <1>1, <1>2 DEF IInv, ProgressInv
<1>6. PayloadsWhole'
  BY <1>1, <1>2 DEF IInv, PayloadsWhole
<1>7. PaddingStaysZero'
  BY <1>1 DEF IInv, PaddingStaysZero
<1> QED
  BY <1>3, <1>4, <1>5, <1>6, <1>7 DEF IInv

\* Every step keeps the invariant.
LEMMA NextInvariant ==
  ASSUME IInv, [Next]_vars
  PROVE  IInv'
<1>1. ASSUME NEW start \in Indices(layout), NEW len \in Lens, Begin(start, len) PROVE IInv'
  BY <1>1, BeginInvariant
<1>2. ASSUME NEW j \in DOMAIN todo, WritePayload(j) PROVE IInv'
  BY <1>2, WriteInvariant
<1>3. ASSUME NEW j \in DOMAIN todo, WorkerPanics(j) PROVE IInv'
  BY <1>3, PanicInvariant
<1>4. CASE UNCHANGED vars
  BY <1>4, StutterInvariant
<1> QED
  BY <1>1, <1>2, <1>3, <1>4 DEF Next
-----------------------------------------------------------------------------
(* Stripes *)

\* Indices with the same quotient by cols are in the same rows of the same row group, and
\* others share no row.
LEMMA StripesAreRows ==
  ASSUME NEW L \in Layouts, NEW i \in Indices(L), NEW k \in Indices(L)
  PROVE  IF i \div L.cols = k \div L.cols THEN Rows(L, i) = Rows(L, k)
         ELSE Rows(L, i) \cap Rows(L, k) = {}
<1> DEFINE rpg == RowsPerGroup(L)
           cb == ColumnBlocks(L)
           ppc == PayloadsPerColumn(L)
           height == L.height
           exponent == L.exponent
           cols == L.cols
           rg(x) == GridRow(L, x) \div rpg
           r(x) == GridRow(L, x) % rpg
           pic(x) == InColumn(L, x)
           row(x, d) == r(x) * height + pic(x) * exponent + d
<1>1. /\ rpg \in Nat \ {0} /\ cb \in Nat \ {0} /\ ppc \in Nat \ {0} /\ height \in Nat \ {0}
      /\ exponent \in Nat \ {0} /\ cols \in Nat \ {0} /\ L.n \in Nat \ {0}
      /\ L.gridRows \in Nat /\ PhysicalRows(L) \in Nat
      /\ PayloadsPerGridRow(L) = ppc * cols
  BY Sizes
<1>2. ASSUME NEW x \in Indices(L)
      PROVE  Rows(L, x) = {<<rg(x), row(x, d)>> : d \in 0 .. exponent - 1}
  <2>1. ASSUME NEW d \in 0 .. exponent - 1
        PROVE  DigitOf(L, x, d).matrix \div cb = rg(x) /\ DigitOf(L, x, d).row = row(x, d)
    <3>1. DigitOf(L, x, d) = [matrix |-> rg(x) * cb + Column(L, x) \div L.n, row |-> row(x, d),
                              col |-> Column(L, x) % L.n]
      BY PlaceOfIndex DEF DigitOf, DigitCell
    <3>2. rg(x) \in 0 .. PhysicalRows(L) - 1 /\ Column(L, x) \div L.n \in 0 .. cb - 1
      BY EntryParts
    <3>3. (rg(x) * cb + Column(L, x) \div L.n) \div cb = rg(x)
      <4> DEFINE a == rg(x)
                 b == Column(L, x) \div L.n
      <4>1. a \in Nat /\ b \in 0 .. cb - 1
        BY <1>1, <3>2
      <4> HIDE DEF a, b, cb
      <4>2. (a * cb + b) \div cb = a
        BY <1>1, <4>1, QuotientOf
      <4> QED
        BY <4>2 DEF a, b
    <3> HIDE DEF rg, row
    <3> QED
      BY <3>1, <3>3
  <2>2. Rows(L, x) = {<<DigitOf(L, x, d).matrix \div cb, DigitOf(L, x, d).row>> :
                        d \in 0 .. exponent - 1}
    BY DEF Rows, PayloadCells, DigitOf
  <2> HIDE DEF rg, row, cb, exponent
  <2> QED
    BY <2>1, <2>2
<1>3. ASSUME NEW x \in Indices(L)
      PROVE  /\ GridRow(L, x) \in Nat /\ GridRow(L, x) = rg(x) * rpg + r(x)
             /\ rg(x) \in Nat /\ r(x) \in Nat
             /\ pic(x) \in 0 .. ppc - 1 /\ pic(x) \in Nat
             /\ pic(x) * exponent \in Nat /\ pic(x) * exponent + exponent <= height
             /\ x \div cols = GridRow(L, x) * ppc + pic(x)
  <2>1. /\ rg(x) \in 0 .. PhysicalRows(L) - 1 /\ r(x) \in 0 .. rpg - 1
        /\ GridRow(L, x) \in 0 .. L.gridRows - 1 /\ pic(x) \in 0 .. ppc - 1
        /\ GridRow(L, x) = rg(x) * rpg + r(x)
        /\ pic(x) * exponent \in Nat /\ pic(x) * exponent + exponent <= height
        /\ x = IndexAt(L, GridRow(L, x), pic(x), Column(L, x)) /\ Column(L, x) \in 0 .. cols - 1
    BY EntryParts, PlaceOfIndex
  <2>2. rg(x) \in Nat /\ r(x) \in Nat /\ GridRow(L, x) \in Nat /\ pic(x) \in Nat
    BY <1>1, <2>1
  <2>3. x \div cols = GridRow(L, x) * ppc + pic(x)
    <3> DEFINE g == GridRow(L, x)
               p == pic(x)
               c == Column(L, x)
    <3>1. /\ g \in Nat /\ p \in Nat /\ c \in 0 .. cols - 1 /\ x = g * (ppc * cols) + (p * cols + c)
      BY <1>1, <2>1, <2>2 DEF IndexAt
    <3> HIDE DEF g, p, c, ppc, cols
    <3>2. g * (ppc * cols) = (g * ppc) * cols
      BY <1>1, <3>1, SMT
    <3>3. (g * ppc + p) * cols = (g * ppc) * cols + p * cols
      BY <1>1, <3>1, SMT
    <3>4. g * ppc \in Nat /\ p * cols \in Nat /\ (g * ppc) * cols \in Nat
      BY <1>1, <3>1, Product
    <3>5. x = (g * ppc + p) * cols + c /\ g * ppc + p \in Nat
      BY <3>1, <3>2, <3>3, <3>4
    <3>6. x \div cols = g * ppc + p
      <4> DEFINE q == g * ppc + p
      <4>1. q \in Nat /\ x = q * cols + c /\ cols \in Nat \ {0} /\ c \in 0 .. cols - 1
        BY <1>1, <3>1, <3>5
      <4> HIDE DEF q
      <4>2. (q * cols + c) \div cols = q
        BY <4>1, QuotientOf
      <4> QED
        BY <4>1, <4>2 DEF q
    <3> QED
      BY <3>6 DEF g, p, ppc
  <2> QED
    BY <2>1, <2>2, <2>3
<1> HIDE DEF rg, r, pic, rpg, cb, ppc, height, exponent, cols
<1>4. CASE i \div cols = k \div cols
  <2>1. GridRow(L, i) = GridRow(L, k) /\ pic(i) = pic(k)
    <3> DEFINE a == GridRow(L, i)
               b == GridRow(L, k)
               p == pic(i)
               q == pic(k)
    <3>1. /\ a \in Nat /\ b \in Nat /\ p \in 0 .. ppc - 1 /\ q \in 0 .. ppc - 1
          /\ a * ppc + p = b * ppc + q
      BY <1>3, <1>4
    <3> HIDE DEF a, b, p, q
    <3>2. a = b /\ p = q
      BY <1>1, <3>1, OnePair
    <3> QED
      BY <3>2 DEF a, b, p, q
  <2>2. rg(i) = rg(k) /\ r(i) = r(k)
    BY <2>1 DEF rg, r
  <2> QED
    BY <1>2, <1>4, <2>1, <2>2 DEF cols
<1>5. CASE i \div cols # k \div cols
  <2> SUFFICES ASSUME NEW d \in 0 .. exponent - 1, NEW e \in 0 .. exponent - 1,
                      rg(i) = rg(k), row(i, d) = row(k, e)
               PROVE  FALSE
    BY <1>2, <1>5 DEF cols
  <2> DEFINE p == pic(i)
             q == pic(k)
             a == p * exponent + d
             b == q * exponent + e
             x == r(i)
             y == r(k)
  <2>1. /\ p \in Nat /\ q \in Nat /\ x \in Nat /\ y \in Nat
        /\ p * exponent \in Nat /\ p * exponent + exponent <= height
        /\ q * exponent \in Nat /\ q * exponent + exponent <= height
        /\ x * height + p * exponent + d = y * height + q * exponent + e
    BY <1>3
  <2> HIDE DEF p, q, x, y
  <2>2. a \in 0 .. height - 1 /\ b \in 0 .. height - 1
    BY <1>1, <2>1
  <2>3. x * height \in Nat /\ y * height \in Nat
    BY <1>1, <2>1, Product
  <2>4. x * height + a = y * height + b
    BY <1>1, <2>1, <2>3
  <2> HIDE DEF a, b
  <2>5. x = y /\ a = b
    BY <1>1, <2>1, <2>2, <2>4, OnePair
  <2>6. p = q
    <3>1. p * exponent + d = q * exponent + e
      BY <2>5 DEF a, b
    <3> QED
      BY <1>1, <2>1, <3>1, OnePair
  <2>7. GridRow(L, i) = GridRow(L, k) /\ pic(i) = pic(k)
    BY <1>3, <2>5, <2>6 DEF x, y, p, q
  <2>8. i \div cols = k \div cols
    BY <1>3, <2>7
  <2> QED
    BY <1>5, <2>8
<1> QED
  BY <1>4, <1>5 DEF cols

-----------------------------------------------------------------------------
(* The theorems *)

\* What workers have still to do and what they have done make up the shard, in every state.
THEOREM Invariance == Spec => []IInv
BY InitInvariant, NextInvariant, PTL DEF Spec

\* Every worker's writes are to coefficients that exist (the slices of
\* try_encode_shard stay within the matrices).
THEOREM TypeCorrect == Spec => []TypeOK
<1>1. ASSUME IInv PROVE TypeOK
  <2>1. /\ layout \in Layouts /\ budget \in Budgets /\ DOMAIN cells = Cells(layout)
        /\ failed \in BOOLEAN /\ shards \in 0 .. MaxShards /\ DOMAIN before = Indices(layout)
    BY <1>1 DEF IInv, ShapeInv
  <2>2. {shard.start, shard.end} \subseteq 0 .. PayloadCapacity(layout)
    <3>1. PayloadCapacity(layout) \in Nat
      BY <2>1, Sizes
    <3>2. shard.start \in Nat /\ shard.end \in Nat /\ shard.start <= shard.end
          /\ shard.end <= PayloadCapacity(layout)
      BY <1>1 DEF IInv, ShapeInv
    <3> QED
      BY <3>1, <3>2
  <2>3. ASSUME NEW j \in DOMAIN todo, NEW p \in todo[j]
        PROVE  /\ p.matrix < NumMatrices(layout) /\ p.col < layout.n
               /\ p.row + layout.exponent <= layout.n
               /\ p.index \in Indices(layout)
    <3>1. p.index \in Indices(layout) /\ p = Entry(layout, p.index)
      BY <1>1 DEF IInv, TodoInv
    <3>2. /\ p.matrix \in 0 .. NumMatrices(layout) - 1 /\ p.col \in 0 .. layout.n - 1
          /\ p.row + layout.exponent <= layout.n
      BY <2>1, <3>1, FirstDigit, DigitsBelowEntry
    <3>3. NumMatrices(layout) \in Nat /\ layout.n \in Nat
      BY <2>1, Sizes
    <3> QED
      BY <3>1, <3>2, <3>3
  <2> QED
    BY <2>1, <2>2, <2>3 DEF TypeOK
<1> QED
  BY <1>1, Invariance, PTL

\* Readers never see a payload that is part old and part new, panics included
\* (try_encode_shard, whose payloads are encoded before they are copied).
THEOREM WholePayloads == Spec => []PayloadsWhole
BY Invariance, PTL DEF IInv

\* However a shard is dealt to workers, what no payload owns stays zero.
THEOREM PaddingZero == Spec => []PaddingStaysZero
BY Invariance, PTL DEF IInv

\* A shard whose workers returned reads back as if it had been scattered in a loop, for
\* every shape, budget and run of shards.
THEOREM SequentialScatter == Spec => []ScatterIsSequential
<1>1. ASSUME IInv PROVE ScatterIsSequential
  <2> SUFFICES ASSUME Idle, ~failed, NEW i \in Indices(layout)
               PROVE  Payload(i) = IF InShard(i) THEN New(i) ELSE before[i]
    BY DEF ScatterIsSequential
  <2>1. ~\E j \in DOMAIN todo : Entry(layout, i) \in todo[j]
    BY DEF Idle
  <2> QED
    BY <1>1, <2>1 DEF IInv, ProgressInv
<1> QED
  BY <1>1, Invariance, PTL

\* Payloads share rows exactly if their indices have the same quotient by cols: what
\* the interpolation multiplies together are stripes of consecutive indices.
THEOREM StripesShare == Spec => []StripesShareRows
<1>1. ASSUME IInv PROVE StripesShareRows
  <2>1. layout \in Layouts
    BY <1>1 DEF IInv, ShapeInv
  <2> SUFFICES ASSUME NEW i \in Indices(layout), NEW k \in Indices(layout)
               PROVE  IF i \div layout.cols = k \div layout.cols
                      THEN Rows(layout, i) = Rows(layout, k)
                      ELSE Rows(layout, i) \cap Rows(layout, k) = {}
    BY <2>1 DEF StripesShareRows, StripesOf
  <2> QED
    BY <2>1, StripesAreRows
<1> QED
  BY <1>1, Invariance, PTL
-----------------------------------------------------------------------------
(* The shards as a server holds them: InterpolationServer, for every       *)
(* database, every number of clients and every history of failed offline   *)
(* runs                                                                    *)

\* What the three assignments of offline have stored at each of its places, and
\* what they leave alone until then.
PhaseStored ==
  /\ phase = "interpolated" => matrix = database
  /\ phase = "prepared" => preparedU = database
  /\ phase # "prepared" /\ ~torn => preparedU = published
  /\ ~torn => precomputations = published
  /\ published = Placeholder => precomputations = Placeholder

InspireIInv == InspireTypeOK /\ PhaseStored

LEMMA InspireShardType ==
  ASSUME NEW start \in Index, NEW vals \in ShardValues,
         database \in Databases, Accepts(database, start, vals)
  PROVE  EncodeShard(database, start, vals) \in Databases
<1>1. vals \in Seq(Values)
  BY InterpolationAssumption
<1>2. ASSUME NEW i \in Shard(start, Len(vals)) PROVE vals[i - start + 1] \in Values
  <2>1. i - start + 1 \in 1 .. Len(vals)
    BY <1>1 DEF Shard, Index
  <2> QED
    BY <1>1, <2>1
<1> QED
  BY <1>2 DEF EncodeShard, Databases

LEMMA InspireInitIInv == InspireInit => InspireIInv
<1> SUFFICES ASSUME InspireInit PROVE InspireIInv
  OBVIOUS
<1>1. Zeroed \in Databases
  BY DataAssumption DEF Zeroed, Databases
<1>2. masksReady \in BOOLEAN /\ torn \in BOOLEAN
  BY DEF InspireInit
<1> QED
  BY <1>1, <1>2 DEF InspireInit, InspireIInv, InspireTypeOK, PhaseStored, Stored

LEMMA InspireNextIInv == InspireIInv /\ [InspireNext]_inspireVars => InspireIInv'
<1> SUFFICES ASSUME InspireIInv, [InspireNext]_inspireVars PROVE InspireIInv'
  OBVIOUS
<1> USE DEF InspireIInv, InspireTypeOK, PhaseStored, Stored
<1>1. CASE GenerateQueryMask
  BY <1>1 DEF GenerateQueryMask
<1>2. ASSUME NEW start \in Index, NEW vals \in ShardValues, UpdateShard(start, vals)
      PROVE  InspireIInv'
  <2>1. EncodeShard(database, start, vals) \in Databases
    BY <1>2, InspireShardType DEF UpdateShard
  <2> QED
    BY <1>2, <2>1 DEF UpdateShard
<1>3. CASE Interpolate
  BY <1>3 DEF Interpolate
<1>4. CASE InterpolatePanics
  BY <1>4 DEF InterpolatePanics
<1>5. CASE PrepareU
  BY <1>5 DEF PrepareU
<1>6. CASE PackPrecompute
  BY <1>6, DataAssumption DEF PackPrecompute
<1>7. CASE Panics
  BY <1>7 DEF Panics
<1>8. ASSUME NEW c \in Clients, NEW batch \in Batches, RespondBatch(c, batch)
      PROVE  InspireIInv'
  BY <1>8 DEF RespondBatch
<1>9. ASSUME NEW load \in Loads, Encode(load) PROVE InspireIInv'
  BY <1>9, InterpolationAssumption DEF Encode
<1>10. CASE UNCHANGED inspireVars
  BY <1>10 DEF inspireVars
<1> QED
  BY <1>1, <1>2, <1>3, <1>4, <1>5, <1>6, <1>7, <1>8, <1>9, <1>10 DEF InspireNext

THEOREM InspireInvariance == InspireSpec => []InspireIInv
<1> QED
  BY InspireInitIInv, InspireNextIInv, PTL DEF InspireSpec

\* Every variable keeps its type.
THEOREM InspireTypeCorrect == InspireSpec => []InspireTypeOK
<1>1. InspireIInv => InspireTypeOK
  BY DEF InspireIInv
<1> QED
  BY <1>1, InspireInvariance, PTL

\* Panels and precomputations belong to one database between offline runs
\* (server/interpolation/offline.rs), unless a run failed between the two.
THEOREM OneSnapshot == InspireSpec => []ServesOneSnapshot
<1>1. InspireIInv => ServesOneSnapshot
  BY DEF InspireIInv, PhaseStored, ServesOneSnapshot
<1> QED
  BY <1>1, InspireInvariance, PTL

LEMMA RepliesOnlyByRespond ==
  ASSUME InspireIInv, [InspireNext]_inspireVars
  PROVE  UNCHANGED reply \/ \E c \in Clients, batch \in Batches : RespondBatch(c, batch)
BY DEF InspireNext, GenerateQueryMask, UpdateShard, Encode, Interpolate, InterpolatePanics, PrepareU,
       PackPrecompute, Panics, inspireVars

\* Every batch shows what the last completed offline published.
THEOREM PublishedOnly == InspireSpec => AnswersPublished
<1> DEFINE Shown ==
      \A c \in Clients : reply'[c] # reply[c] /\ ~torn =>
        \A i \in DOMAIN reply'[c] :
          published \in Databases /\ reply'[c][i] = published[i]
<1>1. ASSUME InspireIInv, [InspireNext]_inspireVars PROVE [Shown]_inspireVars
  <2>1. ASSUME NEW c \in Clients, NEW batch \in Batches, RespondBatch(c, batch), ~torn
        PROVE  Shown
    <3>1. PICK ans \in [batch -> Values \cup {Garbage}] :
             /\ \A i \in batch : ans[i] \in Answers(i)
             /\ reply' = [reply EXCEPT ![c] = ans]
      BY <2>1 DEF RespondBatch
    <3>2. ASSUME NEW i \in batch PROVE published \in Databases /\ ans[i] = published[i]
      BY <1>1, <2>1, <3>1 DEF RespondBatch, InspireIInv, InspireTypeOK, Stored, PhaseStored, Answers
    <3>3. ASSUME NEW d \in Clients, reply'[d] # reply[d] PROVE reply'[d] = ans
      BY <1>1, <3>1, <3>3 DEF InspireIInv, InspireTypeOK
    <3> QED
      BY <3>2, <3>3
  <2> QED
    BY <1>1, <2>1, RepliesOnlyByRespond
<1> QED
  BY <1>1, InspireInvariance, PTL DEF InspireSpec, AnswersPublished

\* Before a first offline has completed only empty batches are answered
\* (server/interpolation/online.rs refuses), torn offline runs or not.
THEOREM RefusesFirst == InspireSpec => RefusesBeforeFirstOffline
<1> DEFINE Refused ==
      \A c \in Clients : reply'[c] # reply[c] /\ published = Placeholder =>
        DOMAIN reply'[c] = {}
<1>1. ASSUME InspireIInv, [InspireNext]_inspireVars PROVE [Refused]_inspireVars
  <2>1. ASSUME NEW c \in Clients, NEW batch \in Batches, RespondBatch(c, batch),
               published = Placeholder
        PROVE  Refused
    <3>1. PICK ans \in [batch -> Values \cup {Garbage}] :
             reply' = [reply EXCEPT ![c] = ans]
      BY <2>1 DEF RespondBatch
    <3>2. batch = {}
      BY <1>1, <2>1 DEF RespondBatch, InspireIInv, PhaseStored
    <3>3. ASSUME NEW d \in Clients, reply'[d] # reply[d] PROVE reply'[d] = ans
      BY <1>1, <3>1, <3>3 DEF InspireIInv, InspireTypeOK
    <3> QED
      BY <3>2, <3>3
  <2> QED
    BY <1>1, <2>1, RepliesOnlyByRespond
<1> QED
  BY <1>1, InspireInvariance, PTL DEF InspireSpec, RefusesBeforeFirstOffline
=============================================================================

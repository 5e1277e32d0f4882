-------------------- MODULE InterpolationRoundTrip_proofs --------------------
(***************************************************************************)
(* Proof that the panels interpolate the database, whatever its shape, its *)
(* contents, the degree and the bases, and whether it is interpolated into *)
(* matrices of its own or in place.                                        *)
(*                                                                         *)
(* Idft is a recursive function over a recursive bit reversal.  Each is    *)
(* shown to run through its steps (Iterates), and a level of the transform *)
(* to double the length of the runs whose values at the roots are known:   *)
(* two values at a root of one level are one value at a root of the next   *)
(* (the lemmas on butterflies, over the integers and modulo the odd base). *)
(* So the last level's one run has, times t, the block rows as its values, *)
(* and the inverse of t modulo the odd base takes t away.                  *)
(*                                                                         *)
(* The invariant says which block columns are interpolated and which still *)
(* hold what was stored, in each of the two places panels are kept.        *)
(*                                                                         *)
(* From there to the answer: what a client writes is what the server reads *)
(* (The messages); the product with the one-hot blocks picks a column of a *)
(* panel, times the unit of the encoding, modulo the torus; a step of      *)
(* Horner's takes one more panel into a sum that is the column's value at  *)
(* the root of the block row when none is left; the sum is too small to    *)
(* wrap, so rounding gives it back, and modulo the odd base it is the      *)
(* digit stored, and the digits the payload.  RunInv says of every stage   *)
(* how far this has come, and which slots the workers have filled.         *)
(***************************************************************************)
EXTENDS InterpolationRoundTrip, WorkSplit_proofs

-----------------------------------------------------------------------------
(* Polynomials with integer coefficients, without reduction *)

\* A polynomial with integer coefficients
Ints(a) == \A i \in Coef : a[i] \in Int

\* The coefficient of X^e, as X^N = -1 gives it to the exponents beyond 0 .. N - 1
Turn(a, e) ==
  LET r == e % (2 * N) IN IF r < N THEN a[r] ELSE -a[r - N]

\* The degree is a positive number.
LEMMA DegreeIs == N \in Nat \ {0} /\ 2 * N \in Nat \ {0} /\ Coef = 0 .. N - 1
BY WireAssumption DEF Coef

\* An exponent is its rest, and a multiple of the period.
LEMMA TurnAt ==
  ASSUME NEW a, NEW r \in 0 .. 2 * N - 1, NEW q \in Int
  PROVE  /\ Turn(a, 2 * N * q + r) = IF r < N THEN a[r] ELSE -a[r - N]
         /\ Turn(a, r) = IF r < N THEN a[r] ELSE -a[r - N]
<1> DEFINE m == 2 * N
<1>1. m \in Nat \ {0} /\ r \in 0 .. m - 1
  BY DegreeIs
<1>2. m * q \in Int /\ m * 0 = 0
  BY <1>1, IntProduct
<1> HIDE DEF m
<1>3. (m * q + r) % m = r
  <2>1. m * q + r \in Int
    BY <1>1, <1>2
  <2> DEFINE e == m * q + r
  <2> HIDE DEF e
  <2> QED
    BY <1>1, <2>1, QuotientIs DEF e
<1>4. r % m = r
  BY <1>1, <1>2, QuotientIs
<1> QED
  BY <1>3, <1>4 DEF Turn, m

\* Every exponent is such a sum.
LEMMA Exponent ==
  ASSUME NEW e \in Int
  PROVE  \E q \in Int, r \in 0 .. 2 * N - 1 : e = 2 * N * q + r
<1> DEFINE m == 2 * N
<1>1. m \in Nat \ {0}
  BY DegreeIs
<1> HIDE DEF m
<1>2. e \div m \in Int /\ (e % m) \in 0 .. m - 1 /\ e = m * (e \div m) + (e % m)
  BY <1>1, IntQuotient
<1>3. \E q \in Int, r \in 0 .. m - 1 : e = m * q + r
  BY <1>2
<1> QED
  BY <1>3 DEF m

\* A coefficient of a polynomial with integer coefficients is an integer, at every exponent.
LEMMA TurnIs ==
  ASSUME NEW a, Ints(a), NEW e \in Int
  PROVE  Turn(a, e) \in Int
<1>1. PICK q \in Int, r \in 0 .. 2 * N - 1 : e = 2 * N * q + r
  BY Exponent
<1>2. Turn(a, e) = IF r < N THEN a[r] ELSE -a[r - N]
  BY <1>1, TurnAt
<1>3. CASE r < N
  <2>1. r \in Coef
    BY <1>3, DegreeIs
  <2> QED
    BY <1>2, <1>3, <2>1 DEF Ints
<1>4. CASE ~(r < N)
  <2>1. r - N \in Coef
    BY <1>4, DegreeIs
  <2>2. a[r - N] \in Int
    BY <2>1 DEF Ints
  <2> QED
    BY <1>2, <1>4, <2>2
<1> QED
  BY <1>3, <1>4

\* Exponents of the polynomial itself
LEMMA TurnSmall ==
  ASSUME NEW a, NEW i \in Coef
  PROVE  Turn(a, i) = a[i]
<1>1. i \in 0 .. 2 * N - 1 /\ i < N /\ 0 \in Int
  BY DegreeIs
<1> QED
  BY <1>1, TurnAt

\* A multiple of the period makes no difference ...
LEMMA TurnPeriod ==
  ASSUME NEW a, NEW e \in Int, NEW w \in Int
  PROVE  Turn(a, e + 2 * N * w) = Turn(a, e)
<1>1. PICK q \in Int, r \in 0 .. 2 * N - 1 : e = 2 * N * q + r
  BY Exponent
<1> DEFINE m == 2 * N
<1>2. m \in Nat \ {0}
  BY DegreeIs
<1> HIDE DEF m
<1>3. m * q + r + m * w = m * (q + w) + r
  BY <1>2, SMT
<1>4. q + w \in Int
  OBVIOUS
<1>5. Turn(a, m * (q + w) + r) = Turn(a, m * q + r)
  BY <1>4, TurnAt DEF m
<1>6. e = m * q + r
  BY <1>1 DEF m
<1>7. Turn(a, e + m * w) = Turn(a, m * (q + w) + r)
  BY <1>3, <1>6
<1> QED
  BY <1>5, <1>6, <1>7 DEF m

\* ... and half of it the sign.
LEMMA TurnHalf ==
  ASSUME NEW a, Ints(a), NEW e \in Int
  PROVE  Turn(a, e + N) = -Turn(a, e) /\ Turn(a, e - N) = -Turn(a, e)
<1>1. PICK q \in Int, r \in 0 .. 2 * N - 1 : e = 2 * N * q + r
  BY Exponent
<1>2. N \in Nat \ {0} /\ 2 * N \in Nat \ {0} /\ 2 * N = N + N /\ e \in Int
  BY DegreeIs
<1> DEFINE at(x) == Turn(a, x)
<1>3. at(e) \in Int
  BY TurnIs
<1>4. at(e + N) = -at(e)
  <2>1. CASE r < N
    <3>1. r + N \in 0 .. 2 * N - 1 /\ ~(r + N < N) /\ (r + N) - N = r /\ r \in Coef
      BY <1>2, <2>1, DegreeIs
    <3>2. e + N = 2 * N * q + (r + N)
      <4> DEFINE z == 2 * N * q
      <4>1. z \in Int
        BY <1>2, IntProduct
      <4>2. e = z + r
        BY <1>1
      <4> HIDE DEF z
      <4>3. e + N = z + (r + N)
        BY <1>2, <4>1, <4>2
      <4> QED
        BY <4>3 DEF z
    <3>3. at(e + N) = -a[r]
      BY <3>1, <3>2, TurnAt
    <3>4. at(e) = a[r]
      BY <1>1, <2>1, TurnAt
    <3> QED
      BY <3>3, <3>4
  <2>2. CASE ~(r < N)
    <3>1. r - N \in 0 .. 2 * N - 1 /\ r - N < N /\ q + 1 \in Int /\ r - N \in Coef
      BY <1>2, <2>2, DegreeIs
    <3>2. e + N = 2 * N * (q + 1) + (r - N)
      <4> DEFINE z == 2 * N * q
      <4>1. z \in Int
        BY <1>2, IntProduct
      <4>2. e = z + r
        BY <1>1
      <4>3. 2 * N * (q + 1) = z + (N + N)
        <5> DEFINE m == 2 * N
        <5>1. m \in Int /\ m = N + N
          BY <1>2
        <5> HIDE DEF m
        <5>2. m * (q + 1) = m * q + m
          BY <5>1, SMT
        <5> QED
          BY <5>1, <5>2 DEF m
      <4> HIDE DEF z
      <4>4. e + N = (z + (N + N)) + (r - N)
        BY <1>2, <4>1, <4>2
      <4> QED
        BY <4>3, <4>4
    <3>3. at(e + N) = a[r - N]
      BY <3>1, <3>2, TurnAt
    <3>4. at(e) = -a[r - N] /\ a[r - N] \in Int
      BY <1>1, <2>2, <3>1, TurnAt DEF Ints
    <3> HIDE DEF at
    <3>5. at(e + N) = -(-a[r - N])
      BY <3>3, <3>4
    <3> QED
      BY <3>4, <3>5
  <2> QED
    BY <2>1, <2>2
<1>5. at(e - N) = at(e + N)
  <2>1. e - N \in Int /\ 1 \in Int /\ 2 * N * 1 = N + N
    BY <1>2
  <2>2. at((e - N) + 2 * N * 1) = at(e - N)
    BY <2>1, TurnPeriod
  <2>3. (e - N) + 2 * N * 1 = e + N
    BY <1>2, <2>1
  <2> QED
    BY <2>2, <2>3
<1> QED
  BY <1>4, <1>5

\* What is said of coefficients modulo q, said of all exponents: a is b and d turned by s,
\* with the sign g.
Mixes(a, b, d, s, g, q) ==
  \A i \in Coef : Congruent(a[i], b[i] + g * Turn(d, i + s), q)

\* What holds between coefficients, up to multiples of q, holds at every exponent.
LEMMA TurnMixes ==
  ASSUME NEW a, NEW b, NEW d, Ints(a), Ints(b), Ints(d), NEW s \in Int, NEW g \in {-1, 1},
         NEW q \in Nat \ {0}, Mixes(a, b, d, s, g, q), NEW e \in Int
  PROVE  Congruent(Turn(a, e), Turn(b, e) + g * Turn(d, e + s), q)
<1>1. PICK z \in Int, r \in 0 .. 2 * N - 1 : e = 2 * N * z + r
  BY Exponent
<1>2. N \in Nat \ {0} /\ 2 * N \in Nat \ {0} /\ 2 * N = N + N /\ q \in Int /\ g \in Int
  BY DegreeIs
<1>3. /\ Turn(a, e) = IF r < N THEN a[r] ELSE -a[r - N]
      /\ Turn(b, e) = IF r < N THEN b[r] ELSE -b[r - N]
  BY <1>1, TurnAt
<1>4. Turn(d, e + s) = Turn(d, r + s)
  <2> DEFINE m == 2 * N * z
  <2>1. m \in Int
    BY <1>2, IntProduct
  <2>2. e + s = (r + s) + m
    <3>1. e = m + r
      BY <1>1
    <3> HIDE DEF m
    <3> QED
      BY <2>1, <3>1
  <2>3. r + s \in Int
    BY <1>2
  <2> QED
    BY <2>2, <2>3, TurnPeriod
<1>5. CASE r < N
  <2>1. r \in Coef
    BY <1>5, DegreeIs
  <2>2. Congruent(a[r], b[r] + g * Turn(d, r + s), q)
    BY <2>1 DEF Mixes
  <2> QED
    BY <1>3, <1>4, <1>5, <2>2
<1>6. CASE ~(r < N)
  <2> DEFINE i == r - N
             x == a[i]
             y == b[i]
             u == Turn(d, i + s)
  <2>1. i \in Coef /\ r = i + N /\ i + s \in Int
    BY <1>2, <1>6, DegreeIs
  <2>2. Congruent(x, y + g * u, q)
    BY <2>1 DEF Mixes
  <2>3. x \in Int /\ y \in Int /\ u \in Int
    BY <2>1, TurnIs DEF Ints
  <2>4. Turn(d, r + s) = -u
    <3>1. r + s = (i + s) + N
      BY <1>2, <2>1
    <3> HIDE DEF i
    <3> QED
      BY <2>1, <3>1, TurnHalf
  <2>5. Turn(a, e) = -x /\ Turn(b, e) = -y
    BY <1>3, <1>6
  <2> HIDE DEF x, y, u, i
  <2>6. g * u \in Int /\ g * (-u) = -(g * u)
    BY <1>2, <2>3, SMT
  <2>7. Congruent(-x, -(y + g * u), q)
    BY <1>2, <2>2, <2>3, <2>6, CongruentMinus
  <2>8. -(y + g * u) = -y + g * (-u)
    BY <2>3, <2>6
  <2> QED
    BY <1>4, <2>4, <2>5, <2>7, <2>8
<1> QED
  BY <1>5, <1>6

\* The same of a multiple
LEMMA TurnScales ==
  ASSUME NEW a, NEW b, Ints(a), Ints(b), NEW c \in Int, NEW q \in Nat \ {0},
         \A i \in Coef : Congruent(a[i], c * b[i], q), NEW e \in Int
  PROVE  Congruent(Turn(a, e), c * Turn(b, e), q)
<1>1. PICK z \in Int, r \in 0 .. 2 * N - 1 : e = 2 * N * z + r
  BY Exponent
<1>2. /\ Turn(a, e) = IF r < N THEN a[r] ELSE -a[r - N]
      /\ Turn(b, e) = IF r < N THEN b[r] ELSE -b[r - N]
  BY <1>1, TurnAt
<1>3. N \in Nat \ {0} /\ q \in Int
  BY DegreeIs
<1>4. CASE r < N
  <2>1. r \in Coef
    BY <1>4, DegreeIs
  <2> QED
    BY <1>2, <1>4, <2>1
<1>5. CASE ~(r < N)
  <2> DEFINE x == a[r - N]
             y == b[r - N]
  <2>1. r - N \in Coef
    BY <1>3, <1>5, DegreeIs
  <2>2. x \in Int /\ y \in Int /\ Congruent(x, c * y, q)
    BY <2>1 DEF Ints
  <2>3. Turn(a, e) = -x /\ Turn(b, e) = -y
    BY <1>2, <1>5
  <2> HIDE DEF x, y
  <2>4. c * y \in Int /\ c * (-y) = -(c * y)
    BY <2>2, SMT
  <2>5. Congruent(-x, -(c * y), q)
    BY <1>3, <2>2, <2>4, CongruentMinus
  <2> QED
    BY <2>3, <2>4, <2>5
<1> QED
  BY <1>4, <1>5

-----------------------------------------------------------------------------
(* Powers of two *)

\* The bounds up to which powers are known
Doubled == {N, WordBits, TorusBits} \cup {c.blockRows : c \in Calls}

\* Powers of two up to a known bound: positive, doubling, and beyond their exponents.
LEMMA TwoTo ==
  ASSUME NEW b \in Doubled, b \in Nat
  PROVE  /\ 2 ^ 0 = 1
         /\ \A k \in 0 .. b : 2 ^ k \in Nat \ {0} /\ k < 2 ^ k
         /\ \A k \in 0 .. b - 1 : 2 ^ (k + 1) = 2 * 2 ^ k
<1> DEFINE S == {k \in 0 .. b : 2 ^ k \in Nat \ {0} /\ k < 2 ^ k}
<1>1. 2 ^ 0 = 1 /\ \A k \in 0 .. b - 1 : 2 ^ (k + 1) = 2 * 2 ^ k
  BY PowersAssumption DEF Doubled
<1>2. 0 \in S
  BY <1>1
<1>3. ASSUME NEW k \in 0 .. b - 1, k \in S
      PROVE  k + 1 \in S
  <2> DEFINE p == 2 ^ k
             q == 2 ^ (k + 1)
  <2>1. p \in Nat \ {0} /\ k < p /\ q = 2 * p /\ k \in Nat /\ k + 1 \in 0 .. b
    BY <1>1, <1>3
  <2> HIDE DEF p, q
  <2>2. q \in Nat \ {0} /\ k + 1 < q
    BY <2>1
  <2> QED
    BY <2>1, <2>2 DEF q
<1> HIDE DEF S
<1>4. 0 .. b \subseteq S
  BY <1>2, <1>3, StepsReachAll
<1> QED
  BY <1>1, <1>4 DEF S

\* They grow.
LEMMA PowersGrow ==
  ASSUME NEW b \in Doubled, b \in Nat, NEW i \in 0 .. b, NEW j \in 0 .. b, i < j
  PROVE  2 ^ i < 2 ^ j
<1> DEFINE S == {d \in 0 .. j - i - 1 : 2 ^ i < 2 ^ (i + (d + 1))}
           n == j - i - 1
<1>1. n \in Nat /\ i \in Nat /\ j \in Nat /\ j = i + (n + 1)
  OBVIOUS
<1>2. 0 \in S
  <2> DEFINE p == 2 ^ i
             q == 2 ^ (i + 1)
  <2>1. p \in Nat \ {0} /\ q = 2 * p
    BY <1>1, TwoTo
  <2> HIDE DEF p, q
  <2>2. p < q
    BY <2>1
  <2>3. i + (0 + 1) = i + 1
    BY <1>1
  <2> QED
    BY <1>1, <2>2, <2>3 DEF p, q
<1>3. ASSUME NEW d \in 0 .. n - 1, d \in S
      PROVE  d + 1 \in S
  <2> DEFINE k == i + (d + 1)
             p == 2 ^ i
             q == 2 ^ k
             r == 2 ^ (k + 1)
  <2>1. k \in 0 .. b - 1 /\ k \in 0 .. b /\ i + ((d + 1) + 1) = k + 1 /\ d + 1 \in 0 .. n
    BY <1>1
  <2>2. p < q
    BY <1>3
  <2> HIDE DEF k
  <2>3. p \in Nat \ {0} /\ q \in Nat \ {0} /\ r = 2 * q
    BY <2>1, TwoTo
  <2> HIDE DEF p, q, r
  <2>4. p < r
    BY <2>2, <2>3
  <2> QED
    BY <2>1, <2>4 DEF p, r
<1>4. n \in S
  <2> HIDE DEF S, n
  <2>1. 0 .. n \subseteq S
    BY <1>1, <1>2, <1>3, StepsReachAll
  <2> QED
    BY <1>1, <2>1
<1> QED
  BY <1>1, <1>4

\* The bases of the digits.
LEMMA BasesAre ==
  /\ WordBits \in Nat \ {0, 1} /\ Word \in Nat /\ Word >= 4
  /\ OddBase \in Nat \ {0, 1} /\ OddBase \in Int /\ Word = OddBase + 1
<1> DEFINE b == WordBits
           w == 2 ^ b
           p == 2 ^ 1
<1>1. b \in Nat /\ b >= 2 /\ b \in Doubled
  BY CodecAssumption DEF Doubled
<1> HIDE DEF b
<1>2. 2 ^ 0 = 1 /\ 2 ^ (0 + 1) = 2 * 2 ^ 0 /\ w \in Nat
  BY <1>1, TwoTo
<1>3. p = 2
  BY <1>2
<1>4. w >= 4
  <2>1. 2 ^ (1 + 1) = 2 * p
    BY <1>1, TwoTo
  <2>2. 2 ^ 2 = 4
    BY <1>3, <2>1
  <2>3. CASE b = 2
    BY <2>2, <2>3
  <2>4. CASE b # 2
    <3>1. 2 \in 0 .. b /\ b \in 0 .. b /\ 2 < b
      BY <1>1, <2>4
    <3>2. 2 ^ 2 < 2 ^ b
      BY <1>1, <3>1, PowersGrow
    <3>3. 2 ^ 2 < w
      BY <3>2
    <3> HIDE DEF w
    <3> QED
      BY <1>2, <2>2, <3>3
  <2> QED
    BY <2>3, <2>4
<1>5. Word = w /\ OddBase = Word - 1
  BY DEF Word, OddBase, b
<1> HIDE DEF w
<1> QED
  BY <1>1, <1>2, <1>4, <1>5, CodecAssumption

-----------------------------------------------------------------------------
(* The rings *)

\* The rings' coefficients are the same, reduced.
LEMMA DigitsAt ==
  ASSUME NEW a, Ints(a), NEW e \in Int
  PROVE  Digits!At(a, e) \in Int /\ Congruent(Digits!At(a, e), Turn(a, e), OddBase)
<1> DEFINE r == e % (2 * N)
           x == -a[r - N]
<1>1. 2 * N \in Nat \ {0} /\ r \in 0 .. 2 * N - 1
  BY DegreeIs, IntQuotient
<1>2. /\ Digits!At(a, e) = IF r < N THEN a[r] ELSE x % OddBase
      /\ Turn(a, e) = IF r < N THEN a[r] ELSE x
  BY DEF Digits!At, Turn
<1> HIDE DEF r
<1>3. CASE r < N
  <2>1. r \in Coef
    BY <1>1, <1>3, DegreeIs
  <2>2. a[r] \in Int
    BY <2>1 DEF Ints
  <2>3. a[r] = a[r] + OddBase * 0
    BY <2>2, BasesAre
  <2> QED
    BY <1>2, <1>3, <2>2, <2>3 DEF Congruent
<1>4. CASE ~(r < N)
  <2>1. r - N \in Coef
    BY <1>1, <1>4, DegreeIs
  <2>2. x \in Int
    BY <2>1 DEF Ints
  <2> HIDE DEF x
  <2>3. Congruent(x % OddBase, x, OddBase) /\ (x % OddBase) \in Int
    BY <2>2, BasesAre, CongruentRest
  <2> QED
    BY <1>2, <1>4, <2>3
<1> QED
  BY <1>3, <1>4

-----------------------------------------------------------------------------
(* How many panels there are *)

\* What the assumptions say of one database.
LEMMA CallShape ==
  ASSUME NEW c \in Calls
  PROVE  /\ c.blockRows \in Nat \ {0} /\ c.cols \in Nat \ {0} /\ c.threads \in Nat \ {0}
         /\ c.inPlace \in BOOLEAN /\ c.salt \in Nat /\ c.asks \in SUBSET Seq(Nat)
         /\ c.blockRows \in Doubled /\ c.cols % N = 0 /\ Panels(c) <= 2 * N
BY CallsAssumption DEF Positive, Doubled

\* There are at least as many panels as block rows.
LEMMA PanelsAre ==
  ASSUME NEW c \in Calls
  PROVE  /\ Log2Up(c.blockRows) \in 0 .. c.blockRows
         /\ Panels(c) = 2 ^ Log2Up(c.blockRows)
         /\ Panels(c) \in Nat \ {0} /\ c.blockRows <= Panels(c)
<1> DEFINE m == c.blockRows
           Fits(e) == 2 ^ e >= m /\ \A d \in 0 .. e - 1 : 2 ^ d < m
           S == {e \in 0 .. m : \A d \in 0 .. e - 1 : 2 ^ d < m}
           L == Log2Up(m)
<1>1. m \in Nat \ {0} /\ m \in Doubled
  BY CallShape
<1> HIDE DEF m
<1>2. \A k \in 0 .. m : 2 ^ k \in Nat \ {0} /\ k < 2 ^ k
  BY <1>1, TwoTo
<1>3. \E e \in 0 .. m : Fits(e)
  <2> SUFFICES ASSUME \A e \in 0 .. m : ~Fits(e)
               PROVE  FALSE
    OBVIOUS
  <2>1. 0 \in S
    BY <1>1
  <2>2. ASSUME NEW e \in 0 .. m - 1, e \in S
        PROVE  e + 1 \in S
    <3>1. e \in 0 .. m /\ e + 1 \in 0 .. m /\ \A d \in 0 .. (e + 1) - 1 : d = e \/ d \in 0 .. e - 1
      BY <1>1
    <3>2. ~Fits(e) /\ \A d \in 0 .. e - 1 : 2 ^ d < m
      BY <2>2, <3>1
    <3>3. 2 ^ e < m
      <4> DEFINE p == 2 ^ e
      <4>1. p \in Nat /\ ~(p >= m)
        BY <1>2, <3>1, <3>2
      <4> HIDE DEF p
      <4>2. p < m
        BY <1>1, <4>1
      <4> QED
        BY <4>2 DEF p
    <3> QED
      BY <3>1, <3>2, <3>3
  <2>3. m \in S
    <3> HIDE DEF S
    <3>1. 0 .. m \subseteq S
      BY <1>1, <2>1, <2>2, StepsReachAll
    <3> QED
      BY <1>1, <3>1
  <2> DEFINE d == m - 1
             p == 2 ^ d
             q == 2 ^ m
  <2>4. ~Fits(m) /\ \A k \in 0 .. m - 1 : 2 ^ k < m
    BY <1>1, <2>3
  <2>5. q \in Nat /\ m < q
    BY <1>1, <1>2
  <2>6. q >= m
    <3> HIDE DEF q
    <3> QED
      BY <1>1, <2>5
  <2> QED
    BY <2>4, <2>6
<1>4. L = CHOOSE e \in 0 .. m : Fits(e)
  BY DEF Log2Up
<1>5. L \in 0 .. m /\ Fits(L)
  <2> HIDE DEF Fits, L
  <2> QED
    BY <1>3, <1>4
<1>6. Panels(c) = 2 ^ L
  BY DEF Panels, m
<1> HIDE DEF L
<1>7. 2 ^ L \in Nat \ {0} /\ 2 ^ L >= m
  BY <1>2, <1>5
<1>8. Panels(c) \in Nat \ {0} /\ m <= Panels(c)
  <2> DEFINE p == 2 ^ L
  <2> HIDE DEF p
  <2> QED
    BY <1>1, <1>6, <1>7 DEF p
<1> QED
  BY <1>5, <1>6, <1>8 DEF m, L

\* Twice the degree is a power of two.
LEMMA Period2 ==
  \E e \in 1 .. N : e \in 0 .. N /\ \A d \in 0 .. e : 2 * N = 2 ^ (e - d) * 2 ^ d
<1>1. PICK E \in 1 .. N : N = 2 ^ E
  BY CallsAssumption
<1>2. N \in Nat \ {0} /\ N \in Doubled
  BY DegreeIs DEF Doubled
<1>3. /\ \A k \in 0 .. N : 2 ^ k \in Nat \ {0} /\ k < 2 ^ k
      /\ \A k \in 0 .. N - 1 : 2 ^ (k + 1) = 2 * 2 ^ k
      /\ 2 ^ 0 = 1
  BY <1>2, TwoTo
<1>4. E \in 0 .. N - 1
  <2>1. E < 2 ^ E
    BY <1>2, <1>3
  <2>2. E < N
    BY <1>1, <2>1
  <2> QED
    BY <1>2, <2>2
<1> DEFINE e == E + 1
           S == {d \in 0 .. e : 2 * N = 2 ^ (e - d) * 2 ^ d}
<1>5. e \in 1 .. N /\ e \in 0 .. N /\ e \in Nat
  BY <1>2, <1>4
<1>6. 2 ^ e = 2 * N
  BY <1>1, <1>3, <1>4
<1> HIDE DEF e
<1>7. 0 \in S
  <2>1. e - 0 = e /\ 0 \in 0 .. e
    BY <1>5
  <2>2. 2 ^ (e - 0) * 2 ^ 0 = 2 * N
    BY <1>2, <1>3, <1>6, <2>1
  <2> QED
    BY <2>1, <2>2
<1>8. ASSUME NEW d \in 0 .. e - 1, d \in S
      PROVE  d + 1 \in S
  <2> DEFINE k == e - (d + 1)
             p == 2 ^ k
             q == 2 ^ d
  <2>1. k \in 0 .. N - 1 /\ d \in 0 .. N - 1 /\ e - d = k + 1 /\ d + 1 \in 0 .. e
    BY <1>2, <1>5
  <2>2. 2 * N = 2 ^ (e - d) * q
    BY <1>8
  <2> HIDE DEF k
  <2>3. p \in Nat /\ q \in Nat /\ 2 ^ (k + 1) = 2 * p /\ 2 ^ (d + 1) = 2 * q
    BY <1>2, <1>3, <2>1
  <2>4. (2 * p) * q = p * (2 * q)
    <3> HIDE DEF p, q
    <3> QED
      BY <2>3, SMT
  <2>5. 2 * N = p * 2 ^ (d + 1)
    BY <2>1, <2>2, <2>3, <2>4
  <2> QED
    BY <2>1, <2>5 DEF k
<1>9. 0 .. e \subseteq S
  <2> HIDE DEF S
  <2> QED
    BY <1>5, <1>7, <1>8, StepsReachAll
<1> QED
  BY <1>5, <1>9

\* Widths of butterflies, and their twiddles
Width(s) == 2 ^ s
Turns(s) == (2 * N) \div 2 ^ s

\* A width of the transform times the turns between its roots is the period of X.
LEMMA WidthsAre ==
  ASSUME NEW c \in Calls
  PROVE  /\ Width(0) = 1 /\ Width(Log2Up(c.blockRows)) = Panels(c)
         /\ \A s \in 0 .. Log2Up(c.blockRows) :
              /\ Width(s) \in Nat \ {0} /\ Turns(s) \in Nat /\ Width(s) * Turns(s) = 2 * N
              /\ Width(s) <= Panels(c)
         /\ \A s \in 0 .. Log2Up(c.blockRows) - 1 :
              /\ Width(s + 1) = 2 * Width(s) /\ Turns(s) = 2 * Turns(s + 1)
              /\ Turns(s + 1) * Width(s) = N
<1> DEFINE m == c.blockRows
           L == Log2Up(m)
<1>1. /\ m \in Nat \ {0} /\ m \in Doubled /\ Panels(c) <= 2 * N
      /\ L \in 0 .. m /\ Panels(c) = 2 ^ L /\ Panels(c) \in Nat \ {0}
  BY CallShape, PanelsAre
<1> HIDE DEF m, L
<1>2. N \in Nat \ {0} /\ N \in Doubled
  BY DegreeIs DEF Doubled
<1>3. /\ 2 ^ 0 = 1 /\ \A k \in 0 .. N : 2 ^ k \in Nat \ {0}
      /\ \A k \in 0 .. N - 1 : 2 ^ (k + 1) = 2 * 2 ^ k
  BY <1>2, TwoTo
<1>4. /\ \A k \in 0 .. m : 2 ^ k \in Nat \ {0}
      /\ \A k \in 0 .. m - 1 : 2 ^ (k + 1) = 2 * 2 ^ k
  BY <1>1, TwoTo
<1>5. PICK e \in 0 .. N : \A d \in 0 .. e : 2 * N = 2 ^ (e - d) * 2 ^ d
  BY Period2
<1>6. L <= e
  <2> SUFFICES ASSUME e < L
               PROVE  FALSE
    BY <1>1
  <2> DEFINE p == 2 ^ e
             q == 2 ^ L
  <2>1. e \in 0 .. m
    BY <1>1
  <2>2. p < q
    BY <1>1, <2>1, PowersGrow
  <2>3. e - 0 = e /\ 0 \in 0 .. e
    OBVIOUS
  <2>a. 2 * N = 2 ^ (e - 0) * 2 ^ 0
    BY <1>5, <2>3
  <2>4. p \in Nat /\ 2 * N = p * 2 ^ 0
    BY <1>3, <2>3, <2>a
  <2> HIDE DEF p
  <2>5. 2 * N = p
    BY <1>3, <2>4
  <2>6. q <= 2 * N /\ q \in Nat
    BY <1>1
  <2> HIDE DEF q
  <2> QED
    BY <1>2, <2>2, <2>4, <2>5, <2>6
<1>7. ASSUME NEW s \in 0 .. L
      PROVE  /\ Width(s) \in Nat \ {0} /\ Turns(s) \in Nat /\ Width(s) * Turns(s) = 2 * N
             /\ Turns(s) = 2 ^ (e - s) /\ Width(s) <= Panels(c)
  <2> DEFINE p == 2 ^ s
             q == 2 ^ (e - s)
             n == 2 * N
  <2>1. s \in 0 .. m /\ s \in 0 .. e /\ e - s \in 0 .. N
    BY <1>1, <1>2, <1>6
  <2>2. p \in Nat \ {0} /\ q \in Nat \ {0} /\ n = q * p /\ n \in Int
    BY <1>2, <1>3, <1>4, <1>5, <2>1
  <2>3. Width(s) = p /\ Turns(s) = n \div p
    BY DEF Width, Turns
  <2>4. p <= Panels(c)
    <3>1. CASE s = L
      BY <1>1, <3>1
    <3>2. CASE s # L
      <4>1. s < L
        BY <1>1, <3>2
      <4>2. p < 2 ^ L
        BY <1>1, <2>1, <4>1, PowersGrow
      <4> HIDE DEF p
      <4> QED
        BY <1>1, <2>2, <4>2
    <3> QED
      BY <3>1, <3>2
  <2> HIDE DEF p, q, n
  <2>5. n = p * q + 0 /\ 0 \in 0 .. p - 1 /\ p * q = n
    BY <2>2, SMT
  <2>6. n \div p = q
    BY <2>2, <2>5, QuotientIs
  <2> QED
    BY <2>2, <2>3, <2>4, <2>5, <2>6 DEF q, n
<1>8. ASSUME NEW s \in 0 .. L - 1
      PROVE  /\ Width(s + 1) = 2 * Width(s) /\ Turns(s) = 2 * Turns(s + 1)
             /\ Turns(s + 1) * Width(s) = N
  <2> DEFINE k == e - (s + 1)
             p == Width(s)
             q == Turns(s + 1)
  <2>1. /\ s \in 0 .. m - 1 /\ s \in 0 .. L /\ s + 1 \in 0 .. L
        /\ k \in 0 .. N - 1 /\ e - s = k + 1
    BY <1>1, <1>2, <1>6
  <2>2. Width(s + 1) = 2 * p
    BY <1>4, <2>1 DEF Width
  <2>3. Turns(s) = 2 * q
    <3>1. Turns(s) = 2 ^ (k + 1) /\ q = 2 ^ k
      BY <1>7, <2>1
    <3> HIDE DEF k, q
    <3> QED
      BY <1>3, <2>1, <3>1
  <2>4. p \in Nat /\ q \in Nat /\ Width(s + 1) * q = 2 * N
    BY <1>7, <2>1
  <2> HIDE DEF p, q
  <2>5. (2 * p) * q = 2 * (q * p) /\ q * p \in Nat
    BY <2>4, SMT
  <2>6. q * p = N
    <3> DEFINE x == q * p
    <3>1. x \in Nat /\ 2 * x = 2 * N
      BY <2>2, <2>4, <2>5
    <3> HIDE DEF x
    <3>2. x = N
      BY <1>2, <3>1
    <3> QED
      BY <3>2 DEF x
  <2> QED
    BY <2>2, <2>3, <2>6 DEF p, q
<1>9. Width(0) = 1 /\ Width(L) = Panels(c)
  BY <1>1, <1>3 DEF Width
<1> QED
  BY <1>7, <1>8, <1>9 DEF L, m

-----------------------------------------------------------------------------
(* Recursive functions on 0 .. n *)

\* r runs through the steps g from z: the form of a recursive function on 0 .. n
Iterates(r, z, g, n) == r = [k \in 0 .. n |-> IF k = 0 THEN z ELSE g[k - 1][r[k - 1]]]

\* There is a function for any start and any steps.
LEMMA IteratesThere ==
  ASSUME NEW n \in Nat, NEW S, NEW z \in S, NEW g, \A k \in 0 .. n - 1 : g[k] \in [S -> S]
  PROVE  \E r \in [0 .. n -> S] : Iterates(r, z, g, n)
<1> DEFINE T == {m \in 0 .. n : \E r \in [0 .. m -> S] : Iterates(r, z, g, m)}
<1>1. 0 \in T
  <2> DEFINE r == [k \in 0 .. 0 |-> z]
  <2>1. r \in [0 .. 0 -> S] /\ Iterates(r, z, g, 0)
    BY DEF Iterates
  <2> HIDE DEF r
  <2> QED
    BY <2>1
<1>2. ASSUME NEW m \in 0 .. n - 1, m \in T
      PROVE  m + 1 \in T
  <2>1. PICK s \in [0 .. m -> S] : Iterates(s, z, g, m)
    BY <1>2
  <2> DEFINE r == [k \in 0 .. m + 1 |-> IF k = m + 1 THEN g[m][s[m]] ELSE s[k]]
  <2>2. m \in 0 .. m /\ m \in 0 .. n - 1 /\ m + 1 \in 0 .. n
    OBVIOUS
  <2>3. g[m][s[m]] \in S
    BY <2>2
  <2>4. r \in [0 .. m + 1 -> S]
    <3>1. ASSUME NEW k \in 0 .. m + 1, k # m + 1
          PROVE  k \in 0 .. m
      BY <3>1
    <3> QED
      BY <2>3, <3>1
  <2>5. \A k \in 0 .. m : r[k] = s[k]
    OBVIOUS
  <2>6. ASSUME NEW k \in 0 .. m + 1
        PROVE  r[k] = IF k = 0 THEN z ELSE g[k - 1][r[k - 1]]
    <3>1. CASE k = m + 1
      <4>1. r[k] = g[m][s[m]] /\ k - 1 = m /\ k # 0
        BY <3>1
      <4> HIDE DEF r
      <4> QED
        BY <2>2, <2>5, <4>1
    <3>2. CASE k # m + 1
      <4>1. k \in 0 .. m /\ (k # 0 => k - 1 \in 0 .. m)
        BY <3>2
      <4>2. s[k] = IF k = 0 THEN z ELSE g[k - 1][s[k - 1]]
        BY <2>1, <4>1 DEF Iterates
      <4> HIDE DEF r
      <4> QED
        BY <2>5, <4>1, <4>2
    <3> QED
      BY <3>1, <3>2
  <2>7. r = [k \in 0 .. m + 1 |-> r[k]]
    OBVIOUS
  <2> HIDE DEF r
  <2>8. Iterates(r, z, g, m + 1)
    BY <2>6, <2>7 DEF Iterates
  <2> QED
    BY <2>2, <2>4, <2>8
<1>3. n \in T
  <2> HIDE DEF T
  <2>1. 0 .. n \subseteq T
    BY <1>1, <1>2, StepsReachAll
  <2> QED
    BY <2>1
<1> QED
  BY <1>3

\* Two such functions agree as far as both go.
LEMMA IteratesUnique ==
  ASSUME NEW m \in Nat, NEW n \in Nat, m <= n, NEW z, NEW g, NEW h,
         \A k \in 0 .. m - 1 : g[k] = h[k],
         NEW r, Iterates(r, z, g, m), NEW s, Iterates(s, z, h, n)
  PROVE  r[m] = s[m]
<1> DEFINE T == {k \in 0 .. m : r[k] = s[k]}
<1>1. 0 \in T
  BY DEF Iterates
<1>2. ASSUME NEW k \in 0 .. m - 1, k \in T
      PROVE  k + 1 \in T
  <2>1. k + 1 \in 0 .. m /\ k + 1 \in 0 .. n /\ (k + 1) - 1 = k /\ k + 1 # 0
    OBVIOUS
  <2>a. \A j \in 0 .. m : r[j] = IF j = 0 THEN z ELSE g[j - 1][r[j - 1]]
    BY DEF Iterates
  <2>b. \A j \in 0 .. n : s[j] = IF j = 0 THEN z ELSE h[j - 1][s[j - 1]]
    BY DEF Iterates
  <2>2. r[k + 1] = g[k][r[k]] /\ s[k + 1] = h[k][s[k]]
    BY <2>1, <2>a, <2>b
  <2> QED
    BY <1>2, <2>1, <2>2
<1>3. m \in T
  <2> HIDE DEF T
  <2>1. 0 .. m \subseteq T
    BY <1>1, <1>2, StepsReachAll
  <2> QED
    BY <2>1
<1> QED
  BY <1>3

-----------------------------------------------------------------------------
(* The reversal of bits *)

\* The bit of weight 2^k
Bit(x, k) == (x \div 2 ^ k) % 2

\* What each step of a reversal does: shift, and take the next bit
Appends(x, n) == [k \in 0 .. n - 1 |-> [v \in Int |-> 2 * v + Bit(x, k)]]

\* A bit is 0 or 1.
LEMMA BitIs ==
  ASSUME NEW b \in Doubled, b \in Nat, NEW k \in 0 .. b, NEW x \in Nat
  PROVE  Bit(x, k) \in 0 .. 1 /\ x \div 2 ^ k \in Nat
<1> DEFINE p == 2 ^ k
           y == x \div p
<1>1. p \in Nat \ {0}
  BY TwoTo
<1> HIDE DEF p
<1>2. y \in Nat
  BY <1>1, Quotient
<1> HIDE DEF y
<1>3. (y % 2) \in 0 .. 1
  BY <1>2, Quotient
<1> QED
  BY <1>2, <1>3 DEF Bit, y, p

\* BitReverse shifts bits into a number.
LEMMA ReversalIs ==
  ASSUME NEW b \in Doubled, b \in Nat, NEW n \in 0 .. b, NEW x \in Nat
  PROVE  \E r \in [0 .. n -> Int] : Iterates(r, 0, Appends(x, n), n) /\ BitReverse(x, n) = r[n]
<1> DEFINE Turned(r) == r = [k \in 0 .. n |-> IF k = 0 THEN 0
                              ELSE 2 * r[k - 1] + ((x \div 2 ^ (k - 1)) % 2)]
           c == CHOOSE r : Turned(r)
           g == Appends(x, n)
<1>1. n \in Nat /\ \A k \in 0 .. n - 1 : k \in 0 .. b /\ Bit(x, k) \in Int
  <2>1. ASSUME NEW k \in 0 .. n - 1
        PROVE  Bit(x, k) \in Int
    <3>1. k \in 0 .. b
      OBVIOUS
    <3>2. Bit(x, k) \in 0 .. 1
      BY <3>1, BitIs
    <3> QED
      BY <3>2
  <2> QED
    BY <2>1
<1>2. ASSUME NEW k \in 0 .. n - 1
      PROVE  g[k] = [v \in Int |-> 2 * v + Bit(x, k)] /\ g[k] \in [Int -> Int]
  <2>1. g[k] = [v \in Int |-> 2 * v + Bit(x, k)]
    BY DEF Appends
  <2>2. Bit(x, k) \in Int
    BY <1>1
  <2> QED
    BY <2>1, <2>2
<1> HIDE DEF g
<1>3. PICK r \in [0 .. n -> Int] : Iterates(r, 0, g, n)
  <2>1. \A k \in 0 .. n - 1 : g[k] \in [Int -> Int]
    BY ONLY <1>2
  <2>2. 0 \in Int
    OBVIOUS
  <2>3. \E r \in [0 .. n -> Int] : Iterates(r, 0, g, n)
    BY ONLY <1>1, <2>1, <2>2, IteratesThere
  <2> QED
    BY <2>3
<1>4. Turned(r)
  <2>1. ASSUME NEW k \in 0 .. n, k # 0
        PROVE  g[k - 1][r[k - 1]] = 2 * r[k - 1] + ((x \div 2 ^ (k - 1)) % 2)
    <3>1. k - 1 \in 0 .. n - 1 /\ k - 1 \in 0 .. n
      BY <1>1, <2>1
    <3>2. r[k - 1] \in Int
      BY <3>1
    <3> QED
      BY <1>2, <3>1, <3>2 DEF Bit
  <2> QED
    BY <1>3, <2>1 DEF Iterates
<1>5. Turned(c)
  <2> HIDE DEF Turned
  <2> QED
    BY <1>4
<1>6. BitReverse(x, n) = c[n]
  BY DEF BitReverse
<1> HIDE DEF c
<1> DEFINE T == {k \in 0 .. n : c[k] \in Int}
<1>7. ASSUME NEW k \in 0 .. n
      PROVE  c[k] = IF k = 0 THEN 0 ELSE 2 * c[k - 1] + Bit(x, k - 1)
  BY <1>5 DEF Bit
<1>8. 0 .. n \subseteq T
  <2>1. 0 \in T
    BY <1>1, <1>7
  <2>2. ASSUME NEW k \in 0 .. n - 1, k \in T
        PROVE  k + 1 \in T
    <3>1. k + 1 \in 0 .. n /\ k + 1 # 0 /\ (k + 1) - 1 = k
      BY <1>1
    <3>2. c[k + 1] = 2 * c[k] + Bit(x, k)
      BY <1>7, <3>1
    <3>3. c[k] \in Int /\ Bit(x, k) \in Int
      BY <1>1, <2>2
    <3> QED
      BY <3>1, <3>2, <3>3
  <2> HIDE DEF T
  <2> QED
    BY <1>1, <2>1, <2>2, StepsReachAll
<1>9. c \in [0 .. n -> Int]
  <2>1. \A k \in 0 .. n : c[k] \in Int
    BY <1>8
  <2>2. c = [k \in 0 .. n |-> c[k]]
    BY <1>5
  <2> QED
    BY <2>1, <2>2
<1>10. Iterates(c, 0, g, n)
  <2>1. ASSUME NEW k \in 0 .. n
        PROVE  c[k] = IF k = 0 THEN 0 ELSE g[k - 1][c[k - 1]]
    <3>1. CASE k = 0
      BY <1>7, <3>1
    <3>2. CASE k # 0
      <4>1. k - 1 \in 0 .. n - 1 /\ k - 1 \in 0 .. n
        BY <1>1, <3>2
      <4>2. c[k - 1] \in Int
        BY <1>9, <4>1
      <4>3. g[k - 1][c[k - 1]] = 2 * c[k - 1] + Bit(x, k - 1)
        BY <1>2, <4>1, <4>2
      <4> QED
        BY <1>7, <3>2, <4>3
    <3> QED
      BY <3>1, <3>2
  <2> QED
    BY <1>9, <2>1 DEF Iterates
<1> QED
  BY <1>6, <1>9, <1>10 DEF g

\* A reversal of n + 1 bits appends a bit to that of n.
LEMMA ReversalNext ==
  ASSUME NEW b \in Doubled, b \in Nat, NEW x \in Nat
  PROVE  /\ BitReverse(x, 0) = 0
         /\ \A n \in 0 .. b : BitReverse(x, n) \in Int
         /\ \A n \in 0 .. b - 1 : BitReverse(x, n + 1) = 2 * BitReverse(x, n) + Bit(x, n)
<1>1. \A n \in 0 .. b : BitReverse(x, n) \in Int
  <2>1. ASSUME NEW n \in 0 .. b
        PROVE  BitReverse(x, n) \in Int
    <3>1. PICK r \in [0 .. n -> Int] : BitReverse(x, n) = r[n]
      BY ReversalIs
    <3>2. n \in 0 .. n
      OBVIOUS
    <3> QED
      BY <3>1, <3>2
  <2> QED
    BY <2>1
<1>2. BitReverse(x, 0) = 0
  <2>1. 0 \in 0 .. b /\ 0 \in 0 .. 0
    OBVIOUS
  <2>2. PICK r \in [0 .. 0 -> Int] : Iterates(r, 0, Appends(x, 0), 0) /\ BitReverse(x, 0) = r[0]
    BY <2>1, ReversalIs
  <2>3. r[0] = 0
    BY <2>1, <2>2 DEF Iterates
  <2> QED
    BY <2>2, <2>3
<1>3. ASSUME NEW n \in 0 .. b - 1
      PROVE  BitReverse(x, n + 1) = 2 * BitReverse(x, n) + Bit(x, n)
  <2> DEFINE g == Appends(x, n)
             h == Appends(x, n + 1)
  <2>1. n \in 0 .. b /\ n + 1 \in 0 .. b /\ n \in Nat /\ n + 1 \in Nat /\ n <= n + 1
    OBVIOUS
  <2>2. PICK r \in [0 .. n -> Int] : Iterates(r, 0, g, n) /\ BitReverse(x, n) = r[n]
    BY <2>1, ReversalIs
  <2>3. PICK s \in [0 .. n + 1 -> Int] : Iterates(s, 0, h, n + 1) /\ BitReverse(x, n + 1) = s[n + 1]
    BY <2>1, ReversalIs
  <2>4. \A k \in 0 .. n - 1 : g[k] = h[k]
    BY <2>1 DEF Appends
  <2>5. h[n] = [v \in Int |-> 2 * v + Bit(x, n)]
    BY <2>1 DEF Appends
  <2> HIDE DEF g, h
  <2>6. r[n] = s[n]
    BY <2>1, <2>2, <2>3, <2>4, IteratesUnique
  <2>7. s[n + 1] = h[n][s[n]]
    <3>1. \A j \in 0 .. n + 1 : s[j] = IF j = 0 THEN 0 ELSE h[j - 1][s[j - 1]]
      BY <2>3 DEF Iterates
    <3>2. n + 1 \in 0 .. n + 1 /\ n + 1 # 0 /\ (n + 1) - 1 = n
      BY <2>1
    <3> QED
      BY <3>1, <3>2
  <2>8. s[n] \in Int
    BY <2>1
  <2>9. h[n][s[n]] = 2 * s[n] + Bit(x, n)
    BY <2>5, <2>8
  <2> QED
    BY <2>2, <2>3, <2>6, <2>7, <2>9
<1> QED
  BY <1>1, <1>2, <1>3

\* A quotient's quotient.
LEMMA BitsOfHalf ==
  ASSUME NEW b \in Doubled, b \in Nat, NEW k \in 0 .. b - 1, NEW x \in Nat
  PROVE  Bit(x \div 2, k) = Bit(x, k + 1) /\ x \div 2 \in Nat
<1> DEFINE p == 2 ^ k
           y == x \div 2
           z == y \div p
           u == x % 2
           v == y % p
           w == 2 ^ (k + 1)
<1>1. p \in Nat \ {0} /\ w = 2 * p
  BY TwoTo
<1> HIDE DEF p, w
<1>2. y \in Nat /\ u \in 0 .. 1 /\ x = 2 * y + u
  BY Quotient
<1> HIDE DEF y, u
<1>3. z \in Nat /\ v \in 0 .. p - 1 /\ y = p * z + v
  BY <1>1, <1>2, Quotient
<1> HIDE DEF z, v
<1>4. x = w * z + (2 * v + u) /\ w \in Nat \ {0} /\ 2 * v + u \in 0 .. w - 1
  <2>1. 2 * (p * z + v) = (2 * p) * z + 2 * v
    BY <1>1, <1>3, SMT
  <2>2. w * z \in Nat
    BY <1>1, <1>3, IntProduct, SMT
  <2> DEFINE m == w * z
  <2>3. 2 * y = m + 2 * v
    BY <1>1, <1>3, <2>1
  <2> HIDE DEF m
  <2> QED
    BY <1>1, <1>2, <1>3, <2>2, <2>3 DEF m
<1>5. x \div w = z
  <2> DEFINE r == 2 * v + u
  <2> HIDE DEF r
  <2> QED
    BY <1>3, <1>4, QuotientIs DEF r
<1> QED
  BY <1>2, <1>5 DEF Bit, z, y, p, w

\* The lowest bit becomes the highest.
LEMMA ReversalOfHalf ==
  ASSUME NEW b \in Doubled, b \in Nat, NEW n \in 0 .. b - 1, NEW x \in Nat
  PROVE  BitReverse(x, n + 1) = 2 ^ n * (x % 2) + BitReverse(x \div 2, n)
<1> DEFINE y == x \div 2
           u == x % 2
           S == {m \in 0 .. n : BitReverse(x, m + 1) = 2 ^ m * u + BitReverse(y, m)}
<1>1. y \in Nat /\ u \in 0 .. 1 /\ u \in Int
  BY Quotient
<1>2. /\ BitReverse(x, 0) = 0 /\ BitReverse(y, 0) = 0
      /\ \A m \in 0 .. b : BitReverse(x, m) \in Int /\ BitReverse(y, m) \in Int
      /\ \A m \in 0 .. b - 1 : /\ BitReverse(x, m + 1) = 2 * BitReverse(x, m) + Bit(x, m)
                               /\ BitReverse(y, m + 1) = 2 * BitReverse(y, m) + Bit(y, m)
  BY <1>1, ReversalNext
<1>3. 2 ^ 0 = 1
  BY TwoTo
<1>4. 0 \in S
  <2>1. 0 \in 0 .. b - 1 /\ 0 \in 0 .. n
    OBVIOUS
  <2>2. Bit(x, 0) = u
    <3>1. x = 1 * x + 0 /\ 1 \in Nat \ {0} /\ 0 \in 0 .. 1 - 1
      OBVIOUS
    <3>2. x \div 1 = x
      BY <3>1, QuotientIs
    <3> QED
      BY <1>3, <3>2 DEF Bit
  <2>3. BitReverse(x, 0 + 1) = u
    BY <1>1, <1>2, <2>1, <2>2
  <2>4. 2 ^ 0 * u + BitReverse(y, 0) = u
    <3> HIDE DEF u
    <3> QED
      BY <1>1, <1>2, <1>3
  <2> QED
    BY <2>1, <2>3, <2>4
<1> HIDE DEF y, u
<1>5. ASSUME NEW m \in 0 .. n - 1, m \in S
      PROVE  m + 1 \in S
  <2> DEFINE p == 2 ^ m
             q == 2 ^ (m + 1)
             c == Bit(x, m + 1)
             r == BitReverse(y, m)
             s == BitReverse(x, m + 1)
  <2>1. m + 1 \in 0 .. n /\ m + 1 \in 0 .. b - 1 /\ m \in 0 .. b - 1 /\ m \in 0 .. b /\ m + 1 \in 0 .. b
    OBVIOUS
  <2>2. p \in Nat /\ q = 2 * p
    BY <2>1, TwoTo
  <2>3. s = p * u + r
    BY <1>5
  <2>4. Bit(y, m) = c /\ c \in 0 .. 1
    BY <2>1, BitIs, BitsOfHalf DEF y
  <2>5. BitReverse(y, m + 1) = 2 * r + c
    BY <1>2, <2>1, <2>4
  <2>6. BitReverse(x, (m + 1) + 1) = 2 * s + c
    BY <1>2, <2>1
  <2>7. r \in Int /\ s \in Int
    BY <1>2, <2>1
  <2> HIDE DEF p, q, c, r, s
  <2>8. p * u \in Int /\ q * u = 2 * (p * u)
    BY <1>1, <2>2, SMT
  <2>9. 2 * s + c = q * u + (2 * r + c)
    BY <2>3, <2>4, <2>7, <2>8
  <2> QED
    BY <2>1, <2>5, <2>6, <2>9 DEF q
<1>6. n \in S
  <2> HIDE DEF S
  <2>1. 0 .. n \subseteq S
    BY <1>4, <1>5, StepsReachAll
  <2> QED
    BY <2>1
<1> QED
  BY <1>6 DEF y, u

\* Twice reversed, the low bits are where they were.
LEMMA ReversedTwice ==
  ASSUME NEW b \in Doubled, b \in Nat, NEW n \in 0 .. b, NEW x \in Nat
  PROVE  /\ BitReverse(x, n) \in 0 .. 2 ^ n - 1
         /\ BitReverse(BitReverse(x, n), n) = x % 2 ^ n
<1> DEFINE R(m) == BitReverse(x, m)
           S == {m \in 0 .. n : R(m) \in 0 .. 2 ^ m - 1 /\ BitReverse(R(m), m) = x % 2 ^ m}
<1>1. /\ R(0) = 0
      /\ \A m \in 0 .. b : R(m) \in Int
      /\ \A m \in 0 .. b - 1 : R(m + 1) = 2 * R(m) + Bit(x, m)
  BY ReversalNext
<1>2. 2 ^ 0 = 1 /\ x % 1 = 0
  <2>1. x = 1 * x + 0 /\ 1 \in Nat \ {0} /\ 0 \in 0 .. 1 - 1
    OBVIOUS
  <2> QED
    BY <2>1, TwoTo, QuotientIs
<1>3. 0 \in S
  <2>1. BitReverse(0, 0) = 0
    BY ReversalNext
  <2> QED
    BY <1>1, <1>2, <2>1
<1>4. ASSUME NEW m \in 0 .. n - 1, m \in S
      PROVE  m + 1 \in S
  <2> DEFINE p == 2 ^ m
             q == 2 ^ (m + 1)
             c == Bit(x, m)
             r == R(m)
             y == R(m + 1)
             z == x \div p
  <2>1. m + 1 \in 0 .. n /\ m \in 0 .. b - 1 /\ m \in 0 .. b
    OBVIOUS
  <2>2. p \in Nat \ {0} /\ q = 2 * p
    BY <2>1, TwoTo
  <2>3. r \in 0 .. p - 1 /\ BitReverse(r, m) = x % p
    BY <1>4
  <2>4. y = 2 * r + c
    BY <1>1, <2>1
  <2>5. c \in 0 .. 1
    BY <2>1, BitIs
  <2>6. c = z % 2
    BY DEF Bit
  <2> HIDE DEF p, q, c, r, y
  <2>7. z \in Nat /\ (x % p) \in 0 .. p - 1 /\ x = p * z + (x % p)
    BY <2>2, Quotient
  <2> HIDE DEF z
  <2>8. y \in 0 .. q - 1 /\ y \in Nat
    BY <2>2, <2>3, <2>4, <2>5
  <2>9. y \div 2 = r /\ y % 2 = c
    <3>1. y \in Int /\ r \in Int /\ c \in 0 .. 2 - 1 /\ y = 2 * r + c
      BY <2>3, <2>4, <2>5, <2>8
    <3> QED
      BY <3>1, QuotientIs
  <2>10. BitReverse(y, m + 1) = p * c + (x % p)
    <3>1. BitReverse(y, m + 1) = 2 ^ m * (y % 2) + BitReverse(y \div 2, m)
      BY <2>1, <2>8, ReversalOfHalf
    <3> QED
      BY <2>3, <2>9, <3>1 DEF p
  <2>11. x % q = p * c + (x % p)
    <3> DEFINE k == z \div 2
               e == x % p
               f == p * c + e
    <3>1. k \in Nat /\ z = 2 * k + c
      BY <2>6, <2>7, Quotient
    <3> HIDE DEF k, e
    <3>2. p * (2 * k + c) = q * k + p * c
      <4>1. c \in Int /\ p \in Int /\ k \in Int
        BY <2>2, <2>5, <3>1
      <4>2. p * (2 * k + c) = (2 * p) * k + p * c
        BY <4>1, SMT
      <4> QED
        BY <2>2, <4>2
    <3>3. p * c \in Int /\ p * c = IF c = 0 THEN 0 ELSE p
      BY <2>2, <2>5
    <3>4. q * k \in Int
      BY <2>2, <3>1, IntProduct
    <3>5. e \in 0 .. p - 1 /\ x = p * z + e
      BY <2>7 DEF e
    <3>6. f \in 0 .. q - 1
      BY <2>2, <3>3, <3>5
    <3>7. p * z = q * k + p * c
      BY <3>1, <3>2
    <3>8. x = q * k + f
      <4> DEFINE g == q * k
                 h == p * c
                 l == p * z
      <4>1. g \in Int /\ h \in Int /\ l = g + h /\ x = l + e /\ f = h + e
        BY <3>3, <3>4, <3>5, <3>7
      <4> HIDE DEF g, h, l, f
      <4>2. x = g + f
        BY <3>5, <4>1
      <4> QED
        BY <4>2 DEF g
    <3> HIDE DEF f
    <3>9. x % q = f
      <4>1. x \in Int /\ q \in Nat \ {0} /\ k \in Int
        BY <2>2, <3>1
      <4> QED
        BY <3>6, <3>8, <4>1, QuotientIs
    <3> QED
      BY <3>9 DEF f, e
  <2> QED
    BY <2>1, <2>8, <2>10, <2>11 DEF y, q
<1>5. n \in S
  <2> HIDE DEF S
  <2>1. 0 .. n \subseteq S
    BY <1>3, <1>4, StepsReachAll
  <2> QED
    BY <2>1
<1> QED
  BY <1>5

-----------------------------------------------------------------------------
(* Butterflies *)

\* The levels of the transform, and what it works on
Levels == Log2Up(call.blockRows)
IntPolys == [Coef -> Int]
Working == [0 .. t - 1 -> IntPolys]

\* The panels, their levels and the widths of the levels, of this call.
LEMMA LevelsAre ==
  ASSUME call \in Calls
  PROVE  /\ t \in Nat \ {0} /\ nb \in Nat \ {0} /\ nb <= t /\ Log2Up(t) = Levels
         /\ call.blockRows \in Nat /\ call.blockRows \in Doubled
         /\ Levels \in 0 .. call.blockRows /\ Levels \in Nat
         /\ Width(0) = 1 /\ Width(Levels) = t
         /\ \A s \in 0 .. Levels :
              /\ Width(s) \in Nat \ {0} /\ Turns(s) \in Nat /\ Width(s) * Turns(s) = 2 * N
              /\ Width(s) <= t
         /\ \A s \in 0 .. Levels - 1 :
              /\ Width(s + 1) = 2 * Width(s) /\ Turns(s) = 2 * Turns(s + 1)
              /\ Turns(s + 1) * Width(s) = N
<1> DEFINE m == call.blockRows
           L == Levels
<1>1. /\ m \in Nat \ {0} /\ m \in Doubled /\ L \in 0 .. m /\ t = 2 ^ L
      /\ t \in Nat \ {0} /\ m <= t /\ nb = m
  BY CallShape, PanelsAre DEF Levels, t, nb, BlockRows
<1>2. Log2Up(t) = L
  <2> DEFINE Fits(e) == 2 ^ e >= t /\ \A d \in 0 .. e - 1 : 2 ^ d < t
             e == CHOOSE e \in 0 .. t : Fits(e)
  <2> HIDE DEF m, L
  <2>1. \A d \in 0 .. L - 1 : 2 ^ d < t
    <3>1. ASSUME NEW d \in 0 .. L - 1
          PROVE  2 ^ d < t
      <4>1. d \in 0 .. m /\ L \in 0 .. m /\ d < L
        BY <1>1
      <4>2. 2 ^ d < 2 ^ L
        BY <1>1, <4>1, PowersGrow
      <4> QED
        BY <1>1, <4>2
    <3> QED
      BY <3>1
  <2>2. L \in 0 .. t /\ Fits(L)
    <3>1. 2 ^ L >= t
      BY <1>1
    <3> QED
      BY <1>1, <2>1, <3>1
  <2>3. e \in 0 .. t /\ Fits(e)
    <3> HIDE DEF Fits
    <3> QED
      BY <2>2
  <2>4. Log2Up(t) = e
    BY DEF Log2Up
  <2> HIDE DEF e
  <2>5. ~(e < L)
    <3> SUFFICES ASSUME e < L
                 PROVE  FALSE
      OBVIOUS
    <3> DEFINE p == 2 ^ e
    <3>1. e \in 0 .. L - 1 /\ e \in 0 .. m
      BY <1>1, <2>3
    <3>2. p < t /\ p >= t /\ p \in Nat
      BY <1>1, <2>1, <2>3, <3>1, TwoTo
    <3> HIDE DEF p
    <3> QED
      BY <1>1, <3>2
  <2>6. ~(L < e)
    <3> SUFFICES ASSUME L < e
                 PROVE  FALSE
      OBVIOUS
    <3>1. L \in 0 .. e - 1
      BY <1>1, <2>3
    <3>2. t < t
      BY <1>1, <2>3, <3>1
    <3> QED
      BY <1>1, <3>2
  <2> QED
    BY <1>1, <2>3, <2>4, <2>5, <2>6
<1>3. L \in Nat
  BY <1>1
<1>4. call.blockRows = m /\ Panels(call) = t /\ Log2Up(call.blockRows) = L
  BY DEF Levels, t
<1> QED
  BY <1>1, <1>2, <1>3, <1>4, WidthsAre

\* The butterflies of a width fill the set.
LEMMA WidthsDivide ==
  ASSUME call \in Calls, NEW s \in 0 .. Levels
  PROVE  \E q \in Nat : t = Width(s) * q
<1> DEFINE L == Levels
           S == {d \in 0 .. L : \E q \in Nat : t = Width(L - d) * q}
<1>1. L \in Nat /\ t \in Nat /\ Width(L) = t
  BY LevelsAre
<1>2. 0 \in S
  <2>1. L - 0 = L /\ t = t * 1 /\ 1 \in Nat
    BY <1>1
  <2> QED
    BY <1>1, <2>1
<1>3. ASSUME NEW d \in 0 .. L - 1, d \in S
      PROVE  d + 1 \in S
  <2> DEFINE k == L - (d + 1)
             w == Width(k)
  <2>1. k \in 0 .. L - 1 /\ k \in 0 .. L /\ L - d = k + 1 /\ d + 1 \in 0 .. L
    BY <1>1
  <2> HIDE DEF k
  <2>2. PICK q \in Nat : t = Width(k + 1) * q
    BY <1>3, <2>1
  <2>3. Width(k + 1) = 2 * w /\ w \in Nat
    BY <2>1, LevelsAre
  <2> HIDE DEF w
  <2>4. (2 * w) * q = w * (2 * q)
    BY <2>3, SMT
  <2>5. 2 * q \in Nat /\ t = w * (2 * q)
    BY <2>2, <2>3, <2>4
  <2> QED
    BY <2>1, <2>5 DEF k, w
<1>4. 0 .. L \subseteq S
  <2> HIDE DEF S, L
  <2> QED
    BY <1>1, <1>2, <1>3, StepsReachAll
<1>5. L - s \in 0 .. L /\ L - (L - s) = s
  BY <1>1
<1> QED
  BY <1>4, <1>5

\* A place in a set of butterflies: the block, the half of it, and the place in the half.
LEMMA PlaceIn ==
  ASSUME call \in Calls, NEW s \in 0 .. Levels - 1, NEW i \in 0 .. t - 1
  PROVE  \E b \in Nat, j \in 0 .. Width(s) - 1 :
           /\ Width(s + 1) * b + Width(s + 1) <= t
           /\ i = Width(s + 1) * b + j \/ i = Width(s + 1) * b + Width(s) + j
<1> DEFINE w == Width(s + 1)
           h == Width(s)
           b == i \div w
           r == i % w
<1>1. s + 1 \in 0 .. Levels /\ s \in 0 .. Levels
  BY LevelsAre
<1>2. w \in Nat \ {0} /\ h \in Nat \ {0} /\ w = 2 * h /\ t \in Nat
  BY <1>1, LevelsAre
<1>3. PICK q \in Nat : t = w * q
  BY <1>1, WidthsDivide
<1> HIDE DEF w, h
<1>4. i \in Nat /\ b \in Nat /\ r \in 0 .. w - 1 /\ i = w * b + r
  <2>1. i \in Nat
    BY <1>2
  <2> QED
    BY <1>2, <2>1, Quotient
<1> HIDE DEF b, r
<1>5. w * b \in Nat /\ w * (b + 1) = w * b + w
  BY <1>2, <1>4, IntProduct, SMT
<1>6. b + 1 <= q
  <2> SUFFICES ASSUME q <= b
               PROVE  FALSE
    BY <1>4
  <2>1. q * w <= b * w
    BY <1>2, <1>4, ProductMonotone
  <2>2. w * q <= w * b
    BY <1>2, <1>4, <2>1, IntProduct
  <2> DEFINE x == w * b
  <2>3. t <= x /\ i = x + r /\ i < t /\ x \in Nat
    BY <1>3, <1>4, <1>5, <2>2
  <2> HIDE DEF x
  <2> QED
    BY <1>2, <1>4, <2>3
<1>7. w * b + w <= t
  <2>1. b + 1 \in Nat
    BY <1>4
  <2>2. (b + 1) * w <= q * w
    BY <1>2, <1>6, <2>1, ProductMonotone
  <2>3. w * (b + 1) <= w * q
    BY <1>2, <2>1, <2>2, IntProduct
  <2> QED
    BY <1>3, <1>5, <2>3
<1>8. CASE r < h
  <2>1. r \in 0 .. h - 1
    BY <1>2, <1>4, <1>8
  <2> QED
    BY <1>4, <1>7, <2>1 DEF w, h
<1>9. CASE ~(r < h)
  <2> DEFINE j == r - h
             x == w * b
  <2>1. j \in 0 .. h - 1
    BY <1>2, <1>4, <1>9
  <2>2. x + r = x + h + j
    <3>1. x \in Nat
      BY <1>5
    <3> HIDE DEF x
    <3> QED
      BY <1>2, <1>4, <3>1
  <2> HIDE DEF j
  <2> QED
    BY <1>4, <1>7, <2>1, <2>2 DEF w, h
<1> QED
  BY <1>8, <1>9

\* A rotated polynomial
LEMMA RotateIs ==
  ASSUME NEW a, Ints(a), NEW k \in Int
  PROVE  /\ Digits!Rotate(k, a) \in IntPolys
         /\ \A i \in Coef : Congruent(Digits!Rotate(k, a)[i], Turn(a, i - k), OddBase)
<1>1. Coef \subseteq Int
  BY DegreeIs
<1>2. Digits!Rotate(k, a) = [i \in Coef |-> Digits!At(a, i - k)]
  BY DEF Digits!Rotate, Digits!Coef, Coef
<1>3. ASSUME NEW i \in Coef
      PROVE  Digits!At(a, i - k) \in Int /\ Congruent(Digits!At(a, i - k), Turn(a, i - k), OddBase)
  <2>1. i - k \in Int
    BY <1>1
  <2> QED
    BY <2>1, DigitsAt
<1> QED
  BY <1>2, <1>3 DEF IntPolys

\* What a set of butterflies makes of a working set
LEMMA ButterfliesAre ==
  ASSUME call \in Calls, NEW s \in 0 .. Levels - 1, NEW y \in Working,
         NEW b \in Nat, Width(s + 1) * b + Width(s + 1) <= t, NEW j \in 0 .. Width(s) - 1
  PROVE  LET x == Width(s + 1) * b + j
             h == Width(s)
             k == Turns(s + 1) * j
             z == Butterflies(y, Width(s + 1))
         IN /\ x \in 0 .. t - 1 /\ x + h \in 0 .. t - 1 /\ k \in Nat
            /\ y[x] \in IntPolys /\ y[x + h] \in IntPolys
            /\ z[x] \in IntPolys /\ z[x + h] \in IntPolys
            /\ Mixes(z[x], y[x], y[x + h], k, 1, OddBase)
            /\ Mixes(z[x + h], y[x], y[x + h], k, -1, OddBase)
<1> DEFINE w == Width(s + 1)
           h == Width(s)
           u == Turns(s + 1)
           x == w * b + j
           k == u * j
           z == Butterflies(y, w)
<1>1. s + 1 \in 0 .. Levels /\ s \in 0 .. Levels
  BY LevelsAre
<1>2. w \in Nat \ {0} /\ h \in Nat \ {0} /\ w = 2 * h /\ t \in Nat /\ u \in Nat /\ w = h + h
  BY <1>1, LevelsAre
<1>3. w * b \in Nat /\ w * b + w <= t /\ j \in Nat /\ j < h /\ j * u = u * j /\ u * j \in Nat
  BY <1>2, IntProduct, SMT
<1>4. u = (2 * N) \div w /\ h = w \div 2
  <2>1. w = 2 * h + 0 /\ 0 \in 0 .. 2 - 1 /\ w \in Int /\ h \in Int
    BY <1>2
  <2>2. u = (2 * N) \div w
    BY DEF Turns, Width
  <2> HIDE DEF w, h
  <2> QED
    BY <2>1, <2>2, QuotientIs
<1> HIDE DEF w, h, u
<1>5. x \in 0 .. t - 1 /\ x + h \in 0 .. t - 1 /\ k \in Nat /\ x \in Int
  BY <1>2, <1>3
<1>6. x % w = j /\ (x + h) % w = h + j
  <2>1. j \in 0 .. w - 1 /\ h + j \in 0 .. w - 1 /\ x + h = w * b + (h + j) /\ b \in Int
    BY <1>2, <1>3
  <2> DEFINE v == x + h
             r == h + j
  <2>2. v \in Int /\ v = w * b + r /\ r \in 0 .. w - 1
    BY <1>2, <1>5, <2>1
  <2>3. x = w * b + j
    OBVIOUS
  <2> HIDE DEF x, v, r
  <2>4. x % w = j
    BY <1>2, <1>5, <2>1, <2>3, QuotientIs
  <2>5. v % w = r
    BY <1>2, <2>1, <2>2, QuotientIs
  <2> QED
    BY <2>4, <2>5 DEF v, r
<1> HIDE DEF x, k
<1> DEFINE p == y[x]
           q == y[x + h]
           r == Digits!Rotate(-k, q)
<1>7. p \in IntPolys /\ q \in IntPolys /\ Ints(p) /\ Ints(q) /\ DOMAIN y = 0 .. t - 1
  BY <1>5 DEF Working, IntPolys, Ints
<1>8. z[x] = Digits!Plus(p, r) /\ z[x + h] = Digits!Minus(p, r)
  <2> DEFINE turned(i, l) == Digits!Rotate(-(l * ((2 * N) \div w)), y[i])
             value(i) == IF i % w < w \div 2
                         THEN Digits!Plus(y[i], turned(i + w \div 2, i % w))
                         ELSE Digits!Minus(y[i - w \div 2], turned(i, (i % w) - w \div 2))
  <2>1. z = [i \in 0 .. t - 1 |-> value(i)]
    BY <1>7 DEF Butterflies
  <2>2. turned(x + h, j) = r
    BY <1>3, <1>4 DEF k
  <2> HIDE DEF turned
  <2>3. value(x) = Digits!Plus(p, turned(x + h, j))
    BY <1>3, <1>4, <1>6
  <2>4. value(x + h) = Digits!Minus(p, turned(x + h, j))
    <3>1. ~(h + j < h) /\ (h + j) - h = j /\ (x + h) - h = x
      BY <1>2, <1>3, <1>5
    <3> QED
      BY <1>4, <1>6, <3>1
  <2> HIDE DEF value, z, r
  <2> QED
    BY <1>5, <2>1, <2>2, <2>3, <2>4
<1> HIDE DEF z, p, q
<1>9. -k \in Int
  BY <1>5
<1>10. /\ r \in IntPolys
       /\ \A i \in Coef : Congruent(r[i], Turn(q, i + k), OddBase)
  <2>1. /\ r \in IntPolys
        /\ \A i \in Coef : Congruent(r[i], Turn(q, i - (-k)), OddBase)
    BY <1>7, <1>9, RotateIs
  <2>2. \A i \in Coef : i - (-k) = i + k
    BY <1>5, DegreeIs
  <2> QED
    BY <2>1, <2>2
<1> HIDE DEF r
<1>11. ASSUME NEW i \in Coef
       PROVE  /\ z[x][i] \in Int /\ z[x + h][i] \in Int
              /\ Congruent(z[x][i], p[i] + 1 * Turn(q, i + k), OddBase)
              /\ Congruent(z[x + h][i], p[i] + (-1) * Turn(q, i + k), OddBase)
  <2> DEFINE a == p[i]
             c == r[i]
             d == Turn(q, i + k)
  <2>1. a \in Int /\ c \in Int
    BY <1>7, <1>10 DEF IntPolys
  <2>2. d \in Int
    <3>1. i + k \in Int
      BY <1>5, DegreeIs
    <3> QED
      BY <1>7, <3>1, TurnIs
  <2>3. Congruent(c, d, OddBase)
    BY <1>10
  <2>4. z[x][i] = (a + c) % OddBase /\ z[x + h][i] = (a - c) % OddBase
    BY <1>8 DEF Digits!Plus, Digits!Minus, Digits!Coef, Coef
  <2> HIDE DEF a, c, d
  <2>5. a + c \in Int /\ a - c \in Int /\ a + d \in Int /\ a - d \in Int /\ -c \in Int /\ -d \in Int
    BY <2>1, <2>2
  <2>6. /\ Congruent((a + c) % OddBase, a + c, OddBase) /\ ((a + c) % OddBase) \in Int
        /\ Congruent((a - c) % OddBase, a - c, OddBase) /\ ((a - c) % OddBase) \in Int
    BY <2>5, BasesAre, CongruentRest
  <2>7. Congruent(a, a, OddBase)
    <3>1. a = a + OddBase * 0
      BY <2>1, BasesAre
    <3> QED
      BY <3>1 DEF Congruent
  <2>8. Congruent(a + c, a + d, OddBase) /\ Congruent(a + (-c), a + (-d), OddBase)
    <3>1. Congruent(-c, -d, OddBase)
      BY <2>1, <2>2, <2>3, BasesAre, CongruentMinus
    <3> QED
      BY <2>1, <2>2, <2>3, <2>5, <2>7, <3>1, BasesAre, CongruentSum
  <2>9. a + (-c) = a - c /\ a + (-d) = a - d /\ 1 * d = d /\ (-1) * d = -d
    BY <2>1, <2>2
  <2> DEFINE e == (a + c) % OddBase
             f == (a - c) % OddBase
  <2>10. /\ Congruent(e, a + c, OddBase) /\ e \in Int /\ Congruent(f, a - c, OddBase) /\ f \in Int
         /\ Congruent(a - c, a - d, OddBase)
    BY <2>6, <2>8, <2>9
  <2> HIDE DEF e, f
  <2>11. Congruent(e, a + d, OddBase) /\ Congruent(f, a - d, OddBase)
    BY <2>5, <2>8, <2>10, BasesAre, CongruentTrans
  <2>12. a + 1 * d = a + d /\ a + (-1) * d = a - d
    BY <2>1, <2>2
  <2> QED
    BY <2>4, <2>10, <2>11, <2>12 DEF a, d, e, f
<1>12. z[x] \in IntPolys /\ z[x + h] \in IntPolys
  <2>1. z[x] = [i \in Coef |-> z[x][i]] /\ z[x + h] = [i \in Coef |-> z[x + h][i]]
    BY <1>8 DEF Digits!Plus, Digits!Minus, Digits!Coef, Coef
  <2> DEFINE c == z[x]
             d == z[x + h]
  <2>2. c = [i \in Coef |-> c[i]] /\ d = [i \in Coef |-> d[i]] /\ \A i \in Coef : c[i] \in Int /\ d[i] \in Int
    BY <1>11, <2>1
  <2> HIDE DEF c, d
  <2>3. c \in IntPolys /\ d \in IntPolys
    BY <2>2 DEF IntPolys
  <2> QED
    BY <2>3 DEF c, d
<1>13. Mixes(z[x], p, q, k, 1, OddBase) /\ Mixes(z[x + h], p, q, k, -1, OddBase)
  <2>1. \A i \in Coef : Congruent(z[x][i], p[i] + 1 * Turn(q, i + k), OddBase)
    BY <1>11
  <2>2. \A i \in Coef : Congruent(z[x + h][i], p[i] + (-1) * Turn(q, i + k), OddBase)
    BY <1>11
  <2>3. Mixes(z[x], p, q, k, 1, OddBase)
    BY ONLY <2>1, Zenon DEF Mixes
  <2>4. Mixes(z[x + h], p, q, k, -1, OddBase)
    BY ONLY <2>2, Zenon DEF Mixes
  <2> QED
    BY <2>3, <2>4
<1>14. /\ x \in 0 .. t - 1 /\ x + h \in 0 .. t - 1 /\ k \in Nat
       /\ y[x] \in IntPolys /\ y[x + h] \in IntPolys
       /\ z[x] \in IntPolys /\ z[x + h] \in IntPolys
       /\ Mixes(z[x], y[x], y[x + h], k, 1, OddBase)
       /\ Mixes(z[x + h], y[x], y[x + h], k, -1, OddBase)
  BY <1>5, <1>7, <1>12, <1>13 DEF p, q
<1> QED
  BY <1>14 DEF x, h, k, z, w, u

\* A set of butterflies turns a working set into a working set.
LEMMA ButterfliesWork ==
  ASSUME call \in Calls, NEW s \in 0 .. Levels - 1, NEW y \in Working
  PROVE  Butterflies(y, Width(s + 1)) \in Working
<1> DEFINE w == Width(s + 1)
           z == Butterflies(y, w)
<1>1. ASSUME NEW i \in 0 .. t - 1
      PROVE  z[i] \in IntPolys
  <2>1. PICK b \in Nat, j \in 0 .. Width(s) - 1 :
           /\ w * b + w <= t
           /\ i = w * b + j \/ i = w * b + Width(s) + j
    BY PlaceIn
  <2> DEFINE x == w * b + j
             h == Width(s)
  <2>2. z[x] \in IntPolys /\ z[x + h] \in IntPolys
    BY <2>1, ButterfliesAre
  <2>3. w * b + h + j = x + h
    <3>1. s \in 0 .. Levels /\ s + 1 \in 0 .. Levels
      BY LevelsAre
    <3>2. h \in Nat /\ w \in Nat
      BY <3>1, LevelsAre
    <3> HIDE DEF h, w
    <3>3. w * b \in Nat
      BY <3>2, IntProduct, SMT
    <3> QED
      BY <3>2, <3>3
  <2> QED
    BY <2>1, <2>2, <2>3
<1>2. DOMAIN y = 0 .. t - 1
  BY DEF Working
<1>3. z = [i \in 0 .. t - 1 |-> z[i]]
  BY <1>2 DEF Butterflies
<1> HIDE DEF z, w
<1>4. z \in Working
  BY <1>1, <1>3 DEF Working
<1> QED
  BY <1>4 DEF z, w

\* The transform, step by step
LEMMA IdftIs ==
  ASSUME call \in Calls, NEW y \in Working, Permuted(y) \in Working
  PROVE  \E a \in [0 .. Levels -> Working] :
           /\ a[0] = Permuted(y) /\ Idft(y) = a[Levels]
           /\ \A s \in 0 .. Levels - 1 : a[s + 1] = Butterflies(a[s], Width(s + 1))
<1> DEFINE L == Levels
           Turned(r) == r = [s \in 0 .. L |-> IF s = 0 THEN Permuted(y)
                                              ELSE Butterflies(r[s - 1], 2 ^ s)]
           c == CHOOSE r : Turned(r)
           g == [k \in 0 .. L - 1 |-> [v \in Working |-> Butterflies(v, Width(k + 1))]]
           z == Permuted(y)
<1>1. L \in Nat /\ Log2Up(t) = L
  BY LevelsAre
<1>2. ASSUME NEW k \in 0 .. L - 1
      PROVE  g[k] = [v \in Working |-> Butterflies(v, Width(k + 1))] /\ g[k] \in [Working -> Working]
  BY ButterfliesWork
<1> HIDE DEF g
<1>3. PICK r \in [0 .. L -> Working] : Iterates(r, z, g, L)
  <2>1. \A k \in 0 .. L - 1 : g[k] \in [Working -> Working]
    BY ONLY <1>2
  <2>2. z \in Working
    OBVIOUS
  <2> HIDE DEF z, L
  <2>3. \E r \in [0 .. L -> Working] : Iterates(r, z, g, L)
    BY ONLY <1>1, <2>1, <2>2, IteratesThere
  <2> QED
    BY <2>3
<1>4. Turned(r)
  <2>1. ASSUME NEW k \in 0 .. L, k # 0
        PROVE  g[k - 1][r[k - 1]] = Butterflies(r[k - 1], 2 ^ k)
    <3>1. k - 1 \in 0 .. L - 1 /\ k - 1 \in 0 .. L /\ (k - 1) + 1 = k
      BY <1>1, <2>1
    <3>2. r[k - 1] \in Working
      BY <3>1
    <3>3. g[k - 1][r[k - 1]] = Butterflies(r[k - 1], Width((k - 1) + 1))
      BY <1>2, <3>1, <3>2
    <3> QED
      BY <3>1, <3>3 DEF Width
  <2> HIDE DEF L
  <2> QED
    BY <1>3, <2>1 DEF Iterates
<1>5. Turned(c)
  <2> HIDE DEF Turned
  <2> QED
    BY <1>4
<1>6. Idft(y) = c[L]
  BY <1>1 DEF Idft
<1> HIDE DEF c
<1>7. ASSUME NEW k \in 0 .. L
      PROVE  c[k] = IF k = 0 THEN z ELSE Butterflies(c[k - 1], Width(k))
  BY <1>5 DEF Width
<1> DEFINE T == {k \in 0 .. L : c[k] \in Working}
<1> HIDE DEF z, L
<1>8. 0 .. L \subseteq T
  <2>1. 0 \in T
    BY <1>1, <1>7 DEF z
  <2>2. ASSUME NEW k \in 0 .. L - 1, k \in T
        PROVE  k + 1 \in T
    <3>1. k + 1 \in 0 .. L /\ k + 1 # 0 /\ (k + 1) - 1 = k
      BY <1>1
    <3>2. c[k + 1] = Butterflies(c[k], Width(k + 1))
      BY <1>7, <3>1
    <3>3. c[k] \in Working
      BY <2>2
    <3> QED
      BY <3>1, <3>2, <3>3, ButterfliesWork DEF L
  <2> HIDE DEF T
  <2> QED
    BY <1>1, <2>1, <2>2, StepsReachAll
<1>9. c \in [0 .. L -> Working]
  <2>1. \A k \in 0 .. L : c[k] \in Working
    BY <1>8
  <2>2. c = [k \in 0 .. L |-> c[k]]
    BY <1>5
  <2> QED
    BY <2>1, <2>2
<1>10. c[0] = Permuted(y) /\ \A s \in 0 .. L - 1 : c[s + 1] = Butterflies(c[s], Width(s + 1))
  <2>1. 0 \in 0 .. L /\ \A s \in 0 .. L - 1 : s + 1 \in 0 .. L /\ s + 1 # 0 /\ (s + 1) - 1 = s
    BY <1>1
  <2> QED
    BY <1>7, <2>1 DEF z
<1> QED
  BY <1>6, <1>9, <1>10 DEF L

\* The two places of a butterfly, seen from an exponent and one a multiple of the degree away
LEMMA Pair ==
  ASSUME NEW p, NEW q, NEW y, NEW z, Ints(p), Ints(q), Ints(y), Ints(z), NEW k \in Int,
         Mixes(y, p, q, k, 1, OddBase), Mixes(z, p, q, k, -1, OddBase),
         NEW e \in Int, NEW w \in Int
  PROVE  /\ Congruent(Turn(y, e) + Turn(z, e - (2 * w) * N), 2 * Turn(p, e), OddBase)
         /\ Congruent(Turn(y, e) + Turn(z, e - (2 * w + 1) * N), 2 * Turn(q, e + k), OddBase)
<1> DEFINE a == Turn(y, e)
           b == Turn(z, e)
           c == Turn(p, e)
           d == Turn(q, e + k)
           m == OddBase
<1>1. a \in Int /\ b \in Int /\ c \in Int /\ d \in Int
  <2>1. e + k \in Int
    OBVIOUS
  <2> QED
    BY <2>1, TurnIs
<1>2. Congruent(a, c + d, m) /\ Congruent(b, c - d, m)
  <2>1. 1 \in {-1, 1} /\ -1 \in {-1, 1} /\ m \in Nat \ {0}
    BY BasesAre
  <2>2. Congruent(a, c + 1 * d, m)
    BY <2>1, TurnMixes
  <2>3. Congruent(b, c + (-1) * d, m)
    BY <2>1, TurnMixes
  <2> HIDE DEF a, b, c, d, m
  <2>4. c + 1 * d = c + d /\ c + (-1) * d = c - d
    BY <1>1
  <2> QED
    BY <2>2, <2>3, <2>4
<1>3. Turn(z, e - (2 * w) * N) = b /\ Turn(z, e - (2 * w + 1) * N) = -b
  <2> DEFINE x == 2 * N * (-w)
             f == e - (2 * w) * N
  <2>1. N \in Int /\ e - (2 * w) * N = e + x /\ e - (2 * w + 1) * N = (e + x) - N /\ x \in Int
    <3>1. N \in Int
      BY DegreeIs
    <3>2. (2 * w) * N = -x /\ (2 * w + 1) * N = -x + N /\ x \in Int
      BY <3>1, SMT
    <3> HIDE DEF x
    <3> QED
      BY <3>1, <3>2
  <2>2. e + x \in Int /\ -w \in Int
    BY <2>1
  <2>3. Turn(z, e + x) = b
    BY <2>2, TurnPeriod
  <2>4. Turn(z, (e + x) - N) = -Turn(z, e + x)
    BY <2>2, TurnHalf
  <2> QED
    BY <2>1, <2>3, <2>4
<1> HIDE DEF a, b, c, d
<1>4. Congruent(a + b, 2 * c, m)
  <2>1. Congruent(a + b, (c + d) + (c - d), m)
    <3>1. c + d \in Int /\ c - d \in Int
      BY <1>1
    <3> QED
      BY <1>1, <1>2, <3>1, BasesAre, CongruentSum
  <2>2. (c + d) + (c - d) = 2 * c
    BY <1>1
  <2> QED
    BY <2>1, <2>2
<1>5. Congruent(a + (-b), 2 * d, m)
  <2>1. c + d \in Int /\ c - d \in Int /\ -(c - d) \in Int /\ -b \in Int
    BY <1>1
  <2>2. Congruent(-b, -(c - d), m)
    BY <1>1, <1>2, <2>1, BasesAre, CongruentMinus
  <2>3. Congruent(a + (-b), (c + d) + (-(c - d)), m)
    BY <1>1, <1>2, <2>1, <2>2, BasesAre, CongruentSum
  <2>4. (c + d) + (-(c - d)) = 2 * d
    BY <1>1
  <2> QED
    BY <2>3, <2>4
<1> QED
  BY <1>3, <1>4, <1>5 DEF a, b, c, d, m

-----------------------------------------------------------------------------
(* What a working set stands for *)

\* A run of polynomials, the first at place B, taken as coefficients of a polynomial
\* whose value at the v-th root of the level this is; its coefficient of X^e.
Terms(y, s, B, v, e) ==
  [k \in 0 .. Width(s) - 1 |-> Turn(y[B + k], e - Turns(s) * (v * k))]
ValueAt(y, s, B, v, e) == Sum(Terms(y, s, B, v, e), Width(s))

\* There is such a run.
IsRun(B, s) == B \in Nat /\ B + Width(s) <= t

\* The terms of a value are what they are defined to be, and integers.
LEMMA TermIs ==
  ASSUME call \in Calls, NEW s \in 0 .. Levels, NEW y \in Working,
         NEW B, IsRun(B, s), NEW v \in Nat, NEW e \in Int
  PROVE  /\ \A k \in 0 .. Width(s) - 1 :
              /\ Terms(y, s, B, v, e)[k] = Turn(y[B + k], e - Turns(s) * (v * k))
              /\ Terms(y, s, B, v, e)[k] \in Int
              /\ e - Turns(s) * (v * k) \in Int
         /\ ValueAt(y, s, B, v, e) \in Int
<1>1. Width(s) \in Nat /\ Turns(s) \in Nat /\ t \in Nat
  BY LevelsAre
<1>2. ASSUME NEW k \in 0 .. Width(s) - 1
      PROVE  /\ Terms(y, s, B, v, e)[k] = Turn(y[B + k], e - Turns(s) * (v * k))
             /\ Terms(y, s, B, v, e)[k] \in Int
             /\ e - Turns(s) * (v * k) \in Int
  <2>1. B + k \in 0 .. t - 1 /\ k \in Nat
    BY <1>1 DEF IsRun
  <2>2. Ints(y[B + k])
    BY <2>1 DEF Working, IntPolys, Ints
  <2>3. e - Turns(s) * (v * k) \in Int
    <3>1. v * k \in Int
      BY <2>1, IntProduct
    <3>2. Turns(s) * (v * k) \in Int
      BY <1>1, <3>1, IntProduct
    <3> QED
      BY <3>2
  <2>4. Terms(y, s, B, v, e)[k] = Turn(y[B + k], e - Turns(s) * (v * k))
    BY DEF Terms
  <2> QED
    BY <2>2, <2>3, <2>4, TurnIs
<1>3. ValueAt(y, s, B, v, e) \in Int
  <2> DEFINE f == Terms(y, s, B, v, e)
  <2>1. \A k \in 0 .. Width(s) - 1 : f[k] \in Int
    BY <1>2
  <2> HIDE DEF f
  <2>2. Sum(f, Width(s)) \in Int
    BY <1>1, <2>1, SumIsInt
  <2> QED
    BY <2>2 DEF ValueAt, f
<1> QED
  BY <1>2, <1>3

\* Butterflies double a value: at an even root that of the first half, at an odd root
\* that of the second.
LEMMA ValueDoubles ==
  ASSUME call \in Calls, NEW s \in 0 .. Levels - 1, NEW y \in Working,
         NEW b \in Nat, Width(s + 1) * b + Width(s + 1) <= t,
         NEW w \in 0 .. Width(s) - 1, NEW o \in 0 .. 1, NEW e \in Int
  PROVE  LET B == Width(s + 1) * b
             z == Butterflies(y, Width(s + 1))
         IN Congruent(ValueAt(z, s + 1, B, 2 * w + o, e),
                      2 * ValueAt(y, s, B + o * Width(s), w, e), OddBase)
<1> DEFINE W == Width(s + 1)
           h == Width(s)
           u == Turns(s + 1)
           c == Turns(s)
           B == W * b
           z == Butterflies(y, W)
           v == 2 * w + o
           f == Terms(z, s + 1, B, v, e)
           r == Terms(y, s, B + o * h, w, e)
           g == [j \in 0 .. h - 1 |-> f[h + j]]
           a == [j \in 0 .. h - 1 |-> f[j] + g[j]]
           d == [j \in 0 .. h - 1 |-> 2 * r[j]]
           m == OddBase
<1>1. s + 1 \in 0 .. Levels /\ s \in 0 .. Levels
  BY LevelsAre
<1>2. /\ W \in Nat /\ h \in Nat /\ W = 2 * h /\ W = h + h /\ t \in Nat
      /\ u \in Nat /\ c \in Nat /\ c = 2 * u /\ u * h = N
  BY <1>1, LevelsAre
<1>3. B \in Nat /\ B + W <= t /\ v \in Nat /\ o * h \in Nat /\ B + o * h + h <= t /\ B + o * h \in Nat
  <2>1. B \in Nat
    BY <1>2, IntProduct, SMT
  <2>2. o * h = IF o = 0 THEN 0 ELSE h
    BY <1>2
  <2>3. B + W <= t
    OBVIOUS
  <2> HIDE DEF B
  <2>4. B + o * h + h <= t
    BY <1>2, <2>1, <2>2, <2>3
  <2> QED
    BY <1>2, <2>1, <2>2, <2>3, <2>4
<1>4. z \in Working
  BY ButterfliesWork
<1> HIDE DEF z
<1>5. ASSUME NEW k \in 0 .. W - 1
      PROVE  f[k] = Turn(z[B + k], e - u * (v * k)) /\ f[k] \in Int /\ e - u * (v * k) \in Int
  <2>1. IsRun(B, s + 1)
    BY <1>3 DEF IsRun
  <2> HIDE DEF B, v
  <2>2. \A l \in 0 .. W - 1 : /\ Terms(z, s + 1, B, v, e)[l] = Turn(z[B + l], e - u * (v * l))
                              /\ Terms(z, s + 1, B, v, e)[l] \in Int
                              /\ e - u * (v * l) \in Int
    BY <1>1, <1>3, <1>4, <2>1, TermIs
  <2> QED
    BY <2>2
<1>6. ASSUME NEW j \in 0 .. h - 1
      PROVE  r[j] = Turn(y[B + o * h + j], e - c * (w * j)) /\ r[j] \in Int
  <2> DEFINE A == B + o * h
  <2>1. IsRun(A, s) /\ w \in Nat
    BY <1>2, <1>3 DEF IsRun
  <2> HIDE DEF A
  <2>2. \A k \in 0 .. h - 1 : /\ Terms(y, s, A, w, e)[k] = Turn(y[A + k], e - c * (w * k))
                              /\ Terms(y, s, A, w, e)[k] \in Int
                              /\ e - c * (w * k) \in Int
    BY <1>1, <2>1, TermIs
  <2> QED
    BY <2>2 DEF A
<1>7. ASSUME NEW j \in 0 .. h - 1
      PROVE  f[j] \in Int /\ f[h + j] \in Int /\ Congruent(f[j] + f[h + j], 2 * r[j], m)
  <2> DEFINE x == B + j
             k == u * j
             E == e - u * (v * j)
             p == y[x]
             q == y[x + h]
  <2>1. j \in 0 .. W - 1 /\ h + j \in 0 .. W - 1 /\ j \in Nat
    BY <1>2
  <2>2. /\ k \in Nat /\ p \in IntPolys /\ q \in IntPolys
        /\ z[x] \in IntPolys /\ z[x + h] \in IntPolys
        /\ Mixes(z[x], p, q, k, 1, OddBase) /\ Mixes(z[x + h], p, q, k, -1, OddBase)
    BY ButterfliesAre DEF z
  <2>3. f[j] = Turn(z[x], E) /\ f[j] \in Int /\ E \in Int
    BY <1>5, <2>1
  <2>4. f[h + j] = Turn(z[B + (h + j)], e - u * (v * (h + j))) /\ f[h + j] \in Int
    BY <1>5, <2>1
  <2>5. B + (h + j) = x + h
    BY <1>2, <1>3, <2>1
  <2>6. e - u * (v * (h + j)) = E - v * N
    <3>1. u \in Int /\ v \in Int /\ j \in Int /\ h \in Int
      BY <1>2, <1>3, <2>1
    <3> HIDE DEF v, u, h
    <3>2. u * (v * (h + j)) = v * (u * h) + u * (v * j)
      BY <3>1, SMT
    <3>3. u * (v * j) \in Int /\ v * N \in Int
      <4>1. v * j \in Int /\ N \in Int
        BY <3>1, DegreeIs, IntProduct
      <4> QED
        BY <3>1, <4>1, IntProduct
    <3> QED
      BY <1>2, <3>2, <3>3
  <2>7. /\ Congruent(f[j] + Turn(z[x + h], E - (2 * w) * N), 2 * Turn(p, E), OddBase)
        /\ Congruent(f[j] + Turn(z[x + h], E - (2 * w + 1) * N), 2 * Turn(q, E + k), OddBase)
    <3>1. Ints(p) /\ Ints(q) /\ Ints(z[x]) /\ Ints(z[x + h])
      BY <2>2 DEF Ints, IntPolys
    <3>2. k \in Int /\ w \in Int
      BY <2>2
    <3> HIDE DEF x, k, E, p, q, f
    <3> QED
      BY <2>2, <2>3, <3>1, <3>2, Pair
  <2>8. CASE o = 0
    <3>1. v = 2 * w /\ o * h = 0 /\ B + o * h + j = x
      BY <1>2, <1>3, <2>8
    <3>2. c * (w * j) = u * (v * j)
      <4>1. c * (w * j) = u * ((2 * w) * j)
        BY <1>2, <2>1, SMT
      <4> QED
        BY <3>1, <4>1
    <3>3. r[j] = Turn(p, E)
      BY <1>6, <3>1, <3>2
    <3>4. f[h + j] = Turn(z[x + h], E - (2 * w) * N)
      BY <2>4, <2>5, <2>6, <3>1
    <3> HIDE DEF f, r
    <3> QED
      BY <2>3, <2>4, <2>7, <3>3, <3>4
  <2>9. CASE o = 1
    <3>1. v = 2 * w + 1 /\ o * h = h /\ B + o * h + j = x + h
      BY <1>2, <1>3, <2>1, <2>9
    <3>2. e - c * (w * j) = E + k
      <4>1. u * ((2 * w + 1) * j) = c * (w * j) + u * j
        BY <1>2, <2>1, SMT
      <4>2. c * (w * j) \in Int
        <5>1. w * j \in Int
          BY <2>1, IntProduct
        <5> QED
          BY <1>2, <5>1, IntProduct
      <4>3. u * (v * j) = c * (w * j) + k
        BY <3>1, <4>1
      <4> DEFINE A == c * (w * j)
      <4> HIDE DEF A, k
      <4> QED
        BY <2>2, <4>2, <4>3 DEF A
    <3>3. r[j] = Turn(q, E + k)
      BY <1>6, <3>1, <3>2
    <3>4. f[h + j] = Turn(z[x + h], E - (2 * w + 1) * N)
      BY <2>4, <2>5, <2>6, <3>1
    <3> HIDE DEF f, r
    <3> QED
      BY <2>3, <2>4, <2>7, <3>3, <3>4
  <2> QED
    BY <2>8, <2>9
<1>8. /\ ValueAt(z, s + 1, B, v, e) = Sum(f, W)
      /\ ValueAt(y, s, B + o * h, w, e) = Sum(r, h)
  BY DEF ValueAt
<1> HIDE DEF f, r, B, v
<1>9. Sum(f, W) = Sum(f, h) + Sum(g, h)
  <2>1. \A k \in 0 .. h + h - 1 : f[k] \in Int
    BY <1>2, <1>5
  <2>2. \A j \in 0 .. h - 1 : g[j] = f[h + j]
    OBVIOUS
  <2> HIDE DEF g
  <2>3. Sum(f, h + h) = Sum(f, h) + Sum(g, h)
    BY <1>2, <2>1, <2>2, SumInTwo
  <2> QED
    BY <1>2, <2>3
<1>10. Sum(a, h) = Sum(f, h) + Sum(g, h)
  <2>1. \A j \in 0 .. h - 1 : f[j] \in Int /\ g[j] \in Int /\ a[j] = f[j] + g[j]
    BY <1>7
  <2> HIDE DEF a, g
  <2> QED
    BY <1>2, <2>1, SumPlus
<1>11. Sum(d, h) = 2 * Sum(r, h)
  <2>1. \A j \in 0 .. h - 1 : r[j] \in Int /\ d[j] = 2 * r[j]
    BY <1>6
  <2> HIDE DEF d
  <2> QED
    BY <1>2, <2>1, SumTimes
<1>12. Congruent(Sum(a, h), Sum(d, h), m)
  <2>1. ASSUME NEW j \in 0 .. h - 1
        PROVE  a[j] \in Int /\ d[j] \in Int /\ Congruent(a[j], d[j], m)
    <3>1. a[j] = f[j] + f[h + j] /\ d[j] = 2 * r[j]
      OBVIOUS
    <3> HIDE DEF a, d
    <3> QED
      BY <1>6, <1>7, <3>1
  <2> HIDE DEF a, d
  <2> QED
    BY <1>2, <2>1, BasesAre, SumsCongruent
<1> HIDE DEF a, d, g
<1>13. Congruent(ValueAt(z, s + 1, B, v, e), 2 * ValueAt(y, s, B + o * h, w, e), m)
  BY <1>8, <1>9, <1>10, <1>11, <1>12
<1> QED
  BY <1>13 DEF B, v, z, W, h, m

\* The bit-reversed set
LEMMA PermutedIs ==
  ASSUME call \in Calls, NEW y \in Working
  PROVE  /\ Permuted(y) \in Working
         /\ \A i \in 0 .. t - 1 : /\ BitReverse(i, Levels) \in 0 .. t - 1
                                  /\ Permuted(y)[i] = y[BitReverse(i, Levels)]
                                  /\ BitReverse(BitReverse(i, Levels), Levels) = i
<1>1. /\ Levels \in 0 .. call.blockRows /\ call.blockRows \in Nat /\ call.blockRows \in Doubled
      /\ t = 2 ^ Levels /\ t \in Nat \ {0} /\ Log2Up(t) = Levels
  BY LevelsAre DEF Width
<1>2. ASSUME NEW i \in 0 .. t - 1
      PROVE  /\ BitReverse(i, Levels) \in 0 .. t - 1
             /\ BitReverse(BitReverse(i, Levels), Levels) = i
  <2>1. i \in Nat /\ i \in Int /\ i = t * 0 + i /\ 0 \in Int
    BY <1>1
  <2>2. i % t = i
    BY <1>1, <2>1, QuotientIs
  <2>3. /\ BitReverse(i, Levels) \in 0 .. 2 ^ Levels - 1
        /\ BitReverse(BitReverse(i, Levels), Levels) = i % 2 ^ Levels
    BY <1>1, <2>1, ReversedTwice
  <2> QED
    BY <1>1, <2>2, <2>3
<1>3. Permuted(y) = [i \in 0 .. t - 1 |-> y[BitReverse(i, Levels)]]
  BY <1>1 DEF Permuted, Working
<1> QED
  BY <1>2, <1>3 DEF Working

\* The value of the transformed set at a root is a multiple of a polynomial of the set.
LEMMA TransformIs ==
  ASSUME call \in Calls, NEW y \in Working
  PROVE  /\ Idft(y) \in Working
         /\ \A v \in 0 .. t - 1, e \in Int :
              Congruent(ValueAt(Idft(y), Levels, 0, v, e), t * Turn(y[v], e), OddBase)
<1> DEFINE L == Levels
           m == OddBase
           z == Permuted(y)
<1>1. L \in Nat /\ L \in 0 .. call.blockRows /\ call.blockRows \in Nat /\ call.blockRows \in Doubled
      /\ t \in Nat \ {0} /\ Width(L) = t /\ Width(0) = 1 /\ m \in Nat \ {0} /\ m \in Int
  BY LevelsAre, BasesAre
<1>2. z \in Working /\ \A i \in 0 .. t - 1 : /\ BitReverse(i, L) \in 0 .. t - 1
                                            /\ z[i] = y[BitReverse(i, L)]
                                            /\ BitReverse(BitReverse(i, L), L) = i
  BY PermutedIs
<1>3. PICK a \in [0 .. L -> Working] :
           /\ a[0] = z /\ Idft(y) = a[L]
           /\ \A s \in 0 .. L - 1 : a[s + 1] = Butterflies(a[s], Width(s + 1))
  BY <1>2, IdftIs
<1> DEFINE Holds(s, b, v, e) ==
             Congruent(ValueAt(a[s], s, Width(s) * b, v, e),
                       Width(s) * Turn(z[Width(s) * b + BitReverse(v, s)], e), m)
           Claim(s) == \A b \in Nat : Width(s) * b + Width(s) <= t =>
                          \A v \in 0 .. Width(s) - 1, e \in Int : Holds(s, b, v, e)
           S == {s \in 0 .. L : Claim(s)}
<1> HIDE DEF z
<1>4. Claim(0)
  <2> SUFFICES ASSUME NEW b \in Nat, Width(0) * b + Width(0) <= t,
                      NEW v \in 0 .. Width(0) - 1, NEW e \in Int
               PROVE  Holds(0, b, v, e)
    OBVIOUS
  <2> DEFINE f == Terms(z, 0, b, 0, e)
             p == z[b]
             x == Turn(p, e)
  <2>1. v = 0 /\ Width(0) * b = b /\ 0 \in 0 .. L /\ b \in 0 .. t - 1 /\ b + 0 = b
    BY <1>1
  <2>2. BitReverse(0, 0) = 0
    BY <1>1, ReversalNext
  <2>3. x \in Int
    <3>1. Ints(p)
      BY <1>2, <2>1 DEF Working, IntPolys, Ints
    <3> QED
      BY <3>1, TurnIs
  <2>4. f[0] = x
    <3>1. Turns(0) \in Nat
      BY <2>1, LevelsAre
    <3>2. e - Turns(0) * (0 * 0) = e
      BY <3>1
    <3>3. f[0] = Turn(z[b + 0], e - Turns(0) * (0 * 0))
      BY <1>1 DEF Terms
    <3> QED
      BY <2>1, <3>2, <3>3
  <2>5. Sum(f, 1) = x
    <3> HIDE DEF f, x
    <3>1. Sum(f, 0) = 0 /\ Sum(f, 0 + 1) = Sum(f, 0) + f[0]
      BY SumNext
    <3> QED
      BY <2>3, <2>4, <3>1
  <2>6. ValueAt(a[0], 0, Width(0) * b, v, e) = x
    BY <1>1, <1>3, <2>1, <2>5 DEF ValueAt
  <2>7. Width(0) * Turn(z[Width(0) * b + BitReverse(v, 0)], e) = x
    <3>1. Width(0) * b + BitReverse(v, 0) = b
      BY <2>1, <2>2
    <3> QED
      BY <1>1, <2>3, <3>1
  <2>8. x = x + m * 0
    BY <1>1, <2>3
  <2> HIDE DEF x
  <2>9. Congruent(x, x, m)
    BY <2>8 DEF Congruent
  <2> QED
    BY <2>6, <2>7, <2>9
<1>5. ASSUME NEW s \in 0 .. L - 1, s \in S
      PROVE  s + 1 \in S
  <2> SUFFICES ASSUME NEW b \in Nat, Width(s + 1) * b + Width(s + 1) <= t,
                      NEW v \in 0 .. Width(s + 1) - 1, NEW e \in Int
               PROVE  Holds(s + 1, b, v, e)
    BY <1>1
  <2> DEFINE W == Width(s + 1)
             h == Width(s)
             w == v \div 2
             o == v % 2
             d == 2 * b + o
             r == BitReverse(w, s)
             i == h * d + r
             x == ValueAt(a[s], s, h * d, w, e)
             u == ValueAt(a[s + 1], s + 1, W * b, v, e)
             p == Turn(z[i], e)
  <2>1. /\ s \in 0 .. L /\ s + 1 \in 0 .. L
        /\ s \in 0 .. call.blockRows - 1 /\ s \in 0 .. call.blockRows
    BY <1>1
  <2>2. W \in Nat /\ h \in Nat \ {0} /\ W = 2 * h /\ W = h + h /\ h = 2 ^ s /\ v \in 0 .. W - 1
    BY <2>1, LevelsAre DEF Width
  <2> HIDE DEF W, h
  <2>3. v \in Nat /\ w \in Nat /\ o \in 0 .. 1 /\ v = 2 * w + o
    <3>1. v \in Nat /\ 2 \in Nat \ {0}
      BY <2>2
    <3> QED
      BY <3>1, Quotient
  <2>4. BitReverse(v, s + 1) = h * o + r
    BY <1>1, <2>1, <2>2, <2>3, ReversalOfHalf
  <2> HIDE DEF w, o
  <2>5. w \in 0 .. h - 1
    BY <2>2, <2>3
  <2>6. /\ h * d = W * b + o * h /\ h * d \in Nat /\ h * d + h <= t /\ d \in Nat
        /\ h * o = o * h /\ o * h \in Nat /\ W * b \in Nat
    <3>1. h * (2 * b + o) = (2 * h) * b + o * h /\ h * o = o * h
      BY <2>2, <2>3, SMT
    <3>2. o * h = IF o = 0 THEN 0 ELSE h
      BY <2>2, <2>3
    <3>3. W * b \in Nat /\ W * b + W <= t
      BY <2>2, IntProduct, SMT DEF W
    <3>4. h * d = W * b + o * h
      BY <2>2, <3>1
    <3> DEFINE c == W * b
    <3>5. c \in Nat /\ c + W <= t /\ h * d = c + o * h
      BY <3>3, <3>4
    <3> HIDE DEF c
    <3>6. h * d \in Nat /\ h * d + h <= t
      BY <1>1, <2>2, <3>2, <3>5
    <3>7. d \in Nat /\ o * h \in Nat
      BY <2>2, <2>3, <3>2
    <3> QED
      BY <3>1, <3>3, <3>4, <3>6, <3>7
  <2> HIDE DEF d
  <2>7. Congruent(x, h * p, m)
    <3>1. Claim(s)
      BY <1>5
    <3>2. Holds(s, d, w, e)
      BY <2>5, <2>6, <3>1 DEF h
    <3> QED
      BY <3>2 DEF h
  <2>8. a[s] \in Working /\ a[s + 1] = Butterflies(a[s], W)
    BY <1>3, <2>1 DEF W
  <2>9. Congruent(u, 2 * x, m)
    <3>1. Congruent(ValueAt(Butterflies(a[s], W), s + 1, W * b, 2 * w + o, e),
                    2 * ValueAt(a[s], s, W * b + o * h, w, e), m)
      BY <2>3, <2>5, <2>8, ValueDoubles DEF W, h
    <3> QED
      BY <2>3, <2>6, <2>8, <3>1
  <2>10. x \in Int /\ u \in Int
    <3>1. IsRun(h * d, s) /\ IsRun(W * b, s + 1)
      BY <2>6 DEF IsRun, W, h
    <3>2. a[s + 1] \in Working
      BY <1>3, <2>1
    <3> QED
      BY <2>1, <2>3, <2>8, <3>1, <3>2, TermIs
  <2>11. p \in Int
    <3>1. r \in 0 .. h - 1
      BY <1>1, <2>1, <2>2, <2>3, ReversedTwice
    <3>2. i \in 0 .. t - 1
      <4> DEFINE c == h * d
      <4> HIDE DEF c, r
      <4>1. c + r \in 0 .. t - 1
        BY <1>1, <2>2, <2>6, <3>1 DEF c
      <4> QED
        BY <4>1 DEF c
    <3>3. Ints(z[i])
      BY <1>2, <3>2 DEF Working, IntPolys, Ints
    <3> HIDE DEF i
    <3> QED
      BY <3>3, TurnIs
  <2>12. W * b + BitReverse(v, s + 1) = i
    <3>1. r \in Int
      <4>1. r \in 0 .. h - 1
        BY <1>1, <2>1, <2>2, <2>3, ReversedTwice
      <4> QED
        BY <2>2, <4>1
    <3> DEFINE c == W * b
               g == o * h
    <3>2. c \in Nat /\ g \in Nat /\ BitReverse(v, s + 1) = g + r /\ i = (c + g) + r
      BY <2>4, <2>6
    <3> HIDE DEF c, g, r, i
    <3>3. c + BitReverse(v, s + 1) = i
      BY <3>1, <3>2
    <3> QED
      BY <3>3 DEF c
  <2> HIDE DEF i, x, u, p
  <2>13. Congruent(u, W * p, m)
    <3>1. h * p \in Int /\ 2 * x \in Int /\ 2 * (h * p) = W * p /\ W * p \in Int
      <4>1. h * p \in Int
        BY <2>2, <2>11, IntProduct
      <4>2. 2 * (h * p) = (2 * h) * p
        BY <2>2, <2>11, SMT
      <4> QED
        BY <2>2, <2>10, <2>11, <4>1, <4>2, IntProduct
    <3>2. Congruent(2, 2, m)
      <4>1. 2 = 2 + m * 0
        BY <1>1
      <4> QED
        BY <4>1 DEF Congruent
    <3>3. Congruent(2 * x, 2 * (h * p), m)
      BY <1>1, <2>7, <2>10, <3>1, <3>2, CongruentProduct
    <3>4. 2 * (h * p) \in Int
      BY <3>1
    <3>5. Congruent(u, 2 * (h * p), m)
      BY <1>1, <2>9, <2>10, <3>1, <3>3, <3>4, CongruentTrans
    <3> QED
      BY <3>1, <3>5
  <2> QED
    BY <2>12, <2>13 DEF W, u, p
<1>6. L \in S
  <2>1. 0 \in S
    BY <1>1, <1>4
  <2> HIDE DEF S
  <2>2. 0 .. L \subseteq S
    BY <1>1, <1>5, <2>1, StepsReachAll
  <2> QED
    BY <1>1, <2>2
<1>7. Idft(y) \in Working
  BY <1>1, <1>3
<1>8. ASSUME NEW v \in 0 .. t - 1, NEW e \in Int
      PROVE  Congruent(ValueAt(Idft(y), L, 0, v, e), t * Turn(y[v], e), m)
  <2>1. Claim(L)
    BY <1>6
  <2>2. 0 \in Nat /\ t * 0 = 0 /\ Width(L) * 0 + Width(L) <= t /\ v \in 0 .. Width(L) - 1
    BY <1>1
  <2>3. Holds(L, 0, v, e)
    BY <2>1, <2>2
  <2>4. BitReverse(v, L) \in 0 .. t - 1
    BY <1>2
  <2>5. Width(L) * 0 = 0 /\ Width(L) * 0 + BitReverse(v, L) = BitReverse(v, L)
    BY <1>1, <2>2, <2>4
  <2>6. z[BitReverse(v, L)] = y[v]
    BY <1>2, <2>4
  <2> QED
    BY <1>1, <1>3, <2>3, <2>5, <2>6
<1> QED
  BY <1>7, <1>8

-----------------------------------------------------------------------------
(* Residues *)

\* A number has its own residue.
LEMMA CongruentSame ==
  ASSUME NEW q \in Int, NEW a \in Int
  PROVE  Congruent(a, a, q)
<1>1. a = a + q * 0
  BY SMT
<1> QED
  BY <1>1 DEF Congruent

\* Residues that are congruent are the same.
LEMMA ResiduesSame ==
  ASSUME NEW q \in Nat \ {0}, NEW a \in 0 .. q - 1, NEW b \in 0 .. q - 1, Congruent(a, b, q)
  PROVE  a = b
<1>1. PICK z \in Int : a = b + q * z
  BY DEF Congruent
<1>2. a = q * z + b /\ a = q * 0 + a /\ a \in Int /\ 0 \in Int
  <2>1. q * z \in Int
    BY IntProduct
  <2> DEFINE x == q * z
  <2> HIDE DEF x
  <2>2. a = x + b
    BY <1>1, <2>1 DEF x
  <2> QED
    BY <2>2 DEF x
<1>3. a % q = b
  BY <1>2, QuotientIs
<1>4. a % q = a
  BY <1>2, QuotientIs
<1> QED
  BY <1>3, <1>4

\* A power of two has an inverse modulo the odd base.
LEMMA InverseThere ==
  ASSUME NEW b \in Doubled, b \in Nat, NEW n \in 0 .. b
  PROVE  \E h \in 1 .. OddBase - 1 : (2 ^ n * h) % OddBase = 1
<1> DEFINE m == OddBase
           w == 2 ^ (WordBits - 1)
           S == {s \in 0 .. n : \E h \in 1 .. m - 1 : (2 ^ s * h) % m = 1}
<1>1. m \in Nat \ {0, 1} /\ m \in Nat \ {0} /\ m \in Int /\ Word = m + 1
  BY BasesAre
<1>2. w \in Nat /\ 2 * w = Word
  <2>1. WordBits \in Nat /\ WordBits \in Doubled /\ WordBits - 1 \in 0 .. WordBits - 1
        /\ WordBits - 1 \in 0 .. WordBits /\ (WordBits - 1) + 1 = WordBits
    BY BasesAre DEF Doubled
  <2>2. 2 ^ ((WordBits - 1) + 1) = 2 * w /\ w \in Nat
    BY <2>1, TwoTo
  <2> QED
    BY <2>1, <2>2 DEF Word
<1> HIDE DEF m, w
<1>3. 0 \in S
  <2>1. 2 ^ 0 = 1
    BY TwoTo
  <2>2. 1 = m * 0 + 1 /\ 1 \in 0 .. m - 1 /\ 1 \in 1 .. m - 1 /\ 1 \in Int /\ 0 \in Int
    BY <1>1
  <2>3. 1 % m = 1
    BY <1>1, <2>2, QuotientIs
  <2>4. (2 ^ 0 * 1) % m = 1
    BY <2>1, <2>3
  <2> QED
    BY <2>2, <2>4
<1>4. ASSUME NEW s \in 0 .. n - 1, s \in S
      PROVE  s + 1 \in S
  <2>1. PICK h \in 1 .. m - 1 : (2 ^ s * h) % m = 1
    BY <1>4
  <2> DEFINE p == 2 ^ s
             q == 2 ^ (s + 1)
             g == h * w
             k == g % m
             x == p * h
             y == q * k
  <2>2. p \in Nat \ {0} /\ q = 2 * p
    <3>1. s \in 0 .. b - 1 /\ s \in 0 .. b
      OBVIOUS
    <3> QED
      BY <3>1, TwoTo
  <2>3. (p * h) % m = 1
    BY <2>1
  <2> HIDE DEF p, q
  <2>4. h \in Nat /\ g \in Nat /\ x \in Nat
    BY <1>1, <1>2, <2>2, IntProduct, SMT
  <2> HIDE DEF x, g
  <2>5. k \in 0 .. m - 1 /\ Congruent(k, g, m) /\ k \in Int
    <3>1. g \in Int
      BY <2>4
    <3>2. g % m \in 0 .. m - 1
      BY <1>1, <3>1, IntQuotient
    <3>3. Congruent(g % m, g, m)
      BY <1>1, <3>1, CongruentRest
    <3>4. k \in 0 .. m - 1 /\ Congruent(k, g, m)
      BY <3>2, <3>3
    <3> HIDE DEF k
    <3>5. k \in Int
      BY <1>1, <3>4
    <3> QED
      BY <3>4, <3>5
  <2>6. Congruent(x, 1, m)
    <3>1. Congruent(x, x % m, m)
      BY <1>1, <2>4, CongruentRest
    <3> QED
      BY <2>3, <3>1 DEF x
  <2> HIDE DEF k
  <2>7. Congruent(y, q * g, m) /\ y \in Int /\ q * g \in Int
    <3>1. q \in Int
      BY <2>2
    <3>2. Congruent(q, q, m)
      BY <1>1, <3>1, CongruentSame
    <3>3. g \in Int /\ k \in Int /\ Congruent(k, g, m)
      BY <2>4, <2>5
    <3>4. q * k \in Int /\ q * g \in Int
      BY <3>1, <3>3, IntProduct
    <3>5. Congruent(q * k, q * g, m)
      BY <1>1, <3>1, <3>2, <3>3, CongruentProduct
    <3> QED
      BY <3>4, <3>5
  <2>8. q * g = x * (m + 1)
    <3>1. (2 * p) * (h * w) = (p * h) * (2 * w)
      BY <1>2, <2>2, <2>4, SMT
    <3> QED
      BY <1>1, <1>2, <2>2, <3>1 DEF x, g
  <2> HIDE DEF x, g
  <2>9. Congruent(x * (m + 1), 1, m)
    <3>1. x * (m + 1) = x + m * x
      BY <1>1, <2>4, SMT
    <3>2. Congruent(x * (m + 1), x, m)
      BY <2>4, <3>1 DEF Congruent
    <3>3. x * (m + 1) \in Int
      BY <1>1, <2>4, IntProduct
    <3> QED
      BY <1>1, <2>4, <2>6, <3>2, <3>3, CongruentTrans
  <2>10. Congruent(y, 1, m)
    BY <1>1, <2>7, <2>8, <2>9, CongruentTrans
  <2>11. (q * k) % m = 1
    <3> DEFINE r == y % m
    <3>1. r \in 0 .. m - 1 /\ Congruent(r, y, m) /\ r \in Int
      BY <1>1, <2>7, IntQuotient, CongruentRest
    <3> HIDE DEF r
    <3>2. Congruent(r, 1, m)
      BY <1>1, <2>7, <2>10, <3>1, CongruentTrans
    <3>3. 1 \in 0 .. m - 1
      BY <1>1
    <3>4. r = 1
      BY <1>1, <3>1, <3>2, <3>3, ResiduesSame
    <3> QED
      BY <3>4 DEF r
  <2>12. k # 0
    <3> SUFFICES ASSUME k = 0
                 PROVE  FALSE
      OBVIOUS
    <3>1. q * k = 0
      BY <2>2
    <3>2. 0 = m * 0 + 0 /\ 0 \in 0 .. m - 1 /\ 0 \in Int
      BY <1>1
    <3>3. 0 % m = 0
      BY <1>1, <3>2, QuotientIs
    <3> QED
      BY <2>11, <3>1, <3>3
  <2>13. k \in 1 .. m - 1
    BY <1>1, <2>5, <2>12
  <2> QED
    BY <1>4, <2>11, <2>13 DEF q
<1>5. n \in S
  <2> HIDE DEF S
  <2>1. 0 .. n \subseteq S
    BY <1>3, <1>4, StepsReachAll
  <2> QED
    BY <2>1
<1> QED
  BY <1>5 DEF m

\* The inverse of the number of panels
Inv == InvModP(t, OddBase)

\* The number of panels has an inverse for the odd base, and InvModP finds it.
LEMMA InverseIs ==
  ASSUME call \in Calls
  PROVE  Inv \in 1 .. OddBase - 1 /\ Inv \in Int /\ Congruent(Inv * t, 1, OddBase)
<1>1. /\ t \in Nat /\ t = 2 ^ Levels /\ Levels \in 0 .. call.blockRows
      /\ call.blockRows \in Nat /\ call.blockRows \in Doubled
  BY LevelsAre DEF Width
<1>2. \E h \in 1 .. OddBase - 1 : (t * h) % OddBase = 1
  BY <1>1, InverseThere
<1>3. Inv \in 1 .. OddBase - 1 /\ (t * Inv) % OddBase = 1
  BY <1>2 DEF Inv, InvModP
<1>4. Inv \in Int /\ Inv * t = t * Inv /\ t * Inv \in Int
  BY <1>1, <1>3, BasesAre, IntProduct
<1>5. Congruent(t * Inv, (t * Inv) % OddBase, OddBase)
  <2> DEFINE x == t * Inv
  <2> HIDE DEF x
  <2> QED
    BY <1>4, BasesAre, CongruentRest DEF x
<1> QED
  BY <1>3, <1>4, <1>5

\* The centred residue
LEMMA CentredIs ==
  ASSUME NEW x \in Int
  PROVE  /\ CentredMod(x, OddBase) \in Int /\ Congruent(CentredMod(x, OddBase), x, OddBase)
         /\ 2 * CentredMod(x, OddBase) <= OddBase /\ -OddBase <= 2 * CentredMod(x, OddBase)
<1> DEFINE m == OddBase
           r == x % m
           h == m \div 2
           d == CentredMod(x, m)
<1>1. m \in Nat \ {0} /\ m \in Int
  BY BasesAre
<1> HIDE DEF m
<1>2. r \in 0 .. m - 1 /\ Congruent(r, x, m) /\ r \in Int
  BY <1>1, IntQuotient, CongruentRest
<1>3. h \in Nat /\ 2 * h <= m /\ m <= 2 * h + 1
  <2>1. 2 \in Nat \ {0}
    OBVIOUS
  <2>2. h \in Nat /\ (m % 2) \in 0 .. 2 - 1 /\ m = 2 * h + (m % 2)
    BY <1>1, <2>1, Quotient
  <2> DEFINE o == m % 2
  <2> HIDE DEF h, o
  <2>3. o \in 0 .. 1 /\ m = 2 * h + o
    BY <2>2 DEF o
  <2> QED
    BY <1>1, <2>2, <2>3
<1>4. d = IF r > h THEN r - m ELSE r
  BY DEF CentredMod
<1> HIDE DEF r, h, d
<1>5. CASE r > h
  <2>1. Congruent(r - m, r, m)
    <3>1. r - m = r + m * (-1) /\ -1 \in Int
      BY <1>1, <1>2
    <3> QED
      BY <3>1 DEF Congruent
  <2>2. r - m \in Int
    BY <1>1, <1>2
  <2>3. Congruent(r - m, x, m)
    BY <1>1, <1>2, <2>1, <2>2, CongruentTrans
  <2>4. d = r - m /\ d \in Int /\ 2 * d <= m /\ -m <= 2 * d
    BY <1>1, <1>2, <1>3, <1>4, <1>5
  <2> QED
    BY <2>3, <2>4 DEF d, m
<1>6. CASE ~(r > h)
  <2>1. d = r /\ d \in Int /\ 2 * d <= m /\ -m <= 2 * d
    BY <1>1, <1>2, <1>3, <1>4, <1>6
  <2> QED
    BY <1>2, <2>1 DEF d, m
<1> QED
  BY <1>5, <1>6


-----------------------------------------------------------------------------
(* What the database holds *)

\* The powers of the two bases are positive.
LEMMA BasePowers ==
  /\ \A k \in 0 .. Words + 1 : OddBase ^ k \in Nat \ {0}
  /\ \A k \in 0 .. Words : Word ^ k \in Nat \ {0}
<1>1. Words \in Nat \ {0} /\ Words + 1 \in Nat /\ OddBase \in Nat \ {0} /\ Word \in Nat \ {0}
  BY BasesAre, CodecAssumption
<1>2. \A k \in 0 .. Words : OddBase ^ (k + 1) = OddBase * OddBase ^ k
  BY PowersAssumption
<1>3. \A k \in 0 .. Words - 1 : Word ^ (k + 1) = Word * Word ^ k
  BY PowersAssumption
<1>4. OddBase ^ 0 = 1 /\ Word ^ 0 = 1
  BY PowersAssumption
<1>5. \A x, y \in Nat \ {0} : x * y \in Nat \ {0}
  BY SMT
<1> DEFINE S == {k \in 0 .. Words + 1 : OddBase ^ k \in Nat \ {0}}
           T == {k \in 0 .. Words : Word ^ k \in Nat \ {0}}
<1>6. 0 .. Words + 1 \subseteq S
  <2>1. 0 \in S
    BY <1>1, <1>4
  <2>2. \A k \in 0 .. (Words + 1) - 1 : k \in S => k + 1 \in S
    BY <1>1, <1>2, <1>5
  <2> HIDE DEF S
  <2> QED
    BY <1>1, <2>1, <2>2, StepsReachAll
<1>7. 0 .. Words \subseteq T
  <2>1. 0 \in T
    BY <1>1, <1>4
  <2>2. \A k \in 0 .. Words - 1 : k \in T => k + 1 \in T
    BY <1>1, <1>3, <1>5
  <2> HIDE DEF T
  <2> QED
    BY <1>1, <2>1, <2>2, StepsReachAll
<1> QED
  BY <1>6, <1>7

\* A payload is a number of the words it is kept in.
LEMMA PayloadIs ==
  ASSUME NEW c \in Calls, NEW i \in Nat
  PROVE  PayloadOf(c, i) \in 0 .. Word ^ Words - 1 /\ PayloadOf(c, i) \in Nat
<1> DEFINE x == c.salt * 89 + 37 * i + 5 * i * i
           w == Word ^ Words
<1>1. x \in Nat
  <2>1. \A u, v \in Nat : u * v \in Nat
    BY SMT
  <2>2. c.salt \in Nat /\ i * i \in Nat /\ 5 * i * i \in Nat
    BY <2>1, CallShape
  <2> QED
    BY <2>2
<1>2. w \in Nat \ {0}
  BY BasePowers, CodecAssumption
<1>3. PayloadOf(c, i) = x % w
  BY DEF PayloadOf
<1> HIDE DEF x, w
<1>4. (x % w) \in 0 .. w - 1
  BY <1>1, <1>2, Quotient
<1>5. (x % w) \in Nat
  BY <1>2, <1>4
<1> QED
  BY <1>3, <1>4, <1>5 DEF w

\* The digits of a payload, centred
LEMMA OddDigit ==
  ASSUME NEW v \in Nat, NEW k \in 0 .. Words
  PROVE  /\ EncodeOdd(v)[k] = CentredDigit((v \div OddBase ^ k) % OddBase)
         /\ (v \div OddBase ^ k) % OddBase \in 0 .. OddBase - 1
         /\ v \div OddBase ^ k \in Nat
         /\ EncodeOdd(v)[k] \in Int
<1> DEFINE p == OddBase ^ k
           q == v \div p
           r == q % OddBase
           h == OddBase \div 2
<1>1. Words \in Nat /\ OddBase \in Nat \ {0} /\ k \in 0 .. Words + 1
  BY BasesAre, CodecAssumption
<1>2. p \in Nat \ {0}
  BY <1>1, BasePowers
<1>3. EncodeOdd(v)[k] = CentredDigit(r)
  <2>1. k \in 0 .. OddExponent - 1
    BY <1>1 DEF OddExponent
  <2> QED
    BY <2>1 DEF EncodeOdd
<1> HIDE DEF p
<1>4. q \in Nat
  BY <1>2, Quotient
<1> HIDE DEF q
<1>5. r \in 0 .. OddBase - 1
  BY <1>1, <1>4, Quotient
<1>6. h \in Nat
  <2>1. 2 \in Nat \ {0}
    OBVIOUS
  <2> QED
    BY <1>1, <2>1, Quotient
<1>7. CentredDigit(r) = IF r > h THEN r - OddBase ELSE r
  BY DEF CentredDigit
<1> HIDE DEF r, h
<1>8. CentredDigit(r) \in Int
  BY <1>1, <1>5, <1>6, <1>7
<1> QED
  BY <1>3, <1>4, <1>5, <1>8 DEF q, r, p

\* What a matrix holds is a number.
LEMMA StoredIs ==
  ASSUME NEW c \in Calls, NEW m \in Nat, NEW bc \in Nat, NEW row \in Coef, NEW col \in Coef
  PROVE  Stored(c, m, bc, row, col) \in Int
<1> DEFINE L == Layout(c)
           digits(i) == EncodeOdd(PayloadOf(c, i))
           column == bc * N + col
           x == OddExponent
           d == row \div x
           p == N \div x
           place == m * PayloadsPerRow(L, N) + d * L.cols + column
<1>1. /\ N \in Nat \ {0} /\ x \in Nat \ {0} /\ L.exponent = x /\ L.cols \in Nat
      /\ row \in Nat /\ col \in Nat
  BY DegreeIs, CallShape, CodecAssumption DEF Layout, OddExponent
<1>2. PayloadsPerRow(L, N) = p * L.cols
  BY <1>1 DEF PayloadsPerRow, PayloadsPerColumn
<1>3. Stored(c, m, bc, row, col) =
        IF column < L.cols /\ row \div L.exponent < PayloadsPerColumn(L, N)
        THEN digits(m * PayloadsPerRow(L, N) + (row \div L.exponent) * L.cols + column)
               [row % L.exponent]
        ELSE 0
  BY DEF Stored, StoredDigit
<1> HIDE DEF L
<1>4. x = Words + 1 /\ Words \in Nat
  BY CodecAssumption DEF OddExponent
<1> HIDE DEF x
<1>5. p \in Nat /\ d \in Nat /\ (row % x) \in 0 .. x - 1
  BY <1>1, Quotient
<1> HIDE DEF p, d
<1>6. \A u, v \in Nat : u * v \in Nat
  BY SMT
<1>7. column \in Nat
  BY <1>1, <1>6
<1> HIDE DEF column
<1>8. place \in Nat
  <2>1. PayloadsPerRow(L, N) \in Nat /\ d * L.cols \in Nat
    BY <1>1, <1>2, <1>5, <1>6
  <2>2. m * PayloadsPerRow(L, N) \in Nat
    BY <1>6, <2>1
  <2> QED
    BY <1>7, <2>1, <2>2
<1> HIDE DEF place
<1>9. digits(place)[row % x] \in Int
  <2>1. (row % x) \in 0 .. Words
    BY <1>4, <1>5
  <2> QED
    BY <1>8, <2>1, PayloadIs, OddDigit
<1> HIDE DEF digits
<1>10. place = m * PayloadsPerRow(L, N) + (row \div L.exponent) * L.cols + column
  BY <1>1 DEF place, d
<1> QED
  BY <1>1, <1>3, <1>9, <1>10

-----------------------------------------------------------------------------
(* The columns interpolated *)

\* Column col of block column bc: a polynomial for every matrix, and zeros
OriginalColumn(bc, col) ==
  [m \in 0 .. t - 1 |->
    IF m < nb THEN [row \in Coef |-> Stored(call, m, bc, row, col) % OddBase] ELSE Digits!Zero]

\* What interpolation makes of block column bc, by panel
Interpolated(bc, k) ==
  [row \in Coef |-> [col \in Coef |->
     CentredMod(Idft(OriginalColumn(bc, col))[k][row] * Inv, OddBase)]]

\* A column as the transform takes it is a working set of digits.
LEMMA OriginalIs ==
  ASSUME call \in Calls, NEW bc \in Nat, NEW col \in Coef
  PROVE  /\ OriginalColumn(bc, col) \in Working
         /\ \A m \in 0 .. t - 1, row \in Coef :
              OriginalColumn(bc, col)[m][row] \in 0 .. OddBase - 1
<1>1. t \in Nat /\ nb \in Nat
  BY LevelsAre
<1>2. ASSUME NEW m \in 0 .. t - 1
      PROVE  /\ OriginalColumn(bc, col)[m] \in IntPolys
             /\ \A row \in Coef : OriginalColumn(bc, col)[m][row] \in 0 .. OddBase - 1
  <2>1. OriginalColumn(bc, col)[m] =
          IF m < nb THEN [row \in Coef |-> Stored(call, m, bc, row, col) % OddBase]
          ELSE [row \in Coef |-> 0]
    BY DEF OriginalColumn, Digits!Zero, Digits!Coef, Coef
  <2>2. m \in Nat
    BY <1>1
  <2>3. ASSUME NEW row \in Coef
        PROVE  (Stored(call, m, bc, row, col) % OddBase) \in 0 .. OddBase - 1
    <3>1. Stored(call, m, bc, row, col) \in Int
      BY <2>2, StoredIs
    <3> QED
      BY <3>1, BasesAre, IntQuotient
  <2>4. 0 \in 0 .. OddBase - 1 /\ 0 .. OddBase - 1 \subseteq Int
    BY BasesAre
  <2>5. CASE m < nb
    BY <2>1, <2>3, <2>4, <2>5 DEF IntPolys
  <2>6. CASE ~(m < nb)
    BY <2>1, <2>4, <2>6 DEF IntPolys
  <2> QED
    BY <2>5, <2>6
<1>3. OriginalColumn(bc, col) \in Working
  BY <1>2 DEF Working, OriginalColumn
<1> QED
  BY <1>2, <1>3


-----------------------------------------------------------------------------
(* The invariant *)

\* A matrix as it was stored
StoredMatrix(m, bc) == [row \in Coef |-> [col \in Coef |-> Stored(call, m, bc, row, col)]]

\* The matrix of a panel, where the server keeps it, is the interpolated one
InterpolatedIn(k, bc) == PanelMatrix(k, bc) = Interpolated(bc, k)

\* While columns are being interpolated: the first `next' are done, the others still as
\* they were stored.  PanelsInterpolate alone says nothing before the last is done.
IInv ==
  /\ call \in Calls
  /\ DOMAIN plain = Matrices(call, nb)
  /\ DOMAIN matrix = Matrices(call, IF call.inPlace THEN t - nb ELSE t)
  /\ stage = "interpolate" =>
       /\ next \in 0 .. kb - 1
       /\ \A m \in 0 .. nb - 1, bc \in next .. kb - 1 : plain[m * kb + bc] = StoredMatrix(m, bc)
       /\ \A k \in 0 .. t - 1, bc \in 0 .. next - 1 : InterpolatedIn(k, bc)
  /\ stage # "interpolate" => \A k \in 0 .. t - 1, bc \in 0 .. kb - 1 : InterpolatedIn(k, bc)

\* There is a block column.
LEMMA BlocksAre ==
  ASSUME call \in Calls
  PROVE  kb \in Nat \ {0} /\ kb = BlockCols(call)
<1> DEFINE q == (call.cols + N - 1) \div N
           r == (call.cols + N - 1) % N
<1>1. call.cols \in Nat \ {0} /\ N \in Nat \ {0} /\ call.cols + N - 1 \in Nat
  BY CallShape, DegreeIs
<1>2. q \in Nat /\ r \in 0 .. N - 1 /\ call.cols + N - 1 = N * q + r
  BY <1>1, Quotient
<1>3. kb = q /\ kb = BlockCols(call)
  BY DEF kb, BlockCols, BlockCount, CeilDiv
<1> HIDE DEF q, r
<1>4. q # 0
  <2> SUFFICES ASSUME q = 0
               PROVE  FALSE
    OBVIOUS
  <2>1. N * q = 0
    BY <1>1
  <2> QED
    BY <1>1, <1>2, <2>1
<1> QED
  BY <1>2, <1>3, <1>4

\* Where a matrix is kept among those of its row
LEMMA PlacedAt ==
  ASSUME call \in Calls, NEW n \in Nat, NEW k \in 0 .. n - 1, NEW bc \in 0 .. kb - 1
  PROVE  /\ k * kb + bc \in Matrices(call, n)
         /\ (k * kb + bc) % kb = bc /\ (k * kb + bc) \div kb = k
<1> DEFINE b == kb
           x == k * b + bc
<1>1. b \in Nat \ {0} /\ b = BlockCols(call) /\ bc \in 0 .. b - 1 /\ bc \in Nat
  BY BlocksAre
<1>2. k \in Nat /\ k + 1 \in Nat /\ k + 1 <= n
  OBVIOUS
<1> HIDE DEF b
<1>3. x % b = bc /\ x \div b = k
  <2>1. k * b \in Nat /\ k * b = b * k /\ x = b * k + bc /\ x \in Int /\ k \in Int
    BY <1>1, <1>2, IntProduct, SMT
  <2> HIDE DEF x
  <2> QED
    BY <1>1, <2>1, QuotientIs
<1>4. x \in 0 .. n * b - 1
  <2>1. (k + 1) * b <= n * b /\ n * b \in Nat
    BY <1>1, <1>2, ProductMonotone
  <2>2. (k + 1) * b = k * b + b /\ k * b \in Nat
    BY <1>1, <1>2, SMT
  <2> DEFINE u == k * b
             v == n * b
  <2>3. u + b <= v /\ u \in Nat /\ v \in Nat /\ x = u + bc
    BY <2>1, <2>2
  <2> HIDE DEF u, v, x
  <2>4. x \in 0 .. v - 1
    BY <1>1, <2>3
  <2> QED
    BY <2>4 DEF v
<1> QED
  BY <1>1, <1>3, <1>4 DEF Matrices, b

\* What a block column is loaded to, as long as its matrices are the database's
LEMMA LoadedIs ==
  ASSUME call \in Calls, NEW bc \in 0 .. kb - 1,
         \A m \in 0 .. nb - 1 : plain[m * kb + bc] = StoredMatrix(m, bc),
         NEW col \in Coef
  PROVE  [m \in 0 .. t - 1 |-> Loaded(bc)[m][col]] = OriginalColumn(bc, col)
<1>1. ASSUME NEW m \in 0 .. t - 1
      PROVE  Loaded(bc)[m][col] = OriginalColumn(bc, col)[m]
  <2>1. Loaded(bc)[m][col] =
          IF m < nb THEN [row \in Coef |-> plain[m * kb + bc][row][col] % OddBase] ELSE Digits!Zero
    BY DEF Loaded
  <2>2. CASE m < nb
    <3>1. m \in 0 .. nb - 1
      BY <2>2, LevelsAre
    <3>2. \A row \in Coef : plain[m * kb + bc][row][col] = Stored(call, m, bc, row, col)
      <4>1. plain[m * kb + bc] = StoredMatrix(m, bc)
        BY <3>1
      <4>2. \A row \in Coef : StoredMatrix(m, bc)[row][col] = Stored(call, m, bc, row, col)
        BY DEF StoredMatrix
      <4> QED
        BY <4>1, <4>2
    <3> QED
      BY <2>1, <2>2, <3>2 DEF OriginalColumn
  <2> QED
    BY <2>1, <2>2 DEF OriginalColumn
<1> QED
  BY <1>1 DEF OriginalColumn

\* Init establishes the invariant: nothing is interpolated, all is stored.
LEMMA InitInv == Init => IInv
<1> SUFFICES ASSUME Init
             PROVE  IInv
  OBVIOUS
<1>1. /\ call \in Calls /\ stage = "interpolate" /\ next = 0
      /\ plain = [x \in Matrices(call, nb) |-> [row \in Coef |-> [col \in Coef |->
           Stored(call, x \div kb, x % kb, row, col)]]]
      /\ DOMAIN matrix = Matrices(call, IF call.inPlace THEN t - nb ELSE t)
  BY DEF Init, nb, t, kb
<1>2. kb \in Nat \ {0} /\ nb \in Nat /\ next \in 0 .. kb - 1
  BY <1>1, BlocksAre, LevelsAre
<1>3. ASSUME NEW m \in 0 .. nb - 1, NEW bc \in 0 .. kb - 1
      PROVE  plain[m * kb + bc] = StoredMatrix(m, bc)
  <2> DEFINE x == m * kb + bc
  <2>1. x \in Matrices(call, nb) /\ x \div kb = m /\ x % kb = bc
    BY <1>1, <1>2, PlacedAt
  <2> HIDE DEF x
  <2>2. plain[x] = [row \in Coef |-> [col \in Coef |->
          Stored(call, x \div kb, x % kb, row, col)]]
    BY <1>1, <2>1
  <2>3. plain[x] = StoredMatrix(m, bc)
    BY <2>1, <2>2 DEF StoredMatrix
  <2> QED
    BY <2>3 DEF x
<1>4. 0 .. next - 1 = {} /\ next .. kb - 1 = 0 .. kb - 1
  BY <1>1
<1> QED
  BY <1>1, <1>2, <1>3, <1>4 DEF IInv

\* A block column is interpolated, the others stay.
LEMMA BlockInterpolated ==
  ASSUME IInv, InterpolateBlock, NEW k \in 0 .. t - 1, NEW bc \in 0 .. kb - 1
  PROVE  PanelMatrix(k, bc)' = IF bc = next THEN Interpolated(bc, k) ELSE PanelMatrix(k, bc)
<1>1. /\ stage = "interpolate" /\ call \in Calls /\ next \in 0 .. kb - 1 /\ call' = call
      /\ DOMAIN plain = Matrices(call, nb)
      /\ DOMAIN matrix = Matrices(call, IF call.inPlace THEN t - nb ELSE t)
      /\ \A m \in 0 .. nb - 1 : plain[m * kb + next] = StoredMatrix(m, next)
  <2>1. stage = "interpolate" /\ call' = call
    BY DEF InterpolateBlock
  <2>2. next \in 0 .. kb - 1 /\ call \in Calls
    BY <2>1 DEF IInv
  <2>3. next \in next .. kb - 1
    BY <2>2, BlocksAre
  <2> QED
    BY <2>1, <2>2, <2>3 DEF IInv
<1> DEFINE byColumn == [col \in Coef |-> Idft([m \in 0 .. t - 1 |-> Loaded(next)[m][col]])]
           result == [m \in 0 .. t - 1 |-> [col \in Coef |-> byColumn[col][m]]]
           first == IF call.inPlace THEN nb ELSE 0
           x == k * kb + bc
           y == (k - nb) * kb + bc
<1>2. /\ plain' = [z \in DOMAIN plain |->
           IF call.inPlace /\ z % kb = next THEN Scaled(result[z \div kb]) ELSE plain[z]]
      /\ matrix' = [z \in DOMAIN matrix |->
           IF z % kb = next THEN Scaled(result[first + z \div kb]) ELSE matrix[z]]
  BY DEF InterpolateBlock
<1>3. ASSUME NEW j \in 0 .. t - 1
      PROVE  Scaled(result[j]) = Interpolated(next, j)
  <2>1. \A col \in Coef : result[j][col] = Idft(OriginalColumn(next, col))[j]
    <3>1. \A col \in Coef : [m \in 0 .. t - 1 |-> Loaded(next)[m][col]] = OriginalColumn(next, col)
      BY <1>1, LoadedIs
    <3> QED
      BY <3>1
  <2> HIDE DEF result
  <2> QED
    BY <2>1 DEF Scaled, Interpolated, Inv
<1> HIDE DEF result
<1>4. nb \in Nat /\ t \in Nat /\ nb <= t
  BY <1>1, LevelsAre
<1>5. PanelMatrix(k, bc)' =
        IF ~call.inPlace THEN matrix'[x] ELSE IF k < nb THEN plain'[x] ELSE matrix'[y]
  BY <1>1 DEF PanelMatrix, kb, nb
<1>6. PanelMatrix(k, bc) =
        IF ~call.inPlace THEN matrix[x] ELSE IF k < nb THEN plain[x] ELSE matrix[y]
  BY DEF PanelMatrix
<1>7. CASE ~call.inPlace
  <2>1. x \in DOMAIN matrix /\ x % kb = bc /\ x \div kb = k
    BY <1>1, <1>4, <1>7, PlacedAt
  <2>2. first + x \div kb = k
    BY <1>4, <1>7, <2>1
  <2> HIDE DEF x, first
  <2>3. matrix'[x] = IF bc = next THEN Scaled(result[k]) ELSE matrix[x]
    BY <1>2, <2>1, <2>2
  <2> QED
    BY <1>3, <1>5, <1>6, <1>7, <2>3
<1>8. CASE call.inPlace /\ k < nb
  <2>1. k \in 0 .. nb - 1
    BY <1>4, <1>8
  <2>2. x \in DOMAIN plain /\ x % kb = bc /\ x \div kb = k
    BY <1>1, <1>4, <2>1, PlacedAt
  <2> HIDE DEF x
  <2>3. plain'[x] = IF bc = next THEN Scaled(result[k]) ELSE plain[x]
    BY <1>2, <1>8, <2>2
  <2> QED
    BY <1>3, <1>5, <1>6, <1>8, <2>3
<1>9. CASE call.inPlace /\ ~(k < nb)
  <2>1. k - nb \in 0 .. (t - nb) - 1 /\ t - nb \in Nat
    BY <1>4, <1>9
  <2>2. y \in DOMAIN matrix /\ y % kb = bc /\ y \div kb = k - nb
    BY <1>1, <1>9, <2>1, PlacedAt
  <2>3. first + y \div kb = k
    BY <1>4, <1>9, <2>2
  <2> HIDE DEF y, first
  <2>4. matrix'[y] = IF bc = next THEN Scaled(result[k]) ELSE matrix[y]
    BY <1>2, <2>2, <2>3
  <2> QED
    BY <1>3, <1>5, <1>6, <1>9, <2>4
<1> QED
  BY <1>7, <1>8, <1>9


\* The other steps leave the matrices alone.
LEMMA KeepsMatrices ==
  ASSUME IInv, stage # "interpolate", stage' # "interpolate", UNCHANGED <<call, plain, matrix>>
  PROVE  IInv'
<1>1. /\ call \in Calls
      /\ DOMAIN plain = Matrices(call, nb)
      /\ DOMAIN matrix = Matrices(call, IF call.inPlace THEN t - nb ELSE t)
      /\ \A k \in 0 .. t - 1, bc \in 0 .. kb - 1 : InterpolatedIn(k, bc)
  BY DEF IInv
<1>2. t' = t /\ nb' = nb /\ kb' = kb
  BY DEF t, nb, kb
<1>3. \A k, bc : InterpolatedIn(k, bc)' <=> InterpolatedIn(k, bc)
  BY <1>2 DEF InterpolatedIn, PanelMatrix, Interpolated, Inv, Idft, Permuted, Butterflies,
              OriginalColumn, nb, kb, t
<1> QED
  BY <1>1, <1>2, <1>3 DEF IInv

\* Every step keeps the invariant: a block column is finished, or nothing changes in the
\* matrices.
LEMMA StepInv ==
  ASSUME IInv, [Next]_vars
  PROVE  IInv'
<1>1. CASE InterpolateBlock
  <2>1. /\ stage = "interpolate" /\ call \in Calls /\ next \in 0 .. kb - 1 /\ call' = call
        /\ next' = next + 1
        /\ DOMAIN plain' = DOMAIN plain /\ DOMAIN matrix' = DOMAIN matrix
        /\ stage' = IF next + 1 < kb THEN stage ELSE IF call.inPlace THEN "inPlace" ELSE "prepare"
    BY <1>1 DEF InterpolateBlock, IInv
  <2>2. t' = t /\ nb' = nb /\ kb' = kb
    BY <2>1 DEF t, nb, kb
  <2>3. kb \in Nat \ {0} /\ nb \in Nat /\ t \in Nat
    BY <2>1, BlocksAre, LevelsAre
  <2>4. \A k, bc : Interpolated(bc, k)' = Interpolated(bc, k)
    BY <2>1 DEF Interpolated, Inv, Idft, Permuted, Butterflies, OriginalColumn, nb, t
  <2>5. ASSUME NEW k \in 0 .. t - 1, NEW bc \in 0 .. next
        PROVE  InterpolatedIn(k, bc)'
    <3>1. bc \in 0 .. kb - 1 /\ (bc # next => bc \in 0 .. next - 1)
      BY <2>1, <2>3
    <3>2. PanelMatrix(k, bc)' = IF bc = next THEN Interpolated(bc, k) ELSE PanelMatrix(k, bc)
      BY <1>1, <3>1, BlockInterpolated
    <3>3. bc # next => InterpolatedIn(k, bc)
      BY <2>1, <3>1 DEF IInv
    <3> QED
      BY <2>4, <3>2, <3>3 DEF InterpolatedIn
  <2>6. ASSUME NEW m \in 0 .. nb - 1, NEW bc \in next + 1 .. kb - 1
        PROVE  plain'[m * kb + bc] = StoredMatrix(m, bc)
    <3>1. bc \in next .. kb - 1 /\ bc \in 0 .. kb - 1 /\ bc # next
      BY <2>1, <2>3
    <3>2. plain[m * kb + bc] = StoredMatrix(m, bc)
      BY <2>1, <3>1 DEF IInv
    <3> DEFINE x == m * kb + bc
    <3>3. x \in DOMAIN plain /\ x % kb = bc
      BY <2>1, <2>3, <3>1, PlacedAt DEF IInv
    <3> HIDE DEF x
    <3>4. plain'[x] = plain[x]
      BY <1>1, <3>1, <3>3 DEF InterpolateBlock
    <3> QED
      BY <3>2, <3>4 DEF x
  <2>7. \A m, bc : StoredMatrix(m, bc)' = StoredMatrix(m, bc)
    BY <2>1 DEF StoredMatrix
  <2>8. /\ call' \in Calls
        /\ DOMAIN plain' = Matrices(call', nb')
        /\ DOMAIN matrix' = Matrices(call', IF call'.inPlace THEN t' - nb' ELSE t')
    BY <2>1, <2>2 DEF IInv
  <2>9. CASE next + 1 < kb
    <3>1. stage' = "interpolate" /\ next' \in 0 .. kb - 1 /\ 0 .. next' - 1 = 0 .. next
      BY <2>1, <2>3, <2>9
    <3>2. \A m \in 0 .. nb' - 1, bc \in next' .. kb' - 1 :
            plain'[m * kb' + bc] = StoredMatrix(m, bc)'
      BY <2>1, <2>2, <2>6, <2>7
    <3>3. \A k \in 0 .. t' - 1, bc \in 0 .. next' - 1 : InterpolatedIn(k, bc)'
      BY <2>2, <2>5, <3>1
    <3> QED
      BY <2>2, <2>8, <3>1, <3>2, <3>3 DEF IInv
  <2>10. CASE ~(next + 1 < kb)
    <3>1. stage' # "interpolate" /\ 0 .. kb - 1 = 0 .. next
      BY <2>1, <2>3, <2>10
    <3>2. \A k \in 0 .. t' - 1, bc \in 0 .. kb' - 1 : InterpolatedIn(k, bc)'
      BY <2>2, <2>5, <3>1
    <3> QED
      BY <2>8, <3>1, <3>2 DEF IInv
  <2> QED
    BY <2>9, <2>10
<1>2. CASE PrepareU
  BY <1>2, KeepsMatrices DEF PrepareU
<1>3. ASSUME NEW w \in DOMAIN Groups, PrecomputePanel(w)
      PROVE  IInv'
  BY <1>3, KeepsMatrices DEF PrecomputePanel
<1>4. ASSUME NEW indices \in call.asks, Ask(indices)
      PROVE  IInv'
  BY <1>4, KeepsMatrices DEF Ask
<1>5. ASSUME NEW w \in DOMAIN Groups, AnswerPanel(w)
      PROVE  IInv'
  BY <1>5, KeepsMatrices DEF AnswerPanel
<1>6. CASE StartReduce
  BY <1>6, KeepsMatrices DEF StartReduce
<1>7. CASE Reduce
  BY <1>7, KeepsMatrices DEF Reduce
<1>8. CASE NextQuery
  BY <1>8, KeepsMatrices DEF NextQuery
<1>9. CASE UNCHANGED vars
  <2>1. UNCHANGED <<call, stage, next, plain, matrix>>
    BY <1>9 DEF vars
  <2>2. t' = t /\ nb' = nb /\ kb' = kb
    BY <2>1 DEF t, nb, kb
  <2>3. \A k, bc : InterpolatedIn(k, bc)' <=> InterpolatedIn(k, bc)
    BY <2>1, <2>2 DEF InterpolatedIn, PanelMatrix, Interpolated, Inv, Idft, Permuted, Butterflies,
                      OriginalColumn, nb, kb, t
  <2>4. \A m, bc : StoredMatrix(m, bc)' = StoredMatrix(m, bc)
    BY <2>1 DEF StoredMatrix
  <2> QED
    BY <2>1, <2>2, <2>3, <2>4 DEF IInv
<1> QED
  BY <1>1, <1>2, <1>3, <1>4, <1>5, <1>6, <1>7, <1>8, <1>9 DEF Next


-----------------------------------------------------------------------------
(* The value at a root *)

\* The sum of the ring's helper is a sum.
LEMMA SumUpToIs ==
  ASSUME NEW f, NEW n \in Nat
  PROVE  Digits!SumUpTo(f, n) = Sum(f, n)
<1> DEFINE adds(r) == [i \in 0 .. n |-> IF i = 0 THEN 0 ELSE r[i - 1] + f[i - 1]]
           sums == CHOOSE r : r = adds(r)
           p == PartialSums(f, n)
<1>1. Digits!SumUpTo(f, n) = sums[n]
  BY DEF Digits!SumUpTo
<1>2. AddsUp(p, f, n)
  BY SumsAre
<1> HIDE DEF p
<1>3. p = adds(p)
  BY <1>2 DEF AddsUp
<1>4. sums = adds(sums)
  <2> HIDE DEF adds
  <2> QED
    BY <1>3
<1> HIDE DEF sums
<1>5. AddsUp(sums, f, n)
  BY <1>4 DEF AddsUp
<1> QED
  BY <1>1, <1>5, SumsAreUnique

\* A column of an interpolated panel is the transform's polynomial over t.
LEMMA InterpolatedScales ==
  ASSUME call \in Calls, NEW bc \in Nat, NEW col \in Coef, NEW k \in 0 .. t - 1,
         NEW a, a = [row \in Coef |-> Interpolated(bc, k)[row][col] % OddBase],
         NEW e \in Int
  PROVE  /\ Ints(a) /\ Ints(Idft(OriginalColumn(bc, col))[k])
         /\ Congruent(Turn(a, e), Inv * Turn(Idft(OriginalColumn(bc, col))[k], e), OddBase)
<1> DEFINE b == Idft(OriginalColumn(bc, col))[k]
<1>1. Idft(OriginalColumn(bc, col)) \in Working
  BY OriginalIs, TransformIs
<1>2. b \in IntPolys /\ Ints(b)
  BY <1>1 DEF Working, IntPolys, Ints
<1>3. Inv \in Int /\ OddBase \in Nat \ {0} /\ OddBase \in Int
  BY InverseIs, BasesAre
<1>4. \A row \in Coef : a[row] = CentredMod(b[row] * Inv, OddBase) % OddBase
  BY DEF Interpolated
<1> HIDE DEF b
<1>5. ASSUME NEW row \in Coef
      PROVE  a[row] \in Int /\ Congruent(a[row], Inv * b[row], OddBase)
  <2> DEFINE x == b[row] * Inv
             c == CentredMod(x, OddBase)
  <2>1. x \in Int /\ x = Inv * b[row]
    BY <1>2, <1>3, IntProduct DEF Ints
  <2> HIDE DEF x
  <2>2. c \in Int /\ Congruent(c, x, OddBase)
    BY <2>1, CentredIs
  <2> HIDE DEF c
  <2>3. (c % OddBase) \in Int /\ Congruent(c % OddBase, c, OddBase)
    BY <1>3, <2>2, CongruentRest
  <2>4. a[row] = c % OddBase
    BY <1>4 DEF c, x
  <2>5. Congruent(a[row], x, OddBase)
    BY <1>3, <2>1, <2>2, <2>3, <2>4, CongruentTrans
  <2> QED
    BY <2>1, <2>3, <2>4, <2>5
<1>6. Ints(a)
  BY <1>5 DEF Ints
<1>7. Congruent(Turn(a, e), Inv * Turn(b, e), OddBase)
  BY <1>2, <1>3, <1>5, <1>6, TurnScales
<1> QED
  BY <1>2, <1>6, <1>7 DEF b

\* The panels' polynomial at the root of block row m is the block row.
LEMMA ValueIsRow ==
  ASSUME call \in Calls, NEW bc \in Nat, NEW col \in Coef, NEW m \in 0 .. t - 1, NEW i \in Coef,
         NEW f, \A k \in 0 .. t - 1 :
           f[k] = Digits!Rotate(((2 * N) \div t) * m * k,
                    [row \in Coef |-> Interpolated(bc, k)[row][col] % OddBase])[i]
  PROVE  Sum(f, t) % OddBase = OriginalColumn(bc, col)[m][i]
<1> DEFINE P == OddBase
           y == OriginalColumn(bc, col)
           z == Idft(y)
           h == Terms(z, Levels, 0, m, i)
           g == [k \in 0 .. t - 1 |-> Inv * h[k]]
           r == Turns(Levels)
<1>1. /\ t \in Nat \ {0} /\ Levels \in 0 .. Levels /\ r \in Nat /\ Width(Levels) = t
      /\ r = (2 * N) \div t
  <2>1. t \in Nat \ {0} /\ Levels \in Nat /\ Width(Levels) = t
    BY LevelsAre
  <2>2. Levels \in 0 .. Levels
    BY <2>1
  <2>3. r \in Nat
    BY <2>2, LevelsAre
  <2> QED
    BY <2>1, <2>2, <2>3 DEF Turns, Width
<1>2. y \in Working /\ z \in Working /\ y[m][i] \in 0 .. P - 1
      /\ Congruent(ValueAt(z, Levels, 0, m, i), t * Turn(y[m], i), P)
  <2>1. i \in Int
    BY DegreeIs
  <2>2. y \in Working /\ y[m][i] \in 0 .. P - 1
    BY OriginalIs
  <2> QED
    BY <2>1, <2>2, TransformIs
<1>3. /\ P \in Nat \ {0} /\ P \in Int /\ Inv \in Int /\ Congruent(Inv * t, 1, P)
      /\ m \in Nat /\ i \in Int
  BY <1>1, BasesAre, InverseIs, DegreeIs
<1>4. /\ \A k \in 0 .. t - 1 : /\ h[k] = Turn(z[0 + k], i - r * (m * k))
                               /\ h[k] \in Int
                               /\ i - r * (m * k) \in Int
      /\ ValueAt(z, Levels, 0, m, i) = Sum(h, t)
      /\ Sum(h, t) \in Int
  <2>1. IsRun(0, Levels)
    BY <1>1 DEF IsRun
  <2>2. ValueAt(z, Levels, 0, m, i) = Sum(h, t)
    BY <1>1 DEF ValueAt
  <2> HIDE DEF z
  <2>3. /\ \A k \in 0 .. Width(Levels) - 1 :
             /\ h[k] = Turn(z[0 + k], i - r * (m * k))
             /\ h[k] \in Int
             /\ i - r * (m * k) \in Int
        /\ ValueAt(z, Levels, 0, m, i) \in Int
    BY <1>1, <1>2, <1>3, <2>1, TermIs
  <2> QED
    BY <1>1, <2>2, <2>3
<1> HIDE DEF h, r, P
<1>5. ASSUME NEW k \in 0 .. t - 1
      PROVE  f[k] \in Int /\ g[k] \in Int /\ Congruent(f[k], g[k], P)
  <2> DEFINE a == [row \in Coef |-> Interpolated(bc, k)[row][col] % OddBase]
             e == r * (m * k)
             d == i - e
  <2>1. k \in Nat /\ k \in Int
    BY <1>1
  <2>2. ((2 * N) \div t) * m * k = e /\ e \in Int /\ d \in Int
    <3>1. m * k \in Int /\ e \in Int
      BY <1>1, <1>3, <2>1, IntProduct
    <3>2. r * m * k = r * (m * k)
      BY <1>1, <1>3, <2>1, SMT
    <3> QED
      BY <1>1, <1>3, <3>1, <3>2
  <2>3. 0 + k = k
    BY <2>1
  <2>4. h[k] = Turn(z[k], d) /\ h[k] \in Int
    BY <1>4, <2>3
  <2> HIDE DEF d
  <2>5. Ints(a) /\ Congruent(Turn(a, d), Inv * Turn(z[k], d), P)
    BY <2>2, InterpolatedScales DEF P
  <2> HIDE DEF a, z
  <2>6. Digits!Rotate(e, a) \in IntPolys /\ Congruent(Digits!Rotate(e, a)[i], Turn(a, i - e), P)
    BY <2>2, <2>5, RotateIs DEF P
  <2>7. f[k] = Digits!Rotate(e, a)[i] /\ f[k] \in Int
    <3>1. f[k] = Digits!Rotate(e, a)[i]
      BY <2>2 DEF a
    <3> QED
      BY <2>6, <3>1 DEF IntPolys
  <2>8. Turn(a, d) \in Int
    BY <2>2, <2>5, TurnIs
  <2>9. g[k] = Inv * h[k] /\ g[k] \in Int
    BY <1>3, <2>4, IntProduct
  <2> HIDE DEF g
  <2>10. Congruent(f[k], Turn(a, d), P) /\ Congruent(Turn(a, d), g[k], P)
    BY <2>4, <2>5, <2>6, <2>7, <2>9 DEF d
  <2> QED
    BY <1>3, <2>7, <2>8, <2>9, <2>10, CongruentTrans
<1>6. Sum(f, t) \in Int /\ Sum(g, t) \in Int /\ Congruent(Sum(f, t), Sum(g, t), P)
  <2> HIDE DEF g
  <2> QED
    BY <1>1, <1>3, <1>5, SumIsInt, SumsCongruent
<1>7. Sum(g, t) = Inv * Sum(h, t)
  <2>1. \A k \in 0 .. t - 1 : h[k] \in Int /\ g[k] = Inv * h[k]
    BY <1>4
  <2> HIDE DEF g
  <2> QED
    BY <1>1, <1>3, <2>1, SumTimes
<1> HIDE DEF g
<1> DEFINE v == y[m][i]
           s == Sum(h, t)
           w == Sum(f, t)
<1>8. Turn(y[m], i) = v /\ v \in 0 .. P - 1 /\ v \in Int
  <2>1. v \in 0 .. P - 1
    BY <1>2
  <2>2. Turn(y[m], i) = v
    BY TurnSmall
  <2> HIDE DEF v
  <2> QED
    BY <1>3, <2>1, <2>2
<1>9. Congruent(s, t * v, P) /\ s \in Int /\ w \in Int /\ Congruent(w, Inv * s, P)
  BY <1>2, <1>4, <1>6, <1>7, <1>8
<1> HIDE DEF v, s, w
<1>10. Congruent(w, v, P)
  <2> DEFINE u == Inv * t
             tv == t * v
  <2>1. t \in Int /\ u \in Int /\ tv \in Int /\ Inv * s \in Int /\ Inv * tv = u * v
        /\ u * v \in Int /\ 1 * v = v /\ 1 \in Int
    <3>1. t \in Int
      BY <1>1
    <3>2. u \in Int /\ tv \in Int /\ Inv * s \in Int
      BY <1>3, <1>8, <1>9, <3>1, IntProduct
    <3>3. u * v \in Int /\ Inv * tv = u * v
      <4>1. Inv * (t * v) = (Inv * t) * v
        BY <1>3, <1>8, <3>1, SMT
      <4>2. u * v \in Int
        BY <1>8, <3>2, IntProduct
      <4> QED
        BY <4>1, <4>2
    <3> QED
      BY <1>8, <3>1, <3>2, <3>3
  <2>2. Congruent(u, 1, P)
    BY <1>3
  <2>3. Congruent(s, tv, P)
    BY <1>9
  <2> HIDE DEF u, tv
  <2>4. Congruent(Inv, Inv, P) /\ Congruent(v, v, P)
    BY <1>3, <1>8, CongruentSame
  <2>5. Congruent(Inv * s, Inv * tv, P)
    BY <1>3, <1>9, <2>1, <2>3, <2>4, CongruentProduct
  <2>6. Congruent(u * v, 1 * v, P)
    BY <1>3, <1>8, <2>1, <2>2, <2>4, CongruentProduct
  <2>7. Congruent(Inv * s, v, P)
    BY <1>3, <1>8, <2>1, <2>5, <2>6, CongruentTrans
  <2> QED
    BY <1>3, <1>8, <1>9, <2>1, <2>7, CongruentTrans
<1>11. w % P = v
  <2>1. (w % P) \in 0 .. P - 1 /\ Congruent(w % P, w, P) /\ (w % P) \in Int
    BY <1>3, <1>9, IntQuotient, CongruentRest
  <2> DEFINE q == w % P
  <2> HIDE DEF q
  <2>2. Congruent(q, v, P) /\ q \in 0 .. P - 1
    BY <1>3, <1>8, <1>9, <1>10, <2>1, CongruentTrans DEF q
  <2>3. q = v
    BY <1>3, <1>8, <2>2, ResiduesSame
  <2> QED
    BY <2>3 DEF q
<1> QED
  BY <1>11 DEF v, w, P

\* The invariant makes the panels of every block column those of the interpolating polynomial.
LEMMA PanelsHold == IInv => PanelsInterpolate
<1> SUFFICES ASSUME IInv, stage \in {"inPlace", "prepare"},
                    NEW m \in 0 .. t - 1, NEW bc \in 0 .. kb - 1, NEW col \in Coef
             PROVE  LET column(k) == [row \in Coef |-> PanelMatrix(k, bc)[row][col] % OddBase]
                        value == Digits!PlusUpTo(
                          [k \in 0 .. t - 1 |-> Digits!Rotate(((2 * N) \div t) * m * k, column(k))], t)
                    IN value = [row \in Coef |->
                                  IF m < nb THEN Stored(call, m, bc, row, col) % OddBase ELSE 0]
  BY DEF PanelsInterpolate
<1> DEFINE column(k) == [row \in Coef |-> PanelMatrix(k, bc)[row][col] % OddBase]
           turned == [k \in 0 .. t - 1 |-> Digits!Rotate(((2 * N) \div t) * m * k, column(k))]
           value == Digits!PlusUpTo(turned, t)
           row0 == OriginalColumn(bc, col)[m]
<1>1. call \in Calls /\ \A k \in 0 .. t - 1 : PanelMatrix(k, bc) = Interpolated(bc, k)
  BY DEF IInv, InterpolatedIn
<1>2. t \in Nat /\ bc \in Nat
  BY <1>1, LevelsAre, BlocksAre
<1>3. ASSUME NEW i \in Coef
      PROVE  value[i] = row0[i]
  <2> DEFINE f == [k \in 0 .. t - 1 |-> turned[k][i]]
  <2>1. value[i] = Digits!SumUpTo(f, t) % OddBase
    BY DEF Digits!PlusUpTo, Digits!Coef, Coef
  <2>2. \A k \in 0 .. t - 1 :
          f[k] = Digits!Rotate(((2 * N) \div t) * m * k,
                   [row \in Coef |-> Interpolated(bc, k)[row][col] % OddBase])[i]
    BY <1>1
  <2> HIDE DEF f, value
  <2>3. Digits!SumUpTo(f, t) = Sum(f, t)
    BY <1>2, SumUpToIs
  <2>4. Sum(f, t) % OddBase = row0[i]
    BY <1>1, <1>2, <2>2, ValueIsRow
  <2> QED
    BY <2>1, <2>3, <2>4
<1>4. row0 = [row \in Coef |-> IF m < nb THEN Stored(call, m, bc, row, col) % OddBase ELSE 0]
  BY DEF OriginalColumn, Digits!Zero, Digits!Coef, Coef
<1>5. value = [row \in Coef |-> value[row]]
  BY DEF Digits!PlusUpTo, Digits!Coef, Coef
<1> HIDE DEF value, row0
<1>6. value = [row \in Coef |-> row0[row]]
  BY <1>3, <1>5
<1>7. value = [row \in Coef |-> IF m < nb THEN Stored(call, m, bc, row, col) % OddBase ELSE 0]
  BY <1>4, <1>6
<1> QED
  BY <1>7 DEF value

\* The matrices are, at every moment, what the blocks interpolated so far make of the database.
LEMMA Invariance == Spec => []IInv
<1>1. Init => IInv
  BY InitInv
<1>2. IInv /\ [Next]_vars => IInv'
  BY StepInv
<1> QED
  BY <1>1, <1>2, PTL DEF Spec

\* `interpolate_into` and `prepare` both leave panels that are the coefficients of a
\* polynomial which takes the database's block rows as its values at the roots, and zero
\* at the roots beyond the database: for every database, degree and odd base.
THEOREM PanelsAlwaysInterpolate == Spec => []PanelsInterpolate
BY Invariance, PanelsHold, PTL

-----------------------------------------------------------------------------
(* From the torus to digits *)

Unit == EncodedUnit(OddBase, TorusBits)

\* Half of the odd base is what the word leaves below its own half.
LEMMA HalvesAre ==
  /\ OddBase \div 2 \in Nat /\ Word \div 2 = OddBase \div 2 + 1
  /\ Word = 2 * (Word \div 2) /\ OddBase = 2 * (OddBase \div 2) + 1
<1> DEFINE b == WordBits - 1
           h == 2 ^ b
<1>1. /\ WordBits \in Nat /\ b \in 0 .. WordBits - 1 /\ b + 1 = WordBits
      /\ WordBits \in Doubled
  BY CodecAssumption DEF Doubled
<1>2. h \in Nat /\ 2 ^ (b + 1) = 2 * h
  <2>1. b \in 0 .. WordBits
    BY <1>1
  <2> QED
    BY <1>1, <2>1, TwoTo
<1>3. Word = 2 * h
  BY <1>1, <1>2 DEF Word
<1>4. Word >= 4 /\ OddBase = Word - 1
  BY BasesAre
<1> HIDE DEF h, b
<1>5. h - 1 \in Nat /\ OddBase = 2 * (h - 1) + 1 /\ Word = 2 * h + 0
  BY <1>2, <1>3, <1>4
<1>6. Word \div 2 = h /\ OddBase \div 2 = h - 1
  <2> DEFINE w == Word
             p == OddBase
             g == h - 1
  <2>1. /\ w \in Int /\ p \in Int /\ 2 \in Nat \ {0} /\ h \in Int /\ g \in Int
        /\ 0 \in 0 .. 2 - 1 /\ 1 \in 0 .. 2 - 1 /\ w = 2 * h + 0 /\ p = 2 * g + 1
    BY <1>2, <1>4, <1>5, BasesAre
  <2> HIDE DEF w, p, g
  <2>2. w \div 2 = h
    BY <2>1, QuotientIs
  <2>3. p \div 2 = g
    BY <2>1, QuotientIs
  <2> QED
    BY <2>2, <2>3 DEF w, p, g
<1> QED
  BY <1>3, <1>5, <1>6

\* The torus has an even number of points.
LEMMA TorusIs == 2 ^ TorusBits \in Nat \ {0} /\ TorusBits \in Nat
<1>1. TorusBits \in Nat /\ TorusBits \in Doubled /\ TorusBits \in 0 .. TorusBits
  BY RoomAssumption DEF Doubled
<1> QED
  BY <1>1, TwoTo

\* Division rounds to the nearest.
LEMMA RoundIs ==
  ASSUME NEW n \in Int, NEW b \in Nat \ {0}, NEW r \in Int, 2 * r < b, -b < 2 * r
  PROVE  RoundDiv(b * n + r, b) = n
<1> DEFINE a == b * n + r
           h == b \div 2
<1>1. h \in Nat /\ 2 * h <= b /\ b <= 2 * h + 1
  <2> DEFINE o == b % 2
  <2>1. 2 \in Nat \ {0} /\ b \in Nat
    OBVIOUS
  <2>2. h \in Nat /\ o \in 0 .. 2 - 1 /\ b = 2 * h + o
    BY <2>1, Quotient
  <2> HIDE DEF h, o
  <2> QED
    BY <2>2
<1>2. b * n \in Int /\ a \in Int
  BY IntProduct
<1>3. RoundDiv(a, b) = IF a < 0 THEN -((h - a) \div b) ELSE (a + h) \div b
  BY DEF RoundDiv
<1>4. a = b * n + r
  OBVIOUS
<1> HIDE DEF a, h
<1>5. (a + h) \div b = n
  <2>1. r + h \in 0 .. b - 1
    BY <1>1
  <2>2. a + h \in Int /\ a + h = b * n + (r + h)
    BY <1>1, <1>2, <1>4
  <2> DEFINE x == a + h
             y == r + h
  <2> HIDE DEF x, y
  <2>3. x \in Int /\ y \in 0 .. b - 1 /\ x = b * n + y
    BY <2>1, <2>2 DEF x, y
  <2>4. x \div b = n
    BY <2>3, QuotientIs
  <2> QED
    BY <2>4 DEF x
<1>6. (h - a) \div b = -n
  <2>1. h - r \in 0 .. b - 1
    BY <1>1
  <2>2. b * (-n) = -(b * n) /\ -n \in Int
    BY SMT
  <2> DEFINE x == h - a
             y == h - r
             m == -n
  <2>3. x \in Int /\ x = b * m + y
    BY <1>1, <1>2, <1>4, <2>2
  <2> HIDE DEF x, y
  <2>4. x \in Int /\ y \in 0 .. b - 1 /\ x = b * m + y /\ m \in Int
    BY <2>1, <2>2, <2>3 DEF y
  <2> HIDE DEF m
  <2>5. x \div b = m
    BY <2>4, QuotientIs
  <2> QED
    BY <2>5 DEF x, m
<1>7. -(-n) = n
  OBVIOUS
<1> QED
  BY <1>3, <1>5, <1>6, <1>7 DEF a

\* A digit's unit on the torus, taken OddBase times, is the torus but for less than half
\* the base.
LEMMA UnitIs ==
  /\ Unit \in Int
  /\ 2 * (Unit * OddBase - 2 ^ TorusBits) <= OddBase
  /\ -OddBase <= 2 * (Unit * OddBase - 2 ^ TorusBits)
<1> DEFINE q == 2 ^ TorusBits
           p == OddBase
           h == p \div 2
           x == q + h
           u == x \div p
           r == x % p
<1>1. q \in Nat \ {0} /\ p \in Nat \ {0} /\ h \in Nat /\ p = 2 * h + 1
  BY TorusIs, HalvesAre, BasesAre
<1>2. Unit = IF q < 0 THEN -((h - q) \div p) ELSE u
  BY DEF Unit, EncodedUnit, RoundDiv
<1> HIDE DEF q, p, h
<1>3. x \in Nat /\ ~(q < 0)
  BY <1>1
<1> HIDE DEF x
<1>4. u \in Nat /\ r \in 0 .. p - 1 /\ x = p * u + r
  BY <1>1, <1>3, Quotient
<1> HIDE DEF u, r
<1>5. u * p = p * u /\ p * u \in Int
  BY <1>1, <1>4, IntProduct
<1>6. x = q + h
  BY DEF x
<1>7. 2 * (u * p - q) <= p /\ -p <= 2 * (u * p - q)
  BY <1>1, <1>4, <1>5, <1>6
<1>8. Unit = u /\ u \in Int
  BY <1>2, <1>3, <1>4
<1> QED
  BY <1>7, <1>8 DEF q, p

\* Centring on the torus changes a coefficient by a multiple of the torus at most.
LEMMA CentredTorusIs ==
  ASSUME NEW x \in Int
  PROVE  /\ CentredTorus(x, TorusBits) \in Int
         /\ Congruent(CentredTorus(x, TorusBits), x, 2 ^ TorusBits)
<1> DEFINE q == 2 ^ TorusBits
           h == 2 ^ (TorusBits - 1)
           r == x % q
           y == CentredTorus(x, TorusBits)
<1>1. q \in Nat \ {0} /\ q \in Int
  BY TorusIs
<1>2. y = IF r >= h THEN r - q ELSE r
  BY DEF CentredTorus
<1> HIDE DEF q, h, y
<1>3. r \in Int /\ Congruent(r, x, q)
  BY <1>1, CongruentRest
<1> HIDE DEF r
<1>4. r - q \in Int /\ Congruent(r - q, r, q)
  <2>1. r - q = r + q * (-1) /\ -1 \in Int /\ r - q \in Int
    BY <1>1, <1>3
  <2> QED
    BY <2>1 DEF Congruent
<1>5. Congruent(r - q, x, q)
  BY <1>1, <1>3, <1>4, CongruentTrans
<1>6. y \in Int /\ Congruent(y, x, q)
  BY <1>2, <1>3, <1>4, <1>5
<1> QED
  BY <1>6 DEF y, q

\* Bounds of factors bound the product.
LEMMA ProductBound ==
  ASSUME NEW a \in Int, NEW b \in Int, NEW c \in Nat, NEW d \in Nat,
         a <= c, -c <= a, b <= d, -d <= b
  PROVE  a * b \in Int /\ c * d \in Nat /\ a * b <= c * d /\ -(c * d) <= a * b
<1>1. \A x, y \in Nat : x <= c /\ y <= d => x * y \in Nat /\ x * y <= c * d /\ c * d \in Nat
  <2>1. ASSUME NEW x \in Nat, NEW y \in Nat, x <= c, y <= d
        PROVE  x * y \in Nat /\ x * y <= c * d /\ c * d \in Nat
    <3>1. x * y \in Nat /\ c * y \in Nat /\ x * y <= c * y
      BY <2>1, ProductMonotone
    <3>2. y * c \in Nat /\ d * c \in Nat /\ y * c <= d * c
      BY <2>1, ProductMonotone
    <3>3. y * c = c * y /\ d * c = c * d
      BY IntProduct
    <3> QED
      BY <3>1, <3>2, <3>3
  <2> QED
    BY <2>1
<1>2. (-a) * b = -(a * b) /\ a * (-b) = -(a * b) /\ (-a) * (-b) = a * b /\ a * b \in Int
  BY SMT
<1>3. c * d \in Nat
  BY <1>1
<1> DEFINE p == a * b
           m == c * d
           a1 == -a
           b1 == -b
<1>4. CASE a >= 0 /\ b >= 0
  <2>1. p \in Nat /\ p <= m
    BY <1>1, <1>4
  <2> HIDE DEF p, m
  <2>2. p \in Int /\ m \in Nat /\ p <= m /\ -m <= p
    BY <1>3, <2>1 DEF m
  <2> QED
    BY <2>2 DEF p, m
<1>5. CASE a >= 0 /\ ~(b >= 0)
  <2>1. b1 \in Nat /\ b1 <= d
    BY <1>5
  <2>2. a * b1 \in Nat /\ a * b1 <= m
    <3> HIDE DEF b1
    <3> QED
      BY <1>1, <1>5, <2>1
  <2>3. a * b1 = -p /\ p \in Int
    BY <1>2
  <2> DEFINE o == a * b1
  <2> HIDE DEF p, m, b1, o
  <2>4. p \in Int /\ m \in Nat /\ p <= m /\ -m <= p
    BY <1>3, <2>2, <2>3 DEF m, o
  <2> QED
    BY <2>4 DEF p, m
<1>6. CASE ~(a >= 0) /\ b >= 0
  <2>1. a1 \in Nat /\ a1 <= c
    BY <1>6
  <2>2. a1 * b \in Nat /\ a1 * b <= m
    <3> HIDE DEF a1
    <3> QED
      BY <1>1, <1>6, <2>1
  <2>3. a1 * b = -p /\ p \in Int
    BY <1>2
  <2> DEFINE o == a1 * b
  <2> HIDE DEF p, m, a1, o
  <2>4. p \in Int /\ m \in Nat /\ p <= m /\ -m <= p
    BY <1>3, <2>2, <2>3 DEF m, o
  <2> QED
    BY <2>4 DEF p, m
<1>7. CASE ~(a >= 0) /\ ~(b >= 0)
  <2>1. a1 \in Nat /\ a1 <= c /\ b1 \in Nat /\ b1 <= d
    BY <1>7
  <2>2. a1 * b1 \in Nat /\ a1 * b1 <= m
    <3> HIDE DEF a1, b1
    <3> QED
      BY <1>1, <2>1
  <2>3. a1 * b1 = p
    BY <1>2
  <2> HIDE DEF p, m, a1, b1
  <2>4. p \in Int /\ m \in Nat /\ p <= m /\ -m <= p
    BY <1>3, <2>2, <2>3 DEF m
  <2> QED
    BY <2>4 DEF p, m
<1> QED
  BY <1>4, <1>5, <1>6, <1>7

\* What is a multiple of the base off, is the same digit.
LEMMA CentredSame ==
  ASSUME NEW x \in Int, NEW y \in Int, Congruent(x, y, OddBase)
  PROVE  CentredMod(x, OddBase) = CentredMod(y, OddBase)
<1> DEFINE p == OddBase
           r == y % p
           s == y \div p
<1>1. p \in Nat \ {0} /\ p \in Int
  BY BasesAre
<1> HIDE DEF p
<1>2. s \in Int /\ r \in 0 .. p - 1 /\ y = p * s + r
  BY <1>1, IntQuotient
<1> HIDE DEF s
<1>3. PICK z \in Int : x = y + p * z
  BY DEF Congruent, p
<1>4. p * (s + z) = p * s + p * z /\ s + z \in Int /\ p * s \in Int /\ p * z \in Int
  BY <1>1, <1>2, SMT
<1>5. x % p = r
  <2> DEFINE w == s + z
             e == r
  <2> HIDE DEF r
  <2>1. x = p * w + r /\ w \in Int
    <3> DEFINE f == p * s
               g == p * z
               k == p * w
    <3>1. k = f + g /\ f \in Int /\ g \in Int
      BY <1>4
    <3> HIDE DEF f, g, k
    <3>2. x = k + r
      BY <1>2, <1>3, <3>1 DEF f, g
    <3> QED
      BY <1>4, <3>2 DEF k
  <2> HIDE DEF w
  <2> QED
    BY <1>1, <1>2, <2>1, QuotientIs
<1> QED
  BY <1>5 DEF CentredMod, p, r

\* Digits decoded from the torus: a sum of n digits, below half the base each, times the
\* unit, is told from its neighbours when n squares of the base are below two tori.
LEMMA TorusDigit ==
  ASSUME NEW n \in Nat, n * (OddBase * OddBase) < 2 * 2 ^ TorusBits,
         NEW s \in Int, 2 * s <= n * OddBase, -(n * OddBase) <= 2 * s,
         NEW x \in Int, Congruent(x, Unit * s, 2 ^ TorusBits)
  PROVE  DecodeCoeff(x, OddBase, TorusBits) = CentredMod(s, OddBase)
<1> DEFINE q == 2 ^ TorusBits
           p == OddBase
           u == Unit
           y == CentredTorus(x, TorusBits)
           d == u * p - q
<1>1. /\ q \in Nat \ {0} /\ q \in Int /\ p \in Nat \ {0} /\ p \in Int /\ u \in Int
      /\ 2 * d <= p /\ -p <= 2 * d
  BY TorusIs, BasesAre, UnitIs
<1>2. y \in Int /\ Congruent(y, x, q)
  BY CentredTorusIs
<1>3. DecodeCoeff(x, p, TorusBits) = CentredMod(RoundDiv(y * p, q), p)
  BY DEF DecodeCoeff
<1>4. n * (p * p) < 2 * q /\ 2 * s <= n * p /\ -(n * p) <= 2 * s /\ Congruent(x, u * s, q)
  OBVIOUS
<1> HIDE DEF y, q, p, u, d
<1>5. u * s \in Int /\ u * p \in Int /\ d \in Int
  <2>1. u * s \in Int /\ u * p \in Int
    BY <1>1, IntProduct
  <2> DEFINE e == u * p
  <2>2. e \in Int
    BY <2>1
  <2>3. d = e - q
    BY DEF d
  <2> HIDE DEF e
  <2>4. d \in Int
    BY <1>1, <2>2, <2>3
  <2> QED
    BY <2>1, <2>4
<1>6. PICK z \in Int : y = u * s + q * z
  <2>1. Congruent(y, u * s, q)
    BY <1>1, <1>2, <1>4, <1>5, CongruentTrans
  <2> QED
    BY <2>1 DEF Congruent
<1> DEFINE m == s + p * z
           r == d * s
<1>7. m \in Int /\ r \in Int /\ y * p = q * m + r
  <2>1. p * z \in Int /\ d * s \in Int /\ q * z \in Int /\ q * s \in Int
    BY <1>1, <1>5, IntProduct
  <2>2. y * p = (u * s) * p + (q * z) * p
    BY <1>1, <1>5, <1>6, <2>1, SMT
  <2>3. (u * s) * p = (u * p) * s
    BY <1>1, SMT
  <2>4. u * p = q + d
    <3> DEFINE e == u * p
    <3>1. d = e - q /\ e \in Int
      BY <1>5 DEF d
    <3> HIDE DEF e
    <3>2. e = q + d
      BY <1>1, <1>5, <3>1
    <3> QED
      BY <3>2 DEF e
  <2>5. (q + d) * s = q * s + d * s
    BY <1>1, <1>5, SMT
  <2>6. (q * z) * p = q * (p * z) /\ q * (s + p * z) = q * s + q * (p * z)
    BY <1>1, <2>1, SMT
  <2>7. q * (p * z) \in Int /\ q * m \in Int /\ m \in Int
    <3>1. m \in Int
      BY <2>1
    <3> QED
      BY <1>1, <2>1, <3>1, IntProduct
  <2>8. (u * s) * p = q * s + d * s
    BY <2>3, <2>4, <2>5
  <2> DEFINE a == q * s
             b == d * s
             c == q * (p * z)
             e == q * m
             f == y * p
  <2>9. f = (a + b) + c /\ e = a + c
    BY <2>2, <2>6, <2>8
  <2>10. a \in Int /\ b \in Int /\ c \in Int /\ e \in Int
    BY <2>1, <2>7
  <2> HIDE DEF a, b, c, e, f
  <2>11. f = e + b
    BY <2>9, <2>10
  <2> QED
    BY <2>1, <2>7, <2>11 DEF e, b, f
<1>8. 2 * r < q /\ -q < 2 * r
  <2> DEFINE a == 2 * d
             b == 2 * s
             c == n * p
             k == p * c
  <2>1. a \in Int /\ b \in Int /\ c \in Nat /\ a <= p /\ -p <= a /\ b <= c /\ -c <= b
    <3>1. a \in Int /\ b \in Int
      BY <1>5
    <3>2. c \in Nat
      BY <1>1, SMT
    <3> QED
      BY <1>1, <1>4, <3>1, <3>2
  <2>2. a * b = 4 * r
    BY <1>5, SMT
  <2>3. k = n * (p * p)
    BY <1>1, SMT
  <2> DEFINE e == a * b
  <2> HIDE DEF a, b, c
  <2>4. e \in Int /\ k \in Nat /\ e <= k /\ -k <= e
    BY <1>1, <2>1, ProductBound
  <2>5. k < 2 * q
    BY <1>4, <2>3
  <2>6. e = 4 * r
    BY <2>2
  <2> HIDE DEF e, k, r
  <2>7. r \in Int
    BY <1>7
  <2> QED
    BY <1>1, <2>4, <2>5, <2>6, <2>7
<1> HIDE DEF m, r
<1>9. RoundDiv(q * m + r, q) = m
  BY <1>1, <1>7, <1>8, RoundIs
<1>10. RoundDiv(y * p, q) = m
  BY <1>7, <1>9
<1>11. Congruent(m, s, p)
  BY DEF Congruent, m
<1>12. CentredMod(m, p) = CentredMod(s, p)
  BY <1>7, <1>11, CentredSame DEF p
<1> QED
  BY <1>3, <1>10, <1>12 DEF p

\* A stored digit is centred, a word, and gives back what was stored.
LEMMA CentredDigits ==
  ASSUME NEW d \in 0 .. OddBase - 1
  PROVE  /\ CentredDigit(d) \in Int
         /\ CentredMod(CentredDigit(d), OddBase) = CentredDigit(d)
         /\ AsWord(CentredDigit(d)) = CentredDigit(d)
         /\ DigitOf(CentredDigit(d)) = d
<1> DEFINE p == OddBase
           h == p \div 2
           w == Word
           k == w \div 2
           c == CentredDigit(d)
<1>1. /\ p \in Nat \ {0} /\ p \in Int /\ h \in Nat /\ p = 2 * h + 1 /\ k = h + 1 /\ w = 2 * k
      /\ w \in Nat \ {0} /\ d \in 0 .. p - 1
  BY HalvesAre, BasesAre
<1>2. c = IF d > h THEN d - p ELSE d
  BY DEF CentredDigit
<1>3. /\ AsWord(c) = ((c + k) % w) - k /\ DigitOf(c) = IF c < 0 THEN c + p ELSE c
      /\ CentredMod(c, p) = IF c % p > h THEN (c % p) - p ELSE c % p
  BY DEF AsWord, DigitOf, CentredMod
<1> HIDE DEF c, p, h, w, k
<1>4. c \in Int /\ -h <= c /\ c <= h
  BY <1>1, <1>2
<1>5. c % p = d
  <2>1. c = p * 0 + d \/ c = p * (-1) + d
    BY <1>1, <1>2
  <2>2. 0 \in Int /\ -1 \in Int
    OBVIOUS
  <2>3. CASE c = p * 0 + d
    BY <1>1, <1>4, <2>2, <2>3, QuotientIs
  <2>4. CASE c = p * (-1) + d
    BY <1>1, <1>4, <2>2, <2>4, QuotientIs
  <2> QED
    BY <2>1, <2>3, <2>4
<1>6. (c + k) % w = c + k
  <2> DEFINE x == c + k
  <2>1. x \in 0 .. w - 1 /\ x \in Int
    BY <1>1, <1>4
  <2> HIDE DEF x
  <2>2. x = w * 0 + x
    BY <1>1, <2>1
  <2>3. x % w = x
    BY <1>1, <2>1, <2>2, QuotientIs
  <2> QED
    BY <2>3 DEF x
<1>7. (c + k) - k = c
  BY <1>1, <1>4
<1>8. AsWord(c) = c
  BY <1>3, <1>6, <1>7
<1>9. CentredMod(c, p) = c
  BY <1>2, <1>3, <1>5
<1>10. DigitOf(c) = d
  BY <1>1, <1>2, <1>3, <1>4
<1> QED
  BY <1>4, <1>8, <1>9, <1>10 DEF c, p

\* Below the words' range nothing wraps.
LEMMA NoWrap ==
  ASSUME NEW v \in Nat, NEW m \in Nat \ {0}, v < m, NEW b \in Nat \ {0}
  PROVE  v \div b \in 0 .. m - 1 /\ (v \div b) % m = v \div b
<1> DEFINE q == v \div b
           r == v % b
<1>1. q \in Nat /\ r \in 0 .. b - 1 /\ v = b * q + r
  BY Quotient
<1> HIDE DEF q, r
<1>2. q <= b * q /\ b * q \in Nat
  <2>1. 1 * q \in Nat /\ b * q \in Nat /\ 1 * q <= b * q
    BY <1>1, ProductMonotone
  <2> QED
    BY <1>1, <2>1
<1>3. q \in 0 .. m - 1 /\ q \in Int
  <2> DEFINE e == b * q
  <2> HIDE DEF e
  <2>1. e \in Nat /\ q <= e /\ v = e + r
    BY <1>1, <1>2 DEF e
  <2> QED
    BY <1>1, <2>1
<1>4. q % m = q
  <2>1. q = m * 0 + q
    BY <1>3
  <2> QED
    BY <1>3, <2>1, QuotientIs
<1> QED
  BY <1>3, <1>4 DEF q

\* One more digit: the quotient by a power is Horner's step from the next.
LEMMA NextOddDigit ==
  ASSUME NEW v \in Nat, NEW k \in 0 .. Words
  PROVE  v \div OddBase ^ k =
           (v \div OddBase ^ (k + 1)) * OddBase + DigitOf(EncodeOdd(v)[k])
<1> DEFINE b == OddBase
           p == b ^ k
           q == b ^ (k + 1)
           x == v \div p
           d == x % b
           y == x \div b
           r == v % p
<1>1. /\ Words \in Nat /\ b \in Nat \ {0} /\ k \in 0 .. Words + 1 /\ k + 1 \in 0 .. Words + 1
  BY BasesAre, CodecAssumption
<1>2. p \in Nat \ {0} /\ q \in Nat \ {0} /\ q = b * p
  BY <1>1, BasePowers, PowersAssumption
<1> HIDE DEF p, q
<1>3. x \in Nat /\ r \in 0 .. p - 1 /\ v = p * x + r
  BY <1>2, Quotient
<1>4. DigitOf(EncodeOdd(v)[k]) = d
  <2>1. EncodeOdd(v)[k] = CentredDigit(d) /\ d \in 0 .. OddBase - 1
    BY OddDigit DEF p
  <2> HIDE DEF d
  <2> QED
    BY <2>1, CentredDigits
<1> HIDE DEF x, r, b
<1>5. y \in Nat /\ d \in 0 .. b - 1 /\ x = b * y + d
  BY <1>1, <1>3, Quotient
<1> HIDE DEF y, d
<1> DEFINE s == p * d + r
<1>6. p * d \in Nat /\ p * d + p <= q
  <2>1. d \in Nat /\ b - 1 \in Nat /\ d <= b - 1 /\ p \in Nat
    BY <1>1, <1>2, <1>5
  <2>2. d * p \in Nat /\ (b - 1) * p \in Nat /\ d * p <= (b - 1) * p
    BY <2>1, ProductMonotone
  <2>3. d * p = p * d /\ (b - 1) * p = q - p
    <3>1. b \in Int /\ p \in Int /\ d \in Int
      BY <1>1, <1>2, <1>5
    <3>2. d * p = p * d /\ (b - 1) * p = b * p - p
      BY <3>1, SMT
    <3> QED
      BY <1>2, <3>2
  <2> DEFINE e == p * d
             f == (b - 1) * p
  <2>4. e \in Nat /\ f \in Nat /\ e <= f /\ f = q - p
    BY <2>2, <2>3
  <2> HIDE DEF e, f
  <2>5. e \in Nat /\ e + p <= q
    BY <1>2, <2>4
  <2> QED
    BY <2>5 DEF e
<1>7. s \in 0 .. q - 1 /\ v = q * y + s
  <2>1. p * (b * y + d) = (b * p) * y + p * d
    BY <1>1, <1>2, <1>5, SMT
  <2>2. v = ((b * p) * y + p * d) + r
    BY <1>3, <1>5, <2>1
  <2>3. v = (q * y + p * d) + r
    BY <1>2, <2>2
  <2> DEFINE e == p * d
             f == q * y
  <2>4. f \in Int
    BY <1>2, <1>5, IntProduct
  <2>5. e \in Nat /\ e + p <= q /\ v = (f + e) + r /\ s = e + r
    BY <1>6, <2>3
  <2> HIDE DEF e, f, s
  <2>6. s \in 0 .. q - 1 /\ v = f + s
    BY <1>2, <1>3, <2>4, <2>5
  <2> QED
    BY <2>6 DEF f
<1> HIDE DEF s
<1>8. v \div q = y
  <2>1. v \in Int /\ y \in Int
    BY <1>5
  <2> QED
    BY <1>2, <1>7, <2>1, QuotientIs
<1>9. y * b = b * y
  BY <1>1, <1>5, IntProduct
<1>10. x = (v \div q) * b + d
  BY <1>5, <1>8, <1>9
<1> QED
  BY <1>4, <1>10 DEF x, p, q, b

\* The digits of a payload, put together, are the payload.
LEMMA DecodedIs ==
  ASSUME NEW v \in 0 .. Word ^ Words - 1, NEW digits,
         \A k \in 0 .. Words : digits[k] = EncodeOdd(v)[k]
  PROVE  DecodeOdd(digits) = v
<1> DEFINE E == OddExponent
           m == Word ^ Words
           adds(s) == [k \in 0 .. E |->
             IF k = E THEN 0 ELSE (s[k + 1] * OddBase + DigitOf(digits[k])) % m]
           acc == CHOOSE s : s = adds(s)
           w == [k \in 0 .. E |-> v \div OddBase ^ k]
           S == {i \in 0 .. E : acc[E - i] = w[E - i]}
<1>1. /\ Words \in Nat /\ E = Words + 1 /\ E \in Nat /\ m \in Nat \ {0} /\ v \in Nat /\ v < m
      /\ OddBase ^ 0 = 1
  <2>1. Words \in Nat /\ E = Words + 1
    BY CodecAssumption DEF OddExponent
  <2>2. m \in Nat \ {0}
    BY <2>1, BasePowers
  <2> HIDE DEF m
  <2>3. v \in Nat /\ v < m
    BY <2>2 DEF m
  <2> QED
    BY <2>1, <2>2, <2>3, PowersAssumption
<1>2. \A k \in 0 .. E - 1 : w[k] = (w[k + 1] * OddBase + DigitOf(digits[k])) % m
  <2>1. ASSUME NEW k \in 0 .. E - 1
        PROVE  w[k] = (w[k + 1] * OddBase + DigitOf(digits[k])) % m
    <3>1. k \in 0 .. Words /\ k \in 0 .. E /\ k + 1 \in 0 .. E /\ k \in 0 .. Words + 1
      BY <1>1
    <3>2. v \div OddBase ^ k =
            (v \div OddBase ^ (k + 1)) * OddBase + DigitOf(EncodeOdd(v)[k])
      BY <1>1, <3>1, NextOddDigit
    <3>3. (v \div OddBase ^ k) % m = v \div OddBase ^ k
      <4>1. OddBase ^ k \in Nat \ {0}
        BY <3>1, BasePowers
      <4> HIDE DEF m
      <4> QED
        BY <1>1, <4>1, NoWrap
    <3>4. w[k] = v \div OddBase ^ k /\ w[k + 1] = v \div OddBase ^ (k + 1)
      BY <3>1
    <3>5. digits[k] = EncodeOdd(v)[k]
      BY <3>1
    <3> HIDE DEF w, m
    <3> QED
      BY <3>2, <3>3, <3>4, <3>5
  <2> HIDE DEF w, m, E
  <2> QED
    BY <2>1
<1>3. w[E] = 0 /\ w[0] = v
  <2> DEFINE p == OddBase ^ E
  <2>1. v \div p = 0
    <3>1. p \in Nat \ {0} /\ m <= p
      BY <1>1, BasePowers, RoomAssumption
    <3> HIDE DEF m, p
    <3>2. v \in 0 .. p - 1 /\ v \in Int /\ v = p * 0 + v
      BY <1>1, <3>1
    <3> HIDE DEF E
    <3> QED
      BY <3>1, <3>2, QuotientIs
  <2>2. v \div 1 = v
    BY <1>1
  <2>3. E \in 0 .. E /\ 0 \in 0 .. E
    BY <1>1
  <2> HIDE DEF E
  <2> QED
    BY <1>1, <2>1, <2>2, <2>3
<1>4. w = adds(w)
  <2>1. \A k \in 0 .. E : k # E => k \in 0 .. E - 1
    BY <1>1
  <2>2. \A k \in 0 .. E :
          w[k] = IF k = E THEN 0 ELSE (w[k + 1] * OddBase + DigitOf(digits[k])) % m
    <3> HIDE DEF w, m, E
    <3> QED
      BY <1>2, <1>3, <2>1
  <2>3. w = [k \in 0 .. E |-> w[k]]
    OBVIOUS
  <2> HIDE DEF w, m, E
  <2> QED
    BY <2>2, <2>3
<1>5. acc = adds(acc)
  <2> HIDE DEF w, adds
  <2> QED
    BY <1>4
<1>6. DecodeOdd(digits) = acc[0]
  BY DEF DecodeOdd
<1>7. acc[E] = 0 /\ \A k \in 0 .. E - 1 : acc[k] = (acc[k + 1] * OddBase + DigitOf(digits[k])) % m
  <2>1. \A k \in 0 .. E :
          acc[k] = IF k = E THEN 0 ELSE (acc[k + 1] * OddBase + DigitOf(digits[k])) % m
    <3> HIDE DEF acc, m, E
    <3> QED
      BY <1>5
  <2> HIDE DEF acc, m, E
  <2>2. \A k \in 0 .. E - 1 : k \in 0 .. E /\ k # E
    BY <1>1
  <2>3. E \in 0 .. E
    BY <1>1
  <2> QED
    BY <2>1, <2>2, <2>3
<1> HIDE DEF acc, w, m, E
<1>8. 0 \in S
  BY <1>1, <1>3, <1>7
<1>9. ASSUME NEW i \in 0 .. E - 1, i \in S
      PROVE  i + 1 \in S
  <2> DEFINE k == E - (i + 1)
  <2>1. k \in 0 .. E - 1 /\ k + 1 = E - i /\ i + 1 \in 0 .. E
    BY <1>1
  <2>2. acc[k + 1] = w[k + 1]
    BY <1>9, <2>1
  <2>3. acc[k] = w[k]
    <3> HIDE DEF k
    <3> QED
      BY <1>2, <1>7, <2>1, <2>2
  <2> QED
    BY <2>1, <2>3
<1> HIDE DEF S
<1>10. 0 .. E \subseteq S
  BY <1>1, <1>8, <1>9, StepsReachAll
<1>11. E \in S
  BY <1>1, <1>10
<1>12. acc[E - E] = w[E - E] /\ E - E = 0
  BY <1>1, <1>11 DEF S
<1> QED
  BY <1>3, <1>6, <1>12

-----------------------------------------------------------------------------
(* Addresses *)

\* The layout of a database whose columns hold whole payloads.
LEMMA ShapeIs ==
  ASSUME NEW c \in Calls
  PROVE  /\ OddExponent \in Nat \ {0} /\ N \div OddExponent \in Nat \ {0}
         /\ PayloadsPerColumn(Layout(c), N) = N \div OddExponent
         /\ PayloadsPerRow(Layout(c), N) = (N \div OddExponent) * c.cols
         /\ PayloadsPerRow(Layout(c), N) \in Nat \ {0}
         /\ Capacity(c) = c.blockRows * PayloadsPerRow(Layout(c), N)
<1> DEFINE L == Layout(c)
           g == c.blockRows
           k == c.cols
           x == OddExponent
           e == N \div x
           r == e * k
<1>1. /\ g \in Nat \ {0} /\ k \in Nat \ {0} /\ N \in Nat \ {0} /\ x \in Nat \ {0} /\ x <= N
  BY CallShape, DegreeIs, CallsAssumption, CodecAssumption DEF OddExponent
<1>2. L.rows = g * N /\ L.cols = k /\ L.exponent = x
  BY DEF Layout
<1> HIDE DEF g, k, x
<1>3. e \in Nat \ {0}
  <2> DEFINE y == N % x
  <2>1. e \in Nat /\ y \in 0 .. x - 1 /\ N = x * e + y
    BY <1>1, Quotient
  <2> HIDE DEF y, e
  <2>2. e # 0
    <3> SUFFICES ASSUME e = 0
                 PROVE  FALSE
      OBVIOUS
    <3>1. x * e = 0
      BY <1>1
    <3> QED
      BY <1>1, <2>1, <3>1
  <2> QED
    BY <2>1, <2>2
<1>4. (g * N) \div N = g
  <2>1. N * g = g * N /\ g \in Int
    BY <1>1, IntProduct
  <2>2. (N * g) \div N = g
    BY <1>1, <2>1, MultipleHasNoRest
  <2> QED
    BY <2>1, <2>2
<1> HIDE DEF L
<1>5. GridRows(L, N) = g /\ PayloadsPerColumn(L, N) = e /\ PayloadsPerRow(L, N) = r
  BY <1>2, <1>4 DEF GridRows, PayloadsPerColumn, PayloadsPerRow
<1> HIDE DEF e
<1>6. r \in Nat \ {0}
  <2>1. \A a, b \in Nat \ {0} : a * b \in Nat \ {0}
    BY SMT
  <2> QED
    BY <1>1, <1>3, <2>1
<1>7. Capacity(c) = g * r
  BY <1>5 DEF Capacity, NumPayloads, L
<1> QED
  BY <1>1, <1>3, <1>5, <1>6, <1>7 DEF L, g, k, x, e

\* An index has one address, and the address its index.
LEMMA AddressIs ==
  ASSUME NEW c \in Calls, NEW i \in Nat, i < Capacity(c)
  PROVE  LET a == AddressFor(Layout(c), N, i)
         IN /\ a.matrix \in 0 .. c.blockRows - 1 /\ a.column \in 0 .. c.cols - 1
            /\ \E u \in 0 .. (N \div OddExponent) - 1 :
                 /\ a.offset = u * OddExponent
                 /\ i = a.matrix * PayloadsPerRow(Layout(c), N) + u * c.cols + a.column
<1> DEFINE r == PayloadsPerRow(Layout(c), N)
           e == N \div OddExponent
           w == c.cols
           g == c.blockRows
           a == AddressFor(Layout(c), N, i)
           m == i \div r
           l == i % r
           u == l \div w
           v == l % w
<1>1. /\ r \in Nat \ {0} /\ e \in Nat \ {0} /\ w \in Nat \ {0} /\ r = e * w
      /\ Capacity(c) = g * r /\ g \in Nat \ {0}
  BY ShapeIs, CallShape
<1>2. Layout(c).cols = w /\ Layout(c).exponent = OddExponent
  BY DEF Layout
<1>3. a.matrix = m /\ a.column = v /\ a.offset = u * OddExponent
  BY <1>2 DEF AddressFor
<1> HIDE DEF r, e, w, a, g
<1>4. i < g * r
  BY <1>1
<1>5. m \in Nat /\ l \in 0 .. r - 1 /\ i = r * m + l
  BY <1>1, Quotient
<1> HIDE DEF m, l
<1>6. u \in Nat /\ v \in 0 .. w - 1 /\ l = w * u + v
  <2>1. l \in Nat /\ w \in Nat \ {0}
    BY <1>1, <1>5
  <2> QED
    BY <2>1, Quotient
<1> HIDE DEF u, v
<1>7. r * m = m * r /\ m * r \in Nat /\ w * u = u * w /\ u * w \in Nat
  BY <1>1, <1>5, <1>6, SMT
<1>8. m < g
  <2> SUFFICES ASSUME g <= m PROVE FALSE
    BY <1>1, <1>5
  <2>1. g * r <= m * r /\ g * r \in Nat
    BY <1>1, <1>5, ProductMonotone
  <2> QED
    BY <1>4, <1>5, <1>7, <2>1
<1>9. u < e
  <2> SUFFICES ASSUME e <= u PROVE FALSE
    BY <1>1, <1>6
  <2>1. e * w <= u * w /\ e * w \in Nat
    BY <1>1, <1>6, ProductMonotone
  <2> QED
    BY <1>1, <1>5, <1>6, <1>7, <2>1
<1>10. i = m * r + u * w + v
  BY <1>5, <1>6, <1>7
<1>11. u \in 0 .. e - 1 /\ v \in 0 .. w - 1 /\ m \in 0 .. g - 1
  BY <1>1, <1>5, <1>6, <1>8, <1>9
<1> QED
  BY <1>3, <1>10, <1>11 DEF r, e, w, a, g

\* The rows at an address hold the payload's digits, in the block of its column.
LEMMA AddressHolds ==
  ASSUME NEW c \in Calls, NEW i \in Nat, i < Capacity(c), NEW k \in 0 .. Words
  PROVE  LET a == AddressFor(Layout(c), N, i)
         IN /\ a.offset + k \in Coef /\ a.column \in Nat
            /\ a.column \div N \in 0 .. BlockCols(c) - 1 /\ (a.column % N) \in Coef
            /\ Stored(c, a.matrix, a.column \div N, a.offset + k, a.column % N)
                 = EncodeOdd(PayloadOf(c, i))[k]
<1> DEFINE L == Layout(c)
           a == AddressFor(L, N, i)
           x == OddExponent
           e == N \div x
           w == c.cols
           bc == a.column \div N
           col == a.column % N
           row == a.offset + k
<1>1. PICK u \in 0 .. e - 1 :
        /\ a.offset = u * x
        /\ i = a.matrix * PayloadsPerRow(L, N) + u * w + a.column
  BY AddressIs
<1>2. a.column \in 0 .. w - 1 /\ w \in Nat \ {0} /\ a.column \in Nat
  <2>1. a.column \in 0 .. w - 1
    BY AddressIs
  <2>2. w \in Nat \ {0}
    BY CallShape
  <2> HIDE DEF w, a
  <2> QED
    BY <2>1, <2>2
<1>3. /\ N \in Nat \ {0} /\ Coef = 0 .. N - 1 /\ x \in Nat \ {0} /\ e \in Nat \ {0}
      /\ PayloadsPerColumn(L, N) = e /\ L.cols = w /\ L.exponent = x
      /\ k \in 0 .. x - 1 /\ x = Words + 1
  <2>1. k \in 0 .. x - 1 /\ x = Words + 1
    BY CodecAssumption DEF OddExponent
  <2>2. L.cols = w /\ L.exponent = x
    BY DEF Layout
  <2> QED
    BY <2>1, <2>2, DegreeIs, ShapeIs
<1>4. bc \in 0 .. BlockCols(c) - 1 /\ col \in 0 .. N - 1 /\ a.column = bc * N + col
  <2>1. BlockCols(c) = CeilDiv(w, N)
    BY DEF BlockCols, BlockCount
  <2> HIDE DEF a, w
  <2> QED
    BY <1>2, <1>3, <2>1, GroupsHold
<1> DEFINE m == a.matrix
           o == a.offset
           v == a.column
<1> HIDE DEF bc, col, L, x, w
<1>5. /\ Stored(c, m, bc, row, col) =
           (LET digits(j) == EncodeOdd(PayloadOf(c, j))
            IN StoredDigit(L, N, digits, m, bc * N + col, row))
  BY DEF Stored, L
<1>6. Stored(c, m, bc, row, col) =
        IF v < w /\ row \div x < e
        THEN EncodeOdd(PayloadOf(c, m * PayloadsPerRow(L, N) + (row \div x) * w + v))[row % x]
        ELSE 0
  BY <1>3, <1>4, <1>5 DEF StoredDigit
<1> HIDE DEF a
<1> DEFINE y == row
<1>7. y = x * u + k /\ u \in Int /\ k \in Int /\ y \in Int /\ x * u = u * x /\ u * x \in Nat
  <2>1. u \in Nat /\ k \in Nat
    BY <1>3
  <2>2. x * u = u * x /\ u * x \in Nat
    BY <1>3, <2>1, SMT
  <2> DEFINE z == u * x
  <2> HIDE DEF z
  <2>3. o = z /\ z \in Nat
    BY <1>1, <2>2 DEF z
  <2>4. y = z + k /\ y \in Int
    BY <2>1, <2>3
  <2> QED
    BY <2>1, <2>2, <2>4 DEF z
<1> HIDE DEF row, o, v, m, e, y
<1>8. y \div x = u /\ y % x = k
  BY <1>3, <1>7, QuotientIs
<1>9. y \in Coef
  <2>1. (u + 1) * x <= e * x /\ (u + 1) * x = u * x + x
    <3>1. u + 1 \in Nat /\ u + 1 <= e /\ e \in Nat /\ x \in Nat
      BY <1>3
    <3>2. (u + 1) * x <= e * x
      BY <3>1, ProductMonotone
    <3>3. (u + 1) * x = u * x + x
      BY <1>3, <1>7, SMT
    <3> QED
      BY <3>2, <3>3
  <2>2. e * x <= N /\ e * x \in Nat
    <3> DEFINE p == N % x
    <3>1. e \in Nat /\ p \in 0 .. x - 1 /\ N = x * e + p
      BY <1>3, Quotient DEF e
    <3> HIDE DEF p
    <3>2. x * e = e * x /\ e * x \in Nat
      BY <1>3, <3>1, SMT
    <3> DEFINE f == e * x
    <3>3. f \in Nat /\ N = f + p
      BY <3>1, <3>2
    <3> HIDE DEF f
    <3>4. f <= N /\ f \in Nat
      BY <1>3, <3>1, <3>3
    <3> QED
      BY <3>4 DEF f
  <2> DEFINE f == u * x
             h == e * x
  <2>3. f \in Nat /\ h \in Nat /\ f + x <= h /\ h <= N /\ y = f + k
    BY <1>7, <2>1, <2>2
  <2> HIDE DEF f, h
  <2>4. y \in 0 .. N - 1
    BY <1>3, <2>3
  <2> QED
    BY <1>3, <2>4
<1>10. v < w /\ u < e /\ v \in Nat
  BY <1>2, <1>3 DEF v
<1>11. Stored(c, m, bc, y, col) = EncodeOdd(PayloadOf(c, i))[k]
  <2>1. i = m * PayloadsPerRow(L, N) + u * w + v
    BY <1>1 DEF m, v
  <2> QED
    BY <1>6, <1>8, <1>10, <2>1 DEF y
<1> QED
  BY <1>2, <1>3, <1>4, <1>9, <1>11 DEF y, row, m, a, L, bc, col

-----------------------------------------------------------------------------
(* The messages *)

\* A counted vector: the count, then one token for each element.
LEMMA CountedIs ==
  ASSUME NEW f, NEW n \in Nat
  PROVE  LET s == Counted(f, n, Compressed)
         IN /\ HasLength(s, 1 + n)
            /\ s[1] = Number(n)
            /\ \A i \in 1 .. n : s[1 + i] = Compressed(f[i - 1])
<1> DEFINE r == [i \in 1 .. n |-> Compressed(f[i - 1])]
<1>1. HasLength(r, n)
  BY DEF HasLength
<1>2. \A i \in 1 .. n : r[i] = Compressed(f[i - 1])
  OBVIOUS
<1>3. Counted(f, n, Compressed) = <<Number(n)>> \o r
  BY DEF Counted
<1> HIDE DEF r
<1> DEFINE h == <<Number(n)>>
<1>4. HasLength(h, 1) /\ h[1] = Number(n)
  BY Single
<1> HIDE DEF h
<1>5. /\ HasLength(Then(h, r), 1 + n)
      /\ \A i \in 1 .. 1 : Then(h, r)[i] = h[i]
      /\ \A i \in 1 .. n : Then(h, r)[1 + i] = r[i]
  <2>1. IsJoined(Then(h, r), h, 1, r, n)
    BY <1>1, <1>4, ThenJoins
  <2> QED
    BY <2>1 DEF IsJoined
<1>6. Counted(f, n, Compressed) = Then(h, r)
  BY <1>3 DEF h, Then
<1> QED
  BY <1>2, <1>4, <1>5, <1>6
\* One token a number of times.
LEMMA RepeatIs ==
  ASSUME NEW x, NEW n \in Nat
  PROVE  /\ HasLength(Repeat(x, n), n) /\ Len(Repeat(x, n)) = n
         /\ \A i \in 1 .. n : Repeat(x, n)[i] = x
<1>1. Repeat(x, n) = [i \in 1 .. n |-> x]
  BY DEF Repeat
<1>2. HasLength(Repeat(x, n), n)
  BY <1>1 DEF HasLength
<1>3. Len(Repeat(x, n)) = n
  BY <1>2, LengthOf
<1> QED
  BY <1>1, <1>2, <1>3

\* The limbs of a gadget ciphertext: a count, as many seeds, as many entries.
LEMMA SeededIs ==
  ASSUME NEW seed, NEW value, NEW n \in Nat
  PROVE  LET s == WriteSeeded(seed, value, n)
         IN /\ HasLength(s, (1 + n) + n) /\ s[1] = Number(n)
            /\ \A i \in 1 .. n : s[1 + i] = Seed(seed) /\ s[(1 + n) + i] = Entry(value)
<1> DEFINE h == <<Number(n)>>
           seeds == Repeat(Seed(seed), n)
           entries == Repeat(Entry(value), n)
           counted == Then(h, seeds)
           all == Then(counted, entries)
           l == 1 + n
<1>1. WriteSeeded(seed, value, n) = all
  BY DEF WriteSeeded, Then
<1>2. HasLength(h, 1) /\ h[1] = Number(n)
  BY Single
<1>3. /\ HasLength(seeds, n) /\ HasLength(entries, n)
      /\ \A i \in 1 .. n : seeds[i] = Seed(seed) /\ entries[i] = Entry(value)
  BY RepeatIs
<1>4. l \in Nat /\ l = 1 + n /\ 1 \in Nat
  OBVIOUS
<1> HIDE DEF h, seeds, entries, counted, all, l
<1>5. IsJoined(counted, h, 1, seeds, n)
  BY <1>2, <1>3, <1>4, ThenJoins DEF counted
<1>6. HasLength(counted, l)
  BY <1>4, <1>5 DEF IsJoined
<1>7. IsJoined(all, counted, l, entries, n)
  BY <1>3, <1>4, <1>6, ThenJoins DEF all
<1>8. HasLength(all, l + n)
  BY <1>7 DEF IsJoined
<1>9. all[1] = Number(n)
  <2>1. all[1] = counted[1]
    BY <1>4, <1>7 DEF IsJoined
  <2>2. counted[1] = h[1]
    BY <1>5 DEF IsJoined
  <2> QED
    BY <1>2, <2>1, <2>2
<1>10. ASSUME NEW i \in 1 .. n
       PROVE  all[1 + i] = Seed(seed) /\ all[l + i] = Entry(value)
  <2>1. all[l + i] = entries[i]
    BY <1>7 DEF IsJoined
  <2>2. 1 + i \in 1 .. l
    BY <1>4
  <2>3. all[1 + i] = counted[1 + i]
    BY <1>7, <2>2 DEF IsJoined
  <2>4. counted[1 + i] = seeds[i]
    BY <1>5 DEF IsJoined
  <2> QED
    BY <1>3, <2>1, <2>3, <2>4
<1> QED
  BY <1>1, <1>8, <1>9, <1>10 DEF l

\* A part of a message that starts at a position
HoldsAt(s, at, part, l) == \A j \in 1 .. l : s[at + j - 1] = part[j]

\* Tokens of one kind are read where they stand.
LEMMA RunContinues ==
  ASSUME NEW s, NEW len \in Nat, Len(s) = len, NEW at \in Nat, NEW n \in Nat, NEW kind,
         at + n <= len + 1, \A i \in 1 .. n : s[at + i - 1].kind = kind
  PROVE  Continues(s, at, Repeat(kind, n))
<1>1. DOMAIN Repeat(kind, n) = 1 .. n /\ Len(Repeat(kind, n)) = n
      /\ \A i \in 1 .. n : Repeat(kind, n)[i] = kind
  BY RepeatIs DEF Repeat
<1> QED
  BY <1>1 DEF Continues

\* One token is read where it stands.
LEMMA OneContinues ==
  ASSUME NEW s, NEW len \in Nat, Len(s) = len, NEW at \in Nat, at <= len, NEW kind,
         s[at].kind = kind
  PROVE  Continues(s, at, <<kind>>)
BY DEF Continues

\* A gadget ciphertext is read where it was written.
LEMMA SeededRead ==
  ASSUME NEW s, NEW len \in Nat, Len(s) = len, NEW at \in Nat, NEW seed, NEW value,
         NEW n \in Nat \ {0}, at + (1 + n + n) <= len + 1,
         HoldsAt(s, at, WriteSeeded(seed, value, n), 1 + n + n)
  PROVE  /\ ReadsSeeded(s, at, n) /\ After(s, at) = at + 1 + n
         /\ s[at + 1].value = seed /\ s[at + 1 + n].value = value
<1> DEFINE part == WriteSeeded(seed, value, n)
<1>1. /\ part[1] = Number(n)
      /\ \A i \in 1 .. n : part[1 + i] = Seed(seed) /\ part[(1 + n) + i] = Entry(value)
  BY SeededIs
<1>2. \A j \in 1 .. 1 + n + n : s[at + j - 1] = part[j]
  BY DEF HoldsAt
<1> HIDE DEF part
<1>3. s[at] = Number(n)
  <2>1. 1 \in 1 .. 1 + n + n /\ at + 1 - 1 = at
    OBVIOUS
  <2>2. s[at + 1 - 1] = part[1]
    BY <1>2, <2>1
  <2> QED
    BY <1>1, <2>1, <2>2
<1>4. ASSUME NEW i \in 1 .. n
      PROVE  s[at + i] = Seed(seed) /\ s[at + n + i] = Entry(value)
  <2>1. /\ 1 + i \in 1 .. 1 + n + n /\ at + (1 + i) - 1 = at + i
        /\ (1 + n) + i \in 1 .. 1 + n + n /\ at + ((1 + n) + i) - 1 = at + n + i
    OBVIOUS
  <2>2. s[at + (1 + i) - 1] = part[1 + i] /\ s[at + ((1 + n) + i) - 1] = part[(1 + n) + i]
    BY <1>2, <2>1
  <2> QED
    BY <1>1, <2>1, <2>2
<1>5. s[at].value = n /\ s[at].kind = "number"
  BY <1>3 DEF Number
<1>6. After(s, at) = at + 1 + n
  BY <1>5 DEF After
<1>7. Announces(s, at, "seed", n)
  <2>1. Continues(s, at, <<"number">>)
    <3>1. at <= len
      OBVIOUS
    <3> QED
      BY <1>5, <3>1, OneContinues
  <2>2. CountFits(s[at].value, n)
    BY <1>5 DEF CountFits
  <2>3. Continues(s, at + 1, Repeat("seed", n))
    <3> DEFINE x == at + 1
    <3>1. x \in Nat /\ x + n <= len + 1
      OBVIOUS
    <3>2. ASSUME NEW i \in 1 .. n
          PROVE  s[x + i - 1].kind = "seed"
      <4>1. x + i - 1 = at + i
        OBVIOUS
      <4> QED
        BY <1>4, <4>1 DEF Seed
    <3> HIDE DEF x
    <3>3. Continues(s, x, Repeat("seed", n))
      BY <3>1, <3>2, RunContinues
    <3> QED
      BY <3>3 DEF x
  <2> QED
    BY <1>5, <2>1, <2>2, <2>3 DEF Announces
<1>8. Continues(s, After(s, at), Repeat("entry", n))
  <2> DEFINE x == at + 1 + n
  <2>1. x \in Nat /\ x + n <= len + 1
    OBVIOUS
  <2>2. ASSUME NEW i \in 1 .. n
        PROVE  s[x + i - 1].kind = "entry"
    <3>1. x + i - 1 = at + n + i
      OBVIOUS
    <3>2. s[at + n + i].kind = "entry"
      <4>1. s[at + n + i] = Entry(value)
        BY <1>4
      <4>2. Entry(value).kind = "entry"
        BY DEF Entry
      <4> QED
        BY <4>1, <4>2
    <3> QED
      BY <3>1, <3>2
  <2> HIDE DEF x
  <2>3. Continues(s, x, Repeat("entry", n))
    BY <2>1, <2>2, RunContinues
  <2> QED
    BY <1>6, <2>3 DEF x
<1>9. s[at + 1].value = seed /\ s[at + 1 + n].value = value
  <2>1. 1 \in 1 .. n /\ at + n + 1 = at + 1 + n
    OBVIOUS
  <2>2. s[at + 1] = Seed(seed) /\ s[at + n + 1] = Entry(value)
    BY <1>4, <2>1
  <2> QED
    BY <2>1, <2>2 DEF Seed, Entry
<1> QED
  BY <1>6, <1>7, <1>8, <1>9 DEF ReadsSeeded


\* The tokens of a key
KeyTokens == 8

\* A key: its automorphism, and as many seeds as entries.
LEMMA KeyIs ==
  ASSUME NEW key
  PROVE  LET s == WriteAutoKey(key)
         IN /\ HasLength(s, KeyTokens) /\ s[1] = Number(key.p)
            /\ \A j \in 1 .. 7 : s[1 + j] = WriteSeeded(key.seed, key.secret, Dnum)[j]
<1> DEFINE p == <<Number(key.p)>>
           r == WriteSeeded(key.seed, key.secret, Dnum)
<1>1. WriteAutoKey(key) = Then(p, r)
  BY DEF WriteAutoKey, Then
<1>2. HasLength(p, 1) /\ p[1] = Number(key.p)
  BY Single
<1>3. HasLength(r, 7)
  <2>1. Dnum \in Nat /\ (1 + Dnum) + Dnum = 7
    BY DEF Dnum
  <2>2. HasLength(r, (1 + Dnum) + Dnum)
    BY <2>1, SeededIs
  <2> QED
    BY <2>1, <2>2
<1> HIDE DEF p, r
<1>4. IsJoined(Then(p, r), p, 1, r, 7)
  BY <1>2, <1>3, ThenJoins
<1>5. HasLength(Then(p, r), 8) /\ Then(p, r)[1] = p[1]
      /\ \A j \in 1 .. 7 : Then(p, r)[1 + j] = r[j]
  BY <1>4 DEF IsJoined
<1> QED
  BY <1>1, <1>2, <1>5 DEF KeyTokens, r

\* A key is read where it was written.
LEMMA KeyRead ==
  ASSUME NEW s, NEW len \in Nat, Len(s) = len, NEW at \in Nat, NEW key, at + 8 <= len + 1,
         HoldsAt(s, at, WriteAutoKey(key), 8)
  PROVE  /\ ReadsAutoKey(s, at)
         /\ AutoKeyAt(s, at) = [p |-> key.p, seed |-> key.seed, secret |-> key.secret]
<1> DEFINE part == WriteAutoKey(key)
           r == WriteSeeded(key.seed, key.secret, Dnum)
           x == at + 1
<1>1. Dnum = 3 /\ Dnum \in Nat \ {0} /\ 1 + Dnum + Dnum = 7
  BY DEF Dnum
<1>2. part[1] = Number(key.p) /\ \A j \in 1 .. 7 : part[1 + j] = r[j]
  BY KeyIs
<1>3. \A j \in 1 .. 8 : s[at + j - 1] = part[j]
  BY DEF HoldsAt
<1> HIDE DEF part, r
<1>4. s[at] = Number(key.p)
  <2>1. 1 \in 1 .. 8 /\ at + 1 - 1 = at
    OBVIOUS
  <2>2. s[at + 1 - 1] = part[1]
    BY <1>3, <2>1
  <2> QED
    BY <1>2, <2>1, <2>2
<1>5. ASSUME NEW j \in 1 .. 7
      PROVE  s[x + j - 1] = r[j]
  <2>1. 1 + j \in 1 .. 8 /\ at + (1 + j) - 1 = x + j - 1
    OBVIOUS
  <2>2. s[at + (1 + j) - 1] = part[1 + j]
    BY <1>3, <2>1
  <2> QED
    BY <1>2, <2>1, <2>2
<1>6. x \in Nat /\ x + 7 <= len + 1 /\ at <= len
  OBVIOUS
<1> HIDE DEF x
<1>7. /\ ReadsSeeded(s, x, Dnum)
      /\ s[x + 1].value = key.seed /\ s[x + 1 + Dnum].value = key.secret
  <2>1. HoldsAt(s, x, r, 1 + Dnum + Dnum)
    BY <1>1, <1>5 DEF HoldsAt
  <2>2. x + (1 + Dnum + Dnum) <= len + 1
    BY <1>1, <1>6
  <2> QED
    BY <1>1, <1>6, <2>1, <2>2, SeededRead DEF r
<1>8. s[at].kind = "number" /\ s[at].value = key.p
  BY <1>4 DEF Number
<1>9. ReadsAutoKey(s, at)
  <2>1. Continues(s, at, <<"number">>)
    BY <1>6, <1>8, OneContinues
  <2> QED
    BY <1>7, <2>1 DEF ReadsAutoKey, x
<1>10. s[at + 2].value = key.seed /\ s[at + 2 + Dnum].value = key.secret
  <2>1. x + 1 = at + 2 /\ x + 1 + Dnum = at + 2 + Dnum
    BY <1>1 DEF x
  <2> QED
    BY <1>7, <2>1
<1> QED
  BY <1>8, <1>9, <1>10 DEF AutoKeyAt

\* What the reader takes from the message of a query
ReadOf(q, n) ==
  LET key(k) == [p |-> k.p, seed |-> k.seed, secret |-> k.secret]
  IN [blocks |-> [b \in 0 .. n - 1 |-> q.blocks[b]],
      keyG |-> key(q.keyG), keyH |-> key(q.keyH), root |-> q.root]

\* Where the keys of a query start
KeysAt(n) == 3 + n

\* The blocks with their count, the two keys, the root
HoldsQuery(s, q, n) ==
  /\ s[1] = Tag("interpolation") /\ s[2] = Number(n)
  /\ \A i \in 1 .. n : s[2 + i] = Compressed(q.blocks[i - 1])
  /\ HoldsAt(s, KeysAt(n), WriteAutoKey(q.keyG), 8)
  /\ HoldsAt(s, KeysAt(n) + 8, WriteAutoKey(q.keyH), 8)
  /\ HoldsAt(s, KeysAt(n) + 16, WriteSeeded(q.root.seed, q.root, 2 * Dnum), 13)

\* What is written of a query is all of it.
LEMMA QueryIs ==
  ASSUME NEW q, NEW n \in Nat
  PROVE  /\ HasLength(WriteInterpolationQuery(q, n), KeysAt(n) + 28)
         /\ HoldsQuery(WriteInterpolationQuery(q, n), q, n)
<1> DEFINE tag == <<Tag("interpolation")>>
           a == Counted(q.blocks, n, Compressed)
           b == WriteAutoKey(q.keyG)
           c == WriteAutoKey(q.keyH)
           d == WriteSeeded(q.root.seed, q.root, 2 * Dnum)
           s1 == Then(tag, a)
           s2 == Then(s1, b)
           s3 == Then(s2, c)
           s4 == Then(s3, d)
           l1 == 1 + n
           l2 == 2 + n
           l3 == l2 + 8
           l4 == l3 + 8
<1>1. WriteInterpolationQuery(q, n) = s4
  BY DEF WriteInterpolationQuery, Then
<1>2. HasLength(tag, 1) /\ tag[1] = Tag("interpolation")
  BY Single
<1>3. HasLength(a, l1) /\ a[1] = Number(n) /\ \A i \in 1 .. n : a[1 + i] = Compressed(q.blocks[i - 1])
  BY CountedIs
<1>4. HasLength(b, 8) /\ HasLength(c, 8)
  BY KeyIs DEF KeyTokens
<1>5. HasLength(d, 13)
  <2>1. 2 * Dnum \in Nat /\ (1 + 2 * Dnum) + 2 * Dnum = 13
    BY DEF Dnum
  <2>2. HasLength(d, (1 + 2 * Dnum) + 2 * Dnum)
    BY <2>1, SeededIs
  <2> QED
    BY <2>1, <2>2
<1>6. /\ l1 \in Nat /\ l2 \in Nat /\ l3 \in Nat /\ l4 \in Nat /\ 1 \in Nat /\ 8 \in Nat /\ 13 \in Nat
      /\ l1 = 1 + n /\ l2 = 2 + n /\ l3 = l2 + 8 /\ l4 = l3 + 8 /\ 1 + l1 = l2
  OBVIOUS
<1> HIDE DEF tag, a, b, c, d, s1, s2, s3, s4, l1, l2, l3, l4
<1>7. IsJoined(s1, tag, 1, a, l1)
  BY <1>2, <1>3, <1>6, ThenJoins DEF s1
<1>8. HasLength(s1, l2)
  BY <1>6, <1>7 DEF IsJoined
<1>9. IsJoined(s2, s1, l2, b, 8)
  BY <1>4, <1>6, <1>8, ThenJoins DEF s2
<1>10. HasLength(s2, l3)
  BY <1>6, <1>9 DEF IsJoined
<1>11. IsJoined(s3, s2, l3, c, 8)
  BY <1>4, <1>6, <1>10, ThenJoins DEF s3
<1>12. HasLength(s3, l4)
  BY <1>6, <1>11 DEF IsJoined
<1>13. IsJoined(s4, s3, l4, d, 13)
  BY <1>5, <1>6, <1>12, ThenJoins DEF s4
<1>14. /\ \A i \in 1 .. l4 : s4[i] = s3[i]
       /\ \A i \in 1 .. l3 : s3[i] = s2[i]
       /\ \A i \in 1 .. l2 : s2[i] = s1[i]
       /\ s1[1] = tag[1] /\ \A i \in 1 .. l1 : s1[1 + i] = a[i]
  BY <1>7, <1>9, <1>11, <1>13 DEF IsJoined
<1>15. \A i \in 1 .. l2 : s4[i] = s1[i]
  BY <1>6, <1>14
<1>16. s4[1] = Tag("interpolation") /\ s4[2] = Number(n)
  <2>1. 1 \in 1 .. l2 /\ 2 \in 1 .. l2 /\ 1 \in 1 .. l1 /\ 1 + 1 = 2
    BY <1>6
  <2> QED
    BY <1>2, <1>3, <1>14, <1>15, <2>1
<1>17. ASSUME NEW i \in 1 .. n
       PROVE  s4[2 + i] = Compressed(q.blocks[i - 1])
  <2> DEFINE j == 1 + i
             x == 2 + i
  <2>1. j \in 1 .. l1 /\ x \in 1 .. l2 /\ 1 + j = x
    BY <1>6
  <2>2. a[j] = Compressed(q.blocks[i - 1])
    BY <1>3
  <2> HIDE DEF j, x
  <2>3. s1[1 + j] = a[j] /\ s4[x] = s1[x]
    BY <1>14, <1>15, <2>1
  <2> QED
    BY <2>1, <2>2, <2>3 DEF x
<1>18. /\ \A j \in 1 .. 8 : s2[l2 + j] = b[j] /\ s3[l3 + j] = c[j]
       /\ \A j \in 1 .. 13 : s4[l4 + j] = d[j]
  BY <1>9, <1>11, <1>13 DEF IsJoined
<1>19. ASSUME NEW j \in 1 .. 8
       PROVE  s4[l2 + j] = b[j] /\ s4[l3 + j] = c[j]
  <2>1. l2 + j \in 1 .. l3 /\ l2 + j \in 1 .. l4 /\ l3 + j \in 1 .. l4
    BY <1>6
  <2>2. s4[l2 + j] = s3[l2 + j] /\ s3[l2 + j] = s2[l2 + j] /\ s4[l3 + j] = s3[l3 + j]
    BY <1>14, <2>1
  <2> QED
    BY <1>18, <2>2
<1>20. KeysAt(n) = l2 + 1 /\ KeysAt(n) + 8 = l3 + 1 /\ KeysAt(n) + 16 = l4 + 1
       /\ KeysAt(n) + 28 = l4 + 13
  BY <1>6 DEF KeysAt
<1>21. /\ HoldsAt(s4, KeysAt(n), b, 8) /\ HoldsAt(s4, KeysAt(n) + 8, c, 8)
       /\ HoldsAt(s4, KeysAt(n) + 16, d, 13)
  <2>1. /\ \A j \in 1 .. 8 : (l2 + 1) + j - 1 = l2 + j /\ (l3 + 1) + j - 1 = l3 + j
        /\ \A j \in 1 .. 13 : (l4 + 1) + j - 1 = l4 + j
    BY <1>6
  <2>2. HoldsAt(s4, l2 + 1, b, 8) /\ HoldsAt(s4, l3 + 1, c, 8) /\ HoldsAt(s4, l4 + 1, d, 13)
    BY <1>18, <1>19, <2>1 DEF HoldsAt
  <2> QED
    BY <1>20, <2>2
<1>22. HasLength(s4, KeysAt(n) + 28)
  BY <1>13, <1>20 DEF IsJoined
<1>23. HoldsQuery(s4, q, n)
  BY <1>16, <1>17, <1>21 DEF HoldsQuery, b, c, d
<1> QED
  BY <1>1, <1>22, <1>23


\* The server reads of a message what the client wrote.
LEMMA QueryRead ==
  ASSUME NEW q, NEW n \in Nat
  PROVE  ReadInterpolationQuery(WriteInterpolationQuery(q, n), n) = ReadOf(q, n)
<1> DEFINE s == WriteInterpolationQuery(q, n)
           len == n + 31
           g == 3 + n
           h == g + 8
           root == g + 16
<1>1. /\ len \in Nat /\ g \in Nat /\ h \in Nat /\ root \in Nat
      /\ g = 3 + n /\ h = g + 8 /\ root = g + 16 /\ len = g + 28
      /\ KeysAt(n) = g /\ KeysAt(n) + 8 = h /\ KeysAt(n) + 16 = root /\ KeysAt(n) + 28 = len
  BY DEF KeysAt
<1>2. HasLength(s, KeysAt(n) + 28) /\ HoldsQuery(s, q, n)
  BY QueryIs
<1>3. ReadInterpolationQuery(s, n) =
        IF /\ IsTagged(s, "interpolation")
           /\ Announces(s, 2, "compressed", n)
           /\ ReadsAutoKey(s, After(s, 2)) /\ ReadsAutoKey(s, After(s, 2) + AutoKeyTokens)
           /\ ReadsSeeded(s, After(s, 2) + 2 * AutoKeyTokens, 2 * Dnum)
        THEN [blocks |-> Values(s, 2), keyG |-> AutoKeyAt(s, After(s, 2)),
              keyH |-> AutoKeyAt(s, After(s, 2) + AutoKeyTokens),
              root |-> s[After(s, After(s, 2) + 2 * AutoKeyTokens)].value]
        ELSE Refused
  BY DEF ReadInterpolationQuery
<1>4. /\ AutoKeyTokens = 8 /\ 2 * Dnum = 6
  BY DEF AutoKeyTokens, SeededTokens, Dnum
<1> HIDE DEF s, len, g, h, root
<1>5. Len(s) = len
  BY <1>1, <1>2, LengthOf
<1>6. /\ s[1] = Tag("interpolation") /\ s[2] = Number(n)
      /\ \A i \in 1 .. n : s[2 + i] = Compressed(q.blocks[i - 1])
      /\ HoldsAt(s, g, WriteAutoKey(q.keyG), 8) /\ HoldsAt(s, h, WriteAutoKey(q.keyH), 8)
      /\ HoldsAt(s, root, WriteSeeded(q.root.seed, q.root, 2 * Dnum), 13)
  BY <1>1, <1>2 DEF HoldsQuery
<1>7. s[2].value = n /\ s[2].kind = "number" /\ s[1].kind = "tag" /\ s[1].value = "interpolation"
  BY <1>6 DEF Number, Tag
<1>8. After(s, 2) = g
  BY <1>1, <1>7 DEF After
<1>9. IsTagged(s, "interpolation")
  BY <1>1, <1>5, <1>7 DEF IsTagged
<1>10. ASSUME NEW i \in 1 .. n
       PROVE  /\ s[2 + i].kind = "compressed" /\ s[2 + i].value = q.blocks[i - 1]
  <2>1. s[2 + i] = Compressed(q.blocks[i - 1])
    BY <1>6
  <2>2. /\ Compressed(q.blocks[i - 1]).kind = "compressed"
        /\ Compressed(q.blocks[i - 1]).value = q.blocks[i - 1]
    BY DEF Compressed
  <2> QED
    BY <2>1, <2>2
<1>11. Announces(s, 2, "compressed", n)
  <2>1. Continues(s, 2, <<"number">>)
    BY <1>1, <1>5, <1>7, OneContinues
  <2>2. Continues(s, 3, Repeat("compressed", n))
    <3>1. 3 \in Nat /\ 3 + n <= len + 1
      BY <1>1
    <3>2. \A i \in 1 .. n : s[3 + i - 1].kind = "compressed"
      <4> SUFFICES ASSUME NEW i \in 1 .. n
                   PROVE  s[3 + i - 1].kind = "compressed"
        OBVIOUS
      <4>1. 3 + i - 1 = 2 + i
        OBVIOUS
      <4> QED
        BY <1>10, <4>1
    <3> QED
      BY <1>1, <1>5, <3>1, <3>2, RunContinues
  <2>3. CountFits(s[2].value, n)
    BY <1>7 DEF CountFits
  <2>4. 2 + 1 = 3
    OBVIOUS
  <2> QED
    BY <1>7, <2>1, <2>2, <2>3, <2>4 DEF Announces
<1>12. Values(s, 2) = [b \in 0 .. n - 1 |-> q.blocks[b]]
  <2>1. Values(s, 2) = [b \in 0 .. n - 1 |-> s[2 + 1 + b].value]
    BY <1>7 DEF Values
  <2>2. ASSUME NEW b \in 0 .. n - 1
        PROVE  s[2 + 1 + b].value = q.blocks[b]
    <3>1. b + 1 \in 1 .. n /\ 2 + 1 + b = 2 + (b + 1) /\ (b + 1) - 1 = b
      OBVIOUS
    <3>2. s[2 + (b + 1)].value = q.blocks[(b + 1) - 1]
      BY <1>10, <3>1
    <3> QED
      BY <3>1, <3>2
  <2> QED
    BY <2>1, <2>2
<1>13. /\ ReadsAutoKey(s, g)
       /\ AutoKeyAt(s, g) = [p |-> q.keyG.p, seed |-> q.keyG.seed, secret |-> q.keyG.secret]
  <2>1. g + 8 <= len + 1
    BY <1>1
  <2> QED
    BY <1>1, <1>5, <1>6, <2>1, KeyRead
<1>14. /\ ReadsAutoKey(s, h)
       /\ AutoKeyAt(s, h) = [p |-> q.keyH.p, seed |-> q.keyH.seed, secret |-> q.keyH.secret]
  <2>1. h + 8 <= len + 1
    BY <1>1
  <2> QED
    BY <1>1, <1>5, <1>6, <2>1, KeyRead
<1>15. /\ ReadsSeeded(s, root, 2 * Dnum) /\ After(s, root) = root + 7
       /\ s[root + 7].value = q.root
  <2> DEFINE d == 2 * Dnum
             sd == q.root.seed
             va == q.root
  <2>1. d \in Nat \ {0} /\ 1 + d + d = 13 /\ root + (1 + d + d) <= len + 1 /\ root + 1 + d = root + 7
    BY <1>1, <1>4
  <2>2. HoldsAt(s, root, WriteSeeded(sd, va, d), 1 + d + d)
    BY <1>6, <2>1
  <2> HIDE DEF d, sd, va
  <2>3. ReadsSeeded(s, root, d) /\ After(s, root) = root + 1 + d /\ s[root + 1 + d].value = va
    BY <1>1, <1>5, <2>1, <2>2, SeededRead
  <2> QED
    BY <2>1, <2>3 DEF d, va
<1>16. After(s, 2) + AutoKeyTokens = h /\ After(s, 2) + 2 * AutoKeyTokens = root
  BY <1>1, <1>4, <1>8
<1>17. ReadInterpolationQuery(s, n) =
         [blocks |-> Values(s, 2), keyG |-> AutoKeyAt(s, g), keyH |-> AutoKeyAt(s, h),
          root |-> s[After(s, root)].value]
  BY <1>3, <1>8, <1>9, <1>11, <1>13, <1>14, <1>15, <1>16
<1> QED
  BY <1>12, <1>13, <1>14, <1>15, <1>17 DEF ReadOf, s

\* A query arrives as it was sent.
LEMMA ReceivedIs ==
  ASSUME call \in Calls, NEW who, NEW i
  PROVE  Received(Query(who, i)) = Query(who, i)
<1> DEFINE q == Query(who, i)
           a == AddressFor(Layout(call), N, i)
           key(p) == [secret |-> who, p |-> p, seed |-> KeysRoot]
           blocks == OneHotBlocks(who, a.column, call.cols, N, MaskRoot, Unit)
           root == RootQuery(who, a.matrix)
<1>1. q = [keyG |-> key(GaloisGenerator), keyH |-> key(-1), blocks |-> blocks, root |-> root]
  BY DEF Query, Unit
<1>2. kb \in Nat /\ kb = BlockCount(call.cols, N)
  BY BlocksAre DEF BlockCols
<1>3. [b \in 0 .. kb - 1 |-> blocks[b]] = blocks
  BY <1>2 DEF OneHotBlocks
<1> HIDE DEF q, blocks, root
<1>4. Received(q) = ReadOf(q, kb)
  BY <1>2, QueryRead DEF Received
<1>5. q.keyG = key(GaloisGenerator) /\ q.keyH = key(-1) /\ q.blocks = blocks /\ q.root = root
  BY <1>1
<1>6. ReadOf(q, kb) = [blocks |-> blocks, keyG |-> key(GaloisGenerator), keyH |-> key(-1),
                       root |-> root]
  BY <1>3, <1>5 DEF ReadOf
<1> QED
  BY <1>1, <1>4, <1>6 DEF q

\* So does a response.
LEMMA ResponseRead ==
  ASSUME NEW r
  PROVE  ReadInterpolationResponse(WriteInterpolationResponse(r)).selected = r
<1> DEFINE s == WriteInterpolationResponse(r)
           ct == Ciphertext(r, K)
<1>1. s = <<Tag("interpolation"), ct>>
  BY DEF WriteInterpolationResponse
<1>2. ct.kind = "ciphertext" /\ ct.value = r
  BY DEF Ciphertext
<1>3. Tag("interpolation").kind = "tag" /\ Tag("interpolation").value = "interpolation"
  BY DEF Tag
<1> HIDE DEF ct
<1>4. Len(s) = 2 /\ s[1] = Tag("interpolation") /\ s[2] = ct
  BY <1>1
<1> HIDE DEF s
<1>5. IsTagged(s, "interpolation")
  BY <1>3, <1>4 DEF IsTagged
<1>6. Continues(s, 2, <<"ciphertext">>)
  <2>1. 2 \in Nat /\ 2 <= 2 /\ Len(s) = 2 /\ s[2].kind = "ciphertext"
    BY <1>2, <1>4
  <2> QED
    BY <2>1, OneContinues
<1>7. ReadInterpolationResponse(s) = [selected |-> s[2].value]
  BY <1>5, <1>6 DEF ReadInterpolationResponse
<1> QED
  BY <1>2, <1>4, <1>7 DEF s

-----------------------------------------------------------------------------
(* The product of a panel with the blocks of a query *)

Dot(a, hot) == LET term(c) == a[c] * hot[c] IN SumTo(term, N)

\* A product of a row with a block is the sum of the products of their numbers.
LEMMA DotIs ==
  ASSUME NEW a, NEW hot
  PROVE  Dot(a, hot) = Sum([c \in 0 .. N - 1 |-> a[c] * hot[c]], N)
<1> DEFINE f == [c \in 0 .. N - 1 |-> a[c] * hot[c]]
           adds(s) == [i \in 0 .. N |-> IF i = 0 THEN 0 ELSE s[i - 1] + a[i - 1] * hot[i - 1]]
           sums == CHOOSE s : s = adds(s)
           p == PartialSums(f, N)
<1>1. N \in Nat /\ \A i \in 0 .. N : i # 0 => i - 1 \in 0 .. N - 1
  BY WireAssumption
<1>2. Dot(a, hot) = sums[N]
  BY DEF Dot, SumTo
<1>3. \A i \in 0 .. N - 1 : f[i] = a[i] * hot[i]
  OBVIOUS
<1> HIDE DEF f
<1>4. AddsUp(p, f, N)
  BY <1>1, SumsAre
<1> HIDE DEF p
<1>5. p = adds(p)
  BY <1>1, <1>3, <1>4 DEF AddsUp
<1>6. sums = adds(sums)
  <2> HIDE DEF adds
  <2> QED
    BY <1>5
<1> HIDE DEF sums
<1>7. AddsUp(sums, f, N)
  BY <1>1, <1>3, <1>6 DEF AddsUp
<1>8. sums[N] = Sum(f, N)
  BY <1>1, <1>7, SumsAreUnique
<1> QED
  BY <1>2, <1>8 DEF f

\* One number of a block is the unit.
IsOneHot(hot, u, col, bl) == \A c \in Coef : hot[c] = IF col = bl * N + c THEN u ELSE 0

\* The block that has the one selects its number; the others nothing.
LEMMA DotOneHot ==
  ASSUME NEW a, Ints(a), NEW u \in Int, NEW col \in Nat, NEW bl \in Nat,
         NEW hot, IsOneHot(hot, u, col, bl)
  PROVE  /\ Dot(a, hot) = IF bl = col \div N THEN a[col % N] * u ELSE 0
         /\ Dot(a, hot) \in Int
<1> DEFINE f == [c \in 0 .. N - 1 |-> a[c] * hot[c]]
           q == col \div N
           r == col % N
           k == col - bl * N
           v == IF k \in Coef THEN a[k] * u ELSE 0
<1>1. N \in Nat \ {0} /\ Coef = 0 .. N - 1
  BY WireAssumption DEF Coef
<1>2. q \in Nat /\ r \in 0 .. N - 1 /\ col = N * q + r
  BY <1>1, Quotient
<1>3. bl * N \in Nat /\ q * N \in Nat /\ N * q = q * N
  BY <1>1, <1>2, ProductMonotone, SMT
<1>4. k \in Int /\ v \in Int
  <2>1. k \in Int
    BY <1>3
  <2>2. k \in Coef => a[k] * u \in Int
    <3> HIDE DEF k
    <3> QED
      BY IntProduct DEF Ints
  <2> HIDE DEF k
  <2> QED
    BY <2>1, <2>2
<1>5. k \in Coef <=> bl = q
  <2>1. CASE bl = q
    BY <1>1, <1>2, <1>3, <2>1
  <2>2. CASE bl < q
    <3>1. (bl + 1) * N <= q * N /\ (bl + 1) * N = bl * N + N
      <4>1. bl + 1 \in Nat /\ bl + 1 <= q
        BY <1>2, <2>2
      <4>2. (bl + 1) * N <= q * N
        BY <1>1, <1>2, <4>1, ProductMonotone
      <4>3. (bl + 1) * N = bl * N + N
        BY <1>1, SMT
      <4> QED
        BY <4>2, <4>3
    <3> QED
      BY <1>1, <1>2, <1>3, <2>2, <3>1
  <2>3. CASE bl > q
    <3>1. (q + 1) * N <= bl * N /\ (q + 1) * N = q * N + N
      <4>1. q + 1 \in Nat /\ q + 1 <= bl
        BY <1>2, <2>3
      <4>2. (q + 1) * N <= bl * N
        BY <1>1, <4>1, ProductMonotone
      <4>3. (q + 1) * N = q * N + N
        BY <1>1, <1>2, SMT
      <4> QED
        BY <4>2, <4>3
    <3> QED
      BY <1>1, <1>2, <1>3, <2>3, <3>1
  <2> QED
    BY <1>2, <2>1, <2>2, <2>3
<1>6. bl = q => k = r
  BY <1>2, <1>3
<1>7. \A i \in 0 .. N - 1 : f[i] = IF i = k THEN v ELSE 0
  <2> SUFFICES ASSUME NEW i \in 0 .. N - 1
               PROVE  f[i] = IF i = k THEN v ELSE 0
    OBVIOUS
  <2>1. f[i] = a[i] * hot[i] /\ a[i] \in Int /\ hot[i] = IF col = bl * N + i THEN u ELSE 0
    BY <1>1 DEF Ints, IsOneHot
  <2>2. i = k <=> col = bl * N + i
    BY <1>3
  <2>3. \A x \in Int : x * 0 = 0 /\ x * u \in Int
    BY SMT
  <2> HIDE DEF f, k
  <2> QED
    BY <1>1, <2>1, <2>2, <2>3
<1> HIDE DEF f, q, r, k
<1>8. Sum(f, N) = IF k \in 0 .. N - 1 THEN v ELSE 0
  <2> HIDE DEF v
  <2> QED
    BY <1>1, <1>4, <1>7, SumOfOne
<1>9. Dot(a, hot) = Sum(f, N)
  BY DotIs DEF f
<1>10. Dot(a, hot) = IF bl = q THEN a[r] * u ELSE 0
  BY <1>1, <1>5, <1>6, <1>8, <1>9
<1>11. Dot(a, hot) \in Int
  <2>1. a[r] * u \in Int
    BY <1>1, <1>2, IntProduct DEF Ints
  <2> QED
    BY <1>10, <2>1
<1> QED
  BY <1>10, <1>11 DEF q, r

\* Blocks that select a column with the unit of the encoding
Selects(blocks, col) ==
  \A bc \in 0 .. kb - 1 : \A c \in Coef :
    blocks[bc].plain[c] = IF col = bc * N + c THEN Unit ELSE 0

\* The column of a panel at one place of a block
Picked(bc, c, k) == [row \in Coef |-> Interpolated(bc, k)[row][c]]

RowProduct(p, row, blocks) ==
  LET block(bc) == Dot(prepared[p][bc][row], blocks[bc].plain) IN SumTo(block, kb)

\* A place of the panels is an integer.
LEMMA InterpolatedIs ==
  ASSUME call \in Calls, NEW bc \in Nat, NEW k \in 0 .. t - 1, NEW row \in Coef, NEW c \in Coef
  PROVE  /\ Interpolated(bc, k)[row][c] \in Int
         /\ Interpolated(bc, k)[row][c] =
              CentredMod(Idft(OriginalColumn(bc, c))[k][row] * Inv, OddBase)
         /\ Idft(OriginalColumn(bc, c))[k][row] * Inv \in Int
<1> DEFINE y == Idft(OriginalColumn(bc, c))
           x == y[k][row] * Inv
<1>1. Interpolated(bc, k)[row][c] = CentredMod(x, OddBase)
  BY DEF Interpolated
<1>2. y \in Working
  BY OriginalIs, TransformIs
<1>3. y[k][row] \in Int /\ Inv \in Int
  <2> HIDE DEF y
  <2> QED
    BY <1>2, InverseIs DEF Working, IntPolys
<1>4. x \in Int
  <2> DEFINE z == y[k][row]
  <2>1. z \in Int /\ Inv \in Int
    BY <1>3
  <2> HIDE DEF z
  <2>2. z * Inv \in Int
    BY <2>1, IntProduct
  <2> QED
    BY <2>2 DEF z
<1> HIDE DEF x, y
<1>5. CentredMod(x, OddBase) \in Int
  BY <1>4, CentredIs
<1> QED
  BY <1>1, <1>4, <1>5 DEF x, y

\* The product of a panel's row with a query's blocks is the number in its column, on
\* the torus.
LEMMA RowProductIs ==
  ASSUME call \in Calls, NEW p \in 0 .. t - 1, NEW row \in Coef,
         \A bc \in 0 .. kb - 1 : prepared[p][bc] = Interpolated(bc, p),
         NEW col \in Nat, col \div N \in 0 .. kb - 1,
         NEW blocks, Selects(blocks, col)
  PROVE  /\ RowProduct(p, row, blocks) = Picked(col \div N, col % N, p)[row] * Unit
         /\ Picked(col \div N, col % N, p)[row] \in Int
<1> DEFINE n == kb
           dot(bl) == Dot(prepared[p][bl][row], blocks[bl].plain)
           f == [bl \in 0 .. n - 1 |-> dot(bl)]
           adds(s) == [i \in 0 .. n |-> IF i = 0 THEN 0 ELSE s[i - 1] + dot(i - 1)]
           sums == CHOOSE s : s = adds(s)
           ps == PartialSums(f, n)
           w == Picked(col \div N, col % N, p)[row]
           v == w * Unit
<1>1. n \in Nat /\ \A i \in 0 .. n : i # 0 => i - 1 \in 0 .. n - 1
  <2>1. n \in Nat
    BY BlocksAre
  <2> HIDE DEF n
  <2> QED
    BY <2>1
<1>2. RowProduct(p, row, blocks) = sums[n]
  BY DEF RowProduct, SumTo
<1>3. N \in Nat \ {0} /\ (col % N) \in Coef /\ col \div N \in Nat /\ Unit \in Int
  <2>1. N \in Nat \ {0} /\ Coef = 0 .. N - 1
    BY DegreeIs
  <2>2. (col % N) \in 0 .. N - 1 /\ col \div N \in Nat
    BY <2>1, Quotient
  <2> QED
    BY <2>1, <2>2, UnitIs
<1>4. w = Interpolated(col \div N, p)[row][col % N] /\ w \in Int
  <2>1. w = Interpolated(col \div N, p)[row][col % N]
    BY DEF Picked
  <2> QED
    BY <1>3, <2>1, InterpolatedIs
<1>5. v \in Int
  <2> HIDE DEF w
  <2> QED
    BY <1>3, <1>4, IntProduct
<1>6. \A bl \in 0 .. n - 1 : dot(bl) = IF bl = col \div N THEN v ELSE 0
  <2> SUFFICES ASSUME NEW bl \in 0 .. n - 1
               PROVE  dot(bl) = IF bl = col \div N THEN v ELSE 0
    OBVIOUS
  <2> DEFINE a == prepared[p][bl][row]
             hot == blocks[bl].plain
  <2>1. a = Interpolated(bl, p)[row] /\ bl \in Nat
    BY <1>1
  <2>2. \A c \in Coef : a[c] \in Int
    BY <2>1, InterpolatedIs
  <2>3. \A c \in Coef : hot[c] = IF col = bl * N + c THEN Unit ELSE 0
    BY DEF Selects
  <2>4. dot(bl) = Dot(a, hot)
    OBVIOUS
  <2> HIDE DEF a, hot, dot, n
  <2>5. Dot(a, hot) = IF bl = col \div N THEN a[col % N] * Unit ELSE 0
    <3> DEFINE u == Unit
    <3>1. u \in Int /\ bl \in Nat /\ col \in Nat
          /\ Ints(a) /\ IsOneHot(hot, u, col, bl)
      BY <1>3, <2>1, <2>2, <2>3 DEF Ints, IsOneHot
    <3> HIDE DEF u
    <3>2. Dot(a, hot) = IF bl = col \div N THEN a[col % N] * u ELSE 0
      BY <3>1, DotOneHot
    <3> QED
      BY <3>2 DEF u
  <2>6. bl = col \div N => a[col % N] = w
    BY <1>4, <2>1
  <2> HIDE DEF w
  <2> QED
    BY <2>4, <2>5, <2>6
<1>7. \A i \in 0 .. n - 1 : f[i] = dot(i)
  OBVIOUS
<1>8. col \div N \in 0 .. n - 1
  OBVIOUS
<1> HIDE DEF f, dot, v, n, w
<1>9. AddsUp(ps, f, n)
  BY <1>1, SumsAre
<1> HIDE DEF ps
<1>10. ps = adds(ps)
  <2>1. ps = [i \in 0 .. n |-> IF i = 0 THEN 0 ELSE ps[i - 1] + f[i - 1]]
    BY <1>9 DEF AddsUp
  <2>2. \A i \in 0 .. n : i # 0 => f[i - 1] = dot(i - 1)
    <3>1. \A i \in 0 .. n : i # 0 => i - 1 \in 0 .. n - 1
      BY <1>1
    <3> QED
      BY <1>7, <3>1
  <2>3. \A i \in 0 .. n :
          (IF i = 0 THEN 0 ELSE ps[i - 1] + f[i - 1]) = IF i = 0 THEN 0 ELSE ps[i - 1] + dot(i - 1)
    BY <2>2
  <2> QED
    BY <2>1, <2>3
<1>11. sums = adds(sums)
  <2> HIDE DEF adds
  <2> QED
    BY <1>10
<1> HIDE DEF sums
<1>12. AddsUp(sums, f, n)
  BY <1>1, <1>7, <1>11 DEF AddsUp
<1>13. sums[n] = Sum(f, n)
  BY <1>1, <1>12, SumsAreUnique
<1> DEFINE k == col \div N
<1>14. k \in Int /\ k \in 0 .. n - 1 /\ \A i \in 0 .. n - 1 : f[i] = IF i = k THEN v ELSE 0
  BY <1>1, <1>6, <1>7, <1>8
<1> HIDE DEF k
<1>15. Sum(f, n) = v
  <2>1. IsOnly(f, n, k, v)
    BY <1>14 DEF IsOnly
  <2> QED
    BY <1>1, <1>5, <1>14, <2>1, SumOfOnly
<1> QED
  BY <1>2, <1>4, <1>13, <1>15 DEF v, w

\* U b of a panel and the blocks of a column is the column of the panel, on the torus.
LEMMA BodyIs ==
  ASSUME call \in Calls, NEW p \in 0 .. t - 1,
         \A bc \in 0 .. kb - 1 : prepared[p][bc] = Interpolated(bc, p),
         NEW col \in Nat, col \div N \in 0 .. kb - 1,
         NEW q, Selects(q.blocks, col)
  PROVE  /\ Body(p, q) \in [Coef -> Int]
         /\ \A row \in Coef :
              /\ Picked(col \div N, col % N, p)[row] \in Int
              /\ Congruent(Body(p, q)[row], Picked(col \div N, col % N, p)[row] * Unit,
                           2 ^ TorusBits)
<1>1. Body(p, q) = [row \in Coef |-> RowProduct(p, row, q.blocks) % 2 ^ TorusBits]
  BY DEF Body, RowProduct, Dot
<1>2. ASSUME NEW row \in Coef
      PROVE  /\ Picked(col \div N, col % N, p)[row] \in Int
             /\ RowProduct(p, row, q.blocks) % 2 ^ TorusBits \in Int
             /\ Congruent(RowProduct(p, row, q.blocks) % 2 ^ TorusBits,
                          Picked(col \div N, col % N, p)[row] * Unit, 2 ^ TorusBits)
  <2> DEFINE w == Picked(col \div N, col % N, p)[row]
             x == w * Unit
             m == 2 ^ TorusBits
             r == RowProduct(p, row, q.blocks)
             b == q.blocks
  <2>1. r = x /\ w \in Int
    <3> HIDE DEF b
    <3>1. Selects(b, col)
      BY DEF b
    <3> QED
      BY <3>1, RowProductIs DEF b
  <2>2. x \in Int /\ m \in Nat \ {0}
    <3>1. w \in Int /\ Unit \in Int
      BY <2>1, UnitIs
    <3> HIDE DEF w
    <3> QED
      BY <3>1, IntProduct, TorusIs
  <2> HIDE DEF x, m, r, w
  <2>3. Congruent(r % m, x, m) /\ (r % m) \in Int
    BY <2>1, <2>2, CongruentRest
  <2> QED
    BY <2>1, <2>3 DEF x, m, r, w
<1> QED
  BY <1>1, <1>2

-----------------------------------------------------------------------------
(* The value a client decodes *)

\* A sum is no larger than as many of its largest terms.
LEMMA SumBound ==
  ASSUME NEW n \in Nat, NEW b \in Nat, NEW f,
         \A i \in 0 .. n - 1 : f[i] \in Int /\ 2 * f[i] <= b /\ -b <= 2 * f[i]
  PROVE  Sum(f, n) \in Int /\ 2 * Sum(f, n) <= n * b /\ -(n * b) <= 2 * Sum(f, n)
<1> DEFINE S == {m \in 0 .. n : 2 * Sum(f, m) <= m * b /\ -(m * b) <= 2 * Sum(f, m)}
<1>1. \A m \in 0 .. n : Sum(f, m) \in Int
  BY PartsOfSum
<1>2. 0 \in S
  <2>1. Sum(f, 0) = 0 /\ 0 * b = 0 /\ 0 \in 0 .. n
    BY SumNext
  <2> QED
    BY <2>1
<1>3. ASSUME NEW i \in 0 .. n - 1, i \in S
      PROVE  i + 1 \in S
  <2> DEFINE s == Sum(f, i)
             x == f[i]
             p == i * b
             r == (i + 1) * b
             v == Sum(f, i + 1)
  <2>1. v = s + x /\ i + 1 \in 0 .. n /\ i \in 0 .. n
    BY SumNext
  <2>2. p \in Int /\ r = p + b
    <3>1. i \in Int /\ b \in Int
      OBVIOUS
    <3>2. p \in Int
      BY <3>1, IntProduct
    <3>3. r = p + b
      BY <3>1, SMT
    <3> QED
      BY <3>2, <3>3
  <2>3. s \in Int /\ x \in Int /\ 2 * x <= b /\ -b <= 2 * x /\ 2 * s <= p /\ -p <= 2 * s
    BY <1>1, <1>3, <2>1
  <2> HIDE DEF s, x, p, r, v
  <2>4. 2 * v <= r /\ -r <= 2 * v
    BY <2>1, <2>2, <2>3
  <2> QED
    BY <2>1, <2>4 DEF v, r
<1>4. 0 .. n \subseteq S
  <2> HIDE DEF S
  <2> QED
    BY <1>2, <1>3, StepsReachAll
<1>5. n \in S
  BY <1>4
<1> QED
  BY <1>1, <1>5

\* A place of a panel's column turned by the monomial
Shifted(bc, c, m, x, k) == Turn(Picked(bc, c, k), x - Turns(Levels) * (m * k))

\* Coefficients of a panel are centred digits, wherever they are turned to, and those of
\* the polynomial itself up to multiples of the base.
LEMMA PickedIs ==
  ASSUME call \in Calls, NEW bc \in Nat, NEW c \in Coef, NEW k \in 0 .. t - 1, NEW e \in Int
  PROVE  LET p == Picked(bc, c, k)
             a == [row \in Coef |-> Interpolated(bc, k)[row][c] % OddBase]
         IN /\ Ints(p) /\ p \in IntPolys /\ Ints(a)
            /\ Turn(p, e) \in Int /\ 2 * Turn(p, e) <= OddBase /\ -OddBase <= 2 * Turn(p, e)
            /\ Congruent(Turn(p, e), Turn(a, e), OddBase)
<1> DEFINE p == Picked(bc, c, k)
           a == [row \in Coef |-> Interpolated(bc, k)[row][c] % OddBase]
<1>1. OddBase \in Nat \ {0} /\ OddBase \in Int
  BY BasesAre
<1>2. ASSUME NEW row \in Coef
      PROVE  /\ p[row] \in Int /\ 2 * p[row] <= OddBase /\ -OddBase <= 2 * p[row]
             /\ a[row] \in Int /\ Congruent(p[row], 1 * a[row], OddBase)
  <2> DEFINE y == Idft(OriginalColumn(bc, c))[k][row] * Inv
             v == Interpolated(bc, k)[row][c]
  <2>1. v \in Int /\ y \in Int /\ v = CentredMod(y, OddBase)
    BY InterpolatedIs
  <2>2. p[row] = v /\ a[row] = v % OddBase
    BY DEF Picked
  <2> HIDE DEF y, v
  <2>3. 2 * v <= OddBase /\ -OddBase <= 2 * v
    BY <2>1, CentredIs
  <2>4. Congruent(v, v % OddBase, OddBase) /\ (v % OddBase) \in Int
    BY <1>1, <2>1, CongruentRest
  <2> DEFINE w == v % OddBase
  <2>5. Congruent(v, w, OddBase) /\ w \in Int
    BY <2>4
  <2> HIDE DEF w
  <2>6. 1 * w = w
    BY <2>5
  <2> QED
    BY <2>1, <2>2, <2>3, <2>5, <2>6 DEF w
<1>3. p \in IntPolys /\ Ints(p) /\ Ints(a)
  <2>1. p = [row \in Coef |-> p[row]]
    BY DEF Picked
  <2> HIDE DEF p, a
  <2> QED
    BY <1>2, <2>1 DEF IntPolys, Ints
<1> HIDE DEF p, a
<1>4. Turn(p, e) \in Int
  BY <1>3, TurnIs
<1>5. 2 * Turn(p, e) <= OddBase /\ -OddBase <= 2 * Turn(p, e)
  <2>1. PICK z \in Int, r \in 0 .. 2 * N - 1 : e = 2 * N * z + r
    BY Exponent
  <2>2. Turn(p, e) = IF r < N THEN p[r] ELSE -p[r - N]
    BY <2>1, TurnAt
  <2>3. N \in Nat \ {0} /\ Coef = 0 .. N - 1
    BY DegreeIs
  <2>4. CASE r < N
    <3>1. r \in Coef
      BY <2>3, <2>4
    <3> QED
      BY <1>2, <2>2, <2>4, <3>1
  <2>5. CASE ~(r < N)
    <3> DEFINE o == r - N
    <3>1. o \in Coef
      BY <2>3, <2>5
    <3>2. Turn(p, e) = -p[o]
      BY <2>2, <2>5
    <3> HIDE DEF o
    <3>3. p[o] \in Int /\ 2 * p[o] <= OddBase /\ -OddBase <= 2 * p[o]
      BY <1>2, <3>1
    <3> DEFINE v == p[o]
    <3>4. v \in Int /\ 2 * v <= OddBase /\ -OddBase <= 2 * v /\ Turn(p, e) = -v
      BY <3>2, <3>3
    <3> HIDE DEF v
    <3> QED
      BY <1>1, <3>4
  <2> QED
    BY <2>4, <2>5
<1>6. Congruent(Turn(p, e), Turn(a, e), OddBase)
  <2>1. 1 \in Int /\ \A i \in Coef : Congruent(p[i], 1 * a[i], OddBase)
    BY <1>2
  <2>2. Congruent(Turn(p, e), 1 * Turn(a, e), OddBase)
    BY <1>1, <1>3, <2>1, TurnScales
  <2>3. Turn(a, e) \in Int
    BY <1>3, TurnIs
  <2> DEFINE x == Turn(a, e)
  <2>4. x \in Int /\ Congruent(Turn(p, e), 1 * x, OddBase)
    BY <2>2, <2>3
  <2> HIDE DEF x
  <2>5. 1 * x = x
    BY <2>4
  <2> QED
    BY <2>4, <2>5 DEF x
<1> QED
  BY <1>3, <1>4, <1>5, <1>6 DEF p, a

\* The panels' columns at the root of block row m sum up to a number small enough for the
\* torus that is the column of the block row, up to multiples of the base.
LEMMA ColumnsSum ==
  ASSUME call \in Calls, NEW bc \in Nat, NEW c \in Coef, NEW m \in 0 .. t - 1, NEW i \in Coef,
         NEW f, \A k \in 0 .. t - 1 : f[k] = Shifted(bc, c, m, i, k)
  PROVE  /\ Sum(f, t) \in Int /\ 2 * Sum(f, t) <= t * OddBase /\ -(t * OddBase) <= 2 * Sum(f, t)
         /\ Congruent(Sum(f, t), OriginalColumn(bc, c)[m][i], OddBase)
         /\ OriginalColumn(bc, c)[m][i] \in 0 .. OddBase - 1
<1> DEFINE P == OddBase
           r == Turns(Levels)
           a(k) == [row \in Coef |-> Interpolated(bc, k)[row][c] % P]
           g == [k \in 0 .. t - 1 |-> Digits!Rotate(((2 * N) \div t) * m * k,
                   [row \in Coef |-> Interpolated(bc, k)[row][c] % P])[i]]
           v == OriginalColumn(bc, c)[m][i]
<1>1. /\ t \in Nat \ {0} /\ r \in Nat /\ r = (2 * N) \div t
  <2>1. t \in Nat \ {0} /\ Levels \in Nat /\ Width(Levels) = t
    BY LevelsAre
  <2>2. Levels \in 0 .. Levels
    BY <2>1
  <2>3. r \in Nat
    BY <2>2, LevelsAre
  <2> QED
    BY <2>1, <2>3 DEF Turns, Width
<1>2. P \in Nat \ {0} /\ P \in Int /\ P \in Nat /\ m \in Nat /\ i \in Int
  BY <1>1, BasesAre, DegreeIs
<1>3. \A k \in 0 .. t - 1 :
        g[k] = Digits!Rotate(((2 * N) \div t) * m * k,
                 [row \in Coef |-> Interpolated(bc, k)[row][c] % OddBase])[i]
  OBVIOUS
<1> HIDE DEF g, P, r
<1>4. Sum(g, t) % P = v
  BY <1>3, ValueIsRow DEF P
<1>5. ASSUME NEW k \in 0 .. t - 1
      PROVE  /\ f[k] \in Int /\ 2 * f[k] <= P /\ -P <= 2 * f[k]
             /\ g[k] \in Int /\ Congruent(f[k], g[k], P)
  <2> DEFINE e == r * (m * k)
             d == i - e
             b == a(k)
             p == Picked(bc, c, k)
  <2>1. ((2 * N) \div t) * m * k = e /\ e \in Int /\ d \in Int
    <3>1. k \in Int /\ m * k \in Int /\ e \in Int
      BY <1>1, <1>2, IntProduct
    <3>2. r * m * k = r * (m * k)
      BY <1>1, <1>2, <3>1, SMT
    <3> QED
      BY <1>1, <1>2, <3>1, <3>2
  <2>2. f[k] = Turn(p, d)
    BY DEF Shifted, r
  <2> HIDE DEF d
  <2>3. /\ Ints(b) /\ Turn(p, d) \in Int /\ 2 * Turn(p, d) <= P /\ -P <= 2 * Turn(p, d)
        /\ Congruent(Turn(p, d), Turn(b, d), P)
    BY <2>1, PickedIs DEF P
  <2>4. g[k] = Digits!Rotate(e, b)[i]
    BY <1>3, <2>1 DEF P
  <2> HIDE DEF b, p
  <2>5. Digits!Rotate(e, b) \in IntPolys /\ Congruent(Digits!Rotate(e, b)[i], Turn(b, i - e), P)
    BY <2>1, <2>3, RotateIs DEF P
  <2>6. g[k] \in Int
    BY <2>4, <2>5 DEF IntPolys
  <2>7. Congruent(g[k], Turn(b, d), P) /\ Turn(b, d) \in Int
    <3>1. Turn(b, d) \in Int
      BY <2>1, <2>3, TurnIs
    <3> QED
      BY <2>4, <2>5, <3>1 DEF d
  <2>8. Congruent(Turn(b, d), g[k], P)
    BY <1>2, <2>6, <2>7, CongruentBack
  <2>9. Congruent(f[k], g[k], P)
    BY <1>2, <2>2, <2>3, <2>6, <2>7, <2>8, CongruentTrans
  <2> QED
    BY <2>2, <2>3, <2>6, <2>9
<1>6. Sum(f, t) \in Int /\ 2 * Sum(f, t) <= t * P /\ -(t * P) <= 2 * Sum(f, t)
  BY <1>1, <1>2, <1>5, SumBound
<1>7. Sum(g, t) \in Int /\ Congruent(Sum(f, t), Sum(g, t), P)
  BY <1>1, <1>2, <1>5, SumIsInt, SumsCongruent
<1>8. Congruent(Sum(g, t), v, P) /\ v \in Int /\ v \in 0 .. P - 1
  <2> DEFINE s == Sum(g, t)
  <2>1. s \in Int /\ s % P = v
    BY <1>4, <1>7
  <2> HIDE DEF s, v
  <2>2. Congruent(s, s % P, P) /\ (s % P) \in Int /\ (s % P) \in 0 .. P - 1
    BY <1>2, <2>1, CongruentRest, IntQuotient
  <2> QED
    BY <2>1, <2>2 DEF s
<1>9. Congruent(Sum(f, t), v, P)
  <2> HIDE DEF v
  <2> QED
    BY <1>2, <1>6, <1>7, <1>8, CongruentTrans
<1> QED
  BY <1>6, <1>8, <1>9 DEF P, v

-----------------------------------------------------------------------------
(* Horner *)

\* A coefficient on the torus is that of the turned polynomial.
LEMMA TorusAt ==
  ASSUME NEW a, Ints(a), NEW e \in Int
  PROVE  Torus!At(a, e) \in Int /\ Congruent(Torus!At(a, e), Turn(a, e), 2 ^ TorusBits)
<1> DEFINE r == e % (2 * N)
           x == -a[r - N]
           q == 2 ^ TorusBits
<1>1. 2 * N \in Nat \ {0} /\ r \in 0 .. 2 * N - 1 /\ q \in Nat \ {0}
  BY DegreeIs, IntQuotient, TorusIs
<1>2. /\ Torus!At(a, e) = IF r < N THEN a[r] ELSE x % q
      /\ Turn(a, e) = IF r < N THEN a[r] ELSE x
  BY DEF Torus!At, Turn
<1> HIDE DEF r, q
<1>3. CASE r < N
  <2>1. r \in Coef
    BY <1>1, <1>3, DegreeIs
  <2>2. a[r] \in Int
    BY <2>1 DEF Ints
  <2>3. a[r] = a[r] + q * 0
    BY <1>1, <2>2
  <2> QED
    BY <1>2, <1>3, <2>2, <2>3 DEF Congruent, q
<1>4. CASE ~(r < N)
  <2>1. r - N \in Coef
    BY <1>1, <1>4, DegreeIs
  <2>2. x \in Int
    BY <2>1 DEF Ints
  <2> HIDE DEF x
  <2>3. Congruent(x % q, x, q) /\ (x % q) \in Int
    BY <1>1, <2>2, CongruentRest
  <2> QED
    BY <1>2, <1>4, <2>3 DEF q
<1> QED
  BY <1>3, <1>4

\* Sums on the torus are sums.
LEMMA TorusSumIs ==
  ASSUME NEW f, NEW n \in Nat
  PROVE  Torus!SumUpTo(f, n) = Sum(f, n)
<1> DEFINE adds(r) == [i \in 0 .. n |-> IF i = 0 THEN 0 ELSE r[i - 1] + f[i - 1]]
           sums == CHOOSE r : r = adds(r)
           p == PartialSums(f, n)
<1>1. Torus!SumUpTo(f, n) = sums[n]
  BY DEF Torus!SumUpTo
<1>2. AddsUp(p, f, n)
  BY SumsAre
<1> HIDE DEF p
<1>3. p = adds(p)
  BY <1>2 DEF AddsUp
<1>4. sums = adds(sums)
  <2> HIDE DEF adds
  <2> QED
    BY <1>3
<1> HIDE DEF sums
<1>5. AddsUp(sums, f, n)
  BY <1>4 DEF AddsUp
<1> QED
  BY <1>1, <1>5, SumsAreUnique

\* The root is a monomial: one, or minus one where the exponent is past the degree.
LEMMA RootIs ==
  ASSUME NEW e \in Int
  PROVE  \E z \in Int, s \in Coef, u \in Int :
           /\ \A k \in Coef : RootMonomial(e)[k] = IF k = s THEN u ELSE 0
           /\ \/ u = 1 /\ e = 2 * N * z + s
              \/ u = 2 ^ TorusBits - 1 /\ e = 2 * N * z + s + N
<1> DEFINE q == 2 ^ TorusBits
           m == 2 * N
           r == e % m
           z == e \div m
<1>1. N \in Nat \ {0} /\ m \in Nat \ {0} /\ m = N + N /\ q \in Nat \ {0} /\ Coef = 0 .. N - 1
  BY DegreeIs, TorusIs
<1>2. r \in 0 .. m - 1 /\ z \in Int /\ e = m * z + r
  <2> HIDE DEF m
  <2> QED
    BY <1>1, IntQuotient
<1>3. \A k \in Coef : RootMonomial(e)[k] =
        IF r < N THEN IF k = r THEN 1 ELSE 0 ELSE IF k = r - N THEN q - 1 ELSE 0
  BY DEF RootMonomial
<1>4. m * z = 2 * N * z
  OBVIOUS
<1> HIDE DEF q, m, r, z
<1>5. m * z \in Int
  BY <1>1, <1>2, IntProduct
<1>6. CASE r < N
  <2>1. r \in Coef /\ 1 \in Int
    BY <1>1, <1>2, <1>6
  <2>2. \A k \in Coef : RootMonomial(e)[k] = IF k = r THEN 1 ELSE 0
    BY <1>3, <1>6
  <2>3. e = 2 * N * z + r
    BY <1>2, <1>4
  <2> QED
    BY <1>2, <2>1, <2>2, <2>3
<1>7. CASE ~(r < N)
  <2> DEFINE s == r - N
             u == q - 1
  <2>1. s \in Coef /\ u \in Int
    BY <1>1, <1>2, <1>7
  <2>2. \A k \in Coef : RootMonomial(e)[k] = IF k = s THEN u ELSE 0
    BY <1>3, <1>7
  <2>3. e = m * z + s + N
    BY <1>1, <1>2, <1>5
  <2>4. u = 2 ^ TorusBits - 1
    BY DEF q
  <2> HIDE DEF s, u
  <2>5. e = 2 * N * z + s + N
    BY <1>4, <2>3
  <2> QED
    BY <1>2, <2>1, <2>2, <2>4, <2>5
<1> QED
  BY <1>6, <1>7

\* The product with the root of an exponent turns a polynomial by it.
LEMMA RootTimes ==
  ASSUME NEW e \in Int, NEW a, Ints(a), NEW i \in Coef
  PROVE  /\ Torus!Times(RootMonomial(e), a)[i] \in Int
         /\ Congruent(Torus!Times(RootMonomial(e), a)[i], Turn(a, i - e), 2 ^ TorusBits)
<1> DEFINE q == 2 ^ TorusBits
           root == RootMonomial(e)
           f == [k \in Coef |-> root[k] * Torus!At(a, i - k)]
<1>1. N \in Nat \ {0} /\ q \in Nat \ {0} /\ q \in Int /\ Coef = 0 .. N - 1 /\ i \in Int
      /\ Torus!Coef = Coef
  BY DegreeIs, TorusIs DEF Coef, Torus!Coef
<1>2. PICK z \in Int, s \in Coef, u \in Int :
        /\ \A k \in Coef : root[k] = IF k = s THEN u ELSE 0
        /\ \/ u = 1 /\ e = 2 * N * z + s
           \/ u = q - 1 /\ e = 2 * N * z + s + N
  BY RootIs
<1> DEFINE x == i - s
           y == Torus!At(a, x)
           v == u * y
<1>3. x \in Int /\ s \in Int
  BY <1>1
<1>4. Torus!Times(root, a)[i] = Sum(f, N) % q
  <2>1. Torus!Times(root, a)[i] = Torus!SumUpTo(f, N) % q
    BY <1>1 DEF Torus!Times
  <2> HIDE DEF f
  <2> QED
    BY <1>1, <2>1, TorusSumIs
<1>5. \A k \in Coef : f[k] = root[k] * Torus!At(a, i - k)
  OBVIOUS
<1>6. f[s] = v
  BY <1>2
<1> HIDE DEF q, root, f, x
<1>7. y \in Int /\ Congruent(y, Turn(a, x), q) /\ Turn(a, x) \in Int
  BY <1>3, TorusAt, TurnIs DEF q
<1> HIDE DEF y
<1>8. v \in Int
  BY <1>2, <1>7, IntProduct
<1>9. \A k \in 0 .. N - 1 : f[k] = IF k = s THEN v ELSE 0
  <2> SUFFICES ASSUME NEW k \in 0 .. N - 1
               PROVE  f[k] = IF k = s THEN v ELSE 0
    OBVIOUS
  <2>1. CASE k = s
    BY <1>6, <2>1
  <2>2. CASE k # s
    <3> DEFINE w == Torus!At(a, i - k)
    <3>1. k \in Coef /\ i - k \in Int
      BY <1>1
    <3>2. w \in Int
      BY <3>1, TorusAt
    <3>3. f[k] = root[k] * w /\ root[k] = 0
      BY <1>2, <1>5, <2>2, <3>1
    <3> HIDE DEF w
    <3>4. 0 * w = 0
      BY <3>2
    <3> QED
      BY <2>2, <3>3, <3>4
  <2> QED
    BY <2>1, <2>2
<1> HIDE DEF v
<1>10. Sum(f, N) = v
  BY <1>1, <1>3, <1>8, <1>9, SumOfOne
<1>11. Congruent(v % q, v, q) /\ (v % q) \in Int
  BY <1>1, <1>8, CongruentRest
<1> DEFINE w == Turn(a, i - e)
<1>12. i - e \in Int /\ w \in Int
  BY <1>1, TurnIs
<1>13. Congruent(v, w, q)
  <2>1. CASE u = 1 /\ e = 2 * N * z + s
    <3> DEFINE d == i - e
               p == 2 * N * z
    <3>1. p \in Int
      <4>1. 2 * N \in Int
        BY <1>1
      <4> QED
        BY <4>1, IntProduct
    <3>2. x = d + p
      <4> HIDE DEF p
      <4> QED
        BY <1>1, <1>3, <2>1, <3>1 DEF x, p
    <3>3. Turn(a, d + 2 * N * z) = Turn(a, d)
      BY <1>12, TurnPeriod
    <3>4. Turn(a, x) = w
      BY <3>2, <3>3
    <3>5. v = y
      BY <1>7, <2>1 DEF v
    <3> QED
      BY <1>7, <3>4, <3>5
  <2>2. CASE u = q - 1 /\ e = 2 * N * z + s + N
    <3> DEFINE d == i - e
               p == 2 * N * z
               b == d + p
    <3>1. p \in Int
      <4>1. 2 * N \in Int
        BY <1>1
      <4> QED
        BY <4>1, IntProduct
    <3>2. x = b + N /\ b \in Int
      <4> HIDE DEF p
      <4> QED
        BY <1>1, <1>3, <2>2, <3>1 DEF x, p
    <3>3. Turn(a, b) = w
      BY <1>12, TurnPeriod
    <3> HIDE DEF b
    <3>4. Turn(a, x) = -w
      BY <3>2, <3>3, TurnHalf
    <3>5. Congruent(v, -y, q)
      <4>1. v = -y + q * y
        BY <1>1, <1>7, <2>2 DEF v
      <4> QED
        BY <1>7, <4>1 DEF Congruent
    <3>6. Congruent(-y, w, q)
      <4> HIDE DEF w
      <4>1. -w \in Int /\ -(-w) = w
        BY <1>12
      <4>2. Congruent(-y, -(-w), q)
        BY <1>1, <1>7, <3>4, <4>1, CongruentMinus
      <4> QED
        BY <4>1, <4>2
    <3> HIDE DEF w
    <3>7. -y \in Int
      BY <1>7
    <3> QED
      BY <1>1, <1>8, <1>12, <3>5, <3>6, <3>7, CongruentTrans
  <2> QED
    BY <1>2, <2>1, <2>2
<1> HIDE DEF w
<1>14. Congruent(v % q, w, q)
  BY <1>1, <1>8, <1>11, <1>12, <1>13, CongruentTrans
<1> QED
  BY <1>4, <1>10, <1>11, <1>14 DEF q, root, w


\* The panels from n on, as Horner has summed them up before it takes panel n - 1
Remaining(bc, c, m, n, x) ==
  [j \in 0 .. t - n - 1 |-> Turn(Picked(bc, c, n + j), x - Turns(Levels) * (m * j))]

HornerIs(r, bc, c, m, n) ==
  /\ r \in IntPolys
  /\ \A x \in Int : Congruent(Turn(r, x), Unit * Sum(Remaining(bc, c, m, n, x), t - n), 2 ^ TorusBits)

\* The answer of a panel, on the torus
PanelIs(b, bc, c, k) ==
  /\ b \in IntPolys
  /\ \A row \in Coef : Congruent(b[row], Picked(bc, c, k)[row] * Unit, 2 ^ TorusBits)

\* A shape, in numbers
LEMMA TurnsIs ==
  ASSUME call \in Calls
  PROVE  t \in Nat \ {0} /\ Turns(Levels) \in Nat /\ Turns(Levels) = (2 * N) \div t
<1>1. t \in Nat \ {0} /\ Levels \in Nat /\ Width(Levels) = t
  BY LevelsAre
<1>2. Levels \in 0 .. Levels
  BY <1>1
<1>3. Turns(Levels) \in Nat
  BY <1>2, LevelsAre
<1> QED
  BY <1>1, <1>3 DEF Turns, Width

\* A function is what Horner has summed up.
IsRemaining(f, bc, c, m, n, x) ==
  \A j \in 0 .. t - n - 1 :
    /\ x - Turns(Levels) * (m * j) \in Int
    /\ f[j] = Turn(Picked(bc, c, n + j), x - Turns(Levels) * (m * j)) /\ f[j] \in Int

\* What Horner has summed up is an integer.
LEMMA RemainingIs ==
  ASSUME call \in Calls, NEW bc \in Nat, NEW c \in Coef, NEW m \in Nat, NEW n \in 0 .. t - 1,
         NEW x \in Int
  PROVE  /\ t - n \in Nat \ {0}
         /\ IsRemaining(Remaining(bc, c, m, n, x), bc, c, m, n, x)
         /\ Sum(Remaining(bc, c, m, n, x), t - n) \in Int
<1> DEFINE f == Remaining(bc, c, m, n, x)
           r == Turns(Levels)
<1>1. t - n \in Nat \ {0} /\ r \in Nat /\ n \in Nat
  BY TurnsIs
<1>2. \A j \in 0 .. t - n - 1 : f[j] = Turn(Picked(bc, c, n + j), x - r * (m * j))
  BY DEF Remaining
<1> HIDE DEF f, r
<1>3. ASSUME NEW j \in 0 .. t - n - 1
      PROVE  x - r * (m * j) \in Int /\ f[j] \in Int
  <2> DEFINE d == x - r * (m * j)
  <2>1. n + j \in 0 .. t - 1 /\ j \in Int /\ m \in Int
    BY <1>1, TurnsIs
  <2>2. d \in Int
    <3>1. m * j \in Int
      BY <2>1, IntProduct
    <3>2. r * (m * j) \in Int
      BY <1>1, <3>1, IntProduct
    <3> QED
      BY <3>2
  <2> HIDE DEF d
  <2>3. Turn(Picked(bc, c, n + j), d) \in Int
    BY <2>1, <2>2, PickedIs
  <2> QED
    BY <1>2, <2>2, <2>3 DEF d
<1>4. Sum(f, t - n) \in Int
  <2> DEFINE l == t - n
  <2>1. l \in Nat /\ \A j \in 0 .. l - 1 : f[j] \in Int
    BY <1>1, <1>3
  <2> HIDE DEF l
  <2>2. Sum(f, l) \in Int
    BY <2>1, SumIsInt
  <2> QED
    BY <2>2 DEF l
<1>5. IsRemaining(f, bc, c, m, n, x)
  BY <1>2, <1>3 DEF IsRemaining, r
<1> QED
  BY <1>1, <1>4, <1>5 DEF f

\* A panel's answer is the panel's column on the torus, turned by any monomial.
LEMMA PanelTurns ==
  ASSUME call \in Calls, NEW bc \in Nat, NEW c \in Coef, NEW k \in 0 .. t - 1,
         NEW b, PanelIs(b, bc, c, k), NEW x \in Int
  PROVE  /\ Ints(b) /\ Turn(b, x) \in Int /\ Turn(Picked(bc, c, k), x) \in Int
         /\ Congruent(Turn(b, x), Unit * Turn(Picked(bc, c, k), x), 2 ^ TorusBits)
<1> DEFINE p == Picked(bc, c, k)
           q == 2 ^ TorusBits
           u == Unit
<1>1. Ints(p) /\ Turn(p, x) \in Int /\ u \in Int /\ q \in Nat \ {0}
  BY PickedIs, UnitIs, TorusIs
<1>2. Ints(b) /\ \A i \in Coef : Congruent(b[i], p[i] * u, q)
  BY DEF PanelIs, IntPolys, Ints
<1> HIDE DEF p, q, u
<1>3. \A i \in Coef : Congruent(b[i], u * p[i], q)
  <2>1. \A i \in Coef : p[i] * u = u * p[i]
    BY <1>1, IntProduct DEF Ints
  <2> QED
    BY <1>2, <2>1
<1>4. Congruent(Turn(b, x), u * Turn(p, x), q)
  BY <1>1, <1>2, <1>3, TurnScales
<1>5. Turn(b, x) \in Int
  BY <1>2, TurnIs
<1> QED
  BY <1>1, <1>2, <1>4, <1>5 DEF p, q, u

\* Horner starts with the highest panel.
LEMMA HornerStarts ==
  ASSUME call \in Calls, NEW bc \in Nat, NEW c \in Coef, NEW m \in Nat,
         NEW b, PanelIs(b, bc, c, t - 1)
  PROVE  HornerIs(b, bc, c, m, t - 1)
<1>1. t \in Nat \ {0} /\ t - 1 \in 0 .. t - 1 /\ t - (t - 1) = 1
  BY TurnsIs
<1>2. ASSUME NEW x \in Int
      PROVE  Sum(Remaining(bc, c, m, t - 1, x), t - (t - 1)) = Turn(Picked(bc, c, t - 1), x)
  <2> DEFINE n == t - 1
             f == Remaining(bc, c, m, n, x)
             r == Turns(Levels)
             p == Picked(bc, c, n)
  <2>1. 0 \in 0 .. t - n - 1 /\ n + 0 = n /\ n \in 0 .. t - 1
    BY <1>1
  <2>2. f[0] = Turn(Picked(bc, c, n + 0), x - r * (m * 0)) /\ f[0] \in Int
    <3>1. \A j \in 0 .. t - n - 1 :
            f[j] = Turn(Picked(bc, c, n + j), x - r * (m * j)) /\ f[j] \in Int
      <4>1. n \in 0 .. t - 1
        BY <2>1
      <4> HIDE DEF n, r
      <4>2. IsRemaining(f, bc, c, m, n, x)
        BY <4>1, RemainingIs
      <4> HIDE DEF f
      <4> QED
        BY <4>2 DEF r, IsRemaining
    <3> HIDE DEF r, n, f
    <3> QED
      BY <2>1, <3>1
  <2>3. x - r * (m * 0) = x
    <3>1. m * 0 = 0 /\ r \in Int
      BY TurnsIs
    <3> HIDE DEF r
    <3>2. r * 0 = 0
      BY <3>1
    <3> QED
      BY <3>1, <3>2
  <2>4. f[0] = Turn(p, x)
    BY <2>1, <2>2, <2>3
  <2> HIDE DEF f, p
  <2>5. Sum(f, 0) = 0 /\ Sum(f, 0 + 1) = Sum(f, 0) + f[0]
    BY SumNext
  <2>6. Sum(f, 1) = f[0]
    BY <2>2, <2>5
  <2> QED
    BY <1>1, <2>4, <2>6 DEF f, p
<1>3. ASSUME NEW x \in Int
      PROVE  Congruent(Turn(b, x), Unit * Sum(Remaining(bc, c, m, t - 1, x), t - (t - 1)), 2 ^ TorusBits)
  <2> DEFINE n == t - 1
  <2>1. n \in 0 .. t - 1 /\ PanelIs(b, bc, c, n)
    BY <1>1
  <2> HIDE DEF n
  <2>2. Congruent(Turn(b, x), Unit * Turn(Picked(bc, c, n), x), 2 ^ TorusBits)
    BY <2>1, PanelTurns
  <2> QED
    BY <1>2, <2>2 DEF n
<1> QED
  BY <1>3 DEF HornerIs, PanelIs

\* The root of a block row, as far as it turns.
LEMMA RootExponentIs ==
  ASSUME call \in Calls, NEW m \in Nat
  PROVE  RootExponent(m) = Turns(Levels) * m /\ RootExponent(m) \in Int
<1>1. RootExponent(m) = m * Turns(Levels) /\ Turns(Levels) \in Int /\ m \in Int
  BY TurnsIs DEF RootExponent
<1> QED
  BY <1>1, IntProduct

\* One more panel is one more term of the sum, the others turned by the root once more.
LEMMA RemainingNext ==
  ASSUME call \in Calls, NEW bc \in Nat, NEW c \in Coef, NEW m \in Nat,
         NEW n \in 1 .. t - 1, NEW x \in Int
  PROVE  Sum(Remaining(bc, c, m, n - 1, x), t - (n - 1)) =
           Turn(Picked(bc, c, n - 1), x)
             + Sum(Remaining(bc, c, m, n, x - RootExponent(m)), t - n)
<1> DEFINE r == Turns(Levels)
           o == n - 1
           e == RootExponent(m)
           y == x - e
           f == Remaining(bc, c, m, o, x)
           g == Remaining(bc, c, m, n, y)
           l == t - n
<1>1. /\ t \in Nat \ {0} /\ o \in 0 .. t - 1 /\ n \in 0 .. t - 1 /\ t - o = 1 + l /\ l \in Nat
      /\ r \in Int /\ e = r * m /\ e \in Int /\ y \in Int /\ o + 1 = n /\ m \in Int
  BY TurnsIs, RootExponentIs
<1>2. /\ \A j \in 0 .. t - o - 1 :
           /\ f[j] = Turn(Picked(bc, c, o + j), x - r * (m * j)) /\ f[j] \in Int
      /\ \A j \in 0 .. l - 1 : g[j] = Turn(Picked(bc, c, n + j), y - r * (m * j))
  <2> HIDE DEF o, y, r
  <2>1. IsRemaining(f, bc, c, m, o, x)
    BY <1>1, RemainingIs
  <2>2. IsRemaining(g, bc, c, m, n, y)
    BY <1>1, RemainingIs
  <2> HIDE DEF f, g
  <2> QED
    BY <2>1, <2>2 DEF r, IsRemaining
<1> HIDE DEF r, o, e, y, f, g, l
<1>3. \A j \in 0 .. 1 + l - 1 : f[j] \in Int
  BY <1>1, <1>2
<1>4. ASSUME NEW j \in 0 .. l - 1
      PROVE  g[j] = f[1 + j]
  <2> DEFINE i == 1 + j
             d == x - r * (m * i)
  <2>1. i \in 0 .. t - o - 1 /\ o + i = n + j /\ j \in Int /\ i = 1 + j
    BY <1>1
  <2>2. d = y - r * (m * j)
    <3> DEFINE p == m * j
               s == r * p
    <3>1. p \in Int /\ s \in Int
      <4>1. p \in Int
        BY <1>1, <2>1, IntProduct
      <4> HIDE DEF p
      <4> QED
        BY <1>1, <4>1, IntProduct
    <3>2. m * i = m + p
      BY <1>1, <2>1, SMT
    <3> HIDE DEF p, i
    <3>3. r * (m + p) = r * m + s
      BY <1>1, <3>1, SMT
    <3> HIDE DEF s
    <3>4. d = x - (e + s)
      BY <1>1, <3>2, <3>3
    <3> HIDE DEF d
    <3>5. d = y - s
      BY <1>1, <3>1, <3>4 DEF y
    <3> QED
      BY <3>5 DEF s, p
  <2>3. f[i] = Turn(Picked(bc, c, o + i), d)
    BY <1>2, <2>1
  <2>4. g[j] = Turn(Picked(bc, c, n + j), y - r * (m * j))
    BY <1>2
  <2> HIDE DEF d
  <2>5. f[i] = Turn(Picked(bc, c, n + j), y - r * (m * j))
    BY <2>1, <2>2, <2>3
  <2> QED
    BY <2>1, <2>4, <2>5
<1>5. Sum(f, 1 + l) = Sum(f, 1) + Sum(g, l)
  <2>1. 1 \in Nat /\ \A j \in 0 .. l - 1 : g[j] = f[1 + j]
    BY <1>4
  <2> QED
    BY <1>1, <1>3, <2>1, SumInTwo
<1>6. f[0] = Turn(Picked(bc, c, o), x) /\ f[0] \in Int
  <2>1. 0 \in 0 .. t - o - 1 /\ o + 0 = o
    BY <1>1
  <2>2. x - r * (m * 0) = x
    <3>1. m * 0 = 0 /\ r * 0 = 0
      BY <1>1
    <3> QED
      BY <3>1
  <2>3. f[0] = Turn(Picked(bc, c, o + 0), x - r * (m * 0)) /\ f[0] \in Int
    BY <1>2, <2>1
  <2> QED
    BY <2>1, <2>2, <2>3
<1>7. Sum(f, 1) = f[0]
  <2>1. Sum(f, 0) = 0 /\ Sum(f, 0 + 1) = Sum(f, 0) + f[0]
    BY SumNext
  <2> QED
    BY <1>6, <2>1
<1>8. Sum(f, t - o) = Turn(Picked(bc, c, o), x) + Sum(g, l)
  BY <1>1, <1>5, <1>6, <1>7
<1> QED
  BY <1>8 DEF f, g, o, l, y, e


\* A step of Horner takes the next panel.
LEMMA HornerGoes ==
  ASSUME call \in Calls, NEW bc \in Nat, NEW c \in Coef, NEW m \in Nat, NEW n \in 1 .. t - 1,
         NEW r, HornerIs(r, bc, c, m, n), NEW b, PanelIs(b, bc, c, n - 1),
         NEW root, root.plain = RootMonomial(RootExponent(m))
  PROVE  HornerIs(HornerStep(r, root, b), bc, c, m, n - 1)
<1> DEFINE q == 2 ^ TorusBits
           e == RootExponent(m)
           mono == RootMonomial(e)
           product == Torus!Times(mono, r)
           s == HornerStep(r, root, b)
           o == n - 1
           u == Unit
<1>1. /\ e \in Int /\ q \in Nat \ {0} /\ q \in Int /\ u \in Int /\ o \in 0 .. t - 1
      /\ n \in 0 .. t - 1
  BY RootExponentIs, TorusIs, UnitIs, TurnsIs
<1>2. r \in IntPolys /\ b \in IntPolys /\ Ints(r) /\ Ints(b)
  BY DEF HornerIs, PanelIs, IntPolys, Ints
<1>3. s = [i \in Coef |-> (product[i] + b[i]) % q]
  <2>1. Nonsense \notin {r, b}
    BY <1>2, NonsenseAssumption DEF IntPolys
  <2>2. s = Torus!Plus(Torus!Times(mono, r), b)
    BY <2>1 DEF HornerStep
  <2>3. Torus!Coef = Coef
    BY DEF Torus!Coef, Coef
  <2> QED
    BY <2>2, <2>3 DEF Torus!Plus
<1>4. \A i \in Coef : product[i] \in Int /\ Congruent(product[i], Turn(r, i - e), q)
  BY <1>1, <1>2, RootTimes
<1> HIDE DEF q, e, mono, product, s, o, u
<1>5. ASSUME NEW i \in Coef
      PROVE  s[i] \in Int /\ Congruent(s[i], b[i] + 1 * Turn(r, i + (-e)), q)
  <2> DEFINE x == product[i]
             y == b[i]
             w == Turn(r, i - e)
  <2>1. i - e \in Int /\ i \in Int
    BY <1>1, DegreeIs
  <2>2. x \in Int /\ y \in Int /\ w \in Int /\ Congruent(x, w, q)
    BY <1>2, <1>4, <2>1, TurnIs DEF Ints
  <2>3. s[i] = (x + y) % q
    BY <1>3
  <2>4. i + (-e) = i - e
    BY <1>1, <2>1
  <2> HIDE DEF x, y, w
  <2>5. x + y \in Int /\ w + y \in Int /\ w + y = y + 1 * w
    BY <2>2
  <2>6. Congruent(x + y, w + y, q)
    BY <1>1, <2>2, CongruentSame, CongruentSum
  <2> DEFINE v == x + y
             a == w + y
  <2>7. v \in Int /\ a \in Int /\ Congruent(v, a, q) /\ s[i] = v % q /\ a = y + 1 * w
    BY <2>3, <2>5, <2>6
  <2> HIDE DEF v, a
  <2>8. Congruent(v % q, v, q) /\ (v % q) \in Int
    BY <1>1, <2>7, CongruentRest
  <2>9. Congruent(v % q, a, q)
    BY <1>1, <2>7, <2>8, CongruentTrans
  <2> QED
    BY <2>4, <2>7, <2>8, <2>9 DEF w, y
<1>6. s \in IntPolys /\ Ints(s) /\ Mixes(s, b, r, -e, 1, q)
  <2>1. s = [i \in Coef |-> s[i]]
    BY <1>3
  <2> QED
    BY <1>5, <2>1 DEF IntPolys, Ints, Mixes
<1>7. ASSUME NEW x \in Int
      PROVE  Congruent(Turn(s, x), u * Sum(Remaining(bc, c, m, o, x), t - o), q)
  <2> DEFINE d == x - e
             f == Sum(Remaining(bc, c, m, n, d), t - n)
             p == Turn(Picked(bc, c, o), x)
             y == Turn(b, x)
             w == Turn(r, d)
             k == Turn(s, x)
  <2>1. d \in Int /\ d = x + (-e)
    BY <1>1
  <2>2. Congruent(k, y + 1 * w, q)
    <3>1. -e \in Int /\ 1 \in {-1, 1}
      BY <1>1
    <3>2. Congruent(Turn(s, x), Turn(b, x) + 1 * Turn(r, x + (-e)), q)
      BY <1>1, <1>2, <1>6, <3>1, TurnMixes
    <3> QED
      BY <2>1, <3>2
  <2>3. k \in Int /\ w \in Int
    BY <1>2, <1>6, <2>1, TurnIs
  <2>4. y \in Int /\ p \in Int /\ Congruent(y, u * p, q)
    <3>1. PanelIs(b, bc, c, o)
      BY DEF o
    <3>2. /\ Ints(b) /\ Turn(b, x) \in Int /\ Turn(Picked(bc, c, o), x) \in Int
          /\ Congruent(Turn(b, x), Unit * Turn(Picked(bc, c, o), x), 2 ^ TorusBits)
      BY <1>1, <3>1, PanelTurns
    <3> QED
      BY <3>2 DEF u, q
  <2>5. Congruent(w, u * f, q)
    <3> HIDE DEF d
    <3> QED
      BY <2>1 DEF HornerIs, u, q
  <2>6. f \in Int
    <3> HIDE DEF d
    <3> QED
      BY <1>1, <2>1, RemainingIs
  <2>7. Sum(Remaining(bc, c, m, o, x), t - o) = p + f
    BY RemainingNext DEF o, e
  <2> HIDE DEF f, p, y, w, k, d
  <2>8. u * p \in Int /\ u * f \in Int /\ u * (p + f) = u * p + u * f
    <3>1. u * p \in Int /\ u * f \in Int
      BY <1>1, <2>4, <2>6, IntProduct
    <3>2. u * (p + f) = u * p + u * f
      BY <1>1, <2>4, <2>6, SMT
    <3> QED
      BY <3>1, <3>2
  <2> DEFINE up == u * p
             uf == u * f
  <2>9. /\ up \in Int /\ uf \in Int /\ Congruent(y, up, q) /\ Congruent(w, uf, q)
        /\ u * (p + f) = up + uf
    BY <2>4, <2>5, <2>8
  <2> HIDE DEF up, uf
  <2>10. Congruent(y + w, up + uf, q)
    BY <1>1, <2>3, <2>4, <2>9, CongruentSum
  <2>11. y + 1 * w = y + w /\ y + w \in Int /\ up + uf \in Int
    BY <2>3, <2>4, <2>9
  <2> DEFINE g == y + w
             h == up + uf
  <2>12. Congruent(k, g, q) /\ Congruent(g, h, q) /\ g \in Int /\ h \in Int
    BY <2>2, <2>10, <2>11
  <2> HIDE DEF g, h
  <2>13. Congruent(k, h, q)
    BY <1>1, <2>3, <2>12, CongruentTrans
  <2> QED
    BY <2>7, <2>9, <2>13 DEF h, k
<1>8. HornerIs(s, bc, c, m, o)
  BY <1>6, <1>7 DEF HornerIs, u, q
<1> QED
  BY <1>8 DEF s, o


-----------------------------------------------------------------------------
(* Decoding *)

\* A stored digit comes back from the column it was put in.
LEMMA StoredBack ==
  ASSUME call \in Calls, NEW m \in 0 .. nb - 1, NEW bc \in Nat, NEW c \in Coef, NEW i \in Coef,
         NEW d \in 0 .. OddBase - 1, Stored(call, m, bc, i, c) = CentredDigit(d),
         NEW s \in Int, Congruent(s, OriginalColumn(bc, c)[m][i], OddBase)
  PROVE  CentredMod(s, OddBase) = CentredDigit(d)
<1> DEFINE x == CentredDigit(d)
           v == OriginalColumn(bc, c)[m][i]
<1>1. x \in Int /\ CentredMod(x, OddBase) = x
  BY CentredDigits
<1>2. v = x % OddBase
  <2>1. m \in 0 .. t - 1 /\ m < nb
    BY LevelsAre
  <2>2. OriginalColumn(bc, c)[m] = [row \in Coef |-> Stored(call, m, bc, row, c) % OddBase]
    BY <2>1 DEF OriginalColumn
  <2> QED
    BY <2>2
<1>3. OddBase \in Nat \ {0} /\ OddBase \in Int
  BY BasesAre
<1> HIDE DEF x, v
<1>4. Congruent(x % OddBase, x, OddBase) /\ (x % OddBase) \in Int
  BY <1>1, <1>3, CongruentRest
<1>5. Congruent(s, x, OddBase)
  <2>1. v \in Int /\ Congruent(s, v, OddBase) /\ Congruent(v, x, OddBase)
    BY <1>2, <1>4 DEF v
  <2> QED
    BY <1>1, <1>3, <2>1, CongruentTrans
<1>6. CentredMod(s, OddBase) = CentredMod(x, OddBase)
  BY <1>1, <1>5, CentredSame
<1> QED
  BY <1>1, <1>6 DEF x

\* When Horner has taken all panels, every coefficient of the block row decodes to the digit
\* the database holds.
LEMMA CoefficientDecodes ==
  ASSUME call \in Calls, NEW m \in 0 .. nb - 1, NEW bc \in Nat, NEW c \in Coef,
         NEW r, HornerIs(r, bc, c, m, 0), NEW i \in Coef,
         NEW d \in 0 .. OddBase - 1, Stored(call, m, bc, i, c) = CentredDigit(d)
  PROVE  AsWord(DecodeCoeff(r[i], OddBase, TorusBits)) = CentredDigit(d)
<1> DEFINE f == Remaining(bc, c, m, 0, i)
           s == Sum(f, t)
           x == r[i]
           q == 2 ^ TorusBits
<1>1. /\ t \in Nat \ {0} /\ t \in Nat /\ 0 \in 0 .. t - 1 /\ t - 0 = t /\ m \in 0 .. t - 1
      /\ m \in Nat /\ i \in Int
  <2>1. t \in Nat \ {0} /\ nb \in Nat /\ nb <= t
    BY LevelsAre
  <2>2. i \in Int
    BY DegreeIs
  <2> QED
    BY <2>1, <2>2
<1>2. t * (OddBase * OddBase) < 2 * q
  <2>1. Panels(call) * (OddBase * OddBase) < 2 * 2 ^ TorusBits
    BY RoomAssumption
  <2> QED
    BY <2>1 DEF t
<1>3. x \in Int /\ Congruent(x, Unit * s, q)
  <2>1. x \in Int
    BY DEF HornerIs, IntPolys
  <2>2. Turn(r, i) = x
    BY TurnSmall
  <2>3. Congruent(Turn(r, i), Unit * Sum(Remaining(bc, c, m, 0, i), t - 0), q)
    BY <1>1 DEF HornerIs
  <2> QED
    BY <1>1, <2>1, <2>2, <2>3
<1>4. \A k \in 0 .. t - 1 : f[k] = Shifted(bc, c, m, i, k)
  <2>1. IsRemaining(f, bc, c, m, 0, i)
    BY <1>1, RemainingIs
  <2> HIDE DEF f
  <2>2. \A k \in 0 .. t - 1 : 0 + k = k /\ k \in 0 .. t - 0 - 1
    BY <1>1
  <2>3. \A k \in 0 .. t - 1 : f[k] = Turn(Picked(bc, c, 0 + k), i - Turns(Levels) * (m * k))
    BY <2>1, <2>2 DEF IsRemaining
  <2> QED
    BY <2>2, <2>3 DEF Shifted
<1> HIDE DEF f, q
<1>5. /\ s \in Int /\ 2 * s <= t * OddBase /\ -(t * OddBase) <= 2 * s
      /\ Congruent(s, OriginalColumn(bc, c)[m][i], OddBase)
  BY <1>1, <1>4, ColumnsSum
<1> HIDE DEF s, x
<1>6. DecodeCoeff(x, OddBase, TorusBits) = CentredMod(s, OddBase)
  BY <1>1, <1>2, <1>3, <1>5, TorusDigit DEF q
<1>7. CentredMod(s, OddBase) = CentredDigit(d)
  BY <1>5, StoredBack
<1>8. AsWord(CentredDigit(d)) = CentredDigit(d)
  BY CentredDigits
<1> QED
  BY <1>6, <1>7, <1>8 DEF x

\* A payload decodes from the response Horner ends with.
LEMMA ResponseDecodes ==
  ASSUME call \in Calls, NEW i \in Nat, i < Capacity(call), NEW a,
         a = AddressFor(Layout(call), N, i),
         NEW r, HornerIs(r, a.column \div N, a.column % N, a.matrix, 0)
  PROVE  Decoded(r, a) = PayloadOf(call, i)
<1> DEFINE v == PayloadOf(call, i)
           digits == [k \in 0 .. OddExponent - 1 |->
                        AsWord(DecodeCoeff(r[a.offset + k], OddBase, TorusBits))]
<1>1. r # Nonsense
  BY NonsenseAssumption DEF HornerIs, IntPolys
<1>2. Decoded(r, a) = DecodeOdd(digits)
  <2>1. ReadInterpolationResponse(WriteInterpolationResponse(r)).selected = r
    BY ResponseRead
  <2> QED
    BY <1>1, <2>1 DEF Decoded
<1>3. v \in 0 .. Word ^ Words - 1 /\ v \in Nat
  BY PayloadIs
<1>4. 0 .. OddExponent - 1 = 0 .. Words
  BY CodecAssumption DEF OddExponent
<1>5. ASSUME NEW k \in 0 .. Words
      PROVE  digits[k] = EncodeOdd(v)[k]
  <2> DEFINE d == (v \div OddBase ^ k) % OddBase
             o == a.offset + k
             bc == a.column \div N
             c == a.column % N
             m == a.matrix
  <2>1. d \in 0 .. OddBase - 1 /\ EncodeOdd(v)[k] = CentredDigit(d)
    <3> HIDE DEF v
    <3> QED
      BY <1>3, OddDigit
  <2>2. /\ o \in Coef /\ bc \in 0 .. BlockCols(call) - 1 /\ c \in Coef
        /\ Stored(call, m, bc, o, c) = EncodeOdd(v)[k]
    BY AddressHolds
  <2>3. m \in 0 .. nb - 1
    <3>1. m \in 0 .. call.blockRows - 1
      BY AddressIs
    <3> QED
      BY <3>1 DEF nb, BlockRows
  <2>4. bc \in Nat
    <3>1. kb \in Nat
      BY BlocksAre
    <3> HIDE DEF bc
    <3> QED
      BY <2>2, <3>1 DEF kb
  <2>5. digits[k] = AsWord(DecodeCoeff(r[o], OddBase, TorusBits))
    BY <1>4
  <2>6. HornerIs(r, bc, c, m, 0)
    OBVIOUS
  <2> HIDE DEF d, o, bc, c, m
  <2>7. AsWord(DecodeCoeff(r[o], OddBase, TorusBits)) = CentredDigit(d)
    BY <2>1, <2>2, <2>3, <2>4, <2>6, CoefficientDecodes
  <2> QED
    BY <2>1, <2>5, <2>7
<1> HIDE DEF v, digits
<1>6. DecodeOdd(digits) = v
  BY <1>3, <1>5, DecodedIs
<1> QED
  BY <1>2, <1>6 DEF v

-----------------------------------------------------------------------------
(* The invariant of a run *)

Parts == Clamp(call.threads, 1, t)

\* Of every worker's slots, as many hold what belongs there as it has finished panels.
Filled(slots, want, d) ==
  /\ d = [w \in 0 .. Parts - 1 |-> d[w]]
  /\ slots = [k \in 0 .. t - 1 |-> slots[k]]
  /\ \A w \in 0 .. Parts - 1 :
       /\ d[w] \in 0 .. PartLen(t, Parts, w)
       /\ \A k \in PartStart(t, Parts, w) .. PartStart(t, Parts, w) + d[w] - 1 : slots[k] = want[k]

AllPrecomputed == [k \in 0 .. t - 1 |-> Precomputation(k)]
AllPacked == [k \in 0 .. t - 1 |-> PackedBatch(k)]

IsPrepared == \A k \in 0 .. t - 1, bc \in 0 .. kb - 1 : prepared[k][bc] = Interpolated(bc, k)

AreAsked ==
  \A q \in DOMAIN queries : \E i \in Nat : i < Capacity(call) /\ queries[q] = Asked(q, i)

\* Every response is what Horner makes of the panels down to the next one.
AreReduced ==
  /\ next \in 0 .. t - 1
  /\ \A q \in DOMAIN queries :
       LET a == queries[q].address
       IN HornerIs(responses[q], a.column \div N, a.column % N, a.matrix, next)

Beginning == {"interpolate", "inPlace", "prepare"}
Answering == {"answer", "reduce", "horner", "answered"}

RunInv ==
  /\ IInv
  /\ stage \in Beginning \cup {"precompute", "ready"} \cup Answering
  /\ stage \notin Beginning => IsPrepared
  /\ stage = "precompute" => Filled(precomputed, AllPrecomputed, done)
  /\ stage \in {"ready"} \cup Answering => precomputed = AllPrecomputed
  /\ stage \in Answering => AreAsked
  /\ stage = "answer" => Filled(packed, AllPacked, done)
  /\ stage \in {"reduce", "horner", "answered"} => packed = AllPacked
  /\ stage \in {"horner", "answered"} => AreReduced
  /\ stage = "answered" => next = 0

\* There is a worker, and every worker has a run of the panels.
LEMMA WorkersAre ==
  ASSUME call \in Calls
  PROVE  /\ t \in Nat \ {0} /\ t \in Nat /\ Parts \in Nat \ {0} /\ DOMAIN Groups = 0 .. Parts - 1
         /\ \A w \in 0 .. Parts - 1 :
              /\ Groups[w] = PartStart(t, Parts, w) .. PartStart(t, Parts, w) + PartLen(t, Parts, w) - 1
              /\ PartStart(t, Parts, w) \in Nat /\ PartLen(t, Parts, w) \in Nat
              /\ PartStart(t, Parts, w) + PartLen(t, Parts, w) <= t
<1>1. t \in Nat \ {0} /\ call.threads \in Nat
  BY LevelsAre, CallShape
<1>2. Parts \in Nat \ {0}
  BY <1>1 DEF Parts, Clamp, Least, Most
<1>3. DOMAIN Groups = 0 .. Parts - 1 /\ \A w \in 0 .. Parts - 1 : Groups[w] = Part(t, Parts, w)
  BY <1>1, <1>2 DEF Groups, AssignPanels, PanelWorkers, Parts
<1>4. ASSUME NEW w \in 0 .. Parts - 1
      PROVE  /\ PartStart(t, Parts, w) \in Nat /\ PartLen(t, Parts, w) \in Nat
             /\ PartStart(t, Parts, w) + PartLen(t, Parts, w) <= t
  <2>1. /\ PartStart(t, Parts, w) \in Nat /\ PartLen(t, Parts, w) \in Nat
        /\ PartStart(t, Parts, w + 1) = PartStart(t, Parts, w) + PartLen(t, Parts, w)
    BY <1>1, <1>2, NextPart
  <2>2. PartStart(t, Parts, w + 1) <= PartStart(t, Parts, Parts)
    <3> DEFINE i == w + 1
    <3>1. i \in 0 .. Parts /\ Parts \in 0 .. Parts /\ i <= Parts
      BY <1>2
    <3> HIDE DEF i
    <3>2. PartStart(t, Parts, i) <= PartStart(t, Parts, Parts)
      BY <1>1, <1>2, <3>1, PartsInOrder
    <3> QED
      BY <3>2 DEF i
  <2>3. PartStart(t, Parts, Parts) = t
    BY <1>1, <1>2, PartsEnds
  <2> QED
    BY <2>1, <2>2, <2>3
<1> QED
  BY <1>1, <1>2, <1>3, <1>4 DEF Part

\* A worker's slots start where its panels do.
LEMMA StartIs ==
  ASSUME call \in Calls, NEW w \in 0 .. Parts - 1
  PROVE  Start(Parts, w) = PartStart(t, Parts, w)
<1> DEFINE adds(s) == [i \in 0 .. w |-> IF i = 0 THEN 0 ELSE s[i - 1] + PartLen(t, Parts, i - 1)]
           sums == CHOOSE s : s = adds(s)
           starts == [i \in 0 .. w |-> PartStart(t, Parts, i)]
           f == [i \in 0 .. w |-> PartLen(t, Parts, i)]
<1>1. Start(Parts, w) = sums[w]
  BY DEF Start
<1>2. t \in Nat /\ Parts \in Nat \ {0} /\ w \in Nat /\ w \in 0 .. w
  BY WorkersAre
<1>3. PartStart(t, Parts, 0) = 0
  BY <1>2, PartsEnds
<1>4. \A i \in 0 .. Parts - 1 :
        PartStart(t, Parts, i + 1) = PartStart(t, Parts, i) + PartLen(t, Parts, i)
  BY <1>2, NextPart
<1>5. starts = adds(starts)
  <2>1. ASSUME NEW i \in 0 .. w
        PROVE  PartStart(t, Parts, i) = IF i = 0 THEN 0 ELSE starts[i - 1] + PartLen(t, Parts, i - 1)
    <3>1. CASE i = 0
      BY <1>3, <3>1
    <3>2. CASE i # 0
      <4>1. i - 1 \in 0 .. w /\ i - 1 \in 0 .. Parts - 1 /\ (i - 1) + 1 = i
        BY <1>2, <3>2
      <4>2. starts[i - 1] = PartStart(t, Parts, i - 1)
        BY <4>1
      <4> HIDE DEF starts
      <4> QED
        BY <1>4, <3>2, <4>1, <4>2
    <3> QED
      BY <3>1, <3>2
  <2> QED
    BY <2>1
<1>6. sums = adds(sums)
  <2> HIDE DEF adds, starts
  <2> QED
    BY <1>5
<1>7. AddsUp(sums, f, w) /\ AddsUp(starts, f, w)
  <2>1. \A i \in 0 .. w : i # 0 => i - 1 \in 0 .. w
    BY <1>2
  <2> HIDE DEF starts, sums
  <2> QED
    BY <1>5, <1>6, <2>1 DEF AddsUp
<1>8. starts[w] = PartStart(t, Parts, w)
  BY <1>2
<1> HIDE DEF starts, sums, f
<1>9. sums[w] = Sum(f, w) /\ starts[w] = Sum(f, w)
  BY <1>2, <1>7, SumsAreUnique
<1> QED
  BY <1>1, <1>8, <1>9

\* A worker's next panel goes to the slot of its number.
LEMMA SlotIs ==
  ASSUME call \in Calls, NEW w \in DOMAIN Groups, done[w] \in Nat, Works(w)
  PROVE  LET slot == PartStart(t, Parts, w) + done[w]
         IN NextPanel(w) = slot /\ NextSlot(w) = slot /\ slot \in 0 .. t - 1
<1> DEFINE a == PartStart(t, Parts, w)
           b == a + PartLen(t, Parts, w) - 1
           S == Group(w)
           first == CHOOSE p \in S : \A q \in S : p <= q
<1>1. w \in 0 .. Parts - 1
  BY WorkersAre
<1>2. a \in Nat /\ PartLen(t, Parts, w) \in Nat /\ S = a .. b /\ a + PartLen(t, Parts, w) <= t
      /\ t \in Nat
  BY <1>1, WorkersAre DEF Group
<1>3. done[w] < PartLen(t, Parts, w)
  BY DEF Works, Parts
<1>4. NextPanel(w) = first + done[w]
  BY DEF NextPanel
<1>5. NextSlot(w) = a + done[w]
  <2>1. NextSlot(w) = Start(Parts, w) + done[w]
    BY DEF NextSlot, Parts
  <2> QED
    BY <1>1, <2>1, StartIs
<1>6. first = a
  <2>1. b \in Int /\ a <= b
    BY <1>2, <1>3
  <2> HIDE DEF a, b, S
  <2>2. a \in S /\ \A q \in S : a <= q
    BY <1>2, <2>1
  <2>3. first \in S /\ \A q \in S : first <= q
    BY <2>2
  <2> HIDE DEF first
  <2> QED
    BY <1>2, <2>1, <2>2, <2>3
<1>7. a + done[w] \in 0 .. t - 1
  BY <1>2, <1>3
<1> QED
  BY <1>4, <1>5, <1>6, <1>7

\* At the start no slot has to hold anything.
LEMMA FillStarts ==
  ASSUME call \in Calls, NEW slots, slots = [k \in 0 .. t - 1 |-> slots[k]], NEW want
  PROVE  Filled(slots, want, NoneDone)
<1>1. NoneDone = [w \in 0 .. Parts - 1 |-> 0]
  BY WorkersAre DEF NoneDone
<1>2. ASSUME NEW w \in 0 .. Parts - 1
      PROVE  /\ 0 \in 0 .. PartLen(t, Parts, w)
             /\ PartStart(t, Parts, w) .. PartStart(t, Parts, w) + 0 - 1 = {}
  BY WorkersAre
<1> QED
  BY <1>1, <1>2 DEF Filled

\* The workers' runs do not meet.
LEMMA RunsApart ==
  ASSUME call \in Calls, NEW v \in 0 .. Parts - 1, NEW w \in 0 .. Parts - 1, v # w,
         NEW x \in PartStart(t, Parts, v) .. PartStart(t, Parts, v) + PartLen(t, Parts, v) - 1,
         NEW y \in PartStart(t, Parts, w) .. PartStart(t, Parts, w) + PartLen(t, Parts, w) - 1
  PROVE  x # y
<1>1. t \in Nat /\ Parts \in Nat \ {0}
  BY WorkersAre
<1>2. x \in Part(t, Parts, v) /\ y \in Part(t, Parts, w)
  BY DEF Part
<1>3. v < w \/ w < v
  BY <1>1
<1>4. Part(t, Parts, v) \cap Part(t, Parts, w) = {} \/ Part(t, Parts, w) \cap Part(t, Parts, v) = {}
  BY <1>1, <1>3, PartsApart
<1> QED
  BY <1>2, <1>4

\* One slot filled, and one panel more that its worker has finished
With(slots, slot, x) == [slots EXCEPT ![slot] = x]
OneMore(d, w) == [d EXCEPT ![w] = @ + 1]

\* One more panel fills the next of the worker's slots, and none of the others.
LEMMA FillGoes ==
  ASSUME call \in Calls, NEW slots, NEW want, NEW d, Filled(slots, want, d),
         NEW w \in 0 .. Parts - 1, d[w] < PartLen(t, Parts, w),
         NEW slot, slot = PartStart(t, Parts, w) + d[w]
  PROVE  Filled(With(slots, slot, want[slot]), want, OneMore(d, w))
<1> DEFINE a(v) == PartStart(t, Parts, v)
           l(v) == PartLen(t, Parts, v)
           new == [slots EXCEPT ![slot] = want[slot]]
           e == [d EXCEPT ![w] = @ + 1]
<1>1. /\ t \in Nat /\ Parts \in Nat \ {0}
      /\ \A v \in 0 .. Parts - 1 : a(v) \in Nat /\ l(v) \in Nat /\ a(v) + l(v) <= t
  BY WorkersAre
<1>2. /\ d = [v \in 0 .. Parts - 1 |-> d[v]] /\ slots = [k \in 0 .. t - 1 |-> slots[k]]
      /\ \A v \in 0 .. Parts - 1 :
           d[v] \in 0 .. l(v) /\ \A k \in a(v) .. a(v) + d[v] - 1 : slots[k] = want[k]
  BY DEF Filled
<1>3. slot \in 0 .. t - 1 /\ slot \in a(w) .. a(w) + l(w) - 1 /\ slot = a(w) + d[w]
  BY <1>1, <1>2
<1>4. /\ \A v \in 0 .. Parts - 1 : e[v] = IF v = w THEN d[w] + 1 ELSE d[v]
      /\ \A k \in 0 .. t - 1 : new[k] = IF k = slot THEN want[slot] ELSE slots[k]
      /\ DOMAIN e = 0 .. Parts - 1 /\ DOMAIN new = 0 .. t - 1
  BY <1>2, <1>3
<1>5. e = [v \in 0 .. Parts - 1 |-> e[v]] /\ new = [k \in 0 .. t - 1 |-> new[k]]
  <2>1. e = [v \in DOMAIN e |-> e[v]]
    OBVIOUS
  <2>2. new = [k \in DOMAIN new |-> new[k]]
    OBVIOUS
  <2> QED
    BY <1>4, <2>1, <2>2
<1> HIDE DEF a, l, new, e
<1>6. ASSUME NEW v \in 0 .. Parts - 1
      PROVE  e[v] \in 0 .. l(v) /\ \A k \in a(v) .. a(v) + e[v] - 1 : new[k] = want[k]
  <2>1. a(v) \in Nat /\ l(v) \in Nat /\ a(v) + l(v) <= t /\ d[v] \in 0 .. l(v)
    BY <1>1, <1>2
  <2>2. e[v] \in 0 .. l(v)
    <3>1. CASE v = w
      <4>1. d[w] < l(v)
        BY <3>1 DEF l
      <4>2. e[v] = d[w] + 1 /\ d[w] = d[v]
        BY <1>4, <3>1
      <4> QED
        BY <2>1, <4>1, <4>2
    <3>2. CASE v # w
      <4>1. e[v] = d[v]
        BY <1>4, <3>2
      <4> QED
        BY <2>1, <4>1
    <3> QED
      BY <3>1, <3>2
  <2>3. ASSUME NEW k \in a(v) .. a(v) + e[v] - 1
        PROVE  new[k] = want[k]
    <3>1. k \in 0 .. t - 1 /\ k \in a(v) .. a(v) + l(v) - 1
      BY <1>1, <2>1, <2>2
    <3>2. CASE k = slot
      BY <1>4, <3>1, <3>2
    <3>3. CASE k # slot
      <4>1. k \in a(v) .. a(v) + d[v] - 1
        <5>1. CASE v = w
          BY <1>3, <1>4, <2>1, <3>1, <3>3, <5>1
        <5>2. CASE v # w
          BY <1>4, <5>2
        <5> QED
          BY <5>1, <5>2
      <4>2. slots[k] = want[k]
        BY <1>2, <4>1
      <4> QED
        BY <1>4, <3>1, <3>3, <4>2
    <3> QED
      BY <3>2, <3>3
  <2> QED
    BY <2>2, <2>3
<1> QED
  BY <1>5, <1>6 DEF Filled, a, l, new, e, With, OneMore

\* When all workers have finished, every slot is filled.
LEMMA FillEnds ==
  ASSUME call \in Calls, NEW slots, NEW want, want = [k \in 0 .. t - 1 |-> want[k]],
         NEW d, Filled(slots, want, d), \A w \in 0 .. Parts - 1 : d[w] = PartLen(t, Parts, w)
  PROVE  slots = want
<1>1. t \in Nat /\ Parts \in Nat \ {0}
  BY WorkersAre
<1>2. slots = [k \in 0 .. t - 1 |-> slots[k]]
  BY DEF Filled
<1>3. ASSUME NEW k \in 0 .. t - 1
      PROVE  slots[k] = want[k]
  <2>1. PICK w \in 0 .. Parts - 1 : k \in Part(t, Parts, w)
    BY <1>1, PartsCover
  <2>2. k \in PartStart(t, Parts, w) .. PartStart(t, Parts, w) + d[w] - 1
    BY <2>1 DEF Part
  <2> QED
    BY <2>2 DEF Filled
<1> QED
  BY <1>2, <1>3


\* What a client asks for under its own number selects the column of its payload, and
\* packs with the server's precomputation.
LEMMA AskedIs ==
  ASSUME call \in Calls, NEW who, NEW i \in Nat, i < Capacity(call)
  PROVE  LET a == AddressFor(Layout(call), N, i)
             q == Asked(who, i).query
         IN /\ Asked(who, i).index = i /\ Asked(who, i).address = a
            /\ q.root.plain = RootMonomial(RootExponent(a.matrix))
            /\ Selects(q.blocks, a.column)
            /\ \A bc \in 0 .. kb - 1 : /\ q.blocks[bc].seed = SetupMasks[bc]
                                       /\ q.blocks[bc].secret = q.keyG.secret
            /\ q.keyG.p = GaloisGenerator /\ q.keyG.seed = PackKeyMask
            /\ q.keyH = [q.keyG EXCEPT !.p = -1]
            /\ a.column \in Nat /\ a.column \div N \in 0 .. kb - 1 /\ (a.column % N) \in Coef
            /\ a.matrix \in 0 .. nb - 1 /\ a.matrix \in Nat
<1> DEFINE a == AddressFor(Layout(call), N, i)
           q == Query(who, i)
<1>1. Asked(who, i) = [index |-> i, address |-> a, query |-> q]
  BY ReceivedIs DEF Asked
<1>2. q.root.plain = RootMonomial(RootExponent(a.matrix))
  BY DEF Query, RootQuery
<1>3. q.blocks = OneHotBlocks(who, a.column, call.cols, N, MaskRoot, Unit)
  BY DEF Query, Unit
<1>4. /\ q.keyG = [secret |-> who, p |-> GaloisGenerator, seed |-> KeysRoot]
      /\ q.keyH = [secret |-> who, p |-> -1, seed |-> KeysRoot]
  BY DEF Query
<1>5. a.column \in Nat /\ a.column \div N \in 0 .. kb - 1 /\ (a.column % N) \in Coef
      /\ a.matrix \in 0 .. nb - 1 /\ a.matrix \in Nat
  <2>1. 0 \in 0 .. Words
    BY CodecAssumption
  <2>2. a.column \in Nat /\ a.column \div N \in 0 .. BlockCols(call) - 1 /\ (a.column % N) \in Coef
    BY <2>1, AddressHolds
  <2>3. a.matrix \in 0 .. call.blockRows - 1
    BY AddressIs
  <2> HIDE DEF a
  <2> QED
    BY <2>2, <2>3 DEF kb, nb, BlockRows
<1> HIDE DEF a, q
<1>6. ASSUME NEW bc \in 0 .. kb - 1
      PROVE  /\ q.blocks[bc].secret = who
             /\ q.blocks[bc].seed = MaskSeed(MaskRoot, bc)
             /\ \A c \in 0 .. N - 1 :
                  q.blocks[bc].plain[c] = IF a.column = bc * N + c THEN Unit ELSE 0
  <2> DEFINE hot(b) == [c \in 0 .. N - 1 |-> IF a.column = b * N + c THEN Unit ELSE 0]
             block(b) == [secret |-> who, seed |-> MaskSeed(MaskRoot, b), plain |-> hot(b)]
  <2>1. q.blocks = [b \in 0 .. kb - 1 |-> block(b)]
    BY <1>3 DEF OneHotBlocks, kb, BlockCols
  <2>2. q.blocks[bc] = block(bc)
    <3> HIDE DEF block
    <3> QED
      BY <2>1
  <2>3. q.blocks[bc].secret = who /\ q.blocks[bc].seed = MaskSeed(MaskRoot, bc)
        /\ q.blocks[bc].plain = hot(bc)
    <3> HIDE DEF hot
    <3> QED
      BY <2>2
  <2> QED
    BY <2>3
<1>7. Selects(q.blocks, a.column)
  <2>1. ASSUME NEW bc \in 0 .. kb - 1, NEW c \in Coef
        PROVE  q.blocks[bc].plain[c] = IF a.column = bc * N + c THEN Unit ELSE 0
    <3>1. c \in 0 .. N - 1
      BY DEF Coef
    <3> QED
      BY <1>6, <3>1
  <2> QED
    BY <2>1 DEF Selects
<1>8. ASSUME NEW bc \in 0 .. kb - 1
      PROVE  q.blocks[bc].seed = SetupMasks[bc] /\ q.blocks[bc].secret = who
  <2>1. q.blocks[bc].seed = MaskSeed(MaskRoot, bc) /\ q.blocks[bc].secret = who
    BY <1>6
  <2>2. SetupMasks[bc] = MaskSeed(MaskRoot, bc)
    BY DEF SetupMasks
  <2> QED
    BY <2>1, <2>2
<1>9. /\ q.keyG.p = GaloisGenerator /\ q.keyG.seed = PackKeyMask /\ q.keyG.secret = who
      /\ q.keyH = [q.keyG EXCEPT !.p = -1]
  BY <1>4 DEF PackKeyMask
<1> QED
  BY <1>1, <1>2, <1>5, <1>7, <1>8, <1>9 DEF a, q

\* It carries the root of the block row it asks for.
LEMMA AskedRoot ==
  ASSUME call \in Calls, NEW who, NEW i \in Nat, i < Capacity(call)
  PROVE  Asked(who, i).query.root.plain
           = RootMonomial(RootExponent(AddressFor(Layout(call), N, i).matrix))
<1>1. Asked(who, i).query = Query(who, i)
  BY ReceivedIs DEF Asked
<1>2. Query(who, i).root.plain = RootMonomial(RootExponent(AddressFor(Layout(call), N, i).matrix))
  BY DEF Query, RootQuery
<1> QED
  BY <1>1, <1>2

\* Every panel answers the query with the panel's column, encoded on the torus.
LEMMA PanelAnswered ==
  ASSUME call \in Calls, IsPrepared, precomputed = AllPrecomputed,
         NEW qi \in DOMAIN queries, NEW i \in Nat, i < Capacity(call), queries[qi] = Asked(qi, i),
         NEW a, a = queries[qi].address, NEW p \in 0 .. t - 1
  PROVE  PanelIs(PackedBatch(p)[qi], a.column \div N, a.column % N, p)
<1> DEFINE q == queries[qi].query
<1>1. /\ a.column \in Nat /\ a.column \div N \in 0 .. kb - 1 /\ Selects(q.blocks, a.column)
      /\ \A bc \in 0 .. kb - 1 : /\ q.blocks[bc].seed = SetupMasks[bc]
                                 /\ q.blocks[bc].secret = q.keyG.secret
      /\ q.keyG.p = GaloisGenerator /\ q.keyG.seed = PackKeyMask
      /\ q.keyH = [q.keyG EXCEPT !.p = -1]
  BY AskedIs
<1> HIDE DEF q
<1>2. precomputed[p] = [panel |-> p, masks |-> SetupMasks, keys |-> PackKeyMask]
  BY DEF AllPrecomputed, Precomputation
<1>3. Pack(p, q, q) = Body(p, q)
  BY <1>1, <1>2 DEF Pack
<1>4. PackedBatch(p)[qi] = Body(p, q)
  BY <1>3 DEF PackedBatch, q
<1>5. \A bc \in 0 .. kb - 1 : prepared[p][bc] = Interpolated(bc, p)
  BY DEF IsPrepared
<1>6. /\ Body(p, q) \in [Coef -> Int]
      /\ \A row \in Coef :
           Congruent(Body(p, q)[row], Picked(a.column \div N, a.column % N, p)[row] * Unit,
                     2 ^ TorusBits)
  BY <1>1, <1>5, BodyIs
<1> QED
  BY <1>4, <1>6 DEF PanelIs, IntPolys


-----------------------------------------------------------------------------
(* The steps of a run *)

\* What the database and the threads decide stays as it is.
LEMMA SameRun ==
  ASSUME call' = call
  PROVE  /\ t' = t /\ kb' = kb /\ nb' = nb /\ Parts' = Parts /\ DOMAIN Groups' = DOMAIN Groups
         /\ AllPrecomputed' = AllPrecomputed
         /\ \A k, bc : Interpolated(bc, k)' = Interpolated(bc, k)
<1>1. t' = t /\ kb' = kb /\ nb' = nb
  BY DEF t, kb, nb
<1>2. Parts' = Parts /\ Groups' = Groups
  BY <1>1 DEF Parts, Groups
<1>3. SetupMasks' = SetupMasks
  BY <1>1 DEF SetupMasks
<1>4. AllPrecomputed' = AllPrecomputed
  BY <1>1, <1>3 DEF AllPrecomputed, Precomputation
<1>5. \A k, bc : Interpolated(bc, k)' = Interpolated(bc, k)
  BY <1>1 DEF Interpolated, Inv, Idft, Permuted, Butterflies, OriginalColumn, nb, t
<1> QED
  BY <1>1, <1>2, <1>4, <1>5

\* What is being asked of the panels stays what it is.
LEMMA SameHorner ==
  ASSUME call' = call, NEW r, NEW bc, NEW c, NEW m, NEW n
  PROVE  HornerIs(r, bc, c, m, n)' <=> HornerIs(r, bc, c, m, n)
<1>1. t' = t /\ kb' = kb /\ nb' = nb /\ \A k, b : Interpolated(b, k)' = Interpolated(b, k)
  BY SameRun
<1>2. \A k : Picked(bc, c, k)' = Picked(bc, c, k)
  BY <1>1 DEF Picked
<1>3. \A l : Turns(l)' = Turns(l)
  BY DEF Turns, Width
<1>4. Levels' = Levels
  BY DEF Levels
<1>5. \A x : Remaining(bc, c, m, n, x)' = Remaining(bc, c, m, n, x)
  BY <1>1, <1>2, <1>3, <1>4 DEF Remaining
<1> QED
  BY <1>1, <1>5 DEF HornerIs

\* Nothing has been done at the start.
LEMMA InitRunInv == Init => RunInv
BY InitInv DEF Init, RunInv, Beginning, Answering

\* Interpolation is followed by what needs no more than its panels.
LEMMA InterpolateKeepsRun ==
  ASSUME RunInv, IInv', InterpolateBlock
  PROVE  RunInv'
BY DEF RunInv, Beginning, Answering, InterpolateBlock

\* prepared_u is the interpolated panels; no panel is precomputed yet.
LEMMA PrepareKeepsRun ==
  ASSUME RunInv, IInv', PrepareU
  PROVE  RunInv'
<1>1. /\ stage = "prepare" /\ stage' = "precompute" /\ call' = call /\ done' = NoneDone
      /\ prepared' = [k \in 0 .. t - 1 |-> [bc \in 0 .. kb - 1 |-> PanelMatrix(k, bc)]]
      /\ precomputed' = [k \in 0 .. t - 1 |-> [panel |-> Nonsense]]
  BY DEF PrepareU
<1>2. call \in Calls /\ \A k \in 0 .. t - 1, bc \in 0 .. kb - 1 : PanelMatrix(k, bc) = Interpolated(bc, k)
  BY <1>1 DEF RunInv, IInv, InterpolatedIn
<1>3. /\ t' = t /\ kb' = kb /\ Parts' = Parts /\ AllPrecomputed' = AllPrecomputed
      /\ \A k, bc : Interpolated(bc, k)' = Interpolated(bc, k)
  BY <1>1, SameRun
<1>4. IsPrepared'
  BY <1>1, <1>2, <1>3 DEF IsPrepared
<1>5. Filled(precomputed', AllPrecomputed, done')
  <2>1. precomputed' = [k \in 0 .. t - 1 |-> precomputed'[k]]
    BY <1>1
  <2> QED
    BY <1>1, <1>2, <2>1, FillStarts
<1>6. Filled(precomputed, AllPrecomputed, done)'
  BY <1>3, <1>5 DEF Filled
<1> QED
  BY <1>1, <1>4, <1>6 DEF RunInv, Beginning, Answering


\* A worker that had panels left has one fewer; the slot it fills is the panel's.
LEMMA WorkDone ==
  ASSUME call \in Calls, NEW slots, NEW want, Filled(slots, want, done),
         NEW w \in DOMAIN Groups, Works(w),
         NEW new, new = With(slots, NextSlot(w), want[NextPanel(w)])
  PROVE  /\ Filled(new, want, done')
         /\ NextPanel(w) \in 0 .. t - 1
         /\ Finished /\ want = [k \in 0 .. t - 1 |-> want[k]] => new = want
<1> DEFINE slot == PartStart(t, Parts, w) + done[w]
<1>1. w \in 0 .. Parts - 1 /\ DOMAIN Groups = 0 .. Parts - 1
      /\ \A v \in 0 .. Parts - 1 : PartLen(t, Parts, v) \in Nat
  BY WorkersAre
<1>2. done[w] \in Nat
  <2>1. done[w] \in 0 .. PartLen(t, Parts, w)
    BY <1>1 DEF Filled
  <2> QED
    BY <1>1, <2>1
<1>3. NextPanel(w) = slot /\ NextSlot(w) = slot /\ slot \in 0 .. t - 1
  BY <1>2, SlotIs
<1>4. done[w] < PartLen(t, Parts, w) /\ done' = [done EXCEPT ![w] = @ + 1]
  BY DEF Works, Parts
<1> HIDE DEF slot
<1>5. new = [slots EXCEPT ![slot] = want[slot]]
  BY <1>3 DEF With
<1>6. slot = PartStart(t, Parts, w) + done[w]
  BY DEF slot
<1>7. Filled(new, want, done')
  <2>1. ASSUME NEW d, d = done, NEW e, e = done'
        PROVE  Filled(new, want, e)
    <3>1. /\ Filled(slots, want, d) /\ d[w] < PartLen(t, Parts, w)
          /\ slot = PartStart(t, Parts, w) + d[w]
      BY <1>4, <1>6, <2>1
    <3>2. e = OneMore(d, w) /\ new = With(slots, slot, want[slot])
      BY <1>4, <1>5, <2>1 DEF OneMore, With
    <3>3. Filled(With(slots, slot, want[slot]), want, OneMore(d, w))
      BY <1>1, <3>1, FillGoes
    <3> QED
      BY <3>2, <3>3
  <2> QED
    BY <2>1
<1>8. ASSUME Finished, want = [k \in 0 .. t - 1 |-> want[k]]
      PROVE  new = want
  <2>1. \A v \in 0 .. Parts - 1 : done'[v] = PartLen(t, Parts, v)
    BY <1>1, <1>8 DEF Finished, Parts
  <2> QED
    BY <1>7, <1>8, <2>1, FillEnds
<1> QED
  BY <1>3, <1>7, <1>8

\* A panel's precomputation is put where the panel is looked up.
LEMMA PrecomputeKeepsRun ==
  ASSUME RunInv, IInv', NEW w \in DOMAIN Groups, PrecomputePanel(w)
  PROVE  RunInv'
<1> DEFINE want == AllPrecomputed
           panel == NextPanel(w)
<1>1. /\ stage = "precompute" /\ Works(w) /\ call' = call /\ prepared' = prepared
      /\ precomputed' = [precomputed EXCEPT ![NextSlot(w)] = Precomputation(NextPanel(w))]
      /\ stage' = IF Finished THEN "ready" ELSE stage
  BY DEF PrecomputePanel
<1>2. call \in Calls /\ IsPrepared /\ Filled(precomputed, want, done)
  BY <1>1 DEF RunInv, IInv, Beginning
<1>3. want = [k \in 0 .. t - 1 |-> Precomputation(k)]
  BY DEF AllPrecomputed
<1>4. want = [k \in 0 .. t - 1 |-> want[k]]
  BY <1>3
<1>5. panel \in 0 .. t - 1
  BY <1>1, <1>2, WorkDone
<1>6. want[panel] = Precomputation(panel)
  <2> HIDE DEF panel
  <2> QED
    BY <1>3, <1>5
<1> HIDE DEF want
<1>7. precomputed' = With(precomputed, NextSlot(w), want[NextPanel(w)])
  BY <1>1, <1>6 DEF With
<1>8. Filled(precomputed', want, done') /\ (Finished => precomputed' = want)
  <2>1. Works(w) /\ call \in Calls /\ Filled(precomputed, want, done)
    BY <1>1, <1>2
  <2>2. Filled(precomputed', want, done') /\ (Finished /\ want = [k \in 0 .. t - 1 |-> want[k]] => precomputed' = want)
    BY <1>7, <2>1, WorkDone
  <2> QED
    BY <1>4, <2>2
<1>9. /\ t' = t /\ kb' = kb /\ Parts' = Parts /\ want' = want
      /\ \A k, bc : Interpolated(bc, k)' = Interpolated(bc, k)
  BY <1>1, SameRun DEF want
<1>10. IsPrepared'
  BY <1>1, <1>2, <1>9 DEF IsPrepared
<1>11. Filled(precomputed, AllPrecomputed, done)'
  BY <1>8, <1>9 DEF Filled, want
<1>12. Finished => precomputed' = AllPrecomputed'
  BY <1>8, <1>9 DEF want
<1> QED
  BY <1>1, <1>10, <1>11, <1>12 DEF RunInv, Beginning, Answering

\* The queries are asked for payloads of the database, each under its own number.
LEMMA AskKeepsRun ==
  ASSUME RunInv, IInv', NEW indices \in call.asks, Ask(indices)
  PROVE  RunInv'
<1>1. PICK accepted \in InOrder({i \in DOMAIN indices : indices[i] < Capacity(call)}) :
        queries' = [q \in DOMAIN accepted |-> Asked(q, indices[accepted[q]])]
  BY DEF Ask
<1>2. /\ stage = "ready" /\ stage' = "answer" /\ call' = call /\ done' = NoneDone
      /\ packed' = [k \in 0 .. t - 1 |-> Nonsense]
      /\ prepared' = prepared /\ precomputed' = precomputed
  BY DEF Ask
<1>3. call \in Calls /\ IsPrepared /\ precomputed = AllPrecomputed
  BY <1>2 DEF RunInv, IInv, Beginning
<1>4. /\ t' = t /\ kb' = kb /\ Parts' = Parts /\ AllPrecomputed' = AllPrecomputed
      /\ \A k, bc : Interpolated(bc, k)' = Interpolated(bc, k)
  BY <1>2, SameRun
<1>5. IsPrepared' /\ precomputed' = AllPrecomputed'
  BY <1>2, <1>3, <1>4 DEF IsPrepared
<1>6. indices \in Seq(Nat)
  BY <1>3, CallsAssumption
<1>7. ASSUME NEW q \in DOMAIN accepted
      PROVE  indices[accepted[q]] \in Nat /\ indices[accepted[q]] < Capacity(call)
  <2>1. accepted[q] \in DOMAIN indices /\ indices[accepted[q]] < Capacity(call)
    BY DEF InOrder
  <2> QED
    BY <1>6, <2>1
<1>8. \A i : Asked(i, indices[accepted[i]])' = Asked(i, indices[accepted[i]])
  BY <1>2, <1>4 DEF Asked, Query, RootQuery, RootExponent, Received
<1>9. Capacity(call') = Capacity(call)
  BY <1>2
<1>10. AreAsked'
  <2>1. ASSUME NEW q \in DOMAIN queries'
        PROVE  \E i \in Nat : i < Capacity(call') /\ queries'[q] = Asked(q, i)'
    <3>1. q \in DOMAIN accepted /\ queries'[q] = Asked(q, indices[accepted[q]])
      BY <1>1
    <3> DEFINE i == indices[accepted[q]]
    <3>2. i \in Nat /\ i < Capacity(call') /\ queries'[q] = Asked(q, i)'
      BY <1>7, <1>8, <1>9, <3>1
    <3> QED
      BY <3>2
  <2> QED
    BY <2>1 DEF AreAsked
<1>11. Filled(packed', AllPacked', done')
  <2>1. packed' = [k \in 0 .. t - 1 |-> packed'[k]]
    BY <1>2
  <2> QED
    BY <1>2, <1>3, <2>1, FillStarts
<1>12. Filled(packed, AllPacked, done)'
  BY <1>4, <1>11 DEF Filled
<1> QED
  BY <1>2, <1>5, <1>10, <1>12 DEF RunInv, Beginning, Answering


\* What the steps between the queries and the responses keep
KeptRun == IsPrepared /\ precomputed = AllPrecomputed /\ AreAsked /\ packed = AllPacked

\* The queries asked stay asked.
LEMMA KeepsAsked ==
  ASSUME AreAsked, call' = call, queries' = queries
  PROVE  AreAsked'
<1>1. t' = t /\ kb' = kb
  BY SameRun
<1>2. \A q, i : Asked(q, i)' = Asked(q, i)
  BY <1>1 DEF Asked, Query, RootQuery, RootExponent, Received
<1> QED
  BY <1>2 DEF AreAsked

\* The answers do not change by themselves.
LEMMA PackedSame ==
  ASSUME UNCHANGED <<call, prepared, precomputed, queries>>
  PROVE  AllPacked' = AllPacked
<1>1. t' = t /\ kb' = kb
  BY SameRun
<1>2. \A p, q : Body(p, q)' = Body(p, q)
  BY <1>1 DEF Body, SumTo
<1>3. \A p : PackedBatch(p)' = PackedBatch(p)
  <2>1. \A p, q, o : Pack(p, q, o)' = Pack(p, q, o)
    BY <1>1, <1>2 DEF Pack
  <2> QED
    BY <2>1 DEF PackedBatch
<1> QED
  BY <1>1, <1>3 DEF AllPacked

\* The panels and the answers stay what they are as long as the queries do.
LEMMA KeepsAll ==
  ASSUME KeptRun, UNCHANGED <<call, prepared, precomputed, queries, packed>>
  PROVE  KeptRun'
<1>1. /\ kb' = kb /\ t' = t /\ AllPrecomputed' = AllPrecomputed
      /\ \A k, bc : Interpolated(bc, k)' = Interpolated(bc, k)
  BY SameRun
<1>3. AllPacked' = AllPacked
  BY PackedSame
<1>4. IsPrepared'
  BY <1>1 DEF KeptRun, IsPrepared
<1> QED
  BY <1>1, <1>3, <1>4, KeepsAsked DEF KeptRun

\* What is found of the responses after a step holds of them then.
LEMMA ReducedNext ==
  ASSUME call' = call, next' \in 0 .. t - 1,
         \A q \in DOMAIN queries' : \A r, a : r = responses'[q] /\ a = queries'[q].address =>
            HornerIs(r, a.column \div N, a.column % N, a.matrix, next')
  PROVE  AreReduced'
<1>1. t' = t
  BY SameRun
<1>2. \A r, bc, c, m, n : HornerIs(r, bc, c, m, n)' <=> HornerIs(r, bc, c, m, n)
  BY SameHorner
<1> QED
  BY <1>1, <1>2 DEF AreReduced

\* A panel's answers go to the panel's slot.
LEMMA AnswerKeepsRun ==
  ASSUME RunInv, IInv', NEW w \in DOMAIN Groups, AnswerPanel(w)
  PROVE  RunInv'
<1> DEFINE want == AllPacked
           panel == NextPanel(w)
<1>1. /\ stage = "answer" /\ Works(w) /\ call' = call /\ prepared' = prepared
      /\ precomputed' = precomputed /\ queries' = queries
      /\ packed' = [packed EXCEPT ![NextSlot(w)] = PackedBatch(NextPanel(w))]
      /\ stage' = IF Finished THEN "reduce" ELSE stage
  BY DEF AnswerPanel
<1>2. /\ call \in Calls /\ IsPrepared /\ precomputed = AllPrecomputed /\ AreAsked
      /\ Filled(packed, want, done)
  BY <1>1 DEF RunInv, IInv, Beginning, Answering
<1>3. want = [k \in 0 .. t - 1 |-> PackedBatch(k)]
  BY DEF AllPacked
<1>4. want = [k \in 0 .. t - 1 |-> want[k]]
  BY <1>3
<1>5. panel \in 0 .. t - 1
  BY <1>1, <1>2, WorkDone
<1>6. want[panel] = PackedBatch(panel)
  <2> HIDE DEF panel
  <2> QED
    BY <1>3, <1>5
<1> HIDE DEF want
<1>7. packed' = With(packed, NextSlot(w), want[NextPanel(w)])
  BY <1>1, <1>6 DEF With
<1>8. Filled(packed', want, done') /\ (Finished => packed' = want)
  <2>1. Works(w) /\ call \in Calls /\ Filled(packed, want, done)
    BY <1>1, <1>2
  <2>2. Filled(packed', want, done') /\ (Finished /\ want = [k \in 0 .. t - 1 |-> want[k]] => packed' = want)
    BY <1>7, <2>1, WorkDone
  <2> QED
    BY <1>4, <2>2
<1>9. /\ t' = t /\ kb' = kb /\ Parts' = Parts /\ AllPrecomputed' = AllPrecomputed
      /\ \A k, bc : Interpolated(bc, k)' = Interpolated(bc, k)
  BY <1>1, SameRun
<1>10. want' = want
  BY <1>1, PackedSame DEF want
<1>11. IsPrepared' /\ precomputed' = AllPrecomputed'
  BY <1>1, <1>2, <1>9 DEF IsPrepared
<1>12. Filled(packed, AllPacked, done)' /\ (Finished => packed' = AllPacked')
  BY <1>8, <1>9, <1>10 DEF Filled, want
<1>13. AreAsked'
  BY <1>1, <1>2, KeepsAsked
<1> QED
  BY <1>1, <1>11, <1>12, <1>13 DEF RunInv, Beginning, Answering

\* Horner starts with the answers of the highest panel.
LEMMA StartKeepsRun ==
  ASSUME RunInv, IInv', StartReduce
  PROVE  RunInv'
<1>1. /\ stage = "reduce" /\ stage' = "horner" /\ call' = call /\ prepared' = prepared
      /\ precomputed' = precomputed /\ queries' = queries /\ packed' = packed
      /\ responses' = [q \in DOMAIN queries |-> packed[t - 1][q]] /\ next' = t - 1
  BY DEF StartReduce
<1>2. /\ call \in Calls /\ IsPrepared /\ precomputed = AllPrecomputed /\ AreAsked
      /\ packed = AllPacked
  BY <1>1 DEF RunInv, IInv, Beginning, Answering
<1>3. KeptRun'
  BY <1>1, <1>2, KeepsAll DEF KeptRun
<1>4. t \in Nat \ {0} /\ t - 1 \in 0 .. t - 1 /\ t' = t
  BY <1>1, <1>2, TurnsIs, SameRun
<1>5. ASSUME NEW q \in DOMAIN queries', NEW r, r = responses'[q], NEW a, a = queries'[q].address
      PROVE  HornerIs(r, a.column \div N, a.column % N, a.matrix, t - 1)
  <2>1. q \in DOMAIN queries /\ a = queries[q].address
    BY <1>1, <1>5
  <2>2. PICK i \in Nat : i < Capacity(call) /\ queries[q] = Asked(q, i)
    BY <1>2, <2>1 DEF AreAsked
  <2>3. a = AddressFor(Layout(call), N, i)
    BY <1>2, <2>1, <2>2 DEF Asked
  <2>4. a.column \in Nat /\ a.column \div N \in 0 .. kb - 1 /\ (a.column % N) \in Coef
        /\ a.matrix \in Nat
    BY <1>2, <2>2, <2>3, AskedIs
  <2>5. r = PackedBatch(t - 1)[q]
    <3>1. r = packed[t - 1][q]
      BY <1>1, <1>5, <2>1
    <3>2. packed[t - 1] = PackedBatch(t - 1)
      BY <1>2, <1>4 DEF AllPacked
    <3> QED
      BY <3>1, <3>2
  <2>6. PanelIs(r, a.column \div N, a.column % N, t - 1)
    BY <1>2, <1>4, <2>1, <2>2, <2>5, PanelAnswered
  <2>7. a.column \div N \in Nat
    BY <1>2, <2>4, BlocksAre
  <2> QED
    BY <1>2, <2>4, <2>6, <2>7, HornerStarts
<1>6. AreReduced'
  BY <1>1, <1>4, <1>5, ReducedNext
<1> QED
  BY <1>1, <1>3, <1>6 DEF RunInv, KeptRun, Beginning, Answering


\* A step of Horner takes in the next panel, at the root of each query.
LEMMA ReduceKeepsRun ==
  ASSUME RunInv, IInv', Reduce
  PROVE  RunInv'
<1>1. /\ stage = "horner" /\ UNCHANGED <<call, prepared, precomputed, queries, packed>>
      /\ call' = call /\ queries' = queries
  BY DEF Reduce
<1>2. /\ call \in Calls /\ KeptRun /\ AreReduced
  BY <1>1 DEF RunInv, KeptRun, IInv, Beginning, Answering
<1>3. KeptRun'
  BY <1>1, <1>2, KeepsAll
<1>4. next \in 0 .. t - 1 /\ t \in Nat \ {0}
  BY <1>2, TurnsIs DEF AreReduced
<1>5. ASSUME NEW q \in DOMAIN queries, NEW r, r = responses[q], NEW a, a = queries[q].address
      PROVE  HornerIs(r, a.column \div N, a.column % N, a.matrix, next)
  BY <1>2, <1>5 DEF AreReduced
<1>6. CASE next = 0
  <2>1. stage' = "answered" /\ next' = next /\ responses' = responses
    BY <1>1, <1>6 DEF Reduce
  <2>2. AreReduced'
    BY <1>1, <1>4, <1>5, <2>1, ReducedNext
  <2> QED
    BY <1>3, <1>6, <2>1, <2>2 DEF RunInv, KeptRun, Beginning, Answering
<1>7. CASE next # 0
  <2>1. /\ stage' = stage /\ next' = next - 1
        /\ responses' = [q \in DOMAIN queries |->
                           HornerStep(responses[q], queries[q].query.root, packed[next - 1][q])]
    BY <1>1, <1>7 DEF Reduce
  <2>2. next \in 1 .. t - 1 /\ next - 1 \in 0 .. t - 1
    BY <1>4, <1>7
  <2>3. ASSUME NEW q \in DOMAIN queries', NEW r, r = responses'[q], NEW a, a = queries'[q].address
        PROVE  HornerIs(r, a.column \div N, a.column % N, a.matrix, next - 1)
    <3> DEFINE b == packed[next - 1][q]
               root == queries[q].query.root
    <3>1. q \in DOMAIN queries /\ a = queries[q].address
      BY <1>1, <2>3
    <3>2. PICK i \in Nat : i < Capacity(call) /\ queries[q] = Asked(q, i)
      BY <1>2, <3>1 DEF KeptRun, AreAsked
    <3>3. a = AddressFor(Layout(call), N, i)
      <4>1. Asked(q, i).address = AddressFor(Layout(call), N, i)
        BY DEF Asked
      <4> QED
        BY <3>1, <3>2, <4>1
    <3>4. a.column \in Nat /\ a.column \div N \in 0 .. kb - 1 /\ (a.column % N) \in Coef
          /\ a.matrix \in Nat /\ root.plain = RootMonomial(RootExponent(a.matrix))
      <4>1. Asked(q, i).query.root.plain = RootMonomial(RootExponent(a.matrix))
        <5>1. Asked(q, i).query.root.plain
                = RootMonomial(RootExponent(AddressFor(Layout(call), N, i).matrix))
          BY <1>2, <3>2, AskedRoot
        <5> QED
          BY <3>3, <5>1
      <4>2. root = Asked(q, i).query.root
        BY <3>2
      <4> HIDE DEF root
      <4>3. a.column \in Nat /\ a.column \div N \in 0 .. kb - 1 /\ (a.column % N) \in Coef
            /\ a.matrix \in Nat
        BY <1>2, <3>2, <3>3, AskedIs
      <4> QED
        BY <4>1, <4>2, <4>3
    <3>5. b = PackedBatch(next - 1)[q]
      BY <1>2, <2>2 DEF KeptRun, AllPacked
    <3>6. IsPrepared /\ precomputed = AllPrecomputed
      BY <1>2 DEF KeptRun
    <3> HIDE DEF b
    <3>7. PanelIs(b, a.column \div N, a.column % N, next - 1)
      BY <1>2, <2>2, <3>1, <3>2, <3>5, <3>6, PanelAnswered
    <3>8. a.column \div N \in Nat
      BY <1>2, <3>4, BlocksAre
    <3>9. HornerIs(responses[q], a.column \div N, a.column % N, a.matrix, next)
      BY <1>5, <3>1
    <3>10. r = HornerStep(responses[q], root, b)
      BY <2>1, <2>3, <3>1 DEF b
    <3> HIDE DEF root
    <3>11. HornerIs(HornerStep(responses[q], root, b), a.column \div N, a.column % N, a.matrix, next - 1)
      BY <1>2, <2>2, <3>4, <3>7, <3>8, <3>9, HornerGoes
    <3> QED
      BY <3>10, <3>11
  <2>4. AreReduced'
    BY <1>1, <2>1, <2>2, <2>3, ReducedNext
  <2> QED
    BY <1>1, <1>3, <2>1, <2>4 DEF RunInv, KeptRun, Beginning, Answering
<1> QED
  BY <1>6, <1>7

\* The next round starts with the precomputations there are.
LEMMA NextKeepsRun ==
  ASSUME RunInv, IInv', NextQuery
  PROVE  RunInv'
<1>1. /\ stage = "answered" /\ stage' = "ready" /\ call' = call /\ prepared' = prepared
      /\ precomputed' = precomputed
  BY DEF NextQuery
<1>2. IsPrepared /\ precomputed = AllPrecomputed
  BY <1>1 DEF RunInv, Beginning, Answering
<1>3. /\ t' = t /\ kb' = kb /\ AllPrecomputed' = AllPrecomputed
      /\ \A k, bc : Interpolated(bc, k)' = Interpolated(bc, k)
  BY <1>1, SameRun
<1>4. IsPrepared' /\ precomputed' = AllPrecomputed'
  BY <1>1, <1>2, <1>3 DEF IsPrepared
<1> QED
  BY <1>1, <1>4 DEF RunInv, Beginning, Answering

\* When nothing happens everything stays.
LEMMA StutterKeepsRun ==
  ASSUME RunInv, IInv', UNCHANGED vars
  PROVE  RunInv'
<1>1. UNCHANGED <<call, stage, next, prepared, precomputed, done, queries, packed, responses>>
      /\ call' = call /\ queries' = queries
  BY DEF vars
<1>2. /\ t' = t /\ kb' = kb /\ Parts' = Parts /\ AllPrecomputed' = AllPrecomputed
      /\ \A k, bc : Interpolated(bc, k)' = Interpolated(bc, k)
  BY <1>1, SameRun
<1>3. AllPacked' = AllPacked
  BY <1>1, PackedSame
<1>4. IsPrepared => IsPrepared'
  BY <1>1, <1>2 DEF IsPrepared
<1>5. AreAsked => AreAsked'
  BY <1>1, KeepsAsked
<1>6. Filled(precomputed, AllPrecomputed, done) => Filled(precomputed, AllPrecomputed, done)'
  BY <1>1, <1>2 DEF Filled
<1>7. Filled(packed, AllPacked, done) => Filled(packed, AllPacked, done)'
  BY <1>1, <1>2, <1>3 DEF Filled
<1>8. ASSUME AreReduced
      PROVE  AreReduced'
  <2>1. \A q \in DOMAIN queries' : \A r, a : r = responses'[q] /\ a = queries'[q].address =>
            HornerIs(r, a.column \div N, a.column % N, a.matrix, next')
    BY <1>1, <1>8 DEF AreReduced
  <2>2. next' \in 0 .. t - 1
    BY <1>1, <1>8 DEF AreReduced
  <2> QED
    BY <1>1, <2>1, <2>2, ReducedNext
<1> QED
  BY <1>1, <1>2, <1>3, <1>4, <1>5, <1>6, <1>7, <1>8 DEF RunInv

\* Every step keeps the invariant of a run.
LEMMA StepRunInv ==
  ASSUME RunInv, [Next]_vars
  PROVE  RunInv'
<1>1. IInv'
  BY StepInv DEF RunInv
<1>2. CASE InterpolateBlock
  BY <1>1, <1>2, InterpolateKeepsRun
<1>3. CASE PrepareU
  BY <1>1, <1>3, PrepareKeepsRun
<1>4. ASSUME NEW w \in DOMAIN Groups, PrecomputePanel(w)
      PROVE  RunInv'
  BY <1>1, <1>4, PrecomputeKeepsRun
<1>5. ASSUME NEW indices \in call.asks, Ask(indices)
      PROVE  RunInv'
  BY <1>1, <1>5, AskKeepsRun
<1>6. ASSUME NEW w \in DOMAIN Groups, AnswerPanel(w)
      PROVE  RunInv'
  BY <1>1, <1>6, AnswerKeepsRun
<1>7. CASE StartReduce
  BY <1>1, <1>7, StartKeepsRun
<1>8. CASE Reduce
  BY <1>1, <1>8, ReduceKeepsRun
<1>9. CASE NextQuery
  BY <1>1, <1>9, NextKeepsRun
<1>10. CASE UNCHANGED vars
  BY <1>1, <1>10, StutterKeepsRun
<1> QED
  BY <1>2, <1>3, <1>4, <1>5, <1>6, <1>7, <1>8, <1>9, <1>10 DEF Next

\* A response in which every panel is taken in decodes to the payload asked for.
LEMMA RunDecodes == RunInv => AnswersDecode
<1> SUFFICES ASSUME RunInv, stage = "answered", NEW q \in DOMAIN queries
             PROVE  Decoded(responses[q], queries[q].address) = PayloadOf(call, queries[q].index)
  BY DEF AnswersDecode
<1> DEFINE r == responses[q]
           a == queries[q].address
<1>1. call \in Calls /\ AreAsked /\ AreReduced /\ next = 0
  BY DEF RunInv, IInv, Answering
<1>2. PICK i \in Nat : i < Capacity(call) /\ queries[q] = Asked(q, i)
  BY <1>1 DEF AreAsked
<1>3. a = AddressFor(Layout(call), N, i) /\ queries[q].index = i
  BY <1>2 DEF Asked
<1>4. HornerIs(r, a.column \div N, a.column % N, a.matrix, 0)
  BY <1>1 DEF AreReduced
<1> HIDE DEF a, r
<1>5. Decoded(r, a) = PayloadOf(call, i)
  BY <1>1, <1>2, <1>3, <1>4, ResponseDecodes
<1> QED
  BY <1>3, <1>5 DEF a, r

\* The invariant holds at every moment of a run.
LEMMA RunInvariance == Spec => []RunInv
<1>1. Init => RunInv
  BY InitRunInv
<1>2. RunInv /\ [Next]_vars => RunInv'
  BY StepRunInv
<1> QED
  BY <1>1, <1>2, PTL DEF Spec

\* `Client::try_decode` of what the server answers is the payload at the index asked for:
\* for every database, degree, bases and threads, however panels are dealt to workers,
\* in whichever order they finish, and however many queries are answered together.
THEOREM AnswersAlwaysDecode == Spec => []AnswersDecode
BY RunInvariance, RunDecodes, PTL
=============================================================================

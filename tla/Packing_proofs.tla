-------------------------- MODULE Packing_proofs ---------------------------
(***************************************************************************)
(* What is proved about Packing, for every degree, odd modulus, call and   *)
(* input vector:                                                           *)
(*   - the aggregation tree's columns are the directly computed sums       *)
(*     (AggregateIsDirectSum);                                             *)
(*   - no collapse step loses phase (CollapseLosesNothing);                *)
(*   - the packed ciphertext decrypts, coefficient by coefficient, to the  *)
(*     phase of each ciphertext of the batch, with any baby step size,     *)
(*     chunk size and number of threads (PackingIsCorrect).                *)
(*                                                                         *)
(* First the negacyclic ring, by way of signals: what a polynomial is at   *)
(* every exponent.  Then the offline phase, then the online one.  The      *)
(* inductive invariants are AggregateInv, CollapseInv, FinishInv and       *)
(* OnlineInv, each containing the one before.                              *)
(***************************************************************************)
EXTENDS Packing, WorkSplit_proofs, FiniteSetTheorems

-----------------------------------------------------------------------------
(* Signals: what At makes of a polynomial, for exponents of either sign,   *)
(* and before numbers are taken modulo Q                                   *)

Period == 2 * N

Unrolled(a) ==
  [e \in Int |-> IF e % Period < N THEN a[e % Period] ELSE -a[(e % Period) - N]]

Signal == {A \in [Int -> Int] : A = Unrolled(A)}

\* Numbers that agree modulo Q, and signals that do.
Same(a, b) == Congruent(a, b, Q)
Alike(A, B) == \A e \in Int : Same(A[e], B[e])

\* The ring's numbers: the degree, twice it, and the modulus.
LEMMA PeriodIs == Period \in Nat \ {0} /\ N \in Nat \ {0} /\ Period = N + N /\ Q \in Nat \ {0, 1}
BY RingAssumption DEF Period

\* Where an exponent is in its period.
LEMMA InPeriod ==
  ASSUME NEW e \in Int
  PROVE  /\ e % Period \in 0 .. Period - 1
         /\ e % Period < N => e % Period \in Coef
         /\ ~(e % Period < N) => (e % Period) - N \in Coef
<1> DEFINE r == e % Period
<1>1. r \in 0 .. Period - 1
  BY PeriodIs, IntQuotient
<1> HIDE DEF r
<1>2. (r < N => r \in 0 .. N - 1) /\ (~(r < N) => r - N \in 0 .. N - 1)
  BY <1>1, PeriodIs
<1> QED
  BY <1>1, <1>2 DEF r, Coef

\* Whole periods change nothing.
LEMMA SamePlace ==
  ASSUME NEW e \in Int, NEW z \in Int
  PROVE  Period * z \in Int /\ (e + Period * z) % Period = e % Period
<1> DEFINE k == e \div Period
           r == e % Period
<1>1. k \in Int /\ r \in 0 .. Period - 1 /\ e = Period * k + r
  BY PeriodIs, IntQuotient
<1> HIDE DEF k, r
<1> DEFINE y == k + z
<1>2. Period \in Int
  BY PeriodIs
<1>3. Period * y = Period * k + Period * z /\ Period * z \in Int /\ Period * k \in Int /\ y \in Int
  BY <1>1, <1>2, SMT
<1> HIDE DEF y
<1>4. e + Period * z = Period * y + r
  BY <1>1, <1>3
<1> DEFINE x == e + Period * z
<1>5. x \in Int /\ x = Period * y + r
  BY <1>3, <1>4
<1> HIDE DEF x
<1>6. x % Period = r
  BY <1>1, <1>3, <1>5, PeriodIs, QuotientIs
<1> QED
  BY <1>3, <1>6 DEF x, r

\* Half a period further.
LEMMA HalfFurther ==
  ASSUME NEW e \in Int
  PROVE  (e + N) % Period = IF e % Period < N THEN (e % Period) + N ELSE (e % Period) - N
<1> DEFINE k == e \div Period
           r == e % Period
           x == e + N
<1>1. k \in Int /\ r \in 0 .. Period - 1 /\ e = Period * k + r
  BY PeriodIs, IntQuotient
<1> HIDE DEF k, r
<1>2. Period * k \in Int /\ Period * (k + 1) = Period * k + Period /\ k + 1 \in Int
  <2>1. Period \in Int
    BY PeriodIs
  <2> QED
    BY <1>1, <2>1, SMT
<1>3. CASE r < N
  <2>1. x = Period * k + (r + N) /\ r + N \in 0 .. Period - 1 /\ x \in Int
    BY <1>1, <1>2, <1>3, PeriodIs
  <2> HIDE DEF x
  <2>2. x % Period = r + N
    BY <1>1, <2>1, PeriodIs, QuotientIs
  <2> QED
    BY <1>3, <2>2 DEF x, r
<1>4. CASE ~(r < N)
  <2> DEFINE y == k + 1
  <2>1. x = Period * y + (r - N) /\ r - N \in 0 .. Period - 1 /\ x \in Int /\ y \in Int
    BY <1>1, <1>2, <1>4, PeriodIs
  <2> HIDE DEF x, y
  <2>2. x % Period = r - N
    BY <1>1, <2>1, PeriodIs, QuotientIs
  <2> QED
    BY <1>4, <2>2 DEF x, r
<1> QED
  BY <1>3, <1>4

\* A signal has a period of 2 N, and changes sign after N.
LEMMA SignalTurns ==
  ASSUME NEW A \in Signal, NEW e \in Int
  PROVE  /\ A[e] \in Int
         /\ A[e + N] = -A[e]
         /\ \A z \in Int : Period * z \in Int /\ A[e + Period * z] = A[e]
<1> DEFINE r == e % Period
<1>1. A = Unrolled(A) /\ A \in [Int -> Int]
  BY DEF Signal
<1>2. \A x \in Int : A[x] = IF x % Period < N THEN A[x % Period] ELSE -A[(x % Period) - N]
  <2> DEFINE B == Unrolled(A)
  <2>1. \A x \in Int : B[x] = IF x % Period < N THEN A[x % Period] ELSE -A[(x % Period) - N]
    BY DEF Unrolled
  <2>2. B = A
    BY <1>1
  <2> HIDE DEF B
  <2> QED
    BY <2>1, <2>2
<1>3. A[e + N] = -A[e]
  <2> DEFINE s == (e + N) % Period
  <2>1. r \in 0 .. Period - 1
    BY InPeriod
  <2>2. s = IF r < N THEN r + N ELSE r - N
    BY HalfFurther
  <2>3. /\ A[e] = IF r < N THEN A[r] ELSE -A[r - N]
        /\ A[e + N] = IF s < N THEN A[s] ELSE -A[s - N]
    <3>1. e + N \in Int
      BY PeriodIs
    <3> QED
      BY <1>2, <3>1
  <2> HIDE DEF r, s
  <2>4. CASE r < N
    <3>1. s = r + N /\ ~(s < N) /\ s - N = r
      BY <2>1, <2>2, <2>4, PeriodIs
    <3> QED
      BY <2>3, <2>4, <3>1
  <2>5. CASE ~(r < N)
    <3>1. s = r - N /\ s < N /\ r - N \in Int
      BY <2>1, <2>2, <2>5, PeriodIs
    <3>2. A[r - N] \in Int
      BY <1>1, <3>1
    <3> QED
      BY <2>3, <2>5, <3>1, <3>2
  <2> QED
    BY <2>4, <2>5
<1>4. ASSUME NEW z \in Int
      PROVE  Period * z \in Int /\ A[e + Period * z] = A[e]
  <2> DEFINE x == e + Period * z
  <2>1. Period * z \in Int /\ x % Period = r
    BY SamePlace
  <2>2. x \in Int
    BY <2>1
  <2> HIDE DEF x, r
  <2>3. A[x] = IF r < N THEN A[r] ELSE -A[r - N]
    BY <1>2, <2>1, <2>2
  <2>4. A[e] = IF r < N THEN A[r] ELSE -A[r - N]
    BY <1>2 DEF r
  <2> QED
    BY <2>1, <2>3, <2>4 DEF x
<1> QED
  BY <1>1, <1>3, <1>4

\* The unrolled form of a polynomial is a signal with its coefficients.
LEMMA UnrolledIs ==
  ASSUME NEW a, \A i \in Coef : a[i] \in Int
  PROVE  Unrolled(a) \in Signal /\ \A i \in Coef : Unrolled(a)[i] = a[i]
<1> DEFINE A == Unrolled(a)
<1>1. \A e \in Int : A[e] = IF e % Period < N THEN a[e % Period] ELSE -a[(e % Period) - N]
  BY DEF Unrolled
<1>2. ASSUME NEW e \in Int
      PROVE  A[e] \in Int
  <2> DEFINE r == e % Period
  <2>1. (r < N => r \in Coef) /\ (~(r < N) => r - N \in Coef)
    BY InPeriod
  <2>2. A[e] = IF r < N THEN a[r] ELSE -a[r - N]
    BY <1>1
  <2> HIDE DEF r, A
  <2> QED
    BY <2>1, <2>2
<1>3. ASSUME NEW i \in Coef
      PROVE  A[i] = a[i]
  <2>1. i \in Int /\ i \in 0 .. Period - 1 /\ i < N
    BY PeriodIs DEF Coef
  <2>2. i % Period = i
    <3>1. Period * 0 = 0 /\ 0 \in Int
      BY PeriodIs, SMT
    <3> QED
      BY <2>1, <3>1, PeriodIs, QuotientIs
  <2> HIDE DEF A
  <2> QED
    BY <1>1, <2>1, <2>2
<1>4. A = Unrolled(A)
  <2> DEFINE B == Unrolled(A)
  <2>1. \A e \in Int : B[e] = IF e % Period < N THEN A[e % Period] ELSE -A[(e % Period) - N]
    BY DEF Unrolled
  <2>2. ASSUME NEW e \in Int
        PROVE  A[e] = B[e]
    <3> DEFINE r == e % Period
    <3>1. (r < N => r \in Coef) /\ (~(r < N) => r - N \in Coef)
      BY InPeriod
    <3>2. A[e] = IF r < N THEN a[r] ELSE -a[r - N]
      BY <1>1
    <3>3. B[e] = IF r < N THEN A[r] ELSE -A[r - N]
      BY <2>1
    <3> HIDE DEF r, A, B
    <3> QED
      BY <1>3, <3>1, <3>2, <3>3
  <2>3. A = [e \in Int |-> A[e]] /\ B = [e \in Int |-> B[e]]
    BY DEF Unrolled
  <2> HIDE DEF A, B
  <2>4. A = B
    BY <2>2, <2>3
  <2> QED
    BY <2>4 DEF B
<1>5. A \in [Int -> Int]
  <2>1. A = [e \in Int |-> A[e]]
    BY DEF Unrolled
  <2> HIDE DEF A
  <2> QED
    BY <1>2, <2>1
<1> HIDE DEF A
<1>6. A \in Signal
  BY <1>4, <1>5 DEF Signal
<1> QED
  BY <1>3, <1>6 DEF A

\* Numbers that change sign after N make a signal.
LEMMA SignalIs ==
  ASSUME NEW A \in [Int -> Int],
         \A e \in Int : A[e] = IF e % Period < N THEN A[e % Period] ELSE -A[(e % Period) - N]
  PROVE  A \in Signal
<1> DEFINE B == Unrolled(A)
<1>1. \A e \in Int : A[e] = B[e]
  BY DEF Unrolled
<1>2. B = [e \in Int |-> B[e]] /\ A = [e \in Int |-> A[e]]
  BY DEF Unrolled
<1> HIDE DEF B
<1>3. A = B
  BY <1>1, <1>2
<1> QED
  BY <1>3 DEF Signal, B

\* Each exponent is in the first half of a period, or in the second.
LEMMA HalfOfPeriod ==
  ASSUME NEW e \in Int
  PROVE  \E z \in Int : \E i \in Coef :
           \/ e % Period < N /\ i = e % Period /\ e = i + Period * z /\ i \in Int
           \/ ~(e % Period < N) /\ i = (e % Period) - N /\ e = (i + N) + Period * z /\ i \in Int
<1> DEFINE k == e \div Period
           r == e % Period
           i == IF r < N THEN r ELSE r - N
<1>1. k \in Int /\ r \in 0 .. Period - 1 /\ e = Period * k + r
  BY PeriodIs, IntQuotient
<1>2. (r < N => r \in Coef) /\ (~(r < N) => r - N \in Coef)
  BY InPeriod
<1> HIDE DEF k, r
<1>3. Period * k \in Int
  BY <1>1, PeriodIs, IntProduct
<1>4. i \in Coef /\ i \in Int
  BY <1>1, <1>2, PeriodIs
<1>5. \/ r < N /\ i = r /\ e = i + Period * k
      \/ ~(r < N) /\ i = r - N /\ e = (i + N) + Period * k
  BY <1>1, <1>3, PeriodIs
<1> HIDE DEF i
<1> QED
  BY <1>1, <1>4, <1>5 DEF r

\* Signals that agree on the coefficients agree everywhere.
LEMMA AlikeIs ==
  ASSUME NEW A \in Signal, NEW B \in Signal, \A i \in Coef : Same(A[i], B[i])
  PROVE  Alike(A, B)
<1> SUFFICES ASSUME NEW e \in Int PROVE Same(A[e], B[e])
  BY DEF Alike
<1>1. PICK z \in Int, i \in Coef :
           \/ e = i + Period * z /\ i \in Int
           \/ e = (i + N) + Period * z /\ i \in Int
  BY HalfOfPeriod
<1>2. Same(A[i], B[i]) /\ A[i] \in Int /\ B[i] \in Int
  BY <1>1, SignalTurns
<1>3. CASE e = i + Period * z /\ i \in Int
  <2>1. A[e] = A[i] /\ B[e] = B[i]
    BY <1>3, SignalTurns, ZenonT(40)
  <2> QED
    BY <1>2, <2>1
<1>4. CASE e = (i + N) + Period * z /\ i \in Int
  <2> DEFINE x == i + N
  <2>1. x \in Int /\ A[x] = -A[i] /\ B[x] = -B[i]
    BY <1>4, PeriodIs, SignalTurns
  <2> HIDE DEF x
  <2>2. A[e] = A[x] /\ B[e] = B[x]
    BY <1>4, <2>1, SignalTurns, ZenonT(40) DEF x
  <2>3. A[e] = -A[i] /\ B[e] = -B[i]
    BY <2>1, <2>2
  <2> QED
    BY <1>2, <2>3, CongruentMinus, PeriodIs DEF Same
<1> QED
  BY <1>1, <1>3, <1>4

\* N exponents further a signal changes sign, and twice as many change nothing.
LEMMA SignalSteps ==
  ASSUME NEW A \in Signal, NEW e \in Int, NEW z \in Int
  PROVE  /\ N * z \in Int
         /\ \A m \in Int : /\ z = 2 * m => A[e + N * z] = A[e]
                           /\ z = 2 * m + 1 => A[e + N * z] = -A[e]
<1>1. N * z \in Int
  BY PeriodIs, IntProduct
<1>2. ASSUME NEW m \in Int
      PROVE  /\ z = 2 * m => A[e + N * z] = A[e]
             /\ z = 2 * m + 1 => A[e + N * z] = -A[e]
  <2>1. N \in Int /\ N * (2 * m) = (N + N) * m /\ N * (2 * m + 1) = N * (2 * m) + N
    BY PeriodIs, SMT
  <2>2. CASE z = 2 * m
    <3>1. N * z = Period * m
      BY <2>1, <2>2, PeriodIs
    <3> QED
      BY <2>2, <3>1, SignalTurns
  <2>3. CASE z = 2 * m + 1
    <3> DEFINE x == e + N
    <3>1. N * z = Period * m + N /\ Period * m \in Int
      BY <2>1, <2>3, PeriodIs, IntProduct
    <3>2. e + N * z = x + Period * m /\ x \in Int /\ A[x] = -A[e]
      BY <3>1, PeriodIs, SignalTurns
    <3> HIDE DEF x
    <3>3. A[x + Period * m] = A[x]
      BY <3>2, SignalTurns
    <3> QED
      BY <2>3, <3>2, <3>3
  <2> QED
    BY <2>2, <2>3
<1> QED
  BY <1>1, <1>2

\* Numbers that repeat after N.
Repeats(F) == F \in [Int -> Int] /\ \A k \in Int, z \in Int : F[k + N * z] = F[k]

\* The products that make one coefficient of a product of signals.
Terms(A, B, e) == [k \in Int |-> A[k] * B[e - k]]

\* The product of two signals.
Conv(A, B) == [e \in Int |-> Sum(Terms(A, B, e), N)]

\* Every number is even or odd.
LEMMA EvenOrOdd ==
  ASSUME NEW z \in Int
  PROVE  \E m \in Int : z = 2 * m \/ z = 2 * m + 1
<1> DEFINE m == z \div 2
           r == z % 2
<1>1. m \in Int /\ r \in 0 .. 1 /\ z = 2 * m + r
  BY IntQuotient
<1> HIDE DEF m, r
<1> QED
  BY <1>1

\* The signs of two factors cancel.
LEMMA TermsRepeat ==
  ASSUME NEW A \in Signal, NEW B \in Signal, NEW e \in Int
  PROVE  Repeats(Terms(A, B, e))
<1> DEFINE F == Terms(A, B, e)
<1>1. \A k \in Int : F[k] = A[k] * B[e - k]
  BY DEF Terms
<1>2. \A k \in Int : A[k] * B[e - k] \in Int
  <2>1. ASSUME NEW k \in Int PROVE A[k] * B[e - k] \in Int
    <3>1. A[k] \in Int /\ B[e - k] \in Int
      BY SignalTurns
    <3> QED
      BY <3>1, IntProduct
  <2> QED
    BY <2>1
<1>3. F \in [Int -> Int]
  BY <1>2 DEF Terms
<1> HIDE DEF F
<1>4. ASSUME NEW k \in Int, NEW z \in Int
      PROVE  F[k + N * z] = F[k]
  <2> DEFINE x == k + N * z
             y == -z
             d == e - k
  <2>1. /\ N * z \in Int /\ N * y \in Int /\ N * y = -(N * z)
        /\ y \in Int /\ d \in Int /\ x \in Int
    BY PeriodIs, SMT
  <2>2. e - x = d + N * y
    BY <2>1
  <2>3. F[x] = A[x] * B[d + N * y] /\ F[k] = A[k] * B[d]
    <3>1. F[x] = A[x] * B[e - x]
      BY <1>1, <2>1
    <3> QED
      BY <1>1, <2>2, <3>1
  <2>4. PICK m \in Int : z = 2 * m \/ z = 2 * m + 1
    BY EvenOrOdd
  <2>5. A[k] \in Int /\ B[d] \in Int
    BY <2>1, SignalTurns
  <2>6. CASE z = 2 * m
    <3> DEFINE w == -m
    <3>1. y = 2 * w /\ w \in Int
      BY <2>6
    <3> HIDE DEF y, w, d
    <3>2. B[d + N * y] = B[d]
      BY <2>1, <3>1, SignalSteps
    <3>3. A[x] = A[k]
      BY <2>6, SignalSteps
    <3> QED
      BY <2>3, <3>2, <3>3
  <2>7. CASE z = 2 * m + 1
    <3> DEFINE w == -m - 1
    <3>1. y = 2 * w + 1 /\ w \in Int
      BY <2>7
    <3> HIDE DEF y, w, d
    <3>2. B[d + N * y] = -B[d]
      BY <2>1, <3>1, SignalSteps
    <3>3. A[x] = -A[k]
      BY <2>7, SignalSteps
    <3> DEFINE a == A[k]
               b == B[d]
    <3>4. a \in Int /\ b \in Int /\ F[x] = (-a) * (-b) /\ F[k] = a * b
      BY <2>3, <2>5, <3>2, <3>3
    <3> HIDE DEF a, b
    <3>5. (-a) * (-b) = a * b
      BY <3>4, SMT
    <3> QED
      BY <3>4, <3>5
  <2> QED
    BY <2>4, <2>6, <2>7 DEF x
<1> QED
  BY <1>3, <1>4 DEF Repeats, F

\* Exponents taken modulo N.
LEMMA ModN ==
  ASSUME NEW x \in Int
  PROVE  x % N \in 0 .. N - 1 /\ x % N \in Int /\ \E z \in Int : x % N = x + N * z
<1> DEFINE k == x \div N
           r == x % N
           y == -k
<1>1. k \in Int /\ r \in 0 .. N - 1 /\ x = N * k + r
  BY PeriodIs, IntQuotient
<1> HIDE DEF k, r
<1>2. y \in Int /\ N * y = -(N * k) /\ N * k \in Int /\ r \in Int
  BY <1>1, PeriodIs, SMT
<1> HIDE DEF y
<1>3. r = x + N * y
  BY <1>1, <1>2
<1> QED
  BY <1>1, <1>2, <1>3 DEF r

\* A place is found again from a number it agrees with.
LEMMA ModNIs ==
  ASSUME NEW i \in 0 .. N - 1, NEW x \in Int, NEW z \in Int, x = i + N * z
  PROVE  x % N = i
<1>1. N * z \in Int /\ i \in Int
  BY PeriodIs, IntProduct
<1>2. x = N * z + i
  BY <1>1
<1> QED
  BY <1>2, PeriodIs, QuotientIs

\* Places taken to places by k -> h k + s, when h has an inverse modulo N.
LEMMA TurnReorders ==
  ASSUME NEW g \in Int, NEW h \in Int, NEW s \in Int, Congruent(g * h, 1, N),
         NEW p, \A k \in 0 .. N - 1 : p[k] = (h * k + s) % N,
         NEW r, \A k \in 0 .. N - 1 : r[k] = (g * (k - s)) % N
  PROVE  Reorders(p, r, N)
<1>1. PICK y \in Int : g * h = 1 + N * y
  BY DEF Congruent
<1>2. ASSUME NEW k \in 0 .. N - 1
      PROVE  p[k] \in 0 .. N - 1 /\ r[p[k]] = k
  <2> DEFINE x == h * k + s
  <2>1. x \in Int /\ p[k] = x % N /\ k \in Int
    BY PeriodIs, IntProduct
  <2> HIDE DEF x
  <2>2. PICK z \in Int : x % N = x + N * z
    BY <2>1, ModN
  <2>3. p[k] \in 0 .. N - 1
    BY <2>1, ModN
  <2> DEFINE j == p[k]
             w == y * k + g * z
             v == g * (j - s)
  <2>4. j \in Int /\ j - s = h * k + N * z
    <3>1. h * k \in Int /\ N * z \in Int
      BY <2>1, PeriodIs, IntProduct
    <3>2. j \in Int /\ j = (h * k + s) + N * z
      BY <2>1, <2>2, <2>3 DEF x
    <3> HIDE DEF j
    <3> QED
      BY <3>1, <3>2
  <2>5. v = g * (h * k + N * z)
    BY <2>4
  <2>6. g * (h * k + N * z) = (g * h) * k + N * (g * z)
    BY <2>1, PeriodIs, SMT
  <2>7. (1 + N * y) * k + N * (g * z) = k + N * (y * k + g * z)
    BY <2>1, PeriodIs, SMT
  <2>8. v = k + N * w /\ w \in Int /\ v \in Int
    <3>1. y * k \in Int /\ g * z \in Int
      BY <2>1, IntProduct
    <3>2. v = k + N * w
      BY <1>1, <2>5, <2>6, <2>7
    <3>3. w \in Int
      BY <3>1
    <3>4. j - s \in Int
      BY <2>4
    <3>5. v \in Int
      BY <3>4, IntProduct
    <3> QED
      BY <3>2, <3>3, <3>5
  <2> HIDE DEF v, w
  <2>9. v % N = k
    BY <2>8, ModNIs
  <2>10. r[j] = v % N
    BY <2>3 DEF v
  <2> QED
    BY <2>3, <2>9, <2>10
<1>3. ASSUME NEW k \in 0 .. N - 1
      PROVE  r[k] \in 0 .. N - 1 /\ p[r[k]] = k
  <2> DEFINE d == k - s
             x == g * d
  <2>1. x \in Int /\ r[k] = x % N /\ k \in Int /\ d \in Int
    BY PeriodIs, IntProduct
  <2> HIDE DEF x
  <2>2. PICK z \in Int : x % N = x + N * z
    BY <2>1, ModN
  <2>3. r[k] \in 0 .. N - 1
    BY <2>1, ModN
  <2> DEFINE j == r[k]
             w == y * d + h * z
             v == h * j + s
  <2> HIDE DEF d
  <2>4. v = h * (g * d + N * z) + s
    BY <2>1, <2>2 DEF x
  <2>5. h * (g * d + N * z) = (g * h) * d + N * (h * z)
    BY <2>1, PeriodIs, SMT
  <2>6. (1 + N * y) * d + N * (h * z) = d + N * (y * d + h * z)
    BY <2>1, PeriodIs, SMT
  <2>7. v = k + N * w /\ w \in Int /\ v \in Int
    <3>1. y * d \in Int /\ h * z \in Int
      BY <2>1, IntProduct
    <3>2. w \in Int /\ N * w \in Int
      BY <3>1, PeriodIs, IntProduct
    <3>3. v = (d + N * w) + s
      BY <1>1, <2>4, <2>5, <2>6
    <3>4. j \in Int
      BY <2>3
    <3>5. h * j \in Int
      BY <3>4, IntProduct
    <3>6. v \in Int
      BY <3>5
    <3> QED
      BY <2>1, <3>2, <3>3, <3>6 DEF d
  <2> HIDE DEF v, w
  <2>8. v % N = k
    BY <2>7, ModNIs
  <2>9. p[j] = v % N
    BY <2>3 DEF v
  <2> QED
    BY <2>3, <2>8, <2>9
<1> QED
  BY <1>2, <1>3 DEF Reorders

\* One of g and h is the inverse of the other modulo N.
Inverses(g, h) == Congruent(g * h, 1, N)

\* G has the numbers of F in the order k -> h k + s.
Turned(G, F, h, s) == \A k \in 0 .. N - 1 : G[k] = F[h * k + s]

\* Numbers that repeat have the same sum in the order k -> h k + s.
LEMMA SumTurned ==
  ASSUME NEW F, Repeats(F), NEW g \in Int, NEW h \in Int, NEW s \in Int,
         Inverses(g, h),
         NEW G, Turned(G, F, h, s)
  PROVE  Sum(G, N) = Sum(F, N)
<1> USE DEF Turned, Inverses
<1> DEFINE p == [k \in 0 .. N - 1 |-> (h * k + s) % N]
           r == [k \in 0 .. N - 1 |-> (g * (k - s)) % N]
<1>1. /\ \A k \in 0 .. N - 1 : p[k] = (h * k + s) % N
      /\ \A k \in 0 .. N - 1 : r[k] = (g * (k - s)) % N
  OBVIOUS
<1> HIDE DEF p, r
<1>2. Reorders(p, r, N)
  BY <1>1, TurnReorders
<1>3. \A k \in 0 .. N - 1 : F[k] \in Int
  BY PeriodIs DEF Repeats
<1>4. ASSUME NEW k \in 0 .. N - 1
      PROVE  G[k] = F[p[k]]
  <2> DEFINE x == h * k + s
  <2>1. x \in Int
    <3>1. k \in Int /\ h * k \in Int
      BY IntProduct
    <3> QED
      BY <3>1
  <2>2. p[k] = x % N /\ G[k] = F[x]
    BY <1>1
  <2> HIDE DEF x
  <2>3. PICK z \in Int : x % N = x + N * z
    BY <2>1, ModN
  <2>4. F[x + N * z] = F[x]
    BY <2>1 DEF Repeats
  <2> QED
    BY <2>2, <2>3, <2>4
<1> QED
  BY <1>2, <1>3, <1>4, PeriodIs, SumReordered

\* What the coefficients of a product are.
LEMMA ConvAt ==
  ASSUME NEW A \in Signal, NEW B \in Signal, NEW e \in Int
  PROVE  /\ Conv(A, B)[e] = Sum(Terms(A, B, e), N)
         /\ Conv(A, B)[e] \in Int
         /\ \A k \in Int : /\ Terms(A, B, e)[k] = A[k] * B[e - k]
                           /\ Terms(A, B, e)[k] \in Int
<1> DEFINE F == Terms(A, B, e)
<1>1. \A k \in Int : F[k] = A[k] * B[e - k]
  BY DEF Terms
<1>2. Conv(A, B)[e] = Sum(F, N)
  BY DEF Conv
<1>3. Repeats(F)
  BY TermsRepeat
<1> HIDE DEF F
<1>4. \A k \in Int : F[k] \in Int
  BY <1>3 DEF Repeats
<1>5. \A k \in 0 .. N - 1 : F[k] \in Int
  BY <1>4, PeriodIs
<1>6. Sum(F, N) \in Int
  BY <1>5, PeriodIs, SumIsInt
<1> QED
  BY <1>1, <1>2, <1>4, <1>6 DEF F

\* The product of signals is a signal.
LEMMA ConvIsSignal ==
  ASSUME NEW A \in Signal, NEW B \in Signal
  PROVE  Conv(A, B) \in Signal
<1> DEFINE C == Conv(A, B)
<1>1. C \in [Int -> Int]
  <2>1. \A e \in Int : C[e] \in Int
    BY ConvAt
  <2>2. C = [e \in Int |-> C[e]]
    BY DEF Conv
  <2> HIDE DEF C
  <2> QED
    BY <2>1, <2>2
<1>2. ASSUME NEW e \in Int
      PROVE  C[e] = IF e % Period < N THEN C[e % Period] ELSE -C[(e % Period) - N]
  <2> DEFINE F == Terms(A, B, e)
  <2>1. C[e] = Sum(F, N) /\ \A k \in Int : F[k] = A[k] * B[e - k]
    BY ConvAt, ZenonT(40)
  <2>2. PICK z \in Int, i \in Coef :
           \/ e % Period < N /\ i = e % Period /\ e = i + Period * z /\ i \in Int
           \/ ~(e % Period < N) /\ i = (e % Period) - N /\ e = (i + N) + Period * z /\ i \in Int
    BY HalfOfPeriod
  <2> DEFINE G == Terms(A, B, i)
  <2>3. i \in Int /\ Period * z \in Int
    BY <2>2, PeriodIs, IntProduct
  <2>4. C[i] = Sum(G, N) /\ \A k \in Int : G[k] = A[k] * B[i - k] /\ G[k] \in Int
    BY <2>3, ConvAt
  <2> HIDE DEF C, F, G
  <2>5. CASE e % Period < N
    <3>1. ASSUME NEW k \in 0 .. N - 1
          PROVE  F[k] = G[k]
      <4> DEFINE d == i - k
      <4>1. k \in Int /\ d \in Int /\ e - k = d + Period * z
        BY <2>2, <2>3, <2>5
      <4> HIDE DEF d
      <4>2. B[d + Period * z] = B[d]
        BY <4>1, SignalTurns
      <4> QED
        BY <2>1, <2>4, <4>1, <4>2 DEF d
    <3>2. Sum(F, N) = Sum(G, N)
      BY <3>1, PeriodIs, SumSame
    <3> QED
      BY <2>1, <2>2, <2>4, <2>5, <3>2
  <2>6. CASE ~(e % Period < N)
    <3>1. ASSUME NEW k \in 0 .. N - 1
          PROVE  G[k] \in Int /\ F[k] = (-1) * G[k]
      <4> DEFINE d == i - k
                 x == d + N
      <4>1. k \in Int /\ d \in Int /\ x \in Int /\ e - k = x + Period * z
        BY <2>2, <2>3, <2>6, PeriodIs
      <4>2. B[x] = -B[d]
        BY <4>1, SignalTurns
      <4> HIDE DEF x
      <4>3. B[x + Period * z] = B[x]
        BY <4>1, SignalTurns
      <4> DEFINE a == A[k]
                 b == B[d]
      <4>4. a \in Int /\ b \in Int
        BY <4>1, SignalTurns
      <4>5. F[k] = a * (-b) /\ G[k] = a * b /\ G[k] \in Int
        BY <2>1, <2>4, <4>1, <4>2, <4>3
      <4> HIDE DEF a, b
      <4>6. a * (-b) = (-1) * (a * b)
        BY <4>4, SMT
      <4> QED
        BY <4>5, <4>6
    <3>2. -1 \in Int
      OBVIOUS
    <3>3. Sum(F, N) = (-1) * Sum(G, N)
      BY <3>1, <3>2, PeriodIs, SumTimes
    <3>4. Sum(G, N) \in Int
      BY <3>1, PeriodIs, SumIsInt
    <3> QED
      BY <2>1, <2>2, <2>4, <2>6, <3>3, <3>4
  <2> QED
    BY <2>5, <2>6
<1> HIDE DEF C
<1>3. C \in Signal
  BY <1>1, <1>2, SignalIs
<1> QED
  BY <1>3 DEF C

\* Products of signals do not depend on the order of the factors.
LEMMA ConvCommutes ==
  ASSUME NEW A \in Signal, NEW B \in Signal, NEW e \in Int
  PROVE  Conv(A, B)[e] = Conv(B, A)[e]
<1> DEFINE F == Terms(A, B, e)
           G == Terms(B, A, e)
           h == -1
<1>1. Conv(A, B)[e] = Sum(F, N) /\ Conv(B, A)[e] = Sum(G, N) /\ Repeats(F)
  BY ConvAt, TermsRepeat
<1>2. ASSUME NEW k \in 0 .. N - 1
      PROVE  G[k] = F[h * k + e]
  <2> DEFINE x == h * k + e
  <2>1. k \in Int /\ x = e - k /\ x \in Int /\ e - x = k
    OBVIOUS
  <2>2. G[k] = B[k] * A[e - k]
    BY <2>1, ConvAt
  <2>3. F[x] = A[x] * B[e - x]
    BY <2>1, ConvAt
  <2> HIDE DEF x, F, G
  <2>4. A[x] \in Int /\ B[k] \in Int
    BY <2>1, SignalTurns
  <2>5. B[k] * A[x] = A[x] * B[k]
    BY <2>4, IntProduct
  <2> QED
    BY <2>1, <2>2, <2>3, <2>5 DEF x
<1>3. Inverses(h, h) /\ h \in Int
  <2>1. (-1) * (-1) = 1 + N * 0
    BY PeriodIs, SMT
  <2> QED
    BY <2>1 DEF Congruent, Inverses
<1> HIDE DEF F, G, h
<1>4. Turned(G, F, h, e)
  BY <1>2 DEF Turned
<1>5. Sum(G, N) = Sum(F, N)
  BY <1>1, <1>3, <1>4, SumTurned
<1> QED
  BY <1>1, <1>5

\* Products of signals may be taken in any order.
LEMMA ConvAssociates ==
  ASSUME NEW A \in Signal, NEW B \in Signal, NEW C \in Signal, NEW e \in Int
  PROVE  Conv(Conv(A, B), C)[e] = Conv(A, Conv(B, C))[e]
<1> DEFINE L == Conv(A, B)
           R == Conv(B, C)
           rows == Terms(L, C, e)
           cols == Terms(A, R, e)
           entry(j, k) == A[k] * (B[j - k] * C[e - j])
           table == [j \in 0 .. N - 1 |-> [k \in 0 .. N - 1 |-> entry(j, k)]]
           turned == [k \in 0 .. N - 1 |-> [j \in 0 .. N - 1 |-> entry(j, k)]]
<1>1. L \in Signal /\ R \in Signal
  BY ConvIsSignal
<1>2. Conv(L, C)[e] = Sum(rows, N) /\ Conv(A, R)[e] = Sum(cols, N)
  <2> HIDE DEF L, R
  <2> QED
    BY <1>1, ConvAt
<1>3. ASSUME NEW j \in 0 .. N - 1, NEW k \in 0 .. N - 1
      PROVE  table[j][k] \in Int /\ turned[k][j] = table[j][k] /\ table[j][k] = entry(j, k)
  <2> DEFINE x == j - k
             y == e - j
             a == A[k]
             b == B[x]
             c == C[y]
  <2>1. x \in Int /\ y \in Int /\ k \in Int
    OBVIOUS
  <2> HIDE DEF x, y
  <2>2. a \in Int /\ b \in Int /\ c \in Int
    BY <2>1, SignalTurns
  <2>3. entry(j, k) = a * (b * c)
    BY DEF x, y
  <2>4. table[j][k] = entry(j, k) /\ turned[k][j] = entry(j, k)
    OBVIOUS
  <2> HIDE DEF a, b, c, table, turned, entry
  <2>5. a * (b * c) \in Int
    BY <2>2, IntProduct
  <2> QED
    BY <2>3, <2>4, <2>5
<1> HIDE DEF table, turned
<1>4. ASSUME NEW j \in 0 .. N - 1
      PROVE  rows[j] = Sum(table[j], N)
  <2> DEFINE F == Terms(A, B, j)
             row == table[j]
             c == C[e - j]
  <2>1. j \in Int /\ e - j \in Int
    OBVIOUS
  <2>2. L[j] = Sum(F, N) /\ \A k \in Int : F[k] = A[k] * B[j - k] /\ F[k] \in Int
    BY <2>1, ConvAt
  <2>3. rows[j] = L[j] * c
    <3> HIDE DEF L
    <3> QED
      BY <1>1, <2>1, ConvAt
  <2>4. c \in Int
    BY <2>1, SignalTurns
  <2>5. ASSUME NEW k \in 0 .. N - 1
        PROVE  F[k] \in Int /\ row[k] = c * F[k]
    <3> DEFINE a == A[k]
               b == B[j - k]
    <3>1. k \in Int /\ j - k \in Int
      OBVIOUS
    <3>2. a \in Int /\ b \in Int /\ F[k] = a * b /\ F[k] \in Int
      BY <2>2, <3>1, SignalTurns
    <3>3. row[k] = a * (b * c)
      BY <1>3
    <3> HIDE DEF a, b, c, F, row
    <3>4. a * (b * c) = c * (a * b)
      BY <2>4, <3>2, SMT
    <3> QED
      BY <3>2, <3>3, <3>4
  <2>6. \A k \in 0 .. N - 1 : F[k] \in Int
    BY <2>5
  <2> HIDE DEF F, row, c
  <2>7. Sum(row, N) = c * Sum(F, N) /\ Sum(F, N) \in Int
    BY <2>4, <2>5, <2>6, PeriodIs, SumTimes, SumIsInt
  <2> DEFINE v == Sum(F, N)
  <2> HIDE DEF v
  <2>8. v * c = c * v
    BY <2>4, <2>7, IntProduct DEF v
  <2> QED
    BY <2>2, <2>3, <2>7, <2>8 DEF v, row
<1>5. ASSUME NEW k \in 0 .. N - 1
      PROVE  cols[k] = Sum(turned[k], N)
  <2> DEFINE d == e - k
             F == Terms(B, C, d)
             G == [j \in 0 .. N - 1 |-> B[j - k] * C[e - j]]
             column == turned[k]
             a == A[k]
             s == -k
  <2>1. k \in Int /\ d \in Int /\ s \in Int
    OBVIOUS
  <2>2. R[d] = Sum(F, N) /\ Repeats(F) /\ \A j \in Int : F[j] = B[j] * C[d - j]
    <3> HIDE DEF d
    <3>1. Conv(B, C)[d] = Sum(Terms(B, C, d), N)
      BY <2>1, ConvAt
    <3>2. Repeats(Terms(B, C, d))
      BY <2>1, TermsRepeat
    <3>3. \A j \in Int : Terms(B, C, d)[j] = B[j] * C[d - j]
      BY <2>1, ConvAt
    <3> QED
      BY <3>1, <3>2, <3>3
  <2>3. cols[k] = a * R[d]
    <3> HIDE DEF R
    <3> QED
      BY <1>1, <2>1, ConvAt
  <2>4. a \in Int
    BY <2>1, SignalTurns
  <2>5. ASSUME NEW j \in 0 .. N - 1
        PROVE  G[j] = F[1 * j + s] /\ G[j] \in Int /\ column[j] = a * G[j]
    <3> DEFINE x == j - k
               y == e - j
    <3>1. x \in Int /\ y \in Int /\ 1 * j + s = x /\ d - x = y
      OBVIOUS
    <3>2. G[j] = B[x] * C[y] /\ column[j] = a * (B[x] * C[y])
      BY <1>3
    <3>3. F[x] = B[x] * C[d - x]
      BY <2>2, <3>1
    <3> HIDE DEF x, y, d, s, a, G, F, column
    <3>4. B[x] \in Int /\ C[y] \in Int
      BY <3>1, SignalTurns
    <3>5. B[x] * C[y] \in Int
      BY <3>4, IntProduct
    <3> QED
      BY <3>1, <3>2, <3>3, <3>5
  <2>6. Inverses(1, 1) /\ 1 \in Int
    <3>1. 1 * 1 = 1 + N * 0
      BY PeriodIs, SMT
    <3> QED
      BY <3>1 DEF Congruent, Inverses
  <2> HIDE DEF F, G, a, s, column, d, R
  <2> DEFINE one == 1
  <2>7. Turned(G, F, one, s) /\ Inverses(one, one) /\ one \in Int
    BY <2>5, <2>6 DEF Turned
  <2> HIDE DEF one
  <2>8. Sum(G, N) = Sum(F, N)
    BY <2>1, <2>2, <2>7, SumTurned
  <2>9. Sum(column, N) = a * Sum(G, N)
    BY <2>4, <2>5, PeriodIs, SumTimes
  <2> QED
    BY <2>2, <2>3, <2>8, <2>9 DEF column
<1> HIDE DEF rows, cols, L, R, entry
<1>6. SumsOfTable(table, turned, N, N, rows, cols)
  BY <1>3, <1>4, <1>5 DEF SumsOfTable
<1>7. Sum(rows, N) = Sum(cols, N)
  BY <1>6, PeriodIs, SumSwap
<1> QED
  BY <1>2, <1>7 DEF L, R

\* A product with a sum is the sum of the products.
LEMMA ConvPlus ==
  ASSUME NEW A \in Signal, NEW B \in Signal, NEW C \in Signal, NEW D \in Signal,
         \A e \in Int : D[e] = B[e] + C[e], NEW e \in Int
  PROVE  Conv(A, D)[e] = Conv(A, B)[e] + Conv(A, C)[e]
<1> DEFINE F == Terms(A, B, e)
           G == Terms(A, C, e)
           H == Terms(A, D, e)
<1>1. /\ Conv(A, B)[e] = Sum(F, N) /\ Conv(A, C)[e] = Sum(G, N) /\ Conv(A, D)[e] = Sum(H, N)
      /\ \A k \in Int : F[k] = A[k] * B[e - k] /\ F[k] \in Int
      /\ \A k \in Int : G[k] = A[k] * C[e - k] /\ G[k] \in Int
      /\ \A k \in Int : H[k] = A[k] * D[e - k]
  <2>1. Conv(A, B)[e] = Sum(F, N) /\ Conv(A, C)[e] = Sum(G, N) /\ Conv(A, D)[e] = Sum(H, N)
    BY ConvAt
  <2>2. \A k \in Int : F[k] = A[k] * B[e - k] /\ F[k] \in Int
    BY ConvAt
  <2>3. \A k \in Int : G[k] = A[k] * C[e - k] /\ G[k] \in Int
    BY ConvAt
  <2>4. \A k \in Int : H[k] = A[k] * D[e - k]
    BY ConvAt
  <2> QED
    BY <2>1, <2>2, <2>3, <2>4
<1> HIDE DEF F, G, H
<1>2. ASSUME NEW k \in 0 .. N - 1
      PROVE  F[k] \in Int /\ G[k] \in Int /\ H[k] = F[k] + G[k]
  <2> DEFINE d == e - k
  <2>1. k \in Int /\ d \in Int
    OBVIOUS
  <2>2. /\ F[k] = A[k] * B[d] /\ G[k] = A[k] * C[d] /\ H[k] = A[k] * D[d]
        /\ F[k] \in Int /\ G[k] \in Int
    BY <1>1, <2>1
  <2> HIDE DEF d
  <2> DEFINE a == A[k]
             b == B[d]
             c == C[d]
  <2>3. a \in Int /\ b \in Int /\ c \in Int /\ D[d] = b + c
    BY <2>1, SignalTurns
  <2> HIDE DEF a, b, c
  <2>4. a * (b + c) = a * b + a * c
    BY <2>3, SMT
  <2> QED
    BY <2>2, <2>3, <2>4 DEF a, b, c
<1>3. Sum(H, N) = Sum(F, N) + Sum(G, N)
  BY <1>2, PeriodIs, SumPlus
<1> QED
  BY <1>1, <1>3

\* C has the numbers of A in steps of h.
InSteps(C, A, h) == \A e \in Int : C[e] = A[e * h]

\* X -> X^g of two factors is X -> X^g of their product.
LEMMA ConvTurns ==
  ASSUME NEW A \in Signal, NEW B \in Signal, NEW C \in Signal, NEW D \in Signal,
         NEW g \in Int, NEW h \in Int, Inverses(g, h),
         InSteps(C, A, h), InSteps(D, B, h), NEW e \in Int
  PROVE  Conv(C, D)[e] = Conv(A, B)[e * h]
<1> USE DEF InSteps
<1> DEFINE x == e * h
           F == Terms(A, B, x)
           G == Terms(C, D, e)
           zero == 0
<1>1. x \in Int /\ zero \in Int
  BY IntProduct
<1> HIDE DEF x
<1>2. Conv(A, B)[x] = Sum(F, N) /\ Conv(C, D)[e] = Sum(G, N)
  BY <1>1, ConvAt, ZenonT(40)
<1>3. \A k \in Int : F[k] = A[k] * B[x - k]
  BY <1>1, ConvAt
<1>4. \A k \in Int : G[k] = C[k] * D[e - k]
  BY ConvAt
<1>5. Repeats(F)
  BY <1>1, TermsRepeat
<1> HIDE DEF F, G
<1>6. ASSUME NEW k \in 0 .. N - 1
      PROVE  G[k] = F[h * k + zero]
  <2> DEFINE y == k * h
             d == e - k
  <2>1. k \in Int /\ d \in Int /\ y \in Int /\ h * k = y /\ d * h = x - y
    <3>1. k \in Int
      OBVIOUS
    <3>2. y \in Int /\ h * k = y
      BY <3>1, IntProduct
    <3>3. (e - k) * h = e * h - k * h
      BY <3>1, SMT
    <3> QED
      BY <3>1, <3>2, <3>3 DEF x
  <2>2. G[k] = C[k] * D[d] /\ C[k] = A[y] /\ D[d] = B[d * h]
    BY <1>4, <2>1
  <2>3. F[y] = A[y] * B[x - y]
    BY <1>3, <2>1
  <2>4. h * k + zero = y
    BY <2>1
  <2> HIDE DEF y, d
  <2> QED
    BY <2>1, <2>2, <2>3, <2>4
<1> HIDE DEF zero
<1>7. Turned(G, F, h, zero)
  BY <1>6 DEF Turned
<1>8. Sum(G, N) = Sum(F, N)
  BY <1>1, <1>5, <1>7, SumTurned
<1> QED
  BY <1>2, <1>8 DEF x

\* A factor moved by X^s moves the product.
LEMMA ConvShifts ==
  ASSUME NEW A \in Signal, NEW B \in Signal, NEW C \in Signal, NEW s \in Int,
         \A e \in Int : C[e] = A[e - s], NEW e \in Int
  PROVE  Conv(C, B)[e] = Conv(A, B)[e - s]
<1> DEFINE x == e - s
           F == Terms(A, B, x)
           G == Terms(C, B, e)
           one == 1
           t == -s
<1>1. x \in Int /\ one \in Int /\ t \in Int /\ Inverses(one, one)
  <2>1. 1 * 1 = 1 + N * 0
    BY PeriodIs, SMT
  <2> QED
    BY <2>1 DEF Congruent, Inverses
<1> HIDE DEF x
<1>2. Conv(A, B)[x] = Sum(F, N) /\ Conv(C, B)[e] = Sum(G, N)
  BY <1>1, ConvAt
<1>3. \A k \in Int : F[k] = A[k] * B[x - k]
  BY <1>1, ConvAt
<1>4. \A k \in Int : G[k] = C[k] * B[e - k]
  BY ConvAt
<1>5. Repeats(F)
  BY <1>1, TermsRepeat
<1> HIDE DEF F, G
<1>6. ASSUME NEW k \in 0 .. N - 1
      PROVE  G[k] = F[one * k + t]
  <2> DEFINE y == k - s
  <2>1. k \in Int /\ y \in Int /\ one * k + t = y /\ x - y = e - k
    BY DEF x
  <2>2. G[k] = C[k] * B[e - k] /\ C[k] = A[y]
    BY <1>4, <2>1
  <2>3. F[y] = A[y] * B[x - y]
    BY <1>3, <2>1
  <2> HIDE DEF y
  <2> QED
    BY <2>1, <2>2, <2>3
<1> HIDE DEF one, t
<1>7. Turned(G, F, one, t)
  BY <1>6 DEF Turned
<1>8. Sum(G, N) = Sum(F, N)
  BY <1>1, <1>5, <1>7, SumTurned
<1> QED
  BY <1>2, <1>8 DEF x

\* A multiple of a factor gives the multiple of the product.
LEMMA ConvScales ==
  ASSUME NEW A \in Signal, NEW B \in Signal, NEW C \in Signal, NEW c \in Int,
         \A e \in Int : C[e] = c * A[e], NEW e \in Int
  PROVE  Conv(C, B)[e] = c * Conv(A, B)[e]
<1> DEFINE F == Terms(A, B, e)
           G == Terms(C, B, e)
<1>1. Conv(A, B)[e] = Sum(F, N) /\ Conv(C, B)[e] = Sum(G, N)
  BY ConvAt
<1>2. \A k \in Int : F[k] = A[k] * B[e - k] /\ F[k] \in Int
  BY ConvAt
<1>3. \A k \in Int : G[k] = C[k] * B[e - k]
  BY ConvAt
<1> HIDE DEF F, G
<1>4. ASSUME NEW k \in 0 .. N - 1
      PROVE  F[k] \in Int /\ G[k] = c * F[k]
  <2> DEFINE a == A[k]
             b == B[e - k]
  <2>1. k \in Int /\ e - k \in Int
    OBVIOUS
  <2>2. a \in Int /\ b \in Int
    BY <2>1, SignalTurns
  <2>3. F[k] = a * b /\ F[k] \in Int /\ G[k] = (c * a) * b
    BY <1>2, <1>3, <2>1
  <2> HIDE DEF a, b
  <2>4. (c * a) * b = c * (a * b)
    BY <2>2, SMT
  <2> QED
    BY <2>3, <2>4
<1>5. Sum(G, N) = c * Sum(F, N)
  BY <1>4, PeriodIs, SumTimes
<1> QED
  BY <1>1, <1>5

\* Factors that agree have products that agree.
LEMMA ConvAlike ==
  ASSUME NEW A \in Signal, NEW B \in Signal, NEW C \in Signal, NEW D \in Signal,
         Alike(A, C), Alike(B, D)
  PROVE  Alike(Conv(A, B), Conv(C, D))
<1> SUFFICES ASSUME NEW e \in Int PROVE Same(Conv(A, B)[e], Conv(C, D)[e])
  BY DEF Alike
<1> DEFINE F == Terms(A, B, e)
           G == Terms(C, D, e)
<1>1. Conv(A, B)[e] = Sum(F, N) /\ Conv(C, D)[e] = Sum(G, N)
  BY ConvAt
<1>2. \A k \in Int : F[k] = A[k] * B[e - k] /\ F[k] \in Int
  BY ConvAt
<1>3. \A k \in Int : G[k] = C[k] * D[e - k] /\ G[k] \in Int
  BY ConvAt
<1> HIDE DEF F, G
<1>4. ASSUME NEW k \in 0 .. N - 1
      PROVE  F[k] \in Int /\ G[k] \in Int /\ Congruent(F[k], G[k], Q)
  <2> DEFINE a == A[k]
             b == B[e - k]
             c == C[k]
             d == D[e - k]
  <2>1. k \in Int /\ e - k \in Int
    OBVIOUS
  <2>2. a \in Int /\ b \in Int /\ c \in Int /\ d \in Int
    BY <2>1, SignalTurns
  <2>3. Congruent(a, c, Q) /\ Congruent(b, d, Q)
    BY <2>1 DEF Alike, Same
  <2>4. F[k] = a * b /\ F[k] \in Int /\ G[k] = c * d /\ G[k] \in Int
    BY <1>2, <1>3, <2>1
  <2> HIDE DEF a, b, c, d
  <2>5. Congruent(a * b, c * d, Q)
    BY <2>2, <2>3, PeriodIs, CongruentProduct
  <2> QED
    BY <2>4, <2>5
<1>5. Congruent(Sum(F, N), Sum(G, N), Q)
  BY <1>4, PeriodIs, SumsCongruent
<1> QED
  BY <1>1, <1>5 DEF Same

-----------------------------------------------------------------------------
(* Numbers modulo Q *)

\* The model's sums are those of the lemmas.
LEMMA SumUpToIs ==
  ASSUME NEW f, NEW n \in Nat
  PROVE  SumUpTo(f, n) = Sum(f, n)
BY DEF SumUpTo, Sum, PartialSums, AddsUp

\* A rest agrees with its number.
LEMMA SameRest ==
  ASSUME NEW x \in Int
  PROVE  x % Q \in 0 .. Q - 1 /\ x % Q \in Int /\ Same(x % Q, x) /\ Same(x, x % Q)
<1>1. x % Q \in 0 .. Q - 1
  BY PeriodIs, IntQuotient
<1> QED
  BY <1>1, PeriodIs, CongruentRest DEF Same

\* Agreement modulo Q is transitive, symmetric and reflexive.
LEMMA SameTrans ==
  ASSUME NEW x \in Int, NEW y \in Int, NEW z \in Int, Same(x, y), Same(y, z)
  PROVE  Same(x, z)
BY PeriodIs, CongruentTrans DEF Same

\* ... symmetric ...
LEMMA SameBack ==
  ASSUME NEW x \in Int, NEW y \in Int, Same(x, y)
  PROVE  Same(y, x)
BY PeriodIs, CongruentBack DEF Same

\* ... and reflexive.
LEMMA SameIt ==
  ASSUME NEW x \in Int
  PROVE  Same(x, x)
<1>1. x = x + Q * 0
  BY PeriodIs, SMT
<1> QED
  BY <1>1 DEF Same, Congruent

\* It is kept by sums and differences ...
LEMMA SameSum ==
  ASSUME NEW x \in Int, NEW y \in Int, NEW v \in Int, NEW w \in Int, Same(x, y), Same(v, w)
  PROVE  Same(x + v, y + w) /\ Same(x - v, y - w)
<1>1. Same(x + v, y + w)
  BY PeriodIs, CongruentSum DEF Same
<1>2. Same(-v, -w)
  BY PeriodIs, CongruentMinus DEF Same
<1> DEFINE a == -v
           b == -w
<1>3. a \in Int /\ b \in Int /\ x + a = x - v /\ y + b = y - w /\ Same(a, b)
  BY <1>2
<1> HIDE DEF a, b
<1>4. Same(x + a, y + b)
  BY <1>3, PeriodIs, CongruentSum DEF Same
<1> QED
  BY <1>1, <1>3, <1>4

\* ... and by products.
LEMMA SameProduct ==
  ASSUME NEW x \in Int, NEW y \in Int, NEW v \in Int, NEW w \in Int, Same(x, y), Same(v, w)
  PROVE  Same(x * v, y * w)
BY PeriodIs, CongruentProduct DEF Same

\* Numbers that agree have the same rest.
LEMMA RestSame ==
  ASSUME NEW x \in Int, NEW y \in Int, Same(x, y)
  PROVE  x % Q = y % Q
<1> DEFINE k == y \div Q
           r == y % Q
<1>1. k \in Int /\ r \in 0 .. Q - 1 /\ y = Q * k + r
  BY PeriodIs, IntQuotient
<1>2. PICK z \in Int : x = y + Q * z
  BY DEF Same, Congruent
<1> HIDE DEF k, r
<1> DEFINE w == k + z
<1>3. w \in Int /\ Q * w = Q * k + Q * z /\ Q * k \in Int /\ Q * z \in Int
  BY <1>1, PeriodIs, SMT
<1> HIDE DEF w
<1>4. x = Q * w + r
  BY <1>1, <1>2, <1>3
<1>5. x % Q = r
  BY <1>1, <1>3, <1>4, PeriodIs, QuotientIs
<1> QED
  BY <1>5 DEF r

\* Rests that agree are the same.
LEMMA SameIs ==
  ASSUME NEW x \in 0 .. Q - 1, NEW y \in 0 .. Q - 1, Same(x, y)
  PROVE  x = y
<1>1. \A v \in 0 .. Q - 1 : v % Q = v /\ v \in Int
  <2>1. ASSUME NEW v \in 0 .. Q - 1 PROVE v % Q = v
    <3>1. v = Q * 0 + v /\ v \in Int /\ 0 \in Int
      BY PeriodIs, SMT
    <3> QED
      BY <3>1, PeriodIs, QuotientIs
  <2> QED
    BY <2>1
<1>2. x % Q = y % Q
  BY <1>1, RestSame
<1> QED
  BY <1>1, <1>2

-----------------------------------------------------------------------------
(* Polynomials *)

\* The coefficients of a polynomial are those of a signal.
LEMMA PolyIs ==
  ASSUME NEW a \in Poly
  PROVE  /\ Unrolled(a) \in Signal
         /\ \A i \in Coef : a[i] \in 0 .. Q - 1 /\ a[i] \in Int /\ Unrolled(a)[i] = a[i]
<1>1. \A i \in Coef : a[i] \in 0 .. Q - 1 /\ a[i] \in Int
  BY PeriodIs DEF Poly
<1> QED
  BY <1>1, UnrolledIs

\* At reads the signal of a polynomial, modulo Q.
LEMMA AtIs ==
  ASSUME NEW a \in Poly, NEW e \in Int
  PROVE  /\ At(a, e) \in 0 .. Q - 1 /\ At(a, e) \in Int
         /\ Same(At(a, e), Unrolled(a)[e]) /\ At(a, e) = Unrolled(a)[e] % Q
<1> DEFINE r == e % Period
           A == Unrolled(a)
<1>1. (r < N => r \in Coef) /\ (~(r < N) => r - N \in Coef)
  BY InPeriod
<1>2. A[e] = IF r < N THEN a[r] ELSE -a[r - N]
  BY DEF Unrolled
<1>3. At(a, e) = IF r < N THEN a[r] ELSE (-a[r - N]) % Q
  BY DEF At, Period
<1>4. \A i \in Coef : a[i] \in 0 .. Q - 1 /\ a[i] \in Int
  BY PolyIs
<1> HIDE DEF r, A
<1>5. CASE r < N
  <2> DEFINE v == a[r]
  <2>1. v \in 0 .. Q - 1 /\ v \in Int /\ At(a, e) = v /\ A[e] = v
    BY <1>1, <1>2, <1>3, <1>4, <1>5
  <2> HIDE DEF v
  <2>2. v % Q \in 0 .. Q - 1 /\ Same(v % Q, v) /\ Same(v, v)
    BY <2>1, SameRest, SameIt
  <2>3. v % Q = v
    BY <2>1, <2>2, SameIs
  <2> QED
    BY <2>1, <2>2, <2>3 DEF A
<1>6. CASE ~(r < N)
  <2> DEFINE v == -a[r - N]
  <2>1. v \in Int /\ At(a, e) = v % Q /\ A[e] = v
    BY <1>1, <1>2, <1>3, <1>4, <1>6
  <2> HIDE DEF v
  <2> QED
    BY <2>1, SameRest DEF A
<1> QED
  BY <1>5, <1>6

\* A polynomial whose coefficients agree with a signal has that signal.
LEMMA LiftIs ==
  ASSUME NEW a \in Poly, NEW A \in Signal, \A i \in Coef : Same(a[i], A[i])
  PROVE  Alike(Unrolled(a), A)
BY PolyIs, AlikeIs

\* Polynomials with signals that agree are the same.
LEMMA PolySame ==
  ASSUME NEW a \in Poly, NEW b \in Poly, \A i \in Coef : Same(Unrolled(a)[i], Unrolled(b)[i])
  PROVE  a = b
<1>1. \A i \in Coef : a[i] = b[i]
  BY PolyIs, SameIs
<1>2. a = [i \in Coef |-> a[i]] /\ b = [i \in Coef |-> b[i]]
  BY DEF Poly
<1> QED
  BY <1>1, <1>2

\* Signals that agree with a third agree.
LEMMA AlikeTrans ==
  ASSUME NEW A \in Signal, NEW B \in Signal, NEW C \in Signal, Alike(A, B), Alike(B, C)
  PROVE  Alike(A, C)
<1>1. ASSUME NEW e \in Int PROVE Same(A[e], C[e])
  <2>1. A[e] \in Int /\ B[e] \in Int /\ C[e] \in Int
    BY SignalTurns
  <2>2. Same(A[e], B[e]) /\ Same(B[e], C[e])
    BY DEF Alike
  <2> QED
    BY <2>1, <2>2, SameTrans
<1> QED
  BY <1>1 DEF Alike

\* Signals that agree do so both ways.
LEMMA AlikeBack ==
  ASSUME NEW A \in Signal, NEW B \in Signal, Alike(A, B)
  PROVE  Alike(B, A)
<1>1. ASSUME NEW e \in Int PROVE Same(B[e], A[e])
  <2>1. A[e] \in Int /\ B[e] \in Int
    BY SignalTurns
  <2> QED
    BY <2>1, SameBack DEF Alike
<1> QED
  BY <1>1 DEF Alike

\* Polynomials whose coefficients agree are the same.
LEMMA CoefsSame ==
  ASSUME NEW a \in Poly, NEW b \in Poly, \A i \in Coef : Same(a[i], b[i])
  PROVE  a = b
<1>1. \A i \in Coef : a[i] = b[i]
  BY PolyIs, SameIs
<1>2. a = [i \in Coef |-> a[i]] /\ b = [i \in Coef |-> b[i]]
  BY DEF Poly
<1> QED
  BY <1>1, <1>2

\* The coefficients of the sum, of the difference and of a multiple.
LEMMA PlusIs ==
  ASSUME NEW a \in Poly, NEW b \in Poly
  PROVE  /\ Plus(a, b) \in Poly /\ Minus(a, b) \in Poly
         /\ \A i \in Coef : /\ Same(Plus(a, b)[i], a[i] + b[i])
                            /\ Same(Minus(a, b)[i], a[i] - b[i])
<1>1. \A i \in Coef : a[i] \in Int /\ b[i] \in Int
  BY PolyIs
<1>2. \A i \in Coef : /\ (a[i] + b[i]) % Q \in 0 .. Q - 1 /\ (a[i] - b[i]) % Q \in 0 .. Q - 1
                      /\ Same((a[i] + b[i]) % Q, a[i] + b[i])
                      /\ Same((a[i] - b[i]) % Q, a[i] - b[i])
  BY <1>1, SameRest
<1> QED
  BY <1>2 DEF Plus, Minus, Poly

\* A multiple of a polynomial, coefficient by coefficient.
LEMMA ScaleIs ==
  ASSUME NEW a \in Poly, NEW c \in Int
  PROVE  /\ Scale(c, a) \in Poly
         /\ \A i \in Coef : Same(Scale(c, a)[i], c * a[i])
<1>1. \A i \in Coef : c * a[i] \in Int
  BY PolyIs, IntProduct
<1>2. \A i \in Coef : (c * a[i]) % Q \in 0 .. Q - 1 /\ Same((c * a[i]) % Q, c * a[i])
  BY <1>1, SameRest
<1> QED
  BY <1>2 DEF Scale, Poly

\* The polynomial nothing is added to.
LEMMA ZeroIs == Zero \in Poly /\ \A i \in Coef : Zero[i] = 0
BY PeriodIs DEF Zero, Poly

\* Sums do not depend on the order, nor on what is added first.
LEMMA PlusLaws ==
  ASSUME NEW a \in Poly, NEW b \in Poly
  PROVE  /\ Plus(a, b) = Plus(b, a)
         /\ Plus(a, Zero) = a
         /\ Plus(Zero, a) = a
         /\ Plus(Minus(a, b), b) = a
<1>1. \A i \in Coef : a[i] \in Int /\ b[i] \in Int
  BY PolyIs
<1>2. Plus(a, b) = Plus(b, a)
  <2>1. \A i \in Coef : a[i] + b[i] = b[i] + a[i]
    BY <1>1
  <2> QED
    BY <2>1 DEF Plus
<1>3. Plus(a, Zero) = a
  <2>1. Plus(a, Zero) \in Poly
    BY ZeroIs, PlusIs
  <2>2. \A i \in Coef : Same(Plus(a, Zero)[i], a[i])
    <3>1. \A i \in Coef : Same(Plus(a, Zero)[i], a[i] + Zero[i]) /\ a[i] + Zero[i] = a[i]
      BY <1>1, ZeroIs, PlusIs
    <3> QED
      BY <3>1
  <2> QED
    BY <2>1, <2>2, CoefsSame
<1>4. Plus(Zero, a) = a
  <2>1. Plus(Zero, a) \in Poly
    BY ZeroIs, PlusIs
  <2>2. \A i \in Coef : Same(Plus(Zero, a)[i], a[i])
    <3>1. \A i \in Coef : Same(Plus(Zero, a)[i], Zero[i] + a[i]) /\ Zero[i] + a[i] = a[i]
      BY <1>1, ZeroIs, PlusIs
    <3> QED
      BY <3>1
  <2> QED
    BY <2>1, <2>2, CoefsSame
<1>5. Plus(Minus(a, b), b) = a
  <2> DEFINE d == Minus(a, b)
  <2>1. d \in Poly /\ \A i \in Coef : Same(d[i], a[i] - b[i])
    BY PlusIs
  <2> HIDE DEF d
  <2>2. Plus(d, b) \in Poly
    BY <2>1, PlusIs
  <2>3. ASSUME NEW i \in Coef
        PROVE  Same(Plus(d, b)[i], a[i])
    <3>1. d[i] \in Int /\ a[i] \in Int /\ b[i] \in Int /\ Plus(d, b)[i] \in Int
      BY <2>1, <2>2, PolyIs
    <3>2. Same(Plus(d, b)[i], d[i] + b[i])
      BY <2>1, PlusIs
    <3>3. Same(d[i] + b[i], (a[i] - b[i]) + b[i])
      <4>1. Same(d[i], a[i] - b[i]) /\ Same(b[i], b[i]) /\ a[i] - b[i] \in Int
        BY <2>1, <3>1, SameIt
      <4> QED
        BY <3>1, <4>1, SameSum
    <3>4. (a[i] - b[i]) + b[i] = a[i] /\ d[i] + b[i] \in Int
      BY <3>1
    <3> QED
      BY <3>1, <3>2, <3>3, <3>4, SameTrans
  <2> QED
    BY <2>2, <2>3, CoefsSame DEF d
<1> QED
  BY <1>2, <1>3, <1>4, <1>5

\* Sums of polynomials associate.
LEMMA PlusAssociates ==
  ASSUME NEW a \in Poly, NEW b \in Poly, NEW c \in Poly
  PROVE  Plus(Plus(a, b), c) = Plus(a, Plus(b, c))
<1> DEFINE d == Plus(a, b)
           f == Plus(b, c)
<1>1. d \in Poly /\ \A i \in Coef : Same(d[i], a[i] + b[i])
  BY PlusIs
<1>2. f \in Poly /\ \A i \in Coef : Same(f[i], b[i] + c[i])
  BY PlusIs
<1> HIDE DEF d, f
<1> DEFINE l == Plus(d, c)
           r == Plus(a, f)
<1>3. l \in Poly /\ \A i \in Coef : Same(l[i], d[i] + c[i])
  BY <1>1, PlusIs
<1>4. r \in Poly /\ \A i \in Coef : Same(r[i], a[i] + f[i])
  BY <1>2, PlusIs
<1> HIDE DEF l, r
<1>5. ASSUME NEW i \in Coef
      PROVE  Same(l[i], r[i])
  <2> DEFINE x == a[i]
             y == b[i]
             z == c[i]
             v == d[i]
             w == f[i]
             t == (x + y) + z
  <2>1. /\ x \in Int /\ y \in Int /\ z \in Int /\ v \in Int /\ w \in Int
        /\ l[i] \in Int /\ r[i] \in Int
    BY <1>1, <1>2, <1>3, <1>4, PolyIs
  <2>2. Same(v, x + y) /\ Same(w, y + z) /\ Same(l[i], v + z) /\ Same(r[i], x + w)
    BY <1>1, <1>2, <1>3, <1>4
  <2> HIDE DEF x, y, z, v, w
  <2>3. Same(v + z, (x + y) + z)
    BY <2>1, <2>2, SameIt, SameSum
  <2>4. Same(x + w, x + (y + z))
    BY <2>1, <2>2, SameIt, SameSum
  <2>5. x + (y + z) = t /\ t \in Int /\ v + z \in Int /\ x + w \in Int
    BY <2>1
  <2>6. Same(l[i], t)
    BY <2>1, <2>2, <2>3, <2>5, SameTrans
  <2>7. Same(r[i], t)
    BY <2>1, <2>2, <2>4, <2>5, SameTrans
  <2> HIDE DEF t
  <2>8. Same(t, r[i])
    BY <2>1, <2>5, <2>7, SameBack
  <2> QED
    BY <2>1, <2>5, <2>6, <2>8, SameTrans
<1>6. l = r
  BY <1>3, <1>4, <1>5, CoefsSame
<1> QED
  BY <1>6 DEF l, r, d, f

\* The sum of signals is a signal.
LEMMA SumOfSignals ==
  ASSUME NEW A \in Signal, NEW B \in Signal
  PROVE  [e \in Int |-> A[e] + B[e]] \in Signal
<1> DEFINE D == [e \in Int |-> A[e] + B[e]]
<1>1. \A e \in Int : D[e] = A[e] + B[e] /\ A[e] \in Int /\ B[e] \in Int
  BY SignalTurns
<1>2. D \in [Int -> Int]
  BY <1>1
<1> HIDE DEF D
<1>3. ASSUME NEW e \in Int
      PROVE  D[e] = IF e % Period < N THEN D[e % Period] ELSE -D[(e % Period) - N]
  <2>1. PICK z \in Int, i \in Coef :
           \/ e % Period < N /\ i = e % Period /\ e = i + Period * z /\ i \in Int
           \/ ~(e % Period < N) /\ i = (e % Period) - N /\ e = (i + N) + Period * z /\ i \in Int
    BY HalfOfPeriod
  <2>2. i \in Int
    BY <2>1
  <2>3. CASE e % Period < N
    <3>1. A[i + Period * z] = A[i] /\ B[i + Period * z] = B[i]
      BY <2>2, SignalTurns
    <3> QED
      BY <1>1, <2>1, <2>2, <2>3, <3>1
  <2>4. CASE ~(e % Period < N)
    <3> DEFINE x == i + N
    <3>1. x \in Int /\ A[x] = -A[i] /\ B[x] = -B[i]
      BY <2>2, PeriodIs, SignalTurns
    <3>2. e = x + Period * z
      BY <2>1, <2>4
    <3> HIDE DEF x
    <3>3. A[x + Period * z] = A[x] /\ B[x + Period * z] = B[x]
      BY <3>1, SignalTurns
    <3>4. D[e] = -(A[i] + B[i]) /\ D[i] = A[i] + B[i]
      <4>1. D[e] = A[e] + B[e] /\ A[e] = -A[i] /\ B[e] = -B[i] /\ A[i] \in Int /\ B[i] \in Int
        BY <1>1, <2>2, <3>1, <3>2, <3>3
      <4>2. D[i] = A[i] + B[i]
        BY <1>1, <2>2
      <4> QED
        BY <4>1, <4>2
    <3> QED
      BY <2>1, <2>4, <3>4
  <2> QED
    BY <2>3, <2>4
<1>4. D \in Signal
  BY <1>2, <1>3, SignalIs
<1> QED
  BY <1>4 DEF D

\* The sum of polynomials has the sum of their signals.
LEMMA PlusUnrolled ==
  ASSUME NEW a \in Poly, NEW b \in Poly, NEW D \in Signal,
         \A e \in Int : D[e] = Unrolled(a)[e] + Unrolled(b)[e]
  PROVE  Alike(Unrolled(Plus(a, b)), D)
<1>1. ASSUME NEW i \in Coef PROVE Same(Plus(a, b)[i], D[i])
  <2>1. i \in Int
    BY PeriodIs DEF Coef
  <2>2. D[i] = a[i] + b[i]
    BY <2>1, PolyIs
  <2> QED
    BY <2>2, PlusIs
<1> QED
  BY <1>1, PlusIs, LiftIs

\* The product of polynomials has the product of their signals.
LEMMA TimesUnrolled ==
  ASSUME NEW a \in Poly, NEW b \in Poly
  PROVE  Times(a, b) \in Poly /\ Alike(Unrolled(Times(a, b)), Conv(Unrolled(a), Unrolled(b)))
<1> DEFINE A == Unrolled(a)
           B == Unrolled(b)
           C == Conv(A, B)
           t == Times(a, b)
<1>1. A \in Signal /\ B \in Signal
  BY PolyIs
<1> HIDE DEF A, B
<1>2. C \in Signal
  BY <1>1, ConvIsSignal
<1>3. ASSUME NEW i \in Coef
      PROVE  t[i] \in 0 .. Q - 1 /\ Same(t[i], C[i])
  <2> DEFINE f == [k \in Coef |-> a[k] * At(b, i - k)]
             G == Terms(A, B, i)
  <2>1. i \in Int
    BY PeriodIs DEF Coef
  <2>2. t[i] = Sum(f, N) % Q
    <3>1. t[i] = SumUpTo(f, N) % Q
      BY DEF Times
    <3> HIDE DEF f
    <3>2. SumUpTo(f, N) = Sum(f, N)
      BY PeriodIs, SumUpToIs
    <3> QED
      BY <3>1, <3>2
  <2>3. C[i] = Sum(G, N)
    BY <1>1, <2>1, ConvAt
  <2>4. \A k \in Int : G[k] = A[k] * B[i - k] /\ G[k] \in Int
    BY <1>1, <2>1, ConvAt
  <2> HIDE DEF C, G
  <2>5. ASSUME NEW k \in 0 .. N - 1
        PROVE  f[k] \in Int /\ G[k] \in Int /\ Congruent(f[k], G[k], Q)
    <3> DEFINE x == a[k]
               y == At(b, i - k)
               z == B[i - k]
    <3>1. k \in Int /\ i - k \in Int /\ k \in Coef
      BY <2>1 DEF Coef
    <3>2. x \in Int /\ A[k] = x
      BY <3>1, PolyIs DEF A
    <3>3. y \in Int /\ Same(y, z)
      BY <3>1, AtIs DEF B
    <3>4. z \in Int
      BY <1>1, <3>1, SignalTurns
    <3>5. f[k] = x * y /\ G[k] = x * z
      BY <2>4, <3>1, <3>2
    <3> HIDE DEF x, y, z, f
    <3>6. Same(x * y, x * z) /\ x * y \in Int /\ x * z \in Int
      BY <3>2, <3>3, <3>4, SameIt, SameProduct, IntProduct
    <3> QED
      BY <3>5, <3>6 DEF Same
  <2> HIDE DEF f
  <2>6. Same(Sum(f, N), Sum(G, N)) /\ Sum(f, N) \in Int /\ Sum(G, N) \in Int
    <3>1. Congruent(Sum(f, N), Sum(G, N), Q)
      BY <2>5, PeriodIs, SumsCongruent
    <3> QED
      BY <2>5, <3>1, PeriodIs, SumIsInt DEF Same
  <2> DEFINE s == Sum(f, N)
             v == Sum(G, N)
  <2> HIDE DEF s, v
  <2>7. s \in Int /\ v \in Int /\ Same(s, v)
    BY <2>6 DEF s, v
  <2>8. s % Q \in 0 .. Q - 1 /\ s % Q \in Int /\ Same(s % Q, s)
    BY <2>7, SameRest
  <2>9. Same(s % Q, v)
    BY <2>7, <2>8, SameTrans
  <2> QED
    BY <2>2, <2>3, <2>8, <2>9 DEF s, v
<1>4. t \in Poly
  <2>1. t = [i \in Coef |-> t[i]]
    BY DEF Times
  <2> HIDE DEF t
  <2> QED
    BY <1>3, <2>1 DEF Poly
<1> HIDE DEF t, C
<1>5. Alike(Unrolled(t), C)
  BY <1>2, <1>3, <1>4, LiftIs
<1> QED
  BY <1>4, <1>5 DEF t, C, A, B

\* Polynomials are the same when their signals agree with signals that agree.
LEMMA PolyByLift ==
  ASSUME NEW a \in Poly, NEW b \in Poly, NEW A \in Signal, NEW B \in Signal,
         Alike(Unrolled(a), A), Alike(Unrolled(b), B), Alike(A, B)
  PROVE  a = b
<1>1. Unrolled(a) \in Signal /\ Unrolled(b) \in Signal
  BY PolyIs
<1>2. Alike(Unrolled(a), B) /\ Alike(B, Unrolled(b))
  BY <1>1, AlikeTrans, AlikeBack
<1>3. Alike(Unrolled(a), Unrolled(b))
  BY <1>1, <1>2, AlikeTrans
<1>4. \A i \in Coef : i \in Int
  BY PeriodIs DEF Coef
<1> QED
  BY <1>3, <1>4, PolySame DEF Alike

\* Signals that are equal agree.
LEMMA AlikeEqual ==
  ASSUME NEW A \in Signal, NEW B \in Signal, \A e \in Int : A[e] = B[e]
  PROVE  Alike(A, B)
BY SignalTurns, SameIt DEF Alike

\* The product does not depend on the order of the factors.
LEMMA TimesCommutes ==
  ASSUME NEW a \in Poly, NEW b \in Poly
  PROVE  Times(a, b) = Times(b, a)
<1> DEFINE A == Unrolled(a)
           B == Unrolled(b)
           C == Conv(A, B)
           D == Conv(B, A)
<1>1. A \in Signal /\ B \in Signal
  BY PolyIs
<1>2. /\ Times(a, b) \in Poly /\ Alike(Unrolled(Times(a, b)), C)
      /\ Times(b, a) \in Poly /\ Alike(Unrolled(Times(b, a)), D)
  BY TimesUnrolled
<1> HIDE DEF A, B
<1>3. C \in Signal /\ D \in Signal /\ \A e \in Int : C[e] = D[e]
  BY <1>1, ConvIsSignal, ConvCommutes
<1> HIDE DEF C, D
<1>4. Alike(C, D)
  BY <1>3, AlikeEqual
<1> QED
  BY <1>2, <1>3, <1>4, PolyByLift

\* Nor does a product of three on what is multiplied first.
LEMMA TimesAssociates ==
  ASSUME NEW a \in Poly, NEW b \in Poly, NEW c \in Poly
  PROVE  Times(Times(a, b), c) = Times(a, Times(b, c))
<1> DEFINE A == Unrolled(a)
           B == Unrolled(b)
           C == Unrolled(c)
           p == Times(a, b)
           q == Times(b, c)
           P == Unrolled(p)
           R == Unrolled(q)
           AB == Conv(A, B)
           BC == Conv(B, C)
<1>1. A \in Signal /\ B \in Signal /\ C \in Signal
  BY PolyIs
<1>2. p \in Poly /\ Alike(P, AB) /\ q \in Poly /\ Alike(R, BC)
  BY TimesUnrolled
<1> HIDE DEF p, q
<1>3. P \in Signal /\ R \in Signal
  BY <1>2, PolyIs
<1>4. /\ Times(p, c) \in Poly /\ Alike(Unrolled(Times(p, c)), Conv(P, C))
      /\ Times(a, q) \in Poly /\ Alike(Unrolled(Times(a, q)), Conv(A, R))
  BY <1>2, TimesUnrolled
<1> HIDE DEF A, B, C, P, R
<1>5. AB \in Signal /\ BC \in Signal
  BY <1>1, ConvIsSignal
<1>6. \A e \in Int : Conv(AB, C)[e] = Conv(A, BC)[e]
  BY <1>1, ConvAssociates
<1> HIDE DEF AB, BC
<1> DEFINE X == Conv(P, C)
           Y == Conv(A, R)
           V == Conv(AB, C)
           W == Conv(A, BC)
<1>7. X \in Signal /\ Y \in Signal /\ V \in Signal /\ W \in Signal
  BY <1>1, <1>3, <1>5, ConvIsSignal
<1>8. Alike(A, A) /\ Alike(C, C)
  BY <1>1, AlikeEqual
<1>9. Alike(X, V) /\ Alike(Y, W)
  BY <1>1, <1>2, <1>3, <1>5, <1>8, ConvAlike
<1> HIDE DEF X, Y, V, W
<1>10. Alike(V, W)
  BY <1>6, <1>7, AlikeEqual DEF V, W
<1>11. Alike(X, W) /\ Alike(W, Y)
  BY <1>7, <1>9, <1>10, AlikeTrans, AlikeBack
<1>12. Alike(X, Y)
  BY <1>7, <1>11, AlikeTrans
<1>13. Times(p, c) = Times(a, q)
  BY <1>4, <1>7, <1>12, PolyByLift DEF X, Y
<1> QED
  BY <1>13 DEF p, q

\* A product with a sum is the sum of the products.
LEMMA TimesPlus ==
  ASSUME NEW a \in Poly, NEW b \in Poly, NEW c \in Poly
  PROVE  /\ Times(a, Plus(b, c)) = Plus(Times(a, b), Times(a, c))
         /\ Times(Plus(b, c), a) = Plus(Times(b, a), Times(c, a))
<1> DEFINE A == Unrolled(a)
           B == Unrolled(b)
           C == Unrolled(c)
           D == [e \in Int |-> B[e] + C[e]]
           s == Plus(b, c)
           p == Times(a, b)
           q == Times(a, c)
           AB == Conv(A, B)
           AC == Conv(A, C)
           AD == Conv(A, D)
           S == Unrolled(s)
           P == Unrolled(p)
           R == Unrolled(q)
           T == [e \in Int |-> P[e] + R[e]]
           l == Times(a, s)
           r == Plus(p, q)
<1>1. A \in Signal /\ B \in Signal /\ C \in Signal
  BY PolyIs
<1>2. p \in Poly /\ Alike(P, AB) /\ q \in Poly /\ Alike(R, AC) /\ s \in Poly
  BY TimesUnrolled, PlusIs
<1>3. D \in Signal /\ \A e \in Int : D[e] = B[e] + C[e]
  <2> HIDE DEF B, C
  <2> QED
    BY <1>1, SumOfSignals
<1>4. Alike(S, D)
  <2> HIDE DEF D
  <2> QED
    BY <1>3, PlusUnrolled
<1> HIDE DEF p, q, s
<1>5. P \in Signal /\ R \in Signal /\ S \in Signal
  BY <1>2, PolyIs
<1>6. T \in Signal /\ \A e \in Int : T[e] = P[e] + R[e]
  <2> HIDE DEF P, R
  <2> QED
    BY <1>5, SumOfSignals
<1>7. l \in Poly /\ Alike(Unrolled(l), Conv(A, S))
  BY <1>2, TimesUnrolled
<1>8. r \in Poly /\ Alike(Unrolled(r), T)
  <2> HIDE DEF T
  <2> QED
    BY <1>2, <1>6, PlusIs, PlusUnrolled
<1> HIDE DEF A, B, C, D, P, R, S, T, l, r
<1> DEFINE AS == Conv(A, S)
<1>9. AB \in Signal /\ AC \in Signal /\ AD \in Signal /\ AS \in Signal
  BY <1>1, <1>3, <1>5, ConvIsSignal
<1>10. \A e \in Int : AD[e] = AB[e] + AC[e]
  BY <1>1, <1>3, ConvPlus
<1>11. Alike(A, A)
  BY <1>1, AlikeEqual
<1>12. Alike(AS, AD)
  BY <1>1, <1>3, <1>4, <1>5, <1>11, ConvAlike
<1> HIDE DEF AB, AC, AD, AS
<1>13. Alike(AD, T)
  <2>1. ASSUME NEW e \in Int PROVE Same(T[e], AD[e])
    <3>1. /\ P[e] \in Int /\ R[e] \in Int /\ AB[e] \in Int /\ AC[e] \in Int
          /\ Same(P[e], AB[e]) /\ Same(R[e], AC[e])
      BY <1>2, <1>5, <1>9, SignalTurns DEF Alike
    <3>2. Same(P[e] + R[e], AB[e] + AC[e])
      BY <3>1, SameSum
    <3> QED
      BY <1>6, <1>10, <3>2
  <2>2. Alike(T, AD)
    BY <2>1 DEF Alike
  <2> QED
    BY <1>6, <1>9, <2>2, AlikeBack
<1>14. Alike(AS, T)
  BY <1>6, <1>9, <1>12, <1>13, AlikeTrans
<1>15. l = r
  BY <1>6, <1>7, <1>8, <1>9, <1>14, PolyByLift DEF AS
<1>16. Times(s, a) = l /\ Times(b, a) = p /\ Times(c, a) = q
  BY <1>2, TimesCommutes DEF l, p, q
<1> QED
  BY <1>15, <1>16 DEF l, r, p, q, s

-----------------------------------------------------------------------------
(* Automorphisms *)

\* Exponents that agree modulo 2 N, and numbers that have an inverse.
Equal(g, h) == Congruent(g, h, Period)
Unit(g) == g \in Int /\ \E h \in Int : Equal(g * h, 1)

\* Agreement of exponents is an equivalence that products respect.
LEMMA EqualLaws ==
  ASSUME NEW a \in Int, NEW b \in Int
  PROVE  /\ Equal(a, a)
         /\ Equal(a, b) => Equal(b, a)
         /\ \A c \in Int : Equal(a, b) /\ Equal(b, c) => Equal(a, c)
         /\ \A c \in Int, d \in Int : Equal(a, b) /\ Equal(c, d) => Equal(a * c, b * d)
<1>1. Equal(a, a)
  <2>1. a = a + Period * 0
    BY PeriodIs, SMT
  <2> QED
    BY <2>1 DEF Equal, Congruent
<1>2. Equal(a, b) => Equal(b, a)
  BY PeriodIs, CongruentBack DEF Equal
<1>3. \A c \in Int : Equal(a, b) /\ Equal(b, c) => Equal(a, c)
  BY PeriodIs, CongruentTrans DEF Equal
<1>4. \A c \in Int, d \in Int : Equal(a, b) /\ Equal(c, d) => Equal(a * c, b * d)
  BY PeriodIs, CongruentProduct DEF Equal
<1> QED
  BY <1>1, <1>2, <1>3, <1>4

\* Agreement modulo 2 N is transitive.
LEMMA EqualTrans ==
  ASSUME NEW a \in Int, NEW b \in Int, NEW c \in Int, Equal(a, b), Equal(b, c)
  PROVE  Equal(a, c)
BY PeriodIs, CongruentTrans DEF Equal

\* A rest modulo 2 N of 1 says that numbers are inverse.
LEMMA OneRest ==
  ASSUME NEW x \in Int
  PROVE  Equal(x, 1) <=> x % Period = 1
<1>1. ASSUME Equal(x, 1) PROVE x % Period = 1
  <2>1. PICK z \in Int : x = 1 + Period * z
    BY <1>1 DEF Equal, Congruent
  <2>2. 1 \in 0 .. Period - 1 /\ Period * z \in Int
    BY PeriodIs, IntProduct
  <2>3. x = Period * z + 1
    BY <2>1, <2>2
  <2> QED
    BY <2>2, <2>3, PeriodIs, QuotientIs
<1>2. ASSUME x % Period = 1 PROVE Equal(x, 1)
  BY <1>2, PeriodIs, CongruentRest DEF Equal
<1> QED
  BY <1>1, <1>2

\* GaloisInv finds the inverse of a number that has one.
LEMMA GaloisInvIs ==
  ASSUME NEW g, Unit(g)
  PROVE  /\ GaloisInv(g) \in Int /\ Equal(g * GaloisInv(g), 1)
         /\ GaloisInv(g) = CHOOSE h \in 1 .. Period : Equal(g * h, 1)
<1>1. PICK h \in Int : Equal(g * h, 1) /\ g \in Int
  BY DEF Unit
<1> DEFINE r == h % Period
           w == IF r = 0 THEN Period ELSE r
<1>2. r \in 0 .. Period - 1 /\ Equal(r, h) /\ r \in Int
  BY PeriodIs, CongruentRest, IntQuotient DEF Equal
<1> HIDE DEF r
<1>3. Equal(w, r)
  <2>1. Period = 0 + Period * 1
    BY PeriodIs, SMT
  <2>2. Equal(Period, 0)
    BY <2>1 DEF Equal, Congruent
  <2> QED
    BY <1>2, <2>2, EqualLaws
<1>4. w \in 1 .. Period /\ w \in Int
  BY <1>2, PeriodIs
<1> HIDE DEF w
<1>5. Equal(w, h)
  BY <1>1, <1>2, <1>3, <1>4, EqualLaws
<1>6. Equal(g * w, g * h)
  <2>1. Equal(g, g)
    BY <1>1, EqualLaws
  <2> QED
    BY <1>1, <1>4, <1>5, <2>1, EqualLaws
<1>7. Equal(g * w, 1)
  <2>1. g * w \in Int /\ g * h \in Int
    BY <1>1, <1>4, IntProduct
  <2> QED
    BY <1>1, <1>6, <2>1, EqualLaws
<1>8. \A x \in 1 .. Period : Equal(g * x, 1) <=> (g * x) % (2 * N) = 1
  <2>1. ASSUME NEW x \in 1 .. Period
        PROVE  Equal(g * x, 1) <=> (g * x) % Period = 1
    <3> DEFINE y == g * x
    <3>1. y \in Int
      BY <1>1, PeriodIs, IntProduct
    <3> HIDE DEF y
    <3>2. Equal(y, 1) <=> y % Period = 1
      BY <3>1, OneRest
    <3> QED
      BY <3>2 DEF y
  <2> QED
    BY <2>1 DEF Period
<1>9. GaloisInv(g) = CHOOSE x \in 1 .. Period : (g * x) % (2 * N) = 1
  BY DEF GaloisInv, Period
<1> DEFINE v == CHOOSE x \in 1 .. Period : Equal(g * x, 1)
<1>10. GaloisInv(g) = v
  BY <1>8, <1>9
<1>11. v \in 1 .. Period /\ Equal(g * v, 1)
  BY <1>4, <1>7
<1>12. v \in Int
  BY <1>11, PeriodIs
<1> QED
  BY <1>10, <1>11, <1>12

\* There is one inverse.
LEMMA InverseIs ==
  ASSUME NEW g, Unit(g), NEW h \in Int, Equal(g * h, 1)
  PROVE  Equal(h, GaloisInv(g)) /\ Unit(h) /\ Equal(GaloisInv(h), g)
<1> DEFINE i == GaloisInv(g)
<1>1. g \in Int /\ i \in Int /\ Equal(g * i, 1)
  BY GaloisInvIs DEF Unit
<1> HIDE DEF i
<1>2. ASSUME NEW x \in Int, NEW y \in Int, NEW z \in Int, Equal(x * y, 1), Equal(x * z, 1)
      PROVE  Equal(y, z)
  <2> DEFINE p == x * y
             q == x * z
  <2>1. p \in Int /\ q \in Int /\ Equal(p, 1) /\ Equal(1, q) /\ Equal(1, p)
    BY <1>2, IntProduct, EqualLaws
  <2>2. y * q = p * z /\ y * 1 = y /\ 1 * z = z
    BY SMT
  <2> HIDE DEF p, q
  <2>3. Equal(y, y) /\ Equal(z, z)
    BY EqualLaws
  <2>4. Equal(y * 1, y * q) /\ Equal(p * z, 1 * z)
    BY <2>1, <2>3, EqualLaws
  <2>5. Equal(y, p * z) /\ Equal(p * z, z) /\ p * z \in Int
    BY <2>1, <2>2, <2>4, IntProduct
  <2> QED
    BY <2>5, EqualLaws
<1>3. Equal(h, i)
  BY <1>1, <1>2
<1>4. h * g = g * h
  BY <1>1, IntProduct
<1>5. Unit(h)
  BY <1>1, <1>4 DEF Unit
<1>6. Equal(h * GaloisInv(h), 1) /\ GaloisInv(h) \in Int
  BY <1>5, GaloisInvIs
<1>7. Equal(GaloisInv(h), g)
  BY <1>1, <1>2, <1>4, <1>6
<1> QED
  BY <1>3, <1>5, <1>7 DEF i

\* Inverses of inverses, of products, of opposites, and of numbers that agree.
LEMMA UnitInverse ==
  ASSUME NEW g, Unit(g)
  PROVE  /\ GaloisInv(g) \in Int
         /\ Unit(GaloisInv(g))
         /\ Equal(GaloisInv(GaloisInv(g)), g)
BY GaloisInvIs, InverseIs

\* ... of products ...
LEMMA UnitProduct ==
  ASSUME NEW g, Unit(g), NEW h, Unit(h)
  PROVE  Unit(g * h) /\ Equal(GaloisInv(g) * GaloisInv(h), GaloisInv(g * h))
<1> DEFINE i == GaloisInv(g)
           j == GaloisInv(h)
<1>1. /\ g \in Int /\ i \in Int /\ Equal(g * i, 1)
      /\ h \in Int /\ j \in Int /\ Equal(h * j, 1)
  BY GaloisInvIs DEF Unit
<1> HIDE DEF i, j
<1>2. (g * h) * (i * j) = (g * i) * (h * j) /\ 1 * 1 = 1
  BY <1>1, SMT
<1>3. g * i \in Int /\ h * j \in Int /\ g * h \in Int /\ i * j \in Int
  BY <1>1, IntProduct
<1>4. Equal((g * i) * (h * j), 1 * 1)
  BY <1>1, <1>3, EqualLaws
<1> DEFINE x == g * h
           y == i * j
<1>5. x \in Int /\ y \in Int /\ Equal(x * y, 1)
  BY <1>2, <1>3, <1>4
<1> HIDE DEF x, y
<1>6. Unit(x)
  BY <1>5 DEF Unit
<1> QED
  BY <1>5, <1>6, InverseIs DEF x, y, i, j

\* ... of opposites ...
LEMMA UnitMinus ==
  ASSUME NEW g, Unit(g)
  PROVE  Unit(-g) /\ Equal(-GaloisInv(g), GaloisInv(-g))
<1> DEFINE i == GaloisInv(g)
           x == -g
           y == -i
<1>1. g \in Int /\ i \in Int /\ Equal(g * i, 1)
  BY GaloisInvIs DEF Unit
<1> HIDE DEF i
<1>2. x \in Int /\ y \in Int /\ x * y = g * i
  BY <1>1, SMT
<1> HIDE DEF x, y
<1>3. Unit(x) /\ Equal(x * y, 1)
  BY <1>1, <1>2 DEF Unit
<1> QED
  BY <1>2, <1>3, InverseIs DEF x, y, i

\* ... of numbers that agree ...
LEMMA UnitEqual ==
  ASSUME NEW g, Unit(g), NEW h \in Int, Equal(g, h)
  PROVE  Unit(h) /\ GaloisInv(h) = GaloisInv(g)
<1> DEFINE i == GaloisInv(g)
<1>1. g \in Int /\ i \in Int /\ Equal(g * i, 1)
  BY GaloisInvIs DEF Unit
<1>2. ASSUME NEW x \in Int
      PROVE  Equal(g * x, 1) <=> Equal(h * x, 1)
  <2>1. g * x \in Int /\ h * x \in Int
    BY <1>1, IntProduct
  <2>2. Equal(x, x)
    BY EqualLaws
  <2>3. Equal(g * x, h * x)
    BY <1>1, <2>2, EqualLaws
  <2>4. Equal(h * x, g * x)
    BY <2>1, <2>3, EqualLaws
  <2> DEFINE p == g * x
             q == h * x
  <2> HIDE DEF p, q
  <2>5. p \in Int /\ q \in Int /\ Equal(p, q) /\ Equal(q, p)
    BY <2>1, <2>3, <2>4 DEF p, q
  <2>6. Equal(p, 1) <=> Equal(q, 1)
    BY <2>5, EqualTrans, 1 \in Int
  <2> QED
    BY <2>6 DEF p, q
<1>3. Unit(h)
  BY <1>1, <1>2 DEF Unit
<1>4. \A x \in 1 .. Period : Equal(g * x, 1) <=> Equal(h * x, 1)
  BY <1>2, PeriodIs
<1>5. /\ GaloisInv(g) = CHOOSE x \in 1 .. Period : Equal(g * x, 1)
      /\ GaloisInv(h) = CHOOSE x \in 1 .. Period : Equal(h * x, 1)
  BY <1>3, GaloisInvIs
<1> QED
  BY <1>3, <1>4, <1>5

\* ... and of one.
LEMMA UnitOne == Unit(1) /\ Equal(1, GaloisInv(1))
<1>1. 1 \in Int /\ 1 * 1 = 1
  OBVIOUS
<1>2. Equal(1 * 1, 1)
  BY <1>1, EqualLaws
<1>3. Unit(1)
  BY <1>1, <1>2 DEF Unit
<1> QED
  BY <1>1, <1>2, <1>3, InverseIs

\* Numbers that have an inverse are odd.
LEMMA InverseIsOdd ==
  ASSUME NEW g \in Int, NEW h \in Int, Equal(g * h, 1)
  PROVE  \E m \in Int : h = 2 * m + 1
<1>1. PICK m \in Int : h = 2 * m \/ h = 2 * m + 1
  BY EvenOrOdd
<1>2. PICK z \in Int : g * h = 1 + Period * z
  BY DEF Equal, Congruent
<1>3. ASSUME h = 2 * m PROVE FALSE
  <2> DEFINE x == g * m - N * z
  <2>1. x \in Int /\ g * (2 * m) = 2 * (g * m) /\ Period * z = 2 * (N * z)
    BY PeriodIs, SMT DEF Period
  <2>2. g * m \in Int /\ N * z \in Int
    BY PeriodIs, IntProduct
  <2>3. 2 * x = 1
    BY <1>2, <1>3, <2>1, <2>2
  <2> HIDE DEF x
  <2> QED
    BY <2>1, <2>3
<1> QED
  BY <1>1, <1>3

\* A signal has the same numbers at exponents that agree.
LEMMA SignalEqual ==
  ASSUME NEW A \in Signal, NEW x \in Int, NEW y \in Int, Equal(x, y)
  PROVE  A[x] = A[y]
<1>1. PICK z \in Int : x = y + Period * z
  BY DEF Equal, Congruent
<1>2. A[y + Period * z] = A[y]
  BY SignalTurns
<1> QED
  BY <1>1, <1>2

\* A signal read in steps of h.
Twist(A, h) == [e \in Int |-> A[e * h]]

\* A signal whose exponents an automorphism has moved is a signal.
LEMMA TwistIs ==
  ASSUME NEW A \in Signal, NEW g, Unit(g)
  PROVE  /\ Twist(A, GaloisInv(g)) \in Signal
         /\ \A e \in Int : /\ e * GaloisInv(g) \in Int
                           /\ Twist(A, GaloisInv(g))[e] = A[e * GaloisInv(g)]
<1> DEFINE h == GaloisInv(g)
           B == Twist(A, h)
<1>1. h \in Int /\ Equal(g * h, 1) /\ g \in Int
  BY GaloisInvIs DEF Unit
<1> HIDE DEF h
<1>2. PICK m \in Int : h = 2 * m + 1
  BY <1>1, InverseIsOdd
<1>3. \A e \in Int : e * h \in Int /\ B[e] = A[e * h]
  BY <1>1, IntProduct DEF Twist
<1>4. B \in [Int -> Int]
  <2>1. \A e \in Int : B[e] \in Int
    BY <1>3, SignalTurns
  <2>2. B = [e \in Int |-> B[e]]
    BY DEF Twist
  <2> HIDE DEF B
  <2> QED
    BY <2>1, <2>2
<1> HIDE DEF B
<1>5. ASSUME NEW e \in Int
      PROVE  B[e] = IF e % Period < N THEN B[e % Period] ELSE -B[(e % Period) - N]
  <2>1. PICK z \in Int, i \in Coef :
           \/ e % Period < N /\ i = e % Period /\ e = i + Period * z /\ i \in Int
           \/ ~(e % Period < N) /\ i = (e % Period) - N /\ e = (i + N) + Period * z /\ i \in Int
    BY HalfOfPeriod
  <2> DEFINE x == i * h
             y == z * h
             w == m + y
  <2>2. i \in Int /\ x \in Int /\ y \in Int /\ w \in Int
    BY <1>1, <2>1, IntProduct
  <2>3. CASE e % Period < N
    <3>1. (i + Period * z) * h = x + Period * y
      BY <1>1, <2>2, PeriodIs, SMT
    <3>2. e * h = x + Period * y
      BY <2>1, <2>3, <3>1
    <3>3. B[e] = A[e * h] /\ B[i] = A[x]
      BY <1>3, <2>2
    <3> HIDE DEF x, y
    <3>4. A[x + Period * y] = A[x]
      BY <2>2, SignalTurns
    <3> QED
      BY <2>1, <2>3, <3>2, <3>3, <3>4
  <2>4. CASE ~(e % Period < N)
    <3>1. ((i + N) + Period * z) * h = (x + N * h) + Period * y
      BY <1>1, <2>2, PeriodIs, SMT
    <3>2. N * (2 * m + 1) = (N + N) * m + N /\ Period * m + Period * y = Period * (m + y)
      BY <2>2, PeriodIs, SMT
    <3> DEFINE v == x + N
    <3>3. e * h = v + Period * w /\ v \in Int
      <4>1. N * h = Period * m + N /\ Period * m \in Int /\ Period * y \in Int
        BY <1>2, <2>2, <3>2, PeriodIs, IntProduct
      <4>2. e * h = (x + N * h) + Period * y
        BY <2>1, <2>4, <3>1
      <4>3. Period * w = Period * m + Period * y
        BY <3>2
      <4> HIDE DEF x, y, w
      <4> QED
        BY <2>2, <4>1, <4>2, <4>3, PeriodIs
    <3>4. B[e] = A[e * h] /\ B[i] = A[x]
      BY <1>3, <2>2
    <3>5. A[v] = -A[x]
      <4> HIDE DEF x
      <4> QED
        BY <2>2, SignalTurns
    <3> HIDE DEF v, x, y, w
    <3>6. A[v + Period * w] = A[v]
      BY <2>2, <3>3, SignalTurns
    <3> QED
      BY <2>1, <2>4, <3>3, <3>4, <3>5, <3>6
  <2> QED
    BY <2>3, <2>4
<1>6. B \in Signal
  BY <1>4, <1>5, SignalIs
<1> QED
  BY <1>3, <1>6 DEF B, h

\* The coefficients of X -> X^g, and its signal.
LEMMA GaloisUnrolled ==
  ASSUME NEW a \in Poly, NEW g, Unit(g)
  PROVE  /\ Galois(g, a) \in Poly
         /\ \A i \in Coef : i * GaloisInv(g) \in Int /\ Galois(g, a)[i] = At(a, i * GaloisInv(g))
         /\ Alike(Unrolled(Galois(g, a)), Twist(Unrolled(a), GaloisInv(g)))
<1> DEFINE h == GaloisInv(g)
           A == Unrolled(a)
           B == Twist(A, h)
           p == Galois(g, a)
<1>1. h \in Int /\ A \in Signal
  BY GaloisInvIs, PolyIs
<1>2. \A i \in Coef : i \in Int /\ i * h \in Int
  BY <1>1, PeriodIs, IntProduct DEF Coef
<1>3. p = [i \in Coef |-> At(a, i * h)]
  BY DEF Galois
<1>4. \A i \in Coef : At(a, i * h) \in 0 .. Q - 1 /\ Same(At(a, i * h), A[i * h])
  BY <1>2, AtIs
<1>5. p \in Poly /\ \A i \in Coef : p[i] = At(a, i * h)
  BY <1>3, <1>4 DEF Poly
<1> HIDE DEF p, A
<1>6. B \in Signal /\ \A e \in Int : B[e] = A[e * h]
  BY <1>1, TwistIs
<1> HIDE DEF B, h
<1>7. \A i \in Coef : Same(p[i], B[i])
  BY <1>2, <1>4, <1>5, <1>6
<1>8. Alike(Unrolled(p), B)
  BY <1>5, <1>6, <1>7, LiftIs
<1> QED
  BY <1>2, <1>5, <1>8 DEF p, B, A, h

\* The same of a product with a power of X.
LEMMA RotateUnrolled ==
  ASSUME NEW a \in Poly, NEW k \in Int, NEW B \in Signal,
         \A e \in Int : B[e] = Unrolled(a)[e - k]
  PROVE  Rotate(k, a) \in Poly /\ Alike(Unrolled(Rotate(k, a)), B)
<1> DEFINE A == Unrolled(a)
           p == Rotate(k, a)
<1>1. \A i \in Coef : i \in Int /\ i - k \in Int
  BY PeriodIs DEF Coef
<1>2. \A i \in Coef : At(a, i - k) \in 0 .. Q - 1 /\ Same(At(a, i - k), A[i - k])
  BY <1>1, AtIs
<1>3. p \in Poly /\ \A i \in Coef : p[i] = At(a, i - k)
  BY <1>2 DEF Rotate, Poly
<1> HIDE DEF p
<1>4. \A i \in Coef : Same(p[i], B[i])
  BY <1>1, <1>2, <1>3
<1>5. Alike(Unrolled(p), B)
  BY <1>3, <1>4, LiftIs
<1> QED
  BY <1>3, <1>5 DEF p

\* A signal moved by k exponents.
LEMMA ShiftedSignal ==
  ASSUME NEW A \in Signal, NEW k \in Int
  PROVE  [e \in Int |-> A[e - k]] \in Signal
<1> DEFINE B == [e \in Int |-> A[e - k]]
<1>1. \A e \in Int : e - k \in Int /\ B[e] = A[e - k]
  OBVIOUS
<1>2. B \in [Int -> Int]
  BY SignalTurns
<1> HIDE DEF B
<1>3. ASSUME NEW e \in Int
      PROVE  B[e] = IF e % Period < N THEN B[e % Period] ELSE -B[(e % Period) - N]
  <2>1. PICK z \in Int, i \in Coef :
           \/ e % Period < N /\ i = e % Period /\ e = i + Period * z /\ i \in Int
           \/ ~(e % Period < N) /\ i = (e % Period) - N /\ e = (i + N) + Period * z /\ i \in Int
    BY HalfOfPeriod
  <2> DEFINE x == i - k
  <2>2. i \in Int /\ x \in Int /\ Period * z \in Int
    BY <2>1, PeriodIs, IntProduct
  <2>3. CASE e % Period < N
    <3>1. e - k = x + Period * z
      BY <2>1, <2>2, <2>3
    <3>2. B[e] = A[e - k] /\ B[i] = A[x]
      BY <1>1, <2>2
    <3> HIDE DEF x
    <3>3. A[x + Period * z] = A[x]
      BY <2>2, SignalTurns
    <3> QED
      BY <2>1, <2>3, <3>1, <3>2, <3>3
  <2>4. CASE ~(e % Period < N)
    <3> DEFINE v == x + N
    <3>1. e - k = v + Period * z /\ v \in Int
      BY <2>1, <2>2, <2>4, PeriodIs
    <3>2. B[e] = A[e - k] /\ B[i] = A[x]
      BY <1>1, <2>2
    <3> HIDE DEF x
    <3>3. A[v] = -A[x]
      BY <2>2, SignalTurns
    <3> HIDE DEF v
    <3>4. A[v + Period * z] = A[v]
      BY <3>1, SignalTurns
    <3> QED
      BY <2>1, <2>4, <3>1, <3>2, <3>3, <3>4
  <2> QED
    BY <2>3, <2>4
<1>4. B \in Signal
  BY <1>2, <1>3, SignalIs
<1> QED
  BY <1>4 DEF B

\* A coefficient of a sum, and of a multiple, at any exponent.
LEMMA AtPlus ==
  ASSUME NEW a \in Poly, NEW b \in Poly, NEW c \in Int, NEW e \in Int
  PROVE  /\ Same(At(Plus(a, b), e), At(a, e) + At(b, e))
         /\ Same(At(Scale(c, a), e), c * At(a, e))
<1> DEFINE A == Unrolled(a)
           B == Unrolled(b)
           D == [x \in Int |-> A[x] + B[x]]
           Z == [x \in Int |-> 0]
           p == Plus(a, b)
           q == Scale(c, a)
           u == At(a, e)
           v == At(b, e)
<1>1. A \in Signal /\ B \in Signal /\ p \in Poly /\ q \in Poly
  BY PolyIs, PlusIs, ScaleIs
<1>2. u \in Int /\ v \in Int /\ Same(u, A[e]) /\ Same(v, B[e]) /\ A[e] \in Int /\ B[e] \in Int
  BY <1>1, AtIs, SignalTurns
<1>3. Same(At(p, e), u + v)
  <2>1. D \in Signal /\ \A x \in Int : D[x] = A[x] + B[x]
    <3> HIDE DEF A, B
    <3> QED
      BY <1>1, SumOfSignals
  <2> HIDE DEF D
  <2>2. Alike(Unrolled(p), D)
    BY <2>1, PlusUnrolled
  <2>3. At(p, e) \in Int /\ Same(At(p, e), Unrolled(p)[e]) /\ Unrolled(p)[e] \in Int
    <3> HIDE DEF p
    <3> QED
      BY <1>1, AtIs, PolyIs, SignalTurns
  <2>4. Same(Unrolled(p)[e], D[e]) /\ D[e] = A[e] + B[e] /\ D[e] \in Int
    BY <2>1, <2>2, <1>2 DEF Alike
  <2>5. Same(u + v, A[e] + B[e])
    BY <1>2, SameSum
  <2> HIDE DEF p, u, v, A, B
  <2> DEFINE x == At(p, e)
             y == Unrolled(p)[e]
             z == D[e]
             w == u + v
  <2>6. x \in Int /\ y \in Int /\ z \in Int /\ w \in Int /\ Same(x, y) /\ Same(y, z) /\ Same(w, z)
    BY <1>2, <2>3, <2>4, <2>5
  <2> HIDE DEF x, y, z, w
  <2>7. Same(x, z) /\ Same(z, w)
    BY <2>6, SameTrans, SameBack
  <2>8. Same(x, w)
    BY <2>6, <2>7, SameTrans
  <2> QED
    BY <2>8 DEF x, w
<1>4. Same(At(q, e), c * u)
  <2>1. \A i \in Coef : Same(q[i], c * a[i]) /\ q[i] \in Int /\ a[i] \in Int
    <3> HIDE DEF q
    <3>1. \A i \in Coef : q[i] \in Int /\ a[i] \in Int
      BY <1>1, PolyIs
    <3> QED
      BY <3>1, ScaleIs DEF q
  <2> DEFINE r == e % Period
  <2>2. (r < N => r \in Coef) /\ (~(r < N) => r - N \in Coef)
    BY InPeriod
  <2>3. /\ At(q, e) = IF r < N THEN q[r] ELSE (-q[r - N]) % Q
        /\ u = IF r < N THEN a[r] ELSE (-a[r - N]) % Q
    BY DEF At, Period
  <2> HIDE DEF r, q, u
  <2>4. CASE r < N
    BY <2>1, <2>2, <2>3, <2>4
  <2>5. CASE ~(r < N)
    <3> DEFINE x == q[r - N]
               y == a[r - N]
               m == -x
               n == -y
    <3>1. x \in Int /\ y \in Int /\ Same(x, c * y) /\ At(q, e) = m % Q /\ u = n % Q
      BY <2>1, <2>2, <2>3, <2>5
    <3> HIDE DEF x, y
    <3>2. m \in Int /\ n \in Int /\ c * n = -(c * y) /\ c * y \in Int /\ c * n \in Int
      BY <3>1, SMT
    <3>3. Same(m, c * n)
      BY <3>1, <3>2, PeriodIs, CongruentMinus DEF Same
    <3> HIDE DEF m, n
    <3> DEFINE s == m % Q
               t == n % Q
    <3>4. s \in Int /\ t \in Int /\ Same(s, m) /\ Same(n, t)
      BY <3>2, SameRest
    <3> HIDE DEF s, t
    <3>5. Same(c * n, c * t) /\ c * t \in Int
      BY <3>2, <3>4, SameIt, SameProduct, IntProduct
    <3>6. Same(s, c * n)
      BY <3>2, <3>3, <3>4, SameTrans
    <3>7. Same(s, c * t)
      BY <3>2, <3>4, <3>5, <3>6, SameTrans
    <3> QED
      BY <3>1, <3>7 DEF s, t
  <2> QED
    BY <2>4, <2>5
<1> QED
  BY <1>3, <1>4

\* X -> X^g of a sum is the sum, and of a multiple the multiple.
LEMMA GaloisPlus ==
  ASSUME NEW a \in Poly, NEW b \in Poly, NEW c \in Int, NEW g, Unit(g)
  PROVE  /\ Galois(g, Plus(a, b)) = Plus(Galois(g, a), Galois(g, b))
         /\ Galois(g, Scale(c, a)) = Scale(c, Galois(g, a))
<1> DEFINE h == GaloisInv(g)
           s == Plus(a, b)
           t == Scale(c, a)
           p == Galois(g, a)
           q == Galois(g, b)
           u == Galois(g, s)
           v == Galois(g, t)
<1>1. s \in Poly /\ t \in Poly
  BY PlusIs, ScaleIs
<1>2. /\ p \in Poly /\ q \in Poly
      /\ \A i \in Coef : i * h \in Int /\ p[i] = At(a, i * h) /\ q[i] = At(b, i * h)
  BY GaloisUnrolled
<1> HIDE DEF s, t
<1>3. /\ u \in Poly /\ v \in Poly
      /\ \A i \in Coef : u[i] = At(s, i * h) /\ v[i] = At(t, i * h)
  BY <1>1, GaloisUnrolled
<1> HIDE DEF p, q, u, v
<1>4. Plus(p, q) \in Poly /\ \A i \in Coef : Same(Plus(p, q)[i], p[i] + q[i])
  BY <1>2, PlusIs
<1>5. Scale(c, p) \in Poly /\ \A i \in Coef : Same(Scale(c, p)[i], c * p[i])
  BY <1>2, ScaleIs
<1>6. ASSUME NEW i \in Coef
      PROVE  Same(u[i], Plus(p, q)[i]) /\ Same(v[i], Scale(c, p)[i])
  <2> DEFINE e == i * h
  <2>1. e \in Int /\ p[i] = At(a, e) /\ q[i] = At(b, e) /\ u[i] = At(s, e) /\ v[i] = At(t, e)
    BY <1>2, <1>3
  <2> HIDE DEF e
  <2>2. Same(At(s, e), At(a, e) + At(b, e)) /\ Same(At(t, e), c * At(a, e))
    BY <2>1, AtPlus DEF s, t
  <2> DEFINE x == p[i] + q[i]
             y == c * p[i]
             m == Plus(p, q)[i]
             n == Scale(c, p)[i]
  <2>3. /\ x \in Int /\ y \in Int /\ m \in Int /\ n \in Int /\ u[i] \in Int /\ v[i] \in Int
        /\ Same(u[i], x) /\ Same(v[i], y) /\ Same(m, x) /\ Same(n, y)
    <3>1. p[i] \in Int /\ q[i] \in Int /\ m \in Int /\ n \in Int /\ u[i] \in Int /\ v[i] \in Int
      BY <1>2, <1>3, <1>4, <1>5, PolyIs
    <3>2. x \in Int /\ y \in Int
      BY <3>1, IntProduct
    <3> QED
      BY <1>4, <1>5, <2>1, <2>2, <3>1, <3>2
  <2> HIDE DEF x, y, m, n
  <2>4. Same(x, m) /\ Same(y, n)
    BY <2>3, SameBack
  <2>5. Same(u[i], m) /\ Same(v[i], n)
    BY <2>3, <2>4, SameTrans
  <2> QED
    BY <2>5 DEF m, n
<1>7. u = Plus(p, q) /\ v = Scale(c, p)
  BY <1>3, <1>4, <1>5, <1>6, CoefsSame
<1> QED
  BY <1>7 DEF u, v, p, q, s, t

\* Multiplying a sum by a power of X, or a multiple.
LEMMA RotatePlus ==
  ASSUME NEW a \in Poly, NEW b \in Poly, NEW c \in Int, NEW k \in Int
  PROVE  /\ Rotate(k, a) \in Poly
         /\ Rotate(k, Plus(a, b)) = Plus(Rotate(k, a), Rotate(k, b))
         /\ Rotate(k, Scale(c, a)) = Scale(c, Rotate(k, a))
<1>1. ASSUME NEW d \in Poly
      PROVE  Rotate(k, d) \in Poly /\ \A i \in Coef : Rotate(k, d)[i] = At(d, i - k)
  <2>1. \A i \in Coef : At(d, i - k) \in 0 .. Q - 1
    <3>1. \A i \in Coef : i - k \in Int
      BY PeriodIs DEF Coef
    <3> QED
      BY <3>1, AtIs
  <2> QED
    BY <2>1 DEF Rotate, Poly
<1> DEFINE s == Plus(a, b)
           t == Scale(c, a)
           p == Rotate(k, a)
           q == Rotate(k, b)
           u == Rotate(k, s)
           v == Rotate(k, t)
<1>2. s \in Poly /\ t \in Poly
  BY PlusIs, ScaleIs
<1> HIDE DEF s, t
<1>3. /\ p \in Poly /\ q \in Poly /\ u \in Poly /\ v \in Poly
      /\ \A i \in Coef : /\ p[i] = At(a, i - k) /\ q[i] = At(b, i - k)
                         /\ u[i] = At(s, i - k) /\ v[i] = At(t, i - k)
  BY <1>1, <1>2
<1> HIDE DEF p, q, u, v
<1>4. Plus(p, q) \in Poly /\ \A i \in Coef : Same(Plus(p, q)[i], p[i] + q[i])
  BY <1>3, PlusIs
<1>5. Scale(c, p) \in Poly /\ \A i \in Coef : Same(Scale(c, p)[i], c * p[i])
  BY <1>3, ScaleIs
<1>6. ASSUME NEW i \in Coef
      PROVE  Same(u[i], Plus(p, q)[i]) /\ Same(v[i], Scale(c, p)[i])
  <2> DEFINE e == i - k
  <2>1. e \in Int /\ p[i] = At(a, e) /\ q[i] = At(b, e) /\ u[i] = At(s, e) /\ v[i] = At(t, e)
    BY <1>3, PeriodIs DEF Coef
  <2> HIDE DEF e
  <2>2. Same(At(s, e), At(a, e) + At(b, e)) /\ Same(At(t, e), c * At(a, e))
    BY <2>1, AtPlus DEF s, t
  <2> DEFINE x == p[i] + q[i]
             y == c * p[i]
             m == Plus(p, q)[i]
             n == Scale(c, p)[i]
  <2>3. /\ x \in Int /\ y \in Int /\ m \in Int /\ n \in Int /\ u[i] \in Int /\ v[i] \in Int
        /\ Same(u[i], x) /\ Same(v[i], y) /\ Same(m, x) /\ Same(n, y)
    <3>1. p[i] \in Int /\ q[i] \in Int /\ m \in Int /\ n \in Int /\ u[i] \in Int /\ v[i] \in Int
      BY <1>3, <1>4, <1>5, PolyIs
    <3>2. x \in Int /\ y \in Int
      BY <3>1, IntProduct
    <3> QED
      BY <1>4, <1>5, <2>1, <2>2, <3>1, <3>2
  <2> HIDE DEF x, y, m, n
  <2>4. Same(x, m) /\ Same(y, n)
    BY <2>3, SameBack
  <2>5. Same(u[i], m) /\ Same(v[i], n)
    BY <2>3, <2>4, SameTrans
  <2> QED
    BY <2>5 DEF m, n
<1>7. u = Plus(p, q) /\ v = Scale(c, p)
  BY <1>3, <1>4, <1>5, <1>6, CoefsSame
<1> QED
  BY <1>3, <1>7 DEF u, v, p, q, s, t

\* Signals that agree do so in steps.
LEMMA TwistAlike ==
  ASSUME NEW A \in Signal, NEW B \in Signal, Alike(A, B), NEW g, Unit(g)
  PROVE  Alike(Twist(A, GaloisInv(g)), Twist(B, GaloisInv(g)))
<1>1. \A e \in Int : /\ e * GaloisInv(g) \in Int
                     /\ Twist(A, GaloisInv(g))[e] = A[e * GaloisInv(g)]
                     /\ Twist(B, GaloisInv(g))[e] = B[e * GaloisInv(g)]
  BY TwistIs
<1> QED
  BY <1>1 DEF Alike

\* X -> X^g of a product is the product.
LEMMA GaloisTimes ==
  ASSUME NEW a \in Poly, NEW b \in Poly, NEW g, Unit(g)
  PROVE  Galois(g, Times(a, b)) = Times(Galois(g, a), Galois(g, b))
<1> DEFINE h == GaloisInv(g)
           A == Unrolled(a)
           B == Unrolled(b)
           p == Galois(g, a)
           q == Galois(g, b)
           t == Times(a, b)
           C == Twist(A, h)
           D == Twist(B, h)
           AB == Conv(A, B)
           X == Twist(AB, h)
           Y == Conv(C, D)
           T == Unrolled(t)
           V == Twist(T, h)
           W == Conv(Unrolled(p), Unrolled(q))
<1>1. h \in Int /\ Equal(g * h, 1) /\ g \in Int
  BY GaloisInvIs DEF Unit
<1>2. A \in Signal /\ B \in Signal
  BY PolyIs
<1>3. t \in Poly /\ Alike(T, AB)
  BY TimesUnrolled
<1>4. p \in Poly /\ q \in Poly /\ Alike(Unrolled(p), C) /\ Alike(Unrolled(q), D)
  BY GaloisUnrolled
<1> HIDE DEF t, p, q
<1>5. Galois(g, t) \in Poly /\ Alike(Unrolled(Galois(g, t)), V)
  BY <1>3, GaloisUnrolled
<1>6. Times(p, q) \in Poly /\ Alike(Unrolled(Times(p, q)), W)
  BY <1>4, TimesUnrolled
<1>7. T \in Signal /\ Unrolled(p) \in Signal /\ Unrolled(q) \in Signal
  BY <1>3, <1>4, PolyIs
<1> HIDE DEF A, B, T
<1>8. AB \in Signal /\ C \in Signal /\ D \in Signal
  BY <1>2, ConvIsSignal, TwistIs
<1>9. \A e \in Int : e * h \in Int /\ C[e] = A[e * h] /\ D[e] = B[e * h]
  BY <1>2, TwistIs
<1> HIDE DEF C, D
<1>10. Y \in Signal /\ W \in Signal
  BY <1>7, <1>8, ConvIsSignal
<1>11. Inverses(g, h)
  <2>1. PICK z \in Int : g * h = 1 + Period * z
    BY <1>1 DEF Equal, Congruent
  <2> DEFINE y == 2 * z
  <2>2. y \in Int /\ Period * z = N * y
    BY PeriodIs, SMT DEF Period
  <2> QED
    BY <2>1, <2>2 DEF Inverses, Congruent
<1>12. \A e \in Int : Y[e] = AB[e * h]
  <2> HIDE DEF h
  <2>1. InSteps(C, A, h) /\ InSteps(D, B, h)
    BY <1>9 DEF InSteps
  <2>2. ASSUME NEW e \in Int PROVE Conv(C, D)[e] = Conv(A, B)[e * h]
    BY <1>1, <1>2, <1>8, <1>11, <2>1, ConvTurns
  <2> QED
    BY <2>2
<1> HIDE DEF AB
<1>13. X \in Signal /\ V \in Signal /\ Alike(V, X) /\ \A e \in Int : X[e] = AB[e * h]
  BY <1>3, <1>7, <1>8, TwistIs, TwistAlike
<1> HIDE DEF X, Y, V
<1>14. Alike(X, Y)
  BY <1>10, <1>12, <1>13, AlikeEqual
<1>15. Alike(W, Y)
  BY <1>4, <1>7, <1>8, ConvAlike DEF Y
<1> HIDE DEF W
<1>16. Alike(V, Y) /\ Alike(Y, W)
  BY <1>10, <1>13, <1>14, <1>15, AlikeTrans, AlikeBack
<1>17. Alike(V, W)
  BY <1>10, <1>13, <1>16, AlikeTrans
<1>18. Galois(g, t) = Times(p, q)
  BY <1>5, <1>6, <1>10, <1>13, <1>17, PolyByLift
<1> QED
  BY <1>18 DEF t, p, q

\* X -> X^g after X -> X^h is X -> X^(g h).
LEMMA GaloisTwice ==
  ASSUME NEW a \in Poly, NEW g, Unit(g), NEW h, Unit(h)
  PROVE  Galois(g, Galois(h, a)) = Galois(g * h, a)
<1> DEFINE i == GaloisInv(g)
           j == GaloisInv(h)
           gh == g * h
           k == GaloisInv(gh)
           A == Unrolled(a)
           p == Galois(h, a)
           P == Unrolled(p)
           B == Twist(A, j)
           C == Twist(B, i)
           D == Twist(A, k)
           E == Twist(P, i)
<1>1. i \in Int /\ j \in Int /\ Unit(gh) /\ Equal(i * j, k)
  BY GaloisInvIs, UnitProduct
<1> HIDE DEF gh
<1>2. k \in Int
  BY <1>1, GaloisInvIs
<1>3. A \in Signal
  BY PolyIs
<1>4. p \in Poly /\ Alike(P, B)
  BY GaloisUnrolled
<1>5. Galois(gh, a) \in Poly /\ Alike(Unrolled(Galois(gh, a)), D)
  BY <1>1, GaloisUnrolled
<1> HIDE DEF p
<1>6. P \in Signal
  BY <1>4, PolyIs
<1>7. Galois(g, p) \in Poly /\ Alike(Unrolled(Galois(g, p)), E)
  BY <1>4, GaloisUnrolled
<1> HIDE DEF A, P
<1>8. B \in Signal /\ \A e \in Int : e * j \in Int /\ B[e] = A[e * j]
  BY <1>3, TwistIs
<1>9. D \in Signal /\ \A e \in Int : e * k \in Int /\ D[e] = A[e * k]
  BY <1>1, <1>3, TwistIs
<1> HIDE DEF B
<1>10. C \in Signal /\ \A e \in Int : e * i \in Int /\ C[e] = B[e * i]
  BY <1>8, TwistIs
<1>11. E \in Signal /\ Alike(E, C)
  BY <1>4, <1>6, <1>8, TwistIs, TwistAlike
<1> HIDE DEF C, D, E
<1>12. ASSUME NEW e \in Int PROVE C[e] = D[e]
  <2> DEFINE x == e * i
             y == x * j
             z == e * k
  <2>1. x \in Int /\ C[e] = B[x]
    BY <1>10
  <2> HIDE DEF x
  <2>2. y \in Int /\ B[x] = A[y] /\ z \in Int /\ D[e] = A[z]
    BY <1>8, <1>9, <2>1
  <2>3. Equal(y, z)
    <3>1. (e * i) * j = e * (i * j)
      BY <1>1, SMT
    <3>2. i * j \in Int /\ Equal(e, e)
      BY <1>1, IntProduct, EqualLaws
    <3>3. Equal(e * (i * j), e * k)
      BY <1>1, <1>2, <3>2, EqualLaws
    <3> QED
      BY <3>1, <3>3 DEF x
  <2> HIDE DEF y, z
  <2>4. A[y] = A[z]
    BY <1>3, <2>2, <2>3, SignalEqual
  <2> QED
    BY <2>1, <2>2, <2>4
<1>13. Alike(C, D)
  BY <1>9, <1>10, <1>12, AlikeEqual
<1>14. Alike(E, D)
  BY <1>9, <1>10, <1>11, <1>13, AlikeTrans
<1>15. Galois(g, p) = Galois(gh, a)
  BY <1>5, <1>7, <1>9, <1>11, <1>14, PolyByLift
<1> QED
  BY <1>15 DEF p, gh

\* X -> X^g depends on g modulo 2 N.
LEMMA GaloisEqual ==
  ASSUME NEW g, Unit(g), NEW h \in Int, Equal(g, h), NEW a
  PROVE  Unit(h) /\ Galois(g, a) = Galois(h, a)
BY UnitEqual DEF Galois

\* X -> X changes nothing.
LEMMA GaloisOne ==
  ASSUME NEW a \in Poly
  PROVE  Galois(1, a) = a
<1> DEFINE i == GaloisInv(1)
           A == Unrolled(a)
           B == Twist(A, i)
<1>1. Unit(1) /\ Equal(1, i) /\ i \in Int
  BY UnitOne, GaloisInvIs
<1>2. A \in Signal
  BY PolyIs
<1>3. Galois(1, a) \in Poly /\ Alike(Unrolled(Galois(1, a)), B)
  BY <1>1, GaloisUnrolled
<1>4. B \in Signal /\ \A e \in Int : e * i \in Int /\ B[e] = A[e * i]
  BY <1>1, <1>2, TwistIs
<1>5. Alike(A, A)
  BY <1>2, AlikeEqual
<1> HIDE DEF B, i, A
<1>6. ASSUME NEW e \in Int PROVE B[e] = A[e]
  <2>1. Equal(e, e) /\ e * 1 = e
    BY EqualLaws
  <2>2. Equal(e * 1, e * i)
    BY <1>1, <2>1, EqualLaws, 1 \in Int
  <2>3. A[e] = A[e * i]
    BY <1>2, <1>4, <2>1, <2>2, SignalEqual
  <2> QED
    BY <1>4, <2>3
<1>7. Alike(B, A)
  BY <1>2, <1>4, <1>6, AlikeEqual
<1> QED
  BY <1>2, <1>3, <1>4, <1>5, <1>7, PolyByLift DEF A

\* A power of X, and a multiple, of a factor.
LEMMA RotateTimes ==
  ASSUME NEW a \in Poly, NEW b \in Poly, NEW k \in Int
  PROVE  Times(Rotate(k, a), b) = Rotate(k, Times(a, b))
<1> DEFINE A == Unrolled(a)
           B == Unrolled(b)
           C == [e \in Int |-> A[e - k]]
           p == Rotate(k, a)
           t == Times(a, b)
           T == Unrolled(t)
           D == [e \in Int |-> T[e - k]]
           CB == Conv(C, B)
           AB == Conv(A, B)
           PB == Conv(Unrolled(p), B)
<1>1. A \in Signal /\ B \in Signal
  BY PolyIs
<1>2. C \in Signal /\ \A e \in Int : C[e] = A[e - k]
  <2> HIDE DEF A
  <2> QED
    BY <1>1, ShiftedSignal
<1>3. p \in Poly /\ Alike(Unrolled(p), C)
  <2> HIDE DEF C
  <2> QED
    BY <1>2, RotateUnrolled
<1>4. t \in Poly /\ Alike(T, AB)
  BY TimesUnrolled
<1> HIDE DEF p, t
<1>5. T \in Signal /\ Unrolled(p) \in Signal
  BY <1>3, <1>4, PolyIs
<1>6. D \in Signal /\ \A e \in Int : D[e] = T[e - k]
  <2> HIDE DEF T
  <2> QED
    BY <1>5, ShiftedSignal
<1>7. Times(p, b) \in Poly /\ Alike(Unrolled(Times(p, b)), PB)
  BY <1>3, TimesUnrolled
<1>8. Rotate(k, t) \in Poly /\ Alike(Unrolled(Rotate(k, t)), D)
  <2> HIDE DEF D
  <2> QED
    BY <1>4, <1>6, RotateUnrolled
<1> HIDE DEF A, B, C, D, T
<1>9. AB \in Signal /\ CB \in Signal /\ PB \in Signal
  BY <1>1, <1>2, <1>5, ConvIsSignal
<1>10. \A e \in Int : CB[e] = AB[e - k]
  BY <1>1, <1>2, ConvShifts
<1>11. Alike(B, B)
  BY <1>1, AlikeEqual
<1>12. Alike(PB, CB)
  BY <1>1, <1>2, <1>3, <1>5, <1>11, ConvAlike
<1> HIDE DEF AB, CB, PB
<1>13. Alike(D, CB)
  <2>1. ASSUME NEW e \in Int PROVE Same(D[e], CB[e])
    <3>1. e - k \in Int
      OBVIOUS
    <3>2. Same(T[e - k], AB[e - k])
      BY <1>4, <3>1 DEF Alike
    <3> QED
      BY <1>6, <1>10, <3>2
  <2> QED
    BY <2>1 DEF Alike
<1>14. Alike(PB, D)
  BY <1>6, <1>9, <1>12, <1>13, AlikeTrans, AlikeBack
<1>15. Times(p, b) = Rotate(k, t)
  BY <1>6, <1>7, <1>8, <1>9, <1>14, PolyByLift
<1> QED
  BY <1>15 DEF p, t

\* A factor comes out of a product.
LEMMA ScaleTimes ==
  ASSUME NEW a \in Poly, NEW b \in Poly, NEW c \in Int
  PROVE  Times(Scale(c, a), b) = Scale(c, Times(a, b))
<1> DEFINE A == Unrolled(a)
           B == Unrolled(b)
           p == Scale(c, a)
           P == Unrolled(p)
           t == Times(a, b)
           AB == Conv(A, B)
           PB == Conv(P, B)
           l == Times(p, b)
           r == Scale(c, t)
<1>1. A \in Signal /\ B \in Signal
  BY PolyIs
<1>2. p \in Poly /\ t \in Poly /\ Alike(Unrolled(t), AB)
  BY ScaleIs, TimesUnrolled
<1> HIDE DEF p, t
<1>3. P \in Signal /\ l \in Poly /\ r \in Poly /\ Alike(Unrolled(l), PB)
  BY <1>2, PolyIs, ScaleIs, TimesUnrolled
<1>4. ASSUME NEW e \in Int PROVE Same(P[e], c * A[e])
  <2> DEFINE x == At(p, e)
             y == c * At(a, e)
             z == c * A[e]
  <2>1. Same(x, y)
    BY AtPlus DEF p
  <2>2. /\ x \in Int /\ At(a, e) \in Int /\ Same(x, P[e]) /\ Same(At(a, e), A[e])
        /\ P[e] \in Int /\ A[e] \in Int
    BY <1>1, <1>2, <1>3, AtIs, SignalTurns
  <2>3. y \in Int /\ z \in Int /\ Same(y, z)
    BY <2>2, SameIt, SameProduct, IntProduct
  <2> HIDE DEF x, y, z
  <2>4. Same(P[e], x) /\ Same(x, z)
    BY <2>1, <2>2, <2>3, SameTrans, SameBack
  <2>5. Same(P[e], z)
    BY <2>2, <2>3, <2>4, SameTrans
  <2> QED
    BY <2>5 DEF z
<1> HIDE DEF A, B, P
<1>5. ASSUME NEW i \in Coef PROVE Same(l[i], r[i])
  <2> DEFINE F == Terms(A, B, i)
             G == Terms(P, B, i)
             H == [k \in Int |-> c * F[k]]
  <2>1. i \in Int
    BY PeriodIs DEF Coef
  <2>2. AB[i] = Sum(F, N) /\ PB[i] = Sum(G, N) /\ AB[i] \in Int /\ PB[i] \in Int
    BY <1>1, <1>3, <2>1, ConvAt
  <2>3. \A k \in Int : F[k] = A[k] * B[i - k] /\ F[k] \in Int
    BY <1>1, <2>1, ConvAt
  <2>4. \A k \in Int : G[k] = P[k] * B[i - k] /\ G[k] \in Int
    BY <1>1, <1>3, <2>1, ConvAt
  <2> HIDE DEF F, G
  <2>5. ASSUME NEW k \in 0 .. N - 1
        PROVE  F[k] \in Int /\ H[k] = c * F[k] /\ G[k] \in Int /\ H[k] \in Int /\ Congruent(G[k], H[k], Q)
    <3> DEFINE x == P[k]
               y == A[k]
               z == B[i - k]
    <3>1. k \in Int /\ i - k \in Int
      BY <2>1
    <3>2. x \in Int /\ y \in Int /\ z \in Int /\ Same(x, c * y)
      BY <1>1, <1>3, <1>4, <3>1, SignalTurns
    <3>3. F[k] = y * z /\ F[k] \in Int /\ G[k] = x * z /\ G[k] \in Int /\ H[k] = c * F[k]
      BY <2>3, <2>4, <3>1
    <3> HIDE DEF x, y, z, H
    <3>4. c * y \in Int /\ (c * y) * z = c * (y * z) /\ c * F[k] \in Int
      BY <3>2, <3>3, SMT
    <3>5. Same(x * z, (c * y) * z)
      BY <3>2, <3>4, SameIt, SameProduct
    <3> QED
      BY <3>3, <3>4, <3>5 DEF Same
  <2> HIDE DEF H
  <2>6. Sum(H, N) = c * Sum(F, N)
    BY <2>5, PeriodIs, SumTimes
  <2>7. Congruent(Sum(G, N), Sum(H, N), Q)
    BY <2>5, PeriodIs, SumsCongruent
  <2> DEFINE u == PB[i]
             v == AB[i]
             w == c * v
             tt == t[i]
             ll == l[i]
             rr == r[i]
             s == c * tt
  <2>8. u \in Int /\ v \in Int /\ w \in Int /\ Same(u, w)
    BY <2>2, <2>6, <2>7, IntProduct DEF Same
  <2>9. tt \in Int /\ ll \in Int /\ rr \in Int /\ Same(tt, v) /\ Same(ll, u)
    <3>1. /\ t[i] \in Int /\ l[i] \in Int /\ r[i] \in Int
          /\ Unrolled(t)[i] = t[i] /\ Unrolled(l)[i] = l[i]
      <4> HIDE DEF l, r
      <4> QED
        BY <1>2, <1>3, PolyIs
    <3> QED
      BY <1>2, <1>3, <2>1, <3>1 DEF Alike
  <2>10. Same(rr, s)
    BY <1>2, ScaleIs
  <2> HIDE DEF u, v, tt, ll, rr
  <2>11. Same(s, w) /\ s \in Int
    BY <2>8, <2>9, SameIt, SameProduct, IntProduct
  <2> HIDE DEF s, w
  <2>12. Same(ll, w) /\ Same(rr, w)
    BY <2>8, <2>9, <2>10, <2>11, SameTrans
  <2>13. Same(w, rr)
    BY <2>8, <2>9, <2>12, SameBack
  <2>14. Same(ll, rr)
    BY <2>8, <2>9, <2>12, <2>13, SameTrans
  <2> QED
    BY <2>14 DEF ll, rr
<1> HIDE DEF l, r
<1>6. l = r
  BY <1>3, <1>5, CoefsSame
<1> QED
  BY <1>6 DEF l, r, p, t

-----------------------------------------------------------------------------
(* Sums of polynomials *)

\* Polynomials f[0] .. f[n - 1].
Polys(f, n) == \A k \in 0 .. n - 1 : f[k] \in Poly

\* The coefficients of a sum of polynomials.
LEMMA PlusUpToIs ==
  ASSUME NEW n \in Nat, NEW f, Polys(f, n)
  PROVE  /\ PlusUpTo(f, n) \in Poly
         /\ \A i \in Coef : LET c == [k \in 0 .. n - 1 |-> f[k][i]]
                            IN  Sum(c, n) \in Int /\ PlusUpTo(f, n)[i] = Sum(c, n) % Q
<1> DEFINE c(i) == [k \in 0 .. n - 1 |-> f[k][i]]
           p == PlusUpTo(f, n)
<1>1. ASSUME NEW i \in Coef
      PROVE  Sum(c(i), n) \in Int /\ p[i] = Sum(c(i), n) % Q /\ p[i] \in 0 .. Q - 1
  <2> DEFINE g == c(i)
  <2>1. \A k \in 0 .. n - 1 : g[k] \in Int
    BY PolyIs DEF Polys
  <2>2. p[i] = SumUpTo(g, n) % Q
    BY DEF PlusUpTo
  <2> HIDE DEF g
  <2>3. SumUpTo(g, n) = Sum(g, n) /\ Sum(g, n) \in Int
    BY <2>1, SumUpToIs, SumIsInt
  <2> QED
    BY <2>2, <2>3, SameRest DEF g
<1>2. p = [i \in Coef |-> p[i]]
  BY DEF PlusUpTo
<1> HIDE DEF p, c
<1>3. p \in Poly
  BY <1>1, <1>2 DEF Poly
<1> QED
  BY <1>1, <1>3 DEF p, c

\* A sum of one polynomial more.
LEMMA PlusUpToNext ==
  ASSUME NEW n \in Nat, NEW f, Polys(f, n + 1)
  PROVE  /\ PlusUpTo(f, 0) = Zero
         /\ Polys(f, n) /\ PlusUpTo(f, n) \in Poly /\ f[n] \in Poly
         /\ PlusUpTo(f, n + 1) = Plus(PlusUpTo(f, n), f[n])
<1>1. Polys(f, 0) /\ Polys(f, n) /\ f[n] \in Poly
  BY DEF Polys
<1>2. PlusUpTo(f, 0) = Zero
  <2>1. ASSUME NEW i \in Coef PROVE Same(PlusUpTo(f, 0)[i], Zero[i])
    <3> DEFINE c == [k \in 0 .. 0 - 1 |-> f[k][i]]
    <3>1. PlusUpTo(f, 0)[i] = Sum(c, 0) % Q
      BY <1>1, PlusUpToIs
    <3>2. Sum(c, 0) = 0
      BY SumNext
    <3> HIDE DEF c
    <3>3. Same(0 % Q, 0)
      BY SameRest
    <3> QED
      BY <3>1, <3>2, <3>3, ZeroIs
  <2> QED
    BY <1>1, <2>1, PlusUpToIs, ZeroIs, CoefsSame
<1>3. PlusUpTo(f, n + 1) = Plus(PlusUpTo(f, n), f[n])
  <2> DEFINE p == PlusUpTo(f, n)
             q == PlusUpTo(f, n + 1)
             r == Plus(p, f[n])
  <2>1. p \in Poly /\ q \in Poly
    BY <1>1, PlusUpToIs
  <2>2. r \in Poly /\ \A i \in Coef : Same(r[i], p[i] + f[n][i])
    <3> HIDE DEF p
    <3> QED
      BY <1>1, <2>1, PlusIs
  <2>3. ASSUME NEW i \in Coef PROVE Same(q[i], r[i])
    <3> DEFINE c == [k \in 0 .. n - 1 |-> f[k][i]]
               d == [k \in 0 .. (n + 1) - 1 |-> f[k][i]]
               s == Sum(c, n)
               x == f[n][i]
    <3>1. p[i] = s % Q /\ s \in Int
      BY <1>1, PlusUpToIs
    <3>2. q[i] = Sum(d, n + 1) % Q
      BY PlusUpToIs
    <3>3. Sum(d, n + 1) = Sum(d, n) + d[n] /\ d[n] = x
      BY SumNext, SMTT(40)
    <3>4. \A k \in 0 .. n - 1 : c[k] = d[k]
      OBVIOUS
    <3> HIDE DEF c, d, p, q, r
    <3>5. Sum(d, n) = Sum(c, n)
      BY <3>4, SumSame
    <3>6. x \in Int /\ p[i] \in Int /\ q[i] \in Int /\ r[i] \in Int
      BY <1>1, <2>1, <2>2, PolyIs
    <3>7. Same(r[i], p[i] + x)
      BY <2>2
    <3> HIDE DEF s, x
    <3>8. Same(p[i], s)
      BY <3>1, SameRest
    <3> DEFINE t == s + x
               u == p[i] + x
    <3>9. Same(u, t) /\ t \in Int /\ u \in Int
      <4> DEFINE y == p[i]
      <4>1. y \in Int /\ s \in Int /\ x \in Int /\ Same(y, s)
        BY <3>1, <3>6, <3>8
      <4> HIDE DEF y
      <4>2. Same(y + x, s + x)
        BY <4>1, SameIt, SameSum
      <4> QED
        BY <4>1, <4>2 DEF y
    <3>10. q[i] = t % Q
      BY <3>2, <3>3, <3>5 DEF s
    <3> HIDE DEF t, u
    <3>11. Same(q[i], t)
      BY <3>9, <3>10, SameRest
    <3>12. Same(r[i], u)
      BY <3>7 DEF u
    <3>13. Same(r[i], t)
      BY <3>6, <3>9, <3>12, SameTrans
    <3>14. Same(t, r[i])
      BY <3>6, <3>9, <3>13, SameBack
    <3> QED
      BY <3>6, <3>9, <3>11, <3>14, SameTrans
  <2> HIDE DEF p, q, r
  <2>4. q = r
    BY <2>1, <2>2, <2>3, CoefsSame
  <2> QED
    BY <2>4 DEF p, q, r
<1> QED
  BY <1>1, <1>2, <1>3, PlusUpToIs

\* Sums of the same polynomials.
LEMMA PlusUpToSame ==
  ASSUME NEW n \in Nat, NEW f, Polys(f, n), NEW g, \A k \in 0 .. n - 1 : g[k] = f[k]
  PROVE  PlusUpTo(g, n) = PlusUpTo(f, n) /\ Polys(g, n)
<1>1. [i \in Coef |-> SumUpTo([k \in 0 .. n - 1 |-> f[k][i]], n) % Q]
        = [i \in Coef |-> SumUpTo([k \in 0 .. n - 1 |-> g[k][i]], n) % Q]
  <2>1. \A i \in Coef : [k \in 0 .. n - 1 |-> f[k][i]] = [k \in 0 .. n - 1 |-> g[k][i]]
    OBVIOUS
  <2> QED
    BY <2>1
<1>2. PlusUpTo(g, n) = PlusUpTo(f, n)
  BY <1>1 DEF PlusUpTo
<1> QED
  BY <1>2 DEF Polys

\* The parts of a sum are polynomials.
LEMMA PolysParts ==
  ASSUME NEW n \in Nat, NEW f, Polys(f, n)
  PROVE  \A m \in 0 .. n : m \in Nat /\ Polys(f, m) /\ PlusUpTo(f, m) \in Poly
<1>1. ASSUME NEW m \in 0 .. n PROVE m \in Nat /\ Polys(f, m)
  BY DEF Polys
<1> QED
  BY <1>1, PlusUpToIs

\* Only zero is twice itself.
LEMMA PlusCancels ==
  ASSUME NEW a \in Poly, Plus(a, a) = a
  PROVE  a = Zero
<1>1. ASSUME NEW i \in Coef PROVE Same(a[i], Zero[i])
  <2> DEFINE x == a[i]
             m == -x
  <2>1. x \in Int /\ Same(x, x + x) /\ Zero[i] = 0
    BY PolyIs, PlusIs, ZeroIs
  <2> HIDE DEF x
  <2>2. m \in Int /\ x + x \in Int /\ Same(m, m) /\ x + m = 0 /\ (x + x) + m = x
    BY <2>1, SameIt
  <2> HIDE DEF m
  <2>3. Same(x + m, (x + x) + m)
    BY <2>1, <2>2, SameSum
  <2>4. Same(0, x)
    BY <2>2, <2>3
  <2> QED
    BY <2>1, <2>4, SameBack, 0 \in Int DEF x
<1> QED
  BY <1>1, ZeroIs, CoefsSame

\* Maps of polynomials that keep sums.
Additive(m) ==
  /\ m \in [Poly -> Poly]
  /\ \A a \in Poly, b \in Poly : m[Plus(a, b)] = Plus(m[a], m[b])

\* They keep sums of any length.
LEMMA AdditiveKeepsSums ==
  ASSUME NEW m, Additive(m), NEW n \in Nat, NEW f, Polys(f, n),
         NEW g, \A k \in 0 .. n - 1 : g[k] = m[f[k]]
  PROVE  Polys(g, n) /\ PlusUpTo(g, n) = m[PlusUpTo(f, n)]
<1>1. Polys(g, n)
  BY DEF Polys, Additive
<1> DEFINE S == {i \in 0 .. n : PlusUpTo(g, i) = m[PlusUpTo(f, i)]}
<1>2. 0 \in S
  <2>1. Plus(Zero, Zero) = Zero /\ Zero \in Poly
    BY ZeroIs, PlusLaws
  <2>2. m[Zero] \in Poly /\ Plus(m[Zero], m[Zero]) = m[Zero]
    BY <2>1 DEF Additive
  <2>3. m[Zero] = Zero
    BY <2>2, PlusCancels
  <2>4. PlusUpTo(f, 0) = Zero /\ PlusUpTo(g, 0) = Zero
    <3>1. ASSUME NEW h PROVE PlusUpTo(h, 0) = Zero
      <4> DEFINE z == [i \in 0 .. 0 |-> Zero]
      <4>1. Polys(z, 0 + 1) /\ \A k \in 0 .. 0 - 1 : h[k] = z[k]
        BY ZeroIs DEF Polys
      <4> HIDE DEF z
      <4>2. PlusUpTo(z, 0) = Zero /\ Polys(z, 0)
        BY <4>1, PlusUpToNext
      <4>3. PlusUpTo(h, 0) = PlusUpTo(z, 0)
        BY <4>1, <4>2, PlusUpToSame
      <4> QED
        BY <4>2, <4>3
    <3> QED
      BY <3>1
  <2> QED
    BY <2>3, <2>4
<1>3. ASSUME NEW i \in 0 .. n - 1, i \in S
      PROVE  i + 1 \in S
  <2>1. i \in Nat /\ i + 1 \in 0 .. n /\ Polys(f, i + 1) /\ Polys(g, i + 1) /\ g[i] = m[f[i]]
    BY <1>1, PolysParts
  <2>2. /\ PlusUpTo(f, i + 1) = Plus(PlusUpTo(f, i), f[i])
        /\ PlusUpTo(g, i + 1) = Plus(PlusUpTo(g, i), g[i])
        /\ PlusUpTo(f, i) \in Poly /\ f[i] \in Poly
    BY <2>1, PlusUpToNext
  <2>3. PlusUpTo(g, i) = m[PlusUpTo(f, i)]
    BY <1>3
  <2>4. PlusUpTo(g, i + 1) = m[PlusUpTo(f, i + 1)]
    BY <2>1, <2>2, <2>3 DEF Additive
  <2> QED
    BY <2>1, <2>4
<1> HIDE DEF S
<1>4. 0 .. n \subseteq S
  BY <1>2, <1>3, StepsReachAll
<1>5. n \in S
  BY <1>4
<1> QED
  BY <1>1, <1>5 DEF S

-----------------------------------------------------------------------------
(* The offline phase: sums of polynomials, the powers of five, the tree,   *)
(* the collapse                                                            *)

\* Products with a polynomial, automorphisms, rotations and multiples keep sums.
LEMMA SumOfTimes ==
  ASSUME NEW b \in Poly, NEW n \in Nat, NEW f, Polys(f, n),
         NEW g, \A k \in 0 .. n - 1 : g[k] = Times(f[k], b)
  PROVE  Polys(g, n) /\ PlusUpTo(g, n) = Times(PlusUpTo(f, n), b)
<1> DEFINE m == [a \in Poly |-> Times(a, b)]
<1>1. Additive(m)
  <2>1. m \in [Poly -> Poly]
    BY TimesUnrolled
  <2>2. ASSUME NEW c \in Poly, NEW d \in Poly PROVE m[Plus(c, d)] = Plus(m[c], m[d])
    BY TimesPlus, PlusIs
  <2> QED
    BY <2>1, <2>2 DEF Additive
<1>2. \A a \in Poly : m[a] = Times(a, b)
  OBVIOUS
<1>3. \A k \in 0 .. n - 1 : g[k] = m[f[k]]
  BY DEF Polys
<1>4. PlusUpTo(f, n) \in Poly
  BY PlusUpToIs
<1> HIDE DEF m
<1>5. Polys(g, n) /\ PlusUpTo(g, n) = m[PlusUpTo(f, n)]
  BY <1>1, <1>3, AdditiveKeepsSums
<1> QED
  BY <1>2, <1>4, <1>5

\* The sum of images under an automorphism is the image of the sum.
LEMMA SumOfGalois ==
  ASSUME NEW h, Unit(h), NEW n \in Nat, NEW f, Polys(f, n),
         NEW g, \A k \in 0 .. n - 1 : g[k] = Galois(h, f[k])
  PROVE  Polys(g, n) /\ PlusUpTo(g, n) = Galois(h, PlusUpTo(f, n))
<1> DEFINE m == [a \in Poly |-> Galois(h, a)]
<1>1. Additive(m)
  <2>1. m \in [Poly -> Poly]
    BY GaloisUnrolled
  <2>2. ASSUME NEW c \in Poly, NEW d \in Poly PROVE m[Plus(c, d)] = Plus(m[c], m[d])
    BY GaloisPlus, PlusIs, 0 \in Int
  <2> QED
    BY <2>1, <2>2 DEF Additive
<1>2. \A a \in Poly : m[a] = Galois(h, a)
  OBVIOUS
<1>3. \A k \in 0 .. n - 1 : g[k] = m[f[k]]
  BY DEF Polys
<1>4. PlusUpTo(f, n) \in Poly
  BY PlusUpToIs
<1> HIDE DEF m
<1>5. Polys(g, n) /\ PlusUpTo(g, n) = m[PlusUpTo(f, n)]
  BY <1>1, <1>3, AdditiveKeepsSums
<1> QED
  BY <1>2, <1>4, <1>5

\* A multiple of a sum is the sum of the multiples.
LEMMA ScalePlus ==
  ASSUME NEW a \in Poly, NEW b \in Poly, NEW c \in Int
  PROVE  Scale(c, Plus(a, b)) = Plus(Scale(c, a), Scale(c, b))
<1> DEFINE l == Scale(c, Plus(a, b))
           r == Plus(Scale(c, a), Scale(c, b))
<1>1. l \in Poly /\ r \in Poly
  BY PlusIs, ScaleIs
<1>2. ASSUME NEW i \in Coef PROVE Same(l[i], r[i])
  <2> DEFINE x == a[i]
             y == b[i]
             z == x + y
             u == Scale(c, a)[i]
             v == Scale(c, b)[i]
             w == Plus(a, b)[i]
             ll == l[i]
             rr == r[i]
  <2>1. x \in Int /\ y \in Int /\ u \in Int /\ v \in Int /\ w \in Int /\ ll \in Int /\ rr \in Int
    <3>1. Scale(c, a) \in Poly /\ Scale(c, b) \in Poly /\ Plus(a, b) \in Poly
      BY PlusIs, ScaleIs
    <3> HIDE DEF l, r
    <3> QED
      BY <1>1, <3>1, PolyIs
  <2>2. Same(u, c * x) /\ Same(v, c * y) /\ Same(w, z)
    BY ScaleIs, PlusIs
  <2>3. Same(ll, c * w) /\ Same(rr, u + v)
    BY ScaleIs, PlusIs
  <2> HIDE DEF x, y, u, v, w, ll, rr
  <2> DEFINE cx == c * x
             cy == c * y
             cz == c * z
             cw == c * w
             s == cx + cy
             uv == u + v
  <2>4. cx \in Int /\ cy \in Int /\ z \in Int /\ cz \in Int /\ cw \in Int /\ cz = s /\ s \in Int
        /\ uv \in Int
    BY <2>1, SMT
  <2> HIDE DEF z
  <2>5. Same(c, c) /\ Same(cw, cz)
    BY <2>1, <2>2, <2>4, SameIt, SameProduct
  <2> HIDE DEF cx, cy, cz, cw
  <2>6. Same(uv, s)
    BY <2>1, <2>2, <2>4, SameSum DEF cx, cy
  <2> HIDE DEF s, uv
  <2>7. Same(ll, s)
    BY <2>1, <2>3, <2>4, <2>5, SameTrans DEF cw
  <2>8. Same(rr, s)
    BY <2>1, <2>3, <2>4, <2>6, SameTrans DEF uv
  <2>9. Same(s, rr)
    BY <2>1, <2>4, <2>8, SameBack
  <2>10. Same(ll, rr)
    BY <2>1, <2>4, <2>7, <2>9, SameTrans
  <2> QED
    BY <2>10 DEF ll, rr
<1> HIDE DEF l, r
<1>3. l = r
  BY <1>1, <1>2, CoefsSame
<1> QED
  BY <1>3 DEF l, r

\* The sum of multiples is the multiple of the sum.
LEMMA SumOfScale ==
  ASSUME NEW c \in Int, NEW n \in Nat, NEW f, Polys(f, n),
         NEW g, \A k \in 0 .. n - 1 : g[k] = Scale(c, f[k])
  PROVE  Polys(g, n) /\ PlusUpTo(g, n) = Scale(c, PlusUpTo(f, n))
<1> DEFINE m == [a \in Poly |-> Scale(c, a)]
<1>1. Additive(m)
  <2>1. m \in [Poly -> Poly]
    BY ScaleIs
  <2>2. ASSUME NEW x \in Poly, NEW y \in Poly PROVE m[Plus(x, y)] = Plus(m[x], m[y])
    BY ScalePlus, PlusIs
  <2> QED
    BY <2>1, <2>2 DEF Additive
<1>2. \A a \in Poly : m[a] = Scale(c, a)
  OBVIOUS
<1>3. \A k \in 0 .. n - 1 : g[k] = m[f[k]]
  BY DEF Polys
<1>4. PlusUpTo(f, n) \in Poly
  BY PlusUpToIs
<1> HIDE DEF m
<1>5. Polys(g, n) /\ PlusUpTo(g, n) = m[PlusUpTo(f, n)]
  BY <1>1, <1>3, AdditiveKeepsSums
<1> QED
  BY <1>2, <1>4, <1>5

\* The sum of rotated polynomials is the rotated sum.
LEMMA SumOfRotate ==
  ASSUME NEW c \in Int, NEW n \in Nat, NEW f, Polys(f, n),
         NEW g, \A k \in 0 .. n - 1 : g[k] = Rotate(c, f[k])
  PROVE  Polys(g, n) /\ PlusUpTo(g, n) = Rotate(c, PlusUpTo(f, n))
<1> DEFINE m == [a \in Poly |-> Rotate(c, a)]
<1>1. Additive(m)
  <2>1. m \in [Poly -> Poly]
    BY RotatePlus, 0 \in Int
  <2>2. ASSUME NEW x \in Poly, NEW y \in Poly PROVE m[Plus(x, y)] = Plus(m[x], m[y])
    BY RotatePlus, PlusIs, 0 \in Int
  <2> QED
    BY <2>1, <2>2 DEF Additive
<1>2. \A a \in Poly : m[a] = Rotate(c, a)
  OBVIOUS
<1>3. \A k \in 0 .. n - 1 : g[k] = m[f[k]]
  BY DEF Polys
<1>4. PlusUpTo(f, n) \in Poly
  BY PlusUpToIs
<1> HIDE DEF m
<1>5. Polys(g, n) /\ PlusUpTo(g, n) = m[PlusUpTo(f, n)]
  BY <1>1, <1>3, AdditiveKeepsSums
<1> QED
  BY <1>2, <1>4, <1>5

\* A sum of no polynomials is zero, and so is a sum of zeros.
LEMMA EmptySum ==
  ASSUME NEW f
  PROVE  PlusUpTo(f, 0) = Zero
<1> DEFINE z == [i \in 0 .. 0 |-> Zero]
<1>1. Polys(z, 0 + 1) /\ \A k \in 0 .. 0 - 1 : f[k] = z[k]
  BY ZeroIs DEF Polys
<1> HIDE DEF z
<1>2. PlusUpTo(z, 0) = Zero /\ Polys(z, 0)
  BY <1>1, PlusUpToNext
<1>3. PlusUpTo(f, 0) = PlusUpTo(z, 0)
  BY <1>1, <1>2, PlusUpToSame
<1> QED
  BY <1>2, <1>3

\* Nothing added up is nothing.
LEMMA SumOfZeros ==
  ASSUME NEW n \in Nat, NEW f, \A k \in 0 .. n - 1 : f[k] = Zero
  PROVE  Polys(f, n) /\ PlusUpTo(f, n) = Zero
<1>1. Polys(f, n)
  BY ZeroIs DEF Polys
<1> DEFINE S == {i \in 0 .. n : PlusUpTo(f, i) = Zero}
<1>2. 0 \in S
  BY EmptySum
<1>3. ASSUME NEW i \in 0 .. n - 1, i \in S
      PROVE  i + 1 \in S
  <2>1. i \in Nat /\ i + 1 \in 0 .. n /\ Polys(f, i + 1)
    BY <1>1, PolysParts
  <2>2. PlusUpTo(f, i + 1) = Plus(Zero, Zero)
    BY <1>3, <2>1, PlusUpToNext
  <2> QED
    BY <2>1, <2>2, ZeroIs, PlusLaws
<1> HIDE DEF S
<1>4. 0 .. n \subseteq S
  BY <1>2, <1>3, StepsReachAll
<1>5. n \in S
  BY <1>4
<1> QED
  BY <1>1, <1>5 DEF S

\* Four summands, paired the other way.
LEMMA PlusMixes ==
  ASSUME NEW a \in Poly, NEW b \in Poly, NEW c \in Poly, NEW d \in Poly
  PROVE  Plus(Plus(a, b), Plus(c, d)) = Plus(Plus(a, c), Plus(b, d))
<1> DEFINE cd == Plus(c, d)
           bd == Plus(b, d)
<1>1. cd \in Poly /\ bd \in Poly /\ Plus(b, c) \in Poly
  BY PlusIs
<1>2. Plus(b, cd) = Plus(c, bd)
  BY PlusAssociates, PlusLaws
<1> HIDE DEF cd, bd
<1>3. Plus(Plus(a, b), cd) = Plus(a, Plus(b, cd))
  BY <1>1, PlusAssociates
<1>4. Plus(Plus(a, c), bd) = Plus(a, Plus(c, bd))
  BY <1>1, PlusAssociates
<1> QED
  BY <1>2, <1>3, <1>4 DEF cd, bd

\* Two sums of equal length add up term by term.
LEMMA PlusOfSums ==
  ASSUME NEW n \in Nat, NEW f, Polys(f, n), NEW g, Polys(g, n),
         NEW h, \A k \in 0 .. n - 1 : h[k] = Plus(f[k], g[k])
  PROVE  Polys(h, n) /\ PlusUpTo(h, n) = Plus(PlusUpTo(f, n), PlusUpTo(g, n))
<1>1. Polys(h, n)
  BY PlusIs DEF Polys
<1> DEFINE S == {i \in 0 .. n : PlusUpTo(h, i) = Plus(PlusUpTo(f, i), PlusUpTo(g, i))}
<1>2. \A i \in 0 .. n : i \in Nat /\ Polys(f, i) /\ Polys(g, i) /\ Polys(h, i)
  BY <1>1, PolysParts
<1>3. 0 \in S
  <2>1. PlusUpTo(f, 0) = Zero /\ PlusUpTo(g, 0) = Zero /\ PlusUpTo(h, 0) = Zero
    BY <1>1, EmptySum
  <2> QED
    BY <2>1, ZeroIs, PlusLaws
<1>4. ASSUME NEW i \in 0 .. n - 1, i \in S
      PROVE  i + 1 \in S
  <2> DEFINE a == PlusUpTo(f, i)
             b == PlusUpTo(g, i)
             c == f[i]
             d == g[i]
  <2>1. i \in Nat /\ i + 1 \in 0 .. n /\ Polys(f, i + 1) /\ Polys(g, i + 1) /\ Polys(h, i + 1)
    BY <1>2
  <2>2. /\ PlusUpTo(f, i + 1) = Plus(a, c) /\ a \in Poly /\ c \in Poly
        /\ PlusUpTo(g, i + 1) = Plus(b, d) /\ b \in Poly /\ d \in Poly
        /\ PlusUpTo(h, i + 1) = Plus(PlusUpTo(h, i), h[i])
    BY <2>1, PlusUpToNext
  <2>3. h[i] = Plus(c, d) /\ PlusUpTo(h, i) = Plus(a, b)
    BY <1>4
  <2> HIDE DEF a, b, c, d
  <2>4. Plus(Plus(a, b), Plus(c, d)) = Plus(Plus(a, c), Plus(b, d))
    BY <2>2, PlusMixes
  <2> QED
    BY <2>1, <2>2, <2>3, <2>4
<1> HIDE DEF S
<1>5. 0 .. n \subseteq S
  BY <1>3, <1>4, StepsReachAll
<1>6. n \in S
  BY <1>5
<1> QED
  BY <1>1, <1>6 DEF S

\* A sum in two parts.
LEMMA PlusUpToInTwo ==
  ASSUME NEW n \in Nat, NEW m \in Nat, NEW f, Polys(f, n + m),
         NEW g, \A i \in 0 .. m - 1 : g[i] = f[n + i]
  PROVE  /\ Polys(f, n) /\ Polys(g, m)
         /\ PlusUpTo(f, n + m) = Plus(PlusUpTo(f, n), PlusUpTo(g, m))
<1>1. Polys(f, n) /\ PlusUpTo(f, n) \in Poly
  BY PolysParts
<1>2. Polys(g, m)
  <2>1. \A i \in 0 .. m - 1 : n + i \in 0 .. (n + m) - 1
    OBVIOUS
  <2> QED
    BY <2>1 DEF Polys
<1> DEFINE S == {i \in 0 .. m : PlusUpTo(f, n + i) = Plus(PlusUpTo(f, n), PlusUpTo(g, i))}
<1>3. 0 \in S
  <2>1. PlusUpTo(g, 0) = Zero /\ n + 0 = n
    BY EmptySum
  <2> QED
    BY <1>1, <2>1, PlusLaws, ZeroIs
<1>4. ASSUME NEW i \in 0 .. m - 1, i \in S
      PROVE  i + 1 \in S
  <2> DEFINE a == PlusUpTo(f, n)
             b == PlusUpTo(g, i)
             c == g[i]
             ni == n + i
  <2>1. i \in Nat /\ i + 1 \in 0 .. m /\ ni \in Nat /\ ni + 1 \in 0 .. n + m /\ n + (i + 1) = ni + 1
    OBVIOUS
  <2>2. Polys(g, i + 1) /\ Polys(f, ni + 1)
    BY <1>2, <2>1, PolysParts, n + m \in Nat
  <2>3. PlusUpTo(g, i + 1) = Plus(b, c) /\ b \in Poly /\ c \in Poly
    BY <2>1, <2>2, PlusUpToNext
  <2>4. f[ni] = c
    OBVIOUS
  <2>5. PlusUpTo(f, ni) = Plus(a, b)
    BY <1>4
  <2> HIDE DEF a, b, c, ni
  <2>6. PlusUpTo(f, ni + 1) = Plus(Plus(a, b), c)
    BY <2>1, <2>2, <2>4, <2>5, PlusUpToNext
  <2>7. PlusUpTo(f, ni + 1) = Plus(a, Plus(b, c))
    BY <1>1, <2>3, <2>6, PlusAssociates DEF a
  <2> QED
    BY <2>1, <2>3, <2>7 DEF a
<1> HIDE DEF S
<1>5. 0 .. m \subseteq S
  BY <1>3, <1>4, StepsReachAll
<1>6. m \in S
  BY <1>5
<1> QED
  BY <1>1, <1>2, <1>6 DEF S

\* m sums of n polynomials, and the sum of the sums.
PolysOfTable(table, turned, m, n, rows, cols) ==
  /\ \A i \in 0 .. m - 1 : Polys(table[i], n) /\ rows[i] = PlusUpTo(table[i], n)
  /\ \A j \in 0 .. n - 1 : cols[j] = PlusUpTo(turned[j], m)
  /\ \A i \in 0 .. m - 1, j \in 0 .. n - 1 : turned[j][i] = table[i][j]

\* A table of polynomials has one sum, by rows and by columns.
LEMMA PlusUpToSwap ==
  ASSUME NEW m \in Nat, NEW n \in Nat, NEW table, NEW turned, NEW rows, NEW cols,
         PolysOfTable(table, turned, m, n, rows, cols)
  PROVE  /\ Polys(rows, m) /\ Polys(cols, n)
         /\ PlusUpTo(rows, m) = PlusUpTo(cols, n)
<1>1. \A j \in 0 .. n - 1 : Polys(turned[j], m)
  BY DEF PolysOfTable, Polys
<1> DEFINE part(i) == [j \in 0 .. n - 1 |-> PlusUpTo(turned[j], i)]
           S == {i \in 0 .. m : PlusUpTo(rows, i) = PlusUpTo(part(i), n)}
<1>2. Polys(rows, m)
  BY PlusUpToIs DEF PolysOfTable, Polys
<1>3. \A i \in 0 .. m : i \in Nat /\ Polys(part(i), n)
  <2>1. ASSUME NEW i \in 0 .. m PROVE Polys(part(i), n)
    <3>1. \A j \in 0 .. n - 1 : PlusUpTo(turned[j], i) \in Poly
      BY <1>1, PolysParts
    <3> QED
      BY <3>1 DEF Polys
  <2> QED
    BY <2>1
<1>4. 0 \in S
  <2>1. PlusUpTo(rows, 0) = Zero
    BY EmptySum
  <2>2. \A j \in 0 .. n - 1 : part(0)[j] = Zero
    BY EmptySum
  <2> DEFINE p == part(0)
  <2> HIDE DEF part
  <2>3. PlusUpTo(p, n) = Zero
    BY <2>2, SumOfZeros
  <2> QED
    BY <2>1, <2>3 DEF p
<1>5. ASSUME NEW i \in 0 .. m - 1, i \in S
      PROVE  i + 1 \in S
  <2> DEFINE p == part(i)
             q == part(i + 1)
             t == table[i]
  <2>1. i \in Nat /\ i + 1 \in 0 .. m /\ i \in 0 .. m
    OBVIOUS
  <2>2. \A j \in 0 .. n - 1 : q[j] = Plus(p[j], t[j])
    <3>1. ASSUME NEW j \in 0 .. n - 1
          PROVE  PlusUpTo(turned[j], i + 1) = Plus(PlusUpTo(turned[j], i), turned[j][i])
      BY <1>1, <2>1, PolysParts, PlusUpToNext
    <3>2. \A j \in 0 .. n - 1 : turned[j][i] = t[j]
      BY DEF PolysOfTable
    <3> QED
      BY <3>1, <3>2
  <2>3. Polys(p, n) /\ Polys(t, n) /\ rows[i] = PlusUpTo(t, n)
    BY <1>3, <2>1 DEF PolysOfTable
  <2>4. PlusUpTo(rows, i) = PlusUpTo(p, n)
    BY <1>5
  <2>5. PlusUpTo(rows, i + 1) = Plus(PlusUpTo(rows, i), rows[i])
    BY <1>2, <2>1, PolysParts, PlusUpToNext
  <2> HIDE DEF part, p, q, t
  <2>6. PlusUpTo(q, n) = Plus(PlusUpTo(p, n), PlusUpTo(t, n))
    BY <2>2, <2>3, PlusOfSums
  <2>7. PlusUpTo(rows, i + 1) = PlusUpTo(q, n)
    BY <2>3, <2>4, <2>5, <2>6
  <2> QED
    BY <2>1, <2>7 DEF q
<1> HIDE DEF S
<1>6. 0 .. m \subseteq S
  BY <1>4, <1>5, StepsReachAll
<1>7. m \in S
  BY <1>6
<1> DEFINE p == part(m)
<1>8. (\A j \in 0 .. n - 1 : cols[j] = p[j]) /\ Polys(p, n)
  BY <1>3 DEF PolysOfTable
<1>9. PlusUpTo(rows, m) = PlusUpTo(p, n)
  BY <1>7 DEF S
<1> HIDE DEF part, p
<1> QED
  BY <1>2, <1>8, <1>9, PlusUpToSame


-----------------------------------------------------------------------------
(* Powers of two, and the powers of 5 modulo 2 N *)

\* What the provers may use of 2^k.
LEMMA TwoTo ==
  /\ 2 ^ 0 = 1
  /\ \A k \in 0 .. N : 2 ^ k \in Nat \ {0} /\ k < 2 ^ k
  /\ \A k \in 0 .. N - 1 : 2 ^ (k + 1) = 2 * 2 ^ k
<1> DEFINE S == {k \in 0 .. N : 2 ^ k \in Nat \ {0} /\ k < 2 ^ k}
<1>1. 0 \in S
  BY PowersAssumption, PeriodIs
<1>2. ASSUME NEW k \in 0 .. N - 1, k \in S
      PROVE  k + 1 \in S
  <2> DEFINE p == 2 ^ k
             q == 2 ^ (k + 1)
  <2>1. p \in Nat \ {0} /\ k < p /\ q = 2 * p /\ k \in Nat /\ k + 1 \in 0 .. N
    BY <1>2, PowersAssumption, PeriodIs
  <2> HIDE DEF p, q
  <2>2. q \in Nat \ {0} /\ k + 1 < q
    BY <2>1
  <2> QED
    BY <2>1, <2>2 DEF q
<1> HIDE DEF S
<1>3. 0 .. N \subseteq S
  BY <1>1, <1>2, PeriodIs, StepsReachAll
<1> QED
  BY <1>3, PowersAssumption DEF S

\* Powers of 5, up to the e-th.
PowersOfFive(s, e) == s = [i \in 0 .. e |-> IF i = 0 THEN 1 ELSE (5 * s[i - 1]) % (2 * N)]

\* There is a table of the powers of five modulo 2 N, as long as one likes ...
LEMMA PowersOfFiveThere ==
  ASSUME NEW n \in Nat
  PROVE  \E s : PowersOfFive(s, n)
<1> DEFINE S == {m \in 0 .. n : \E s : PowersOfFive(s, m)}
<1>1. 0 \in S
  <2> DEFINE s == [i \in 0 .. 0 |-> 1]
  <2>1. PowersOfFive(s, 0)
    BY DEF PowersOfFive
  <2> QED
    BY <2>1
<1>2. ASSUME NEW m \in 0 .. n - 1, m \in S
      PROVE  m + 1 \in S
  <2>1. PICK s : PowersOfFive(s, m)
    BY <1>2
  <2> DEFINE r == [i \in 0 .. m + 1 |-> IF i = m + 1 THEN (5 * s[m]) % (2 * N) ELSE s[i]]
  <2>2. \A i \in 0 .. m : r[i] = s[i]
    OBVIOUS
  <2>3. ASSUME NEW i \in 0 .. m + 1
        PROVE  r[i] = IF i = 0 THEN 1 ELSE (5 * r[i - 1]) % (2 * N)
    <3>1. CASE i = m + 1
      <4>1. r[i] = (5 * s[m]) % (2 * N) /\ i - 1 = m /\ i # 0 /\ m \in 0 .. m
        BY <3>1
      <4> HIDE DEF r
      <4> QED
        BY <2>2, <4>1
    <3>2. CASE i # m + 1
      <4>1. i \in 0 .. m /\ (i # 0 => i - 1 \in 0 .. m)
        BY <3>2
      <4>2. s[i] = IF i = 0 THEN 1 ELSE (5 * s[i - 1]) % (2 * N)
        BY <2>1, <4>1 DEF PowersOfFive
      <4> HIDE DEF r
      <4> QED
        BY <2>2, <4>1, <4>2
    <3> QED
      BY <3>1, <3>2
  <2>4. r = [i \in 0 .. m + 1 |-> r[i]]
    OBVIOUS
  <2> HIDE DEF r
  <2>5. PowersOfFive(r, m + 1)
    BY <2>3, <2>4 DEF PowersOfFive
  <2> QED
    BY <2>5
<1> HIDE DEF S
<1>3. 0 .. n \subseteq S
  BY <1>1, <1>2, StepsReachAll
<1>4. n \in S
  BY <1>3
<1> QED
  BY <1>4 DEF S

\* ... and only one: GaloisElement chooses it.
LEMMA PowersOfFiveUnique ==
  ASSUME NEW m \in Nat, NEW n \in Nat, m <= n,
         NEW s, PowersOfFive(s, n), NEW r, PowersOfFive(r, m)
  PROVE  s[m] = r[m]
<1> DEFINE S == {i \in 0 .. m : s[i] = r[i]}
<1>1. 0 \in S
  BY DEF PowersOfFive
<1>2. ASSUME NEW i \in 0 .. m - 1, i \in S
      PROVE  i + 1 \in S
  <2>1. i + 1 \in 0 .. m /\ i + 1 \in 0 .. n /\ i + 1 # 0 /\ (i + 1) - 1 = i
    OBVIOUS
  <2>2. s[i + 1] = (5 * s[i]) % (2 * N) /\ r[i + 1] = (5 * r[i]) % (2 * N)
    BY <2>1 DEF PowersOfFive
  <2>3. s[i] = r[i]
    BY <1>2
  <2> QED
    BY <2>1, <2>2, <2>3
<1> HIDE DEF S
<1>3. 0 .. m \subseteq S
  BY <1>1, <1>2, StepsReachAll
<1>4. m \in S
  BY <1>3
<1> QED
  BY <1>4 DEF S

\* The elements of the Galois group, one from the other.
LEMMA ElementNext ==
  /\ GaloisElement(0) = 1
  /\ \A e \in Nat : /\ GaloisElement(e) \in Int
                    /\ Equal(GaloisElement(e + 1), 5 * GaloisElement(e))
<1> DEFINE chosen(e) == CHOOSE s : PowersOfFive(s, e)
<1>1. \A e \in Nat : GaloisElement(e) = chosen(e)[e]
  BY DEF GaloisElement, PowersOfFive
<1>2. \A e \in Nat : PowersOfFive(chosen(e), e)
  BY PowersOfFiveThere
<1> HIDE DEF chosen
<1>3. ASSUME NEW e \in Nat
      PROVE  GaloisElement(e + 1) = (5 * GaloisElement(e)) % Period
  <2> DEFINE s == chosen(e + 1)
  <2>1. e + 1 \in Nat /\ e <= e + 1 /\ e + 1 \in 0 .. e + 1 /\ (e + 1) - 1 = e /\ e + 1 # 0
    OBVIOUS
  <2>2. PowersOfFive(s, e + 1) /\ PowersOfFive(chosen(e), e) /\ GaloisElement(e + 1) = s[e + 1]
    BY <1>1, <1>2, <2>1
  <2> HIDE DEF s
  <2>3. s[e] = chosen(e)[e]
    BY <2>1, <2>2, PowersOfFiveUnique
  <2>4. s[e + 1] = (5 * s[e]) % Period
    BY <2>1, <2>2 DEF PowersOfFive, Period
  <2> QED
    BY <1>1, <2>2, <2>3, <2>4
<1>4. GaloisElement(0) = 1
  <2>1. GaloisElement(0) = chosen(0)[0] /\ PowersOfFive(chosen(0), 0)
    BY <1>1, <1>2
  <2> QED
    BY <2>1 DEF PowersOfFive
<1>5. ASSUME NEW e \in Nat
      PROVE  GaloisElement(e) \in Int
  <2> DEFINE S == {i \in 0 .. e : GaloisElement(i) \in Int}
  <2>1. 0 \in S
    BY <1>4
  <2>2. ASSUME NEW i \in 0 .. e - 1, i \in S
        PROVE  i + 1 \in S
    <3> DEFINE x == GaloisElement(i)
    <3>1. x \in Int /\ i \in Nat /\ GaloisElement(i + 1) = (5 * x) % Period /\ i + 1 \in 0 .. e
      BY <1>3, <2>2
    <3> HIDE DEF x
    <3>2. (5 * x) % Period \in Int
      BY <3>1, PeriodIs, IntQuotient
    <3> QED
      BY <3>1, <3>2
  <2> HIDE DEF S
  <2>3. 0 .. e \subseteq S
    BY <2>1, <2>2, StepsReachAll
  <2>4. e \in S
    BY <2>3
  <2> QED
    BY <2>4 DEF S
<1>6. ASSUME NEW e \in Nat
      PROVE  Equal(GaloisElement(e + 1), 5 * GaloisElement(e))
  <2> DEFINE x == GaloisElement(e)
  <2>1. x \in Int /\ GaloisElement(e + 1) = (5 * x) % Period
    BY <1>3, <1>5
  <2> HIDE DEF x
  <2>2. Congruent((5 * x) % Period, 5 * x, Period)
    BY <2>1, PeriodIs, CongruentRest
  <2> QED
    BY <2>1, <2>2 DEF Equal, x
<1> QED
  BY <1>4, <1>5, <1>6

\* 5^(a + b) is 5^a 5^b.
LEMMA ElementPlus ==
  ASSUME NEW a \in Nat, NEW b \in Nat
  PROVE  /\ GaloisElement(a + b) \in Int /\ GaloisElement(a) \in Int /\ GaloisElement(b) \in Int
         /\ Equal(GaloisElement(a + b), GaloisElement(a) * GaloisElement(b))
<1> DEFINE S == {i \in 0 .. b : Equal(GaloisElement(a + i), GaloisElement(a) * GaloisElement(i))}
           x == GaloisElement(a)
<1>1. x \in Int
  BY ElementNext
<1>2. 0 \in S
  <2>1. a + 0 = a /\ x * 1 = x
    BY <1>1
  <2> QED
    BY <1>1, <2>1, ElementNext, EqualLaws
<1>3. ASSUME NEW i \in 0 .. b - 1, i \in S
      PROVE  i + 1 \in S
  <2> DEFINE y == GaloisElement(i)
             z == GaloisElement(a + i)
             w == GaloisElement(i + 1)
             v == GaloisElement(a + (i + 1))
             xy == x * y
             fy == 5 * y
  <2>1. i \in Nat /\ i + 1 \in 0 .. b /\ a + i \in Nat /\ (a + i) + 1 = a + (i + 1) /\ i + 1 \in Nat
        /\ a + (i + 1) \in Nat
    OBVIOUS
  <2>2. y \in Int /\ z \in Int /\ w \in Int /\ v \in Int /\ Equal(w, fy) /\ Equal(v, 5 * z)
    BY <2>1, ElementNext
  <2>3. Equal(z, xy)
    BY <1>3
  <2> HIDE DEF x, y, z, w, v
  <2>4. xy \in Int /\ fy \in Int /\ x * fy = 5 * xy /\ x * fy \in Int /\ 5 * z \in Int /\ x * w \in Int
    BY <1>1, <2>2, SMT
  <2> HIDE DEF xy, fy
  <2>5. Equal(5 * z, 5 * xy) /\ Equal(x * w, x * fy)
    <3>1. Equal(5, 5) /\ Equal(x, x) /\ Equal(z, xy) /\ Equal(w, fy)
      BY <1>1, <2>2, <2>3, <2>4, EqualLaws, 5 \in Int
    <3>2. Equal(5 * z, 5 * xy)
      BY <2>2, <2>4, <3>1, EqualLaws, 5 \in Int
    <3>3. Equal(x * w, x * fy)
      BY <1>1, <2>2, <2>4, <3>1, EqualLaws
    <3> QED
      BY <3>2, <3>3
  <2> DEFINE p == 5 * z
             q == 5 * xy
             t == x * w
  <2>6. p \in Int /\ q \in Int /\ t \in Int /\ Equal(v, p) /\ Equal(p, q) /\ Equal(t, q)
    BY <2>2, <2>4, <2>5
  <2> HIDE DEF p, q, t
  <2>7. Equal(v, q) /\ Equal(q, t)
    BY <2>2, <2>6, EqualLaws
  <2>8. Equal(v, t)
    BY <2>2, <2>6, <2>7, EqualTrans
  <2> QED
    BY <2>1, <2>8 DEF v, w, x, t
<1> HIDE DEF S
<1>4. 0 .. b \subseteq S
  BY <1>2, <1>3, StepsReachAll
<1>5. b \in S
  BY <1>4
<1>6. a + b \in Nat
  OBVIOUS
<1> QED
  BY <1>5, <1>6, ElementNext DEF S

\* The degree of the ring.
LEMMA DegreeIs ==
  \E E \in 0 .. N - 1 : N = 2 ^ (E + 1) /\ N = 2 * 2 ^ E /\ 2 ^ E \in Nat \ {0} /\ N \div 2 = 2 ^ E
<1>1. PICK e \in 1 .. N : N = 2 ^ e
  BY CasesAssumption
<1> DEFINE E == e - 1
           h == 2 ^ E
<1>2. E \in 0 .. N - 1 /\ E + 1 = e /\ E \in 0 .. N
  BY PeriodIs
<1>3. N = 2 * h /\ h \in Nat \ {0}
  BY <1>1, <1>2, TwoTo
<1> HIDE DEF h
<1>4. N \div 2 = h
  BY <1>3
<1> QED
  BY <1>1, <1>2, <1>3, <1>4 DEF h

\* 5^(2^i) is 1 and an odd multiple of 4 2^i.
LEMMA ElementOfPower ==
  ASSUME NEW n \in 0 .. N
  PROVE  \E m \in Int : Equal(GaloisElement(2 ^ n), 1 + (4 * 2 ^ n) * (2 * m + 1))
<1> DEFINE S == {i \in 0 .. n :
                   \E m \in Int : Equal(GaloisElement(2 ^ i), 1 + (4 * 2 ^ i) * (2 * m + 1))}
<1>1. 0 \in S
  <2>1. GaloisElement(0 + 1) \in Int /\ Equal(GaloisElement(0 + 1), 5 * 1)
    BY ElementNext
  <2>2. 2 ^ 0 = 1 /\ 0 + 1 = 1 /\ 5 * 1 = 1 + (4 * 1) * (2 * 0 + 1)
    BY TwoTo
  <2>3. Equal(GaloisElement(2 ^ 0), 1 + (4 * 2 ^ 0) * (2 * 0 + 1))
    BY <2>1, <2>2
  <2> QED
    BY <2>3
<1>2. ASSUME NEW i \in 0 .. n - 1, i \in S
      PROVE  i + 1 \in S
  <2>1. PICK m \in Int : Equal(GaloisElement(2 ^ i), 1 + (4 * 2 ^ i) * (2 * m + 1))
    BY <1>2
  <2> DEFINE p == 2 ^ i
             q == 2 ^ (i + 1)
             d == 2 * m + 1
             x == GaloisElement(p)
             y == 1 + (4 * p) * d
             k == m + p * (d * d)
             z == 1 + (4 * q) * (2 * k + 1)
  <2>2. i \in 0 .. N - 1 /\ i \in 0 .. N /\ i + 1 \in 0 .. n
    BY PeriodIs
  <2>3. p \in Nat \ {0} /\ q = 2 * p
    BY <2>2, TwoTo
  <2>4. Equal(x, y)
    BY <2>1
  <2>5. d \in Int
    OBVIOUS
  <2> HIDE DEF p, q, x
  <2>6. y \in Int /\ k \in Int /\ z \in Int /\ p + p = q
    <3>1. d * d \in Int
      BY <2>5, IntProduct
    <3>2. p * (d * d) \in Int
      BY <2>3, <3>1, IntProduct
    <3>3. (4 * p) * d \in Int
      BY <2>3, <2>5, IntProduct
    <3>4. k \in Int /\ y \in Int
      BY <3>2, <3>3
    <3> HIDE DEF k
    <3>5. (4 * q) * (2 * k + 1) \in Int
      BY <2>3, <3>4, IntProduct
    <3> QED
      BY <2>3, <3>4, <3>5
  <2>7. y * y = z
    <3> DEFINE pd == p * d
               pdd == pd * d
    <3>1. pd \in Int /\ pdd \in Int /\ (4 * p) * d = 4 * pd /\ p * (d * d) = pdd
      BY <2>3, <2>5, SMT
    <3>2. y = 1 + 4 * pd /\ k = m + pdd
      BY <3>1
    <3>3. p * (2 * k + 1) = pd + 2 * (p * pdd) /\ p * pdd \in Int
      <4>1. p * pdd \in Int /\ p * m \in Int /\ pd = 2 * (p * m) + p
        BY <2>3, <3>1, SMT
      <4> HIDE DEF pd, pdd, k, d
      <4>2. p * (2 * k + 1) = 2 * (p * m) + 2 * (p * pdd) + p
        BY <2>3, <3>1, <3>2, SMT
      <4> QED
        BY <2>3, <3>1, <4>1, <4>2
    <3>4. pd * pd = p * pdd
      <4> HIDE DEF d
      <4> QED
        BY <2>3, <2>5, SMT
    <3>5. z = 1 + 8 * (p * (2 * k + 1))
      <4> HIDE DEF k
      <4> QED
        BY <2>3, <2>6, SMT
    <3> HIDE DEF pd, pdd, k, d, z
    <3>6. y * y = 1 + 8 * pd + 16 * (pd * pd)
      <4> HIDE DEF y
      <4> QED
        BY <3>1, <3>2, SMT
    <3> HIDE DEF y
    <3> QED
      BY <3>1, <3>3, <3>4, <3>5, <3>6
  <2>8. x \in Int /\ GaloisElement(q) \in Int /\ Equal(GaloisElement(q), x * x)
    BY <2>3, <2>6, ElementPlus DEF x
  <2> HIDE DEF y, z, k
  <2> DEFINE xx == x * x
             yy == y * y
  <2>9. Equal(xx, yy) /\ xx \in Int /\ yy \in Int
    BY <2>4, <2>6, <2>8, EqualLaws, IntProduct
  <2> HIDE DEF xx, yy
  <2>10. Equal(GaloisElement(q), yy)
    BY <2>8, <2>9, EqualTrans DEF xx
  <2>11. Equal(GaloisElement(q), 1 + (4 * q) * (2 * k + 1))
    BY <2>7, <2>10 DEF yy, z
  <2> QED
    BY <2>2, <2>6, <2>11 DEF q
<1> HIDE DEF S
<1>3. 0 .. n \subseteq S
  BY <1>1, <1>2, StepsReachAll
<1>4. n \in S
  BY <1>3
<1> QED
  BY <1>4 DEF S

\* 5^(N / 2) is 1, and so 5 and its powers can be undone.
LEMMA ElementUnit ==
  /\ Equal(GaloisElement(N \div 2), 1)
  /\ \A e \in Nat : Unit(GaloisElement(e)) /\ Unit(-GaloisElement(e))
<1>1. PICK E \in 0 .. N - 1 : N = 2 * 2 ^ E /\ 2 ^ E \in Nat \ {0} /\ N \div 2 = 2 ^ E
  BY DegreeIs
<1> DEFINE h == 2 ^ E
           x == GaloisElement(h)
<1>2. PICK m \in Int : Equal(x, 1 + (4 * h) * (2 * m + 1))
  BY <1>1, ElementOfPower
<1>3. h \in Nat \ {0} /\ N = 2 * h /\ x \in Int /\ N \div 2 = h
  BY <1>1, ElementNext
<1> HIDE DEF h
<1>4. Equal(x, 1)
  <2> DEFINE d == 2 * m + 1
             y == 1 + (4 * h) * d
  <2>1. d \in Int
    OBVIOUS
  <2> HIDE DEF d
  <2>2. y = 1 + Period * d /\ y \in Int
    BY <1>3, <2>1, PeriodIs, SMT
  <2>3. Equal(y, 1)
    BY <2>1, <2>2 DEF Equal, Congruent
  <2>4. Equal(x, y)
    BY <1>2 DEF d
  <2> HIDE DEF y, x
  <2> QED
    BY <1>3, <2>2, <2>3, <2>4, EqualTrans
<1>5. Unit(5)
  <2> DEFINE k == h - 1
             y == GaloisElement(k)
  <2>1. k \in Nat /\ k + 1 = h
    BY <1>3
  <2>2. y \in Int /\ Equal(GaloisElement(k + 1), 5 * y)
    BY <2>1, ElementNext
  <2>3. 5 * y \in Int /\ Equal(x, 5 * y)
    BY <2>1, <2>2, IntProduct
  <2> HIDE DEF x, y, k
  <2>4. Equal(5 * y, x)
    BY <1>3, <2>3, EqualLaws
  <2>5. Equal(5 * y, 1)
    BY <1>3, <1>4, <2>3, <2>4, EqualTrans
  <2> QED
    BY <2>2, <2>5 DEF Unit
<1>6. ASSUME NEW e \in Nat
      PROVE  Unit(GaloisElement(e))
  <2> DEFINE S == {i \in 0 .. e : Unit(GaloisElement(i))}
  <2>1. 0 \in S
    BY ElementNext, UnitOne
  <2>2. ASSUME NEW i \in 0 .. e - 1, i \in S
        PROVE  i + 1 \in S
    <3> DEFINE y == GaloisElement(i)
               z == GaloisElement(i + 1)
               w == 5 * y
    <3>1. i \in Nat /\ i + 1 \in Nat /\ i + 1 \in 0 .. e
      OBVIOUS
    <3>2. y \in Int /\ z \in Int /\ Equal(z, w) /\ Unit(y)
      BY <2>2, <3>1, ElementNext
    <3> HIDE DEF y, z
    <3>3. Unit(w) /\ w \in Int
      BY <1>5, <3>2, UnitProduct, IntProduct
    <3> HIDE DEF w
    <3>4. Equal(w, z)
      BY <3>2, <3>3, EqualLaws
    <3>5. Unit(z)
      BY <3>2, <3>3, <3>4, UnitEqual
    <3> QED
      BY <3>1, <3>5 DEF z
  <2> HIDE DEF S
  <2>3. 0 .. e \subseteq S
    BY <2>1, <2>2, StepsReachAll
  <2>4. e \in S
    BY <2>3
  <2> QED
    BY <2>4 DEF S
<1> QED
  BY <1>3, <1>4, <1>6, UnitMinus


-----------------------------------------------------------------------------
(* The shapes of a call *)

\* What validate_request and the assumption on the cases say of a call.
LEMMA CallIs ==
  ASSUME call \in Cases
  PROVE  /\ call.gamma \in Nat \ {0} /\ call.gamma \in 1 .. N /\ call.partial \in BOOLEAN
         /\ call.babySize \in Nat \ {0} /\ call.chunkSize \in Nat \ {0}
         /\ call.threads \in Nat \ {0}
         /\ Columns \in Nat \ {0} /\ HalfSteps = Columns - 1 /\ HalfSteps \in Nat
         /\ Halves \in {1, 2} /\ (Halves = 1 <=> call.partial)
         /\ KgSteps = Halves * HalfSteps /\ KgSteps \in Nat
         /\ Steps = IF call.partial THEN KgSteps ELSE KgSteps + 1
         /\ Stride \in Nat \ {0}
         /\ \A draw \in 0 .. N + 2 : Vector(call.salt + draw) \in Poly
<1>1. PICK E \in 0 .. N - 1 : N = 2 * 2 ^ E /\ 2 ^ E \in Nat \ {0} /\ N \div 2 = 2 ^ E
  BY DegreeIs
<1> DEFINE h == N \div 2
           c == call.gamma
<1>2. h \in Nat \ {0} /\ N = 2 * h
  BY <1>1
<1>3. /\ c \in 1 .. N /\ call.partial \in BOOLEAN
      /\ call.babySize \in Nat \ {0} /\ call.chunkSize \in Nat \ {0} /\ call.threads \in Nat \ {0}
      /\ IF call.partial THEN c <= h ELSE c = N
      /\ \A draw \in 0 .. N + 2 : Vector(call.salt + draw) \in Poly
  BY CasesAssumption DEF Case
<1>4. c \in Nat \ {0}
  BY <1>2, <1>3
<1>5. CASE call.partial
  <2>1. Columns = c /\ Halves = 1 /\ Steps = c - 1 /\ KgSteps = c - 1 /\ HalfSteps = c - 1
    BY <1>5 DEF Columns, Halves, Steps, KgSteps, HalfSteps
  <2>2. h \div c \in Nat \ {0}
    <3> DEFINE q == h \div c
               r == h % c
    <3>2. c <= h
      BY <1>3, <1>5
    <3> HIDE DEF h, c
    <3>1. q \in Int /\ r \in 0 .. c - 1 /\ h = c * q + r
      BY <1>2, <1>4, IntQuotient
    <3> HIDE DEF q, r
    <3>3. q > 0
      <4>1. CASE q <= 0
        <5>1. c * q <= 0
          BY <1>4, <3>1, <4>1, SMT
        <5> QED
          BY <1>4, <3>1, <3>2, <5>1
      <4> QED
        BY <3>1, <4>1
    <3> QED
      BY <3>1, <3>3 DEF q
  <2>3. Stride = h \div c
    BY <1>5 DEF Stride
  <2> HIDE DEF h, c
  <2> QED
    BY <1>3, <1>4, <1>5, <2>1, <2>2, <2>3 DEF c
<1>6. CASE ~call.partial
  <2>1. Columns = h /\ Halves = 2 /\ Steps = N - 1 /\ KgSteps = N - 2 /\ Stride = 1
    BY <1>2, <1>6 DEF Columns, Halves, Steps, KgSteps, Stride
  <2>2. HalfSteps = (N - 2) \div 2
    BY <1>6, <2>1 DEF HalfSteps
  <2> HIDE DEF h, c
  <2>3. (N - 2) \div 2 = h - 1
    BY <1>2
  <2> QED
    BY <1>2, <1>3, <1>4, <1>6, <2>1, <2>2, <2>3 DEF c
<1> QED
  BY <1>3, <1>5, <1>6

\* What is drawn is in the ring.
LEMMA InputsAre ==
  ASSUME call \in Cases
  PROVE  /\ Secret \in Poly /\ Seed \in Poly
         /\ \A k \in Rows : LweMask(k) \in Poly /\ k \in Int /\ k \in Coef
         /\ Vector(call.salt + N + 2) \in Poly
<1>1. \A draw \in 0 .. N + 2 : Vector(call.salt + draw) \in Poly
  BY CallIs
<1>2. call.gamma \in 1 .. N /\ N \in Nat \ {0} /\ call.salt \in Nat
  BY CallIs, CasesAssumption, PeriodIs DEF Case
<1>3. 0 \in 0 .. N + 2 /\ 1 \in 0 .. N + 2 /\ N + 2 \in 0 .. N + 2
  BY <1>2
<1>4. call.salt + 0 = call.salt /\ call.salt + (N + 2) = call.salt + N + 2
  BY <1>2
<1>5. ASSUME NEW k \in Rows
      PROVE  LweMask(k) \in Poly /\ k \in Int /\ k \in Coef
  <2>1. k + 2 \in 0 .. N + 2 /\ k \in Int /\ k \in Coef
    BY <1>2 DEF Rows, Coef
  <2>2. call.salt + k + 2 = call.salt + (k + 2)
    BY <1>2, <2>1
  <2> QED
    BY <1>1, <2>1, <2>2 DEF LweMask
<1>6. Vector(call.salt + 0) \in Poly /\ Vector(call.salt + 1) \in Poly
      /\ Vector(call.salt + (N + 2)) \in Poly
  BY <1>1, <1>3
<1> QED
  BY <1>4, <1>5, <1>6 DEF Secret, Seed

\* The chunks of the columns are the parts of a split.
LEMMA ChunksAre ==
  ASSUME call \in Cases
  PROVE  LET W == Least(call.threads, Columns)
         IN  /\ W \in Nat \ {0} /\ Workers = 0 .. W - 1
             /\ \A w \in Workers : /\ ChunkLen(w) = PartLen(Columns, W, w)
                                   /\ ChunkStart(w) = PartStart(Columns, W, w)
                                   /\ ChunkLen(w) \in Nat /\ ChunkStart(w) \in Nat
<1> DEFINE W == Least(call.threads, Columns)
<1>1. W \in Nat \ {0}
  BY CallIs DEF Least
<1>2. Workers = 0 .. W - 1
  BY DEF Workers
<1>3. Cardinality(Workers) = W
  <2> HIDE DEF W
  <2>1. Cardinality(0 .. W - 1) = IF 0 > W - 1 THEN 0 ELSE (W - 1) - 0 + 1
    BY <1>1, FS_Interval
  <2> QED
    BY <1>1, <1>2, <2>1
<1> HIDE DEF W
<1>4. \A w \in Int : ChunkLen(w) = PartLen(Columns, W, w)
  BY <1>3 DEF ChunkLen, PartLen
<1>5. ASSUME NEW w \in Workers
      PROVE  ChunkStart(w) = PartStart(Columns, W, w)
  <2> DEFINE f == [v \in 0 .. w |-> ChunkLen(v)]
             S == {v \in 0 .. w : Sum(f, v) = PartStart(Columns, W, v)}
  <2>1. w \in Nat /\ w \in 0 .. W - 1
    BY <1>1, <1>2
  <2>2. \A v \in 0 .. w : f[v] = PartLen(Columns, W, v)
    BY <1>4
  <2> HIDE DEF f
  <2>3. 0 \in S
    BY <1>1, <2>1, CallIs, SumNext, PartsEnds
  <2>4. ASSUME NEW v \in 0 .. w - 1, v \in S
        PROVE  v + 1 \in S
    <3>1. v \in Nat /\ v \in 0 .. W - 1 /\ v \in 0 .. w /\ v + 1 \in 0 .. w
      BY <1>1, <2>1
    <3>2. Sum(f, v + 1) = Sum(f, v) + f[v]
      BY <3>1, SumNext
    <3>3. PartStart(Columns, W, v + 1) = PartStart(Columns, W, v) + PartLen(Columns, W, v)
      BY <1>1, <3>1, CallIs, NextPart
    <3>4. Sum(f, v) = PartStart(Columns, W, v)
      BY <2>4
    <3> QED
      BY <2>2, <3>1, <3>2, <3>3, <3>4
  <2> HIDE DEF S
  <2>5. 0 .. w \subseteq S
    BY <2>1, <2>3, <2>4, StepsReachAll
  <2>6. w \in S
    BY <2>1, <2>5
  <2>7. ChunkStart(w) = Sum(f, w)
    BY <2>1, SumUpToIs DEF ChunkStart, f
  <2> QED
    BY <2>6, <2>7 DEF S
<1>6. ASSUME NEW w \in Workers
      PROVE  /\ ChunkLen(w) = PartLen(Columns, W, w)
             /\ ChunkLen(w) \in Nat /\ PartStart(Columns, W, w) \in Nat
  <2>1. w \in 0 .. W - 1 /\ w \in Int
    BY <1>1, <1>2
  <2>2. PartLen(Columns, W, w) \in Nat /\ PartStart(Columns, W, w) \in Nat
    BY <1>1, <2>1, CallIs, NextPart
  <2> QED
    BY <1>4, <2>1, <2>2
<1> QED
  BY <1>1, <1>2, <1>5, <1>6 DEF W

\* Every column is in the chunk of a worker.
LEMMA ChunksCover ==
  ASSUME call \in Cases, NEW j \in 0 .. Columns - 1
  PROVE  \E w \in Workers : ChunkStart(w) <= j /\ j < ChunkStart(w) + ChunkLen(w)
<1> DEFINE W == Least(call.threads, Columns)
<1>1. W \in Nat \ {0} /\ Workers = 0 .. W - 1
  BY ChunksAre
<1>2. \A w \in Workers : /\ ChunkLen(w) = PartLen(Columns, W, w)
                         /\ ChunkStart(w) = PartStart(Columns, W, w)
                         /\ ChunkLen(w) \in Nat /\ ChunkStart(w) \in Nat
  BY ChunksAre
<1> HIDE DEF W
<1>3. PICK w \in 0 .. W - 1 : j \in Part(Columns, W, w)
  BY <1>1, CallIs, PartsCover
<1> DEFINE a == ChunkStart(w)
           b == ChunkLen(w)
<1>4. j \in a .. a + b - 1 /\ a \in Nat /\ b \in Nat /\ j \in Int
  BY <1>1, <1>2, <1>3 DEF Part
<1> HIDE DEF a, b
<1>5. a <= j /\ j < a + b
  BY <1>4
<1> QED
  BY <1>1, <1>5 DEF a, b


-----------------------------------------------------------------------------
(* The tree of partial sums *)

\* A set of levels that is not empty has a lowest one.
LEMMA LowestLevel ==
  ASSUME NEW n \in Nat, NEW free, free \subseteq 0 .. n - 1, free # {}
  PROVE  \E l \in free : \A m \in free : l <= m
<1> SUFFICES ASSUME \A l \in free : \E m \in free : ~(l <= m)
             PROVE  FALSE
  OBVIOUS
<1> DEFINE S == {i \in 0 .. n : \A m \in free : i <= m}
<1>1. 0 \in S
  OBVIOUS
<1>2. ASSUME NEW i \in 0 .. n - 1, i \in S
      PROVE  i + 1 \in S
  <2>1. i \notin free
    BY <1>2
  <2>2. \A m \in free : i <= m /\ m \in Int /\ m # i
    BY <1>2, <2>1
  <2> QED
    BY <2>2
<1> HIDE DEF S
<1>3. 0 .. n \subseteq S
  BY <1>1, <1>2, StepsReachAll
<1>4. n \in S
  BY <1>3
<1>5. \A m \in free : n <= m
  BY <1>4 DEF S
<1>6. PICK m \in free : TRUE
  OBVIOUS
<1>7. n <= m /\ m \in 0 .. n - 1
  BY <1>5, <1>6
<1> QED
  BY <1>7

\* A sum with one of its summands taken out.
LEMMA SumAround ==
  ASSUME NEW n \in Nat, NEW level \in 0 .. n - 1, NEW f, \A i \in 0 .. n - 1 : f[i] \in Int,
         NEW rest, \A i \in 0 .. (n - level - 1) - 1 : rest[i] = f[level + 1 + i]
  PROVE  /\ Sum(f, level) \in Int /\ Sum(rest, n - level - 1) \in Int /\ f[level] \in Int
         /\ Sum(f, n) = (Sum(f, level) + f[level]) + Sum(rest, n - level - 1)
<1> DEFINE m == n - level - 1
           l == level + 1
<1>1. m \in Nat /\ l \in Nat /\ l + m = n /\ level \in Nat /\ level \in 0 .. n
  OBVIOUS
<1>2. \A i \in 0 .. m - 1 : rest[i] = f[l + i] /\ l + i \in 0 .. n - 1
  OBVIOUS
<1> HIDE DEF m, l
<1>3. Sum(f, l + m) = Sum(f, l) + Sum(rest, m)
  BY <1>1, <1>2, SumInTwo
<1>4. Sum(f, level + 1) = Sum(f, level) + f[level]
  BY <1>1, SumNext
<1>5. Sum(f, level) \in Int
  BY <1>1, PartsOfSum
<1>6. Sum(rest, m) \in Int
  <2>1. \A i \in 0 .. m - 1 : rest[i] \in Int
    BY <1>2
  <2> QED
    BY <1>1, <2>1, SumIsInt
<1> QED
  BY <1>1, <1>3, <1>4, <1>5, <1>6 DEF l, m

\* A sum of polynomials with one of its summands taken out.
LEMMA PlusUpToAround ==
  ASSUME NEW n \in Nat, NEW level \in 0 .. n - 1, NEW f, Polys(f, n),
         NEW rest, \A i \in 0 .. (n - level - 1) - 1 : rest[i] = f[level + 1 + i]
  PROVE  /\ PlusUpTo(f, level) \in Poly /\ PlusUpTo(rest, n - level - 1) \in Poly /\ f[level] \in Poly
         /\ PlusUpTo(f, n) = Plus(Plus(PlusUpTo(f, level), f[level]), PlusUpTo(rest, n - level - 1))
<1> DEFINE m == n - level - 1
           l == level + 1
<1>1. m \in Nat /\ l \in Nat /\ l + m = n /\ level \in Nat /\ level \in 0 .. n /\ l \in 0 .. n
  OBVIOUS
<1>2. \A i \in 0 .. m - 1 : rest[i] = f[l + i]
  OBVIOUS
<1> HIDE DEF m, l
<1>3. PlusUpTo(f, l + m) = Plus(PlusUpTo(f, l), PlusUpTo(rest, m)) /\ Polys(rest, m)
  <2>1. Polys(f, l + m) /\ \A i \in 0 .. m - 1 : rest[i] = f[l + i]
    BY <1>1, <1>2
  <2> QED
    BY <1>1, <2>1, PlusUpToInTwo
<1>4. Polys(f, level + 1) /\ PlusUpTo(f, level) \in Poly
  BY <1>1, PolysParts DEF l
<1>5. PlusUpTo(f, level + 1) = Plus(PlusUpTo(f, level), f[level]) /\ f[level] \in Poly
  BY <1>1, <1>4, PlusUpToNext
<1>6. PlusUpTo(rest, m) \in Poly
  BY <1>1, <1>3, PlusUpToIs
<1> QED
  BY <1>1, <1>3, <1>4, <1>5, <1>6 DEF l, m

\* Smaller summands make a smaller sum.
LEMMA SumAtMost ==
  ASSUME NEW n \in Nat, NEW f, NEW g,
         \A i \in 0 .. n - 1 : f[i] \in Int /\ g[i] \in Int /\ f[i] <= g[i]
  PROVE  Sum(f, n) <= Sum(g, n)
<1> DEFINE S == {i \in 0 .. n : Sum(f, i) <= Sum(g, i)}
<1>1. 0 \in S
  BY SumNext
<1>2. ASSUME NEW i \in 0 .. n - 1, i \in S
      PROVE  i + 1 \in S
  <2> DEFINE a == Sum(f, i)
             b == Sum(g, i)
             x == f[i]
             y == g[i]
  <2>1. i \in Nat /\ i + 1 \in 0 .. n /\ i \in 0 .. n
    OBVIOUS
  <2>2. a \in Int /\ b \in Int
    BY <2>1, PartsOfSum
  <2>3. Sum(f, i + 1) = a + x /\ Sum(g, i + 1) = b + y
    BY <2>1, SumNext
  <2>4. x \in Int /\ y \in Int /\ x <= y /\ a <= b
    BY <1>2
  <2> HIDE DEF a, b, x, y
  <2>5. a + x <= b + y
    BY <2>2, <2>4
  <2> QED
    BY <2>1, <2>3, <2>5
<1> HIDE DEF S
<1>3. 0 .. n \subseteq S
  BY <1>1, <1>2, StepsReachAll
<1>4. n \in S
  BY <1>3
<1> QED
  BY <1>4 DEF S

\* 1 + 2 + 4 + ... + 2^(l - 1) is 2^l - 1.
LEMMA PowersAddUp ==
  ASSUME NEW l \in 0 .. N, NEW f, \A i \in 0 .. l - 1 : f[i] = 2 ^ i
  PROVE  Sum(f, l) = 2 ^ l - 1
<1> DEFINE S == {i \in 0 .. l : Sum(f, i) = 2 ^ i - 1}
<1>1. 0 \in S
  BY TwoTo, SumNext
<1>2. ASSUME NEW i \in 0 .. l - 1, i \in S
      PROVE  i + 1 \in S
  <2> DEFINE p == 2 ^ i
             q == 2 ^ (i + 1)
  <2>1. i \in Nat /\ i \in 0 .. N /\ i \in 0 .. N - 1 /\ i + 1 \in 0 .. l
    BY PeriodIs
  <2>2. p \in Nat /\ q = 2 * p /\ f[i] = p
    BY <2>1, TwoTo
  <2>3. Sum(f, i + 1) = Sum(f, i) + f[i]
    BY <2>1, SumNext
  <2>4. Sum(f, i) = p - 1
    BY <1>2
  <2> HIDE DEF p, q
  <2>5. Sum(f, i + 1) = q - 1
    BY <2>2, <2>3, <2>4
  <2> QED
    BY <2>1, <2>5 DEF q
<1> HIDE DEF S
<1>3. 0 .. l \subseteq S
  BY <1>1, <1>2, StepsReachAll
<1>4. l \in S
  BY <1>3
<1> QED
  BY <1>4 DEF S

\* The number of leaves an occupied level stands for, and their sum.
Weights(T, L) == [l \in 0 .. L - 1 |-> IF T.occupied[l] THEN 2 ^ l ELSE 0]
Kept(T, L) == [l \in 0 .. L - 1 |-> IF T.occupied[l] THEN T.node[l] ELSE Zero]

Tree(L) == [node : [0 .. L - 1 -> Poly], occupied : [0 .. L - 1 -> BOOLEAN], out : Poly]

\* After k leaves the occupied levels stand for k leaves and hold their sum.
TreeHolds(T, k, leaf, L) ==
  /\ T \in Tree(L)
  /\ k < 2 ^ L => Sum(Weights(T, L), L) = k /\ PlusUpTo(Kept(T, L), L) = PlusUpTo(leaf, k)
  /\ k = 2 ^ L => T.out = PlusUpTo(leaf, k)

TreeStepAt(tree, leaf, levels, top) ==
  LET free == {l \in levels : ~tree.occupied[l]}
      level == IF free = {} THEN top ELSE CHOOSE l \in free : \A m \in free : l <= m
      sum == Plus(leaf, PlusUpTo(tree.node, level))
  IN  [node |-> [tree.node EXCEPT ![level] = sum],
       occupied |-> [l \in levels |-> l = level \/ (l > level /\ tree.occupied[l])],
       out |-> IF level = top THEN sum ELSE tree.out]

\* A leaf that arrives keeps the tree: the node it ends in holds the sum of all
\* leaves below it, and what a level is occupied by is what the binary digits of the
\* number of leaves say.
LEMMA TreeStepHolds ==
  ASSUME NEW L \in 0 .. N, NEW leaf, Polys(leaf, 2 ^ L), NEW k \in 0 .. 2 ^ L - 1,
         NEW T, TreeHolds(T, k, leaf, L)
  PROVE  TreeHolds(TreeStep(T, leaf[k]), k + 1, leaf, L)
<1> DEFINE levels == 0 .. L - 1
           free == {l \in levels : ~T.occupied[l]}
           level == IF free = {} THEN L ELSE CHOOSE l \in free : \A m \in free : l <= m
           sum == Plus(leaf[k], PlusUpTo(T.node, level))
           U == [node |-> [T.node EXCEPT ![level] = sum],
                 occupied |-> [l \in levels |-> l = level \/ (l > level /\ T.occupied[l])],
                 out |-> IF level = L THEN sum ELSE T.out]
<1>1. L \in Nat /\ 2 ^ L \in Nat \ {0} /\ k \in Nat /\ k < 2 ^ L /\ k \in 0 .. 2 ^ L
  BY TwoTo, PeriodIs
<1>2. T \in Tree(L) /\ T.node \in [levels -> Poly] /\ T.occupied \in [levels -> BOOLEAN] /\ T.out \in Poly
  BY DEF TreeHolds, Tree
<1>3. Cardinality(levels) = L
  <2>1. Cardinality(0 .. L - 1) = IF 0 > L - 1 THEN 0 ELSE (L - 1) - 0 + 1
    BY <1>1, FS_Interval
  <2> QED
    BY <1>1, <2>1
<1>4. TreeStep(T, leaf[k]) = U
  <2>1. DOMAIN T.node = levels
    BY <1>2
  <2>2. TreeStep(T, leaf[k])
          = TreeStepAt(T, leaf[k], DOMAIN T.node, Cardinality(DOMAIN T.node))
    BY DEF TreeStep, TreeStepAt
  <2>3. TreeStepAt(T, leaf[k], levels, L) = U
    BY DEF TreeStepAt
  <2> QED
    BY <1>3, <2>1, <2>2, <2>3
<1>5. /\ level \in 0 .. L /\ level \in Nat /\ \A l \in 0 .. level - 1 : T.occupied[l] /\ l \in levels
      /\ level < L => level \in levels /\ ~T.occupied[level]
      /\ level = L <=> free = {}
  <2>1. CASE free = {}
    BY <1>1, <2>1
  <2>2. CASE free # {}
    <3>1. free \subseteq levels
      OBVIOUS
    <3>2. \E l \in free : \A m \in free : l <= m
      BY <1>1, <2>2, <3>1, LowestLevel
    <3>3. level \in free /\ \A m \in free : level <= m
      BY <2>2, <3>2
    <3>4. level \in levels /\ ~T.occupied[level]
      BY <3>3
    <3>5. ASSUME NEW l \in 0 .. level - 1
          PROVE  T.occupied[l] /\ l \in levels
      <4> HIDE DEF level
      <4>1. l \in levels /\ ~(level <= l)
        BY <1>1, <3>4
      <4>2. l \notin free
        BY <3>3, <4>1
      <4> QED
        BY <4>1, <4>2
    <3> HIDE DEF level
    <3> QED
      BY <1>1, <2>2, <3>4, <3>5
  <2> QED
    BY <2>1, <2>2
<1> HIDE DEF level, free
<1> DEFINE below == PlusUpTo(T.node, level)
           a == PlusUpTo(leaf, k)
           b == leaf[k]
<1>6. below \in Poly /\ a \in Poly /\ b \in Poly /\ PlusUpTo(leaf, k + 1) = Plus(a, b) /\ sum = Plus(b, below)
      /\ sum \in Poly
  <2>1. Polys(T.node, level)
    BY <1>2, <1>5 DEF Polys
  <2>2. Polys(leaf, k + 1)
    BY <1>1 DEF Polys
  <2>3. below \in Poly
    BY <1>5, <2>1, PlusUpToIs
  <2>4. a \in Poly /\ b \in Poly /\ PlusUpTo(leaf, k + 1) = Plus(a, b)
    BY <1>1, <2>2, PlusUpToNext
  <2> HIDE DEF below, a, b
  <2> QED
    BY <2>3, <2>4, PlusIs DEF b, below
<1> DEFINE w == Weights(T, L)
           c == Kept(T, L)
<1>7. /\ \A l \in levels : w[l] \in Int /\ w[l] = IF T.occupied[l] THEN 2 ^ l ELSE 0
      /\ Polys(c, L)
      /\ \A l \in levels : c[l] = IF T.occupied[l] THEN T.node[l] ELSE Zero
  <2>1. \A l \in levels : 2 ^ l \in Int
    <3>1. \A l \in levels : l \in 0 .. N
      BY <1>1, PeriodIs
    <3> QED
      BY <3>1, TwoTo
  <2> QED
    BY <1>2, <2>1, ZeroIs DEF Weights, Kept, Polys
<1>8. Sum(w, L) = k /\ PlusUpTo(c, L) = a
  BY <1>1 DEF TreeHolds
<1>9. Sum(w, level) = 2 ^ level - 1 /\ PlusUpTo(c, level) = below
  <2>1. \A l \in 0 .. level - 1 : w[l] = 2 ^ l /\ c[l] = T.node[l]
    BY <1>5, <1>7
  <2>2. level \in 0 .. N
    BY <1>5, PeriodIs
  <2>3. Polys(T.node, level)
    BY <1>2, <1>5 DEF Polys
  <2> HIDE DEF w, c
  <2>4. Sum(w, level) = 2 ^ level - 1
    BY <2>1, <2>2, PowersAddUp
  <2>5. PlusUpTo(c, level) = PlusUpTo(T.node, level)
    BY <1>5, <2>1, <2>3, PlusUpToSame
  <2> QED
    BY <2>4, <2>5
<1>10. U \in Tree(L)
  <2>1. U.node \in [levels -> Poly]
    <3> HIDE DEF sum
    <3> QED
      BY <1>2, <1>6
  <2>2. U.occupied \in [levels -> BOOLEAN]
    BY <1>2, <1>5
  <2>3. U.out \in Poly
    <3> HIDE DEF sum
    <3> QED
      BY <1>2, <1>6
  <2>4. U = [node |-> U.node, occupied |-> U.occupied, out |-> U.out]
    OBVIOUS
  <2> HIDE DEF U
  <2> QED
    BY <2>1, <2>2, <2>3, <2>4 DEF Tree
<1>11. CASE level = L
  <2>1. k = 2 ^ L - 1 /\ a = below
    BY <1>8, <1>9, <1>11, <1>1
  <2>2. k + 1 = 2 ^ L
    BY <1>1, <2>1
  <2>3. U.out = PlusUpTo(leaf, k + 1)
    <3>1. U.out = sum
      BY <1>11
    <3> HIDE DEF sum, a, b, below
    <3> QED
      BY <1>6, <2>1, <3>1, PlusLaws
  <2> HIDE DEF U
  <2> QED
    BY <1>1, <1>4, <1>10, <2>2, <2>3 DEF TreeHolds
<1>12. CASE level < L
  <2> DEFINE m == L - level - 1
             wr == [i \in 0 .. m - 1 |-> w[level + 1 + i]]
             cr == [i \in 0 .. m - 1 |-> c[level + 1 + i]]
             wn == Weights(U, L)
             cn == Kept(U, L)
             p == 2 ^ level
             rw == Sum(wr, m)
             rc == PlusUpTo(cr, m)
  <2>1. level \in levels /\ ~T.occupied[level]
    BY <1>5, <1>12
  <2>2. /\ \A l \in 0 .. level - 1 : ~U.occupied[l] /\ l \in levels
        /\ U.occupied[level] /\ U.node[level] = sum
        /\ \A i \in 0 .. m - 1 : /\ level + 1 + i \in levels
                                 /\ U.occupied[level + 1 + i] = T.occupied[level + 1 + i]
                                 /\ U.node[level + 1 + i] = T.node[level + 1 + i]
    <3>1. ASSUME NEW l \in 0 .. level - 1
          PROVE  ~U.occupied[l] /\ l \in levels
      <4>1. l \in levels /\ l # level /\ ~(l > level)
        BY <1>5, <2>1
      <4>2. U.occupied[l] = (l = level \/ (l > level /\ T.occupied[l]))
        BY <4>1
      <4> HIDE DEF U
      <4> QED
        BY <4>1, <4>2
    <3>2. U.occupied[level] /\ U.node[level] = sum
      <4> HIDE DEF sum
      <4> QED
        BY <1>2, <2>1
    <3>3. ASSUME NEW i \in 0 .. m - 1
          PROVE  /\ level + 1 + i \in levels
                 /\ U.occupied[level + 1 + i] = T.occupied[level + 1 + i]
                 /\ U.node[level + 1 + i] = T.node[level + 1 + i]
      <4> DEFINE j == level + 1 + i
      <4>1. j \in levels /\ j > level /\ j # level
        BY <1>1, <2>1
      <4> HIDE DEF j, sum
      <4>2. U.occupied[j] = T.occupied[j]
        BY <1>2, <4>1
      <4>3. U.node[j] = T.node[j]
        BY <1>2, <4>1
      <4> QED
        BY <4>1, <4>2, <4>3 DEF j
    <3> QED
      BY <3>1, <3>2, <3>3
  <2>3. /\ \A l \in levels : wn[l] \in Int /\ wn[l] = IF U.occupied[l] THEN 2 ^ l ELSE 0
        /\ Polys(cn, L)
        /\ \A l \in levels : cn[l] = IF U.occupied[l] THEN U.node[l] ELSE Zero
    <3>1. \A l \in levels : 2 ^ l \in Int
      <4>1. \A l \in levels : l \in 0 .. N
        BY <1>1, PeriodIs
      <4> QED
        BY <4>1, TwoTo
    <3>2. U.node \in [levels -> Poly]
      BY <1>10 DEF Tree
    <3> HIDE DEF U
    <3>3. \A l \in levels : wn[l] \in Int /\ wn[l] = IF U.occupied[l] THEN 2 ^ l ELSE 0
      BY <3>1 DEF Weights
    <3>4. \A l \in levels : cn[l] = IF U.occupied[l] THEN U.node[l] ELSE Zero
      BY DEF Kept
    <3> HIDE DEF wn, cn
    <3>5. \A l \in levels : cn[l] \in Poly
      BY <3>2, <3>4, ZeroIs
    <3> QED
      BY <3>3, <3>4, <3>5 DEF Polys
  <2> HIDE DEF U
  <2>4. /\ \A i \in 0 .. m - 1 : wn[level + 1 + i] = w[level + 1 + i]
        /\ \A i \in 0 .. m - 1 : cn[level + 1 + i] = c[level + 1 + i]
    BY <1>7, <2>2, <2>3
  <2>5. wn[level] = p /\ w[level] = 0 /\ cn[level] = sum /\ c[level] = Zero
    BY <1>7, <2>1, <2>2, <2>3
  <2>6. /\ \A l \in 0 .. level - 1 : wn[l] = 0 /\ cn[l] = Zero
    BY <2>2, <2>3
  <2> HIDE DEF w, c, wn, cn
  <2>7. Sum(wn, level) = 0 /\ PlusUpTo(cn, level) = Zero
    <3>1. Sum(wn, level) = IF (-1) \in 0 .. level - 1 THEN 0 ELSE 0
      BY <1>5, <2>6, SumOfOne, 0 \in Int, -1 \in Int
    <3>2. PlusUpTo(cn, level) = Zero
      BY <1>5, <2>6, SumOfZeros
    <3> QED
      BY <3>1, <3>2
  <2>8. p \in Nat
    <3>1. level \in 0 .. N
      BY <1>5, PeriodIs
    <3> QED
      BY <3>1, TwoTo
  <2>9. /\ rw \in Int
        /\ Sum(w, L) = (Sum(w, level) + w[level]) + rw
        /\ Sum(wn, L) = (Sum(wn, level) + wn[level]) + rw
    <3>1. \A i \in 0 .. (L - level - 1) - 1 : wr[i] = w[level + 1 + i] /\ wr[i] = wn[level + 1 + i]
      BY <2>4
    <3> HIDE DEF wr
    <3>2. rw \in Int /\ Sum(w, L) = (Sum(w, level) + w[level]) + rw
      BY <1>1, <1>7, <2>1, <3>1, SumAround
    <3>3. Sum(wn, L) = (Sum(wn, level) + wn[level]) + rw
      <4>1. /\ L \in Nat /\ level \in 0 .. L - 1
            /\ \A l \in 0 .. L - 1 : wn[l] \in Int
            /\ \A i \in 0 .. (L - level - 1) - 1 : wr[i] = wn[level + 1 + i]
        BY <1>1, <2>1, <2>3, <3>1
      <4> HIDE DEF levels
      <4>2. Sum(wn, L) = (Sum(wn, level) + wn[level]) + Sum(wr, L - level - 1)
        BY <4>1, SumAround, Zenon
      <4> QED
        BY <4>2
    <3> QED
      BY <3>2, <3>3
  <2>10. /\ rc \in Poly
         /\ PlusUpTo(c, L) = Plus(Plus(PlusUpTo(c, level), c[level]), rc)
         /\ PlusUpTo(cn, L) = Plus(Plus(PlusUpTo(cn, level), cn[level]), rc)
    <3>1. \A i \in 0 .. (L - level - 1) - 1 : cr[i] = c[level + 1 + i] /\ cr[i] = cn[level + 1 + i]
      BY <2>4
    <3>2. /\ L \in Nat /\ level \in 0 .. L - 1 /\ Polys(c, L) /\ Polys(cn, L)
          /\ \A i \in 0 .. (L - level - 1) - 1 : cr[i] = c[level + 1 + i]
          /\ \A i \in 0 .. (L - level - 1) - 1 : cr[i] = cn[level + 1 + i]
      BY <1>1, <1>7, <2>1, <2>3, <3>1
    <3> HIDE DEF cr, levels
    <3>3. /\ PlusUpTo(cr, L - level - 1) \in Poly
          /\ PlusUpTo(c, L) = Plus(Plus(PlusUpTo(c, level), c[level]), PlusUpTo(cr, L - level - 1))
      BY <3>2, PlusUpToAround, Zenon
    <3>4. PlusUpTo(cn, L) = Plus(Plus(PlusUpTo(cn, level), cn[level]), PlusUpTo(cr, L - level - 1))
      BY <3>2, PlusUpToAround, Zenon
    <3> QED
      BY <3>3, <3>4
  <2> HIDE DEF rw, rc, p, m, sum, below, a, b
  <2>11. Sum(wn, L) = k + 1
    BY <1>8, <1>9, <2>5, <2>7, <2>8, <2>9 DEF p
  <2>12. PlusUpTo(cn, L) = PlusUpTo(leaf, k + 1)
    <3>1. a = Plus(below, rc)
      BY <1>6, <1>8, <1>9, <2>5, <2>10, PlusLaws
    <3>2. PlusUpTo(cn, L) = Plus(Plus(b, below), rc)
      BY <1>6, <2>5, <2>7, <2>10, PlusLaws
    <3>3. Plus(Plus(b, below), rc) = Plus(b, Plus(below, rc))
      BY <1>6, <2>10, PlusAssociates
    <3> QED
      BY <1>6, <3>1, <3>2, <3>3, PlusLaws
  <2>13. k + 1 # 2 ^ L
    <3> DEFINE pw == [l \in levels |-> 2 ^ l]
    <3>1. ASSUME NEW l \in levels
          PROVE  pw[l] = 2 ^ l /\ pw[l] \in Int /\ wn[l] <= pw[l]
      <4>1. 2 ^ l \in Nat
        <5>1. l \in 0 .. N
          BY <1>1, PeriodIs
        <5> QED
          BY <5>1, TwoTo
      <4> QED
        BY <2>3, <4>1
    <3> HIDE DEF pw
    <3>2. Sum(pw, L) = 2 ^ L - 1
      BY <3>1, PowersAddUp
    <3>3. Sum(wn, L) <= Sum(pw, L)
      BY <1>1, <2>3, <3>1, SumAtMost
    <3> QED
      BY <1>1, <2>11, <3>2, <3>3
  <2> QED
    BY <1>4, <1>10, <2>11, <2>12, <2>13 DEF TreeHolds, wn, cn
<1> QED
  BY <1>5, <1>11, <1>12

\* A tree of n + 1 states, one for each leaf that has entered.
EmptyTree(L) ==
  [node |-> [l \in 0 .. L - 1 |-> Zero], occupied |-> [l \in 0 .. L - 1 |-> FALSE], out |-> Zero]

Growth(t, leaf, L, n) ==
  t = [k \in 0 .. n |-> IF k = 0 THEN EmptyTree(L) ELSE TreeStep(t[k - 1], leaf[k - 1])]

\* The states the tree runs through exist for every number of leaves.
LEMMA GrowthThere ==
  ASSUME NEW leaf, NEW L, NEW n \in Nat
  PROVE  \E t : Growth(t, leaf, L, n)
<1> DEFINE S == {m \in 0 .. n : \E t : Growth(t, leaf, L, m)}
<1>1. 0 \in S
  <2> DEFINE t == [k \in 0 .. 0 |-> EmptyTree(L)]
  <2>1. Growth(t, leaf, L, 0)
    BY DEF Growth
  <2> QED
    BY <2>1
<1>2. ASSUME NEW m \in 0 .. n - 1, m \in S
      PROVE  m + 1 \in S
  <2>1. PICK t : Growth(t, leaf, L, m)
    BY <1>2
  <2> DEFINE r == [k \in 0 .. m + 1 |-> IF k = m + 1 THEN TreeStep(t[m], leaf[m]) ELSE t[k]]
  <2>2. \A k \in 0 .. m : r[k] = t[k]
    OBVIOUS
  <2>3. ASSUME NEW k \in 0 .. m + 1
        PROVE  r[k] = IF k = 0 THEN EmptyTree(L) ELSE TreeStep(r[k - 1], leaf[k - 1])
    <3>1. CASE k = m + 1
      <4>1. r[k] = TreeStep(t[m], leaf[m]) /\ k - 1 = m /\ k # 0 /\ m \in 0 .. m
        BY <3>1
      <4>2. r[m] = t[m]
        BY <2>2, <4>1
      <4> HIDE DEF r
      <4> QED
        BY <4>1, <4>2
    <3>2. CASE k # m + 1
      <4>1. k \in 0 .. m /\ (k # 0 => k - 1 \in 0 .. m)
        BY <3>2
      <4>2. t[k] = IF k = 0 THEN EmptyTree(L) ELSE TreeStep(t[k - 1], leaf[k - 1])
        BY <2>1, <4>1 DEF Growth
      <4>3. r[k] = t[k] /\ (k # 0 => r[k - 1] = t[k - 1])
        BY <2>2, <4>1
      <4> HIDE DEF r
      <4> QED
        BY <4>2, <4>3
    <3> QED
      BY <3>1, <3>2
  <2>4. r = [k \in 0 .. m + 1 |-> r[k]]
    OBVIOUS
  <2> HIDE DEF r
  <2>5. Growth(r, leaf, L, m + 1)
    BY <2>3, <2>4 DEF Growth
  <2> QED
    BY <2>5
<1> HIDE DEF S
<1>3. 0 .. n \subseteq S
  BY <1>1, <1>2, StepsReachAll
<1>4. n \in S
  BY <1>3
<1> QED
  BY <1>4 DEF S

\* What leaves the tree is the sum of the leaves (stream_leaves).
LEMMA StreamIsSum ==
  ASSUME call \in Cases, NEW leaf, Polys(leaf, call.gamma)
  PROVE  StreamLeaves(leaf) = PlusUpTo(leaf, call.gamma)
<1> DEFINE c == call.gamma
           L == Log2(c)
           t == CHOOSE t : Growth(t, leaf, L, c)
<1>1. c \in Nat \ {0} /\ c \in 1 .. N
  BY CallIs
<1>2. L \in 0 .. N /\ 2 ^ L = c
  <2>1. PICK e \in 0 .. N : c = 2 ^ e
    BY CasesAssumption
  <2>2. e < 2 ^ e
    BY <2>1, TwoTo
  <2> HIDE DEF c
  <2>3. e \in 0 .. c
    BY <1>1, <2>1, <2>2
  <2>4. Log2(c) \in 0 .. c /\ 2 ^ Log2(c) = c
    BY <2>1, <2>3 DEF Log2
  <2> QED
    BY <1>1, <2>4, PeriodIs
<1>3. StreamLeaves(leaf) = t[c].out
  BY DEF StreamLeaves, Growth, EmptyTree
<1>4. Growth(t, leaf, L, c)
  BY <1>1, GrowthThere
<1> HIDE DEF t, L, c
<1> DEFINE S == {k \in 0 .. c : TreeHolds(t[k], k, leaf, L)}
<1>5. 0 \in S
  <2> DEFINE T == EmptyTree(L)
             w == Weights(T, L)
             p == Kept(T, L)
  <2>1. t[0] = T /\ 0 \in 0 .. c
    BY <1>1, <1>4 DEF Growth
  <2>2. T \in Tree(L)
    BY ZeroIs DEF Tree, EmptyTree
  <2>3. /\ \A l \in 0 .. L - 1 : w[l] = 0
        /\ \A l \in 0 .. L - 1 : p[l] = Zero
    BY DEF EmptyTree, Weights, Kept
  <2> HIDE DEF w, p, T
  <2>4. Sum(w, L) = IF (-1) \in 0 .. L - 1 THEN 0 ELSE 0
    BY <1>2, <2>3, SumOfOne, 0 \in Int, -1 \in Int
  <2>5. PlusUpTo(p, L) = Zero
    BY <1>2, <2>3, SumOfZeros
  <2>6. PlusUpTo(leaf, 0) = Zero
    BY EmptySum
  <2>7. 0 # 2 ^ L
    BY <1>1, <1>2
  <2> QED
    BY <2>1, <2>2, <2>4, <2>5, <2>6, <2>7 DEF TreeHolds, w, p
<1>6. ASSUME NEW k \in 0 .. c - 1, k \in S
      PROVE  k + 1 \in S
  <2>1. k + 1 \in 0 .. c /\ k + 1 # 0 /\ (k + 1) - 1 = k
    BY <1>1
  <2>2. t[k + 1] = TreeStep(t[k], leaf[k])
    BY <1>4, <2>1 DEF Growth
  <2>3. TreeHolds(t[k], k, leaf, L)
    BY <1>6
  <2>4. Polys(leaf, 2 ^ L) /\ k \in 0 .. 2 ^ L - 1
    BY <1>2 DEF c
  <2>5. TreeHolds(TreeStep(t[k], leaf[k]), k + 1, leaf, L)
    BY <1>2, <2>3, <2>4, TreeStepHolds
  <2> QED
    BY <2>1, <2>2, <2>5
<1> HIDE DEF S
<1>7. 0 .. c \subseteq S
  BY <1>1, <1>5, <1>6, StepsReachAll
<1>8. c \in S
  BY <1>1, <1>7
<1>9. t[c].out = PlusUpTo(leaf, c)
  BY <1>2, <1>8 DEF S, TreeHolds
<1> QED
  BY <1>3, <1>9 DEF c


-----------------------------------------------------------------------------
(* The aggregate *)

\* The number of ciphertexts has an inverse.
LEMMA InverseOfGamma ==
  ASSUME call \in Cases
  PROVE  /\ InvModQ(call.gamma) \in Int
         /\ Same(call.gamma * InvModQ(call.gamma), 1)
<1>1. PICK e \in 0 .. N : call.gamma = 2 ^ e
  BY CasesAssumption
<1> DEFINE S == {i \in 0 .. e : \E d \in Int : Same(2 ^ i * d, 1)}
<1>2. 0 \in S
  <2>1. Same(2 ^ 0 * 1, 1)
    BY TwoTo, SameIt, 1 \in Int
  <2> QED
    BY <2>1
<1>3. ASSUME NEW i \in 0 .. e - 1, i \in S
      PROVE  i + 1 \in S
  <2> DEFINE p == 2 ^ i
             q == 2 ^ (i + 1)
             half2 == Q \div 2
             t == half2 + 1
  <2>1. p \in Nat /\ q = 2 * p /\ i + 1 \in 0 .. e
    <3>1. i \in 0 .. N /\ i \in 0 .. N - 1
      BY PeriodIs
    <3> QED
      BY <3>1, TwoTo
  <2>2. PICK d \in Int : Same(p * d, 1)
    BY <1>3
  <2>3. Q = 2 * half2 + 1 /\ half2 \in Int
    BY PeriodIs, OddModulus, IntQuotient, 2 \in Nat \ {0}
  <2> HIDE DEF p, q, half2
  <2>4. t \in Int /\ 2 * t = 1 + Q * 1
    BY <2>3, PeriodIs
  <2>5. Same(2 * t, 1)
    BY <2>4 DEF Same, Congruent
  <2> HIDE DEF t
  <2> DEFINE x == 2 * t
             y == p * d
             dt == d * t
  <2>6. x \in Int /\ y \in Int /\ dt \in Int /\ q * dt = y * x
    <3>1. y \in Int /\ x \in Int /\ dt \in Int /\ (d * t) * p = (p * d) * t /\ (p * d) * t \in Int
      BY <2>1, <2>4, SMT
    <3>2. q * dt = 2 * (dt * p) /\ dt * p \in Int
      <4> HIDE DEF dt
      <4> QED
        BY <2>1, <3>1, SMT
    <3>3. y * x = 2 * (y * t) /\ y * t \in Int
      <4> HIDE DEF y
      <4> QED
        BY <2>4, <3>1, SMT
    <3> QED
      BY <3>1, <3>2, <3>3
  <2> HIDE DEF x, y, dt
  <2>7. Same(y * x, 1 * 1)
    BY <2>2, <2>5, <2>6, SameProduct, 1 \in Int DEF x, y
  <2>8. Same(q * dt, 1)
    BY <2>6, <2>7
  <2> QED
    BY <2>1, <2>6, <2>8 DEF q
<1> HIDE DEF S
<1>4. 0 .. e \subseteq S
  BY <1>2, <1>3, StepsReachAll
<1>5. e \in S
  BY <1>4
<1> DEFINE c == call.gamma
<1>6. PICK d \in Int : Same(c * d, 1)
  BY <1>1, <1>5 DEF S
<1>7. c \in Nat
  BY CallIs
<1> HIDE DEF c
<1> DEFINE r == d % Q
           v == IF r = 0 THEN Q ELSE r
<1>8. r \in 0 .. Q - 1 /\ r \in Int /\ Same(r, d)
  BY SameRest
<1>9. v \in 1 .. Q /\ v \in Int /\ Same(v, r)
  <2> HIDE DEF r
  <2>1. CASE r = 0
    <3>1. Q = 0 + Q * 1
      BY PeriodIs
    <3>2. Same(Q, 0)
      BY <3>1 DEF Same, Congruent
    <3> QED
      BY <1>8, <2>1, <3>2, PeriodIs
  <2>2. CASE r # 0
    BY <1>8, <2>2, PeriodIs, SameIt
  <2> QED
    BY <2>1, <2>2
<1> HIDE DEF r, v
<1>10. Same(v, d)
  BY <1>8, <1>9, SameTrans
<1> DEFINE cv == c * v
           cd == c * d
<1>11. cv \in Int /\ cd \in Int
  BY <1>7, <1>9, IntProduct
<1>12. Same(cv, cd)
  <2>1. Same(c, c) /\ c \in Int
    BY <1>7, SameIt
  <2> QED
    BY <1>9, <1>10, <2>1, SameProduct
<1> HIDE DEF cv, cd
<1>13. Same(cv, 1)
  BY <1>6, <1>11, <1>12, SameTrans, 1 \in Int DEF cd
<1>14. (c * v) % Q = 1 % Q
  BY <1>11, <1>13, RestSame, 1 \in Int DEF cv
<1> DEFINE j == InvModQ(c)
<1>15. j \in 1 .. Q /\ (c * j) % Q = 1 % Q
  BY <1>9, <1>14 DEF InvModQ
<1> HIDE DEF j
<1>16. j \in Int /\ c * j \in Int
  BY <1>7, <1>15, PeriodIs, IntProduct
<1> DEFINE cj == c * j
           a == cj % Q
           b == 1 % Q
<1>17. Same(cj, a) /\ Same(b, 1) /\ a = b /\ a \in Int /\ b \in Int
  BY <1>15, <1>16, SameRest, 1 \in Int
<1> HIDE DEF a, b
<1>18. Same(cj, 1)
  BY <1>16, <1>17, SameTrans, 1 \in Int
<1> QED
  BY <1>16, <1>18 DEF j, c

\* The masks, moved to the element g of the Galois group, and their sum.
Shifted(g) == [k \in Rows |-> Rotate(k, Galois(g, LweMask(k)))]
Column(g) == Scale(InvModQ(call.gamma), PlusUpTo(Shifted(g), call.gamma))

\* Column j of the first half (hf = 0) and of the second.
Reference(j, hf) == Column(IF hf = 0 THEN -HList(j) ELSE HList(j))

\* The rotated images a column of the aggregate is the sum of are polynomials.
LEMMA ShiftedIs ==
  ASSUME call \in Cases, NEW g, Unit(g)
  PROVE  /\ Polys(Shifted(g), call.gamma)
         /\ PlusUpTo(Shifted(g), call.gamma) \in Poly
         /\ Column(g) \in Poly
<1>1. call.gamma \in Nat /\ Rows = 0 .. call.gamma - 1
  BY CallIs DEF Rows
<1>2. ASSUME NEW k \in Rows PROVE Shifted(g)[k] \in Poly
  BY InputsAre, GaloisUnrolled, RotatePlus, 0 \in Int DEF Shifted
<1>3. Polys(Shifted(g), call.gamma)
  BY <1>1, <1>2 DEF Polys
<1>4. PlusUpTo(Shifted(g), call.gamma) \in Poly
  BY <1>1, <1>3, PlusUpToIs
<1> QED
  BY <1>3, <1>4, InverseOfGamma, ScaleIs DEF Column

\* Dividing the masks by their number divides the sum.
LEMMA LeavesAddUp ==
  ASSUME call \in Cases, NEW g, Unit(g)
  PROVE  LET leaf == [k \in Rows |-> Rotate(k, Galois(g, Transposed[k]))]
         IN  Polys(leaf, call.gamma) /\ PlusUpTo(leaf, call.gamma) = Column(g)
<1> DEFINE leaf == [k \in Rows |-> Rotate(k, Galois(g, Transposed[k]))]
           c == InvModQ(call.gamma)
           f == Shifted(g)
           n == call.gamma
<1>1. n \in Nat /\ Rows = 0 .. n - 1 /\ c \in Int
  BY CallIs, InverseOfGamma DEF Rows
<1>2. ASSUME NEW k \in Rows
      PROVE  leaf[k] = Scale(c, f[k])
  <2>1. k \in Int /\ LweMask(k) \in Poly
    BY InputsAre
  <2> DEFINE a == LweMask(k)
             b == Galois(g, a)
  <2>2. f[k] = Rotate(k, b) /\ leaf[k] = Rotate(k, Galois(g, Scale(c, a)))
    BY DEF Shifted, Transposed
  <2>3. b \in Poly
    BY <2>1, GaloisUnrolled
  <2>4. Galois(g, Scale(c, a)) = Scale(c, b)
    BY <1>1, <2>1, GaloisPlus
  <2> HIDE DEF b, c
  <2>5. Rotate(k, Scale(c, b)) = Scale(c, Rotate(k, b))
    BY <1>1, <2>1, <2>3, RotatePlus
  <2> QED
    BY <2>2, <2>4, <2>5
<1>3. Polys(f, n)
  BY ShiftedIs
<1> HIDE DEF leaf, f, c, n
<1>4. Polys(leaf, n) /\ PlusUpTo(leaf, n) = Scale(c, PlusUpTo(f, n))
  BY <1>1, <1>2, <1>3, SumOfScale
<1> QED
  BY <1>4 DEF Column, leaf, f, c, n

\* Both ways of adding up give the columns of an element.
LEMMA ProcessIs ==
  ASSUME call \in Cases, NEW h, Unit(h)
  PROVE  /\ ProcessHFull(h) = << Column(-h), Column(h) >>
         /\ ProcessHPartial(h) = << Column(-h) >>
         /\ Column(-h) \in Poly /\ Column(h) \in Poly
<1>1. Unit(-h)
  BY UnitMinus
<1> DEFINE leaf(g) == [k \in Rows |-> Rotate(k, Galois(g, Transposed[k]))]
<1>2. /\ Polys(leaf(h), call.gamma) /\ PlusUpTo(leaf(h), call.gamma) = Column(h)
      /\ Polys(leaf(-h), call.gamma) /\ PlusUpTo(leaf(-h), call.gamma) = Column(-h)
  BY <1>1, LeavesAddUp
<1>3. /\ ProcessHFull(h) = << StreamLeaves(leaf(-h)), StreamLeaves(leaf(h)) >>
      /\ ProcessHPartial(h) = << PlusUpTo(leaf(-h), call.gamma) >>
  BY DEF ProcessHFull, ProcessHPartial
<1> HIDE DEF leaf
<1>4. StreamLeaves(leaf(h)) = Column(h) /\ StreamLeaves(leaf(-h)) = Column(-h)
  BY <1>2, StreamIsSum
<1> QED
  BY <1>1, <1>2, <1>3, <1>4, ShiftedIs

\* The directly computed column, and the two automorphisms it is made with.
LEMMA ReferenceIs ==
  ASSUME call \in Cases, NEW j \in Nat
  PROVE  /\ Unit(HList(j)) /\ Unit(-HList(j)) /\ HList(j) \in Int
         /\ \A hf \in Int : Reference(j, hf) \in Poly
         /\ Reference(j, 0) = Column(-HList(j)) /\ Reference(j, 1) = Column(HList(j))
<1>1. Stride * j \in Nat
  BY CallIs, ProductMonotone
<1>2. Unit(HList(j)) /\ Unit(-HList(j)) /\ HList(j) \in Int
  BY <1>1, ElementUnit, ElementNext DEF HList
<1> QED
  BY <1>2, ShiftedIs DEF Reference

\* The columns of the aggregate.
References == [c \in 0 .. Halves * Columns - 1 |-> Reference(c % Columns, c \div Columns)]

PanelHolds(w) ==
  /\ next[w] <= ChunkLen(w)
  /\ panels[w] \in Seq(Poly) /\ Len(panels[w]) = Halves * next[w]
  /\ \A jj \in 0 .. next[w] - 1, hf \in 0 .. Halves - 1 :
       panels[w][LocalColumn(jj, hf) + 1] = Reference(ChunkStart(w) + jj, hf)

AggregateInv ==
  /\ call \in Cases
  /\ stage = "aggregate" =>
       /\ half = 0
       /\ next \in [Workers -> Nat] /\ panels \in [Workers -> Seq(Poly)]
       /\ \A w \in Workers : PanelHolds(w)
  /\ stage \in {"copyHalf", "collapse"} => aggregate = References

\* What depends on the call alone stays.
LEMMA SameShapes ==
  ASSUME call' = call
  PROVE  /\ Columns' = Columns /\ Halves' = Halves /\ Workers' = Workers /\ Stride' = Stride
         /\ Steps' = Steps /\ KgSteps' = KgSteps /\ HalfSteps' = HalfSteps
         /\ GroupsPerHalf' = GroupsPerHalf /\ GroupCount' = GroupCount
         /\ \A w : ChunkLen(w)' = ChunkLen(w) /\ ChunkStart(w)' = ChunkStart(w)
         /\ \A g : GroupStartStep(g)' = GroupStartStep(g) /\ GroupLen(g)' = GroupLen(g)
         /\ Secret' = Secret /\ Seed' = Seed /\ Keys' = Keys /\ Rows' = Rows
         /\ \A c, hf : ColumnSecret(c, hf)' = ColumnSecret(c, hf) /\ SecretView(c, hf)' = SecretView(c, hf)
         /\ \A j, hf : Reference(j, hf)' = Reference(j, hf)
         /\ References' = References
<1>1. Columns' = Columns /\ Halves' = Halves /\ Stride' = Stride /\ Steps' = Steps
  BY DEF Columns, Halves, Stride, Steps
<1>2. KgSteps' = KgSteps
  BY <1>1 DEF KgSteps
<1>3. HalfSteps' = HalfSteps
  BY <1>2 DEF HalfSteps
<1>4. GroupsPerHalf' = GroupsPerHalf
  BY <1>3 DEF GroupsPerHalf
<1>5. GroupCount' = GroupCount
  BY <1>1, <1>4 DEF GroupCount
<1>6. Workers' = Workers
  BY <1>1 DEF Workers
<1>7. \A w : ChunkLen(w)' = ChunkLen(w)
  BY <1>1, <1>6 DEF ChunkLen
<1>8. \A w : ChunkStart(w)' = ChunkStart(w)
  BY <1>7 DEF ChunkStart
<1>9. \A g : GroupStartStep(g)' = GroupStartStep(g)
  BY <1>3, <1>4 DEF GroupStartStep
<1>10. \A g : GroupLen(g)' = GroupLen(g)
  BY <1>3, <1>9 DEF GroupLen
<1>11. Secret' = Secret /\ Seed' = Seed /\ Rows' = Rows
  BY DEF Secret, Seed, Rows
<1>12. Keys' = Keys
  BY <1>11 DEF Keys
<1>13. \A c, hf : SecretView(c, hf)' = SecretView(c, hf)
  BY <1>1 DEF SecretView
<1>14. \A c, hf : ColumnSecret(c, hf)' = ColumnSecret(c, hf)
  BY <1>11, <1>13 DEF ColumnSecret
<1>15. \A j, hf : Reference(j, hf)' = Reference(j, hf)
  BY <1>1, <1>11 DEF Reference, Column, Shifted, HList, LweMask
<1>16. References' = References
  BY <1>1, <1>15 DEF References
<1> QED
  BY <1>1, <1>2, <1>3, <1>4, <1>5, <1>6, <1>7, <1>8, <1>9, <1>10, <1>11, <1>12, <1>13, <1>14, <1>15, <1>16


\* The copied columns are those of the panels, whichever worker has them.
LEMMA MergeIsReference ==
  ASSUME AggregateInv, MergePanels
  PROVE  aggregate' = References
<1> DEFINE A(c) == LET j == c % Columns
                       w == CHOOSE v \in Workers :
                              ChunkStart(v) <= j /\ j < ChunkStart(v) + ChunkLen(v)
                   IN panels[w][LocalColumn(j - ChunkStart(w), c \div Columns) + 1]
<1>1. aggregate' = [c \in 0 .. Halves * Columns - 1 |-> A(c)] /\ stage = "aggregate"
      /\ \A w \in Workers : next[w] = ChunkLen(w)
  BY DEF MergePanels
<1>2. call \in Cases /\ \A w \in Workers : PanelHolds(w)
  BY <1>1 DEF AggregateInv
<1>3. ASSUME NEW c \in 0 .. Halves * Columns - 1
      PROVE  A(c) = Reference(c % Columns, c \div Columns)
  <2> DEFINE j == c % Columns
             hf == c \div Columns
             w == CHOOSE v \in Workers : ChunkStart(v) <= j /\ j < ChunkStart(v) + ChunkLen(v)
             a == ChunkStart(w)
             b == ChunkLen(w)
  <2>1. Columns \in Nat \ {0} /\ Halves \in {1, 2}
    BY <1>2, CallIs
  <2>2. j \in 0 .. Columns - 1 /\ hf \in Int /\ c = Columns * hf + j
    BY <2>1, IntQuotient
  <2>3. hf \in 0 .. Halves - 1
    <3> HIDE DEF j, hf
    <3> QED
      BY <2>1, <2>2
  <2>4. \E v \in Workers : ChunkStart(v) <= j /\ j < ChunkStart(v) + ChunkLen(v)
    <3> HIDE DEF j
    <3> QED
      BY <1>2, <2>2, ChunksCover
  <2>5. w \in Workers /\ a <= j /\ j < a + b
    BY <2>4
  <2>6. A(c) = panels[w][LocalColumn(j - a, hf) + 1]
    OBVIOUS
  <2> HIDE DEF A, w, j, hf
  <2>7. a \in Nat /\ b \in Nat /\ next[w] = b
    BY <1>1, <1>2, <2>5, ChunksAre
  <2> HIDE DEF a, b
  <2>8. j - a \in 0 .. next[w] - 1 /\ a + (j - a) = j
    BY <2>2, <2>5, <2>7
  <2>9. panels[w][LocalColumn(j - a, hf) + 1] = Reference(a + (j - a), hf)
    BY <1>2, <2>3, <2>5, <2>8 DEF PanelHolds, a
  <2> QED
    BY <2>6, <2>8, <2>9 DEF j, hf
<1> HIDE DEF A
<1> QED
  BY <1>1, <1>3 DEF References

\* A column more in a panel.
LEMMA AggregateAddsColumn ==
  ASSUME AggregateInv, NEW w \in Workers, Aggregate(w)
  PROVE  AggregateInv'
<1> DEFINE h == HList(ChunkStart(w) + next[w])
           j == ChunkStart(w) + next[w]
           new == IF call.partial THEN ProcessHPartial(h) ELSE ProcessHFull(h)
           n == next[w]
           p == panels[w]
<1>1. /\ stage = "aggregate" /\ n < ChunkLen(w) /\ call' = call /\ stage' = stage /\ half' = half
      /\ panels' = [panels EXCEPT ![w] = p \o new]
      /\ next' = [next EXCEPT ![w] = n + 1]
  BY DEF Aggregate
<1>2. /\ call \in Cases /\ half = 0
      /\ next \in [Workers -> Nat] /\ panels \in [Workers -> Seq(Poly)]
      /\ \A v \in Workers : PanelHolds(v)
  BY <1>1 DEF AggregateInv
<1>3. ChunkLen(w) \in Nat /\ ChunkStart(w) \in Nat
  BY <1>2, ChunksAre
<1>4. n \in Nat /\ j \in Nat /\ p \in Seq(Poly) /\ Len(p) = Halves * n
  BY <1>2, <1>3 DEF PanelHolds
<1>5. Halves \in {1, 2} /\ (Halves = 1 <=> call.partial) /\ call.partial \in BOOLEAN
  BY <1>2, CallIs
<1>6. /\ new \in Seq(Poly) /\ Len(new) = Halves
      /\ \A hf \in 0 .. Halves - 1 : new[hf + 1] = Reference(j, hf)
  <2>1. /\ Unit(h) /\ Reference(j, 0) = Column(-h) /\ Reference(j, 1) = Column(h)
    BY <1>2, <1>4, ReferenceIs
  <2> HIDE DEF h
  <2>2. /\ ProcessHFull(h) = << Column(-h), Column(h) >>
        /\ ProcessHPartial(h) = << Column(-h) >>
        /\ Column(-h) \in Poly /\ Column(h) \in Poly
    BY <1>2, <2>1, ProcessIs
  <2>3. CASE call.partial
    <3>1. new = << Column(-h) >> /\ Halves = 1
      BY <1>5, <2>2, <2>3
    <3> HIDE DEF new
    <3>2. \A hf \in 0 .. Halves - 1 : hf = 0
      BY <3>1
    <3> QED
      BY <2>1, <2>2, <3>1, <3>2
  <2>4. CASE ~call.partial
    <3>1. new = << Column(-h), Column(h) >> /\ Halves = 2
      BY <1>5, <2>2, <2>4
    <3> HIDE DEF new
    <3>2. \A hf \in 0 .. Halves - 1 : hf = 0 \/ hf = 1
      BY <3>1
    <3> QED
      BY <2>1, <2>2, <3>1, <3>2
  <2> QED
    BY <2>3, <2>4
<1> HIDE DEF new, h
<1>7. /\ Columns' = Columns /\ Halves' = Halves /\ Workers' = Workers
      /\ \A v : ChunkLen(v)' = ChunkLen(v) /\ ChunkStart(v)' = ChunkStart(v)
      /\ \A i, hf : Reference(i, hf)' = Reference(i, hf)
  BY <1>1, SameShapes
<1>8. p \o new \in Seq(Poly)
  BY <1>4, <1>6
<1>9. next' \in [Workers -> Nat] /\ panels' \in [Workers -> Seq(Poly)]
  <2> HIDE DEF n, p
  <2> QED
    BY <1>1, <1>2, <1>4, <1>8
<1>10. ASSUME NEW v \in Workers
       PROVE  PanelHolds(v)'
  <2>1. CASE v # w
    <3>1. next'[v] = next[v] /\ panels'[v] = panels[v]
      BY <1>1, <1>2, <2>1
    <3>2. PanelHolds(v)
      BY <1>2
    <3> QED
      BY <1>7, <3>1, <3>2 DEF PanelHolds, LocalColumn
  <2>2. CASE v = w
    <3>1. next'[v] = n + 1 /\ panels'[v] = p \o new
      <4> HIDE DEF n, p
      <4> QED
        BY <1>1, <1>2, <2>2
    <3>2. ASSUME NEW jj \in 0 .. n, NEW hf \in 0 .. Halves - 1
          PROVE  (p \o new)[LocalColumn(jj, hf) + 1] = Reference(ChunkStart(w) + jj, hf)
      <4> DEFINE i == LocalColumn(jj, hf) + 1
      <4>1. CASE jj = n
        <5>1. i = Len(p) + (hf + 1)
          BY <1>4, <1>5, <4>1 DEF LocalColumn
        <5> HIDE DEF i, p, n
        <5>2. hf + 1 \in 1 .. Len(new)
          BY <1>5, <1>6
        <5>3. (p \o new)[i] = new[hf + 1]
          BY <1>4, <1>6, <5>1, <5>2
        <5> QED
          BY <1>6, <4>1, <5>3 DEF j, n, i
      <4>2. CASE jj # n
        <5>1. jj \in 0 .. n - 1 /\ jj \in Nat
          BY <1>4, <4>2
        <5>2. i \in 1 .. Len(p)
          <6> HIDE DEF n, p
          <6>1. Halves * jj + hf + 1 <= Halves * n
            BY <1>4, <1>5, <5>1
          <6> QED
            BY <1>4, <1>5, <5>1, <6>1 DEF LocalColumn
        <5>3. p[i] = Reference(ChunkStart(w) + jj, hf)
          BY <1>2, <5>1 DEF PanelHolds
        <5> HIDE DEF i, p, n
        <5>4. (p \o new)[i] = p[i]
          BY <1>4, <1>6, <5>2
        <5> QED
          BY <5>3, <5>4 DEF i
      <4> QED
        BY <4>1, <4>2
    <3>3. Len(p \o new) = Halves * (n + 1)
      <4> HIDE DEF p, n
      <4> QED
        BY <1>4, <1>5, <1>6
    <3>4. n + 1 <= ChunkLen(w) /\ (n + 1) - 1 = n
      BY <1>1, <1>3, <1>4
    <3> HIDE DEF n, p
    <3> QED
      BY <1>7, <1>8, <2>2, <3>1, <3>2, <3>3, <3>4 DEF PanelHolds, LocalColumn
  <2> QED
    BY <2>1, <2>2
<1> QED
  BY <1>1, <1>2, <1>7, <1>9, <1>10 DEF AggregateInv

\* A call starts with nothing aggregated.
LEMMA AggregateStarts ==
  ASSUME Init
  PROVE  AggregateInv
<1>1. /\ call \in Cases /\ stage = "aggregate" /\ half = 0
      /\ next = [w \in Workers |-> 0] /\ panels = [w \in Workers |-> << >>]
  BY DEF Init
<1>2. ASSUME NEW w \in Workers
      PROVE  PanelHolds(w)
  <2>1. next[w] = 0 /\ panels[w] = << >> /\ ChunkLen(w) \in Nat /\ Halves \in Nat
    BY <1>1, ChunksAre, CallIs
  <2>2. << >> \in Seq(Poly) /\ Len(<< >>) = Halves * 0
    BY <2>1
  <2> QED
    BY <2>1, <2>2 DEF PanelHolds
<1>3. next \in [Workers -> Nat] /\ panels \in [Workers -> Seq(Poly)]
  BY <1>1
<1> QED
  BY <1>1, <1>2, <1>3 DEF AggregateInv

\* The aggregation keeps it, at every step of a call.
LEMMA AggregateInvariance == Spec => []AggregateInv
<1>1. Init => AggregateInv
  BY AggregateStarts
<1>2. AggregateInv /\ [Next]_vars => AggregateInv'
  <2> SUFFICES ASSUME AggregateInv, [Next]_vars PROVE AggregateInv'
    OBVIOUS
  <2>1. ASSUME call' = call, aggregate' = aggregate, stage' # "aggregate",
               stage' \in {"copyHalf", "collapse"} => stage \in {"copyHalf", "collapse"}
        PROVE  AggregateInv'
    BY <2>1, SameShapes DEF AggregateInv
  <2>2. ASSUME NEW w \in Workers, Aggregate(w) PROVE AggregateInv'
    BY <2>2, AggregateAddsColumn
  <2>3. CASE MergePanels
    <3>1. aggregate' = References
      BY <2>3, MergeIsReference
    <3>2. call' = call /\ stage' = "copyHalf"
      BY <2>3 DEF MergePanels
    <3> QED
      BY <3>1, <3>2, SameShapes DEF AggregateInv
  <2>4. CASE CopyAggregateHalf
    BY <2>1, <2>4 DEF CopyAggregateHalf
  <2>5. CASE CollapseStep
    BY <2>1, <2>5 DEF CollapseStep
  <2>6. CASE NextHalf
    BY <2>1, <2>6 DEF NextHalf
  <2>7. CASE FinishCollapse
    BY <2>1, <2>7 DEF FinishCollapse
  <2>8. CASE BuildBsgs
    BY <2>1, <2>8 DEF BuildBsgs
  <2>9. CASE PackChunk
    BY <2>1, <2>9 DEF PackChunk
  <2>10. CASE PackFinish
    BY <2>1, <2>10 DEF PackFinish
  <2>11. CASE UNCHANGED vars
    <3>1. /\ call' = call /\ stage' = stage /\ half' = half /\ next' = next /\ panels' = panels
          /\ aggregate' = aggregate
      BY <2>11 DEF vars
    <3>2. \A w : PanelHolds(w)' = PanelHolds(w)
      BY <3>1, SameShapes DEF PanelHolds, LocalColumn
    <3> QED
      BY <3>1, <3>2, SameShapes DEF AggregateInv
  <2> QED
    BY <2>2, <2>3, <2>4, <2>5, <2>6, <2>7, <2>8, <2>9, <2>10, <2>11 DEF Next
<1> QED
  BY <1>1, <1>2, PTL DEF Spec

\* The aggregate is the direct sum, however many workers computed it and in
\* whatever order (AggregateIsReference).
THEOREM AggregateIsDirectSum == Spec => []AggregateIsReference
<1>1. AggregateInv => AggregateIsReference
  <2> SUFFICES ASSUME AggregateInv, stage = "copyHalf", NEW c \in DOMAIN aggregate
               PROVE  LET h == HList(c % Columns)
                          g == IF c < Columns THEN -h ELSE h
                      IN  aggregate[c] =
                            [i \in Coef |->
                               (InvModQ(call.gamma) *
                                SumUpTo([k \in Rows |-> Rotate(k, Galois(g, LweMask(k)))[i]],
                                        call.gamma)) % Q]
    BY DEF AggregateIsReference
  <2> DEFINE h == HList(c % Columns)
             g == IF c < Columns THEN -h ELSE h
             j == c % Columns
             hf == c \div Columns
             m == call.gamma
             v == InvModQ(m)
             p == PlusUpTo(Shifted(g), m)
  <2>1. call \in Cases /\ aggregate = References
    BY DEF AggregateInv
  <2>2. Columns \in Nat \ {0} /\ Halves \in {1, 2} /\ m \in Nat /\ Rows = 0 .. m - 1
    BY <2>1, CallIs DEF Rows
  <2>3. c \in 0 .. Halves * Columns - 1 /\ aggregate[c] = Reference(j, hf)
    BY <2>1 DEF References
  <2>4. j \in 0 .. Columns - 1 /\ hf \in Int /\ c = Columns * hf + j /\ j \in Nat
    <3>1. c \in Int
      BY <2>2, <2>3
    <3>2. j \in 0 .. Columns - 1 /\ hf \in Int /\ c = Columns * hf + j
      BY <2>2, <3>1, IntQuotient
    <3> QED
      BY <2>2, <3>2
  <2>5. hf = 0 <=> c < Columns
    <3> HIDE DEF j, hf
    <3> QED
      BY <2>2, <2>3, <2>4
  <2>6. Unit(g) /\ aggregate[c] = Column(g)
    BY <2>1, <2>3, <2>4, <2>5, ReferenceIs DEF Reference
  <2> HIDE DEF g
  <2>7. Polys(Shifted(g), m) /\ p \in Poly
    BY <2>1, <2>6, ShiftedIs
  <2>8. v \in Int
    BY <2>1, InverseOfGamma
  <2>9. ASSUME NEW i \in Coef
        PROVE  (v * p[i]) % Q = (v * SumUpTo([k \in Rows |-> Rotate(k, Galois(g, LweMask(k)))[i]], m)) % Q
    <3> DEFINE f == [k \in 0 .. m - 1 |-> Shifted(g)[k][i]]
               r == [k \in Rows |-> Rotate(k, Galois(g, LweMask(k)))[i]]
               s == Sum(f, m)
               x == p[i]
    <3>1. s \in Int /\ x = s % Q
      BY <2>2, <2>7, PlusUpToIs
    <3>2. r = f
      BY <2>2 DEF Shifted
    <3>3. SumUpTo(r, m) = s
      BY <2>2, <3>2, SumUpToIs
    <3> HIDE DEF f, r, s, x, v
    <3> DEFINE vx == v * x
               vs == v * s
    <3>4. x \in Int /\ Same(x, s) /\ Same(v, v)
      BY <2>8, <3>1, SameRest, SameIt
    <3>5. Same(vx, vs) /\ vx \in Int /\ vs \in Int
      BY <2>8, <3>1, <3>4, SameProduct, IntProduct
    <3> HIDE DEF vx, vs
    <3>6. vx % Q = vs % Q
      BY <3>5, RestSame
    <3> QED
      BY <3>3, <3>6 DEF vx, vs, x, r
  <2>10. Column(g) = [i \in Coef |-> (v * p[i]) % Q]
    BY DEF Column, Scale
  <2> HIDE DEF v, p, m
  <2> QED
    BY <2>6, <2>9, <2>10 DEF v, m, g
<1> QED
  BY <1>1, AggregateInvariance, PTL


-----------------------------------------------------------------------------
(* The collapse *)

\* The element of the Galois group that column c of half hf belongs to.
Element(c, hf) == IF hf = 1 THEN -GaloisElement(Stride * c) ELSE GaloisElement(Stride * c)

\* The view a column is seen in is undone by the element of its secret, and one
\* more power of the generator is the secret of the next column.
LEMMA ElementIs ==
  ASSUME call \in Cases, NEW c \in Nat, NEW hf
  PROVE  /\ Unit(Element(c, hf)) /\ Element(c, hf) \in Int
         /\ Unit(SecretView(c, hf)) /\ Unit(GaloisInv(SecretView(c, hf)))
         /\ Equal(GaloisInv(SecretView(c, hf)), Element(c, hf))
         /\ \A a : Galois(GaloisInv(SecretView(c, hf)), a) = Galois(Element(c, hf), a)
         /\ Unit(GaloisElement(Stride))
         /\ Equal(Element(c, hf) * GaloisElement(Stride), Element(c + 1, hf))
<1> DEFINE e == GaloisElement(Stride * c)
           i == GaloisInv(e)
           v == SecretView(c, hf)
           x == Element(c, hf)
<1>1. Stride \in Nat /\ Stride * c \in Nat
  BY CallIs, ProductMonotone
<1>2. Unit(e) /\ Unit(-e) /\ e \in Int
  BY <1>1, ElementUnit, ElementNext
<1>3. Unit(i) /\ Unit(-i) /\ i \in Int /\ Equal(GaloisInv(i), e)
  BY <1>2, UnitInverse, UnitMinus
<1>4. (hf = 1 => v = -i /\ x = -e) /\ (hf # 1 => v = i /\ x = e)
  BY DEF SecretView, Element
<1>5. Unit(v) /\ Unit(x) /\ x \in Int
  BY <1>2, <1>3, <1>4
<1>6. Equal(GaloisInv(v), x) /\ Unit(GaloisInv(v)) /\ GaloisInv(v) \in Int
  <2> HIDE DEF e, i, v, x
  <2>1. Unit(GaloisInv(v)) /\ GaloisInv(v) \in Int
    BY <1>5, UnitInverse
  <2>2. CASE hf # 1
    BY <1>3, <1>4, <2>1, <2>2
  <2>3. CASE hf = 1
    <3> DEFINE j == GaloisInv(i)
               w == GaloisInv(v)
    <3>1. j \in Int /\ w \in Int /\ Equal(j, e) /\ Equal(-j, w)
      BY <1>3, <1>4, <2>1, <2>3, UnitMinus, UnitInverse
    <3> HIDE DEF j, w
    <3>2. -j \in Int /\ -e \in Int /\ Equal(w, -j)
      BY <1>2, <3>1, EqualLaws
    <3>3. Equal(-j, -e)
      BY <1>2, <3>1, PeriodIs, CongruentMinus DEF Equal
    <3>4. Equal(w, -e)
      BY <3>1, <3>2, <3>3, EqualTrans
    <3> QED
      BY <1>4, <2>1, <2>3, <3>4 DEF w
  <2> QED
    BY <2>2, <2>3
<1>7. \A a : Galois(GaloisInv(v), a) = Galois(x, a)
  BY <1>5, <1>6, GaloisEqual
<1>8. Unit(GaloisElement(Stride))
  BY <1>1, ElementUnit
<1>9. Equal(x * GaloisElement(Stride), Element(c + 1, hf))
  <2> DEFINE g == GaloisElement(Stride)
             d == GaloisElement(Stride * (c + 1))
             eg == e * g
             y == Element(c + 1, hf)
  <2>1. Stride * (c + 1) = Stride * c + Stride
    <3> HIDE DEF e, i, v, x, g, d, eg, y
    <3> QED
      BY <1>1, SMT
  <2>2. d \in Int /\ g \in Int /\ Equal(d, eg)
    BY <1>1, <2>1, ElementPlus
  <2>3. eg \in Int
    BY <1>2, <2>2, IntProduct
  <2>4. (hf = 1 => y = -d) /\ (hf # 1 => y = d)
    BY DEF Element
  <2> HIDE DEF e, i, v, x, g, d, y
  <2>5. Equal(eg, d)
    BY <2>2, <2>3, EqualLaws
  <2>6. ASSUME hf # 1 PROVE Equal(x * g, y)
    BY <1>4, <2>4, <2>5, <2>6
  <2>7. ASSUME hf = 1 PROVE Equal(x * g, y)
    <3>1. x * g = -eg
      BY <1>2, <1>4, <2>2, <2>7, SMT
    <3>2. Equal(-eg, -d)
      BY <2>2, <2>3, <2>5, PeriodIs, CongruentMinus DEF Equal
    <3> QED
      BY <2>4, <2>7, <3>1, <3>2
  <2> QED
    BY <2>6, <2>7 DEF g, y
<1> QED
  BY <1>5, <1>6, <1>7, <1>8, <1>9

\* A natural key, moved by its own rotation, switches to the rotated secret.
LEMMA NaturalKey ==
  ASSUME NEW s \in Poly, NEW m \in Poly, NEW g, Unit(g),
         NEW b, b = Minus(s, Times(m, Galois(GaloisInv(g), s)))
  PROVE  /\ b \in Poly /\ Galois(g, b) \in Poly /\ Galois(g, m) \in Poly
         /\ Plus(Times(Galois(g, m), s), Galois(g, b)) = Galois(g, s)
<1> DEFINE i == GaloisInv(g)
           is == Galois(i, s)
           mi == Times(m, is)
<1>2. g \in Int /\ Unit(i) /\ i \in Int
  BY UnitInverse DEF Unit
<1>5. is \in Poly /\ mi \in Poly /\ b \in Poly
  BY <1>2, GaloisUnrolled, TimesUnrolled, PlusIs
<1>7. Plus(b, mi) = s
  BY <1>5, PlusLaws
<1>8. Galois(g, s) = Plus(Galois(g, b), Galois(g, mi))
  BY <1>2, <1>5, <1>7, GaloisPlus, 0 \in Int
<1>9. Galois(g, mi) = Times(Galois(g, m), s)
  <2>1. Galois(g, mi) = Times(Galois(g, m), Galois(g, is))
    BY <1>2, <1>5, GaloisTimes
  <2>2. Galois(g, is) = Galois(g * i, s)
    BY <1>2, GaloisTwice
  <2>3. Equal(1, g * i) /\ g * i \in Int
    BY <1>2, GaloisInvIs, EqualLaws, IntProduct, 1 \in Int
  <2>4. Galois(1, s) = Galois(g * i, s)
    BY <2>3, UnitOne, GaloisEqual
  <2> QED
    BY <2>1, <2>2, <2>4, GaloisOne
<1>10. Galois(g, b) \in Poly /\ Galois(g, m) \in Poly /\ Galois(g, mi) \in Poly
  BY <1>2, <1>5, GaloisUnrolled
<1>11. Plus(Times(Galois(g, m), s), Galois(g, b)) = Galois(g, s)
  BY <1>8, <1>9, <1>10, PlusLaws
<1> QED
  BY <1>5, <1>10, <1>11

\* The body of the client's rotation key, and the mask and the body in the view
\* the server keeps them in: together they switch to the secret of the next column.
BodyG == SplitOutputKey(Keys.g.body, GaloisElement(Stride))

\* The client's rotation key: its mask and its body, prepared, take the secret of a
\* column to that of the next one.
LEMMA KeySwitches ==
  ASSUME call \in Cases
  PROVE  /\ BodyG \in Poly /\ MaskKeyG(Seed, Stride) \in Poly
         /\ Keys.g.body \in Poly
         /\ BodyG = Galois(GaloisElement(Stride), Keys.g.body)
         /\ Plus(Times(MaskKeyG(Seed, Stride), Secret), BodyG) = Galois(GaloisElement(Stride), Secret)
<1> DEFINE g == GaloisElement(Stride)
           s == Secret
           m == Seed
           i == GaloisInv(g)
           b == Keys.g.body
<1>1. s \in Poly /\ m \in Poly
  BY InputsAre
<1>2. Unit(g) /\ g \in Int /\ Unit(i) /\ i \in Int
  BY CallIs, ElementUnit, ElementNext, UnitInverse
<1>3. b = Minus(s, Times(m, Galois(i, s)))
  <2>1. CASE call.partial
    <3>1. Stride = (N \div 2) \div call.gamma
      BY <2>1 DEF Stride
    <3>2. b = EncryptKey(GaloisElement((N \div 2) \div call.gamma), s, m).body
      BY <2>1 DEF Keys, GeneratePartialKey
    <3> QED
      BY <3>1, <3>2 DEF EncryptKey
  <2>2. CASE ~call.partial
    <3>1. Stride = 1
      BY <2>2 DEF Stride
    <3>2. b = EncryptKey(GaloisElement(1), s, m).body
      BY <2>2 DEF Keys, GenerateKeys
    <3> QED
      BY <3>1, <3>2 DEF EncryptKey
  <2> QED
    BY <2>1, <2>2
<1>4. \A a \in Poly : SplitOutputKey(a, g) = Galois(g, a)
  BY GaloisOne DEF SplitOutputKey
<1> HIDE DEF g, s, m, b
<1>5. /\ b \in Poly /\ Galois(g, b) \in Poly /\ Galois(g, m) \in Poly
      /\ Plus(Times(Galois(g, m), s), Galois(g, b)) = Galois(g, s)
  BY <1>1, <1>2, <1>3, NaturalKey DEF i
<1>6. BodyG = Galois(g, b) /\ MaskKeyG(m, Stride) = Galois(g, m)
  BY <1>1, <1>4, <1>5 DEF BodyG, MaskKeyG, b, g
<1> QED
  BY <1>5, <1>6 DEF s, m, g, b

\* One key switch: what column t + 1 decrypts to is what it adds to column t and what
\* it adds to the bodies (precompute_collapse_half).
LEMMA SwitchKeepsPhase ==
  ASSUME call \in Cases, NEW t \in Nat, NEW hf, NEW w \in Poly
  PROVE  LET view == SecretView(t, hf)
             term == Galois(view, w)
             moved == Galois(GaloisInv(view), Times(term, MaskKeyG(Seed, Stride)))
             body == Galois(GaloisInv(view), Times(term, BodyG))
         IN  /\ term \in Poly /\ moved \in Poly /\ body \in Poly
             /\ ColumnSecret(t, hf) \in Poly /\ ColumnSecret(t + 1, hf) \in Poly
             /\ Plus(Times(moved, ColumnSecret(t, hf)), body) = Times(w, ColumnSecret(t + 1, hf))
<1> DEFINE view == SecretView(t, hf)
           vi == GaloisInv(view)
           term == Galois(view, w)
           m == MaskKeyG(Seed, Stride)
           b == BodyG
           g == GaloisElement(Stride)
           s == Secret
           moved == Galois(vi, Times(term, m))
           body == Galois(vi, Times(term, b))
           cs == ColumnSecret(t, hf)
           cn == ColumnSecret(t + 1, hf)
           x == Element(t, hf)
           y == Element(t + 1, hf)
<1>1. s \in Poly /\ m \in Poly /\ b \in Poly /\ Plus(Times(m, s), b) = Galois(g, s)
  BY InputsAre, KeySwitches
<1>2. Unit(view) /\ Unit(vi) /\ Unit(g) /\ Unit(x) /\ Equal(vi, x) /\ view \in Int /\ vi \in Int
      /\ Equal(x * g, y) /\ g \in Int /\ x \in Int
  BY ElementIs DEF Unit
<1>3. cs = Galois(vi, s) /\ cn = Galois(y, s) /\ Unit(y) /\ y \in Int
  <2>1. t + 1 \in Nat
    OBVIOUS
  <2> QED
    BY <2>1, ElementIs DEF ColumnSecret
<1> HIDE DEF view, vi, m, b, g, s, cs, cn, x, y
<1>4. term \in Poly /\ cs \in Poly /\ cn \in Poly
  BY <1>1, <1>2, <1>3, GaloisUnrolled
<1>5. Galois(vi, term) = w
  <2>1. Galois(vi, term) = Galois(vi * view, w)
    BY <1>2, GaloisTwice
  <2>2. vi * view \in Int /\ vi * view = view * vi
    BY <1>2, IntProduct
  <2>3. Equal(view * vi, 1)
    BY <1>2, GaloisInvIs DEF vi
  <2>4. Equal(1, vi * view)
    BY <2>2, <2>3, EqualLaws, 1 \in Int
  <2>5. Galois(1, w) = Galois(vi * view, w)
    BY <2>2, <2>4, UnitOne, GaloisEqual
  <2> QED
    BY <2>1, <2>5, GaloisOne
<1>6. Galois(vi, Galois(g, s)) = cn
  <2>1. Galois(vi, Galois(g, s)) = Galois(vi * g, s)
    BY <1>1, <1>2, GaloisTwice
  <2> DEFINE vg == vi * g
             xg == x * g
  <2>2. vg \in Int /\ xg \in Int
    BY <1>2, IntProduct
  <2>3. Equal(vg, xg)
    <3>1. Equal(g, g)
      BY <1>2, EqualLaws
    <3> QED
      BY <1>2, <3>1, EqualLaws
  <2>4. Unit(vg)
    BY <1>2, UnitProduct
  <2> HIDE DEF vg, xg
  <2>5. Equal(vg, y)
    BY <1>2, <1>3, <2>2, <2>3, EqualTrans DEF xg
  <2>6. Galois(vg, s) = Galois(y, s)
    BY <1>3, <2>4, <2>5, GaloisEqual
  <2> QED
    BY <1>3, <2>1, <2>6 DEF vg
<1> DEFINE tm == Times(term, m)
           tb == Times(term, b)
           ms == Times(m, s)
<1>7. tm \in Poly /\ tb \in Poly /\ ms \in Poly /\ Times(tm, s) \in Poly
  BY <1>1, <1>4, TimesUnrolled
<1>8. moved \in Poly /\ body \in Poly
  BY <1>2, <1>7, GaloisUnrolled
<1> HIDE DEF term
<1>9. Times(Galois(vi, tm), cs) = Galois(vi, Times(tm, s))
  BY <1>1, <1>2, <1>3, <1>7, GaloisTimes
<1>10. Times(tm, s) = Times(term, ms)
  BY <1>1, <1>4, TimesAssociates
<1>11. Plus(Times(term, ms), tb) = Times(term, Galois(g, s))
  BY <1>1, <1>4, <1>7, TimesPlus
<1>12. Plus(Galois(vi, Times(tm, s)), Galois(vi, tb)) = Galois(vi, Times(term, Galois(g, s)))
  <2> HIDE DEF tm, tb, ms
  <2>1. Galois(vi, Plus(Times(tm, s), tb)) = Plus(Galois(vi, Times(tm, s)), Galois(vi, tb))
    BY <1>2, <1>7, GaloisPlus, 0 \in Int
  <2> QED
    BY <1>10, <1>11, <2>1
<1>13. Galois(vi, Times(term, Galois(g, s))) = Times(w, cn)
  <2>1. Galois(g, s) \in Poly
    BY <1>1, <1>2, GaloisUnrolled
  <2>2. Galois(vi, Times(term, Galois(g, s))) = Times(Galois(vi, term), Galois(vi, Galois(g, s)))
    BY <1>2, <1>4, <2>1, GaloisTimes
  <2> QED
    BY <1>5, <1>6, <2>2
<1> QED
  BY <1>4, <1>8, <1>9, <1>12, <1>13 DEF term, view, vi, m, b, cs, cn


\* What half hf of the aggregate decrypts to.
HalfPhase(hf) ==
  PlusUpTo([c \in 0 .. HalfSteps |-> Times(Reference(c, hf), ColumnSecret(c, hf))], HalfSteps + 1)

\* What step i of half hf records, and what all steps of the half do.
RecordedStep(hf, masks, i) ==
  Galois(GaloisInv(SecretView(HalfSteps - 1 - i, hf)), Times(masks[hf * HalfSteps + i], BodyG))

Recorded(hf, masks, n) == PlusUpTo([i \in 0 .. n - 1 |-> RecordedStep(hf, masks, i)], n)

\* The end of a half: what is left of its columns, and what was recorded.
HalfHolds(hf, rest, masks) ==
  Plus(Times(rest, ColumnSecret(0, hf)), Recorded(hf, masks, HalfSteps)) = HalfPhase(hf)

\* The columns of a half, while they are collapsed.
PhaseOf(columns, hf, n) ==
  PlusUpTo([c \in 0 .. n - 1 |-> Times(columns[c], ColumnSecret(c, hf))], n)

CollapseInv ==
  /\ AggregateInv
  /\ half \in 0 .. Halves - 1 /\ step \in Nat
  /\ bodyVmpMasks \in [0 .. Steps - 1 -> Poly]
  /\ first \in Poly
  /\ stage = "aggregate" => step = 0
  /\ stage = "copyHalf" => step = half * HalfSteps
  /\ stage = "collapse" =>
       /\ work \in [0 .. HalfSteps -> Poly]
       /\ step - half * HalfSteps \in 0 .. HalfSteps
       /\ Plus(PhaseOf(work, half, HalfSteps - (step - half * HalfSteps) + 1),
               Recorded(half, bodyVmpMasks, step - half * HalfSteps)) = HalfPhase(half)
  /\ stage \in {"copyHalf", "collapse"} /\ half = 1 => HalfHolds(0, first, bodyVmpMasks)

\* Where the columns and the steps of a half are, and what they are under.
LEMMA HalfIs ==
  ASSUME call \in Cases, NEW hf \in 0 .. Halves - 1
  PROVE  /\ HalfSteps \in Nat /\ hf \in {0, 1} /\ hf * HalfSteps \in Nat
         /\ \A c \in 0 .. HalfSteps :
              /\ hf * (HalfSteps + 1) + c \in 0 .. Halves * Columns - 1
              /\ (hf * (HalfSteps + 1) + c) % Columns = c
              /\ (hf * (HalfSteps + 1) + c) \div Columns = hf
              /\ Reference(c, hf) \in Poly /\ ColumnSecret(c, hf) \in Poly
              /\ SecretView(c, hf) \in Int /\ Unit(GaloisInv(SecretView(c, hf)))
         /\ \A i \in 0 .. HalfSteps - 1 : hf * HalfSteps + i \in 0 .. Steps - 1
<1>1. /\ Columns \in Nat \ {0} /\ HalfSteps = Columns - 1 /\ HalfSteps \in Nat
      /\ Halves \in {1, 2} /\ KgSteps = Halves * HalfSteps
      /\ Steps = IF call.partial THEN KgSteps ELSE KgSteps + 1
  BY CallIs
<1>2. hf \in {0, 1} /\ hf < Halves
  BY <1>1
<1>3. hf * HalfSteps \in Nat
  BY <1>1, <1>2
<1>4. ASSUME NEW c \in 0 .. HalfSteps
      PROVE  /\ hf * (HalfSteps + 1) + c \in 0 .. Halves * Columns - 1
             /\ (hf * (HalfSteps + 1) + c) % Columns = c
             /\ (hf * (HalfSteps + 1) + c) \div Columns = hf
             /\ Reference(c, hf) \in Poly /\ ColumnSecret(c, hf) \in Poly
             /\ SecretView(c, hf) \in Int /\ Unit(GaloisInv(SecretView(c, hf)))
  <2> DEFINE x == hf * (HalfSteps + 1) + c
  <2>1. x = Columns * hf + c /\ x \in Int /\ c \in 0 .. Columns - 1 /\ c \in Nat /\ hf \in Int
    BY <1>1, <1>2
  <2>2. x \in 0 .. Halves * Columns - 1
    BY <1>1, <1>2
  <2> HIDE DEF x
  <2>3. x % Columns = c /\ x \div Columns = hf
    BY <1>1, <2>1, QuotientIs
  <2>4. Reference(c, hf) \in Poly
    BY <2>1, ReferenceIs
  <2>5. SecretView(c, hf) \in Int /\ Unit(GaloisInv(SecretView(c, hf)))
    BY <2>1, ElementIs DEF Unit
  <2>6. ColumnSecret(c, hf) \in Poly
    BY <2>5, InputsAre, GaloisUnrolled DEF ColumnSecret
  <2> QED
    BY <2>2, <2>3, <2>4, <2>5, <2>6 DEF x
<1>5. \A i \in 0 .. HalfSteps - 1 : hf * HalfSteps + i \in 0 .. Steps - 1
  BY <1>1, <1>2
<1> QED
  BY <1>1, <1>2, <1>3, <1>4, <1>5

\* What is recorded is in the ring, and one step more adds its product.
LEMMA RecordedNext ==
  ASSUME call \in Cases, NEW hf \in 0 .. Halves - 1, NEW masks \in [0 .. Steps - 1 -> Poly],
         NEW n \in 0 .. HalfSteps - 1
  PROVE  /\ Recorded(hf, masks, n) \in Poly /\ RecordedStep(hf, masks, n) \in Poly
         /\ Recorded(hf, masks, n + 1) = Plus(Recorded(hf, masks, n), RecordedStep(hf, masks, n))
<1> DEFINE f == [i \in 0 .. (n + 1) - 1 |-> RecordedStep(hf, masks, i)]
           g == [i \in 0 .. n - 1 |-> RecordedStep(hf, masks, i)]
<1>1. HalfSteps \in Nat /\ n \in Nat /\ n + 1 \in Nat
  BY HalfIs
<1>2. ASSUME NEW i \in 0 .. HalfSteps - 1
      PROVE  RecordedStep(hf, masks, i) \in Poly
  <2>1. hf * HalfSteps + i \in 0 .. Steps - 1 /\ HalfSteps - 1 - i \in 0 .. HalfSteps
    BY <1>1, HalfIs
  <2>2. masks[hf * HalfSteps + i] \in Poly /\ BodyG \in Poly
    BY <2>1, KeySwitches
  <2>3. Times(masks[hf * HalfSteps + i], BodyG) \in Poly
    BY <2>2, TimesUnrolled
  <2>4. Unit(GaloisInv(SecretView(HalfSteps - 1 - i, hf)))
    BY <2>1, HalfIs
  <2> QED
    BY <2>3, <2>4, GaloisUnrolled DEF RecordedStep
<1>3. Polys(f, n + 1)
  BY <1>1, <1>2 DEF Polys
<1>4. \A i \in 0 .. n - 1 : g[i] = f[i]
  BY <1>1
<1>5. f[n] = RecordedStep(hf, masks, n)
  BY <1>1
<1>6. Recorded(hf, masks, n) = PlusUpTo(g, n) /\ Recorded(hf, masks, n + 1) = PlusUpTo(f, n + 1)
  BY DEF Recorded
<1> HIDE DEF f, g
<1>7. Polys(f, n) /\ PlusUpTo(f, n) \in Poly /\ PlusUpTo(f, n + 1) = Plus(PlusUpTo(f, n), f[n])
  BY <1>1, <1>3, PlusUpToNext
<1>8. PlusUpTo(g, n) = PlusUpTo(f, n)
  BY <1>1, <1>4, <1>7, PlusUpToSame
<1> QED
  BY <1>2, <1>5, <1>6, <1>7, <1>8

\* It depends on the masks of its own steps alone.
LEMMA RecordedSame ==
  ASSUME call \in Cases, NEW hf \in 0 .. Halves - 1, NEW masks \in [0 .. Steps - 1 -> Poly],
         NEW n \in 0 .. HalfSteps, NEW other \in [0 .. Steps - 1 -> Poly],
         \A i \in 0 .. n - 1 : other[hf * HalfSteps + i] = masks[hf * HalfSteps + i]
  PROVE  Recorded(hf, other, n) = Recorded(hf, masks, n) /\ Recorded(hf, masks, n) \in Poly
<1>1. HalfSteps \in Nat /\ n \in Nat
  BY HalfIs
<1>2. Recorded(hf, masks, n) \in Poly
  <2>1. CASE n = 0
    BY <2>1, EmptySum, ZeroIs DEF Recorded
  <2>2. CASE n # 0
    <3>1. n - 1 \in 0 .. HalfSteps - 1 /\ (n - 1) + 1 = n
      BY <1>1, <2>2
    <3>2. /\ Recorded(hf, masks, n - 1) \in Poly /\ RecordedStep(hf, masks, n - 1) \in Poly
          /\ Recorded(hf, masks, n) = Plus(Recorded(hf, masks, n - 1), RecordedStep(hf, masks, n - 1))
      BY <3>1, RecordedNext
    <3> QED
      BY <3>2, PlusIs
  <2> QED
    BY <2>1, <2>2
<1>3. \A i \in 0 .. n - 1 : RecordedStep(hf, other, i) = RecordedStep(hf, masks, i)
  BY DEF RecordedStep
<1>4. [i \in 0 .. n - 1 |-> RecordedStep(hf, other, i)] = [i \in 0 .. n - 1 |-> RecordedStep(hf, masks, i)]
  BY <1>3
<1> QED
  BY <1>2, <1>4 DEF Recorded

\* One column more.
LEMMA PhaseNext ==
  ASSUME call \in Cases, NEW hf \in 0 .. Halves - 1, NEW columns \in [0 .. HalfSteps -> Poly],
         NEW n \in 0 .. HalfSteps
  PROVE  /\ PhaseOf(columns, hf, n) \in Poly /\ Times(columns[n], ColumnSecret(n, hf)) \in Poly
         /\ PhaseOf(columns, hf, n + 1)
              = Plus(PhaseOf(columns, hf, n), Times(columns[n], ColumnSecret(n, hf)))
         /\ \A other : (\A c \in 0 .. n - 1 : other[c] = columns[c])
                          => PhaseOf(other, hf, n) = PhaseOf(columns, hf, n)
<1> DEFINE f == [c \in 0 .. (n + 1) - 1 |-> Times(columns[c], ColumnSecret(c, hf))]
           g == [c \in 0 .. n - 1 |-> Times(columns[c], ColumnSecret(c, hf))]
<1>1. HalfSteps \in Nat /\ n \in Nat /\ n + 1 \in Nat
  BY HalfIs
<1>2. \A c \in 0 .. HalfSteps : Times(columns[c], ColumnSecret(c, hf)) \in Poly
  BY HalfIs, TimesUnrolled
<1>3. Polys(f, n + 1)
  BY <1>1, <1>2 DEF Polys
<1>4. \A c \in 0 .. n - 1 : g[c] = f[c]
  BY <1>1
<1>5. f[n] = Times(columns[n], ColumnSecret(n, hf))
  BY <1>1
<1>6. PhaseOf(columns, hf, n) = PlusUpTo(g, n) /\ PhaseOf(columns, hf, n + 1) = PlusUpTo(f, n + 1)
  BY DEF PhaseOf
<1> HIDE DEF f, g
<1>7. Polys(f, n) /\ PlusUpTo(f, n) \in Poly /\ PlusUpTo(f, n + 1) = Plus(PlusUpTo(f, n), f[n])
  BY <1>1, <1>3, PlusUpToNext
<1>8. PlusUpTo(g, n) = PlusUpTo(f, n)
  BY <1>1, <1>4, <1>7, PlusUpToSame
<1>9. ASSUME NEW other, \A c \in 0 .. n - 1 : other[c] = columns[c]
      PROVE  PhaseOf(other, hf, n) = PhaseOf(columns, hf, n)
  <2>1. [c \in 0 .. n - 1 |-> Times(other[c], ColumnSecret(c, hf))]
          = [c \in 0 .. n - 1 |-> Times(columns[c], ColumnSecret(c, hf))]
    BY <1>9
  <2> QED
    BY <2>1 DEF PhaseOf
<1> QED
  BY <1>2, <1>5, <1>6, <1>7, <1>8, <1>9

\* A collapse begins with all of its half.
LEMMA CopyHoldsPhase ==
  ASSUME CollapseInv, CopyAggregateHalf
  PROVE  /\ work' \in [0 .. HalfSteps -> Poly]
         /\ PhaseOf(work', half, HalfSteps + 1) = HalfPhase(half)
         /\ HalfPhase(half) \in Poly
<1>1. call \in Cases /\ half \in 0 .. Halves - 1 /\ stage = "copyHalf" /\ aggregate = References
  BY DEF CollapseInv, AggregateInv, CopyAggregateHalf
<1>2. work' = [c \in 0 .. HalfSteps |-> aggregate[half * (HalfSteps + 1) + c]]
  BY DEF CopyAggregateHalf
<1>3. ASSUME NEW c \in 0 .. HalfSteps
      PROVE  work'[c] = Reference(c, half) /\ Reference(c, half) \in Poly
  <2>1. /\ half * (HalfSteps + 1) + c \in 0 .. Halves * Columns - 1
        /\ (half * (HalfSteps + 1) + c) % Columns = c
        /\ (half * (HalfSteps + 1) + c) \div Columns = half
        /\ Reference(c, half) \in Poly
    BY <1>1, HalfIs
  <2> DEFINE x == half * (HalfSteps + 1) + c
  <2> HIDE DEF x
  <2>2. References[x] = Reference(x % Columns, x \div Columns)
    BY <2>1 DEF References, x
  <2> QED
    BY <1>1, <1>2, <2>1, <2>2 DEF x
<1>4. work' \in [0 .. HalfSteps -> Poly]
  BY <1>2, <1>3
<1>5. HalfSteps \in Nat /\ HalfSteps \in 0 .. HalfSteps
  BY <1>1, HalfIs
<1>6. [c \in 0 .. (HalfSteps + 1) - 1 |-> Times(work'[c], ColumnSecret(c, half))]
        = [c \in 0 .. HalfSteps |-> Times(Reference(c, half), ColumnSecret(c, half))]
  BY <1>3, <1>5
<1>7. PhaseOf(work', half, HalfSteps + 1) = HalfPhase(half)
  BY <1>6 DEF PhaseOf, HalfPhase
<1> DEFINE w == work'
           hf == half
<1> HIDE DEF w, hf
<1>8. PhaseOf(w, hf, HalfSteps + 1) \in Poly
  <2>1. w \in [0 .. HalfSteps -> Poly] /\ hf \in 0 .. Halves - 1
    BY <1>1, <1>4 DEF w, hf
  <2>2. /\ PhaseOf(w, hf, HalfSteps) \in Poly /\ Times(w[HalfSteps], ColumnSecret(HalfSteps, hf)) \in Poly
        /\ PhaseOf(w, hf, HalfSteps + 1)
              = Plus(PhaseOf(w, hf, HalfSteps), Times(w[HalfSteps], ColumnSecret(HalfSteps, hf)))
    BY <1>1, <1>5, <2>1, PhaseNext
  <2> QED
    BY <2>2, PlusIs
<1> QED
  BY <1>4, <1>7, <1>8 DEF w, hf


\* The same while the call is.
LEMMA SamePhases ==
  ASSUME call' = call
  PROVE  /\ \A columns, hf, n : PhaseOf(columns, hf, n)' = PhaseOf(columns, hf, n)
         /\ \A hf, masks, i : RecordedStep(hf, masks, i)' = RecordedStep(hf, masks, i)
         /\ \A hf, masks, n : Recorded(hf, masks, n)' = Recorded(hf, masks, n)
         /\ \A hf : HalfPhase(hf)' = HalfPhase(hf)
         /\ \A hf, rest, masks : HalfHolds(hf, rest, masks)' = HalfHolds(hf, rest, masks)
<1>1. /\ HalfSteps' = HalfSteps /\ Keys' = Keys /\ Stride' = Stride
      /\ \A c, h : ColumnSecret(c, h)' = ColumnSecret(c, h) /\ SecretView(c, h)' = SecretView(c, h)
      /\ \A j, h : Reference(j, h)' = Reference(j, h)
  BY SameShapes
<1>2. \A columns, hf, n : PhaseOf(columns, hf, n)' = PhaseOf(columns, hf, n)
  BY <1>1 DEF PhaseOf
<1>3. BodyG' = BodyG
  BY <1>1 DEF BodyG
<1>4. \A hf, masks, i : RecordedStep(hf, masks, i)' = RecordedStep(hf, masks, i)
  BY <1>1, <1>3 DEF RecordedStep
<1>5. \A hf, masks, n : Recorded(hf, masks, n)' = Recorded(hf, masks, n)
  BY <1>4 DEF Recorded
<1>6. \A hf : HalfPhase(hf)' = HalfPhase(hf)
  BY <1>1 DEF HalfPhase
<1>7. \A hf, rest, masks : HalfHolds(hf, rest, masks)' = HalfHolds(hf, rest, masks)
  BY <1>1, <1>5, <1>6 DEF HalfHolds
<1> QED
  BY <1>2, <1>4, <1>5, <1>6, <1>7

\* A step of the collapse moves a part from the columns to what is recorded.
LEMMA StepKeepsPhase ==
  ASSUME CollapseInv, CollapseStep
  PROVE  CollapseInv'
<1> DEFINE hf == half
           d == step - half * HalfSteps
           t == HalfSteps - 1 - d
           n == HalfSteps
           w == work
           u == work'
           m == bodyVmpMasks
           mn == bodyVmpMasks'
           view == SecretView(t, hf)
           term == Galois(view, w[t + 1])
           moved == Galois(GaloisInv(view), Times(term, MaskKeyG(Seed, Stride)))
           body == Galois(GaloisInv(view), Times(term, BodyG))
<1>1. /\ call \in Cases /\ hf \in 0 .. Halves - 1 /\ stage = "collapse"
      /\ m \in [0 .. Steps - 1 -> Poly] /\ w \in [0 .. n -> Poly] /\ d \in 0 .. n
      /\ Plus(PhaseOf(w, hf, n - d + 1), Recorded(hf, m, d)) = HalfPhase(hf)
      /\ AggregateInv
  BY DEF CollapseInv, AggregateInv, CollapseStep
<1>2. n \in Nat /\ hf \in {0, 1} /\ hf * n \in Nat /\ TargetCol = t
  BY <1>1, HalfIs DEF TargetCol
<1>3. /\ t >= 0 /\ mn = [m EXCEPT ![step] = term]
      /\ u = [w EXCEPT ![t] = Plus(w[t], moved)]
      /\ step' = step + 1
      /\ call' = call /\ stage' = stage /\ half' = half /\ first' = first /\ aggregate' = aggregate
  BY <1>2 DEF CollapseStep
<1>4. /\ Halves' = Halves /\ Steps' = Steps /\ HalfSteps' = HalfSteps
      /\ \A c, h : ColumnSecret(c, h)' = ColumnSecret(c, h) /\ SecretView(c, h)' = SecretView(c, h)
      /\ \A j, h : Reference(j, h)' = Reference(j, h)
      /\ Keys' = Keys /\ Stride' = Stride
  BY <1>3, SameShapes
<1>5. AggregateInv'
  BY <1>1, <1>3, SameShapes DEF AggregateInv
<1> HIDE DEF d, n
<1>6. d \in 0 .. n - 1 /\ t \in 0 .. n - 1 /\ t \in Nat /\ t + 1 \in 0 .. n /\ t \in 0 .. n /\ n - d + 1 = (t + 1) + 1
      /\ n - (d + 1) + 1 = t + 1 /\ d + 1 \in 0 .. n
  BY <1>1, <1>2, <1>3 DEF n
<1>7. step = hf * n + d /\ step \in 0 .. Steps - 1 /\ step' - hf * n = d + 1 /\ step' \in Nat
  <2>1. hf * n + d \in 0 .. Steps - 1
    BY <1>1, <1>6, HalfIs DEF n
  <2>2. step \in Nat
    BY DEF CollapseInv
  <2> QED
    BY <1>2, <1>3, <2>1, <2>2 DEF d, n
<1> HIDE DEF t, hf, w, u, m, mn
<1>8. /\ w[t + 1] \in Poly /\ w[t] \in Poly
      /\ term \in Poly /\ moved \in Poly /\ body \in Poly
      /\ ColumnSecret(t, hf) \in Poly /\ ColumnSecret(t + 1, hf) \in Poly
      /\ Plus(Times(moved, ColumnSecret(t, hf)), body) = Times(w[t + 1], ColumnSecret(t + 1, hf))
  <2>1. w[t + 1] \in Poly /\ w[t] \in Poly
    BY <1>1, <1>6
  <2> QED
    BY <1>1, <1>6, <2>1, SwitchKeepsPhase
<1> HIDE DEF term, moved, view
<1>9. u \in [0 .. n -> Poly] /\ mn \in [0 .. Steps - 1 -> Poly]
  <2>1. Plus(w[t], moved) \in Poly
    BY <1>8, PlusIs
  <2> QED
    BY <1>1, <1>3, <1>7, <1>8, <2>1
<1>10. /\ \A c \in 0 .. t - 1 : u[c] = w[c]
       /\ u[t] = Plus(w[t], moved)
  BY <1>1, <1>3, <1>6
<1>11. /\ \A i \in 0 .. d - 1 : mn[hf * n + i] = m[hf * n + i]
       /\ mn[hf * n + d] = term
  <2>1. ASSUME NEW i \in 0 .. d - 1
        PROVE  mn[hf * n + i] = m[hf * n + i]
    <3> DEFINE x == hf * n + i
    <3>1. i \in 0 .. n - 1
      BY <1>2, <1>6
    <3>2. x \in 0 .. Steps - 1
      BY <1>1, <3>1, HalfIs DEF n
    <3>3. x # step
      BY <1>2, <1>6, <1>7
    <3> HIDE DEF x
    <3>4. mn[x] = m[x]
      BY <1>1, <1>3, <3>2, <3>3
    <3> QED
      BY <3>4 DEF x
  <2>2. mn[step] = term
    BY <1>1, <1>3, <1>7
  <2> QED
    BY <1>7, <2>1, <2>2
<1>12. body = RecordedStep(hf, mn, d)
  <2>1. HalfSteps - 1 - d = t
    BY DEF t, n
  <2> QED
    BY <1>11, <2>1 DEF RecordedStep, body, view, n
<1> HIDE DEF body
<1> DEFINE p == PhaseOf(w, hf, t)
           x == Times(w[t], ColumnSecret(t, hf))
           y == Times(w[t + 1], ColumnSecret(t + 1, hf))
           z == Times(moved, ColumnSecret(t, hf))
           r == Recorded(hf, m, d)
<1>13. p \in Poly /\ x \in Poly /\ y \in Poly /\ z \in Poly /\ Plus(z, body) = y
  <2>1. p \in Poly
    BY <1>1, <1>6, PhaseNext DEF n
  <2> QED
    BY <1>8, <2>1, TimesUnrolled
<1>14. PhaseOf(w, hf, (t + 1) + 1) = Plus(Plus(p, x), y)
  <2>1. PhaseOf(w, hf, t + 1) = Plus(p, x)
    BY <1>1, <1>6, PhaseNext DEF n
  <2>2. PhaseOf(w, hf, (t + 1) + 1) = Plus(PhaseOf(w, hf, t + 1), y)
    BY <1>1, <1>6, PhaseNext DEF n
  <2> QED
    BY <2>1, <2>2
<1>15. PhaseOf(u, hf, t + 1) = Plus(p, Plus(x, z))
  <2>1. PhaseOf(u, hf, t) = p
    BY <1>1, <1>6, <1>10, PhaseNext DEF n
  <2>2. PhaseOf(u, hf, t + 1) = Plus(PhaseOf(u, hf, t), Times(u[t], ColumnSecret(t, hf)))
    BY <1>1, <1>6, <1>9, PhaseNext DEF n
  <2>3. Times(u[t], ColumnSecret(t, hf)) = Plus(x, z)
    BY <1>8, <1>10, TimesPlus
  <2> QED
    BY <2>1, <2>2, <2>3
<1>16. r \in Poly /\ Recorded(hf, mn, d + 1) = Plus(r, body)
  <2>1. Recorded(hf, mn, d + 1) = Plus(Recorded(hf, mn, d), body)
    BY <1>1, <1>6, <1>9, <1>12, RecordedNext DEF n
  <2>2. Recorded(hf, mn, d) = r /\ r \in Poly
    <3>1. d \in 0 .. HalfSteps
      BY <1>1 DEF n
    <3>2. \A i \in 0 .. d - 1 : mn[hf * HalfSteps + i] = m[hf * HalfSteps + i]
      BY <1>11 DEF n
    <3> QED
      BY <1>1, <1>9, <3>1, <3>2, RecordedSame
  <2> QED
    BY <2>1, <2>2
<1> HIDE DEF p, x, y, z, r
<1>17. Plus(PhaseOf(u, hf, t + 1), Recorded(hf, mn, d + 1)) = HalfPhase(hf)
  <2> DEFINE px == Plus(p, x)
             rb == Plus(r, body)
             xz == Plus(x, z)
  <2>1. px \in Poly /\ rb \in Poly /\ xz \in Poly /\ body \in Poly
    BY <1>8, <1>13, <1>16, PlusIs
  <2>2. Plus(p, xz) = Plus(px, z)
    BY <1>13, PlusAssociates
  <2>3. Plus(body, r) = rb
    BY <1>8, <1>16, PlusLaws
  <2> HIDE DEF px, rb
  <2>4. Plus(Plus(px, z), rb) = Plus(px, Plus(z, rb))
    BY <1>13, <2>1, PlusAssociates
  <2>5. Plus(z, rb) = Plus(y, r)
    BY <1>8, <1>13, <1>16, <2>3, PlusAssociates
  <2>6. Plus(px, Plus(y, r)) = Plus(Plus(px, y), r)
    BY <1>13, <1>16, <2>1, PlusAssociates
  <2>7. Plus(Plus(px, y), r) = HalfPhase(hf)
    BY <1>1, <1>6, <1>14 DEF px, r
  <2> QED
    BY <1>15, <1>16, <2>2, <2>4, <2>5, <2>6, <2>7 DEF rb
<1>18. ASSUME hf = 1
       PROVE  HalfHolds(0, first, mn)
  <2>1. HalfHolds(0, first, m)
    BY <1>1, <1>18 DEF CollapseInv, hf, m
  <2>2. 0 \in 0 .. Halves - 1
    BY <1>1, CallIs
  <2>3. \A i \in 0 .. HalfSteps - 1 : mn[0 * HalfSteps + i] = m[0 * HalfSteps + i]
    <3>1. ASSUME NEW i \in 0 .. HalfSteps - 1 PROVE mn[i] = m[i]
      <4>1. 0 * HalfSteps + i \in 0 .. Steps - 1 /\ 0 * HalfSteps + i = i
        <5>1. HalfSteps \in Nat /\ 0 * HalfSteps = 0 /\ 0 * HalfSteps + i = i
          BY <1>2 DEF n
        <5>2. 0 * HalfSteps + i \in 0 .. Steps - 1
          BY <1>1, <2>2, HalfIs
        <5> QED
          BY <5>1, <5>2
      <4>2. i # step
        BY <1>2, <1>6, <1>7, <1>18 DEF n
      <4> QED
        BY <1>1, <1>3, <4>1, <4>2
    <3> QED
      BY <1>2, <3>1 DEF n
  <2>4. HalfSteps \in 0 .. HalfSteps
    BY <1>2 DEF n
  <2>5. Recorded(0, mn, HalfSteps) = Recorded(0, m, HalfSteps)
    BY <1>1, <1>9, <2>2, <2>3, <2>4, RecordedSame
  <2> QED
    BY <2>1, <2>5 DEF HalfHolds
<1>19. half' = hf /\ work' = u /\ bodyVmpMasks' = mn
  BY <1>3 DEF hf, u, mn
<1>20. first' \in Poly
  BY <1>3 DEF CollapseInv
<1>21. Plus(PhaseOf(work, half, HalfSteps - (step - half * HalfSteps) + 1)',
            Recorded(half, bodyVmpMasks, step - half * HalfSteps)') = HalfPhase(half)'
  <2>1. n - (step' - hf * n) + 1 = t + 1
    BY <1>6, <1>7
  <2> DEFINE a == step' - hf * n
             b == n - a + 1
  <2>2. a = d + 1 /\ b = t + 1 /\ HalfSteps' = n
    BY <1>4, <1>7, <2>1 DEF n
  <2> HIDE DEF a, b
  <2>3. Plus(PhaseOf(u, hf, b), Recorded(hf, mn, a)) = HalfPhase(hf)
    BY <1>17, <2>2
  <2>4. step' - half' * HalfSteps' = a /\ HalfSteps' - (step' - half' * HalfSteps') + 1 = b
    BY <1>19, <2>2 DEF a, b
  <2> QED
    BY <1>3, <1>19, <2>3, <2>4, SamePhases
<1>22. HalfSteps' = n /\ Steps' = Steps /\ Halves' = Halves /\ step' - half' * HalfSteps' \in 0 .. HalfSteps'
  BY <1>4, <1>6, <1>7, <1>19 DEF n
<1>23. half' = 1 => HalfHolds(0, first, bodyVmpMasks)'
  BY <1>3, <1>18, <1>19, SamePhases
<1> QED
  BY <1>1, <1>3, <1>5, <1>7, <1>9, <1>19, <1>20, <1>21, <1>22, <1>23 DEF CollapseInv

\* A half ends with one column left.
LEMMA HalfEnds ==
  ASSUME CollapseInv, stage = "collapse", TargetCol < 0
  PROVE  /\ work[0] \in Poly /\ step = (half + 1) * HalfSteps
         /\ HalfHolds(half, work[0], bodyVmpMasks)
<1> DEFINE d == step - half * HalfSteps
           b == HalfSteps - d + 1
<1>1. /\ call \in Cases /\ half \in 0 .. Halves - 1 /\ step \in Nat /\ d \in 0 .. HalfSteps
      /\ work \in [0 .. HalfSteps -> Poly] /\ bodyVmpMasks \in [0 .. Steps - 1 -> Poly]
      /\ Plus(PhaseOf(work, half, b), Recorded(half, bodyVmpMasks, d)) = HalfPhase(half)
  BY DEF CollapseInv, AggregateInv
<1>2. HalfSteps \in Nat /\ half \in {0, 1} /\ half * HalfSteps \in Nat
  BY <1>1, HalfIs
<1>3. d = HalfSteps /\ step = (half + 1) * HalfSteps
  BY <1>1, <1>2 DEF TargetCol
<1>4. b = 0 + 1 /\ 0 \in 0 .. HalfSteps
  BY <1>2, <1>3
<1> HIDE DEF d, b
<1>5. work[0] \in Poly
  BY <1>1, <1>4
<1>6. PhaseOf(work, half, b) = Times(work[0], ColumnSecret(0, half))
  <2>1. /\ PhaseOf(work, half, 0 + 1) = Plus(PhaseOf(work, half, 0), Times(work[0], ColumnSecret(0, half)))
        /\ Times(work[0], ColumnSecret(0, half)) \in Poly
    BY <1>1, <1>4, PhaseNext
  <2>2. PhaseOf(work, half, 0) = Zero
    BY EmptySum DEF PhaseOf
  <2> QED
    BY <1>4, <2>1, <2>2, PlusLaws, ZeroIs
<1> QED
  BY <1>1, <1>3, <1>5, <1>6 DEF HalfHolds

\* A call starts with nothing collapsed.
LEMMA CollapseStarts ==
  ASSUME Init
  PROVE  CollapseInv
<1>1. AggregateInv
  BY AggregateStarts
<1>2. /\ call \in Cases /\ stage = "aggregate" /\ half = 0 /\ first = Zero /\ step = 0
      /\ bodyVmpMasks = [s \in 0 .. Steps - 1 |-> Zero]
  BY DEF Init
<1> QED
  BY <1>1, <1>2, CallIs, ZeroIs DEF CollapseInv

\* Every collapse step keeps the phase of what is left, whatever was recorded.
LEMMA CollapseInvariance == Spec => []CollapseInv
<1>1. Init => CollapseInv
  BY CollapseStarts
<1>2. CollapseInv /\ AggregateInv' /\ [Next]_vars => CollapseInv'
  <2> SUFFICES ASSUME CollapseInv, AggregateInv', [Next]_vars PROVE CollapseInv'
    OBVIOUS
  <2>1. call \in Cases /\ half \in 0 .. Halves - 1 /\ first \in Poly /\ step \in Nat
        /\ bodyVmpMasks \in [0 .. Steps - 1 -> Poly]
    BY DEF CollapseInv, AggregateInv
  <2>2. ASSUME call' = call, half' = half, first' = first, step' = step,
               bodyVmpMasks' = bodyVmpMasks, stage' = "aggregate" => stage = "aggregate",
               stage' \notin {"copyHalf", "collapse"}
        PROVE  CollapseInv'
    BY <2>1, <2>2, SameShapes DEF CollapseInv
  <2>3. ASSUME NEW w \in Workers, Aggregate(w) PROVE CollapseInv'
    BY <2>2, <2>3 DEF Aggregate
  <2>4. CASE MergePanels
    <3>1. /\ stage = "aggregate" /\ stage' = "copyHalf" /\ call' = call /\ half' = half
          /\ first' = first /\ step' = step /\ bodyVmpMasks' = bodyVmpMasks
      BY <2>4 DEF MergePanels
    <3>2. half = 0 /\ step = 0
      BY <3>1 DEF CollapseInv, AggregateInv
    <3>3. HalfSteps \in Nat /\ 0 * HalfSteps = 0
      BY <2>1, CallIs
    <3> QED
      BY <2>1, <3>1, <3>2, <3>3, SameShapes DEF CollapseInv
  <2>5. CASE CopyAggregateHalf
    <3>1. /\ stage = "copyHalf" /\ stage' = "collapse" /\ call' = call /\ half' = half
          /\ first' = first /\ step' = step /\ bodyVmpMasks' = bodyVmpMasks
      BY <2>5 DEF CopyAggregateHalf
    <3>2. /\ work' \in [0 .. HalfSteps -> Poly]
          /\ PhaseOf(work', half, HalfSteps + 1) = HalfPhase(half)
          /\ HalfPhase(half) \in Poly
      BY <2>5, CopyHoldsPhase
    <3>3. step = half * HalfSteps /\ (half = 1 => HalfHolds(0, first, bodyVmpMasks))
      BY <3>1 DEF CollapseInv
    <3>4. HalfSteps \in Nat /\ half * HalfSteps \in Nat
      BY <2>1, HalfIs
    <3> DEFINE a == step - half * HalfSteps
               b == HalfSteps - a + 1
               x == work'
    <3>5. a = 0 /\ b = HalfSteps + 1
      BY <3>3, <3>4
    <3> HIDE DEF a, b, x
    <3>6. Recorded(half, bodyVmpMasks, a) = Zero
      BY <3>5, EmptySum DEF Recorded
    <3>7. Plus(PhaseOf(x, half, b), Recorded(half, bodyVmpMasks, a)) = HalfPhase(half)
      BY <3>2, <3>5, <3>6, PlusLaws, ZeroIs DEF x
    <3>8. HalfSteps' = HalfSteps /\ Steps' = Steps /\ Halves' = Halves
      BY <3>1, SameShapes
    <3>9. step' - half' * HalfSteps' = a /\ HalfSteps' - (step' - half' * HalfSteps') + 1 = b
      BY <3>1, <3>8 DEF a, b
    <3>10. Plus(PhaseOf(work, half, HalfSteps - (step - half * HalfSteps) + 1)',
                Recorded(half, bodyVmpMasks, step - half * HalfSteps)') = HalfPhase(half)'
      BY <3>1, <3>7, <3>9, SamePhases DEF x
    <3>11. step' - half' * HalfSteps' \in 0 .. HalfSteps'
      BY <3>4, <3>5, <3>8, <3>9
    <3>12. half' = 1 => HalfHolds(0, first, bodyVmpMasks)'
      BY <3>1, <3>3, SamePhases
    <3> QED
      BY <2>1, <3>1, <3>2, <3>8, <3>10, <3>11, <3>12 DEF CollapseInv
  <2>6. CASE CollapseStep
    BY <2>6, StepKeepsPhase
  <2>7. CASE NextHalf
    <3>1. /\ stage = "collapse" /\ stage' = "copyHalf" /\ call' = call /\ half' = 1 /\ half = 0
          /\ first' = work[0] /\ step' = step /\ bodyVmpMasks' = bodyVmpMasks /\ Halves = 2
          /\ TargetCol < 0
      BY <2>7 DEF NextHalf
    <3>2. work[0] \in Poly /\ step = (half + 1) * HalfSteps /\ HalfHolds(half, work[0], bodyVmpMasks)
      BY <2>1, <3>1, HalfEnds
    <3>3. step' = half' * HalfSteps'
      BY <3>1, <3>2, SameShapes
    <3>4. HalfHolds(0, first, bodyVmpMasks)'
      BY <3>1, <3>2, SamePhases
    <3> QED
      BY <2>1, <3>1, <3>2, <3>3, <3>4, SameShapes DEF CollapseInv
  <2>8. CASE FinishCollapse
    <3>1. /\ stage = "collapse" /\ stage' = "build" /\ call' = call /\ half' = half
          /\ first' = first /\ step' = step /\ TargetCol < 0 /\ half = Halves - 1
      BY <2>8 DEF FinishCollapse
    <3>2. bodyVmpMasks' \in [0 .. Steps - 1 -> Poly]
      <4>1. CASE call.partial
        BY <2>1, <2>8, <4>1 DEF FinishCollapse
      <4>2. CASE ~call.partial
        <5>1. work[0] \in Poly
          BY <2>1, <3>1, HalfEnds
        <5>2. bodyVmpMasks' = [bodyVmpMasks EXCEPT ![step] = work[0]]
          BY <2>8, <4>2 DEF FinishCollapse
        <5> QED
          BY <2>1, <5>1, <5>2
      <4> QED
        BY <4>1, <4>2
    <3> QED
      BY <2>1, <3>1, <3>2, SameShapes DEF CollapseInv
  <2>9. CASE BuildBsgs
    BY <2>2, <2>9 DEF BuildBsgs
  <2>10. CASE PackChunk
    BY <2>2, <2>10 DEF PackChunk
  <2>11. CASE PackFinish
    BY <2>2, <2>11 DEF PackFinish
  <2>12. CASE UNCHANGED vars
    <3>1. /\ call' = call /\ stage' = stage /\ half' = half /\ first' = first /\ step' = step
          /\ bodyVmpMasks' = bodyVmpMasks /\ work' = work
      BY <2>12 DEF vars
    <3> QED
      BY <2>1, <3>1, SameShapes, SamePhases DEF CollapseInv
  <2> QED
    BY <2>3, <2>4, <2>5, <2>6, <2>7, <2>8, <2>9, <2>10, <2>11, <2>12 DEF Next
<1> QED
  BY <1>1, <1>2, AggregateInvariance, PTL DEF Spec

\* No step of the collapse loses anything: what is left of a half and what was
\* recorded decrypt together to what the half decrypted to (CollapseKeepsPhase).
THEOREM CollapseLosesNothing == Spec => []CollapseKeepsPhase
<1>1. CollapseInv => CollapseKeepsPhase
  <2> SUFFICES ASSUME CollapseInv, stage = "collapse"
               PROVE  Plus(WorkPhase, RecordedBodies) =
                        PlusUpTo([c \in 0 .. HalfSteps |->
                                    Times(aggregate[half * (HalfSteps + 1) + c], ColumnSecret(c, half))],
                                 HalfSteps + 1)
    BY DEF CollapseKeepsPhase
  <2> DEFINE d == step - half * HalfSteps
             live == Least(TargetCol + 2, HalfSteps + 1)
             b == HalfSteps - d + 1
  <2>1. /\ call \in Cases /\ half \in 0 .. Halves - 1 /\ aggregate = References
        /\ d \in 0 .. HalfSteps /\ step \in Nat
        /\ Plus(PhaseOf(work, half, b), Recorded(half, bodyVmpMasks, d)) = HalfPhase(half)
    BY DEF CollapseInv, AggregateInv
  <2>2. HalfSteps \in Nat /\ half * HalfSteps \in Nat
    BY <2>1, HalfIs
  <2>3. TargetCol = (HalfSteps - 1) - d
    BY DEF TargetCol
  <2> HIDE DEF d
  <2>4. live = b
    BY <2>1, <2>2, <2>3 DEF Least
  <2> HIDE DEF b, live
  <2>5. WorkPhase = PhaseOf(work, half, b)
    <3>1. WorkPhase = PlusUpTo([c \in 0 .. live - 1 |-> Times(work[c], ColumnSecret(c, half))], live)
      BY DEF WorkPhase, live
    <3> QED
      BY <2>4, <3>1 DEF PhaseOf
  <2>6. RecordedBodies = Recorded(half, bodyVmpMasks, d)
    BY DEF RecordedBodies, Recorded, RecordedStep, BodyG, d
  <2>7. ASSUME NEW c \in 0 .. HalfSteps
        PROVE  aggregate[half * (HalfSteps + 1) + c] = Reference(c, half)
    <3> DEFINE x == half * (HalfSteps + 1) + c
    <3>1. x \in 0 .. Halves * Columns - 1 /\ x % Columns = c /\ x \div Columns = half
      BY <2>1, HalfIs
    <3> HIDE DEF x
    <3>2. References[x] = Reference(x % Columns, x \div Columns)
      BY <3>1 DEF References
    <3> QED
      BY <2>1, <3>1, <3>2 DEF x
  <2>8. HalfPhase(half) = PlusUpTo([c \in 0 .. HalfSteps |->
                                      Times(aggregate[half * (HalfSteps + 1) + c], ColumnSecret(c, half))],
                                   HalfSteps + 1)
    <3>1. [c \in 0 .. HalfSteps |-> Times(aggregate[half * (HalfSteps + 1) + c], ColumnSecret(c, half))]
            = [c \in 0 .. HalfSteps |-> Times(Reference(c, half), ColumnSecret(c, half))]
      BY <2>7
    <3> QED
      BY <3>1 DEF HalfPhase
  <2> QED
    BY <2>1, <2>5, <2>6, <2>8
<1> QED
  BY <1>1, CollapseInvariance, PTL


-----------------------------------------------------------------------------
(* The end of the collapse *)

\* The body of the conjugation key, in the view the server keeps it in.
BodyH == SplitOutputKey(Keys.h.body, -1)

\* The client's conjugation key joins the two halves.
LEMMA ConjugationSwitches ==
  ASSUME call \in Cases, ~call.partial
  PROVE  /\ BodyH \in Poly /\ MaskKeyH(Seed) \in Poly
         /\ Plus(Times(MaskKeyH(Seed), Secret), BodyH) = Galois(-1, Secret)
<1> DEFINE s == Secret
           m == Seed
           b == Keys.h.body
           g == -1
<1>1. s \in Poly /\ m \in Poly /\ Unit(g)
  BY InputsAre, UnitOne, UnitMinus
<1>2. b = Minus(s, Times(m, Galois(GaloisInv(g), s)))
  <2>1. b = EncryptKey(-1, s, m).body
    BY DEF Keys, GenerateKeys
  <2> QED
    BY <2>1 DEF EncryptKey
<1>3. BodyH = Galois(g, b) /\ MaskKeyH(m) = Galois(g, m)
  BY DEF BodyH, MaskKeyH, SplitOutputKey
<1> HIDE DEF s, m, b, g
<1>4. /\ b \in Poly /\ Galois(g, b) \in Poly /\ Galois(g, m) \in Poly
      /\ Plus(Times(Galois(g, m), s), Galois(g, b)) = Galois(g, s)
  BY <1>1, <1>2, NaturalKey
<1> QED
  BY <1>3, <1>4 DEF s, m, b, g

\* The secrets of the columns that are left: the secret, and its conjugate.
LEMMA LastSecrets ==
  ASSUME call \in Cases
  PROVE  ColumnSecret(0, 0) = Secret /\ ColumnSecret(0, 1) = Galois(-1, Secret)
<1>1. Element(0, 0) = 1 /\ Element(0, 1) = -1
  <2>1. Stride * 0 = 0
    BY CallIs
  <2> QED
    BY <2>1, ElementNext DEF Element
<1>2. /\ ColumnSecret(0, 0) = Galois(Element(0, 0), Secret)
      /\ ColumnSecret(0, 1) = Galois(Element(0, 1), Secret)
  BY ElementIs, 0 \in Nat DEF ColumnSecret
<1> QED
  BY <1>1, <1>2, InputsAre, GaloisOne

\* What the masks kept decrypt to, with what the bodies will get.
FinalHolds ==
  IF call.partial
  THEN Plus(Times(finalMask, Secret), Recorded(0, bodyVmpMasks, HalfSteps)) = HalfPhase(0)
  ELSE Plus(Plus(Times(finalMask, Secret), Times(bodyVmpMasks[KgSteps], BodyH)),
            Plus(Recorded(0, bodyVmpMasks, HalfSteps), Recorded(1, bodyVmpMasks, HalfSteps)))
         = Plus(HalfPhase(0), HalfPhase(1))

FinishInv ==
  /\ CollapseInv
  /\ stage \in {"build", "pack", "done"} => finalMask \in Poly /\ FinalHolds

\* The step that ends the offline phase: what is left in one column, or in one of
\* each half, becomes the mask of the answer.
LEMMA FinishHolds ==
  ASSUME CollapseInv, FinishCollapse
  PROVE  finalMask' \in Poly /\ FinalHolds'
<1> DEFINE hf == half
           w == work[0]
           m == bodyVmpMasks
           mn == bodyVmpMasks'
           f == finalMask'
           s == Secret
           n == HalfSteps
<1>1. /\ call \in Cases /\ m \in [0 .. Steps - 1 -> Poly] /\ first \in Poly
      /\ stage = "collapse" /\ TargetCol < 0 /\ hf = Halves - 1 /\ call' = call
  BY DEF CollapseInv, AggregateInv, FinishCollapse
<1>2. w \in Poly /\ step = (hf + 1) * n /\ HalfHolds(hf, w, m)
  BY <1>1, HalfEnds
<1>3. /\ Halves \in {1, 2} /\ (Halves = 1 <=> call.partial) /\ call.partial \in BOOLEAN
      /\ KgSteps = Halves * n /\ n \in Nat
      /\ Steps = IF call.partial THEN KgSteps ELSE KgSteps + 1
  BY <1>1, CallIs
<1>4. s \in Poly /\ ColumnSecret(0, 0) = s /\ ColumnSecret(0, 1) = Galois(-1, s)
  BY <1>1, InputsAre, LastSecrets
<1>5. /\ Secret' = s /\ HalfSteps' = n /\ KgSteps' = KgSteps /\ BodyH' = BodyH
      /\ call'.partial = call.partial
  BY <1>1, SameShapes DEF BodyH
<1>6. CASE call.partial
  <2>1. f = w /\ mn = m
    BY <1>6 DEF FinishCollapse
  <2>2. Plus(Times(w, s), Recorded(0, m, n)) = HalfPhase(0)
    BY <1>1, <1>2, <1>3, <1>4, <1>6 DEF HalfHolds
  <2>3. FinalHolds' = (Plus(Times(f, Secret'), Recorded(0, bodyVmpMasks, HalfSteps)') = HalfPhase(0)')
    BY <1>5, <1>6 DEF FinalHolds
  <2> QED
    BY <1>1, <1>2, <1>5, <2>1, <2>2, <2>3, SamePhases
<1>7. CASE ~call.partial
  <2> DEFINE kh == MaskKeyH(Seed)
             bh == BodyH
             x == Times(first, s)
             y == Times(w, Galois(-1, s))
             r == Recorded(0, m, n)
             q == Recorded(1, m, n)
  <2>1. /\ mn = [m EXCEPT ![step] = w] /\ f = Plus(Times(w, kh), first)
    BY <1>7 DEF FinishCollapse
  <2>2. hf = 1 /\ step = KgSteps /\ KgSteps \in 0 .. Steps - 1 /\ KgSteps = n + n
    BY <1>1, <1>2, <1>3, <1>7
  <2>3. HalfHolds(0, first, m)
    BY <1>1, <2>2 DEF CollapseInv
  <2>4. bh \in Poly /\ kh \in Poly /\ Plus(Times(kh, s), bh) = Galois(-1, s)
    BY <1>1, <1>7, ConjugationSwitches
  <2> HIDE DEF hf, w, m, mn, f, s, n, kh, bh
  <2>5. 0 \in 0 .. Halves - 1 /\ 1 \in 0 .. Halves - 1 /\ n \in 0 .. HalfSteps
    BY <1>1, <1>3, <2>2 DEF n
  <2>6. mn \in [0 .. Steps - 1 -> Poly] /\ mn[KgSteps] = w
    BY <1>1, <1>2, <2>1, <2>2
  <2>7. Recorded(0, mn, n) = r /\ Recorded(1, mn, n) = q /\ r \in Poly /\ q \in Poly
    <3>1. ASSUME NEW h \in {0, 1}
          PROVE  \A i \in 0 .. n - 1 : mn[h * HalfSteps + i] = m[h * HalfSteps + i]
      <4> SUFFICES ASSUME NEW i \in 0 .. n - 1 PROVE mn[h * HalfSteps + i] = m[h * HalfSteps + i]
        OBVIOUS
      <4> DEFINE k == h * HalfSteps + i
      <4>1. k \in 0 .. Steps - 1 /\ k # step
        <5>1. HalfSteps = n
          BY DEF n
        <5> QED
          BY <1>3, <2>2, <5>1
      <4> HIDE DEF k
      <4>2. mn[k] = m[k]
        BY <1>1, <2>1, <4>1
      <4> QED
        BY <4>2 DEF k
    <3> QED
      BY <1>1, <2>5, <2>6, <3>1, RecordedSame
  <2>8. Plus(x, r) = HalfPhase(0) /\ Plus(y, q) = HalfPhase(1)
    BY <1>2, <1>4, <2>2, <2>3 DEF HalfHolds, n
  <2> DEFINE wk == Times(w, kh)
             wb == Times(w, bh)
             ks == Times(kh, s)
             wks == Times(wk, s)
  <2>9. /\ wk \in Poly /\ wb \in Poly /\ ks \in Poly /\ wks \in Poly /\ x \in Poly /\ f \in Poly
        /\ Times(w, ks) \in Poly /\ y \in Poly
    <3>1. Galois(-1, s) \in Poly
      BY <1>4, UnitOne, UnitMinus, GaloisUnrolled
    <3> QED
      BY <1>1, <1>2, <1>4, <2>1, <2>4, <3>1, TimesUnrolled, PlusIs
  <2>10. y = Plus(wks, wb)
    <3>1. Times(w, Plus(ks, bh)) = Plus(Times(w, ks), wb)
      BY <1>2, <2>4, <2>9, TimesPlus
    <3>2. wks = Times(w, ks)
      BY <1>2, <1>4, <2>4, TimesAssociates
    <3> QED
      BY <2>4, <3>1, <3>2
  <2>11. Times(f, s) = Plus(wks, x)
    <3> HIDE DEF wk
    <3>1. Times(Plus(wk, first), s) = Plus(Times(wk, s), x)
      BY <1>1, <1>4, <2>9, TimesPlus
    <3> QED
      BY <2>1, <3>1 DEF wk
  <2> HIDE DEF x, y, wks, wb, r, q
  <2>12. Plus(Times(f, s), wb) = Plus(x, y)
    <3>1. Plus(Plus(wks, x), wb) = Plus(Plus(x, wks), wb)
      BY <2>9, PlusLaws
    <3>2. Plus(Plus(x, wks), wb) = Plus(x, Plus(wks, wb))
      BY <2>9, PlusAssociates
    <3> QED
      BY <2>10, <2>11, <3>1, <3>2
  <2>13. Plus(Plus(x, y), Plus(r, q)) = Plus(Plus(x, r), Plus(y, q))
    BY <2>7, <2>9, PlusMixes
  <2>14. Plus(Plus(Times(f, s), Times(mn[KgSteps], bh)), Plus(Recorded(0, mn, n), Recorded(1, mn, n)))
           = Plus(HalfPhase(0), HalfPhase(1))
    BY <2>6, <2>7, <2>8, <2>12, <2>13 DEF wb
  <2>15. FinalHolds' =
           (Plus(Plus(Times(finalMask', Secret'), Times(bodyVmpMasks'[KgSteps'], BodyH')),
                 Plus(Recorded(0, bodyVmpMasks, HalfSteps)', Recorded(1, bodyVmpMasks, HalfSteps)'))
              = Plus(HalfPhase(0)', HalfPhase(1)'))
    BY <1>5, <1>7 DEF FinalHolds
  <2>16. bodyVmpMasks' = mn /\ finalMask' = f /\ HalfSteps' = n
    BY <1>5 DEF mn, f
  <2>17. /\ Recorded(0, bodyVmpMasks, HalfSteps)' = Recorded(0, mn, n)
         /\ Recorded(1, bodyVmpMasks, HalfSteps)' = Recorded(1, mn, n)
    <3>1. \A hf0, masks, k : Recorded(hf0, masks, k)' = Recorded(hf0, masks, k)
      BY <1>1, SamePhases
    <3>2. \A hf0 : Recorded(hf0, bodyVmpMasks, HalfSteps)' = Recorded(hf0, mn, n)
      BY <1>5, <3>1 DEF mn, n
    <3> QED
      BY <3>2
  <2>18. HalfPhase(0)' = HalfPhase(0) /\ HalfPhase(1)' = HalfPhase(1)
    BY <1>1, SamePhases
  <2>19. Secret' = s /\ BodyH' = bh /\ KgSteps' = KgSteps
    BY <1>5 DEF s, bh
  <2>20. FinalHolds'
    BY <2>14, <2>15, <2>16, <2>17, <2>18, <2>19
  <2> QED
    BY <2>9, <2>20 DEF f
<1> QED
  BY <1>3, <1>6, <1>7

\* The mask of the answer is what the whole collapse says, from then on.
LEMMA FinishInvariance == Spec => []FinishInv
<1>1. Init => FinishInv
  BY CollapseStarts DEF FinishInv, Init
<1>2. FinishInv /\ CollapseInv' /\ [Next]_vars => FinishInv'
  <2> SUFFICES ASSUME FinishInv, CollapseInv', [Next]_vars PROVE FinishInv'
    OBVIOUS
  <2>1. ASSUME call' = call, finalMask' = finalMask, bodyVmpMasks' = bodyVmpMasks,
               stage' \in {"build", "pack", "done"} => stage \in {"build", "pack", "done"}
        PROVE  FinishInv'
    <3>1. HalfSteps' = HalfSteps /\ KgSteps' = KgSteps /\ Secret' = Secret /\ BodyH' = BodyH
      BY <2>1, SameShapes DEF BodyH
    <3>2. FinalHolds' = FinalHolds
      BY <2>1, <3>1, SamePhases DEF FinalHolds
    <3> QED
      BY <2>1, <3>2 DEF FinishInv
  <2>2. ASSUME NEW w \in Workers, Aggregate(w) PROVE FinishInv'
    BY <2>2 DEF Aggregate, FinishInv
  <2>3. CASE MergePanels
    BY <2>3 DEF MergePanels, FinishInv
  <2>4. CASE CopyAggregateHalf
    BY <2>4 DEF CopyAggregateHalf, FinishInv
  <2>5. CASE CollapseStep
    BY <2>5 DEF CollapseStep, FinishInv
  <2>6. CASE NextHalf
    BY <2>6 DEF NextHalf, FinishInv
  <2>7. CASE FinishCollapse
    BY <2>7, FinishHolds DEF FinishInv
  <2>8. CASE BuildBsgs
    BY <2>1, <2>8 DEF BuildBsgs
  <2>9. CASE PackChunk
    BY <2>1, <2>9 DEF PackChunk
  <2>10. CASE PackFinish
    BY <2>1, <2>10 DEF PackFinish
  <2>11. CASE UNCHANGED vars
    BY <2>1, <2>11 DEF vars
  <2> QED
    BY <2>2, <2>3, <2>4, <2>5, <2>6, <2>7, <2>8, <2>9, <2>10, <2>11 DEF Next
<1> QED
  BY <1>1, <1>2, CollapseInvariance, PTL DEF Spec

-----------------------------------------------------------------------------
(* The online phase: what the collapsed half comes to, and how its groups  *)
(* and chunks add up                                                       *)

\* The powers of two up to the half of the degree.
LEMMA PowersMultiply ==
  ASSUME NEW E \in 0 .. N - 1
  PROVE  \A d \in 0 .. E :
           /\ 2 ^ (E - d) \in Nat \ {0} /\ 2 ^ d \in Nat \ {0}
           /\ 2 ^ (E - d) * 2 ^ d = 2 ^ E
           /\ d < E => 2 ^ (E - d) = 2 * 2 ^ (E - (d + 1)) /\ 2 ^ (d + 1) = 2 * 2 ^ d
<1>1. N \in Nat \ {0}
  BY PeriodIs
<1>2. \A d \in 0 .. E : 2 ^ (E - d) \in Nat \ {0} /\ 2 ^ d \in Nat \ {0}
  <2> SUFFICES ASSUME NEW d \in 0 .. E PROVE 2 ^ (E - d) \in Nat \ {0} /\ 2 ^ d \in Nat \ {0}
    OBVIOUS
  <2> DEFINE k == E - d
  <2>1. k \in 0 .. N /\ d \in 0 .. N
    BY <1>1
  <2> HIDE DEF k
  <2>2. 2 ^ k \in Nat \ {0} /\ 2 ^ d \in Nat \ {0}
    BY <2>1, TwoTo
  <2> QED
    BY <2>2 DEF k
<1>3. ASSUME NEW d \in 0 .. E, d < E
      PROVE  2 ^ (E - d) = 2 * 2 ^ (E - (d + 1)) /\ 2 ^ (d + 1) = 2 * 2 ^ d
  <2> DEFINE k == E - (d + 1)
  <2>1. k \in 0 .. N - 1 /\ d \in 0 .. N - 1 /\ E - d = k + 1
    BY <1>1, <1>3
  <2> HIDE DEF k
  <2>2. 2 ^ (k + 1) = 2 * 2 ^ k /\ 2 ^ (d + 1) = 2 * 2 ^ d
    BY <2>1, TwoTo
  <2> QED
    BY <2>1, <2>2 DEF k
<1> DEFINE S == {d \in 0 .. E : 2 ^ (E - d) * 2 ^ d = 2 ^ E}
<1>4. 0 \in S
  <2>1. E - 0 = E /\ 2 ^ E \in Nat /\ 0 \in 0 .. E
    BY <1>1, <1>2
  <2> DEFINE x == 2 ^ E
  <2>2. x * 1 = x
    <3> HIDE DEF x
    <3>1. x \in Nat
      BY <2>1 DEF x
    <3> QED
      BY <3>1
  <2> QED
    BY <2>1, <2>2, TwoTo
<1>5. ASSUME NEW d \in 0 .. E - 1, d \in S
      PROVE  d + 1 \in S
  <2> DEFINE x == 2 ^ (E - (d + 1))
             y == 2 ^ d
  <2>1. d \in 0 .. E /\ d < E /\ d + 1 \in 0 .. E
    BY <1>1
  <2>2. 2 ^ (E - d) = 2 * x /\ 2 ^ (d + 1) = 2 * y /\ x \in Nat /\ y \in Nat
    BY <1>2, <1>3, <2>1
  <2>3. (2 * x) * y = 2 ^ E
    BY <1>5, <2>2
  <2> HIDE DEF x, y
  <2>4. x * (2 * y) = (2 * x) * y
    BY <2>2, SMT
  <2> QED
    BY <2>1, <2>2, <2>3, <2>4 DEF x
<1> HIDE DEF S
<1>6. 0 .. E \subseteq S
  BY <1>1, <1>4, <1>5, StepsReachAll
<1> QED
  BY <1>2, <1>3, <1>6 DEF S

\* A sum of twice as many polynomials, two by two.
LEMMA PairsAddUp ==
  ASSUME NEW n \in Nat, NEW f, Polys(f, 2 * n),
         NEW g, \A k \in 0 .. n - 1 : g[k] = Plus(f[2 * k], f[2 * k + 1])
  PROVE  Polys(g, n) /\ PlusUpTo(f, 2 * n) = PlusUpTo(g, n)
<1>1. Polys(g, n)
  BY PlusIs DEF Polys
<1> DEFINE S == {i \in 0 .. n : PlusUpTo(f, 2 * i) = PlusUpTo(g, i)}
<1>2. \A i \in 0 .. n : i \in Nat /\ Polys(g, i) /\ PlusUpTo(g, i) \in Poly
  BY <1>1, PolysParts
<1>3. 0 \in S
  BY <1>1, EmptySum
<1>4. ASSUME NEW i \in 0 .. n - 1, i \in S
      PROVE  i + 1 \in S
  <2> DEFINE a == PlusUpTo(f, 2 * i)
             j == 2 * i
  <2>1. j \in Nat /\ j + 1 \in Nat /\ j + 1 \in 0 .. 2 * n /\ (j + 1) + 1 \in 0 .. 2 * n /\ 2 * (i + 1) = (j + 1) + 1
        /\ i \in Nat /\ i + 1 \in 0 .. n
    OBVIOUS
  <2>2. Polys(f, j + 1) /\ Polys(f, (j + 1) + 1) /\ Polys(g, i + 1)
    BY <1>1, <2>1, PolysParts
  <2>3. g[i] = Plus(f[j], f[j + 1]) /\ PlusUpTo(f, j) = PlusUpTo(g, i)
    BY <1>4
  <2> HIDE DEF j
  <2>4. /\ PlusUpTo(f, j + 1) = Plus(PlusUpTo(f, j), f[j]) /\ PlusUpTo(f, j) \in Poly /\ f[j] \in Poly
        /\ PlusUpTo(f, (j + 1) + 1) = Plus(PlusUpTo(f, j + 1), f[j + 1]) /\ f[j + 1] \in Poly
        /\ PlusUpTo(g, i + 1) = Plus(PlusUpTo(g, i), g[i])
    BY <2>1, <2>2, PlusUpToNext
  <2>5. Plus(Plus(PlusUpTo(f, j), f[j]), f[j + 1]) = Plus(PlusUpTo(f, j), Plus(f[j], f[j + 1]))
    BY <2>4, PlusAssociates
  <2> QED
    BY <2>1, <2>3, <2>4, <2>5
<1> HIDE DEF S
<1>5. 0 .. n \subseteq S
  BY <1>3, <1>4, StepsReachAll
<1>6. n \in S
  BY <1>5
<1> QED
  BY <1>1, <1>6 DEF S

\* After an even number of degrees a signal is back, after an odd one turned.
LEMMA SignalTurned ==
  ASSUME NEW A \in Signal, NEW e \in Int, NEW m \in Int
  PROVE  A[e + N * (2 * m)] = A[e] /\ A[e + N * (2 * m + 1)] = -A[e]
<1>1. 2 * m \in Int /\ 2 * m + 1 \in Int
  OBVIOUS
<1>2. ASSUME NEW z \in Int
      PROVE  /\ z = 2 * m => A[e + N * z] = A[e]
             /\ z = 2 * m + 1 => A[e + N * z] = -A[e]
  BY SignalSteps
<1> QED
  BY <1>1, <1>2

\* A polynomial and its image under 5^(2^n), where 4 2^n 2^d is the degree: the
\* coefficients at the multiples of 2^d double or cancel.
LEMMA HalfTurn ==
  ASSUME NEW n \in 0 .. N, NEW D \in Nat \ {0}, N = (4 * 2 ^ n) * D, 2 ^ n \in Nat \ {0},
         NEW p \in Poly
  PROVE  LET q == Plus(p, Galois(GaloisElement(2 ^ n), p))
         IN  /\ q \in Poly
             /\ \A i \in Coef, j \in Int : /\ i = D * (2 * j) => Same(q[i], 2 * p[i])
                                           /\ i = D * (2 * j + 1) => Same(q[i], 0)
<1> DEFINE u == 2 ^ n
           g == GaloisElement(u)
           v == GaloisInv(g)
           A == Unrolled(p)
           r == Galois(g, p)
           q == Plus(p, r)
<1>1. u \in Nat /\ Unit(g) /\ v \in Int /\ Equal(g * v, 1) /\ g \in Int
  BY ElementUnit, ElementNext, GaloisInvIs
<1>2. PICK o \in Int : Equal(g, 1 + (4 * u) * (2 * o + 1))
  BY ElementOfPower
<1>3. PICK w \in Int : v = 2 * w + 1
  BY <1>1, InverseIsOdd
<1>4. r \in Poly /\ q \in Poly /\ A \in Signal
  BY <1>1, GaloisUnrolled, PlusIs, PolyIs
<1>5. \A i \in Coef : i * v \in Int /\ i \in Int /\ Same(r[i], A[i * v]) /\ A[i * v] \in Int /\ r[i] \in Int
                      /\ p[i] \in Int /\ A[i] = p[i] /\ q[i] \in Int /\ Same(q[i], p[i] + r[i])
  <2> SUFFICES ASSUME NEW i \in Coef
               PROVE  i * v \in Int /\ i \in Int /\ Same(r[i], A[i * v]) /\ A[i * v] \in Int /\ r[i] \in Int
                      /\ p[i] \in Int /\ A[i] = p[i] /\ q[i] \in Int /\ Same(q[i], p[i] + r[i])
    OBVIOUS
  <2>1. i * v \in Int /\ r[i] = At(p, i * v)
    BY <1>1, GaloisUnrolled
  <2> QED
    <3> HIDE DEF v, g
    <3>1. i \in Int
      BY PeriodIs DEF Coef
    <3>2. p[i] \in Int /\ A[i] = p[i] /\ r[i] \in Int /\ q[i] \in Int
      BY <1>4, PolyIs
    <3>3. Same(q[i], p[i] + r[i])
      BY <1>4, PlusIs
    <3>4. A[i * v] \in Int
      BY <1>4, <2>1, SignalTurns
    <3>5. Same(r[i], A[i * v])
      BY <2>1, AtIs
    <3> QED
      BY <2>1, <3>1, <3>2, <3>3, <3>4, <3>5
<1> DEFINE k == (2 * o + 1) * v
<1>6. \E y \in Int : k = 2 * y + 1
  <2>1. k = 2 * (2 * (o * w) + o + w) + 1
    BY <1>3, SMT
  <2>2. 2 * (o * w) + o + w \in Int
    OBVIOUS
  <2> QED
    BY <2>1, <2>2
<1>7. \E z \in Int : v = (1 - (4 * u) * k) + Period * z
  <2>1. PICK z1 \in Int : g * v = 1 + Period * z1
    BY <1>1 DEF Equal, Congruent
  <2>2. PICK z2 \in Int : g = (1 + (4 * u) * (2 * o + 1)) + Period * z2
    BY <1>2 DEF Equal, Congruent
  <2> HIDE DEF u, g, v
  <2> DEFINE P == Period
  <2>3. P \in Int
    BY PeriodIs
  <2> HIDE DEF P
  <2>4. g * v = (v + (4 * u) * k) + P * (z2 * v)
    BY <1>1, <2>2, <2>3, SMT DEF P, k
  <2>5. v = (1 - (4 * u) * k) + P * (z1 - z2 * v)
    <3>1. P * (z1 - z2 * v) = P * z1 - P * (z2 * v)
      BY <1>1, <2>3
    <3> DEFINE a == P * z1
               b == P * (z2 * v)
               c == (4 * u) * k
    <3>2. a \in Int /\ b \in Int /\ c \in Int
      BY <1>1, <2>3
    <3>3. 1 + a = (v + c) + b
      BY <2>1, <2>4 DEF P
    <3> HIDE DEF a, b, c, k
    <3>4. v = (1 - c) + (a - b)
      BY <1>1, <3>2, <3>3
    <3> QED
      BY <3>1, <3>4 DEF a, b, c
  <2>6. z1 - z2 * v \in Int
    BY <1>1
  <2> QED
    BY <2>5, <2>6 DEF P
<1>8. ASSUME NEW i \in Coef, NEW m \in Int, i = D * m
      PROVE  \E y \in Int, z \in Int : i * v = i + N * (2 * z - (2 * y + 1) * m)
  <2>1. PICK y \in Int : k = 2 * y + 1
    BY <1>6
  <2>2. PICK z \in Int : v = (1 - (4 * u) * k) + Period * z
    BY <1>7
  <2> DEFINE x == z * i
             a == 4 * u
  <2>3. x \in Int /\ a \in Int /\ k \in Int /\ i \in Int /\ N \in Int /\ Period = N + N
    BY <1>1, <1>5, <2>1, <2>2, PeriodIs
  <2> HIDE DEF u, g, v, k
  <2>4. i * v = (i - (D * m) * (a * k)) + i * (Period * z)
    <3> HIDE DEF a
    <3> DEFINE ak == a * k
    <3>1. ak \in Int
      BY <2>3
    <3> HIDE DEF ak
    <3>2. i * ((1 - ak) + Period * z) = (i - i * ak) + i * (Period * z)
      BY <2>3, <3>1, PeriodIs
    <3> QED
      BY <1>8, <2>2, <3>2 DEF ak, a
  <2>5. (D * m) * (a * k) = N * (k * m)
    <3>1. N = a * D
      BY DEF a, u
    <3> HIDE DEF a
    <3>2. (D * m) * (a * k) = (a * D) * (k * m)
      BY <2>3, SMT
    <3> QED
      BY <3>1, <3>2
  <2>6. i * (Period * z) = N * (2 * x)
    BY <2>3, SMT
  <2>7. i * v = i + N * (2 * x - (2 * y + 1) * m)
    <3> DEFINE km == k * m
    <3>1. km \in Int /\ km = (2 * y + 1) * m
      BY <2>1, <2>3
    <3> HIDE DEF km, x
    <3>2. N * (2 * x - km) = N * (2 * x) - N * km
      BY <2>3, <3>1
    <3> DEFINE b == N * km
               c == N * (2 * x)
    <3>3. b \in Int /\ c \in Int /\ i * v = (i - b) + c
      <4>1. 2 * x \in Int
        BY <2>3
      <4>2. b \in Int /\ c \in Int
        BY <2>3, <3>1, <4>1, IntProduct
      <4>3. i * v = (i - N * (k * m)) + N * (2 * x)
        BY <2>4, <2>5, <2>6
      <4> QED
        BY <4>2, <4>3 DEF km
    <3> HIDE DEF b, c
    <3>4. (i - b) + c = i + (c - b)
      BY <2>3, <3>3
    <3> QED
      BY <3>1, <3>2, <3>3, <3>4 DEF b, c
  <2> QED
    BY <2>3, <2>7
<1> SUFFICES ASSUME NEW i \in Coef, NEW j \in Int
             PROVE  /\ i = D * (2 * j) => Same(q[i], 2 * p[i])
                    /\ i = D * (2 * j + 1) => Same(q[i], 0)
  BY <1>4
<1>9. ASSUME i = D * (2 * j) PROVE Same(q[i], 2 * p[i])
  <2> DEFINE m2 == 2 * j
  <2>0. m2 \in Int /\ i = D * m2
    BY <1>9
  <2> HIDE DEF m2, v
  <2>1. PICK y \in Int, z \in Int : i * v = i + N * (2 * z - (2 * y + 1) * (2 * j))
    BY <1>8, <2>0 DEF m2
  <2>2. 2 * z - (2 * y + 1) * (2 * j) = 2 * (z - (2 * y + 1) * j)
    BY SMT
  <2> DEFINE e == 2 * z - (2 * y + 1) * (2 * j)
             m == z - (2 * y + 1) * j
  <2>3. e \in Int /\ m \in Int /\ e = 2 * m
    BY <2>2
  <2> HIDE DEF e, m, q, r, A, v
  <2>4. A[i + N * e] = A[i]
    <3>1. A \in Signal /\ i \in Int
      BY <1>4, <1>5
    <3>2. A[i + N * (2 * m)] = A[i]
      BY <2>3, <3>1, SignalTurned, ZenonT(40)
    <3> QED
      BY <2>3, <3>2
  <2>5. Same(r[i], p[i]) /\ p[i] \in Int /\ r[i] \in Int /\ q[i] \in Int /\ Same(q[i], p[i] + r[i])
    BY <1>5, <2>1, <2>4 DEF e
  <2>6. Same(p[i] + r[i], p[i] + p[i])
    BY <2>5, SameIt, SameSum
  <2>7. Same(q[i], p[i] + p[i])
    BY <2>5, <2>6, SameTrans
  <2> QED
    BY <2>5, <2>7
<1>10. ASSUME i = D * (2 * j + 1) PROVE Same(q[i], 0)
  <2> DEFINE m2 == 2 * j + 1
  <2>0. m2 \in Int /\ i = D * m2
    BY <1>10
  <2> HIDE DEF m2, v
  <2>1. PICK y \in Int, z \in Int : i * v = i + N * (2 * z - (2 * y + 1) * (2 * j + 1))
    BY <1>8, <2>0 DEF m2
  <2>2. 2 * z - (2 * y + 1) * (2 * j + 1) = 2 * (z - (2 * (y * j) + y + j) - 1) + 1
    BY SMT
  <2> DEFINE e == 2 * z - (2 * y + 1) * (2 * j + 1)
             m == z - (2 * (y * j) + y + j) - 1
  <2>3. e \in Int /\ m \in Int /\ e = 2 * m + 1
    BY <2>2
  <2> HIDE DEF e, m, q, r, A, v
  <2>4. A[i + N * e] = -A[i]
    <3>1. A \in Signal /\ i \in Int
      BY <1>4, <1>5
    <3>2. A[i + N * (2 * m + 1)] = -A[i]
      BY <2>3, <3>1, SignalTurned, ZenonT(40)
    <3> QED
      BY <2>3, <3>2
  <2>5. Same(r[i], -p[i]) /\ p[i] \in Int /\ r[i] \in Int /\ q[i] \in Int /\ Same(q[i], p[i] + r[i])
    BY <1>5, <2>1, <2>4 DEF e
  <2> DEFINE x == p[i]
             b == -p[i]
  <2>6. x \in Int /\ b \in Int /\ x + b = 0
    BY <2>5
  <2>7. Same(r[i], b) /\ r[i] \in Int /\ q[i] \in Int /\ Same(q[i], x + r[i])
    BY <2>5
  <2> HIDE DEF x, b
  <2>8. Same(x + r[i], x + b)
    BY <2>6, <2>7, SameIt, SameSum
  <2> QED
    BY <2>6, <2>7, <2>8, SameTrans
<1> QED
  BY <1>9, <1>10

\* The images of a polynomial under the first n powers of 5^u, added up.
Trace(p, u, n) == PlusUpTo([c \in 0 .. n - 1 |-> Galois(GaloisElement(u * c), p)], n)

\* What is left of the polynomial: its coefficients at the multiples of n, n times.
Multiple(i, n) == \E m \in Int : i = n * m
Traced(p, t, n) ==
  /\ t \in Poly
  /\ \A i \in Coef : /\ Multiple(i, n) => Same(t[i], n * p[i])
                     /\ ~Multiple(i, n) => Same(t[i], 0)

\* The images are polynomials.
LEMMA ImagesArePolys ==
  ASSUME NEW p \in Poly, NEW u \in Nat, NEW n \in Nat
  PROVE  /\ Polys([c \in 0 .. n - 1 |-> Galois(GaloisElement(u * c), p)], n)
         /\ Trace(p, u, n) \in Poly
<1>1. ASSUME NEW c \in 0 .. n - 1 PROVE Galois(GaloisElement(u * c), p) \in Poly
  <2>1. u * c \in Nat
    OBVIOUS
  <2> QED
    BY <2>1, ElementUnit, GaloisUnrolled
<1>2. Polys([c \in 0 .. n - 1 |-> Galois(GaloisElement(u * c), p)], n)
  BY <1>1 DEF Polys
<1> QED
  BY <1>2, PlusUpToIs DEF Trace

\* Twice as many images are the images of a pair, in steps of twice the length.
LEMMA TraceInPairs ==
  ASSUME NEW p \in Poly, NEW u \in Nat, NEW n \in Nat
  PROVE  LET q == Plus(p, Galois(GaloisElement(u), p))
         IN  q \in Poly /\ Trace(p, u, 2 * n) = Trace(q, 2 * u, n)
<1> DEFINE r == Galois(GaloisElement(u), p)
           q == Plus(p, r)
           f == [c \in 0 .. 2 * n - 1 |-> Galois(GaloisElement(u * c), p)]
           g == [c \in 0 .. n - 1 |-> Galois(GaloisElement((2 * u) * c), q)]
<1>1. Unit(GaloisElement(u)) /\ GaloisElement(u) \in Int /\ r \in Poly /\ q \in Poly
  BY ElementUnit, ElementNext, GaloisUnrolled, PlusIs
<1>2. Polys(f, 2 * n)
  <2>1. 2 * n \in Nat
    OBVIOUS
  <2> QED
    BY <2>1, ImagesArePolys
<1>3. ASSUME NEW k \in 0 .. n - 1
      PROVE  g[k] = Plus(f[2 * k], f[2 * k + 1])
  <2> DEFINE a == (2 * u) * k
             x == GaloisElement(a)
             y == GaloisElement(u)
  <2>1. /\ a \in Nat /\ u * (2 * k) = a /\ u * (2 * k + 1) = a + u
        /\ 2 * k \in 0 .. 2 * n - 1 /\ 2 * k + 1 \in 0 .. 2 * n - 1
    <3>1. u * (2 * k) = a /\ u * (2 * k + 1) = a + u
      BY SMT
    <3> QED
      BY <3>1
  <2>2. f[2 * k] = Galois(x, p) /\ f[2 * k + 1] = Galois(GaloisElement(a + u), p)
    BY <2>1
  <2> HIDE DEF a
  <2>3. Unit(x) /\ x \in Int /\ GaloisElement(a + u) \in Int /\ Equal(GaloisElement(a + u), x * y)
    BY <2>1, ElementUnit, ElementNext, ElementPlus
  <2>4. Unit(x * y) /\ x * y \in Int
    BY <1>1, <2>3, UnitProduct DEF Unit
  <2>5. Galois(x * y, p) = Galois(GaloisElement(a + u), p)
    BY <2>3, <2>4, EqualLaws, GaloisEqual
  <2>6. Galois(x, r) = Galois(x * y, p)
    BY <1>1, <2>3, GaloisTwice
  <2>7. Galois(x, q) = Plus(Galois(x, p), Galois(x, r))
    BY <1>1, <2>3, GaloisPlus, 0 \in Int
  <2>8. g[k] = Galois(x, q)
    BY DEF a
  <2> HIDE DEF f, g, q, r, x
  <2> QED
    BY <2>2, <2>5, <2>6, <2>7, <2>8
<1>4. PlusUpTo(f, 2 * n) = PlusUpTo(g, n)
  <2> HIDE DEF f, g
  <2> QED
    BY <1>2, <1>3, PairsAddUp
<1> QED
  BY <1>1, <1>4 DEF Trace

\* The powers of 5^(2^(E - d)) leave the multiples of 2^d, with 2 2^E the degree.
LEMMA TraceIs ==
  ASSUME NEW E \in 0 .. N - 1, N = 2 * 2 ^ E
  PROVE  \A d \in 0 .. E : \A p \in Poly : Traced(p, Trace(p, 2 ^ (E - d), 2 ^ d), 2 ^ d)
<1> DEFINE S == {d \in 0 .. E : \A p \in Poly : Traced(p, Trace(p, 2 ^ (E - d), 2 ^ d), 2 ^ d)}
<1>0. E \in Nat
  BY PeriodIs
<1>1. 0 \in S
  <2> SUFFICES ASSUME NEW p \in Poly PROVE Traced(p, Trace(p, 2 ^ (E - 0), 1), 1)
    BY <1>0, TwoTo
  <2> DEFINE u == 2 ^ (E - 0)
             f == [c \in 0 .. 1 - 1 |-> Galois(GaloisElement(u * c), p)]
  <2>1. u \in Nat
    BY <1>0, PowersMultiply
  <2>2. Polys(f, 0 + 1)
    <3> HIDE DEF u
    <3>1. Polys(f, 1)
      BY <2>1, ImagesArePolys
    <3> QED
      BY <3>1
  <2>3. f[0] = p
    <3> HIDE DEF u
    <3>1. u * 0 = 0
      BY <2>1
    <3> QED
      BY <3>1, ElementNext, GaloisOne
  <2> HIDE DEF f
  <2>4. PlusUpTo(f, 0 + 1) = Plus(Zero, f[0])
    BY <2>2, PlusUpToNext
  <2>5. Trace(p, u, 1) = p
    BY <2>3, <2>4, PlusLaws DEF Trace, f
  <2>6. ASSUME NEW i \in Coef PROVE Multiple(i, 1) /\ Same(p[i], 1 * p[i])
    <3>1. i \in Int /\ i = 1 * i
      BY PeriodIs DEF Coef
    <3>2. p[i] \in Int /\ 1 * p[i] = p[i]
      BY PolyIs
    <3> QED
      BY <3>1, <3>2, SameIt DEF Multiple
  <2> QED
    BY <2>5, <2>6 DEF Traced
<1>2. ASSUME NEW d \in 0 .. E - 1, d \in S
      PROVE  d + 1 \in S
  <2> DEFINE n == E - (d + 1)
             u == 2 ^ n
             D == 2 ^ d
  <2>1. d \in 0 .. E /\ d < E /\ d + 1 \in 0 .. E /\ n \in 0 .. N
    BY <1>0, PeriodIs
  <2>2. 2 ^ (E - d) = 2 * u /\ 2 ^ (d + 1) = 2 * D /\ u \in Nat \ {0} /\ D \in Nat \ {0} /\ (2 * u) * D = 2 ^ E
    BY <2>1, PowersMultiply
  <2> SUFFICES ASSUME NEW p \in Poly PROVE Traced(p, Trace(p, u, 2 * D), 2 * D)
    BY <2>1, <2>2
  <2>3. \A q \in Poly : Traced(q, Trace(q, 2 * u, D), D)
    BY <1>2, <2>2
  <2> HIDE DEF D, n
  <2>4. N = (4 * u) * D
    <3> HIDE DEF u
    <3>1. 2 * ((2 * u) * D) = (4 * u) * D
      BY <2>2, SMT
    <3> QED
      BY <2>2, <3>1
  <2> DEFINE q == Plus(p, Galois(GaloisElement(u), p))
             t == Trace(p, u, 2 * D)
  <2>5. /\ q \in Poly
        /\ \A i \in Coef, j \in Int : /\ i = D * (2 * j) => Same(q[i], 2 * p[i])
                                      /\ i = D * (2 * j + 1) => Same(q[i], 0)
    BY <2>1, <2>2, <2>4, HalfTurn
  <2>6. t = Trace(q, 2 * u, D)
    BY <2>2, TraceInPairs
  <2>7. Traced(q, t, D)
    BY <2>3, <2>5, <2>6
  <2> HIDE DEF q, t, u
  <2> SUFFICES ASSUME NEW i \in Coef
               PROVE  /\ Multiple(i, 2 * D) => Same(t[i], (2 * D) * p[i])
                      /\ ~Multiple(i, 2 * D) => Same(t[i], 0)
    BY <2>7 DEF Traced, t
  <2>8. /\ t \in Poly
        /\ Multiple(i, D) => Same(t[i], D * q[i])
        /\ ~Multiple(i, D) => Same(t[i], 0)
    BY <2>7 DEF Traced
  <2>9. t[i] \in Int /\ q[i] \in Int /\ p[i] \in Int /\ D \in Int
    BY <2>2, <2>5, <2>8, PolyIs
  <2>10. ASSUME Multiple(i, 2 * D) PROVE Same(t[i], (2 * D) * p[i])
    <3>1. PICK j \in Int : i = (2 * D) * j
      BY <2>10 DEF Multiple
    <3>2. i = D * (2 * j) /\ 2 * j \in Int
      BY <2>9, <3>1
    <3>3. Multiple(i, D)
      BY <3>2 DEF Multiple
    <3>4. Same(q[i], 2 * p[i]) /\ Same(t[i], D * q[i])
      BY <2>5, <2>8, <3>2, <3>3
    <3> DEFINE x == p[i]
               y == q[i]
    <3>5. x \in Int /\ y \in Int /\ 2 * x \in Int /\ Same(y, 2 * x)
      BY <2>9, <3>4
    <3> HIDE DEF x, y
    <3>6. Same(D * y, D * (2 * x)) /\ D * y \in Int /\ D * (2 * x) \in Int
      BY <2>9, <3>5, SameIt, SameProduct, IntProduct
    <3>7. D * (2 * x) = (2 * D) * x
      BY <2>9, <3>5
    <3>8. Same(t[i], D * (2 * x))
      BY <2>9, <3>4, <3>6, SameTrans DEF y
    <3> QED
      BY <3>7, <3>8 DEF x
  <2>11. ASSUME ~Multiple(i, 2 * D) PROVE Same(t[i], 0)
    <3>1. CASE ~Multiple(i, D)
      BY <2>8, <3>1
    <3>2. CASE Multiple(i, D)
      <4>1. PICK m \in Int : i = D * m
        BY <3>2 DEF Multiple
      <4>2. PICK j \in Int : m = 2 * j \/ m = 2 * j + 1
        BY EvenOrOdd
      <4>3. m # 2 * j
        <5> SUFFICES ASSUME m = 2 * j PROVE FALSE
          OBVIOUS
        <5>1. i = (2 * D) * j
          BY <2>9, <4>1
        <5> QED
          BY <2>11, <5>1 DEF Multiple
      <4>4. i = D * (2 * j + 1)
        BY <4>1, <4>2, <4>3
      <4>5. Same(q[i], 0) /\ Same(t[i], D * q[i])
        BY <2>5, <2>8, <3>2, <4>4
      <4> DEFINE y == q[i]
      <4>6. y \in Int /\ Same(y, 0)
        BY <2>9, <4>5
      <4> HIDE DEF y
      <4>7. D * y \in Int /\ D * 0 = 0 /\ Same(D, D)
        BY <2>9, <4>6, SameIt, IntProduct
      <4>8. Same(D * y, D * 0)
        BY <2>9, <4>6, <4>7, SameProduct, 0 \in Int
      <4>9. Same(D * y, 0) /\ Same(t[i], D * y)
        BY <4>5, <4>7, <4>8 DEF y
      <4> QED
        BY <2>9, <4>7, <4>9, SameTrans
    <3> QED
      BY <3>1, <3>2
  <2> QED
    BY <2>10, <2>11
<1> HIDE DEF S
<1>3. 0 .. E \subseteq S
  BY <1>0, <1>1, <1>2, StepsReachAll
<1> QED
  BY <1>3 DEF S

\* Zero is the only multiple of n nearer to zero than n.
LEMMA NearestMultiple ==
  ASSUME NEW n \in Nat \ {0}, NEW m \in Int, NEW e \in Int, e = n * m, -n < e, e < n
  PROVE  e = 0 /\ m = 0
<1>1. CASE m = 0
  BY <1>1
<1>2. CASE m >= 1
  <2>1. n * m >= n
    BY <1>2
  <2> QED
    BY <2>1
<1>3. CASE m <= -1
  <2>1. n * m <= -n
    BY <1>3
  <2> QED
    BY <2>1
<1> QED
  BY <1>1, <1>2, <1>3

\* The shapes of a call, as powers of two.
LEMMA PowersOfCall ==
  ASSUME call \in Cases
  PROVE  \E E \in 0 .. N - 1 : \E d \in 0 .. E :
           /\ N = 2 * 2 ^ E /\ 2 ^ E \in Nat \ {0}
           /\ Columns = 2 ^ d /\ Stride = 2 ^ (E - d) /\ N = Columns * (2 * Stride)
           /\ IF call.partial THEN call.gamma = Columns ELSE call.gamma = N /\ d = E
<1>1. PICK E \in 0 .. N - 1 : N = 2 * 2 ^ E /\ 2 ^ E \in Nat \ {0} /\ N \div 2 = 2 ^ E
  BY DegreeIs
<1>2. N \in Nat \ {0} /\ E \in Nat
  BY PeriodIs
<1>3. /\ call \in Case
      /\ \E e \in 0 .. N : call.gamma = 2 ^ e
      /\ IF call.partial THEN call.gamma <= N \div 2 ELSE call.gamma = N
  BY CasesAssumption
<1>4. call.gamma \in 1 .. N /\ call.partial \in BOOLEAN
  BY <1>3 DEF Case
<1> DEFINE M == 2 ^ E
<1>5. CASE ~call.partial
  <2>1. Columns = M /\ Stride = 1 /\ E \in 0 .. E /\ E - E = 0 /\ call.gamma = N
    BY <1>1, <1>2, <1>3, <1>5 DEF Columns, Stride
  <2>2. N = M * (2 * 1)
    <3> HIDE DEF M
    <3> QED
      BY <1>1 DEF M
  <2> QED
    BY <1>1, <1>5, <2>1, <2>2, TwoTo
<1>6. CASE call.partial
  <2>1. PICK e \in 0 .. N : call.gamma = 2 ^ e
    BY <1>3
  <2>2. 2 ^ e \in Nat \ {0} /\ e < 2 ^ e
    BY <2>1, TwoTo
  <2>3. e \in 0 .. N - 1
    BY <1>2, <1>4, <2>1, <2>2
  <2>4. e <= E
    <3> SUFFICES ASSUME E < e PROVE FALSE
      BY <1>2, <2>3
    <3> DEFINE k == e - E
               x == 2 ^ k
    <3>1. E \in 0 .. e /\ e - k = E /\ k \in 0 .. e /\ k \in 0 .. N /\ k >= 1
      BY <1>2, <2>3
    <3>2. x * M = 2 ^ e
      BY <2>3, <3>1, PowersMultiply
    <3> HIDE DEF k, M
    <3>3. x \in Nat /\ x > k
      BY <3>1, TwoTo
    <3> HIDE DEF x
    <3>4. M \in Nat \ {0} /\ x >= 2
      BY <1>1, <3>1, <3>3 DEF M
    <3>5. x * M >= 2 * M
      BY <3>3, <3>4, ProductMonotone
    <3>6. 2 ^ e <= M
      BY <1>1, <1>3, <1>6, <2>1 DEF M
    <3> QED
      BY <3>2, <3>4, <3>5, <3>6
  <2> DEFINE D == 2 ^ e
             s == 2 ^ (E - e)
  <2>5. e \in 0 .. E /\ s \in Nat \ {0} /\ D \in Nat \ {0} /\ s * D = M
    BY <1>2, <2>3, <2>4, PowersMultiply
  <2>6. Columns = D /\ Stride = M \div D /\ call.gamma = D
    BY <1>1, <1>6, <2>1 DEF Columns, Stride
  <2> HIDE DEF D, s, M
  <2>7. M = D * s + 0 /\ 0 \in 0 .. D - 1 /\ M \in Int
    BY <2>5
  <2>8. M \div D = s
    BY <2>5, <2>7, QuotientIs
  <2>9. 2 * M = D * (2 * s)
    BY <2>5, <2>7, SMT
  <2> QED
    BY <1>1, <1>6, <2>5, <2>6, <2>8, <2>9 DEF D, s, M
<1> QED
  BY <1>4, <1>5, <1>6

\* A polynomial that is zero around its constant term.
LEMMA AtNear ==
  ASSUME NEW t \in Poly, NEW g \in 1 .. N,
         \A i \in Coef : i # 0 /\ (i < g \/ N - g < i) => Same(t[i], 0)
  PROVE  At(t, 0) = t[0] /\ \A e \in Int : e # 0 /\ -g < e /\ e < g => Same(At(t, e), 0)
<1> DEFINE A == Unrolled(t)
<1>1. N \in Nat \ {0} /\ Q \in Nat \ {0, 1}
  BY PeriodIs
<1>2. A \in Signal /\ \A i \in Coef : t[i] \in 0 .. Q - 1 /\ t[i] \in Int /\ A[i] = t[i]
  BY PolyIs
<1>3. At(t, 0) = t[0]
  <2>1. 0 % (2 * N) = 0
    BY <1>1
  <2> QED
    BY <1>1, <2>1 DEF At
<1>4. ASSUME NEW e \in Int, e # 0, -g < e, e < g
      PROVE  Same(At(t, e), 0)
  <2>1. Same(At(t, e), A[e]) /\ At(t, e) \in Int /\ A[e] \in Int
    BY <1>2, AtIs, SignalTurns
  <2>2. CASE e > 0
    <3>1. e \in Coef /\ e # 0 /\ e < g
      BY <1>1, <1>4, <2>2 DEF Coef
    <3>2. Same(A[e], 0)
      BY <1>2, <3>1
    <3> QED
      BY <2>1, <3>2, SameTrans
  <2>3. CASE e < 0
    <3> DEFINE i == e + N
    <3>1. i \in Coef /\ i # 0 /\ N - g < i
      BY <1>1, <1>4, <2>3 DEF Coef
    <3>2. A[i] = -A[e]
      BY <1>2, SignalTurns
    <3> HIDE DEF i
    <3>3. Same(A[i], 0) /\ A[i] \in Int
      BY <1>2, <3>1
    <3> DEFINE x == A[e]
               y == A[i]
    <3>4. x \in Int /\ y \in Int /\ x = 0 - y /\ Same(y, 0)
      BY <2>1, <3>2, <3>3
    <3> HIDE DEF x, y
    <3>5. Same(0 - y, 0 - 0)
      BY <3>4, SameIt, SameSum
    <3>6. Same(x, 0)
      BY <3>4, <3>5
    <3> QED
      BY <2>1, <3>6, SameTrans DEF x
  <2> QED
    BY <1>4, <2>2, <2>3
<1> QED
  BY <1>3, <1>4

\* The conjugation reads a polynomial backwards.
LEMMA ConjugateIs ==
  ASSUME NEW a \in Poly
  PROVE  /\ Unit(-1) /\ Galois(-1, a) \in Poly
         /\ Equal(GaloisInv(-1), -1) /\ GaloisInv(-1) \in Int
         /\ \A i \in Coef : -i \in Int /\ Same(Galois(-1, a)[i], Unrolled(a)[-i])
<1>1. Unit(-1) /\ -1 \in Int
  BY UnitOne, UnitMinus
<1> DEFINE v == GaloisInv(-1)
           b == Galois(-1, a)
           A == Unrolled(a)
<1>2. v \in Int /\ Equal(v, -1)
  <2>1. (-1) * (-1) = 1
    OBVIOUS
  <2>2. Equal((-1) * (-1), 1)
    BY <2>1, EqualLaws
  <2>3. Equal(-1, v) /\ v \in Int
    BY <1>1, <2>2, InverseIs, UnitInverse
  <2> QED
    BY <1>1, <2>3, EqualLaws
<1>3. b \in Poly /\ A \in Signal
  BY <1>1, GaloisUnrolled, PolyIs
<1>4. ASSUME NEW i \in Coef PROVE -i \in Int /\ Same(b[i], A[-i])
  <2>1. i \in Int /\ -i \in Int
    BY PeriodIs DEF Coef
  <2>2. i * v \in Int /\ b[i] = At(a, i * v)
    BY <1>1, GaloisUnrolled
  <2>3. Equal(i * v, i * (-1))
    BY <1>1, <1>2, <2>1, EqualLaws
  <2>4. i * (-1) = -i
    BY <2>1
  <2> HIDE DEF A, b, v
  <2>5. A[i * v] = A[-i]
    BY <1>3, <2>1, <2>2, <2>3, <2>4, SignalEqual
  <2>6. Same(At(a, i * v), A[i * v])
    BY <2>2, AtIs DEF A
  <2> QED
    BY <2>1, <2>2, <2>5, <2>6
<1> QED
  BY <1>1, <1>2, <1>3, <1>4

\* What the elements of one half, and of all halves, make of a polynomial.
HalfTrace(p) == Trace(p, Stride, Columns)
WholeTrace(p) == IF call.partial THEN HalfTrace(p) ELSE Plus(HalfTrace(p), Galois(-1, HalfTrace(p)))

\* Where a multiple of half the degree stands.
LEMMA MiddleIs ==
  ASSUME NEW M \in Nat \ {0}, N = 2 * M, NEW i \in Coef, i # 0
  PROVE  /\ N - i \in Coef /\ i \in Int
         /\ Multiple(i, M) => N - i = i
         /\ Multiple(N - i, M) => Multiple(i, M)
<1>1. i \in 1 .. N - 1 /\ N - i \in Coef /\ i \in Int
  BY PeriodIs DEF Coef
<1>2. ASSUME Multiple(i, M) PROVE N - i = i
  <2>1. PICK m \in Int : i = M * m
    BY <1>2 DEF Multiple
  <2> DEFINE e == i - M
  <2>2. e \in Int /\ e = M * (m - 1) /\ -M < e /\ e < M /\ m - 1 \in Int
    <3>1. M * (m - 1) = M * m - M
      BY <1>1
    <3> QED
      BY <1>1, <2>1, <3>1
  <2> HIDE DEF e
  <2>3. e = 0
    BY <2>2, NearestMultiple
  <2> QED
    BY <1>1, <2>3 DEF e
<1>3. ASSUME Multiple(N - i, M) PROVE Multiple(i, M)
  <2>1. PICK m \in Int : N - i = M * m
    BY <1>3 DEF Multiple
  <2>2. i = M * (2 - m) /\ 2 - m \in Int
    <3>1. M * (2 - m) = 2 * M - M * m
      OBVIOUS
    <3> QED
      BY <1>1, <2>1, <3>1
  <2> QED
    BY <2>2 DEF Multiple
<1> QED
  BY <1>1, <1>2, <1>3

\* All elements together leave the constant term, as often as there are ciphertexts.
LEMMA WholeTraceIs ==
  ASSUME call \in Cases, NEW p \in Poly
  PROVE  LET t == WholeTrace(p)
         IN  /\ t \in Poly /\ 0 \in Coef
             /\ Same(At(t, 0), call.gamma * p[0])
             /\ \A e \in Int : e # 0 /\ -call.gamma < e /\ e < call.gamma => Same(At(t, e), 0)
<1> DEFINE h == HalfTrace(p)
           t == WholeTrace(p)
           g == call.gamma
<1>1. PICK E \in 0 .. N - 1 : \E d \in 0 .. E :
        /\ N = 2 * 2 ^ E /\ 2 ^ E \in Nat \ {0}
        /\ Columns = 2 ^ d /\ Stride = 2 ^ (E - d) /\ N = Columns * (2 * Stride)
        /\ IF call.partial THEN g = Columns ELSE g = N /\ d = E
  BY PowersOfCall
<1>0. PICK d \in 0 .. E :
        /\ Columns = 2 ^ d /\ Stride = 2 ^ (E - d) /\ N = Columns * (2 * Stride)
        /\ IF call.partial THEN g = Columns ELSE g = N /\ d = E
  BY <1>1
<1>2. Traced(p, h, Columns)
  BY <1>0, <1>1, TraceIs DEF HalfTrace
<1>3. /\ N \in Nat \ {0} /\ 0 \in Coef /\ Columns \in Nat \ {0} /\ Stride \in Nat \ {0} /\ g \in 1 .. N
      /\ call.partial \in BOOLEAN
  BY PeriodIs, CallIs DEF Coef
<1>4. h \in Poly /\ Multiple(0, Columns)
  <2>1. 0 = Columns * 0
    BY <1>3
  <2> QED
    BY <1>2, <2>1 DEF Traced, Multiple
<1>5. Same(h[0], Columns * p[0]) /\ h[0] \in Int /\ p[0] \in Int
  BY <1>2, <1>3, <1>4, PolyIs DEF Traced
<1>6. ASSUME t \in Poly, Same(t[0], g * p[0]),
             \A i \in Coef : i # 0 /\ (i < g \/ N - g < i) => Same(t[i], 0)
      PROVE  /\ t \in Poly /\ 0 \in Coef
             /\ Same(At(t, 0), g * p[0])
             /\ \A e \in Int : e # 0 /\ -g < e /\ e < g => Same(At(t, e), 0)
  <2> HIDE DEF t, g
  <2>1. At(t, 0) = t[0] /\ \A e \in Int : e # 0 /\ -g < e /\ e < g => Same(At(t, e), 0)
    BY <1>3, <1>6, AtNear
  <2> QED
    BY <1>3, <1>6, <2>1
<1>7. CASE call.partial
  <2>1. t = h /\ g = Columns
    BY <1>0, <1>7 DEF WholeTrace
  <2>2. ASSUME NEW i \in Coef, i # 0, i < g \/ N - g < i
        PROVE  Same(h[i], 0)
    <3>1. ~Multiple(i, Columns)
      <4> SUFFICES ASSUME Multiple(i, Columns) PROVE FALSE
        OBVIOUS
      <4>1. PICK m \in Int : i = Columns * m
        BY DEF Multiple
      <4>2. i \in 1 .. N - 1
        BY <1>3, <2>2 DEF Coef
      <4> HIDE DEF g
      <4>3. CASE i < g
        <5>1. i \in Int /\ -Columns < i /\ i < Columns
          BY <1>3, <2>1, <4>2, <4>3
        <5> QED
          BY <1>3, <4>1, <4>2, <5>1, NearestMultiple
      <4>4. CASE N - g < i
        <5> DEFINE e == i - N
                   k == m - 2 * Stride
        <5>1. e \in Int /\ -Columns < e /\ e < Columns /\ e # 0 /\ k \in Int
          BY <1>3, <2>1, <4>2, <4>4
        <5>2. e = Columns * k
          <6>1. Columns * (m - 2 * Stride) = Columns * m - Columns * (2 * Stride)
            BY <1>3
          <6> QED
            BY <1>0, <4>1, <6>1
        <5> HIDE DEF e, k
        <5> QED
          BY <1>3, <5>1, <5>2, NearestMultiple
      <4> QED
        BY <2>2, <4>3, <4>4
    <3> QED
      BY <1>2, <3>1 DEF Traced
  <2> QED
    BY <1>4, <1>5, <1>6, <2>1, <2>2
<1>8. CASE ~call.partial
  <2> DEFINE c == Galois(-1, h)
             M == 2 ^ E
             A == Unrolled(h)
  <2>1. t = Plus(h, c) /\ g = N /\ Columns = M /\ N = 2 * M /\ M \in Nat \ {0}
    BY <1>0, <1>1, <1>8 DEF WholeTrace
  <2>2. /\ c \in Poly /\ A \in Signal /\ t \in Poly
        /\ \A i \in Coef : -i \in Int /\ Same(c[i], A[-i])
    BY <1>4, <2>1, ConjugateIs, PolyIs, PlusIs
  <2> HIDE DEF M, c, A, g, t, h
  <2>3. ASSUME NEW i \in Coef, NEW x \in Int, Same(h[i], x), Same(A[-i], -x)
        PROVE  Same(t[i], 0)
    <3> DEFINE y == -x
               v == A[-i]
    <3>1. /\ h[i] \in Int /\ c[i] \in Int /\ t[i] \in Int /\ v \in Int /\ y \in Int /\ x + y = 0
          /\ Same(c[i], v) /\ Same(v, y) /\ Same(t[i], h[i] + c[i])
      <4>1. h[i] \in Int /\ c[i] \in Int /\ t[i] \in Int
        BY <1>4, <2>2, PolyIs
      <4>2. v \in Int
        BY <2>2, SignalTurns
      <4>3. Same(t[i], h[i] + c[i])
        BY <1>4, <2>1, <2>2, PlusIs
      <4>4. y \in Int /\ x + y = 0
        OBVIOUS
      <4>5. Same(c[i], v)
        BY <2>2
      <4>6. Same(v, y)
        BY <2>3
      <4> QED
        BY <4>1, <4>2, <4>3, <4>4, <4>5, <4>6
    <3> HIDE DEF y, v
    <3>2. Same(c[i], y)
      BY <3>1, SameTrans
    <3>3. Same(h[i] + c[i], x + y)
      BY <2>3, <3>1, <3>2, SameSum
    <3> QED
      BY <3>1, <3>3, SameTrans
  <2>4. ASSUME NEW i \in Coef, i # 0
        PROVE  Same(t[i], 0)
    <3> DEFINE j == N - i
    <3>1. /\ j \in Coef /\ i \in Int /\ -i \in Int
          /\ Multiple(i, M) => j = i
          /\ Multiple(j, M) => Multiple(i, M)
      BY <2>1, <2>2, <2>4, MiddleIs
    <3>2. A[j] = -A[-i] /\ A[-i] \in Int
      <4>1. -i + N = j
        BY <1>3, <3>1
      <4> QED
        BY <2>2, <3>1, <4>1, SignalTurns
    <3>3. A[j] = h[j] /\ h[j] \in Int /\ h[i] \in Int
      BY <1>4, <3>1, PolyIs DEF A
    <3>4. A[-i] = -h[j]
      BY <3>2, <3>3
    <3> HIDE DEF j
    <3>5. CASE Multiple(i, M)
      <4>1. Same(h[i], h[i]) /\ Same(A[-i], -h[i])
        <5>1. -h[i] \in Int
          BY <3>3
        <5> QED
          BY <3>1, <3>3, <3>4, <3>5, <5>1, SameIt
      <4> QED
        BY <2>3, <3>3, <4>1
    <3>6. CASE ~Multiple(i, M)
      <4>1. Same(h[i], 0) /\ Same(h[j], 0)
        BY <1>2, <2>1, <3>1, <3>6 DEF Traced
      <4> DEFINE y == h[j]
      <4>2. y \in Int /\ Same(y, 0) /\ A[-i] = -y
        BY <3>3, <3>4, <4>1
      <4> HIDE DEF y
      <4>3. Same(0 - y, 0 - 0)
        BY <4>2, SameIt, SameSum
      <4>4. Same(A[-i], -0)
        BY <4>2, <4>3
      <4> QED
        BY <2>3, <4>1, <4>4
    <3> QED
      BY <3>5, <3>6
  <2>5. Same(t[0], g * p[0])
    <3>0. -0 = 0
      <4>1. \A x \in Int : -x \in Int /\ x + (-x) = 0
        OBVIOUS
      <4>2. \A x \in Int : 0 + x = x
        OBVIOUS
      <4> QED
        BY <4>1, <4>2, 0 \in Int
    <3>7. A[0] = h[0]
      BY <1>3, <1>4, PolyIs DEF A
    <3>8. Same(c[0], A[-0])
      BY <1>3, <2>2
    <3>1. A[0] = h[0] /\ Same(c[0], h[0])
      BY <3>0, <3>7, <3>8
    <3> DEFINE x == h[0]
               y == M * p[0]
    <3>2. /\ c[0] \in Int /\ t[0] \in Int /\ x \in Int /\ y \in Int
          /\ Same(c[0], x) /\ Same(x, y) /\ Same(t[0], x + c[0])
      BY <1>3, <1>4, <1>5, <2>1, <2>2, <3>1, PolyIs, PlusIs, IntProduct
    <3>3. y + y = g * p[0]
      <4> DEFINE z == p[0]
      <4>1. z \in Int
        BY <1>5
      <4> HIDE DEF z
      <4>2. M * z + M * z = (2 * M) * z
        BY <2>1, <4>1
      <4> QED
        BY <2>1, <4>2 DEF z
    <3> HIDE DEF x, y
    <3>4. Same(c[0], y)
      BY <3>2, SameTrans
    <3>5. Same(x + c[0], y + y)
      BY <3>2, <3>4, SameSum
    <3>6. Same(t[0], y + y)
      BY <3>2, <3>5, SameTrans
    <3> QED
      BY <3>3, <3>6
  <2> QED
    BY <1>6, <2>2, <2>4, <2>5 DEF g, t
<1> QED
  BY <1>3, <1>7, <1>8

\* The constant term of a product with a conjugate is a scalar product.
LEMMA ScalarProduct ==
  ASSUME NEW a \in Poly, NEW s \in Poly
  PROVE  LET p == Times(Galois(-1, a), s)
         IN  p \in Poly /\ p[0] \in Int /\ Sum([i \in Coef |-> a[i] * s[i]], N) \in Int
             /\ Same(p[0], Sum([i \in Coef |-> a[i] * s[i]], N))
<1> DEFINE b == Galois(-1, a)
           p == Times(b, s)
           v == GaloisInv(-1)
           A == Unrolled(a)
           S == Unrolled(s)
           D == Twist(A, v)
           R == Twist(S, v)
           F == Terms(A, R, 0)
           G == Terms(D, S, 0)
           f == [i \in Coef |-> a[i] * s[i]]
<1>1. Unit(-1) /\ b \in Poly /\ v \in Int /\ Equal(v, -1) /\ -1 \in Int
  BY ConjugateIs
<1>2. p \in Poly /\ Alike(Unrolled(p), Conv(Unrolled(b), S))
  BY <1>1, TimesUnrolled
<1>3. A \in Signal /\ S \in Signal /\ D \in Signal /\ R \in Signal /\ Unrolled(b) \in Signal
      /\ Alike(Unrolled(b), D) /\ Unrolled(p) \in Signal
  BY <1>1, <1>2, PolyIs, TwistIs, GaloisUnrolled
<1>4. \A e \in Int : /\ -e \in Int /\ D[e] = A[-e] /\ R[-e] = S[e] /\ A[e] \in Int /\ S[e] \in Int
                     /\ A[-e] \in Int /\ S[-e] \in Int
  <2> SUFFICES ASSUME NEW e \in Int
               PROVE  /\ -e \in Int /\ D[e] = A[-e] /\ R[-e] = S[e] /\ A[e] \in Int /\ S[e] \in Int
                      /\ A[-e] \in Int /\ S[-e] \in Int
    OBVIOUS
  <2>1. -e \in Int /\ e * (-1) = -e /\ (-e) * (-1) = e
    OBVIOUS
  <2>2. D[e] = A[e * v] /\ R[-e] = S[(-e) * v] /\ e * v \in Int /\ (-e) * v \in Int
    BY <1>1, <1>3, <2>1, TwistIs
  <2>3. Equal(e * v, e * (-1)) /\ Equal((-e) * v, (-e) * (-1))
    BY <1>1, <2>1, EqualLaws
  <2> HIDE DEF A, S, D, R, v
  <2>4. Equal(e * v, -e) /\ Equal((-e) * v, e)
    BY <2>1, <2>3
  <2>5. A[e * v] = A[-e]
    BY <1>3, <2>1, <2>2, <2>4, SignalEqual
  <2>6. S[(-e) * v] = S[e]
    BY <1>3, <2>1, <2>2, <2>4, SignalEqual
  <2> QED
    BY <1>3, <2>1, <2>2, <2>5, <2>6, SignalTurns
<1> HIDE DEF p, b, v, A, S, D, R
<1>5. Repeats(F)
  BY <1>3, TermsRepeat
<1>6. ASSUME NEW k \in Int PROVE F[k] = A[k] * S[k] /\ G[k] = A[-k] * S[-k]
  <2>1. 0 - k = -k
    OBVIOUS
  <2>2. F[k] = A[k] * R[0 - k] /\ G[k] = D[k] * S[0 - k]
    BY DEF Terms
  <2> QED
    BY <1>4, <2>1, <2>2
<1>7. Sum(G, N) = Sum(F, N)
  <2>1. Inverses(-1, -1)
    <3>1. (-1) * (-1) = 1 + N * 0
      BY PeriodIs
    <3> QED
      BY <3>1 DEF Inverses, Congruent
  <2>2. Turned(G, F, -1, 0)
    <3> SUFFICES ASSUME NEW k \in 0 .. N - 1 PROVE G[k] = F[(-1) * k + 0]
      BY DEF Turned
    <3>1. k \in Int /\ -k \in Int /\ (-1) * k + 0 = -k
      BY PeriodIs
    <3> QED
      BY <1>6, <3>1
  <2> HIDE DEF F, G
  <2> QED
    BY <1>1, <1>5, <2>1, <2>2, SumTurned, 0 \in Int
<1>8. Sum(F, N) = Sum(f, N)
  <2>1. N \in Nat /\ Coef = 0 .. N - 1
    BY PeriodIs DEF Coef
  <2>2. \A i \in 0 .. N - 1 : F[i] = f[i]
    <3> SUFFICES ASSUME NEW i \in 0 .. N - 1 PROVE F[i] = f[i]
      OBVIOUS
    <3>1. i \in Coef /\ i \in Int
      BY <2>1
    <3>2. A[i] = a[i] /\ S[i] = s[i]
      BY <3>1, PolyIs DEF A, S
    <3> HIDE DEF F
    <3> QED
      BY <1>6, <3>1, <3>2
  <2> HIDE DEF F, f
  <2> QED
    BY <2>1, <2>2, SumSame
<1>9. Same(p[0], Conv(D, S)[0]) /\ Conv(D, S)[0] = Sum(G, N) /\ Sum(G, N) \in Int /\ p[0] \in Int
  <2>1. Alike(S, S)
    BY <1>3, AlikeEqual
  <2>2. Alike(Conv(Unrolled(b), S), Conv(D, S))
    BY <1>3, <2>1, ConvAlike
  <2>3. Alike(Unrolled(p), Conv(D, S))
    BY <1>2, <1>3, <2>2, ConvIsSignal, AlikeTrans
  <2>4. 0 \in Int /\ 0 \in Coef
    BY PeriodIs DEF Coef
  <2>5. Unrolled(p)[0] = p[0] /\ p[0] \in Int
    BY <1>2, <2>4, PolyIs
  <2>6. Same(Unrolled(p)[0], Conv(D, S)[0])
    BY <2>3, <2>4 DEF Alike
  <2>7. Conv(D, S)[0] = Sum(G, N) /\ Conv(D, S)[0] \in Int
    BY <1>3, <2>4, ConvAt
  <2> QED
    BY <2>5, <2>6, <2>7
<1> QED
  BY <1>2, <1>7, <1>8, <1>9 DEF p, b

\* What ciphertext k contributes: its mask, read backwards, times the secret.
Product(k) == Times(Galois(-1, LweMask(k)), Secret)

\* The image of every contribution under an element, each at its place.
Placed(e) == [k \in Rows |-> Rotate(k, Galois(e, Product(k)))]

\* Column c of the aggregate, decrypted.
LEMMA ColumnPhase ==
  ASSUME call \in Cases, NEW c \in Nat, NEW hf \in {0, 1}
  PROVE  /\ Polys(Placed(Element(c, hf)), call.gamma)
         /\ \A k \in Rows : Product(k) \in Poly /\ Galois(Element(c, hf), Product(k)) \in Poly
         /\ Times(Reference(c, hf), ColumnSecret(c, hf))
              = Scale(InvModQ(call.gamma), PlusUpTo(Placed(Element(c, hf)), call.gamma))
<1> DEFINE e == Element(c, hf)
           x == HList(c)
           g == IF hf = 0 THEN -x ELSE x
           s == Secret
           u == Galois(e, s)
           n == call.gamma
           f == Shifted(g)
           r == Placed(e)
<1>1. n \in Nat /\ Rows = 0 .. n - 1 /\ InvModQ(n) \in Int
  BY CallIs, InverseOfGamma DEF Rows
<1>2. /\ s \in Poly
      /\ \A k \in Rows : LweMask(k) \in Poly /\ k \in Int
  BY InputsAre
<1>3. Unit(e) /\ e \in Int /\ Unit(x) /\ Unit(-x) /\ x \in Int
  BY ElementIs, ReferenceIs
<1>4. ColumnSecret(c, hf) = u /\ u \in Poly
  BY <1>2, <1>3, ElementIs, GaloisUnrolled DEF ColumnSecret
<1>5. Unit(g) /\ g = e * (-1) /\ Reference(c, hf) = Column(g)
  <2>1. hf = 0 => e = x
    BY DEF Element, HList
  <2>2. hf = 1 => e = -x
    BY DEF Element, HList
  <2>3. Reference(c, hf) = Column(g)
    BY DEF Reference
  <2> HIDE DEF e, x
  <2> QED
    BY <1>3, <2>1, <2>2, <2>3
<1>6. Polys(f, n) /\ PlusUpTo(f, n) \in Poly /\ Column(g) = Scale(InvModQ(n), PlusUpTo(f, n))
  BY <1>5, ShiftedIs DEF Column
<1>7. ASSUME NEW k \in Rows
      PROVE  /\ Product(k) \in Poly /\ Galois(e, Product(k)) \in Poly /\ r[k] \in Poly
             /\ r[k] = Times(f[k], u)
  <2> DEFINE a == LweMask(k)
             b == Galois(-1, a)
             p == Product(k)
  <2>1. a \in Poly /\ k \in Int /\ Unit(-1) /\ b \in Poly /\ p \in Poly /\ p = Times(b, s)
    BY <1>2, ConjugateIs, TimesUnrolled DEF Product
  <2>2. Galois(e, p) \in Poly /\ Galois(e, b) \in Poly /\ r[k] = Rotate(k, Galois(e, p)) /\ f[k] = Rotate(k, Galois(g, a))
    BY <1>3, <2>1, GaloisUnrolled DEF Placed, Shifted
  <2> HIDE DEF p, a, b, e, r, f, g, s
  <2>3. Galois(g, a) = Galois(e, b)
    BY <1>3, <1>5, <2>1, GaloisTwice DEF b
  <2>4. Galois(e, p) = Times(Galois(e, b), u)
    BY <1>2, <1>3, <2>1, GaloisTimes
  <2>5. r[k] = Times(f[k], u)
    BY <1>4, <2>1, <2>2, <2>3, <2>4, RotateTimes
  <2>6. r[k] \in Poly
    BY <2>1, <2>2, RotatePlus
  <2> QED
    BY <2>1, <2>2, <2>5, <2>6 DEF p
<1> HIDE DEF e, g, s, u, f, r
<1>8. Polys(r, n) /\ PlusUpTo(r, n) = Times(PlusUpTo(f, n), u)
  BY <1>1, <1>4, <1>6, <1>7, SumOfTimes
<1>9. Times(Scale(InvModQ(n), PlusUpTo(f, n)), u) = Scale(InvModQ(n), Times(PlusUpTo(f, n), u))
  BY <1>1, <1>4, <1>6, ScaleTimes
<1> QED
  BY <1>4, <1>5, <1>6, <1>7, <1>8, <1>9 DEF e, r

\* The elements of one half, applied to one contribution.
Images(hf, k) ==
  PlusUpTo([c \in 0 .. HalfSteps |-> Galois(Element(c, hf), Product(k))], HalfSteps + 1)

\* A half decrypts to the images of the contributions, each at its place.
LEMMA HalfPhaseIs ==
  ASSUME call \in Cases, NEW hf \in {0, 1}
  PROVE  LET w == [k \in Rows |-> Rotate(k, Images(hf, k))]
         IN  /\ Polys(w, call.gamma) /\ \A k \in Rows : Images(hf, k) \in Poly
             /\ HalfPhase(hf) = Scale(InvModQ(call.gamma), PlusUpTo(w, call.gamma))
<1> DEFINE n == call.gamma
           m == HalfSteps + 1
           i == InvModQ(n)
           table == [c \in 0 .. HalfSteps |-> Placed(Element(c, hf))]
           turned == [k \in Rows |-> [c \in 0 .. HalfSteps |-> table[c][k]]]
           rows == [c \in 0 .. HalfSteps |-> PlusUpTo(table[c], n)]
           cols == [k \in Rows |-> PlusUpTo(turned[k], m)]
           w == [k \in Rows |-> Rotate(k, Images(hf, k))]
           f == [c \in 0 .. HalfSteps |-> Times(Reference(c, hf), ColumnSecret(c, hf))]
<1>1. n \in Nat /\ Rows = 0 .. n - 1 /\ i \in Int /\ HalfSteps \in Nat /\ m \in Nat /\ 0 .. HalfSteps = 0 .. m - 1
  BY CallIs, InverseOfGamma DEF Rows
<1>2. ASSUME NEW c \in 0 .. HalfSteps
      PROVE  /\ Polys(table[c], n)
             /\ \A k \in Rows : Product(k) \in Poly /\ Galois(Element(c, hf), Product(k)) \in Poly
             /\ f[c] = Scale(i, rows[c])
  <2>1. c \in Nat
    BY <1>1
  <2> QED
    BY <2>1, ColumnPhase
<1>3. PolysOfTable(table, turned, m, n, rows, cols)
  <2>1. \A c \in 0 .. m - 1 : Polys(table[c], n) /\ rows[c] = PlusUpTo(table[c], n)
    BY <1>1, <1>2
  <2>2. \A k \in 0 .. n - 1 : cols[k] = PlusUpTo(turned[k], m)
    BY <1>1
  <2>3. \A c \in 0 .. m - 1, k \in 0 .. n - 1 : turned[k][c] = table[c][k]
    BY <1>1
  <2> HIDE DEF table, turned, rows, cols
  <2> QED
    BY <2>1, <2>2, <2>3 DEF PolysOfTable
<1>4. ASSUME NEW k \in Rows
      PROVE  Images(hf, k) \in Poly /\ cols[k] = w[k] /\ w[k] \in Poly
  <2> DEFINE a == [c \in 0 .. HalfSteps |-> Galois(Element(c, hf), Product(k))]
  <2>1. k \in Int
    BY <1>1
  <2>2. Polys(a, m)
    BY <1>1, <1>2 DEF Polys
  <2>3. \A c \in 0 .. m - 1 : turned[k][c] = Rotate(k, a[c])
    BY <1>1 DEF Placed
  <2>4. cols[k] = PlusUpTo(turned[k], m)
    OBVIOUS
  <2>5. Images(hf, k) = PlusUpTo(a, m)
    BY DEF Images
  <2> HIDE DEF a, turned, cols
  <2>6. PlusUpTo(turned[k], m) = Rotate(k, PlusUpTo(a, m)) /\ PlusUpTo(a, m) \in Poly
    BY <1>1, <2>1, <2>2, <2>3, SumOfRotate, PlusUpToIs
  <2> QED
    BY <2>1, <2>4, <2>5, <2>6, RotatePlus
<1>5. \A c \in 0 .. m - 1 : f[c] = Scale(i, rows[c])
  BY <1>1, <1>2
<1>6. HalfPhase(hf) = PlusUpTo(f, m)
  BY DEF HalfPhase
<1> HIDE DEF table, turned, rows, cols, f
<1>7. Polys(rows, m) /\ Polys(cols, n) /\ PlusUpTo(rows, m) = PlusUpTo(cols, n)
  BY <1>1, <1>3, PlusUpToSwap
<1>8. PlusUpTo(f, m) = Scale(i, PlusUpTo(rows, m))
  BY <1>1, <1>5, <1>7, SumOfScale
<1> HIDE DEF w
<1>9. Polys(w, n)
  BY <1>1, <1>4 DEF Polys
<1>10. PlusUpTo(cols, n) = PlusUpTo(w, n)
  BY <1>1, <1>4, <1>9, PlusUpToSame
<1> QED
  BY <1>4, <1>6, <1>7, <1>8, <1>9, <1>10 DEF w

\* The images of the two halves.
LEMMA ImagesAre ==
  ASSUME call \in Cases, NEW k \in Rows
  PROVE  /\ Product(k) \in Poly /\ HalfTrace(Product(k)) \in Poly
         /\ Images(0, k) = HalfTrace(Product(k))
         /\ Images(1, k) = Galois(-1, HalfTrace(Product(k)))
<1> DEFINE p == Product(k)
           n == Columns
           f == [c \in 0 .. n - 1 |-> Galois(GaloisElement(Stride * c), p)]
           g == [c \in 0 .. n - 1 |-> Galois(Element(c, 1), p)]
<1>1. n \in Nat /\ n = HalfSteps + 1 /\ 0 .. HalfSteps = 0 .. n - 1 /\ Stride \in Nat
  BY CallIs
<1>2. p \in Poly
  BY <1>1, ColumnPhase, 0 \in Nat
<1>3. Unit(-1)
  BY UnitOne, UnitMinus
<1> HIDE DEF p
<1>4. Polys(f, n) /\ PlusUpTo(f, n) = HalfTrace(p) /\ HalfTrace(p) \in Poly
  BY <1>1, <1>2, ImagesArePolys DEF HalfTrace, Trace
<1>5. Images(0, k) = PlusUpTo(f, n)
  <2>1. \A c \in 0 .. n - 1 : Element(c, 0) = GaloisElement(Stride * c)
    BY DEF Element
  <2> QED
    BY <1>1, <2>1 DEF Images, p
<1>6. Images(1, k) = PlusUpTo(g, n)
  BY <1>1 DEF Images, p
<1>7. ASSUME NEW c \in 0 .. n - 1 PROVE g[c] = Galois(-1, f[c])
  <2> DEFINE e == GaloisElement(Stride * c)
  <2>1. Stride * c \in Nat
    BY <1>1
  <2>2. Unit(e) /\ e \in Int
    BY <2>1, ElementUnit, ElementNext
  <2>3. g[c] = Galois(-e, p) /\ f[c] = Galois(e, p)
    BY DEF Element
  <2> HIDE DEF e, f, g
  <2>4. (-1) * e = -e
    BY <2>2
  <2>5. Galois(-1, Galois(e, p)) = Galois((-1) * e, p)
    BY <1>2, <1>3, <2>2, GaloisTwice
  <2> QED
    BY <2>3, <2>4, <2>5
<1> HIDE DEF f, g
<1>8. PlusUpTo(g, n) = Galois(-1, PlusUpTo(f, n))
  BY <1>1, <1>3, <1>4, <1>7, SumOfGalois
<1> QED
  BY <1>2, <1>4, <1>5, <1>6, <1>8 DEF p

\* What the aggregate decrypts to.
TotalPhase == IF call.partial THEN HalfPhase(0) ELSE Plus(HalfPhase(0), HalfPhase(1))

\* All halves together.
LEMMA TotalPhaseIs ==
  ASSUME call \in Cases
  PROVE  LET w == [k \in Rows |-> Rotate(k, WholeTrace(Product(k)))]
         IN  /\ Polys(w, call.gamma)
             /\ TotalPhase = Scale(InvModQ(call.gamma), PlusUpTo(w, call.gamma))
<1> DEFINE n == call.gamma
           i == InvModQ(n)
           w == [k \in Rows |-> Rotate(k, WholeTrace(Product(k)))]
           x == [k \in Rows |-> Rotate(k, Images(0, k))]
           y == [k \in Rows |-> Rotate(k, Images(1, k))]
<1>1. n \in Nat /\ Rows = 0 .. n - 1 /\ i \in Int
  BY CallIs, InverseOfGamma DEF Rows
<1>2. /\ Polys(x, n) /\ HalfPhase(0) = Scale(i, PlusUpTo(x, n))
      /\ Polys(y, n) /\ HalfPhase(1) = Scale(i, PlusUpTo(y, n))
      /\ \A k \in Rows : Images(0, k) \in Poly /\ Images(1, k) \in Poly
  <2>1. Polys(x, n) /\ HalfPhase(0) = Scale(i, PlusUpTo(x, n)) /\ \A k \in Rows : Images(0, k) \in Poly
    BY HalfPhaseIs
  <2>2. Polys(y, n) /\ HalfPhase(1) = Scale(i, PlusUpTo(y, n)) /\ \A k \in Rows : Images(1, k) \in Poly
    BY HalfPhaseIs
  <2> QED
    BY <2>1, <2>2
<1>3. CASE call.partial
  <2>1. \A k \in Rows : WholeTrace(Product(k)) = Images(0, k)
    BY <1>3, ImagesAre DEF WholeTrace
  <2>2. w = x
    BY <2>1
  <2> QED
    BY <1>2, <1>3, <2>2 DEF TotalPhase
<1>4. CASE ~call.partial
  <2>1. ASSUME NEW k \in Rows PROVE w[k] = Plus(x[k], y[k])
    <3>1. WholeTrace(Product(k)) = Plus(Images(0, k), Images(1, k))
      BY <1>4, ImagesAre DEF WholeTrace
    <3>2. k \in Int
      BY <1>1
    <3> QED
      BY <1>2, <3>1, <3>2, RotatePlus
  <2>2. TotalPhase = Plus(HalfPhase(0), HalfPhase(1))
    BY <1>4 DEF TotalPhase
  <2> HIDE DEF w, x, y
  <2>3. Polys(w, n) /\ PlusUpTo(w, n) = Plus(PlusUpTo(x, n), PlusUpTo(y, n))
    BY <1>1, <1>2, <2>1, PlusOfSums
  <2>4. Scale(i, Plus(PlusUpTo(x, n), PlusUpTo(y, n))) = Plus(Scale(i, PlusUpTo(x, n)), Scale(i, PlusUpTo(y, n)))
    BY <1>1, <1>2, PlusUpToIs, ScalePlus
  <2> QED
    BY <1>2, <2>2, <2>3, <2>4 DEF w
<1> QED
  BY <1>3, <1>4

\* Coefficient t of what the aggregate decrypts to is the part of ciphertext t.
LEMMA TotalPhaseAt ==
  ASSUME call \in Cases, NEW t \in Rows
  PROVE  /\ TotalPhase \in Poly /\ t \in Coef /\ Product(t) \in Poly /\ 0 \in Coef
         /\ Same(TotalPhase[t], Product(t)[0])
<1> DEFINE n == call.gamma
           i == InvModQ(n)
           w == [k \in Rows |-> Rotate(k, WholeTrace(Product(k)))]
           x == PlusUpTo(w, n)
           q == Product(t)[0]
           v == n * q
           f == [k \in 0 .. n - 1 |-> w[k][t]]
           g == [k \in 0 .. n - 1 |-> IF k = t THEN v ELSE 0]
<1>1. n \in Nat /\ Rows = 0 .. n - 1 /\ i \in Int /\ Same(n * i, 1) /\ t \in Int /\ t \in Coef
  BY CallIs, InputsAre, InverseOfGamma DEF Rows
<1>2. Polys(w, n) /\ TotalPhase = Scale(i, x)
  BY TotalPhaseIs
<1>3. \A k \in Rows : Product(k) \in Poly /\ 0 \in Coef
  BY ImagesAre, WholeTraceIs
<1>4. q \in Int /\ v \in Int
  BY <1>1, <1>3, PolyIs, IntProduct
<1>5. ASSUME NEW k \in 0 .. n - 1 PROVE f[k] \in Int /\ g[k] \in Int /\ Same(f[k], g[k])
  <2> DEFINE a == WholeTrace(Product(k))
             e == t - k
  <2>1. k \in Rows /\ e \in Int /\ -n < e /\ e < n /\ (e = 0 <=> k = t)
    BY <1>1
  <2>2. /\ a \in Poly
        /\ Same(At(a, 0), n * Product(k)[0])
        /\ \A d \in Int : d # 0 /\ -n < d /\ d < n => Same(At(a, d), 0)
    BY <1>3, <2>1, WholeTraceIs
  <2>3. f[k] = At(a, e) /\ f[k] \in Int
    <3>1. f[k] = Rotate(k, a)[t]
      BY <2>1
    <3>2. Rotate(k, a)[t] = At(a, t - k)
      BY <1>1 DEF Rotate
    <3> QED
      BY <2>1, <2>2, <3>1, <3>2, AtIs
  <2>4. g[k] = IF k = t THEN v ELSE 0
    OBVIOUS
  <2> HIDE DEF a, e, f, g
  <2> QED
    BY <1>4, <2>1, <2>2, <2>3, <2>4
<1>6. x \in Poly /\ x[t] = Sum(f, n) % Q /\ Sum(f, n) \in Int
  BY <1>1, <1>2, PlusUpToIs
<1> HIDE DEF w, x, f, v, q
<1>7. Same(Sum(f, n), Sum(g, n))
  <2> HIDE DEF g
  <2> QED
    <3>1. \A k \in 0 .. n - 1 : f[k] \in Int /\ g[k] \in Int /\ Congruent(f[k], g[k], Q)
      BY <1>5 DEF Same
    <3>0. Q \in Int /\ n \in Nat
      BY <1>1, PeriodIs
    <3> HIDE DEF n, i
    <3>2. Congruent(Sum(f, n), Sum(g, n), Q)
      BY <3>0, <3>1, SumsCongruent
    <3> QED
      BY <3>2 DEF Same
<1>8. Sum(g, n) = v
  <2>1. \A k \in 0 .. n - 1 : g[k] = IF k = t THEN v ELSE 0
    OBVIOUS
  <2> HIDE DEF g
  <2> QED
    BY <1>1, <1>4, <2>1, SumOfOne
<1>9. Same(x[t], v) /\ x[t] \in Int
  BY <1>4, <1>6, <1>7, <1>8, SameRest, SameTrans
<1>10. Scale(i, x) \in Poly /\ Same(Scale(i, x)[t], i * x[t]) /\ Scale(i, x)[t] \in Int
  BY <1>1, <1>6, ScaleIs, PolyIs
<1>11. Same(i * x[t], i * v) /\ i * x[t] \in Int /\ i * v \in Int
  <2> DEFINE z == x[t]
  <2>1. z \in Int /\ Same(z, v)
    BY <1>9
  <2> HIDE DEF z
  <2>2. Same(i * z, i * v) /\ i * z \in Int /\ i * v \in Int
    BY <1>1, <1>4, <2>1, SameIt, SameProduct, IntProduct
  <2> QED
    BY <2>2 DEF z
<1>12. Same(i * v, q)
  <2>1. i * v = (n * i) * q /\ (n * i) \in Int
    <3> HIDE DEF i, n
    <3> QED
      BY <1>1, <1>4, SMT DEF v
  <2>2. Same((n * i) * q, 1 * q)
    BY <1>1, <1>4, <2>1, SameIt, SameProduct, 1 \in Int
  <2> QED
    BY <1>4, <2>1, <2>2
<1>13. Same(Scale(i, x)[t], q)
  <2>1. Same(Scale(i, x)[t], i * v)
    BY <1>10, <1>11, SameTrans
  <2> QED
    BY <1>4, <1>10, <1>11, <1>12, <2>1, SameTrans
<1> QED
  BY <1>1, <1>2, <1>3, <1>10, <1>13 DEF q

\* The bodies and what the aggregate decrypts to are the phases of the ciphertexts.
LEMMA PhasesAre ==
  ASSUME call \in Cases
  PROVE  /\ Bodies \in Poly
         /\ \A t \in Rows : Plus(Bodies, TotalPhase)[t] = LwePhase(t)
<1>1. Vector(call.salt + N + 2) \in Poly /\ Q \in Nat \ {0, 1} /\ N \in Nat
  BY InputsAre, PeriodIs
<1>2. Bodies \in Poly
  <2>1. \A i \in Coef : Vector(call.salt + N + 2)[i] \in 0 .. Q - 1
    BY <1>1 DEF Poly
  <2>2. \A i \in Coef : Bodies[i] \in 0 .. Q - 1
    BY <1>1, <2>1 DEF Bodies, LweBody
  <2> QED
    BY <2>2 DEF Bodies, Poly
<1>3. ASSUME NEW t \in Rows PROVE Plus(Bodies, TotalPhase)[t] = LwePhase(t)
  <2> DEFINE a == LweMask(t)
             s == Secret
             dot == [i \in Coef |-> a[i] * s[i]]
             p == Product(t)
             x == TotalPhase[t]
             b == LweBody(t)
  <2>1. TotalPhase \in Poly /\ t \in Coef /\ Same(x, p[0]) /\ x \in Int
    BY TotalPhaseAt, PolyIs
  <2>2. a \in Poly /\ s \in Poly
    BY InputsAre
  <2>3. p[0] \in Int /\ Sum(dot, N) \in Int /\ Same(p[0], Sum(dot, N))
    BY <2>2, ScalarProduct DEF Product
  <2>4. SumUpTo(dot, N) = Sum(dot, N)
    <3> HIDE DEF dot
    <3> QED
      BY <1>1, SumUpToIs
  <2>5. b \in Int /\ Bodies[t] = b
    <3>1. Bodies[t] = b
      BY <2>1 DEF Bodies
    <3> QED
      BY <1>2, <2>1, <3>1, PolyIs
  <2>6. Plus(Bodies, TotalPhase)[t] = (b + x) % Q
    BY <2>1, <2>5 DEF Plus
  <2>7. LwePhase(t) = (b + Sum(dot, N)) % Q
    BY <2>4 DEF LwePhase
  <2> HIDE DEF b, x, dot, p
  <2>8. Same(b + x, b + Sum(dot, N))
    <3>1. Same(x, Sum(dot, N))
      BY <2>1, <2>3, SameTrans
    <3> QED
      BY <2>1, <2>3, <2>5, <3>1, SameIt, SameSum
  <2> QED
    BY <2>1, <2>3, <2>5, <2>6, <2>7, <2>8, RestSame
<1> QED
  BY <1>2, <1>3

\* Enough parts of a length cover the whole.
LEMMA CeilDivIs ==
  ASSUME NEW a \in Nat, NEW b \in Nat \ {0}
  PROVE  /\ CeilDiv(a, b) \in Nat /\ a <= CeilDiv(a, b) * b
         /\ \A q \in 0 .. CeilDiv(a, b) - 1 : q * b < a /\ q * b \in Nat
<1> DEFINE x == a + b - 1
           d == x \div b
           r == x % b
<1>1. x \in Nat
  OBVIOUS
<1> HIDE DEF x
<1>2. d \in Nat /\ r \in 0 .. b - 1 /\ x = b * d + r
  BY <1>1, Quotient
<1> HIDE DEF d, r
<1>3. CeilDiv(a, b) = d
  BY DEF CeilDiv, d, x
<1>4. b * d = d * b /\ d * b \in Nat
  BY <1>2, IntProduct
<1>5. a <= d * b
  BY <1>1, <1>2, <1>4 DEF x
<1>6. ASSUME NEW q \in 0 .. d - 1 PROVE q * b < a /\ q * b \in Nat
  <2>1. q \in Nat /\ q + 1 \in Nat /\ q + 1 <= d
    BY <1>2
  <2>2. (q + 1) * b <= d * b /\ (q + 1) * b \in Nat /\ q * b \in Nat
    BY <1>2, <2>1, ProductMonotone
  <2>3. (q + 1) * b = q * b + b
    BY <2>1
  <2> QED
    BY <1>1, <1>2, <1>4, <2>2, <2>3 DEF x
<1> QED
  BY <1>2, <1>3, <1>5, <1>6

\* Group q of half hf.
Group(hf, q) == hf * GroupsPerHalf + q

\* Where the groups are: contiguous parts of the steps of their half.
LEMMA GroupIs ==
  ASSUME call \in Cases, NEW hf \in 0 .. Halves - 1, NEW q \in 0 .. GroupsPerHalf - 1
  PROVE  /\ Group(hf, q) \in 0 .. GroupCount - 1
         /\ Group(hf, q) \div GroupsPerHalf = hf /\ Group(hf, q) % GroupsPerHalf = q
         /\ q * call.babySize \in 0 .. HalfSteps - 1
         /\ GroupStartStep(Group(hf, q)) = hf * HalfSteps + q * call.babySize
         /\ GroupLen(Group(hf, q)) = Least(HalfSteps - q * call.babySize, call.babySize)
         /\ GroupLen(Group(hf, q)) \in 1 .. call.babySize
         /\ q * call.babySize + GroupLen(Group(hf, q)) = Least((q + 1) * call.babySize, HalfSteps)
<1> DEFINE b == call.babySize
           n == HalfSteps
           k == GroupsPerHalf
           h == Halves
           x == q * b
           g == Group(hf, q)
<1>1. /\ n \in Nat /\ b \in Nat \ {0} /\ h \in {1, 2} /\ hf \in {0, 1} /\ hf < h
      /\ k = CeilDiv(n, b) /\ GroupCount = h * k
  BY CallIs DEF GroupsPerHalf, GroupCount
<1> HIDE DEF b, n, h
<1>2. k \in Nat /\ x < n /\ x \in Nat
  BY <1>1, CeilDivIs
<1>3. k \in Nat \ {0} /\ q \in 0 .. k - 1 /\ g = k * hf + q
  BY <1>1, <1>2 DEF Group
<1> HIDE DEF k, g
<1>4. g \div k = hf /\ g % k = q /\ g \in 0 .. h * k - 1
  <2>1. g \in Int /\ hf \in Int
    BY <1>1, <1>3
  <2>2. g \div k = hf /\ g % k = q
    BY <1>3, <2>1, QuotientIs
  <2>3. g \in 0 .. h * k - 1
    BY <1>1, <1>3
  <2> QED
    BY <2>2, <2>3
<1> DEFINE s == GroupStartStep(g)
<1>5. s = hf * n + x
  BY <1>4 DEF GroupStartStep, n, b, k
<1> HIDE DEF s, x
<1>6. s % n = x
  <2>1. n \in Nat \ {0} /\ x \in 0 .. n - 1 /\ s \in Int /\ hf \in Int /\ s = n * hf + x
    BY <1>1, <1>2, <1>5
  <2> QED
    BY <2>1, QuotientIs
<1>7. GroupLen(g) = Least(n - x, b)
  BY <1>6 DEF GroupLen, n, b, s
<1>8. (q + 1) * b = x + b
  BY <1>1, <1>3 DEF x
<1>9. GroupLen(g) \in 1 .. b /\ x + GroupLen(g) = Least((q + 1) * b, n)
  BY <1>1, <1>2, <1>7, <1>8 DEF Least
<1> QED
  BY <1>1, <1>2, <1>4, <1>5, <1>7, <1>9 DEF b, n, h, k, g, s, x

\* Every group is a group of a half.
LEMMA GroupOf ==
  ASSUME call \in Cases, NEW g \in 0 .. GroupCount - 1
  PROVE  \E hf \in 0 .. Halves - 1 : \E q \in 0 .. GroupsPerHalf - 1 : g = Group(hf, q)
<1> DEFINE k == GroupsPerHalf
           h == Halves
<1>1. k \in Nat /\ h \in {1, 2} /\ GroupCount = h * k
  BY CallIs, CeilDivIs DEF GroupsPerHalf, GroupCount
<1> HIDE DEF k, h
<1>2. g \in Nat /\ g < h * k /\ k \in Nat \ {0}
  BY <1>1
<1> DEFINE d == g \div k
           r == g % k
<1>3. d \in Nat /\ r \in 0 .. k - 1 /\ g = k * d + r
  BY <1>2, Quotient
<1> HIDE DEF d, r
<1>4. d \in 0 .. h - 1
  <2> SUFFICES ASSUME d >= h PROVE FALSE
    BY <1>1, <1>3
  <2>1. h * k <= d * k
    BY <1>1, <1>3, ProductMonotone
  <2>2. k * d = d * k /\ d * k \in Nat /\ h * k \in Nat
    BY <1>1, <1>2, <1>3, IntProduct, ProductMonotone
  <2> QED
    BY <1>2, <1>3, <2>1, <2>2
<1>5. g = d * k + r
  <2>1. k * d = d * k
    BY <1>2, <1>3, IntProduct
  <2> QED
    BY <1>3, <2>1
<1> QED
  BY <1>3, <1>4, <1>5 DEF Group, k, h

\* A number has one quotient and one remainder.
LEMMA OneQuotient ==
  ASSUME NEW n \in Nat \ {0}, NEW h \in Int, NEW k \in Int, NEW x \in 0 .. n - 1, NEW y \in 0 .. n - 1,
         n * h + x = n * k + y
  PROVE  h = k /\ x = y
<1> DEFINE s == n * h + x
<1>1. s \in Int /\ s = n * h + x /\ s = n * k + y
  OBVIOUS
<1> HIDE DEF s
<1>2. s \div n = h /\ s % n = x
  BY <1>1, QuotientIs
<1>3. s \div n = k /\ s % n = y
  BY <1>1, QuotientIs
<1> QED
  BY <1>2, <1>3

\* A step belongs to one group.
LEMMA GroupOfStep ==
  ASSUME call \in Cases, NEW hf \in 0 .. Halves - 1, NEW q \in 0 .. GroupsPerHalf - 1,
         NEW b \in 0 .. GroupLen(Group(hf, q)) - 1
  PROVE  LET s == GroupStartStep(Group(hf, q)) + b
         IN  /\ s = hf * HalfSteps + (q * call.babySize + b)
             /\ q * call.babySize + b \in 0 .. HalfSteps - 1
             /\ s \in 0 .. KgSteps - 1 /\ s \in 0 .. Steps - 1
             /\ (CHOOSE g \in 0 .. GroupCount - 1 :
                   s - GroupStartStep(g) \in 0 .. GroupLen(g) - 1) = Group(hf, q)
<1> DEFINE s == GroupStartStep(Group(hf, q)) + b
           n == HalfSteps
           B == call.babySize
<1>1. /\ n \in Nat /\ B \in Nat \ {0} /\ Halves \in {1, 2} /\ KgSteps = Halves * n
      /\ Steps = IF call.partial THEN KgSteps ELSE KgSteps + 1
  BY CallIs
<1>2. \A h2 \in 0 .. Halves - 1, q2 \in 0 .. GroupsPerHalf - 1 :
        /\ Group(h2, q2) \in 0 .. GroupCount - 1
        /\ q2 * B \in 0 .. n - 1
        /\ GroupStartStep(Group(h2, q2)) = h2 * n + q2 * B
        /\ GroupLen(Group(h2, q2)) \in 1 .. B
        /\ q2 * B + GroupLen(Group(h2, q2)) = Least((q2 + 1) * B, n)
  BY GroupIs
<1>3. ASSUME NEW h2 \in 0 .. Halves - 1, NEW q2 \in 0 .. GroupsPerHalf - 1, NEW b2 \in Int,
             b2 \in 0 .. GroupLen(Group(h2, q2)) - 1
      PROVE  /\ GroupStartStep(Group(h2, q2)) + b2 = n * h2 + (q2 * B + b2)
             /\ q2 * B + b2 \in 0 .. n - 1 /\ b2 \in 0 .. B - 1 /\ h2 \in {0, 1} /\ q2 \in Nat /\ q2 * B = B * q2
  <2> DEFINE x == q2 * B
             l == GroupLen(Group(h2, q2))
             st == GroupStartStep(Group(h2, q2))
             y == (q2 + 1) * B
  <2>1. x \in 0 .. n - 1 /\ st = h2 * n + x /\ l \in 1 .. B /\ x + l = Least(y, n) /\ h2 \in {0, 1}
    BY <1>1, <1>2
  <2>2. y \in Int /\ q2 \in Nat /\ q2 * B = B * q2
    <3>1. q2 \in Nat /\ q2 + 1 \in Int /\ B \in Int
      BY <1>1
    <3> QED
      BY <3>1, IntProduct
  <2>3. b2 \in 0 .. l - 1
    BY <1>3
  <2> HIDE DEF x, l, st, y, n, B
  <2>4. st + b2 = n * h2 + (x + b2) /\ x + b2 \in 0 .. n - 1 /\ b2 \in 0 .. B - 1
    BY <1>1, <2>1, <2>2, <2>3 DEF Least
  <2> QED
    BY <2>1, <2>2, <2>4 DEF x, st
<1>4. b \in Int /\ GroupLen(Group(hf, q)) \in 1 .. B
  BY <1>1, <1>2
<1>5. /\ s = n * hf + (q * B + b) /\ q * B + b \in 0 .. n - 1 /\ b \in 0 .. B - 1
      /\ hf \in {0, 1} /\ q \in Nat /\ q * B = B * q
  BY <1>3, <1>4
<1>6. s \in 0 .. KgSteps - 1 /\ s \in 0 .. Steps - 1 /\ s \in Int /\ hf * n = n * hf
  <2> HIDE DEF s, n, B
  <2> DEFINE x == q * B + b
  <2>1. x \in 0 .. n - 1 /\ s = n * hf + x
    BY <1>5
  <2> HIDE DEF x
  <2> QED
    BY <1>1, <1>5, <2>1
<1> DEFINE Holds(g) == s - GroupStartStep(g) \in 0 .. GroupLen(g) - 1
<1>7. Holds(Group(hf, q)) /\ Group(hf, q) \in 0 .. GroupCount - 1
  <2>1. GroupStartStep(Group(hf, q)) \in Int
    BY <1>1, <1>2
  <2>2. s - GroupStartStep(Group(hf, q)) = b
    BY <1>4, <2>1
  <2> QED
    BY <1>2, <2>2
<1>8. ASSUME NEW g \in 0 .. GroupCount - 1, Holds(g) PROVE g = Group(hf, q)
  <2>1. PICK h2 \in 0 .. Halves - 1 : \E q2 \in 0 .. GroupsPerHalf - 1 : g = Group(h2, q2)
    BY GroupOf
  <2>2. PICK q2 \in 0 .. GroupsPerHalf - 1 : g = Group(h2, q2)
    BY <2>1
  <2> DEFINE b2 == s - GroupStartStep(g)
  <2>3. GroupStartStep(g) \in Int
    BY <1>1, <1>2, <2>2
  <2>4. b2 \in Int /\ b2 \in 0 .. GroupLen(Group(h2, q2)) - 1 /\ s = GroupStartStep(Group(h2, q2)) + b2
    BY <1>6, <1>8, <2>2, <2>3
  <2> HIDE DEF b2, s
  <2>5. /\ s = n * h2 + (q2 * B + b2) /\ q2 * B + b2 \in 0 .. n - 1 /\ b2 \in 0 .. B - 1
        /\ h2 \in {0, 1} /\ q2 \in Nat /\ q2 * B = B * q2
    BY <1>3, <2>4
  <2> DEFINE x == q * B + b
             y == q2 * B + b2
  <2>6. x \in 0 .. n - 1 /\ y \in 0 .. n - 1 /\ s = n * hf + x /\ s = n * h2 + y /\ n \in Nat \ {0}
        /\ x = B * q + b /\ y = B * q2 + b2
    BY <1>1, <1>5, <2>5
  <2> HIDE DEF x, y, n, B
  <2>7. hf \in Int /\ h2 \in Int /\ q \in Int /\ q2 \in Int
    BY <1>5, <2>5
  <2>8. hf = h2 /\ x = y
    <3>1. n * hf + x = n * h2 + y
      BY <2>6
    <3> QED
      BY <2>6, <2>7, <3>1, OneQuotient
  <2>9. q = q2
    <3>1. B * q + b = B * q2 + b2
      BY <2>6, <2>8
    <3> QED
      BY <1>1, <1>5, <2>5, <2>7, <3>1, OneQuotient
  <2> QED
    BY <2>2, <2>8, <2>9
<1>9. (CHOOSE g \in 0 .. GroupCount - 1 : Holds(g)) = Group(hf, q)
  <2> HIDE DEF Holds
  <2> QED
    BY <1>7, <1>8
<1> QED
  BY <1>5, <1>6, <1>9

\* The key body in the view of a baby step.
LEMMA BabyKeyIs ==
  ASSUME call \in Cases, NEW b \in 0 .. call.babySize - 1
  PROVE  /\ Unit(GaloisElement(Stride * b)) /\ Unit(GaloisInv(GaloisElement(Stride * b)))
         /\ GaloisElement(Stride * b) \in Int /\ GaloisInv(GaloisElement(Stride * b)) \in Int
         /\ Prepared.babyKeyG[b] = Galois(GaloisInv(GaloisElement(Stride * b)), BodyG)
<1> DEFINE g == GaloisElement(Stride)
           e == GaloisElement(Stride * b)
           u == GaloisInv(e)
           k == Keys.g.body
           r == g * u
<1>1. b \in Nat /\ Stride \in Nat /\ Stride * b \in Nat
  BY CallIs, ProductMonotone
<1>2. Unit(g) /\ g \in Int /\ Unit(e) /\ e \in Int /\ Unit(u) /\ u \in Int
  BY <1>1, ElementUnit, ElementNext, UnitInverse
<1>3. k \in Poly /\ BodyG = Galois(g, k)
  BY KeySwitches
<1>4. Prepared.babyKeyG[b] = SplitOutputKey(k, r)
  BY DEF Prepared, PrepareKeys, BabyKeyBodies
<1> HIDE DEF g, e, u, k
<1>5. SplitOutputKey(k, r) = Galois(r, k)
  BY <1>3, GaloisOne DEF SplitOutputKey
<1>6. Galois(u, Galois(g, k)) = Galois(u * g, k) /\ u * g = r
  BY <1>2, <1>3, GaloisTwice, IntProduct
<1> QED
  BY <1>2, <1>3, <1>4, <1>5, <1>6 DEF e, u

\* A baby step b before the giant step of column t is the step of column t - b.
LEMMA BabyStep ==
  ASSUME call \in Cases, NEW t \in Nat, NEW b \in 0 .. call.babySize - 1, b <= t,
         NEW hf, NEW w \in Poly
  PROVE  LET x == Times(Galois(GaloisInv(GaloisElement(Stride * b)), w), Prepared.babyKeyG[b])
         IN  /\ x \in Poly
             /\ Galois(GaloisInv(SecretView(t, hf)), x)
                  = Galois(GaloisInv(SecretView(t - b, hf)), Times(w, BodyG))
<1> DEFINE e == GaloisElement(Stride * b)
           u == GaloisInv(e)
           k == BodyG
           y == Times(w, k)
           x == Times(Galois(u, w), Prepared.babyKeyG[b])
           c == t - b
           p == Element(t, hf)
           q == Element(c, hf)
<1>1. c \in Nat /\ b \in Nat /\ c + b = t /\ Stride \in Nat
  BY CallIs
<1>2. Unit(e) /\ e \in Int /\ Unit(u) /\ u \in Int /\ Equal(e * u, 1) /\ Prepared.babyKeyG[b] = Galois(u, k)
  BY BabyKeyIs, GaloisInvIs
<1>3. k \in Poly /\ y \in Poly
  BY KeySwitches, TimesUnrolled
<1>4. x = Galois(u, y) /\ x \in Poly
  BY <1>2, <1>3, GaloisTimes, GaloisUnrolled
<1>5. /\ Unit(p) /\ p \in Int /\ Unit(q) /\ q \in Int
      /\ Galois(GaloisInv(SecretView(t, hf)), x) = Galois(p, x)
      /\ Galois(GaloisInv(SecretView(c, hf)), y) = Galois(q, y)
  <2> HIDE DEF x, y, c
  <2>1. Unit(p) /\ p \in Int /\ \A z : Galois(GaloisInv(SecretView(t, hf)), z) = Galois(p, z)
    BY ElementIs
  <2>2. Unit(q) /\ q \in Int /\ \A z : Galois(GaloisInv(SecretView(c, hf)), z) = Galois(q, z)
    BY <1>1, ElementIs
  <2> HIDE DEF p, q
  <2> QED
    BY <2>1, <2>2
<1>6. Equal(p, q * e)
  <2> DEFINE ec == GaloisElement(Stride * c)
             et == GaloisElement(Stride * t)
             ce == ec * e
  <2>1. Stride * t = Stride * c + Stride * b /\ Stride * c \in Nat /\ Stride * b \in Nat
    BY <1>1
  <2>2. ec \in Int /\ et \in Int /\ Equal(et, ce) /\ ce \in Int
    BY <1>2, <2>1, ElementPlus, IntProduct
  <2>3. (hf = 1 => p = -et /\ q = -ec) /\ (hf # 1 => p = et /\ q = ec)
    BY DEF Element
  <2> HIDE DEF p, q, e, ec, et, ce
  <2>4. ASSUME hf # 1 PROVE Equal(p, q * e)
    BY <2>2, <2>3, <2>4 DEF ce
  <2>5. ASSUME hf = 1 PROVE Equal(p, q * e)
    <3>1. q * e = -ce
      BY <1>2, <2>2, <2>3, <2>5, SMT DEF ce
    <3>2. Equal(-et, -ce)
      BY <2>2, PeriodIs, CongruentMinus DEF Equal
    <3> QED
      BY <2>3, <2>5, <3>1, <3>2
  <2> QED
    BY <2>4, <2>5
<1> HIDE DEF e, u, k, y, x, p, q
<1>7. Equal(p * u, q) /\ Unit(p * u) /\ p * u \in Int
  <2>1. Equal(p * u, (q * e) * u) /\ q * e \in Int /\ p * u \in Int /\ (q * e) * u \in Int
    BY <1>2, <1>5, <1>6, IntProduct, EqualLaws
  <2>2. (q * e) * u = q * (e * u) /\ q * 1 = q /\ e * u \in Int /\ q * (e * u) \in Int
    BY <1>2, <1>5, IntProduct, SMT
  <2>3. Equal(q * (e * u), q * 1)
    BY <1>2, <1>5, <2>2, EqualLaws
  <2>4. Equal(p * u, q)
    BY <1>5, <2>1, <2>2, <2>3, EqualTrans
  <2> QED
    BY <1>2, <1>5, <2>1, <2>4, UnitProduct
<1>8. Galois(p, x) = Galois(q, y)
  <2>1. Galois(p, x) = Galois(p * u, y)
    BY <1>2, <1>3, <1>4, <1>5, GaloisTwice
  <2> QED
    BY <1>5, <1>7, <2>1, GaloisEqual
<1> QED
  BY <1>4, <1>5, <1>8 DEF x, y, k, u, e

\* What the online pass is given: the giant steps, and the masks in the views of
\* their baby steps.
BsgsHolds ==
  /\ \A g \in 0 .. GroupCount - 1 : bsgsGiant[g] = GiantAlpha(g)
  /\ \A hf \in 0 .. Halves - 1, q \in 0 .. GroupsPerHalf - 1 :
       \A b \in 0 .. GroupLen(Group(hf, q)) - 1 :
         LET s == GroupStartStep(Group(hf, q)) + b
         IN  bsgsMasks[s] = Galois(GaloisInv(GaloisElement(Stride * b)), bodyVmpMasks[s])
  /\ ~call.partial => bsgsMasks[KgSteps] = bodyVmpMasks[KgSteps]

\* A group adds up what its steps recorded.
LEMMA GroupSumIs ==
  ASSUME call \in Cases, bodyVmpMasks \in [0 .. Steps - 1 -> Poly], BsgsHolds,
         NEW hf \in 0 .. Halves - 1, NEW q \in 0 .. GroupsPerHalf - 1
  PROVE  LET x == q * call.babySize
             y == Least((q + 1) * call.babySize, HalfSteps)
         IN  /\ x \in 0 .. HalfSteps /\ y \in 0 .. HalfSteps
             /\ GroupSum(Group(hf, q)) \in Poly /\ Recorded(hf, bodyVmpMasks, x) \in Poly
             /\ Recorded(hf, bodyVmpMasks, y)
                  = Plus(Recorded(hf, bodyVmpMasks, x), GroupSum(Group(hf, q)))
<1> DEFINE m == bodyVmpMasks
           n == HalfSteps
           B == call.babySize
           x == q * B
           y == Least((q + 1) * B, n)
           g == Group(hf, q)
           l == GroupLen(g)
           t == n - 1 - x
           a == GaloisInv(SecretView(t, hf))
           f == [i \in 0 .. y - 1 |-> RecordedStep(hf, m, i)]
           fx == [i \in 0 .. x - 1 |-> RecordedStep(hf, m, i)]
           r == [b \in 0 .. l - 1 |-> RecordedStep(hf, m, x + b)]
           p == [b \in 0 .. l - 1 |-> Times(bsgsMasks[GroupStartStep(g) + b], Prepared.babyKeyG[b])]
<1>1. /\ g \in 0 .. GroupCount - 1 /\ g \div GroupsPerHalf = hf /\ g % GroupsPerHalf = q
      /\ x \in 0 .. n - 1 /\ l \in 1 .. B /\ x + l = y /\ GroupStartStep(g) = hf * n + x
      /\ l = Least(n - x, B)
  BY GroupIs
<1>2. n \in Nat /\ B \in Nat \ {0}
  BY CallIs
<1>3. x \in Nat /\ l \in Nat /\ y \in 0 .. n /\ x \in 0 .. n /\ t \in Nat
      /\ \A b \in 0 .. l - 1 : b \in 0 .. B - 1 /\ b <= t /\ x + b \in 0 .. n - 1 /\ n - 1 - (x + b) = t - b
  <2> HIDE DEF x, l, y, n, B
  <2> QED
    BY <1>1, <1>2 DEF Least
<1>4. bsgsGiant[g] = a
  BY <1>1 DEF BsgsHolds, GiantAlpha
<1>5. ASSUME NEW b \in 0 .. l - 1
      PROVE  p[b] \in Poly /\ r[b] = Galois(a, p[b])
  <2> DEFINE s == GroupStartStep(g) + b
             w == m[s]
  <2>1. s = hf * n + (x + b) /\ s \in 0 .. Steps - 1
    BY GroupOfStep
  <2>2. bsgsMasks[s] = Galois(GaloisInv(GaloisElement(Stride * b)), w) /\ w \in Poly
    BY <2>1 DEF BsgsHolds
  <2>3. p[b] = Times(bsgsMasks[s], Prepared.babyKeyG[b])
    OBVIOUS
  <2>4. r[b] = Galois(GaloisInv(SecretView(t - b, hf)), Times(w, BodyG))
    <3>1. r[b] = RecordedStep(hf, m, x + b)
      OBVIOUS
    <3>2. HalfSteps - 1 - (x + b) = t - b /\ hf * HalfSteps + (x + b) = s
      BY <1>3, <2>1
    <3> HIDE DEF r, x, t, s, m
    <3> QED
      BY <3>1, <3>2 DEF RecordedStep
  <2>5. b \in 0 .. call.babySize - 1 /\ b <= t /\ t \in Nat
    BY <1>3
  <2> HIDE DEF p, r, t, w, s
  <2> QED
    BY <2>2, <2>3, <2>4, <2>5, BabyStep
<1>6. Unit(a)
  BY <1>3, ElementIs
<1>7. GroupSum(g) = Galois(a, PlusUpTo(p, l))
  BY <1>4 DEF GroupSum
<1>8. Polys(p, l)
  BY <1>5 DEF Polys
<1>9. Polys(f, y)
  <2> SUFFICES ASSUME NEW i \in 0 .. y - 1 PROVE RecordedStep(hf, m, i) \in Poly
    BY DEF Polys
  <2>1. i \in 0 .. n - 1
    BY <1>2, <1>3
  <2> QED
    BY <2>1, RecordedNext
<1>10. \A b \in 0 .. l - 1 : r[b] = f[x + b]
  <2> SUFFICES ASSUME NEW b \in 0 .. l - 1 PROVE r[b] = f[x + b]
    OBVIOUS
  <2>1. x + b \in 0 .. y - 1
    <3> HIDE DEF x, y, l
    <3> QED
      BY <1>1, <1>2, <1>3
  <2> QED
    BY <2>1
<1>11. \A i \in 0 .. x - 1 : fx[i] = f[i]
  <2> SUFFICES ASSUME NEW i \in 0 .. x - 1 PROVE fx[i] = f[i]
    OBVIOUS
  <2>1. i \in 0 .. y - 1
    <3> HIDE DEF x, y, l
    <3> QED
      BY <1>1, <1>2, <1>3
  <2> QED
    BY <2>1
<1>12. Recorded(hf, m, y) = PlusUpTo(f, y) /\ Recorded(hf, m, x) = PlusUpTo(fx, x)
  BY DEF Recorded
<1> HIDE DEF f, fx, r, p, l, x, y, a, g, m
<1>13. PlusUpTo(r, l) = Galois(a, PlusUpTo(p, l))
  BY <1>3, <1>5, <1>6, <1>8, SumOfGalois
<1>14. Polys(f, x + l) /\ PlusUpTo(f, x + l) = PlusUpTo(f, y)
  BY <1>1, <1>9
<1>15. Polys(f, x) /\ Polys(r, l) /\ PlusUpTo(f, x + l) = Plus(PlusUpTo(f, x), PlusUpTo(r, l))
  BY <1>3, <1>10, <1>14, PlusUpToInTwo
<1>16. PlusUpTo(fx, x) = PlusUpTo(f, x) /\ PlusUpTo(f, x) \in Poly /\ PlusUpTo(r, l) \in Poly
  BY <1>3, <1>11, <1>15, PlusUpToSame, PlusUpToIs
<1> QED
  BY <1>3, <1>7, <1>12, <1>13, <1>14, <1>15, <1>16 DEF x, y, g, m

\* The groups of one half, up to group q.
LEMMA HalfOfGroups ==
  ASSUME call \in Cases, bodyVmpMasks \in [0 .. Steps - 1 -> Poly], BsgsHolds,
         NEW hf \in 0 .. Halves - 1
  PROVE  LET f == [q \in 0 .. GroupsPerHalf - 1 |-> GroupSum(Group(hf, q))]
         IN  /\ GroupsPerHalf \in Nat /\ Polys(f, GroupsPerHalf)
             /\ PlusUpTo(f, GroupsPerHalf) = Recorded(hf, bodyVmpMasks, HalfSteps)
<1> DEFINE k == GroupsPerHalf
           n == HalfSteps
           B == call.babySize
           f == [q \in 0 .. k - 1 |-> GroupSum(Group(hf, q))]
           y(q) == Least(q * B, n)
           S == {q \in 0 .. k : PlusUpTo(f, q) = Recorded(hf, bodyVmpMasks, y(q))}
<1>1. n \in Nat /\ B \in Nat \ {0}
  BY CallIs
<1>2. k \in Nat /\ n <= k * B
  BY <1>1, CeilDivIs DEF GroupsPerHalf
<1>3. \A q \in 0 .. k - 1 :
        /\ f[q] \in Poly /\ q * B \in 0 .. n
        /\ Recorded(hf, bodyVmpMasks, y(q + 1)) = Plus(Recorded(hf, bodyVmpMasks, q * B), f[q])
  BY GroupSumIs
<1>4. Polys(f, k)
  BY <1>3 DEF Polys
<1> HIDE DEF f, k, n, B
<1>5. 0 \in S
  <2>1. y(0) = 0
    BY <1>1 DEF Least
  <2>2. PlusUpTo(f, 0) = Zero /\ Recorded(hf, bodyVmpMasks, 0) = Zero
    BY EmptySum DEF Recorded
  <2> HIDE DEF y
  <2>3. 0 \in 0 .. k
    BY <1>2
  <2> QED
    BY <2>1, <2>2, <2>3
<1>6. ASSUME NEW q \in 0 .. k - 1, q \in S PROVE q + 1 \in S
  <2>1. q \in Nat /\ q + 1 \in 0 .. k /\ Polys(f, q + 1)
    <3>1. q \in Nat /\ q + 1 \in 0 .. k
      BY <1>2
    <3> QED
      BY <1>2, <1>4, <3>1, PolysParts
  <2>2. PlusUpTo(f, q + 1) = Plus(PlusUpTo(f, q), f[q])
    BY <2>1, PlusUpToNext
  <2>3. y(q) = q * B
    <3> DEFINE z == q * B
    <3>1. z \in 0 .. n
      BY <1>3
    <3> HIDE DEF z
    <3>2. Least(z, n) = z
      BY <1>1, <3>1 DEF Least
    <3> QED
      BY <3>2 DEF z
  <2>4. PlusUpTo(f, q) = Recorded(hf, bodyVmpMasks, q * B)
    BY <1>6, <2>3
  <2>5. Recorded(hf, bodyVmpMasks, y(q + 1)) = Plus(Recorded(hf, bodyVmpMasks, q * B), f[q])
    BY <1>3
  <2> HIDE DEF y
  <2> QED
    BY <2>1, <2>2, <2>4, <2>5
<1>7. y(k) = n
  <2> DEFINE z == k * B
  <2>1. z \in Int /\ n <= z
    BY <1>1, <1>2, IntProduct
  <2> HIDE DEF z
  <2>2. Least(z, n) = n
    BY <1>1, <2>1 DEF Least
  <2> QED
    BY <2>2 DEF z
<1> HIDE DEF S
<1>8. 0 .. k \subseteq S
  BY <1>2, <1>5, <1>6, StepsReachAll
<1>9. k \in S
  BY <1>2, <1>8
<1> QED
  BY <1>2, <1>4, <1>7, <1>9 DEF S, f, k, n

\* The first k groups.
Groups(k) == PlusUpTo([g \in 0 .. k - 1 |-> GroupSum(g)], k)

\* All groups add up what all steps recorded.
LEMMA AllGroups ==
  ASSUME call \in Cases, bodyVmpMasks \in [0 .. Steps - 1 -> Poly], BsgsHolds
  PROVE  /\ GroupCount \in Nat /\ \A g \in 0 .. GroupCount - 1 : GroupSum(g) \in Poly
         /\ Groups(GroupCount) =
              IF call.partial THEN Recorded(0, bodyVmpMasks, HalfSteps)
              ELSE Plus(Recorded(0, bodyVmpMasks, HalfSteps), Recorded(1, bodyVmpMasks, HalfSteps))
<1> DEFINE k == GroupsPerHalf
           f == [g \in 0 .. GroupCount - 1 |-> GroupSum(g)]
           a == [q \in 0 .. k - 1 |-> GroupSum(Group(0, q))]
           b == [q \in 0 .. k - 1 |-> GroupSum(Group(1, q))]
<1>1. Halves \in {1, 2} /\ (Halves = 1 <=> call.partial) /\ GroupCount = Halves * k
  BY CallIs DEF GroupCount
<1>2. k \in Nat /\ Polys(a, k) /\ PlusUpTo(a, k) = Recorded(0, bodyVmpMasks, HalfSteps)
  <2>1. 0 \in 0 .. Halves - 1
    BY <1>1
  <2> QED
    BY <2>1, HalfOfGroups
<1>3. ASSUME NEW q \in 0 .. k - 1 PROVE Group(0, q) = q /\ Group(1, q) = k + q
  <2>1. 0 * k + q = q /\ 1 * k + q = k + q
    BY <1>2
  <2> QED
    BY <2>1 DEF Group
<1>4. ASSUME NEW g \in 0 .. GroupCount - 1 PROVE GroupSum(g) \in Poly
  <2>1. PICK hf \in 0 .. Halves - 1 : \E q \in 0 .. GroupsPerHalf - 1 : g = Group(hf, q)
    BY GroupOf
  <2>2. PICK q \in 0 .. GroupsPerHalf - 1 : g = Group(hf, q)
    BY <2>1
  <2> QED
    BY <2>2, GroupSumIs
<1>5. Polys(f, GroupCount) /\ Groups(GroupCount) = PlusUpTo(f, GroupCount)
  BY <1>4 DEF Polys, Groups
<1>6. CASE call.partial
  <2>1. GroupCount = k
    BY <1>1, <1>2, <1>6
  <2>2. \A q \in 0 .. k - 1 : f[q] = a[q]
    BY <1>3, <2>1
  <2> HIDE DEF f, a, k
  <2>3. PlusUpTo(f, k) = PlusUpTo(a, k)
    BY <1>2, <2>2, PlusUpToSame
  <2> QED
    BY <1>2, <1>4, <1>5, <1>6, <2>1, <2>3 DEF k
<1>7. CASE ~call.partial
  <2>1. GroupCount = k + k /\ 1 \in 0 .. Halves - 1
    BY <1>1, <1>2, <1>7
  <2>2. Polys(b, k) /\ PlusUpTo(b, k) = Recorded(1, bodyVmpMasks, HalfSteps)
    BY <2>1, HalfOfGroups
  <2>3. \A q \in 0 .. k - 1 : f[q] = a[q] /\ b[q] = f[k + q]
    <3> SUFFICES ASSUME NEW q \in 0 .. k - 1 PROVE f[q] = a[q] /\ b[q] = f[k + q]
      OBVIOUS
    <3>1. q \in 0 .. GroupCount - 1 /\ k + q \in 0 .. GroupCount - 1
      BY <1>2, <2>1
    <3> QED
      BY <1>3, <3>1
  <2> HIDE DEF f, a, b, k
  <2>4. Polys(f, k) /\ PlusUpTo(f, k + k) = Plus(PlusUpTo(f, k), PlusUpTo(b, k))
    BY <1>2, <1>5, <2>1, <2>3, PlusUpToInTwo
  <2>5. PlusUpTo(f, k) = PlusUpTo(a, k)
    BY <1>2, <2>3, PlusUpToSame
  <2>6. GroupCount \in Nat
    BY <1>2, <2>1
  <2> QED
    BY <1>2, <1>4, <1>5, <1>7, <2>1, <2>2, <2>4, <2>5, <2>6
<1> QED
  BY <1>6, <1>7

\* What the online pass computes with stays.
LEMMA SameGroups ==
  ASSUME call' = call
  PROVE  /\ \A g : GiantAlpha(g)' = GiantAlpha(g)
         /\ \A hf, q : Group(hf, q)' = Group(hf, q)
         /\ Prepared' = Prepared /\ Bodies' = Bodies /\ TotalPhase' = TotalPhase
         /\ bsgsMasks' = bsgsMasks /\ bsgsGiant' = bsgsGiant =>
              \A g : GroupSum(g)' = GroupSum(g)
         /\ bsgsMasks' = bsgsMasks /\ bsgsGiant' = bsgsGiant =>
              \A k : Groups(k)' = Groups(k)
         /\ bsgsMasks' = bsgsMasks /\ bsgsGiant' = bsgsGiant /\ bodyVmpMasks' = bodyVmpMasks =>
              BsgsHolds' = BsgsHolds
<1>1. \A g : GiantAlpha(g)' = GiantAlpha(g)
  BY SameShapes DEF GiantAlpha
<1>2. \A hf, q : Group(hf, q)' = Group(hf, q)
  BY SameShapes DEF Group
<1>3. Prepared' = Prepared
  BY SameShapes DEF Prepared
<1>4. Bodies' = Bodies
  BY SameShapes DEF Bodies, LweBody
<1>5. TotalPhase' = TotalPhase
  BY SamePhases DEF TotalPhase
<1>6. ASSUME bsgsMasks' = bsgsMasks, bsgsGiant' = bsgsGiant
      PROVE  \A g : GroupSum(g)' = GroupSum(g)
  <2> SUFFICES ASSUME NEW g PROVE GroupSum(g)' = GroupSum(g)
    OBVIOUS
  <2> DEFINE f == [b \in 0 .. GroupLen(g) - 1 |->
                     Times(bsgsMasks[GroupStartStep(g) + b], Prepared.babyKeyG[b])]
  <2>1. GroupLen(g)' = GroupLen(g) /\ GroupStartStep(g)' = GroupStartStep(g)
    BY SameShapes
  <2>2. f' = f
    BY <1>3, <1>6, <2>1
  <2>3. /\ GroupSum(g) = Galois(bsgsGiant[g], PlusUpTo(f, GroupLen(g)))
        /\ GroupSum(g)' = Galois(bsgsGiant'[g], PlusUpTo(f', GroupLen(g)'))
    BY DEF GroupSum
  <2> HIDE DEF f
  <2> QED
    BY <1>6, <2>1, <2>2, <2>3
<1>7. ASSUME bsgsMasks' = bsgsMasks, bsgsGiant' = bsgsGiant
      PROVE  \A k : Groups(k)' = Groups(k)
  BY <1>6, <1>7 DEF Groups
<1>8. ASSUME bsgsMasks' = bsgsMasks, bsgsGiant' = bsgsGiant, bodyVmpMasks' = bodyVmpMasks
      PROVE  BsgsHolds' = BsgsHolds
  BY <1>1, <1>2, <1>8, SameShapes DEF BsgsHolds
<1> QED
  BY <1>1, <1>2, <1>3, <1>4, <1>5, <1>6, <1>7, <1>8

\* The masks, in the views of their baby steps.
LEMMA BuildHolds ==
  ASSUME FinishInv, BuildBsgs
  PROVE  BsgsHolds'
<1>1. call \in Cases /\ call' = call /\ bodyVmpMasks' = bodyVmpMasks
  BY DEF FinishInv, CollapseInv, AggregateInv, BuildBsgs
<1>2. /\ \A g : GiantAlpha(g)' = GiantAlpha(g)
      /\ \A hf, q : Group(hf, q)' = Group(hf, q)
      /\ \A g : GroupStartStep(g)' = GroupStartStep(g) /\ GroupLen(g)' = GroupLen(g)
      /\ GroupCount' = GroupCount /\ GroupsPerHalf' = GroupsPerHalf /\ Halves' = Halves
      /\ Stride' = Stride /\ KgSteps' = KgSteps
  BY <1>1, SameShapes, SameGroups
<1>3. \A g \in 0 .. GroupCount - 1 : bsgsGiant'[g] = GiantAlpha(g)
  BY DEF BuildBsgs
<1>4. ASSUME NEW hf \in 0 .. Halves - 1, NEW q \in 0 .. GroupsPerHalf - 1,
             NEW b \in 0 .. GroupLen(Group(hf, q)) - 1
      PROVE  LET s == GroupStartStep(Group(hf, q)) + b
             IN  bsgsMasks'[s] = Galois(GaloisInv(GaloisElement(Stride * b)), bodyVmpMasks[s])
  <2> DEFINE g == Group(hf, q)
             s == GroupStartStep(g) + b
             x == q * call.babySize
  <2>1. /\ s = hf * HalfSteps + (x + b) /\ x + b \in 0 .. HalfSteps - 1
        /\ s \in 0 .. KgSteps - 1 /\ s \in 0 .. Steps - 1
        /\ (CHOOSE h \in 0 .. GroupCount - 1 : s - GroupStartStep(h) \in 0 .. GroupLen(h) - 1) = g
    BY <1>1, GroupOfStep
  <2>2. GroupStartStep(g) \in Int /\ KgSteps \in Nat /\ s \in Int
    <3>1. GroupStartStep(g) = hf * HalfSteps + x /\ x \in 0 .. HalfSteps - 1
      BY <1>1, GroupIs
    <3>2. Halves \in {1, 2} /\ HalfSteps \in Nat /\ KgSteps \in Nat
      BY <1>1, CallIs
    <3>3. hf * HalfSteps \in Int /\ x \in Int
      BY <3>1, <3>2
    <3> HIDE DEF x
    <3> QED
      BY <2>1, <3>1, <3>2, <3>3
  <2>3. ~(s >= KgSteps) /\ s - GroupStartStep(g) = b
    BY <2>1, <2>2
  <2>4. bsgsMasks'[s] =
          IF s >= KgSteps THEN bodyVmpMasks[s]
          ELSE LET h == CHOOSE h \in 0 .. GroupCount - 1 : s - GroupStartStep(h) \in 0 .. GroupLen(h) - 1
                   c == s - GroupStartStep(h)
               IN  Galois(GaloisInv(GaloisElement(Stride * c)), bodyVmpMasks[s])
    BY <2>1 DEF BuildBsgs
  <2> HIDE DEF s, g, x
  <2> QED
    BY <2>1, <2>3, <2>4 DEF s, g
<1>5. ~call.partial => bsgsMasks'[KgSteps] = bodyVmpMasks[KgSteps]
  <2> SUFFICES ASSUME ~call.partial PROVE bsgsMasks'[KgSteps] = bodyVmpMasks[KgSteps]
    OBVIOUS
  <2>1. KgSteps \in Nat /\ Steps = KgSteps + 1
    BY <1>1, CallIs
  <2>2. KgSteps \in 0 .. Steps - 1 /\ KgSteps >= KgSteps
    BY <2>1
  <2> QED
    BY <2>2 DEF BuildBsgs
<1> QED
  BY <1>1, <1>2, <1>3, <1>4, <1>5 DEF BsgsHolds

\* The groups up to chunk k.
ChunksPacked(k) == Groups(Least(k * call.chunkSize, GroupCount))

\* A chunk adds its groups to those of the chunks before it.
LEMMA ChunkAdds ==
  ASSUME call \in Cases, bodyVmpMasks \in [0 .. Steps - 1 -> Poly], BsgsHolds, chunk \in Nat,
         chunk < CeilDiv(GroupCount, call.chunkSize)
  PROVE  LET n == Cardinality(ChunkGroups)
             f == [i \in 0 .. n - 1 |-> GroupSum(chunk * call.chunkSize + i)]
         IN  /\ chunk + 1 <= CeilDiv(GroupCount, call.chunkSize)
             /\ PlusUpTo(f, n) \in Poly /\ ChunksPacked(chunk) \in Poly
             /\ ChunksPacked(chunk + 1) = Plus(ChunksPacked(chunk), PlusUpTo(f, n))
<1> DEFINE c == call.chunkSize
           m == GroupCount
           lo == chunk * c
           hi == Least((chunk + 1) * c, m)
           n == Cardinality(ChunkGroups)
           f == [i \in 0 .. n - 1 |-> GroupSum(lo + i)]
           g == [i \in 0 .. hi - 1 |-> GroupSum(i)]
           h == [i \in 0 .. lo - 1 |-> GroupSum(i)]
<1>1. c \in Nat \ {0} /\ m \in Nat /\ \A i \in 0 .. m - 1 : GroupSum(i) \in Poly
  BY CallIs, AllGroups
<1>2. CeilDiv(m, c) \in Nat /\ lo < m /\ lo \in Nat /\ chunk + 1 <= CeilDiv(m, c)
  <2>1. CeilDiv(m, c) \in Nat /\ \A q \in 0 .. CeilDiv(m, c) - 1 : q * c < m /\ q * c \in Nat
    BY <1>1, CeilDivIs
  <2>2. chunk \in 0 .. CeilDiv(m, c) - 1
    BY <2>1
  <2> QED
    BY <2>1, <2>2
<1>3. (chunk + 1) * c = lo + c
  BY <1>1
<1>4. hi \in lo .. m /\ hi \in Nat /\ hi - lo \in Nat /\ Least(lo, m) = lo
  <2> HIDE DEF lo, c, m
  <2> QED
    BY <1>1, <1>2, <1>3 DEF Least
<1>5. n = hi - lo
  <2>1. ChunkGroups = lo .. hi - 1
    BY DEF ChunkGroups
  <2> HIDE DEF lo, hi
  <2>2. Cardinality(lo .. hi - 1) = IF lo > hi - 1 THEN 0 ELSE (hi - 1) - lo + 1
    BY <1>2, <1>4, FS_Interval
  <2> QED
    BY <1>2, <1>4, <2>1, <2>2
<1>6. ChunksPacked(chunk) = PlusUpTo(h, lo) /\ ChunksPacked(chunk + 1) = PlusUpTo(g, hi)
  <2>1. ChunksPacked(chunk + 1) = PlusUpTo(g, hi)
    BY DEF ChunksPacked, Groups
  <2>2. ChunksPacked(chunk) = Groups(lo)
    BY <1>4 DEF ChunksPacked
  <2> QED
    BY <2>1, <2>2 DEF Groups
<1> HIDE DEF n, lo, hi, m, c
<1>7. Polys(g, hi)
  <2> SUFFICES ASSUME NEW i \in 0 .. hi - 1 PROVE GroupSum(i) \in Poly
    BY DEF Polys
  <2>1. i \in 0 .. m - 1
    BY <1>1, <1>4
  <2> QED
    BY <1>1, <2>1
<1>8. /\ \A i \in 0 .. n - 1 : f[i] = g[lo + i]
      /\ \A i \in 0 .. lo - 1 : h[i] = g[i]
  <2>1. \A i \in 0 .. n - 1 : lo + i \in 0 .. hi - 1
    BY <1>2, <1>4, <1>5
  <2>2. \A i \in 0 .. lo - 1 : i \in 0 .. hi - 1
    BY <1>2, <1>4
  <2> QED
    BY <2>1, <2>2
<1> HIDE DEF f, g, h
<1>9. lo + n = hi /\ n \in Nat
  BY <1>2, <1>4, <1>5
<1>10. Polys(g, lo) /\ Polys(f, n) /\ PlusUpTo(g, hi) = Plus(PlusUpTo(g, lo), PlusUpTo(f, n))
  <2>1. Polys(g, lo + n)
    BY <1>7, <1>9
  <2>2. Polys(g, lo) /\ Polys(f, n) /\ PlusUpTo(g, lo + n) = Plus(PlusUpTo(g, lo), PlusUpTo(f, n))
    <3>1. \A i \in 0 .. n - 1 : f[i] = g[lo + i]
      BY <1>8
    <3>2. lo \in Nat /\ n \in Nat
      BY <1>2, <1>9
    <3> QED
      BY <2>1, <3>1, <3>2, PlusUpToInTwo
  <2> QED
    BY <1>9, <2>2
<1>11. PlusUpTo(h, lo) = PlusUpTo(g, lo) /\ PlusUpTo(g, lo) \in Poly /\ PlusUpTo(f, n) \in Poly
  BY <1>2, <1>8, <1>9, <1>10, PlusUpToSame, PlusUpToIs
<1> QED
  BY <1>2, <1>6, <1>10, <1>11 DEF f, n, lo, c, m

\* What the packed ciphertext decrypts to, while it is packed.
OnlineInv ==
  /\ FinishInv
  /\ stage \notin {"pack", "done"} => chunk = 0 /\ bodyAcc = Bodies
  /\ stage = "pack" =>
       /\ BsgsHolds
       /\ chunk \in Nat /\ chunk <= CeilDiv(GroupCount, call.chunkSize)
       /\ bodyAcc = Plus(Bodies, ChunksPacked(chunk))
  /\ stage = "done" =>
       Plus(result.body, Times(result.mask, Secret)) = Plus(Bodies, TotalPhase)

\* The last addition completes the phase.
LEMMA PackFinishHolds ==
  ASSUME OnlineInv, PackFinish
  PROVE  Plus(result'.body, Times(result'.mask, Secret)) = Plus(Bodies, TotalPhase)
<1> DEFINE m == bodyVmpMasks
           f == finalMask
           s == Secret
           r == Groups(GroupCount)
           a == bodyAcc
           b == Bodies
           fs == Times(f, s)
<1>1. /\ call \in Cases /\ m \in [0 .. Steps - 1 -> Poly] /\ stage = "pack" /\ BsgsHolds
      /\ chunk = CeilDiv(GroupCount, call.chunkSize) /\ f \in Poly /\ FinalHolds
      /\ a = Plus(b, ChunksPacked(chunk))
  BY DEF OnlineInv, FinishInv, CollapseInv, AggregateInv, PackFinish
<1>2. /\ call.partial \in BOOLEAN /\ call.chunkSize \in Nat \ {0} /\ 0 \in 0 .. Halves - 1
      /\ HalfSteps \in Nat /\ HalfSteps \in 0 .. HalfSteps
      /\ ~call.partial => 1 \in 0 .. Halves - 1 /\ KgSteps \in 0 .. Steps - 1
  <2>1. /\ call.partial \in BOOLEAN /\ call.chunkSize \in Nat \ {0} /\ Halves \in {1, 2}
        /\ (Halves = 1 <=> call.partial) /\ HalfSteps \in Nat /\ KgSteps \in Nat
        /\ Steps = IF call.partial THEN KgSteps ELSE KgSteps + 1
    BY <1>1, CallIs
  <2> QED
    BY <2>1
<1>3. /\ GroupCount \in Nat
      /\ r = IF call.partial THEN Recorded(0, m, HalfSteps)
             ELSE Plus(Recorded(0, m, HalfSteps), Recorded(1, m, HalfSteps))
  BY <1>1, AllGroups
<1>4. ChunksPacked(chunk) = r
  <2> DEFINE x == chunk * call.chunkSize
  <2>1. GroupCount <= x /\ chunk \in Nat
    BY <1>1, <1>2, <1>3, CeilDivIs
  <2>2. x \in Int
    BY <1>2, <2>1, IntProduct
  <2> HIDE DEF x
  <2>3. Least(x, GroupCount) = GroupCount
    BY <1>3, <2>1, <2>2 DEF Least
  <2> QED
    BY <2>3 DEF ChunksPacked, x
<1>5. s \in Poly /\ b \in Poly /\ fs \in Poly
  BY <1>1, InputsAre, PhasesAre, TimesUnrolled
<1>6. result'.mask = f /\ result'.body = bodyAcc'
  BY DEF PackFinish
<1>7. CASE call.partial
  <2>1. bodyAcc' = a /\ TotalPhase = HalfPhase(0) /\ r = Recorded(0, m, HalfSteps)
    BY <1>3, <1>7 DEF PackFinish, TotalPhase
  <2>2. r \in Poly
    BY <1>1, <1>2, <2>1, RecordedSame
  <2>3. Plus(fs, r) = TotalPhase
    BY <1>1, <1>7, <2>1 DEF FinalHolds
  <2> HIDE DEF m, f, s, r, a, b, fs
  <2>4. Plus(Plus(b, r), fs) = Plus(b, Plus(r, fs)) /\ Plus(r, fs) = Plus(fs, r)
    BY <1>5, <2>2, PlusAssociates, PlusLaws
  <2> QED
    BY <1>1, <1>4, <1>6, <2>1, <2>3, <2>4 DEF fs, s, b
<1>8. CASE ~call.partial
  <2> DEFINE h == Times(m[KgSteps], BodyH)
  <2>1. bodyAcc' = Plus(a, h) /\ TotalPhase = Plus(HalfPhase(0), HalfPhase(1))
    <3>1. Prepared.keyH = BodyH
      BY <1>8 DEF Prepared, PrepareKeys, BodyH
    <3>2. bsgsMasks[KgSteps] = m[KgSteps]
      BY <1>1, <1>8 DEF BsgsHolds
    <3> QED
      BY <1>8, <3>1, <3>2 DEF PackFinish, TotalPhase
  <2>2. r = Plus(Recorded(0, m, HalfSteps), Recorded(1, m, HalfSteps)) /\ r \in Poly
    <3>1. Recorded(0, m, HalfSteps) \in Poly /\ Recorded(1, m, HalfSteps) \in Poly
      BY <1>1, <1>2, <1>8, RecordedSame
    <3> QED
      BY <1>3, <1>8, <3>1, PlusIs
  <2>3. h \in Poly
    BY <1>1, <1>2, <1>8, ConjugationSwitches, TimesUnrolled
  <2>4. Plus(Plus(fs, h), r) = TotalPhase
    BY <1>1, <1>8, <2>1, <2>2 DEF FinalHolds
  <2> HIDE DEF m, f, s, r, a, b, fs, h
  <2>5. Plus(Plus(Plus(b, r), h), fs) = Plus(b, Plus(Plus(fs, h), r))
    <3>1. Plus(r, h) \in Poly /\ Plus(fs, h) \in Poly
      BY <1>5, <2>2, <2>3, PlusIs
    <3>2. Plus(Plus(b, r), h) = Plus(b, Plus(r, h))
      BY <1>5, <2>2, <2>3, PlusAssociates
    <3>3. Plus(Plus(b, Plus(r, h)), fs) = Plus(b, Plus(Plus(r, h), fs))
      BY <1>5, <3>1, PlusAssociates
    <3>4. Plus(Plus(r, h), fs) = Plus(r, Plus(h, fs)) /\ Plus(h, fs) = Plus(fs, h)
      BY <1>5, <2>2, <2>3, PlusAssociates, PlusLaws
    <3>5. Plus(r, Plus(fs, h)) = Plus(Plus(fs, h), r)
      BY <2>2, <3>1, PlusLaws
    <3> QED
      BY <3>2, <3>3, <3>4, <3>5
  <2> QED
    BY <1>1, <1>4, <1>6, <2>1, <2>4, <2>5 DEF fs, s, b
<1> QED
  BY <1>2, <1>7, <1>8

\* The online phase keeps the account of groups and chunks, at every step.
LEMMA OnlineInvariance == Spec => []OnlineInv
<1>1. Init => OnlineInv
  BY CollapseStarts DEF FinishInv, OnlineInv, Init
<1>2. OnlineInv /\ FinishInv' /\ [Next]_vars => OnlineInv'
  <2> SUFFICES ASSUME OnlineInv, FinishInv', [Next]_vars PROVE OnlineInv'
    OBVIOUS
  <2>1. ASSUME call' = call, chunk' = chunk, bodyAcc' = bodyAcc,
               stage \notin {"pack", "done"}, stage' \notin {"pack", "done"}
        PROVE  OnlineInv'
    BY <2>1, SameGroups DEF OnlineInv
  <2>2. ASSUME NEW w \in Workers, Aggregate(w) PROVE OnlineInv'
    BY <2>1, <2>2 DEF Aggregate
  <2>3. CASE MergePanels
    BY <2>1, <2>3 DEF MergePanels
  <2>4. CASE CopyAggregateHalf
    BY <2>1, <2>4 DEF CopyAggregateHalf
  <2>5. CASE CollapseStep
    BY <2>1, <2>5 DEF CollapseStep
  <2>6. CASE NextHalf
    BY <2>1, <2>6 DEF NextHalf
  <2>7. CASE FinishCollapse
    BY <2>1, <2>7 DEF FinishCollapse
  <2>8. CASE BuildBsgs
    <3>1. call \in Cases /\ call' = call /\ chunk' = 0 /\ bodyAcc' = Bodies /\ stage' = "pack"
      BY <2>8 DEF OnlineInv, FinishInv, CollapseInv, AggregateInv, BuildBsgs
    <3>2. BsgsHolds'
      BY <2>8, BuildHolds DEF OnlineInv
    <3>3. Bodies' = Bodies /\ GroupCount' = GroupCount /\ call'.chunkSize = call.chunkSize
      BY <3>1, SameGroups, SameShapes
    <3>4. /\ call.chunkSize \in Nat \ {0} /\ GroupCount \in Nat /\ CeilDiv(GroupCount, call.chunkSize) \in Nat
      <4>1. call.chunkSize \in Nat \ {0} /\ GroupsPerHalf \in Nat /\ Halves \in {1, 2}
        BY <3>1, CallIs, CeilDivIs DEF GroupsPerHalf
      <4>2. GroupCount \in Nat
        BY <4>1 DEF GroupCount
      <4> QED
        BY <4>1, <4>2, CeilDivIs
    <3>5. ChunksPacked(chunk)' = Zero
      <4>1. Least(0 * call.chunkSize, GroupCount) = 0
        BY <3>4 DEF Least
      <4>2. ChunksPacked(chunk)' = Groups(0)'
        BY <3>1, <3>3, <4>1 DEF ChunksPacked
      <4>3. Groups(0)' = Zero
        BY EmptySum DEF Groups
      <4> QED
        BY <4>2, <4>3
    <3>6. Plus(Bodies, Zero) = Bodies
      BY <3>1, PhasesAre, PlusLaws
    <3> QED
      BY <3>1, <3>2, <3>3, <3>4, <3>5, <3>6 DEF OnlineInv
  <2>9. CASE PackChunk
    <3>1. /\ call \in Cases /\ call' = call /\ chunk' = chunk + 1 /\ stage = "pack" /\ stage' = "pack"
          /\ bsgsMasks' = bsgsMasks /\ bsgsGiant' = bsgsGiant /\ bodyVmpMasks' = bodyVmpMasks
          /\ BsgsHolds /\ bodyVmpMasks \in [0 .. Steps - 1 -> Poly] /\ chunk \in Nat
          /\ chunk < CeilDiv(GroupCount, call.chunkSize)
          /\ bodyAcc = Plus(Bodies, ChunksPacked(chunk))
      BY <2>9 DEF OnlineInv, FinishInv, CollapseInv, AggregateInv, PackChunk
    <3> DEFINE n == Cardinality(ChunkGroups)
               x == PlusUpTo([i \in 0 .. n - 1 |-> GroupSum(chunk * call.chunkSize + i)], n)
    <3>2. /\ chunk + 1 <= CeilDiv(GroupCount, call.chunkSize)
          /\ x \in Poly /\ ChunksPacked(chunk) \in Poly
          /\ ChunksPacked(chunk + 1) = Plus(ChunksPacked(chunk), x)
      BY <3>1, ChunkAdds
    <3>3. bodyAcc' = Plus(bodyAcc, x)
      BY <2>9 DEF PackChunk
    <3> HIDE DEF x
    <3>4. bodyAcc' = Plus(Bodies, ChunksPacked(chunk + 1))
      <4>1. Plus(Plus(Bodies, ChunksPacked(chunk)), x) = Plus(Bodies, Plus(ChunksPacked(chunk), x))
        BY <3>1, <3>2, PhasesAre, PlusAssociates
      <4> QED
        BY <3>1, <3>2, <3>3, <4>1
    <3>5. BsgsHolds' /\ Bodies' = Bodies /\ GroupCount' = GroupCount /\ \A k : Groups(k)' = Groups(k)
      BY <3>1, SameGroups, SameShapes
    <3>6. ChunksPacked(chunk)' = ChunksPacked(chunk + 1)
      BY <3>1, <3>5 DEF ChunksPacked
    <3> QED
      BY <3>1, <3>2, <3>4, <3>5, <3>6 DEF OnlineInv
  <2>10. CASE PackFinish
    <3>1. Plus(result'.body, Times(result'.mask, Secret)) = Plus(Bodies, TotalPhase)
      BY <2>10, PackFinishHolds
    <3>2. call' = call /\ stage' = "done"
      BY <2>10 DEF PackFinish
    <3>3. Bodies' = Bodies /\ TotalPhase' = TotalPhase /\ Secret' = Secret
      BY <3>2, SameGroups, SameShapes
    <3> QED
      BY <3>1, <3>2, <3>3 DEF OnlineInv
  <2>11. CASE UNCHANGED vars
    <3>1. /\ call' = call /\ chunk' = chunk /\ bodyAcc' = bodyAcc /\ stage' = stage /\ result' = result
          /\ bsgsMasks' = bsgsMasks /\ bsgsGiant' = bsgsGiant /\ bodyVmpMasks' = bodyVmpMasks
      BY <2>11 DEF vars
    <3>2. /\ BsgsHolds' = BsgsHolds /\ Bodies' = Bodies /\ TotalPhase' = TotalPhase /\ Secret' = Secret
          /\ GroupCount' = GroupCount /\ \A k : Groups(k)' = Groups(k)
      BY <3>1, SameGroups, SameShapes
    <3>3. ChunksPacked(chunk)' = ChunksPacked(chunk)
      BY <3>1, <3>2 DEF ChunksPacked
    <3> QED
      BY <3>1, <3>2, <3>3 DEF OnlineInv
  <2> QED
    BY <2>2, <2>3, <2>4, <2>5, <2>6, <2>7, <2>8, <2>9, <2>10, <2>11 DEF Next
<1> QED
  BY <1>1, <1>2, FinishInvariance, PTL DEF Spec

\* The packed ciphertext decrypts, coefficient by coefficient, to what the
\* ciphertexts of the batch decrypt to, for every degree, modulus, key, batch and
\* split into steps, groups, chunks and workers.
THEOREM PackingIsCorrect == Spec => []PackedDecrypts
<1>1. OnlineInv => PackedDecrypts
  <2> SUFFICES ASSUME OnlineInv, stage = "done", NEW k \in Rows
               PROVE  Plus(result.body, Times(result.mask, Secret))[k] = LwePhase(k)
    BY DEF PackedDecrypts
  <2>1. call \in Cases
    BY DEF OnlineInv, FinishInv, CollapseInv, AggregateInv
  <2>2. Plus(Bodies, TotalPhase)[k] = LwePhase(k)
    BY <2>1, PhasesAre
  <2> QED
    BY <2>2 DEF OnlineInv
<1> QED
  BY <1>1, OnlineInvariance, PTL

=============================================================================

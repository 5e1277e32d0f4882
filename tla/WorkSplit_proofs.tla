--------------------------- MODULE WorkSplit_proofs ---------------------------
(***************************************************************************)
(* Whatever the number of panels and of threads, assign_panels of          *)
(* parallel.rs hands every panel to exactly one worker and leaves no worker*)
(* without one.  Every stage that splits its output by these groups rests  *)
(* on it.                                                                  *)
(*                                                                         *)
(* The other proofs rest on the facts of arithmetic that come first:       *)
(* induction over a set, quotients, sums, congruences and sequences.       *)
(***************************************************************************)
EXTENDS WorkSplit, Sequences, SequenceTheorems, WellFoundedInduction, TLAPS

-----------------------------------------------------------------------------
(* Facts of arithmetic the provers need to be told *)

\* A quotient and its rest.
LEMMA Quotient ==
  ASSUME NEW a \in Nat, NEW b \in Nat \ {0}
  PROVE  a \div b \in Nat /\ (a % b) \in 0 .. b - 1 /\ a = b * (a \div b) + (a % b)
<1>1. a \div b \in Nat
  BY SMT
<1>2. (a % b) \in 0 .. b - 1
  BY SMT
<1>3. a = b * (a \div b) + (a % b)
  BY SMT
<1> QED
  BY <1>1, <1>2, <1>3

\* Products grow with their first factor.
LEMMA ProductMonotone ==
  ASSUME NEW a \in Nat, NEW b \in Nat, NEW c \in Nat, a <= b
  PROVE  a * c \in Nat /\ b * c \in Nat /\ a * c <= b * c
<1> DEFINE d == b - a
<1>1. d \in Nat /\ b = a + d
  OBVIOUS
<1>2. \A x, y \in Nat : x * y \in Nat
  BY SMT
<1>3. b * c = a * c + d * c
  BY <1>1, SMT
<1> QED
  BY <1>1, <1>2, <1>3

\* Induction, said of a set: steps of one from 0 reach every number up to n.
LEMMA StepsReachAll ==
  ASSUME NEW n \in Nat, NEW S, 0 \in S, \A i \in 0 .. n - 1 : i \in S => i + 1 \in S
  PROVE  0 .. n \subseteq S
<1> DEFINE R == {ss \in Nat \X Nat : ss[1] < ss[2]}
           T == {i \in 0 .. n : i \notin S}
<1> SUFFICES ASSUME T # {} PROVE FALSE
  OBVIOUS
<1>1. IsWellFoundedOn(R, Nat) /\ T \subseteq Nat
  BY NatLessThanWellFounded DEF OpToRel
<1>2. PICK x \in T : \A y \in T : ~(<<y, x>> \in R)
  <2> HIDE DEF R, T
  <2> QED
    BY <1>1, WFMin
<1>3. x \in 0 .. n /\ x \notin S /\ x # 0
  OBVIOUS
<1>4. x - 1 \in 0 .. n - 1 /\ (x - 1) + 1 = x
  BY <1>3
<1>5. x - 1 \in T
  BY <1>3, <1>4
<1>6. <<x - 1, x>> \in R
  <2>1. x - 1 \in Nat /\ x \in Nat /\ x - 1 < x
    BY <1>3, <1>4
  <2> QED
    BY <2>1
<1> QED
  BY <1>2, <1>5, <1>6

\* A quotient and its rest, of any integer.
LEMMA IntQuotient ==
  ASSUME NEW a \in Int, NEW b \in Nat \ {0}
  PROVE  a \div b \in Int /\ (a % b) \in 0 .. b - 1 /\ a = b * (a \div b) + (a % b)
<1>1. a \div b \in Int
  BY SMT
<1>2. (a % b) \in 0 .. b - 1
  BY SMT
<1>3. a = b * (a \div b) + (a % b)
  BY SMT
<1> QED
  BY <1>1, <1>2, <1>3

\* Products of integers are integers.
LEMMA IntProduct ==
  ASSUME NEW a \in Int, NEW b \in Int
  PROVE  a * b \in Int /\ a * b = b * a
BY SMT

\* Quotient and rest are what they are taken to be, for any integer.
LEMMA QuotientIs ==
  ASSUME NEW a \in Int, NEW b \in Nat \ {0}, NEW q \in Int, NEW r \in 0 .. b - 1, a = b * q + r
  PROVE  a \div b = q /\ a % b = r
<1> DEFINE k == a \div b
           s == a % b
<1>1. k \in Int /\ s \in 0 .. b - 1 /\ a = b * k + s
  BY IntQuotient
<1> HIDE DEF k, s
<1> DEFINE d == q - k
           x == b * d
<1>2. x = b * q - b * k
  BY <1>1, SMT
<1>3. b * q \in Int /\ b * k \in Int /\ d \in Int /\ x \in Int
  BY <1>1, IntProduct
<1>4. x = s - r
  BY <1>1, <1>2, <1>3
<1> HIDE DEF d
<1>5. d = 0
  <2>1. CASE d >= 1
    <3>1. b * d >= b
      BY <1>3, <2>1, SMT
    <3> QED
      BY <1>1, <1>4, <3>1
  <2>2. CASE d <= -1
    <3>1. b * d <= -b
      BY <1>3, <2>2, SMT
    <3> QED
      BY <1>1, <1>4, <3>1
  <2> QED
    BY <1>3, <2>1, <2>2
<1>6. k = q /\ s = r
  <2>1. k = q
    BY <1>1, <1>5 DEF d
  <2>2. b * k \in Int
    BY <1>3
  <2> QED
    BY <1>1, <2>1, <2>2
<1> QED
  BY <1>6 DEF k, s

\* Only multiples of b have the rest 0.
LEMMA MultipleHasNoRest ==
  ASSUME NEW k \in Int, NEW b \in Nat \ {0}
  PROVE  (b * k) % b = 0 /\ (b * k) \div b = k
<1> DEFINE a == b * k
           q == a \div b
           r == a % b
<1>1. a \in Int
  BY IntProduct
<1>2. q \in Int /\ r \in 0 .. b - 1 /\ a = b * q + r
  BY <1>1, IntQuotient
<1> HIDE DEF q, r
<1>3. b * (k - q) = r
  <2>1. b * (k - q) = b * k - b * q
    BY <1>2, SMT
  <2>2. b * q \in Int /\ b * k \in Int
    BY <1>2, IntProduct
  <2> QED
    BY <1>2, <2>1, <2>2
<1> DEFINE d == k - q
<1>4. d \in Int /\ b * d = r
  BY <1>2, <1>3
<1> HIDE DEF d
<1>5. d = 0
  <2>1. CASE d >= 1
    <3>1. b * d >= b
      BY <1>4, <2>1, SMT
    <3> QED
      BY <1>2, <1>4, <3>1
  <2>2. CASE d <= -1
    <3>1. b * d <= -b
      BY <1>4, <2>2, SMT
    <3> QED
      BY <1>2, <1>4, <3>1
  <2> QED
    BY <1>4, <2>1, <2>2
<1>6. b * 0 = 0
  OBVIOUS
<1>7. k = q /\ r = 0
  BY <1>2, <1>4, <1>5, <1>6 DEF d
<1> QED
  BY <1>7 DEF q, r

\* As many groups of b as hold a items.
LEMMA GroupsHold ==
  ASSUME NEW a \in Nat, NEW b \in Nat \ {0}
  PROVE  /\ CeilDiv(a, b) \in Nat /\ b * CeilDiv(a, b) >= a
         /\ \A k \in 0 .. a - 1 :
              /\ k \div b \in 0 .. CeilDiv(a, b) - 1 /\ (k % b) \in 0 .. b - 1
              /\ k = (k \div b) * b + (k % b)
<1> DEFINE s == a + b - 1
           c == s \div b
           r == s % b
<1>1. s \in Nat
  OBVIOUS
<1>2. c \in Nat /\ r \in 0 .. b - 1 /\ s = b * c + r
  BY <1>1, Quotient
<1>3. CeilDiv(a, b) = c
  BY DEF CeilDiv
<1> HIDE DEF c, r
<1>4. b * c \in Nat
  BY <1>2, SMT
<1>5. b * c >= a
  BY <1>2, <1>4
<1>6. ASSUME NEW k \in 0 .. a - 1
      PROVE  /\ k \div b \in 0 .. c - 1 /\ (k % b) \in 0 .. b - 1
             /\ k = (k \div b) * b + (k % b)
  <2> DEFINE q == k \div b
             y == k % b
  <2>1. q \in Nat /\ y \in 0 .. b - 1 /\ k = b * q + y
    <3>1. k \in Nat
      OBVIOUS
    <3> QED
      BY <3>1, Quotient
  <2> HIDE DEF q, y
  <2>2. b * q = q * b /\ q * b \in Nat /\ c * b = b * c
    BY <1>2, <2>1, SMT
  <2>3. q < c
    <3> SUFFICES ASSUME c <= q PROVE FALSE
      BY <1>2, <2>1
    <3>1. c * b <= q * b
      BY <1>2, <2>1, ProductMonotone
    <3> QED
      BY <1>5, <2>1, <2>2, <3>1, <1>4
  <2> QED
    BY <1>2, <2>1, <2>2, <2>3 DEF q, y
<1> QED
  BY <1>2, <1>3, <1>5, <1>6

-----------------------------------------------------------------------------
(* Sums *)

\* f[0], f[0] + f[1] and so on, up to n numbers
AddsUp(s, f, n) == s = [i \in 0 .. n |-> IF i = 0 THEN 0 ELSE s[i - 1] + f[i - 1]]
PartialSums(f, n) == CHOOSE s : AddsUp(s, f, n)
Sum(f, n) == PartialSums(f, n)[n]

\* Whatever is added up, there are partial sums.
LEMMA SumsAreThere ==
  ASSUME NEW f, NEW n \in Nat
  PROVE  \E s : AddsUp(s, f, n)
<1> DEFINE S == {m \in 0 .. n : \E s : AddsUp(s, f, m)}
<1>1. 0 \in S
  <2> DEFINE s == [i \in 0 .. 0 |-> 0]
  <2>1. AddsUp(s, f, 0)
    BY DEF AddsUp
  <2> QED
    BY <2>1
<1>2. ASSUME NEW m \in 0 .. n - 1, m \in S
      PROVE  m + 1 \in S
  <2>1. PICK s : AddsUp(s, f, m)
    BY <1>2
  <2> DEFINE r == [i \in 0 .. m + 1 |-> IF i = m + 1 THEN s[m] + f[m] ELSE s[i]]
  <2>2. \A i \in 0 .. m : r[i] = s[i]
    OBVIOUS
  <2>3. ASSUME NEW i \in 0 .. m + 1
        PROVE  r[i] = IF i = 0 THEN 0 ELSE r[i - 1] + f[i - 1]
    <3>1. CASE i = m + 1
      <4>1. r[i] = s[m] + f[m] /\ i - 1 = m /\ i # 0 /\ m \in 0 .. m
        BY <3>1
      <4> HIDE DEF r
      <4> QED
        BY <2>2, <4>1
    <3>2. CASE i # m + 1
      <4>1. i \in 0 .. m /\ (i # 0 => i - 1 \in 0 .. m)
        BY <3>2
      <4>2. s[i] = IF i = 0 THEN 0 ELSE s[i - 1] + f[i - 1]
        BY <2>1, <4>1 DEF AddsUp
      <4> HIDE DEF r
      <4> QED
        BY <2>2, <4>1, <4>2
    <3> QED
      BY <3>1, <3>2
  <2>4. r = [i \in 0 .. m + 1 |-> r[i]]
    OBVIOUS
  <2> HIDE DEF r
  <2>5. AddsUp(r, f, m + 1)
    BY <2>3, <2>4 DEF AddsUp
  <2> QED
    BY <2>5
<1> HIDE DEF S
<1>3. 0 .. n \subseteq S
  BY <1>1, <1>2, StepsReachAll
<1>4. n \in S
  BY <1>3
<1> QED
  BY <1>4 DEF S

\* The partial sums, one from the other.
LEMMA SumsAre ==
  ASSUME NEW f, NEW n \in Nat
  PROVE  /\ AddsUp(PartialSums(f, n), f, n)
         /\ PartialSums(f, n)[0] = 0
         /\ \A i \in 0 .. n - 1 : PartialSums(f, n)[i + 1] = PartialSums(f, n)[i] + f[i]
<1> DEFINE s == PartialSums(f, n)
<1>1. AddsUp(s, f, n)
  BY SumsAreThere DEF PartialSums
<1> HIDE DEF s
<1>2. s = [i \in 0 .. n |-> IF i = 0 THEN 0 ELSE s[i - 1] + f[i - 1]]
  BY <1>1 DEF AddsUp
<1>3. s[0] = 0
  BY <1>2
<1>4. ASSUME NEW i \in 0 .. n - 1
      PROVE  s[i + 1] = s[i] + f[i]
  <2>1. i + 1 \in 0 .. n /\ i + 1 # 0 /\ (i + 1) - 1 = i
    OBVIOUS
  <2> QED
    BY <1>2, <2>1
<1> QED
  BY <1>1, <1>3, <1>4 DEF s

\* Partial sums by another name are the same.
LEMMA SumsAreUnique ==
  ASSUME NEW f, NEW n \in Nat, NEW s, AddsUp(s, f, n)
  PROVE  s[n] = Sum(f, n)
<1> DEFINE p == PartialSums(f, n)
           S == {i \in 0 .. n : s[i] = p[i]}
<1>1. p[0] = 0 /\ \A i \in 0 .. n - 1 : p[i + 1] = p[i] + f[i]
  BY SumsAre
<1>2. s[0] = 0 /\ \A i \in 0 .. n - 1 : s[i + 1] = s[i] + f[i]
  <2>1. s = [i \in 0 .. n |-> IF i = 0 THEN 0 ELSE s[i - 1] + f[i - 1]]
    BY DEF AddsUp
  <2>2. s[0] = 0
    BY <2>1
  <2>3. ASSUME NEW i \in 0 .. n - 1
        PROVE  s[i + 1] = s[i] + f[i]
    <3>1. i + 1 \in 0 .. n /\ i + 1 # 0 /\ (i + 1) - 1 = i
      OBVIOUS
    <3> QED
      BY <2>1, <3>1
  <2> QED
    BY <2>2, <2>3
<1> HIDE DEF p
<1>3. 0 \in S
  BY <1>1, <1>2
<1>4. \A i \in 0 .. n - 1 : i \in S => i + 1 \in S
  BY <1>1, <1>2
<1> HIDE DEF S
<1>5. 0 .. n \subseteq S
  BY <1>3, <1>4, StepsReachAll
<1>6. n \in S
  BY <1>5
<1> QED
  BY <1>6 DEF S, p, Sum

\* A sum of integers is an integer.
LEMMA SumIsInt ==
  ASSUME NEW f, NEW n \in Nat, \A i \in 0 .. n - 1 : f[i] \in Int
  PROVE  Sum(f, n) \in Int
<1> DEFINE p == PartialSums(f, n)
           S == {i \in 0 .. n : p[i] \in Int}
<1>1. p[0] = 0 /\ \A i \in 0 .. n - 1 : p[i + 1] = p[i] + f[i]
  BY SumsAre
<1> HIDE DEF p
<1>2. 0 \in S
  BY <1>1
<1>3. \A i \in 0 .. n - 1 : i \in S => i + 1 \in S
  BY <1>1
<1> HIDE DEF S
<1>4. 0 .. n \subseteq S
  BY <1>2, <1>3, StepsReachAll
<1>5. n \in S
  BY <1>4
<1> QED
  BY <1>5 DEF S, p, Sum

\* A sum in which one number is v and the others are zero.
LEMMA SumOfOne ==
  ASSUME NEW f, NEW n \in Nat, NEW k \in Int, NEW v \in Int,
         \A i \in 0 .. n - 1 : f[i] = IF i = k THEN v ELSE 0
  PROVE  Sum(f, n) = IF k \in 0 .. n - 1 THEN v ELSE 0
<1> DEFINE p == PartialSums(f, n)
           S == {i \in 0 .. n : p[i] = IF k \in 0 .. i - 1 THEN v ELSE 0}
<1>1. p[0] = 0 /\ \A i \in 0 .. n - 1 : p[i + 1] = p[i] + f[i]
  BY SumsAre
<1> HIDE DEF p
<1>2. 0 \in S
  BY <1>1
<1>3. ASSUME NEW i \in 0 .. n - 1, i \in S
      PROVE  i + 1 \in S
  <2>1. p[i] = IF k \in 0 .. i - 1 THEN v ELSE 0
    BY <1>3
  <2>2. f[i] = IF i = k THEN v ELSE 0
    OBVIOUS
  <2>3. k \in 0 .. (i + 1) - 1 <=> (k \in 0 .. i - 1 \/ k = i)
    OBVIOUS
  <2>4. p[i + 1] = IF k \in 0 .. (i + 1) - 1 THEN v ELSE 0
    BY <1>1, <2>1, <2>2, <2>3
  <2> QED
    BY <2>4
<1> HIDE DEF S
<1>4. 0 .. n \subseteq S
  BY <1>2, <1>3, StepsReachAll
<1>5. n \in S
  BY <1>4
<1> QED
  BY <1>5 DEF S, p, Sum

\* The only number that is not zero
IsOnly(f, n, k, v) == \A i \in 0 .. n - 1 : f[i] = IF i = k THEN v ELSE 0

\* The sum is that number.
LEMMA SumOfOnly ==
  ASSUME NEW f, NEW n \in Nat, NEW k \in 0 .. n - 1, NEW v \in Int, IsOnly(f, n, k, v)
  PROVE  Sum(f, n) = v
<1>1. k \in Int
  OBVIOUS
<1>2. \A i \in 0 .. n - 1 : f[i] = IF i = k THEN v ELSE 0
  BY DEF IsOnly
<1>3. Sum(f, n) = IF k \in 0 .. n - 1 THEN v ELSE 0
  BY <1>1, <1>2, SumOfOne
<1> QED
  BY <1>3

\* A sum of one number more.
LEMMA SumNext ==
  ASSUME NEW f, NEW n \in Nat
  PROVE  Sum(f, 0) = 0 /\ Sum(f, n + 1) = Sum(f, n) + f[n]
<1> DEFINE r == PartialSums(f, n + 1)
           s == [i \in 0 .. n |-> r[i]]
<1>1. r[0] = 0 /\ \A i \in 0 .. n : r[i + 1] = r[i] + f[i]
  BY SumsAre
<1>2. PartialSums(f, 0)[0] = 0
  BY SumsAre
<1> HIDE DEF r
<1>3. AddsUp(s, f, n)
  <2>1. ASSUME NEW i \in 0 .. n
        PROVE  r[i] = IF i = 0 THEN 0 ELSE s[i - 1] + f[i - 1]
    <3>1. CASE i = 0
      BY <1>1, <3>1
    <3>2. CASE i # 0
      <4>1. i - 1 \in 0 .. n /\ (i - 1) + 1 = i
        BY <3>2
      <4> QED
        BY <1>1, <3>2, <4>1
    <3> QED
      BY <3>1, <3>2
  <2> QED
    BY <2>1 DEF AddsUp
<1>4. s[n] = Sum(f, n) /\ s[n] = r[n]
  BY <1>3, SumsAreUnique
<1> QED
  BY <1>1, <1>2, <1>4 DEF Sum, r

\* Sums of the same numbers.
LEMMA SumSame ==
  ASSUME NEW n \in Nat, NEW f, NEW g, \A i \in 0 .. n - 1 : f[i] = g[i]
  PROVE  Sum(f, n) = Sum(g, n)
<1> DEFINE S == {m \in 0 .. n : Sum(f, m) = Sum(g, m)}
<1>1. 0 \in S
  BY SumNext
<1>2. ASSUME NEW m \in 0 .. n - 1, m \in S
      PROVE  m + 1 \in S
  BY <1>2, SumNext
<1> HIDE DEF S
<1>3. 0 .. n \subseteq S
  BY <1>1, <1>2, StepsReachAll
<1>4. n \in S
  BY <1>3
<1> QED
  BY <1>4 DEF S

\* Sums of integers, part by part.
LEMMA PartsOfSum ==
  ASSUME NEW f, NEW n \in Nat, \A i \in 0 .. n - 1 : f[i] \in Int
  PROVE  \A m \in 0 .. n : Sum(f, m) \in Int
<1>1. ASSUME NEW m \in 0 .. n
      PROVE  Sum(f, m) \in Int
  <2>1. m \in Nat /\ \A i \in 0 .. m - 1 : f[i] \in Int
    OBVIOUS
  <2> QED
    BY <2>1, SumIsInt
<1> QED
  BY <1>1

\* The sum of sums.
LEMMA SumPlus ==
  ASSUME NEW n \in Nat, NEW f, NEW g, NEW h,
         \A i \in 0 .. n - 1 : f[i] \in Int /\ g[i] \in Int /\ h[i] = f[i] + g[i]
  PROVE  Sum(h, n) = Sum(f, n) + Sum(g, n)
<1> DEFINE S == {m \in 0 .. n : Sum(h, m) = Sum(f, m) + Sum(g, m)}
<1>1. 0 \in S
  BY SumNext
<1>2. \A m \in 0 .. n : Sum(f, m) \in Int /\ Sum(g, m) \in Int
  BY PartsOfSum
<1>3. ASSUME NEW m \in 0 .. n - 1, m \in S
      PROVE  m + 1 \in S
  <2>1. Sum(h, m) = Sum(f, m) + Sum(g, m)
    BY <1>3
  <2>2. /\ Sum(h, m + 1) = Sum(h, m) + h[m]
        /\ Sum(f, m + 1) = Sum(f, m) + f[m]
        /\ Sum(g, m + 1) = Sum(g, m) + g[m]
    BY SumNext
  <2>3. Sum(f, m) \in Int /\ Sum(g, m) \in Int
    BY <1>2
  <2>4. Sum(h, m + 1) = Sum(f, m + 1) + Sum(g, m + 1)
    BY <2>1, <2>2, <2>3
  <2> QED
    BY <2>4
<1> HIDE DEF S
<1>4. 0 .. n \subseteq S
  BY <1>1, <1>3, StepsReachAll
<1>5. n \in S
  BY <1>4
<1> QED
  BY <1>5 DEF S

\* A multiple of a sum.
LEMMA SumTimes ==
  ASSUME NEW n \in Nat, NEW c \in Int, NEW f, NEW h,
         \A i \in 0 .. n - 1 : f[i] \in Int /\ h[i] = c * f[i]
  PROVE  Sum(h, n) = c * Sum(f, n)
<1> DEFINE S == {m \in 0 .. n : Sum(h, m) = c * Sum(f, m)}
<1>1. 0 \in S
  <2>1. c * 0 = 0
    BY SMT
  <2> QED
    BY <2>1, SumNext
<1>2. \A m \in 0 .. n : Sum(f, m) \in Int
  BY PartsOfSum
<1>3. ASSUME NEW m \in 0 .. n - 1, m \in S
      PROVE  m + 1 \in S
  <2> DEFINE x == Sum(f, m)
             y == f[m]
  <2>1. Sum(h, m) = c * x
    BY <1>3
  <2>2. Sum(h, m + 1) = Sum(h, m) + c * y /\ Sum(f, m + 1) = x + y
    BY SumNext
  <2>3. x \in Int /\ y \in Int
    BY <1>2
  <2> HIDE DEF x, y
  <2>4. c * (x + y) = c * x + c * y
    BY <2>3, SMT
  <2>5. Sum(h, m + 1) = c * Sum(f, m + 1)
    BY <2>1, <2>2, <2>4
  <2> QED
    BY <2>5
<1> HIDE DEF S
<1>4. 0 .. n \subseteq S
  BY <1>1, <1>3, StepsReachAll
<1>5. n \in S
  BY <1>4
<1> QED
  BY <1>5 DEF S

\* A sum taken in two parts.
LEMMA SumInTwo ==
  ASSUME NEW n \in Nat, NEW m \in Nat, NEW f, NEW g, \A i \in 0 .. n + m - 1 : f[i] \in Int,
         \A i \in 0 .. m - 1 : g[i] = f[n + i]
  PROVE  Sum(f, n + m) = Sum(f, n) + Sum(g, m)
<1> DEFINE S == {k \in 0 .. m : Sum(f, n + k) = Sum(f, n) + Sum(g, k)}
<1>1. \A k \in 0 .. n + m : Sum(f, k) \in Int
  <2>1. n + m \in Nat
    OBVIOUS
  <2> QED
    BY <2>1, PartsOfSum
<1>2. ASSUME NEW k \in 0 .. m
      PROVE  Sum(g, k) \in Int
  <2>1. \A i \in 0 .. m - 1 : g[i] \in Int
    <3>1. ASSUME NEW i \in 0 .. m - 1
          PROVE  g[i] \in Int
      <4>1. n + i \in 0 .. n + m - 1
        OBVIOUS
      <4> QED
        BY <4>1
    <3> QED
      BY <3>1
  <2> QED
    BY <2>1, PartsOfSum
<1>3. 0 \in S
  <2>1. Sum(f, n) \in Int /\ n + 0 = n
    BY <1>1
  <2> QED
    BY <2>1, SumNext
<1>4. ASSUME NEW k \in 0 .. m - 1, k \in S
      PROVE  k + 1 \in S
  <2>1. Sum(f, n + k) = Sum(f, n) + Sum(g, k)
    BY <1>4
  <2>2. Sum(f, (n + k) + 1) = Sum(f, n + k) + f[n + k] /\ Sum(g, k + 1) = Sum(g, k) + g[k]
    BY SumNext
  <2>3. Sum(f, n) \in Int /\ Sum(g, k) \in Int /\ g[k] = f[n + k] /\ f[n + k] \in Int
    <3>1. n \in 0 .. n + m /\ k \in 0 .. m /\ n + k \in 0 .. n + m - 1
      OBVIOUS
    <3> QED
      BY <1>1, <1>2, <3>1
  <2>4. (n + k) + 1 = n + (k + 1)
    OBVIOUS
  <2>5. Sum(f, n + (k + 1)) = Sum(f, n) + Sum(g, k + 1)
    BY <2>1, <2>2, <2>3, <2>4
  <2> QED
    BY <2>5
<1> HIDE DEF S
<1>5. 0 .. m \subseteq S
  BY <1>3, <1>4, StepsReachAll
<1>6. m \in S
  BY <1>5
<1> QED
  BY <1>6 DEF S

\* A table of m rows, and the same turned; the sums of its rows and of its columns.
SumsOfTable(table, turned, m, n, rows, cols) ==
  /\ \A i \in 0 .. m - 1 : \A j \in 0 .. n - 1 :
       table[i][j] \in Int /\ turned[j][i] = table[i][j]
  /\ \A i \in 0 .. m - 1 : rows[i] = Sum(table[i], n)
  /\ \A j \in 0 .. n - 1 : cols[j] = Sum(turned[j], m)

\* A table is added up row by row or column by column.
LEMMA SumSwap ==
  ASSUME NEW m \in Nat, NEW n \in Nat, NEW table, NEW turned, NEW rows, NEW cols,
         SumsOfTable(table, turned, m, n, rows, cols)
  PROVE  Sum(rows, m) = Sum(cols, n)
<1> USE DEF SumsOfTable
<1> DEFINE upTo(k) == [j \in 0 .. n - 1 |-> Sum(turned[j], k)]
           S == {k \in 0 .. m : Sum(rows, k) = Sum(upTo(k), n)}
<1>1. 0 \in S
  <2>1. \A j \in 0 .. n - 1 : upTo(0)[j] = IF j = -1 THEN 0 ELSE 0
    BY SumNext
  <2> DEFINE z == upTo(0)
  <2>2. \A j \in 0 .. n - 1 : z[j] = IF j = -1 THEN 0 ELSE 0
    BY <2>1
  <2>3. z = upTo(0)
    OBVIOUS
  <2> HIDE DEF z
  <2>4. Sum(z, n) = IF -1 \in 0 .. n - 1 THEN 0 ELSE 0
    BY <2>2, SumOfOne
  <2> HIDE DEF upTo
  <2>5. Sum(rows, 0) = 0
    BY SumNext
  <2> QED
    BY <2>3, <2>4, <2>5
<1>2. ASSUME NEW k \in 0 .. m - 1, k \in S
      PROVE  k + 1 \in S
  <2> DEFINE f == upTo(k)
             g == table[k]
             h == upTo(k + 1)
  <2>1. ASSUME NEW j \in 0 .. n - 1
        PROVE  f[j] \in Int /\ g[j] \in Int /\ h[j] = f[j] + g[j]
    <3> DEFINE c == turned[j]
    <3>1. \A i \in 0 .. m - 1 : c[i] \in Int
      OBVIOUS
    <3>2. c[k] = g[j] /\ f[j] = Sum(c, k) /\ h[j] = Sum(c, k + 1) /\ k \in 0 .. m
      OBVIOUS
    <3> HIDE DEF c, f, g, h
    <3>3. Sum(c, k) \in Int
      BY <3>1, <3>2, PartsOfSum
    <3>4. Sum(c, k + 1) = Sum(c, k) + c[k]
      <4>1. k \in Nat
        OBVIOUS
      <4> QED
        BY <4>1, SumNext
    <3> QED
      BY <3>1, <3>2, <3>3, <3>4
  <2>2. Sum(rows, k) = Sum(f, n)
    BY <1>2
  <2>3. rows[k] = Sum(g, n)
    OBVIOUS
  <2>4. h = upTo(k + 1)
    OBVIOUS
  <2> HIDE DEF f, g, h
  <2>5. Sum(h, n) = Sum(f, n) + Sum(g, n)
    BY <2>1, SumPlus
  <2>6. Sum(rows, k + 1) = Sum(rows, k) + rows[k]
    <3>1. k \in Nat
      OBVIOUS
    <3> HIDE DEF S
    <3> QED
      BY <3>1, SumNext
  <2> HIDE DEF upTo
  <2>7. Sum(rows, k + 1) = Sum(upTo(k + 1), n)
    BY <2>2, <2>3, <2>4, <2>5, <2>6
  <2> QED
    BY <2>7
<1> HIDE DEF S
<1>3. 0 .. m \subseteq S
  BY <1>1, <1>2, StepsReachAll
<1>4. m \in S
  BY <1>3
<1> DEFINE all == upTo(m)
<1>5. Sum(rows, m) = Sum(all, n)
  BY <1>4 DEF S
<1>6. \A j \in 0 .. n - 1 : all[j] = cols[j]
  OBVIOUS
<1> HIDE DEF all
<1>7. Sum(all, n) = Sum(cols, n)
  BY <1>6, SumSame
<1> QED
  BY <1>5, <1>7

\* p takes places to places and r takes them back.
Reorders(p, r, n) ==
  \A i \in 0 .. n - 1 : /\ p[i] \in 0 .. n - 1 /\ r[i] \in 0 .. n - 1
                        /\ r[p[i]] = i /\ p[r[i]] = i

\* The order of the numbers does not matter.
LEMMA SumReordered ==
  ASSUME NEW n \in Nat, NEW f, \A i \in 0 .. n - 1 : f[i] \in Int,
         NEW p, NEW r, Reorders(p, r, n),
         NEW g, \A i \in 0 .. n - 1 : g[i] = f[p[i]]
  PROVE  Sum(g, n) = Sum(f, n)
<1> DEFINE table == [i \in 0 .. n - 1 |-> [j \in 0 .. n - 1 |-> IF j = p[i] THEN f[j] ELSE 0]]
           turned == [j \in 0 .. n - 1 |-> [i \in 0 .. n - 1 |-> table[i][j]]]
<1>1. \A i \in 0 .. n - 1 : \A j \in 0 .. n - 1 :
        /\ turned[j][i] = table[i][j]
        /\ table[i][j] \in Int
        /\ table[i][j] = IF j = p[i] THEN f[j] ELSE 0
  OBVIOUS
<1>2. ASSUME NEW i \in 0 .. n - 1
      PROVE  g[i] = Sum(table[i], n)
  <2> DEFINE k == p[i]
             v == f[k]
             row == table[i]
  <2>1. k \in 0 .. n - 1 /\ v \in Int /\ g[i] = v /\ k \in Int
    BY DEF Reorders
  <2>2. ASSUME NEW j \in 0 .. n - 1
        PROVE  row[j] = IF j = k THEN v ELSE 0
    <3>1. row[j] = IF j = k THEN f[j] ELSE 0
      BY <1>1
    <3> QED
      BY <3>1
  <2>3. row = table[i]
    OBVIOUS
  <2> HIDE DEF k, v, row, table
  <2>4. IsOnly(row, n, k, v)
    BY <2>2 DEF IsOnly
  <2>5. Sum(row, n) = v
    BY <2>1, <2>4, SumOfOnly
  <2> QED
    BY <2>1, <2>3, <2>5
<1>3. ASSUME NEW j \in 0 .. n - 1
      PROVE  f[j] = Sum(turned[j], n)
  <2> DEFINE k == r[j]
             v == f[j]
             c == turned[j]
  <2>1. k \in 0 .. n - 1 /\ v \in Int /\ k \in Int
    BY DEF Reorders
  <2>2. ASSUME NEW i \in 0 .. n - 1
        PROVE  c[i] = IF i = k THEN v ELSE 0
    <3>1. c[i] = IF j = p[i] THEN f[j] ELSE 0
      BY <1>1
    <3>2. j = p[i] <=> i = k
      BY DEF Reorders
    <3> HIDE DEF c, k
    <3> QED
      BY <3>1, <3>2
  <2>3. c = turned[j]
    OBVIOUS
  <2> HIDE DEF k, v, c, table, turned
  <2>4. Sum(c, n) = IF k \in 0 .. n - 1 THEN v ELSE 0
    BY <2>1, <2>2, SumOfOne
  <2> QED
    BY <2>1, <2>3, <2>4 DEF v
<1> HIDE DEF table, turned
<1>4. SumsOfTable(table, turned, n, n, g, f)
  BY <1>1, <1>2, <1>3 DEF SumsOfTable
<1> QED
  BY <1>4, SumSwap

-----------------------------------------------------------------------------
(* Congruences *)

\* a and b agree modulo q.
Congruent(a, b, q) == \E z \in Int : a = b + q * z

\* Congruences are added.
LEMMA CongruentSum ==
  ASSUME NEW q \in Int, NEW a \in Int, NEW b \in Int, NEW c \in Int, NEW d \in Int,
         Congruent(a, b, q), Congruent(c, d, q)
  PROVE  Congruent(a + c, b + d, q)
<1>1. PICK z \in Int : a = b + q * z
  BY DEF Congruent
<1>2. PICK y \in Int : c = d + q * y
  BY DEF Congruent
<1>3. q * (z + y) = q * z + q * y /\ q * z \in Int /\ q * y \in Int
  BY SMT
<1> DEFINE x == z + y
<1>4. x \in Int /\ a + c = (b + d) + q * x
  BY <1>1, <1>2, <1>3
<1> HIDE DEF x
<1> QED
  BY <1>4 DEF Congruent

\* Sums of numbers that agree modulo q agree modulo q.
LEMMA SumsCongruent ==
  ASSUME NEW f, NEW g, NEW n \in Nat, NEW q \in Int,
         \A i \in 0 .. n - 1 : f[i] \in Int /\ g[i] \in Int /\ Congruent(f[i], g[i], q)
  PROVE  Congruent(Sum(f, n), Sum(g, n), q)
<1> DEFINE p == PartialSums(f, n)
           r == PartialSums(g, n)
           S == {i \in 0 .. n : p[i] \in Int /\ r[i] \in Int /\ Congruent(p[i], r[i], q)}
<1>1. /\ p[0] = 0 /\ \A i \in 0 .. n - 1 : p[i + 1] = p[i] + f[i]
      /\ r[0] = 0 /\ \A i \in 0 .. n - 1 : r[i + 1] = r[i] + g[i]
  BY SumsAre
<1> HIDE DEF p, r
<1>2. 0 \in S
  <2>1. 0 = 0 + q * 0
    BY SMT
  <2>2. Congruent(0, 0, q)
    BY <2>1 DEF Congruent
  <2> QED
    BY <1>1, <2>2
<1>3. ASSUME NEW i \in 0 .. n - 1, i \in S
      PROVE  i + 1 \in S
  <2>1. p[i] \in Int /\ r[i] \in Int /\ Congruent(p[i], r[i], q)
    BY <1>3
  <2>2. Congruent(p[i] + f[i], r[i] + g[i], q)
    BY <2>1, CongruentSum
  <2> QED
    BY <1>1, <2>1, <2>2
<1> HIDE DEF S
<1>4. 0 .. n \subseteq S
  BY <1>2, <1>3, StepsReachAll
<1>5. n \in S
  BY <1>4
<1> QED
  BY <1>5 DEF S, p, r, Sum

\* A number and its rest agree.
LEMMA CongruentRest ==
  ASSUME NEW x \in Int, NEW q \in Nat \ {0}
  PROVE  Congruent(x % q, x, q) /\ Congruent(x, x % q, q) /\ (x % q) \in Int
<1> DEFINE k == x \div q
           r == x % q
           y == -k
<1>1. k \in Int /\ r \in 0 .. q - 1 /\ x = q * k + r
  BY IntQuotient
<1> HIDE DEF k, r
<1>2. q * y = -(q * k) /\ q * k \in Int /\ y \in Int /\ r \in Int
  BY <1>1, SMT
<1> HIDE DEF y
<1>3. x = r + q * k /\ r = x + q * y
  BY <1>1, <1>2
<1>4. Congruent(r, x, q) /\ Congruent(x, r, q)
  BY <1>1, <1>2, <1>3 DEF Congruent
<1> QED
  BY <1>2, <1>4 DEF r

\* Agreement goes on.
LEMMA CongruentTrans ==
  ASSUME NEW q \in Int, NEW a \in Int, NEW b \in Int, NEW c \in Int,
         Congruent(a, b, q), Congruent(b, c, q)
  PROVE  Congruent(a, c, q)
<1>1. PICK z \in Int : a = b + q * z
  BY DEF Congruent
<1>2. PICK y \in Int : b = c + q * y
  BY DEF Congruent
<1> DEFINE x == z + y
<1>3. q * x = q * z + q * y /\ q * z \in Int /\ q * y \in Int /\ x \in Int
  BY SMT
<1> HIDE DEF x
<1>4. a = c + q * x
  BY <1>1, <1>2, <1>3
<1> QED
  BY <1>3, <1>4 DEF Congruent

\* Numbers that agree have opposites that agree.
LEMMA CongruentMinus ==
  ASSUME NEW q \in Int, NEW a \in Int, NEW b \in Int, Congruent(a, b, q)
  PROVE  Congruent(-a, -b, q)
<1>1. PICK z \in Int : a = b + q * z
  BY DEF Congruent
<1> DEFINE y == -z
<1>2. q * y = -(q * z) /\ q * z \in Int /\ y \in Int
  BY SMT
<1> HIDE DEF y
<1>3. -a = -b + q * y
  BY <1>1, <1>2
<1> QED
  BY <1>2, <1>3 DEF Congruent

\* Agreement goes both ways.
LEMMA CongruentBack ==
  ASSUME NEW q \in Int, NEW a \in Int, NEW b \in Int, Congruent(a, b, q)
  PROVE  Congruent(b, a, q)
<1>1. PICK z \in Int : a = b + q * z
  BY DEF Congruent
<1> DEFINE y == -z
<1>2. q * y = -(q * z) /\ q * z \in Int /\ y \in Int
  BY SMT
<1> HIDE DEF y
<1>3. b = a + q * y
  BY <1>1, <1>2
<1> QED
  BY <1>2, <1>3 DEF Congruent

\* Congruences are multiplied.
LEMMA CongruentProduct ==
  ASSUME NEW q \in Int, NEW a \in Int, NEW b \in Int, NEW c \in Int, NEW d \in Int,
         Congruent(a, b, q), Congruent(c, d, q)
  PROVE  Congruent(a * c, b * d, q)
<1>1. PICK z \in Int : a = b + q * z
  BY DEF Congruent
<1>2. PICK y \in Int : c = d + q * y
  BY DEF Congruent
<1> DEFINE x == z * c + b * y
<1>3. a * c = b * c + (q * z) * c /\ b * c = b * d + b * (q * y)
  <2>1. (b + q * z) * c = b * c + (q * z) * c
    BY SMT
  <2>2. b * (d + q * y) = b * d + b * (q * y)
    BY SMT
  <2> QED
    BY <1>1, <1>2, <2>1, <2>2
<1>4. (q * z) * c = q * (z * c) /\ b * (q * y) = q * (b * y)
  BY SMT
<1>5. q * x = q * (z * c) + q * (b * y) /\ x \in Int
  BY SMT
<1>6. b * d \in Int /\ b * c \in Int /\ q * (z * c) \in Int /\ q * (b * y) \in Int /\ q * x \in Int
  BY SMT
<1> HIDE DEF x
<1>7. a * c = b * d + q * x
  BY <1>3, <1>4, <1>5, <1>6
<1> QED
  BY <1>5, <1>7 DEF Congruent

\* What differs by a multiple agrees.
LEMMA CongruentOfRest ==
  ASSUME NEW a \in Int, NEW x \in Int, NEW q \in Nat \ {0}, (a - x) % q = 0
  PROVE  Congruent(a, x, q)
<1> DEFINE v == a - x
           k == v \div q
           r == v % q
<1>1. v \in Int /\ a = x + v
  OBVIOUS
<1> HIDE DEF v
<1>2. k \in Int /\ v = q * k + r /\ r = 0
  BY <1>1, IntQuotient DEF v
<1> HIDE DEF k, r
<1>3. q * k \in Int
  BY <1>2, IntProduct
<1>4. a = x + q * k
  BY <1>1, <1>2, <1>3
<1> QED
  BY <1>2, <1>4 DEF Congruent

-----------------------------------------------------------------------------
(* Sequences *)

\* A sequence of n items, whatever they are
HasLength(s, n) == s = [i \in 1 .. n |-> s[i]]

\* Sequences are functions on a first part of the numbers, whatever they hold.
LEMMA LengthOf ==
  ASSUME NEW s, NEW n \in Nat, HasLength(s, n)
  PROVE  s \in Seq({s[i] : i \in 1 .. n}) /\ Len(s) = n
<1> DEFINE S == {s[i] : i \in 1 .. n}
<1>1. s \in [1 .. n -> S]
  BY DEF HasLength
<1> HIDE DEF S
<1>2. s \in Seq(S) /\ Len(s) = n
  BY <1>1
<1> QED
  BY <1>2 DEF S

\* One after the other
Then(s, r) == s \o r

\* A sequence holds one of m tokens, then one of n.
IsJoined(all, s, m, r, n) ==
  /\ HasLength(all, m + n)
  /\ \A i \in 1 .. m : all[i] = s[i]
  /\ \A i \in 1 .. n : all[m + i] = r[i]

\* Concatenation joins.
LEMMA ThenJoins ==
  ASSUME NEW s, NEW m \in Nat, HasLength(s, m), NEW r, NEW n \in Nat, HasLength(r, n)
  PROVE  IsJoined(Then(s, r), s, m, r, n)
<1> DEFINE S == {s[i] : i \in 1 .. m} \cup {r[i] : i \in 1 .. n}
           all == Then(s, r)
<1>1. s \in Seq(S) /\ r \in Seq(S) /\ Len(s) = m /\ Len(r) = n
  <2>1. s \in [1 .. m -> S] /\ r \in [1 .. n -> S]
    BY DEF HasLength
  <2> HIDE DEF S
  <2> QED
    BY <2>1
<1> HIDE DEF S
<1>2. all \in Seq(S) /\ Len(all) = m + n
  BY <1>1, ConcatProperties DEF Then
<1>3. \A i \in 1 .. m + n : all[i] = IF i <= m THEN s[i] ELSE r[i - m]
  BY <1>1, ConcatProperties DEF Then
<1> HIDE DEF all
<1>4. HasLength(all, m + n)
  BY <1>2 DEF HasLength
<1>5. ASSUME NEW i \in 1 .. m
      PROVE  all[i] = s[i]
  BY <1>3
<1>6. ASSUME NEW i \in 1 .. n
      PROVE  all[m + i] = r[i]
  <2> DEFINE k == m + i
  <2>1. k \in 1 .. m + n /\ ~(k <= m) /\ k - m = i
    OBVIOUS
  <2> HIDE DEF k
  <2>2. all[k] = r[k - m]
    BY <1>3, <2>1
  <2> QED
    BY <2>1, <2>2 DEF k
<1> QED
  BY <1>4, <1>5, <1>6 DEF all, IsJoined

\* A single token.
LEMMA Single ==
  ASSUME NEW x
  PROVE  HasLength(<<x>>, 1) /\ <<x>>[1] = x
BY DEF HasLength

-----------------------------------------------------------------------------
(* Parts *)

\* A part starts where the one before it ends.
LEMMA NextPart ==
  ASSUME NEW total \in Nat, NEW parts \in Nat \ {0}, NEW i \in 0 .. parts - 1
  PROVE  /\ PartLen(total, parts, i) \in Nat
         /\ PartStart(total, parts, i) \in Nat
         /\ PartStart(total, parts, i + 1) = PartStart(total, parts, i) + PartLen(total, parts, i)
<1> DEFINE b == total \div parts
           r == total % parts
<1>1. b \in Nat /\ r \in Nat
  BY Quotient
<1> HIDE DEF b, r
<1>2. i * b \in Nat /\ (i + 1) * b = i * b + b
  BY <1>1, SMT
<1>3. PartLen(total, parts, i) = b + IF i < r THEN 1 ELSE 0
  BY DEF PartLen, b, r
<1>4. /\ PartStart(total, parts, i) = i * b + Least(i, r)
      /\ PartStart(total, parts, i + 1) = (i + 1) * b + Least(i + 1, r)
  BY DEF PartStart, b, r
<1> QED
  BY <1>1, <1>2, <1>3, <1>4 DEF Least

\* Parts start in their order.
LEMMA PartsInOrder ==
  ASSUME NEW total \in Nat, NEW parts \in Nat \ {0},
         NEW i \in 0 .. parts, NEW j \in 0 .. parts, i <= j
  PROVE  PartStart(total, parts, i) <= PartStart(total, parts, j)
<1> DEFINE b == total \div parts
           r == total % parts
<1>1. b \in Nat /\ r \in Nat
  BY Quotient
<1> HIDE DEF b, r
<1>2. i * b \in Nat /\ j * b \in Nat /\ i * b <= j * b
  BY <1>1, ProductMonotone
<1>3. /\ PartStart(total, parts, i) = i * b + Least(i, r)
      /\ PartStart(total, parts, j) = j * b + Least(j, r)
  BY DEF PartStart, b, r
<1> QED
  BY <1>1, <1>2, <1>3 DEF Least

\* The first part starts at zero, and what follows the last starts at the end.
LEMMA PartsEnds ==
  ASSUME NEW total \in Nat, NEW parts \in Nat \ {0}
  PROVE  PartStart(total, parts, 0) = 0 /\ PartStart(total, parts, parts) = total
<1> DEFINE b == total \div parts
           r == total % parts
<1>1. b \in Nat /\ r \in 0 .. parts - 1 /\ total = parts * b + r
  BY Quotient
<1> HIDE DEF b, r
<1>2. 0 * b = 0
  BY <1>1, SMT
<1>3. /\ PartStart(total, parts, 0) = 0 * b + Least(0, r)
      /\ PartStart(total, parts, parts) = parts * b + Least(parts, r)
  BY DEF PartStart, b, r
<1> QED
  BY <1>1, <1>2, <1>3 DEF Least

\* Every item is in a part: among the longer ones at the front, or among the others.
LEMMA PartsCover ==
  ASSUME NEW total \in Nat, NEW parts \in Nat \ {0}, NEW x \in 0 .. total - 1
  PROVE  \E i \in 0 .. parts - 1 : x \in Part(total, parts, i)
<1> DEFINE b == total \div parts
           r == total % parts
<1>1. b \in Nat /\ r \in 0 .. parts - 1 /\ total = parts * b + r /\ x \in Nat
  <2>1. b \in Nat /\ r \in 0 .. parts - 1 /\ total = parts * b + r
    BY Quotient
  <2> QED
    BY <2>1
<1>2. \A i \in 0 .. parts - 1 :
        Part(total, parts, i) =
          i * b + Least(i, r) .. i * b + Least(i, r) + (b + IF i < r THEN 1 ELSE 0) - 1
  BY DEF Part, PartStart, PartLen
<1> HIDE DEF b, r
<1>3. r * b \in Nat /\ parts * b \in Nat /\ r \in Nat
  BY <1>1, ProductMonotone
<1>4. CASE x < r * b + r
  <2> DEFINE i == x \div (b + 1)
             y == x % (b + 1)
  <2>1. i \in Nat /\ y \in 0 .. b /\ x = (b + 1) * i + y
    <3> DEFINE c == b + 1
    <3>1. c \in Nat \ {0} /\ c = b + 1
      BY <1>1
    <3> HIDE DEF c
    <3>2. x \div c \in Nat /\ (x % c) \in 0 .. c - 1 /\ x = c * (x \div c) + (x % c)
      BY <1>1, <3>1, Quotient
    <3>3. i = x \div c /\ y = x % c
      BY <3>1
    <3> HIDE DEF i, y
    <3>4. i \in Nat /\ y \in 0 .. c - 1 /\ x = c * i + y
      BY <3>2, <3>3
    <3> QED
      BY <1>1, <3>1, <3>4
  <2> HIDE DEF i, y
  <2>2. (b + 1) * i = i * b + i /\ i * b \in Nat
    BY <1>1, <2>1, SMT
  <2>3. i < r
    <3> SUFFICES ASSUME r <= i PROVE FALSE
      BY <1>3, <2>1
    <3>1. r * b <= i * b
      BY <1>1, <1>3, <2>1, ProductMonotone
    <3> QED
      BY <1>1, <1>3, <1>4, <2>1, <2>2, <3>1
  <2>4. i \in 0 .. parts - 1 /\ Least(i, r) = i
    BY <1>1, <2>1, <2>3 DEF Least
  <2>5. x \in i * b + i .. i * b + i + (b + 1) - 1
    BY <1>1, <2>1, <2>2
  <2> QED
    BY <1>2, <2>3, <2>4, <2>5
<1>5. CASE ~(x < r * b + r)
  <2> DEFINE d == x - (r * b + r)
  <2>1. d \in Nat
    BY <1>1, <1>3, <1>5
  <2>2. b # 0
    <3> SUFFICES ASSUME b = 0 PROVE FALSE
      OBVIOUS
    <3>1. parts * b = 0 /\ r * b = 0
      BY <1>1, SMT
    <3> QED
      BY <1>1, <1>5, <3>1
  <2>3. d = x - (r * b + r)
    OBVIOUS
  <2> HIDE DEF d
  <2> DEFINE k == d \div b
             y == d % b
             i == r + k
  <2>4. k \in Nat /\ y \in 0 .. b - 1 /\ d = b * k + y
    BY <1>1, <2>1, <2>2, Quotient
  <2>5. i = r + k
    OBVIOUS
  <2> HIDE DEF k, y, i
  <2>6. i * b = r * b + b * k /\ i \in Nat
    BY <1>1, <2>4, <2>5, SMT
  <2>7. i < parts
    <3> SUFFICES ASSUME parts <= i PROVE FALSE
      BY <2>6
    <3>1. parts * b <= i * b
      BY <1>1, <2>6, ProductMonotone
    <3> QED
      BY <1>1, <1>3, <2>3, <2>4, <2>6, <3>1
  <2>8. i \in 0 .. parts - 1 /\ Least(i, r) = r /\ ~(i < r)
    BY <1>3, <2>4, <2>5, <2>6, <2>7 DEF Least
  <2>9. x \in i * b + r .. i * b + r + b - 1
    BY <1>1, <1>3, <2>3, <2>4, <2>6
  <2> QED
    BY <1>1, <1>2, <2>8, <2>9
<1> QED
  BY <1>4, <1>5

\* Parts lie within the items, and no item is in two of them.
LEMMA PartsApart ==
  ASSUME NEW total \in Nat, NEW parts \in Nat \ {0}, NEW i \in 0 .. parts - 1
  PROVE  /\ Part(total, parts, i) \subseteq 0 .. total - 1
         /\ \A j \in 0 .. parts - 1 : i < j => Part(total, parts, i) \cap Part(total, parts, j) = {}
<1> DEFINE start(j) == PartStart(total, parts, j)
<1>1. \A j \in 0 .. parts - 1 : start(j) \in Nat /\ Part(total, parts, j) = start(j) .. start(j + 1) - 1
  BY NextPart DEF Part
<1>2. start(parts) = total
  BY PartsEnds
<1>3. \A j \in 0 .. parts : start(j) \in Nat
  <2>1. \A j \in 0 .. parts : j \in 0 .. parts - 1 \/ j = parts
    OBVIOUS
  <2> QED
    BY <1>1, <1>2, <2>1
<1>4. \A j \in 0 .. parts : i + 1 <= j => start(i + 1) <= start(j)
  BY PartsInOrder
<1> HIDE DEF start
<1>5. i + 1 \in 0 .. parts /\ parts \in 0 .. parts
  OBVIOUS
<1>6. Part(total, parts, i) \subseteq 0 .. total - 1
  BY <1>1, <1>2, <1>3, <1>4, <1>5
<1>7. ASSUME NEW j \in 0 .. parts - 1, i < j
      PROVE  Part(total, parts, i) \cap Part(total, parts, j) = {}
  <2>1. start(i + 1) <= start(j) /\ j \in 0 .. parts /\ j + 1 \in 0 .. parts
    BY <1>4, <1>7
  <2> QED
    BY SMTT(30), <1>1, <1>3, <1>5, <2>1
<1> QED
  BY <1>6, <1>7

-----------------------------------------------------------------------------
(* Panels *)

\* Every panel is handed to exactly one worker, whatever the numbers of panels and of
\* threads, and no worker is without a panel (assign_panels, parallel.rs).
THEOREM PanelsAssignedOnce ==
  ASSUME NEW panels \in Nat, NEW threads \in Nat
  PROVE  LET work == AssignPanels(panels, threads)
         IN /\ \A p \in 0 .. panels - 1 : \E w \in DOMAIN work : p \in work[w]
            /\ \A w \in DOMAIN work : work[w] # {} /\ work[w] \subseteq 0 .. panels - 1
            /\ \A v, w \in DOMAIN work : v # w => work[v] \cap work[w] = {}
<1> DEFINE work == AssignPanels(panels, threads)
           m == Clamp(threads, 1, panels)
<1>1. CASE panels = 0
  <2>1. DOMAIN work = {} /\ 0 .. panels - 1 = {}
    BY <1>1 DEF AssignPanels, PanelWorkers
  <2> QED
    BY <2>1
<1>2. CASE panels # 0
  <2>1. m \in Nat \ {0} /\ m <= panels
    BY <1>2 DEF Clamp, Least, Most
  <2>2. /\ DOMAIN work = 0 .. m - 1
        /\ \A w \in 0 .. m - 1 : work[w] = Part(panels, m, w)
    BY <1>2 DEF AssignPanels, PanelWorkers
  <2> HIDE DEF work, m
  <2>3. \A p \in 0 .. panels - 1 : \E w \in 0 .. m - 1 : p \in Part(panels, m, w)
    BY <2>1, PartsCover
  <2>4. \A w \in 0 .. m - 1 : Part(panels, m, w) \subseteq 0 .. panels - 1
    BY <2>1, PartsApart
  <2>5. ASSUME NEW w \in 0 .. m - 1
        PROVE  Part(panels, m, w) # {}
    <3>1. panels \div m \in Nat \ {0}
      <4>1. panels \div m \in Nat /\ (panels % m) \in 0 .. m - 1 /\ panels = m * (panels \div m) + (panels % m)
        BY <2>1, Quotient
      <4>2. m * 0 = 0
        BY <2>1, SMT
      <4> QED
        BY <2>1, <4>1, <4>2
    <3>2. PartLen(panels, m, w) >= 1
      BY <3>1 DEF PartLen
    <3>3. PartStart(panels, m, w) \in Nat /\ PartLen(panels, m, w) \in Nat
      BY <2>1, NextPart
    <3>4. PartStart(panels, m, w) \in Part(panels, m, w)
      BY <3>2, <3>3 DEF Part
    <3> QED
      BY <3>4
  <2>6. \A v, w \in 0 .. m - 1 : v # w => Part(panels, m, v) \cap Part(panels, m, w) = {}
    <3>1. \A v, w \in 0 .. m - 1 : v < w => Part(panels, m, v) \cap Part(panels, m, w) = {}
      BY <2>1, PartsApart
    <3>2. \A v, w \in 0 .. m - 1 : v # w => v < w \/ w < v
      BY <2>1
    <3> QED
      BY <3>1, <3>2
  <2>7. /\ \A p \in 0 .. panels - 1 : \E w \in DOMAIN work : p \in work[w]
        /\ \A w \in DOMAIN work : work[w] # {} /\ work[w] \subseteq 0 .. panels - 1
        /\ \A v, w \in DOMAIN work : v # w => work[v] \cap work[w] = {}
    <3>1. \A p \in 0 .. panels - 1 : \E w \in DOMAIN work : p \in work[w]
      BY <2>2, <2>3
    <3>2. ASSUME NEW w \in DOMAIN work
          PROVE  work[w] # {} /\ work[w] \subseteq 0 .. panels - 1
      BY <2>2, <2>4, <2>5
    <3>3. ASSUME NEW v \in DOMAIN work, NEW w \in DOMAIN work, v # w
          PROVE  work[v] \cap work[w] = {}
      <4>1. v \in 0 .. m - 1 /\ w \in 0 .. m - 1
        BY <2>2
      <4>2. work[v] = Part(panels, m, v) /\ work[w] = Part(panels, m, w)
        BY <2>2, <4>1
      <4> QED
        BY <2>6, <3>3, <4>1, <4>2
    <3> QED
      BY <3>1, <3>2, <3>3
  <2> QED
    BY <2>7 DEF work
<1> QED
  BY <1>1, <1>2

=============================================================================

--------------------------- MODULE NegacyclicRing ---------------------------
(***************************************************************************)
(* The ring Z_Q[X]/(X^N + 1) as the packing and the interpolation code use *)
(* it through the backend: addition, rotation by a monomial, Galois        *)
(* automorphisms, products.  The arithmetic is exact: limbs, transforms    *)
(* and noise of the backend are left out, and the right shift by log2(c)   *)
(* is multiplication by the inverse of c.                                  *)
(***************************************************************************)
EXTENDS Integers, Sequences

CONSTANTS N, Q

ASSUME RingAssumption == N \in Nat \ {0} /\ Q \in Nat \ {0, 1}

Coef == 0 .. N - 1
Poly == [Coef -> 0 .. Q - 1]

(* f[0] + ... + f[n - 1] *)
SumUpTo(f, n) ==
  LET sum[i \in 0 .. n] == IF i = 0 THEN 0 ELSE sum[i - 1] + f[i - 1] IN sum[n]

Zero == [i \in Coef |-> 0]
Plus(a, b) == [i \in Coef |-> (a[i] + b[i]) % Q]
Minus(a, b) == [i \in Coef |-> (a[i] - b[i]) % Q]
Scale(c, a) == [i \in Coef |-> (c * a[i]) % Q]

(* The polynomials f[0] + ... + f[n - 1] *)
PlusUpTo(f, n) == [i \in Coef |-> SumUpTo([k \in 0 .. n - 1 |-> f[k][i]], n) % Q]

(* The coefficient of X^e for an exponent of either sign: X^N = -1. *)
At(a, e) ==
  LET r == e % (2 * N) IN IF r < N THEN a[r] ELSE (-a[r - N]) % Q

(* X^k a *)
Rotate(k, a) == [i \in Coef |-> At(a, i - k)]

(* The inverse of the odd number g modulo 2 N *)
GaloisInv(g) == CHOOSE h \in 1 .. 2 * N : (g * h) % (2 * N) = 1

(* X -> X^g *)
Galois(g, a) == LET h == GaloisInv(g) IN [i \in Coef |-> At(a, i * h)]

Times(a, b) ==
  [i \in Coef |-> SumUpTo([k \in Coef |-> a[k] * At(b, i - k)], N) % Q]

(* The element 5^e of the Galois group, for e >= 0 *)
GaloisElement(e) ==
  LET power[i \in 0 .. e] == IF i = 0 THEN 1 ELSE (5 * power[i - 1]) % (2 * N) IN power[e]

(* The inverse of c modulo Q; a shift to the right by log2(c) bits *)
InvModQ(c) == CHOOSE d \in 1 .. Q : (c * d) % Q = 1 % Q
=============================================================================

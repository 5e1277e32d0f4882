---------------------- MODULE RecursionRoundTrip_proofs ----------------------
(***************************************************************************)
(* Messages, whatever the parameters and wherever they are cut: the reader *)
(* of serialization.rs gives back the query that was written, or refuses.  *)
(* So the server of InsPIRe^2 works on queries as their clients built them.*)
(*                                                                         *)
(* Digits, whatever the coefficients: the sums that the model takes are    *)
(* unique, a row times a one-hot block is one digit of the database, and   *)
(* the limbs of a ciphertext that was switched to the small modulus add up *)
(* to it.  So what the server keeps as digit databases, of the masks and of*)
(* the bodies, is what the first level packed.                             *)
(*                                                                         *)
(* Records, whatever database, threads and batch: the second level selects *)
(* the digits of the client's grid row from both databases, however their  *)
(* matrices are dealt to workers and padded; put together again they are   *)
(* the first level's ciphertext modulo qtilde, which decrypts to the digits*)
(* of the payload.                                                         *)
(*                                                                         *)
(* Sizes, whatever database and batch: the tokens of a message add up to   *)
(* what parameters.rs foretells.                                           *)
(***************************************************************************)
EXTENDS RecursionRoundTrip, WorkSplit_proofs, SequenceTheorems, FiniteSetTheorems, TLAPS

-----------------------------------------------------------------------------
(* Sequences of tokens *)

\* A beginning of a sequence.
LEMMA Beginning ==
  ASSUME NEW s, NEW m \in Nat, HasLength(s, m), NEW n \in 0 .. m
  PROVE  /\ HasLength(SubSeq(s, 1, n), n) /\ Len(SubSeq(s, 1, n)) = n
         /\ \A i \in 1 .. n : SubSeq(s, 1, n)[i] = s[i]
<1> DEFINE S == {s[i] : i \in 1 .. m}
<1>1. s \in Seq(S) /\ Len(s) = m
  BY LengthOf
<1> HIDE DEF S
<1>2. SubSeq(s, 1, n) \in Seq(S) /\ Len(SubSeq(s, 1, n)) = n
  BY <1>1
<1>3. \A i \in 1 .. n : SubSeq(s, 1, n)[i] = s[i]
  BY <1>1
<1>4. HasLength(SubSeq(s, 1, n), n)
  BY <1>2 DEF HasLength
<1> QED
  BY <1>2, <1>3, <1>4

-----------------------------------------------------------------------------
(* What the writers write *)

\* A count and what it announces.
LEMMA CountedIs ==
  ASSUME NEW f, NEW n \in Nat
  PROVE  LET s == Counted(f, n, Compressed)
         IN /\ HasLength(s, 1 + n)
            /\ s[1] = Number(n)
            /\ \A i \in 1 .. n : s[1 + i] = Compressed(f[i - 1])
<1> DEFINE r == [i \in 1 .. n |-> Compressed(f[i - 1])]
<1>1. HasLength(r, n)
  BY DEF HasLength
<1>2. \A i \in 1 .. n : r[i] = Compressed(f[i - 1])
  OBVIOUS
<1>3. Counted(f, n, Compressed) = <<Number(n)>> \o r
  BY DEF Counted
<1> HIDE DEF r
<1> DEFINE h == <<Number(n)>>
<1>4. HasLength(h, 1) /\ h[1] = Number(n)
  BY Single
<1> HIDE DEF h
<1>5. /\ HasLength(Then(h, r), 1 + n)
      /\ \A i \in 1 .. 1 : Then(h, r)[i] = h[i]
      /\ \A i \in 1 .. n : Then(h, r)[1 + i] = r[i]
  <2>1. IsJoined(Then(h, r), h, 1, r, n)
    BY <1>1, <1>4, ThenJoins
  <2> QED
    BY <2>1 DEF IsJoined
<1>6. Counted(f, n, Compressed) = Then(h, r)
  BY <1>3 DEF h, Then
<1> QED
  BY <1>2, <1>4, <1>5, <1>6
\* One token a number of times.
LEMMA RepeatIs ==
  ASSUME NEW x, NEW n \in Nat
  PROVE  /\ HasLength(Repeat(x, n), n) /\ Len(Repeat(x, n)) = n
         /\ \A i \in 1 .. n : Repeat(x, n)[i] = x
<1>1. Repeat(x, n) = [i \in 1 .. n |-> x]
  BY DEF Repeat
<1>2. HasLength(Repeat(x, n), n)
  BY <1>1 DEF HasLength
<1>3. Len(Repeat(x, n)) = n
  BY <1>2, LengthOf
<1> QED
  BY <1>1, <1>2, <1>3

KeyTokens == 9

\* A key: its stride, its automorphism, and as many seeds as entries.
LEMMA KeyIs ==
  ASSUME NEW key
  PROVE  LET s == WriteCompressedKey(key)
         IN /\ HasLength(s, KeyTokens)
            /\ s[1] = Number(key.stride) /\ s[2] = Number(key.p) /\ s[3] = Number(Dnum)
            /\ \A i \in 1 .. Dnum : s[3 + i] = Seed(key.seed)
            /\ \A i \in 1 .. Dnum : s[6 + i] = Entry(key.secret)
<1> DEFINE h == <<Number(key.stride)>>
           p == <<Number(key.p)>>
           c == <<Number(Dnum)>>
           seeds == Repeat(Seed(key.seed), Dnum)
           entries == Repeat(Entry(key.secret), Dnum)
           counted == Then(c, seeds)
           seeded == Then(counted, entries)
           auto == Then(p, seeded)
           all == Then(h, auto)
<1>1. /\ HasLength(h, 1) /\ h[1] = Number(key.stride) /\ HasLength(p, 1) /\ p[1] = Number(key.p)
      /\ HasLength(c, 1) /\ c[1] = Number(Dnum)
  BY Single
<1>2. /\ HasLength(seeds, 3) /\ \A i \in 1 .. 3 : seeds[i] = Seed(key.seed)
      /\ HasLength(entries, 3) /\ \A i \in 1 .. 3 : entries[i] = Entry(key.secret)
  <2>1. Dnum \in Nat /\ Dnum = 3
    BY DEF Dnum
  <2> QED
    BY <2>1, RepeatIs
<1>3. WriteCompressedKey(key) = all
  BY DEF WriteCompressedKey, WriteAutoKey, WriteSeeded, Then
<1> HIDE DEF h, p, c, seeds, entries, counted, seeded, auto, all
<1>4. /\ HasLength(counted, 4) /\ \A i \in 1 .. 1 : counted[i] = c[i]
      /\ \A i \in 1 .. 3 : counted[1 + i] = seeds[i]
  <2>1. HasLength(c, 1) /\ HasLength(seeds, 3) /\ 1 \in Nat /\ 3 \in Nat
    BY <1>1, <1>2
  <2>2. IsJoined(Then(c, seeds), c, 1, seeds, 3)
    BY <2>1, ThenJoins
  <2> QED
    BY <2>2 DEF counted, IsJoined
<1>5. /\ HasLength(seeded, 7) /\ \A i \in 1 .. 4 : seeded[i] = counted[i]
      /\ \A i \in 1 .. 3 : seeded[4 + i] = entries[i]
  <2>1. HasLength(counted, 4) /\ HasLength(entries, 3) /\ 4 \in Nat /\ 3 \in Nat
    BY <1>2, <1>4
  <2>2. IsJoined(Then(counted, entries), counted, 4, entries, 3)
    BY <2>1, ThenJoins
  <2> QED
    BY <2>2 DEF seeded, IsJoined
<1>6. /\ HasLength(auto, 8) /\ \A i \in 1 .. 1 : auto[i] = p[i]
      /\ \A i \in 1 .. 7 : auto[1 + i] = seeded[i]
  <2>1. HasLength(p, 1) /\ HasLength(seeded, 7) /\ 1 \in Nat /\ 7 \in Nat
    BY <1>1, <1>5
  <2>2. IsJoined(Then(p, seeded), p, 1, seeded, 7)
    BY <2>1, ThenJoins
  <2> QED
    BY <2>2 DEF auto, IsJoined
<1>7. /\ HasLength(all, 9) /\ \A i \in 1 .. 1 : all[i] = h[i]
      /\ \A i \in 1 .. 8 : all[1 + i] = auto[i]
  <2>1. HasLength(h, 1) /\ HasLength(auto, 8) /\ 1 \in Nat /\ 8 \in Nat
    BY <1>1, <1>6
  <2>2. IsJoined(Then(h, auto), h, 1, auto, 8)
    BY <2>1, ThenJoins
  <2> QED
    BY <2>2 DEF all, IsJoined
<1>8. all[1] = Number(key.stride) /\ all[2] = Number(key.p) /\ all[3] = Number(Dnum)
  <2>1. all[1 + 2] = auto[2] /\ auto[1 + 1] = seeded[1] /\ seeded[1] = counted[1]
    BY <1>5, <1>6, <1>7
  <2>2. all[1] = h[1] /\ all[1 + 1] = auto[1] /\ auto[1] = p[1]
    BY <1>6, <1>7
  <2> QED
    BY <1>1, <1>4, <2>1, <2>2
<1>9. ASSUME NEW i \in 1 .. 3
      PROVE  all[3 + i] = Seed(key.seed) /\ all[6 + i] = Entry(key.secret)
  <2>1. all[1 + (2 + i)] = auto[2 + i] /\ auto[1 + (1 + i)] = seeded[1 + i]
        /\ seeded[1 + i] = counted[1 + i]
    BY <1>5, <1>6, <1>7
  <2>2. all[1 + (5 + i)] = auto[5 + i] /\ auto[1 + (4 + i)] = seeded[4 + i]
    BY <1>6, <1>7
  <2>3. 1 + (2 + i) = 3 + i /\ 1 + (1 + i) = 2 + i /\ 1 + (5 + i) = 6 + i /\ 1 + (4 + i) = 5 + i
    OBVIOUS
  <2> QED
    BY <1>2, <1>4, <1>5, <2>1, <2>2, <2>3
<1>10. HasLength(all, KeyTokens)
  BY <1>7 DEF KeyTokens
<1>11. Dnum = 3
  BY DEF Dnum
<1> QED
  BY <1>3, <1>8, <1>9, <1>10, <1>11

\* Where the keys of a query start, less one
KeysAt(n0, n1) == 3 + n0 + n1
QueryTokens(n0, n1) == KeysAt(n0, n1) + 3 * KeyTokens

\* The two selectors of a query with their counts, then the three keys
HoldsQuery(s, q, n0, n1) ==
  /\ s[1] = Tag("recursion") /\ s[2] = Number(n0) /\ s[3 + n0] = Number(n1)
  /\ \A i \in 1 .. n0 : s[2 + i] = Compressed(q.src0[i - 1])
  /\ \A i \in 1 .. n1 : s[3 + n0 + i] = Compressed(q.src1[i - 1])
  /\ \A k \in 0 .. 2 : \A j \in 1 .. KeyTokens :
       s[KeysAt(n0, n1) + k * KeyTokens + j] = WriteCompressedKey(q.keys[k])[j]

\* What is written of a query is all of it.
LEMMA QueryIs ==
  ASSUME NEW q, NEW n0 \in Nat, NEW n1 \in Nat
  PROVE  /\ HasLength(WriteRecursionQuery(q, n0, n1), QueryTokens(n0, n1))
         /\ HoldsQuery(WriteRecursionQuery(q, n0, n1), q, n0, n1)
<1> DEFINE tag == <<Tag("recursion")>>
           a == Counted(q.src0, n0, Compressed)
           b == Counted(q.src1, n1, Compressed)
           key(k) == WriteCompressedKey(q.keys[k])
           s1 == Then(tag, a)
           s2 == Then(s1, b)
           s3 == Then(s2, key(0))
           s4 == Then(s3, key(1))
           s5 == Then(s4, key(2))
           n == KeysAt(n0, n1)
<1>1. HasLength(tag, 1) /\ tag[1] = Tag("recursion")
  BY Single
<1>2. /\ HasLength(a, 1 + n0) /\ a[1] = Number(n0)
      /\ \A i \in 1 .. n0 : a[1 + i] = Compressed(q.src0[i - 1])
      /\ HasLength(b, 1 + n1) /\ b[1] = Number(n1)
      /\ \A i \in 1 .. n1 : b[1 + i] = Compressed(q.src1[i - 1])
  BY CountedIs
<1>3. \A k \in 0 .. 2 : HasLength(key(k), 9)
  BY KeyIs DEF KeyTokens
<1>4. WriteRecursionQuery(q, n0, n1) = s5
  BY DEF WriteRecursionQuery, Then
<1>5. n = 3 + n0 + n1 /\ n \in Nat /\ KeyTokens = 9
  BY DEF KeysAt, KeyTokens
<1> HIDE DEF tag, a, b, key, s1, s2, s3, s4, s5, n
<1>6. /\ HasLength(s1, 2 + n0) /\ \A i \in 1 .. 1 : s1[i] = tag[i]
      /\ \A i \in 1 .. 1 + n0 : s1[1 + i] = a[i]
  <2> DEFINE m == 1 + n0
  <2>1. HasLength(a, m) /\ 1 \in Nat /\ m \in Nat /\ 1 + m = 2 + n0
    BY <1>2
  <2> HIDE DEF m
  <2>2. IsJoined(Then(tag, a), tag, 1, a, m)
    BY <1>1, <2>1, ThenJoins
  <2> QED
    BY <2>1, <2>2 DEF m, s1, IsJoined
<1>7. /\ HasLength(s2, n) /\ \A i \in 1 .. 2 + n0 : s2[i] = s1[i]
      /\ \A i \in 1 .. 1 + n1 : s2[2 + n0 + i] = b[i]
  <2> DEFINE l == 2 + n0
             m == 1 + n1
  <2>1. l \in Nat /\ m \in Nat /\ l + m = n /\ HasLength(s1, l) /\ HasLength(b, m)
    BY <1>2, <1>5, <1>6
  <2> HIDE DEF l, m
  <2>2. IsJoined(Then(s1, b), s1, l, b, m)
    BY <2>1, ThenJoins
  <2> QED
    BY <2>1, <2>2 DEF l, m, s2, IsJoined
<1>8. /\ HasLength(s3, n + 9) /\ \A i \in 1 .. n : s3[i] = s2[i]
      /\ \A j \in 1 .. 9 : s3[n + j] = key(0)[j]
  <2> DEFINE l == n
             c == key(0)
  <2>1. l \in Nat /\ 9 \in Nat /\ HasLength(s2, l) /\ HasLength(c, 9)
    BY <1>3, <1>5, <1>7
  <2>2. s3 = Then(s2, c)
    BY DEF s3
  <2> HIDE DEF l, c
  <2>3. IsJoined(Then(s2, c), s2, l, c, 9)
    BY <2>1, ThenJoins
  <2> QED
    BY <2>2, <2>3 DEF l, c, IsJoined
<1>9. /\ HasLength(s4, (n + 9) + 9) /\ \A i \in 1 .. n + 9 : s4[i] = s3[i]
      /\ \A j \in 1 .. 9 : s4[(n + 9) + j] = key(1)[j]
  <2> DEFINE l == n + 9
             c == key(1)
  <2>1. l \in Nat /\ 9 \in Nat /\ HasLength(s3, l) /\ HasLength(c, 9)
    BY <1>3, <1>5, <1>8
  <2>2. s4 = Then(s3, c)
    BY DEF s4
  <2> HIDE DEF l, c
  <2>3. IsJoined(Then(s3, c), s3, l, c, 9)
    BY <2>1, ThenJoins
  <2> QED
    BY <2>2, <2>3 DEF l, c, IsJoined
<1>10. /\ HasLength(s5, ((n + 9) + 9) + 9) /\ \A i \in 1 .. (n + 9) + 9 : s5[i] = s4[i]
       /\ \A j \in 1 .. 9 : s5[((n + 9) + 9) + j] = key(2)[j]
  <2> DEFINE l == (n + 9) + 9
             c == key(2)
  <2>1. l \in Nat /\ 9 \in Nat /\ HasLength(s4, l) /\ HasLength(c, 9)
    BY <1>3, <1>5, <1>9
  <2>2. s5 = Then(s4, c)
    BY DEF s5
  <2> HIDE DEF l, c
  <2>3. IsJoined(Then(s4, c), s4, l, c, 9)
    BY <2>1, ThenJoins
  <2> QED
    BY <2>2, <2>3 DEF l, c, IsJoined
<1>11. HasLength(s5, QueryTokens(n0, n1))
  <2>1. QueryTokens(n0, n1) = n + 3 * KeyTokens
    BY DEF QueryTokens, n
  <2>2. QueryTokens(n0, n1) = ((n + 9) + 9) + 9
    BY <1>5, <2>1
  <2> QED
    BY <1>10, <2>2
<1>12. \A i \in 1 .. n : s5[i] = s2[i]
  BY <1>5, <1>8, <1>9, <1>10
<1>13. \A i \in 1 .. 2 + n0 : s5[i] = s1[i]
  BY <1>5, <1>7, <1>12
<1>14. s5[1] = Tag("recursion") /\ s5[2] = Number(n0)
  <2>1. 1 \in 1 .. 2 + n0 /\ 2 \in 1 .. 2 + n0 /\ 1 \in 1 .. 1 + n0 /\ 1 + 1 = 2
    OBVIOUS
  <2> QED
    BY <1>1, <1>2, <1>6, <1>13, <2>1
<1>15. ASSUME NEW i \in 1 .. n0
       PROVE  s5[2 + i] = Compressed(q.src0[i - 1])
  <2> DEFINE j == 1 + i
             x == 2 + i
  <2>1. j \in 1 .. 1 + n0 /\ x \in 1 .. 2 + n0 /\ 1 + j = x
    OBVIOUS
  <2>2. a[j] = Compressed(q.src0[i - 1])
    BY <1>2
  <2> HIDE DEF j, x
  <2>3. s1[1 + j] = a[j] /\ s5[x] = s1[x]
    BY <1>6, <1>13, <2>1
  <2> QED
    BY <2>1, <2>2, <2>3 DEF x
<1>16. ASSUME NEW i \in 1 .. 1 + n1
       PROVE  s5[2 + n0 + i] = b[i]
  <2> DEFINE x == 2 + n0 + i
  <2>1. x \in 1 .. n /\ s2[x] = b[i]
    BY <1>5, <1>7
  <2> HIDE DEF x
  <2>2. s5[x] = b[i]
    BY <1>12, <2>1
  <2> QED
    BY <2>2 DEF x
<1>17. s5[3 + n0] = Number(n1)
  <2>1. 1 \in 1 .. 1 + n1 /\ 2 + n0 + 1 = 3 + n0
    OBVIOUS
  <2>2. s5[2 + n0 + 1] = b[1]
    BY <1>16, <2>1
  <2> QED
    BY <1>2, <2>1, <2>2
<1>18. ASSUME NEW i \in 1 .. n1
       PROVE  s5[3 + n0 + i] = Compressed(q.src1[i - 1])
  <2>1. 1 + i \in 1 .. 1 + n1 /\ 2 + n0 + (1 + i) = 3 + n0 + i
    OBVIOUS
  <2>2. s5[2 + n0 + (1 + i)] = b[1 + i]
    BY <1>16, <2>1
  <2> QED
    BY <1>2, <2>1, <2>2
<1>19. ASSUME NEW j \in 1 .. 9
       PROVE  /\ s5[n + 0 * 9 + j] = key(0)[j] /\ s5[n + 1 * 9 + j] = key(1)[j]
              /\ s5[n + 2 * 9 + j] = key(2)[j]
  <2> DEFINE x == n + j
             y == (n + 9) + j
             z == ((n + 9) + 9) + j
  <2>1. /\ x \in 1 .. n + 9 /\ x \in 1 .. (n + 9) + 9 /\ y \in 1 .. (n + 9) + 9
        /\ n + 0 * 9 + j = x /\ n + 1 * 9 + j = y /\ n + 2 * 9 + j = z
    BY <1>5
  <2>2. s3[x] = key(0)[j] /\ s4[y] = key(1)[j] /\ s5[z] = key(2)[j]
    BY <1>8, <1>9, <1>10
  <2> HIDE DEF x, y, z
  <2>3. s5[x] = key(0)[j] /\ s5[y] = key(1)[j]
    BY <1>9, <1>10, <2>1, <2>2
  <2> QED
    BY <2>1, <2>2, <2>3
<1>20. ASSUME NEW k \in 0 .. 2, NEW j \in 1 .. 9
       PROVE  s5[n + k * 9 + j] = key(k)[j]
  <2>1. k = 0 \/ k = 1 \/ k = 2
    OBVIOUS
  <2> QED
    BY <1>19, <2>1
<1>21. \A k \in 0 .. 2 : \A j \in 1 .. KeyTokens :
         s5[KeysAt(n0, n1) + k * KeyTokens + j] = WriteCompressedKey(q.keys[k])[j]
  BY <1>5, <1>20 DEF n, key
<1> QED
  <2>1. HoldsQuery(s5, q, n0, n1)
    BY <1>14, <1>15, <1>17, <1>18, <1>21 DEF HoldsQuery
  <2> QED
    BY <1>4, <1>11, <2>1
-----------------------------------------------------------------------------
(* What the reader reads *)

\* ensure_len and read_exact: the count is the expected one, and what it counts is there.
LEMMA AnnouncedIsThere ==
  ASSUME NEW m, Len(m) \in Nat, NEW at \in Nat, NEW kind, NEW expected,
         Announces(m, at, kind, expected)
  PROVE  /\ Len(m) >= at
         /\ m[at].value \in Nat => m[at].value = expected /\ Len(m) >= at + m[at].value
<1> DEFINE v == m[at].value
<1>1. Continues(m, at, <<"number">>) /\ v = expected /\ Continues(m, at + 1, Repeat(kind, v))
  BY DEF Announces, CountFits
<1>2. Len(m) >= at
  <2>1. Len(m) >= at + Len(<<"number">>) - 1 /\ Len(<<"number">>) = 1
    BY <1>1 DEF Continues
  <2> QED
    BY <2>1
<1> HIDE DEF v
<1>3. ASSUME v \in Nat
      PROVE  Len(m) >= at + v
  <2>1. Len(Repeat(kind, v)) = v
    BY <1>3, RepeatIs
  <2>2. Len(m) >= at + 1 + Len(Repeat(kind, v)) - 1
    BY <1>1 DEF Continues
  <2> QED
    BY <1>3, <2>1, <2>2
<1> QED
  BY <1>1, <1>2, <1>3 DEF v

\* The tokens of a key are all there if it can be read.
LEMMA KeyIsThere ==
  ASSUME NEW m, Len(m) \in Nat, NEW at \in Nat, ReadsCompressedKey(m, at),
         Len(m) >= at + 2 => m[at + 2].value = Dnum
  PROVE  Len(m) >= at + KeyTokens - 1
<1> DEFINE count == at + 2
           entries == count + 1 + Dnum
<1>1. count \in Nat /\ entries \in Nat /\ Dnum = 3 /\ Dnum \in Nat /\ KeyTokens = 9
      /\ at + 1 + 1 = count
  BY DEF Dnum, KeyTokens
<1>2. Announces(m, count, "seed", Dnum) /\ Continues(m, After(m, count), Repeat("entry", Dnum))
  BY <1>1 DEF ReadsCompressedKey, ReadsAutoKey, ReadsSeeded
<1>3. Len(m) >= count
  BY <1>1, <1>2, AnnouncedIsThere
<1>4. m[count].value = Dnum
  BY <1>1, <1>3
<1>5. After(m, count) = entries
  BY <1>4 DEF After
<1>6. Len(Repeat("entry", Dnum)) = Dnum
  BY <1>1, RepeatIs
<1>7. Len(m) >= entries + Dnum - 1
  BY <1>2, <1>5, <1>6 DEF Continues
<1> QED
  BY <1>1, <1>7

\* A query as far as the reader knows it
Received(q, n0, n1) ==
  [src0 |-> [b \in 0 .. n0 - 1 |-> q.src0[b]], src1 |-> [b \in 0 .. n1 - 1 |-> q.src1[b]],
   keys |-> [k \in 0 .. 2 |-> [stride |-> q.keys[k].stride, p |-> q.keys[k].p,
                               seed |-> q.keys[k].seed, secret |-> q.keys[k].secret]]]

\* What the reader makes of a whole message, whatever it expects.
LEMMA WholeIsRead ==
  ASSUME NEW q, NEW n0 \in Nat, NEW n1 \in Nat, NEW m,
         \A i \in 1 .. QueryTokens(n0, n1) : m[i] = WriteRecursionQuery(q, n0, n1)[i]
  PROVE  [src0 |-> Values(m, 2), src1 |-> Values(m, After(m, 2)),
          keys |-> [k \in 0 .. 2 |->
            CompressedKeyAt(m, After(m, After(m, 2)) + k * (1 + AutoKeyTokens))]]
           = Received(q, n0, n1)
<1> DEFINE s == WriteRecursionQuery(q, n0, n1)
           n == KeysAt(n0, n1)
<1>1. /\ s[2] = Number(n0) /\ s[3 + n0] = Number(n1)
      /\ \A i \in 1 .. n0 : s[2 + i] = Compressed(q.src0[i - 1])
      /\ \A i \in 1 .. n1 : s[3 + n0 + i] = Compressed(q.src1[i - 1])
      /\ \A k \in 0 .. 2 : \A j \in 1 .. KeyTokens :
           s[n + k * KeyTokens + j] = WriteCompressedKey(q.keys[k])[j]
  <2>1. HoldsQuery(s, q, n0, n1)
    BY QueryIs
  <2> HIDE DEF s
  <2> QED
    BY <2>1 DEF HoldsQuery
<1> HIDE DEF s
<1>2. n = 3 + n0 + n1 /\ KeyTokens = 9 /\ QueryTokens(n0, n1) = n + 27 /\ n \in Nat
  BY DEF KeysAt, QueryTokens, KeyTokens
<1> HIDE DEF n
<1>3. \A i \in 1 .. n + 27 : m[i] = s[i]
  BY <1>2 DEF s
<1>4. m[2] = Number(n0) /\ m[3 + n0] = Number(n1)
  <2>1. 2 \in 1 .. n + 27 /\ 3 + n0 \in 1 .. n + 27
    BY <1>2
  <2> QED
    BY <1>1, <1>3, <2>1
<1>5. m[2].value = n0 /\ m[3 + n0].value = n1
  BY <1>4 DEF Number
<1>6. After(m, 2) = 3 + n0 /\ After(m, 3 + n0) = n + 1
  BY <1>2, <1>5 DEF After
<1>7. Values(m, 2) = [b \in 0 .. n0 - 1 |-> q.src0[b]]
  <2>1. Values(m, 2) = [b \in 0 .. n0 - 1 |-> m[2 + 1 + b].value]
    BY <1>5 DEF Values
  <2>2. ASSUME NEW b \in 0 .. n0 - 1
        PROVE  m[2 + 1 + b].value = q.src0[b]
    <3>1. b + 1 \in 1 .. n0 /\ 2 + 1 + b = 2 + (b + 1) /\ (b + 1) - 1 = b /\ 2 + (b + 1) \in 1 .. n + 27
      BY <1>2
    <3>2. m[2 + (b + 1)] = Compressed(q.src0[(b + 1) - 1])
      BY <1>1, <1>3, <3>1
    <3> QED
      BY <3>1, <3>2 DEF Compressed
  <2> QED
    BY <2>1, <2>2
<1>8. Values(m, 3 + n0) = [b \in 0 .. n1 - 1 |-> q.src1[b]]
  <2>1. Values(m, 3 + n0) = [b \in 0 .. n1 - 1 |-> m[3 + n0 + 1 + b].value]
    BY <1>5 DEF Values
  <2>2. ASSUME NEW b \in 0 .. n1 - 1
        PROVE  m[3 + n0 + 1 + b].value = q.src1[b]
    <3>1. b + 1 \in 1 .. n1 /\ 3 + n0 + 1 + b = 3 + n0 + (b + 1) /\ (b + 1) - 1 = b
          /\ 3 + n0 + (b + 1) \in 1 .. n + 27
      BY <1>2
    <3>2. m[3 + n0 + (b + 1)] = Compressed(q.src1[(b + 1) - 1])
      BY <1>1, <1>3, <3>1
    <3> QED
      BY <3>1, <3>2 DEF Compressed
  <2> QED
    BY <2>1, <2>2
<1>9. ASSUME NEW k \in 0 .. 2
      PROVE  CompressedKeyAt(m, n + 1 + k * (1 + AutoKeyTokens)) =
               [stride |-> q.keys[k].stride, p |-> q.keys[k].p,
                seed |-> q.keys[k].seed, secret |-> q.keys[k].secret]
  <2> DEFINE at == n + 1 + k * (1 + AutoKeyTokens)
             x == n + k * KeyTokens
             c == WriteCompressedKey(q.keys[k])
  <2>1. 1 + AutoKeyTokens = 9 /\ Dnum = 3
    BY DEF AutoKeyTokens, SeededTokens, Dnum
  <2>2. x \in n .. n + 18 /\ at = x + 1
    BY <1>2, <2>1
  <2>3. /\ c[1] = Number(q.keys[k].stride) /\ c[2] = Number(q.keys[k].p)
        /\ c[3 + 1] = Seed(q.keys[k].seed) /\ c[6 + 1] = Entry(q.keys[k].secret)
    <3>1. /\ c[1] = Number(q.keys[k].stride) /\ c[2] = Number(q.keys[k].p)
          /\ \A i \in 1 .. Dnum : c[3 + i] = Seed(q.keys[k].seed)
          /\ \A i \in 1 .. Dnum : c[6 + i] = Entry(q.keys[k].secret)
      BY KeyIs
    <3>2. 1 \in 1 .. Dnum
      BY <2>1
    <3> QED
      BY <3>1, <3>2
  <2>4. \A j \in 1 .. 9 : s[x + j] = c[j]
    BY <1>1, <1>2
  <2> HIDE DEF at, x, c
  <2>5. \A j \in 1 .. 9 : m[x + j] = c[j]
    <3> SUFFICES ASSUME NEW j \in 1 .. 9
                 PROVE  m[x + j] = c[j]
      OBVIOUS
    <3>1. x + j \in 1 .. n + 27
      BY <1>2, <2>2
    <3> QED
      BY <1>3, <2>4, <3>1
  <2>6. m[at] = c[1] /\ m[at + 1] = c[2] /\ m[at + 3] = c[4] /\ m[at + 3 + Dnum] = c[7]
    <3>1. at = x + 1 /\ at + 1 = x + 2 /\ at + 3 = x + 4 /\ at + 3 + Dnum = x + 7
      BY <1>2, <2>1, <2>2
    <3>2. m[x + 1] = c[1] /\ m[x + 2] = c[2] /\ m[x + 4] = c[4] /\ m[x + 7] = c[7]
      BY <2>5
    <3> QED
      BY <3>1, <3>2
  <2>7. /\ m[at].value = q.keys[k].stride /\ m[at + 1].value = q.keys[k].p
        /\ m[at + 3].value = q.keys[k].seed /\ m[at + 3 + Dnum].value = q.keys[k].secret
    BY <2>3, <2>6 DEF Number, Seed, Entry
  <2>8. CompressedKeyAt(m, at) = [stride |-> q.keys[k].stride, p |-> q.keys[k].p,
                                  seed |-> q.keys[k].seed, secret |-> q.keys[k].secret]
    BY <2>7 DEF CompressedKeyAt
  <2> QED
    BY <2>8 DEF at
<1>10. After(m, After(m, 2)) = n + 1
  BY <1>6
<1> QED
  BY <1>6, <1>7, <1>8, <1>9, <1>10 DEF Received
\* Wherever a message is cut and whatever numbers of blocks the reader expects, it reads
\* the query that was written, whole, or refuses.
THEOREM CutMessagesRefused ==
  ASSUME NEW q, NEW n0 \in Nat, NEW n1 \in Nat,
         NEW n \in 0 .. Len(WriteRecursionQuery(q, n0, n1)), NEW e0, NEW e1,
         ReadRecursionQuery(SubSeq(WriteRecursionQuery(q, n0, n1), 1, n), e0, e1) # Refused
  PROVE  /\ n = Len(WriteRecursionQuery(q, n0, n1)) /\ e0 = n0 /\ e1 = n1
         /\ ReadRecursionQuery(SubSeq(WriteRecursionQuery(q, n0, n1), 1, n), e0, e1)
              = Received(q, n0, n1)
<1> DEFINE s == WriteRecursionQuery(q, n0, n1)
           m == SubSeq(s, 1, n)
           total == QueryTokens(n0, n1)
           keys == After(m, After(m, 2))
           key(k) == keys + k * (1 + AutoKeyTokens)
           query == [src0 |-> Values(m, 2), src1 |-> Values(m, After(m, 2)),
                     keys |-> [k \in 0 .. 2 |-> CompressedKeyAt(m, key(k))]]
<1>1. HasLength(s, total) /\ HoldsQuery(s, q, n0, n1)
  BY QueryIs
<1>2. /\ IsTagged(m, "recursion")
      /\ Announces(m, 2, "compressed", e0)
      /\ Announces(m, After(m, 2), "compressed", e1)
      /\ \A k \in 0 .. 2 : ReadsCompressedKey(m, key(k))
      /\ ReadRecursionQuery(m, e0, e1) = query
  BY DEF ReadRecursionQuery
<1>3. total = 30 + n0 + n1 /\ total \in Nat /\ KeyTokens = 9 /\ KeysAt(n0, n1) = 3 + n0 + n1
      /\ 1 + AutoKeyTokens = 9 /\ Dnum = 3
  BY DEF QueryTokens, KeysAt, KeyTokens, AutoKeyTokens, SeededTokens, Dnum
<1>4. Len(s) = total
  <2> HIDE DEF s, total
  <2> QED
    BY <1>1, <1>3, LengthOf
<1>5. n \in 0 .. total
  BY <1>4
<1>6. Len(m) = n /\ \A i \in 1 .. n : m[i] = s[i]
  <2> HIDE DEF s, total
  <2> QED
    BY <1>1, <1>3, <1>5, Beginning
<1> HIDE DEF s, m, total, keys, key, query
<1>7. s[2] = Number(n0) /\ s[3 + n0] = Number(n1)
  BY <1>1 DEF HoldsQuery
<1>read. n \in Nat /\ Len(m) = n
  BY <1>5, <1>6
<1>nat. Len(m) \in Nat
  BY <1>read
<1>same. \A i \in Nat : 1 <= i /\ i <= n => m[i] = s[i]
  BY <1>6, <1>read
<1>8. e0 = n0 /\ n >= 2 + n0 /\ After(m, 2) = 3 + n0
  <2>1. Announces(m, 2, "compressed", e0) /\ 2 \in Nat
    BY <1>2
  <2>2. Len(m) >= 2
    BY <1>nat, <2>1, AnnouncedIsThere
  <2>3. m[2] = s[2]
    BY <1>read, <1>same, <2>2
  <2>4. m[2].value = n0
    BY <1>7, <2>3 DEF Number
  <2>5. m[2].value \in Nat
    BY <2>4
  <2>6. m[2].value = e0 /\ Len(m) >= 2 + m[2].value
    BY <1>nat, <2>1, <2>5, AnnouncedIsThere
  <2>7. After(m, 2) = 3 + n0
    BY <2>4 DEF After
  <2> QED
    BY <1>read, <2>4, <2>6, <2>7
<1>9. e1 = n1 /\ n >= 3 + n0 + n1 /\ After(m, 3 + n0) = 4 + n0 + n1
  <2> DEFINE at == 3 + n0
  <2>1. Announces(m, at, "compressed", e1) /\ at \in Nat /\ at >= 1
    BY <1>2, <1>8
  <2>2. s[at] = Number(n1)
    BY <1>7
  <2> HIDE DEF at
  <2>3. Len(m) >= at
    BY <1>nat, <2>1, AnnouncedIsThere
  <2>4. m[at] = s[at]
    BY <1>read, <1>same, <2>1, <2>3
  <2>5. m[at].value = n1
    BY <2>2, <2>4 DEF Number
  <2>6. m[at].value \in Nat
    BY <2>5
  <2>7. m[at].value = e1 /\ Len(m) >= at + m[at].value
    BY <1>nat, <2>1, <2>6, AnnouncedIsThere
  <2>8. After(m, at) = at + 1 + n1
    BY <2>5 DEF After
  <2>9. e1 = n1 /\ n >= at + n1
    BY <1>read, <2>5, <2>7
  <2> QED
    BY <2>8, <2>9 DEF at
<1>10. key(2) = 22 + n0 + n1
  <2>1. keys = 4 + n0 + n1
    BY <1>8, <1>9 DEF keys
  <2> QED
    BY <1>3, <2>1 DEF key
<1>11. n = total
  <2> DEFINE at == 22 + n0 + n1
             c == WriteCompressedKey(q.keys[2])
  <2>1. ReadsCompressedKey(m, at) /\ at \in Nat
    BY <1>2, <1>10
  <2>2. s[at + 2] = c[3]
    <3>1. s[KeysAt(n0, n1) + 2 * KeyTokens + 3] = c[3]
      <4>1. 2 \in 0 .. 2 /\ 3 \in 1 .. KeyTokens
        BY <1>3
      <4> QED
        BY <1>1, <4>1 DEF HoldsQuery
    <3>2. KeysAt(n0, n1) + 2 * KeyTokens + 3 = at + 2
      BY <1>3
    <3> QED
      BY <3>1, <3>2
  <2>3. c[3].value = Dnum
    <3>1. c[3] = Number(Dnum)
      BY KeyIs
    <3> QED
      BY <3>1 DEF Number
  <2> HIDE DEF c
  <2> HIDE DEF at
  <2>4. Len(m) >= at + 2 => m[at + 2].value = Dnum
    <3>1. ASSUME Len(m) >= at + 2
          PROVE  m[at + 2] = s[at + 2]
      BY <1>read, <1>same, <2>1, <3>1
    <3> QED
      BY <2>2, <2>3, <3>1
  <2>5. Len(m) >= at + KeyTokens - 1
    BY <1>nat, <2>1, <2>4, KeyIsThere
  <2>6. n >= total
    BY <1>3, <1>read, <2>5 DEF at
  <2> QED
    BY <1>3, <1>5, <2>6
<1>12. query = Received(q, n0, n1)
  <2>1. \A i \in 1 .. QueryTokens(n0, n1) : m[i] = WriteRecursionQuery(q, n0, n1)[i]
    BY <1>6, <1>11 DEF s, total
  <2> QED
    BY <2>1, WholeIsRead DEF query, key, keys
<1> QED
  BY <1>2, <1>4, <1>8, <1>9, <1>11, <1>12 DEF s, m
\* A whole message is read, by a reader that expects what was written.
THEOREM WholeMessagesRead ==
  ASSUME NEW q, NEW n0 \in Nat, NEW n1 \in Nat
  PROVE  ReadRecursionQuery(WriteRecursionQuery(q, n0, n1), n0, n1) = Received(q, n0, n1)
<1> DEFINE s == WriteRecursionQuery(q, n0, n1)
           n == KeysAt(n0, n1)
           keys == After(s, After(s, 2))
           key(k) == keys + k * (1 + AutoKeyTokens)
<1>1. HasLength(s, QueryTokens(n0, n1)) /\ HoldsQuery(s, q, n0, n1)
  BY QueryIs
<1>2. /\ [src0 |-> Values(s, 2), src1 |-> Values(s, After(s, 2)),
          keys |-> [k \in 0 .. 2 |-> CompressedKeyAt(s, key(k))]] = Received(q, n0, n1)
  BY WholeIsRead
<1>3. /\ ReadRecursionQuery(s, n0, n1) =
           IF /\ IsTagged(s, "recursion")
              /\ Announces(s, 2, "compressed", n0)
              /\ Announces(s, After(s, 2), "compressed", n1)
              /\ \A k \in 0 .. 2 : ReadsCompressedKey(s, key(k))
           THEN [src0 |-> Values(s, 2), src1 |-> Values(s, After(s, 2)),
                 keys |-> [k \in 0 .. 2 |-> CompressedKeyAt(s, key(k))]]
           ELSE Refused
  BY DEF ReadRecursionQuery
<1>4. n = 3 + n0 + n1 /\ KeyTokens = 9 /\ QueryTokens(n0, n1) = n + 27 /\ n \in Nat
      /\ 1 + AutoKeyTokens = 9 /\ Dnum = 3
  BY DEF KeysAt, QueryTokens, KeyTokens, AutoKeyTokens, SeededTokens, Dnum
<1>5. /\ s[1] = Tag("recursion") /\ s[2] = Number(n0) /\ s[3 + n0] = Number(n1)
      /\ \A i \in 1 .. n0 : s[2 + i] = Compressed(q.src0[i - 1])
      /\ \A i \in 1 .. n1 : s[3 + n0 + i] = Compressed(q.src1[i - 1])
      /\ \A k \in 0 .. 2 : \A j \in 1 .. KeyTokens :
           s[n + k * KeyTokens + j] = WriteCompressedKey(q.keys[k])[j]
  BY <1>1 DEF HoldsQuery
<1> HIDE DEF s, n
<1>6. Len(s) = n + 27
  <2> DEFINE l == n + 27
  <2>1. HasLength(s, l) /\ l \in Nat
    BY <1>1, <1>4
  <2> HIDE DEF l
  <2>2. Len(s) = l
    BY <2>1, LengthOf
  <2> QED
    BY <2>2 DEF l
<1>7. s[2].value = n0 /\ s[3 + n0].value = n1 /\ After(s, 2) = 3 + n0 /\ After(s, 3 + n0) = n + 1
  <2>1. s[2].value = n0 /\ s[3 + n0].value = n1
    BY <1>5 DEF Number
  <2> QED
    BY <1>4, <2>1 DEF After
<1>8. IsTagged(s, "recursion")
  BY <1>4, <1>5, <1>6 DEF IsTagged, Tag
<1>9. \A at \in 1 .. n + 27 : s[at].kind = "number" => Continues(s, at, <<"number">>)
  BY <1>4, <1>6 DEF Continues
<1>10. ASSUME NEW at \in Nat, NEW len \in Nat, NEW kind, at + len <= n + 27 + 1,
              \A i \in 1 .. len : s[at + i - 1].kind = kind
       PROVE  Continues(s, at, Repeat(kind, len))
  <2>1. DOMAIN Repeat(kind, len) = 1 .. len /\ Len(Repeat(kind, len)) = len
        /\ \A i \in 1 .. len : Repeat(kind, len)[i] = kind
    BY RepeatIs DEF Repeat
  <2> QED
    BY <1>4, <1>6, <1>10, <2>1 DEF Continues
<1>11. Announces(s, 2, "compressed", n0)
  <2>1. \A i \in 1 .. n0 : s[3 + i - 1].kind = "compressed"
    <3> SUFFICES ASSUME NEW i \in 1 .. n0
                 PROVE  s[3 + i - 1].kind = "compressed"
      OBVIOUS
    <3>1. 3 + i - 1 = 2 + i
      OBVIOUS
    <3>2. s[2 + i] = Compressed(q.src0[i - 1])
      BY <1>5
    <3>3. s[2 + i].kind = "compressed"
      BY <3>2 DEF Compressed
    <3> QED
      BY <3>1, <3>3
  <2>2. Continues(s, 3, Repeat("compressed", n0))
    <3>1. 3 \in Nat /\ 3 + n0 <= n + 27 + 1
      BY <1>4
    <3> QED
      BY <1>10, <2>1, <3>1
  <2>3. Continues(s, 2, <<"number">>)
    BY <1>4, <1>5, <1>9 DEF Number
  <2> QED
    BY <1>7, <2>2, <2>3 DEF Announces, CountFits
<1>12. Announces(s, 3 + n0, "compressed", n1)
  <2> DEFINE at == 3 + n0
  <2>1. \A i \in 1 .. n1 : s[at + 1 + i - 1].kind = "compressed"
    <3> SUFFICES ASSUME NEW i \in 1 .. n1
                 PROVE  s[at + 1 + i - 1].kind = "compressed"
      OBVIOUS
    <3>1. at + 1 + i - 1 = 3 + n0 + i
      OBVIOUS
    <3>2. s[3 + n0 + i] = Compressed(q.src1[i - 1])
      BY <1>5
    <3>3. s[3 + n0 + i].kind = "compressed"
      BY <3>2 DEF Compressed
    <3> QED
      BY <3>1, <3>3
  <2>2. at \in Nat /\ at + 1 \in Nat /\ at + 1 + n1 <= n + 27 + 1 /\ at \in 1 .. n + 27
    BY <1>4
  <2>3. s[at].kind = "number" /\ s[at].value = n1
    BY <1>5 DEF Number
  <2> HIDE DEF at
  <2>4. Continues(s, at + 1, Repeat("compressed", n1))
    BY <1>10, <2>1, <2>2
  <2>5. Continues(s, at, <<"number">>)
    BY <1>9, <2>2, <2>3
  <2>6. Announces(s, at, "compressed", n1)
    BY <2>3, <2>4, <2>5 DEF Announces, CountFits
  <2> QED
    BY <2>6 DEF at
<1>13. ASSUME NEW k \in 0 .. 2
       PROVE  ReadsCompressedKey(s, key(k))
  <2> DEFINE x == n + k * KeyTokens
             c == WriteCompressedKey(q.keys[k])
             at == x + 1
  <2>1. key(k) = at
    BY <1>4, <1>7 DEF key, keys
  <2>2. x \in n .. n + 18 /\ x \in Nat
    BY <1>4
  <2>3. /\ c[1] = Number(q.keys[k].stride) /\ c[2] = Number(q.keys[k].p) /\ c[3] = Number(Dnum)
        /\ \A i \in 1 .. Dnum : c[3 + i] = Seed(q.keys[k].seed)
        /\ \A i \in 1 .. Dnum : c[6 + i] = Entry(q.keys[k].secret)
    BY KeyIs
  <2>4. \A j \in 1 .. 9 : s[x + j] = c[j]
    BY <1>4, <1>5
  <2> HIDE DEF x, c
  <2>5. /\ s[x + 1].kind = "number" /\ s[x + 2].kind = "number"
        /\ s[x + 3].kind = "number" /\ s[x + 3].value = 3
    BY <1>4, <2>3, <2>4 DEF Number
  <2>6. ASSUME NEW i \in 1 .. 3
        PROVE  s[x + 4 + i - 1].kind = "seed" /\ s[x + 7 + i - 1].kind = "entry"
    <3>1. x + 4 + i - 1 = x + (3 + i) /\ x + 7 + i - 1 = x + (6 + i)
          /\ 3 + i \in 1 .. 9 /\ 6 + i \in 1 .. 9
      BY <2>2
    <3>2. s[x + (3 + i)] = c[3 + i] /\ s[x + (6 + i)] = c[6 + i]
      BY <2>4, <3>1
    <3> QED
      BY <1>4, <2>3, <3>1, <3>2 DEF Seed, Entry
  <2>7. /\ Continues(s, x + 1, <<"number">>) /\ Continues(s, x + 2, <<"number">>)
        /\ Continues(s, x + 3, <<"number">>)
    <3>1. {x + 1, x + 2, x + 3} \subseteq 1 .. n + 27
      BY <1>4, <2>2
    <3> QED
      BY <1>9, <2>5, <3>1
  <2>8. Continues(s, x + 4, Repeat("seed", 3)) /\ Continues(s, x + 7, Repeat("entry", 3))
    <3>1. /\ x + 4 \in Nat /\ x + 7 \in Nat /\ 3 \in Nat
          /\ x + 4 + 3 <= n + 27 + 1 /\ x + 7 + 3 <= n + 27 + 1
      BY <1>4, <2>2
    <3> QED
      BY <1>10, <2>6, <3>1
  <2>9. at + 1 = x + 2 /\ at + 1 + 1 = x + 3 /\ x + 3 + 1 = x + 4 /\ x + 3 + 1 + 3 = x + 7
    BY <2>2
  <2>10. After(s, x + 3) = x + 7
    BY <2>5, <2>9 DEF After
  <2>11. ReadsSeeded(s, x + 3, Dnum)
    BY <1>4, <2>5, <2>7, <2>8, <2>9, <2>10 DEF ReadsSeeded, Announces, CountFits
  <2>12. ReadsCompressedKey(s, at)
    BY <2>7, <2>9, <2>11 DEF ReadsCompressedKey, ReadsAutoKey
  <2> QED
    BY <2>1, <2>12
<1>14. ReadRecursionQuery(s, n0, n1) = Received(q, n0, n1)
  BY <1>2, <1>3, <1>7, <1>8, <1>11, <1>12, <1>13
<1> QED
  BY <1>14 DEF s
-----------------------------------------------------------------------------
(* What is under way *)

Reshaped(c, g, k) == [c EXCEPT !.gridRows = g, !.cols = k]

Shapes == {Reshaped(c, g, k) : c \in Calls, g \in Positive, k \in Positive}

Writers ==
  UNION {{Client(shape, who, i) : who \in Nat, i \in 0 .. Capacity(shape) - 1} : shape \in Shapes}

CutAt(client, n) == [client |-> client, message |-> SubSeq(Written(client), 1, n)]

\* Messages of clients of any shape, whole or cut
Letters == UNION {{CutAt(client, n) : n \in 0 .. Len(Written(client))} : client \in Writers}

\* The server has read queries of clients, numbered from 1.
QueriesAre ==
  stage \in {"received", "finish"} =>
    \E n \in Nat : DOMAIN queries = 1 .. n /\ \A q \in 1 .. n : queries[q].client \in Writers

\* What the server has read depends on what was under way.
IInv ==
  /\ call \in Calls
  /\ mail \in Seq(Letters)
  /\ OnlyWholeMessages
  /\ QueriesAre

\* The numbers a database's shape is made of, and what it holds.
LEMMA ShapeIs ==
  ASSUME NEW c \in Shapes
  PROVE  /\ c.gridRows \in Positive /\ c.cols \in Positive /\ c.gamma0 \in Positive
         /\ Words \in Positive /\ c.gamma0 \div Words \in Positive
         /\ GridRows(Layout(c), c.gamma0) = c.gridRows
         /\ PayloadsPerColumn(Layout(c), c.gamma0) = c.gamma0 \div Words
         /\ PayloadsPerRow(Layout(c), c.gamma0) = (c.gamma0 \div Words) * c.cols
         /\ PayloadsPerRow(Layout(c), c.gamma0) \in Positive
         /\ Capacity(c) = c.gridRows * PayloadsPerRow(Layout(c), c.gamma0)
         /\ Capacity(c) \in Positive
<1>1. PICK d \in Calls, g \in Positive, k \in Positive : c = Reshaped(d, g, k)
  BY DEF Shapes
<1>2. d \in [gridRows : Positive, cols : Positive, gamma0 : Positive, gamma1 : Positive,
             gamma2 : Positive, offlineThreads : Positive, cores : Positive,
             halfUp : BOOLEAN, salt : Nat,
             asks : SUBSET Seq(Nat), strangers : SUBSET (Positive \X Positive)]
  BY CallsAssumption
<1>3. d.gamma0 \in Positive /\ Words <= d.gamma0
  BY <1>2, CallsAssumption DEF Accepted
<1>4. c.gridRows = g /\ c.cols = k /\ c.gamma0 = d.gamma0
  BY <1>1, <1>2 DEF Reshaped
<1>5. Words \in Positive
  BY CodecAssumption DEF Positive
<1> DEFINE L == Layout(c)
           h == c.gamma0
           e == h \div Words
           r == e * k
<1>6. L.rows = g * h /\ L.cols = k /\ L.exponent = Words
  BY <1>4 DEF Layout
<1>7. h \in Positive /\ Words <= h
  BY <1>3, <1>4
<1>8. e \in Positive
  <2>1. e \in Nat /\ (h % Words) \in 0 .. Words - 1 /\ h = Words * e + (h % Words)
    BY <1>5, <1>7, Quotient DEF Positive
  <2>2. Words * 0 = 0
    BY <1>5, SMT DEF Positive
  <2>3. e # 0
    <3> HIDE DEF e
    <3> QED
      BY <1>5, <1>7, <2>1, <2>2 DEF Positive
  <2> QED
    BY <2>1, <2>3 DEF Positive
<1>9. (g * h) \div h = g
  <2>1. h * g = g * h
    BY <1>7, SMT DEF Positive
  <2>2. (h * g) \div h = g
    <3>1. h \in Nat \ {0} /\ g \in Int
      BY <1>7 DEF Positive
    <3> QED
      BY <3>1, MultipleHasNoRest
  <2> QED
    BY <2>1, <2>2
<1> HIDE DEF L, h, e
<1>10. GridRows(L, h) = g /\ PayloadsPerColumn(L, h) = e /\ PayloadsPerRow(L, h) = r
  BY <1>6, <1>9 DEF GridRows, PayloadsPerColumn, PayloadsPerRow, e
<1>11. r \in Positive
  BY <1>8, SMT DEF Positive
<1> HIDE DEF r
<1>12. g * r \in Positive
  BY <1>11, SMT DEF Positive
<1>13. Capacity(c) = g * r
  BY <1>10 DEF Capacity, NumPayloads, L, h
<1> QED
  BY <1>4, <1>5, <1>7, <1>8, <1>10, <1>11, <1>12, <1>13 DEF L, h, e, r

\* Numbers of blocks are natural numbers.
LEMMA BlocksAreCounted ==
  ASSUME NEW len \in Positive
  PROVE  CeilDiv(len, N) \in Nat
<1>1. N \in Nat \ {0}
  BY WireAssumption
<1> QED
  BY <1>1 DEF CeilDiv, Positive

\* The query of a client has a block for each of its masks and the four parts of its keys.
LEMMA WriterOf ==
  ASSUME NEW c \in Writers
  PROVE  \E n0, n1 \in Nat :
           /\ n0 = CeilDiv(c.shape.cols, N) /\ n1 = CeilDiv(c.shape.gridRows, N)
           /\ Written(c) = WriteRecursionQuery(c.query, n0, n1)
           /\ Received(c.query, n0, n1) = c.query
           /\ HasLength(Written(c), Len(Written(c))) /\ Len(Written(c)) \in Nat
<1>1. PICK shape \in Shapes, who \in Nat, i \in Nat : c = Client(shape, who, i)
  <2>1. PICK shape \in Shapes : \E who \in Nat, i \in 0 .. Capacity(shape) - 1 :
          c = Client(shape, who, i)
    BY DEF Writers
  <2> QED
    BY <2>1, ShapeIs DEF Positive
<1>2. shape.cols \in Positive /\ shape.gridRows \in Positive
  BY ShapeIs
<1> DEFINE n0 == CeilDiv(shape.cols, N)
           n1 == CeilDiv(shape.gridRows, N)
           q == Query(shape, who, i)
<1>3. n0 \in Nat /\ n1 \in Nat
  BY <1>2, BlocksAreCounted
<1>4. c.shape = shape /\ c.query = q
  BY <1>1 DEF Client
<1>5. Written(c) = WriteRecursionQuery(q, n0, n1)
  BY <1>4 DEF Written, BlockCount
<1>6. Received(q, n0, n1) = q
  <2> DEFINE a == AddressFor(Layout(shape), shape.gamma0, i)
             src0 == OneHotBlocks(who, a.column, shape.cols, N, RecursionA0, 1)
             src1 == OneHotBlocks(who, a.matrix, shape.gridRows, N, RecursionA1, 1)
             key(k, gamma) == [secret |-> who, p |-> GaloisElement(Stride(gamma)),
                               seed |-> RecursionKeySeed(k), stride |-> Stride(gamma)]
             keys == [k \in 0 .. 2 |-> key(k, <<shape.gamma0, shape.gamma1, shape.gamma2>>[k + 1])]
  <2>1. q = [src0 |-> src0, src1 |-> src1, keys |-> keys]
    BY DEF Query
  <2>2. src0 = [b \in 0 .. n0 - 1 |-> src0[b]] /\ src1 = [b \in 0 .. n1 - 1 |-> src1[b]]
    BY DEF OneHotBlocks, BlockCount
  <2>3. keys = [k \in 0 .. 2 |-> [stride |-> keys[k].stride, p |-> keys[k].p,
                                  seed |-> keys[k].seed, secret |-> keys[k].secret]]
    OBVIOUS
  <2> HIDE DEF src0, src1, keys, q, n0, n1
  <2>4. q.src0 = src0 /\ q.src1 = src1 /\ q.keys = keys
    BY <2>1
  <2>5. Received(q, n0, n1) = [src0 |-> src0, src1 |-> src1, keys |-> keys]
    BY <2>2, <2>3, <2>4 DEF Received
  <2> QED
    BY <2>1, <2>5
<1>7. HasLength(Written(c), Len(Written(c))) /\ Len(Written(c)) \in Nat
  <2> DEFINE total == QueryTokens(n0, n1)
             s == WriteRecursionQuery(q, n0, n1)
  <2>1. HasLength(s, total)
    BY <1>3, QueryIs
  <2>2. total \in Nat
    BY <1>3 DEF QueryTokens, KeysAt, KeyTokens
  <2> HIDE DEF total, s
  <2>3. Len(s) = total
    BY <2>1, <2>2, LengthOf
  <2> QED
    BY <1>5, <2>1, <2>2, <2>3 DEF s
<1> QED
  BY <1>3, <1>4, <1>5, <1>6, <1>7

\* What a client sends is under way as a whole message.
LEMMA SentIsLetter ==
  ASSUME NEW c \in Writers
  PROVE  Sent(c) \in Letters
<1> DEFINE s == Written(c)
           n == Len(s)
           x == SubSeq(s, 1, n)
<1>1. HasLength(s, n) /\ n \in Nat
  BY WriterOf
<1> HIDE DEF s, n
<1>2. HasLength(x, n) /\ \A i \in 1 .. n : x[i] = s[i]
  <2>1. n \in 0 .. n
    BY <1>1
  <2> QED
    BY <1>1, <2>1, Beginning
<1> HIDE DEF x
<1>3. x = s
  BY <1>1, <1>2 DEF HasLength
<1>4. n \in 0 .. n
  BY <1>1
<1>5. CutAt(c, n) \in Letters
  BY <1>4 DEF Letters, n, s
<1>6. Sent(c) = CutAt(c, n)
  BY <1>3 DEF Sent, CutAt, x, s
<1> QED
  BY <1>5, <1>6

\* What the server reads of a letter, unless it refuses it, is the query of its client,
\* of as many blocks as the server has masks.
LEMMA LetterRead ==
  ASSUME call \in Calls, NEW m \in Letters,
         ReadRecursionQuery(m.message, columnBlocks, CeilDiv(t, N)) # Refused
  PROVE  LET query == ReadRecursionQuery(m.message, columnBlocks, CeilDiv(t, N))
         IN /\ query = m.client.query /\ m.client \in Writers
            /\ DOMAIN query.src0 = DOMAIN q0Masks /\ DOMAIN query.src1 = DOMAIN q1Masks
<1>1. PICK c \in Writers : \E n \in 0 .. Len(Written(c)) : m = CutAt(c, n)
  BY DEF Letters
<1>2. PICK n \in 0 .. Len(Written(c)) : m = CutAt(c, n)
  BY <1>1
<1>3. PICK n0, n1 \in Nat :
           /\ Written(c) = WriteRecursionQuery(c.query, n0, n1)
           /\ Received(c.query, n0, n1) = c.query
  BY WriterOf
<1> DEFINE q == c.query
           s == WriteRecursionQuery(q, n0, n1)
           e0 == columnBlocks
           e1 == CeilDiv(t, N)
           query == ReadRecursionQuery(SubSeq(s, 1, n), e0, e1)
<1>4. m.client = c /\ m.message = SubSeq(s, 1, n)
  BY <1>2, <1>3 DEF CutAt
<1>5. query # Refused /\ n \in 0 .. Len(s)
  BY <1>3, <1>4
<1> HIDE DEF q, e0, e1
<1>6. e0 = n0 /\ e1 = n1 /\ query = Received(q, n0, n1)
  BY <1>3, <1>5, CutMessagesRefused
<1>7. query = q
  BY <1>3, <1>6 DEF q
<1>8. DOMAIN query.src0 = 0 .. n0 - 1 /\ DOMAIN query.src1 = 0 .. n1 - 1
  BY <1>6 DEF Received
<1>9. DOMAIN q0Masks = 0 .. columnBlocks - 1 /\ DOMAIN q1Masks = 0 .. CeilDiv(t, N) - 1
  BY DEF q0Masks, q1Masks
<1>10. e0 = columnBlocks /\ e1 = CeilDiv(t, N)
  BY DEF e0, e1
<1>11. ReadRecursionQuery(m.message, columnBlocks, CeilDiv(t, N)) = query
  BY <1>4, <1>10
<1> HIDE DEF query
<1> QED
  BY <1>4, <1>6, <1>7, <1>8, <1>9, <1>10, <1>11 DEF q
-----------------------------------------------------------------------------
(* Every step keeps the invariant *)

\* At first nothing is under way.
LEMMA InitInvariant ==
  ASSUME Init
  PROVE  IInv
<1>1. call \in Calls /\ stage = "l1" /\ mail = <<>>
  BY DEF Init
<1>2. mail \in Seq(Letters)
  BY <1>1
<1>3. OnlyWholeMessages /\ QueriesAre
  BY <1>1 DEF OnlyWholeMessages, QueriesAre
<1> QED
  BY <1>1, <1>2, <1>3 DEF IInv

\* What is left of the positions is a sequence of them.
LEMMA InOrderIs ==
  ASSUME NEW n \in Nat, NEW S \in SUBSET (1 .. n), NEW f \in InOrder(S)
  PROVE  \E k \in Nat : f \in [1 .. k -> S]
<1>1. IsFiniteSet(S)
  <2>1. IsFiniteSet(1 .. n)
    BY FS_Interval
  <2> QED
    BY <2>1, FS_Subset
<1>2. Cardinality(S) \in Nat
  BY <1>1, FS_CardinalityType
<1>3. f \in [1 .. Cardinality(S) -> S]
  BY DEF InOrder
<1> QED
  BY <1>2, <1>3

\* The fields of a call.
LEMMA CallIs ==
  ASSUME call \in Calls
  PROVE  /\ call.gridRows \in Positive /\ call.cols \in Positive
         /\ call.asks \in SUBSET Seq(Nat) /\ call.strangers \in SUBSET (Positive \X Positive)
         /\ call = Reshaped(call, call.gridRows, call.cols) /\ call \in Shapes
<1>1. call \in [gridRows : Positive, cols : Positive, gamma0 : Positive, gamma1 : Positive,
                gamma2 : Positive, offlineThreads : Positive, cores : Positive,
                halfUp : BOOLEAN, salt : Nat,
                asks : SUBSET Seq(Nat), strangers : SUBSET (Positive \X Positive)]
  BY CallsAssumption
<1>2. call = Reshaped(call, call.gridRows, call.cols)
  BY <1>1 DEF Reshaped
<1>3. call \in Shapes
  BY <1>1, <1>2 DEF Shapes
<1> QED
  BY <1>1, <1>2, <1>3

\* Clients of this database write whole messages.
LEMMA AskInvariant ==
  ASSUME IInv, NEW indices \in call.asks, Ask(indices)
  PROVE  IInv'
<1>1. /\ call' = call /\ stage' = "sent" /\ queries' = queries
      /\ \E f \in InOrder({i \in DOMAIN indices : indices[i] < Capacity(call)}) :
           mail' = [q \in DOMAIN f |-> Sent(Client(call, q, indices[f[q]]))]
  BY DEF Ask
<1>2. call \in Calls
  BY DEF IInv
<1>3. indices \in Seq(Nat) /\ Len(indices) \in Nat /\ DOMAIN indices = 1 .. Len(indices)
  BY <1>2, CallIs
<1> DEFINE S == {i \in DOMAIN indices : indices[i] < Capacity(call)}
<1>4. S \in SUBSET (1 .. Len(indices))
  BY <1>3
<1>5. PICK f \in InOrder(S) : mail' = [q \in DOMAIN f |-> Sent(Client(call, q, indices[f[q]]))]
  BY <1>1
<1> HIDE DEF S
<1>6. PICK k \in Nat : f \in [1 .. k -> S]
  BY <1>3, <1>4, InOrderIs
<1>7. call \in Shapes /\ Capacity(call) \in Positive
  BY <1>2, CallIs, ShapeIs
<1>8. ASSUME NEW q \in 1 .. k
      PROVE  Sent(Client(call, q, indices[f[q]])) \in Letters
  <2>1. indices[f[q]] \in 0 .. Capacity(call) - 1 /\ q \in Nat
    <3>1. f[q] \in 1 .. Len(indices) /\ f[q] \in S
      BY <1>4, <1>6
    <3>2. indices[f[q]] \in Nat
      BY <1>3, <3>1, ElementOfSeq
    <3>3. indices[f[q]] < Capacity(call)
      BY <3>1 DEF S
    <3> QED
      BY <1>7, <3>2, <3>3 DEF Positive
  <2>2. Client(call, q, indices[f[q]]) \in Writers
    BY <1>7, <2>1 DEF Writers
  <2> QED
    BY <2>2, SentIsLetter
<1>9. mail' \in [1 .. k -> Letters]
  BY <1>5, <1>6, <1>8
<1>10. mail' \in Seq(Letters)
  BY <1>6, <1>9
<1>11. OnlyWholeMessages' /\ QueriesAre'
  BY <1>1 DEF OnlyWholeMessages, QueriesAre
<1> QED
  BY <1>1, <1>2, <1>10, <1>11 DEF IInv

\* A message that ends early is one of the letters.
LEMMA CutInvariant ==
  ASSUME IInv, NEW q \in DOMAIN mail, Cut(q)
  PROVE  IInv'
<1>1. /\ call' = call /\ stage = "sent" /\ stage' = stage /\ queries' = queries
      /\ mail[q].message = Written(mail[q].client)
      /\ \E n \in 0 .. Len(mail[q].message) - 1 :
           mail' = [mail EXCEPT ![q].message = SubSeq(@, 1, n)]
  BY DEF Cut, Undisturbed, IsWhole
<1>2. mail \in Seq(Letters) /\ mail[q] \in Letters
  BY DEF IInv
<1>3. PICK c \in Writers : \E n \in 0 .. Len(Written(c)) : mail[q] = CutAt(c, n)
  BY <1>2 DEF Letters
<1>4. mail[q].client = c /\ mail[q] = [client |-> c, message |-> mail[q].message]
  BY <1>3 DEF CutAt
<1>5. mail[q].message = Written(c)
  BY <1>1, <1>4
<1>6. PICK n \in 0 .. Len(Written(c)) - 1 : mail' = [mail EXCEPT ![q].message = SubSeq(@, 1, n)]
  BY <1>1, <1>5
<1>7. mail' = [mail EXCEPT ![q] = CutAt(c, n)]
  <2> DEFINE m == mail[q]
             x == SubSeq(m.message, 1, n)
  <2>1. mail' = [mail EXCEPT ![q] = [m EXCEPT !.message = x]]
    BY <1>6
  <2>2. x = SubSeq(Written(c), 1, n)
    BY <1>5
  <2>3. m = [client |-> c, message |-> m.message]
    BY <1>4
  <2> HIDE DEF m, x
  <2>4. [m EXCEPT !.message = x] = [client |-> c, message |-> x]
    BY <2>3
  <2> QED
    BY <2>1, <2>2, <2>4 DEF CutAt
<1>8. CutAt(c, n) \in Letters
  <2>1. n \in 0 .. Len(Written(c))
    BY WriterOf
  <2> QED
    BY <2>1 DEF Letters
<1>9. mail' \in Seq(Letters)
  BY <1>2, <1>7, <1>8, ExceptSeq
<1>10. OnlyWholeMessages' /\ QueriesAre'
  BY <1>1 DEF OnlyWholeMessages, QueriesAre
<1> QED
  BY <1>1, <1>9, <1>10 DEF IInv

\* A client of another layout writes whole messages too.
LEMMA MisdirectInvariant ==
  ASSUME IInv, NEW shape \in call.strangers, Misdirect(shape)
  PROVE  IInv'
<1>1. /\ call' = call /\ stage = "sent" /\ stage' = stage /\ queries' = queries
      /\ mail' = Append(mail, Sent(Client(Reshaped(call, shape[1], shape[2]), Len(mail) + 1, 0)))
  BY DEF Misdirect, Reshaped
<1>2. call \in Calls /\ mail \in Seq(Letters) /\ Len(mail) + 1 \in Nat
  BY DEF IInv
<1>3. shape[1] \in Positive /\ shape[2] \in Positive
  BY <1>2, CallIs
<1>4. Reshaped(call, shape[1], shape[2]) \in Shapes
  BY <1>2, <1>3 DEF Shapes
<1> DEFINE c == Client(Reshaped(call, shape[1], shape[2]), Len(mail) + 1, 0)
<1>5. c \in Writers
  <2> DEFINE other == Reshaped(call, shape[1], shape[2])
  <2>1. other \in Shapes
    BY <1>4
  <2> HIDE DEF other
  <2>2. 0 \in 0 .. Capacity(other) - 1
    BY <2>1, ShapeIs DEF Positive
  <2>3. Client(other, Len(mail) + 1, 0) \in Writers
    BY <1>2, <2>1, <2>2 DEF Writers
  <2> QED
    BY <2>3 DEF other
<1> HIDE DEF c
<1>6. Sent(c) \in Letters
  BY <1>5, SentIsLetter
<1>7. mail' = Append(mail, Sent(c))
  BY <1>1 DEF c
<1>8. mail' \in Seq(Letters)
  BY <1>2, <1>6, <1>7, AppendProperties
<1>9. OnlyWholeMessages' /\ QueriesAre'
  BY <1>1 DEF OnlyWholeMessages, QueriesAre
<1> QED
  BY <1>1, <1>2, <1>8, <1>9 DEF IInv

\* The server reads whole messages of the right number of blocks, and refuses the others.
LEMMA ReceiveInvariant ==
  ASSUME IInv, Receive
  PROVE  IInv'
<1> DEFINE read(q) == ReadRecursionQuery(mail[q].message, columnBlocks, CeilDiv(t, N))
           S == {q \in DOMAIN mail : read(q) # Refused}
<1>1. /\ call' = call /\ mail' = <<>>
      /\ \E f \in InOrder(S) :
           queries' = [q \in DOMAIN f |-> [client |-> mail[f[q]].client, query |-> read(f[q])]]
  BY DEF Receive
<1>2. call \in Calls /\ mail \in Seq(Letters) /\ Len(mail) \in Nat /\ DOMAIN mail = 1 .. Len(mail)
  BY DEF IInv
<1>3. S \in SUBSET (1 .. Len(mail))
  BY <1>2
<1>4. PICK f \in InOrder(S) :
        queries' = [q \in DOMAIN f |-> [client |-> mail[f[q]].client, query |-> read(f[q])]]
  BY <1>1
<1>5. ASSUME NEW p \in S
      PROVE  /\ read(p) = mail[p].client.query /\ mail[p].client \in Writers
             /\ DOMAIN read(p).src0 = DOMAIN q0Masks /\ DOMAIN read(p).src1 = DOMAIN q1Masks
  <2>1. mail[p] \in Letters /\ read(p) # Refused
    BY <1>2
  <2> QED
    BY <1>2, <2>1, LetterRead
<1> HIDE DEF S, read
<1>6. PICK k \in Nat : f \in [1 .. k -> S]
  BY <1>2, <1>3, InOrderIs
<1>7. (DOMAIN q0Masks)' = DOMAIN q0Masks /\ (DOMAIN q1Masks)' = DOMAIN q1Masks
  BY <1>1 DEF q0Masks, q1Masks, columnBlocks, t
<1>8. ASSUME NEW q \in DOMAIN queries'
      PROVE  /\ queries'[q].query = queries'[q].client.query
             /\ DOMAIN queries'[q].query.src0 = DOMAIN q0Masks
             /\ DOMAIN queries'[q].query.src1 = DOMAIN q1Masks
  <2>1. q \in DOMAIN f /\ f[q] \in S
    BY <1>4, <1>6
  <2>2. queries'[q] = [client |-> mail[f[q]].client, query |-> read(f[q])]
    BY <1>4, <2>1
  <2> QED
    BY <1>5, <2>1, <2>2
<1>9. OnlyWholeMessages'
  BY <1>7, <1>8 DEF OnlyWholeMessages
<1>10. mail' \in Seq(Letters)
  BY <1>1
<1>11. QueriesAre'
  <2>1. DOMAIN queries' = 1 .. k
    BY <1>4, <1>6
  <2>2. ASSUME NEW q \in 1 .. k
        PROVE  queries'[q].client \in Writers
    <3>1. q \in DOMAIN f /\ f[q] \in S
      BY <1>6
    <3>2. queries'[q] = [client |-> mail[f[q]].client, query |-> read(f[q])]
      BY <1>4, <3>1
    <3> QED
      BY <1>5, <3>1, <3>2
  <2> QED
    BY <1>6, <2>1, <2>2 DEF QueriesAre
<1> QED
  BY <1>1, <1>2, <1>9, <1>10, <1>11 DEF IInv

\* The steps of offline and of the batch read what is there.
LEMMA OtherInvariant ==
  ASSUME IInv, call' = call, mail' = mail,
         \/ queries' = queries
            /\ (stage' \in {"received", "finish"} => stage \in {"received", "finish"})
         \/ stage' \notin {"received", "finish"}
  PROVE  IInv'
<1>1. (DOMAIN q0Masks)' = DOMAIN q0Masks /\ (DOMAIN q1Masks)' = DOMAIN q1Masks
  BY DEF q0Masks, q1Masks, columnBlocks, t
<1>2. OnlyWholeMessages' /\ QueriesAre'
  BY <1>1 DEF IInv, OnlyWholeMessages, QueriesAre
<1> QED
  BY <1>2 DEF IInv

\* Every step keeps the invariant.
LEMMA NextInvariant ==
  ASSUME IInv, [Next]_vars
  PROVE  IInv'
<1>1. CASE \E indices \in call.asks : Ask(indices)
  BY <1>1, AskInvariant
<1>2. CASE \E q \in DOMAIN mail : Cut(q)
  BY <1>2, CutInvariant
<1>3. CASE \E shape \in call.strangers : Misdirect(shape)
  BY <1>3, MisdirectInvariant
<1>4. CASE Receive
  BY <1>4, ReceiveInvariant
<1>5. CASE OfflineL1 \/ OfflineMaskData \/ OfflineResp1
  <2>1. /\ call' = call /\ mail' = mail /\ queries' = queries
        /\ stage' \notin {"received", "finish"}
    BY <1>5 DEF OfflineL1, OfflineMaskData, OfflineResp1, online
  <2> QED
    BY <2>1, OtherInvariant
<1>6. CASE Respond
  <2>1. call' = call /\ mail' = mail /\ queries' = queries /\ stage = "received"
    BY <1>6 DEF Respond
  <2> QED
    BY <2>1, OtherInvariant
<1>7. CASE \E q \in DOMAIN queries : PackL1(q) \/ DecomposeBody(q) \/ PackResp1(q) \/ PackResp2(q)
  <2>1. call' = call /\ mail' = mail /\ queries' = queries /\ stage' = stage
    BY <1>7 DEF PackL1, DecomposeBody, PackResp1, PackResp2
  <2> QED
    BY <2>1, OtherInvariant
<1>8. CASE Answered
  <2>1. call' = call /\ mail' = mail /\ stage' = "ready"
    BY <1>8 DEF Answered
  <2> QED
    BY <2>1, OtherInvariant
<1>9. CASE UNCHANGED vars
  <2>1. call' = call /\ mail' = mail /\ queries' = queries /\ stage' = stage
    BY <1>9 DEF vars, online
  <2> QED
    BY <2>1, OtherInvariant
<1> QED
  BY <1>1, <1>2, <1>3, <1>4, <1>5, <1>6, <1>7, <1>8, <1>9 DEF Next

-----------------------------------------------------------------------------
(* Digits *)

\* A number is its carry and its digit, which is a signed word.
LEMMA CarryAndDigit ==
  ASSUME NEW half \in Nat \ {0}, Word = 2 * half, NEW v \in Int
  PROVE  /\ AsWord(v) \in -half .. half - 1 /\ Carry(v) \in Int
         /\ v = Word * Carry(v) + AsWord(v)
<1> DEFINE w == Word
           a == v + half
<1>1. w \in Nat \ {0} /\ w = 2 * half /\ a \in Int /\ Word \div 2 = half
  OBVIOUS
<1>2. AsWord(v) = (a % w) - half /\ Carry(v) = a \div w
  BY <1>1 DEF AsWord, Carry
<1> HIDE DEF w, a
<1>3. a \div w \in Int /\ (a % w) \in 0 .. w - 1 /\ a = w * (a \div w) + (a % w)
  BY <1>1, IntQuotient
<1> DEFINE q == a \div w
           r == a % w
           x == w * q
<1>4. q \in Int /\ r \in 0 .. w - 1 /\ a = x + r /\ x \in Int
  BY <1>1, <1>3, IntProduct
<1>5. AsWord(v) = r - half /\ Carry(v) = q
  BY <1>2
<1> HIDE DEF q, r, x
<1>6. r - half \in -half .. half - 1 /\ v = x + (r - half)
  BY <1>1, <1>4 DEF a
<1> QED
  BY <1>4, <1>5, <1>6 DEF x, w

\* A limb is congruent to what it is taken from; what it leaves is a whole number of words.
LEMMA LimbLeaves ==
  ASSUME NEW half \in Nat \ {0}, Word = 2 * half, NEW v \in Int
  PROVE  \E y \in Int : /\ NormalizedLimb(v) \in Int /\ v = Word * y + NormalizedLimb(v)
                        /\ (v - NormalizedLimb(v)) \div Word = y
<1> DEFINE w == Word
           d == AsWord(v)
           c == Carry(v)
           limb == NormalizedLimb(v)
<1>1. w \in Nat \ {0} /\ w = 2 * half /\ Word \div 2 = half
  OBVIOUS
<1>2. d \in -half .. half - 1 /\ c \in Int /\ v = w * c + d
  BY CarryAndDigit
<1>3. limb = d \/ (limb = half /\ d = -half)
  BY <1>1 DEF NormalizedLimb
<1> HIDE DEF w, d, c, limb
<1>4. \E y \in Int : v = w * y + limb /\ limb \in Int
  <2>1. CASE limb = d
    BY <1>2, <2>1
  <2>2. CASE limb = half /\ d = -half
    <3>1. w * (c - 1) = w * c - w
      BY <1>1, <1>2, SMT
    <3>2. w * c \in Int
      BY <1>1, <1>2, IntProduct
    <3>3. v = w * (c - 1) + limb
      BY <1>1, <1>2, <2>2, <3>1, <3>2
    <3>4. c - 1 \in Int /\ limb \in Int
      BY <1>2, <2>2
    <3> QED
      BY <3>3, <3>4
  <2> QED
    BY <1>3, <2>1, <2>2
<1>5. PICK y \in Int : v = w * y + limb /\ limb \in Int
  BY <1>4
<1>6. v - limb = w * y
  <2>1. w * y \in Int
    BY <1>1, IntProduct
  <2> QED
    BY <1>5, <2>1
<1>7. (v - limb) \div w = y
  BY <1>1, <1>6, MultipleHasNoRest
<1> QED
  BY <1>5, <1>7 DEF w, limb

\* Two limbs, the lower one taken first.
LEMMA NormalizedIs ==
  ASSUME NEW x \in Int
  PROVE  /\ Normalized(x) = [l \in 0 .. 1 |-> Normalized(x)[l]]
         /\ Normalized(x)[1] = NormalizedLimb(x)
         /\ Normalized(x)[0] = NormalizedLimb((x - NormalizedLimb(x)) \div Word)
<1> DEFINE left(r) == [l \in 0 .. Tau - 1 |->
             IF l = Tau - 1 THEN x ELSE (r[l + 1] - NormalizedLimb(r[l + 1])) \div Word]
           rest == CHOOSE r : r = left(r)
           two == [l \in 0 .. 1 |-> IF l = 1 THEN x ELSE (x - NormalizedLimb(x)) \div Word]
<1>1. Tau = 2 /\ 0 .. Tau - 1 = 0 .. 1
  BY DEF Tau
<1>2. Normalized(x) = [l \in 0 .. Tau - 1 |-> NormalizedLimb(rest[l])]
  BY DEF Normalized
<1>3. two = left(two)
  <2>1. two[1] = x
    OBVIOUS
  <2>2. \A l \in 0 .. 1 :
          (IF l = Tau - 1 THEN x ELSE (two[l + 1] - NormalizedLimb(two[l + 1])) \div Word)
            = IF l = 1 THEN x ELSE (x - NormalizedLimb(x)) \div Word
    <3> SUFFICES ASSUME NEW l \in 0 .. 1
                 PROVE  (IF l = Tau - 1 THEN x
                         ELSE (two[l + 1] - NormalizedLimb(two[l + 1])) \div Word)
                          = IF l = 1 THEN x ELSE (x - NormalizedLimb(x)) \div Word
      OBVIOUS
    <3>1. CASE l = 1
      BY <1>1, <3>1
    <3>2. CASE l = 0
      <4>1. l + 1 = 1 /\ ~(l = Tau - 1) /\ ~(l = 1)
        BY <1>1, <3>2
      <4> HIDE DEF two
      <4> QED
        BY <2>1, <4>1
    <3> QED
      BY <3>1, <3>2
  <2> QED
    BY <1>1, <2>2
<1>4. rest = left(rest)
  <2> HIDE DEF left, two
  <2> QED
    BY <1>3
<1> HIDE DEF rest
<1>5. rest[1] = x
  BY <1>1, <1>4
<1>6. rest[0] = (x - NormalizedLimb(x)) \div Word
  <2>1. rest[0] = (rest[0 + 1] - NormalizedLimb(rest[0 + 1])) \div Word
    BY <1>1, <1>4
  <2> QED
    BY <1>5, <2>1
<1> QED
  BY <1>1, <1>2, <1>5, <1>6

\* The carry of the lower limb goes into the higher one, which stays as it is then.
LEMMA BalancedIs ==
  ASSUME NEW limbs, limbs[0] \in Int, limbs[1] \in Int
  PROVE  /\ Balanced(limbs)[1] = limbs[1] - Carry(limbs[1]) * Word
         /\ Balanced(limbs)[0] = limbs[0] + Carry(limbs[1])
<1> DEFINE add(s) == [l \in 0 .. Tau - 1 |->
             limbs[l] + IF l = Tau - 1 THEN 0 ELSE Carry(s[l + 1])]
           sum == CHOOSE s : s = add(s)
           two == [l \in 0 .. 1 |-> IF l = 1 THEN limbs[1] ELSE limbs[0] + Carry(limbs[1])]
<1>1. Tau = 2 /\ 0 .. Tau - 1 = 0 .. 1
  BY DEF Tau
<1>2. Balanced(limbs) =
        [l \in 0 .. Tau - 1 |-> IF l = 0 THEN sum[0] ELSE sum[l] - Carry(sum[l]) * Word]
  BY DEF Balanced
<1>3. two = add(two)
  <2>1. two[1] = limbs[1]
    OBVIOUS
  <2>2. \A l \in 0 .. 1 :
          (limbs[l] + IF l = Tau - 1 THEN 0 ELSE Carry(two[l + 1]))
            = IF l = 1 THEN limbs[1] ELSE limbs[0] + Carry(limbs[1])
    <3> SUFFICES ASSUME NEW l \in 0 .. 1
                 PROVE  (limbs[l] + IF l = Tau - 1 THEN 0 ELSE Carry(two[l + 1]))
                          = IF l = 1 THEN limbs[1] ELSE limbs[0] + Carry(limbs[1])
      OBVIOUS
    <3>1. CASE l = 1
      BY <1>1, <3>1
    <3>2. CASE l = 0
      <4>1. l + 1 = 1 /\ ~(l = Tau - 1) /\ ~(l = 1)
        BY <1>1, <3>2
      <4> HIDE DEF two
      <4> QED
        BY <2>1, <3>2, <4>1
    <3> QED
      BY <3>1, <3>2
  <2> QED
    BY <1>1, <2>2
<1>4. sum = add(sum)
  <2> HIDE DEF add, two
  <2> QED
    BY <1>3
<1> HIDE DEF sum
<1>5. sum[1] = limbs[1]
  BY <1>1, <1>4
<1>6. sum[0] = limbs[0] + Carry(limbs[1])
  <2>1. sum[0] = limbs[0] + Carry(sum[0 + 1])
    BY <1>1, <1>4
  <2> QED
    BY <1>5, <2>1
<1> QED
  BY <1>1, <1>2, <1>5, <1>6

\* Whatever the size of words and whichever end the decomposition takes in the middle, the
\* two digits that are kept of a coefficient are words, and rebuild it modulo qtilde: with
\* the carry into the higher limb, and with the wrapping of the highest
\* (modulus_switch_to_digits, balance_base2k16; `as i16`).
THEOREM DigitsOfAnyCoefficient ==
  ASSUME NEW half \in Nat \ {0}, Word = 2 * half, QTilde = Word * Word, NEW x \in Int
  PROVE  /\ SwitchedDigit(x, 0) \in -half .. half - 1
         /\ SwitchedDigit(x, 1) \in -half .. half - 1
         /\ (SwitchedDigit(x, 0) * Word + SwitchedDigit(x, 1) - x) % QTilde = 0
<1> DEFINE w == Word
           l1 == NormalizedLimb(x)
           y == (x - l1) \div w
           l0 == NormalizedLimb(y)
           z == (y - l0) \div w
           c == Carry(l1)
           b == AsWord(l1)
           h == l0 + c
           e == Carry(h)
           a == AsWord(h)
           limbs == Normalized(x)
<1>1. w \in Nat \ {0} /\ w = 2 * half
  OBVIOUS
<1>2. y \in Int /\ l1 \in Int /\ x = w * y + l1
  BY LimbLeaves
<1>3. z \in Int /\ l0 \in Int /\ y = w * z + l0
  <2> HIDE DEF y
  <2> QED
    BY <1>2, LimbLeaves
<1>4. b \in -half .. half - 1 /\ c \in Int /\ l1 = w * c + b
  <2> HIDE DEF l1
  <2> QED
    BY <1>2, CarryAndDigit
<1>5. h \in Int
  <2> HIDE DEF l0, c
  <2> QED
    BY <1>3, <1>4
<1>6. a \in -half .. half - 1 /\ e \in Int /\ h = w * e + a
  <2> HIDE DEF h
  <2> QED
    BY <1>5, CarryAndDigit
<1>7. limbs[1] = l1 /\ limbs[0] = l0
  BY NormalizedIs
<1>8. SwitchedDigit(x, 0) = a /\ SwitchedDigit(x, 1) = b
  <2> HIDE DEF l0, l1
  <2>1. Balanced(limbs)[1] = l1 - c * w /\ Balanced(limbs)[0] = h
    <3> HIDE DEF limbs
    <3> QED
      BY <1>2, <1>3, <1>7, BalancedIs
  <2>2. l1 - c * w = b
    <3> HIDE DEF c, b, w
    <3>1. c * w = w * c /\ w * c \in Int
      BY <1>1, <1>4, IntProduct
    <3> QED
      BY <1>4, <3>1
  <2>3. AsWord(b) = b
    <3>1. Word \div 2 = half /\ Word \in Nat \ {0}
      OBVIOUS
    <3> HIDE DEF b
    <3>2. b + half \in 0 .. Word - 1
      BY <1>4
    <3>3. (b + half) % Word = b + half
      BY <3>1, <3>2
    <3> QED
      BY <1>4, <3>1, <3>3 DEF AsWord
  <2> HIDE DEF limbs, b, a, h, c, w
  <2>4. SwitchedDigit(x, 1) = AsWord(b)
    BY <2>1, <2>2 DEF SwitchedDigit, limbs
  <2>5. SwitchedDigit(x, 0) = AsWord(h)
    BY <2>1 DEF SwitchedDigit, limbs
  <2> QED
    BY <2>3, <2>4, <2>5 DEF a
<1> HIDE DEF w, l1, y, l0, z, c, b, h, e, a, limbs
<1>9. a * w + b - x = (w * w) * (-(z + e))
  <2>1. w * y = w * (w * z) + w * l0
    BY <1>1, <1>3, SMT
  <2>2. w * h = w * (w * e) + w * a
    BY <1>1, <1>6, SMT
  <2>3. w * h = w * l0 + w * c
    BY <1>1, <1>3, <1>4, SMT DEF h
  <2>4. /\ w * (w * z) = (w * w) * z /\ w * (w * e) = (w * w) * e
        /\ a * w = w * a /\ (w * w) * (-(z + e)) = -((w * w) * z) - (w * w) * e
    <3>1. a \in Int
      BY <1>6
    <3> QED
      BY <1>1, <1>3, <1>6, <3>1, SMT
  <2>5. /\ w * a \in Int /\ w * l0 \in Int /\ w * c \in Int /\ (w * w) \in Int
        /\ (w * w) * z \in Int /\ (w * w) * e \in Int /\ b \in Int
    <3>1. a \in Int /\ b \in Int /\ w \in Int
      BY <1>1, <1>4, <1>6
    <3>2. w * w \in Int
      BY <3>1, IntProduct
    <3> QED
      BY <1>3, <1>4, <1>6, <3>1, <3>2, IntProduct
  <2> QED
    BY <1>2, <1>4, <2>1, <2>2, <2>3, <2>4, <2>5
<1>10. (a * w + b - x) % (w * w) = 0
  <2> DEFINE k == -(z + e)
             m == w * w
  <2>1. k \in Int /\ m \in Nat \ {0}
    <3>1. w * w \in Nat \ {0}
      BY <1>1, SMT
    <3> QED
      BY <1>3, <1>6, <3>1
  <2> HIDE DEF k, m
  <2>2. (m * k) % m = 0
    BY <2>1, MultipleHasNoRest
  <2> QED
    BY <1>9, <2>2 DEF k, m
<1> QED
  BY <1>4, <1>6, <1>8, <1>10 DEF w

-----------------------------------------------------------------------------
(* The theorems on messages *)

\* In every state what is under way was written by a client, and what was read is whole.
THEOREM Invariance == Spec => []IInv
BY InitInvariant, NextInvariant, PTL DEF Spec

\* For any parameters, shapes and batches: the server works on queries as their clients
\* built them, with a block for each of its masks (ensure_len, read_exact).
THEOREM WholeQueriesOnly == Spec => []OnlyWholeMessages
<1>1. IInv => OnlyWholeMessages
  BY DEF IInv
<1> QED
  BY <1>1, Invariance, PTL

-----------------------------------------------------------------------------
(* Powers *)

\* Words and their powers: a word is even, a switched coefficient is below the square of a
\* word, which is a power of two as well.
LEMMA PowersAre ==
  /\ Word \div 2 \in Nat \ {0} /\ Word = 2 * (Word \div 2) /\ Word \in Nat \ {0}
  /\ Word ^ 0 = 1 /\ Word ^ 1 = Word /\ QTilde = Word * Word
  /\ 2 ^ (Tau * WordBits) = QTilde /\ 2 ^ (Tau * WordBits - 1) = (Word \div 2) * Word
  /\ \A k \in 0 .. Words : Word ^ k \in Nat \ {0}
  /\ \A k \in 0 .. Words - 1 : Word ^ (k + 1) = Word * Word ^ k
<1> DEFINE w == Word
           b == WordBits
           h == 2 ^ (b - 1)
<1>1. Tau = 2 /\ b \in Nat /\ b >= 2 /\ Words \in Nat /\ Words >= 1
  BY CodecAssumption DEF Tau
<1>2. 2 ^ 0 = 1 /\ \A k \in 0 .. 2 * b - 1 : 2 ^ (k + 1) = 2 * 2 ^ k
  BY <1>1, PowersAssumption
<1>3. w ^ 0 = 1 /\ \A k \in 0 .. Most(Words, 2) - 1 : w ^ (k + 1) = w * w ^ k
  BY <1>1, PowersAssumption
<1>4. w = 2 ^ b
  BY DEF Word
<1> HIDE DEF b, w
<1>5. \A k \in 0 .. 2 * b : 2 ^ k \in Nat \ {0}
  <2> DEFINE S == {k \in 0 .. 2 * b : 2 ^ k \in Nat \ {0}}
             n == 2 * b
  <2>1. n \in Nat /\ 0 \in S /\ \A k \in 0 .. n - 1 : k \in S => k + 1 \in S
    BY <1>1, <1>2
  <2>2. n = 2 * b
    OBVIOUS
  <2> HIDE DEF S, n
  <2>3. 0 .. n \subseteq S
    BY <2>1, StepsReachAll
  <2> QED
    BY <2>2, <2>3 DEF S
<1>6. h \in Nat \ {0} /\ w = 2 * h
  <2>1. b - 1 \in 0 .. 2 * b - 1 /\ b - 1 \in 0 .. 2 * b /\ (b - 1) + 1 = b
    BY <1>1
  <2> QED
    BY <1>2, <1>4, <1>5, <2>1
<1> HIDE DEF h
<1>7. w \in Nat \ {0} /\ w \div 2 = h
  BY <1>6
<1>8. \A j \in 0 .. b : 2 ^ (b + j) = w * 2 ^ j
  <2> DEFINE S == {j \in 0 .. b : 2 ^ (b + j) = w * 2 ^ j}
  <2>1. 0 \in S
    <3>1. b + 0 = b /\ w * 1 = w
      BY <1>1, <1>7
    <3> QED
      BY <1>1, <1>2, <1>4, <3>1
  <2>2. ASSUME NEW j \in 0 .. b - 1, j \in S
        PROVE  j + 1 \in S
    <3> DEFINE k == b + j
               p == 2 ^ j
    <3>1. k \in 0 .. 2 * b - 1 /\ j \in 0 .. 2 * b - 1 /\ j \in 0 .. 2 * b /\ b + (j + 1) = k + 1
      BY <1>1
    <3>2. 2 ^ (k + 1) = 2 * 2 ^ k /\ 2 ^ (j + 1) = 2 * p /\ p \in Nat
      BY <1>2, <1>5, <3>1
    <3>3. 2 ^ k = w * p
      BY <2>2
    <3> HIDE DEF k, p
    <3>4. 2 * (w * p) = w * (2 * p)
      BY <1>7, <3>2, SMT
    <3> HIDE DEF S
    <3>5. 2 ^ (k + 1) = w * 2 ^ (j + 1)
      BY <3>2, <3>3, <3>4
    <3>6. 2 ^ (b + (j + 1)) = w * 2 ^ (j + 1)
      BY <3>1, <3>5
    <3>7. j + 1 \in 0 .. b
      BY <1>1
    <3> QED
      BY <3>6, <3>7 DEF S
  <2> HIDE DEF S
  <2>3. 0 .. b \subseteq S
    BY <1>1, <2>1, <2>2, StepsReachAll
  <2> QED
    BY <2>3 DEF S
<1>9. 2 ^ (2 * b) = w * w /\ 2 ^ (2 * b - 1) = h * w
  <2>1. b \in 0 .. b /\ b + b = 2 * b /\ b - 1 \in 0 .. b /\ b + (b - 1) = 2 * b - 1
    BY <1>1
  <2>2. 2 ^ (b - 1) = h
    BY DEF h
  <2>3. w * h = h * w
    BY <1>6, <1>7, SMT
  <2> QED
    BY <1>4, <1>8, <2>1, <2>2, <2>3
<1>10. \A k \in 0 .. Words - 1 : w ^ (k + 1) = w * w ^ k
  BY <1>1, <1>3 DEF Most
<1>11. \A k \in 0 .. Words : w ^ k \in Nat \ {0}
  <2> DEFINE S == {k \in 0 .. Words : w ^ k \in Nat \ {0}}
  <2>1. 0 \in S
    BY <1>1, <1>3
  <2>2. ASSUME NEW k \in 0 .. Words - 1, k \in S
        PROVE  k + 1 \in S
    <3> DEFINE p == w ^ k
    <3>1. w ^ (k + 1) = w * p /\ p \in Nat \ {0}
      BY <1>10, <2>2
    <3> HIDE DEF p
    <3>2. w * p \in Nat \ {0}
      BY <1>7, <3>1, SMT
    <3> QED
      BY <1>1, <3>1, <3>2
  <2> HIDE DEF S
  <2>3. 0 .. Words \subseteq S
    BY <1>1, <2>1, <2>2, StepsReachAll
  <2> QED
    BY <2>3 DEF S
<1>12. w ^ 1 = w /\ w ^ 2 = w * w
  <2>1. 0 \in 0 .. Most(Words, 2) - 1 /\ 1 \in 0 .. Most(Words, 2) - 1
    BY <1>1 DEF Most
  <2>2. w ^ (0 + 1) = w * w ^ 0 /\ w ^ (1 + 1) = w * w ^ 1
    BY <1>3, <2>1
  <2>3. w * 1 = w /\ 0 + 1 = 1 /\ 1 + 1 = 2
    BY <1>7
  <2> QED
    BY <1>3, <2>2, <2>3
<1>13. QTilde = w ^ 2
  BY <1>1 DEF QTilde, w
<1>14. Tau * WordBits = 2 * b
  BY <1>1 DEF b
<1> QED
  BY <1>3, <1>6, <1>7, <1>9, <1>10, <1>11, <1>12, <1>13, <1>14 DEF w


-----------------------------------------------------------------------------
(* Items dealt to workers *)

\* The item in a slot of what the workers produce, one after the other
DealtItem(count, threads, slot) ==
  LET work == AssignPanels(count, threads)
      len(w) == PartLen(count, Clamp(threads, 1, count), w)
      slab(w) == SumTo(len, w)
      owner == CHOOSE w \in DOMAIN work : slab(w) <= slot /\ slot < slab(w) + len(w)
      first(w) == CHOOSE p \in work[w] : \A q \in work[w] : p <= q
  IN first(owner) + (slot - slab(owner))

\* A worker's slab starts where the lengths of the workers before it add up to: where its
\* part of the items starts.
LEMMA SlabStart ==
  ASSUME NEW count \in Nat, NEW parts \in Nat \ {0}, NEW w \in 0 .. parts
  PROVE  LET len(v) == PartLen(count, parts, v) IN SumTo(len, w) = PartStart(count, parts, w)
<1> DEFINE adds(s) == [i \in 0 .. w |-> IF i = 0 THEN 0 ELSE s[i - 1] + PartLen(count, parts, i - 1)]
           len(v) == PartLen(count, parts, v)
           sums == CHOOSE s : s = adds(s)
           starts == [i \in 0 .. w |-> PartStart(count, parts, i)]
<1>1. SumTo(len, w) = sums[w]
  BY DEF SumTo
<1>2. PartStart(count, parts, 0) = 0
  BY PartsEnds
<1>3. \A i \in 0 .. parts - 1 :
        PartStart(count, parts, i + 1) = PartStart(count, parts, i) + PartLen(count, parts, i)
  BY NextPart
<1>4. starts = adds(starts)
  <2>1. ASSUME NEW i \in 0 .. w
        PROVE  PartStart(count, parts, i)
                 = IF i = 0 THEN 0 ELSE starts[i - 1] + PartLen(count, parts, i - 1)
    <3>1. CASE i = 0
      BY <1>2, <3>1
    <3>2. CASE i # 0
      <4>1. i - 1 \in 0 .. w /\ i - 1 \in 0 .. parts - 1 /\ (i - 1) + 1 = i
        BY <3>2
      <4>2. starts[i - 1] = PartStart(count, parts, i - 1)
        BY <4>1
      <4> HIDE DEF starts
      <4> QED
        BY <1>3, <3>2, <4>1, <4>2
    <3> QED
      BY <3>1, <3>2
  <2> QED
    BY <2>1
<1>5. sums = adds(sums)
  <2> HIDE DEF adds, starts
  <2> QED
    BY <1>4
<1> DEFINE f == [i \in 0 .. w |-> PartLen(count, parts, i)]
<1>6. AddsUp(sums, f, w) /\ AddsUp(starts, f, w)
  <2>1. \A i \in 0 .. w : i # 0 => i - 1 \in 0 .. w
    OBVIOUS
  <2> HIDE DEF starts, sums
  <2> QED
    BY <1>4, <1>5, <2>1 DEF AddsUp
<1>7. w \in Nat /\ w \in 0 .. w
  OBVIOUS
<1>8. starts[w] = PartStart(count, parts, w)
  BY <1>7
<1> HIDE DEF starts, sums, f
<1>9. sums[w] = Sum(f, w) /\ starts[w] = Sum(f, w)
  BY <1>6, <1>7, SumsAreUnique
<1> QED
  BY <1>1, <1>8, <1>9 DEF len
\* The item in a slot is the one of its number: no worker's items are displaced by those
\* of another, however many workers there are.
LEMMA DealtInOrder ==
  ASSUME NEW count \in Nat, NEW threads \in Nat, NEW slot \in 0 .. count - 1
  PROVE  DealtItem(count, threads, slot) = slot
<1> DEFINE parts == Clamp(threads, 1, count)
           work == AssignPanels(count, threads)
           len(w) == PartLen(count, parts, w)
           slab(w) == SumTo(len, w)
           owner == CHOOSE w \in DOMAIN work : slab(w) <= slot /\ slot < slab(w) + len(w)
           first(w) == CHOOSE p \in work[w] : \A q \in work[w] : p <= q
           start(w) == PartStart(count, parts, w)
<1>1. DealtItem(count, threads, slot) = first(owner) + (slot - slab(owner))
  BY DEF DealtItem
<1>2. parts \in Nat \ {0} /\ count # 0
  BY DEF Clamp, Least, Most
<1>3. DOMAIN work = 0 .. parts - 1 /\ \A w \in 0 .. parts - 1 : work[w] = Part(count, parts, w)
  BY <1>2 DEF AssignPanels, PanelWorkers
<1> HIDE DEF parts, work
<1>4. \A w \in 0 .. parts : slab(w) = start(w)
  BY <1>2, SlabStart
<1>5. \A w \in 0 .. parts - 1 : start(w) \in Nat /\ len(w) \in Nat
  BY <1>2, NextPart
<1>6. \A w \in 0 .. parts - 1 : Part(count, parts, w) = start(w) .. start(w) + len(w) - 1
  BY DEF Part
<1>7. PICK x \in 0 .. parts - 1 : slot \in Part(count, parts, x)
  BY <1>2, PartsCover
<1> HIDE DEF slab, len, start, first
<1>8. \E w \in DOMAIN work : slab(w) <= slot /\ slot < slab(w) + len(w)
  <2>1. x \in 0 .. parts
    BY <1>2
  <2>2. start(x) <= slot /\ slot < start(x) + len(x)
    BY <1>5, <1>6, <1>7
  <2> QED
    BY <1>3, <1>4, <2>1, <2>2
<1>9. owner \in DOMAIN work /\ slab(owner) <= slot /\ slot < slab(owner) + len(owner)
  BY <1>8
<1> HIDE DEF owner
<1>10. owner \in 0 .. parts - 1 /\ owner \in 0 .. parts
  BY <1>2, <1>3, <1>9
<1>11. work[owner] = start(owner) .. start(owner) + len(owner) - 1 /\ start(owner) \in Nat
       /\ len(owner) \in Nat /\ len(owner) > 0
  BY <1>3, <1>4, <1>5, <1>6, <1>9, <1>10
<1>12. first(owner) = start(owner)
  <2> DEFINE a == start(owner)
             b == start(owner) + len(owner) - 1
             S == work[owner]
  <2>1. a \in Nat /\ b \in Int /\ a <= b /\ S = a .. b
    BY <1>11
  <2>2. first(owner) = CHOOSE p \in S : \A q \in S : p <= q
    BY DEF first
  <2> HIDE DEF a, b, S
  <2>3. a \in S /\ \A q \in S : a <= q
    BY <2>1
  <2>4. first(owner) \in S /\ \A q \in S : first(owner) <= q
    BY <2>2, <2>3
  <2>5. first(owner) = a
    BY <2>1, <2>3, <2>4
  <2> QED
    BY <2>5 DEF a
<1>13. slab(owner) = start(owner)
  BY <1>4, <1>10
<1> QED
  BY <1>1, <1>11, <1>12, <1>13

-----------------------------------------------------------------------------
(* Row groups *)

\* The numbers a call is made of.
LEMMA NumbersOfCall ==
  ASSUME call \in Calls
  PROVE  /\ call.gridRows \in Positive /\ call.cols \in Positive /\ call.salt \in Nat
         /\ call.gamma0 \in 1 .. N \div 2 /\ call.gamma1 \in 1 .. N \div 2
         /\ call.gamma2 \in 1 .. N \div 2
         /\ call.offlineThreads \in Positive /\ call.cores \in Positive
         /\ call.halfUp \in BOOLEAN
         /\ N \in Positive /\ N \div 2 \in Nat /\ N \div 2 <= N
<1>1. call \in [gridRows : Positive, cols : Positive, gamma0 : Positive, gamma1 : Positive,
                gamma2 : Positive, offlineThreads : Positive, cores : Positive,
                halfUp : BOOLEAN, salt : Nat,
                asks : SUBSET Seq(Nat), strangers : SUBSET (Positive \X Positive)]
  BY CallsAssumption
<1>2. \A g \in {call.gamma0, call.gamma1, call.gamma2} : g \in 1 .. N \div 2
  BY CallsAssumption DEF ParamsValid
<1>3. N \in Positive
  BY WireAssumption DEF Positive
<1>4. N \div 2 \in Nat /\ N \div 2 <= N
  BY <1>3 DEF Positive
<1> QED
  BY <1>1, <1>2, <1>3, <1>4

\* A grid row lies in a row group that there is, at a place in it.
LEMMA RowGroupsAre ==
  ASSUME call \in Calls
  PROVE  /\ rowsPerGroup \in Positive /\ physicalRows \in Nat /\ t \in Nat
         /\ rowsPerGroup * call.gamma0 <= N
         /\ \A k \in 0 .. t - 1 :
              /\ k \div rowsPerGroup \in 0 .. physicalRows - 1
              /\ (k % rowsPerGroup) \in 0 .. rowsPerGroup - 1
              /\ k = (k \div rowsPerGroup) * rowsPerGroup + (k % rowsPerGroup)
<1> DEFINE g == call.gamma0
           b == rowsPerGroup
<1>1. g \in Nat \ {0} /\ g <= N /\ N \in Nat \ {0} /\ call.gridRows \in Nat
  BY NumbersOfCall DEF Positive
<1>2. b = N \div g
  BY DEF rowsPerGroup
<1>3. b \in Nat /\ (N % g) \in 0 .. g - 1 /\ N = g * b + (N % g)
  BY <1>1, <1>2, Quotient
<1>4. b # 0
  <2>1. g * 0 = 0
    BY <1>1, SMT
  <2> HIDE DEF b, g
  <2> QED
    BY <1>1, <1>3, <2>1
<1>5. b * g <= N
  <2> HIDE DEF b, g
  <2>1. b * g = g * b /\ g * b \in Nat
    BY <1>1, <1>3, SMT
  <2> QED
    BY <1>1, <1>3, <2>1
<1>6. physicalRows = CeilDiv(t, b) /\ t \in Nat
  BY <1>1 DEF physicalRows, t
<1> HIDE DEF b
<1>7. /\ CeilDiv(t, b) \in Nat
      /\ \A k \in 0 .. t - 1 :
           /\ k \div b \in 0 .. CeilDiv(t, b) - 1 /\ (k % b) \in 0 .. b - 1
           /\ k = (k \div b) * b + (k % b)
  BY <1>3, <1>4, <1>6, GroupsHold
<1> QED
  BY <1>3, <1>4, <1>5, <1>6, <1>7 DEF b, Positive

\* How many workers there are does not matter, as long as there is one.
LEMMA BudgetIsNat ==
  ASSUME NEW own \in Nat, NEW base \in Nat, NEW cap \in Nat
  PROVE  WorkerBudget(own, base, cap) \in Nat
BY DEF WorkerBudget, Clamp, Least, Most

-----------------------------------------------------------------------------
(* Offline *)

\* What packing a grid row needs, by the number of the row
PrecomputeOf(k) ==
  [db |-> <<k \div rowsPerGroup, (k % rowsPerGroup) * call.gamma0>>, masks |-> q0Masks,
   key |-> KeyMask(0, call.gamma0)]

\* The digits of resp0's masks
MaskDigits == LET mask(k) == FinalMask(PrecomputeOf(k)) IN DigitData(N, mask)

\* What was computed offline follows from the call.
OfflineInv ==
  /\ stage # "l1" => \A k \in 0 .. t - 1 : l1Precompute[k] = PrecomputeOf(k)
  /\ stage \in {"l1", "masks"} => maskData = <<>>
  /\ stage \notin {"l1", "masks"} => maskData = MaskDigits

\* While the call stays the same, so do its numbers.
LEMMA SameCall ==
  ASSUME call' = call
  PROVE  /\ rowsPerGroup' = rowsPerGroup /\ t' = t /\ columnBlocks' = columnBlocks
         /\ physicalRows' = physicalRows
         /\ q0Masks' = q0Masks /\ q1Masks' = q1Masks
         /\ \A k : PrecomputeOf(k)' = PrecomputeOf(k)
         /\ \A pre : FinalMask(pre)' = FinalMask(pre)
         /\ \A x, l : SwitchedDigit(x, l)' = SwitchedDigit(x, l)
         /\ MaskDigits' = MaskDigits
<1>1. /\ rowsPerGroup' = rowsPerGroup /\ t' = t /\ columnBlocks' = columnBlocks
      /\ q0Masks' = q0Masks /\ q1Masks' = q1Masks
  BY DEF rowsPerGroup, t, columnBlocks, q0Masks, q1Masks
<1>2. physicalRows' = physicalRows
  BY <1>1 DEF physicalRows
<1>3. \A k : PrecomputeOf(k)' = PrecomputeOf(k)
  BY <1>1 DEF PrecomputeOf
<1>4. \A pre : FinalMask(pre)' = FinalMask(pre)
  BY DEF FinalMask
<1>5. \A x : NormalizedLimb(x)' = NormalizedLimb(x)
  BY DEF NormalizedLimb
<1>6. \A x : Normalized(x)' = Normalized(x)
  BY DEF Normalized, NormalizedLimb
<1>7. \A x, l : SwitchedDigit(x, l)' = SwitchedDigit(x, l)
  BY <1>6 DEF SwitchedDigit
<1>8. MaskDigits' = MaskDigits
  BY <1>1, <1>3, <1>4, <1>7 DEF MaskDigits, DigitData
<1> QED
  BY <1>1, <1>2, <1>3, <1>4, <1>7, <1>8

-----------------------------------------------------------------------------
(* Coefficients from their digits *)

\* A coefficient is its two digits at their places.
LEMMA RecomposedIs ==
  ASSUME NEW vals, NEW c \in Nat, vals[c * 2] \in Int, vals[c * 2 + 1] \in Int
  PROVE  /\ Recomposed(vals, c) = vals[c * 2] * Word + vals[c * 2 + 1]
         /\ Recomposed(vals, c) \in Int
<1> DEFINE a == vals[c * 2]
           b == vals[c * 2 + 1]
           limb(l) == vals[c * Tau + l] * Word ^ (Tau - 1 - l)
           adds(s) == [i \in 0 .. Tau |-> IF i = 0 THEN 0 ELSE s[i - 1] + limb(i - 1)]
           sums == CHOOSE s : s = adds(s)
           three == [i \in 0 .. 2 |-> IF i = 0 THEN 0 ELSE IF i = 1 THEN a * Word ELSE a * Word + b]
<1>1. Recomposed(vals, c) = sums[Tau]
  BY DEF Recomposed, SumTo
<1>2. Tau = 2 /\ Word \in Int /\ Word ^ 0 = 1 /\ Word ^ 1 = Word
  BY PowersAre DEF Tau
<1>3. limb(0) = a * Word /\ limb(1) = b /\ a * Word \in Int
  <2>1. c * Tau + 0 = c * 2 /\ c * Tau + 1 = c * 2 + 1
    BY <1>2
  <2>2. Tau - 1 - 0 = 1 /\ Tau - 1 - 1 = 0
    BY <1>2
  <2>3. b * 1 = b /\ a \in Int /\ b \in Int
    OBVIOUS
  <2>4. limb(0) = a * Word
    BY <1>2, <2>1, <2>2
  <2>5. limb(1) = b * 1
    BY <1>2, <2>1, <2>2
  <2>6. a * Word \in Int
    <3> HIDE DEF a, b, limb
    <3> QED
      BY <1>2, <2>3, IntProduct
  <2> QED
    BY <2>3, <2>4, <2>5, <2>6
<1> DEFINE p == a * Word
<1>4. p \in Int /\ b \in Int /\ limb(0) = p /\ limb(1) = b
  BY <1>3
<1>5. three = [i \in 0 .. 2 |-> IF i = 0 THEN 0 ELSE IF i = 1 THEN p ELSE p + b]
  OBVIOUS
<1> HIDE DEF p, b, limb, three
<1>6. three = adds(three)
  <2>1. three[0] = 0 /\ three[1] = p /\ three[2] = p + b
    BY <1>5
  <2>2. ASSUME NEW i \in 0 .. Tau
        PROVE  three[i] = IF i = 0 THEN 0 ELSE three[i - 1] + limb(i - 1)
    <3>1. CASE i = 0
      BY <2>1, <3>1
    <3>2. CASE i = 1
      <4>1. i - 1 = 0 /\ i # 0
        BY <3>2
      <4> QED
        BY <1>4, <2>1, <3>2, <4>1
    <3>3. CASE i = 2
      <4>1. i - 1 = 1 /\ i # 0
        BY <3>3
      <4> QED
        BY <1>4, <2>1, <3>3, <4>1
    <3> QED
      BY <1>2, <3>1, <3>2, <3>3
  <2>3. three = [i \in 0 .. Tau |-> three[i]]
    BY <1>2, <1>5
  <2> QED
    BY <2>2, <2>3
<1>7. sums = adds(sums)
  <2> HIDE DEF adds
  <2> QED
    BY <1>6
<1> HIDE DEF sums
<1>8. sums[0] = 0 /\ sums[1] = sums[0] + limb(0) /\ sums[2] = sums[1] + limb(1)
  <2>1. ASSUME NEW i \in 0 .. Tau
        PROVE  sums[i] = IF i = 0 THEN 0 ELSE sums[i - 1] + limb(i - 1)
    BY <1>7
  <2>2. 0 \in 0 .. Tau /\ 1 \in 0 .. Tau /\ 2 \in 0 .. Tau /\ 1 - 1 = 0 /\ 2 - 1 = 1
    BY <1>2
  <2> QED
    BY <2>1, <2>2
<1>9. sums[Tau] = p + b
  BY <1>2, <1>4, <1>8
<1> QED
  BY <1>1, <1>4, <1>9 DEF p, b

\* The digits of any coefficient rebuild it.
LEMMA DigitsAre ==
  ASSUME NEW x \in Int
  PROVE  LET half == Word \div 2
         IN /\ SwitchedDigit(x, 0) \in -half .. half - 1 /\ SwitchedDigit(x, 1) \in -half .. half - 1
            /\ SwitchedDigit(x, 0) \in Int /\ SwitchedDigit(x, 1) \in Int
            /\ (SwitchedDigit(x, 0) * Word + SwitchedDigit(x, 1) - x) % QTilde = 0
<1> DEFINE half == Word \div 2
<1>1. half \in Nat \ {0} /\ Word = 2 * half /\ QTilde = Word * Word
  BY PowersAre
<1> HIDE DEF half
<1>2. /\ SwitchedDigit(x, 0) \in -half .. half - 1 /\ SwitchedDigit(x, 1) \in -half .. half - 1
      /\ (SwitchedDigit(x, 0) * Word + SwitchedDigit(x, 1) - x) % QTilde = 0
  BY <1>1, DigitsOfAnyCoefficient
<1>3. SwitchedDigit(x, 0) \in Int /\ SwitchedDigit(x, 1) \in Int
  BY <1>1, <1>2
<1> QED
  BY <1>2, <1>3 DEF half

\* A column of a digit database rebuilds the coefficients it was cut from.
LEMMA ColumnRebuilds ==
  ASSUME NEW data, NEW h \in Nat, DOMAIN data = 0 .. h * Tau - 1, NEW k, NEW c \in 0 .. h - 1,
         NEW x \in Int, \A l \in 0 .. 1 : data[c * 2 + l][k] = SwitchedDigit(x, l)
  PROVE  Rebuilds(data, k, c, x)
<1> DEFINE column == [d \in DOMAIN data |-> data[d][k]]
<1>1. Tau = 2
  BY DEF Tau
<1>2. c * 2 \in DOMAIN data /\ c * 2 + 1 \in DOMAIN data /\ c * 2 + 0 = c * 2 /\ c \in Nat
  BY <1>1
<1>3. column[c * 2] = SwitchedDigit(x, 0) /\ column[c * 2 + 1] = SwitchedDigit(x, 1)
  <2>1. data[c * 2 + 0][k] = SwitchedDigit(x, 0) /\ data[c * 2 + 1][k] = SwitchedDigit(x, 1)
    OBVIOUS
  <2> QED
    BY <1>2, <2>1
<1> HIDE DEF column
<1>4. /\ SwitchedDigit(x, 0) \in Int /\ SwitchedDigit(x, 1) \in Int
      /\ (SwitchedDigit(x, 0) * Word + SwitchedDigit(x, 1) - x) % QTilde = 0
  BY DigitsAre
<1>5. Recomposed(column, c) = column[c * 2] * Word + column[c * 2 + 1]
  BY <1>2, <1>3, <1>4, RecomposedIs
<1>6. (Recomposed(column, c) - x) % QTilde = 0
  <2>1. Recomposed(column, c) = SwitchedDigit(x, 0) * Word + SwitchedDigit(x, 1)
    BY <1>3, <1>5
  <2> DEFINE r == Recomposed(column, c)
             p == SwitchedDigit(x, 0) * Word
             b == SwitchedDigit(x, 1)
  <2>2. p \in Int /\ b \in Int
    <3>1. Word \in Int
      BY PowersAre
    <3> QED
      BY <1>4, <3>1, IntProduct
  <2>3. r = p + b /\ (p + (b - x)) % QTilde = 0
    BY <1>4, <2>1
  <2> HIDE DEF r, p, b
  <2>4. r - x = p + (b - x)
    BY <2>2, <2>3
  <2>5. (r - x) % QTilde = 0
    BY <2>3, <2>4
  <2> QED
    BY <2>5 DEF r
<1> QED
  BY <1>6 DEF Rebuilds, column

\* Where the digits of a coefficient are in a digit database.
LEMMA DigitPlace ==
  ASSUME NEW c \in Nat, NEW l \in 0 .. 1
  PROVE  (c * 2 + l) \div Tau = c /\ (c * 2 + l) % Tau = l
<1>1. Tau = 2
  BY DEF Tau
<1> QED
  BY <1>1

-----------------------------------------------------------------------------
(* The digits of the masks *)

\* The modulus of a switched ciphertext.
LEMMA QTildeIs == QTilde \in Nat \ {0} /\ Word \in Nat \ {0}
<1>1. Word \in Nat \ {0} /\ QTilde = Word * Word
  BY PowersAre
<1>2. \A w \in Nat \ {0} : w * w \in Nat \ {0}
  BY SMT
<1> QED
  BY <1>1, <1>2

\* Coefficients of the masks are residues.
LEMMA FinalMaskIs ==
  ASSUME call \in Calls, NEW k \in 0 .. t - 1, NEW c \in Coef
  PROVE  FinalMask(PrecomputeOf(k))[c] \in 0 .. QTilde - 1
<1> DEFINE pre == PrecomputeOf(k)
           a == k \div rowsPerGroup
           b == (k % rowsPerGroup) * call.gamma0
           x == call.salt + a * N + b
           y == 71 * x + (x + 3) * (c + 1) * (c + x + 2) + c * c * c
<1>1. a \in Nat /\ (k % rowsPerGroup) \in Nat /\ call.gamma0 \in Nat /\ call.salt \in Nat /\ N \in Nat
  <2>1. call.gamma0 \in Nat /\ call.salt \in Nat
    BY NumbersOfCall DEF Positive
  <2>2. N \in Nat
    BY WireAssumption
  <2>3. physicalRows \in Nat /\ rowsPerGroup \in Nat
    BY RowGroupsAre DEF Positive
  <2>4. a \in 0 .. physicalRows - 1 /\ (k % rowsPerGroup) \in 0 .. rowsPerGroup - 1
    BY RowGroupsAre
  <2> QED
    BY <2>1, <2>2, <2>3, <2>4
<1>2. \A u, v \in Nat : u * v \in Nat
  BY SMT
<1>3. b \in Nat
  BY <1>1, <1>2
<1>4. pre.db[1] = a /\ pre.db[2] = b
  BY DEF PrecomputeOf
<1> HIDE DEF a, b
<1>5. x \in Nat /\ c \in Nat
  BY <1>1, <1>2, <1>3 DEF Coef
<1>6. FinalMask(pre)[c] = y % QTilde
  BY <1>4 DEF FinalMask
<1> HIDE DEF x, pre
<1>7. y \in Nat
  <2>1. (x + 3) * (c + 1) \in Nat /\ c * c \in Nat
    BY <1>2, <1>5
  <2>2. (x + 3) * (c + 1) * (c + x + 2) \in Nat /\ c * c * c \in Nat
    BY <1>2, <1>5, <2>1
  <2> QED
    BY <1>5, <2>2
<1> HIDE DEF y
<1>8. (y % QTilde) \in 0 .. QTilde - 1
  BY <1>7, Quotient, QTildeIs
<1> QED
  BY <1>6, <1>8 DEF pre

\* The masks' digits, at their places.
LEMMA MaskDigitsAre ==
  /\ DOMAIN MaskDigits = 0 .. N * Tau - 1
  /\ \A d \in 0 .. N * Tau - 1 : \A k \in 0 .. t - 1 :
       MaskDigits[d][k] = SwitchedDigit(FinalMask(PrecomputeOf(k))[d \div Tau], d % Tau)
BY DEF MaskDigits, DigitData

\* What is computed before queries come depends on the database's shape alone.
LEMMA OfflineStep ==
  ASSUME IInv, OfflineInv, [Next]_vars
  PROVE  OfflineInv'
<1>1. call \in Calls
  BY DEF IInv
<1>2. CASE OfflineL1
  <2> DEFINE threads == WorkerBudget(0, call.offlineThreads, physicalRows)
             outputs == Dealt(physicalRows, threads, RowGroup)
  <2>1. /\ call' = call /\ stage' = "masks" /\ maskData' = maskData /\ stage = "l1"
        /\ l1Precompute' = [k \in 0 .. t - 1 |-> outputs[k \div rowsPerGroup][k % rowsPerGroup]]
    BY <1>2 DEF OfflineL1
  <2>2. threads \in Nat /\ physicalRows \in Nat
    BY <1>1, BudgetIsNat, NumbersOfCall, RowGroupsAre DEF Positive
  <2>3. outputs = [slot \in 0 .. physicalRows - 1 |-> RowGroup(DealtItem(physicalRows, threads, slot))]
    BY DEF Dealt, DealtItem
  <2> HIDE DEF outputs, threads
  <2>4. ASSUME NEW k \in 0 .. t - 1
        PROVE  l1Precompute'[k] = PrecomputeOf(k)
    <3> DEFINE rg == k \div rowsPerGroup
               local == k % rowsPerGroup
    <3>1. /\ rg \in 0 .. physicalRows - 1 /\ local \in 0 .. rowsPerGroup - 1
          /\ k = rg * rowsPerGroup + local
      BY <1>1, RowGroupsAre
    <3>2. l1Precompute'[k] = outputs[rg][local]
      BY <2>1
    <3> HIDE DEF rg, local
    <3>3. outputs[rg] = RowGroup(rg)
      BY <2>2, <2>3, <3>1, DealtInOrder
    <3>4. rg * rowsPerGroup + local < t
      BY <3>1, <1>1, RowGroupsAre
    <3>5. RowGroup(rg)[local] = [db |-> <<rg, local * call.gamma0>>, masks |-> q0Masks,
                                 key |-> KeyMask(0, call.gamma0)]
      BY <3>1, <3>4 DEF RowGroup
    <3> QED
      BY <3>2, <3>3, <3>5 DEF PrecomputeOf, rg, local
  <2>5. t' = t /\ \A k : PrecomputeOf(k)' = PrecomputeOf(k)
    BY <2>1, SameCall
  <2> QED
    BY <2>1, <2>4, <2>5 DEF OfflineInv
<1>3. CASE OfflineMaskData
  <2> DEFINE mask(k) == FinalMask(l1Precompute[k])
  <2>1. /\ call' = call /\ stage' = "resp1" /\ l1Precompute' = l1Precompute /\ stage = "masks"
        /\ maskData' = DigitData(N, mask)
    BY <1>3 DEF OfflineMaskData
  <2>2. \A k \in 0 .. t - 1 : l1Precompute[k] = PrecomputeOf(k)
    BY <2>1 DEF OfflineInv
  <2>3. DigitData(N, mask) = MaskDigits
    BY <2>2 DEF DigitData, MaskDigits
  <2> HIDE DEF mask
  <2>4. t' = t /\ MaskDigits' = MaskDigits /\ \A k : PrecomputeOf(k)' = PrecomputeOf(k)
    BY <2>1, SameCall
  <2> QED
    BY <2>1, <2>2, <2>3, <2>4 DEF OfflineInv
<1>4. CASE ~OfflineL1 /\ ~OfflineMaskData
  <2>1. /\ call' = call /\ l1Precompute' = l1Precompute /\ maskData' = maskData
        /\ stage' \in {"l1", "masks"} => stage' = stage
        /\ stage' = "l1" <=> stage = "l1"
        /\ stage' \notin {"l1", "masks"} => stage \notin {"l1", "masks"}
    BY <1>4 DEF Next, vars, offline, OfflineResp1, Ask, Cut, Misdirect, Receive, Respond, Turn,
             PackL1, DecomposeBody, PackResp1, PackResp2, Answered
  <2>2. t' = t /\ MaskDigits' = MaskDigits /\ \A k : PrecomputeOf(k)' = PrecomputeOf(k)
    BY <2>1, SameCall
  <2> QED
    BY <2>1, <2>2 DEF OfflineInv
<1> QED
  BY <1>2, <1>3, <1>4

\* The digits kept of the masks are the masks.
LEMMA MasksRebuild ==
  ASSUME IInv, OfflineInv, maskData # <<>>, NEW k \in 0 .. t - 1, NEW c \in Coef
  PROVE  Rebuilds(maskData, k, c, FinalMask(l1Precompute[k])[c])
<1>1. call \in Calls /\ N \in Nat
  BY WireAssumption DEF IInv
<1>2. maskData = MaskDigits /\ l1Precompute[k] = PrecomputeOf(k)
  BY DEF OfflineInv
<1> DEFINE x == FinalMask(PrecomputeOf(k))[c]
<1>3. x \in Int
  <2>1. x \in 0 .. QTilde - 1 /\ QTilde \in Nat
    BY <1>1, FinalMaskIs, QTildeIs
  <2> HIDE DEF x
  <2> QED
    BY <2>1
<1>4. ASSUME NEW l \in 0 .. 1
      PROVE  MaskDigits[c * 2 + l][k] = SwitchedDigit(x, l)
  <2>1. c \in Nat /\ c * 2 + l \in 0 .. N * Tau - 1
    BY <1>1 DEF Coef, Tau
  <2>2. (c * 2 + l) \div Tau = c /\ (c * 2 + l) % Tau = l
    BY <2>1, DigitPlace
  <2> QED
    BY <2>1, <2>2, MaskDigitsAre
<1> HIDE DEF x
<1>5. Rebuilds(MaskDigits, k, c, x)
  <2>1. c \in 0 .. N - 1 /\ DOMAIN MaskDigits = 0 .. N * Tau - 1
    BY MaskDigitsAre DEF Coef
  <2> QED
    BY <1>1, <1>3, <1>4, <2>1, ColumnRebuilds
<1> QED
  BY <1>2, <1>5 DEF x

-----------------------------------------------------------------------------
(* Products with a selector *)

\* A row times a block
Dot(a, hot) == LET term(c) == a[c] * hot[c] IN SumTo(term, N)

\* A product of a row with a block is the sum of the products of their numbers.
LEMMA DotIs ==
  ASSUME NEW a, NEW hot
  PROVE  Dot(a, hot) = Sum([c \in 0 .. N - 1 |-> a[c] * hot[c]], N)
<1> DEFINE f == [c \in 0 .. N - 1 |-> a[c] * hot[c]]
           adds(s) == [i \in 0 .. N |-> IF i = 0 THEN 0 ELSE s[i - 1] + a[i - 1] * hot[i - 1]]
           sums == CHOOSE s : s = adds(s)
           p == PartialSums(f, N)
<1>1. N \in Nat /\ \A i \in 0 .. N : i # 0 => i - 1 \in 0 .. N - 1
  BY WireAssumption
<1>2. Dot(a, hot) = sums[N]
  BY DEF Dot, SumTo
<1>3. \A i \in 0 .. N - 1 : f[i] = a[i] * hot[i]
  OBVIOUS
<1> HIDE DEF f
<1>4. AddsUp(p, f, N)
  BY <1>1, SumsAre
<1> HIDE DEF p
<1>5. p = adds(p)
  BY <1>1, <1>3, <1>4 DEF AddsUp
<1>6. sums = adds(sums)
  <2> HIDE DEF adds
  <2> QED
    BY <1>5
<1> HIDE DEF sums
<1>7. AddsUp(sums, f, N)
  BY <1>1, <1>3, <1>6 DEF AddsUp
<1>8. sums[N] = Sum(f, N)
  BY <1>1, <1>7, SumsAreUnique
<1> QED
  BY <1>2, <1>8 DEF f

\* The block that has the one selects its number; the others nothing.
LEMMA DotOneHot ==
  ASSUME NEW a, \A c \in Coef : a[c] \in Int, NEW col \in Nat, NEW bl \in Nat, NEW hot,
         \A c \in Coef : hot[c] = IF col = bl * N + c THEN 1 ELSE 0
  PROVE  /\ Dot(a, hot) = IF bl = col \div N THEN a[col % N] ELSE 0
         /\ Dot(a, hot) \in Int
<1> DEFINE f == [c \in 0 .. N - 1 |-> a[c] * hot[c]]
           q == col \div N
           r == col % N
           k == col - bl * N
           v == IF k \in Coef THEN a[k] ELSE 0
<1>1. N \in Nat \ {0} /\ Coef = 0 .. N - 1
  BY WireAssumption DEF Coef
<1>2. q \in Nat /\ r \in 0 .. N - 1 /\ col = N * q + r
  BY <1>1, Quotient
<1>3. bl * N \in Nat /\ q * N \in Nat /\ N * q = q * N
  BY <1>1, <1>2, ProductMonotone, SMT
<1>4. k \in Int /\ v \in Int
  BY <1>3
<1>5. k \in Coef <=> bl = q
  <2>1. CASE bl = q
    BY <1>1, <1>2, <1>3, <2>1
  <2>2. CASE bl < q
    <3>1. (bl + 1) * N <= q * N /\ (bl + 1) * N = bl * N + N
      <4>1. bl + 1 \in Nat /\ bl + 1 <= q
        BY <1>2, <2>2
      <4>2. (bl + 1) * N <= q * N
        BY <1>1, <1>2, <4>1, ProductMonotone
      <4>3. (bl + 1) * N = bl * N + N
        BY <1>1, SMT
      <4> QED
        BY <4>2, <4>3
    <3> QED
      BY <1>1, <1>2, <1>3, <2>2, <3>1
  <2>3. CASE bl > q
    <3>1. (q + 1) * N <= bl * N /\ (q + 1) * N = q * N + N
      <4>1. q + 1 \in Nat /\ q + 1 <= bl
        BY <1>2, <2>3
      <4>2. (q + 1) * N <= bl * N
        BY <1>1, <4>1, ProductMonotone
      <4>3. (q + 1) * N = q * N + N
        BY <1>1, <1>2, SMT
      <4> QED
        BY <4>2, <4>3
    <3> QED
      BY <1>1, <1>2, <1>3, <2>3, <3>1
  <2> QED
    BY <1>2, <2>1, <2>2, <2>3
<1>6. bl = q => k = r
  BY <1>2, <1>3
<1>7. \A i \in 0 .. N - 1 : f[i] = IF i = k THEN v ELSE 0
  <2> SUFFICES ASSUME NEW i \in 0 .. N - 1
               PROVE  f[i] = IF i = k THEN v ELSE 0
    OBVIOUS
  <2>1. f[i] = a[i] * hot[i] /\ a[i] \in Int /\ hot[i] = IF col = bl * N + i THEN 1 ELSE 0
    BY <1>1
  <2>2. i = k <=> col = bl * N + i
    BY <1>3
  <2>3. \A x \in Int : x * 1 = x /\ x * 0 = 0
    BY SMT
  <2> HIDE DEF f, k
  <2> QED
    BY <1>1, <2>1, <2>2, <2>3
<1> HIDE DEF f, q, r, k
<1>8. Sum(f, N) = IF k \in 0 .. N - 1 THEN v ELSE 0
  <2> HIDE DEF v
  <2> QED
    BY <1>1, <1>4, <1>7, SumOfOne
<1>9. Dot(a, hot) = Sum(f, N)
  BY DotIs DEF f
<1>10. Dot(a, hot) = IF bl = q THEN a[r] ELSE 0
  BY <1>1, <1>5, <1>6, <1>8, <1>9
<1>11. Dot(a, hot) \in Int
  BY <1>1, <1>2, <1>10
<1> QED
  BY <1>10, <1>11 DEF q, r

-----------------------------------------------------------------------------
(* The database *)

\* Signed words
Digit == -(Word \div 2) .. Word \div 2 - 1

\* What AsWord gives is a digit, and a digit is as it is.
LEMMA AsWordIs ==
  ASSUME NEW x \in Int
  PROVE  AsWord(x) \in Digit /\ AsWord(x) \in Int /\ (x \in Digit => AsWord(x) = x)
<1> DEFINE w == Word
           h == Word \div 2
<1>1. h \in Nat \ {0} /\ w = 2 * h /\ w \in Nat \ {0}
  BY PowersAre
<1>2. AsWord(x) = ((x + h) % w) - h /\ Digit = -h .. h - 1
  BY DEF AsWord, Digit
<1> HIDE DEF w, h
<1>3. ((x + h) % w) \in 0 .. w - 1
  <2>1. x + h \in Int
    BY <1>1
  <2> QED
    BY <1>1, <2>1, IntQuotient
<1>4. AsWord(x) \in -h .. h - 1
  BY <1>1, <1>2, <1>3
<1>5. x \in -h .. h - 1 => (x + h) % w = x + h
  BY <1>1
<1>6. x \in -h .. h - 1 => AsWord(x) = x
  BY <1>1, <1>2, <1>5
<1>7. AsWord(x) \in Int
  BY <1>1, <1>4
<1> QED
  BY <1>2, <1>4, <1>6, <1>7

\* The digits of a payload are words.
LEMMA EncodedDigits ==
  ASSUME NEW v \in Nat, NEW k \in 0 .. Words - 1
  PROVE  EncodeWords(v)[k] \in Digit
<1> DEFINE p == Word ^ k
           x == (v \div p) % Word
<1>1. p \in Nat \ {0} /\ Word \in Nat \ {0}
  <2>1. k \in 0 .. Words
    BY CodecAssumption
  <2> QED
    BY <2>1, PowersAre
<1>2. EncodeWords(v)[k] = AsWord(x)
  BY DEF EncodeWords
<1> HIDE DEF p
<1>3. v \div p \in Nat
  BY <1>1, Quotient
<1>4. x \in Int
  <2> DEFINE y == v \div p
  <2>1. y \in Nat
    BY <1>3
  <2> HIDE DEF y
  <2>2. (y % Word) \in 0 .. Word - 1
    BY <1>1, <2>1, Quotient
  <2>3. (y % Word) \in Int
    BY <1>1, <2>2
  <2> QED
    BY <2>3 DEF y
<1> HIDE DEF x
<1> QED
  BY <1>2, <1>4, AsWordIs

\* Payloads are numbers below the power of words they have.
LEMMA PayloadIs ==
  ASSUME NEW c \in Calls, NEW i \in Nat
  PROVE  PayloadOf(c, i) \in 0 .. Word ^ Words - 1 /\ PayloadOf(c, i) \in Nat
<1> DEFINE x == c.salt * 89 + 37 * i + 5 * i * i
           m == Word ^ Words
<1>1. c.salt \in Nat
  <2>1. c \in [gridRows : Positive, cols : Positive, gamma0 : Positive, gamma1 : Positive,
               gamma2 : Positive, offlineThreads : Positive, cores : Positive,
               halfUp : BOOLEAN, salt : Nat,
               asks : SUBSET Seq(Nat), strangers : SUBSET (Positive \X Positive)]
    BY CallsAssumption
  <2> QED
    BY <2>1
<1>2. x \in Nat
  BY <1>1, SMT
<1>3. m \in Nat \ {0}
  <2>1. Words \in 0 .. Words
    BY CodecAssumption
  <2> QED
    BY <2>1, PowersAre
<1>4. PayloadOf(c, i) = x % m
  BY DEF PayloadOf
<1> HIDE DEF x, m
<1>5. (x % m) \in 0 .. m - 1
  BY <1>2, <1>3, Quotient
<1> QED
  BY <1>3, <1>4, <1>5 DEF m

-----------------------------------------------------------------------------
(* What clients ask for *)

\* The place of a payload of a shape: a grid row, a column, and where its digits start.
LEMMA AddressIs ==
  ASSUME NEW c \in Shapes, NEW i \in 0 .. Capacity(c) - 1
  PROVE  LET a == AddressFor(Layout(c), c.gamma0, i)
         IN /\ a.matrix \in 0 .. c.gridRows - 1 /\ a.column \in 0 .. c.cols - 1
            /\ \E u \in 0 .. c.gamma0 \div Words - 1 :
                 /\ a.offset = u * Words
                 /\ i = a.matrix * PayloadsPerRow(Layout(c), c.gamma0) + u * c.cols + a.column
<1> DEFINE r == PayloadsPerRow(Layout(c), c.gamma0)
           e == c.gamma0 \div Words
           w == c.cols
           a == AddressFor(Layout(c), c.gamma0, i)
           m == i \div r
           l == i % r
           u == l \div w
           v == l % w
<1>1. /\ r \in Nat \ {0} /\ e \in Nat \ {0} /\ w \in Nat \ {0} /\ r = e * w
      /\ Capacity(c) = c.gridRows * r /\ c.gridRows \in Nat \ {0}
  BY ShapeIs DEF Positive
<1>2. Layout(c).cols = c.cols /\ Layout(c).exponent = Words
  BY DEF Layout
<1>3. a.matrix = m /\ a.column = v /\ a.offset = u * Words
  BY <1>2 DEF AddressFor
<1> HIDE DEF r, e, w, a
<1>4. i \in Nat /\ i < c.gridRows * r
  <2>1. c.gridRows * r \in Nat
    BY <1>1, SMT
  <2> QED
    BY <1>1, <2>1
<1>5. m \in Nat /\ l \in 0 .. r - 1 /\ i = r * m + l
  BY <1>1, <1>4, Quotient
<1> HIDE DEF m, l
<1>6. u \in Nat /\ v \in 0 .. w - 1 /\ l = w * u + v
  <2>1. l \in Nat /\ w \in Nat \ {0}
    BY <1>1, <1>5
  <2> QED
    BY <2>1, Quotient
<1> HIDE DEF u, v
<1>7. r * m = m * r /\ m * r \in Nat /\ w * u = u * w /\ u * w \in Nat
  BY <1>1, <1>5, <1>6, SMT
<1>8. m < c.gridRows
  <2> DEFINE g == c.gridRows
  <2> SUFFICES ASSUME g <= m PROVE FALSE
    BY <1>1, <1>5
  <2>1. g \in Nat
    BY <1>1
  <2> HIDE DEF g
  <2>2. g * r <= m * r /\ g * r \in Nat
    BY <1>1, <1>5, <2>1, ProductMonotone
  <2> QED
    BY <1>4, <1>5, <1>7, <2>2 DEF g
<1>9. u < e
  <2> SUFFICES ASSUME e <= u PROVE FALSE
    BY <1>1, <1>6
  <2>1. e * w <= u * w /\ e * w \in Nat
    BY <1>1, <1>6, ProductMonotone
  <2> QED
    BY <1>1, <1>5, <1>6, <1>7, <2>1
<1>10. i = m * r + u * w + v
  BY <1>5, <1>6, <1>7
<1>11. u \in 0 .. e - 1 /\ v \in 0 .. w - 1 /\ m \in 0 .. c.gridRows - 1
  BY <1>1, <1>5, <1>6, <1>8, <1>9
<1> QED
  BY <1>3, <1>10, <1>11 DEF r, e, w, a

\* A client that writes to the server: its shape, its secret, its payload.
IsClient(c, shape, who, i) ==
  /\ shape \in Shapes /\ who \in Nat /\ i \in 0 .. Capacity(shape) - 1
  /\ c.shape = shape /\ c.index = i /\ c.secret = who
  /\ c.address = AddressFor(Layout(shape), shape.gamma0, i)
  /\ c.query = Query(shape, who, i)

\* Whose messages are under way.
LEMMA WriterIs ==
  ASSUME NEW c \in Writers
  PROVE  IsClient(c, c.shape, c.secret, c.index)
<1>1. PICK shape \in Shapes : \E who \in Nat, i \in 0 .. Capacity(shape) - 1 :
        c = Client(shape, who, i)
  BY DEF Writers
<1>2. PICK who \in Nat, i \in 0 .. Capacity(shape) - 1 : c = Client(shape, who, i)
  BY <1>1
<1> QED
  BY <1>2 DEF Client, IsClient

\* Blocks that hold a one at a position
Selects(src, n, col) ==
  \A bl \in 0 .. n - 1 : \A c \in Coef :
    src[bl].plain[c] = IF col = bl * N + c THEN 1 ELSE 0

\* One-hot blocks select their position.
LEMMA OneHotSelects ==
  ASSUME NEW who, NEW col, NEW len, NEW root
  PROVE  Selects(OneHotBlocks(who, col, len, N, root, 1), CeilDiv(len, N), col)
<1> DEFINE src == OneHotBlocks(who, col, len, N, root, 1)
<1>1. ASSUME NEW bl \in 0 .. CeilDiv(len, N) - 1
      PROVE  src[bl].plain = [c \in 0 .. N - 1 |-> IF col = bl * N + c THEN 1 ELSE 0]
  BY DEF OneHotBlocks, BlockCount
<1> HIDE DEF src
<1>2. Selects(src, CeilDiv(len, N), col)
  BY <1>1 DEF Selects, Coef
<1> QED
  BY <1>2 DEF src

\* A query selects the column and the grid row of the payload.
LEMMA QuerySelects ==
  ASSUME NEW c \in Writers,
         DOMAIN c.query.src0 = DOMAIN q0Masks, DOMAIN c.query.src1 = DOMAIN q1Masks
  PROVE  /\ Selects(c.query.src0, columnBlocks, c.address.column)
         /\ c.address.column \in Nat /\ c.address.column \div N \in 0 .. columnBlocks - 1
         /\ Selects(c.query.src1, CeilDiv(t, N), c.address.matrix)
         /\ c.address.matrix \in Nat /\ c.address.matrix \div N \in 0 .. CeilDiv(t, N) - 1
<1> DEFINE shape == c.shape
           who == c.secret
           i == c.index
           a == AddressFor(Layout(shape), shape.gamma0, i)
           n0 == CeilDiv(shape.cols, N)
           n1 == CeilDiv(shape.gridRows, N)
<1>1. IsClient(c, shape, who, i)
  BY WriterIs
<1> HIDE DEF shape, who, i
<1>2. c.address = a /\ c.query = Query(shape, who, i)
  BY <1>1 DEF IsClient
<1>3. /\ a.matrix \in 0 .. shape.gridRows - 1 /\ a.column \in 0 .. shape.cols - 1
      /\ shape.gridRows \in Nat /\ shape.cols \in Nat
  BY <1>1, AddressIs, ShapeIs DEF IsClient, Positive
<1>4. /\ c.query.src0 = OneHotBlocks(who, a.column, shape.cols, N, RecursionA0, 1)
      /\ c.query.src1 = OneHotBlocks(who, a.matrix, shape.gridRows, N, RecursionA1, 1)
  BY <1>2 DEF Query
<1> HIDE DEF a
<1>5. DOMAIN c.query.src0 = 0 .. n0 - 1 /\ DOMAIN c.query.src1 = 0 .. n1 - 1
  BY <1>4 DEF OneHotBlocks, BlockCount
<1>6. Selects(c.query.src0, n0, a.column) /\ Selects(c.query.src1, n1, a.matrix)
  BY <1>4, OneHotSelects
<1>7. DOMAIN q0Masks = 0 .. columnBlocks - 1 /\ DOMAIN q1Masks = 0 .. CeilDiv(t, N) - 1
  BY DEF q0Masks, q1Masks
<1>8. N \in Nat \ {0}
  BY WireAssumption
<1>9. a.column \div N \in 0 .. n0 - 1 /\ a.matrix \div N \in 0 .. n1 - 1
  BY <1>3, <1>8, GroupsHold
<1> HIDE DEF n0, n1
<1>10. /\ Selects(c.query.src0, columnBlocks, a.column)
       /\ Selects(c.query.src1, CeilDiv(t, N), a.matrix)
       /\ a.column \div N \in 0 .. columnBlocks - 1 /\ a.matrix \div N \in 0 .. CeilDiv(t, N) - 1
  <2>1. 0 .. n0 - 1 = 0 .. columnBlocks - 1 /\ 0 .. n1 - 1 = 0 .. CeilDiv(t, N) - 1
    BY <1>5, <1>7
  <2> QED
    BY <1>6, <1>9, <2>1 DEF Selects
<1> QED
  BY <1>2, <1>3, <1>10

-----------------------------------------------------------------------------
(* The first level's products *)

\* The digits of all payloads
DatabaseOf ==
  [rg \in 0 .. physicalRows - 1 |-> [bl \in 0 .. columnBlocks - 1 |->
    [row \in Coef |-> [col \in Coef |-> Stored(call, rg, bl, row, col)]]]]

\* What the database holds are digits.
LEMMA StoredIsDigit ==
  ASSUME call \in Calls, NEW rg \in Nat, NEW bl \in Nat, NEW row \in Coef, NEW col \in Coef
  PROVE  Stored(call, rg, bl, row, col) \in Digit
<1> DEFINE L == Layout(call)
           h == call.gamma0
           g == rg * (N \div h) + row \div h
           digits(i) == EncodeWords(PayloadOf(call, i))
           column == bl * N + col
           low == row % h
           place == g * PayloadsPerRow(L, h) + (low \div L.exponent) * L.cols + column
<1>1. 0 \in Digit
  <2>1. Word \div 2 \in Nat \ {0}
    BY PowersAre
  <2> QED
    BY <2>1 DEF Digit
<1>2. /\ h \in Nat \ {0} /\ N \in Nat \ {0} /\ Words \in Nat \ {0} /\ L.cols = call.cols
      /\ L.exponent = Words /\ call.cols \in Nat /\ PayloadsPerRow(L, h) \in Nat
  BY CallIs, ShapeIs, NumbersOfCall DEF Layout, Positive
<1> HIDE DEF L, h
<1>3. \A x, y \in Nat : x * y \in Nat
  BY SMT
<1>4. row \in Nat /\ col \in Nat /\ low \in Nat /\ row \div h \in Nat
  <2>1. row \in Nat /\ col \in Nat
    BY <1>2 DEF Coef
  <2>2. (row % h) \in 0 .. h - 1 /\ row \div h \in Nat
    BY <1>2, <2>1, Quotient
  <2> QED
    BY <1>2, <2>1, <2>2
<1>5. N \div h \in Nat /\ low \div Words \in Nat /\ (low % Words) \in 0 .. Words - 1
  <2> HIDE DEF low
  <2> QED
    BY <1>2, <1>4, Quotient
<1> HIDE DEF low
<1>6. g \in Nat /\ column \in Nat
  BY <1>2, <1>3, <1>4, <1>5
<1> HIDE DEF g, column
<1>7. place \in Nat
  <2>1. g * PayloadsPerRow(L, h) \in Nat /\ (low \div L.exponent) * L.cols \in Nat
    BY <1>2, <1>3, <1>5, <1>6
  <2> QED
    BY <1>6, <2>1
<1> HIDE DEF place
<1>8. digits(place)[low % L.exponent] \in Digit
  <2>1. PayloadOf(call, place) \in Nat
    BY <1>7, PayloadIs
  <2> QED
    BY <1>2, <1>5, <2>1, EncodedDigits
<1>9. Stored(call, rg, bl, row, col) =
        IF g < call.gridRows THEN StoredDigit(L, h, digits, g, column, low) ELSE 0
  BY DEF Stored, L, h, g, column, low
<1>10. StoredDigit(L, h, digits, g, column, low) =
         IF column < L.cols /\ low \div L.exponent < PayloadsPerColumn(L, h)
         THEN digits(place)[low % L.exponent] ELSE 0
  BY DEF StoredDigit, place
<1> HIDE DEF digits
<1> QED
  BY <1>1, <1>8, <1>9, <1>10

\* A row times all blocks
RowProduct(rg, row, src) ==
  LET block(bl) == Dot(database[rg][bl][row], src[bl].plain) IN SumTo(block, columnBlocks)

\* The product of a row of the database with a query's blocks is the digit in its column.
LEMMA RowProductIs ==
  ASSUME call \in Calls, database = DatabaseOf, NEW rg \in 0 .. physicalRows - 1, NEW row \in Coef,
         NEW col \in Nat, col \div N \in 0 .. columnBlocks - 1,
         NEW src, Selects(src, columnBlocks, col)
  PROVE  RowProduct(rg, row, src) = Stored(call, rg, col \div N, row, col % N)
<1> DEFINE n == columnBlocks
           dot(bl) == Dot(database[rg][bl][row], src[bl].plain)
           f == [bl \in 0 .. n - 1 |-> dot(bl)]
           adds(s) == [i \in 0 .. n |-> IF i = 0 THEN 0 ELSE s[i - 1] + dot(i - 1)]
           sums == CHOOSE s : s = adds(s)
           p == PartialSums(f, n)
           v == Stored(call, rg, col \div N, row, col % N)
<1>1. n \in Nat /\ \A i \in 0 .. n : i # 0 => i - 1 \in 0 .. n - 1
  <2>1. n \in Nat
    BY NumbersOfCall, BlocksAreCounted DEF columnBlocks
  <2> HIDE DEF n
  <2> QED
    BY <2>1
<1>2. RowProduct(rg, row, src) = sums[n]
  BY DEF RowProduct, SumTo
<1>3. N \in Nat \ {0} /\ col % N \in Coef /\ physicalRows \in Nat
  <2>1. N \in Nat \ {0}
    BY WireAssumption
  <2>2. (col % N) \in 0 .. N - 1
    BY <2>1, Quotient
  <2> QED
    BY <2>1, <2>2, RowGroupsAre DEF Coef
<1>4. \A bl \in 0 .. n - 1 : dot(bl) = IF bl = col \div N THEN v ELSE 0
  <2> SUFFICES ASSUME NEW bl \in 0 .. n - 1
               PROVE  dot(bl) = IF bl = col \div N THEN v ELSE 0
    OBVIOUS
  <2> DEFINE a == database[rg][bl][row]
             hot == src[bl].plain
  <2>1. a = [c \in Coef |-> Stored(call, rg, bl, row, c)]
    BY DEF DatabaseOf
  <2>2. \A c \in Coef : a[c] \in Int
    <3>1. ASSUME NEW c \in Coef
          PROVE  a[c] \in Int
      <4>1. Stored(call, rg, bl, row, c) \in Digit /\ rg \in Nat /\ bl \in Nat
        BY <1>1, <1>3, StoredIsDigit
      <4>2. \A x \in Digit : x \in Int
        BY PowersAre DEF Digit
      <4> QED
        BY <2>1, <4>1, <4>2
    <3> QED
      BY <3>1
  <2>3. \A c \in Coef : hot[c] = IF col = bl * N + c THEN 1 ELSE 0
    BY DEF Selects
  <2>4. dot(bl) = Dot(a, hot)
    OBVIOUS
  <2> HIDE DEF a, hot, dot, n
  <2>5. bl \in Nat
    BY <1>1
  <2>6. Dot(a, hot) = IF bl = col \div N THEN a[col % N] ELSE 0
    BY <2>2, <2>3, <2>5, DotOneHot
  <2> QED
    BY <1>3, <2>1, <2>4, <2>6
<1>5. v \in Int
  <2>1. v \in Digit
    BY <1>1, <1>3, StoredIsDigit
  <2>2. \A x \in Digit : x \in Int
    BY PowersAre DEF Digit
  <2> HIDE DEF v
  <2> QED
    BY <2>1, <2>2
<1>6. \A i \in 0 .. n - 1 : f[i] = dot(i)
  OBVIOUS
<1>7. col \div N \in 0 .. n - 1
  OBVIOUS
<1> HIDE DEF f, dot, v, n
<1>8. AddsUp(p, f, n)
  BY <1>1, SumsAre
<1> HIDE DEF p
<1>9. p = adds(p)
  BY <1>1, <1>6, <1>8 DEF AddsUp
<1>10. sums = adds(sums)
  <2> HIDE DEF adds
  <2> QED
    BY <1>9
<1> HIDE DEF sums
<1>11. AddsUp(sums, f, n)
  BY <1>1, <1>6, <1>10 DEF AddsUp
<1>12. sums[n] = Sum(f, n)
  BY <1>1, <1>11, SumsAreUnique
<1> DEFINE k == col \div N
<1>13. k \in Int /\ k \in 0 .. n - 1 /\ \A i \in 0 .. n - 1 : f[i] = IF i = k THEN v ELSE 0
  BY <1>1, <1>4, <1>6, <1>7
<1> HIDE DEF k
<1>14. Sum(f, n) = v
  BY <1>1, <1>5, <1>13, SumOfOne
<1> QED
  BY <1>2, <1>12, <1>14 DEF v

-----------------------------------------------------------------------------
\* The digits of a grid row in the column a query asks for
BodyOf(q, k) ==
  [db |-> <<k \div rowsPerGroup, (k % rowsPerGroup) * call.gamma0>>,
   plain |-> [j \in 0 .. call.gamma0 - 1 |->
     Stored(call, k \div rowsPerGroup, queries[q].client.address.column \div N,
            (k % rowsPerGroup) * call.gamma0 + j, queries[q].client.address.column % N)]]

\* A place of an interleaved product.
LEMMA Interleaved ==
  ASSUME NEW n \in Nat, NEW row \in 0 .. N - 1, NEW i \in 0 .. n - 1
  PROVE  /\ row * n + i \in 0 .. N * n - 1
         /\ (row * n + i) \div n = row /\ (row * n + i) % n = i
<1> DEFINE x == row * n + i
           q == x \div n
           r == x % n
<1>1. N \in Nat /\ n \in Nat \ {0}
  BY WireAssumption
<1>2. row * n \in Nat /\ N * n \in Nat /\ (row + 1) * n = row * n + n /\ (row + 1) * n <= N * n
  <2>1. (row + 1) * n = row * n + n
    BY <1>1, SMT
  <2> QED
    BY <1>1, <2>1, ProductMonotone
<1>3. x \in 0 .. N * n - 1 /\ x \in Nat
  BY <1>2
<1>4. q \in Nat /\ r \in 0 .. n - 1 /\ x = n * q + r
  BY <1>1, <1>3, Quotient
<1> HIDE DEF q, r
<1>5. n * q = q * n /\ q * n \in Nat
  BY <1>1, <1>4, SMT
<1>6. q = row
  <2>1. CASE q < row
    <3>1. (q + 1) * n <= row * n /\ (q + 1) * n = q * n + n
      BY <1>1, <1>4, <2>1, ProductMonotone, SMT
    <3> QED
      BY <1>1, <1>2, <1>4, <1>5, <3>1
  <2>2. CASE q > row
    <3>1. (row + 1) * n <= q * n
      BY <1>1, <1>4, <2>2, ProductMonotone
    <3> QED
      BY <1>1, <1>2, <1>4, <1>5, <3>1
  <2> QED
    BY <1>4, <2>1, <2>2
<1>7. r = i
  BY <1>1, <1>2, <1>4, <1>5, <1>6
<1> QED
  BY <1>3, <1>6, <1>7 DEF q, r

\* The bodies of a batch, of the query and the grid row they are of.
LEMMA BodiesAre ==
  ASSUME IInv, database = DatabaseOf, stage = "received",
         NEW q \in DOMAIN queries, NEW k \in 0 .. t - 1
  PROVE  L1Bodies([p \in DOMAIN queries |-> queries[p].query])[q][k] = BodyOf(q, k)
<1> DEFINE qs == [p \in DOMAIN queries |-> queries[p].query]
           g == call.gamma0
           b == rowsPerGroup
           rg == k \div b
           local == k % b
           start == local * g
           client == queries[q].client
           col == client.address.column
<1>1. call \in Calls
  BY DEF IInv
<1>2. PICK n \in Nat : DOMAIN queries = 1 .. n /\ \A p \in 1 .. n : queries[p].client \in Writers
  BY DEF IInv, QueriesAre
<1>3. Cardinality(DOMAIN qs) = n
  <2>1. DOMAIN qs = 1 .. n
    BY <1>2
  <2>2. Cardinality(1 .. n) = n
    BY FS_Interval
  <2> QED
    BY <2>1, <2>2
<1>4. q \in 1 .. n /\ qs[q] = queries[q].query
  BY <1>2
<1>5. /\ client \in Writers /\ queries[q].query = client.query
      /\ DOMAIN client.query.src0 = DOMAIN q0Masks /\ DOMAIN client.query.src1 = DOMAIN q1Masks
  BY <1>2 DEF IInv, OnlyWholeMessages
<1> HIDE DEF client
<1>6. Selects(client.query.src0, columnBlocks, col) /\ col \in Nat /\ col \div N \in 0 .. columnBlocks - 1
  BY <1>5, QuerySelects
<1>7. /\ rg \in 0 .. physicalRows - 1 /\ local \in 0 .. b - 1 /\ b \in Nat /\ b * g <= N
      /\ g \in Nat \ {0} /\ N \in Nat
  <2>1. rg \in 0 .. physicalRows - 1 /\ local \in 0 .. b - 1
    BY <1>1, RowGroupsAre
  <2>2. b \in Nat /\ b * g <= N
    BY <1>1, RowGroupsAre DEF Positive
  <2>3. g \in Nat \ {0}
    BY <1>1, NumbersOfCall DEF Positive
  <2>4. N \in Nat
    BY WireAssumption
  <2> QED
    BY <2>1, <2>2, <2>3, <2>4
<1> DEFINE product(r, row, qi) ==
             LET block(bl) == LET term(c) == database[r][bl][row][c] * qs[qi + 1].src0[bl].plain[c]
                              IN SumTo(term, N)
             IN SumTo(block, columnBlocks)
           nqs == Cardinality(DOMAIN qs)
           acc == [r \in 0 .. physicalRows - 1 |->
                     [x \in 0 .. N * nqs - 1 |-> product(r, x \div nqs, x % nqs)]]
<1>8. L1Bodies(qs)[q][k] =
        [db |-> <<rg, start>>, plain |-> [j \in 0 .. g - 1 |-> AccAt(acc[rg], nqs, start + j, q - 1)]]
  <2>1. q \in DOMAIN qs
    BY <1>2, <1>4
  <2> HIDE DEF qs
  <2> QED
    BY <2>1 DEF L1Bodies
<1>9. ASSUME NEW r, NEW row, NEW qi
      PROVE  product(r, row, qi) = RowProduct(r, row, qs[qi + 1].src0)
  <2> HIDE DEF qs
  <2> QED
    BY DEF RowProduct, Dot
<1>10. start \in Nat /\ \A j \in 0 .. g - 1 : start + j \in 0 .. N - 1
  <2>1. (local + 1) * g = local * g + g /\ local * g \in Nat
    BY <1>7, SMT
  <2>2. (local + 1) * g <= b * g
    BY <1>7, ProductMonotone
  <2> HIDE DEF b, local
  <2>3. b * g \in Nat
    BY <1>7, SMT
  <2> QED
    BY <1>7, <2>1, <2>2, <2>3
<1> HIDE DEF product, start, rg, local, b, g, col
<1>11. ASSUME NEW j \in 0 .. g - 1
       PROVE  AccAt(acc[rg], nqs, start + j, q - 1)
                = Stored(call, rg, col \div N, start + j, col % N)
  <2> DEFINE row == start + j
             x == row * nqs + (q - 1)
  <2>1. row \in 0 .. N - 1 /\ q - 1 \in 0 .. nqs - 1 /\ nqs \in Nat /\ (q - 1) + 1 = q
    BY <1>3, <1>4, <1>10
  <2>2. AccAt(acc[rg], nqs, row, q - 1) = acc[rg][x]
    BY DEF AccAt
  <2> HIDE DEF row, nqs
  <2>3. x \in 0 .. N * nqs - 1 /\ x \div nqs = row /\ x % nqs = q - 1
    BY <2>1, Interleaved
  <2> HIDE DEF x
  <2>4. acc[rg][x] = product(rg, row, q - 1)
    BY <1>7, <2>3
  <2>5. product(rg, row, q - 1) = RowProduct(rg, row, client.query.src0)
    <3>1. product(rg, row, q - 1) = RowProduct(rg, row, qs[(q - 1) + 1].src0)
      BY <1>9
    <3>2. qs[(q - 1) + 1].src0 = client.query.src0
      BY <1>4, <1>5, <2>1
    <3> QED
      BY <3>1, <3>2
  <2>6. RowProduct(rg, row, client.query.src0) = Stored(call, rg, col \div N, row, col % N)
    <3>1. row \in Coef
      BY <2>1 DEF Coef
    <3> QED
      BY <1>1, <1>6, <1>7, <3>1, RowProductIs
  <2> QED
    BY <2>2, <2>4, <2>5, <2>6 DEF row
<1> HIDE DEF acc, nqs, qs
<1>12. L1Bodies(qs)[q][k] =
         [db |-> <<rg, start>>, plain |-> [j \in 0 .. g - 1 |->
            Stored(call, rg, col \div N, start + j, col % N)]]
  BY <1>8, <1>11
<1> QED
  BY <1>12 DEF BodyOf, rg, start, local, b, g, col, client, qs

-----------------------------------------------------------------------------
(* A run over a batch *)

\* The digits of the bodies, as far as the bodies are ciphertexts
BodyDigits(q) ==
  LET body(k) == IF PackedL1(q, k) = Nonsense THEN Ring!Zero ELSE PackedL1(q, k)
  IN DigitData(call.gamma0, body)

\* While the batch and what was computed for it stay, so does what follows from them.
LEMMA SameRun ==
  ASSUME call' = call, l1Precompute' = l1Precompute, bodies' = bodies, queries' = queries
  PROVE  /\ t' = t
         /\ \A q, k : BodyOf(q, k)' = BodyOf(q, k)
         /\ \A q, k : PackedL1(q, k)' = PackedL1(q, k)
         /\ \A q : BodyDigits(q)' = BodyDigits(q)
<1>1. /\ rowsPerGroup' = rowsPerGroup /\ t' = t /\ columnBlocks' = columnBlocks
      /\ \A pre : FinalMask(pre)' = FinalMask(pre)
      /\ \A x, l : SwitchedDigit(x, l)' = SwitchedDigit(x, l)
  BY SameCall
<1>2. \A q, k : BodyOf(q, k)' = BodyOf(q, k)
  BY <1>1 DEF BodyOf
<1>3. \A q, k : PackedL1(q, k)' = PackedL1(q, k)
  <2>1. \A pre : FinalMask(pre)' = FinalMask(pre)
    BY <1>1
  <2> QED
    BY <2>1, ZenonT(60) DEF PackedL1
<1>4. \A q : BodyDigits(q)' = BodyDigits(q)
  BY <1>1, <1>3 DEF BodyDigits, DigitData
<1> QED
  BY <1>1, <1>2, <1>3, <1>4

\* What a worker does next
Phases == {"pack", "decompose", "resp1", "resp2", "done"}

\* The digits that a worker has cut are those of what it packed, and what it packed is the
\* product of the database with its query.
Run(q) ==
  /\ phase[q] \in Phases
  /\ \A k \in 0 .. t - 1 : bodies[q][k] = BodyOf(q, k)
  /\ phase[q] # "pack" => \A k \in 0 .. t - 1 : resp0[q][k] = PackedL1(q, k)
  /\ phase[q] \notin {"pack", "decompose"} => bodyData[q] = BodyDigits(q)

\* So does what a batch has computed.
OnlineInv ==
  /\ database = DatabaseOf
  /\ stage = "finish" =>
       /\ DOMAIN phase = DOMAIN queries /\ DOMAIN resp0 = DOMAIN queries
       /\ DOMAIN bodyData = DOMAIN queries
       /\ \A q \in DOMAIN queries : Run(q)

\* A worker may use some threads.
LEMMA ThreadsAreThere ==
  ASSUME IInv, stage = "finish", NEW q \in DOMAIN queries, NEW count \in Nat
  PROVE  PackThreads(count) \in Nat /\ threadsPerQuery \in Nat /\ nq \in Nat \ {0}
<1>1. PICK n \in Nat : DOMAIN queries = 1 .. n
  BY DEF IInv, QueriesAre
<1>2. nq \in Nat \ {0}
  <2>1. Cardinality(1 .. n) = n
    BY FS_Interval
  <2>2. n # 0
    BY <1>1
  <2> QED
    BY <1>1, <2>1, <2>2 DEF nq
<1>3. call.cores \in Nat /\ call.cores \in Positive
  BY NumbersOfCall DEF IInv, Positive
<1>4. threadsPerQuery \in Nat
  <2>1. call.cores \div nq \in Nat
    BY <1>2, <1>3, Quotient
  <2> QED
    BY <2>1 DEF threadsPerQuery, Most
<1>5. WorkerBudget(0, call.cores, count) \in Nat
  BY <1>3, BudgetIsNat
<1>6. PackThreads(count) \in Nat
  BY <1>4, <1>5 DEF PackThreads, Least
<1> QED
  BY <1>2, <1>4, <1>6

\* What the workers pack for a query
Resp0Of(q) == LET item(k) == PackedL1(q, k) IN Dealt(t, PackThreads(t), item)

\* What the workers pack comes in the order of the grid rows.
LEMMA PackedInOrder ==
  ASSUME IInv, stage = "finish", NEW q \in DOMAIN queries, NEW k \in 0 .. t - 1
  PROVE  Resp0Of(q)[k] = PackedL1(q, k)
<1> DEFINE n == PackThreads(t)
<1>1. t \in Nat /\ n \in Nat
  <2>1. t \in Nat
    BY RowGroupsAre DEF IInv
  <2> QED
    BY <2>1, ThreadsAreThere
<1>2. Resp0Of(q) = [slot \in 0 .. t - 1 |-> PackedL1(q, DealtItem(t, n, slot))]
  BY DEF Resp0Of, Dealt, DealtItem
<1> HIDE DEF n
<1>3. DealtItem(t, n, k) = k
  BY <1>1, DealtInOrder
<1> QED
  BY <1>2, <1>3

\* Every step keeps it so.
LEMMA OnlineStep ==
  ASSUME IInv, OnlineInv, [Next]_vars
  PROVE  OnlineInv'
<1>1. database' = database /\ call' = call
  BY DEF Next, vars, offline, OfflineL1, OfflineMaskData, OfflineResp1, Ask, Cut, Misdirect, Receive,
         Respond, Turn, PackL1, DecomposeBody, PackResp1, PackResp2, Answered
<1>2. database' = DatabaseOf'
  <2>1. physicalRows' = physicalRows /\ columnBlocks' = columnBlocks
    BY <1>1, SameCall
  <2> QED
    BY <1>1, <2>1 DEF OnlineInv, DatabaseOf
<1> SUFFICES ASSUME stage' = "finish"
             PROVE  /\ DOMAIN phase' = DOMAIN queries' /\ DOMAIN resp0' = DOMAIN queries'
                    /\ DOMAIN bodyData' = DOMAIN queries'
                    /\ \A q \in DOMAIN queries' : Run(q)'
  BY <1>2 DEF OnlineInv
<1>3. CASE Respond
  <2> DEFINE qs == [q \in DOMAIN queries |-> queries[q].query]
  <2>1. /\ stage = "received" /\ queries' = queries /\ bodies' = L1Bodies(qs)
        /\ phase' = [q \in DOMAIN queries |-> "pack"]
        /\ resp0' = [q \in DOMAIN queries |-> <<>>] /\ bodyData' = [q \in DOMAIN queries |-> <<>>]
    BY <1>3 DEF Respond
  <2>2. ASSUME NEW q \in DOMAIN queries, NEW k \in 0 .. t - 1
        PROVE  bodies'[q][k] = BodyOf(q, k)
    BY <2>1, BodiesAre DEF OnlineInv
  <2> HIDE DEF qs
  <2>3. t' = t /\ \A q, k : BodyOf(q, k)' = BodyOf(q, k)
    <3>1. rowsPerGroup' = rowsPerGroup /\ t' = t
      BY <1>1, SameCall
    <3> QED
      BY <1>1, <2>1, <3>1 DEF BodyOf
  <2> QED
    BY <2>1, <2>2, <2>3 DEF Run, Phases
<1>4. ASSUME NEW q \in DOMAIN queries, PackL1(q) \/ DecomposeBody(q) \/ PackResp1(q) \/ PackResp2(q)
      PROVE  /\ DOMAIN phase' = DOMAIN queries' /\ DOMAIN resp0' = DOMAIN queries'
             /\ DOMAIN bodyData' = DOMAIN queries'
             /\ \A p \in DOMAIN queries' : Run(p)'
  <2>1. /\ stage = "finish" /\ queries' = queries /\ l1Precompute' = l1Precompute
        /\ bodies' = bodies
    BY <1>4 DEF PackL1, DecomposeBody, PackResp1, PackResp2, Turn, offline
  <2>2. /\ DOMAIN phase = DOMAIN queries /\ DOMAIN resp0 = DOMAIN queries
        /\ DOMAIN bodyData = DOMAIN queries /\ \A p \in DOMAIN queries : Run(p)
    BY <2>1 DEF OnlineInv
  <2>3. /\ t' = t /\ \A p, k : BodyOf(p, k)' = BodyOf(p, k)
        /\ \A p, k : PackedL1(p, k)' = PackedL1(p, k)
        /\ \A p : BodyDigits(p)' = BodyDigits(p)
    BY <1>1, <2>1, SameRun
  <2>4. CASE PackL1(q)
    <3>1. /\ resp0' = [resp0 EXCEPT ![q] = Resp0Of(q)] /\ bodyData' = bodyData
          /\ phase' = [phase EXCEPT ![q] = "decompose"]
      BY <2>4 DEF PackL1, Resp0Of
    <3>2. \A k \in 0 .. t - 1 : Resp0Of(q)[k] = PackedL1(q, k)
      BY <2>1, PackedInOrder
    <3> QED
      BY <2>1, <2>2, <2>3, <3>1, <3>2 DEF Run, Phases
  <2>5. CASE DecomposeBody(q)
    <3> DEFINE body(k) == IF resp0[q][k] = Nonsense THEN Ring!Zero ELSE resp0[q][k]
    <3>1. /\ bodyData' = [bodyData EXCEPT ![q] = DigitData(call.gamma0, body)] /\ resp0' = resp0
          /\ phase' = [phase EXCEPT ![q] = "resp1"] /\ phase[q] = "decompose"
      BY <2>5 DEF DecomposeBody, Turn
    <3>2. \A k \in 0 .. t - 1 : resp0[q][k] = PackedL1(q, k)
      BY <2>2, <3>1 DEF Run
    <3>3. DigitData(call.gamma0, body) = BodyDigits(q)
      BY <3>2 DEF DigitData, BodyDigits
    <3> HIDE DEF body
    <3> QED
      BY <2>1, <2>2, <2>3, <3>1, <3>2, <3>3 DEF Run, Phases
  <2>6. CASE PackResp1(q) \/ PackResp2(q)
    <3>1. /\ bodyData' = bodyData /\ resp0' = resp0
          /\ \E ph \in {"resp2", "done"} : phase' = [phase EXCEPT ![q] = ph]
          /\ phase[q] \in {"resp1", "resp2"}
      BY <2>6 DEF PackResp1, PackResp2, Turn
    <3> QED
      BY <2>1, <2>2, <2>3, <3>1 DEF Run, Phases
  <2> QED
    BY <1>4, <2>4, <2>5, <2>6
<1>5. CASE UNCHANGED vars \/ \E q \in DOMAIN mail : Cut(q)
  <2>1. /\ stage = "finish" /\ queries' = queries /\ l1Precompute' = l1Precompute
        /\ bodies' = bodies /\ phase' = phase /\ resp0' = resp0 /\ bodyData' = bodyData
    BY <1>5 DEF vars, offline, online, Cut
  <2>2. /\ t' = t /\ \A p, k : BodyOf(p, k)' = BodyOf(p, k)
        /\ \A p, k : PackedL1(p, k)' = PackedL1(p, k)
        /\ \A p : BodyDigits(p)' = BodyDigits(p)
    BY <1>1, <2>1, SameRun
  <2> QED
    BY <2>1, <2>2 DEF OnlineInv, Run
<1> QED
  <2>1. \/ Respond \/ UNCHANGED vars \/ \E q \in DOMAIN mail : Cut(q)
        \/ \E q \in DOMAIN queries : PackL1(q) \/ DecomposeBody(q) \/ PackResp1(q) \/ PackResp2(q)
    BY DEF Next, OfflineL1, OfflineMaskData, OfflineResp1, Ask, Misdirect, Receive, Answered
  <2> QED
    BY <1>3, <1>4, <1>5, <2>1

-----------------------------------------------------------------------------
(* The digits of the bodies *)

\* Coefficients of a polynomial, also of other exponents, are integers.
LEMMA AtIs ==
  ASSUME NEW s, \A i \in Coef : s[i] \in Int, NEW e \in Int
  PROVE  Ring!At(s, e) \in Int
<1> DEFINE r == e % (2 * N)
<1>1. N \in Nat \ {0} /\ 2 * N \in Nat \ {0}
  BY WireAssumption
<1>2. r \in 0 .. 2 * N - 1
  BY <1>1, IntQuotient
<1>3. Ring!At(s, e) = IF r < N THEN s[r] ELSE (-s[r - N]) % QTilde
  BY DEF Ring!At
<1> HIDE DEF r
<1>4. CASE r < N
  BY <1>1, <1>2, <1>3, <1>4 DEF Coef
<1>5. CASE ~(r < N)
  <2> DEFINE x == -s[r - N]
  <2>1. r - N \in Coef
    BY <1>1, <1>2, <1>5 DEF Coef
  <2>2. x \in Int
    BY <2>1
  <2> HIDE DEF x
  <2>3. (x % QTilde) \in 0 .. QTilde - 1
    BY <2>2, IntQuotient, QTildeIs
  <2>4. (x % QTilde) \in Int
    BY <2>3, QTildeIs
  <2> QED
    BY <1>3, <1>5, <2>4 DEF x
<1> QED
  BY <1>4, <1>5

\* A coefficient of the mask's product with the secret is a sum.
LEMMA MaskTermIs ==
  ASSUME NEW a, NEW s, NEW c
  PROVE  MaskTerm(a, s, c) = Sum([i \in 0 .. N - 1 |-> a[i] * Ring!At(s, c - i)], N)
<1> DEFINE term(i) == a[i] * Ring!At(s, c - i)
           f == [i \in 0 .. N - 1 |-> term(i)]
           adds(r) == [i \in 0 .. N |-> IF i = 0 THEN 0 ELSE r[i - 1] + term(i - 1)]
           sums == CHOOSE r : r = adds(r)
           p == PartialSums(f, N)
<1>1. N \in Nat /\ \A i \in 0 .. N : i # 0 => i - 1 \in 0 .. N - 1
  BY WireAssumption
<1>2. MaskTerm(a, s, c) = sums[N]
  BY DEF MaskTerm, SumTo
<1>3. f = [i \in 0 .. N - 1 |-> a[i] * Ring!At(s, c - i)]
  OBVIOUS
<1>4. \A i \in 0 .. N - 1 : f[i] = term(i)
  OBVIOUS
<1> HIDE DEF f, term
<1>5. AddsUp(p, f, N)
  BY <1>1, SumsAre
<1> HIDE DEF p
<1>6. p = adds(p)
  BY <1>1, <1>4, <1>5 DEF AddsUp
<1>7. sums = adds(sums)
  <2> HIDE DEF adds
  <2> QED
    BY <1>6
<1> HIDE DEF sums
<1>8. AddsUp(sums, f, N)
  BY <1>1, <1>4, <1>7 DEF AddsUp
<1>9. sums[N] = Sum(f, N)
  BY <1>1, <1>8, SumsAreUnique
<1> QED
  BY <1>2, <1>3, <1>9

\* It is an integer.
LEMMA MaskTermIsInt ==
  ASSUME NEW a, \A i \in Coef : a[i] \in Int, NEW s, \A i \in Coef : s[i] \in Int, NEW c \in Int
  PROVE  MaskTerm(a, s, c) \in Int
<1> DEFINE f == [i \in 0 .. N - 1 |-> a[i] * Ring!At(s, c - i)]
<1>1. N \in Nat /\ Coef = 0 .. N - 1
  BY WireAssumption DEF Coef
<1>2. ASSUME NEW i \in 0 .. N - 1
      PROVE  f[i] \in Int
  <2>1. c - i \in Int /\ a[i] \in Int
    BY <1>1
  <2>2. Ring!At(s, c - i) \in Int
    BY <2>1, AtIs
  <2>3. a[i] * Ring!At(s, c - i) \in Int
    BY <2>1, <2>2, IntProduct
  <2> QED
    BY <2>3
<1>3. MaskTerm(a, s, c) = Sum(f, N)
  BY MaskTermIs
<1> HIDE DEF f
<1> QED
  BY <1>1, <1>2, <1>3, SumIsInt

\* A secret's coefficients are -1, 0 and 1.
LEMMA SecretIs ==
  ASSUME NEW who \in Nat, NEW i \in Coef
  PROVE  SecretPoly(who)[i] \in -1 .. 1 /\ SecretPoly(who)[i] \in Int
         /\ (SecretPoly(who)[i] % QTilde) \in 0 .. QTilde - 1
<1> DEFINE x == who * who + 3 * i + i * i * who
           s == SecretPoly(who)[i]
<1>1. x \in Nat
  <2>1. i \in Nat
    BY WireAssumption DEF Coef
  <2>2. \A u, v \in Nat : u * v \in Nat
    BY SMT
  <2>3. who * who \in Nat /\ i * i \in Nat /\ i * i * who \in Nat
    BY <2>1, <2>2
  <2> QED
    BY <2>1, <2>3
<1>2. s = (x % 3) - 1
  BY DEF SecretPoly
<1> HIDE DEF x, s
<1>3. s \in -1 .. 1 /\ s \in Int
  BY <1>1, <1>2
<1>4. (s % QTilde) \in 0 .. QTilde - 1
  BY <1>3, IntQuotient, QTildeIs
<1> QED
  BY <1>3, <1>4 DEF s

\* A secret modulo qtilde
SecretOf(q) == [i \in Coef |-> SecretPoly(queries[q].client.secret)[i] % QTilde]

\* A coefficient of what the first level packs: the scaled digit less the mask's part
Scaled(q, k, c) ==
  (bodies[q][k].plain[c] * Word ^ (Tau - 1)
     - MaskTerm(FinalMask(l1Precompute[k]), SecretOf(q), c)) % QTilde

\* What the first level packs, when it fits.
LEMMA PackedL1Is ==
  ASSUME NEW q, NEW k, PackedL1(q, k) # Nonsense
  PROVE  \A c \in Coef : PackedL1(q, k)[c] =
           IF c < call.gamma0 THEN Scaled(q, k, c) ELSE (c + k + 1) % QTilde
BY DEF PackedL1, Scaled, SecretOf

\* The client of a query.
LEMMA ClientOf ==
  ASSUME IInv, stage \in {"received", "finish"}, NEW q \in DOMAIN queries
  PROVE  /\ queries[q].client \in Writers /\ queries[q].query = queries[q].client.query
         /\ queries[q].client.secret \in Nat
         /\ queries[q].client.address.column \in Nat
         /\ queries[q].client.address.matrix \in Nat
         /\ Selects(queries[q].query.src1, CeilDiv(t, N), queries[q].client.address.matrix)
         /\ queries[q].client.address.matrix \div N \in 0 .. CeilDiv(t, N) - 1
<1>1. /\ queries[q].client \in Writers /\ queries[q].query = queries[q].client.query
      /\ DOMAIN queries[q].query.src0 = DOMAIN q0Masks
      /\ DOMAIN queries[q].query.src1 = DOMAIN q1Masks
  BY DEF IInv, QueriesAre, OnlyWholeMessages
<1>2. queries[q].client.secret \in Nat
  BY <1>1, WriterIs DEF IsClient
<1> QED
  BY <1>1, <1>2, QuerySelects

\* What the database has for a grid row, in the column of a query, are digits.
LEMMA BodyDigitIs ==
  ASSUME IInv, stage = "finish", NEW q \in DOMAIN queries, NEW k \in 0 .. t - 1,
         NEW c \in 0 .. call.gamma0 - 1
  PROVE  BodyOf(q, k).plain[c] \in Digit /\ BodyOf(q, k).plain[c] \in Int
<1> DEFINE col == queries[q].client.address.column
           rg == k \div rowsPerGroup
           local == k % rowsPerGroup
           row == local * call.gamma0 + c
<1>1. call \in Calls /\ col \in Nat
  BY ClientOf DEF IInv
<1>2. /\ rg \in Nat /\ local \in 0 .. rowsPerGroup - 1 /\ rowsPerGroup \in Nat
      /\ rowsPerGroup * call.gamma0 <= N /\ call.gamma0 \in Nat /\ N \in Nat \ {0}
  BY <1>1, RowGroupsAre, NumbersOfCall DEF Positive
<1>3. BodyOf(q, k).plain[c] = Stored(call, rg, col \div N, row, col % N)
  BY DEF BodyOf
<1> DEFINE g == call.gamma0
           b == rowsPerGroup
<1>4. row = local * g + c /\ b * g <= N /\ g \in Nat /\ b \in Nat /\ c \in 0 .. g - 1
      /\ local \in 0 .. b - 1
  BY <1>2
<1> HIDE DEF col, rg, local, row, g, b
<1>5. row \in Coef
  <2>1. (local + 1) * g <= b * g /\ (local + 1) * g = local * g + g /\ local * g \in Nat /\ b * g \in Nat
    BY <1>4, ProductMonotone, SMT
  <2> QED
    BY <1>2, <1>4, <2>1 DEF Coef
<1>6. col \div N \in Nat /\ (col % N) \in Coef
  <2>1. col \div N \in Nat /\ (col % N) \in 0 .. N - 1
    BY <1>1, <1>2, Quotient
  <2> QED
    BY <2>1 DEF Coef
<1>7. Stored(call, rg, col \div N, row, col % N) \in Digit
  BY <1>1, <1>2, <1>5, <1>6, StoredIsDigit
<1>8. \A x \in Digit : x \in Int
  BY PowersAre DEF Digit
<1> QED
  BY <1>3, <1>7, <1>8

\* Coefficients of what the first level packs are integers.
LEMMA ScaledIs ==
  ASSUME IInv, OfflineInv, OnlineInv, stage = "finish", NEW q \in DOMAIN queries,
         NEW k \in 0 .. t - 1, NEW c \in 0 .. call.gamma0 - 1
  PROVE  Scaled(q, k, c) \in Int /\ MaskTerm(FinalMask(l1Precompute[k]), SecretOf(q), c) \in Int
<1> DEFINE b == bodies[q][k].plain[c]
           a == FinalMask(l1Precompute[k])
           s == SecretOf(q)
           m == MaskTerm(a, s, c)
<1>1. call \in Calls /\ c \in Int
  BY NumbersOfCall DEF IInv
<1>2. b \in Int
  BY BodyDigitIs DEF OnlineInv, Run
<1>3. \A i \in Coef : a[i] \in Int
  <2>1. l1Precompute[k] = PrecomputeOf(k)
    BY DEF OfflineInv
  <2>2. \A i \in Coef : a[i] \in 0 .. QTilde - 1
    BY <1>1, <2>1, FinalMaskIs
  <2> QED
    BY <2>2, QTildeIs
<1>4. \A i \in Coef : s[i] \in Int
  <2>1. ASSUME NEW i \in Coef
        PROVE  s[i] \in Int
    <3>1. s[i] = SecretPoly(queries[q].client.secret)[i] % QTilde
      BY DEF SecretOf
    <3>2. (SecretPoly(queries[q].client.secret)[i] % QTilde) \in 0 .. QTilde - 1
      BY ClientOf, SecretIs
    <3> QED
      BY <3>1, <3>2, QTildeIs
  <2> QED
    BY <2>1
<1> HIDE DEF b, a, s
<1>5. m \in Int
  BY <1>1, <1>3, <1>4, MaskTermIsInt
<1>6. Word ^ (Tau - 1) = Word /\ Word \in Int
  <2>1. Tau - 1 = 1
    BY DEF Tau
  <2> QED
    BY <2>1, PowersAre
<1> DEFINE x == b * Word ^ (Tau - 1) - m
<1>7. x \in Int
  <2>1. b * Word \in Int
    BY <1>2, <1>6, IntProduct
  <2> HIDE DEF m
  <2> QED
    BY <1>5, <1>6, <2>1
<1>8. Scaled(q, k, c) = x % QTilde
  BY DEF Scaled, b, a, s
<1> HIDE DEF x
<1>9. (x % QTilde) \in 0 .. QTilde - 1
  BY <1>7, IntQuotient, QTildeIs
<1>10. Scaled(q, k, c) \in Int
  BY <1>8, <1>9, QTildeIs
<1> QED
  BY <1>5, <1>10 DEF a, s

\* The digits kept of the bodies are the bodies.
LEMMA BodiesRebuild ==
  ASSUME IInv, OfflineInv, OnlineInv, stage = "finish", NEW q \in DOMAIN queries,
         phase[q] \notin {"pack", "decompose"}, NEW k \in 0 .. t - 1,
         NEW c \in 0 .. call.gamma0 - 1, resp0[q][k] # Nonsense
  PROVE  Rebuilds(bodyData[q], k, c, resp0[q][k][c])
<1> DEFINE h == call.gamma0
           x == PackedL1(q, k)[c]
<1>1. h \in Nat /\ c \in Coef /\ c \in Nat
  <2>1. call \in Calls
    BY DEF IInv
  <2> QED
    BY <2>1, NumbersOfCall DEF Coef, Positive
<1>2. resp0[q][k] = PackedL1(q, k) /\ bodyData[q] = BodyDigits(q)
  BY DEF OnlineInv, Run
<1>3. x = Scaled(q, k, c) /\ x \in Int
  BY <1>1, <1>2, PackedL1Is, ScaledIs
<1>4. DOMAIN BodyDigits(q) = 0 .. h * Tau - 1
  BY DEF BodyDigits, DigitData
<1>5. ASSUME NEW l \in 0 .. 1
      PROVE  BodyDigits(q)[c * 2 + l][k] = SwitchedDigit(x, l)
  <2> DEFINE d == c * 2 + l
  <2>1. d \in 0 .. h * Tau - 1
    BY <1>1 DEF Tau
  <2>2. d \div Tau = c /\ d % Tau = l
    BY <1>1, DigitPlace
  <2> HIDE DEF d
  <2>3. BodyDigits(q)[d][k] = SwitchedDigit(PackedL1(q, k)[d \div Tau], d % Tau)
    BY <1>2, <2>1 DEF BodyDigits, DigitData
  <2> QED
    BY <2>2, <2>3 DEF d
<1> HIDE DEF x
<1>6. Rebuilds(BodyDigits(q), k, c, x)
  BY <1>1, <1>3, <1>4, <1>5, ColumnRebuilds
<1> QED
  BY <1>2, <1>6 DEF x

-----------------------------------------------------------------------------
(* The second level's products *)

\* A row of a matrix of digits times all blocks
PackProduct(prep, m, j, src) ==
  LET block(bl) == Dot(prep[m][bl][j], src[bl].plain)
  IN SumTo(block, Cardinality(DOMAIN q1Masks))

\* A row of numbers
RowOfInts(prep, m, j, n) == \A bl \in 0 .. n - 1 : \A c \in Coef : prep[m][bl][j][c] \in Int

\* The product of a row of digits with a query's blocks is the digit of its grid row.
LEMMA PackProductIs ==
  ASSUME NEW n \in Nat, n = Cardinality(DOMAIN q1Masks), NEW prep, NEW m, NEW j,
         RowOfInts(prep, m, j, n),
         NEW col \in Nat, col \div N \in 0 .. n - 1, NEW src, Selects(src, n, col)
  PROVE  /\ PackProduct(prep, m, j, src) = prep[m][col \div N][j][col % N]
         /\ PackProduct(prep, m, j, src) \in Int
<1> DEFINE dot(bl) == Dot(prep[m][bl][j], src[bl].plain)
           f == [bl \in 0 .. n - 1 |-> dot(bl)]
           adds(s) == [i \in 0 .. n |-> IF i = 0 THEN 0 ELSE s[i - 1] + dot(i - 1)]
           sums == CHOOSE s : s = adds(s)
           p == PartialSums(f, n)
           v == prep[m][col \div N][j][col % N]
<1>1. \A i \in 0 .. n : i # 0 => i - 1 \in 0 .. n - 1
  OBVIOUS
<1>2. PackProduct(prep, m, j, src) = sums[n]
  BY DEF PackProduct, SumTo
<1>3. N \in Nat \ {0} /\ col % N \in Coef
  <2>1. N \in Nat \ {0}
    BY WireAssumption
  <2>2. (col % N) \in 0 .. N - 1
    BY <2>1, Quotient
  <2> QED
    BY <2>1, <2>2 DEF Coef
<1>4. \A bl \in 0 .. n - 1 : dot(bl) = IF bl = col \div N THEN v ELSE 0
  <2> SUFFICES ASSUME NEW bl \in 0 .. n - 1
               PROVE  dot(bl) = IF bl = col \div N THEN v ELSE 0
    OBVIOUS
  <2> DEFINE a == prep[m][bl][j]
             hot == src[bl].plain
  <2>1. \A c \in Coef : a[c] \in Int
    BY DEF RowOfInts
  <2>2. \A c \in Coef : hot[c] = IF col = bl * N + c THEN 1 ELSE 0
    BY DEF Selects
  <2>3. dot(bl) = Dot(a, hot) /\ bl \in Nat
    OBVIOUS
  <2>4. bl = col \div N => a[col % N] = v
    OBVIOUS
  <2> HIDE DEF a, hot, dot, v
  <2>5. Dot(a, hot) = IF bl = col \div N THEN a[col % N] ELSE 0
    BY <2>1, <2>2, <2>3, DotOneHot
  <2> QED
    BY <2>3, <2>4, <2>5
<1>5. v \in Int
  BY <1>3 DEF RowOfInts
<1>6. \A i \in 0 .. n - 1 : f[i] = dot(i)
  OBVIOUS
<1> DEFINE k == col \div N
<1>7. k \in 0 .. n - 1
  OBVIOUS
<1> HIDE DEF f, dot, v
<1>8. AddsUp(p, f, n)
  BY <1>1, SumsAre
<1> HIDE DEF p
<1>9. p = adds(p)
  BY <1>1, <1>6, <1>8 DEF AddsUp
<1>10. sums = adds(sums)
  <2> HIDE DEF adds
  <2> QED
    BY <1>9
<1> HIDE DEF sums
<1>11. AddsUp(sums, f, n)
  BY <1>1, <1>6, <1>10 DEF AddsUp
<1>12. sums[n] = Sum(f, n)
  BY <1>1, <1>11, SumsAreUnique
<1>13. k \in Int /\ \A i \in 0 .. n - 1 : f[i] = IF i = k THEN v ELSE 0
  BY <1>4, <1>6, <1>7
<1> HIDE DEF k
<1>14. Sum(f, n) = v
  BY <1>5, <1>7, <1>13, SumOfOne
<1> QED
  BY <1>2, <1>5, <1>12, <1>14 DEF v

-----------------------------------------------------------------------------
(* Digit databases in matrices *)

\* How many items an interval from 0 has.
LEMMA Interval ==
  ASSUME NEW h \in Nat
  PROVE  Cardinality(0 .. h - 1) = h
BY FS_Interval

\* A matrix of digits and what packing its products needs
BatchOf(data, gamma, key, m) ==
  [prep |-> DigitMatrix(data, gamma, m),
   precompute |-> [db |-> DigitMatrix(data, gamma, m), masks |-> q1Masks, key |-> key]]

\* However many workers there are, the matrices come in their order.
LEMMA BatchesAre ==
  ASSUME call \in Calls, NEW h \in Nat, NEW data, DOMAIN data = 0 .. h - 1,
         NEW gamma \in Nat \ {0}, NEW key, NEW threads \in Nat
  PROVE  LET batches == MaskBatches(data, gamma, key, threads)
         IN /\ DOMAIN batches = 0 .. CeilDiv(h, gamma) - 1
            /\ \A m \in 0 .. CeilDiv(h, gamma) - 1 : batches[m] = BatchOf(data, gamma, key, m)
<1> DEFINE total == CeilDiv(h, gamma)
           workers == Least(WorkerBudget(0, call.offlineThreads, total), Most(threads, 1))
<1>1. total \in Nat
  BY GroupsHold
<1>2. workers \in Nat
  <2>1. call.offlineThreads \in Nat
    BY NumbersOfCall DEF Positive
  <2>2. WorkerBudget(0, call.offlineThreads, total) \in Nat
    BY <1>1, <2>1, BudgetIsNat
  <2> QED
    BY <2>2 DEF Least, Most
<1> DEFINE size == CeilDiv(Cardinality(DOMAIN data), gamma)
           team == Least(WorkerBudget(0, call.offlineThreads, size), Most(threads, 1))
<1>3. size = total
  BY Interval
<1>4. MaskBatches(data, gamma, key, threads) =
        [slot \in 0 .. total - 1 |-> BatchOf(data, gamma, key, DealtItem(total, workers, slot))]
  <2>1. MaskBatches(data, gamma, key, threads) =
          [slot \in 0 .. size - 1 |-> BatchOf(data, gamma, key, DealtItem(size, team, slot))]
    BY DEF MaskBatches, Dealt, DealtItem, BatchOf
  <2>2. team = workers
    BY <1>3
  <2> HIDE DEF size, team, total, workers
  <2> QED
    BY <1>3, <2>1, <2>2
<1> HIDE DEF total, workers
<1>5. \A slot \in 0 .. total - 1 : DealtItem(total, workers, slot) = slot
  BY <1>1, <1>2, DealtInOrder
<1> QED
  BY <1>4, <1>5 DEF total

\* Matrices of a digit database, each with what packing its products needs
Prepared(prep, precompute, data, gamma, key) ==
  LET total == CeilDiv(Cardinality(DOMAIN data), gamma)
  IN /\ DOMAIN prep = 0 .. total - 1
     /\ \A m \in 0 .. total - 1 :
          /\ precompute[m] = [db |-> prep[m], masks |-> q1Masks, key |-> key]
          /\ \A bl \in DOMAIN q1Masks, j \in 0 .. gamma - 1, b \in Coef :
               prep[m][bl][j][b] = IF m * gamma + j \in DOMAIN data /\ bl * N + b < t
                                   THEN data[m * gamma + j][bl * N + b] ELSE 0

\* What precompute_pack_mask_inner gives is prepared.
LEMMA BatchesPrepared ==
  ASSUME call \in Calls, NEW h \in Nat, NEW data, DOMAIN data = 0 .. h - 1,
         NEW gamma \in Nat \ {0}, NEW key, NEW threads \in Nat
  PROVE  LET batches == MaskBatches(data, gamma, key, threads)
         IN Prepared([m \in DOMAIN batches |-> batches[m].prep],
                     [m \in DOMAIN batches |-> batches[m].precompute], data, gamma, key)
<1> DEFINE batches == MaskBatches(data, gamma, key, threads)
           total == CeilDiv(h, gamma)
           prep == [m \in DOMAIN batches |-> batches[m].prep]
           precompute == [m \in DOMAIN batches |-> batches[m].precompute]
<1>1. DOMAIN batches = 0 .. total - 1
      /\ \A m \in 0 .. total - 1 : batches[m] = BatchOf(data, gamma, key, m)
  BY BatchesAre
<1>2. Cardinality(DOMAIN data) = h
  BY Interval
<1> HIDE DEF batches
<1>3. \A m \in 0 .. total - 1 :
        /\ prep[m] = DigitMatrix(data, gamma, m)
        /\ precompute[m] = [db |-> DigitMatrix(data, gamma, m), masks |-> q1Masks, key |-> key]
  BY <1>1 DEF BatchOf
<1>4. DOMAIN prep = 0 .. total - 1
  BY <1>1
<1> HIDE DEF prep, precompute
<1>5. \A m \in 0 .. total - 1 :
        \A bl \in DOMAIN q1Masks, j \in 0 .. gamma - 1, b \in Coef :
          prep[m][bl][j][b] = IF m * gamma + j \in DOMAIN data /\ bl * N + b < t
                              THEN data[m * gamma + j][bl * N + b] ELSE 0
  <2> SUFFICES ASSUME NEW m \in 0 .. total - 1, NEW bl \in DOMAIN q1Masks,
                      NEW j \in 0 .. gamma - 1, NEW b \in Coef
               PROVE  prep[m][bl][j][b] =
                        IF m * gamma + j \in DOMAIN data /\ bl * N + b < t
                        THEN data[m * gamma + j][bl * N + b] ELSE 0
    OBVIOUS
  <2>1. prep[m] = DigitMatrix(data, gamma, m)
    BY <1>3
  <2>2. DigitMatrix(data, gamma, m)[bl][j][b] =
          IF m * gamma + j \in DOMAIN data /\ bl * N + b < t
          THEN data[m * gamma + j][bl * N + b] ELSE 0
    BY Zenon DEF DigitMatrix
  <2> QED
    BY <2>1, <2>2
<1>6. Prepared(prep, precompute, data, gamma, key)
  BY <1>2, <1>3, <1>4, <1>5 DEF Prepared
<1> QED
  BY <1>6 DEF prep, precompute, batches

\* Once the offline phase is over, the digits of the masks are prepared.
PreparedInv ==
  stage \notin {"l1", "masks", "resp1"} =>
    Prepared(resp1Prep, resp1Precompute, maskData, call.gamma1, KeyMask(1, call.gamma1))

\* Every step keeps it so.
LEMMA PreparedStep ==
  ASSUME IInv, OfflineInv, PreparedInv, [Next]_vars
  PROVE  PreparedInv'
<1>1. call \in Calls
  BY DEF IInv
<1> DEFINE key == KeyMask(1, call.gamma1)
<1>2. call' = call /\ q1Masks' = q1Masks /\ t' = t
  <2>1. call' = call
    BY DEF Next, vars, offline, OfflineL1, OfflineMaskData, OfflineResp1, Ask, Cut, Misdirect,
         Receive, Respond, Turn, PackL1, DecomposeBody, PackResp1, PackResp2, Answered
  <2> QED
    BY <2>1, SameCall
<1>3. CASE OfflineResp1
  <2> DEFINE batches == MaskBatches(maskData, call.gamma1, key, call.offlineThreads)
             prep == [m \in DOMAIN batches |-> batches[m].prep]
             precompute == [m \in DOMAIN batches |-> batches[m].precompute]
  <2>1. /\ stage = "resp1" /\ call' = call /\ maskData' = maskData
        /\ resp1Prep' = prep /\ resp1Precompute' = precompute
    BY <1>3 DEF OfflineResp1
  <2>2. Prepared(prep, precompute, maskData, call.gamma1, key)
    <3>1. maskData = MaskDigits
      BY <2>1 DEF OfflineInv
    <3>2. N * Tau \in Nat /\ DOMAIN maskData = 0 .. N * Tau - 1
      <4>1. N * Tau \in Nat
        BY WireAssumption DEF Tau
      <4> QED
        BY <3>1, <4>1, MaskDigitsAre
    <3>3. call.gamma1 \in Nat \ {0} /\ call.offlineThreads \in Nat
      BY <1>1, NumbersOfCall DEF Positive
    <3> HIDE DEF key
    <3> QED
      BY <1>1, <3>2, <3>3, BatchesPrepared
  <2> HIDE DEF prep, precompute
  <2> QED
    BY <1>2, <2>1, <2>2 DEF PreparedInv, Prepared
<1>4. CASE ~OfflineResp1
  <2>1. stage' \notin {"l1", "masks", "resp1"} =>
          /\ stage \notin {"l1", "masks", "resp1"}
          /\ maskData' = maskData /\ resp1Prep' = resp1Prep
          /\ resp1Precompute' = resp1Precompute
    BY <1>4 DEF Next, vars, offline, OfflineL1, OfflineMaskData, Ask, Cut, Misdirect, Receive,
             Respond, Turn, PackL1, DecomposeBody, PackResp1, PackResp2, Answered
  <2> QED
    BY <1>2, <2>1 DEF PreparedInv, Prepared
<1> QED
  BY <1>3, <1>4

-----------------------------------------------------------------------------
(* What the second level selects *)

\* The digits of a grid row, gamma of them in each ciphertext, the last one padded
Selected(data, gamma, k) ==
  [m \in 0 .. CeilDiv(Cardinality(DOMAIN data), gamma) - 1 |-> [j \in 0 .. gamma - 1 |->
    IF m * gamma + j \in DOMAIN data THEN data[m * gamma + j][k] ELSE 0]]

\* What a worker packs of a matrix
PackItem(q, prep, precompute, gamma, key, m) ==
  IF Fits(precompute[m], prep[m], queries[q].query.src1, key)
  THEN [j \in 0 .. gamma - 1 |-> AsWord(PackProduct(prep, m, j, queries[q].query.src1))]
  ELSE Nonsense

\* What workers pack, by the worker's own walk
LEMMA PackedDigitsAre ==
  ASSUME NEW q, NEW prep, NEW precompute, NEW gamma, NEW key, NEW count,
         count = Cardinality(DOMAIN prep)
  PROVE  PackedDigits(q, prep, precompute, gamma, key) =
           [slot \in 0 .. count - 1 |->
              PackItem(q, prep, precompute, gamma, key, DealtItem(count, PackThreads(count), slot))]
<1> DEFINE size == Cardinality(DOMAIN prep)
<1>1. PackedDigits(q, prep, precompute, gamma, key) =
        [slot \in 0 .. size - 1 |->
           PackItem(q, prep, precompute, gamma, key, DealtItem(size, PackThreads(size), slot))]
  BY DEF PackedDigits, Dealt, DealtItem, PackItem, PackProduct, Dot
<1>2. size = count
  OBVIOUS
<1> HIDE DEF size
<1> QED
  BY <1>1, <1>2

\* A key of a client of this database, and what the server precomputed for it
KeyServes(pkey, key, secret) ==
  /\ pkey.seed = key.seed /\ pkey.stride = key.stride
  /\ key.p = GaloisElement(key.stride) /\ key.secret = secret

\* What is precomputed serves the client's blocks.
LEMMA BlocksFit ==
  ASSUME IInv, stage = "finish", NEW q \in DOMAIN queries,
         NEW pkey, NEW key, KeyServes(pkey, key, queries[q].client.secret), NEW db,
         NEW pre, pre = [db |-> db, masks |-> q1Masks, key |-> pkey]
  PROVE  Fits(pre, db, queries[q].query.src1, key)
<1> DEFINE client == queries[q].client
           src == queries[q].query.src1
<1>1. client \in Writers /\ queries[q].query = client.query
  BY ClientOf
<1>2. DOMAIN src = DOMAIN q1Masks
  BY DEF IInv, OnlyWholeMessages
<1>3. src = OneHotBlocks(client.secret, client.address.matrix, client.shape.gridRows, N,
                         RecursionA1, 1)
  <2>1. IsClient(client, client.shape, client.secret, client.index)
    BY <1>1, WriterIs
  <2>2. client.query.src1 =
          OneHotBlocks(client.secret,
                       AddressFor(Layout(client.shape), client.shape.gamma0, client.index).matrix,
                       client.shape.gridRows, N, RecursionA1, 1)
    BY <2>1 DEF IsClient, Query
  <2>3. client.address = AddressFor(Layout(client.shape), client.shape.gamma0, client.index)
    BY <2>1 DEF IsClient
  <2> QED
    BY <1>1, <2>2, <2>3
<1> HIDE DEF client, src
<1>4. \A bl \in DOMAIN src : src[bl].seed = MaskSeed(RecursionA1, bl)
                             /\ src[bl].secret = client.secret
  BY <1>3 DEF OneHotBlocks
<1>5. \A bl \in DOMAIN q1Masks : q1Masks[bl] = MaskSeed(RecursionA1, bl)
  BY DEF q1Masks
<1>6. Fits(pre, db, src, key)
  BY <1>2, <1>4, <1>5 DEF Fits, KeyServes, client
<1> QED
  BY <1>6 DEF src

\* A digit database: words for every grid row
DigitDatabase(data, h) ==
  /\ DOMAIN data = 0 .. h - 1
  /\ \A d \in 0 .. h - 1 : \A k \in 0 .. t - 1 : data[d][k] \in Digit

\* A product is the digit it should pick.
Picked(prep, m, j, src, col) == PackProduct(prep, m, j, src) = prep[m][col \div N][j][col % N]

\* The product of a row of digits with a query's blocks picks the digit of its grid row.
LEMMA ProductPicks ==
  ASSUME NEW n \in Nat, n = Cardinality(DOMAIN q1Masks), NEW prep, NEW m, NEW j,
         RowOfInts(prep, m, j, n),
         NEW col \in Nat, col \div N \in 0 .. n - 1, NEW src, Selects(src, n, col)
  PROVE  Picked(prep, m, j, src, col)
<1>1. PackProduct(prep, m, j, src) = prep[m][col \div N][j][col % N]
  BY PackProductIs
<1> QED
  BY <1>1 DEF Picked

\* The digits of a grid row in one of its ciphertexts
PartOf(data, gamma, k, m) ==
  [j \in 0 .. gamma - 1 |-> IF m * gamma + j \in DOMAIN data THEN data[m * gamma + j][k] ELSE 0]

\* What is packed of a matrix is its part of the client's grid row.
LEMMA ItemSelects ==
  ASSUME IInv, stage = "finish", NEW q \in DOMAIN queries,
         NEW k, k = queries[q].client.address.matrix, k \in 0 .. t - 1,
         NEW h \in Nat, NEW data, DigitDatabase(data, h), NEW gamma \in Nat \ {0},
         NEW pkey, NEW key, KeyServes(pkey, key, queries[q].client.secret),
         NEW prep, NEW precompute, Prepared(prep, precompute, data, gamma, pkey),
         NEW m \in 0 .. CeilDiv(h, gamma) - 1
  PROVE  PackItem(q, prep, precompute, gamma, key, m) = PartOf(data, gamma, k, m)
<1> DEFINE src == queries[q].query.src1
           nb == CeilDiv(t, N)
<1>1. Selects(src, nb, k) /\ k \in Nat /\ k \div N \in 0 .. nb - 1
  BY ClientOf
<1>2. nb \in Nat /\ nb = Cardinality(DOMAIN q1Masks) /\ DOMAIN q1Masks = 0 .. nb - 1
  <2>1. nb \in Nat
    BY CallIs, BlocksAreCounted DEF t, IInv
  <2>2. DOMAIN q1Masks = 0 .. nb - 1
    BY DEF q1Masks
  <2> HIDE DEF nb
  <2> QED
    BY <2>1, <2>2, Interval
<1>3. Cardinality(DOMAIN data) = h /\ DOMAIN data = 0 .. h - 1
  BY Interval DEF DigitDatabase
<1>4. /\ precompute[m] = [db |-> prep[m], masks |-> q1Masks, key |-> pkey]
      /\ \A bl \in 0 .. nb - 1, j \in 0 .. gamma - 1, b \in Coef :
           prep[m][bl][j][b] = IF m * gamma + j \in DOMAIN data /\ bl * N + b < t
                               THEN data[m * gamma + j][bl * N + b] ELSE 0
  <2>1. m \in 0 .. CeilDiv(Cardinality(DOMAIN data), gamma) - 1
    BY <1>3
  <2>2. /\ precompute[m] = [db |-> prep[m], masks |-> q1Masks, key |-> pkey]
        /\ \A bl \in DOMAIN q1Masks, j \in 0 .. gamma - 1, b \in Coef :
             prep[m][bl][j][b] = IF m * gamma + j \in DOMAIN data /\ bl * N + b < t
                                 THEN data[m * gamma + j][bl * N + b] ELSE 0
    BY <2>1, Zenon DEF Prepared
  <2> QED
    BY <1>2, <2>2, Zenon
<1>5. Fits(precompute[m], prep[m], src, key)
  BY <1>4, BlocksFit
<1> HIDE DEF nb, src
<1>6. N \in Nat \ {0} /\ Coef = 0 .. N - 1 /\ k % N \in Coef /\ (k \div N) * N + (k % N) = k
  <2>1. N \in Nat \ {0} /\ Coef = 0 .. N - 1
    BY WireAssumption DEF Coef
  <2>2. (k % N) \in 0 .. N - 1 /\ k = N * (k \div N) + (k % N) /\ k \div N \in Nat
    BY <1>1, <2>1, Quotient
  <2>3. (k \div N) * N = N * (k \div N)
    BY <2>1, <2>2, IntProduct
  <2> QED
    BY <2>1, <2>2, <2>3
<1>7. \A x \in Digit : x \in Int /\ AsWord(x) = x
  BY AsWordIs, PowersAre DEF Digit
<1>8. 0 \in Digit
  BY PowersAre DEF Digit
<1>9. t \in Nat
  BY RowGroupsAre DEF IInv
<1>10. ASSUME NEW j \in 0 .. gamma - 1
       PROVE  AsWord(PackProduct(prep, m, j, src)) =
                IF m * gamma + j \in DOMAIN data THEN data[m * gamma + j][k] ELSE 0
  <2> DEFINE d == m * gamma + j
             v == IF d \in DOMAIN data THEN data[d][k] ELSE 0
  <2>1. RowOfInts(prep, m, j, nb)
    <3> SUFFICES ASSUME NEW bl \in 0 .. nb - 1, NEW c \in Coef PROVE prep[m][bl][j][c] \in Int
      BY DEF RowOfInts
    <3> DEFINE x == bl * N + c
    <3>1. prep[m][bl][j][c] = IF d \in DOMAIN data /\ x < t THEN data[d][x] ELSE 0
      BY <1>4
    <3>2. x \in Nat
      <4> DEFINE y == bl * N
      <4>1. y \in Nat
        BY <1>2, <1>6, ProductMonotone
      <4>2. c \in Nat
        BY <1>6
      <4> HIDE DEF y
      <4>3. y + c \in Nat
        BY <4>1, <4>2
      <4> QED
        BY <4>3 DEF y
    <3> HIDE DEF x, d
    <3>3. d \in DOMAIN data /\ x < t => data[d][x] \in Digit
      BY <1>3, <1>9, <3>2 DEF DigitDatabase
    <3> QED
      BY <1>7, <3>1, <3>3
  <2>2. PackProduct(prep, m, j, src) = prep[m][k \div N][j][k % N]
    <3>1. /\ nb \in Nat /\ nb = Cardinality(DOMAIN q1Masks)
          /\ k \in Nat /\ k \div N \in 0 .. nb - 1 /\ Selects(src, nb, k)
      BY <1>1, <1>2
    <3> HIDE DEF d, v, nb, src
    <3>2. Picked(prep, m, j, src, k)
      BY <2>1, <3>1, ProductPicks
    <3> QED
      BY <3>2 DEF Picked
  <2>3. prep[m][k \div N][j][k % N] = v
    <3> DEFINE e == k \div N
               r == k % N
    <3>1. e \in 0 .. nb - 1 /\ r \in Coef /\ e * N + r = k
      BY <1>1, <1>6
    <3> HIDE DEF e, r
    <3>2. prep[m][e][j][r] = IF d \in DOMAIN data /\ e * N + r < t THEN data[d][e * N + r] ELSE 0
      BY <1>4, <3>1, Zenon
    <3> HIDE DEF d
    <3>3. prep[m][e][j][r] = v
      BY <1>9, <3>1, <3>2
    <3> QED
      BY <3>3 DEF e, r
  <2>4. v \in Digit
    <3> HIDE DEF d
    <3> QED
      BY <1>3, <1>8 DEF DigitDatabase
  <2> HIDE DEF v
  <2>5. AsWord(PackProduct(prep, m, j, src)) = v
    BY <1>7, <2>2, <2>3, <2>4
  <2> QED
    BY <2>5 DEF v
<1> QED
  BY <1>5, <1>10 DEF PackItem, PartOf, src

\* Whatever digit database is prepared, a client of this database gets its grid row's digits.
LEMMA SelectedIs ==
  ASSUME IInv, stage = "finish", NEW q \in DOMAIN queries,
         NEW k, k = queries[q].client.address.matrix, k \in 0 .. t - 1,
         NEW h \in Nat, NEW data, DigitDatabase(data, h), NEW gamma \in Nat \ {0},
         NEW pkey, NEW key, KeyServes(pkey, key, queries[q].client.secret),
         NEW prep, NEW precompute, Prepared(prep, precompute, data, gamma, pkey)
  PROVE  PackedDigits(q, prep, precompute, gamma, key) = Selected(data, gamma, k)
<1> DEFINE total == CeilDiv(h, gamma)
           threads == PackThreads(total)
<1>1. total \in Nat
  BY GroupsHold
<1>2. Cardinality(DOMAIN data) = h
  BY Interval DEF DigitDatabase
<1>3. total = Cardinality(DOMAIN prep)
  <2>1. DOMAIN prep = 0 .. total - 1
    BY <1>2 DEF Prepared
  <2> HIDE DEF total
  <2> QED
    BY <1>1, <2>1, Interval
<1>4. threads \in Nat
  <2> HIDE DEF total
  <2> QED
    BY <1>1, ThreadsAreThere
<1>5. PackedDigits(q, prep, precompute, gamma, key) =
        [slot \in 0 .. total - 1 |->
           PackItem(q, prep, precompute, gamma, key, DealtItem(total, threads, slot))]
  <2> HIDE DEF total
  <2> QED
    BY <1>3, PackedDigitsAre
<1>6. ASSUME NEW m \in 0 .. total - 1
      PROVE  PackItem(q, prep, precompute, gamma, key, m) = PartOf(data, gamma, k, m)
  <2>1. m \in 0 .. CeilDiv(h, gamma) - 1
    OBVIOUS
  <2> HIDE DEF total, threads
  <2> QED
    BY <2>1, ItemSelects
<1>7. \A slot \in 0 .. total - 1 : DealtItem(total, threads, slot) = slot
  <2> HIDE DEF total, threads
  <2> QED
    BY <1>1, <1>4, DealtInOrder
<1>8. Selected(data, gamma, k) = [m \in 0 .. total - 1 |-> PartOf(data, gamma, k, m)]
  BY <1>2 DEF Selected, PartOf
<1> HIDE DEF total, threads
<1> QED
  BY <1>5, <1>6, <1>7, <1>8

-----------------------------------------------------------------------------
(* The digits of a run *)

\* Where a digit of a digit database comes from.
LEMMA PlaceOfDigit ==
  ASSUME NEW h \in Nat, NEW d \in 0 .. h * Tau - 1
  PROVE  d \div Tau \in 0 .. h - 1 /\ d % Tau \in {0, 1}
<1>1. Tau = 2
  BY DEF Tau
<1>2. d \in 0 .. h * 2 - 1
  BY <1>1
<1> QED
  BY <1>1, <1>2

\* The digits of an integer are words.
LEMMA IsDigit ==
  ASSUME NEW x \in Int, NEW l \in {0, 1}
  PROVE  SwitchedDigit(x, l) \in Digit
BY DigitsAre DEF Digit

\* The digits kept of the masks, for every grid row
LEMMA MaskDatabase ==
  ASSUME IInv, OfflineInv, stage = "finish"
  PROVE  N * Tau \in Nat /\ DigitDatabase(maskData, N * Tau)
<1>1. call \in Calls /\ N \in Nat /\ Coef = 0 .. N - 1
  BY WireAssumption DEF IInv, Coef
<1>2. N * Tau \in Nat /\ maskData = MaskDigits
  BY <1>1 DEF Tau, OfflineInv
<1>3. ASSUME NEW d \in 0 .. N * Tau - 1, NEW k \in 0 .. t - 1
      PROVE  MaskDigits[d][k] \in Digit
  <2> DEFINE x == FinalMask(PrecomputeOf(k))[d \div Tau]
  <2>1. d \div Tau \in Coef /\ d % Tau \in {0, 1}
    BY <1>1, PlaceOfDigit
  <2>2. x \in Int
    <3>1. x \in 0 .. QTilde - 1
      BY <1>1, <2>1, FinalMaskIs
    <3> HIDE DEF x
    <3> QED
      BY <3>1, QTildeIs
  <2>3. MaskDigits[d][k] = SwitchedDigit(x, d % Tau)
    BY MaskDigitsAre
  <2> HIDE DEF x
  <2> QED
    BY <2>1, <2>2, <2>3, IsDigit
<1> QED
  BY <1>2, <1>3, MaskDigitsAre DEF DigitDatabase

\* The digits kept of the bodies, for every grid row
LEMMA BodyDatabase ==
  ASSUME IInv, OfflineInv, OnlineInv, stage = "finish", NEW q \in DOMAIN queries,
         phase[q] \notin {"pack", "decompose"}
  PROVE  call.gamma0 * Tau \in Nat /\ DigitDatabase(bodyData[q], call.gamma0 * Tau)
<1> DEFINE h == call.gamma0
           body(k) == IF PackedL1(q, k) = Nonsense THEN Ring!Zero ELSE PackedL1(q, k)
<1>1. call \in Calls /\ N \in Nat /\ Coef = 0 .. N - 1 /\ h \in Nat /\ h <= N
  <2>1. call \in Calls /\ N \in Nat /\ Coef = 0 .. N - 1
    BY WireAssumption DEF IInv, Coef
  <2> QED
    BY <2>1, NumbersOfCall
<1>2. h * Tau \in Nat
  BY <1>1 DEF Tau
<1>3. bodyData[q] = BodyDigits(q)
  BY DEF OnlineInv, Run
<1>4. /\ DOMAIN BodyDigits(q) = 0 .. h * Tau - 1
      /\ \A d \in 0 .. h * Tau - 1 : \A k \in 0 .. t - 1 :
           BodyDigits(q)[d][k] = SwitchedDigit(body(k)[d \div Tau], d % Tau)
  BY DEF BodyDigits, DigitData
<1>5. ASSUME NEW d \in 0 .. h * Tau - 1, NEW k \in 0 .. t - 1
      PROVE  BodyDigits(q)[d][k] \in Digit
  <2> DEFINE c == d \div Tau
             x == body(k)[c]
  <2>1. c \in 0 .. h - 1 /\ d % Tau \in {0, 1}
    BY <1>1, PlaceOfDigit
  <2> HIDE DEF c
  <2>2. c \in Coef
    BY <1>1, <2>1
  <2>3. x \in Int
    <3>1. CASE PackedL1(q, k) = Nonsense
      <4>1. Ring!Zero[c] = 0
        BY <2>2 DEF Ring!Zero, Ring!Coef, Coef
      <4> QED
        BY <3>1, <4>1
    <3>2. CASE PackedL1(q, k) # Nonsense
      <4>1. x = Scaled(q, k, c)
        BY <1>1, <2>1, <2>2, <3>2, PackedL1Is
      <4> QED
        BY <2>1, <4>1, ScaledIs
    <3> QED
      BY <3>1, <3>2
  <2>4. BodyDigits(q)[d][k] = SwitchedDigit(x, d % Tau)
    BY <1>4 DEF c
  <2> HIDE DEF x
  <2> QED
    BY <2>1, <2>3, <2>4, IsDigit
<1> QED
  BY <1>2, <1>3, <1>4, <1>5 DEF DigitDatabase

\* A client of this database: its grid row is there, and its keys are those of the call.
LEMMA OwnClient ==
  ASSUME IInv, stage = "finish", NEW q \in DOMAIN queries, IsOwn(queries[q].client)
  PROVE  LET client == queries[q].client
             keys == queries[q].query.keys
         IN /\ client.address.matrix \in 0 .. t - 1
            /\ client.index \in 0 .. Capacity(call) - 1
            /\ client.address = AddressFor(Layout(call), call.gamma0, client.index)
            /\ KeyServes(KeyMask(0, call.gamma0), keys[0], client.secret)
            /\ KeyServes(KeyMask(1, call.gamma1), keys[1], client.secret)
            /\ KeyServes(keys[2], keys[2], client.secret)
            /\ queries[q].query.src0 =
                 OneHotBlocks(client.secret, client.address.column, call.cols, N, RecursionA0, 1)
<1> DEFINE client == queries[q].client
           keys == queries[q].query.keys
<1>1. client \in Writers /\ queries[q].query = client.query /\ call \in Calls
  BY ClientOf DEF IInv
<1>2. client.shape = call
  BY DEF IsOwn
<1> HIDE DEF client, keys
<1>3. IsClient(client, call, client.secret, client.index)
  BY <1>1, <1>2, WriterIs
<1>4. /\ client.address = AddressFor(Layout(call), call.gamma0, client.index)
      /\ client.query = Query(call, client.secret, client.index)
      /\ call \in Shapes /\ client.index \in 0 .. Capacity(call) - 1
  BY <1>3 DEF IsClient
<1>5. client.address.matrix \in 0 .. t - 1
  BY <1>4, AddressIs DEF t
<1>6. keys = client.query.keys
  BY <1>1 DEF keys
<1>7. /\ keys[0] = [secret |-> client.secret, p |-> GaloisElement(Stride(call.gamma0)),
                    seed |-> RecursionKeySeed(0), stride |-> Stride(call.gamma0)]
      /\ keys[1] = [secret |-> client.secret, p |-> GaloisElement(Stride(call.gamma1)),
                    seed |-> RecursionKeySeed(1), stride |-> Stride(call.gamma1)]
      /\ keys[2] = [secret |-> client.secret, p |-> GaloisElement(Stride(call.gamma2)),
                    seed |-> RecursionKeySeed(2), stride |-> Stride(call.gamma2)]
  BY <1>4, <1>6 DEF Query
<1>8. /\ KeyServes(KeyMask(0, call.gamma0), keys[0], client.secret)
      /\ KeyServes(KeyMask(1, call.gamma1), keys[1], client.secret)
      /\ KeyServes(keys[2], keys[2], client.secret)
  BY <1>7 DEF KeyServes, KeyMask
<1>9. client.query.src0 =
        OneHotBlocks(client.secret, client.address.column, call.cols, N, RecursionA0, 1)
  BY <1>4 DEF Query
<1> QED
  BY <1>1, <1>4, <1>5, <1>8, <1>9 DEF client, keys

-----------------------------------------------------------------------------
(* What a run answers *)

\* The answers to clients of this database are the digits of their grid rows.
Answers(q) ==
  LET k == queries[q].client.address.matrix
  IN IsOwn(queries[q].client) =>
       /\ phase[q] \in {"resp2", "done"} => resp1[q] = Selected(maskData, call.gamma1, k)
       /\ phase[q] = "done" => resp2[q] = Selected(bodyData[q], call.gamma2, k)

\* So it is for every query of a batch.
AnswerInv ==
  stage = "finish" =>
    /\ DOMAIN resp1 = DOMAIN queries /\ DOMAIN resp2 = DOMAIN queries
    /\ \A q \in DOMAIN queries : Answers(q)

\* The digits of the masks are selected by what was precomputed for them.
LEMMA MasksSelected ==
  ASSUME IInv, OfflineInv, PreparedInv, stage = "finish", NEW q \in DOMAIN queries,
         IsOwn(queries[q].client)
  PROVE  PackedDigits(q, resp1Prep, resp1Precompute, call.gamma1, queries[q].query.keys[1])
           = Selected(maskData, call.gamma1, queries[q].client.address.matrix)
<1> DEFINE k == queries[q].client.address.matrix
           key == queries[q].query.keys[1]
           pkey == KeyMask(1, call.gamma1)
           gamma == call.gamma1
           h == N * Tau
<1>1. k \in 0 .. t - 1 /\ KeyServes(pkey, key, queries[q].client.secret)
  BY OwnClient
<1>2. h \in Nat /\ DigitDatabase(maskData, h)
  BY MaskDatabase
<1>3. gamma \in Nat \ {0}
  BY NumbersOfCall DEF IInv
<1>4. Prepared(resp1Prep, resp1Precompute, maskData, gamma, pkey)
  BY DEF PreparedInv
<1>5. k = queries[q].client.address.matrix
  OBVIOUS
<1> HIDE DEF k, key, pkey, gamma, h
<1>6. PackedDigits(q, resp1Prep, resp1Precompute, gamma, key) = Selected(maskData, gamma, k)
  BY <1>1, <1>2, <1>3, <1>4, <1>5, SelectedIs
<1> QED
  BY <1>6 DEF k, key, gamma

\* What a worker packs of a query's body digits
Resp2Of(q) ==
  LET batches == MaskBatches(bodyData[q], call.gamma2, queries[q].query.keys[2], threadsPerQuery)
  IN PackedDigits(q, [m \in DOMAIN batches |-> batches[m].prep],
                  [m \in DOMAIN batches |-> batches[m].precompute],
                  call.gamma2, queries[q].query.keys[2])

\* The digits of the bodies are selected by what the worker itself precomputes for them.
LEMMA BodiesSelected ==
  ASSUME IInv, OfflineInv, OnlineInv, stage = "finish", NEW q \in DOMAIN queries,
         IsOwn(queries[q].client), phase[q] \notin {"pack", "decompose"}
  PROVE  Resp2Of(q) = Selected(bodyData[q], call.gamma2, queries[q].client.address.matrix)
<1> DEFINE k == queries[q].client.address.matrix
           key == queries[q].query.keys[2]
           gamma == call.gamma2
           h == call.gamma0 * Tau
           data == bodyData[q]
           threads == threadsPerQuery
           batches == MaskBatches(data, gamma, key, threads)
           prep == [m \in DOMAIN batches |-> batches[m].prep]
           precompute == [m \in DOMAIN batches |-> batches[m].precompute]
<1>1. k \in 0 .. t - 1 /\ KeyServes(key, key, queries[q].client.secret)
  BY OwnClient
<1>2. h \in Nat /\ DigitDatabase(data, h)
  BY BodyDatabase
<1>3. call \in Calls /\ gamma \in Nat \ {0}
  BY NumbersOfCall DEF IInv
<1>4. threads \in Nat
  <2>1. 0 \in Nat
    OBVIOUS
  <2> QED
    BY <2>1, ThreadsAreThere
<1>5. k = queries[q].client.address.matrix
  OBVIOUS
<1>6. Resp2Of(q) = PackedDigits(q, prep, precompute, gamma, key)
  BY DEF Resp2Of
<1> HIDE DEF k, key, gamma, h, data, threads
<1>7. Prepared(prep, precompute, data, gamma, key)
  <2>1. DOMAIN data = 0 .. h - 1
    BY <1>2 DEF DigitDatabase
  <2> QED
    BY <1>2, <1>3, <1>4, <2>1, BatchesPrepared
<1> HIDE DEF prep, precompute
<1>8. PackedDigits(q, prep, precompute, gamma, key) = Selected(data, gamma, k)
  BY <1>1, <1>2, <1>3, <1>5, <1>7, SelectedIs
<1> QED
  BY <1>6, <1>8 DEF k, gamma, data

\* Every step keeps it so.
LEMMA AnswerStep ==
  ASSUME IInv, OfflineInv, OnlineInv, PreparedInv, AnswerInv, [Next]_vars
  PROVE  AnswerInv'
<1>1. call' = call
  BY DEF Next, vars, offline, OfflineL1, OfflineMaskData, OfflineResp1, Ask, Cut, Misdirect, Receive,
         Respond, Turn, PackL1, DecomposeBody, PackResp1, PackResp2, Answered
<1> SUFFICES ASSUME stage' = "finish"
             PROVE  /\ DOMAIN resp1' = DOMAIN queries' /\ DOMAIN resp2' = DOMAIN queries'
                    /\ \A p \in DOMAIN queries' : Answers(p)'
  BY DEF AnswerInv
<1>2. CASE Respond
  <2>1. /\ queries' = queries /\ phase' = [p \in DOMAIN queries |-> "pack"]
        /\ resp1' = [p \in DOMAIN queries |-> <<>>] /\ resp2' = [p \in DOMAIN queries |-> <<>>]
    BY <1>2 DEF Respond
  <2> QED
    BY <1>1, <2>1 DEF Answers
<1>3. ASSUME NEW q \in DOMAIN queries, PackL1(q) \/ DecomposeBody(q) \/ PackResp1(q) \/ PackResp2(q)
      PROVE  /\ DOMAIN resp1' = DOMAIN queries' /\ DOMAIN resp2' = DOMAIN queries'
             /\ \A p \in DOMAIN queries' : Answers(p)'
  <2>1. stage = "finish" /\ queries' = queries /\ maskData' = maskData
    BY <1>3 DEF PackL1, DecomposeBody, PackResp1, PackResp2, Turn, offline
  <2>2. /\ DOMAIN phase = DOMAIN queries /\ DOMAIN bodyData = DOMAIN queries
        /\ DOMAIN resp1 = DOMAIN queries /\ DOMAIN resp2 = DOMAIN queries
        /\ \A p \in DOMAIN queries : Answers(p)
    BY <2>1 DEF OnlineInv, AnswerInv
  <2>3. CASE PackL1(q) \/ DecomposeBody(q)
    <3>1. /\ resp1' = resp1 /\ resp2' = resp2
          /\ phase[q] \in {"pack", "decompose"} /\ phase'[q] \in {"decompose", "resp1"}
          /\ \A p \in DOMAIN queries : p # q => phase'[p] = phase[p] /\ bodyData'[p] = bodyData[p]
      BY <2>2, <2>3 DEF PackL1, DecomposeBody, Turn
    <3> QED
      BY <1>1, <2>1, <2>2, <3>1 DEF Answers, IsOwn
  <2>4. CASE PackResp1(q)
    <3>1. /\ resp2' = resp2 /\ bodyData' = bodyData
          /\ phase[q] = "resp1" /\ phase' = [phase EXCEPT ![q] = "resp2"]
          /\ resp1' = [resp1 EXCEPT ![q] =
               PackedDigits(q, resp1Prep, resp1Precompute, call.gamma1, queries[q].query.keys[1])]
      BY <2>4 DEF PackResp1, Turn
    <3>2. IsOwn(queries[q].client) =>
            resp1'[q] = Selected(maskData, call.gamma1, queries[q].client.address.matrix)
      BY <2>1, <2>2, <3>1, MasksSelected
    <3>3. /\ DOMAIN resp1' = DOMAIN queries /\ phase'[q] = "resp2"
          /\ \A p \in DOMAIN queries : p # q => phase'[p] = phase[p] /\ resp1'[p] = resp1[p]
      BY <2>2, <3>1
    <3> QED
      BY <1>1, <2>1, <2>2, <3>1, <3>2, <3>3 DEF Answers, IsOwn
  <2>5. CASE PackResp2(q)
    <3>1. /\ resp1' = resp1 /\ bodyData' = bodyData
          /\ phase[q] = "resp2" /\ phase' = [phase EXCEPT ![q] = "done"]
          /\ resp2' = [resp2 EXCEPT ![q] = Resp2Of(q)]
      BY <2>5 DEF PackResp2, Resp2Of, Turn
    <3>2. IsOwn(queries[q].client) =>
            resp2'[q] = Selected(bodyData[q], call.gamma2, queries[q].client.address.matrix)
      BY <2>1, <2>2, <3>1, BodiesSelected
    <3>3. /\ DOMAIN resp2' = DOMAIN queries /\ phase'[q] = "done"
          /\ \A p \in DOMAIN queries : p # q => phase'[p] = phase[p] /\ resp2'[p] = resp2[p]
      BY <2>2, <3>1
    <3> QED
      BY <1>1, <2>1, <2>2, <3>1, <3>2, <3>3 DEF Answers, IsOwn
  <2> QED
    BY <1>3, <2>3, <2>4, <2>5
<1>4. CASE UNCHANGED vars \/ \E q \in DOMAIN mail : Cut(q)
  <2>1. /\ stage = "finish" /\ queries' = queries /\ maskData' = maskData
        /\ phase' = phase /\ bodyData' = bodyData /\ resp1' = resp1 /\ resp2' = resp2
    BY <1>4 DEF vars, offline, online, Cut
  <2> QED
    BY <1>1, <2>1 DEF AnswerInv, Answers, IsOwn
<1> QED
  <2>1. \/ Respond \/ UNCHANGED vars \/ \E q \in DOMAIN mail : Cut(q)
        \/ \E q \in DOMAIN queries : PackL1(q) \/ DecomposeBody(q) \/ PackResp1(q) \/ PackResp2(q)
    BY DEF Next, OfflineL1, OfflineMaskData, OfflineResp1, Ask, Misdirect, Receive, Answered
  <2> QED
    BY <1>2, <1>3, <1>4, <2>1

-----------------------------------------------------------------------------
(* Responses *)

\* A count and the ciphertexts it announces
Ciphertexts(f, n, k) == LET token(ct) == Ciphertext(ct, k) IN Counted(f, n, token)

\* A count and the ciphertexts, token by token.
LEMMA CiphertextsAre ==
  ASSUME NEW f, NEW n \in Nat, NEW k
  PROVE  LET s == Ciphertexts(f, n, k)
         IN /\ HasLength(s, 1 + n)
            /\ s[1] = Number(n)
            /\ \A i \in 1 .. n : s[1 + i] = Ciphertext(f[i - 1], k)
<1> DEFINE r == [i \in 1 .. n |-> Ciphertext(f[i - 1], k)]
           h == <<Number(n)>>
<1>1. HasLength(r, n) /\ \A i \in 1 .. n : r[i] = Ciphertext(f[i - 1], k)
  BY DEF HasLength
<1>2. Ciphertexts(f, n, k) = h \o r
  BY DEF Ciphertexts, Counted
<1>3. HasLength(h, 1) /\ h[1] = Number(n)
  BY Single
<1> HIDE DEF r, h
<1>4. IsJoined(Then(h, r), h, 1, r, n)
  BY <1>1, <1>3, ThenJoins
<1>5. Ciphertexts(f, n, k) = Then(h, r)
  BY <1>2 DEF Then
<1> QED
  BY <1>1, <1>3, <1>4, <1>5 DEF IsJoined

\* The tokens of a response
HoldsResponse(s, f, g, n0, n1, k) ==
  /\ HasLength(s, 3 + n0 + n1) /\ s[1] = Tag("recursion")
  /\ s[2] = Number(n0) /\ s[3 + n0] = Number(n1)
  /\ \A i \in 1 .. n0 : s[2 + i] = Ciphertext(f[i - 1], k)
  /\ \A i \in 1 .. n1 : s[3 + n0 + i] = Ciphertext(g[i - 1], k)

\* A response is its tag and both parts.
LEMMA ResponseIs ==
  ASSUME NEW f, NEW g, NEW n0 \in Nat, NEW n1 \in Nat, NEW k
  PROVE  HoldsResponse(WriteRecursionResponse(f, g, n0, n1, k), f, g, n0, n1, k)
<1> DEFINE tag == <<Tag("recursion")>>
           a == Ciphertexts(f, n0, k)
           b == Ciphertexts(g, n1, k)
           s1 == Then(tag, a)
           s2 == Then(s1, b)
           n == 3 + n0 + n1
<1>1. HasLength(tag, 1) /\ tag[1] = Tag("recursion")
  BY Single
<1>2. /\ HasLength(a, 1 + n0) /\ a[1] = Number(n0)
      /\ \A i \in 1 .. n0 : a[1 + i] = Ciphertext(f[i - 1], k)
      /\ HasLength(b, 1 + n1) /\ b[1] = Number(n1)
      /\ \A i \in 1 .. n1 : b[1 + i] = Ciphertext(g[i - 1], k)
  BY CiphertextsAre
<1>3. WriteRecursionResponse(f, g, n0, n1, k) = s2
  BY DEF WriteRecursionResponse, Then, Ciphertexts
<1> HIDE DEF tag, a, b, s1, s2
<1>4. /\ HasLength(s1, 2 + n0) /\ \A i \in 1 .. 1 : s1[i] = tag[i]
      /\ \A i \in 1 .. 1 + n0 : s1[1 + i] = a[i]
  <2> DEFINE m == 1 + n0
  <2>1. HasLength(a, m) /\ 1 \in Nat /\ m \in Nat /\ 1 + m = 2 + n0
    BY <1>2
  <2> HIDE DEF m
  <2>2. IsJoined(Then(tag, a), tag, 1, a, m)
    BY <1>1, <2>1, ThenJoins
  <2> QED
    BY <2>1, <2>2 DEF m, s1, IsJoined
<1>5. /\ HasLength(s2, n) /\ \A i \in 1 .. 2 + n0 : s2[i] = s1[i]
      /\ \A i \in 1 .. 1 + n1 : s2[2 + n0 + i] = b[i]
  <2> DEFINE l == 2 + n0
             m == 1 + n1
  <2>1. l \in Nat /\ m \in Nat /\ l + m = n /\ HasLength(s1, l) /\ HasLength(b, m)
    BY <1>2, <1>4
  <2> HIDE DEF l, m
  <2>2. IsJoined(Then(s1, b), s1, l, b, m)
    BY <2>1, ThenJoins
  <2> QED
    BY <2>1, <2>2 DEF l, m, s2, IsJoined
<1>6. s2[1] = Tag("recursion") /\ s2[2] = Number(n0)
  <2>1. 1 \in 1 .. 2 + n0 /\ 2 \in 1 .. 2 + n0 /\ 1 \in 1 .. 1 + n0 /\ 1 + 1 = 2
    OBVIOUS
  <2> QED
    BY <1>1, <1>2, <1>4, <1>5, <2>1
<1>7. ASSUME NEW i \in 1 .. n0
      PROVE  s2[2 + i] = Ciphertext(f[i - 1], k)
  <2> DEFINE j == 1 + i
             x == 2 + i
  <2>1. j \in 1 .. 1 + n0 /\ x \in 1 .. 2 + n0 /\ 1 + j = x
    OBVIOUS
  <2>2. a[j] = Ciphertext(f[i - 1], k)
    BY <1>2
  <2> HIDE DEF j, x
  <2>3. s1[1 + j] = a[j] /\ s2[x] = s1[x]
    BY <1>4, <1>5, <2>1
  <2> QED
    BY <2>1, <2>2, <2>3 DEF x
<1>8. s2[3 + n0] = Number(n1)
  <2>1. 1 \in 1 .. 1 + n1 /\ 2 + n0 + 1 = 3 + n0
    OBVIOUS
  <2>2. s2[2 + n0 + 1] = b[1]
    BY <1>5, <2>1
  <2> QED
    BY <1>2, <2>1, <2>2
<1>9. ASSUME NEW i \in 1 .. n1
      PROVE  s2[3 + n0 + i] = Ciphertext(g[i - 1], k)
  <2>1. 1 + i \in 1 .. 1 + n1 /\ 2 + n0 + (1 + i) = 3 + n0 + i
    OBVIOUS
  <2>2. s2[2 + n0 + (1 + i)] = b[1 + i]
    BY <1>5, <2>1
  <2> QED
    BY <1>2, <2>1, <2>2
<1>10. HoldsResponse(s2, f, g, n0, n1, k)
  BY <1>5, <1>6, <1>7, <1>8, <1>9 DEF HoldsResponse
<1> QED
  BY <1>3, <1>10

\* What is numbered from 0 on
NumberedTo(f, n) == f = [i \in 0 .. n - 1 |-> f[i]]

\* The client reads both parts of a response.
Arrives(f, g, n0, n1, k) ==
  ReadRecursionResponse(WriteRecursionResponse(f, g, n0, n1, k), n0, n1) = [resp1 |-> f, resp2 |-> g]

\* A response that has the expected numbers of ciphertexts is read as it was written.
LEMMA ResponseRead ==
  ASSUME NEW n0 \in Nat, NEW n1 \in Nat, NEW k, NEW f, NEW g,
         NumberedTo(f, n0), NumberedTo(g, n1)
  PROVE  Arrives(f, g, n0, n1, k)
<1> DEFINE s == WriteRecursionResponse(f, g, n0, n1, k)
           n == 3 + n0 + n1
<1>1. /\ HasLength(s, n) /\ s[1] = Tag("recursion")
      /\ s[2] = Number(n0) /\ s[3 + n0] = Number(n1)
      /\ \A i \in 1 .. n0 : s[2 + i] = Ciphertext(f[i - 1], k)
      /\ \A i \in 1 .. n1 : s[3 + n0 + i] = Ciphertext(g[i - 1], k)
  <2>1. HoldsResponse(s, f, g, n0, n1, k)
    BY ResponseIs
  <2> HIDE DEF s
  <2> QED
    BY <2>1, Zenon DEF HoldsResponse
<1> HIDE DEF s
<1>2. n \in Nat
  OBVIOUS
<1> HIDE DEF n
<1>3. Len(s) = n
  BY <1>1, <1>2, LengthOf
<1>4. n = 3 + n0 + n1
  BY DEF n
<1>5. s[2].value = n0 /\ s[3 + n0].value = n1 /\ After(s, 2) = 3 + n0
  <2>1. s[2].value = n0 /\ s[3 + n0].value = n1
    BY <1>1 DEF Number
  <2> QED
    BY <2>1 DEF After
<1>6. IsTagged(s, "recursion")
  BY <1>1, <1>3, <1>4 DEF IsTagged, Tag
<1>7. \A at \in 1 .. n : s[at].kind = "number" => Continues(s, at, <<"number">>)
  BY <1>3, <1>4 DEF Continues
<1>8. ASSUME NEW at \in Nat, NEW len \in Nat, NEW kind, at + len <= n + 1,
             \A i \in 1 .. len : s[at + i - 1].kind = kind
      PROVE  Continues(s, at, Repeat(kind, len))
  <2>1. DOMAIN Repeat(kind, len) = 1 .. len /\ Len(Repeat(kind, len)) = len
        /\ \A i \in 1 .. len : Repeat(kind, len)[i] = kind
    BY RepeatIs DEF Repeat
  <2> QED
    BY <1>3, <1>4, <1>8, <2>1 DEF Continues
<1>9. Announces(s, 2, "ciphertext", n0)
  <2>1. \A i \in 1 .. n0 : s[3 + i - 1].kind = "ciphertext"
    <3> SUFFICES ASSUME NEW i \in 1 .. n0
                 PROVE  s[3 + i - 1].kind = "ciphertext"
      OBVIOUS
    <3>1. 3 + i - 1 = 2 + i
      OBVIOUS
    <3>2. s[2 + i] = Ciphertext(f[i - 1], k)
      BY <1>1
    <3>3. s[2 + i].kind = "ciphertext"
      BY <3>2 DEF Ciphertext
    <3> QED
      BY <3>1, <3>3
  <2>2. Continues(s, 3, Repeat("ciphertext", n0))
    <3>1. 3 \in Nat /\ 3 + n0 <= n + 1
      BY <1>4
    <3> QED
      BY <1>8, <2>1, <3>1
  <2>3. Continues(s, 2, <<"number">>)
    BY <1>4, <1>1, <1>7 DEF Number
  <2> QED
    BY <1>5, <2>2, <2>3 DEF Announces, CountFits
<1>10. Announces(s, 3 + n0, "ciphertext", n1)
  <2> DEFINE at == 3 + n0
  <2>1. \A i \in 1 .. n1 : s[at + 1 + i - 1].kind = "ciphertext"
    <3> SUFFICES ASSUME NEW i \in 1 .. n1
                 PROVE  s[at + 1 + i - 1].kind = "ciphertext"
      OBVIOUS
    <3>1. at + 1 + i - 1 = 3 + n0 + i
      OBVIOUS
    <3>2. s[3 + n0 + i] = Ciphertext(g[i - 1], k)
      BY <1>1
    <3>3. s[3 + n0 + i].kind = "ciphertext"
      BY <3>2 DEF Ciphertext
    <3> QED
      BY <3>1, <3>3
  <2>2. at \in Nat /\ at + 1 \in Nat /\ at + 1 + n1 <= n + 1 /\ at \in 1 .. n
    BY <1>4
  <2>3. s[at].kind = "number" /\ s[at].value = n1
    BY <1>1 DEF Number
  <2> HIDE DEF at
  <2>4. Continues(s, at + 1, Repeat("ciphertext", n1))
    BY <1>8, <2>1, <2>2
  <2>5. Continues(s, at, <<"number">>)
    BY <1>7, <2>2, <2>3
  <2>6. Announces(s, at, "ciphertext", n1)
    BY <2>3, <2>4, <2>5 DEF Announces, CountFits
  <2> QED
    BY <2>6 DEF at
<1>11. Values(s, 2) = f
  <2>1. \A i \in 0 .. n0 - 1 : s[2 + 1 + i].value = f[i]
    <3> SUFFICES ASSUME NEW i \in 0 .. n0 - 1
                 PROVE  s[2 + 1 + i].value = f[i]
      OBVIOUS
    <3>1. i + 1 \in 1 .. n0 /\ 2 + (i + 1) = 2 + 1 + i /\ (i + 1) - 1 = i
      OBVIOUS
    <3>2. s[2 + (i + 1)] = Ciphertext(f[(i + 1) - 1], k)
      BY <1>1, <3>1
    <3> QED
      BY <3>1, <3>2 DEF Ciphertext
  <2>2. Values(s, 2) = [i \in 0 .. n0 - 1 |-> s[2 + 1 + i].value]
    BY <1>5 DEF Values
  <2> QED
    BY <2>1, <2>2 DEF NumberedTo
<1>12. Values(s, 3 + n0) = g
  <2>1. \A i \in 0 .. n1 - 1 : s[3 + n0 + 1 + i].value = g[i]
    <3> SUFFICES ASSUME NEW i \in 0 .. n1 - 1
                 PROVE  s[3 + n0 + 1 + i].value = g[i]
      OBVIOUS
    <3>1. i + 1 \in 1 .. n1 /\ 3 + n0 + (i + 1) = 3 + n0 + 1 + i /\ (i + 1) - 1 = i
      OBVIOUS
    <3>2. s[3 + n0 + (i + 1)] = Ciphertext(g[(i + 1) - 1], k)
      BY <1>1, <3>1
    <3> QED
      BY <3>1, <3>2 DEF Ciphertext
  <2>2. Values(s, 3 + n0) = [i \in 0 .. n1 - 1 |-> s[3 + n0 + 1 + i].value]
    BY <1>5 DEF Values
  <2> QED
    BY <2>1, <2>2 DEF NumberedTo
<1>13. ReadRecursionResponse(s, n0, n1) = [resp1 |-> f, resp2 |-> g]
  BY <1>5, <1>6, <1>9, <1>10, <1>11, <1>12 DEF ReadRecursionResponse
<1> QED
  BY <1>13 DEF s, Arrives

-----------------------------------------------------------------------------
(* Numbers from their digits *)

\* What a division of a by b gives
Divided(a, b, q, r) == a \div b = q /\ a % b = r

\* The same, of numbers that are known.
LEMMA DividedIs ==
  ASSUME NEW a \in Int, NEW b \in Nat \ {0}, NEW q \in Int, NEW r \in 0 .. b - 1, a = b * q + r
  PROVE  Divided(a, b, q, r)
<1>1. a \div b = q /\ a % b = r
  BY QuotientIs
<1> QED
  BY <1>1 DEF Divided

\* A digit is its word, modulo the word's size.
LEMMA WordOfDigit ==
  ASSUME NEW r \in 0 .. Word - 1
  PROVE  AsWord(r) % Word = r
<1> DEFINE w == Word
           c == Carry(r)
           a == AsWord(r)
<1>1. w \in Nat \ {0} /\ r \in Int /\ r \in 0 .. w - 1
  BY PowersAre
<1>2. a \in Int /\ c \in Int /\ r = w * c + a
  <2> DEFINE half == Word \div 2
  <2>1. half \in Nat \ {0} /\ Word = 2 * half
    BY PowersAre
  <2> HIDE DEF half
  <2> QED
    BY <1>1, <2>1, CarryAndDigit
<1> HIDE DEF a, c, w
<1>3. w * (-c) = -(w * c) /\ w * c \in Int
  BY <1>1, <1>2, SMT
<1> DEFINE k == -c
<1>4. k \in Int /\ a = w * k + r
  BY <1>1, <1>2, <1>3
<1> HIDE DEF k
<1>5. Divided(a, w, k, r)
  BY <1>1, <1>2, <1>4, DividedIs
<1> QED
  BY <1>5 DEF Divided, a, w

\* Dividing twice is dividing by the product.
LEMMA QuotientTwice ==
  ASSUME NEW v \in Nat, NEW p \in Nat \ {0}, NEW w \in Nat \ {0}
  PROVE  v \div (w * p) = (v \div p) \div w
<1> DEFINE a == v \div p
           r == v % p
           b == a \div w
           s == a % w
<1>1. a \in Nat /\ r \in 0 .. p - 1 /\ v = p * a + r
  BY Quotient
<1> HIDE DEF a, r
<1>2. b \in Nat /\ s \in 0 .. w - 1 /\ a = w * b + s
  BY <1>1, Quotient
<1> HIDE DEF b, s
<1> DEFINE m == w * p
           z == p * s + r
<1>3. m \in Nat \ {0} /\ p * a = m * b + p * s /\ m * b \in Int /\ p * s \in Nat
  <2>1. m \in Nat \ {0}
    BY SMT
  <2>2. p * a = p * (w * b) + p * s
    BY <1>1, <1>2, SMT
  <2>3. p * (w * b) = m * b
    BY <1>2, SMT
  <2>4. m * b \in Int /\ p * s \in Nat
    BY <1>2, <2>1, SMT
  <2> QED
    BY <2>1, <2>2, <2>3, <2>4
<1>4. p * s + p <= m
  <2>1. p * (s + 1) = p * s + p
    BY <1>2, SMT
  <2>2. s + 1 <= w /\ s + 1 \in Nat
    BY <1>2
  <2>3. p * (s + 1) <= p * w
    BY <1>2, <2>2, SMT
  <2>4. p * w = m
    BY SMT
  <2> QED
    BY <2>1, <2>3, <2>4
<1> HIDE DEF m
<1>5. z \in 0 .. m - 1
  BY <1>1, <1>3, <1>4
<1>6. v = m * b + z
  BY <1>1, <1>3
<1> HIDE DEF z
<1>7. v \div m = b
  BY <1>2, <1>3, <1>5, <1>6, QuotientIs
<1> QED
  BY <1>7 DEF m, b, a

\* What is left of a payload above a word is the word and what is above that.
LEMMA NextWord ==
  ASSUME NEW v \in Nat, NEW k \in 0 .. Words - 1
  PROVE  /\ v \div Word ^ k = (v \div Word ^ (k + 1)) * Word + (EncodeWords(v)[k] % Word)
         /\ v \div Word ^ k \in Nat
<1> DEFINE p == Word ^ k
           w == Word
           a == v \div p
           q == a \div w
           r == a % w
<1>1. p \in Nat \ {0} /\ w \in Nat \ {0} /\ Word ^ (k + 1) = w * p
  <2>1. k \in 0 .. Words
    BY CodecAssumption
  <2> QED
    BY <2>1, PowersAre
<1>2. EncodeWords(v)[k] = AsWord(r)
  BY DEF EncodeWords
<1> HIDE DEF p
<1>3. a \in Nat
  BY <1>1, Quotient
<1>4. v \div (w * p) = q
  BY <1>1, QuotientTwice
<1> HIDE DEF a
<1>5. q \in Nat /\ r \in 0 .. w - 1 /\ a = w * q + r
  BY <1>1, <1>3, Quotient
<1> HIDE DEF q, r
<1>6. AsWord(r) % w = r
  BY <1>5, WordOfDigit
<1> HIDE DEF w
<1>7. w * q = q * w /\ q * w \in Int
  BY <1>1, <1>5, SMT
<1>8. a = q * w + r
  BY <1>5, <1>7
<1>9. a = (v \div Word ^ (k + 1)) * w + (EncodeWords(v)[k] % w)
  BY <1>1, <1>2, <1>4, <1>6, <1>8
<1> QED
  BY <1>3, <1>9 DEF a, p, w

\* A payload's digits are decoded to the payload.
LEMMA DecodedIs ==
  ASSUME NEW v \in 0 .. Word ^ Words - 1, NEW digits,
         \A k \in 0 .. Words - 1 : digits[k] = EncodeWords(v)[k]
  PROVE  DecodeWords(digits) = v
<1> DEFINE adds(s) == [k \in 0 .. Words |->
                         IF k = Words THEN 0 ELSE s[k + 1] * Word + (digits[k] % Word)]
           acc == CHOOSE s : s = adds(s)
           w == [k \in 0 .. Words |-> v \div Word ^ k]
           S == {i \in 0 .. Words : acc[Words - i] = w[Words - i]}
<1>1. Words \in Nat /\ Word ^ Words \in Nat \ {0} /\ v \in Nat /\ Word ^ 0 = 1
  <2>1. Words \in Nat /\ Words \in 0 .. Words
    BY CodecAssumption
  <2> QED
    BY <2>1, PowersAre
<1>2. \A k \in 0 .. Words - 1 : w[k] = w[k + 1] * Word + (digits[k] % Word)
  <2>1. ASSUME NEW k \in 0 .. Words - 1
        PROVE  w[k] = w[k + 1] * Word + (digits[k] % Word)
    <3>1. v \div Word ^ k = (v \div Word ^ (k + 1)) * Word + (EncodeWords(v)[k] % Word)
      BY <1>1, NextWord
    <3>2. w[k] = v \div Word ^ k /\ w[k + 1] = v \div Word ^ (k + 1)
      BY <1>1
    <3> HIDE DEF w
    <3> QED
      BY <3>1, <3>2
  <2> HIDE DEF w
  <2> QED
    BY <2>1
<1>3. w[Words] = 0 /\ w[0] = v
  <2> DEFINE m == Word ^ Words
  <2>1. v \div m = 0
    <3>1. m \in Nat \ {0} /\ v \in 0 .. m - 1 /\ v \in Int
      BY <1>1
    <3> HIDE DEF m
    <3>2. v = m * 0 + v
      BY <3>1, SMT
    <3> QED
      BY <3>1, <3>2, QuotientIs
  <2>2. v \div 1 = v
    BY <1>1
  <2> QED
    BY <1>1, <2>1, <2>2
<1>4. w = adds(w)
  <2>1. \A k \in 0 .. Words : k # Words => k \in 0 .. Words - 1
    BY <1>1
  <2>2. \A k \in 0 .. Words :
          w[k] = IF k = Words THEN 0 ELSE w[k + 1] * Word + (digits[k] % Word)
    <3> HIDE DEF w
    <3> QED
      BY <1>2, <1>3, <2>1
  <2>3. w = [k \in 0 .. Words |-> w[k]]
    OBVIOUS
  <2> HIDE DEF w
  <2> QED
    BY <2>2, <2>3
<1>5. acc = adds(acc)
  <2> HIDE DEF w, adds
  <2> QED
    BY <1>4
<1>6. DecodeWords(digits) = acc[0]
  BY DEF DecodeWords
<1>7. acc[Words] = 0 /\ \A k \in 0 .. Words - 1 : acc[k] = acc[k + 1] * Word + (digits[k] % Word)
  <2>1. \A k \in 0 .. Words :
          acc[k] = IF k = Words THEN 0 ELSE acc[k + 1] * Word + (digits[k] % Word)
    <3> HIDE DEF acc
    <3> QED
      BY <1>5
  <2> HIDE DEF acc
  <2> QED
    BY <1>1, <2>1
<1> HIDE DEF acc, w
<1>8. 0 \in S
  BY <1>1, <1>3, <1>7
<1>9. ASSUME NEW i \in 0 .. Words - 1, i \in S
      PROVE  i + 1 \in S
  <2> DEFINE k == Words - (i + 1)
  <2>1. k \in 0 .. Words - 1 /\ k + 1 = Words - i /\ i + 1 \in 0 .. Words
    BY <1>1
  <2>2. acc[k + 1] = w[k + 1]
    BY <1>9, <2>1
  <2>3. acc[k] = w[k]
    <3> HIDE DEF k
    <3> QED
      BY <1>2, <1>7, <2>1, <2>2
  <2> QED
    BY <2>1, <2>3
<1> HIDE DEF S
<1>10. 0 .. Words \subseteq S
  BY <1>1, <1>8, <1>9, StepsReachAll
<1>11. Words \in S
  BY <1>1, <1>10
<1>12. acc[Words - Words] = w[Words - Words] /\ Words - Words = 0
  BY <1>1, <1>11 DEF S
<1> QED
  BY <1>3, <1>6, <1>12

\* A scaled digit is read from the torus whatever multiples of the modulus it is off.
LEMMA TorusDigit ==
  ASSUME NEW d \in Digit, NEW x \in Int, Congruent(x, d * Word, QTilde)
  PROVE  RoundDiv(CentredTorus(x, Tau * WordBits), Word ^ (Tau - 1)) = d
<1> DEFINE w == Word
           h == Word \div 2
           m == QTilde
           half == h * w
           a == d * w
           r == x % m
           y == CentredTorus(x, Tau * WordBits)
<1>1. h \in Nat \ {0} /\ w = 2 * h /\ w \in Nat \ {0} /\ w \div 2 = h
  BY PowersAre
<1>2. m = w * w /\ d \in -h .. h - 1 /\ d \in Int
  <2>1. m = w * w
    BY PowersAre
  <2> QED
    BY <1>1, <2>1 DEF Digit
<1>3. y = IF r >= half THEN r - m ELSE r
  <2>1. 2 ^ (Tau * WordBits) = m /\ 2 ^ (Tau * WordBits - 1) = half
    BY PowersAre
  <2> HIDE DEF half, m
  <2> QED
    BY <2>1 DEF CentredTorus
<1>4. Word ^ (Tau - 1) = w
  <2>1. Tau - 1 = 1
    BY DEF Tau
  <2> QED
    BY <2>1, PowersAre
<1> HIDE DEF w, h, m
<1>5. PICK z \in Int : x = a + m * z
  BY DEF Congruent, w, m
<1>6. half \in Nat /\ m = 2 * half /\ m \in Nat \ {0} /\ a \in Int /\ a >= -half /\ a < half
  <2>1. half \in Nat /\ a \in Int /\ w * w = 2 * half
    BY <1>1, <1>2, SMT
  <2>2. half # 0
    BY <1>1, SMT
  <2>3. a >= (-h) * w /\ (-h) * w = -half
    BY <1>1, <1>2, SMT
  <2>4. a <= (h - 1) * w /\ (h - 1) * w = half - w
    BY <1>1, <1>2, SMT
  <2> HIDE DEF half, a
  <2> QED
    BY <1>1, <1>2, <2>1, <2>2, <2>3, <2>4
<1> HIDE DEF half
<1>7. y = a
  <2>1. CASE a >= 0
    <3>1. a \in 0 .. m - 1 /\ x = m * z + a
      <4>1. m * z \in Int
        BY <1>5, <1>6, IntProduct
      <4> HIDE DEF a
      <4> QED
        BY <1>5, <1>6, <2>1, <4>1
    <3> HIDE DEF a
    <3>2. r = a
      BY <1>5, <1>6, <3>1, QuotientIs
    <3> QED
      BY <1>3, <1>6, <3>2
  <2>2. CASE a < 0
    <3> DEFINE k == z - 1
               b == a + m
    <3>1. b \in 0 .. m - 1 /\ k \in Int
      <4> HIDE DEF a
      <4> QED
        BY <1>5, <1>6, <2>2
    <3>2. m * k = m * z - m /\ m * z \in Int
      BY <1>5, <1>6, SMT
    <3>3. x = m * k + b
      <4> HIDE DEF a, k
      <4> QED
        BY <1>5, <1>6, <3>2
    <3> HIDE DEF a, k
    <3>4. r = b
      <4> HIDE DEF b
      <4> QED
        BY <1>5, <1>6, <3>1, <3>3, QuotientIs
    <3> QED
      BY <1>3, <1>6, <2>2, <3>4
  <2> QED
    BY <1>6, <2>1, <2>2
<1> HIDE DEF y
<1>8. RoundDiv(a, w) = d
  <2>1. CASE a < 0
    <3> DEFINE k == -d
               v == h - a
    <3>1. w * k = -a /\ k \in Int /\ v \in Int
      BY <1>1, <1>2, SMT
    <3>2. v = w * k + h /\ h \in 0 .. w - 1
      BY <1>1, <1>6, <3>1
    <3>3. RoundDiv(a, w) = -(v \div w)
      BY <1>1, <2>1 DEF RoundDiv
    <3> HIDE DEF k, v
    <3>4. v \div w = k
      BY <1>1, <3>1, <3>2, QuotientIs
    <3> QED
      BY <1>2, <3>3, <3>4 DEF k
  <2>2. CASE a >= 0
    <3> DEFINE v == a + h
    <3>1. w * d = a /\ v \in Int
      BY <1>1, <1>2, SMT
    <3>2. v = w * d + h /\ h \in 0 .. w - 1
      BY <1>1, <1>6, <3>1
    <3>3. RoundDiv(a, w) = v \div w
      BY <1>1, <1>6, <2>2 DEF RoundDiv
    <3> HIDE DEF v
    <3>4. v \div w = d
      BY <1>1, <1>2, <3>1, <3>2, QuotientIs
    <3> QED
      BY <3>3, <3>4
  <2> QED
    BY <1>6, <2>1, <2>2
<1> QED
  BY <1>4, <1>7, <1>8 DEF y

-----------------------------------------------------------------------------
(* Polynomials that agree *)

\* The numbers of two polynomials agree.
PolysCongruent(a, b) ==
  \A i \in Coef : a[i] \in Int /\ b[i] \in Int /\ Congruent(a[i], b[i], QTilde)

\* So do their coefficients of other exponents.
LEMMA AtCongruent ==
  ASSUME NEW s, NEW u, PolysCongruent(s, u), NEW e \in Int
  PROVE  Congruent(Ring!At(s, e), Ring!At(u, e), QTilde)
<1> DEFINE r == e % (2 * N)
<1>1. N \in Nat \ {0} /\ 2 * N \in Nat \ {0}
  BY WireAssumption
<1>2. r \in 0 .. 2 * N - 1
  BY <1>1, IntQuotient
<1>3. /\ Ring!At(s, e) = IF r < N THEN s[r] ELSE (-s[r - N]) % QTilde
      /\ Ring!At(u, e) = IF r < N THEN u[r] ELSE (-u[r - N]) % QTilde
  BY DEF Ring!At
<1> HIDE DEF r
<1>4. CASE r < N
  <2>1. r \in Coef
    BY <1>1, <1>2, <1>4 DEF Coef
  <2>2. Congruent(s[r], u[r], QTilde)
    BY <2>1 DEF PolysCongruent
  <2>3. Ring!At(s, e) = s[r] /\ Ring!At(u, e) = u[r]
    BY <1>3, <1>4
  <2> QED
    BY <2>2, <2>3
<1>5. CASE ~(r < N)
  <2> DEFINE i == r - N
             x == -s[i]
             y == -u[i]
  <2>1. i \in Coef
    BY <1>1, <1>2, <1>5 DEF Coef
  <2>2. x \in Int /\ y \in Int /\ Congruent(x, y, QTilde) /\ QTilde \in Nat \ {0}
    <3>1. s[i] \in Int /\ u[i] \in Int /\ Congruent(s[i], u[i], QTilde)
      BY <2>1 DEF PolysCongruent
    <3>2. QTilde \in Int /\ QTilde \in Nat \ {0}
      BY QTildeIs
    <3> HIDE DEF i
    <3> QED
      BY <3>1, <3>2, CongruentMinus
  <2>3. Ring!At(s, e) = x % QTilde /\ Ring!At(u, e) = y % QTilde
    BY <1>3, <1>5
  <2> HIDE DEF x, y
  <2>4. /\ Congruent(x % QTilde, x, QTilde) /\ (x % QTilde) \in Int
        /\ Congruent(y, y % QTilde, QTilde) /\ (y % QTilde) \in Int
    BY <2>2, CongruentRest
  <2> DEFINE v == x % QTilde
             z == y % QTilde
  <2>5. Congruent(v, x, QTilde) /\ v \in Int /\ Congruent(y, z, QTilde) /\ z \in Int
    BY <2>4
  <2> HIDE DEF v, z
  <2>6. Congruent(v, y, QTilde)
    BY <2>2, <2>5, CongruentTrans
  <2>7. Congruent(v, z, QTilde)
    BY <2>2, <2>5, <2>6, CongruentTrans
  <2> QED
    BY <2>3, <2>7 DEF v, z
<1> QED
  BY <1>4, <1>5

\* A mask's part of a ciphertext depends on residues only.
LEMMA MaskTermsCongruent ==
  ASSUME NEW a, NEW b, PolysCongruent(a, b), NEW s, NEW u, PolysCongruent(s, u), NEW c \in Int
  PROVE  /\ Congruent(MaskTerm(a, s, c), MaskTerm(b, u, c), QTilde)
         /\ MaskTerm(a, s, c) \in Int /\ MaskTerm(b, u, c) \in Int
<1> DEFINE f == [i \in 0 .. N - 1 |-> a[i] * Ring!At(s, c - i)]
           g == [i \in 0 .. N - 1 |-> b[i] * Ring!At(u, c - i)]
<1>1. N \in Nat /\ Coef = 0 .. N - 1 /\ QTilde \in Int
  BY WireAssumption, QTildeIs DEF Coef
<1>2. /\ \A i \in Coef : a[i] \in Int /\ b[i] \in Int /\ Congruent(a[i], b[i], QTilde)
      /\ \A i \in Coef : s[i] \in Int /\ u[i] \in Int
  BY DEF PolysCongruent
<1>3. ASSUME NEW i \in 0 .. N - 1
      PROVE  f[i] \in Int /\ g[i] \in Int /\ Congruent(f[i], g[i], QTilde)
  <2> DEFINE e == c - i
             x == Ring!At(s, e)
             y == Ring!At(u, e)
  <2>1. e \in Int
    BY <1>1
  <2> HIDE DEF e
  <2>2. x \in Int /\ y \in Int
    BY <1>2, <2>1, AtIs
  <2>3. Congruent(x, y, QTilde)
    BY <2>1, AtCongruent
  <2> HIDE DEF x, y
  <2>4. a[i] \in Int /\ b[i] \in Int /\ Congruent(a[i], b[i], QTilde)
    BY <1>1, <1>2
  <2>5. a[i] * x \in Int /\ b[i] * y \in Int /\ Congruent(a[i] * x, b[i] * y, QTilde)
    BY <1>1, <2>2, <2>3, <2>4, IntProduct, CongruentProduct
  <2>6. f[i] = a[i] * x /\ g[i] = b[i] * y
    BY DEF x, y, e
  <2> HIDE DEF f, g
  <2> QED
    BY <2>5, <2>6
<1>4. MaskTerm(a, s, c) = Sum(f, N) /\ MaskTerm(b, u, c) = Sum(g, N)
  BY MaskTermIs
<1> HIDE DEF f, g
<1>5. Congruent(Sum(f, N), Sum(g, N), QTilde)
  BY <1>1, <1>3, SumsCongruent
<1>6. MaskTerm(a, s, c) \in Int /\ MaskTerm(b, u, c) \in Int
  BY <1>2, MaskTermIsInt
<1> QED
  BY <1>4, <1>5, <1>6

\* A body put together again, with its mask's part, is the scaled digit.
LEMMA BodyAndMask ==
  ASSUME NEW d \in Int, NEW m \in Int, NEW n \in Int, NEW x \in Int,
         Congruent(x, (d * Word - m) % QTilde, QTilde), Congruent(n, m, QTilde)
  PROVE  Congruent(x + n, d * Word, QTilde)
<1> DEFINE a == d * Word
           y == a - m
           r == y % QTilde
<1>1. QTilde \in Nat \ {0} /\ QTilde \in Int /\ Word \in Int
  BY QTildeIs
<1>2. a \in Int /\ Congruent(x, r, QTilde)
  BY <1>1, IntProduct
<1> HIDE DEF a
<1>3. y \in Int /\ y + m = a
  BY <1>2
<1> HIDE DEF y
<1>4. Congruent(r, y, QTilde) /\ r \in Int
  BY <1>1, <1>3, CongruentRest
<1> HIDE DEF r
<1>5. Congruent(x, y, QTilde)
  BY <1>1, <1>2, <1>3, <1>4, CongruentTrans
<1>6. Congruent(x + n, y + m, QTilde)
  BY <1>1, <1>3, <1>5, CongruentSum
<1> QED
  BY <1>3, <1>6 DEF a

-----------------------------------------------------------------------------
(* What the client recovers *)

\* Functions into the integers, of no more numbers than there are digits, are not nonsense.
LEMMA NotNonsense ==
  ASSUME NEW n \in 1 .. N * Tau, NEW f, \A i \in 0 .. n - 1 : f[i] \in Int,
         f = [i \in 0 .. n - 1 |-> f[i]]
  PROVE  f # Nonsense
<1>1. f \in [0 .. n - 1 -> Int]
  OBVIOUS
<1> QED
  BY <1>1, NonsenseAssumption

\* A column of a digit database, as its ciphertexts hold it
ColumnOf(data, h, k) == [i \in 0 .. h - 1 |-> data[i][k]]

\* What selection makes of a database's ciphertexts is unpacked to the column.
LEMMA SelectedUnpacks ==
  ASSUME NEW k \in 0 .. t - 1, NEW h \in 1 .. N * Tau, NEW data, DigitDatabase(data, h),
         NEW gamma \in 1 .. N
  PROVE  /\ Unpacked(Selected(data, gamma, k), gamma, h) = ColumnOf(data, h, k)
         /\ ColumnOf(data, h, k) # Nonsense
         /\ \A i \in 0 .. h - 1 : ColumnOf(data, h, k)[i] \in Digit
         /\ DOMAIN Selected(data, gamma, k) = 0 .. CeilDiv(h, gamma) - 1
<1> DEFINE total == CeilDiv(h, gamma)
           r == Selected(data, gamma, k)
           col == ColumnOf(data, h, k)
<1>1. N \in Nat \ {0} /\ N * Tau \in Nat /\ gamma \in 1 .. N * Tau /\ h \in Nat
      /\ gamma \in Nat \ {0}
  BY WireAssumption DEF Tau
<1>2. total \in Nat /\ \A i \in 0 .. h - 1 :
        i \div gamma \in 0 .. total - 1 /\ (i % gamma) \in 0 .. gamma - 1
        /\ i = (i \div gamma) * gamma + (i % gamma)
  BY <1>1, GroupsHold
<1>3. DOMAIN data = 0 .. h - 1 /\ \A i \in 0 .. h - 1 : data[i][k] \in Digit
  BY DEF DigitDatabase
<1>4. Cardinality(DOMAIN data) = h
  BY <1>1, <1>3, Interval
<1>5. r = [m \in 0 .. total - 1 |-> [j \in 0 .. gamma - 1 |->
             IF m * gamma + j \in DOMAIN data THEN data[m * gamma + j][k] ELSE 0]]
  <2>1. r = [m \in 0 .. CeilDiv(Cardinality(DOMAIN data), gamma) - 1 |-> [j \in 0 .. gamma - 1 |->
               IF m * gamma + j \in DOMAIN data THEN data[m * gamma + j][k] ELSE 0]]
    BY DEF Selected
  <2>2. CeilDiv(Cardinality(DOMAIN data), gamma) = total
    BY <1>4
  <2> HIDE DEF r, total
  <2> QED
    BY <2>1, <2>2
<1> HIDE DEF r, total
<1>6. DOMAIN r = 0 .. total - 1
  BY <1>5
<1>7. \A x \in Digit : x \in Int
  BY PowersAre DEF Digit
<1>8. ASSUME NEW m \in 0 .. total - 1
      PROVE  r[m] # Nonsense
  <2> DEFINE v(j) == IF m * gamma + j \in DOMAIN data THEN data[m * gamma + j][k] ELSE 0
             f == [j \in 0 .. gamma - 1 |-> v(j)]
  <2>1. r[m] = f
    BY <1>5
  <2>2. \A j \in 0 .. gamma - 1 : v(j) \in Int
    BY <1>3, <1>7
  <2> HIDE DEF v
  <2>3. \A j \in 0 .. gamma - 1 : f[j] \in Int
    BY <2>2
  <2>4. f = [j \in 0 .. gamma - 1 |-> f[j]]
    OBVIOUS
  <2> HIDE DEF f
  <2>5. f # Nonsense
    BY <1>1, <2>3, <2>4, NotNonsense
  <2> QED
    BY <2>1, <2>5
<1>9. ASSUME NEW i \in 0 .. h - 1
      PROVE  r[i \div gamma][i % gamma] = data[i][k]
  <2> DEFINE m == i \div gamma
             j == i % gamma
  <2>1. m \in 0 .. total - 1 /\ j \in 0 .. gamma - 1 /\ m * gamma + j = i
    BY <1>2
  <2> HIDE DEF m, j
  <2>2. r[m][j] = IF m * gamma + j \in DOMAIN data THEN data[m * gamma + j][k] ELSE 0
    BY <1>5, <2>1
  <2>3. r[m][j] = data[i][k]
    BY <1>3, <2>1, <2>2
  <2> QED
    BY <2>3 DEF m, j
<1>10. col = [i \in 0 .. h - 1 |-> data[i][k]]
  BY DEF ColumnOf
<1> HIDE DEF col
<1>11. \A i \in 0 .. h - 1 : col[i] \in Digit
  BY <1>3, <1>10
<1>12. Unpacked(r, gamma, h) = [i \in 0 .. h - 1 |-> r[i \div gamma][i % gamma]]
  BY <1>6, <1>8 DEF Unpacked
<1>13. Unpacked(r, gamma, h) = col
  BY <1>9, <1>10, <1>12
<1>14. col # Nonsense
  <2>1. \A i \in 0 .. h - 1 : col[i] \in Int
    BY <1>7, <1>11
  <2>2. col = [i \in 0 .. h - 1 |-> col[i]]
    BY <1>10
  <2> QED
    BY <2>1, <2>2, NotNonsense
<1> QED
  BY <1>6, <1>11, <1>13, <1>14 DEF r, col, total

\* For a client of this database every grid row is packed.
LEMMA OwnPacked ==
  ASSUME IInv, OfflineInv, OnlineInv, stage = "finish", NEW q \in DOMAIN queries,
         IsOwn(queries[q].client), NEW k \in 0 .. t - 1
  PROVE  PackedL1(q, k) # Nonsense
<1> DEFINE client == queries[q].client
           src == queries[q].query.src0
           key == queries[q].query.keys[0]
           pre == l1Precompute[k]
           body == bodies[q][k]
<1>1. /\ KeyServes(KeyMask(0, call.gamma0), key, client.secret)
      /\ src = OneHotBlocks(client.secret, client.address.column, call.cols, N, RecursionA0, 1)
  BY OwnClient
<1>2. pre = PrecomputeOf(k) /\ body = BodyOf(q, k)
  BY DEF OfflineInv, OnlineInv, Run
<1>3. DOMAIN src = DOMAIN q0Masks
  BY DEF IInv, OnlyWholeMessages
<1> HIDE DEF client, src, key, pre, body
<1>4. \A bl \in DOMAIN src : src[bl].seed = MaskSeed(RecursionA0, bl)
                             /\ src[bl].secret = client.secret
  BY <1>1 DEF OneHotBlocks
<1>5. \A bl \in DOMAIN q0Masks : q0Masks[bl] = MaskSeed(RecursionA0, bl)
  BY DEF q0Masks
<1>6. pre.db = body.db /\ pre.masks = q0Masks /\ pre.key = KeyMask(0, call.gamma0)
  BY <1>2 DEF PrecomputeOf, BodyOf
<1>7. Fits(pre, body.db, src, key)
  BY <1>1, <1>3, <1>4, <1>5, <1>6 DEF Fits, KeyServes
<1> DEFINE v(c) == IF c < call.gamma0 THEN Scaled(q, k, c) ELSE (c + k + 1) % QTilde
           f == [c \in Coef |-> v(c)]
<1>8. PackedL1(q, k) = f
  BY <1>7 DEF PackedL1, Scaled, SecretOf, pre, body, src, key
<1>9. N \in Nat \ {0} /\ N \in 1 .. N * Tau /\ Coef = 0 .. N - 1 /\ t \in Nat /\ call \in Calls
  BY WireAssumption, RowGroupsAre DEF Tau, Coef, IInv
<1>10. ASSUME NEW c \in Coef
       PROVE  v(c) \in Int
  <2>1. CASE c < call.gamma0
    <3>1. c \in 0 .. call.gamma0 - 1
      BY <1>9, <2>1, NumbersOfCall
    <3>2. Scaled(q, k, c) \in Int
      BY <3>1, ScaledIs
    <3> QED
      BY <2>1, <3>2
  <2>2. CASE ~(c < call.gamma0)
    <3> DEFINE x == c + k + 1
    <3>1. x \in Int
      BY <1>9
    <3> HIDE DEF x
    <3>2. (x % QTilde) \in Int
      BY <3>1, CongruentRest, QTildeIs
    <3> QED
      BY <2>2, <3>2 DEF x
  <2> QED
    BY <2>1, <2>2
<1> HIDE DEF v
<1>11. \A c \in 0 .. N - 1 : f[c] \in Int
  BY <1>9, <1>10
<1>12. f = [c \in 0 .. N - 1 |-> f[c]]
  BY <1>9
<1> HIDE DEF f
<1>13. f # Nonsense
  BY <1>9, <1>11, <1>12, NotNonsense
<1> QED
  BY <1>8, <1>13

\* A coefficient put together from a column of digits is the one they were cut from.
LEMMA ColumnRecomposes ==
  ASSUME NEW h \in Nat, NEW data, DigitDatabase(data, h * Tau), NEW k \in 0 .. t - 1,
         NEW c \in 0 .. h - 1, NEW x \in Int, Rebuilds(data, k, c, x)
  PROVE  /\ Recomposed(ColumnOf(data, h * Tau, k), c) \in Int
         /\ Congruent(Recomposed(ColumnOf(data, h * Tau, k), c), x, QTilde)
<1> DEFINE col == ColumnOf(data, h * Tau, k)
           a == Recomposed(col, c)
<1>1. Tau = 2 /\ c \in Nat /\ c * 2 \in 0 .. h * Tau - 1 /\ c * 2 + 1 \in 0 .. h * Tau - 1
  BY DEF Tau
<1>2. DOMAIN data = 0 .. h * Tau - 1 /\ \A d \in 0 .. h * Tau - 1 : data[d][k] \in Digit
  BY DEF DigitDatabase
<1>3. col = [d \in DOMAIN data |-> data[d][k]]
  BY <1>2 DEF ColumnOf
<1>4. (a - x) % QTilde = 0
  BY <1>3 DEF Rebuilds
<1>5. col[c * 2] \in Int /\ col[c * 2 + 1] \in Int
  <2>1. \A y \in Digit : y \in Int
    BY PowersAre DEF Digit
  <2> HIDE DEF col
  <2> QED
    BY <1>1, <1>2, <1>3, <2>1
<1> HIDE DEF col
<1>6. a \in Int
  BY <1>1, <1>5, RecomposedIs
<1> HIDE DEF a
<1>7. Congruent(a, x, QTilde)
  BY <1>4, <1>6, CongruentOfRest, QTildeIs
<1> QED
  BY <1>6, <1>7 DEF a, col

\* What the client has of the masks, of the bodies, and what it decrypts
MaskVals(q) == ColumnOf(maskData, N * Tau, queries[q].client.address.matrix)
BodyVals(q) == ColumnOf(bodyData[q], call.gamma0 * Tau, queries[q].client.address.matrix)
Value(q, c) ==
  Recomposed(BodyVals(q), c)
    + MaskTerm([i \in Coef |-> Recomposed(MaskVals(q), i)], SecretPoly(queries[q].client.secret), c)

\* The digits of the masks are the masks of the grid row, modulo qtilde.
LEMMA MaskIsRebuilt ==
  ASSUME IInv, OfflineInv, stage = "finish", NEW q \in DOMAIN queries,
         NEW k \in 0 .. t - 1, k = queries[q].client.address.matrix
  PROVE  PolysCongruent([i \in Coef |-> Recomposed(MaskVals(q), i)], FinalMask(l1Precompute[k]))
<1> DEFINE mask == [i \in Coef |-> Recomposed(MaskVals(q), i)]
           final == FinalMask(l1Precompute[k])
<1>1. call \in Calls /\ N \in Nat \ {0} /\ Coef = 0 .. N - 1
  BY WireAssumption DEF IInv, Coef
<1>2. DigitDatabase(maskData, N * Tau)
  BY MaskDatabase
<1>3. maskData # <<>>
  <2>1. DOMAIN maskData = 0 .. N * Tau - 1 /\ 0 \in 0 .. N * Tau - 1
    BY <1>1, <1>2 DEF DigitDatabase, Tau
  <2>2. DOMAIN <<>> = {}
    OBVIOUS
  <2> QED
    BY <2>1, <2>2
<1>4. ASSUME NEW i \in Coef
      PROVE  mask[i] \in Int /\ final[i] \in Int /\ Congruent(mask[i], final[i], QTilde)
  <2>1. final[i] \in Int
    <3>1. l1Precompute[k] = PrecomputeOf(k)
      BY DEF OfflineInv
    <3>2. final[i] \in 0 .. QTilde - 1
      BY <1>1, <3>1, FinalMaskIs
    <3> QED
      BY <3>2, QTildeIs
  <2>2. Rebuilds(maskData, k, i, final[i])
    BY <1>3, MasksRebuild
  <2> DEFINE x == final[i]
             a == Recomposed(MaskVals(q), i)
  <2>3. mask[i] = a
    OBVIOUS
  <2>4. MaskVals(q) = ColumnOf(maskData, N * Tau, k)
    BY DEF MaskVals
  <2> HIDE DEF x, mask
  <2>5. a \in Int /\ Congruent(a, x, QTilde)
    <3>1. x \in Int /\ Rebuilds(maskData, k, i, x) /\ N \in Nat /\ i \in 0 .. N - 1
      BY <1>1, <2>1, <2>2 DEF x
    <3> HIDE DEF final
    <3> QED
      BY <1>2, <2>4, <3>1, ColumnRecomposes
  <2> QED
    BY <2>1, <2>3, <2>5 DEF x
<1> QED
  BY <1>4 DEF PolysCongruent

\* A secret is what it is modulo qtilde.
LEMMA SecretsCongruent ==
  ASSUME IInv, stage = "finish", NEW q \in DOMAIN queries
  PROVE  PolysCongruent(SecretPoly(queries[q].client.secret), SecretOf(q))
<1> DEFINE s == SecretPoly(queries[q].client.secret)
           u == SecretOf(q)
<1>1. ASSUME NEW i \in Coef
      PROVE  s[i] \in Int /\ u[i] \in Int /\ Congruent(s[i], u[i], QTilde)
  <2>1. s[i] \in Int
    BY ClientOf, SecretIs
  <2>2. u[i] = s[i] % QTilde
    BY DEF SecretOf
  <2> DEFINE x == s[i]
  <2>3. x \in Int
    BY <2>1
  <2> HIDE DEF x
  <2>4. (x % QTilde) \in Int /\ Congruent(x, x % QTilde, QTilde)
    BY <2>3, CongruentRest, QTildeIs
  <2> QED
    BY <2>1, <2>2, <2>4 DEF x
<1> QED
  BY <1>1 DEF PolysCongruent

\* What the client decrypts is the digit of the grid row, scaled, modulo qtilde.
LEMMA ValueIs ==
  ASSUME IInv, OfflineInv, OnlineInv, stage = "finish", NEW q \in DOMAIN queries,
         IsOwn(queries[q].client), phase[q] \notin {"pack", "decompose"},
         NEW k \in 0 .. t - 1, k = queries[q].client.address.matrix,
         NEW c \in 0 .. call.gamma0 - 1
  PROVE  /\ Value(q, c) \in Int
         /\ Congruent(Value(q, c), BodyOf(q, k).plain[c] * Word, QTilde)
<1> DEFINE d == BodyOf(q, k).plain[c]
           final == FinalMask(l1Precompute[k])
           mask == [i \in Coef |-> Recomposed(MaskVals(q), i)]
           m == MaskTerm(final, SecretOf(q), c)
           n == MaskTerm(mask, SecretPoly(queries[q].client.secret), c)
           x == Recomposed(BodyVals(q), c)
           r == Scaled(q, k, c)
<1>1. call \in Calls /\ call.gamma0 \in Nat /\ c \in Int /\ c \in Coef
  <2>1. call \in Calls
    BY DEF IInv
  <2> QED
    BY <2>1, NumbersOfCall DEF Coef, Positive
<1>2. d \in Int /\ r \in Int /\ m \in Int
  BY BodyDigitIs, ScaledIs
<1>3. r = (d * Word - m) % QTilde
  <2>1. bodies[q][k] = BodyOf(q, k)
    BY DEF OnlineInv, Run
  <2>2. Word ^ (Tau - 1) = Word
    <3>1. Tau - 1 = 1
      BY DEF Tau
    <3> QED
      BY <3>1, PowersAre
  <2> QED
    BY <2>1, <2>2 DEF Scaled
<1>4. Congruent(n, m, QTilde) /\ n \in Int
  <2>1. PolysCongruent(mask, final)
    BY MaskIsRebuilt
  <2>2. PolysCongruent(SecretPoly(queries[q].client.secret), SecretOf(q))
    BY SecretsCongruent
  <2> HIDE DEF mask, final
  <2> QED
    BY <1>1, <2>1, <2>2, MaskTermsCongruent
<1>5. x \in Int /\ Congruent(x, r, QTilde)
  <2>1. PackedL1(q, k) # Nonsense /\ resp0[q][k] = PackedL1(q, k)
    BY OwnPacked DEF OnlineInv, Run
  <2>2. resp0[q][k][c] = r
    BY <1>1, <2>1, PackedL1Is
  <2>3. Rebuilds(bodyData[q], k, c, r)
    BY <2>1, <2>2, BodiesRebuild
  <2>4. DigitDatabase(bodyData[q], call.gamma0 * Tau)
    BY BodyDatabase
  <2>5. BodyVals(q) = ColumnOf(bodyData[q], call.gamma0 * Tau, k)
    BY DEF BodyVals
  <2> HIDE DEF r
  <2> QED
    BY <1>1, <1>2, <2>3, <2>4, <2>5, ColumnRecomposes
<1> HIDE DEF d, m, n, x, r
<1>6. Congruent(x, (d * Word - m) % QTilde, QTilde)
  BY <1>3, <1>5
<1>7. Congruent(x + n, d * Word, QTilde)
  BY <1>2, <1>4, <1>5, <1>6, BodyAndMask
<1>8. Value(q, c) = x + n
  BY DEF Value, x, n
<1> QED
  BY <1>4, <1>5, <1>7, <1>8 DEF d

\* Both parts of an answer as the client unpacks them
LEMMA AnswerUnpacks ==
  ASSUME IInv, OfflineInv, OnlineInv, AnswerInv, stage = "finish", NEW q \in DOMAIN queries,
         IsOwn(queries[q].client), phase[q] = "done"
  PROVE  /\ Unpacked(resp1[q], call.gamma1, N * Tau) = MaskVals(q) /\ MaskVals(q) # Nonsense
         /\ Unpacked(resp2[q], call.gamma2, call.gamma0 * Tau) = BodyVals(q)
         /\ BodyVals(q) # Nonsense
         /\ DOMAIN resp1[q] = 0 .. Resp1Count - 1 /\ DOMAIN resp2[q] = 0 .. Resp2Count - 1
         /\ Resp1Count \in Nat /\ Resp2Count \in Nat
<1> DEFINE k == queries[q].client.address.matrix
<1>1. call \in Calls /\ k \in 0 .. t - 1
  BY OwnClient DEF IInv
<1>2. resp1[q] = Selected(maskData, call.gamma1, k) /\ resp2[q] = Selected(bodyData[q], call.gamma2, k)
  BY DEF AnswerInv, Answers
<1>3. /\ N \in Nat \ {0} /\ Tau = 2 /\ call.gamma0 \in 1 .. N
      /\ call.gamma1 \in 1 .. N /\ call.gamma2 \in 1 .. N
  BY <1>1, NumbersOfCall DEF Tau, Positive
<1>4. /\ MaskVals(q) = ColumnOf(maskData, N * Tau, k)
      /\ BodyVals(q) = ColumnOf(bodyData[q], call.gamma0 * Tau, k)
  BY DEF MaskVals, BodyVals
<1> HIDE DEF k
<1>5. DigitDatabase(maskData, N * Tau) /\ DigitDatabase(bodyData[q], call.gamma0 * Tau)
  BY MaskDatabase, BodyDatabase
<1>6. N * Tau \in 1 .. N * Tau /\ call.gamma0 * Tau \in 1 .. N * Tau
  BY <1>3
<1>7. /\ Unpacked(resp1[q], call.gamma1, N * Tau) = MaskVals(q) /\ MaskVals(q) # Nonsense
      /\ DOMAIN resp1[q] = 0 .. CeilDiv(N * Tau, call.gamma1) - 1
  BY <1>1, <1>2, <1>3, <1>4, <1>5, <1>6, SelectedUnpacks
<1>8. /\ Unpacked(resp2[q], call.gamma2, call.gamma0 * Tau) = BodyVals(q) /\ BodyVals(q) # Nonsense
      /\ DOMAIN resp2[q] = 0 .. CeilDiv(call.gamma0 * Tau, call.gamma2) - 1
  BY <1>1, <1>2, <1>3, <1>4, <1>5, <1>6, SelectedUnpacks
<1>9. /\ Resp1Count = CeilDiv(N * Tau, call.gamma1)
      /\ Resp2Count = CeilDiv(call.gamma0 * Tau, call.gamma2)
  BY DEF Resp1Count, Resp2Count
<1>10. Resp1Count \in Nat /\ Resp2Count \in Nat
  <2>1. /\ N * Tau \in Nat /\ call.gamma1 \in Nat \ {0}
        /\ call.gamma0 * Tau \in Nat /\ call.gamma2 \in Nat \ {0}
    BY <1>3
  <2> QED
    BY <1>9, <2>1, GroupsHold
<1> QED
  BY <1>7, <1>8, <1>9, <1>10

\* The client reads what was answered.
LEMMA ResponseArrives ==
  ASSUME IInv, OfflineInv, OnlineInv, AnswerInv, stage = "finish", NEW q \in DOMAIN queries,
         IsOwn(queries[q].client), phase[q] = "done"
  PROVE  ReadRecursionResponse(Response(q), Resp1Count, Resp2Count)
           = [resp1 |-> resp1[q], resp2 |-> resp2[q]]
<1> DEFINE f == resp1[q]
           g == resp2[q]
           k == Tau * WordBits
           n0 == Resp1Count
           n1 == Resp2Count
<1>1. DOMAIN f = 0 .. n0 - 1 /\ DOMAIN g = 0 .. n1 - 1 /\ n0 \in Nat /\ n1 \in Nat
  BY AnswerUnpacks
<1>2. f = Selected(maskData, call.gamma1, queries[q].client.address.matrix)
      /\ g = Selected(bodyData[q], call.gamma2, queries[q].client.address.matrix)
  BY DEF AnswerInv, Answers
<1>3. f = [i \in DOMAIN f |-> f[i]] /\ g = [i \in DOMAIN g |-> g[i]]
  BY <1>2 DEF Selected
<1> HIDE DEF n0, n1
<1>4. Cardinality(DOMAIN f) = n0 /\ Cardinality(DOMAIN g) = n1
  BY <1>1, Interval
<1>5. Response(q) = WriteRecursionResponse(f, g, n0, n1, k)
  BY <1>4 DEF Response
<1> HIDE DEF f, g, k
<1>6. NumberedTo(f, n0) /\ NumberedTo(g, n1)
  BY <1>1, <1>3 DEF NumberedTo
<1>7. Arrives(f, g, n0, n1, k)
  BY <1>1, <1>6, ResponseRead
<1>8. ReadRecursionResponse(WriteRecursionResponse(f, g, n0, n1, k), n0, n1)
        = [resp1 |-> f, resp2 |-> g]
  BY <1>7, Zenon DEF Arrives
<1> QED
  BY <1>5, <1>8 DEF f, g, n0, n1

\* The client recovers the digits of its column in its grid row.
LEMMA RecordIs ==
  ASSUME IInv, OfflineInv, OnlineInv, AnswerInv, stage = "finish", NEW q \in DOMAIN queries,
         IsOwn(queries[q].client), phase[q] = "done",
         NEW k \in 0 .. t - 1, k = queries[q].client.address.matrix
  PROVE  /\ Record(q) # Nonsense
         /\ \A c \in 0 .. call.gamma0 - 1 : Record(q)[c] = BodyOf(q, k).plain[c]
<1> DEFINE response == ReadRecursionResponse(Response(q), Resp1Count, Resp2Count)
           digit(c) == RoundDiv(CentredTorus(Value(q, c), Tau * WordBits), Word ^ (Tau - 1))
           record == [c \in 0 .. call.gamma0 - 1 |-> digit(c)]
<1>1. response = [resp1 |-> resp1[q], resp2 |-> resp2[q]]
  BY ResponseArrives
<1>2. response # Refused /\ response.resp1 = resp1[q] /\ response.resp2 = resp2[q]
  <2>1. DOMAIN [resp1 |-> resp1[q], resp2 |-> resp2[q]] # DOMAIN [refused |-> TRUE]
    OBVIOUS
  <2>2. [resp1 |-> resp1[q], resp2 |-> resp2[q]].resp1 = resp1[q]
        /\ [resp1 |-> resp1[q], resp2 |-> resp2[q]].resp2 = resp2[q]
    OBVIOUS
  <2> HIDE DEF response
  <2> QED
    BY <1>1, <2>1, <2>2 DEF Refused
<1>3. /\ Unpacked(response.resp1, call.gamma1, N * Tau) = MaskVals(q) /\ MaskVals(q) # Nonsense
      /\ Unpacked(response.resp2, call.gamma2, call.gamma0 * Tau) = BodyVals(q)
      /\ BodyVals(q) # Nonsense
  <2> HIDE DEF response
  <2> QED
    BY <1>2, AnswerUnpacks
<1>4. Record(q) = record
  <2> HIDE DEF response
  <2>1. Record(q) =
          IF response = Refused THEN Nonsense
          ELSE IF Nonsense \in {MaskVals(q), BodyVals(q)} THEN Nonsense
          ELSE record
    BY <1>3, Zenon DEF Record, Value, response
  <2> HIDE DEF record
  <2> QED
    BY <1>2, <1>3, <2>1
<1>5. ASSUME NEW c \in 0 .. call.gamma0 - 1
      PROVE  digit(c) = BodyOf(q, k).plain[c] /\ digit(c) \in Int
  <2> DEFINE d == BodyOf(q, k).plain[c]
             x == Value(q, c)
  <2>1. d \in Digit /\ d \in Int
    BY BodyDigitIs
  <2>2. x \in Int /\ Congruent(x, d * Word, QTilde)
    BY ValueIs
  <2> HIDE DEF d, x
  <2>3. RoundDiv(CentredTorus(x, Tau * WordBits), Word ^ (Tau - 1)) = d
    BY <2>1, <2>2, TorusDigit
  <2> QED
    BY <2>1, <2>3 DEF d, x
<1>6. call.gamma0 \in 1 .. N * Tau
  BY NumbersOfCall DEF IInv, Tau, Positive
<1> HIDE DEF digit
<1>7. \A c \in 0 .. call.gamma0 - 1 : record[c] = BodyOf(q, k).plain[c] /\ record[c] \in Int
  BY <1>5
<1>8. record = [c \in 0 .. call.gamma0 - 1 |-> record[c]]
  OBVIOUS
<1> HIDE DEF record
<1>9. record # Nonsense
  BY <1>6, <1>7, <1>8, NotNonsense
<1> QED
  BY <1>4, <1>7, <1>9

\* The digit a payload has in the record of its column.
LEMMA DigitOfPayload ==
  ASSUME IInv, stage = "finish", NEW q \in DOMAIN queries, IsOwn(queries[q].client),
         NEW k \in 0 .. t - 1, k = queries[q].client.address.matrix, NEW j \in 0 .. Words - 1
  PROVE  LET client == queries[q].client
             c == client.address.offset + j
         IN /\ c \in 0 .. call.gamma0 - 1
            /\ BodyOf(q, k).plain[c] = EncodeWords(PayloadOf(call, client.index))[j]
<1> DEFINE client == queries[q].client
           L == Layout(call)
           h == call.gamma0
           b == rowsPerGroup
           e == h \div Words
           col == client.address.column
           c == client.address.offset + j
           rg == k \div b
           local == k % b
           row == local * h + c
           per == PayloadsPerRow(L, h)
           digits(i) == EncodeWords(PayloadOf(call, i))
<1>1. call \in Calls /\ call \in Shapes /\ client.index \in 0 .. Capacity(call) - 1
      /\ client.address = AddressFor(L, h, client.index)
  BY OwnClient, CallIs DEF IInv
<1>2. PICK u \in 0 .. e - 1 : /\ client.address.offset = u * Words
                              /\ client.index = k * per + u * call.cols + col
  BY <1>1, AddressIs
<1>3. col \in 0 .. call.cols - 1
  BY <1>1, AddressIs
<1>4. /\ N \in Nat \ {0} /\ h \in Nat \ {0} /\ Words \in Nat \ {0} /\ call.cols \in Nat \ {0}
      /\ call.gridRows \in Nat \ {0} /\ e \in Nat
      /\ L.cols = call.cols /\ L.exponent = Words /\ PayloadsPerColumn(L, h) = e
  BY <1>1, ShapeIs, NumbersOfCall DEF Layout, Positive
<1>5. /\ b \in Nat \ {0} /\ b = N \div h /\ rg \in Nat /\ local \in 0 .. b - 1 /\ k = rg * b + local
      /\ k < call.gridRows
  BY <1>1, <1>4, RowGroupsAre DEF Positive, t, rowsPerGroup
<1> HIDE DEF L, h, b, e, col, per, client
<1>6. c \in 0 .. h - 1 /\ c \in Nat /\ c \div Words = u /\ c % Words = j
  <2>1. e * Words <= h
    <3>1. h = Words * e + (h % Words) /\ (h % Words) \in 0 .. Words - 1
      BY <1>4, Quotient DEF e
    <3>2. Words * e = e * Words /\ e * Words \in Nat
      BY <1>4, SMT
    <3> QED
      BY <1>4, <3>1, <3>2
  <2>2. (u + 1) * Words <= e * Words /\ (u + 1) * Words = u * Words + Words /\ e * Words \in Nat
    <3>1. u \in Nat /\ u + 1 \in Nat /\ u + 1 <= e
      BY <1>4
    <3> QED
      BY <1>4, <3>1, ProductMonotone, SMT
  <2>3. u * Words \in Nat /\ u * Words = Words * u /\ u \in Int
    BY <1>4, SMT
  <2>4. c = Words * u + j /\ c \in Nat
    BY <1>2, <1>4, <2>3
  <2>5. c \in 0 .. h - 1
    BY <1>2, <1>4, <2>1, <2>2, <2>3
  <2> HIDE DEF c
  <2>6. c \div Words = u /\ c % Words = j
    BY <1>4, <2>3, <2>4, QuotientIs
  <2> QED
    BY <2>4, <2>5, <2>6
<1> HIDE DEF c, rg, local
<1>7. row \div h = local /\ row % h = c
  <2>1. local * h = h * local /\ h * local \in Int
    BY <1>4, <1>5, SMT
  <2>2. row = h * local + c /\ row \in Int /\ local \in Int
    BY <1>4, <1>5, <1>6, <2>1
  <2> HIDE DEF row
  <2> QED
    BY <1>4, <1>6, <2>2, QuotientIs
<1>8. col \div N \in Nat /\ (col \div N) * N + (col % N) = col
  <2>1. col \in Nat
    BY <1>3, <1>4
  <2>2. col \div N \in Nat /\ col = N * (col \div N) + (col % N)
    BY <1>4, <2>1, Quotient
  <2>3. N * (col \div N) = (col \div N) * N
    BY <1>4, <2>2, SMT
  <2> QED
    BY <2>2, <2>3
<1> HIDE DEF row
<1> DEFINE g == rg * (N \div h) + row \div h
           column == (col \div N) * N + (col % N)
<1>9. g = k /\ column = col
  BY <1>5, <1>7, <1>8
<1>10. BodyOf(q, k).plain[c] = Stored(call, rg, col \div N, row, col % N)
  BY <1>6 DEF BodyOf, rg, local, row, h, b, col, client
<1>11. Stored(call, rg, col \div N, row, col % N) =
         IF g < call.gridRows THEN StoredDigit(L, h, digits, g, column, row % h) ELSE 0
  BY DEF Stored, L, h
<1> HIDE DEF g, column
<1>12. Stored(call, rg, col \div N, row, col % N) = StoredDigit(L, h, digits, k, col, c)
  BY <1>5, <1>7, <1>9, <1>11
<1>13. StoredDigit(L, h, digits, k, col, c) = digits(client.index)[j]
  <2>1. StoredDigit(L, h, digits, k, col, c) =
          IF col < L.cols /\ c \div L.exponent < PayloadsPerColumn(L, h)
          THEN digits(k * per + (c \div L.exponent) * L.cols + col)[c % L.exponent] ELSE 0
    BY DEF StoredDigit, per
  <2> HIDE DEF digits
  <2> QED
    BY <1>2, <1>3, <1>4, <1>6, <2>1
<1> QED
  BY <1>6, <1>10, <1>12, <1>13 DEF c, client, h

\* A client of this database decodes the payload it asked for.
LEMMA DecodedOwn ==
  ASSUME IInv, OfflineInv, OnlineInv, AnswerInv, stage = "finish", NEW q \in DOMAIN queries,
         IsOwn(queries[q].client), phase[q] = "done"
  PROVE  Decoded(q) = PayloadOf(call, queries[q].client.index)
<1> DEFINE client == queries[q].client
           k == client.address.matrix
           v == PayloadOf(call, client.index)
           record == Record(q)
           digits == [j \in 0 .. Words - 1 |-> AsWord(record[client.address.offset + j])]
<1>1. call \in Calls /\ k \in 0 .. t - 1 /\ client.index \in Nat /\ call \in Shapes
  <2>1. client.index \in 0 .. Capacity(call) - 1 /\ k \in 0 .. t - 1 /\ call \in Calls
    BY OwnClient DEF IInv
  <2>2. call \in Shapes
    BY <2>1, CallIs
  <2>3. Capacity(call) \in Nat
    BY <2>2, ShapeIs DEF Positive
  <2> QED
    BY <2>1, <2>2, <2>3
<1>2. v \in 0 .. Word ^ Words - 1 /\ v \in Nat
  BY <1>1, PayloadIs
<1>3. record # Nonsense /\ \A c \in 0 .. call.gamma0 - 1 : record[c] = BodyOf(q, k).plain[c]
  BY <1>1, RecordIs
<1>4. Decoded(q) = DecodeWords(digits)
  <2>1. Decoded(q) = IF record = Nonsense THEN Nonsense ELSE DecodeWords(digits)
    BY DEF Decoded
  <2> HIDE DEF record, digits
  <2> QED
    BY <1>3, <2>1
<1>5. ASSUME NEW j \in 0 .. Words - 1
      PROVE  digits[j] = EncodeWords(v)[j]
  <2> DEFINE c == client.address.offset + j
             d == EncodeWords(v)[j]
  <2>1. c \in 0 .. call.gamma0 - 1 /\ BodyOf(q, k).plain[c] = d
    BY <1>1, DigitOfPayload
  <2>2. d \in Digit
    BY <1>2, EncodedDigits
  <2>3. digits[j] = AsWord(record[c])
    OBVIOUS
  <2> HIDE DEF c, d, digits, record
  <2>4. record[c] = d
    BY <1>3, <2>1
  <2>5. \A x \in Digit : x \in Int
    BY PowersAre DEF Digit
  <2>6. AsWord(d) = d
    BY <2>2, <2>5, AsWordIs
  <2> QED
    BY <2>3, <2>4, <2>6 DEF d
<1> HIDE DEF digits, v
<1>6. DecodeWords(digits) = v
  BY <1>2, <1>5, DecodedIs
<1> QED
  BY <1>4, <1>6 DEF v

-----------------------------------------------------------------------------
(* The theorems on digits and records *)

\* Everything that digits and answers rest on
RunInv == IInv /\ OfflineInv /\ OnlineInv /\ PreparedInv /\ AnswerInv

\* In every state all that was computed follows from the call and the queries.
LEMMA RunInvariance == Spec => []RunInv
<1>1. Init => RunInv
  <2> SUFFICES ASSUME Init PROVE RunInv
    OBVIOUS
  <2>1. IInv
    BY InitInvariant
  <2>2. OfflineInv /\ OnlineInv /\ PreparedInv /\ AnswerInv
    BY DEF Init, OfflineInv, OnlineInv, DatabaseOf, PreparedInv, AnswerInv
  <2> QED
    BY <2>1, <2>2 DEF RunInv
<1>2. RunInv /\ [Next]_vars => RunInv'
  BY NextInvariant, OfflineStep, OnlineStep, PreparedStep, AnswerStep DEF RunInv
<1> QED
  BY <1>1, <1>2, PTL DEF Spec

\* For any parameters and any batch: whatever word a digit database holds, together with
\* its neighbour it is the ciphertext it was cut from.
THEOREM DigitsAlwaysRebuild == Spec => []DigitsRebuild
<1>1. RunInv => DigitsRebuild
  <2> SUFFICES ASSUME RunInv PROVE DigitsRebuild
    OBVIOUS
  <2>1. maskData # <<>> => \A k \in 0 .. t - 1, c \in Coef :
          Rebuilds(maskData, k, c, FinalMask(l1Precompute[k])[c])
    BY MasksRebuild DEF RunInv
  <2>2. stage = "finish" =>
          \A q \in DOMAIN queries :
            phase[q] \notin {"pack", "decompose"} =>
              \A k \in 0 .. t - 1, c \in 0 .. call.gamma0 - 1 :
                resp0[q][k] # Nonsense => Rebuilds(bodyData[q], k, c, resp0[q][k][c])
    BY BodiesRebuild DEF RunInv
  <2> QED
    BY <2>1, <2>2 DEF DigitsRebuild
<1> QED
  BY <1>1, RunInvariance, PTL

\* For any parameters, database, threads and batch: every client of this database whose
\* query is answered recovers the payload it asked for.
THEOREM RecordsAlwaysRecovered == Spec => []RecordsRecovered
<1>1. RunInv => RecordsRecovered
  BY DecodedOwn DEF RunInv, RecordsRecovered
<1> QED
  BY <1>1, RunInvariance, PTL

-----------------------------------------------------------------------------
(* Sizes of messages *)

\* A sequence of n tokens of b bytes together
Weighs(s, n, b) ==
  /\ n \in Nat /\ HasLength(s, n) /\ \A i \in 1 .. n : s[i].bytes \in Int
  /\ Bytes(s) = b

\* The bytes of the tokens, as they are added up
Weights(s, n) == [i \in 0 .. n - 1 |-> s[i + 1].bytes]

\* The size of a message is the sum of its tokens'.
LEMMA BytesAre ==
  ASSUME NEW n \in Nat, NEW s, HasLength(s, n)
  PROVE  Bytes(s) = Sum(Weights(s, n), n)
<1> DEFINE f == Weights(s, n)
           Adds(a) == a = [i \in 0 .. Len(s) |-> IF i = 0 THEN 0 ELSE a[i - 1] + s[i].bytes]
           a == CHOOSE b : Adds(b)
<1>1. Len(s) = n
  BY LengthOf
<1>2. \A i \in 0 .. n : i # 0 => f[i - 1] = s[i].bytes
  <2> SUFFICES ASSUME NEW i \in 0 .. n, i # 0 PROVE f[i - 1] = s[i].bytes
    OBVIOUS
  <2>1. i - 1 \in 0 .. n - 1 /\ (i - 1) + 1 = i
    OBVIOUS
  <2> QED
    BY <2>1 DEF Weights
<1>3. Bytes(s) = a[Len(s)]
  BY DEF Bytes
<1> HIDE DEF f
<1>4. PICK b : AddsUp(b, f, n)
  BY SumsAreThere
<1>5. b = [i \in 0 .. n |-> IF i = 0 THEN 0 ELSE b[i - 1] + s[i].bytes]
  <2>1. b = [i \in 0 .. n |-> IF i = 0 THEN 0 ELSE b[i - 1] + f[i - 1]]
    BY <1>4 DEF AddsUp
  <2> QED
    BY <1>2, <2>1
<1>6. Adds(b)
  BY <1>1, <1>5
<1>7. Adds(a)
  BY <1>6, Zenon
<1> HIDE DEF a
<1>8. AddsUp(a, f, n)
  <2>1. a = [i \in 0 .. n |-> IF i = 0 THEN 0 ELSE a[i - 1] + s[i].bytes]
    BY <1>1, <1>7
  <2>2. a = [i \in 0 .. n |-> IF i = 0 THEN 0 ELSE a[i - 1] + f[i - 1]]
    BY <1>2, <2>1
  <2> QED
    BY <2>2 DEF AddsUp
<1>9. a[n] = Sum(f, n)
  BY <1>8, SumsAreUnique
<1> QED
  BY <1>1, <1>3, <1>9 DEF f

\* One token.
LEMMA WeighsOne ==
  ASSUME NEW x, x.bytes \in Int
  PROVE  Weighs(<<x>>, 1, x.bytes)
<1> DEFINE s == <<x>>
           f == Weights(s, 1)
<1>1. HasLength(s, 1) /\ s[1] = x
  BY Single
<1>2. f[0] = x.bytes
  BY DEF Weights
<1> HIDE DEF s, f
<1>3. Sum(f, 0) = 0 /\ Sum(f, 0 + 1) = Sum(f, 0) + f[0]
  BY SumNext
<1>4. Sum(f, 1) = x.bytes
  BY <1>2, <1>3
<1>5. Bytes(s) = Sum(f, 1)
  BY <1>1, BytesAre DEF f
<1> QED
  BY <1>1, <1>4, <1>5 DEF Weighs, s

\* Two sequences, one after the other.
LEMMA WeighsBoth ==
  ASSUME NEW s, NEW m, NEW a, Weighs(s, m, a), NEW r, NEW n, NEW b, Weighs(r, n, b)
  PROVE  Weighs(Then(s, r), m + n, a + b) /\ a \in Int /\ b \in Int
<1> DEFINE all == Then(s, r)
           l == m + n
           f == Weights(all, l)
           g == Weights(s, m)
           h == Weights(r, n)
<1>1. /\ m \in Nat /\ n \in Nat /\ l \in Nat /\ HasLength(s, m) /\ HasLength(r, n)
      /\ Bytes(s) = a /\ Bytes(r) = b
      /\ \A i \in 1 .. m : s[i].bytes \in Int
      /\ \A i \in 1 .. n : r[i].bytes \in Int
  BY DEF Weighs
<1>2. IsJoined(all, s, m, r, n)
  BY <1>1, ThenJoins
<1> HIDE DEF all
<1>3. /\ HasLength(all, l) /\ \A i \in 1 .. m : all[i] = s[i]
      /\ \A i \in 1 .. n : all[m + i] = r[i]
  BY <1>2 DEF IsJoined
<1>4. \A i \in 1 .. l : all[i].bytes \in Int
  <2> SUFFICES ASSUME NEW i \in 1 .. l PROVE all[i].bytes \in Int
    OBVIOUS
  <2>1. CASE i <= m
    <3>1. i \in 1 .. m
      BY <1>1, <2>1
    <3> QED
      BY <1>1, <1>3, <3>1
  <2>2. CASE ~(i <= m)
    <3>1. i - m \in 1 .. n /\ m + (i - m) = i
      BY <1>1, <2>2
    <3> QED
      BY <1>1, <1>3, <3>1
  <2> QED
    BY <2>1, <2>2
<1>5. ASSUME NEW i \in 0 .. m - 1 PROVE f[i] = g[i] /\ g[i] \in Int
  <2>1. i + 1 \in 1 .. m /\ i \in 0 .. l - 1
    BY <1>1
  <2> QED
    BY <1>1, <1>3, <2>1 DEF Weights
<1>6. ASSUME NEW i \in 0 .. n - 1 PROVE f[m + i] = h[i] /\ h[i] \in Int
  <2>1. i + 1 \in 1 .. n /\ m + i \in 0 .. l - 1 /\ (m + i) + 1 = m + (i + 1)
    BY <1>1
  <2> QED
    BY <1>1, <1>3, <2>1 DEF Weights
<1>7. \A i \in 0 .. m + n - 1 : f[i] \in Int
  <2> SUFFICES ASSUME NEW i \in 0 .. m + n - 1 PROVE f[i] \in Int
    OBVIOUS
  <2>1. i \in 0 .. l - 1 /\ i + 1 \in 1 .. l
    BY <1>1
  <2>2. f[i] = all[i + 1].bytes
    BY <2>1 DEF Weights
  <2> QED
    BY <1>4, <2>1, <2>2
<1> HIDE DEF f, g, h
<1>8. Sum(f, m + n) = Sum(f, m) + Sum(h, n)
  <2>1. \A i \in 0 .. n - 1 : h[i] = f[m + i]
    BY <1>6
  <2>2. m \in Nat /\ n \in Nat
    BY <1>1
  <2> QED
    BY <1>7, <2>1, <2>2, SumInTwo
<1>9. Sum(f, m) = Sum(g, m)
  BY <1>1, <1>5, SumSame
<1>10. Bytes(all) = Sum(f, l) /\ a = Sum(g, m) /\ b = Sum(h, n)
  BY <1>1, <1>3, BytesAre DEF f, g, h
<1>11. a \in Int /\ b \in Int
  BY <1>1, <1>5, <1>6, <1>10, SumIsInt
<1> QED
  BY <1>1, <1>3, <1>4, <1>8, <1>9, <1>10, <1>11 DEF Weighs, all

\* Tokens that are all of the same size.
LEMMA WeighsMany ==
  ASSUME NEW n \in Nat, NEW c \in Int, NEW s, HasLength(s, n), \A i \in 1 .. n : s[i].bytes = c
  PROVE  Weighs(s, n, n * c)
<1> DEFINE f == Weights(s, n)
           S == {i \in 0 .. n : Sum(f, i) = i * c}
<1>1. \A i \in 0 .. n - 1 : f[i] = c
  <2> SUFFICES ASSUME NEW i \in 0 .. n - 1 PROVE f[i] = c
    OBVIOUS
  <2>1. i + 1 \in 1 .. n
    OBVIOUS
  <2> QED
    BY <2>1 DEF Weights
<1> HIDE DEF f
<1>2. 0 \in S
  <2>1. Sum(f, 0) = 0 /\ 0 * c = 0
    BY SumNext, SMT
  <2> QED
    BY <2>1
<1>3. ASSUME NEW i \in 0 .. n - 1, i \in S PROVE i + 1 \in S
  <2>1. Sum(f, i + 1) = Sum(f, i) + f[i] /\ i + 1 \in 0 .. n
    BY SumNext
  <2>2. (i + 1) * c = i * c + c
    BY SMT
  <2> QED
    BY <1>1, <1>3, <2>1, <2>2
<1> HIDE DEF S
<1>4. 0 .. n \subseteq S
  BY <1>2, <1>3, StepsReachAll
<1>5. Sum(f, n) = n * c
  BY <1>4 DEF S
<1>6. Bytes(s) = Sum(f, n)
  BY BytesAre DEF f
<1> QED
  BY <1>5, <1>6 DEF Weighs


\* A message of b bytes, however many tokens it has
Sized(s, b) == \E n : Weighs(s, n, b)

\* Its size is found by adding up.
LEMMA SizedIs ==
  ASSUME NEW s, NEW b, Sized(s, b)
  PROVE  Bytes(s) = b
BY DEF Sized, Weighs

\* A message of one token.
LEMMA SizedOne ==
  ASSUME NEW x, NEW b \in Int, x.bytes = b
  PROVE  Sized(<<x>>, b)
BY WeighsOne DEF Sized

\* A message and one more are as large as both.
LEMMA SizedBoth ==
  ASSUME NEW s, NEW a, Sized(s, a), NEW r, NEW b, Sized(r, b)
  PROVE  Sized(Then(s, r), a + b) /\ a \in Int /\ b \in Int
<1>1. PICK m : Weighs(s, m, a)
  BY DEF Sized
<1>2. PICK n : Weighs(r, n, b)
  BY DEF Sized
<1>3. Weighs(Then(s, r), m + n, a + b) /\ a \in Int /\ b \in Int
  BY <1>1, <1>2, WeighsBoth
<1> QED
  BY <1>3 DEF Sized

\* A message of tokens of one size.
LEMMA SizedMany ==
  ASSUME NEW n \in Nat, NEW c \in Int, NEW s, HasLength(s, n), \A i \in 1 .. n : s[i].bytes = c
  PROVE  Sized(s, n * c)
BY WeighsMany DEF Sized

\* What a token counts for.
LEMMA TokenBytes ==
  /\ \A x : Tag(x).bytes = 1 /\ Number(x).bytes = 8 /\ Seed(x).bytes = 32
            /\ Compressed(x).bytes = CompressedBytes
            /\ Entry(x).bytes = 4 + VecBytes(1, CeilDiv(K, Base2k) * Base2k)
  /\ \A x, k : Ciphertext(x, k).bytes = 4 + VecBytes(2, k)
BY DEF Tag, Number, Seed, Compressed, CompressedBytes, Entry, Ciphertext

\* The size of a vector is a number.
LEMMA VecBytesIs ==
  ASSUME NEW cols \in Nat, NEW k \in Nat
  PROVE  VecBytes(cols, k) \in Int
<1> DEFINE c == CeilDiv(k, TransmitBits)
<1>1. TransmitBits \in Nat \ {0}
  BY DEF TransmitBits
<1>2. c \in Nat
  BY <1>1, GroupsHold
<1>3. N \in Nat
  BY WireAssumption
<1> HIDE DEF c
<1>4. N * cols \in Int
  BY <1>3, IntProduct
<1>5. N * cols * c \in Int
  BY <1>2, <1>4, IntProduct
<1>6. VecBytes(cols, k) = 5 * 8 + N * cols * c * 8
  BY DEF VecBytes, c
<1> HIDE DEF c
<1> QED
  BY <1>5, <1>6


\* A count and tokens of one size.
LEMMA CountedSized ==
  ASSUME NEW n \in Nat, NEW c \in Int, NEW r, HasLength(r, n), \A i \in 1 .. n : r[i].bytes = c
  PROVE  Sized(Then(<<Number(n)>>, r), 8 + n * c)
<1>1. Sized(<<Number(n)>>, 8)
  BY TokenBytes, SizedOne
<1>2. Sized(r, n * c)
  BY SizedMany
<1> QED
  BY <1>1, <1>2, SizedBoth

\* The limbs that an entry of a gadget ciphertext has beyond the precision need no more words
\* than the precision's own: 54 bits are three limbs of 18 in every preset (config.rs).
EntriesFill == VecBytes(1, CeilDiv(K, Base2k) * Base2k) = VecBytes(1, K)

\* A key that is written takes what is foretold of keys.
LEMMA KeySized ==
  ASSUME EntriesFill, NEW key
  PROVE  Sized(WriteCompressedKey(key), CompressedKeyBytes)
<1> DEFINE h == <<Number(key.stride)>>
           p == <<Number(key.p)>>
           c == <<Number(Dnum)>>
           seeds == Repeat(Seed(key.seed), Dnum)
           entries == Repeat(Entry(key.secret), Dnum)
           e == 4 + VecBytes(1, K)
           counted == Then(c, seeds)
           seeded == Then(counted, entries)
           auto == Then(p, seeded)
           all == Then(h, auto)
<1>1. Dnum \in Nat /\ Dnum = 3
  BY DEF Dnum
<1>2. e \in Int
  BY WireAssumption, VecBytesIs
<1>3. Sized(h, 8) /\ Sized(p, 8)
  BY TokenBytes, SizedOne
<1>4. Sized(counted, 8 + Dnum * 32)
  BY <1>1, RepeatIs, TokenBytes, CountedSized
<1>5. Sized(entries, Dnum * e)
  <2>1. HasLength(entries, Dnum) /\ \A i \in 1 .. Dnum : entries[i] = Entry(key.secret)
    BY <1>1, RepeatIs
  <2>2. Entry(key.secret).bytes = e
    BY TokenBytes DEF EntriesFill
  <2> HIDE DEF entries, e
  <2> QED
    BY <1>1, <1>2, <2>1, <2>2, SizedMany
<1>6. WriteCompressedKey(key) = all
  BY DEF WriteCompressedKey, WriteAutoKey, WriteSeeded, Then
<1>7. CompressedKeyBytes = 8 + 8 + (8 + Dnum * 32 + Dnum * e)
  BY DEF CompressedKeyBytes, GadgetBytes
<1> HIDE DEF h, p, c, seeds, entries, counted, seeded, auto, all, e
<1>8. Sized(seeded, (8 + Dnum * 32) + Dnum * e)
  BY <1>4, <1>5, SizedBoth DEF seeded
<1>9. Sized(auto, 8 + ((8 + Dnum * 32) + Dnum * e))
  BY <1>3, <1>8, SizedBoth DEF auto
<1>10. Sized(all, 8 + (8 + ((8 + Dnum * 32) + Dnum * e)))
  BY <1>3, <1>9, SizedBoth DEF all
<1>11. CompressedKeyBytes = 8 + (8 + ((8 + Dnum * 32) + Dnum * e))
  BY <1>1, <1>2, <1>7
<1> QED
  BY <1>6, <1>10, <1>11

\* The blocks of a selector with their count.
LEMMA BlocksSized ==
  ASSUME NEW f, NEW n \in Nat
  PROVE  Sized(Counted(f, n, Compressed), 8 + n * CompressedBytes) /\ CompressedBytes \in Int
<1> DEFINE r == [i \in 1 .. n |-> Compressed(f[i - 1])]
<1>1. HasLength(r, n)
  BY DEF HasLength
<1>2. \A i \in 1 .. n : r[i].bytes = CompressedBytes
  BY TokenBytes
<1>3. CompressedBytes \in Int
  BY WireAssumption, VecBytesIs DEF CompressedBytes
<1>4. Counted(f, n, Compressed) = Then(<<Number(n)>>, r)
  BY DEF Counted, Then
<1> HIDE DEF r
<1>5. Sized(Then(<<Number(n)>>, r), 8 + n * CompressedBytes)
  BY <1>1, <1>2, <1>3, CountedSized
<1> QED
  BY <1>3, <1>4, <1>5

\* A query that is written takes what is foretold of queries.
LEMMA QuerySized ==
  ASSUME EntriesFill, NEW q, NEW n0 \in Nat, NEW n1 \in Nat
  PROVE  Sized(WriteRecursionQuery(q, n0, n1), RecursionQuerySize(n0, n1))
<1> DEFINE tag == <<Tag("recursion")>>
           a == Counted(q.src0, n0, Compressed)
           b == Counted(q.src1, n1, Compressed)
           key(k) == WriteCompressedKey(q.keys[k])
           s1 == Then(tag, a)
           s2 == Then(s1, b)
           s3 == Then(s2, key(0))
           s4 == Then(s3, key(1))
           s5 == Then(s4, key(2))
           c == CompressedBytes
           d == CompressedKeyBytes
<1>1. Sized(tag, 1)
  BY TokenBytes, SizedOne
<1>2. Sized(a, 8 + n0 * c) /\ Sized(b, 8 + n1 * c) /\ c \in Int
  BY BlocksSized
<1>3. \A k : Sized(key(k), d)
  BY KeySized
<1>4. WriteRecursionQuery(q, n0, n1) = s5
  BY DEF WriteRecursionQuery, Then
<1>5. RecursionQuerySize(n0, n1) = 1 + 2 * 8 + (n0 + n1) * c + 3 * d
  BY DEF RecursionQuerySize
<1> HIDE DEF tag, a, b, key, s1, s2, s3, s4, s5, c, d
<1>6. Sized(s1, 1 + (8 + n0 * c))
  BY <1>1, <1>2, SizedBoth DEF s1
<1>7. Sized(s2, (1 + (8 + n0 * c)) + (8 + n1 * c))
  BY <1>2, <1>6, SizedBoth DEF s2
<1>8. Sized(s3, ((1 + (8 + n0 * c)) + (8 + n1 * c)) + d) /\ d \in Int
  BY <1>3, <1>7, SizedBoth DEF s3
<1>9. Sized(s4, (((1 + (8 + n0 * c)) + (8 + n1 * c)) + d) + d)
  BY <1>3, <1>8, SizedBoth DEF s4
<1>10. Sized(s5, ((((1 + (8 + n0 * c)) + (8 + n1 * c)) + d) + d) + d)
  BY <1>3, <1>9, SizedBoth DEF s5
<1>11. (n0 + n1) * c = n0 * c + n1 * c /\ n0 * c \in Int /\ n1 * c \in Int
  BY <1>2, SMT
<1>12. RecursionQuerySize(n0, n1) = ((((1 + (8 + n0 * c)) + (8 + n1 * c)) + d) + d) + d
  BY <1>5, <1>8, <1>11
<1> QED
  BY <1>4, <1>10, <1>12

\* A count and its ciphertexts.
LEMMA CiphertextsSized ==
  ASSUME NEW f, NEW n \in Nat, NEW k \in Nat
  PROVE  Sized(Ciphertexts(f, n, k), 8 + n * (4 + VecBytes(2, k))) /\ VecBytes(2, k) \in Int
<1> DEFINE r == [i \in 1 .. n |-> Ciphertext(f[i - 1], k)]
           c == 4 + VecBytes(2, k)
<1>1. HasLength(r, n)
  BY DEF HasLength
<1>2. \A i \in 1 .. n : r[i].bytes = c
  BY TokenBytes
<1>3. VecBytes(2, k) \in Int /\ c \in Int
  BY VecBytesIs
<1>4. Ciphertexts(f, n, k) = Then(<<Number(n)>>, r)
  BY DEF Ciphertexts, Counted, Then
<1> HIDE DEF r, c
<1>5. Sized(Then(<<Number(n)>>, r), 8 + n * c)
  BY <1>1, <1>2, <1>3, CountedSized
<1> QED
  BY <1>3, <1>4, <1>5 DEF c

\* A response that is written takes what is foretold of responses.
LEMMA ResponseSized ==
  ASSUME NEW f, NEW g, NEW n0 \in Nat, NEW n1 \in Nat, NEW k \in Nat
  PROVE  Sized(WriteRecursionResponse(f, g, n0, n1, k), RecursionResponseSize(n0, n1, k))
<1> DEFINE tag == <<Tag("recursion")>>
           a == Ciphertexts(f, n0, k)
           b == Ciphertexts(g, n1, k)
           s1 == Then(tag, a)
           s2 == Then(s1, b)
           c == 4 + VecBytes(2, k)
<1>1. Sized(tag, 1)
  BY TokenBytes, SizedOne
<1>2. Sized(a, 8 + n0 * c) /\ Sized(b, 8 + n1 * c) /\ c \in Int
  <2>1. VecBytes(2, k) \in Int
    BY VecBytesIs
  <2>2. c \in Int
    BY <2>1
  <2> QED
    BY <2>2, CiphertextsSized
<1>3. WriteRecursionResponse(f, g, n0, n1, k) = s2
  BY DEF WriteRecursionResponse, Then, Ciphertexts
<1>4. RecursionResponseSize(n0, n1, k) = 1 + 2 * 8 + (n0 + n1) * c
  BY DEF RecursionResponseSize
<1> HIDE DEF tag, a, b, s1, s2, c
<1>5. Sized(s1, 1 + (8 + n0 * c))
  BY <1>1, <1>2, SizedBoth DEF s1
<1>6. Sized(s2, (1 + (8 + n0 * c)) + (8 + n1 * c))
  BY <1>2, <1>5, SizedBoth DEF s2
<1>7. (n0 + n1) * c = n0 * c + n1 * c /\ n0 * c \in Int /\ n1 * c \in Int
  BY <1>2, SMT
<1>8. RecursionResponseSize(n0, n1, k) = (1 + (8 + n0 * c)) + (8 + n1 * c)
  BY <1>4, <1>7
<1> QED
  BY <1>3, <1>6, <1>8


-----------------------------------------------------------------------------
(* The sizes a server advertises *)

\* How many ciphertexts a query's answers have, whoever asked
Counts(q) ==
  /\ phase[q] \in {"resp2", "done"} => DOMAIN resp1[q] = 0 .. Resp1Count - 1
  /\ phase[q] = "done" => DOMAIN resp2[q] = 0 .. Resp2Count - 1

\* So it is for every query of a batch.
CountsInv ==
  stage = "finish" =>
    /\ DOMAIN resp1 = DOMAIN queries /\ DOMAIN resp2 = DOMAIN queries
    /\ \A q \in DOMAIN queries : Counts(q)

\* As many ciphertexts are packed as digit matrices were prepared.
LEMMA PackedCount ==
  ASSUME NEW h \in Nat, NEW data, DOMAIN data = 0 .. h - 1, NEW gamma \in Nat \ {0}, NEW pkey,
         NEW prep, NEW precompute, Prepared(prep, precompute, data, gamma, pkey),
         NEW q, NEW key
  PROVE  DOMAIN PackedDigits(q, prep, precompute, gamma, key) = 0 .. CeilDiv(h, gamma) - 1
<1> DEFINE n == CeilDiv(h, gamma)
<1>1. n \in Nat
  BY GroupsHold
<1>2. DOMAIN prep = 0 .. n - 1
  <2>1. Cardinality(DOMAIN data) = h
    BY Interval
  <2> QED
    BY <2>1 DEF Prepared
<1> HIDE DEF n
<1>3. Cardinality(DOMAIN prep) = n
  BY <1>1, <1>2, Interval
<1>4. PackedDigits(q, prep, precompute, gamma, key) =
        [slot \in 0 .. n - 1 |->
           PackItem(q, prep, precompute, gamma, key, DealtItem(n, PackThreads(n), slot))]
  BY <1>3, PackedDigitsAre
<1> QED
  BY <1>4 DEF n

\* The masks' digits are packed into the advertised number of ciphertexts.
LEMMA Resp1Counted ==
  ASSUME IInv, OfflineInv, PreparedInv, stage = "finish", NEW q \in DOMAIN queries
  PROVE  DOMAIN PackedDigits(q, resp1Prep, resp1Precompute, call.gamma1, queries[q].query.keys[1])
           = 0 .. Resp1Count - 1
<1> DEFINE key == queries[q].query.keys[1]
           pkey == KeyMask(1, call.gamma1)
           gamma == call.gamma1
           h == N * Tau
<1>1. h \in Nat /\ DOMAIN maskData = 0 .. h - 1
  BY MaskDatabase DEF DigitDatabase
<1>2. gamma \in Nat \ {0}
  BY NumbersOfCall DEF IInv
<1>3. Prepared(resp1Prep, resp1Precompute, maskData, gamma, pkey)
  BY DEF PreparedInv
<1>4. Resp1Count = CeilDiv(h, gamma)
  BY DEF Resp1Count
<1> HIDE DEF key, pkey, gamma, h
<1>5. DOMAIN PackedDigits(q, resp1Prep, resp1Precompute, gamma, key) = 0 .. CeilDiv(h, gamma) - 1
  BY <1>1, <1>2, <1>3, PackedCount
<1> QED
  BY <1>4, <1>5 DEF key, gamma

\* So are the bodies' digits.
LEMMA Resp2Counted ==
  ASSUME IInv, OfflineInv, OnlineInv, stage = "finish", NEW q \in DOMAIN queries,
         phase[q] \notin {"pack", "decompose"}
  PROVE  DOMAIN Resp2Of(q) = 0 .. Resp2Count - 1
<1> DEFINE key == queries[q].query.keys[2]
           gamma == call.gamma2
           h == call.gamma0 * Tau
           data == bodyData[q]
           threads == threadsPerQuery
           batches == MaskBatches(data, gamma, key, threads)
           prep == [m \in DOMAIN batches |-> batches[m].prep]
           precompute == [m \in DOMAIN batches |-> batches[m].precompute]
<1>1. h \in Nat /\ DOMAIN data = 0 .. h - 1
  BY BodyDatabase DEF DigitDatabase
<1>2. call \in Calls /\ gamma \in Nat \ {0}
  BY NumbersOfCall DEF IInv
<1>3. threads \in Nat
  <2>1. 0 \in Nat
    OBVIOUS
  <2> QED
    BY <2>1, ThreadsAreThere
<1>4. Resp2Of(q) = PackedDigits(q, prep, precompute, gamma, key)
  BY DEF Resp2Of
<1>5. Resp2Count = CeilDiv(h, gamma)
  BY DEF Resp2Count
<1> HIDE DEF key, gamma, h, data, threads
<1>6. Prepared(prep, precompute, data, gamma, key)
  BY <1>1, <1>2, <1>3, BatchesPrepared
<1> HIDE DEF prep, precompute
<1>7. DOMAIN PackedDigits(q, prep, precompute, gamma, key) = 0 .. CeilDiv(h, gamma) - 1
  BY <1>1, <1>2, <1>6, PackedCount
<1> QED
  BY <1>4, <1>5, <1>7

\* Every step keeps it so.
LEMMA CountsStep ==
  ASSUME IInv, OfflineInv, OnlineInv, PreparedInv, CountsInv, [Next]_vars
  PROVE  CountsInv'
<1>1. call' = call
  BY DEF Next, vars, offline, OfflineL1, OfflineMaskData, OfflineResp1, Ask, Cut, Misdirect, Receive,
         Respond, Turn, PackL1, DecomposeBody, PackResp1, PackResp2, Answered
<1>2. Resp1Count' = Resp1Count /\ Resp2Count' = Resp2Count
  BY <1>1 DEF Resp1Count, Resp2Count
<1> SUFFICES ASSUME stage' = "finish"
             PROVE  /\ DOMAIN resp1' = DOMAIN queries' /\ DOMAIN resp2' = DOMAIN queries'
                    /\ \A p \in DOMAIN queries' : Counts(p)'
  BY DEF CountsInv
<1>3. CASE Respond
  <2>1. /\ queries' = queries /\ phase' = [p \in DOMAIN queries |-> "pack"]
        /\ resp1' = [p \in DOMAIN queries |-> <<>>] /\ resp2' = [p \in DOMAIN queries |-> <<>>]
    BY <1>3 DEF Respond
  <2> QED
    BY <2>1 DEF Counts
<1>4. ASSUME NEW q \in DOMAIN queries, PackL1(q) \/ DecomposeBody(q) \/ PackResp1(q) \/ PackResp2(q)
      PROVE  /\ DOMAIN resp1' = DOMAIN queries' /\ DOMAIN resp2' = DOMAIN queries'
             /\ \A p \in DOMAIN queries' : Counts(p)'
  <2>1. stage = "finish" /\ queries' = queries
    BY <1>4 DEF PackL1, DecomposeBody, PackResp1, PackResp2, Turn
  <2>2. /\ DOMAIN phase = DOMAIN queries
        /\ DOMAIN resp1 = DOMAIN queries /\ DOMAIN resp2 = DOMAIN queries
        /\ \A p \in DOMAIN queries : Counts(p)
    BY <2>1 DEF OnlineInv, CountsInv
  <2>3. CASE PackL1(q) \/ DecomposeBody(q)
    <3>1. /\ resp1' = resp1 /\ resp2' = resp2 /\ phase'[q] \in {"decompose", "resp1"}
          /\ \A p \in DOMAIN queries : p # q => phase'[p] = phase[p]
      BY <2>2, <2>3 DEF PackL1, DecomposeBody, Turn
    <3> QED
      BY <1>2, <2>1, <2>2, <3>1 DEF Counts
  <2>4. CASE PackResp1(q)
    <3>1. /\ resp2' = resp2 /\ phase[q] = "resp1" /\ phase' = [phase EXCEPT ![q] = "resp2"]
          /\ resp1' = [resp1 EXCEPT ![q] =
               PackedDigits(q, resp1Prep, resp1Precompute, call.gamma1, queries[q].query.keys[1])]
      BY <2>4 DEF PackResp1, Turn
    <3>2. DOMAIN resp1'[q] = 0 .. Resp1Count - 1
      BY <2>1, <2>2, <3>1, Resp1Counted
    <3>3. /\ DOMAIN resp1' = DOMAIN queries /\ phase'[q] = "resp2"
          /\ \A p \in DOMAIN queries : p # q => phase'[p] = phase[p] /\ resp1'[p] = resp1[p]
      BY <2>2, <3>1
    <3> QED
      BY <1>2, <2>1, <2>2, <3>1, <3>2, <3>3 DEF Counts
  <2>5. CASE PackResp2(q)
    <3>1. /\ resp1' = resp1 /\ phase[q] = "resp2" /\ phase' = [phase EXCEPT ![q] = "done"]
          /\ resp2' = [resp2 EXCEPT ![q] = Resp2Of(q)]
      BY <2>5 DEF PackResp2, Resp2Of, Turn
    <3>2. DOMAIN resp2'[q] = 0 .. Resp2Count - 1
      BY <2>1, <2>2, <3>1, Resp2Counted
    <3>3. /\ DOMAIN resp2' = DOMAIN queries /\ phase'[q] = "done"
          /\ \A p \in DOMAIN queries : p # q => phase'[p] = phase[p] /\ resp2'[p] = resp2[p]
      BY <2>2, <3>1
    <3> QED
      BY <1>2, <2>1, <2>2, <3>1, <3>2, <3>3 DEF Counts
  <2> QED
    BY <1>4, <2>3, <2>4, <2>5
<1>5. CASE UNCHANGED vars \/ \E q \in DOMAIN mail : Cut(q)
  <2>1. /\ stage = "finish" /\ queries' = queries
        /\ phase' = phase /\ resp1' = resp1 /\ resp2' = resp2
    BY <1>5 DEF vars, offline, online, Cut
  <2> QED
    BY <1>2, <2>1 DEF CountsInv, Counts
<1> QED
  <2>1. \/ Respond \/ UNCHANGED vars \/ \E q \in DOMAIN mail : Cut(q)
        \/ \E q \in DOMAIN queries : PackL1(q) \/ DecomposeBody(q) \/ PackResp1(q) \/ PackResp2(q)
    BY DEF Next, OfflineL1, OfflineMaskData, OfflineResp1, Ask, Misdirect, Receive, Answered
  <2> QED
    BY <1>3, <1>4, <1>5, <2>1

\* A whole query of a client of this database is as large as advertised.
LEMMA MailSized ==
  ASSUME EntriesFill, IInv, NEW q \in DOMAIN mail, IsWhole(mail[q]), IsOwn(mail[q].client)
  PROVE  Bytes(mail[q].message) = RecursionQuerySize(columnBlocks, CeilDiv(t, N))
<1>1. mail[q] \in Letters
  BY DEF IInv
<1>2. PICK client \in Writers : \E n \in 0 .. Len(Written(client)) : mail[q] = CutAt(client, n)
  BY <1>1 DEF Letters
<1>3. mail[q].client = client
  BY <1>2 DEF CutAt
<1>4. PICK n0, n1 \in Nat : /\ n0 = CeilDiv(client.shape.cols, N)
                            /\ n1 = CeilDiv(client.shape.gridRows, N)
                            /\ Written(client) = WriteRecursionQuery(client.query, n0, n1)
  BY WriterOf
<1>5. n0 = columnBlocks /\ n1 = CeilDiv(t, N)
  BY <1>3, <1>4 DEF IsOwn, columnBlocks, t
<1>6. mail[q].message = WriteRecursionQuery(client.query, n0, n1)
  BY <1>3, <1>4 DEF IsWhole
<1>7. Sized(WriteRecursionQuery(client.query, n0, n1), RecursionQuerySize(n0, n1))
  BY QuerySized
<1> QED
  BY <1>5, <1>6, <1>7, SizedIs

\* A response is as large as advertised.
LEMMA AnswerSized ==
  ASSUME RunInv, CountsInv, stage = "finish", NEW q \in DOMAIN queries, phase[q] = "done"
  PROVE  Bytes(Response(q)) = RecursionResponseSize(Resp1Count, Resp2Count, Tau * WordBits)
<1> DEFINE n0 == Resp1Count
           n1 == Resp2Count
           k == Tau * WordBits
<1>1. DOMAIN resp1[q] = 0 .. n0 - 1 /\ DOMAIN resp2[q] = 0 .. n1 - 1
  BY DEF CountsInv, Counts
<1>2. n0 \in Nat /\ n1 \in Nat /\ k \in Nat
  <2>1. call \in Calls /\ N \in Nat /\ Tau = 2 /\ WordBits \in Nat
    BY WireAssumption, CodecAssumption DEF RunInv, IInv, Tau
  <2>2. /\ call.gamma0 \in Nat /\ call.gamma1 \in Nat \ {0} /\ call.gamma2 \in Nat \ {0}
    BY <2>1, NumbersOfCall
  <2>3. N * Tau \in Nat /\ call.gamma0 * Tau \in Nat /\ k \in Nat
    BY <2>1, <2>2
  <2> HIDE DEF k
  <2> QED
    BY <2>2, <2>3, GroupsHold DEF Resp1Count, Resp2Count
<1> HIDE DEF n0, n1, k
<1>3. Cardinality(DOMAIN resp1[q]) = n0 /\ Cardinality(DOMAIN resp2[q]) = n1
  BY <1>1, <1>2, Interval
<1>4. Response(q) = WriteRecursionResponse(resp1[q], resp2[q], n0, n1, k)
  BY <1>3 DEF Response, k
<1>5. Sized(WriteRecursionResponse(resp1[q], resp2[q], n0, n1, k), RecursionResponseSize(n0, n1, k))
  BY <1>2, ResponseSized
<1> QED
  BY <1>4, <1>5, SizedIs DEF n0, n1, k

\* For any parameters whose limbs fill their words, any database and any batch, whoever its
\* queries are from: queries and responses are as large as parameters.rs says.
THEOREM SizesAlwaysAdvertised == ASSUME EntriesFill PROVE Spec => []SizesAdvertised
<1> DEFINE Inv == RunInv /\ CountsInv
<1>1. Init => Inv
  BY InitInvariant DEF Init, RunInv, IInv, OfflineInv, OnlineInv, DatabaseOf, PreparedInv, AnswerInv, CountsInv
<1>2. Inv /\ [Next]_vars => Inv'
  BY NextInvariant, OfflineStep, OnlineStep, PreparedStep, AnswerStep, CountsStep DEF RunInv
<1>3. Inv => SizesAdvertised
  BY MailSized, AnswerSized DEF RunInv, SizesAdvertised
<1> QED
  BY <1>1, <1>2, <1>3, PTL DEF Spec
=============================================================================

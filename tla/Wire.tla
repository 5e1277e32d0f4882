-------------------------------- MODULE Wire --------------------------------
(***************************************************************************)
(* serialization.rs: queries and responses as the client and the server    *)
(* write and read them, and the sizes parameters.rs foretells.             *)
(*                                                                         *)
(* A message is a sequence of tokens that know their size in bytes.  The   *)
(* limbs of a ciphertext are packed as densely as 63 bits allow and        *)
(* unpacked by the reader; the value is the same.                          *)
(***************************************************************************)
EXTENDS WorkSplit, Sequences

CONSTANTS
  N,          \* coefficients of a polynomial
  K,          \* torus precision of queries and keys
  Base2k      \* limb size of keys

ASSUME WireAssumption == {N, K, Base2k} \subseteq Nat \ {0}

Dnum == 3

TransmitBits == 63
VecBytes(cols, k) == 5 * 8 + N * cols * CeilDiv(k, TransmitBits) * 8

Tag(scheme) == [kind |-> "tag", bytes |-> 1, value |-> scheme]
Number(x) == [kind |-> "number", bytes |-> 8, value |-> x]
Seed(s) == [kind |-> "seed", bytes |-> 32, value |-> s]
Compressed(ct) == [kind |-> "compressed", bytes |-> 4 + 4 + 32 + VecBytes(1, K), value |-> ct]
Ciphertext(ct, k) == [kind |-> "ciphertext", bytes |-> 4 + VecBytes(2, k), value |-> ct]

\* An entry of a gadget ciphertext has whole limbs, also beyond K.
Entry(x) == [kind |-> "entry", bytes |-> 4 + VecBytes(1, CeilDiv(K, Base2k) * Base2k), value |-> x]

Repeat(x, n) == [i \in 1 .. n |-> x]
Counted(f, n, token(_)) == <<Number(n)>> \o [i \in 1 .. n |-> token(f[i - 1])]

(***************************************************************************)
(* Writers                                                                 *)
(***************************************************************************)
WriteSeeded(seed, value, n) == <<Number(n)>> \o Repeat(Seed(seed), n) \o Repeat(Entry(value), n)

WriteAutoKey(key) == <<Number(key.p)>> \o WriteSeeded(key.seed, key.secret, Dnum)
WriteCompressedKey(key) == <<Number(key.stride)>> \o WriteAutoKey(key)

\* A query to the server of InsPIRe^2, of InsPIRe
WriteRecursionQuery(q, n0, n1) ==
  <<Tag("recursion")>> \o Counted(q.src0, n0, Compressed) \o Counted(q.src1, n1, Compressed)
    \o WriteCompressedKey(q.keys[0]) \o WriteCompressedKey(q.keys[1])
    \o WriteCompressedKey(q.keys[2])

WriteInterpolationQuery(q, n) ==
  <<Tag("interpolation")>> \o Counted(q.blocks, n, Compressed)
    \o WriteAutoKey(q.keyG) \o WriteAutoKey(q.keyH)
    \o WriteSeeded(q.root.seed, q.root, 2 * Dnum)

WriteRecursionResponse(resp1, resp2, n1, n2, k) ==
  LET token(ct) == Ciphertext(ct, k)
  IN <<Tag("recursion")>> \o Counted(resp1, n1, token) \o Counted(resp2, n2, token)

WriteInterpolationResponse(selected) == <<Tag("interpolation"), Ciphertext(selected, K)>>

(***************************************************************************)
(* Readers.  What is read is the beginning of the message; it is refused   *)
(* if it ends early, is of the other scheme, or has another number of      *)
(* parts than the reader's parameters and layout say.                      *)
(***************************************************************************)
Refused == [refused |-> TRUE]

\* Mutant: any number of parts is read.
AnyCount(got, expected) == TRUE

\* ensure_len
CountFits(got, expected) == got = expected

\* The tokens from position `at' on are of these kinds.
Continues(m, at, kinds) ==
  /\ Len(m) >= at + Len(kinds) - 1
  /\ \A i \in DOMAIN kinds : m[at + i - 1].kind = kinds[i]

\* A count and the tokens it announces start at position `at'.
Announces(m, at, kind, expected) ==
  /\ Continues(m, at, <<"number">>)
  /\ CountFits(m[at].value, expected)
  /\ Continues(m, at + 1, Repeat(kind, m[at].value))

Values(m, at) == [i \in 0 .. m[at].value - 1 |-> m[at + 1 + i].value]
After(m, at) == at + 1 + m[at].value

SeededTokens(n) == 1 + 2 * n
ReadsSeeded(m, at, n) ==
  Announces(m, at, "seed", n) /\ Continues(m, After(m, at), Repeat("entry", n))

AutoKeyTokens == 1 + SeededTokens(Dnum)
ReadsAutoKey(m, at) == Continues(m, at, <<"number">>) /\ ReadsSeeded(m, at + 1, Dnum)
AutoKeyAt(m, at) ==
  [p |-> m[at].value, seed |-> m[at + 2].value, secret |-> m[at + 2 + Dnum].value]

ReadsCompressedKey(m, at) == Continues(m, at, <<"number">>) /\ ReadsAutoKey(m, at + 1)
CompressedKeyAt(m, at) ==
  [stride |-> m[at].value, p |-> m[at + 1].value, seed |-> m[at + 3].value,
   secret |-> m[at + 3 + Dnum].value]

IsTagged(m, scheme) == Len(m) >= 1 /\ m[1].kind = "tag" /\ m[1].value = scheme

ReadRecursionQuery(m, n0, n1) ==
  LET key(k) == After(m, After(m, 2)) + k * (1 + AutoKeyTokens)
  IN IF /\ IsTagged(m, "recursion")
        /\ Announces(m, 2, "compressed", n0)
        /\ Announces(m, After(m, 2), "compressed", n1)
        /\ \A k \in 0 .. 2 : ReadsCompressedKey(m, key(k))
     THEN [src0 |-> Values(m, 2), src1 |-> Values(m, After(m, 2)),
           keys |-> [k \in 0 .. 2 |-> CompressedKeyAt(m, key(k))]]
     ELSE Refused

ReadInterpolationQuery(m, n) ==
  LET g == After(m, 2)
      root == g + 2 * AutoKeyTokens
  IN IF /\ IsTagged(m, "interpolation")
        /\ Announces(m, 2, "compressed", n)
        /\ ReadsAutoKey(m, g) /\ ReadsAutoKey(m, g + AutoKeyTokens)
        /\ ReadsSeeded(m, root, 2 * Dnum)
     THEN [blocks |-> Values(m, 2), keyG |-> AutoKeyAt(m, g), keyH |-> AutoKeyAt(m, g + AutoKeyTokens),
           root |-> m[After(m, root)].value]
     ELSE Refused

ReadRecursionResponse(m, n1, n2) ==
  IF /\ IsTagged(m, "recursion")
     /\ Announces(m, 2, "ciphertext", n1)
     /\ Announces(m, After(m, 2), "ciphertext", n2)
  THEN [resp1 |-> Values(m, 2), resp2 |-> Values(m, After(m, 2))]
  ELSE Refused

ReadInterpolationResponse(m) ==
  IF IsTagged(m, "interpolation") /\ Continues(m, 2, <<"ciphertext">>)
  THEN [selected |-> m[2].value] ELSE Refused

(***************************************************************************)
(* Sizes                                                                   *)
(***************************************************************************)
Bytes(m) == LET sum[i \in 0 .. Len(m)] == IF i = 0 THEN 0 ELSE sum[i - 1] + m[i].bytes IN sum[Len(m)]

CompressedBytes == 4 + 4 + 32 + VecBytes(1, K)
GadgetBytes(entries) == 8 + entries * 32 + entries * (4 + VecBytes(1, K))
CompressedKeyBytes == 8 + 8 + GadgetBytes(Dnum)

\* Mutant: one length prefix for the two vectors.
RecursionQuerySizeOnePrefix(n0, n1) == 1 + 8 + (n0 + n1) * CompressedBytes + 3 * CompressedKeyBytes

RecursionQuerySize(n0, n1) == 1 + 2 * 8 + (n0 + n1) * CompressedBytes + 3 * CompressedKeyBytes

RecursionResponseSize(n1, n2, k) == 1 + 2 * 8 + (n1 + n2) * (4 + VecBytes(2, k))
=============================================================================

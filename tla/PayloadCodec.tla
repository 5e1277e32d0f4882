---------------------------- MODULE PayloadCodec ----------------------------
(***************************************************************************)
(* payload.rs and encoding.rs: a payload is cut into digits, a digit is    *)
(* stored centred around zero in a word, and a digit is embedded into the  *)
(* torus grid of the ciphertexts and rounded back.  The program's words    *)
(* have 16 bits and its blocks 16 (or 32) words; here both are parameters. *)
(***************************************************************************)
EXTENDS Integers

CONSTANTS
  WordBits,   \* bits of a stored digit
  Words       \* words of a payload

ASSUME CodecAssumption == WordBits \in Nat \ {0, 1} /\ Words \in Nat \ {0}

Word == 2 ^ WordBits
Blocks == 0 .. Word ^ Words - 1

\* A number read as a signed word
AsWord(x) == ((x + Word \div 2) % Word) - Word \div 2

(***************************************************************************)
(* P65535: digits of the odd base below the word, one more digit than      *)
(* words, the digits above the half stored as negative numbers.            *)
(***************************************************************************)
OddBase == Word - 1
OddExponent == Words + 1

CentredDigit(d) == IF d > OddBase \div 2 THEN d - OddBase ELSE d
DigitOf(stored) == IF stored < 0 THEN stored + OddBase ELSE stored

EncodeOdd(v) ==
  [k \in 0 .. OddExponent - 1 |-> CentredDigit((v \div OddBase ^ k) % OddBase)]

\* Horner from the most significant digit, in limbs that wrap
DecodeOdd(digits) ==
  LET acc[k \in 0 .. OddExponent] ==
        IF k = OddExponent THEN 0
        ELSE (acc[k + 1] * OddBase + DigitOf(digits[k])) % Word ^ Words
  IN acc[0]

(***************************************************************************)
(* P65536: the words of the value, each read as a signed word.             *)
(***************************************************************************)
EncodeWords(v) == [k \in 0 .. Words - 1 |-> AsWord((v \div Word ^ k) % Word)]

DecodeWords(digits) ==
  LET acc[k \in 0 .. Words] ==
        IF k = Words THEN 0 ELSE acc[k + 1] * Word + (digits[k] % Word)
  IN acc[0]

(***************************************************************************)
(* ModPEncoder: residues modulo p on the grid of 2^bits torus points.      *)
(***************************************************************************)
CentredMod(x, p) == LET r == x % p IN IF r > p \div 2 THEN r - p ELSE r

\* Division rounded to the nearest, halves away from zero
RoundDiv(a, b) == IF a < 0 THEN -((b \div 2 - a) \div b) ELSE (a + b \div 2) \div b

EncodedUnit(p, bits) == RoundDiv(2 ^ bits, p)

CentredTorus(x, bits) ==
  LET r == x % 2 ^ bits IN IF r >= 2 ^ (bits - 1) THEN r - 2 ^ bits ELSE r

DecodeCoeff(x, p, bits) ==
  CentredMod(RoundDiv(CentredTorus(x, bits) * p, 2 ^ bits), p)

\* The inverse of a modulo p; the program panics when there is none.
Invertible(a, p) == \E h \in 1 .. p - 1 : (a * h) % p = 1
InvModP(a, p) == CHOOSE h \in 1 .. p - 1 : (a * h) % p = 1
=============================================================================

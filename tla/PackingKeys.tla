---------------------------- MODULE PackingKeys ----------------------------
(***************************************************************************)
(* packing/packing_keys.rs: the switching keys a client generates, and the *)
(* views of them that the server prepares: masks from the public seed,     *)
(* bodies per query.                                                       *)
(*                                                                         *)
(* A key that switches from secret u to secret v is a pair (mask, body)    *)
(* with body + mask * v = u.  The client's natural automorphism keys go    *)
(* from s to Galois(1/p, s); rotated by p they go from Galois(p, s) to s.  *)
(***************************************************************************)
EXTENDS NegacyclicRing

(* The natural automorphism key of p under s, its mask expanded from the seed *)
EncryptKey(p, s, seed) ==
  [p |-> p, mask |-> seed, body |-> Minus(s, Times(seed, Galois(GaloisInv(p), s)))]

(* The client's keys: the rotation by 5 and the conjugation, of one seed.
   sk_base is the LWE secret in its natural orientation. *)
GenerateKeys(s, seed) ==
  [g |-> EncryptKey(GaloisElement(1), s, seed), h |-> EncryptKey(-1, s, seed)]

(* The one key of partial packing, for the generator of order gamma *)
GeneratePartialKey(s, seed, stride) == [g |-> EncryptKey(GaloisElement(stride), s, seed)]

(* One projection of a key, moved by a rotation *)
SplitOutputKey(column, rotation) == IF rotation = 1 THEN column ELSE Galois(rotation, column)

(* The body of key_g in the view of each baby step *)
BabyKeyBodies(key, rotation, babySize, stride) ==
  [b \in 0 .. babySize - 1 |->
     SplitOutputKey(key.body, rotation * GaloisInv(GaloisElement(stride * b)))]

(* The bodies prepared per query.  The server asserts the rotation of each key. *)
PrepareKeys(keys, babySize, stride, partial) ==
  [babyKeyG |-> BabyKeyBodies(keys.g, GaloisElement(stride), babySize, stride),
   keyH |-> IF partial THEN << >> ELSE SplitOutputKey(keys.h.body, -1)]

KeysAccepted(keys, stride, partial) ==
  /\ keys.g.p = GaloisElement(stride)
  /\ ~partial => keys.h.p = -1 /\ keys.g.mask = keys.h.mask

(* Mutant: partial packing rotates the mask by the generator of full packing. *)
MaskKeyGFullRotation(seed, stride) == SplitOutputKey(seed, GaloisElement(1))

(* The masks of key_g and key_h, functions of the seed alone *)
MaskKeyG(seed, stride) == SplitOutputKey(seed, GaloisElement(stride))

MaskKeyH(seed) == SplitOutputKey(seed, -1)
=============================================================================

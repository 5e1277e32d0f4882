--------------------------- MODULE QueryMaterial ---------------------------
(***************************************************************************)
(* What client and server must agree on without sending it: the addresses  *)
(* of payloads (database/layout.rs) and the seeds of all public randomness *)
(* (client/seed.rs), and the one-hot blocks a query is made of             *)
(* (client/core.rs).                                                       *)
(*                                                                         *)
(* Encryption is perfect: a ciphertext is the secret it is encrypted under,*)
(* the seed its mask comes from, and its plaintext.  A seed is the draw of *)
(* the root it is and its last bytes.                                      *)
(***************************************************************************)
EXTENDS WorkSplit, Sequences, FiniteSets

\* Positions one after the other: the way to leave the others out
InOrder(positions) ==
  {f \in [1 .. Cardinality(positions) -> positions] : \A i, j \in DOMAIN f : i < j => f[i] < f[j]}

SubSeed(draw) == [draw |-> draw, low |-> "drawn"]
MaskRoot == SubSeed(0)
KeysRoot == SubSeed(1)
RootA == SubSeed(2)
RecursionA0 == SubSeed(3)
RecursionA1 == SubSeed(4)
RecursionKeySeed(k) == SubSeed(5 + k)

\* MaskSeeds::seed overwrites the last bytes with the number of the block.
MaskSeed(root, block) == [root EXCEPT !.low = block]

BlockCount(len, n) == CeilDiv(len, n)

\* encrypt_one_hot_blocks: one on position idx of len, cut into blocks of n
OneHotBlocks(secret, idx, len, n, root, one) ==
  [b \in 0 .. BlockCount(len, n) - 1 |->
    [secret |-> secret, seed |-> MaskSeed(root, b),
     plain |-> [c \in 0 .. n - 1 |-> IF idx = b * n + c THEN one ELSE 0]]]

(***************************************************************************)
(* A layout: coefficient rows and columns, digits per payload.  The height *)
(* of a column is the scheme's: n, or gamma0.                              *)
(***************************************************************************)
GridRows(L, height) == L.rows \div height
PayloadsPerColumn(L, height) == height \div L.exponent
PayloadsPerRow(L, height) == PayloadsPerColumn(L, height) * L.cols
NumPayloads(L, height) == GridRows(L, height) * PayloadsPerRow(L, height)

AddressFor(L, height, i) ==
  LET local == i % PayloadsPerRow(L, height)
  IN [matrix |-> i \div PayloadsPerRow(L, height),
      column |-> local % L.cols,
      offset |-> (local \div L.cols) * L.exponent]

\* The digit the database holds in a row of the grid's record at a column:
\* whole payloads below one another, then rows that hold none.
StoredDigit(L, height, digits(_), g, column, row) ==
  IF column < L.cols /\ row \div L.exponent < PayloadsPerColumn(L, height)
  THEN digits(g * PayloadsPerRow(L, height) + (row \div L.exponent) * L.cols + column)
         [row % L.exponent]
  ELSE 0
=============================================================================

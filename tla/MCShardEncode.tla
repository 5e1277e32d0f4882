-------------------------- MODULE MCShardEncode --------------------------
EXTENDS ShardEncode

Shape(n, cols, height, exponent, gridRows) ==
  [n |-> n, cols |-> cols, height |-> height, exponent |-> exponent, gridRows |-> gridRows]

\* Grid rows that share a group, a group that is not full, and several payloads to
\* a column; a full block of columns less; rows left over in a column; and digits,
\* groups and two column blocks, the second a narrow one, together.
MCLayouts == {Shape(4, 2, 2, 1, 3), Shape(4, 2, 4, 2, 2), Shape(4, 2, 4, 3, 3),
              Shape(4, 5, 2, 2, 3)}
=============================================================================

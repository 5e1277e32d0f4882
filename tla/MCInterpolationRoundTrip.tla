---------------------- MODULE MCInterpolationRoundTrip ----------------------
(* Rings of degree 8, payloads of two 4-bit words in three base-15 digits, two
   payloads and two rows of padding to a column. *)
EXTENDS InterpolationRoundTrip

DB(rows, cols, inPlace, threads, asks) ==
  [blockRows |-> rows, cols |-> cols, inPlace |-> inPlace, threads |-> threads,
   salt |-> rows + cols + threads, asks |-> asks]

\* First, last, both halves of a column, both blocks, every block row
MCCalls ==
  {DB(rows, 16, TRUE, 1, {}) : rows \in {1, 2, 3, 5}}
    \cup {DB(5, 16, FALSE, 3, {<<0>>, <<159>>, <<75, 50>>, <<13, 120, 160>>})}
    \cup {DB(3, 8, FALSE, 2, {<<47, 0>>, <<21>>, <<30, 30, 5>>})}
    \cup {DB(1, 16, FALSE, 2, {<<31>>, <<7, 24>>})}
=============================================================================

-------------------------- MODULE MCTiledProducts --------------------------
(* Vectors of two numbers, blocks of two rows, tiles of three: every loop has a
   full part and a rest. *)
EXTENDS TiledProducts

Body(kern, th, groups, n, rows, gamma, t) ==
  [kind |-> "body", kernel |-> kern, split |-> "cols", threads |-> th, groups |-> groups,
   blocks |-> 2, rowsOut |-> rows, width |-> 3, lastWidth |-> 2, n |-> n,
   gamma |-> gamma, t |-> t]

Mask(split, th, blocks, n) ==
  [kind |-> "mask", kernel |-> "scalar", split |-> split, threads |-> th, groups |-> 1,
   blocks |-> blocks, rowsOut |-> 2, width |-> 2, lastWidth |-> 1, n |-> n,
   gamma |-> 1, t |-> 1]

MCJobs ==
  {Body(kern, th, 2, 1, 6, 2, 5) : kern \in {"avx512", "avx2", "scalar"}, th \in {1, 2, 3, 5}}
    \cup {Body("scalar", th, 1, 2, 5, 5, 1) : th \in {1, 2, 3}}
    \cup {Body("scalar", th, 3, 2, 4, 1, 11) : th \in {2, 4}}
    \cup {Body("avx512", th, 1, 1, 5, 1, 4) : th \in {1, 2}}
    \cup {Mask(split, th, blocks, 3) : split \in {"cols", "blocks"}, th \in {1, 2, 4},
                                       blocks \in {1, 3}}
=============================================================================

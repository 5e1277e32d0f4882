------------------------ MODULE MCRecursionRoundTrip ------------------------
(* Rings of degree 8 and payloads of two 4-bit words: grid rows that fill their row
   groups or not, more grid rows than a block of the second level holds, a column
   block that is not full, digit batches that are padded. *)
EXTENDS RecursionRoundTrip

DB(gridRows, cols, g0, g1, g2, offlineThreads, cores, halfUp, asks) ==
  [gridRows |-> gridRows, cols |-> cols, gamma0 |-> g0, gamma1 |-> g1, gamma2 |-> g2,
   offlineThreads |-> offlineThreads, cores |-> cores, halfUp |-> halfUp,
   salt |-> gridRows + cols, asks |-> asks,
   strangers |-> {<<gridRows, cols + N>>, <<gridRows + N, cols>>, <<gridRows, cols + 1>>}]

MCCalls ==
  {DB(3, 8, 4, 4, 4, 2, 2, halfUp, {<<0>>, <<47, 20, 31>>, <<48, 2>>}) : halfUp \in BOOLEAN}
    \cup {DB(9, 11, 2, 4, 2, 3, 3, TRUE, {<<98, 17>>, <<50>>})}
    \cup {DB(1, 3, 4, 1, 4, 4, 1, FALSE, {<<5, 0>>})}
    \cup {DB(5, 8, 2, 2, 4, 2, 5, TRUE, {<<39, 1>>})}
=============================================================================

------------------------ MODULE MCRecursionServer ------------------------
EXTENDS RecursionServer

\* A one-payload write, and one that can straddle two stripes.
MCShardValues == {<<1>>, <<1, 0>>}
MCBatches == {{}, Index}
MCLoads == {[i \in Index |-> i % 2], Zeroed}
=============================================================================

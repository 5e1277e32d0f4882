-------------------------- MODULE MCRefreshLoop --------------------------
EXTENDS RefreshLoop

MCValues == 0 .. MaxVersion
MCBatches == {Index}
MCShardValues == {}
MCLoads == {}
=============================================================================

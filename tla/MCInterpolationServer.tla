---------------------- MODULE MCInterpolationServer ----------------------
EXTENDS InterpolationServer

\* Runs of one and of two payloads, a whole database, and batches of one, of all,
\* and of none.
Shards == {<<0>>, <<1>>, <<1, 0>>}
WholeLoads == {[i \in Index |-> 1]}
SomeBatches == {{}, {0}, {0, 1}}
=============================================================================

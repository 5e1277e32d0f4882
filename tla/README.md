# A TLA+ model of poulpy-pir

poulpy-pir is a single-server private information retrieval library: a server
holds an array of payloads, a client asks for one of them under homomorphic
encryption, and the server answers without learning which. The library offers
two constructions, InsPIRe (*interpolation*) and InsPIRe^2 (*recursion*), which
share the plaintext database, the packing of ciphertexts and the wire formats.
A keyword layer maps keys to payload indices.

The modules here are of two kinds. Those about *concurrency and failure* say which
database an answer comes from while precomputations are made beside the live
server, which worker writes which coefficient or answers which query, what a
panic or a restart leaves behind, and how copies of the keyword directory stay
in step. Those about *the way of a payload* follow a value through the code: from
its digits in the database, through the tiled products, the packing of
ciphertexts, the evaluation or second level of the scheme and the messages, back
to the client that asked for it. Paths below are relative to the crate's `src/`.

## 1. Inventory

### The parts and their state

| Part | Where | State | Operations |
|---|---|---|---|
| Payload database | `database/storage.rs`, `database/layout.rs` | coefficient matrices, shape | `from_layout`, `encode`, `encode_record`, `encode_shard`, `payload`; the placeholder shell of a context |
| InsPIRe^2 server | `server/mod.rs`, `server/recursion/` | database, SETUP state behind an `Arc`, precomputation, scratch arenas | `generate_query_mask`, `encode`, `update_shard`, `offline`, `respond`, `respond_batch`, `precomp_context`, `new_database`, `install` |
| Detached precomputation | `PrecompContext` in `server/mod.rs` | an inner server that shares the SETUP state and has a database slot of its own | `offline_for` |
| InsPIRe server | `server/interpolation/` | database, interpolated matrices, prepared panels, pack precomputations | `generate_query_mask`, `encode`, `update_shard`, `offline`, `respond`, `respond_batch` |
| Keyword directory | `keyword/directory.rs`, `keyword/mphf.rs` | perfect hash over a base set, delta of added keys and its reverse map, version, capacity | `push`, `index`, `rebuilt`, `write_to`, `read_from`, `write_delta_envelope_from`, `apply_delta_envelope` |
| Work assignment | `parallel.rs` | none | `num_threads`, `assign_panels`, `assign_blocks`, scoped runners |
| Tiled products | `server/common.rs`, `server/gemm.rs` | none | body product, batched body product, mask products |
| Packing | `packing/` | key and mask precomputations | partial packing, key aggregation, mask preprocessing |
| Interpolation | `interpolation/` | none | `interpolate_into`, Horner evaluation |
| Configuration | `config.rs`, `parameters.rs` | none | presets, builders, validation |
| Client | `client/` | secret key and per-query context | query generation, recovery |
| Payload codec | `payload.rs`, `encoding.rs` | none | centred base-p digits and back |
| Serialization | `serialization.rs` | none | readers and writers of keys, queries and responses |
| Placement | `numa.rs`, allocator tuning | none | system calls |

### How they interact

A server owns a database and multiplies its matrices twice: the *mask side* of
a response does not depend on a query and is computed ahead (`offline`), the
*body side* is computed per query from the live matrices. A response decrypts
only if both sides were made from the same coefficients.

For InsPIRe^2 a `PrecompContext` computes the mask side of *another* database
while the live server answers; `install` swaps that database and its
precomputation in together, and gives the retired database back to be refilled.
The context borrows nothing from the server: it shares the SETUP state through
an `Arc`, and everything else it touches is its own, so that the steps of
`offline_for` interleave with the calls of the server.

InsPIRe answers from matrices interpolated by `offline`, so a write is invisible
until the next one.

The keyword directory says at which index a payload lies. The server changes it
by `push` and `rebuilt`; clients follow by downloading it whole or by delta
envelopes. The indices only mean something together with the storage of the
same version, which the caller lays out.

A query is made by `client/` from the same layout arithmetic and public seeds as
the server's; it travels through the writers and readers of `serialization.rs`.
The server multiplies its bodies with the database (`server/common.rs`), packs
the products into ring ciphertexts (`packing/`) with what it precomputed from the
masks, and then either evaluates at the client's root (InsPIRe, `interpolation/`)
or cuts the ciphertexts into digits and selects among them once more (InsPIRe^2,
`server/recursion/packing.rs`). Work is dealt to threads at every stage by
`parallel.rs`.

### What is hard

* A precomputation runs beside writes, panics and other installs; two databases
  and two precomputations change hands by swaps (`server/mod.rs:559-577`,
  `743-764`), and a wrong pair does not fail: it decrypts to garbage.
* A panic between two assignments, caught by the caller, leaves a server or a
  context half way (`server/interpolation/offline.rs:144`, `server/mod.rs:757`).
* Work is dealt to threads by arithmetic done apart from the arithmetic of those
  who read the result: the scatter of a shard against the address of a payload,
  the three splits of a batch against each other.
* A coefficient's place is worked out many times over: by the encoder, the tile, the
  kernel's lane, the packed batch, the digit matrix, the query and the client. Padding,
  last groups and transpositions between these are where two of them could part.
* Sums are split over threads, trees and baby and giant steps, in orders chosen so that
  they can be precomputed; a term left out or under the wrong rotation gives noise.
* Delta envelopes arrive late, twice, out of order or cut, and across
  re-derivations and restarts; an undetected mismatch shifts every later index.

`PROJECT.json` lists every such hazard at its line, with the properties that
watch it.

### What correctness means, by part

| Part | Property |
|---|---|
| Database | a parallel scatter reads back as a sequential one; a panic never mixes two payloads; padding stays zero; payloads that are multiplied together are those of one stripe |
| InsPIRe^2 server | database and precomputation agree except where the caller wrote since; every answer is the live payload or lies in a stripe so written |
| Refresh loop | batches come from one snapshot; no client goes back in time; the source is served in the end |
| InsPIRe server | answers show what the last completed offline published, and nothing before there is one |
| Batched responses | each query gets the answer to itself; arenas are not shared, exceeded or lost; calls end |
| Keyword directory | keys have indices of their own; a client finds the record of its key where its copy says; copies are prefixes that move forward and catch up |
| Work assignment, products | every output adds each of its products once; splitting among threads keeps the order of additions |
| Packing | the aggregated masks are the direct sum; no step of the collapse loses anything; the packed ciphertext decrypts to the batch |
| Interpolation | the panels are the polynomials through the block rows; evaluation at a client's root gives its block row |
| Configuration | what validation accepts recovers its payloads; messages have the sizes advertised |
| Client | the coefficient a query selects, through both levels, is the one its recovery reads |
| Codec, serialization | payloads survive digits, torus and back; what the server works on is what the client wrote |

## 2. The modules

    PirData ──┬── RecursionServer ── RefreshLoop ──implements──> SnapshotStore
              ├── InterpolationServer
              └── SnapshotStore
    ShardEncode                  (justifies the stripes of PirData)
    RespondBatch                 (one respond_batch call of RecursionServer, inside)
    KeywordDirectory ── KeywordSync ──implements──> DirectoryLog

    WorkSplit ──┬── TiledProducts
                ├── Wire ──────────┐
                └── QueryMaterial ─┤
                     PayloadCodec ─┼── InterpolationRoundTrip
    NegacyclicRing ──┬─────────────┴── RecursionRoundTrip
                     └── PackingKeys ── Packing

Modules named `MC...` hold the definitions TLC needs for constants, those named
`..._proofs` the theorems. Every definition that models code is mapped to its
lines in `PROJECT.json`; definitions commented "Mutant" are faulty variants used
to show that a property can fail, and are part of no behaviour.

**PirData** is the database seen by the servers: a function from payload index
to value. The payloads `i` with one quotient `i \div Cols` share coefficient
rows (a *stripe*), which is the unit in which two databases must agree for a
product to decrypt. `Placeholder` is the database without matrices that a
context is created with.

**RecursionServer** has one action per call of `Server` and one per step of
`PrecompContext::offline_for` (`SwapIn`, `Precompute`, `SwapOut`, and
`PrecomputePanics` between them). Calls come in every order the API allows,
also in orders its documentation warns against. A precomputation is represented
by the database it was made from: that is all that decides whether a response
decrypts. `dirty` and `stagingDirty` are history variables.

**RefreshLoop** is the loop documented on `PrecompContext`, as composed by a
caller: detach once, fill, `offline_for`, `install`, refill what comes back. The
records come from a source that changes while they are copied, a call that
panics may be retried with the buffer at hand, with a new one, or given up with
the context, and several loops may run on one server.

**SnapshotStore** is what the loop is for: a store that is replaced as a whole
and read one batch at a time. `RefreshLoop` implements it with the installed
precomputation as the store, *not* the database: the two are the same only
because of the invariant.

**InterpolationServer** splits `offline` into its three assignments with a panic
before, between and after them. `torn` remembers that one fell between the last
two; the documented properties are claimed while it is false. While it is true
an answer may be any mixture, which is what the code does.

**ShardEncode** goes below PirData, to coefficients: which worker of
`try_encode_shard` walks which matrices, which cells it writes, and a reader's
address arithmetic, which is written independently of it in the code.

**RespondBatch** is `respond_recursion_batch`: chunks that fit the memory
budget, shares of queries, bodies, slots and arenas per worker, workers that
finish in any order or panic. A response is recorded as the query and the bodies
it was made from; the cryptographic finish of one query is one step.

**KeywordDirectory** has the operations of the directory as operators on
records, **KeywordSync** the server, the clients and what is between them,
**DirectoryLog** the abstract promise: generations with append-only lists, and
replicas that hold a prefix of one and move forward. The perfect hash is any
bijection from its build set to an initial segment and is arbitrary elsewhere.
`storage` is what the indices point at: the key of each record and the version
the records are laid out for. It is the caller's, who keeps to what `push` and
`rebuilt` ask for: whether a key is new is decided by looking at the record at its
index (`push` itself does not know the keys the hash was built over), a pushed
key's record is written, and after a re-derivation all records are rewritten
before anything is saved or sent. Two more rules are the deployment's and not the
code's, and are stated as such in the module: a server answers only from a state it
has saved and restarts from the last of them, and a client accepts a whole directory
only when its version is later than its own. The crate does no persistence itself, so
nothing in it enforces the first rule: a deployment that restarted from an older blob
could continue one version in two ways, and the runs and theorems on `KeywordSync`
say nothing about it.

**WorkSplit** is the arithmetic of `parallel.rs`, taken by the modules below it
in the diagram.

**TiledProducts** is the body product and both forms of the mask product: which
thread takes which band, strip or range of blocks, how a kernel walks rows and
lanes and what it leaves over, and how the accumulators are read apart into the
bodies of queries. A floating-point number is the *history* of its additions, so
that two numbers are equal in the model when they are equal bit for bit; the
rounding itself is not modelled. Each thread's next kernel call is a step.

**NegacyclicRing** is the ring `Z_Q[X]/(X^N + 1)`, exact; **PackingKeys** the
client's key-switching keys and the server's prepared views of them; **Packing**
one call of full or partial packing: aggregation of the masks by workers with
trees of their own, the collapse column by column, what it records, the change
into the views of baby steps, and the online pass group by group.

**PayloadCodec** is the two payload codecs, over words of fewer bits;
**QueryMaterial** what client and server derive independently and must agree on,
addresses and seeds; **Wire** the writers, readers and foretold sizes of messages,
as sequences of tokens that know how many bytes they are.

**InterpolationRoundTrip** and **RecursionRoundTrip** compose these into the way of a
payload through either scheme. Encryption is perfect: a ciphertext *is* its
secret, seed and plaintext, and a packed one decrypts to nonsense when the masks,
the precomputation and the keys it was made with do not belong together (that it
decrypts to the batch when they do is what Packing shows). In
InterpolationRoundTrip, `prepare` runs panel by panel and answering workers take
panels in any order. In RecursionRoundTrip each query of a batch runs through
`pack`, `decompose`, `resp1` and `resp2` beside the others, and before that its
message is on the way: one message of a batch may be cut at any place, or come
from a client with another layout. What the host does about a refusal, leaving
the query out of the batch, is the caller's part.

## 3. Model checking

| Run | Shows | Bounds |
|---|---|---|
| `recursion_server` | `TypeOK`, `LivePairAgrees`, `StagedPairAgrees`, `ContextsFollowSetup`, `GarbageOnlyFromDirtyStripes` under every order of calls, one detached worker beside the server | 2 stripes of 2 payloads, 2 values, 2 writes |
| `refresh_loop` | `ServedPairExact` and `ImplementsStore` with **two** loops on one server, a panic, every way of recovery | 2 stripes of 1 payload, the source changes each once, 1 panic |
| `refresh_loop_live` | `Converges`, with every way of recovery; `MonotonicReads`: no client sees an older payload after a newer one, at least until a context that lived through a panic unwinds a second time | 2 payloads, 2 changes each, 2 panics |
| `keyword_sync` | `OneKeyPerIndex`, `ClientsFindRecords`, `ImplementsLog`, `CatchesUp` over a transport that loses, repeats, reorders and cuts messages, with restarts, beside the records | 3 keys, 1 in the first base, capacities 2 and 3, 2 generations, 2 envelopes and 2 blobs in flight |
| `interpolation_server` | `ServesOneSnapshot`, `AnswersPublished`, `RefusesBeforeFirstOffline` | 2 payloads, 2 values; no bound on calls or panics |
| `shard_encode` | `ScatterIsSequential`, `PayloadsWhole`, `PaddingStaysZero`, `StripesShareRows`, two shards one after the other, with panics | four shapes, budgets of 2 and 3 workers, shards of 2 and 6 |
| `respond_batch` | `AnswersInOrder`, `SlabsFit`, `ArenasLostOnlyToPanics`, `CallsEnd` | 4 cores, batches up to 7 in chunks up to 5, 2 panics |
| `packing` | `AggregateIsReference`, `CollapseKeepsPhase`, `PackedDecrypts` for full and partial packing, workers in every order | degree 16, modulus 97, 40 calls |
| `tiled_products` | `EachProductOnce`, `SplitKeepsBits` for every interleaving of the threads | 2 lanes, blocks of 2 rows, tiles of 3; up to 3 row groups, 3 column blocks, 5 threads |
| `interpolation_round_trip` | `PanelsInterpolate`, `AnswersDecode`, in place and out of place | degree 8, 4-bit words, 1 to 5 block rows, batches up to 3 |
| `recursion_round_trip` | `DigitsRebuild`, `RecordsRecovered`, `OnlyWholeMessages`, `SizesAdvertised` | degree 8, 4-bit words, 1 to 9 grid rows, batches up to 3, one disturbed message a batch |
| `cores_busy` | *violation*: `EveryCoreBusy` | 4 cores, batches up to 4 |

### Why the bounds are enough for the cases that matter

* Two payloads in a stripe make it possible that a write to one spoils its
  neighbour, two stripes that the other stays exact, and shards of one and two
  that a write lies in one or straddles both. Two writes let one fall before a
  precomputation and one after it. `MaxWrites` is the only bound of this run:
  offline runs, panics, detours of a context and installs are not counted.
* `refresh_loop` has two workers so that installs overtake one another;
  `ShardLen = 1` makes the source change half way through a refill.
  `MaxVersion` bounds the source and `MaxPanics` the panics.
* Two panics in `refresh_loop_live` are what it takes
  for a database to come back from inside a context: one to leave it there, one
  to bring it out.
* `keyword_sync` has threshold 0, so the server may re-derive at any moment, even
  with the same keys; two messages in flight suffice for one to overtake
  another or to outlive its generation. One of the three keys is in the
  first base; the other two are pushed, in either order, before or after the
  hash is derived again, so that an index means different keys in the two
  generations. Capacity 2 leaves one key without a place, whichever comes last.
* The four shapes of `shard_encode` have, in turn: several grid rows in one
  matrix and a partial last group; several payloads in one column; rows a column
  has too many; two column blocks, the second a narrow one. Two and three
  workers for one to four matrices give chunks that are equal, unequal and fewer than the
  workers. `MaxShards` is 2: the second shard starts from whatever the first,
  complete or torn, left.
* Chunks of up to 5 queries on 4 cores give each regime of the split: several
  threads to a query, one thread to a query, more queries than cores with a
  remainder; a batch of 7 adds a second chunk of another size.
* Degree 16 gives packing seven steps in each half: groups of baby steps that are
  even, that end in a shorter one, a single group and groups of one. Masks, bodies
  and secrets are pseudo-random polynomials without symmetry, one choice for each
  call: every property is linear in them.
* `tiled_products` has remainders everywhere: lanes 2 and widths 3 and 2, blocks of two
  rows and bands of an odd number, fewer and more threads than row groups, strips
  that do not divide, a last column block that is narrower.
* The round trips use words of 4 bits and payloads of two words, so that every digit
  at the ends of its range occurs. Payloads are a quadratic function of their index,
  so that neighbours differ. The shapes have a column's padding,
  block rows that are no power of two, row groups that are full and not, grid rows
  beyond a block of the second level, digit batches with and without padding, and
  more or fewer threads than work. Every call of a run is one initial state.
* `K = 54` and `Base2k = 18` are the shipped presets'; sizes in bytes depend on them.

Deadlock is checked except in five runs, where the behaviours really stop: in
`recursion_server` and `shard_encode` a worker waits for a SETUP nobody calls or a
caller is done writing (the bounds `MaxWrites` and `MaxShards` are reached);
`packing`, `tiled_products` and `interpolation_round_trip` compute one call or a
given list of them and end.

### Fairness

* `refresh_loop_live`: weak fairness of each worker's loop and of SETUP. The
  loop is one thread that waits for nothing but the server's lock, and
  `offline_for` takes none; a thread the system schedules gets through. The
  source's changes are bounded, so the claim is about a source that rests.
  Panics are bounded for the same reason: a kernel that always panics never
  gets anything installed.
* `keyword_sync`: the server saves, and writes the records it has to (weak), messages
  in flight do not stay
  there for ever (weak), and a client that asks again and again gets an answer
  in the end (strong: answers may be lost, but not all of them). Without strong
  fairness the transport could lose every answer, and no client could be told
  anything. Losing, duplicating, overtaking and cutting stay possible throughout.
* `respond_batch`: weak fairness of the call in progress, including its workers;
  the scope joins them all and nothing in it blocks.

### Where code and documentation part

The first was met as a violation found by a run, the others while translating the code;
`PROJECT.json` lists them all under "findings".

* `server/recursion/online.rs:110-113` says that every core stays busy whichever
  way queries and cores divide. With three queries on four cores the code gives
  each query `4 / 3 = 1` thread, and one core has nothing to do (`cores_busy`).
* `keyword/directory.rs:40` and `:154` describe a directory that is re-derived
  once its delta has grown *past* the threshold. `needs_rebuild_at` (line 161)
  compares with `>=`: it asks at the threshold.
* `server/common.rs:621-623` promises the same of the body product's tiling; three row
  groups on four threads make six tiles, dealt two to a thread, and one thread has none.
* `server/recursion/params.rs:35` calls its validation shared by client and server; only
  the server's construction runs it.
* `serialization.rs:36-43` puts every ciphertext within about 1.15 times its
  information; those of an InsPIRe^2 response have 32 bits and take a limb of 64.

None gives a wrong answer.

### Behaviour met on the way

Not disagreements with a stated promise, but worth knowing:

* After a panic in `offline_for` the caller holds what the context held and the
  context holds the staging database. A caller that keeps both and retries can
  install the shell without matrices: the server then refuses to answer until
  the next install (`ServedPairExact` holds, there is no wrong answer). Later
  the shell comes back as a staging buffer that cannot be filled.
* After two such panics the buffer that comes back holds an old database, and
  installing it without refilling shows clients an older state. `MonotonicReads`
  therefore speaks of behaviours with at most one panic, and of all of them when the
  loop discards its context after a panic (`Recovery = {"discard"}`).
* InsPIRe's `offline` that panics between `prepared_u` and the pack
  precomputations leaves a server that still answers, from a mixture of two
  databases. `torn` marks that state; the next completed offline ends it.
* `Config::try_new` accepts InsPIRe with payloads of base 65536. The plaintext base is
  then even, and the inverse of the number of block rows that `offline` asks for does
  not exist when that is even: the encoder panics at the first offline. The runs have
  the odd base there.
* Sizes are foretold with the precision `k`, while the entries of keys travel with their
  limbs' full precision (`max_k`). With 54 bits in limbs of 18 the two are equal; with a
  precision that does not fill its limbs they may not be (`SizesAdvertised`).
* `Interpolation::prepare` is not what the server calls, and `assign_blocks` has no
  caller but its tests. The tests' shapes never give the eight-row path of the AVX512
  kernel a whole block (`server/gemm.rs`); `EachProductOnce` covers it.
* An assertion in `payload.rs` says 16 digits where a P65535 payload has 17.

## 4. Proofs

TLC shows the properties on the instances above. The theorems hold for every
value of the constants, under the `ASSUME`s of the modules, which say no more
than that sizes are natural numbers, that the special values (`Garbage`,
`Placeholder`, `Nothing`) are not payloads, databases or directories, that the inputs
are of their types (a layout's columns hold whole payloads, a call has positive sizes)
and, for the loop, that a refill is a whole number of shards and a payload value is its
version. `SyncAssumption` adds that keys are finitely many and the first base fits the
capacity. Two assumptions of `RecursionRoundTrip` supply what the provers do not know:
`PowersAssumption`, which `InterpolationRoundTrip` has too, states of the powers the parameters use (words, digits, payloads) that
they are powers, because `^` means nothing to the provers, and `NonsenseAssumption` that what
a wrong decryption yields is not a record (in `InterpolationRoundTrip`: not a polynomial).
There, `RoomAssumption` also says that the parameters leave room: the digits of a payload
hold its words, and a sum of one digit of either sign for each panel, scaled to the torus,
is told from its neighbours (the presets have at most 2 N = 2^12 panels, digits below 2^16 and a
torus of 54 bits, and need 44). `Packing` has the same assumption on the powers
of two, and `OddModulus`: the backend's shift to the right by log2(gamma) is division by
gamma, which in exact arithmetic is multiplication by an inverse, and that of a power of
two exists modulo odd numbers. Its inputs (masks, bodies, secrets, seeds) are the values
of a constant operator `Vector`, of which no more is assumed than that they are in the
ring. TLC evaluates all of these on the runs' instances.

| Theorem | States |
|---|---|
| `RefreshLoop_proofs` (on RecursionServer): `TypeCorrect`, `LivePairSafe`, `StagedPairSafe`, `SetupBeforeContexts`, `RepliesSafe` | the five properties of `recursion_server`, for any shape, any number of workers, clients and writes |
| `RefreshLoop_proofs`: `LoopTypeCorrect`, `LoopServesExactPairs`, `LoopImplementsStore` | the loop serves exact pairs and implements `SnapshotStore`, for any number of loops, panics and ways of recovery |
| `RefreshLoop_proofs`: `ReadsMonotonic` | with one loop on the server no client goes back to an older version, for any source and way of recovery (`MonotonicReads`) |
| `ShardEncode_proofs` (on InterpolationServer): `InspireTypeCorrect`, `OneSnapshot`, `PublishedOnly`, `RefusesFirst` | the properties of `interpolation_server`, for any database and history of failed offline runs |
| `TiledProducts_proofs` (on RespondBatch): `BatchTypeCorrect`, `AnswersSafe`, `SlabsSafe`, `ArenasSafe` | the safety properties of `respond_batch`, for any number of cores, any budget for bodies, any batch and any number of panics |
| `KeywordSync_proofs`: `TypeCorrect`, `KeysOwnIndices`, `RecordsFound`, `SyncImplementsLog` | the safety properties of `keyword_sync` and the refinement of `DirectoryLog`, for any keys, capacities, numbers of clients, generations and messages in flight |
| `ShardEncode_proofs`: `TypeCorrect`, `SequentialScatter`, `WholePayloads`, `PaddingZero`, `StripesShare` | the five properties of `shard_encode`, for any shape, any number of workers and any run of shards, with panics |
| `RecursionRoundTrip_proofs`: `CutMessagesRefused`, `WholeMessagesRead`, `WholeQueriesOnly`; `DigitsOfAnyCoefficient` | a query's message is read whole or refused, for any numbers of blocks and any cut, and so `OnlyWholeMessages`; the two words kept of a coefficient rebuild it, for any word size |
| `RecursionRoundTrip_proofs`: `DigitsAlwaysRebuild`, `RecordsAlwaysRecovered` | both digit databases rebuild what they were cut from (`DigitsRebuild`), and every client whose query is answered decodes the payload it asked for (`RecordsRecovered`), for any parameters, shapes, databases, threads and batches |
| `RecursionRoundTrip_proofs`: `SizesAlwaysAdvertised` | under `EntriesFill`, whole queries and all responses are as large as foretold (`SizesAdvertised`), for any database and batch |
| `TiledProducts_proofs`: `SplitIsSequential` | however many threads there are and however bands, strips, row tiles and vector blocks fall, a finished product is the sequential one, summand by summand (`SplitKeepsBits`) |
| `TiledProducts_proofs`: `ProductsAddedOnce` | a finished product is the sum of exactly its products, each added once (`EachProductOnce`), for any shape and kernel and also where threads take ranges of blocks |
| `InterpolationRoundTrip_proofs`: `PanelsAlwaysInterpolate` | read column by column, the panels are the polynomial that takes the block rows as its values at the roots and zero beyond the database (`PanelsInterpolate`), for any degree, odd base, shape and contents, in place or not |
| `InterpolationRoundTrip_proofs`: `AnswersAlwaysDecode` | what the server answers decodes to the payload at the index asked for (`AnswersDecode`), for any database, bases and torus, any number of threads in any order and any batch |
| `Packing_proofs`: `AggregateIsDirectSum`, `CollapseLosesNothing`, `PackingIsCorrect` | the three properties of `packing`, for any degree and odd modulus, any number of ciphertexts, baby-step and chunk size, any number of threads in any order and any vectors, packed fully or partially |
| `WorkSplit_proofs`: `PanelsAssignedOnce` | `assign_panels` is a partition without empty parts, for any number of panels and threads |

**RecursionServer.** `LivePairAgrees` is not inductive: whether `install` keeps
it depends on the worker's buffer and what was handed to it, and that on what
happens inside `offline_for`. The inductive invariant is

    IInv == TypeOK /\ InsideOfflineFor /\ LivePairAgrees
            /\ StagedPairAgrees /\ ContextsFollowSetup

where `InsideOfflineFor` says that a context exists while its worker is inside
the call, and that a computed mask side is that of the database now in the
context, which is the one the second swap gives back. Writes are handled by one
lemma, `EncodeShardAgrees`: a shard disturbs the agreement of a pair on the
stripes it touches and on no other, which rests on integer division
(`StripeRange`). The invariant's step is one lemma for each action.

**RefreshLoop** builds on the theorems of RecursionServer (every step of the
loop is a step of the server or leaves it alone). Its invariant adds
`LoopPlaces`: outside `offline_for` the worker is "ready", and between
`offline_for` and `install` the staging buffer *is* the database of the handed
precomputation. This gives `ServedPairExact` and, from it, the step simulation
of `SnapshotStore`: `install` and `offline` publish, a batch reads, every other
step stutters.

`MonotonicReads` compares two replies, and between them the server may have been out of
service, with nothing to compare either with. Its invariant, `FreshInv`, follows the
buffer that will be served next (`Pending`) through the loop and its panics: what is
served, and what clients have seen, is no newer than the source (`ServedNotAhead`); what
has been copied into the buffer since it was handed back is no older than either
(`PendingNotBehind`); and until the first panic the context keeps only a shell between
calls, so that a panic hands back a shell, never an old database (`KeptShell`). A second
panic of a context that was kept does hand one back, and the promise ends there. The
theorem is about one loop on a server: two of them may install in either order.

**InterpolationServer**'s invariant (`PhaseStored`) says what each of the three
assignments has stored at each place of `offline`, and what is untouched before.

**RespondBatch**'s invariant says of the scope that every slot is empty or holds
the answer that belongs there, and that the slots a worker has passed are filled.
That the collected slots are all filled then rests on arithmetic, proved apart
from the program: shares of a chunk that differ by one lie in the chunk
(`ShareInChunk`) and are all of it (`SharesCover`).

**WorkSplit** needs no invariant: a part starts where the one before ends
(`NextPart`), parts start in order, and the part an item is in is found by a division
(`PartsCover`), which takes the place of an induction over the parts.

**TiledProducts.** A number is the sequence of its summands, so that equality is equality
bit for bit. The sequential product is a recursive function, which the provers know
nothing about: `SequentialIs` shows that it is `AccTo`, written down without recursion, by
an induction over a *set* of block counts (`StepsReachAll`, from the well-foundedness of
the natural numbers). Each kernel, on the slice of rows a band reads, adds to every number
the summand it adds in the whole group: a row's place in a vector block (`VectorKernelAdds`),
in a tile of `RowTile` widened rows (`DenseKernelAdds`) or a column's place in a strip
(`StripAdds`) cancels out, by arithmetic on rows and columns (`RowAndColumn`, `PlaceIs`,
`PlaceInRows`). Tiles of a group have no place in common (`TilesApart`), each has one thread
(`TilesOfThread`), and they cover the group (`TilesCover`). The invariant `SplitInv` then says
that each number of each tile holds the blocks its own thread has added to it, in their
order (`BandsHold`), and the same of the strips and of the strips already joined
(`StripsHold`, `JoinedHold`).

That each product is added once needs three things more. What a kernel adds for one block
is each product of the row with the column, whatever the lanes leave over (`SummandAdds`),
and a number that has taken every block in order adds up its products (`AllBlocksAddUp`):
they are counted by a bijection (`ProductsNumber`), and the recursive count of
`AddsUpOnce` is a sum (`SumsAreUnique`, `RowsTogether`). The bodies stay what the
accumulators were split into, because no thread adds to them any more (`BodiesHold`), and
batch and coefficient pick the right row of the right group (`RowOfBatch`). Ranges of
blocks need an invariant of their own, `BlocksInv`: each partial sum holds the blocks its
thread has added, from the first of its range, and what is merged so far is the partial sums of
the first threads (`RangesHold`, `MergedHold`). Flattened, all of them are again the sum in
the order of the blocks (`FlatMerged`), since each range starts where the one before ends.

**KeywordSync.** `OneKeyPerIndex` speaks of the server and the clients, but what a
client becomes depends on what is under way and what was saved before a restart. The
inductive invariant ties all of them to one directory for each version:

    IInv == HistoryInv /\ ServerInv /\ SavedInv /\ StorageInv /\ CopiesInv

`history[v]` is the newest saved directory of version `v`; it is well formed, the
server's continues it (same hash, delta at least as long), `saved` is the one of its
version, every client's copy and every blob is a *part* of it (`PartOf`: same hash, a
first part of its delta) and every envelope a *segment* (`SegmentOf`: a stretch of its
delta from the position it states). `apply_delta_envelope` then gives a part of the same
directory, whatever the order of arrival (`ApplyKeepsPart`), and a part gives its keys
the whole's indices. A push loses no part; a re-derivation starts a version of which
nothing is under way yet, which is why a server sends only what it has saved. The
records follow (`StorageInv`): those of the server's keys are at their indices whenever
they are laid out for its version. `ImplementsLog` is the step simulation under
`history` and the clients' deltas as generations and replicas.

**ShardEncode.** The arithmetic comes first, apart from the program: an index has one
place, grid row, payload of the column and column (`PlaceOfIndex`, `IndexOfPlace`); a
worker that walks a matrix from the shard's start to its end writes exactly the places
of the shard in that matrix (`MatrixWritesAre`, `WritesAtAddresses`); the chunks of the
workers cover every matrix that has any (`ChunksCover`); so the plan is the shard
(`PlanIsShard`), each entry once, and the digits of two entries never meet
(`DigitsApart`). The invariant then says of every index of the shard that its payload is
new, or its write is still to be done, or a worker panicked (`ProgressInv`), and
`PayloadsWhole` and `PaddingStaysZero` are inductive beside it. All of this rests on
quotients and rests (`Quotient`, `OnePair`, `QuotientOf`, `QuotientMonotone`).

**RecursionRoundTrip.** The writer's message is taken apart token by token (`QueryIs`);
a reader that gets a beginning of it knows both counts before it has read past either
vector, and the last key's entries are the last tokens, so that whatever is not refused
is the whole message with the expected counts (`CutMessagesRefused`). The invariant is
that what is under way are beginnings of what clients of some layout wrote.
`DigitsOfAnyCoefficient` takes a word to be any even number and `qtilde` its square, of
which 2^16 is one.

`RecordsRecovered` follows a payload through both levels. Its invariant, `RunInv`, adds
to that of the messages that everything computed follows from the call and the queries:
what the offline phase stored (`OfflineInv`), what each query's thread has done at its place
(`OnlineInv`), the products prepared for the digits of the masks (`PreparedInv`), and that an answer to a client
of this database is the column it asked for of both digit databases (`AnswerInv`). The
argument rests on four groups of lemmas:

* *Sums.* A sum over a finite range is a recursive function. Two of them with equal
  summands are equal (`SumsAreUnique`), and a sum with one summand that is not zero is that
  summand, by induction over a set of lengths (`StepsReachAll`). So a row times a one-hot
  block is one entry (`DotOneHot`, `RowProductIs`, `PackProductIs`).
* *Order.* The slabs that the workers return are those of the items in item order, for
  any number of workers (`DealtInOrder`).
* *Congruence.* The mask terms of the query, the keys and the precomputation cancel
  modulo `qtilde` (`MaskTermsCongruent`, `ValueIs`).
* *Rounding.* What is left of a coefficient is congruent to its digit times the word
  size, and centring and rounding it give the digit, whatever its sign (`TorusDigit`); the two digits rebuild the coefficient (`DigitsOfAnyCoefficient`)
  and the payload's digits its value (`DecodedIs`).

TLC checked the four invariants on the instance of `recursion_round_trip` first.

`SizesAdvertised` does not hold for all constants: the foretold size uses the precision,
an entry its limbs' full precision (section 3). The theorem has the equality of the two
as its hypothesis (`EntriesFill`), which holds where the precision fills its limbs, as 54
bits fill three limbs of 18 in the presets, and in the run. A message's size is a sum over
its tokens; sums of two sequences add up (`WeighsBoth`), and that a response has the
number of ciphertexts the sizes count, whoever asked, is an invariant of its own
(`CountsInv`, which needs no client of this database, as `AnswerInv` does).

**InterpolationRoundTrip.** The inductive invariant, `IInv` of its proof module, says of
every block column which of two things it holds, in whichever place its panels are kept:
what was stored, or, for the first `next` of them, what the transform makes of that
(`Interpolated`). `PanelsInterpolate` alone says nothing before the last block column is
done. That the transform is the right one is arithmetic, in four steps:

* *Bits.* `Idft` starts from a permutation. Reversing the bits of an index takes the even
  places to the first half and the odd to the second (`ReversalOfHalf`), and reversing
  twice is no change (`ReversedTwice`).
* *Butterflies.* A run of 2^s polynomials has 2^s values, at the powers of a root of
  X^N = -1 (`ValueAt`). A level of butterflies joins two runs, and two values of the
  shorter runs make one value of the longer (`ValueDoubles`); after the last level, the one
  run left has t times the block rows as its values (`TransformIs`). The argument is about
  integers up to multiples of the odd base, at every exponent of X of either sign (`Turn`,
  `Mixes`).
* *The factor t.* t is a power of two and the base is odd, so t has an inverse
  (`InverseThere`), which `InvModP` finds.
* *Centring.* Entries are kept as digits of either sign; each is congruent to what it
  stands for (`CentredIs`, `InterpolatedScales`), so the value at a root, modulo the base,
  is the block row that was stored (`ValueIsRow`).

`AnswersDecode` needs, at every stage, what has been done so far: `RunInv` adds to `IInv`
that prepared_u is the interpolated panels, that of each worker's slots those are filled
which belong to panels it has finished (`Filled`; the workers' runs cover the panels and
do not meet, `PartsCover`, `PartsApart`), that every query is what a client asked for, and
that a response is what Horner's rule makes of the panels down to `next` (`HornerIs`).
TLC checked `IInv` and `RunInv` on the instance of `interpolation_round_trip` first. The
steps of the argument:

* *Messages.* What a client writes of a query is what the server reads (`ReceivedIs`).
* *Selection.* The product of a panel with the one-hot blocks is a column of the panel,
  times the unit of the encoding, modulo the torus (`DotOneHot`, `BodyIs`). The query
  packs with the precomputation of every panel, because masks, precomputation and keys
  come from the same seeds (`AskedIs`, `PanelAnswered`).
* *Horner.* `HornerIs` says of the coefficient at every exponent, of either sign, that it
  is the unit times a sum over the panels taken in so far, each turned by the root. The
  product with the root monomial is such a turn (`RootTimes`), so that a step takes one
  more panel into the sum (`HornerStarts`, `HornerGoes`).
* *Rounding.* When no panel is left, the sum is, modulo the odd base, the value of
  `PanelsInterpolate` at the block row's root (`ColumnsSum`). It is at most t times half
  the base, so that its multiple of the unit is within half a step of a multiple of what
  the rounding divides by (`TorusDigit`), and the digits are those stored
  (`CoefficientDecodes`); put together they are the payload (`ResponseDecodes`).

**Packing.** The polynomials are first made *signals*: what `At` reads of a polynomial at
every exponent of either sign, before numbers are taken modulo `Q` (`Unrolled`). There
rotation is a shift, an automorphism a change of exponents (`Twist`) and a product a sum
over any window of N exponents (`TurnReorders`, `SumTurned`), so that the laws of the
ring, `TimesAssociates`, `GaloisTimes`, `RotateTimes`, follow by rearranging sums, whose
arithmetic is in `WorkSplit_proofs`. Each invariant contains the one before:

* `AggregateInv`: what a worker's panel holds is the direct sum, column by column. A tree
  takes its leaves one by one, and after k of them its levels are occupied as the binary
  digits of k say, and together they hold the sum of the leaves (`TreeHolds`,
  `TreeStepHolds`, `StreamIsSum`). Joined in the workers' order the panels are the whole
  aggregate (`MergeIsReference`), because the chunks cover it (`ChunksCover`).
* `CollapseInv`: the phase of the columns left and of what has been recorded is that of
  the half. A step moves a column under the secret of its neighbour, and the client's key,
  in the view of that column, makes up for exactly what is recorded (`KeySwitches`,
  `SwitchKeepsPhase`).
* `FinishInv`: the mask left at the end, and the recorded products, decrypt to both halves
  (`FinishHolds`; the conjugation key joins them, `ConjugationSwitches`).
* `OnlineInv`: in the pool of workers the bodies grow by the chunks done so far. The baby
  steps and giant steps of a group give back its recorded steps (`GroupSumIs`), and the
  chunks are all groups (`AllGroups`), for every size of either.

What remains is that both halves together decrypt to the batch. The columns, each under
the secret of its own automorphism, add up to a sum of *traces*: of the images of a
polynomial under all the automorphisms used. Two images at a time, those terms cancel
whose exponents are odd multiples of a power of two, so that the trace over the powers
of 5^(2^(E-d)) keeps the exponents divisible by 2^d alone (`TraceInPairs`, `TraceIs`), and
with the conjugates, in full packing, the constant term (`WholeTraceIs`). A mask has been
rotated by its ciphertext's number, which is nearer to its place than any other such
exponent (`NearestMultiple`, `AtNear`): coefficient t is the part of ciphertext t
(`TotalPhaseAt`, `PhasesAre`), times the number of ciphertexts, by which the aggregate
had been divided (`InverseOfGamma`).

Only model-checked is liveness (`Converges`, `CatchesUp`, `CallsEnd`), which under fairness
is out of TLAPS's reach.

An induction theorem that takes an operator for a parameter cannot be used with these
provers: a recursive function can be reasoned about only where, as in TiledProducts, a
closed form of it can be written down, or, as in RecursionRoundTrip, the function is a
named sum and the induction is over a set.

## 5. Not modelled, and why

* Encryption, gadget decomposition, transforms and noise: lattice cryptography on a
  backend outside this repository. In RecursionServer and its like, whether a response
  decrypts is represented by whether its two sides come from one database; in the
  round trips, by whether masks, precomputations and keys belong together.
* The search for a perfect hash: vendored code, assumed correct.
* Rounding of floating-point sums: the order of the additions is modelled instead.
* The presets of `config.rs`: tables of numbers. Which of them keep the noise small is
  a matter of measurement.
* Timings, NUMA placement, allocator tuning, the environment variables and cells behind
  worker budgets: do not change what is stored.
* `usize` overflow: sizes are far below it; the one sum that could overflow is
  checked in the code (`database/storage.rs:372`).
* `apply_delta`/`write_delta_from`, the raw tail without a header: the code leaves
  its use to the caller. The entries it reads are those `ReadEntries` models.
* Mixed batches of both constructions: a server refuses queries of the other
  construction before it looks at any (`ensure_query_matches`).

## 6. Plan

What is left:

* **KeywordSync** composed with **RefreshLoop** in one service, where the rewritten
  records reach the live server by an `install`.

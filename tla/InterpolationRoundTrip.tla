----------------------- MODULE InterpolationRoundTrip -----------------------
(***************************************************************************)
(* A payload's way through the InsPIRe scheme: the database is interpolated*)
(* along its block rows (interpolation/), each panel is prepared and its   *)
(* mask product precomputed (server/interpolation/offline.rs), a client    *)
(* asks for a column of a block row (client/core.rs), workers multiply and *)
(* pack panel by panel (server/interpolation/online.rs), Horner evaluates  *)
(* the panels at the client's root, and the client decodes.                *)
(*                                                                         *)
(* Packing is taken from Packing: a body packs to its polynomial when the  *)
(* masks it was made with, the precomputation and the keys belong together,*)
(* and to nonsense otherwise.                                              *)
(***************************************************************************)
EXTENDS Wire, QueryMaterial, PayloadCodec

CONSTANTS
  TorusBits,   \* bits of a torus coefficient
  Calls,       \* databases and what is asked of them
  Nonsense     \* a decryption with the wrong mask or key

VARIABLES
  call,        \* the database's shape and contents, the threads, the questions
  stage,
  next,        \* the next block column to interpolate, or panel to evaluate
  working,     \* the polynomials interpolate works on, kept from block to block
  plain,       \* the database's matrices
  matrix,      \* the interpolated matrices, or the tail of an interpolation in place
  prepared,    \* prepared_u, by panel
  precomputed, \* the pack precomputations, by panel
  done,        \* worker -> panels it has finished
  queries,
  packed,      \* panel -> the packed answers, by query
  responses

vars == <<call, stage, next, working, plain, matrix, prepared, precomputed, done,
          queries, packed, responses>>

Digits == INSTANCE NegacyclicRing WITH Q <- OddBase
Torus == INSTANCE NegacyclicRing WITH Q <- 2 ^ TorusBits

Coef == 0 .. N - 1

-----------------------------------------------------------------------------
(* Shape and contents *)

Layout(c) == [rows |-> c.blockRows * N, cols |-> c.cols, exponent |-> OddExponent]
BlockRows(c) == c.blockRows
BlockCols(c) == BlockCount(c.cols, N)
Capacity(c) == NumPayloads(Layout(c), N)

Log2Up(m) == CHOOSE e \in 0 .. m : 2 ^ e >= m /\ \A d \in 0 .. e - 1 : 2 ^ d < m
Panels(c) == 2 ^ Log2Up(c.blockRows)

Positive == Nat \ {0}

ASSUME CallsAssumption ==
  /\ \E e \in 1 .. N : N = 2 ^ e
  /\ OddExponent <= N
  /\ Calls \subseteq [blockRows : Positive, cols : Positive, inPlace : BOOLEAN,
                      threads : Positive, salt : Nat, asks : SUBSET Seq(Nat)]
  /\ \A c \in Calls : c.cols % N = 0 /\ Panels(c) <= 2 * N

\* What powers are, as far as they are used here; the provers know nothing of them.
ASSUME PowersAssumption ==
  /\ 2 ^ 0 = 1
  /\ \A b \in {N, WordBits, TorusBits} \cup {c.blockRows : c \in Calls} :
       \A k \in 0 .. b - 1 : 2 ^ (k + 1) = 2 * 2 ^ k
  /\ OddBase ^ 0 = 1 /\ \A k \in 0 .. Words : OddBase ^ (k + 1) = OddBase * OddBase ^ k
  /\ Word ^ 0 = 1 /\ \A k \in 0 .. Words - 1 : Word ^ (k + 1) = Word * Word ^ k

\* The parameters leave room: on the torus a sum of one digit for each panel is told
\* from its neighbours, and the digits of a payload hold its words.
ASSUME RoomAssumption ==
  /\ TorusBits \in Nat \ {0}
  /\ \A c \in Calls : Panels(c) * (OddBase * OddBase) < 2 * 2 ^ TorusBits
  /\ Word ^ Words <= OddBase ^ OddExponent

\* A decryption with the wrong mask or key is told from one with the right ones.
ASSUME NonsenseAssumption == Nonsense \notin [Coef -> Int]

\* The payloads of a database, spread by a salt
PayloadOf(c, i) == (c.salt * 89 + 37 * i + 5 * i * i) % Word ^ Words

Stored(c, m, bc, row, col) ==
  LET digits(i) == EncodeOdd(PayloadOf(c, i))
  IN StoredDigit(Layout(c), N, digits, m, bc * N + col, row)

Matrices(c, rows) == 0 .. rows * BlockCols(c) - 1
ZeroMatrix == [row \in Coef |-> [col \in Coef |-> 0]]

Init ==
  /\ call \in Calls
  /\ stage = "interpolate" /\ next = 0
  /\ working = [m \in 0 .. Panels(call) - 1 |-> [col \in Coef |-> Digits!Zero]]
  /\ plain = [x \in Matrices(call, BlockRows(call)) |-> [row \in Coef |-> [col \in Coef |->
       Stored(call, x \div BlockCols(call), x % BlockCols(call), row, col)]]]
  /\ matrix = [x \in Matrices(call, IF call.inPlace THEN Panels(call) - BlockRows(call)
                                    ELSE Panels(call)) |-> ZeroMatrix]
  /\ prepared = <<>> /\ precomputed = <<>> /\ done = <<>>
  /\ queries = <<>> /\ packed = <<>> /\ responses = <<>>

t == Panels(call)
kb == BlockCols(call)
nb == BlockRows(call)

-----------------------------------------------------------------------------
(* Interpolation *)

BitReverse(x, bits) ==
  LET rev[k \in 0 .. bits] == IF k = 0 THEN 0 ELSE 2 * rev[k - 1] + ((x \div 2 ^ (k - 1)) % 2)
  IN rev[bits]

\* Elements i and bit_reverse(i) change places once, when the first is reached.
Permuted(y) == [i \in DOMAIN y |-> y[BitReverse(i, Log2Up(t))]]

\* The butterflies of width m: twiddles are powers of the monomial X^(-2N/m).
Butterflies(y, m) ==
  LET half == m \div 2
      turned(i, j) == Digits!Rotate(-(j * ((2 * N) \div m)), y[i])
  IN [i \in DOMAIN y |->
        LET j == i % m
        IN IF j < half THEN Digits!Plus(y[i], turned(i + half, j))
           ELSE Digits!Minus(y[i - half], turned(i, j - half))]

Idft(y) ==
  LET after[s \in 0 .. Log2Up(t)] ==
        IF s = 0 THEN Permuted(y) ELSE Butterflies(after[s - 1], 2 ^ s)
  IN after[Log2Up(t)]

\* Mutant: the polynomials beyond the database keep what the last block left.
LoadedOver(bc) ==
  [m \in 0 .. t - 1 |-> [col \in Coef |->
     IF m < nb THEN [row \in Coef |-> plain[m * kb + bc][row][col] % OddBase]
     ELSE working[m][col]]]

\* Matrix columns become polynomials over the rows; the rest of the set is cleared.
Loaded(bc) ==
  [m \in 0 .. t - 1 |-> [col \in Coef |->
     IF m < nb THEN [row \in Coef |-> plain[m * kb + bc][row][col] % OddBase]
     ELSE Digits!Zero]]

Scaled(w) ==
  [row \in Coef |-> [col \in Coef |->
     CentredMod(w[col][row] * InvModP(t, OddBase), OddBase)]]

\* One block column of interpolate_into, or of prepare, which overwrites the database
\* and puts the panels beyond it into a tail.
InterpolateBlock ==
  /\ stage = "interpolate" /\ next < kb
  /\ LET loaded == Loaded(next)
         byColumn == [col \in Coef |-> Idft([m \in 0 .. t - 1 |-> loaded[m][col]])]
         result == [m \in 0 .. t - 1 |-> [col \in Coef |-> byColumn[col][m]]]
         first == IF call.inPlace THEN nb ELSE 0
     IN /\ working' = result
        /\ plain' = [x \in DOMAIN plain |->
             IF call.inPlace /\ x % kb = next THEN Scaled(result[x \div kb]) ELSE plain[x]]
        /\ matrix' = [x \in DOMAIN matrix |->
             IF x % kb = next THEN Scaled(result[first + x \div kb]) ELSE matrix[x]]
  /\ next' = next + 1
  /\ stage' = IF next + 1 < kb THEN stage ELSE IF call.inPlace THEN "inPlace" ELSE "prepare"
  /\ UNCHANGED <<call, prepared, precomputed, done, queries, packed, responses>>

\* Interpolated::panel, and the interpolated matrices of the server
PanelMatrix(k, bc) ==
  IF ~call.inPlace THEN matrix[k * kb + bc]
  ELSE IF k < nb THEN plain[k * kb + bc] ELSE matrix[(k - nb) * kb + bc]

-----------------------------------------------------------------------------
(* Offline: panels to workers, results by slot *)

Groups == AssignPanels(t, call.threads)
Group(w) == Groups[w]
NoneDone == [w \in DOMAIN Groups |-> 0]
Start(parts, w) ==
  LET sum[v \in 0 .. w] == IF v = 0 THEN 0 ELSE sum[v - 1] + PartLen(t, parts, v - 1) IN sum[w]

\* The worker's next panel, and the slot of the output its slab puts it at
NextPanel(w) == (CHOOSE p \in Group(w) : \A q \in Group(w) : p <= q) + done[w]
NextSlot(w) == Start(Clamp(call.threads, 1, t), w) + done[w]
Finished == \A w \in DOMAIN Groups : done'[w] = PartLen(t, Clamp(call.threads, 1, t), w)

Works(w) ==
  /\ done[w] < PartLen(t, Clamp(call.threads, 1, t), w)
  /\ done' = [done EXCEPT ![w] = @ + 1]

PrepareU ==
  /\ stage = "prepare"
  /\ prepared' = [k \in 0 .. t - 1 |-> [bc \in 0 .. kb - 1 |-> PanelMatrix(k, bc)]]
  /\ precomputed' = [k \in 0 .. t - 1 |-> [panel |-> Nonsense]]
  /\ done' = NoneDone
  /\ stage' = "precompute"
  /\ UNCHANGED <<call, next, working, plain, matrix, queries, packed, responses>>

\* SETUP: the masks of the blocks of every query, from the public seed
SetupMasks == [bc \in 0 .. kb - 1 |-> MaskSeed(MaskRoot, bc)]

\* Of a throwaway key only the seed of its mask matters.
PackKeyMask == KeysRoot

\* compute_panel_precompute: the masks of U A, aggregated and collapsed
Precomputation(p) == [panel |-> p, masks |-> SetupMasks, keys |-> PackKeyMask]

PrecomputePanel(w) ==
  /\ stage = "precompute" /\ Works(w)
  /\ precomputed' = [precomputed EXCEPT ![NextSlot(w)] = Precomputation(NextPanel(w))]
  /\ stage' = IF Finished THEN "ready" ELSE stage
  /\ UNCHANGED <<call, next, working, plain, matrix, prepared, queries, packed, responses>>

-----------------------------------------------------------------------------
(* The client's query *)

RootExponent(m) == m * ((2 * N) \div t)

RootMonomial(exponent) ==
  LET e == exponent % (2 * N)
  IN [i \in Coef |-> IF e < N THEN IF i = e THEN 1 ELSE 0
                     ELSE IF i = e - N THEN 2 ^ TorusBits - 1 ELSE 0]

\* build_query: the root of the block row, under the secret of the query
RootQuery(who, m) == [secret |-> who, seed |-> RootA, plain |-> RootMonomial(RootExponent(m))]

\* pack_keys_generate: two keys of one mask, for the rotation and the conjugation
GaloisGenerator == 5

Query(who, i) ==
  LET a == AddressFor(Layout(call), N, i)
      key(p) == [secret |-> who, p |-> p, seed |-> KeysRoot]
  IN [keyG |-> key(GaloisGenerator), keyH |-> key(-1),
      blocks |-> OneHotBlocks(who, a.column, call.cols, N, MaskRoot,
                              EncodedUnit(OddBase, TorusBits)),
      root |-> RootQuery(who, a.matrix)]

\* What the server reads of the message a client wrote
Received(query) == ReadInterpolationQuery(WriteInterpolationQuery(query, kb), kb)

Asked(who, i) ==
  [index |-> i, address |-> AddressFor(Layout(call), N, i), query |-> Received(Query(who, i))]

\* try_query refuses an index beyond the capacity; the others are answered together.
Ask(indices) ==
  /\ stage = "ready"
  /\ \E accepted \in InOrder({i \in DOMAIN indices : indices[i] < Capacity(call)}) :
       queries' = [q \in DOMAIN accepted |-> Asked(q, indices[accepted[q]])]
  /\ packed' = [k \in 0 .. t - 1 |-> Nonsense]
  /\ done' = NoneDone
  /\ stage' = "answer"
  /\ UNCHANGED <<call, next, working, plain, matrix, prepared, precomputed, responses>>

-----------------------------------------------------------------------------
(* Online *)

SumTo(f(_), n) == LET sum[i \in 0 .. n] == IF i = 0 THEN 0 ELSE sum[i - 1] + f(i - 1) IN sum[n]

\* U b of one panel: the n numbers of one query
Body(p, q) ==
  [row \in Coef |->
     LET inBlock(bc) == LET term(c) == prepared[p][bc][row][c] * q.blocks[bc].plain[c]
                        IN SumTo(term, N)
     IN SumTo(inBlock, kb) % 2 ^ TorusBits]

\* Packing of q's body with the panel's precomputation and the keys of the query `owner'
Pack(p, q, owner) ==
  IF /\ precomputed[p].panel = p
     /\ \A bc \in 0 .. kb - 1 : /\ q.blocks[bc].seed = precomputed[p].masks[bc]
                                /\ q.blocks[bc].secret = owner.keyG.secret
     /\ owner.keyG.p = GaloisGenerator /\ owner.keyG.seed = precomputed[p].keys
     /\ owner.keyH = [owner.keyG EXCEPT !.p = -1]
  THEN Body(p, q) ELSE Nonsense

\* Mutant: the key precomputation of the first query serves the batch.
PackedBatchOneKey(p) ==
  [qi \in DOMAIN queries |-> Pack(p, queries[qi].query, queries[1].query)]

PackedBatch(p) == [qi \in DOMAIN queries |-> Pack(p, queries[qi].query, queries[qi].query)]

AnswerPanel(w) ==
  /\ stage = "answer" /\ Works(w)
  /\ packed' = [packed EXCEPT ![NextSlot(w)] = PackedBatch(NextPanel(w))]
  /\ stage' = IF Finished THEN "reduce" ELSE stage
  /\ UNCHANGED <<call, next, working, plain, matrix, prepared, precomputed, queries, responses>>

\* Panel-major answers become one list of panels per query; Horner starts with the
\* highest panel.
StartReduce ==
  /\ stage = "reduce"
  /\ responses' = [q \in DOMAIN queries |-> packed[t - 1][q]]
  /\ next' = t - 1
  /\ stage' = "horner"
  /\ UNCHANGED <<call, working, plain, matrix, prepared, precomputed, done, queries, packed>>

\* res = X^e res + coefficient, the product under the query's own root
HornerStep(res, root, coefficient) ==
  IF Nonsense \in {res, coefficient} THEN Nonsense
  ELSE Torus!Plus(Torus!Times(root.plain, res), coefficient)

Reduce ==
  /\ stage = "horner"
  /\ IF next = 0 THEN stage' = "answered" /\ UNCHANGED <<next, responses>>
     ELSE /\ responses' = [q \in DOMAIN queries |->
                             HornerStep(responses[q], queries[q].query.root, packed[next - 1][q])]
          /\ next' = next - 1
          /\ UNCHANGED stage
  /\ UNCHANGED <<call, working, plain, matrix, prepared, precomputed, done, queries, packed>>

\* try_decode: round to digits, take the payload's run, put the digits together.
Decoded(response, address) ==
  LET selected == ReadInterpolationResponse(WriteInterpolationResponse(response)).selected
      digit(i) == AsWord(DecodeCoeff(selected[i], OddBase, TorusBits))
  IN IF selected = Nonsense THEN Nonsense
     ELSE DecodeOdd([k \in 0 .. OddExponent - 1 |-> digit(address.offset + k)])

NextQuery ==
  /\ stage = "answered"
  /\ stage' = "ready" /\ queries' = <<>> /\ packed' = <<>> /\ responses' = <<>> /\ done' = <<>>
  /\ UNCHANGED <<call, next, working, plain, matrix, prepared, precomputed>>

Next ==
  \/ InterpolateBlock
  \/ PrepareU
  \/ \E w \in DOMAIN Groups : PrecomputePanel(w)
  \/ \E indices \in call.asks : Ask(indices)
  \/ \E w \in DOMAIN Groups : AnswerPanel(w)
  \/ StartReduce \/ Reduce
  \/ NextQuery

Spec == Init /\ [][Next]_vars

-----------------------------------------------------------------------------
(* Properties *)

\* What `Interpolation` is for: read column by column, the panels are the coefficients
\* of a polynomial that takes the database's m-th block row as its value at
\* X^(2N m / t), and zero at the roots beyond the database; in whichever place the
\* panels are kept.
PanelsInterpolate ==
  stage \in {"inPlace", "prepare"} =>
    \A m \in 0 .. t - 1, bc \in 0 .. kb - 1, col \in Coef :
      LET column(k) == [row \in Coef |-> PanelMatrix(k, bc)[row][col] % OddBase]
          value == Digits!PlusUpTo(
            [k \in 0 .. t - 1 |-> Digits!Rotate(((2 * N) \div t) * m * k, column(k))], t)
      IN value = [row \in Coef |->
                    IF m < nb THEN Stored(call, m, bc, row, col) % OddBase ELSE 0]

\* However panels are dealt to workers and queries to a batch, every query decodes
\* to the payload at its index: block row by the root, column by the one-hot blocks,
\* place in the column by the offset, digits through the torus and back.
AnswersDecode ==
  stage = "answered" =>
    \A q \in DOMAIN queries :
      Decoded(responses[q], queries[q].address) = PayloadOf(call, queries[q].index)
=============================================================================

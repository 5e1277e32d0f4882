------------------------- MODULE RecursionRoundTrip -------------------------
(***************************************************************************)
(* A payload's way through the InsPIRe^2 scheme.  The first level selects a *)
(* column of every grid row and packs each row into a ciphertext; the masks*)
(* of these ciphertexts do not depend on the query (offline.rs), the bodies*)
(* do (online.rs).  Both are cut into digits of one word, the digits are a *)
(* database of their own, and the second level selects the grid row from it*)
(* (packing.rs).  The client decrypts digits, puts the first level's       *)
(* ciphertext together again and decrypts that (client/recursion.rs).      *)
(* Queries and responses travel as messages (serialization.rs).            *)
(*                                                                         *)
(* Packing is taken from Packing: Gamma bodies pack to their polynomial in *)
(* the first Gamma coefficients, if masks, precomputation and keys belong  *)
(* together, and to nonsense otherwise.  Chunks of queries are RespondBatch's *)
(* subject: a batch here is one chunk.                                     *)
(***************************************************************************)
EXTENDS Wire, QueryMaterial, PayloadCodec

CONSTANTS
  Calls,      \* databases, thread counts and what is asked
  Nonsense    \* a decryption with the wrong mask or key

VARIABLES
  call,       \* the database's shape and contents, the gammas, the threads, the questions
  stage,
  database,   \* physical row group -> column block -> matrix
  l1Precompute,
  maskData,   \* digit of a coefficient of the mask -> grid row -> digit
  resp1Prep, resp1Precompute,
  mail,       \* messages under way, each with what its client knows
  queries,
  bodies,     \* query -> grid row -> the first level's body
  phase,      \* query -> what its worker does next
  resp0, bodyData, resp1, resp2

offline == <<database, l1Precompute, maskData, resp1Prep, resp1Precompute>>
online == <<mail, queries, bodies, phase, resp0, bodyData, resp1, resp2>>
vars == <<call, stage, offline, online>>

Tau == 2                       \* words of a switched coefficient
QTilde == Word ^ Tau
Ring == INSTANCE NegacyclicRing WITH Q <- QTilde

\* What powers are, as far as they are used here; the provers know nothing of them.
ASSUME PowersAssumption ==
  /\ 2 ^ 0 = 1 /\ \A k \in 0 .. Tau * WordBits - 1 : 2 ^ (k + 1) = 2 * 2 ^ k
  /\ Word ^ 0 = 1 /\ \A k \in 0 .. Most(Words, Tau) - 1 : Word ^ (k + 1) = Word * Word ^ k

\* A decryption with the wrong mask or key is told from one with the right ones.
ASSUME NonsenseAssumption == \A n \in 1 .. N * Tau : Nonsense \notin [0 .. n - 1 -> Int]

Coef == 0 .. N - 1

-----------------------------------------------------------------------------
(* Shape and contents *)

Layout(c) == [rows |-> c.gridRows * c.gamma0, cols |-> c.cols, exponent |-> Words]
Capacity(c) == NumPayloads(Layout(c), c.gamma0)

\* What Config::try_new lets through
Accepted(c) == Words <= c.gamma0 /\ c.gamma0 % Words = 0

\* assert_params_valid: gammas are powers of two up to half the degree
ParamsValid(c) ==
  /\ N >= 4 /\ \E e \in 2 .. N : N = 2 ^ e
  /\ \A g \in {c.gamma0, c.gamma1, c.gamma2} :
       g \in 1 .. N \div 2 /\ \E e \in 0 .. N : g = 2 ^ e
  /\ {c.gridRows, c.cols} \subseteq Nat \ {0}

Positive == Nat \ {0}

ASSUME CallsAssumption ==
  /\ Calls \subseteq [gridRows : Positive, cols : Positive, gamma0 : Positive, gamma1 : Positive,
                     gamma2 : Positive, offlineThreads : Positive, cores : Positive,
                     halfUp : BOOLEAN, salt : Nat,
                     asks : SUBSET Seq(Nat), strangers : SUBSET (Positive \X Positive)]
  /\ \A c \in Calls : Accepted(c) /\ ParamsValid(c)

rowsPerGroup == N \div call.gamma0
physicalRows == CeilDiv(call.gridRows, rowsPerGroup)
columnBlocks == CeilDiv(call.cols, N)
t == call.gridRows

PayloadOf(c, i) == (c.salt * 89 + 37 * i + 5 * i * i) % Word ^ Words

\* A grid row is gamma0 rows of its group's matrices; the last group may have spare rows.
Stored(c, group, block, row, col) ==
  LET digits(i) == EncodeWords(PayloadOf(c, i))
      g == group * (N \div c.gamma0) + row \div c.gamma0
  IN IF g < c.gridRows
     THEN StoredDigit(Layout(c), c.gamma0, digits, g, block * N + col, row % c.gamma0)
     ELSE 0

Init ==
  /\ call \in Calls
  /\ stage = "l1"
  /\ database = [rg \in 0 .. physicalRows - 1 |-> [bl \in 0 .. columnBlocks - 1 |->
       [row \in Coef |-> [col \in Coef |-> Stored(call, rg, bl, row, col)]]]]
  /\ l1Precompute = <<>> /\ maskData = <<>> /\ resp1Prep = <<>> /\ resp1Precompute = <<>>
  /\ mail = <<>> /\ queries = <<>> /\ bodies = <<>> /\ phase = <<>>
  /\ resp0 = <<>> /\ bodyData = <<>> /\ resp1 = <<>> /\ resp2 = <<>>

-----------------------------------------------------------------------------
(* Threads and digits *)

SumTo(f(_), n) == LET sum[i \in 0 .. n] == IF i = 0 THEN 0 ELSE sum[i - 1] + f(i - 1) IN sum[n]

\* Items dealt to workers in groups; each worker fills the slab its groups' lengths give it.
Dealt(count, threads, item(_)) ==
  LET work == AssignPanels(count, threads)
      len(w) == PartLen(count, Clamp(threads, 1, count), w)
      slab(w) == SumTo(len, w)
      owner(slot) == CHOOSE w \in DOMAIN work : slab(w) <= slot /\ slot < slab(w) + len(w)
      first(w) == CHOOSE p \in work[w] : \A q \in work[w] : p <= q
  IN [slot \in 0 .. count - 1 |-> item(first(owner(slot)) + (slot - slab(owner(slot))))]

\* External, glwe_normalize: limbs, the highest first, none beyond half a word.  Which end
\* a limb exactly in the middle takes is the call's.
NormalizedLimb(x) ==
  LET d == AsWord(x) IN IF call.halfUp /\ d = -(Word \div 2) THEN Word \div 2 ELSE d

Normalized(x) ==
  LET rest[l \in 0 .. Tau - 1] ==      \* what limbs 0 .. l have to represent
        IF l = Tau - 1 THEN x ELSE (rest[l + 1] - NormalizedLimb(rest[l + 1])) \div Word
  IN [l \in 0 .. Tau - 1 |-> NormalizedLimb(rest[l])]

\* The carry out of a limb that balance_base2k16 moves up
Carry(v) == (v + Word \div 2) \div Word

\* Mutant: each limb is brought into a word and its carry dropped.
BalancedNoCarry(limbs) == [l \in 0 .. Tau - 1 |-> limbs[l] - Carry(limbs[l]) * Word]

\* balance_base2k16: from the lowest limb up; the highest keeps what it receives.
Balanced(limbs) ==
  LET sum[l \in 0 .. Tau - 1] ==
        limbs[l] + IF l = Tau - 1 THEN 0 ELSE Carry(sum[l + 1])
  IN [l \in 0 .. Tau - 1 |-> IF l = 0 THEN sum[0] ELSE sum[l] - Carry(sum[l]) * Word]

\* modulus_switch_to_digits of a coefficient, and its limb as i16
SwitchedDigit(x, l) == AsWord(Balanced(Normalized(x))[l])

\* The digits of the polynomials p[k] as a database: row c * Tau + l, column k
DigitData(height, p(_)) ==
  [d \in 0 .. height * Tau - 1 |-> [k \in 0 .. t - 1 |-> SwitchedDigit(p(k)[d \div Tau], d % Tau)]]

-----------------------------------------------------------------------------
(* Offline *)

Stride(gamma) == (N \div 2) \div gamma
GaloisElement(stride) == 5 ^ stride % (2 * N)
q0Masks == [bl \in 0 .. columnBlocks - 1 |-> MaskSeed(RecursionA0, bl)]
q1Masks == [bl \in 0 .. CeilDiv(t, N) - 1 |-> MaskSeed(RecursionA1, bl)]

\* The mask of a key depends on its seed and stride only.
KeyMask(k, gamma) == [seed |-> RecursionKeySeed(k), stride |-> Stride(gamma)]

\* compute_l1_row_group: one precomputation for each grid row the group has
RowGroup(rg) ==
  [local \in {l \in 0 .. rowsPerGroup - 1 : rg * rowsPerGroup + l < t} |->
     [db |-> <<rg, local * call.gamma0>>, masks |-> q0Masks,
      key |-> KeyMask(0, call.gamma0)]]

OfflineL1 ==
  /\ stage = "l1"
  /\ LET outputs == Dealt(physicalRows, WorkerBudget(0, call.offlineThreads, physicalRows), RowGroup)
     IN l1Precompute' = [k \in 0 .. t - 1 |-> outputs[k \div rowsPerGroup][k % rowsPerGroup]]
  /\ stage' = "masks"
  /\ UNCHANGED <<call, database, maskData, resp1Prep, resp1Precompute, online>>

\* final_mask: some polynomial that the precomputation determines
FinalMask(pre) ==
  LET x == call.salt + pre.db[1] * N + pre.db[2]
  IN [i \in Coef |-> (71 * x + (x + 3) * (i + 1) * (i + x + 2) + i * i * i) % QTilde]

\* materialize_precomputed_masks and the digits of resp0's masks
OfflineMaskData ==
  /\ stage = "masks"
  /\ LET mask(k) == FinalMask(l1Precompute[k]) IN maskData' = DigitData(N, mask)
  /\ stage' = "resp1"
  /\ UNCHANGED <<call, database, l1Precompute, resp1Prep, resp1Precompute, online>>

\* Rows of a digit database, cut into matrices: gamma rows by n columns
DigitMatrix(data, gamma, m) ==
  [bl \in DOMAIN q1Masks |-> [j \in 0 .. gamma - 1 |-> [b \in Coef |->
     IF m * gamma + j \in DOMAIN data /\ bl * N + b < t
     THEN data[m * gamma + j][bl * N + b] ELSE 0]]]

\* precompute_pack_mask_inner: the matrices, and what packing their products will need
MaskBatches(data, gamma, key, maxThreads) ==
  LET total == CeilDiv(Cardinality(DOMAIN data), gamma)
      batch(m) == LET matrix == DigitMatrix(data, gamma, m)
                  IN [prep |-> matrix,
                      precompute |-> [db |-> matrix, masks |-> q1Masks, key |-> key]]
  IN Dealt(total, Least(WorkerBudget(0, call.offlineThreads, total), Most(maxThreads, 1)), batch)

OfflineResp1 ==
  /\ stage = "resp1"
  /\ LET batches == MaskBatches(maskData, call.gamma1, KeyMask(1, call.gamma1), call.offlineThreads)
     IN /\ resp1Prep' = [m \in DOMAIN batches |-> batches[m].prep]
        /\ resp1Precompute' = [m \in DOMAIN batches |-> batches[m].precompute]
  /\ stage' = "ready"
  /\ UNCHANGED <<call, database, l1Precompute, maskData, online>>

-----------------------------------------------------------------------------
(* The client's query *)

SecretPoly(who) == [i \in Coef |-> ((who * who + 3 * i + i * i * who) % 3) - 1]

Query(shape, who, i) ==
  LET L == Layout(shape)
      a == AddressFor(L, shape.gamma0, i)
      key(k, gamma) == [secret |-> who, p |-> GaloisElement(Stride(gamma)),
                        seed |-> RecursionKeySeed(k), stride |-> Stride(gamma)]
  IN [src0 |-> OneHotBlocks(who, a.column, shape.cols, N, RecursionA0, 1),
      src1 |-> OneHotBlocks(who, a.matrix, shape.gridRows, N, RecursionA1, 1),
      keys |-> [k \in 0 .. 2 |-> key(k, <<shape.gamma0, shape.gamma1, shape.gamma2>>[k + 1])]]

Client(shape, who, i) ==
  [shape |-> shape, index |-> i, secret |-> who,
   address |-> AddressFor(Layout(shape), shape.gamma0, i), query |-> Query(shape, who, i)]

Written(client) ==
  WriteRecursionQuery(client.query, BlockCount(client.shape.cols, N),
                      BlockCount(client.shape.gridRows, N))

Sent(client) == [client |-> client, message |-> Written(client)]
IsWhole(m) == m.message = Written(m.client)
IsOwn(client) == client.shape = call

\* Clients of this database build queries; an index beyond the capacity is refused.
Ask(indices) ==
  /\ stage = "ready"
  /\ \E accepted \in InOrder({i \in DOMAIN indices : indices[i] < Capacity(call)}) :
       mail' = [q \in DOMAIN accepted |-> Sent(Client(call, q, indices[accepted[q]]))]
  /\ stage' = "sent"
  /\ UNCHANGED <<call, offline, queries, bodies, phase, resp0, bodyData, resp1, resp2>>

\* What goes wrong on the way, once to a batch
Undisturbed == \A q \in DOMAIN mail : IsWhole(mail[q]) /\ IsOwn(mail[q].client)

\* A message ends early.
Cut(q) ==
  /\ stage = "sent" /\ Undisturbed
  /\ \E n \in 0 .. Len(mail[q].message) - 1 :
       mail' = [mail EXCEPT ![q].message = SubSeq(@, 1, n)]
  /\ UNCHANGED <<call, stage, offline, queries, bodies, phase, resp0, bodyData, resp1, resp2>>

\* A client of a database of another shape writes to this server.
Misdirect(shape) ==
  /\ stage = "sent" /\ Undisturbed
  /\ mail' = Append(mail, Sent(Client([call EXCEPT !.gridRows = shape[1], !.cols = shape[2]],
                                      Len(mail) + 1, 0)))
  /\ UNCHANGED <<call, stage, offline, queries, bodies, phase, resp0, bodyData, resp1, resp2>>

-----------------------------------------------------------------------------
(* Online *)

\* Mutant: the columns of the batch are taken to be contiguous.
AccAtQueryMajor(acc, nq, row, qi) == acc[qi * N + row]

\* Rows of the batched product are interleaved: the queries are the fastest index.
AccAt(acc, nq, row, qi) == acc[row * nq + qi]

\* recursion_l1_bodies: one product per row group for the whole batch, then split by grid row
L1Bodies(qs) ==
  LET nq == Cardinality(DOMAIN qs)
      product(rg, row, qi) ==
        LET block(bl) == LET term(c) == database[rg][bl][row][c] * qs[qi + 1].src0[bl].plain[c]
                         IN SumTo(term, N)
        IN SumTo(block, columnBlocks)
      acc == [rg \in 0 .. physicalRows - 1 |->
                [x \in 0 .. N * nq - 1 |-> product(rg, x \div nq, x % nq)]]
      body(rg, start, qi) ==
        [db |-> <<rg, start>>,
         plain |-> [j \in 0 .. call.gamma0 - 1 |-> AccAt(acc[rg], nq, start + j, qi)]]
  IN [q \in DOMAIN qs |-> [k \in 0 .. t - 1 |->
        body(k \div rowsPerGroup, (k % rowsPerGroup) * call.gamma0, q - 1)]]

\* The host reads what arrived and leaves out what it could not read.
Receive ==
  /\ stage = "sent"
  /\ LET read(q) == ReadRecursionQuery(mail[q].message, columnBlocks, CeilDiv(t, N))
     IN \E accepted \in InOrder({q \in DOMAIN mail : read(q) # Refused}) :
          /\ queries' = [q \in DOMAIN accepted |->
               [client |-> mail[accepted[q]].client, query |-> read(accepted[q])]]
          /\ stage' = IF accepted = <<>> THEN "ready" ELSE "received"
  /\ mail' = <<>>
  /\ UNCHANGED <<call, offline, bodies, phase, resp0, bodyData, resp1, resp2>>

\* The batch, which is not empty: bodies first, then the workers start.
Respond ==
  /\ stage = "received"
  /\ bodies' = L1Bodies([q \in DOMAIN queries |-> queries[q].query])
  /\ phase' = [q \in DOMAIN queries |-> "pack"]
  /\ resp0' = [q \in DOMAIN queries |-> <<>>] /\ bodyData' = [q \in DOMAIN queries |-> <<>>]
  /\ resp1' = [q \in DOMAIN queries |-> <<>>] /\ resp2' = [q \in DOMAIN queries |-> <<>>]
  /\ stage' = "finish"
  /\ UNCHANGED <<call, offline, mail, queries>>

nq == Cardinality(DOMAIN queries)
threadsPerQuery == Most(call.cores \div nq, 1)
parallelQueries == Most(Least(call.cores \div threadsPerQuery, nq), 1)

\* A worker takes its queries one after the other.
Turn(q, ph) ==
  /\ stage = "finish" /\ phase[q] = ph
  /\ \E w \in 0 .. parallelQueries - 1 :
       /\ q - 1 \in Part(nq, parallelQueries, w)
       /\ \A p \in Part(nq, parallelQueries, w) : p < q - 1 => phase[p + 1] = "done"

PackThreads(count) == Least(WorkerBudget(0, call.cores, count), threadsPerQuery)

\* Whether a precomputation serves a product with these blocks and this key
Fits(pre, db, blocks, key) ==
  /\ pre.db = db /\ pre.key.seed = key.seed /\ pre.key.stride = key.stride
  /\ key.p = GaloisElement(key.stride)
  /\ \A bl \in DOMAIN blocks : blocks[bl].seed = pre.masks[bl] /\ blocks[bl].secret = key.secret

\* Coefficient c of a * s, s with coefficients -1, 0 and 1
MaskTerm(a, s, c) == LET term(i) == a[i] * Ring!At(s, c - i) IN SumTo(term, N)

\* A first-level ciphertext: body + mask * s is the record, scaled, in gamma0 coefficients;
\* the rest is some other value.
PackedL1(q, k) ==
  LET pre == l1Precompute[k]
      body == bodies[q][k]
      secret == [i \in Coef |-> SecretPoly(queries[q].client.secret)[i] % QTilde]
  IN IF ~Fits(pre, body.db, queries[q].query.src0, queries[q].query.keys[0]) THEN Nonsense
     ELSE [c \in Coef |->
             IF c < call.gamma0
             THEN (body.plain[c] * Word ^ (Tau - 1) - MaskTerm(FinalMask(pre), secret, c)) % QTilde
             ELSE (c + k + 1) % QTilde]

PackL1(q) ==
  /\ Turn(q, "pack")
  /\ LET item(k) == PackedL1(q, k) IN resp0' = [resp0 EXCEPT ![q] = Dealt(t, PackThreads(t), item)]
  /\ phase' = [phase EXCEPT ![q] = "decompose"]
  /\ UNCHANGED <<call, stage, offline, mail, queries, bodies, bodyData, resp1, resp2>>

\* The digits of the bodies, of the first gamma0 coefficients
DecomposeBody(q) ==
  /\ Turn(q, "decompose")
  /\ LET body(k) == IF resp0[q][k] = Nonsense THEN Ring!Zero ELSE resp0[q][k]
     IN bodyData' = [bodyData EXCEPT ![q] = DigitData(call.gamma0, body)]
  /\ phase' = [phase EXCEPT ![q] = "resp1"]
  /\ UNCHANGED <<call, stage, offline, mail, queries, bodies, resp0, resp1, resp2>>

\* pack_bodies_pooled: what the packed products of digit matrices decrypt to
PackedDigits(q, prep, precompute, gamma, key) ==
  LET product(m, j) ==
        LET block(bl) == LET term(b) == prep[m][bl][j][b] * queries[q].query.src1[bl].plain[b]
                         IN SumTo(term, N)
        IN SumTo(block, Cardinality(DOMAIN q1Masks))
      item(m) == IF Fits(precompute[m], prep[m], queries[q].query.src1, key)
                 THEN [j \in 0 .. gamma - 1 |-> AsWord(product(m, j))]
                 ELSE Nonsense
      count == Cardinality(DOMAIN prep)
  IN Dealt(count, PackThreads(count), item)

PackResp1(q) ==
  /\ Turn(q, "resp1")
  /\ resp1' = [resp1 EXCEPT ![q] =
       PackedDigits(q, resp1Prep, resp1Precompute, call.gamma1, queries[q].query.keys[1])]
  /\ phase' = [phase EXCEPT ![q] = "resp2"]
  /\ UNCHANGED <<call, stage, offline, mail, queries, bodies, resp0, bodyData, resp2>>

\* The body digits depend on the query: their masks are precomputed here.
PackResp2(q) ==
  /\ Turn(q, "resp2")
  /\ LET batches == MaskBatches(bodyData[q], call.gamma2, queries[q].query.keys[2], threadsPerQuery)
         prep == [m \in DOMAIN batches |-> batches[m].prep]
         precompute == [m \in DOMAIN batches |-> batches[m].precompute]
     IN resp2' = [resp2 EXCEPT ![q] =
          PackedDigits(q, prep, precompute, call.gamma2, queries[q].query.keys[2])]
  /\ phase' = [phase EXCEPT ![q] = "done"]
  /\ UNCHANGED <<call, stage, offline, mail, queries, bodies, resp0, bodyData, resp1>>

\* All workers have been joined and the answers were read; the next batch may come.
Answered ==
  /\ stage = "finish" /\ \A q \in DOMAIN queries : phase[q] = "done"
  /\ stage' = "ready"
  /\ queries' = <<>> /\ bodies' = <<>> /\ phase' = <<>>
  /\ resp0' = <<>> /\ bodyData' = <<>> /\ resp1' = <<>> /\ resp2' = <<>>
  /\ UNCHANGED <<call, offline, mail>>

Next ==
  \/ OfflineL1 \/ OfflineMaskData \/ OfflineResp1
  \/ \E indices \in call.asks : Ask(indices)
  \/ \E q \in DOMAIN mail : Cut(q)
  \/ \E shape \in call.strangers : Misdirect(shape)
  \/ Receive \/ Respond
  \/ \E q \in DOMAIN queries : PackL1(q) \/ DecomposeBody(q) \/ PackResp1(q) \/ PackResp2(q)
  \/ Answered

Spec == Init /\ [][Next]_vars

-----------------------------------------------------------------------------
(* The client's recovery *)

\* unpack_response_digits: gamma digits of each ciphertext, the padding at the end dropped
Unpacked(response, gamma, total) ==
  IF \E m \in DOMAIN response : response[m] = Nonsense THEN Nonsense
  ELSE [i \in 0 .. total - 1 |-> response[i \div gamma][i % gamma]]

\* A coefficient from its digits, the highest first
Recomposed(vals, c) == LET limb(l) == vals[c * Tau + l] * Word ^ (Tau - 1 - l) IN SumTo(limb, Tau)

\* How many ciphertexts a response has
Resp1Count == CeilDiv(N * Tau, call.gamma1)
Resp2Count == CeilDiv(call.gamma0 * Tau, call.gamma2)

Response(q) ==
  WriteRecursionResponse(resp1[q], resp2[q], Cardinality(DOMAIN resp1[q]),
                         Cardinality(DOMAIN resp2[q]), Tau * WordBits)

\* recompose_response and extract_response: the ciphertext again, and its record
Record(q) ==
  LET response == ReadRecursionResponse(Response(q), Resp1Count, Resp2Count)
      maskVals == Unpacked(response.resp1, call.gamma1, N * Tau)
      bodyVals == Unpacked(response.resp2, call.gamma2, call.gamma0 * Tau)
      mask == [c \in Coef |-> Recomposed(maskVals, c)]
      secret == SecretPoly(queries[q].client.secret)
      value(c) == Recomposed(bodyVals, c) + MaskTerm(mask, secret, c)
  IN IF response = Refused THEN Nonsense
     ELSE IF Nonsense \in {maskVals, bodyVals} THEN Nonsense
     ELSE [c \in 0 .. call.gamma0 - 1 |->
             RoundDiv(CentredTorus(value(c), Tau * WordBits), Word ^ (Tau - 1))]

Decoded(q) ==
  LET record == Record(q)
  IN IF record = Nonsense THEN Nonsense
     ELSE DecodeWords([k \in 0 .. Words - 1 |-> AsWord(record[queries[q].client.address.offset + k])])

-----------------------------------------------------------------------------
(* Properties *)

Rebuilds(data, k, c, x) ==
  LET column == [d \in DOMAIN data |-> data[d][k]] IN (Recomposed(column, c) - x) % QTilde = 0

\* The digits a server keeps in words of 16 bits are the ciphertext they were cut from,
\* modulo qtilde: also where a limb sits on the edge of its range, its carry moves into the
\* next limb, and the highest limb leaves the word and wraps (balance_base2k16,
\* packing/recursion.rs; `as i16`, offline.rs and online.rs).
DigitsRebuild ==
  /\ maskData # <<>> =>
       \A k \in 0 .. t - 1, c \in Coef :
         Rebuilds(maskData, k, c, FinalMask(l1Precompute[k])[c])
  /\ stage = "finish" =>
       \A q \in DOMAIN queries :
         phase[q] \notin {"pack", "decompose"} =>
           \A k \in 0 .. t - 1, c \in 0 .. call.gamma0 - 1 :
             resp0[q][k] # Nonsense => Rebuilds(bodyData[q], k, c, resp0[q][k][c])

\* However row groups, batches and queries are dealt to workers, whatever the three gammas
\* and the padding they leave, every query of a batch recovers the payload at its index:
\* its column by the first level, its grid row by the second, from two sets of digits
\* that were packed at different times under different keys (server/recursion/online.rs).
RecordsRecovered ==
  stage = "finish" =>
    \A q \in DOMAIN queries :
      phase[q] = "done" /\ IsOwn(queries[q].client) =>
        Decoded(q) = PayloadOf(call, queries[q].client.index)

\* Whatever became of the messages of a batch, the server works on queries exactly as
\* their clients built them, one block for each of its masks: a message cut anywhere, or
\* of another number of blocks, is out before anything is computed from it
\* (ensure_len and read_exact, serialization.rs).
OnlyWholeMessages ==
  stage \in {"received", "finish"} =>
    \A q \in DOMAIN queries :
      /\ queries[q].query = queries[q].client.query
      /\ DOMAIN queries[q].query.src0 = DOMAIN q0Masks
      /\ DOMAIN queries[q].query.src1 = DOMAIN q1Masks

\* Messages are as long as parameters.rs says from the parameters alone, which counts
\* its own prefixes, limbs and entries ("Actual serialized query size").
SizesAdvertised ==
  /\ \A q \in DOMAIN mail :
       IsWhole(mail[q]) /\ IsOwn(mail[q].client) =>
         Bytes(mail[q].message) = RecursionQuerySize(columnBlocks, CeilDiv(t, N))
  /\ stage = "finish" =>
       \A q \in DOMAIN queries :
         phase[q] = "done" =>
           Bytes(Response(q)) = RecursionResponseSize(Resp1Count, Resp2Count, Tau * WordBits)
=============================================================================

---------------------------- MODULE ShardEncode ----------------------------
(***************************************************************************)
(* `Database::try_encode_shard` of `database/storage.rs`: a run of         *)
(* consecutive payloads scattered into the n x n coefficient matrices by   *)
(* scoped threads, each of which walks the matrices of one chunk and       *)
(* derives from their numbers which payloads they hold.  Readers go the    *)
(* other way, from a payload's index to its coefficients                   *)
(* (`try_payload_address`, `matrix_index_and_column`).  PirData rests on   *)
(* the two agreeing.                                                       *)
(*                                                                         *)
(* A digit is the value it belongs to and its place in it; the value       *)
(* written at offset j of the s-th shard is <<s, j>>.                      *)
(***************************************************************************)
EXTENDS Integers, FiniteSets

CONSTANTS
  Layouts,     \* shapes of the database
  Budgets,     \* base_threads, the worker budget
  Lens,        \* lengths of the shards
  MaxShards    \* bound on the shards written

VARIABLES
  layout,   \* the shape, fixed when the database is allocated
  budget,
  cells,    \* the coefficients of all matrices
  shard,    \* the last shard: its first payload and the one after its last
  todo,     \* per worker, what it has still to write
  failed,   \* a worker of the last shard panicked
  shards,   \* how many shards were begun
  before    \* history: the payloads as they were when the last shard began

vars == <<layout, budget, cells, shard, todo, failed, shards, before>>

ASSUME LayoutAssumption ==
  /\ \A L \in Layouts :
       /\ {L.n, L.cols, L.height, L.exponent, L.gridRows} \subseteq Nat \ {0}
       /\ L.n % L.height = 0 /\ L.exponent <= L.height
  /\ Budgets \subseteq Nat \ {0} /\ Lens \subseteq Nat \ {0} /\ MaxShards \in Nat

DivCeil(a, b) == (a + b - 1) \div b
Min(a, b) == IF a < b THEN a ELSE b
SaturatingSub(a, b) == IF a < b THEN 0 ELSE a - b

-----------------------------------------------------------------------------
(* Shape and addresses *)

PayloadsPerColumn(L) == L.height \div L.exponent
PayloadsPerGridRow(L) == PayloadsPerColumn(L) * L.cols
PayloadCapacity(L) == L.gridRows * PayloadsPerGridRow(L)
ColumnBlocks(L) == DivCeil(L.cols, L.n)
RowsPerGroup(L) == L.n \div L.height
PhysicalRows(L) == DivCeil(L.gridRows, RowsPerGroup(L))
NumMatrices(L) == PhysicalRows(L) * ColumnBlocks(L)

Indices(L) == 0 .. PayloadCapacity(L) - 1
Cells(L) == [matrix : 0 .. NumMatrices(L) - 1, row : 0 .. L.n - 1, col : 0 .. L.n - 1]

\* Mutant: payloads run down a column before they go on to the next one.
PayloadAddressColumnMajor(L, i) ==
  LET local == i % PayloadsPerGridRow(L)
  IN [gridRow |-> i \div PayloadsPerGridRow(L),
      column |-> local \div PayloadsPerColumn(L),
      offset |-> (local % PayloadsPerColumn(L)) * L.exponent]

\* try_payload_address
PayloadAddress(L, i) ==
  LET local == i % PayloadsPerGridRow(L)
  IN [gridRow |-> i \div PayloadsPerGridRow(L),
      column |-> local % L.cols,
      offset |-> (local \div L.cols) * L.exponent]

\* matrix_index_and_column, and the row of the k-th digit within the matrix
DigitCell(L, a, k) ==
  [matrix |-> (a.gridRow \div RowsPerGroup(L)) * ColumnBlocks(L) + a.column \div L.n,
   row    |-> (a.gridRow % RowsPerGroup(L)) * L.height + a.offset + k,
   col    |-> a.column % L.n]

PayloadCells(L, i) == {DigitCell(L, PayloadAddress(L, i), k) : k \in 0 .. L.exponent - 1}

Blank == <<0, 0>>
Torn == <<-1, -1>>
BlankDigit == [value |-> Blank, k |-> 0]

\* payload: the value whose digits stand at i's address, Torn if they are not of one.
Payload(i) ==
  LET digit(k) == cells[DigitCell(layout, PayloadAddress(layout, i), k)]
      v == digit(0).value
  IN IF \A k \in 0 .. layout.exponent - 1 :
          digit(k) = [value |-> v, k |-> IF v = Blank THEN 0 ELSE k]
     THEN v ELSE Torn

-----------------------------------------------------------------------------
(* Which worker writes what *)

\* The matrices that can hold a payload of the shard
Window(L, s) ==
  LET first == (s.start \div PayloadsPerGridRow(L)) \div RowsPerGroup(L)
      last == ((s.end - 1) \div PayloadsPerGridRow(L)) \div RowsPerGroup(L)
  IN first * ColumnBlocks(L) .. Min((last + 1) * ColumnBlocks(L), NumMatrices(L)) - 1

NumWorkers(count) == IF count <= 1 THEN 1 ELSE Min(budget, count)

\* Mutant: chunk sizes are rounded down, and a worker gets one chunk.
ChunksRoundedDown(L, s) ==
  LET window == Window(L, s)
      count == Cardinality(window)
      per == count \div NumWorkers(count)
      first == CHOOSE m \in window : \A o \in window : m <= o
  IN [j \in 0 .. NumWorkers(count) - 1 |->
        {m \in window : j * per <= m - first /\ m - first < (j + 1) * per}]

\* chunks_mut over the window
Chunks(L, s) ==
  LET window == Window(L, s)
      count == Cardinality(window)
      per == DivCeil(count, NumWorkers(count))
      first == CHOOSE m \in window : \A o \in window : m <= o
  IN [j \in 0 .. DivCeil(count, per) - 1 |->
        {m \in window : j * per <= m - first /\ m - first < (j + 1) * per}]

\* Mutant: the last block is taken to be as wide as the others.
WidthFull(L, block) == L.n

\* Valid columns of a column block: the last one may be narrower.
Width(L, block) == Min(L.cols - block * L.n, L.n)

\* Mutant: the payloads of a column are one row apart.
RowOffsetDense(L, localRow, pic) == localRow * L.height + pic

\* Mutant: rows are counted from one.
RowOffsetFromOne(L, localRow, pic) == (localRow + 1) * L.height + pic * L.exponent

\* Where in its matrix the digits of the pic-th payload of a column begin
RowOffset(L, localRow, pic) == localRow * L.height + pic * L.exponent

\* What a worker that walks matrix m writes of the shard
MatrixWrites(L, m, s) ==
  LET rowGroup == m \div ColumnBlocks(L)
      block == m % ColumnBlocks(L)
      width == Width(L, block)
      gridRow(localRow) == rowGroup * RowsPerGroup(L) + localRow
      base(localRow, pic) ==
        gridRow(localRow) * PayloadsPerGridRow(L) + pic * L.cols + block * L.n
      columns(b) ==
        Min(SaturatingSub(s.start, b), width) .. Min(SaturatingSub(s.end, b), width) - 1
  IN UNION {{[matrix |-> m, row |-> RowOffset(L, r, pic), col |-> c,
              index |-> base(r, pic) + c] : c \in columns(base(r, pic))} :
            r \in {x \in 0 .. RowsPerGroup(L) - 1 : gridRow(x) < L.gridRows},
            pic \in 0 .. PayloadsPerColumn(L) - 1}

Plan(L, s) ==
  LET chunks == Chunks(L, s)
  IN [j \in DOMAIN chunks |-> UNION {MatrixWrites(L, m, s) : m \in chunks[j]}]

-----------------------------------------------------------------------------
Idle == \A j \in DOMAIN todo : todo[j] = {}

Init ==
  /\ layout \in Layouts
  /\ budget \in Budgets
  /\ cells = [c \in Cells(layout) |-> BlankDigit]
  /\ shard = [start |-> 0, end |-> 0]
  /\ todo = << >>
  /\ failed = FALSE
  /\ shards = 0
  /\ before = [i \in Indices(layout) |-> Blank]

\* The call up to the spawns; &mut self keeps everything else out until it is over.
Begin(start, len) ==
  /\ Idle /\ shards < MaxShards
  /\ start + len <= PayloadCapacity(layout)
  /\ shard' = [start |-> start, end |-> start + len]
  /\ todo' = Plan(layout, shard')
  /\ failed' = FALSE
  /\ shards' = shards + 1
  /\ before' = [i \in Indices(layout) |-> Payload(i)]
  /\ UNCHANGED <<layout, budget, cells>>

\* A worker takes the payloads of its matrices in row-major order.
Earlier(p, q) ==
  \/ p.matrix < q.matrix
  \/ p.matrix = q.matrix /\ (p.row < q.row \/ (p.row = q.row /\ p.col < q.col))

\* One payload is encoded into the worker's buffer, then copied down the column.
WritePayload(j) ==
  /\ \E p \in todo[j] :
       LET written == {[matrix |-> p.matrix, row |-> p.row + k, col |-> p.col] :
                         k \in 0 .. layout.exponent - 1}
       IN /\ \A q \in todo[j] \ {p} : Earlier(p, q)
          /\ cells' = [c \in DOMAIN cells |->
               IF c \in written
               THEN [value |-> <<shards, p.index - shard.start>>, k |-> c.row - p.row]
               ELSE cells[c]]
          /\ todo' = [todo EXCEPT ![j] = @ \ {p}]
  /\ UNCHANGED <<layout, budget, shard, failed, shards, before>>

\* The payload type's encode panics: this worker stops, the scope waits for the
\* others, then the call unwinds.
WorkerPanics(j) ==
  /\ todo[j] # {}
  /\ todo' = [todo EXCEPT ![j] = {}]
  /\ failed' = TRUE
  /\ UNCHANGED <<layout, budget, cells, shard, shards, before>>

Next ==
  \/ \E start \in Indices(layout), len \in Lens : Begin(start, len)
  \/ \E j \in DOMAIN todo : WritePayload(j) \/ WorkerPanics(j)

Spec == Init /\ [][Next]_vars

-----------------------------------------------------------------------------
(* Properties *)

TypeOK ==
  /\ layout \in Layouts /\ budget \in Budgets
  /\ DOMAIN cells = Cells(layout)
  /\ {shard.start, shard.end} \subseteq 0 .. PayloadCapacity(layout)
  /\ \A j \in DOMAIN todo : \A p \in todo[j] :
       /\ p.matrix < NumMatrices(layout) /\ p.col < layout.n
       /\ p.row + layout.exponent <= layout.n
       /\ p.index \in Indices(layout)
  /\ failed \in BOOLEAN
  /\ shards \in 0 .. MaxShards
  /\ DOMAIN before = Indices(layout)

New(i) == <<shards, i - shard.start>>
InShard(i) == shard.start <= i /\ i < shard.end

\* A shard whose workers all returned reads back, through the addresses readers
\* compute, as a sequential scatter would: its payloads are the new ones and all
\* others are as they were, however the matrices were dealt to the workers.
ScatterIsSequential ==
  Idle /\ ~failed =>
    \A i \in Indices(layout) : Payload(i) = IF InShard(i) THEN New(i) ELSE before[i]

\* At any moment, and after a panic that left the shard half written, a payload
\* of the shard is the old or the new one, never a mixture, and the payloads
\* outside of it are untouched; a later shard may start from there.
PayloadsWhole ==
  \A i \in Indices(layout) :
    Payload(i) = before[i] \/ (InShard(i) /\ Payload(i) = New(i))

\* Coefficients that belong to no payload (the columns beyond cols, the rows
\* beyond the last grid row, the rows a column has too many) stay zero.
PaddingStaysZero ==
  \A c \in Cells(layout) \ UNION {PayloadCells(layout, i) : i \in Indices(layout)} :
    cells[c] = BlankDigit

\* The rows a payload's digits stand in, over all column blocks
Rows(L, i) == {<<c.matrix \div ColumnBlocks(L), c.row>> : c \in PayloadCells(L, i)}

StripesOf == [L \in Layouts |->
  LET rows == [i \in Indices(L) |-> Rows(L, i)]
  IN \A i, k \in Indices(L) :
       IF i \div L.cols = k \div L.cols THEN rows[i] = rows[k]
       ELSE rows[i] \cap rows[k] = {}]

\* The payloads that share coefficient rows, and so are multiplied together, are
\* those whose indices have the same quotient by cols.
StripesShareRows == StripesOf[layout]
=============================================================================

---------------------------- MODULE BatchBuilder ----------------------------
(***************************************************************************)
(* The BatchBuilder of src/src/parquet_out.rs as one generator task drives *)
(* it: rows appended column by column, the batch assembled, handed over    *)
(* and the builder reset.  The first error ends the task, with whatever    *)
(* the builder held.  ColumnBatch puts the start of a run before it.       *)
(***************************************************************************)
EXTENDS Columns

CONSTANTS
    BatchRows,   \* rows of a batch at most
    MaxBatches   \* bound: batches one behaviour goes through

VARIABLES
    columns,     \* the table's columns
    pc,          \* "rows", "done" or "failed" ("start" and on before the first row)
    builders,    \* per column: what the builder keeps of the rows so far
    rows,        \* rows the builder has counted
    taken,       \* the rows accepted since the last batch
    batch,       \* the last batch handed over: its arrays, count and rows
    batches      \* how many

progress == <<builders, rows, taken, batch, batches>>
builderVars == <<columns, pc, progress>>

Empty == [c \in DOMAIN columns |-> <<>>]
NoBatch == [rows |-> 0, arrays |-> <<>>, from |-> <<>>]
NoRows == rows = 0 /\ taken = <<>> /\ batch = NoBatch /\ batches = 0

\* BatchBuilder::append_row: columns in order, up to the first that refuses
\* its value; the row counts only when every column took it.
Takes(c, v) == Accepts(columns[c], v)

Appended(row, upto) ==
    [c \in DOMAIN columns |-> IF c <= upto THEN Append(builders[c], Store(columns[c].ty, row[c])[1])
                                           ELSE builders[c]]

AppendTo(row) ==
    LET refusing == {c \in DOMAIN columns : ~Takes(c, row[c])}
        first == CHOOSE c \in refusing : \A d \in refusing : c <= d
    IN  /\ pc = "rows" /\ rows < BatchRows /\ batches < MaxBatches
        /\ IF refusing = {}
           THEN /\ builders' = Appended(row, Len(columns))
                /\ rows' = rows + 1 /\ taken' = Append(taken, row)
                /\ UNCHANGED pc
           ELSE /\ builders' = Appended(row, first - 1)
                /\ pc' = "failed" /\ UNCHANGED <<rows, taken>>
        /\ UNCHANGED <<columns, batch, batches>>

\* A generator that cannot draw ends the task before the row is appended.
GenerateFails ==
    /\ pc = "rows" /\ rows < BatchRows /\ batches < MaxBatches
    /\ pc' = "failed"
    /\ UNCHANGED <<columns, progress>>

\* RecordBatch::try_new: columns of one length, no null where none may be.
ArrayLen(ty, array) == IF Nested(ty) THEN Len(array.valid) ELSE Len(array.slots)
HasNull(ty, array) ==
    IF Nested(ty) THEN \E i \in DOMAIN array.valid : ~array.valid[i]
                  ELSE \E i \in DOMAIN array.slots : array.slots[i] = <<>>

RecordBatch(arrays) ==
    \A c \in DOMAIN columns :
        /\ ArrayLen(columns[c].ty, arrays[c]) = ArrayLen(columns[1].ty, arrays[1])
        /\ HasNull(columns[c].ty, arrays[c]) => columns[c].nullable

FinishedColumns == Collect([c \in DOMAIN columns |-> FinishColumn(columns[c].ty, builders[c])])

\* Seeded fault: the count of rows goes on into the next batch.
FinishKeepsCount ==
    /\ pc = "rows" /\ rows > 0
    /\ \E arrays \in {FinishedColumns} :
          /\ IsOk(arrays)
          /\ batch' = [rows |-> rows, arrays |-> arrays[1], from |-> taken]
    /\ batches' = batches + 1
    /\ builders' = Empty /\ taken' = <<>>
    /\ UNCHANGED <<columns, pc, rows>>

FinishBatch ==
    /\ pc = "rows" /\ rows > 0
    /\ \E arrays \in {FinishedColumns} :
          IF IsOk(arrays) /\ RecordBatch(arrays[1])
          THEN /\ batch' = [rows |-> rows, arrays |-> arrays[1], from |-> taken]
               /\ batches' = batches + 1
               /\ builders' = Empty /\ rows' = 0 /\ taken' = <<>>
               /\ UNCHANGED pc
          ELSE pc' = "failed" /\ UNCHANGED progress
    /\ UNCHANGED columns

\* The quota, the size target or the deadline ends the task between batches.
EndTask ==
    /\ pc = "rows" /\ rows = 0
    /\ pc' = "done"
    /\ UNCHANGED <<columns, progress>>
-----------------------------------------------------------------------------
(* The builder on its own: any table the parser can return, and any rows    *)
(* of values a generator can hand over.                                     *)

BuilderInit ==
    /\ columns # <<>> /\ columns \in Seq({columns[c] : c \in DOMAIN columns})
    /\ \A c \in DOMAIN columns : columns[c].ty \in Types
    /\ pc = "rows" /\ builders = Empty /\ NoRows

BuilderNext ==
    \/ \E row : (\A c \in DOMAIN columns : row[c] \in Values) /\ AppendTo(row)
    \/ GenerateFails
    \/ FinishBatch
    \/ EndTask

BuilderSpec == BuilderInit /\ [][BuilderNext]_builderVars
-----------------------------------------------------------------------------
\* What a column stores of a value is that value, not a neighbour: a decimal
\* keeps every digit and its precision, whichever of the two paths it took; a
\* moment is cut down to its second, never rounded into the next.
Exact(ty, v, slot) ==
    CASE ty.k = "DECIMAL" ->
           LET t == Text(v) IN /\ slot[1] * TenTo[t.scale] = t.units * TenTo[ty.s]
                               /\ Abs(slot[1]) < TenTo[ty.p]
      [] ty.k \in {"DATE", "DATETIME"} /\ v.k = "ts" ->
           LET unit == IF ty.k = "DATE" THEN MicrosPerDay ELSE TenTo[SubSecond - ty.s]
               start == IF ty.k = "DATE" THEN slot[1] * MicrosPerDay ELSE slot[1]
           IN  start % unit = 0 /\ v.micros \in start..(start + unit - 1)
      [] OTHER -> TRUE

CellsExact ==
    \A c \in DOMAIN batch.arrays : \A i \in 1..batch.rows :
        LET v == batch.from[i][c] IN
        ~Nested(columns[c].ty) /\ ~IsNull(v) => Exact(columns[c].ty, v, batch.arrays[c].slots[i])

\* A batch handed over reads back, array by array, as the rows it was built
\* from: offsets, validity and children of nested columns line up at every
\* depth, and no column is longer than the count reported for the batch.
RowsReadBack ==
    \A c \in DOMAIN batch.arrays :
        /\ ArrayLen(columns[c].ty, batch.arrays[c]) = batch.rows
        /\ Len(batch.from) = batch.rows
        /\ \A i \in 1..batch.rows :
             ReadBack(columns[c].ty, batch.arrays[c], i) = Meaning(columns[c].ty, batch.from[i][c])
=============================================================================

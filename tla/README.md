# TLA+ verification of doris-parquet-s3-gen

The program generates rows from a spec and writes them as Parquet files to an
object store (or a directory), as fast as it can, until a row quota, a target
size or a deadline is reached. Two things make it hard to get right. Generator
tasks, a bounded queue, upload workers, a shared quota and half a dozen shared
counters have to agree on how much was produced, what was lost and when to stop,
while uploads fail underneath them. And a schema file written by hand has to
become columns, generators, conversions and nested arrays that all mean the same
types, or a run fails hours after it started, or loads wrong data.

This directory holds TLA+ models of that machinery, the TLC configurations that
check them, and proofs for TLAPS. Paths below are relative to the repository.

- [The system](#the-system)
- [Modules](#modules)
- [How the models correspond to the code](#how-the-models-correspond-to-the-code)
- [Runs](#runs)
- [Fairness](#fairness)
- [Proofs](#proofs)
- [Where the program and its documentation disagree](#where-the-program-and-its-documentation-disagree)
- [Not modelled](#not-modelled)
- [Plan](#plan)

## The system

| component | source | state it keeps | operations |
|---|---|---|---|
| run control | `src/main.rs` `run_parquet` | the queue, `Stats`, quota, deadline, join handles, `done` flag | spawn everything, drop its own queue ends, join generators, join workers, set `done`, await the status task, report |
| generator task | `src/main.rs` `generator_loop` | a clone of the spec, the batch being built | check deadline, check size target, reserve rows, build a batch, send it, count it |
| row quota | `vendor/datagen/src/stream.rs` `reserve_batch` | one shared atomic | load, compare-and-exchange, credit (`fetch_add` by a worker) |
| upload worker | `src/main.rs` `upload_worker` | failures so far, its sink | receive, write, tolerate or give up, abandon and credit, finish |
| Parquet sink | `src/sink.rs` `ParquetSink` | the open file, `rows_in_active`, `rows_seen`, reported gauge values, `file_index` | `open`, `write`, roll, `close_active`, `abandon_active`, `finish`, `sync_buffer_gauge`, `next_path` |
| shared counters | `src/sink.rs` `Stats` | `rows_generated`, `rows`, `rows_lost`, `rows_flushed`, `bytes_written`, `active_bytes`, `files_completed`, `files_abandoned` | relaxed adds by the tasks, relaxed loads by generators and the status task |
| size target | `src/main.rs` `reached_size_target` | none: four loads and a projection | decide whether enough was produced |
| object layout | `src/sink.rs` `next_path` | the run's `file_counter`, each sink's `file_index` | name the next file |
| `sequence_string` | `vendor/datagen/src/generators.rs`, `compile.rs` | a cursor shared by all clones, a block per clone | claim a block, draw, capacity check before the run |
| start of a run | `src/main.rs` `run`, `load_schema_table`, `validate_spec_covers` | none that outlives it | read the table, take or derive a spec, compile it, check it against the table |
| schema parsing | `src/schema.rs` | none | strip comments, find the `CREATE TABLE`s, split and parse columns and types, select the table |
| spec derivation | `src/derive.rs` | none | choose a generator for each column by name and type |
| spec compilation | `vendor/datagen/src/compile.rs` | the compiled spec | check names, resolve the fields a generator reads, order the fields |
| spec probing | `src/probe.rs`, `vendor/datagen/src/probe.rs` | none | put every generator's extremes through the conversion |
| Arrow conversion | `src/parquet_out.rs` | the builders of one batch | append a row, convert its values, flatten nested ones, finish a batch |
| `calcsize` | `src/bin/calcsize.rs` | totals per run id, the uploads found | list the objects and the unfinished uploads, abort the stale ones |
| status task | `src/main.rs` `status_loop`, `src/status.rs` | a receiver of the queue, previous samples | redraw until `done` |
| configuration | `src/s3.rs`, `vendor/datagen/src/{spec,config,registry,units}.rs` | none that outlives it | parse and validate configuration and parameters |
| vendored pipeline | `vendor/datagen/src/stream.rs` `run`, `sink/*` | its own row limit, queue, clock, stop flag; each sink's open file, row buffer or records in flight | reserve, generate, send; receive, write, flush, finish; spawn and join. Used by the vendored crate's own command |

How they interact. Generators and workers share the queue (an `async_channel`:
a send fails once no receiver is left, a receive once no sender is left and the
queue is empty), the quota and the counters. Nothing is locked; everything else
is an atomic. A worker that loses a file returns its rows to the quota, so
control also flows backwards, from the workers to generators that may have left
already. The main task only joins, in order: generators, workers, status task.

What is hard about it:

- **Failures of every step.** Opening, writing, rolling and finishing a file can
  each fail, at different points of the sink's bookkeeping. `file_retries`
  decides whether the worker goes on, and the sink is then used again.
- **The loop between credit and exit.** Credits come while generators leave.
- **Shutdown.** Everyone waits for somebody: generators for room in the queue,
  workers for batches, the main task for both, the display for the main task.
- **Reading several counters that change.** The size target is computed from
  four atomics that other tasks move one by one.
- **Uniqueness over concurrent clones.** Key values and object names are unique
  by construction of shared counters, and a mistake is silent.
- **Multipart uploads outlive their writer.** Every way a file can end must
  complete or abort its upload, and `calcsize` clears what is left while other
  runs write.
- **One type, five readers.** The parser, the deriver, the probe, the value
  conversion and the flattening of nested arrays each take a Doris type apart on
  their own; nothing but agreement keeps a derived spec from being refused or a
  nested value from sliding into the next row.
- **Fields read fields.** A row is drawn into a context that may still hold the
  row before; a wrong order is not an error but a stale value.

The properties that make each part correct are listed with the modules, and the
places where the code could go wrong are listed under `hazards` in
`PROJECT.json`, with the properties that watch them.

## Modules

| module | models | checked by | proved in |
|---|---|---|---|
| `RowLedger` | abstract: where a row of a `--rows` run can be | (as a property) | |
| `Pipeline` | one run: generators, queue, workers, sinks, joins, status task, deadline | `MCPipeline` | `PipelineProofs` |
| `ReserveBatch` | `reserve_batch` instruction by instruction, with concurrent credits | itself | `ReserveBatchProofs` |
| `SizeTarget` | a `--target-size` run, one load or one gauge update per step | `MCSizeTarget` | `SizeTargetProofs` |
| `SequenceString` | the `sequence_string` generator and its capacity check | itself | `SequenceStringProofs` |
| `ObjectLayout` | file names and folders of concurrent writers and runs | `MCBucket`, through `Bucket` | `BucketProofs` |
| `Bucket` | the multipart uploads behind those files, and `calcsize` clearing them | `MCBucket` | `BucketProofs` |
| `Cells` | values, and their conversion to a column's type | `MCColumnBatch` | `ColumnBatchProofs` |
| `Columns` | types and values as trees, nested arrays, the probe of one value | `MCColumnBatch` | `ColumnBatchProofs` |
| `Generators` | generators of unnested values: what they draw and report, and which one is derived for a column | `MCColumnBatch` | `ColumnBatchProofs` |
| `FieldSpecs` | the same for arrays, maps and structs; the check before the run | `MCColumnBatch` | `ColumnBatchProofs` |
| `SchemaText` | reading a table out of DDL | `MCColumnBatch` | |
| `SpecOrder` | the order in which the fields of a spec are generated | `MCColumnBatch` | `ColumnBatchProofs` |
| `BatchBuilder` | rows appended, batches assembled and handed over | `MCColumnBatch` | `ColumnBatchProofs` |
| `ColumnBatch` | the start of a run and one generator's batches, on the seven modules above | `MCColumnBatch` | `ColumnBatchProofs` |
| `DatagenStream` | the vendored pipeline: producers, queue, sink threads, text, Parquet and Kafka sinks | `MCDatagenStream` | `DatagenStreamProofs` |
| `Totals`, `TotalsProofs` | sums over sequences and the lemmas about them | | `TotalsProofs` |

How they fit together:

```
             RowLedger                (what a quota promises)
            /         \
   implements        implements
          /             \
   ReserveBatch        Pipeline ----- SizeTarget (same tasks, byte gauges)
 (one reservation     (one reservation
  is many steps)       is one step)   ObjectLayout (names of Pipeline's files)
                          |                |
                       batches             | extended by
                          |                |
                     ColumnBatch        Bucket   (uploads, calcsize)
            /       |         |      \
   SchemaText  SpecOrder FieldSpecs  BatchBuilder     SequenceString
                          /     \        |          (values in its rows)
                     Columns  Generators |
                          \     |       /
                              Cells

   DatagenStream   (the other pipeline built on reserve_batch)
```

`Pipeline` takes a reservation in one step. That this loses nothing is what
`ReserveBatch` is for: both implement the ledger's `Reserve` and `Refund`.
`SizeTarget` repeats the generator and worker loops at a finer grain (each
atomic load and add is a step of its own) and a coarser one (rows have one byte
each, the quota is left out), because a size-bounded run is the only one whose
control depends on the order of those loads. `ObjectLayout` and
`SequenceString` each take one shared counter of the run and ask whether what
is made from it is unique. `Bucket` conjoins to each action of `ObjectLayout` what
happens to the upload behind the file, and is what both are checked as. `ColumnBatch` is what
`Pipeline` leaves out of a generator's `build`: one task, alone with its builder,
from the schema file to the batches it sends. `RECURSIVE` operators, which the prover cannot use, are left to `SchemaText`, which
`ColumnBatch` reaches through the constant `ReadSchema`; `Columns`, `FieldSpecs` and
`Blind` recurse too, but tie their recursion in the configuration (below).

## How the models correspond to the code

`PROJECT.json` maps every definition to its lines. In outline:

**Pipeline.** A batch is its number of rows. `genPc[g]` is the place in
`generator_loop`: `check` (deadline), `reserve`, `build` (holding rows, about to
send), `count` (sent, `rows_generated` not yet raised). `workerPc[w]` is the
place in `upload_worker` and, while it is inside the sink, in
`ParquetSink::write`: `recv`, `write`, `roll` (the file reached its cap),
`error` (the error arm), `credit`, `finish`. `mainPc` is how far `run_parquet`
has joined. Each action is one handler or one arm of it, up to the next point
where another task can observe or disturb it:

- `Open` and `OpenFails` both use up a file number, as `next_path` runs before
  the writer is created.
- `CloseFails` clears `file` but leaves `rowsInActive`, because `close_active`
  takes the file out of the sink before it closes it; `Abandon` then returns
  those rows even though there is no file left to abandon.
- `WriteFails` forgets the batch: `rows_in_active` is raised only after the
  write succeeded. The model remembers it in the history variable `unwritten`.
- `GiveUp` leaves the file open: `upload_worker` returns the error at once.
- `FinishFails` is the last close; it counts against `file_retries` and does
  nothing else.
- `NoReceivers` includes the status task, which is handed a clone of the queue's
  receiver to read its length.

`stored`, `unsent` and `unwritten` are history: no code reads them. Whether a
file reached its cap is a free choice, as bytes are not modelled; so is which
fault occurs, within the constant `Faults`.

**ReserveBatch.** `Load`, `Exchange` and `Retry` are the three outcomes of the
loop's load and compare-and-exchange. A credit may name any rows that were
taken and not yet credited. `compare_exchange` (not the weak form) fails only if
the value changed, so there is no spurious failure.

**SizeTarget.** `written`, `active`, `flushed`, `generated` are the loads of
`reached_size_target` in program order. On the other side `publishActive`,
`publishFlushed`, `resetActive`, `resetFlushed` and `abandonFlushed` are the two
halves of each pair of gauge updates. A row is one byte once its row group is
encoded and has no known size before; `RowGroupRows` rows make a row group. The
history variable `torn` records that some read so far fell between two
halves of an update; it separates what the algorithm computes from what reading
mid-update adds to it. `NoReceivers` is when sends fail: all workers are gone, and
the run was started without a status task (`showProgress`), because that holds a receiver
until the run is over.

**SequenceString.** `ClaimBlock` is the `fetch_add`; `Draw` and `DrawFails` are
the rest of `generate`. The model lets a clone claim a block and draw later,
which allows more interleavings than the code, where both happen in one call.
Values are compared by their counter; the text around it is fixed for a run.
The check made before the run is `Admitted`, and a run that fails it takes no
step.

**ObjectLayout and Bucket.** `Key` is the path: run id, batch folder, writer,
index. `run_id` is chosen freely for each run at the start, so runs with ids of
their own and runs with the same pinned id are both covered. `store` is the set
of completed files whose object was not replaced since. `Bucket` gives each step
of a file what happens to its multipart upload: it begins with the first full
part (`BeginUpload`; a smaller file is one request), `SinkClose` completes it,
`Abandon` aborts it or is refused by the store, `SinkCloseFails` leaves it as it
is because `close_active` had taken the writer already, and `Leave` is a worker
that returns its error, or a process that is killed, with the file open. `broken`
and `gone` remember the last two. `calcsize` reads the list of uploads a page at a
time (`ListPage`: any `PageSize` of those not seen yet, or all that are left),
splits it by age, and aborts one by one (`AbortUpload`, which may fail, and must
for an upload that ended meanwhile). Runs and days go on between its steps.

**SchemaText.** A DDL text is a sequence of tokens: words, the single characters
the scanners look at, and comment marks. The scanners are written as the code
runs them, one after the other over the whole text, each with its own idea of
quotes and escapes (`Outside` with and without escapes, `Everywhere` for those
that see none), because that they differ is where a column list can go wrong.
Lengths are kept where the code adds them up: `ColumnOf` takes the modifiers from
where the code does. A name is a token, so what may stand in one is not modelled.

**Generators and FieldSpecs.** A generator is the range it draws from (`int_range`,
`choice`, `array_of`, ...). `Drawn` and `Draws` are what it can return, `plain_extremes`
and `probe_values` what it reports for the check before the run; they are translated
apart, from `generate` and from `probe.rs`. `Drawn` allows every point of a range,
`Draws` those that the constant `Sample` picks, for TLC the ends and one point between
them; a sequence has no end but that of an `i64`. What nested generators do with their
parts is tied in the cfg as for `Columns`: `ProbesOf`, `DrawsOf`, `CanFailIn` and
`DeriveFor` are set to the operators that call them. `Gens` holds the generators a run
can lead to and their parts (`GensHaveParts`). A float may be rounded to whole numbers (`whole`), which takes it
past the ends it reports. A generator that may return an error instead of a value is
`Undrawable` (`CanFail` of a nested one). Generators of words count as one, by the shortest
and longest text, which never reads as a number. Texts that may read as one, or whose report
says little, are `opaque`: what it shows, the texts it draws, and whether it bails out. So are
templates and scripts, hex, `sequence_string`, postal codes, fluctuating decimals and the
generators whose null rate or bounds no draw survives. Left out: hex such as `1e50`, which
a float column reads as a number out of its range; sequences that count down. A fluctuating integer or float is the range of its rounded ends. The
clock stands at `Now` from the check to the last draw, and a date prints at a fixed width.

**Cells and Columns.** A value is a record per `Value` variant; a text is what the code can
read out of it (a number with its decimals, a word of some length, a moment, an
address, a document), so printing and parsing are translated by what they do:
`Text` loses the type, `JsonText` the difference between a MAP and a STRUCT, a date the
time of day. Integer types keep their widths, scaled down in the run. `TenTo` is the
table of powers of ten. A column's builder is what `append` stored; `FinishColumn` makes
its array, for a nested column by `build_nested`: offsets, validity and children, level
by level as the code recurses. The recursion is tied in the cfg: `build_nested` calls the
constant `BuildNested` for the parts of a type, which the cfg sets to `build_nested`, and
so for the two readings the properties need (`ReadNested`, `MeaningNested`), and for
`Blind` and `Overfull` of `ColumnBatch`. `Types`,
`TypesIn` (a type and all it is made of) and `Values` are constants as well: types are
finite trees (`TypesAreTrees`), and what can be taken out of a value is a value
(`ValuesHaveParts`). The run gives them all types and values its cases lead to.

**BatchBuilder.** `AppendTo` appends one row column by column up to the first that
refuses; a row refused half way leaves uneven columns behind and ends the task.
`FinishBatch` assembles a batch and starts the next, `GenerateFails` ends the task
before a row is appended, `EndTask` between batches. `taken` and `batch.from` are
history: the rows as they were drawn. `BuilderSpec` is the builder alone, with any
table and any rows a generator can hand over.

**SpecOrder.** `CountEdges` builds the counters and the heap, `PopReady` takes one
field off it, `HeapEmpty` accepts or refuses. A path is the names it may mean,
longest first, as the code tries them. The heap is a set, popped by `Precedes`.

**ColumnBatch.** `case` is what the program was started with. `LoadSchema`,
`TakeSpec`, `CompileSpec` and `Validate` follow `run()` and refuse where it does;
`ReadSchema` is `load_schema_table` of `SchemaText`, and `CasesAreRuns` says what a table
that was read is like (it has columns, of decimals no finer than they are long). From
then on each step is one of `BatchBuilder`: `AppendRow` is `AppendTo` of a row
its spec draws, `DrawFails` is `GenerateFails` where some field of the spec can fail,
`Finish` and `Stop` are `FinishBatch` and `EndTask`.

**DatagenStream.** `run`, `producer_loop` and `consumer_loop` of the vendored
crate, which reserve, queue and join like `run_parquet` but differ where it
matters: a producer's error travels through the queue as a message (`Failure`),
nobody joins the producers, a sink thread finishes its sink after an error too
(`finishing`), and the first failure found by `run`, which joins in order,
stops the other threads. `pc[s]` is a place in `consumer_loop` (`check`, `recv`,
`row`, `flush`, `finish`) or inside the sink: `decode` and `append` in
`flush_group` or `write`, `settle` and `drain` where a Kafka sink waits, `create`
and `close` in `finish`. One set of actions covers the five sinks: a console is a
file that never rotates, an object is a file whose flush does nothing, and a
Parquet sink puts a buffer and `Decode` before the same `Append`. An error in any
of them goes through `Fail`: leave the loop and finish, or, if that happened
while finishing, return. `Closed` is when a send fails: `run` and all the sink
threads it spawned are gone, as they share the receiver. `dropped` is history.

Every action marked "Seeded fault" in a module is a plausible mistake in the
definition next to it. It is not part of the specification: it is what the
properties were tried against, and each property is violated by at least one.

## Runs

| run | instance | what it shows |
|---|---|---|
| `pipeline_faults` | 2 generators, 2 workers, queue of 1, 3 rows in batches of 1, one tolerated failure per worker, every fault | rows are conserved and counters agree at every instant, up to all workers giving up |
| `pipeline_shutdown` | the same tasks and faults with batches of 2, a deadline and the status task | the run returns; `Ok` means drained; a run without upload failure is exact; the last generator leaves an empty quota; the run implements `RowLedger`; the inductive invariant of the proofs holds |
| `size_target` | 1 generator, 2 workers, row groups of 2, files of 2, target 5, write and close faults, with and without the status task | gauges pair whenever every sink has published; no early stop; bounded overshoot; a run without status task ends; one with it ends, or hangs in exactly the way `pipeline_gave_up` shows: all workers gave up, the queue is full, the generator waits to send |
| `reserve_batch_races` | 3 generators, quota 5, batches of 2, 2 credits | the quota is conserved under racing loads, exchanges and credits; every call ends |
| `sequence_string` | 3 clones, blocks of 2, 5 rows plus 1 credited, nulls, a width that admits the run exactly | no value twice; waste bounded; an admitted run without credits never fails |
| `bucket` | 2 runs with the same or different ids, 2 writers each, folders of 2, 3 files and 2 uploads in all, 2 days, pages of 1, `calcsize` in each of its modes; every failure | no run overwrites itself; folder numbering has no gaps; a full folder never changes; uploads left behind are explained; `calcsize` spares uploads in use and clears a quiet bucket |
| `column_batch` | 959 schemas and specs, batches of 2 rows, integers of 4 to 16 bits | tables are read as declared; fields are ordered soundly; derived specs fit; batches read back as their rows; a run that passed the first check fails late only for listed reasons |
| `datagen_stream` | 2 producers, 2 sink threads of any one kind, queue of 1, 3 rows in batches of 2, row groups and records in flight of 2, a time limit, every failure | rows are conserved; what a thread counts is what its sink has; `Ok` means delivered; files are closed after errors; every task ends |
| `pipeline_gave_up`, `pipeline_made_up`, `size_target_losses`, `ddl_nullability` | small | a counterexample each; see [below](#where-the-program-and-its-documentation-disagree) |

The safety properties, and the mistakes they would catch:

- `RowConservation`: each row of the quota is in one place. A credit given twice,
  a credit of rows from the previous file, a reservation not taken out.
- `WrittenRowsAccounted`, `SentRowsAccounted`, `FilesAccounted`: the counters shown
  to the user and used by the size target agree with the files and the queue.
- `OkMeansDrained`, `CleanRunIsExact`: what a zero exit status means.
- `QuotaDrainedByLastGenerator`: the README's "that works as long as the
  generators are still running", made precise.
- `LedgerSpec`: every step is a step of the abstract ledger, or none.
- `GaugesPair`, `TargetReached`, `OvershootBounded`: the projection reads pairs
  that belong together, does not stop short and does not run away.
- `LeavesOnEmpty`: a lost race is not taken for an empty quota.
- `Unique`, `WasteBounded`, `AdmittedRunsThrough`: key values and the capacity
  check.
- `OnlySameIdOverwrites`, `FoldersPacked`, `SealedFoldersStay`: object names and
  folders as units of loading.
- `PartsExplained`: an upload in the bucket belongs to an open file, or the store
  refused to end it, or its worker left with the file open.
- `SparesTheFresh`: only `--force-abort` takes an upload away from its writer before
  the cutoff, whatever happens between the listing and the abort.
- `SweptClean`: `--force-abort` after the last writer leaves nothing, however many
  pages the list has, unless it reports a failure.
- `ReadsAsWritten`: a table is read name for name, type for type and `NOT NULL` for
  `NOT NULL`, between comments of each kind, texts that hold commas, brackets, comment
  marks, keywords and escaped quotes, quoted names, key clauses and blanks after the types.
  It is not so for every DDL. Where a comma follows an odd number of escaped quotes
  columns are lost, and the property allows it there and nowhere else
  (`AfterOddEscapes`; the cases put 0 to 3 escaped quotes into each of two comments). Two blanks
  before a type, `<` or `>` in the comment of a STRUCT's field and `NOT  NULL` with two
  blanks inside a nested type are misread too, and not among its cases; the first has the run
  `ddl_nullability`.
- `OrderSound`: a field comes after every field it reads, in the priority asked
  for; a spec is refused only if no order serves it.
- `RowsReadBack`, `CellsExact`: reading a batch's arrays gives the rows that went
  in, at every depth; decimals keep their digits, moments are cut and not rounded.
- `DerivedFits`, `DerivedKeysDistinct`: a derived spec is never refused by the table
  it was derived for, early or late, unless that nests so deep that its items outgrow an
  offset; and it gives MAPs distinct keys after conversion.
- `FailsOnlyBlind`: a run that passed the check before the first row fails on a row or
  a batch only for one of these reasons.
  - A generator bails out, which no check before the run foresees: ranges that end before
    they start, an empty `choice`, a null rate outside 0..1, infinite float bounds,
    a `sequence_string` past its digits, a template or script that fails.
  - Its report does not bound what it draws for that column. A template or script
    reports nothing; hex is reported as zeros, which an integer takes where `a7` is
    refused; a `sequence_string`, or a fluctuating decimal, shows a text or two: such *opaque*
    texts are vouched for only where the column stores any text, or a CHAR takes a shown
    one that is as long. Sequences run past their start; decimals are finer than the column
    between two ends that are not; floats have more digits than their ends (DECIMAL,
    CHAR) or are rounded past one (127.9 to 128 in a TINYINT); keys of a map read like
    another key, and its values go beyond one per probed key; a list stands for a
    STRUCT with another number of items; an address or a nested value is text in a CHAR.
  - JSON text is `null` in a nested `NOT NULL` column.
  - A batch has more items than an offset counts; extremes are tried one at a time.

  The list is that of the generators as modelled; what that leaves out is said
  [above](#how-the-models-correspond-to-the-code).
- `RowsConserved`, `SinkAccounted`, `OkMeansDelivered`, `SinksClosed`: the same
  questions asked of the vendored pipeline, whose sinks count rows before they
  are safe (buffered, in flight) and must account for them when they finish.

**Bounds.** Two tasks of a kind are the least that can race, and three clones or
generators are used where a race has a bystander (`reserve_batch`, blocks). A
queue of one slot is full as soon as anything is in it, so blocking happens at
once. Three rows in batches of two give one full and one short batch
(`pipeline_shutdown`); three batches of one are the least with which both workers
can give up while a generator still has rows to send (`pipeline_faults`). One tolerated failure per worker reaches both arms of every
error handler: the first failure is tolerated, the second is not.
`SizeTarget` needs a target well above `RowGroupRows` so that projection, and
not only the encoded bytes, ends generation. `MaxFiles` and `Credits` are the
only counters the models cap beyond what the code does. A run without a quota
(`RowsLimited = FALSE`, bounded by `RowBound` in the model) has no run of its own;
the proofs cover it. In `SequenceString` the largest counter is
chosen so that the last admissible index is exactly reached: one block more and
the run would be refused, one less and no draw would come near it.

In `bucket` three files are the least that fill one folder and begin the next while
one run has two writers; two uploads and pages of one are the least for which the
list has a second page; with a cutoff of no days and one midnight an upload is on
either side of it. Runs and ids are interchangeable, which the run uses as
symmetry: 1,115,552 states are left of it.

`column_batch` scales the constants of the conversions so that TLC's integers hold
a 128-bit one and each limit is an ordinary value: 4 bits for TINYINT, 16 for
LARGEINT and `i128`, 4 digits for a native decimal, 2 seconds in a day, 2 digits of a
second, 3 elements below one array. `WidthsNest` keeps their order, which is all the code relies on. The
schemas hold every type, each nesting the flattening treats differently, and each
name `derive.rs` looks for; the dressed ones cross types, nullability and what may
follow a column. The given specs put each generator against a column it fits, one
it exceeds at an end and one it exceeds in between. The ordered specs are all 512
ways in which three fields can read each other, and the paths. Two rows per batch
are the least for a row to slide into its neighbour: 61,975 states.

The proofs remove these bounds for every property they cover.

## Fairness

`FairSpec` assumes weak fairness of each generator, each worker, the main task,
the status task and the clock: tokio polls a task that is ready, the atomics
never block, and time passes. Nothing is assumed about which of several senders
or receivers gets the next slot or batch, and no fairness is assumed for any
individual outcome (a write may always fail, a compare-and-exchange may lose as
long as somebody else wins). Uploads are assumed to return, with an error if
need be: the object store client bounds its retries by `retry_timeout`.

In `pipeline_shutdown` two workers that tolerate one failure each can only both
give up once the quota is used up, so no generator is left waiting. When all
workers give up earlier, with the status task running, the run does not end:
that is `pipeline_gave_up`.

`SizeTarget` has no quota, so with the status task running the same can happen to it whatever
its constants. Its `Termination` therefore allows for one state that is not the end of the
run, `Stranded`, and only where there is a status task.

In `ReserveBatch` only the generators are fair: credits may never come.

`Bucket` and `ColumnBatch` promise nothing that has to happen; that neither can get
stuck before its end is checked as the absence of deadlock.

In `DatagenStream` producers, sink threads and `run` are each weakly fair; the
clock is not, as a run with few rows need not reach its limit. `Settle` under
fairness means that a Kafka client reports each record sooner or later, delivered
or not (it times messages out by itself), and that room comes back to its queue.

## Proofs

All theorems hold for every number of tasks, batch size, queue depth and quota,
under the named assumptions on constants (`PipelineAssumption`,
`ReserveBatchAssumption`, `SizeTargetAssumption`, `SequenceStringAssumption`,
`ObjectLayoutAssumption`, `BucketAssumption`, `DatagenStreamAssumption`, and for the
batches `WidthsNest`, that the limits of the types are ordered as in the code, and `DerivedAssumption`, that the literals in `derive.rs` fit the types
they are for and the clock shows a storable day, `TypesAreTrees` and `ValuesHaveParts`), which say no more than the program's
argument types, literals and clamps do.

**PipelineProofs.** The inductive invariant is `IInv` (checked by TLC as well):
the conservation and counter properties themselves, and what they need to
survive a step:

- `HandInv`: a generator holds rows exactly in `build` and `count`, and queued
  batches are not empty. Without it `CountRows` could count rows twice.
- `SinkInv`: what the sink's fields are at each place of the worker's loop. The
  essential clause is that a sink without a file has no rows in its count,
  *except* between a failed close and the abandon that follows, and after the
  worker stopped. `Open` resets the count, so without the clause a reopened file
  could forget rows.
- `RetryInv`: a worker failed exactly if it is over `file_retries`.
- `ShutdownInv`: workers finish only once no sender is left and the queue is
  empty; that generators have stopped is never revoked.
- `CleanInv`: while no upload has failed nothing is lost, and a generator that
  left found the quota empty, which stays empty as nothing is credited.

Sums over tasks are handled by the lemmas of `TotalsProofs` (a changed entry
changes the sum by the difference; appending, taking the head, bounds). The
lemma about every prefix is proved by the well-ordering of the naturals rather
than by a theorem schema. The sum of sums, the order of sums and a bound on each entry
carried to the sum (`TotalSum`, `TotalMonotone`, `TotalAtMost`) rest on the same lemma. `StepInv`-style lemmas go action by action; each of the
theorems `RowsConserved`, `WrittenRowsAgree`, `SentRowsAgree`, `FilesConserved`, `OkIsDrained`,
`CleanIsExact` then follows from `Invariance`. `QuotaDrained` is an action
property from the invariant; `ImplementsLedger` maps each action to `Reserve`,
`Store`, `Lose`, `Refund` or a stutter.

**ReserveBatchProofs.** `remaining + Total(taken) = Quota` with the type
invariant is inductive, as the exchange compares with the loaded value. The
refinement of the ledger and `LeavesOnEmpty` follow step by step.

**SizeTargetProofs.** Five layers, each of which needs the ones before:

- `SinkInv`: what a sink has reported of its own counts at each place of its loop, half
  done updates included (`CellOk`), and that the gauges are the sums of the reports. It
  holds whatever fails. Types are part of it: the sinks also subtract from the gauges, and
  only the sums show that there is enough to subtract from. `GaugesPair` follows.
- `FlowInv`: while no row is lost, every row sent is in the queue or with a sink, and a
  worker that leaves leaves an empty queue that nobody fills again.
- `ReadInv`: while no read was torn, a generator between two of its loads holds a byte total
  that is at most the rows it will divide by, and equal to them once both are read: the
  gauges may move on between the loads, but only upwards and together.
- `StopInv`: a generator that has stopped did so at a time when the rows sent were already
  worth the target. As a row is one byte, the projection is the row count
  (`ProjectOneByteRows`). With `FlowInv` at the end of the run this gives `TargetReached`.
- `StartInv`: the rows counted or about to be sent stay within one batch per generator of
  the bound. A generator that starts a batch either projected less than the target, or saw
  nothing encoded; then all that was sent is in the queue or in half-built row groups
  (`BlindRows`), which is `Blind`. `OvershootBounded` follows.

**SequenceStringProofs.** Uniqueness rests on the invariant that unfinished
blocks are disjoint and below the cursor and that an emitted index is in none
of them. For the capacity theorems the invariant also counts: indices claimed
are at most rows drawn plus `BLOCK` per other clone still holding one, which is
where `(threads - 1) * BLOCK` in `check_sequence_capacity` comes from.

**BucketProofs**, the layout. Within a run a writer never repeats an index, so a key
determines the file; every completed file's key is taken by a stored object.
Only a run with the same id can therefore have replaced it. For the folders,
`NumbersInv` says that the numbers a run has given out are exactly those below its
counter, each once; a folder is then an interval of `files_per_folder` numbers
(`BatchOfNumber`), and a bijection between the two counts its files. A folder below
the last one is full (`NumberingHasNoGaps`), and as numbers are given out upwards no
file is opened in it again (`FullFoldersAreFinal`, with `OpenInv`: a file that is
still open is numbered and not yet complete).

The uploads. Each step of a writer is by its definition a step of `ObjectLayout` or
leaves the layout alone (`BucketKeepsLayout`), so that the three theorems above are also
theorems of `BucketSpec`. `PartsInv` ties every upload to a numbered file whose upload began and each
writer to one open file; with it each way a file can end accounts for its upload.
`AgeInv` says what `calcsize` holds between its steps: uploads whose file once began,
each past the cutoff on a day that has come, unless told to take all. `QuietInv` is what
makes paging sound for `SweptClean`: once nobody writes, an upload that is left is on
the list or not listed yet, and none is added.

**ColumnBatchProofs**, the order. `CountsInv` is what the counters of `build_generation_order`
mean: `indegree` of a field is the number of fields it reads that are not placed, and
the heap holds exactly the unplaced fields for which it is zero. From it follow that
a popped field is the best of those that could come next (`PopReadyInv`), and that
with an empty heap every field left waits for one that is left (`HeapEmptyInv`).
`PlacesInv` counts placed fields once each, so that comparing lengths, as the code
does, compares sets. `GenerationOrderSound` is about `OrderSpec`, the sort alone with any
spec; `RunsOrderFields` about the sort within a run.

The conversions. A decimal reaches its column on one of three paths (rescaled, padded
as text, padded as text for 256 bits) and is exact on each (`RescaleExact`,
`PaddedExact`, `DecimalExact`): where digits are cut, there was no rest; where zeros are
added, the precision is checked afterwards. A moment is floored to its unit, before the
epoch too (`FloorsIntoUnit`, `MomentExact`). The powers of ten this needs are shown to
exist from the well-ordering of the naturals (`PowersExist`, `TenToSteps`, `TenToSum`).

The builder. `RowsInv` says that between two rows every column, nested ones included,
holds what it keeps of each row taken and nothing else, and that a builder left uneven
belongs to a task that ended; `BatchInv` that what was handed over of a column is the
array made of what it held; `TableInv` that the table stays as it was. `BuilderInv` is shown of `BuilderSpec`, which allows every row of every table, and
`ScalarBatchesAssemble` of it too (Arrow never refuses a batch of scalar columns, so only a
value can fail its task).

The whole run. `RunInv` puts the parts together: what the file says is what the columns
are (`Parsed`), the spec is the one given or derived from them (`SpecChosen`), the sort
keeps `OrderInv` and starts when the spec is known, a spec that is not sorted, does not cover
the table or does not fit it draws no row, and from then on each step is one of
`BuilderSpec` on rows of values (`RunIsTask`, `RowsAreDrawn`), so that `BuilderInv` holds.
`RunsOrderFields`, `CellsAreExact` and `EveryRowReadsBack` are theorems of `Spec` itself,
for every set of cases.

Nested columns. `EveryTypeRestores` says that whatever `build_array` makes of any values
of any type reads back as those values; it is proved by induction on the number of types
a type is made of (`PartsAreSmaller`), from one lemma per kind of type (`ArraysRestore`,
`MapsRestore`, `StructsRestore`, `ScalarsRestore`). The heart of each is `OffsetsPlace`:
flattened groups lie where the running totals say, null and empty ones included. That
`FlattenSeq`, a fold, computes what its definition suggests is proved from the
functions that witness it (`JoinsExist`, `JoinsAgree`, `FlattenJoins`). The one hypothesis,
`Recursion`, is what the cfg states: that the three constants for nested types are the
operators that call them. `EveryRowReadsBack` is then `RowsReadBack` for every run.

The check before the first row. `ProbesSuffice` is the reason it can try extremes only:
every conversion accepts an interval. One lemma per kind of generator shows that what
lies between two accepted ends is accepted (`IntsBetween`, `DecimalsBetween`,
`FloatsBetween`, `RoundedBetween`, `MomentsBetween`, `TextsBelow`, `AddressesAlike`),
from the monotonicity of division, truncation, rescaling and of the number of digits;
it fails only where `PlainlyBlind` says. Opaque texts lie between no ends: they are taken by a
column that stores any text, or because a longer text was tried (`OpaqueTextTaken`). `DerivedScalarsFit` goes the other way, from the
literals of `derive.rs` to the column. `ServedTasksNeverFail` joins the two: a task whose
generators were derived, or were tried, are not blind and never bail out, never fails,
whatever it draws. That is the scalar
half of `FailsOnlyBlind` and `DerivedFits`, for every width and any number of rows.
Trying to prove it showed two blind spots the model had left out: floats rounded past
their ends, and generators with nothing to draw.

`DerivedKeysStayApart` is about the keys of a MAP, which `build_nested` compares as text
before it converts them: keys that `map_key_generator` draws for a scalar type, and that
differ as text, are stored as different keys. `KeysShaped` says what such a key looks
like; the key is then kept as its text (`TextKept`), or as a number, day or moment that
its text shows in full (`ShownAsKept`, `DecimalExact`).

`DerivedMapsKeepKeysApart` carries this to the batches of a run. `RowsDrawn` says that every row
taken, and every row of the batch handed over, is one its spec draws, and `CheckedFirst` that
there is no such row before the fields were sorted and the spec accepted. So the names of the
fields differ and each column reads the field derived for it (`DerivedField`), its map's keys
are scalar, as `arrow_schema` refuses others (`KeyTypes`), and drawn by
`map_key_generator` (`MapGenerator`); a drawn map has keys of different texts (`MapDraws`),
and reads back as them (`RowsKeptInPlace`, `MapMeaning`). A CHAR of no width is the one key type
`DerivedKeysStayApart` leaves out: its keys are all one text, so that a map has one at most.
The hypothesis `GeneratorRecursion` is the cfg's, as `Recursion` is.

`OnlyBlindRunsFail` is `FailsOnlyBlind` for every table, spec and row, nested ones
included. `EveryTypeBuilds` says of a set of values which a column stores with all their
parts (`Closed`) that an array is built of any of them (`BuildsAll`), unless they are too
many for an offset (`Overfull`); again by induction on the size of the type, from
`ArraysBuild`, `MapsBuild`, `StructsBuild` and `ScalarsBuild`. The set it is used for is
`SoundPairs`: nulls, values some array was built of, and what is drawn by a generator of
which all the probes were, and to which the column is not blind (`Vouched`).
`SoundIsClosed` is the heart: taken apart, a drawn list, map or struct has parts that are
in the set again. For each nested generator that needs what its probe shows of the parts:
that every probe of an element is in the list tried (`ArrayDrawnWhole`), that every key and
value of an entry is in the map tried, unless there are keys of one text or more values
than keys (`MapDrawnWhole`, `TriedKeys`), and that in as many structs as the longest field
has probes each field shows all of its own (`StructDrawnWhole`, `RoundsBuilt`). What is in
the array of a whole is built of its own type (`BuiltParts`), which is how a probe of the
whole vouches for the parts. At the level of the run (`ColumnTried`) a row is then refused
only by a blind column (`RefusedIsBlind`), a column finished unless it is blind or too large
(`UnbuiltIsBlind`), and the batch assembled unless a nested NOT NULL column took a text
that reads as null (`FinishedFits`). Trying to prove it showed five blind spots more, which
the property now lists: keys that read alike, values beyond one per key, lists for structs,
nested values and addresses as CHAR, and batches too large.

**DatagenStreamProofs.** `RowsConserved` is inductive together with `HandInv` (a
producer holds rows only while it builds them, so a reservation overwrites
nothing), `BatchInv` (a sink thread has rows left exactly while it is busy with
one, which it never is while finishing; otherwise a received batch could replace
the rest of another) and `SpawnInv` (a thread is spawned once). However a sink
step ends, it moves rows in one of four ways (`ContinueStep`, `RowDoneStep`,
`LeaveLoopStep`, `FailStep`), so the lemma for an action only says which.

`SinkInv` adds what each sink holds at each place of its thread: a thread without an
error has counted all its sink holds (`Holds`) but the one row it may be handing over
(`Uncounted`), nothing is on its way outside `append`, and only the kind of sink that
buffers or waits does so. `SinkAccounted` and `SinksClosed` are read off it. That `Ok` means
delivered needs the whole pipeline at once: a thread that left its loop without an
error, a stop or the time limit did so because all producers are done and the queue is
empty (`PastInv`); rows are missing only where there is `Trouble`, an error that is
somewhere between the producer that met it and `run`; and trouble does not go away
(`ProducerDelivers`, `ThreadDelivers`), since no producer finds the queue closed while
`run` can still return `Ok` (`ClosedMeansTrouble`). `JoinInv` is what `run` knows from
the threads it joined.

**Model-checked only:** every liveness property (`Termination`, `AllReturn`),
as the prover has neither fairness nor `ENABLED`; and of `ColumnBatch` two invariants. `ReadsAsWritten` is about text, scanned and
parsed by operators that recurse over it: what they compute for every DDL takes an
induction over data. `DerivedFits` is proved for scalar columns
(`ServedTasksNeverFail`, of `TaskSpec`) and checked for nested ones.

## Where the program and its documentation disagree

Each has a run that finds a counterexample:

- `pipeline_gave_up`. The status task holds a receiver of the queue
  (`src/main.rs:599`) and keeps it until the run is done. If every worker gave up
  while generators wait for room, sends never fail, and the run hangs instead of
  failing. The comment at `src/main.rs:627` says only workers should hold one. A
  size-bounded run hangs in the same way; `Stranded` in `SizeTarget` is that state.
- `pipeline_made_up`. A batch whose write fails is neither counted in the file nor
  credited, so a `--rows` run that tolerated one ends short by that batch,
  although `README.md:359` says `--rows` is exact and `src/main.rs:283` that the
  generators make up the difference. A debug build panics there, at
  `debug_assert_eq!` in `src/main.rs:685`.
- `size_target_losses`. `rows_generated` still counts the rows of abandoned files,
  so the projection stops a run short by their share, although `README.md:346`
  says a size-bounded run makes them up.
- `ddl_nullability`. `parse_column` counts the length of a type from its first
  character and cuts it off a text that still has the blanks before it
  (`src/schema.rs:400`). With two blanks before a STRUCT whose last field has a
  COMMENT, the quote that ends the comment opens one in the rest, and `NOT NULL`
  is taken for text: the column becomes nullable, although the DDL supplies
  nullability (`README.md:107`).

Seen while modelling, without a run of their own:

- A tolerated failure of the *last* close (`src/main.rs:293`) raises neither
  `files_abandoned` nor `rows_lost`, so the final line does not mention the loss
  that `README.md:338` says it does.
- `close_active` adds a closed file to `bytes_written` before it takes it out of
  `active_bytes` (`src/sink.rs:380`); a generator reading in between counts it twice and
  can stop early, although `src/sink.rs:54` counts a file as closed or in progress.
- A close that fails leaves nobody to abort the upload (`src/sink.rs:370`, then
  `abandon_active` finds no writer), and a worker that gives up drops its file without
  abandoning it, although the comment at `src/sink.rs:308` promises that no parts
  linger. `PartsExplained` lists both; `calcsize` clears them.
- `calcsize` groups objects by a run id it expects in the file's name
  (`src/bin/calcsize.rs:88`), where the sink now writes it as a folder: `--by-run` puts
  every file under `-`.
- An integer column named `id` is given a sequence that starts at 1 and has no end
  (`src/derive.rs:107`), however narrow it is: a run of more than 127 rows on an `id TINYINT`
  is refused a row that the check before the first one could not foresee.
- `validate_against_schema` tries extremes only; `FailsOnlyBlind` lists what gets past it
  and fails a run later, although `src/main.rs:783` says that a spec that
  cannot fit fails there, and `src/probe.rs:3` that one which can produce a value the
  column cannot hold does. Some of them need no value to be guessed at: a
  `float_range` with `precision: 0` reports its ends before rounding
  (`vendor/datagen/src/probe.rs:76`); `random_bytes` in hex reports zeros
  (`vendor/datagen/src/probe.rs:108`), which pass for a number in an integer column; and
  a null rate of 2 (`vendor/datagen/src/generators.rs:973`), a range that ends before it
  starts or an empty `choice` (`vendor/datagen/src/generators.rs:979`) is compiled and
  probed without complaint and refused by every draw.
- `split_top_level` knows no backslash escapes (`src/schema.rs:325`), which `strip_comments`
  and `match_paren` do: after `COMMENT 'it\'s'` it takes the rest for quoted, and the next
  column disappears without an error, although the comment at `src/schema.rs:323` says that
  it splits outside quotes.
- `read_type_token` sees no quotes inside `<...>`; `strip_nullability` misses `NOT  NULL` with two blanks inside a nested type;
  a column entry written `INDEX(a)` without a blank is read as a column;
  `find_create_table` sees no quotes, so that a table comment holding `CREATE TABLE` is
  taken for one; a table named `exists`, `if` or `not` without quotes is passed over,
  because the optional words are always consumed (`src/schema.rs:246`).
- The keys of a MAP are compared as text (`src/parquet_out.rs:569`), so a hand-written
  spec can store one key twice after conversion (`2.0` and `2` of a float as INT).
- A typed decimal that ends in a zero beyond the column's scale is rescaled, the same
  number as text is refused, although the test at `src/parquet_out.rs:1022` wants the
  two paths to agree.
- `insert_nested` says that a field `customer` and a field `customer.name` "cannot both
  exist once validated" (`vendor/datagen/src/generators.rs:458`); nothing refuses them.
  `OrderSound` covers such specs (the full name wins), but what a template then reads
  depends on the order of a hash map. Paths used in block helpers or with several
  arguments are not taken for dependencies at all.

- `Stats.rows` can be ahead of `rows_generated` for a moment (`src/sink.rs:30` says
  it trails), as a batch is counted as generated only after it was sent.
- A size-bounded run can overshoot by more than the queue
  (`README.md:361`): until the first row group is encoded nothing has a size, so
  each worker's half-built row group comes on top. `OvershootBounded` states the
  bound that does hold.
- `check_sequence_capacity` does not count rows credited after an abandoned file,
  so an admitted run can still fail partway through (`README.md:252`). It does
  fail; it never emits a longer value. `AdmittedRunsThrough` states what holds.
- A file number is used up by a file that fails to open or is abandoned, so a
  batch folder can stay below "exactly `files_per_folder` files"
  (`README.md:277`). `FoldersPacked` is about the numbering, which has no gaps.
- In the vendored pipeline the comment "One failure stops the others at their next
  batch" (`vendor/datagen/src/stream.rs:119`) holds only from the moment the
  failed thread is joined: a failure of a later thread stops nobody while an
  earlier one is still being waited for.
- "Finish even after an error so files are flushed and Kafka is drained"
  (`vendor/datagen/src/stream.rs:273`): a Parquet sink whose rows could not be
  decoded tries the same buffer again in `finish`, fails again and returns before
  it closes the file, so the row groups before it are left without a footer; a
  Kafka sink's `finish` stops at the first failed delivery. `SinksClosed` promises
  a closed file after an error for text sinks only.
- `TokenQuota` refills a hundredth of the rate per 10 ms, truncated: 199 rows per
  second become 100 (`vendor/datagen/src/stream.rs:318`).

## Not modelled

- Configuration (`src/s3.rs`, `vendor/datagen/src/{config,spec,registry,units}.rs`): reading
  and validating parameters, one condition each, without state.
- YAML and the wording of specs and messages; the load expressions of sketch columns;
  which paths a template names; the overrides on the command line.
- The vendored crate's encoders, Avro, Protobuf and CSV schemas (`vendor/datagen/src/schema`,
  `text.rs`), which only its own command uses, and `output_order` with them.
- How values are distributed, and the bytes of a Parquet file or of a status line. What the
  status task reads and when it ends is part of `Pipeline`.
- In `calcsize`: totals, run ids and their layout; only uploads are followed.
- The object store client below `Bucket`: requests of one upload, their retries and parts.
- A restart: nothing is persisted and no run resumes another. A crash is `Leave` in
  `Bucket`, for one writer or all of them.
- Wrap-around of 64-bit counters: 2^64 rows or draws are out of reach of a run.
  Saturation of the counters in `sequence_string` is modelled.
- Relaxed memory order between different atomics beyond interleaving. The
  counters read across tasks are monotone or published by a single writer at a
  time; the quota uses a sequentially consistent exchange.
- In `DatagenStream`: runs without a row limit, rate limits (they only delay), the
  lock around the receiver (who holds it makes no difference to who may get the
  next message), panics.
- In `SchemaText`: what may stand in a name, and tokens that touch (`a/*x*/b`).

## Plan

Done, in this order: `RowLedger`, `Pipeline`, `ReserveBatch`, `SizeTarget`,
`SequenceString`, `ObjectLayout`, `DatagenStream` (the accounting of rows and files
first, as everything else depends on it); `Cells`, `Columns`, `Generators`, `FieldSpecs`,
`SchemaText`, `BatchBuilder` and `ColumnBatch` (from the schema file to the batches);
`Bucket`; `SpecOrder`; and the proofs listed above.

Next:

1. Theorems: the nested half of `DerivedFits`.
2. The limits of `s3.rs` (part size, file cap, retries) where they bound `Bucket` and
   the sink, and which paths of a template `extract_template_dependencies` finds.
3. The size-bounded run with losses, refined against `RowLedger`'s counterpart for bytes.

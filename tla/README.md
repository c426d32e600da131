# Parquex: TLA+ specifications, model checks and proofs

Parquex is an Elixir library with a Rust NIF (`native/parquex_nif`) that reads
and writes Parquet files in object stores: a local directory or S3. This
directory holds TLA+ models of its stateful parts, TLC configurations for small
instances, and proofs that TLAPS checks for every instance.

Paths such as `lib/parquex/store.ex` are relative to the repository's root;
`s3.rs` and the like are files of `native/parquex_nif/src/`.

## The system

| Component | Source | State | Operations |
|---|---|---|---|
| Local writer | `local.rs`, `store.rs`, `lib.rs` | staging file, `file`/`active`, token, mutex, `ACTIVE_WRITERS`, `STAGE_SEQUENCE`, the directory | open, write, publish (sync, rename or remove and rename, directory sync), abort, Drop, owner `down`, delete |
| S3 writer | `s3.rs`, `object.rs`, `lib.rs` | upload, part tasks, buffer, `active`, token and its waiters, the provider's uploads | open, write, publish (finish, head), abort, Drop, `down` |
| Native Parquet writer | `writer.rs`, `lib/parquex/writer.ex` | encoder with its open row group, staged output, `active`, mutex | open, write_batch, close, cancel, Drop, `down` |
| Native Parquet reader | `reader.rs`, `lib/parquex/stream.ex`, `reader.ex` | footer, selected row groups, prefetch queue, byte figures, `active`, mutex | open, next, close, Drop, `down` |
| Pruning | `reader.rs` | none (functions of footer and predicate) | compile predicate, select row groups, filter rows |
| Dataset writer | `lib/parquex/dataset/writer.ex` | GenServer: active entries, buffers, access clock, reports | write, close, cancel, owner exit |
| Dataset stream | `lib/parquex/dataset/stream.ex` | plans, listed keys, current reader, control Agent | next, finalize, close/1 |
| Time partitions | `time_partition.rs`, `lib/parquex/time_partition.ex` | none (functions and one loop) | for_timestamp, parse, plan |
| Store reads | `lib/parquex/store.ex`, `local.rs`, `s3.rs` | offset and chunks of one read | head, read_range, read |
| Store listing | `store.rs`, `local.rs`, `s3.rs`, `lib/parquex/store.ex` | the walk: open directories, current entry, output; the pages of a request | list |
| Value conversion | `writer.rs`, `reader.rs` | builders of a batch, nested by type | arrow_data_type, decode_batch, native_data_type, encode_batch |
| Store contract | `lib/parquex/store.ex` | keys and objects | open_writer, write, publish, cancel, delete |

How they interact. The dataset writer routes rows by time partition to native
Parquet writers; each owns a store writer. The dataset stream asks
`TimePartition.plan` for partitions, lists each in the store and reads the files
one at a time through native readers. Every native resource is a mutex-guarded
state with a cancellation token, and monitors the process that opened it: the
`down` callback sets the token without the mutex, then takes the mutex and
aborts. NIF calls run on dirty schedulers, callers are arbitrary BEAM processes,
and the S3 calls wait for the provider or the token, whichever comes first.

What is hard, and what makes each part correct:

* **Two ways of ending everything.** A resource is ended by publish/close, by
  abort/close/1, by the owner's exit and by Drop, in any order. Counters must
  stay exact, a staged file must be published or removed once, and an answer must
  be true. (`LocalWriter`, `MultipartWriter`, `ParquetReader`, `ParquetWriter`)
* **Cancellation racing a publish.** Once a token is set before the publish has
  been admitted, the object never appears.
* **Crashes and clashing names.** Instances on one directory, and an instance
  before and after a restart, number their staging files alike.
* **A provider that acts late.** A completion may take effect after its caller
  has given up.
* **State that is read, then used.** The failure branch of a dataset write, the
  accumulator of `Stream.resource`, `Process.alive?` before an Agent call, the
  size from a head before range reads, a listing before the opening of files, an
  entry of `readdir` before its `stat`.
* **Rows found by position.** A nested Arrow array has no values of its own; one
  null too few in a child shifts every later row. (`ArrowValues`)
* **Silent loss.** Pruning by statistics, rotation at limits, row filters at the
  end of a range, calendars around year ends: a mistake loses or doubles rows
  without an error.

`PROJECT.json` lists the hazards with the line where each bites and the property
that would catch it.

## Modules

| Module | Models | Correspondence |
|---|---|---|
| `ObjectStore` | what a store promises its writers | abstract: a writer is open, published or discarded; a publish replaces a key as a whole by the writer's content, and published content does not change |
| `LocalWriter` | `local.rs` writer, NIFs and monitor | one action per call; publish is split at its OS calls (`BeginPublish`, `PreparePublish`, `RemoveDestination` on Windows, `RenameStage`, `FinishPublish`), because the owner's exit sets the token between them and other writers see the key between them; `Crash` loses an instance's memory and keeps the directory |
| `Selection` | the row filters, and batches end to end | `Select` is `SelectSeq` with a set for the test, as a recursive function, so that it can be proved about; `Joined` concatenates a queue of batches |
| `LocalWriterProofs`, `MultipartWriterProofs`, `ParquetWriterProofs`, `ParquetReaderProofs`, `DatasetWriterProofs`, `DatasetStreamProofs`, `CallProofs` (store reads, listings and plans), `SelectionProofs` | theorems | see Proofs |
| `MultipartWriter` | `s3.rs` writer | each await is split at the load of the token, the registration of the waiter and the wake-up; the provider's side of a request is an action of its own |
| `ParquetWriter` | `writer.rs` | rows enter the open row group one by one; a full group is flushed to the staged output, which is a store writer at its contract |
| `ParquetReader` (extends `Pruning`) | `reader.rs`, `stream.ex` | the mutex is held for a whole `reader_next`; each decoded batch is a step; the object may be replaced under the reader (row `Foreign`) |
| `Pruning` | row-group selection and the row predicate | operators over a file with statistics; `WellDescribed` is what a Parquet footer promises |
| `Dataset` | what the dataset writer promises | abstract: rows are taken, become visible in whole disjoint parts that stay; close needs all of them; nothing appears after close or cancel, and after a failure or a kill at most the one part that was in doubt |
| `DatasetWriter` | the GenServer | a call is its steps: rows are routed one by one, parts closed one by one; the failure branch of a write uses the state saved at entry, as the code does; a part whose native close failed, or was running when the server was killed, is `"closing"` until `NativeCloseEnds` publishes or discards it, because the server never learns which |
| `DatasetStream` | the enumeration, `close/1`, the store under them | `next/1` is split at its calls; `set_current` and `close/1` at their Agent calls |
| `TimePartition` | `time_partition.rs`, `time_partition.ex` | an exact proleptic calendar replaces chrono; the planning loop is the state machine, the rest are operators |
| `StoreRead` | `Store.read/2` | head, then ranges; a local range is a stat and an open, an S3 range one request |
| `StoreList` | `Store.list/2` | a local list is a walk with one step per `readdir` entry and per `stat`, with writers' changes in between; `FollowLink` and `LookUp` are `fs::metadata` of the prefix, with the links in it followed; an S3 list is its pages; `ListCallFails` is a call the system or the provider refuses, with any category of `from_io` or `remote_error` |
| `Store` | the two calls over one namespace | extends both; a behaviour makes one of the calls |
| `ArrowValues` | `decode_batch` and `encode_batch` with the types' conversion | a batch goes column by column through builders that mirror Arrow's (validity, ends, children) and back; the reference `Conforms`/`Returned` is defined row by row, without arrays |

`MC*` modules give the constants values. Definitions next to a mapped one that
are not used by it are its mutated forms: replacing the definition by one of them
must break the property `PROJECT.json` names.

Data is abstracted: rows are numbers with the value the predicate looks at,
payloads are counted in units, keys are model values, and where another module
meets a value that cannot be converted it is a "flaw" or a refusing action
(`ArrowValues` says which ones are: an integer is the widths that hold it, a
binary its length and whether it is UTF-8 or the text of an integer). The control of
the modelled operations is kept: state changes, guards, early returns and the order of
effects. Errors are told apart where a property or a caller's next step depends on them
(by category in `StoreList`, as an error in the other modules); what is left out is
listed under "Not modelled", and what is assumed of the operating system under
"Assumptions".

## Runs

Passing runs (deadlock is not checked where the system may really stop: writers
are closed, enumerations end, the bounds are reached):

| Run | Instance | Shows |
|---|---|---|
| `local_writer` | a Unix and a Windows instance, 2 writers with different sync policies, 1 key, 2 attempts, 1 crash | staging files are exclusive and none is left but by a crash or a refused removal; `ACTIVE_WRITERS` exact; answers are honest; a cancel before admission keeps the object from ever appearing; published bytes never change, and a key is emptied only by a delete or by the removal with which a Windows writer begins to replace it; the writer implements `ObjectStore` |
| `multipart_writer` | 2 writers on 1 key, parts of 2 units, 1 crash | the same for S3, with failing parts, lost answers and late completions; a completed object has all its parts |
| `multipart_writer_live` | 1 writer, 4 parts, 2 in flight, fairness | an owner's exit ends the writer whatever it waits for; buffered and in-flight data stay within `multipart_buffer_limit_bytes` for chunks up to the part size |
| `dataset_writer` | 4 rows in 3 partitions, 2 open parts, limits of 2 rows and 2 bytes, flawed and oversized rows, kills between and during native calls | no acknowledged row lost or doubled; parts and open writers within limits; reports true (a failed write leaves out the parts it completed itself; a failed close names all published parts but the one whose native close failed, which may be published all the same, or none if a flush failed); the server implements `Dataset` |
| `dataset_stream` | 4 files in 3 partitions (2 in range), a closer, publishes and deletes, S3, fairness | rows once, in order, exactly those of the range; one reader at a time; a finished enumeration leaves no reader; a reader that `close/1` misses is the one just opened; the enumeration ends also when `close/1` stops the Agent under it |
| `parquet_reader` | files with exact, inexact, loose, wrapped and missing statistics, every comparison, a closer, fairness | counter and byte figures exact; what is delivered is a prefix of the answer without pruning, all of it at a clean end; the native reader is released at every end, and `close/1` returns |
| `parquet_writer` | 3 batches over groups of 2 rows, 2 cancellers, fairness | a published file holds exactly the acknowledged batches; `active`, output and answers agree; cancel stops publish; the output is released after the owner's exit, and `cancel/1` returns |
| `time_partition` | 27 instants around year ends, leap days and the epoch, 4 units, 5 granularities, 3 limits | plans tile the range; a routed timestamp is in a planned partition; a plan fails exactly when the range has more partitions than the limit; paths name partitions uniquely and parse back |
| `store` | reads of 0 to 4 ranges, 3 versions, fairness; lists over 3 keys with 2 changes, 2 links inside the root and one out of it, at 4 prefixes (the root, a link, one that only names below a link's target begin with, one through the link out of the root), pages of up to 2 keys; both backends | no byte skipped, repeated or misplaced; a read ends, but for one case of the local store; a list is ordered, has every object at the prefix that stayed and nothing foreign, names twice only a file that vanished meanwhile, and, unless a call is refused, fails only for a cause it met |
| `arrow_values` | 52,824 batches: every leaf type with values at its edges, lists, fixed lists and structs two deep with nulls at every level, malformed shapes | exactly the conforming batches are accepted; what was written is read back row by row, but for the conversions `ReadsBack` names |

Runs that end in a violation, each a disagreement between the code and the text
the property quotes:

| Run | Disagreement |
|---|---|
| `dataset_stream_prefix` | `local_list` of a missing directory lists the parent by string prefix; partition paths are not padded, so a missing `day=1` returns the files of `day=10`, whose rows come twice |
| `multipart_writer_orphan` | a cancelled publish has already taken the upload; `abort` then finds an inactive writer and no abort request is sent |

Further configurations, kept to reproduce other disagreements and two longer
checks; run them as `tlc -config X.cfg M`, where `M` is
the `MC` module (`StoreRead` itself for `MCStoreRead...`):

| Configuration | Property | What TLC finds |
|---|---|---|
| `MCLocalWriterTorn` | `PublishedComplete` | violated: a failed `write` leaves the writer open, and a later publish makes part of the failed chunk visible (`docs/stores.md:86` says the destination is replaced "after the data is complete") |
| `MCMultipartWriterLargeChunk` | `BufferWithinLimit` | violated: one chunk of several parts starts all of them at once (`@meta/@pm/ROADMAP003.md:96`: "S3 buffering is bounded by multipart part size and in-flight part count") |
| `MCMultipartWriterWake` | `CancelWakesCall` | violated: a cancel between the load of the flag and `notified()` wakes nobody; the call sleeps until the provider answers or times out |
| `MCDatasetWriterWriteReport` | `WriteFailureReportsAll` | violated: parts published during the failing write are missing from its details, because the branch uses the state from before the call |
| `MCDatasetWriterCloseReport` | `CloseFailureReportsAll` | violated: a close that fails at a flush reports no parts |
| `MCDatasetStreamFailure` | `FailureReleases` | violated: `finalize/1` gets the accumulator of the last completed `next/1`; a reader opened in the failing one stays open until it is collected |
| `MCDatasetStreamIdempotent` | `CloseIdempotent` | violated: the Agent may stop between `Process.alive?` and the call, and `close/1` exits |
| `MCDatasetStreamClose` | `CloseClosesReader` | violated: a reader opened and not yet handed to the Agent is missed by `close/1` |
| `MCParquetReaderBlock` | `CloseNeverBlocks` | violated: `close/1` waits on a normal scheduler for a mutex held during I/O |
| `MCParquetWriterBlock` | `CancelNeverBlocks` | violated: `cancel/1` waits on a normal scheduler for the very call it should cancel |
| `MCStoreReadEndless` | `ReadEnds` | violated: a local object replaced by one that ends exactly at the current offset answers empty ranges for ever, and `read/2` does not end (`@meta/@pm/roadmap001/EPIC007-spec.md:63` wants no "indefinite wait"); `Stalled` in `StoreRead` is that case, and the run `store` shows there is no other |
| `MCStoreReadMixed` | `ReadIsOneObject` | violated: a replacement between two ranges gives an answer with bytes of two objects |
| `MCLocalWriterLive` | `OwnerExitReleases` | holds: after an owner's exit the local writer ends |
| `MCDatasetWriterLive` | `StoppedReleases` | holds: however the server ends, also in the middle of a native close, every part it opened is published or discarded in the end |

What the models show beside the properties, as behaviour a user may not expect:

* A close of the dataset writer that answers an error may have published the part
  (on S3: a lost answer, or a failed head after the completion), and a
  server killed during a native close may publish a part after its death: the NIF goes on.
  Neither part is in any report, which is the exception `ReportSound` names (`doubt`) and
  the state `"in_doubt"` of `Dataset`.
* A local list takes every regular file, so the staging file of an open writer
  is in `Store.list/2` (the dataset stream drops it, its name does not end in
  `.parquet`), and a file that vanishes between `readdir` and `stat` fails the
  whole list. `ListExact` therefore speaks of files, not of objects, and
  `ListErrorCaused` of vanished files.
* One dangling link anywhere below the prefix fails the whole list with `not_found`, and
  one link out of the root with `permission_denied`, although links are never listed
  otherwise.
* A file that is removed and made again during a list may be in it twice, because
  `readdir` may return its name again.
* A prefix means different things: on S3 the segments below it; on a local store
  also the object of that name, and, when no such path exists, every path that
  begins with it as a string. A link at the prefix or on the way to it is followed, and
  the keys in the answer are those of the target, which need not begin with the prefix
  that was asked for; `ListExact` speaks of the prefix with its links followed.
* A Windows publish has a gap in which the key is empty; a crash or a failing
  rename in it leaves the key empty (`docs/runtime.md:15` lists Windows).
  `PublishedFrozen` allows this one step and no other.
* The conversion of a batch ignores struct keys the schema does not name, rounds
  a double for a 32-bit float, and checks a decimal against its bit width and not its
  precision: the Parquet file stores it in the physical type of the precision, and one
  that is too wide for it comes back as another number. `ReadsBack` names these
  exceptions. A fixed length of zero is refused by the schema check of `writer.ex`.

Where a module has `...Consistent`, it is the module's `TypeOK` with the relations
between its variables that the code keeps in every state: the start of an
inductive invariant for its proofs.

### Bounds

The bounds are the smallest at which the interesting cases meet. Two instances,
two writers and two names make every clash of staging names possible, before and
after a crash. Two uploads on one key let a late completion overwrite another
object. Two open partitions of three make eviction happen and late data reopen a
partition; four rows reach it after a rotation. Chunks, rows and parts of two
units are cut at and across their limits. In the tree of `MCStore` the name `f` may be a
file, a directory or missing, and so may be what the link `l` leads to; `m` may dangle or
lead below a file; two changes during a list have
a place before, at and after every entry of the walk, and are what it takes to remove a
file and make it again; pages of one or two keys, as the
provider likes, put a change between any two keys. Columns of up to three rows and types two deep are enough for
a row to be shifted by what came before it. Named bounds (`MaxSequence`,
`MaxChunks`, `MaxCrashes`, `MaxUnits`, `MaxRows`, `MaxBatches`, `MaxVersions`,
`MaxChanges`)
only stop counters; no property is about reaching one. `MaxAttempts` (64 in the
code) is a real limit and is reached.

Symmetry is used on writers (`multipart_writer`), in a run without liveness
properties.

### Fairness

Weak fairness of native steps: a NIF call that has begun goes on, and the VM
delivers `down`. For S3, requests end, because the client has a request timeout;
their outcome is free. For an enumeration, the consumer goes on or stops. Nothing
is assumed of callers, closers, other writers or crashes: they may act or not.
Strong fairness is assumed for one thing: a `close/1` or `cancel/1` that waits for
a mutex gets it if the mutex is free again and again, although other calls take it
in between (`CloseAnswered`, `CancelAnswered`). Once the call has been made, its
NIF waits in the operating system's mutex, which does not starve a waiter for
ever; with weak fairness alone an enumeration without end could.
In `StoreRead`, the loop of `read/2` goes on, which is what makes its endless run
a behaviour of the code and not of the scheduler.

A panic poisons a mutex, after which `down` and `close` do nothing and the
resource lives until it is collected: the release properties of `ParquetReader`
and `ParquetWriter` say "or poisoned".

## Proofs

Every theorem holds for all values of the constants that satisfy the `ASSUME`s of
the modelled module: any number of writers, closers, parts, keys, rows and
batches, any sizes and limits, any years. Each inductive invariant was first checked
by TLC on the instance of the module's run (that of `TimePartition` with its infinite
sets of seconds replaced by an equation for each partition).

| Module | Theorems, and the property each states |
|---|---|
| `LocalWriterProofs` | `CountersAreConsistent` (`CountersConsistent`), `StagingIsExclusive` (`StagingSound`), `VisibleObjects`, `HonestReplies` (`ReplyHonest`), `CancelledStaysDoomed` (`CancelStopsPublish`), `PublishedStaysFrozen` (`PublishedFrozen`), `Refinement` (`ImplementsObjectStore`) |
| `MultipartWriterProofs` | `UploadsAreConsistent` (`UploadConsistent`), `CompletedObjectsAreWhole` (`CompletedWhole`), `HonestReplies`, `CancelledStaysDoomed`, `BuffersAreBounded` (`BufferWithinLimit`), `Refinement` (`ImplementsObjectStore`) |
| `ParquetWriterProofs` | `FlagsAgree` (`WriterConsistent`), `PublishedFilesAreExact` (`PublishedIsExact`), `HonestAnswers` (`AnswersHonest`), `CancelledStaysDoomed` |
| `ParquetReaderProofs` | `PruningIsSound` and `MatchesAreRead` (of `Pruning`), `ReadersAreConsistent` (`ReaderConsistent`), `DeliversTheAnswer` (`DeliversAnswer`) |
| `DatasetWriterProofs` | `ServerIsConsistent` (`ServerConsistent`), `PartsAreWithinLimits` (`PartsWithinLimits`), `ReportsAreSound` (`ReportSound`), `RowsExactlyOnce` (`ExactlyOnce`), `Refinement` (`ImplementsDataset`) |
| `DatasetStreamProofs` | `StreamsAreConsistent` (`StreamConsistent`), `EndsRelease` (`EndReleases`), `RowsInOrderOnce` (`OrderedOnce`), `RangeIsExact` (`ExactRange`) |
| `CallProofs` | `ReadsAreConsistent` (`ReadConsistent`), `ListErrorsAreCaused` (`ListErrorCaused`), `ListsAreExact` (`ListExact`); `PlansTile` (`PlanTiles`), `RowsAreFound` (`RoutedIsPlanned`, and the same for every timestamp), `PathsAreNames` (`PathsIdentify`) |
| `SelectionProofs` | lemmas about `Select` and `Joined`, and induction over data |

### The arguments

**Local writer.** The inductive invariant is

    IInv == TypeOK /\ WellFormed /\ CounterExact /\ StageExclusive
                /\ NoStrayStage /\ VisibleIsOwn /\ ReplyHonest

`WellFormed` ties `pc` to the flags of a writer: an active writer has a node, a
key and a staging name; one past its rename is committed and still active until
`FinishPublish`; one that is not active has no file. Without it neither the
counter (`Finish` is applied to an active writer only) nor the exclusiveness of
staging files is inductive. Exclusiveness rests on `create_new` alone, not on
process ids or counters. For the refinement the rename is the abstract publish,
the removal before a Windows rename an abstract remove of the key, every other end
of an open writer a discard, a crash the discard of a set of writers, and the rest
stutters.

**Multipart writer.** From the moment a completion has been requested nothing of
the object is left at the client: the buffer is empty, no part is in flight and
every part has been stored. This is what makes an object whole that the provider
completes after its caller was cancelled or its instance died, and it is not
visible in any of the properties. `BuffersAreBounded` has the hypothesis that a
chunk is no larger than a part, which is the condition the code's arithmetic
needs.

**Parquet writer.** The invariant follows each row from the batch through the open
row group and the staged output to the file, and ties the step of a call to the
mutex, the flags and the output; a published file is exact because the footer is
written only by the call that found all rows flushed.

**Parquet reader.** `Held` says that a call that decodes holds the mutex of an open
reader, so that no close, exit or collection empties the queue under it; `NoGap`
that, while calls may follow, what was handed out and what is queued are together
the matching rows of those decoded so far. A failed call that has popped a batch
breaks `NoGap`, and the enumeration has ended by then: this is why the property
holds. The answer of the pruned scan is that of the full one by `MatchesAreRead`
and `SelectTwice`.

**Dataset stream.** `Single` and `Ending` say which reader may be open at each step
of `next/1`, also after `close/1` took it away. `InLine` puts the rows emitted, the
rest of the reader in use, the queue and the plan in one line; `NothingLost` says
where each row of the range is meanwhile. The two theorems about rows have the
hypothesis `Unambiguous`: the store is S3 or no partition's path is a string prefix
of another's. The run `dataset_stream_prefix` shows that they are false without it.

**Dataset writer.** Everything is said of the content of a part: the rows in its file
and, while it is open, those in the buffer of its entry. A flush moves rows from one
to the other and a publication freezes them, so both leave the contents as they are;
only routing a row changes one, by appending. `Good` says what holds of the contents,
the entries and the reports between two native calls: an entry and an open part
belong to each other, an entry counts the rows, bytes and times of its content, each
row given is in one content, in the order given, and the reports name the published
parts. A failing write answers with the reports it was entered with, so the invariant
keeps those of `saved` true of the files as they are now. `FilesGood` is what is
left when the server has stopped and its entries are gone; at most one part is closing
then, it is the one in `doubt`, it was never reported, and its rows are in no other part,
so that it may still become visible. In the refinement the publication of a part makes
its rows visible in the abstract `Dataset`.

**Store reads.** A read has its next range begin where the last one ended, whatever
object the key holds by then.

**Store listing.** `WalkInv` follows the walk: what is on its stack (directories that
stay, one below the other), which entry it looks at and of which kind it was, that what
has vanished is not among what has lasted, and that each failure has its cause in the
tree already. A link on the way to the prefix is followed to a target that has none, so
that the prefix ends up at a path without links; `BeginsWith` is about that path.
`ExactInv` is about files that have been there since the call began: such a file is
listed, or some directory on the stack has still to return the entry that leads to it;
and a file that is listed and has not vanished lies at or below no entry that has yet to
be returned (`Once`), which is why only vanished files can be listed twice. For S3
the same is said of the position of the last key listed: what lasts at or before it is
listed. That the final sort exists is proved by the rank of each entry, ties in the order
of the walk, without `SortSeq`, which the provers do not know: `Sorted` is *some*
permutation in path order, and since equal paths are equal entries there is only one
result.

**Time partitions.** The calendar is proved, not assumed: a year is 365 or 366 days long
(`YearLength`), the months of all years follow each other (`MonthLies`, `MonthsApart`),
so a day has one month. From this the partition of a second holds it, is the partition
of every other second in it, and the next one starts where it ends, for each granularity
(`UnitHolds`, `UnitOwns`, `UnitFollows`). `PlanInv` says that what the loop has taken
tiles the range up to the partition it has built. That all timestamps of the range are
found follows with the first partition that ends after a timestamp. For paths, two
partitions are equal or disjoint (`PartitionsApart`), what `parse` accepts is a partition
under its own path (`ParsedIs`), and the path of a partition passes all its tests
(`DatePathParses`, `WeekPathParses`); the ISO week needs that the last week of a year is
the one of 28 December (`WeeksIs`) and that a Monday is found again from the year and the
week of its Thursday (`MondayIs`).

**Pruning.** A skipped row group of a well-described file holds no row the predicate
selects, for any rows, groups and integers; the case of a group of nulls needs that
a row group is finite and its null count is the number of its nulls.

**Induction over data.** The library's induction theorems take an operator, which
the provers cannot instantiate. `SelectionProofs` proves `NatSetInduction` and
`PositionInduction`, with a *set* of naturals in its place, from the well-foundedness
of the naturals, and from them that the recursive functions `Kept` and `Joins` exist
and what they compute: `Select` keeps the elements of the set, all of them, in their
order; it distributes over concatenation; selecting twice is selecting the
intersection. This is why `Selection` defines them as recursive functions over a set
and not with `SelectSeq`, which the provers do not know; `MCParquetReader` has TLC
compare the two.

### Assumptions

The `ASSUME`s, each evaluated by TLC in a passing run, say that sentinels differ from
real values (`None # "producer"` in `ParquetWriter`, `Foreign \notin Nat` and
`Consumer # None` in `ParquetReader`), that bounds are naturals and, where the code
checks them, positive, that the sets of writers and of parts are finite,
how the paths of `StoreList` are related (`ListAssumption`, `OrderAssumption`,
`TargetAssumption`: the
order of paths is one, a prefix's last name is not empty, no key is also the path of
a link, and a link's target is the path `canonicalize` gives, without links), that the calendar of `TimePartition` reaches three years beyond each request
(`RequestAssumption`; the calendar of chrono ends too, hundreds of thousands of years
away), and two facts about the data that other
parts guarantee: the footer of a Parquet file describes it (`FileAssumption` of
`ParquetReader`, the promise of the format), and the rows of a part are of one
partition (`StreamAssumption` of `DatasetStream`, `PartsWithinLimits` of
`DatasetWriter`).

`StoreList` builds in what POSIX says of `readdir`: it returns every name that is in the
directory throughout, and a name twice only if it was removed and made again meanwhile
(a rename onto a name keeps it); the kind of an entry comes with its name. Links neither
appear nor disappear during a list, and no directory is removed, because nothing in this
code does either. A link out of the root has something at its end; one that dangles is
an inside link whose target is missing, for which the code does the same.

### Only model-checked

* All liveness: fairness and `ENABLED` are out of the prover's reach.
* `ArrowValues`: recursion over types and values needs `RECURSIVE` operators, which
  the prover does not take, and an induction over both that it could not do.

## Not modelled

* The checks of `batch.ex` and `input.ex` before a batch reaches the
  native writer: functions of one term, which unit tests reach. Where they can
  refuse, the models have a refusing step. Of the schema's checks `ArrowValues` has those
  that refuse what the native writer would take.
* Error categories other than those of a list: the other models tell an error from a
  success only.
* Cyclic links, and sockets, devices and pipes in a listed directory.
* The time of modification that a head or a list answers, and the size, but for the head
  that begins a read.
* Zstandard one-shot calls, telemetry, option and key
  validation, NIF loading: no state of their own.
* The construction of the S3 client; its retries and timeouts are the outcomes
  of a request.
* Wall-clock time, memory limits and page layout.

## Plan

1. Composition: `ParquetWriter` over `LocalWriter` and `MultipartWriter` instead
   of their contract, and `DatasetStream` over `StoreList`; the facade's
   `write_file` and `Dataset.write`.
2. An abstract specification of a full scan that `DatasetStream` implements.

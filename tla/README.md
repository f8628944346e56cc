# Verification of the marchimetrics storage engine

marchimetrics is a single-process time series store. Clients append samples of
labelled series; a buffer in memory holds them until a flush turns them into
immutable part directories, one partition per UTC day; small parts are merged;
whole days expire; queries select series by label and read parts and buffer. The
only promise about crashes is what the order of the file operations gives.

This directory holds TLA+ models of that engine, the TLC instances that check
them, and proofs checked by TLAPS. Paths below are relative to `src/`.

## 1. The system

| Component | State | Operations | Source |
|---|---|---|---|
| Write path | buffer `s.mem` (`s.mu`), opened partitions (`s.pmu`), `flushMu` | `Append`, `Flush`, `restoreMem`, `getPartition`, `persistDayIndex` | `storage/storage.go` |
| Series registry | `byKey`, `names`, `nextID`, `pending`, inverted index per day, `persisted` marks (`Registry.mu`) | `Resolve`, `IndexForDay`, `DrainPending`, `TrackPending`, `UnindexedIDs`, `MarkIndexed`, `DropDay`, `Match` | `storage/series.go` |
| Registry persistence | numbered segment files, forward and per day inverted | `appendIndexSegment`, replay, `loadRegistry`, `loadInverted` | `storage/indexdb.go`, `storage/storage.go` |
| Day partition | `p.parts`, `p.nextID`, `p.dropped` (`p.mu`), part and staging directories, `manifest.json` | `openPartition`, `addPart`, manifest `save`/`load` | `storage/partition.go`, `storage/manifest.go` |
| Compaction | `compactMu` | `maybeCompact`, `ForceMerge`, `compactPartition`, `mergeParts` | `storage/compaction.go` |
| Retention | none of its own; holds `flushMu` and `compactMu` | `ApplyRetention`, the retention loop | `storage/retention.go` |
| Query | none | `QueryRange`, `partitionsInRange`, `ParseSelector` | `storage/query.go` |
| Part files | immutable files of a part | `writePart`, `readPart`, `readPartAll` | `storage/part.go` |
| Encodings | none | delta-of-delta and XOR block codecs | `storage/encode.go` |
| Server | HTTP handlers, flush and retention loops, `stopCh` | import, remote write, query, force_flush, force_merge, `Close`, exit | `cmd/marchimetrics/`, `storage/storage.go` |
| mmctl | none; a process of its own | replays forward and inverted index, prints a part | `cmd/mmctl/` |

**Interaction.** HTTP handlers run on goroutines of their own and call `Append`,
`QueryRange`, `Flush` and `ForceMerge`; two tickers call `Flush` and
`ApplyRetention`. All state is shared memory and files. Flushes exclude each
other and retention by `flushMu`, merges exclude each other and retention by
`compactMu`, a query holds `p.mu` for reading during the scan of one partition,
the swap of a merge and a drop hold it for writing. The lock order is `flushMu`,
`compactMu`, `p.mu`, `s.pmu`. `Append` takes none of the first three: it makes
several short critical sections, and every other goroutine may run between them.

**What is hard here**, and what has to be right:

* *Registry.* Two calls may race to register one label set. A label set must
  have one SeriesID for ever, through failed segment writes and replays.
* *Flush.* A kill between registry segment, inverted segment, part rename and
  manifest save must leave a disk on which every stored row is known and
  findable. An error in any of them must neither lose nor duplicate samples that
  clients were told are accepted.
* *Merges.* A merge runs without a lock while flushes add parts. Its swap must
  keep them; readers must see either generation; a crash anywhere must leave
  each row in exactly one manifested part. A list of parts may name a part twice.
* *Retention.* It deletes data and then index, with error returns and crashes
  in between, while calls for the expired day are half done and queries and
  `ForceMerge` hold pointers to the dropped partition.
* *Query.* It reads parts, then buffer, with no common lock. It must not answer when
  a part that it has to read is gone.
* *Locks.* Flush, merges and retention take several locks one after the other. No
  interleaving may leave a flush waiting for ever.
* *Segments.* An append of the registry is six file operations, any of which may
  fail or be the last one; its number comes from a listing of names; `mmctl` may
  clean up the directories of a running server.
* *End of the process.* On SIGTERM the handlers go on while `Close` waits for the
  loops and flushes. What was acknowledged before must be on disk at exit.
* *Formats.* Differences that wrap, windows whose lengths do not fit their fields,
  blocks and records that lost their tail, names compared as strings, times that
  go through floats, values that hold the characters of the selector syntax.

`PROJECT.json` lists these hazards with their source lines and the properties
that cover them; a note says where a property has a side condition, or why there
is none.

## 2. Modules

| Module | Models | Checked by |
|---|---|---|
| `Storage` | `Append`, `Flush`, `ForceMerge` (its effect), `ApplyRetention`, crash, `Open` | `MCStorage`, `StorageProofs` |
| `DurableStore` | what the write path promises: accept, persist, expire, lose | abstract; refined by `Storage` (`StorageProofs`) |
| `QueryRange` | a query beside the whole of `Storage` (EXTENDS it) | `MCQueryRange`, `QueryProofs` |
| `Partition` | one day partition: directories, staging, manifest, locks; flush, merges, drop, queries, crash | `MCPartition`, `PartitionProofs` |
| `DayParts` | what a day partition promises: how many copies of each row are readable and durable | abstract; refined by `Partition` (`PartitionProofs`) |
| `Server` | handlers of batches, callers of `Flush`, both loops, SIGTERM, exit, kill, restart (EXTENDS `Storage`) | `MCServer`, `ServerProofs` |
| `IndexDB` | segment files of the forward and inverted index, step by step | `MCIndexDB`, `IndexDBProofs` |
| `RecordStore` | what a segment directory promises: the batch that a flush hands over is added as a whole or not at all, and records are removed only from expired days | abstract; refined by `IndexDB` (`IndexDBProofs`) |
| `RoundTrip` | the steps of one input: written, perhaps torn, read back, or computed at once | `Lookup`, `BlockReplay`, `SegmentReplay` extend it |
| `Words`, `ByteReader` | 64-bit arithmetic; words and varints as bytes | `Formats` |
| `Encode`, `BlockReplay` | the two block codecs; a block written, torn and read | `Formats`, `BlockProofs` |
| `SegmentFile`, `SegmentReplay` | the bytes of segments; a segment written, torn and replayed | `Formats`, `SegmentProofs` |
| `PartFile` | the files of a part, read, written, merged | `Formats` |
| `Selector`, `Times` | canonical keys, inverted index and `Match`, `ParseSelector`, mmctl's `formatLabels`; day names, `partitionsInRange`, the retention cutoff, `parseTimeParam` | `Lookup` |
| `Lookup` | how queries and retention find what is stored: `Selector` and `Times` applied to one input | `Formats`, `LookupProofs` |
| `Formats` | all of the above: blocks and parts, segments, lookups | `MCFormats` |
| `StorageProofs` | theorems about `Storage`: types, identity of series, registry and index on disk; rows are found, kept, never twice; `DurableStore` | `tlapm` |
| `QueryProofs`, `ServerProofs` | theorems about `QueryRange` and `Server`, on top of `StorageProofs` | `tlapm` |
| `IndexDBProofs` | theorems about `IndexDB`; `RecordStore` | `tlapm` |
| `PartitionProofs` | theorems about `Partition`: types, objects, numbers of parts, rows in the parts; `DayParts` | `tlapm` |
| `LookupProofs` | theorems about `Lookup`: keys, `Match`, day names, cutoffs, time parameters | `tlapm` |
| `SegmentProofs`, `BlockProofs` | theorems about `SegmentReplay` and `BlockReplay`: whole and torn segments and blocks | `tlapm` |
| `MC...` | instances for TLC | |

Definitions carry the names of the functions they model; `map` in `PROJECT.json`
gives the lines. Operators whose comment begins with *Seeded bug* are not used by
the specifications: each is a wrong variant of the definition it stands next to,
and substituting it must make TLC report the property named in `mutants`.

### Storage

A *request* is one `Append` call, with one label set and samples in one or more
days. The samples of one request and one day travel together, so they are one
*row* `[id, req, day]`. `fwd`, `invDisk`, `partDirs` and `durable` are the disk:
forward segments after replay, inverted records, day directories, rows of
manifested parts. `live` is what the `p.parts` of the opened partitions list:
what a query reads. It differs from `durable` exactly when a manifest save has
failed, or during a drop.

`Append` is `ResolveRead` (read lock), `ResolveWrite` (write lock, second look),
one `IndexForDay` per day, `AppendMem`. `Flush` is `FlushSwap`, `DrainPending`,
`SaveRegistry`, then for each day in any order (a Go map) `PersistDayIndex`,
`GetPartition`, `AddPart`; each file operation has an action for its error
return, with what `restoreMem` and `TrackPending` give back. `AddPart` ends the
day: `maybeCompact` runs after it under `compactMu`, and as its rows do not change
(`RefinesDayParts`) and the manifest has just been saved from `p.parts`, it
changes nothing here. `ForceMerge(d)` may save the manifest of any opened day from
`p.parts` at any time; that a merge needs two small parts is left out, which only
adds behaviours. `ApplyRetention` fixes the expired days, and per day
`DropPartition`, `RemoveAllDone`, `DropInverted`, `DropDay` follow; `DropPartition`
already removes an arbitrary part of the files, so a crash sees every half
deleted directory.

`Crash` empties memory; a call that was not answered starts again, as a client
would retry it. `Open` replays the disk. `acked`, `forgotten`, `gone` and
`lostRecords` are history variables: acknowledged rows that neither expired nor
were lost to a crash, days dropped since `Open`, days whose data was deleted,
index records that a failing deletion took from disk and no flush has written
again.

### QueryRange

`StartQuery` (`Match`), `PartitionsInRange`, `ScanPartition` for each day in order,
`ScanMem`, `Respond`. Every other step is a step of `Storage`. One query at a time:
queries change nothing, so two do not influence each other. A selector is the set
of label sets that satisfies its matchers.

A deletion of a day that is cut short may leave a manifest that lists parts without
files. `broken` are the days for which this is so: `BrokenDays` lets a cut-short
deletion make the day broken or not, a finished one mend it, and an `addPart` mend it,
as the number of a missing part may be given again (see `Partition`). At a broken day
`ScanPartitionFails` ends the query with an error, whatever it has read before.

### Partition

Part `n` holds `content[n]`, a set of batches, one batch per `addPart`; `again[n]` are
those of which it holds a second copy. A list of part names, in `p.parts` or in
`manifest.json`, is a bag: `addPart` appends without looking, and a list may name a
part twice. This happens when a drop is cut short (`torn`) and leaves a manifest that
lists a part whose directory is gone, as `openPartition` takes numbers from
directories. Queries and merges read such a part as often as it is listed. Several
partition *objects* may exist for the directory: `getPartition` opens a new one
after a drop, while `ForceMerge` and queries may hold the old one (`cur` is the one
in `s.partitions`). The locks are guards: a flush holds `flushMu` while `fpc # "idle"`,
a merge `compactMu` while `mpc # "idle"`; `CanLock` is the write lock of `p.mu`.
Retention takes `flushMu` (`ApplyRetention`), waits for `compactMu` (`RetentionLocks`)
and then for `p.mu` (`DropStart`), holding what it has (`RetentionHolds`). Deletions are directory by directory, by a merge as by a drop.

### Server

A *batch* is one HTTP call with entries in order: `Append` calls, or entries
without a name or without samples. `AppendEntry` takes one step of `Append`, so
batches, flushes and retention interleave inside an entry. Import refuses the
batch at a nameless entry, with what came before it appended; remote write skips
it. Bodies that cannot be decoded are refused before anything happens and do not
appear. `CallFlush(w)` is `FlushSwap` by the ticker, a `force_flush` call or
`Close`; `flusher` is the caller that waits for the result.

`Sigterm` closes `stopCh`; a loop exits when it is not busy (`LoopExits`), `CloseFlush`
follows when both have, `Exit` when that flush has returned, with an error or not.
Handlers, `force_flush` and `force_merge` go on until `Exit`: nothing stops the
listener. `Kill` is possible at any step, `Restart` opens the store again.
`before` and `early` are history variables: the acknowledged rows at the swap of
the running flush and at SIGTERM.

### IndexDB

`segs` and `tmps` are the files of each directory by sequence number, `promised` the
records of appends that returned nil. `AppendIndexSegment`, `ChooseSeq` (the listing,
which also removes leftovers), `CreateTmp`, `WriteRecord` for each record in order,
`Rename`; `AppendFails` at every step. Names are compared as the strings that
`%06d.seg` prints (`SortsBefore`, with `Width` digits of base `Base`). `RemoveAll` is
retention's, file by file. `MmctlRemovesTmp` is the listing of `mmctl inspect`, which
replays the forward directory and every day, at any time: `WriteRecord` then writes to a file without a
name and the rename fails (`RenameFindsNothing`).

### Formats

The pure code is modelled as operators, at a smaller scale that keeps its edges:

| | code | model | kept |
|---|---|---|---|
| word | 64 bits | 8 bits (`WordBits`) | wrapping differences; a longest varint whose last byte carries one bit; sign |
| window fields | 5 and 6 bits | 2 and 3 bits | leading zeros beyond the field are clamped; the full length does not fit and is 0 |
| year | 4 decimal digits | 2 binary digits | years with more digits and negative years exist |
| day of the year | month and day, 4 digits | 3 days, 2 digits | padded, counted from 1 |
| seconds | 1000 ms, 53-bit mantissa | 10 ms, 10 bits | decimal fractions are no floats; two roundings and a truncation |
| characters | bytes | the two separators, space, `"` `,` `=` `\` `{` `}`, two letters | every branch of the parser and of `%q` |

A behaviour of `Formats` picks an input, writes it (`Write...`), may cut a tail off
the file (`Tear...`: a power failure, as part files are not synced before their
rename), and reads it (`Read...`, `QueryPart`, `MergePart`, `Select`); the
calculations without a file are one step. `RoundTrip` has the form of these steps.
`Lookup`, `SegmentReplay` and `BlockReplay` are specifications of their own
(`LookupSpec`, `SegmentSpec`, `BlockSpec`), so that they can be proved about;
`Formats` joins them with parts, and one run checks all of it. Loops are recursive
functions, and XOR is defined bit by bit.

## 3. Runs

All passing runs but `formats`, whose computations end, check for deadlock too: the
models never stop, as flushes and queries can always be started, or the process
opened.

| Run | Instance | Shows |
|---|---|---|
| `storage_crash` | 3 calls, 2 of them racing for one label set, one spanning both days; every file system error, 1 of them; 2 crashes | `KnownSeries`, `IndexBeforeData`, `SeriesIdentity`, `Findable`, `IdentityIsForever` and types |
| `server` | an import with a nameless entry in the middle and a remote write with a nameless and an empty one; one day that may expire; 1 error of any kind except manifest and data deletion; SIGTERM or kill, and a restart; fairness | `NothingLost`, `NoDuplicate`, `AnsweredBatches`, `CleanShutdown`, `FlushPromise`, `EventuallyDurable`, `ShutdownCompletes`, and the write path implements `DurableStore` |
| `query_race` | 2 calls, one over both days and one of the day that may expire; 2 series, two selectors and windows; 1 registry error; 1 crash, also during a deletion; retention | `QueryReturnsOnce`, `QueryComplete` |
| `partition_merge` | 3 flushes, threshold 3, two forced merges, a query; 1 write or manifest error; 1 crash; fairness | `ScanExact`, `NeverADeletedFile`, `DurableOnce`, `PublishNeverCollides`, `FlushTerminates`, and `Partition` implements `DayParts` |
| `partition_drop` | 5 flushes, threshold 2, two drops with their locks one by one, 2 objects, a query; 1 write error or failing drop; fairness | `QueriesSurviveDrops`, `FlushTargetIsCurrent`, `FlushTerminates`, `DayParts` |
| `indexdb` | forward index and one day, 2 records, 3 segments; 2 errors, 2 crashes, drops, mmctl in every directory | `Recoverable`, `SegmentsImmutable`, types, and `IndexDB` implements `RecordStore` |
| `formats` | columns of up to 4 words with the extreme values; parts of up to 2 series in both encodings, 16 windows, pairs of parts; segments with IDs of one and two bytes; all values of up to 2 characters; every cut | `BlocksReadExactly`, `SegmentReplaysWholeRecords`, `PartReadExact`, `MergeKeepsSamples`, `SelectorFinds`, `KeysIdentifySeries`, `DaysSelected`, `RetentionExact`, `TimeParamClose` |

The remaining runs are expected to fail: each checks what a comment or a test of
the code says, and TLC shows an execution of the code in which it does not hold.

| Run | Statement | Execution |
|---|---|---|
| `storage_lost` | "On error, unflushed samples ... are returned so the next flush retries them" (`storage/storage.go:180`) | A batch covers two days and the write of the first fails. `restoreMem(data)` returns that day only; the other day's rows are nowhere. |
| `storage_unfindable` | "A series is findable by label exactly for the days whose data still exists" (`storage/series.go:68`) | A call has indexed and buffered rows of a day that retention drops; the next flush writes them, but nothing puts the series back into the day's index in memory. |
| `indexdb_overwrite` | "returns one past the highest existing segment sequence number" (`storage/indexdb.go:143`), "one immutable segment file" (`:18`) | The numbers outgrow the padding: `1000000.seg` sorts before `999999.seg`, so the next append takes 1000000 again and its rename replaces the segment. With six decimal digits this takes a million flushes that register a series, 58 days at the default interval. |
| `partition_stale` | "never a mix, never a deleted file" (`storage/compaction.go:83`) | `ForceMerge` holds the pointer of a partition that was dropped and created again; it merges the new one's directories under the old one's lock. |
| `partition_reuse` | "IDs continue past the maximum existing part, never reuse" (`storage/partition_test.go:70`), "Part IDs are never reused" (`docs/LEARNING.md:57`) | Killed inside the `os.RemoveAll` of a drop, after part `000001` and before the manifest. The manifest lists `000001`, but `openPartition` counts directories (`storage/partition.go:64`): the next part is `000001`, `addPart` lists it a second time, and queries and merges read it twice. |

Further executions of the same kind come from these runs with one or two
constants or the property changed:

* `storage_lost` with `FaultKinds = {"manifest"}` and the invariant `NoDuplicate`:
  `addPart` appends to `p.parts`, then the manifest save fails
  (`storage/partition.go:97`); the rows are readable in the part and back in the
  buffer, although "every sample must be exactly once on disk"
  (`storage/storage_test.go:294`).
* `storage_unfindable` with `MaxCrashes = 1` and the invariant `ExpiredDaysForgotten`:
  killed between the deletion of a day's data and of its index
  (`storage/retention.go:88`), no partition is left for a later pass to find, and
  the index is replayed for ever, although "expired series stay forgotten across a
  restart" (`storage/storage.go:346`).
* `query_race` with the invariant `QueryCompleteDuringFlush`: a flush has swapped the
  buffer and not yet listed a part, so a query sees its rows in neither
  (`storage/query.go:58`), although "data is queryable both before and after a flush"
  (`storage/query.go:39`) and samples sit in the buffer "(immediately queryable) until
  Flush turns them into an immutable disk part" (`storage/storage.go:48`).
* `storage_crash` without `\cup lostRecords` in `IndexBeforeData`: the deletion of
  a day's index fails half way (`storage/retention.go:88`), `ApplyRetention` returns
  before `DropDay`, the `persisted` marks stay, and later data of that day is
  written without index records. This is the only way to such data: it is all that
  the property excepts.
* `partition_reuse` with the invariant `NeverADeletedFile`: killed inside
  `os.RemoveAll` (`storage/retention.go:76`), `Open` loads a manifest that lists parts
  that are gone, the `dropped` mark is lost, and queries of the day fail until a
  retention pass drops it again. A drop that fails half way has the same effect
  without a crash. This, and `partition_reuse`, is why `QueriesSurviveDrops` and
  the counts of `DurableOnce`, `ScanExact` and `DayParts` are for `torn = "no"`.

These executions are the reason for the side conditions of the passing runs:
`server` has one day and no manifest error, `IndexBeforeData` and `Findable` except
`lostRecords`, `Findable` also days forgotten since `Open`, `QueryComplete` queries
that a flush overlaps or that fail, `partition_merge` and `partition_drop` keep forced
merges apart from drops, and `indexdb` stays below the width of the names.

Three properties of `formats` state a limit of the code with their premise:
`DaysSelected` needs years from 0 to 9999 (beyond them names have another length
or a sign; a query that ends after 9999 selects no day of today, and `Open` does not
find such a day again), `RetentionExact` a period that stays within int64
(`-retentionPeriod` has no upper bound), and `TimeParamClose` allows the millisecond
before the one that was asked for: `1.001` is read as 1000 ms
(`cmd/marchimetrics/http.go:211`), so a query from and to a time that an answer
printed may not return that sample.

## 4. Bounds

* *Calls, labels, days.* Two calls are needed to race for a label set and a third
  with other labels to take an ID in between. Two days are needed for a flush
  that fails between days, and for one day that expires beside one that does not;
  the order of the calendar enters only through the cutoff.
* *SeriesIDs.* As many as there are label sets (`MaxSeries`): since one label set
  has one ID, the bound is never reached by a correct registry.
* *Errors and crashes.* Every error return has its kind in `FaultKinds`. Two
  errors reach a failed retry of a failed flush, two crashes a crash of what a
  restart has built on a torn state.
* *Server.* One call of each kind suffices, as handlers share nothing but the
  store; three appends in two batches put one before, one during and one after a
  flush. One series, as `storage_crash` has the races of the registry; one day,
  because a failing flush over two days loses rows (`storage_lost`).
* *Segments.* Three numbers fit two binary digits: an append, one that fails and
  leaves its file, and one that follows. Two records make a file that is half
  written. The failing run has five, so that a number has three digits.
* *Formats.* Three timestamps have one difference of differences and four two, so
  that an error in the accumulation shows. A window is set, used and replaced
  within four values. Two parts with two series each put a block behind
  another in both files and merge a series that both have.
* *Partition.* Three flushes with threshold 3 and two forced merges reach a merge with
  a part added during it, and a merge of a part that a merge made; five with threshold 2 and two drops reach a day created again with
  the part numbers of its predecessor. `MaxParts` is never reached. A second
  reader would not change what the first sees, as readers change only the lock.

The theorems of section 6 hold for all values of these constants.

## 5. Fairness

`server` assumes weak fairness of the ticker (it fires again whatever the last
flush returned), of each step of a running flush and retention pass, of the exit
of the idle retention loop and of the return of `main`; and strong fairness of the
exit of the flush loop (its `select` finds both the ticker and `stopCh` ready and
picks at random, so it takes `stopCh` in the end) and of the final flush of `Close`
(`force_flush` calls keep taking `flushMu`; `sync.Mutex` hands it to a waiter that
has waited long enough). Nothing forces a client to call, a signal to arrive, an
error to happen, or anyone to restart the process.

`partition_merge` and `partition_drop` assume strong fairness for the steps that
wait for a lock: a `sync.Mutex` under contention is first come first served, and
a waiting `RWMutex.Lock` keeps new readers out, so whoever waits repeatedly sees
the lock free and gets it. Starting flushes, merges, drops and queries is never
forced.

## 6. Proofs

Eight modules hold 34 theorems, which cover every property of the passing runs
except liveness and three of the formats. They use the named assumptions of the
models only, and TLC evaluates all of them in the runs:

* `StorageAssumption`, `ServerAssumption`, `PartitionAssumption` and
  `IndexDBAssumption` say of what kind the constants are: days and cutoffs are
  numbers, every call has a label set and at least one day, every entry of a batch
  is a call of its own.
* `WordAssumption`, `WindowAssumption`, `CalendarAssumption` and `FloatAssumption`
  relate the widths of words, window fields, day names and mantissas, as the code's
  64, 5 and 6, 4 + 4, and 53 are related.
* `KeysAssumption`: names and values do not hold the separators of the keys, which
  `storage/series.go:19-22` rules out. `TimesAssumption`: time parameters are below
  `2^(Mantissa - 1)` ms, which is 2^52 in the code, or the year 144683.
  `SegmentsAssumption`, `BlocksAssumption`: SeriesIDs, lengths and counts are below
  2^64, names and values are bytes, timestamps int64, and values patterns of 64 bits.
* `PowersGrow`, `PowersAssumption` and `VarintAssumption` are arithmetic of `x^k` that
  the provers do not have.

There is no bound in a theorem: calls, days, label sets, batches, parts, errors and
crashes may be any number, words, names and calendars of any width, and segments,
blocks and label sets of any length.

Some theorems have a condition. Each is there because the code breaks the
property without it: for every theorem and condition TLC finds a violation on an
instance that does not satisfy it. Those for `NoStaleMerge` come from
`partition_stale` with six flushes, for `CleanShutdown` and `FlushPromise` from `server`
with entries of two days, for `QueryComplete` from `query_race` with `"dropindex"` and
two calls for one series and day 1.

| Condition | Meaning | Without it |
|---|---|---|
| `NoPartialFlush` | all samples are of one day, or no operation after the registry segment fails | a failing flush loses the other days (`storage_lost`) |
| `"manifest" \notin FaultKinds` | manifests can be saved | the rows of a failed `addPart` are in a part and in the buffer |
| `"dropindex" \notin FaultKinds` | an index directory is deleted whole | later data of the day has no index record |
| `NamesFit` | the numbers of segments fit the digits of their names | an append replaces a segment (`indexdb_overwrite`) |
| `NoStaleMerge` | no forced merges, or no drops | `ForceMerge` works on a dropped partition (`partition_stale`) |
| `MaxDrops = 0` | no drops, of `NeverADeletedFile` | a drop that is cut short leaves a part listed without its files |
| `MaxForces = 0` | no forced merges, of `QueriesSurviveDrops` | a merge of a dropped partition does so too (`partition_stale`) |

**Write path** (`StorageProofs`). All proofs are about `EngineSpec`, which is
`Spec` with an orderly end of the process as a further step; `Server` uses it.

* `TypeCorrect`. `TypeOK` is not inductive: that a call that indexes has an ID, and
  that a flush or pass at work on a day has a day, is added as `CountersOK`.
* `SeriesIdentityHolds`, `KnownSeriesHolds`, `IdentityIsForeverHolds`. One inductive
  invariant, `IdentityInv`, serves the three. `KnownSeries` speaks of the disk,
  but a row gets there from the buffer, and its forward record from `pending`; so
  the invariant follows both. `MapsInverse`: `byKey` and `names` are inverse, below
  `nextID`. `DiskAgrees`: the forward segments say what `names` says.
  `PendingCovers`: every ID is on disk, pending, or drained by the running flush.
  `CallsResolved`, `RowsFiled`: calls and rows have the ID of their labels.
  `FlushKnown`: after `SaveRegistry` every ID of the batch is on disk; before it,
  on disk, pending or drained. This is the step at which the order of `Flush`
  matters: the buffer is swapped *before* `DrainPending`, so a row of the batch
  was registered before the drain. `PartsKnown`: `KnownSeries`, for readable rows
  also. `DownIsEmpty`: a stopped process holds nothing.
* `IndexBeforeDataHolds`, whatever operations fail. `IndexInv`: `Exclusion`
  (retention and flush exclude each other), `RowsIndexed` (rows readable or durable
  have a record on disk or in `lostRecords`, and so have the rows whose part a flush
  is about to write), `PersistedOnDisk` (a mark is for such a record, except of
  the day that a pass is deleting until `DropDay`, and that day's data is gone before
  its records are).

**What becomes of a row** (`StorageProofs`).

* `FindableHolds`, without a condition. `FindInv` follows the entry of the label
  index from `IndexForDay` (`CallsIndexed`) over the buffer (`BufferIndexed`) to the
  parts (`PartsIndexed`). Only rows that were read back from disk may depend on a
  lost record, so the buffer's part of the invariant is the stronger one.
* `NoDuplicateHolds`. `RowsMove` says of every step that the rows of each tier after
  it come from the tiers before it or from a call that this step answers;
  `RowsAnswered`, that rows exist only of answered calls. So a new row is in no
  tier yet, and `TiersDisjoint` is inductive.
* `NothingLostHolds`. `LostInv` separates a running process, where acknowledged rows
  are in buffer, batch or parts, from a stopped one, where they are on disk.
* `RefinesDurableStoreHolds`. Steps map to steps because `p.parts` and manifest agree
  (`OpenedAgree`), data has a directory and readable data an opened partition
  (`DirectoriesOK`), and retention works on expired days only (`RetentionOK`).

**Queries** (`QueryProofs`). A query changes nothing, so `QSpec => Spec`.

* `QueryReturnsOnceHolds`: what was read from parts is disjoint from buffer and batch
  until the buffer is read, and stays so since rows do not go back. Rows are sets
  here; that no part is read twice is `ScanExact` of `Partition`.
* `QueryCompleteHolds`: `OwedInv` follows the rows that the query owes its caller: in
  buffer or parts when it lists the days, then in the result, the buffer, or a
  partition still to be scanned, and always of a series it wants. It holds through
  deletions that are cut short: a query that meets a broken day answers nothing.

**Server** (`ServerProofs`). `ServerRunsEngine`: every step is a step of the
engine, leaves it alone, or ends the process, so its invariants carry over.

* `ServerKeepsStore`: `NothingLost`, `NoDuplicate` and the refinement hold for the server.
* `AnsweredBatchesHolds`, without a condition: `HandlersInv` relates the position of
  a handler to the calls that are done, also across retries after a kill.
* `CleanShutdownHolds`, `FlushPromiseHolds`: `PromiseInv` follows the rows acknowledged
  at the swap (`before`) and at SIGTERM (`early`) into the batch and to the disk.
  `KeepInv` is needed because a manifest that a failed save left behind is
  replaced only by a later save of `p.parts`, which must contain what it listed.

**Segments** (`IndexDBProofs`).

* `TypeCorrect`, without a condition.
* `RecoverableHolds`, `SegmentsImmutableHolds`, `RefinesRecordStoreHolds`, if `NamesFit`.
  `PaddedNames` and `NamesInOrder`: names of equal length are in the order of their
  numbers. So the last name is that of the highest number, and the one after it is
  free (`NextSeqIsFree`). `SegmentInv`: the name that an append has chosen stays free
  until the rename (`NameIsFree`; removals of leftovers, failed appends and mmctl may
  come in between, the latter in any directory), a removal is of a forgotten day
  (`RemovesForgotten`), and `Recoverable`. For the refinement, an append has a batch
  (`AppendHasBatch`), which is what a file that can be renamed holds, and the batch
  is handed over once and replayed whole or dropped (`StepsOfBatches`, `StoreStep`).

**Day partition** (`PartitionProofs`).

* `TypeCorrect` and `FlushTargetIsCurrentHolds`, without a condition. `HandleInv` says
  who works on which object: the object in `s.partitions` is the only one that is not
  dropped (`OneLiveObject`), a merge has a waiting owner (`MergeHasOwner`), a drop is
  alone (`DropAlone`), a scan is of the live object (`ScanLocked`).
* `PublishNeverCollidesHolds`. `NumbersPast`: `p.nextID` is past every directory, also
  orphans. `NumbersFree`: a number that was reserved under `p.mu` and written without
  it still belongs to one writer when it is renamed.
* `DurableOnceHolds`. `RowInv`: batches are new (`BatchesNumbered`, `BatchIsNew`), parts
  hold rows once (`WholeParts`) and lists name parts that share no row, and each of them
  once (`ListedOnce`), both until a drop is cut short; the parts of a merge are listed
  until its manifest is saved and unlisted after, with its own part holding their rows
  (`MergeKeepsRows`), a flush works on a part of its own (`FlushApart`), acknowledged
  batches are in the manifest (`AckedListed`). That `p.parts` lists all that the manifest
  does is what makes it inductive across failed saves: the next save repairs it.
  `TornByDrop`: only a drop is cut short, so that without drops the exception is empty.
* `ScanExactHolds`: what a scan has read and what it has still to read together contain
  what it owes, and are disjoint until a drop is cut short (`ScanInv`).
* `NeverADeletedFileHolds`, `QueriesSurviveDropsHolds`: `FilesInv`, that a scan has only
  parts left whose directories exist, until a drop is cut short.
* `RefinesDayPartsHolds`, if `NoStaleMerge`: copies are those that a walk over a list sees
  (`Seen`). A merge leaves the copies of every row as they were, of one as of several
  (`MergedRows`), a flush adds to those of its own batch only (`FlushSeen`, `RenameSeen`),
  and `DayStep` maps each action to a step of `DayParts`.

**Lookups** (`LookupProofs`). The invariant of `LookupSpec` is small (`Computed`: the
output is what the operator returns for the input); the work is in the operators.
The library's induction theorems are out of the provers' reach, so what needs
induction is proved by a least counterexample (`LeastNat`).

* `DaysSelectedHolds`, `RetentionExactHolds`: names are compared digit by digit, and
  days are numbers. The first digit in which two names differ is that of the
  greatest exponent in which the numbers differ (`DigitsOrder`, `NameLessBefore`,
  `DayOrder`). A cutoff before year 0 begins with a minus sign and is before every
  name of a partition (`NegativeYearIsFirst`); within int64 nothing wraps (`WrapFits`).
* `TimeParamCloseHolds`: a rounding moves a number by at most one part in
  `2^Mantissa` (`RoundFloatClose`), two of them by less than a millisecond
  (`RoundedTwice`), and the truncation takes at most one more.
* `KeysIdentifySeriesHolds`: labels are strictly and totally ordered, so a set of
  labels can be sorted (`CanBeSorted`) and in one way only (`SortedUnique`); the last
  word of a key is found by its separator (`LastWord`), so joining is injective
  (`JoinedInjective`).
* `MatchExact`: the first separator ends the name in a label's key, so that values may
  hold any bytes (`LabelKeyInjective`); union over days and intersection over
  matchers are then those of the series.

**Segment bytes** (`SegmentProofs`). `SegmentReplaysWholeRecordsHolds`. The invariant
is `SegmentInv`: the file begins as what was written does. Each reader has two lemmas:
before any other bytes it returns what its writer wrote and leaves those (`...Whole`),
and before a part of its writer's bytes it fails with `eof` (`...Torn`): varints,
strings, labels, label sets, records. That `Torn` says `eof` and no other error is
what makes `readIndexSegment` end without one. A varint is read
as the sum of its groups (`SumOfGroups`). The loops are recursive functions, so each
is compared with an explicit function that satisfies its equation (`LabelsStep`,
`ReplayStep`); the words of a flattened sequence are cut one by one (`CutAtWord`), and
as each record has a byte at least (`FlatGrows`), as many rounds as there are bytes are
enough.

**Blocks** (`BlockProofs`, on top of `SegmentProofs`). `BlocksReadExactlyHolds`. The
invariant `BlockInv` says that the file is what was written, or, when it lost its
tail, a shorter beginning of it. Readers have the same two lemmas each.

* *Words.* The digits of a number make the number again and the other way round
  (`NumberOfDigits`, `BitsOfNumber`), in base 256 for words and 2 for bit fields.
* *Timestamps.* A sum that wraps undoes a difference that wrapped (`WrapBack`), so two
  differences of differences are undone by two sums (`NextTimestampWhole`).
* *Values.* The windows of encoder and decoder are the same after every value
  (`NextOfColumn`); the window fields return lengths that do not fit (`WindowFields`);
  and a window that the encoder may use holds every bit that is 1 (`NextWindowHolds`),
  so the bits within it are all that is needed (`WidenedBack`). That last one is
  what `Fits` is for, and it needs its comparison on both sides.
* *Bits.* Bits travel in bytes, the last one padded. The loss of one byte loses at least
  one bit that was written, never padding alone (`BitsCut`): so a block without its
  tail is too short for its count, and a padded one reads no further value.

Each inductive invariant was checked with TLC before it was proved: those of
`Storage` on the instance of `storage_crash`, those of `Partition` with up to two
drops, three errors and two crashes, and with up to two forced merges.

Only model-checked, on the instances above: `EventuallyDurable`, `ShutdownCompletes`
and `FlushTerminates`, as the prover does no liveness; `PartReadExact`
and `MergeKeepsSamples`, which sort, fold and count with library operators that are
defined by choices of permutations and bijections, and whose results for every input
would need inductions of their own; and `SelectorFinds`, as the parser is a fold over
characters, for which the same is true.

## 7. Abstractions and what is left out

* A crash is `kill -9`: what a completed system call wrote is still there. A power
  failure appears in `Formats` only, as a file without its tail.
* In `Storage` an append of a segment is atomic or fails; `RefinesRecordStore` shows
  that this is what `IndexDB` does. In `Partition` writing a staged part or a
  manifest is atomic, as each goes to a temporary name and is renamed, and a part
  is read in one step.
* `Storage` sees a day partition as `live` and `durable`, sets of rows; `Partition`
  shows, without the failing executions of section 3, that this is what a partition
  does. That rows are read twice after `partition_reuse` is seen in `Partition` only:
  `NoDuplicate` and `QueryReturnsOnce` are about buffer, flush and parts.
* In the concurrent modules timestamps are days, samples of one call and one day
  are one row, and label sets are canonical keys. `Formats` looks inside.
* Label values that hold the separator bytes, which `storage/series.go:19-22`
  accepts as a risk, are left out. `SelectorFinds` is about label sets with valid
  names and a valid metric name or none: `import` accepts others, which a selector
  cannot name.
* `sort.Slice` is not stable: samples are compared as bags with ascending times.
* Statistics (`QueryStats`, the counts of `meta.json`) and the tier in `PartFile` are
  left out, as only `mmctl` reads the counts and `Partition` has the tier.

### Not modelled

* The decoding of HTTP bodies (JSON, snappy, protobuf) and the encoding of
  answers: library code without state. RFC3339 time parameters (`time.Parse`), and
  floats beyond int64, for which Go leaves the conversion open.
* Flags and their parsing (`parseRetentionDays`), logging, `/healthz`.
* What `mmctl` prints beside label sets.
* Failing `Open`: it ends the process before anything else runs.

## 8. Plan

The system is modelled as far as it has behaviour of its own, and the safety
properties of its concurrent components are proved. What is left:

1. With the codecs proved, a part is blocks one after the other: `PartReadExact` could
   follow from `BlockProofs` and facts about sorting; the parser, after that, with an
   invariant of its fold.
2. The conditions of section 6 become unnecessary when the code changes: all of
   `data` restored on every error return of `Flush`, `p.parts` extended after the
   manifest is saved, `dropped` checked by merges, the manifest deleted before the
   parts of a day, numbers compared as numbers.
   The proofs say where each condition is used.

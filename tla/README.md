# hyperlogger in TLA+

A verification project for the hyperlogger Go library: models of its
concurrent and failure-prone parts, translated from the source, checked by TLC
on small instances and, but for liveness, proved with TLAPS for
every value of the constants.

Run a check with `tlc -config async_lifecycle.cfg AsyncWriterMC`, a proof with
`tlapm AsyncWriterProofs.tla`; the modules whose names end in `Proofs` hold the
theorems. Paths below are relative to the repository.

## 1. The system

A log call goes through `Adapter.log` (pkg/adapter/adapter.go): level filter,
sampling, a pooled copy of the fields, hooks, the encoder, and one `Write` to
the configured output. The output is a tree of writers: `AsyncWriter` over
`MultiWriter` over `FileWriter`, `ConsoleWriter` or an adapted `io.Writer`.
Most of what can go wrong between threads, with failures or over time is in the
writers; above them, the log pipeline recycles snapshots and buffers between
concurrent calls, and registries change while calls use them.

| Component | State | Operations | Talks to | Hard part |
|---|---|---|---|---|
| Async writer, internal/output/async.go | msgCh, flushCh, stopCh, closed, atomic counters, the worker | Write (4 overflow strategies), WriteCritical, Flush/Sync, Close | underlying writer, drop/error/metrics callbacks, worker over channels | interleavings, shutdown, retries, timeouts |
| Payload pool and leases, async.go, drop_payload.go | pooled buffers, retained flag, once | borrow, release, drop handler, Retain, Release | worker, callers, drop handlers that keep payloads | ownership and reuse |
| File writer, internal/output/output.go | open file, size, directory | Write, rotate, Sync, Close, restart | file system, compression goroutine | failing steps, crashes, names by the second |
| Compression, internal/output/compression.go | source, .gz | performCompression, CompressFile, pools | file system, later rotations | unsynchronised with the writer |
| Multi writer, output.go | list, cached pair | Write, Sync, Close, AddWriter, RemoveWriter | its sinks, under an RWMutex | partial failure, two representations of one list |
| Console writer, adapters, colours | none that changes | Write, Sync, Close | terminal or io.Writer | none |
| Log pipeline, pkg/adapter/adapter.go | level, fields, pools, context | log, WithFields, WithError, SetLevel, Sync | everything | recycled snapshots, hooks that log, Fatal |
| Sampling, pkg/adapter/sampling.go | a counter per rule | Allow | adapter | shared counters |
| Hook registry, hooks.go | hooks by name, functions by level | Add, Remove, Reset, Dispatch | adapter, user callbacks | snapshots, non-atomic global registration |
| Async metrics and exporter | handlers, exported counters | Observe, Emit, ServeHTTP | AsyncWriter callbacks | counters stored one by one |
| Encoders and registry | map under a lock | Register, Get, Encode | adapter | formatting |
| Context extractors | list under a lock | Register, Apply, Clear | adapter | snapshot |
| Configuration, builder, loader, fields | none shared | pure functions | start-up | defaults and names that disagree |
| hlog, noop, security, constants, examples | none | constructors, conversions, tables | | none |

What makes each of them correct:

- Async writer: no payload is duplicated, none that was acknowledged vanishes
  without a drop report, callers see their order kept, Flush and Close are
  barriers, return values and counters are true, everybody gets an answer.
- Pool: a buffer has one owner; a lease shows its bytes until it is released.
- File writer and compression: what was accepted can be read back, in order and
  once; files respect MaxSize; backups end up compressed.
- Multi writer: every current writer gets every record, failures do not spread,
  a clean Sync covers what came before.
- Adapter: what a call has to say is said once or refused with an error, with
  the fields of its own entry; a Fatal exits after the log is flushed.
- Sampling, hooks, metrics: the configured share passes; a hook runs only while
  registered, up to a snapshot; counters do not run backwards.
- Configuration: making a logger ends with one that can log as it was asked to,
  or with an error that has a cause.
- Encoders: a line reads back as what was logged.

`PROJECT.json` lists the components with their state and the hazards, each at
its line with the properties that watch it.

## 2. Plan

1. (done) `AsyncWriter` with its abstract specification `LogDelivery`, proofs.
2. (done) `PayloadPool`, `FileWriter`, `MultiWriter` with the retries an
   AsyncWriter makes over it.
3. (done) `HookRegistry`, `Sampling`, `AsyncMetrics`.
4. (done) `AdapterLog`: level, sampler, snapshots, hooks, encoding, write, Fatal,
   over an output that keeps what `LogDelivery` promises, and `HookRegistry`.
5. (done) `ConfigLoader` and `Setup`: from settings to loggers.
6. (done) `LogLine`: fields, JSON escaping, the two encoders, buffer sizes.
7. (done) Proofs of every safety invariant and action property of the passing
   runs, and that `AsyncWriter` implements `LogDelivery`.
8. `CompressFile` with the helper's pools, named hooks in a registry of one's own.

The modules are free of recursive operators: where something recurs (merging
fields, powers of two) it is a recursive function, so that it can be proved about.

## 3. Modules

| Module | Extends or instantiates | Instance for TLC |
|---|---|---|
| LogDelivery | | through AsyncWriter |
| AsyncWriter | LogDelivery as `Delivery` | AsyncWriterMC |
| AsyncWriterProofs | AsyncWriter | |
| PayloadPool, FileWriter | | themselves |
| PayloadPoolProofs, FileWriterProofs | PayloadPool, FileWriter | |
| MultiWriter | | MultiWriterMC |
| MultiWriterProofs | MultiWriter | |
| AdapterLog | HookRegistry | AdapterLogMC |
| AdapterLogProofs | AdapterLog | |
| AsyncMetrics | | AsyncMetricsMC |
| AsyncMetricsProofs | AsyncMetrics | |
| Setup | ConfigLoader, which extends Sampling | SetupMC |
| SetupProofs | Setup | |
| LogLine | | LogLineMC |
| LogLineProofs | LogLine | |

### AsyncWriter (and AsyncWriterMC)

A call is one goroutine running one method once; `pc` says where it is, `ret`
what it returned. Write and WriteCritical calls are at the same time the
payloads they carry. A step is one access to shared state: the check of
`closed` under closeMutex (`Enter`), each channel operation, each attempt to
write, each counter that moves apart from the operation it counts.

| Code | Model |
|---|---|
| msgCh, its parked senders, flushCh | `queue`, `sendq`, `flushQ` |
| closed, closeMutex held by a Close, stopCh closed, msgCh closed | `closed`, `mutex`, `stopped`, `chClosed` |
| the loop the worker is in, its flush, its payload | `wmode`, `flushing`, `current` |
| performWrite's attempt; payload in discardOldest's hands | `attempt`, `held` |
| what failed attempts may have left in the underlying writer | `touched` |
| underlying writer, drop handler, atomic counters | `out`, `outOpen`, `drops`, `cnt` |
| Write: Block / DropNewest / DropOldest / Handoff | `WriteSend`, `WritePark`, `WriteStopped`, `WriteOverflow`, `WriteFull`, `WriteDiscard`, `WriteNotifyDrop`, `Direct*` |
| Flush, Close | `FlushBegin/Signal/Done/Timeout`, `CloseBegin/Stop/Channel/Join` |
| processLogs, handleFlush, drainMessages, writeMessage | `Worker*` |

Go's channel semantics are part of it: a receive from a full channel moves the
oldest parked sender in, closing stopCh wakes parked writers, a send on a closed
channel panics. A write that fails may have put the record, or a part of it, into the
underlying writer (`AttemptFails`), and a retry puts it there again: `out` has what
was confirmed, `touched` what may be there besides. A Flush that sends its request
when Close has stopped the worker and another request fills flushCh is `Stranded`.
Abstracted: payload bytes (identities), durations (a timeout may
happen at any time, a backoff is a point between steps), what handlers do
(`PayloadPool` has their view of the payload), the metrics reporter
(`AsyncMetrics`).

### LogDelivery

What the async writer promises: a FIFO of pending payloads, a log, a set of
dropped ones, acknowledgements, and barriers (Flush, Close) that complete only
when what was acknowledged before they began is resolved. AsyncWriter maps the
worker's payload and msgCh to the FIFO, and counts a payload as dropped from
the moment a DropOldest writer takes it off the channel.

### PayloadPool

Buffers of payloadPool, the payload that owns each, dropPayload's `retained` and
`once`, leases, and the bytes each buffer holds now. `CheckRetained` and
`ReleaseIfNeeded` are two steps, as in releaseIfNeeded, so a handler that keeps
the payload may call Retain between them or after both. The legacy handler runs
on the pooled slice itself until `LegacyReturn`.

### FileWriter

One goroutine at a time is inside Write, Sync or Close (w.mu), but a Write is
several system calls (`WriteBegin`, `Rename`, `Create`, `AppendRecord`,
`Return`), each of which may fail, and compression goroutines (`Job*`), the
clock and a crash come between them. `dir` maps names to inodes: a rename
replaces its target, an open file outlives its name. Names carry the second, as
in rotate. A record has size 2, or more than MaxSize when it is `Big`; a failing
write may leave one byte. Gzip is transparent, except that the .gz is
overwritten from its start without truncation (`Overwrite`). The extension of
compressed files is not empty: nothing outside internal/output can set it. Crashes are of the
process: the file system keeps what it was given.

### MultiWriter (and MultiWriterMC)

Write and Sync hold the read lock and visit sinks one by one; AddWriter,
RemoveWriter and Close need the lock alone and are one step. A sink takes the
record, fails (the record may be in it all the same), or reports a short write.
`members` is what the history of calls asks for, to be compared with what a
Write visits, the list or the cached pair. `WriteRetry` is performWrite of an
AsyncWriter whose underlying writer this is: a Write that returned an error is
made again, to all sinks.

### HookRegistry, AdapterLog (and AdapterLogMC)

`HookRegistry` is the list of hook functions of each level and the list of
context extractors, each under its own mutex: RegisterGlobalHook adds level by
level, in as many steps (`RegisterGlobalHook`, `RegisterNextLevel`), others may
come between. `AdapterLog` extends it: the same edits happen between the steps of
concurrent log calls.

| Code | Model |
|---|---|
| a.level, shared with clones | `level`, `SetLevel` |
| log: level, sampler, snapshot, context, stack | `Begin` |
| runHooks: own registry, then a copy of the global one | `pc` "local" and "global", `todo`, `RunHook`, `DispatchGlobal`, `errs` |
| fieldsPool, encoder pool, the buffer pool under it | `snapPool`, `encPool`, `buckets`, with what each item holds (`fields`, `text`) |
| logHookErrors, encodeEntry, Write or WriteCritical, recycling | `BorrowBuffer`, `Encode`, `EncodeFails`, `Write`, `ReleaseBuffer`, `NextItem`, `Recycle` |
| Fatal: Sync, then os.Exit | `SyncBegin`, `Exit` |
| the output | `pending`, `out`, `lost`, `Deliver`: a queue that may drop droppable lines, and a Sync that waits for what was in it |

A sync.Pool gives any item that it holds, or a new one. A field is told apart by
the call and by what added it; a line by the call and by what it was written for
(the entry, or the error of one hook). Level names, formatting and time are left
to `LogLine`.

### AsyncMetrics (and AsyncMetricsMC)

Every move of a counter calls reportMetrics: `Lock` metricsMu, `Read` the
counters one by one, call the handler of the configuration (`ConfigHandler`),
which may log through a second writer and so start the same there, then look for
a global handler (`Emit`), store the exporter's counters one by one (`Observe`)
and `Unlock`. `Scrape` loads one exporter counter. Two counters stand for seven:
they are enough to be read and stored apart.

### Sampling, ConfigLoader, Setup (and SetupMC)

`ConfigLoader` has the pure part: the tables of names (`ParseLevel`,
`LevelFromString`), the environment variable of a key (`Variable`), the merge of
the environment over the file, and applyRaw's stages in their order, each
accepting or refusing (`Refusal`, `ApplyRaw`); the stage of the output opens a
file (`OpensOutput`). `Sampling` makes the rules of a
sampler from its settings and decides (`Allow`). `Setup` puts them into time:
a Load, in which the file may be unreadable or the output fail to open;
one ConfigBuilder whose map of rules is shared by what it built, presets, and
goroutines that go through NewAdapter step by step: `ResolveAlone` or
`EnsureEncoderRegistry` (look, then register the defaults) and `ResolveShared`.
Loggers then sample concurrent calls: `Count` is the atomic increment, `Decide`
what the call makes of the number it got. The builder and its map have no lock:
a program that uses them while NewAdapter runs has a data race, so the model
uses them only when no goroutine is inside.

### LogLine (and LogLineMC)

Loggers derived with WithField, WithFields and WithContext from one another
(`Derive`), and a Log through any of them whose entry gets the logger's fields,
those of its context and, from error level, the stack. A text is a sequence of
runes, a rune the sequence of its UTF-8 bytes, because the escaper visits runes
and looks at their first byte. A value is its kind, one for each way through the
type switches of formatValue and formatJSONValue, with what it makes of itself as
a text, as an error and under %+v (`ValuesOf`); each encoder chooses among these
(`FormatValue`, `JSONText`). The JSON and the console encoder each produce
keys and values as sequences of bytes written as they are or escaped; the
properties read them back with a reference reader of JSON strings. For the
buffer sizes a number is the set of its bits where nextPowerOfTwo shifts it
(`BitsOf`, `Smear`, `NumberOf`), for guesses up to 2^30.

## 4. Runs

Every property of a passing run has at least one mutant of the code in its
module (a definition named `Of_Change`) that TLC finds violating it.
A property that is a conjunction of named parts has one for several of them.

| Run | Shows | Bounds |
|---|---|---|
| async_lifecycle | types and capacities; one fate per payload, and one attempt without retries (`FateInv`); observable order; Flush and Close are barriers; refinement of LogDelivery | 3 Writes, 1 Flush, 1 Close, 4 strategies, buffer of 1, failing writer; symmetry of Writes |
| async_retries | honest returns; balanced counters | 2 Writes, 1 WriteCritical, 1 Close, 1 retry, failing write, sync and close |
| async_liveness | accepted payloads are resolved; Write, Close and every Flush that is not `Stranded` return | 2 Writes, 2 Flushes, 1 Close, 3 strategies (without drop_newest, which never waits), no failing write, no symmetry |
| pool_leases | buffers are neither multiplied nor lost; who may look at one finds its own record, with late Retains | 3 records, 3 buffers, both kinds of handler |
| file_faults | types, nothing lost, MaxSize, backups get compressed | 3 records (one oversized), 2 seconds, 1 failure, 1 crash |
| multi_fanout | current targets; honest results, isolated failures and duplicates only from retries (`FanOutIsHonest`); Sync covers; Close reaches all | 3 sinks (one a standard stream), 2 records, 1 retry, 1 failure, 2 edits |
| adapter_log | owners of snapshots and buffers; lines carry their own call's fields; which hooks run; one fate per line; a Fatal flushes; every call ends | an Info call on the root and a Fatal on a clone, 2 hook functions and 1 named hook, 1 extractor, 5 snapshots and 5 buffers, 1 edit, 1 failure |
| async_metrics | reports and scrapes never run backwards, the last report is final, nobody waits for ever | 3 moves of 2 counters, each with a nested one, 2 scrapes, 1 edit |
| setup | every setting of the environment over the file's; the encoder asked for; ready or refused for a cause; the configured share passes | 2 makers, 2 callers, 8 documents, 5 presets, 2 builder calls, 1 registration, 3 log calls, 1 file that cannot be read or opened; symmetry |
| log_line | the last value of a key wins; JSON reads back; both encoders agree but for four kinds of value; buffer sizes | 4 loggers, 3 keys (one empty), 4 values, 3 batches (with them, all 13 kinds of value), 2 contexts, 3 messages, 2 levels |
| async_panic, log_line_unicode | disagreements, below | the smallest instance that has them |

Why the bounds are enough: with a buffer of one, two Writes already fill,
overflow and park; the third makes the discards of two DropOldest writers and
one parked sender race. One Flush fills flushCh, a second one waits for it. One retry distinguishes the
first, a middle and the last attempt. Two rotations suffice for names to meet
and for one compression to run beside another. Two edits take the list from the
cached pair to three writers and back. In adapter_log a Fatal has every step a
call can have (snapshot with base fields, hooks, errors, critical write, Sync,
exit) and an Info call takes the other branch of each; with five items a pool
never runs dry: a call holds at most one snapshot and one buffer, and what was
recycled can be taken again. One edit falls between any two steps of a
RegisterGlobalHook or of a call. Three moves make one report wait for a second
while a third counter moves. In setup two goroutines are what a look and a
registration need to be overtaken, and three calls what a rule with a first part
and an interval needs to pass, to drop and to pass again. The documents hold each
pair of sources that can meet in one key, and one case of every refusal. In
log_line every message and value has characters from each class of the escaper:
quote, backslash, short escapes, other control characters, DEL, plain; four
loggers give a chain and two siblings. `MaxTime`, `MaxFaults`, `MaxCrashes`,
`MaxEdits`, `MaxChanges`, `MaxRegistrations`, `MaxCalls` and `MaxLoggers` are
bounds of the environment, not of the code.

Deadlock is checked everywhere but in async_metrics and setup, where the state in
which everybody is done has no step left; AsyncWriter, PayloadPool and FileWriter
give that state a self-loop of its own (`Quiescent`, in which a Flush may be
stranded, `AllDone`), AdapterLog likewise (`Terminating`).

Fairness: weak fairness of the worker and of every call that has begun, each for
itself (the Go scheduler runs every goroutine that can run; timers fire; the
underlying writer, hooks and handlers return). No call has to be made. In
FileWriter: a Write that began goes on, and each compression goroutine runs. In
AdapterLog: the output's queue moves, which is what AsyncWriter guarantees
(`AcceptedIsResolved`). In AsyncMetrics: every operation, also those waiting for
metricsMu; weak fairness is enough because there are finitely many of them. The
clock, failures, edits and crashes are not fair.

## 5. Disagreements

Runs that TLC refutes on purpose, each quoting the line of the repository that
says otherwise (`findings` in PROJECT.json):

- async_panic: a Write passes the check of `closed`, Close closes msgCh, the
  send panics (async.go:167, 291).
- log_line_unicode: the JSON encoder escapes the first byte of a rune beyond
  ASCII as if it were the rune and leaves the others (adapter.go:1139).

Also stated in the modules, and refuted by TLC, but not kept as runs:

- `AsyncWriter!CloseLeavesNothing` (one Write, one Close): a Write enqueues
  between the worker's exit and close(msgCh) and returns nil for a payload that
  nobody writes (async.go:290-291).
- `AsyncWriter!FlushEndsInTime` (two Flushes, one Close): a Flush blocked on
  flushCh when Close stops the worker never returns (async.go:252), though
  "WaitTimeout is the maximum time to wait for all logs to be written during Flush"
  (async.go:22).
  `CallsReturn` says that this is the only way for a call to wait for ever.
- `AsyncWriter!DropOldestMakesRoom` (three Writes, DropOldest): the freed slot
  goes to another Write and the new entry is refused (async.go:198-207).
- `AsyncWriter!CloseReleases` (one Close, FaultySync): a failing Sync leaves the
  underlying writer open for good (async.go:296-301).
- `PayloadPool!LegacyCopyStays`: the legacy drop handler gets the pooled slice;
  what it keeps after it returns changes (async.go:521; README.md:422 of the
  repository speaks of a copy).
- `FileWriter!BackupsKeepRecords`: two rotations in one second lose records
  (output.go:385).
- `FileWriter!SyncOfClosedIsClean` (one failure): a failed rotation keeps a
  closed file, on which Sync fails (output.go:208, 379).
- `FileWriter!MaxSizeHolds` (two failures): bytes of a failed write are not
  counted (output.go:193-202).
- `MultiWriter!WriteAfterCloseFails` (no edits): Write after Close returns
  (0, nil) (output.go:679).
- `MultiWriter!TargetsAreMembers` with `Initial = <<s1, s1>>`: RemoveWriter takes
  out one of two places (output.go:496, 652).

Seen while the code was read, and modelled as it is:

- registerHooks ignores `HookConfig.Levels`; the hook's own Levels() decide.
- The error of a hook has error level but goes through the droppable Write.
- A reporter that logs through its own writer waits for metricsMu, which it holds.
- "panic" passes ParseLevel and is refused by levelFromString; "warning" is
  accepted for the level, not as the key of a rule or a colour.
- A configuration file's `file_mode: "600"` is decimal; its max_size 0 means no
  rotation, while a missing one means 100 MB.
- applyRaw opens the log file before it looks at colours and rules; NewAdapter
  leaves the file and an async writer open when a later stage refuses.
- A console and a file together count as a terminal, so the file gets colours.
- Configurations built after the first WithSamplingRule share the rule map.
- WithFields on a logger without fields keeps a key that its argument repeats;
  context and stack fields are not compared with the logger's own.
- The console asks a value for String before Error, JSON for Error and otherwise
  prints %+v (adapter.go:982-988, 1240-1247). So four kinds of value differ in the two
  encoders (`PrintedApart`): a []byte (its numbers, a string), a complex number
  ((1+2i), (+1+2i)), a Stringer that is a Formatter (a *big.Int: 5, +5), an error
  that is a Stringer.
- Keys of fields are written to JSON unescaped; NaN and infinities are bare.
  Inputs of log_line leave these out: keys are plain, and a float is a text.
- CompressionConfig.Extension has no default of its own (output.go:125-128): if it
  were empty, the compressed file would be its source (compression.go:123).
- `colors.go:59-61` calls ForceTTY false by default; DefaultConfig sets it.

## 6. Proofs

Each module is proved for every value of its constants that its named ASSUMEs
allow; they say what the values are (sets of calls, a buffer size of at least
one, the names Go gives to levels and strategies), never how many. Each proof has
the same form: an inductive invariant, stated in the module of the model and
checked by TLC there, holds initially; every action keeps it, one step per
action; it implies the property. The first conjunct is always the type invariant.
(Those of LogLine speak of any sets of keys and texts and stand in LogLineProofs;
TLC found them to hold on the instance of log_line.)

### AsyncWriter

`TypeInv` adds to TypeOK that the worker in its flush loop has a Flush and a
DropOldest writer at "notify" has a payload.

- `FateInvariant`, with its corollary `OneFate`. `FateInv` is `PlaceInv` and
  `TraceInv`. To one place for each payload, `PlaceInv` adds that a payload whose
  call has not sent or written it is nowhere yet (so a send cannot make a second
  copy), that only writers at "notify" hold a payload, and that exactly parked
  writers wait in `sendq`, each once (so the hand-over from a parked sender is a
  first send). `TraceInv`: no attempt is made to write what was not sent, none
  for what was refused, and without retries none after one that failed.
- `HonestReturns`: returns tell the fate, and what was refused left no trace in the
  underlying writer. `HonestInv`: only calls that have ended have a result, and a
  Write about to be acknowledged has been taken charge of.
- `MetricsAddUp`. `BalanceInv` holds at every moment, not only when the writer
  idles: payloads sent but not yet counted, and those that the worker or a
  DropOldest writer holds, make up the difference between the counters.
- `OrderKeptForCallers`. `OrderInv` (with `NothingBehind`): a payload acknowledged
  before another's call began is not behind it in the channel or the worker's
  hands, nor still on its way when the other has been written.
- `BarriersHold`. `BarrierInv`: the promise holds from the moment the worker
  closes a doneCh or exits; it exits only for a Close, and serves no Flush that
  has not begun.
- `Refinement`: `Spec => RefinesLogDelivery`, action by action. A send, a
  worker's write, a drop or the end of a barrier is the step of that name in
  LogDelivery, everything else a stutter. The invariants above are what makes it go
  through: a payload sent is fresh there because of FateInv, a barrier may end
  there because of BarrierInv.

### AsyncMetrics

- `ReportsAreExclusive`: exactly the operation between Lock and Unlock holds its
  writer's metricsMu. `SnapshotInv` makes it inductive: a snapshot is whole when
  it is reported, and what a handler logs has not begun before it is called.
- `LastReport`. `ReportInv`: somebody still waits to report, or the one who reads
  has read only current values, or the last report is up to date. A reader whose
  counters move behind it leaves a waiter behind as well.
- `ReportsOnlyGrow`: `Spec => CountersGrow`, an action property. `GrowInv` is a
  chain: what was told, what is being read, what is counted; and with one writer
  reporting, each scrape, the next scrape, the exporter, what was told. What is
  being stored in the exporter is what was told last, because of the exclusion.

### PayloadPool

`BuffersStay` and `BytesStay`. `PoolInv` says of a buffer that it has one place
(`OnePlace`: the pool, or the one payload that points at it and whose bytes it
then holds) and of a record where its payload, the drop made of it and its lease
point (`Path`): a payload that is through points at a buffer only on behalf of
a lease, and a lease taken in time keeps others from releasing it.

### MultiWriter

`TargetsStayMembers`, `FanOutReportsWhatItDid`, `SyncedIsDurable` and the action
property `CloseReachesEverySink`. `FanOutInv`: the list has every member once and
the cached pair, in use, is the list (`ListInv`); a Write between two sinks has
its record in all it has passed, unless one was counted as bad (`WriteInv`); a
Sync between two sinks has made those it passed durable (`SyncInv`).
`InitialAssumption` takes the list given to NewMultiWriter to be without
repetition: with one, TargetsAreMembers is false (section 5).

### FileWriter

- `RotationKeepsTheBound`. `SizeInv`: w.size counts what is in the file but for
  what failed writes have left, and a record is about to be appended because it
  fits or because the file is new.
- `NothingIsLost`. `HandleInv`: the open descriptor is the file named Log, and a
  call that goes on has a record of its own. `NamesInv`: no file has two names, no
  job writes into the log. Unless two rotations met in one second, `JobInv`
  follows a compression (its source is there until its .gz holds the same
  records) and `KeepInv` a record from its Write into the directory. Without the condition it is false
  (`BackupsKeepRecords`, section 5). What a reader finds is stated by places:
  a shelf for each second, with its backup or, when that is gone, its .gz, and
  the log as the last. Two records on one shelf or on two are in order when their
  places are, so that nothing recursive has to put the shelves together.

### AdapterLog

`LogInv` has a part for each property. `PlaceInv`: a snapshot or a buffer is with
one call or in a pool (`PooledHasOneOwner`). `TextInv`: it holds what its call
has put there, and no hook runs once the line exists (`LinesCarryTheirOwn`).
`HookInv`: what a call has still to run counts too (`HooksRunInTheirWindow`).
`FateInv`: an error of a hook has its fate when it leaves the list, or at the
Write just before; the queue, what is written and what is lost never hold a
line twice (`EverythingHasOneFate`). `FlushInv`: a Fatal's Sync waits for what
the calls that had returned left in the queue (`FatalFlushes`). The output is any
one that keeps LogDelivery's promise.

### Setup

`SetupInv` is TypeOK, `MakersInv` and `SamplingInv`.

- `EnvironmentWins`: by cases on the keys, each setting of `KeyOf` and `SamplingKeyOf`
  and each part of a rule; a configuration that is loaded is what `ApplyRaw` made
  of its document, with what NewAdapter adjusts once that has begun
  (`LoadedInv`); the property names the two settings that it adjusts (`Adjusted`).
- `EncodersAreAsAsked`, `LoggersCanLog`. `LookInv`, `EncoderInv`: a default that
  a maker looked for stays in the registry, and if it appears between its look
  and its registration there is a rival. `RefusedInv`: who fails has a cause; a file that
  cannot be read or opened is one only if a fault was spent on it. The rules of a
  sampler in use let entries through, whatever thresholds were set.
- `ShareIsAsAsked`. `CountInv`: the counter of a rule is the calls that ended and
  those that have still to decide; `ShareInv`: what has passed is the share of
  the count but for those of them that are going to pass; `CallInv`: each
  knows a count of its own. So the share is exact whenever no call is under way.

Strings are compared but never taken apart, and their set is the constant
`Strings`, of which `StringsAssumption` names the members that the code spells
out.

The proof corrected one statement. EnvOverridesFile had said that
`sampling.initial` from the environment holds for every rule; a rule's own key,
`sampling.rules.<level>.initial`, wins over it when the environment has that one
too, as the code means it. No document of the instance had both; one has now.

### LogLine

What a recursive function computes is proved by an induction stated with sets
(`Induction`: a subset of Nat with 0 and every successor is Nat), which follows
from `NatLessThanWellFounded`. On it rest `Recursion` (a function defined from
its predecessor exists and satisfies its equation), `FlattenInduction` and
`MergeInduction`.

- `LoggersTyped`: `Typed(K, T)`, for any keys K and texts T that the inputs have.
- `FieldsOfLoggers`. `FieldsFollow`: the fields of a logger represent what it was
  given (`Represents`: each key once, the last value, in order of first use), or its
  first batch repeated a key (`Excused`). One field appended or replaced keeps
  that (`RepresentsStep`), so a batch does (`RepresentsMerged`).
- `LinesAreJSON`, for texts within ASCII and keys without quotes, backslashes and
  control characters. Both hypotheses are needed: beyond ASCII it is false
  (log_line_unicode), and keys are written unescaped. The inputs of log_line meet
  them.
- `EncodersAgree`, for all keys and texts within ASCII: beyond, JSON garbles a
  text that the console shows as it is. `TextsOfValues`: but for the kinds of
  `PrintedApart` both type switches choose the same text.
- `BuffersFit`. Of a number with highest bit e, smearing by 1, 2, 4, 8 and 16
  leaves a run of 1s from e downwards, which doubles each time, so that in the end
  all bits from 0 to e are set; their sum is one less than the next power of two.

### Only model-checked

- Liveness (`AcceptedIsResolved`, `CallsReturn`, `BackupsAreCompressed`,
  `CallsEnd`, `OpsEnd`): fairness and leads-to are out of TLAPS's reach here.

## 7. Not modelled

Callbacks that call back into the same writer (handlers that log during Close, or
reporters under metricsMu: both block, see section 5), CompressFile and the
buffer pools of compression, power failures (a sync is taken to work or to
fail), named hooks of a registry that the program keeps itself (RemoveHook,
GetHook), the time, the caller and the colours of a line, decoding of
documents (viper's), floating point values. ConsoleWriter, the adapters of
io.Writer, colour tables, path cleaning, integer conversions, constants and
examples are left out for good: they keep no state that changes or are tables,
are sequential, and are covered by tests.

# stortrace in TLA+

stortrace traces disk I/O with eBPF probes, writes one row per I/O to binary
files through io_uring, and computes latency distributions from the files after
Ctrl+C. This directory models the program in TLA+, checks the models with TLC
on small instances and proves the main results with TLAPS for every instance.

## The system

| part | source | state | operations |
|---|---|---|---|
| block-layer probes | `block_trace.bpf.c`, `.h` | maps `bio_pass`, `rq_cache`, ring `blk_log` | 17 probes, one per step of a request through `blk-mq` |
| blk consumer | `block_trace.hpp` | heatmaps, counters, a `Logger` | `proxy`, `do_event` (2), `do_meta` |
| row logger | `logger.hpp` | offsets, counts, an io_uring, row buffers | `commit`, `__flush_all`, `__dump_logger_meta`, destructor |
| dio probes, simple | `ext4_dio_simple.bpf.c` | two global start times, `event_cache`, ring | 6 probes |
| dio consumer, simple | `ext4_dio_simple.hpp` | t-digest filter, series, counters, `Logger` | `proxy`, `do_event`, `do_meta` |
| dio probes, info | `ext4_dio_info.bpf.c` | the same, `dio_filter`, `rq_cache` | 14 probes |
| dio consumer, info | `ext4_dio_info.hpp` | hctx map, hctx series, heatmaps, `Logger` | `proxy`, 2 `do_event`, 3 `do_meta` |
| series and counters | `time_aq.hpp`, `hctx_state.hpp` | growing vectors | `commit`, `dump_json` |
| heatmaps | `heatmap.hpp` | sectors, hctx-to-disk map | `commit`, `gen_heatmap` |
| offline analysis | `collector.hpp`, `main.cpp` | tables read back | joins, distributions, rates |
| session | `main.cpp`, `common_um.h` | `exiting` | poll loop, release |
| configuration | `Env.hpp` | `Env` | `read_config` |
| not part of the core | `digestible.h`, `vis/`, build files | | third-party, page rendering |

How they interact: probes run inside the kernel on any CPU, share hash maps
keyed by kernel addresses and put records in a ring buffer. One thread polls the
ring; `proxy` turns each record into rows (`do_event`) and in-memory statistics
(`do_meta`). Rows go to `Logger::commit`, which copies the row, queues an
asynchronous write and frees the copies of completed writes. After SIGINT the
loop ends, the statistics are dumped as JSON, the logger's destructor syncs and
writes `log_meta` (format and number of rows of each file), and the offline part
reads the files back by those counts.

What is hard: kernel addresses are reused, so an entry of a map may belong to an
earlier life of the address; requests merge, split, are refused and queued
again; maps and ring are bounded and fail silently; io_uring completes in any
order; and the shutdown rests on one draining request.

What makes each part correct:

* probes, blk: an event is about one life of one request and is reported once;
* probes, dio: a record is about the call that completed; at the info level the
  requests carry the uid of the call they work for, and a hardware queue is
  announced before the requests that went through it;
* stamps are in order, so that unsigned differences do not wrap;
* consumers: every event ends in a row or is dropped for a stated reason, and
  files that are joined by row number stay aligned;
* logger: every accepted row is stored at its place, buffers outlive their
  writes, the shutdown terminates with everything stored and counted;
* series, heatmaps, analysis: nothing leaves a vector, counts match rows, the
  join and the averages are what a reference definition says;
* session: once records cease to come, SIGINT ends the tracing, whatever is left in
  the ring.

## Modules

* `AppendLog` is the abstract specification of a log file collection: accept a
  row, store an accepted row at its place at any later time, close only when
  everything is stored.
* `Logger` models `logger.hpp`. `pc` is where the thread is; `Commit`,
  `ReapBuffer`, `ReapEmpty` are `commit()`; `FlushAll` is `__flush_all`;
  `DumpMeta`, `FsyncMeta`, `WaitBuffer`, `WaitFsync`, `WaitFinish` are
  `__dump_logger_meta`, cut at its submits and at each turn of its busy loop.
  `Complete` is the kernel's side of io_uring: it takes any request
  `IOSQE_IO_DRAIN` allows, and a write may fail if `WriteErrors`. Offsets are
  counted in rows; a buffer is named by the number of the submit that handed it
  over; `accepted` is a history variable.
* `BlockTrace` models the probes of the blk mode. One action per probe, named
  after it, with the step of the block layer that fires it (`stage`, `bioOf`,
  `bstate`: external, Linux 5.10 blk-mq). `mine` is the outcome of the pid or
  command filter for a bio's process. A hash map is a function with `0` or
  `NoEntry` for a missing key, and its `max_entries` is a constant. `born` and
  `enteredAt` are ghosts: they say which life of an address is current. `direct`
  and `sched` share storage (a union) and are one field.
* `BlkTraceModule` extends `BlockTrace` with the consumer. It replaces `Take` by the
  cases of `proxy` and `do_event` and computes each row with unsigned
  subtraction modulo `WordSize`; an unassigned field is `Garbage`. Rows go to a
  sequence: the abstract log that `Logger` implements. `lost` is a ghost: the
  events the full ring refused.
* `IoReports` is the abstract specification of what the rows of blk mode stand for: a
  life of a request is named by the time it began; it is open, then reported at most
  once into a queue, then delivered as a row or passed over. `BlkTraceModule` maps
  `rq_cache` to the open lives, the ring to the queue (a bio record is no life) and
  its rows to the delivered ones. `TrackProbe` is `Allocate`, `AccountIoDone` with room in
  the ring is `Report`, `CommitRow` is `Deliver`; a refused report leaves the life open
  until its address is allocated again.
* `Ext4DioSimple` models the six probes of the simple ext4 level and the consumer of
  their records. `SyncCall`, `DioIter`, `BioActor` and the two halves of
  `kpiomap_dio_complete` (`CompleteStamp`, `CompleteEmit`; `CompleteUnseen` is its early
  return) are the probes; `OtherStamp` and `OtherStore` are the same start probe fired
  on another CPU by any other read or write, which reads the clock in one step
  and assigns the same globals in another; `ForeignCall` is a call the process
  filter stops; `AsyncCall` and `GiveUp` are external (asynchronous I/O reaches
  ext4 without `new_sync_write`; ext4 may return before it maps anything).
  `stale` is a ghost: the addresses whose event belongs to a call that is over.
  The t-digest's answer is arbitrary. The probes' inode filter is left out: it is
  never switched on (see `Session`).
* `Ext4DioInfo` models the fourteen probes of the info level and `Proxy`, the
  dispatch of its consumer. One action per probe. A kiocb, an `iomap_dio` and
  a request are addresses the kernel reuses; `dio_filter` (keyed by `iomap_dio`)
  and `rq_cache` (keyed by request) hold what the probes left under them. A
  request takes over the uid found under the `private` field of its bio. `unheard`
  and `refused` are ghosts: the hardware queues whose announcement the full ring
  refused, and the `iomap_dio`s whose record it refused. A run ends in `Aborted`
  where the consumer calls `LOG(FATAL)`.
* `TimeSeries` holds the vectors of `time_aq.hpp` and `hctx_state.hpp` as operators:
  each commit with its growth test (at most one doubling), the index arithmetic
  in `int` and `unsigned long`, the printed averages. A series carries `valid`,
  which turns false where the code would write outside its vector.
* `Offline` holds `heatmap.hpp` and `collector.hpp` as operators: bucket arithmetic
  (`HeatWidth` cuts the width of a heatmap's bucket to an `int`, as line 26 does),
  distributions, rates, the merge rate, the hash join and the three `process_*`.
  Rates stay pairs; one latency stands for the seven stages.
* `Session` is the trace mode of `main()`: `ReadConfig` and `Load` (configuration,
  skeleton and its filters), the probes of the chosen mode on each CPU: `BioEnterReserve`
  reserves a record and `BioEnterSubmit` stamps and submits it later, the others
  (`AccountIoDone`, `DioComplete`, `HctxSeen`, `RqInfo`) stamp first and put their
  record into the ring later (`Emit`);
  the poll loop (`Wake`, `Take`, `Drained`, `Leave`), `SigInt`, `Release`, and
  `Process` for the analysis. `ring_buffer__poll` stops at a record that is
  reserved and not submitted, as libbpf does. The programs stay attached until
  `release_logger`, so SIGINT stops neither the clock nor the probes. It relies on the
  other modules: records arrive as the probe modules say they can, rows are stored as
  `AppendLog` says. A row's latency is the life of its request without the time before
  the plug; rows with wrapped or uninitialised stages are `BlkTraceModule`'s subject,
  and `ProxyRqTrace` may give an event no row (no dispatch path) or drop it (no plug).
  `committed` is a ghost: the times given to the series, and to that of the hardware
  queue each time once. A program that leaves a vector ends in
  `crashed`, one that rejects its configuration in `fatal`.
* `MCBlockTrace`, `MCBlkTraceModule`, `MCExt4DioSimple`, `MCExt4DioInfo` and
  `MCSession` give TLC the constants that are functions, the configurations and
  the symmetry of addresses.
* `LoggerProofs`, `BlockTraceProofs`, `BlkTraceModuleProofs`, `Ext4DioSimpleProofs`,
  `Ext4DioInfoProofs`, `Ext4DioInfoJoinProofs`, `OfflineProofs` and `SessionProofs`
  hold the theorems.

## Runs

| run | module, cfg | shows |
|---|---|---|
| `logger` | `Logger`, `Logger.cfg` | append-only files, buffer lifetime, shutdown, refinement of `AppendLog`, termination |
| `logger_durable` | `Logger`, `LoggerDurable.cfg` | **violated**: data files are not durable at close |
| `blk_probes` | `MCBlockTrace`, `BlockTrace.cfg` | freshness, reported once, with every capacity 1 |
| `blk_filter` | `MCBlockTrace`, `BlockTraceFilter.cfg` | **violated**: with a filter an event mixes two lives |
| `blk_rows` | `MCBlkTraceModule`, `BlkTraceModule.cfg` | one life per event, ordered stamps, no blind spot, every event accounted, rows telescope, one row per life, refinement of `IoReports` |
| `blk_wrap` | `MCBlkTraceModule`, `BlkTraceWrap.cfg` | **violated**: a scheduling latency wraps |
| `dio_simple` | `MCExt4DioSimple`, `Ext4DioSimple.cfg` | a record is about its call, stages within the call, files aligned |
| `dio_order` | `MCExt4DioSimple`, `Ext4DioOrder.cfg` | **violated**: the throughput series sees ends out of order |
| `dio_info` | `MCExt4DioInfo`, `Ext4DioInfo.cfg` | requests join their own call and no other, rows are complete, keys leak only on a refusal, drives are announced |
| `dio_fatal` | `MCExt4DioInfo`, `Ext4DioInfoFilter.cfg` | **violated**: with the command filter the consumer ends in `LOG(FATAL)` |
| `session` | `MCSession`, `Session.cfg` | series, counters, heatmaps and analysis agree with what was logged, in three modes; SIGINT ends the tracing |
| `config_files` | `MCSession`, `SessionFiles.cfg` | **violated**: files of the configuration do not select anything |

Bounds, and why they are enough:

* `logger`: `MaxRows` = 3 bounds the submits before the shutdown: two files and three
  rows give every overtaking of two writes to a file, and of a write by the fsync
  of its file.
* `MaxTime` bounds the clock readings of a behaviour, and `Horizon` stutters at
  the end so that deadlock stays checked. One uninterrupted life of a request
  takes 8 or 9 readings; the 11 of `blk_rows`, `blk_filter` and `blk_wrap` leave
  room for a refusal and a re-insertion, or for a whole life after a merged one.
  In `blk_probes` a life with few stamps (no plug, merged in the scheduler) and
  the start of the next life of the same address fit in 6.
* `BioPassMax`, `RqCacheMax`, `RingMax` are 1 in `blk_probes`, with two bios, so
  that every capacity is hit. In `blk_rows` the cache has room for all requests
  (`NoBlindSpot` needs it) and the ring for two; in `blk_wrap` the ring never fills.
  A second row takes 14 readings and is beyond `blk_rows`: what it can show of
  `OneRowPerLife` is that the life that got the row gets no other, while its address is
  reused; the rest is proved.
* one request per kind of queue (mq-deadline, none, bfq in the probes' run, kyber
  in the consumer's): the requests of one kind are alike to the probes.
  `WordSize` is 64 (32 in `dio_simple` and `dio_order`) for 2^64: it only has to
  exceed twice the largest time.
* in `dio_simple` a synchronous I/O takes four clock readings (call, ext4, extent,
  end) and an asynchronous one without extents two: `MaxTime` = 6 holds three
  short calls at one address, or a long one with a call on another file in
  between and a stale predecessor; `OtherMax` = 1 is enough because one late
  store suffices to disturb a start time, and the second kiocb disturbs it as
  well. Cache and ring hold one entry, so that both overflow; `dio_order` gives
  both room for two.
* `dio_info`: one kiocb, two `iomap_dio`s and two requests, each on a hardware
  queue of its own, every capacity 1. One kiocb suffices because what can be
  mistaken is the `iomap_dio` of an earlier call, and two of them allow a leaked
  key beside a live one. `MaxTime` = 3 gives two calls of one extent or one of
  two; requests need no reading of their own for their uids. `dio_fatal` has room for
  everything, so that only the filter can be the reason.
* `session`: two CPUs and a ring of two give every order of two submits and a full
  ring. `MaxRecords` and `MaxTime` depend on the configuration: 4 records and 2 ticks in
  blk mode, 2 and 3 at the simple level, at the info level 3 without a tick (two
  requests and their call) and 1 with three. The records of the hardware queue are not
  counted: in info mode they come for ever. A longer blk configuration has 6
  records, enough for two rows of one kind and one of the other, so that the two
  rates differ. `SeriesSize` = 2 makes the vectors grow. `IntSize` = 64 and `WordSize` = 1024
  keep the order of the widths; the interval 33 does not fit the small `int`, as 3000 ms
  do not fit the real one. On a disk of 504 sectors 3 rows give a bucket a width that
  fits the `int`, 2 rows one that is cut to a negative number (one bucket), 1 row
  one that is cut to 0 (a crash `AnalysisDefined` excuses by name). Nine rejected
  configurations cover each early exit of `read_config`. `file_filter`'s 16 entries are
  not modelled. The run has 1.5 million states.

Fairness: `Logger`'s `FairSpec` asks weak fairness of the logger's own thread (it
is a plain loop) and of the kernel (a submitted request completes). `Session`'s
`FairSpec` asks it of the tracer's own loop only; the probes, the clock, the user
and the submit of a reserved record have none, and `FinishesAfterSigint` holds even
if a record is never submitted. It has the hypothesis `RecordsCease`: from some
point on the ring does not grow. Nothing in the code guarantees that, since the
programs stay attached until `release_logger` and one `ring_buffer__poll` takes records
as long as it finds any; without the hypothesis TLC shows a tracer that drains for
ever after SIGINT (`HctxSeen`, `Emit`, `Take`), which is what `main.cpp` lines
299-301 do under records that come as fast as they are taken. Commits and the
end of tracing are up to the traced system and the user; `FlushTerminates` therefore
starts where the destructor has started.

## Disagreements with the documentation

* `mysql.md` line 237 promises that fsync confirms all data before stortrace
  ends; the data files' fsyncs are not ordered after the writes (`logger.hpp`
  line 92), only the one of `log_meta` drains. `DurableAtClose` fails.
* the comment at `block_trace.bpf.c` line 82 promises that a stale entry is recycled; with
  a filter the probe returns first. `OneLife` fails with `UsingFilter`.
* the assertion at `block_trace.hpp` line 140 expects a non-negative scheduling
  stage; directly issued, refused and re-inserted requests have none and the
  difference wraps. `SchedulingNotNegative` fails.
* the assertion at `time_aq.hpp` line 83 ("order error") takes the ends of I/Os to
  come in order; stamp and reservation are separate steps of
  `kpiomap_dio_complete`, so two CPUs can swap them. `SeriesInOrder` fails.
* `mysql.md` line 409 offers the select mode at the info level; a request that a
  worker thread hands to the driver is stopped by the command filter in the
  queue probes and not in the completion probe, so the consumer meets the request
  without its queue and ends at `heatmap.hpp` line 137. `NeverFatal` fails.
* `mysql.md` lines 412-415 offer a selection by files; nothing in user space sets
  `using_inode_filter`, so all files are traced. `SelectedOnly` fails.

Met while modelling, without a run of its own because no document says otherwise
or because it is no state of the program:

* a full ring leaves keys in `dio_filter` (`ext4_dio_info.bpf.c` line 213), and
  requests of all extents but the last lose their call in the join, because the
  uid changes with every extent (line 179);
* a SCSI command the error handler finishes has no hardware queue, so its
  record ends the tracing even without a filter (`DisksAnnounced` excludes it by
  name);
* an interval from 2148 ms on does not fit the `int` of the series; `mysql.md`
  line 165 uses 3000 ms. The series then has one slot;
* read and write rates are exchanged (`collector.hpp` line 253): what is published as
  `r_rate` is the share of the writes. `RwRate` does what the code does, and `RatesAreShares`
  asks only that the two rates are the two shares; they are 0 unless an interval has
  two of each, counting one more of each in the first. The merge rate
  indexes one series with the other's size (line 281), and an empty table is
  used undefined; `AnalysisDefined` states the cases in which the analysis is defined;
* a configured pid is overwritten by the next lines and never filters
  (`Env.hpp` line 188); a file named twice in the configuration is fatal;
* the width of a heatmap's bucket is computed in 64 bits and cut to an `int`
  (`heatmap.hpp` line 26): on a range of some 2^35 sectors for each row it can become 0,
  and `gen_heatmap` divides by it, or negative, which leaves a single bucket;
* records still in the ring at SIGINT are never logged, and as long as records come
  the drain does not end (`main.cpp` lines 299-301);
* `queue_num` is read before it is set, the per-I/O request files are dumped to a
  directory nobody creates (`main.cpp` line 249), and `src/common.h` contains
  merge-conflict markers.

## Proofs

All for every value of the constants.

* `LoggerProofs`: `TypeCorrect`; then `ProtocolInvariant`, which ties the
  thread's position to what may be queued: before the destructor only writes are
  in flight, each with its own live buffer, and from `FsyncMeta` on exactly one
  draining request is the last. `BufferLifetime` is not inductive without it
  (the two completions that carry no buffer must be known to exist only in the
  wait loop). `BuffersSafe` and `CloseIsQuiescent` follow, with failing writes.
  Then, assuming `~WriteErrors`, `DataInvariant` (offset = count =
  number of accepted rows; a write in flight has an offset nobody else writes)
  gives `RowsKeepTheirPlaces` and `MetaIsTruthful`, and the step simulation for
  `LoggerImplementsAppendLog`: `Commit` maps to `Accept`, the completion of a
  row's write to `Store`, `WaitFinish` to `Close`, everything else stutters.
* `BlockTraceProofs`: `TypeCorrect`; then, assuming `~UsingFilter`,
  `EntryInvariant`: a bio in the block layer has its own time in `bio_pass` or
  none; a request in flight has a bio nobody else carries; the entry of a
  request in flight has its stamps in order and, at each stage, what the next
  probe relies on (`StageOK`). `EntriesAreFresh`, `EventsAreOneLife` and
  `TimelinesAreOrdered` follow.
* `BlockTraceProofs` again, with or without a filter: `StartsInvariant` (the
  `rq_start` of an entry or an event names one life, and names it only once over
  cache and ring) gives `LivesAreReportedOnce`. `NoRequestUnseen` assumes no filter,
  finitely many bios and requests, and maps with room for all of them: then every
  request in flight whose bio entered through the probe has its entry.
* `BlkTraceModuleProofs`: a step of the composed system is one of `BlockTrace`, so
  its theorems carry over. `IosAreAccounted` counts events as sets, which needs
  that two events in the ring differ. `RowsTelescope` assumes `~UsingFilter`: ordered stamps
  below `WordSize` make every modular difference a true one, and the lemma
  `Telescope` adds them up. `RowsImplementReports` needs `StartsInvariant` (an entry
  is in `rq_cache` just when its start is not 0) and holds with a filter; its lemmas
  follow the starts through `Append` and `Tail`. `RowsAreOnePerLife` is then proved of the
  abstract steps alone (`ReportInv`: a start is in one place and in the past).
* `Ext4DioSimpleProofs`: types and the capacities of cache and ring (`CapacityInv`: the
  cached addresses are finitely many, and a probe that stamps an event found it in
  the map); `FilesStayAligned`; `CallInvariant` in three parts:
  what is found at the address of a call is of this call unless stale, the start time
  a synchronous call is about to copy is not older than the oldest call of its
  direction (other writers may overwrite it, only with later times), a record in the
  ring is of its call. `RecordsAreOfTheirCalls` and `StagesAreBounded` follow.
* `Ext4DioInfoProofs`: types and capacities (with finitely many keys); without a
  filter `KeysLeakOnlyOnRefusal`, `DisksAlwaysAnnounced`, `RowsAreComplete`, each from
  an invariant over the phases of a request.
* `Ext4DioInfoJoinProofs`, assuming `~UsingFilter`: `JoinInvariant` says whose uid is
  where: two calls begin at different times, a key of `dio_filter` and a uid borne by
  a request belong to one call, a reported uid is no key any more. `JoinIsSound`
  and `JoinIsComplete` follow.
* `OfflineProofs` says what the folds, sums and selections of `TimeSeries` and `Offline`
  compute, for tables of any length. The installed provers cannot instantiate the
  library's induction theorems; the lemma `Induction` takes the property as the
  *set* of the numbers that have it, and follows from the well-foundedness of `<`.
  A fold of the community modules is a recursive function over subsets; two
  functions that obey its equation agree (`FoldsAgree`), one exists, so the fold is a
  chain of single steps (`CommitsOneByOne`, `JoinsOneByOne`). On the chains rest:
  - `SeriesHoldsAll`: a series that stayed within its vector has in every slot the sum
    and the number of the values of that slot, and a size of `SeriesSize` doubled;
  - `SteadyIsValid`: steady times keep it within;
  - `HeatmapHoldsAll`: unless the width of a bucket is cut to 0, the buckets partition
    the sectors, add up to all counts if those fit an `int`, and are no more than the
    partition asks for if the width fits one; `DistributionHoldsAll`: the buckets
    partition the rows;
  - `BlkEndSorts`: a sorting permutation exists, and `BlkEnd` chooses one;
  - `JoinHoldsAll`: the hash join has each matching pair once, in lexicographic order.
* `SessionProofs`: types with the owner of each unsubmitted record (`TypeInv`; the clock
  and the ends of requests are below half a word, so ends and latencies do not wrap:
  an assumption on nanoseconds since the boot). `ModeInv` says of which kind the rows and records of a mode are,
  `EndInv` that what is dumped is the analysis of these rows with the interval
  read at the start. `SeriesInv` is why one doubling for a commit is enough: the
  last slot lies inside the vector, one step of steady time spans at most
  `SeriesSize` slots, which is at most the size. `HctxInv` adds that the size is
  `SizeAfter[p]` for some `p`: the growth test of `HctxState` is off by one, and only a
  slot equal to such a size can leave the vector; and that every earlier slot is
  inside, so that a time committed again changes no size. From these invariants:
  `SeriesStaysInside`, `EveryIoIsCounted`, `NothingLeavesItsVector` (all modes),
  `EverySectorIsShown`, `EveryRowIsInTheDistribution`, `EveryIoIsInItsInterval`,
  `RatesAreOfTheirInterval`, `RequestsAreJoined`. The reports follow the rows through
  the order of their ends: slot `k` of a series commits row `p[k]`, its slot is the
  interval of that row's end (`SlotIsInterval`), and sums over the places of a
  permutation are sums over the rows (`SumOverPlaces`).

Assumptions: the named `ASSUME`s of the modules (evaluated by TLC in the runs),
and the hypotheses written in the theorems. Every invariant a passing run checks is
proved. Only model-checked: `FlushTerminates` and `FinishesAfterSigint`, which are
liveness under fairness.

## Not modelled

* the t-digest (third-party numeric code, its answer is arbitrary in the models),
  the visualisation server and templates, build files;
* requests that bypass `__rq_qos_track` (passthrough), iostats switched off
  (`account_io` = 0), the bytes of the ring (capacity counts records), the depth
  of the submission queue;
* JSON syntax and text, relative paths, the accuracy and thresholds of the
  latency filter, the display mode, the descriptive fields (disk and process name,
  sectors where no property is about them).

## Plan

Done: `AppendLog`, `Logger`, `BlockTrace`, `BlkTraceModule`, `IoReports`, `Ext4DioSimple`,
`Ext4DioInfo`, `TimeSeries`, `Offline`, `Session`, and the proofs listed above.

Left, in order of use:

1. the join with a filter on (`JoinSound` is stated and proved without one);
2. the depth of the submission queue in `Logger`, with configurations smaller than
   the number of files.

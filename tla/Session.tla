------------------------------ MODULE Session ------------------------------
(***************************************************************************)
(* A run of the tool in trace mode, main() from the configuration to the   *)
(* analysis: read_config, the constructor of the chosen module, the poll   *)
(* loop over the ring buffer until SIGINT, release_logger, and the tables  *)
(* read back.  The probes appear by the records they put into the ring,    *)
(* from several CPUs and in two steps; BlockTrace, Ext4DioSimple and       *)
(* Ext4DioInfo say what those records hold, Logger that a committed row is *)
(* in its file when the logger is released.                                *)
(***************************************************************************)
EXTENDS Offline

CONSTANTS
  Cpus,
  NoCpu,        \* the owner of a submitted record
  Configs,      \* configuration files, parsed
  Files,        \* paths a configuration can name
  Inode,        \* [Files -> number, 0 when the file cannot be opened]
  Ios,          \* what a block request can be about: direction and sectors
  Calls,        \* what a direct I/O can be about: file, direction and uid
  Uids,         \* the uids a request can carry
  RingMax,      \* capacity of the ring, counted in records
  MaxRecords,   \* bound, by configuration: records begun, but those of HctxSeen
  MaxTime       \* bound, by configuration: the clock

ASSUME SessionAssumption ==
  /\ NoCpu \notin Cpus
  /\ RingMax \in Nat
  /\ \A c \in Configs : /\ MaxTime[c] \in Nat
                       /\ MaxTime[c] < WordSize \div 2   \* nanoseconds since the boot
                       /\ c.pmc_inv \in Nat /\ c.heatmap_row \in Nat
                       /\ 16 * c.heatmap_row < IntSize    \* Heatmap's int, 8 * heatmap_row
  /\ \A io \in Ios : /\ io.direction \in {"READ", "WRITE"}
                     /\ io.sector \in Nat /\ io.sector < WordSize \div 2
                     /\ io.stats \in Nat
  /\ \A call \in Calls : call.filename \in Files /\ call.type \in {"READ", "WRITE"}

VARIABLES
  config,       \* the configuration file
  env,          \* struct Env
  probes,       \* the filters in the loaded programs
  pc,           \* where main() is
  exiting,      \* set by sig_int
  now,
  begun,        \* number of records begun, but those of HctxSeen
  cpu,          \* [Cpus -> the record a probe is about to put into the ring]
  open,         \* block requests entered and not ended
  ring,         \* records, each with the CPU that has yet to submit it
  event_rows, meta_rows, other_rows,   \* the files of the logger, in order of register_log
  series,       \* dio_throughput
  hctx_trace,   \* HctxStateCollector: the state of the one hctx, or none
  ops,          \* process_dio_op_counter: [direction -> count]
  file_op,      \* file_dio_op_counter: [file -> [direction -> count]]
  recv_data,    \* the heatmap's sectors
  committed,    \* ghost: the times given to `series', and to `hctx_trace' each once
  dumped        \* what the analysis computed

main == <<config, env, probes, pc, exiting>>
traffic == <<now, begun, cpu, open, ring>>
logged == <<event_rows, meta_rows, other_rows>>
memory == <<series, hctx_trace, ops, file_op, recv_data, committed>>
vars == <<config, env, probes, pc, exiting, now, begun, cpu, open, ring, event_rows, meta_rows,
          other_rows, series, hctx_trace, ops, file_op, recv_data, committed, dumped>>

NoEnv == [e_type |-> "none", t_level |-> "none", use_filter |-> FALSE, select_pid |-> FALSE,
          select_common |-> FALSE, inode |-> <<>>, interval |-> 0, heatmap_row |-> 0]
NoProbes == [using_pid |-> FALSE, using_common |-> FALSE, using_inode |-> FALSE, file_filter |-> {}]
NoHctx == [known |-> FALSE, state |-> NewSeries]
Idle == [kind |-> "idle"]

Init ==
  /\ config \in Configs
  /\ env = NoEnv /\ probes = NoProbes
  /\ pc = "read_config" /\ exiting = FALSE
  /\ now = 0 /\ begun = 0 /\ cpu = [c \in Cpus |-> Idle] /\ open = {} /\ ring = <<>>
  /\ event_rows = <<>> /\ meta_rows = <<>> /\ other_rows = <<>>
  /\ series = NewSeries /\ hctx_trace = NoHctx
  /\ ops = [d \in {"READ", "WRITE"} |-> 0]
  /\ file_op = [f \in Files |-> [d \in {"READ", "WRITE"} |-> 0]]
  /\ recv_data = <<>> /\ committed = [series |-> <<>>, hctx |-> <<>>]
  /\ dumped = [kind |-> "none", valid |-> TRUE]

-----------------------------------------------------------------------------
(* read_config(): LOG(FATAL) on what it does not know.  The pid sets       *)
(* select_common, and the lines on the command overwrite it.               *)
EventTypes == [dio |-> "DIO", blk |-> "BLK", buffered_io |-> "FSYNC"]
Levels == [simple |-> "SIMPLE", info |-> "INFO"]
Stages == {"sum", "kernel_crossing", "file_system", "block_io"}
SelectsFiles(c) == c.files # <<>> /\ c.event_type # "blk"

Readable(c) ==
  /\ c.event_type \in DOMAIN EventTypes
  /\ c.trace_level \in DOMAIN Levels
  /\ c.filter.enable => c.filter.stage \in Stages
  /\ c.common # "longer than 16"
  /\ SelectsFiles(c) => \A f \in Elements(c.files) : Inode[f] # 0   \* get_inode

Env(c) ==
  [e_type |-> EventTypes[c.event_type], t_level |-> Levels[c.trace_level],
   use_filter |-> c.filter.enable, select_pid |-> FALSE, select_common |-> c.common # "",
   inode |-> IF SelectsFiles(c) THEN [k \in 1..Len(c.files) |-> Inode[c.files[k]]] ELSE <<>>,
   interval |-> IntervalOf(c.pmc_inv), heatmap_row |-> c.heatmap_row]

ReadConfig ==
  /\ pc = "read_config"
  /\ IF Readable(config) THEN env' = Env(config) /\ pc' = "load" ELSE pc' = "fatal" /\ env' = env
  /\ UNCHANGED <<config, probes, exiting, traffic, logged, memory, dumped>>

(* The constructor of the chosen module with bpf_load_and_verify(): only   *)
(* the simple level has a latency filter, BPF_NOEXIST refuses a file named *)
(* twice, and nothing sets using_inode_filter.                             *)
Loadable ==
  /\ env.e_type # "FSYNC"
  /\ env.use_filter => env.e_type = "DIO" /\ env.t_level = "SIMPLE"
  /\ Cardinality(Elements(env.inode)) = Len(env.inode)

Load ==
  /\ pc = "load"
  /\ IF Loadable
       THEN /\ probes' = [using_pid |-> env.select_pid, using_common |-> env.select_common,
                          using_inode |-> FALSE, file_filter |-> Elements(env.inode)]
            /\ pc' = "poll"
       ELSE pc' = "fatal" /\ UNCHANGED probes
  /\ UNCHANGED <<config, env, exiting, traffic, logged, memory, dumped>>

-----------------------------------------------------------------------------
Tracing == pc \in {"poll", "drain"}
Mode == IF env.e_type = "BLK" THEN "blk" ELSE IF env.t_level = "SIMPLE" THEN "simple" ELSE "info"

Tick ==
  /\ Tracing /\ now < MaxTime[config]
  /\ now' = now + 1
  /\ UNCHANGED <<main, begun, cpu, open, ring, logged, memory, dumped>>

(* A probe starts a record.  The programs stay attached until              *)
(* release_logger, so SIGINT does not stop them.                           *)
Begin(c, r) ==
  /\ Tracing /\ cpu[c] = Idle
  /\ cpu' = [cpu EXCEPT ![c] = r]
  /\ UNCHANGED <<main, now, logged, memory, dumped>>

BeginOne(c, r) ==
  /\ begun < MaxRecords[config] /\ begun' = begun + 1
  /\ Begin(c, r)

(* kpblk_mq_submit_bio: the record is reserved before the clock is read.   *)
BioEnterReserve(c) ==
  /\ Mode = "blk"
  /\ BeginOne(c, [kind |-> "bio_enter"])
  /\ ring' = IF Len(ring) < RingMax
               THEN Append(ring, [kind |-> "bio_enter", tp |-> 0, owner |-> c]) ELSE ring
  /\ UNCHANGED open

(* ... and submitted; the bio starts a request or joins one (external).    *)
BioEnterSubmit(c) ==
  /\ Tracing /\ cpu[c].kind = "bio_enter"
  /\ ring' = [k \in 1..Len(ring) |->
                IF ring[k].owner = c THEN [ring[k] EXCEPT !.tp = now, !.owner = NoCpu] ELSE ring[k]]
  /\ \/ \E io \in Ios : open' = open \cup {[bio_enter |-> now, io |-> io]}
     \/ open # {} /\ UNCHANGED open
  /\ cpu' = [cpu EXCEPT ![c] = Idle]
  /\ UNCHANGED <<main, now, begun, logged, memory, dumped>>

(* kpblk_account_io_done: the stages of a row add up to the request's life *)
(* without the time before its plug (BlkTraceModule.RowTelescopes); those  *)
(* that wrap or are not initialised are that module's subject, left out    *)
(* here.                                                                   *)
AccountIoDone(c, rq) ==
  /\ Mode = "blk"
  /\ \E unplugged \in {0, 1} \cap 0..(now - rq.bio_enter) :
       BeginOne(c, [kind |-> "rq_trace_event", bio_enter |-> rq.bio_enter,
                    latency |-> now - rq.bio_enter - unplugged, io |-> rq.io, owner |-> NoCpu])
  /\ open' = open \ {rq}
  /\ UNCHANGED ring

(* kpiomap_dio_complete of either level: a call on a file, past the        *)
(* filters that the loaded programs apply.                                 *)
DioComplete(c, call) ==
  /\ Mode \in {"simple", "info"}
  /\ probes.using_inode => Inode[call.filename] \in probes.file_filter
  /\ BeginOne(c, [kind |-> "dio_event", end |-> now, call |-> call, owner |-> NoCpu])
  /\ UNCHANGED <<open, ring>>

(* kpscsi_queue_rq or kpnvme_queue_rq, and kpblk_account_io_done, of the   *)
(* info level.  The records of the one hctx can go on for ever, and its    *)
(* first may have been refused before a request of it ends                 *)
(* (Ext4DioInfo.HctxAnnounced); the request belongs to the call of some    *)
(* uid.                                                                    *)
HctxSeen(c) ==
  /\ Mode = "info"
  /\ Begin(c, [kind |-> "hctx_metadata", tp |-> now, owner |-> NoCpu])
  /\ UNCHANGED <<begun, open, ring>>

RqInfo(c, uid, io) ==
  /\ Mode = "info"
  /\ BeginOne(c, [kind |-> "rq_info_event", uid |-> uid, io |-> io, owner |-> NoCpu])
  /\ UNCHANGED <<open, ring>>

(* These probes reserve and submit after their last reading of the clock.  *)
(* What reaches the ring after the poll loop is not read and not modelled. *)
Emit(c) ==
  /\ Tracing /\ cpu[c].kind \notin {"idle", "bio_enter"}
  /\ ring' = IF Len(ring) < RingMax THEN Append(ring, cpu[c]) ELSE ring
  /\ cpu' = [cpu EXCEPT ![c] = Idle]
  /\ UNCHANGED <<main, now, begun, open, logged, memory, dumped>>

-----------------------------------------------------------------------------
(* Counter::commit: the first commit of a key counts 1.                    *)
CounterCommit_FromZero(count, add) == IF count > 0 THEN count + add ELSE 0
CounterCommit(count, add) == IF count > 0 THEN count + add ELSE 1

(* HctxStateCollector::commit: the first record of a hctx only makes its   *)
(* state.                                                                  *)
HctxCollect(h, tp) ==
  IF h.known
    THEN [h EXCEPT !.state = HctxCommit(h.state, env.interval, tp, tp, tp)]
    ELSE [h EXCEPT !.known = TRUE]

(* proxy(), by the kind of record: do_event, then do_meta.                 *)
ProxyBioEnter(r) ==
  /\ other_rows' = Append(other_rows, [tp |-> r.tp])
  /\ UNCHANGED <<event_rows, meta_rows, memory>>

(* An event that was never plugged is dropped by proxy(), one without a    *)
(* dispatch path by do_event alone.                                        *)
ToHeatmap(r) == recv_data' = Append(recv_data, [sector |-> r.io.sector, stats |-> r.io.stats])

ProxyRqTrace(r) ==
  /\ \/ /\ event_rows' = Append(event_rows, [bio_enter |-> r.bio_enter, latency |-> r.latency,
                                              io_direction |-> r.io.direction])
        /\ ToHeatmap(r)
     \/ UNCHANGED event_rows /\ ToHeatmap(r)
     \/ UNCHANGED <<event_rows, recv_data>>
  /\ UNCHANGED <<meta_rows, other_rows, series, hctx_trace, ops, file_op, committed>>

ProxyDio(r) ==
  /\ \E select \in IF env.use_filter THEN BOOLEAN ELSE {TRUE} :
       /\ event_rows' = IF select THEN Append(event_rows, [uid |-> r.call.uid, end_dio_io |-> r.end])
                                  ELSE event_rows
       /\ meta_rows' = IF select THEN Append(meta_rows, [filename |-> r.call.filename]) ELSE meta_rows
  /\ series' = Commit(series, env.interval, r.end, 1)
  /\ committed' = [committed EXCEPT !.series = Append(@, r.end)]
  /\ ops' = [ops EXCEPT ![r.call.type] = CounterCommit(@, 1)]
  /\ file_op' = [file_op EXCEPT ![r.call.filename][r.call.type] = CounterCommit(@, 1)]
  /\ UNCHANGED <<other_rows, hctx_trace, recv_data>>

ProxyHctx(r) ==
  /\ hctx_trace' = HctxCollect(hctx_trace, r.tp)
  /\ committed' = IF hctx_trace.known /\ r.tp \notin Elements(committed.hctx)
                    THEN [committed EXCEPT !.hctx = Append(@, r.tp)] ELSE committed
  /\ UNCHANGED <<logged, series, ops, file_op, recv_data>>

(* The disk of a request is that of its hctx; LOG(FATAL) when no record    *)
(* named the hctx before.                                                  *)
DiskUnknown(r) == r.kind = "rq_info_event" /\ ~hctx_trace.known

ProxyRqInfo(r) ==
  /\ other_rows' = Append(other_rows, [uid |-> r.uid])
  /\ IF DiskUnknown(r) THEN UNCHANGED recv_data ELSE ToHeatmap(r)
  /\ UNCHANGED <<event_rows, meta_rows, series, hctx_trace, ops, file_op, committed>>

(* The loop and ring_buffer__poll: wait for data, then take records until  *)
(* there is none or the first is not submitted yet.  A signal or a         *)
(* time-out ends the wait without looking at the ring, so the loop may be  *)
(* left with records in it; `exiting' is looked at when poll returns.      *)
Ready == ring # <<>> /\ ring[1].owner = NoCpu

Goto(to) == pc' = to /\ UNCHANGED <<config, env, probes, exiting, traffic, logged, memory, dumped>>

Wake == pc = "poll" /\ Ready /\ Goto("drain")
Leave == pc = "poll" /\ exiting /\ Goto("release")

Take ==
  /\ pc = "drain" /\ Ready
  /\ LET r == ring[1]
     IN CASE r.kind = "bio_enter" -> ProxyBioEnter(r)
          [] r.kind = "rq_trace_event" -> ProxyRqTrace(r)
          [] r.kind = "dio_event" -> ProxyDio(r)
          [] r.kind = "hctx_metadata" -> ProxyHctx(r)
          [] r.kind = "rq_info_event" -> ProxyRqInfo(r)
  /\ pc' = IF DiskUnknown(ring[1]) THEN "fatal" ELSE pc
  /\ ring' = Tail(ring)
  /\ UNCHANGED <<config, env, probes, exiting, now, begun, cpu, open, dumped>>

WhileNotExiting == Goto(IF exiting THEN "release" ELSE "poll")
Drained_AllSubmitted == pc = "drain" /\ ring = <<>> /\ WhileNotExiting   \* waits for a busy record
Drained == pc = "drain" /\ ~Ready /\ WhileNotExiting

SigInt ==
  /\ Tracing /\ ~exiting
  /\ exiting' = TRUE
  /\ UNCHANGED <<config, env, probes, pc, traffic, logged, memory, dumped>>

(* release_logger() and the JSON of what was kept in memory.               *)
Release ==
  /\ pc = "release"
  /\ Goto(IF series.valid /\ hctx_trace.state.valid
             /\ (recv_data # <<>> => Heatmap(recv_data, 8 * env.heatmap_row).valid)
            THEN "process" ELSE "crashed")

(* log_meta names the first file, which chooses the analysis.              *)
Process ==
  /\ pc = "process"
  /\ dumped' =
       CASE Mode = "blk" -> ProcessBlkTraceLog(env.interval, event_rows, other_rows)
         [] Mode = "simple" -> ProcessDioSimple(event_rows, meta_rows)
         [] Mode = "info" -> ProcessDioInfo(event_rows, meta_rows, other_rows)
  /\ pc' = IF dumped'.valid THEN "done" ELSE "crashed"
  /\ UNCHANGED <<config, env, probes, exiting, traffic, logged, memory>>

Stopped == pc \in {"done", "crashed", "fatal"} /\ UNCHANGED vars

Trace == Wake \/ Leave \/ Take \/ Drained \/ Release
Main == ReadConfig \/ Load \/ Trace \/ Process

Probe(c) ==
  \/ BioEnterReserve(c)
  \/ BioEnterSubmit(c)
  \/ \E rq \in open : AccountIoDone(c, rq)
  \/ \E call \in Calls : DioComplete(c, call)
  \/ HctxSeen(c)
  \/ \E uid \in Uids, io \in Ios : RqInfo(c, uid, io)
  \/ Emit(c)

Next == Main \/ SigInt \/ Tick \/ (\E c \in Cpus : Probe(c)) \/ Stopped

Spec == Init /\ [][Next]_vars
FairSpec == Spec /\ WF_<<pc, ring>>(Trace)
-----------------------------------------------------------------------------
(* Every variable keeps its kind; the vectors have the size they say.      *)
TypeOK ==
  /\ pc \in {"read_config", "load", "poll", "drain", "release", "process",
             "done", "crashed", "fatal"}
  /\ exiting \in BOOLEAN /\ begun \in Nat /\ now \in Nat /\ now < WordSize \div 2
  /\ Len(ring) <= RingMax
  /\ \A c \in Cpus : Cardinality({k \in 1..Len(ring) : ring[k].owner = c}) <= 1
  /\ \A s \in {series, hctx_trace.state} : DOMAIN s.data = 0..(s.size - 1) /\ s.size >= SeriesSize

(* The end times of the rows in order, the reads and the writes among them *)
(* behind the first end, the bios, and the ends behind the first bio.      *)
Ends == BlkEnd(event_rows)
EndTimes == [k \in 1..Len(Ends) |-> Ends[k].tp]
TypedTimes(type) == TimesOf(Ends, Column(event_rows, LAMBDA r : r.io_direction), type)
BioTimes == Column(other_rows, LAMBDA r : r.tp)
MergedTimes == <<BioTimes[1]>> \o EndTimes

(* The size of a series once it holds a slot, as a power of two.           *)
Span(times) ==
  LET top == Max({TrueSlot(env.interval, times[1], times[k]) : k \in 1..Len(times)})
  IN Min({size \in {SizeAfter[j] : j \in 0..top} : size > top})

BlkSteady ==
  /\ other_rows # <<>>
  /\ \A times \in {EndTimes, TypedTimes("READ"), TypedTimes("WRITE"), BioTimes, MergedTimes} :
       Steady(env.interval, times)
  /\ Span(MergedTimes) <= Span(BioTimes)

HctxSteady ==
  /\ Steady(env.interval, committed.hctx)
  /\ \A k \in 1..Len(committed.hctx) :
       LET slot == TrueSlot(env.interval, committed.hctx[1], committed.hctx[k])
       IN slot \notin {SizeAfter[j] : j \in 0..slot}

(* The heatmap's buckets have a width, before and after it is cut to int.  *)
SectorsKept == {r.sector : r \in Elements(recv_data)}
SectorsPerBucket == (Max(SectorsKept) - Min(SectorsKept)) \div (8 * env.heatmap_row) + HeatBias
HeatmapSized == env.heatmap_row > 0 /\ SectorsPerBucket % IntSize # 0

(* Neither the series kept while tracing nor the analysis leaves a vector, *)
(* as long as the first file has a row, the times of each series are       *)
(* steady, no hctx record falls exactly behind the end of its vector, the  *)
(* completions do not outgrow the bios they are compared with, and the     *)
(* heatmap's width is not cut to 0 (time_aq.hpp 29-37, hctx_state.hpp 38,  *)
(* collector.hpp 224 and 281, heatmap.hpp 26-27, main.cpp 103 and 162).    *)
AnalysisDefined ==
  pc = "crashed" =>
    \/ event_rows = <<>>
    \/ recv_data # <<>> /\ ~HeatmapSized
    \/ IF Mode = "blk" THEN ~BlkSteady
                       ELSE ~Steady(env.interval, committed.series) \/ ~HctxSteady

(* The throughput series stays within its vector while its times are       *)
(* steady, although it only doubles once for a commit (time_aq.hpp 84).    *)
SeriesValid == Steady(env.interval, committed.series) => series.valid

(* get_IO_pmc and get_avg_seq: the slot of the series with number i counts *)
(* the rows that ended in the i-th interval after the first end, and       *)
(* averages their latencies, if the interval and its numbers fit an int.   *)
Reported == pc = "done" /\ dumped.kind = "blk"

EndOf(k) == event_rows[k].bio_enter + event_rows[k].latency
IntervalIndex(k) ==
  (EndOf(k) - Min({EndOf(j) : j \in 1..Len(event_rows)})) \div (config.pmc_inv * NsPerMs)
RowsIn(i) == {k \in 1..Len(event_rows) : IntervalIndex(k) = i}
Sampled ==
  /\ 2 * config.pmc_inv * NsPerMs < IntSize
  /\ \A k \in 1..Len(event_rows) : IntervalIndex(k) < IntSize

SeriesCountIos ==
  Reported /\ Sampled =>
    /\ Total(dumped.sum_io_pmc) = Len(event_rows)
    /\ \A i \in DOMAIN dumped.sum_io_pmc :
         /\ dumped.sum_io_pmc[i] = Cardinality(RowsIn(i))
         /\ RowsIn(i) # {} =>
              dumped.avg[i] = Total([k \in RowsIn(i) |-> event_rows[k].latency])
                                \div Cardinality(RowsIn(i))

(* get_dis: every row is in one bucket, the fastest in the first.          *)
DistributionComplete ==
  Reported => Total(dumped.dis) = Len(event_rows) /\ dumped.dis[0] > 0

(* get_rw_rate: the two rates of an interval are the shares of its reads   *)
(* and of its writes, with one more of each in the first interval, once    *)
(* there are two of each, and 0 before.  Which of them is published as     *)
(* r_rate is left open: the code puts the share of the writes there        *)
(* (collector.hpp 253), under names that say otherwise.                    *)
RatesAreShares ==
  Reported /\ Sampled =>
    \A i \in DOMAIN dumped.rw_rate.r_rate :
      LET of(type) == Cardinality({k \in RowsIn(i) : event_rows[k].io_direction = type})
                        + (IF i = 0 THEN 1 ELSE 0)
          all == of("READ") + of("WRITE")
          shown == of("READ") > 1 /\ of("WRITE") > 1
      IN {dumped.rw_rate.r_rate[i], dumped.rw_rate.w_rate[i]}
           = IF shown THEN {<<of("READ"), all>>, <<of("WRITE"), all>>} ELSE {<<0, 1>>}

(* process_dio_info_event: the requests under a direct I/O are those that  *)
(* carry its uid, each once, in the order of their rows, whether or not    *)
(* several calls have the uid.                                             *)
JoinIsRelational ==
  pc = "done" /\ dumped.kind = "info" =>
    /\ \A a \in 1..Len(event_rows) :
         LET of == {b \in 1..Len(other_rows) : other_rows[b].uid = event_rows[a].uid}
         IN IF of = {} THEN a \notin DOMAIN dumped.dio_rq_map
            ELSE /\ Elements(dumped.dio_rq_map[a]) = of
                 /\ Len(dumped.dio_rq_map[a]) = Cardinality(of)
    /\ \A a \in DOMAIN dumped.dio_rq_map : \A j \in 2..Len(dumped.dio_rq_map[a]) :
         dumped.dio_rq_map[a][j - 1] < dumped.dio_rq_map[a][j]

(* do_meta counts every direct I/O, also those the latency filter drops:   *)
(* the counter by process and the series agree, and are no fewer than the  *)
(* rows; a file has no more operations of a kind than its processes.       *)
OpsCountEveryIo ==
  /\ ops["READ"] + ops["WRITE"] = Len(committed.series)
  /\ \A f \in Files, d \in {"READ", "WRITE"} : file_op[f][d] <= ops[d]
  /\ Mode # "blk" => Len(event_rows) <= ops["READ"] + ops["WRITE"]

(* gen_heatmap: as long as the width of a bucket is not cut to 0, every    *)
(* sector committed is in a bucket, none of their counts is lost if they   *)
(* fit an int, and if the width fits one there are no more buckets than    *)
(* eight a row.                                                            *)
HeatmapComplete ==
  pc = "release" /\ recv_data # <<>> /\ HeatmapSized =>
    LET map == Heatmap(recv_data, 8 * env.heatmap_row)
        stats == Total(Column(recv_data, LAMBDA r : r.stats))
    IN /\ map.valid
       /\ 2 * stats < IntSize => Total(map.bucket) = stats
       /\ 2 * SectorsPerBucket < IntSize => Cardinality(DOMAIN map.bucket) <= 8 * env.heatmap_row

(* After SIGINT the tool leaves the poll loop and releases the logger, even *)
(* if a record is reserved and never submitted; what follows has no loop.  *)
(* The programs stay attached and a poll takes records as long as there    *)
(* are any (main.cpp 299-301), so this is promised of a run in which they  *)
(* cease to come, not of one in which they come faster than they are taken.*)
RecordsCease == <>[][Len(ring') <= Len(ring)]_ring
FinishesAfterSigint ==
  RecordsCease => (exiting ~> pc \in {"process", "done", "crashed", "fatal"})

(* mysql.md 404-417: with files selected, only direct I/Os on these files  *)
(* are traced.                                                             *)
SelectedOnly ==
  SelectsFiles(config) => \A r \in Elements(meta_rows) : r.filename \in Elements(config.files)
=============================================================================

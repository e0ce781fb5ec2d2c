----------------------------- MODULE Ext4DioInfo -----------------------------
(***************************************************************************)
(* Direct I/O on ext4 at the info level: the probes of                     *)
(* ext4_dio_info.bpf.c and the consumer of ext4_dio_info.hpp.  A call and  *)
(* the block requests it causes are reported in records of their own,      *)
(* which the offline part joins by dio_uid.  The join rests on dio_filter, *)
(* keyed by the address of the iomap_dio, and on rq_cache, keyed by the    *)
(* address of the request; the kernel reuses both addresses.               *)
(***************************************************************************)
EXTENDS Integers, Sequences, FiniteSets

CONSTANTS
  Iocbs,            \* addresses of struct kiocb
  Dios,             \* addresses of struct iomap_dio
  Requests,         \* addresses of struct request
  Hctx,             \* [Requests -> the hardware queue of the request]
  Drive,            \* [Requests -> "nvme_drive" or "scsi_drive"]
  NoDio,            \* a bi_private that is no such address
  EventCacheMax, DioFilterMax, RqCacheMax,   \* max_entries (8192, 256, 512)
  RingMax,          \* capacity of ext4_dio_log, counted in records
  UsingFilter,      \* the command filter is on
  ScsiErrors,       \* the SCSI error handler may finish a command
  MaxTime           \* bound: readings of the clock in one behaviour

ASSUME Ext4DioInfoAssumption ==
  /\ Hctx = [r \in Requests |-> Hctx[r]]
  /\ Drive \in [Requests -> {"nvme_drive", "scsi_drive"}]
  /\ NoDio \notin Dios
  /\ {EventCacheMax, DioFilterMax, RqCacheMax, RingMax, MaxTime} \subseteq Nat
  /\ {UsingFilter, ScsiErrors} \subseteq BOOLEAN

VARIABLES
  call,             \* [Iocbs -> where the kernel has the direct I/O]
  rq,               \* [Requests -> where the kernel has the request]
  now,              \* bpf_ktime_get_ns, at the readings that name something
  event_cache,      \* [Iocbs -> start_ext4 of the event, 0 without the key]
  dio_filter,       \* [Dios -> dio_uid, 0 without the key]
  rq_cache,         \* [Requests -> entry, NoEntry without the key]
  ext4_dio_log,     \* the ring buffer, oldest record first
  hctx_mapping,     \* the hardware queues the consumer knows the disk of
  dio_rows,         \* the rows of dio_info_event
  rq_rows,          \* the rows of rq_info_event
  fatal,            \* the LOG(FATAL) that ended the process, or "no"
  unheard,          \* ghost: queues whose record the ring refused
  refused           \* ghost: dios whose record the ring refused

kernel == <<call, rq>>
maps == <<event_cache, dio_filter, rq_cache>>
consumer == <<hctx_mapping, dio_rows, rq_rows, fatal>>
vars == <<call, rq, now, event_cache, dio_filter, rq_cache, ext4_dio_log,
          hctx_mapping, dio_rows, rq_rows, fatal, unheard, refused>>

Hctxs == {Hctx[r] : r \in Requests}
Stages == {"queue_rq", "rq_start", "done", "verified"}

(* struct rq_info_event; stamps are the times taken since the request was  *)
(* last handed to the driver, drive is where the union was written.        *)
NoEntry == [uid |-> 0, stamps |-> {}, drive |-> "none"]
NoCall == [at |-> "idle", mine |-> TRUE, dio |-> NoDio, ext |-> 0, began |-> 0]
NoRq == [at |-> "free", of |-> 0, ext |-> 0, seen |-> TRUE, eh |-> FALSE]

Keys(map, none) == {k \in DOMAIN map : map[k] # none}
Known(i) == event_cache[i] # 0
Tracked(r) == rq_cache[r] # NoEntry
RingRoom == Len(ext4_dio_log) < RingMax
Tick == now < MaxTime /\ now' = now + 1

(* Whether a probe passes the filter: in the process of the call if it is  *)
(* the traced one, and in workers and interrupted processes by chance.     *)
Contexts(mine) == IF ~UsingFilter THEN {TRUE} ELSE IF mine THEN BOOLEAN ELSE {FALSE}

Emit(rec) == ext4_dio_log' = IF RingRoom THEN Append(ext4_dio_log, rec) ELSE ext4_dio_log

Init ==
  /\ call = [i \in Iocbs |-> NoCall]
  /\ rq = [r \in Requests |-> NoRq]
  /\ now = 0
  /\ event_cache = [i \in Iocbs |-> 0]
  /\ dio_filter = [d \in Dios |-> 0]
  /\ rq_cache = [r \in Requests |-> NoEntry]
  /\ ext4_dio_log = <<>>
  /\ hctx_mapping = {} /\ dio_rows = {} /\ rq_rows = {} /\ fatal = "no"
  /\ unheard = {} /\ refused = {}

-----------------------------------------------------------------------------
(* kprobe/ext4_dio_write_iter, kprobe/ext4_dio_read_iter.                  *)
DioIter(i, mine) ==
  /\ call[i].at = "idle"
  /\ Tick
  /\ call' = [call EXCEPT ![i] = [NoCall EXCEPT !.at = "ext4", !.mine = mine, !.began = now + 1]]
  /\ event_cache' =
       IF mine /\ ~Known(i) /\ Cardinality(Keys(event_cache, 0)) < EventCacheMax   \* BPF_NOEXIST
         THEN [event_cache EXCEPT ![i] = now + 1]
         ELSE event_cache
  /\ UNCHANGED <<rq, dio_filter, rq_cache, ext4_dio_log, consumer, unheard, refused>>

(* ext4 returns before it has an iomap_dio (external; no probe).           *)
GiveUp(i) ==
  /\ call[i].at = "ext4"
  /\ call' = [call EXCEPT ![i] = NoCall]
  /\ UNCHANGED <<rq, now, maps, ext4_dio_log, consumer, unheard, refused>>

InUse == {call[i].dio : i \in Iocbs} \ {NoDio}

(* iomap_dio_rw allocates the iomap_dio (external).                        *)
AllocDio(i, d) ==
  /\ call[i].at = "ext4" /\ d \notin InUse
  /\ call' = [call EXCEPT ![i].at = "dio", ![i].dio = d]
  /\ UNCHANGED <<rq, now, maps, ext4_dio_log, consumer, unheard, refused>>

(* kprobe/iomap_dio_bio_actor, once for each extent: the time is stamped   *)
(* and becomes the uid of the call, in place of the one before.            *)
NewUid(d, uid) ==
  IF dio_filter[d] # 0 \/ Cardinality(Keys(dio_filter, 0)) < DioFilterMax
    THEN [dio_filter EXCEPT ![d] = uid] ELSE dio_filter

BioActor(i) ==
  /\ call[i].at = "dio"
  /\ call' = [call EXCEPT ![i].ext = @ + 1]
  /\ IF call[i].mine /\ Known(i)
       THEN Tick /\ dio_filter' = NewUid(call[i].dio, now + 1)
       ELSE call[i].ext = 0 /\ UNCHANGED <<now, dio_filter>>     \* bound: one unseen extent
  /\ UNCHANGED <<rq, event_cache, rq_cache, ext4_dio_log, consumer, unheard, refused>>

(* The bios of the call have ended, those merged elsewhere included.       *)
BiosEnded(i) ==
  \A r \in Requests : rq[r].of = call[i].began => rq[r].at \in {"free", "ended"}

(* kprobe/kfree, on the iomap_dio of a call that is complete or failed.    *)
(* Without its key in dio_filter the record's uid is what an earlier       *)
(* record left in the memory of the ring.                                  *)
Leftovers == {0} \cup {row.uid : row \in dio_rows}

ForgetDio_Not(d) == dio_filter
ForgetDio(d) == IF RingRoom THEN [dio_filter EXCEPT ![d] = 0] ELSE dio_filter

Kfree(i, seen, leftover) ==
  /\ call[i].at = "dio" /\ BiosEnded(i)
  /\ call' = [call EXCEPT ![i] = NoCall]
  /\ LET d == call[i].dio
         known == dio_filter[d] # 0
     IN IF seen /\ Known(i)
          THEN /\ Emit([kind |-> "dio", uid |-> IF known THEN dio_filter[d] ELSE leftover,
                        own |-> known /\ call[i].ext > 0, call |-> call[i].began, ext |-> call[i].ext])
               /\ dio_filter' = ForgetDio(d)
               /\ event_cache' = [event_cache EXCEPT ![i] = 0]
               /\ refused' = IF RingRoom THEN refused \ {d} ELSE refused \cup {d}
          ELSE UNCHANGED <<ext4_dio_log, dio_filter, event_cache, refused>>
  /\ UNCHANGED <<rq, now, rq_cache, consumer, unheard>>

-----------------------------------------------------------------------------
(* kprobe/__rq_qos_track: r starts a life with a bio whose bi_private is d. *)
TrackProbe_KeepsStale(r, d, seen) ==
  IF seen /\ d \in Dios /\ dio_filter[d] # 0 /\ ~Tracked(r)
          /\ Cardinality(Keys(rq_cache, NoEntry)) < RqCacheMax
    THEN [rq_cache EXCEPT ![r] = [NoEntry EXCEPT !.uid = dio_filter[d]]]
    ELSE rq_cache
TrackProbe(r, d, seen) ==
  LET cleaned == [rq_cache EXCEPT ![r] = NoEntry]
  IN CASE ~seen -> rq_cache
       [] seen /\ d \in Dios /\ dio_filter[d] # 0
               /\ Cardinality(Keys(cleaned, NoEntry)) < RqCacheMax ->
            [cleaned EXCEPT ![r] = [NoEntry EXCEPT !.uid = dio_filter[d]]]
       [] OTHER -> cleaned

Goto(r, from, to) == rq[r].at \in from /\ rq' = [rq EXCEPT ![r].at = to]

Track(r, i) ==
  /\ rq[r].at = "free" /\ call[i].at = "dio" /\ call[i].ext > 0
  /\ rq' = [rq EXCEPT ![r] = [NoRq EXCEPT !.at = "tracked", !.of = call[i].began,
                                          !.ext = call[i].ext]]
  /\ rq_cache' = TrackProbe(r, call[i].dio, call[i].mine)
  /\ UNCHANGED <<call, now, event_cache, dio_filter, ext4_dio_log, consumer, unheard, refused>>

(* A bio of other I/O; its bi_private may be an address a dio once had. A  *)
(* request without an entry passes every later probe unseen: its life is   *)
(* over here.                                                              *)
TrackForeign(r, d, seen) ==
  /\ rq[r].at = "free" /\ d \notin InUse
  /\ rq_cache' = TrackProbe(r, d, seen)
  /\ rq' = IF rq_cache'[r] = NoEntry THEN rq ELSE [rq EXCEPT ![r].at = "tracked"]
  /\ UNCHANGED <<call, now, event_cache, dio_filter, ext4_dio_log, consumer, unheard, refused>>

(* The scheduler merges the request into another one (external).           *)
SchedMerge(r) ==
  /\ rq[r].at = "tracked"
  /\ rq' = [rq EXCEPT ![r] = NoRq]
  /\ UNCHANGED <<call, now, maps, ext4_dio_log, consumer, unheard, refused>>

Stamp_Unchecked(r, stage) == [rq_cache EXCEPT ![r].stamps = @ \cup {stage}]
Stamp(r, stage) == IF Tracked(r) THEN [rq_cache EXCEPT ![r].stamps = @ \cup {stage}] ELSE rq_cache

(* kprobe/nvme_queue_rq, kprobe/scsi_queue_rq, in the submitter's context  *)
(* or in a worker's: the time and a record of the hardware queue.          *)
QueueRq(r, seen) ==
  /\ rq[r].at = "tracked"
  /\ rq' = [rq EXCEPT ![r].at = "queued", ![r].seen = seen]
  /\ IF seen /\ Tracked(r)
       THEN /\ rq_cache' = [rq_cache EXCEPT ![r].stamps = {"queue_rq"}]
            /\ Emit([kind |-> "hctx", hctx |-> Hctx[r]])
            /\ unheard' = IF RingRoom THEN unheard ELSE unheard \cup {Hctx[r]}
       ELSE UNCHANGED <<rq_cache, ext4_dio_log, unheard>>
  /\ UNCHANGED <<call, now, event_cache, dio_filter, consumer, refused>>

(* queue_rq answers that the driver is busy (external).                    *)
DriverBusy(r) ==
  /\ Goto(r, {"queued"}, "tracked")
  /\ UNCHANGED <<call, now, maps, ext4_dio_log, consumer, unheard, refused>>

(* kprobe/blk_mq_start_request, called by queue_rq.                        *)
StartRequest(r) ==
  /\ Goto(r, {"queued"}, "started")
  /\ rq_cache' = IF rq[r].seen THEN Stamp(r, "rq_start") ELSE rq_cache
  /\ UNCHANGED <<call, now, event_cache, dio_filter, ext4_dio_log, consumer, unheard, refused>>

(* kprobe/scsi_softirq_done, kprobe/nvme_pci_complete_rq: no filter.       *)
Done(r) ==
  /\ Goto(r, {"started"}, "done")
  /\ rq_cache' = IF Tracked(r)
                   THEN [rq_cache EXCEPT ![r].stamps = @ \cup {"done"}, ![r].drive = Drive[r]]
                   ELSE rq_cache
  /\ UNCHANGED <<call, now, event_cache, dio_filter, ext4_dio_log, consumer, unheard, refused>>

(* The command times out and the error handler finishes it without         *)
(* scsi_softirq_done (external).                                           *)
EhFinish(r) ==
  /\ ScsiErrors /\ Drive[r] = "scsi_drive" /\ rq[r].at = "started"
  /\ rq' = [rq EXCEPT ![r].at = "done", ![r].eh = TRUE]
  /\ UNCHANGED <<call, now, maps, ext4_dio_log, consumer, unheard, refused>>

(* kprobe/scsi_end_request, kprobe/nvme_complete_rq.                       *)
SecondStamp_NvmeOnly(r) == IF Drive[r] = "nvme_drive" THEN Stamp(r, "verified") ELSE rq_cache
SecondStamp(r) == Stamp(r, "verified")

Verify(r) ==
  /\ Goto(r, {"done"}, "verified")
  /\ rq_cache' = SecondStamp(r)
  /\ UNCHANGED <<call, now, event_cache, dio_filter, ext4_dio_log, consumer, unheard, refused>>

(* The driver's completion decides to try again: scsi_softirq_done before, *)
(* nvme_complete_rq after its second stamp (external).                     *)
Retry(r) ==
  /\ rq[r].at = IF Drive[r] = "scsi_drive" THEN "done" ELSE "verified"
  /\ rq' = [rq EXCEPT ![r].at = "tracked", ![r].eh = FALSE]
  /\ UNCHANGED <<call, now, maps, ext4_dio_log, consumer, unheard, refused>>

(* blk_update_request ends the bios, before the accounting (external).     *)
EndBios(r) ==
  /\ Goto(r, {"verified"}, "ended")
  /\ UNCHANGED <<call, now, maps, ext4_dio_log, consumer, unheard, refused>>

(* kprobe/blk_account_io_done.                                             *)
AccountIoDone(r) ==
  /\ rq[r].at = "ended"
  /\ rq' = [rq EXCEPT ![r] = NoRq]
  /\ IF Tracked(r)
       THEN /\ Emit([kind |-> "rq", entry |-> rq_cache[r], hctx |-> Hctx[r], rq |-> rq[r]])
            /\ rq_cache' = IF RingRoom THEN [rq_cache EXCEPT ![r] = NoEntry] ELSE rq_cache
       ELSE UNCHANGED <<ext4_dio_log, rq_cache>>
  /\ UNCHANGED <<call, now, event_cache, dio_filter, consumer, unheard, refused>>

-----------------------------------------------------------------------------
(* proxy(): the size of a record says what it is.  Of do_meta only the     *)
(* disks of the hardware queues are kept: nothing reads the statistics.    *)
RqRow(rec) ==
  [uid |-> rec.entry.uid, stamps |-> rec.entry.stamps, of |-> rec.rq.of,
   ext |-> rec.rq.ext, eh |-> rec.rq.eh]

ConsumeDio(rec) ==
  /\ dio_rows' = dio_rows \cup {[uid |-> rec.uid, own |-> rec.own, call |-> rec.call, ext |-> rec.ext]}
  /\ UNCHANGED <<hctx_mapping, rq_rows, fatal>>

ConsumeHctx_Inverted(rec) ==   \* if(ret.has_value())
  hctx_mapping' = hctx_mapping
ConsumeHctx(rec) == hctx_mapping' = hctx_mapping \cup {rec.hctx}

(* do_event commits the row and only then do_meta looks for the disk.      *)
ConsumeRq(rec) ==
  /\ IF rec.entry.drive = "none"
       THEN fatal' = "unknown drive" /\ UNCHANGED rq_rows
       ELSE /\ rq_rows' = rq_rows \cup {RqRow(rec)}
            /\ fatal' = IF rec.hctx \in hctx_mapping THEN fatal ELSE "unknown disk"
  /\ UNCHANGED <<hctx_mapping, dio_rows>>

Proxy ==
  /\ ext4_dio_log # <<>>
  /\ LET rec == Head(ext4_dio_log)
     IN \/ rec.kind = "dio" /\ ConsumeDio(rec)
        \/ rec.kind = "hctx" /\ ConsumeHctx(rec) /\ UNCHANGED <<dio_rows, rq_rows, fatal>>
        \/ rec.kind = "rq" /\ ConsumeRq(rec)
  /\ ext4_dio_log' = Tail(ext4_dio_log)
  /\ UNCHANGED <<kernel, now, maps, unheard, refused>>

CallStep(i) ==
  \/ \E mine \in IF UsingFilter THEN BOOLEAN ELSE {TRUE} : DioIter(i, mine)
  \/ GiveUp(i)
  \/ \E d \in Dios : AllocDio(i, d)
  \/ BioActor(i)
  \/ \E seen \in Contexts(call[i].mine), leftover \in Leftovers : Kfree(i, seen, leftover)

RequestStep(r) ==
  \/ \E i \in Iocbs : Track(r, i)
  \/ \E d \in Dios \cup {NoDio}, seen \in Contexts(TRUE) : TrackForeign(r, d, seen)
  \/ SchedMerge(r)
  \/ \E seen \in Contexts(TRUE) : QueueRq(r, seen)
  \/ DriverBusy(r)
  \/ StartRequest(r)
  \/ Done(r)
  \/ EhFinish(r)
  \/ Verify(r)
  \/ Retry(r)
  \/ EndBios(r)
  \/ AccountIoDone(r)

(* A LOG(FATAL) ends the process, and with it the probes.                  *)
Aborted == fatal # "no" /\ UNCHANGED vars

(* The bound on the clock is reached.                                      *)
Horizon == now = MaxTime /\ UNCHANGED vars

Next ==
  \/ /\ fatal = "no"
     /\ (\E i \in Iocbs : CallStep(i)) \/ (\E r \in Requests : RequestStep(r)) \/ Proxy
  \/ Aborted
  \/ Horizon

Spec == Init /\ [][Next]_vars

-----------------------------------------------------------------------------
Times == 0..MaxTime
CallStates ==
  [at : {"idle", "ext4", "dio"}, mine : BOOLEAN, dio : Dios \cup {NoDio}, ext : Times, began : Times]
RqStates ==
  [at : {"free", "tracked", "queued", "started", "done", "verified", "ended"},
   of : Times, ext : Times, seen : BOOLEAN, eh : BOOLEAN]
Entries == [uid : Times, stamps : SUBSET Stages, drive : {"none", "nvme_drive", "scsi_drive"}]
DioRows == [uid : Times, own : BOOLEAN, call : Times, ext : Times]
RqRows == [uid : Times, stamps : SUBSET Stages, of : Times, ext : Times, eh : BOOLEAN]
DioRecords == [kind : {"dio"}, uid : Times, own : BOOLEAN, call : Times, ext : Times]
HctxRecords == [kind : {"hctx"}, hctx : Hctxs]
RqRecords == [kind : {"rq"}, entry : Entries, hctx : Hctxs, rq : RqStates]

(* Every variable stays in its range, the maps within their max_entries    *)
(* and the ring within its capacity.                                       *)
TypeOK ==
  /\ call \in [Iocbs -> CallStates]
  /\ rq \in [Requests -> RqStates]
  /\ now \in Times
  /\ event_cache \in [Iocbs -> Times] /\ Cardinality(Keys(event_cache, 0)) <= EventCacheMax
  /\ dio_filter \in [Dios -> Times] /\ Cardinality(Keys(dio_filter, 0)) <= DioFilterMax
  /\ rq_cache \in [Requests -> Entries] /\ Cardinality(Keys(rq_cache, NoEntry)) <= RqCacheMax
  /\ ext4_dio_log \in Seq(DioRecords \cup HctxRecords \cup RqRecords) /\ Len(ext4_dio_log) <= RingMax
  /\ hctx_mapping \subseteq Hctxs
  /\ dio_rows \subseteq DioRows /\ rq_rows \subseteq RqRows
  /\ fatal \in {"no", "unknown drive", "unknown disk"}
  /\ unheard \subseteq Hctxs /\ refused \subseteq Dios

(* ext4_dio_info.h, "use to join": without a filter, a request that        *)
(* hashjoin_vector joins to a call carried a bio of that very call, though *)
(* keys of dio_filter leak and addresses are reused.  A call that mapped   *)
(* no extent has no uid of its own: it is reported with a leaked key or    *)
(* with leftovers of the ring, and may be joined to anything.              *)
JoinSound ==
  \A a \in dio_rows, b \in rq_rows : a.own /\ a.uid = b.uid => b.of = a.call

(* And those it misses were issued before the last extent: a reported      *)
(* request of the last (or only) extent of a reported call does join.      *)
JoinComplete ==
  \A a \in dio_rows, b \in rq_rows : a.own /\ b.of = a.call /\ b.ext = a.ext => a.uid = b.uid

(* A row of a request whose last attempt the driver completed has all four *)
(* stamps of that attempt, so that none of its latencies wraps.            *)
RowsComplete == \A b \in rq_rows : ~b.eh => b.stamps = Stages

(* A key that outlives its dio is there because the ring refused the       *)
(* record (kpfree, if(log)): else the map would fill with dead keys.       *)
KeysLeakOnRefusal == \A d \in Dios : dio_filter[d] # 0 => d \in InUse \cup refused

(* HeatmapCollector::commit, LOG(FATAL) "rec unknow disk", and do_event,   *)
(* LOG(FATAL) "Recv unknown type drive data": without a filter, before the *)
(* record of a request comes one of its hardware queue, unless a full ring *)
(* refused that, and its drive is known unless the error handler ended it. *)
DisksAnnounced ==
  \A k \in 1..Len(ext4_dio_log) :
    LET rec == ext4_dio_log[k]
        before == {ext4_dio_log[j] : j \in 1..(k - 1)}
    IN rec.kind = "rq" =>
         /\ \/ rec.hctx \in hctx_mapping \cup unheard
            \/ [kind |-> "hctx", hctx |-> rec.hctx] \in before
         /\ rec.entry.drive = "none" => rec.rq.eh

(* mysql.md recommends the command filter for this level; no record makes  *)
(* the consumer end in HeatmapCollector::commit, LOG(FATAL) "rec unknow    *)
(* disk", while the ring has room.                                         *)
NeverFatal == fatal # "unknown disk"
=============================================================================

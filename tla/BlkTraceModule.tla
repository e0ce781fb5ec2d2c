--------------------------- MODULE BlkTraceModule ---------------------------
(***************************************************************************)
(* The consumer side of block_trace.hpp, composed with the probes: proxy() *)
(* takes the records of the ring in order and do_event() turns an event    *)
(* into a row of stage latencies, in 64-bit unsigned arithmetic, which it  *)
(* commits to the logger (AppendLog: here the sequence of committed rows). *)
(***************************************************************************)
EXTENDS BlockTrace

CONSTANTS WordSize,   \* 2^64: the latencies are unsigned long long
          Garbage     \* a field of event_data[] that was never assigned

ASSUME BlkTraceModuleAssumption ==
  /\ WordSize \in Nat /\ WordSize > 2 * MaxTime
  /\ Garbage \in Int /\ Garbage \notin 0..(WordSize - 1)

VARIABLES
  rows,       \* blk_trace_record: rows committed, each with its event (ghost)
  bio_rows,   \* number of rows of bio_enter_record
  heat,       \* number of events given to HeatmapCollector::commit
  noplug,     \* ghost: events proxy() ignored
  ended,      \* ghost: requests that ended with an entry in rq_cache
  lost        \* ghost: of these, the ones the full ring refused

consumer == <<rows, bio_rows, heat, noplug, ended, lost>>
allvars == <<vars, rows, bio_rows, heat, noplug, ended, lost>>

(* Unsigned subtraction and addition.                                      *)
Sub(a, b) == IF b <= a THEN a - b ELSE WordSize + a - b
Add(a, b) == (a + b) % WordSize

(* do_event(): scheduling stage; direct issue has none, and a request      *)
(* whose s_type was never set gets whatever the heap held.                 *)
PlugStage(e) ==
  IF e.s_type = "UNKNOWN_SCHEDU" THEN Garbage ELSE Sub(e.sched, e.plug)
SchedStage_FromPlug(e) ==    \* counts the plug stage twice
  CASE e.s_type = "NO_SCHEDU" -> 0
    [] e.s_type = "UNKNOWN_SCHEDU" -> Garbage
    [] OTHER -> Sub(e.dispatch, e.plug)
SchedStage(e) ==
  CASE e.s_type = "NO_SCHEDU" -> 0
    [] e.s_type = "UNKNOWN_SCHEDU" -> Garbage
    [] OTHER -> Sub(e.dispatch, e.sched)

DispatchStage(e) ==
  Sub(e.queue_rq, IF e.d_type = "DIRECT_DISPATCH" THEN e.sched ELSE e.dispatch)

(* The nvme_ columns or the scsi_ columns, the others being 0.             *)
ExecStage(e) == IF e.drive = "ERROR" THEN Garbage ELSE Sub(e.done, e.queue_rq)
VerifyStage(e) == IF e.drive = "ERROR" THEN Garbage ELSE Sub(e.account_io, e.done)

Row(e) ==
  [bio_enter |-> e.bio_enter, alloc_request |-> Sub(e.rq_start, e.bio_enter),
   plug |-> PlugStage(e), scheduling |-> SchedStage(e), dispatch |-> DispatchStage(e),
   exec |-> ExecStage(e), verify |-> VerifyStage(e)]

(* process_blk_event in main.cpp: latency[8], the sum of the stages.       *)
Sum(row) ==
  Add(row.alloc_request, Add(row.plug, Add(row.scheduling,
      Add(row.dispatch, Add(row.exec, row.verify)))))

-----------------------------------------------------------------------------
InitConsumer ==
  /\ rows = <<>>
  /\ bio_rows = 0 /\ heat = 0 /\ noplug = 0 /\ ended = 0 /\ lost = 0

Next_(type) == blk_log # <<>> /\ Head(blk_log).type = type /\ Take

(* proxy() -> do_event of a bio_enter record.                              *)
ConsumeBioEnter ==
  /\ Next_("bio_enter")
  /\ bio_rows' = bio_rows + 1
  /\ UNCHANGED <<rows, heat, noplug, ended, lost>>

(* proxy(): an event without a plug stamp is ignored altogether.           *)
IgnoreUnplugged ==
  /\ Next_("rq_trace_event")
  /\ Head(blk_log).entry.plug = 0
  /\ noplug' = noplug + 1
  /\ UNCHANGED <<rows, bio_rows, heat, ended, lost>>

(* do_event() gives up on an unknown dispatch path, do_meta() still counts *)
(* the event in the heatmap.                                               *)
DropUndispatched ==
  /\ Next_("rq_trace_event")
  /\ Head(blk_log).entry.plug # 0
  /\ Head(blk_log).entry.d_type = "UNKNOWN_DISPATCH"
  /\ heat' = heat + 1
  /\ UNCHANGED <<rows, bio_rows, noplug, ended, lost>>

CommitRow_NoMeta ==     \* do_meta forgotten
  /\ Next_("rq_trace_event")
  /\ Head(blk_log).entry.plug # 0
  /\ Head(blk_log).entry.d_type # "UNKNOWN_DISPATCH"
  /\ rows' = Append(rows, [cols |-> Row(Head(blk_log).entry), entry |-> Head(blk_log).entry])
  /\ UNCHANGED <<bio_rows, heat, noplug, ended, lost>>

CommitRow_NotTaken ==   \* the record stays in the ring
  /\ blk_log # <<>> /\ Head(blk_log).type = "rq_trace_event"
  /\ Head(blk_log).entry.plug # 0
  /\ Head(blk_log).entry.d_type # "UNKNOWN_DISPATCH"
  /\ rows' = Append(rows, [cols |-> Row(Head(blk_log).entry), entry |-> Head(blk_log).entry])
  /\ heat' = heat + 1
  /\ UNCHANGED <<vars, bio_rows, noplug, ended, lost>>

CommitRow ==
  /\ Next_("rq_trace_event")
  /\ Head(blk_log).entry.plug # 0
  /\ Head(blk_log).entry.d_type # "UNKNOWN_DISPATCH"
  /\ rows' = Append(rows, [cols |-> Row(Head(blk_log).entry), entry |-> Head(blk_log).entry])
  /\ heat' = heat + 1
  /\ UNCHANGED <<bio_rows, noplug, ended, lost>>

Account(r) ==
  /\ AccountIoDone(r)
  /\ ended' = ended + (IF Has(r) THEN 1 ELSE 0)
  /\ lost' = lost + (IF Has(r) /\ ~RingRoom THEN 1 ELSE 0)
  /\ UNCHANGED <<rows, bio_rows, heat, noplug>>

InitAll == Init /\ InitConsumer

NextAll ==
  \/ InFlightStep /\ UNCHANGED consumer
  \/ \E r \in Requests : Account(r)
  \/ ConsumeBioEnter
  \/ IgnoreUnplugged
  \/ DropUndispatched
  \/ CommitRow
  \/ Horizon /\ UNCHANGED consumer

SpecAll == InitAll /\ [][NextAll]_allvars

-----------------------------------------------------------------------------
(* The rows of blk mode implement IoReports: a life of a request is named  *)
(* by the rq_start of its entry, event or row.                             *)
StartOf(x) == IF x.type = "rq_trace_event" THEN x.entry.rq_start ELSE 0
OpenStarts == [r \in Requests |-> rq_cache[r].rq_start]
RingStarts == [k \in 1..Len(blk_log) |-> StartOf(blk_log[k])]
RowStarts == [i \in 1..Len(rows) |-> rows[i].entry.rq_start]

Reports == INSTANCE IoReports WITH
  clock <- now, open <- OpenStarts, queue <- RingStarts, rows <- RowStarts

(* Every step of the probes and of the consumer is one that IoReports      *)
(* allows: no entry is reported twice, takes up the start of another or    *)
(* overtakes it in the ring (__rq_qos_track, blk_account_io_done, proxy()).*)
IoReportsSpec == Reports!IoSpec

(* A request that ended has at most one row, and what has a row is gone    *)
(* from the ring and from rq_cache, however often its address was reused   *)
(* (blk_account_io_done, proxy(), do_event()).                             *)
OneRowPerLife == Reports!OneRowPerLife

(* Nothing is lost or counted twice between the last probe and the files:  *)
(* every request that ended with an entry is in the ring, in the heatmap,  *)
(* was ignored for want of a plug stamp or refused by the full ring; a row *)
(* is one of those in the heatmap (blk_account_io_done, proxy(),           *)
(* do_event(), do_meta()).                                                 *)
EveryIoAccounted ==
  ended = Cardinality(Emitted) + heat + noplug + lost /\ Len(rows) <= heat

(* The latencies of a row are what blk_trace.md says of them: for a        *)
(* request that went through a scheduler or straight to the driver they    *)
(* are differences of consecutive stamps, none wraps, and together with    *)
(* the time between rq_start and plug, which has no column, they add up to *)
(* the life of the I/O.                                                    *)
RowTelescopes ==
  \A i \in 1..Len(rows) :
    LET e == rows[i].entry
        c == rows[i].cols
    IN Scheduled(e) \/ Direct(e) =>
         /\ \A x \in {c.alloc_request, c.plug, c.scheduling, c.dispatch, c.exec, c.verify} :
              x \in 0..MaxTime
         /\ Add(Sum(c), e.plug - e.rq_start) = e.account_io - e.bio_enter

(* do_event(), DLOG_IF(FATAL,event_data[4] < 0) "Error when compute        *)
(* sched": the scheduling stage, where it was computed, is not negative    *)
(* (as the signed number the assertion means; unsigned it cannot fire).    *)
SchedulingNotNegative ==
  \A i \in 1..Len(rows) :
    LET x == rows[i].cols.scheduling IN x = Garbage \/ 2 * x < WordSize
=============================================================================

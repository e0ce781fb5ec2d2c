---------------------------- MODULE Ext4DioSimple ----------------------------
(***************************************************************************)
(* Direct I/O on ext4 at the simple level: the probes of                   *)
(* ext4_dio_simple.bpf.c and the consumer of ext4_dio_simple.hpp.  A call  *)
(* is known by the address of its kiocb, which the kernel reuses; the time *)
(* of the system call reaches it through two global variables that every   *)
(* read and every write of the machine assigns.                            *)
(***************************************************************************)
EXTENDS Integers, Sequences, FiniteSets

CONSTANTS
  Iocbs,            \* addresses of struct kiocb
  EventCacheMax,    \* max_entries of event_cache (8192)
  RingMax,          \* capacity of ext4_dio_log, counted in records
  QuantileFilter,   \* the consumer's using_filter: it may drop a fast I/O
  WordSize,         \* 2^64: the latencies are unsigned long long
  OtherMax,         \* bound: calls on other files in one behaviour
  MaxTime           \* bound: readings of the clock in one behaviour

ASSUME Ext4DioSimpleAssumption ==
  /\ EventCacheMax \in Nat /\ RingMax \in Nat /\ OtherMax \in Nat /\ MaxTime \in Nat
  /\ QuantileFilter \in BOOLEAN
  /\ WordSize \in Nat /\ WordSize > 2 * MaxTime

dio_type == {"D_WRITE", "D_READ"}

VARIABLES
  istate,           \* [Iocbs -> where the kernel has the call]
  io,               \* [Iocbs -> the call: direction, context and, as ghosts, times]
  other,            \* a start probe of another CPU between its clock and its store
  now,              \* bpf_ktime_get_ns, advancing at every reading
  dio_write_start, dio_read_start,
  event_cache,      \* [Iocbs -> event, NoEvent when the map has no such key]
  ext4_dio_log,     \* the ring buffer, oldest record first
  stale,            \* ghost: the addresses whose event belongs to a call that is over
  event_data,       \* the row do_event last computed
  event_rows,       \* calls (ghost) of the rows of ext4_dio_simple_event
  meta_rows,        \* calls (ghost) of the rows of ext4_dio_simple_meta
  start_time,       \* dio_throughtput: the first time committed, 0 if none was
  passed            \* dio_throughtput: of the last commit

kernel == <<istate, io, other>>
maps == <<dio_write_start, dio_read_start, event_cache, ext4_dio_log>>
files == <<event_data, event_rows, meta_rows, start_time, passed>>
vars == <<istate, io, other, now, dio_write_start, dio_read_start,
          event_cache, ext4_dio_log, stale, event_data, event_rows, meta_rows, start_time, passed>>

(* struct simple_dio_event, zeroed.                                        *)
NoEvent == [start_dio |-> 0, start_ext4 |-> 0, start_block_io |-> 0,
            end_block_io |-> 0, type |-> "D_WRITE"]
NoCall == [type |-> "D_WRITE", sync |-> TRUE, own |-> TRUE, oldest |-> 0, began |-> 0]
NoOther == [type |-> "D_WRITE", at |-> 0, calls |-> 0]

(* Unsigned subtraction.                                                   *)
Sub_Signed(a, b) == a - b
Sub(a, b) == IF b <= a THEN a - b ELSE WordSize + a - b

(* do_event: the columns of a row.                                         *)
EventRow(e) ==
  [end_dio_io |-> e.end_block_io, kernel_crossing |-> Sub(e.start_ext4, e.start_dio),
   file_system |-> Sub(e.start_block_io, e.start_ext4),
   block_io |-> Sub(e.end_block_io, e.start_block_io)]

Has(i) == event_cache[i] # NoEvent
CacheRoom == Cardinality({j \in Iocbs : Has(j)}) < EventCacheMax
RingRoom == Len(ext4_dio_log) < RingMax

Tick == now < MaxTime /\ now' = now + 1

Goto(i, s) == istate' = [istate EXCEPT ![i] = s]

Init ==
  /\ istate = [i \in Iocbs |-> "idle"]
  /\ io = [i \in Iocbs |-> NoCall]
  /\ other = NoOther
  /\ now = 0
  /\ dio_write_start = 0 /\ dio_read_start = 0
  /\ event_cache = [i \in Iocbs |-> NoEvent]
  /\ ext4_dio_log = <<>>
  /\ stale = {}
  /\ event_data = EventRow(NoEvent)
  /\ event_rows = <<>> /\ meta_rows = <<>> /\ start_time = 0 /\ passed = 0

-----------------------------------------------------------------------------
(* kprobe/new_sync_write and kprobe/new_sync_read, past their filter.      *)
Start(type, t) ==
  /\ dio_write_start' = IF type = "D_WRITE" THEN t ELSE dio_write_start
  /\ dio_read_start' = IF type = "D_READ" THEN t ELSE dio_read_start

(* Ghost: the oldest start time that may still be assigned.                *)
Oldest(type) == IF other.at # 0 /\ other.type = type THEN other.at ELSE now + 1

Call(i, c) ==
  /\ istate[i] = "idle"
  /\ Goto(i, "called")
  /\ io' = [io EXCEPT ![i] = c]
  /\ UNCHANGED <<other, event_cache, ext4_dio_log, stale, files>>

SyncCall(i, type) ==
  /\ Tick
  /\ Start(type, now + 1)
  /\ Call(i, [type |-> type, sync |-> TRUE, own |-> TRUE, oldest |-> Oldest(type), began |-> 0])

(* A call by a process that the filter stops.  The inode filter of the     *)
(* probes is never switched on (Env.hpp).  Without a filter the behaviours *)
(* are those of a filter that lets every process through.                  *)
ForeignCall(i) ==
  /\ Call(i, [NoCall EXCEPT !.own = FALSE])
  /\ UNCHANGED <<now, dio_write_start, dio_read_start>>

(* Asynchronous I/O reaches ext4 without new_sync_write (external).        *)
AsyncCall(i, type) ==
  /\ Call(i, [NoCall EXCEPT !.type = type, !.sync = FALSE])
  /\ UNCHANGED <<now, dio_write_start, dio_read_start>>

(* The same probes in a call that is no direct I/O on ext4 (any file, any  *)
(* other CPU): the clock is read in one step and assigned in another.      *)
OtherStamp(type) ==
  /\ other.at = 0 /\ other.calls < OtherMax
  /\ Tick
  /\ other' = [type |-> type, at |-> now + 1, calls |-> other.calls + 1]
  /\ UNCHANGED <<istate, io, maps, stale, files>>

OtherStore ==
  /\ other.at # 0
  /\ Start(other.type, other.at)
  /\ other' = [NoOther EXCEPT !.calls = other.calls]
  /\ UNCHANGED <<istate, io, now, event_cache, ext4_dio_log, stale, files>>

(* kprobe/ext4_dio_write_iter and kprobe/ext4_dio_read_iter.               *)
StartOf_Swapped(type) == IF type = "D_READ" THEN dio_write_start ELSE dio_read_start
StartOf(type) == IF type = "D_WRITE" THEN dio_write_start ELSE dio_read_start

DioIter(i) ==
  /\ istate[i] = "called"
  /\ Goto(i, "ext4")
  /\ IF io[i].own
       THEN /\ Tick
            /\ io' = [io EXCEPT ![i].began = now + 1]
            /\ event_cache' =
                 IF ~Has(i) /\ CacheRoom     \* BPF_NOEXIST
                   THEN [event_cache EXCEPT ![i] =
                           [NoEvent EXCEPT !.start_dio = StartOf(io[i].type),
                                           !.start_ext4 = now + 1, !.type = io[i].type]]
                   ELSE event_cache
       ELSE UNCHANGED <<now, io, event_cache>>
  /\ UNCHANGED <<other, dio_write_start, dio_read_start, ext4_dio_log, stale, files>>

(* The call is over without a record; an event it finds stays.             *)
Over(i) ==
  /\ Goto(i, "idle")
  /\ io' = [io EXCEPT ![i] = NoCall]
  /\ stale' = IF Has(i) THEN stale \cup {i} ELSE stale

(* ext4 returns before it maps anything: no space, would block, or not     *)
(* suited to direct I/O (external; no probe).                              *)
GiveUp(i) ==
  /\ istate[i] = "ext4"
  /\ Over(i)
  /\ UNCHANGED <<other, now, maps, files>>

(* kprobe/iomap_dio_bio_actor, once for each extent; holes have none.      *)
BioActor(i) ==
  /\ istate[i] \in {"ext4", "mapped"}
  /\ Goto(i, "mapped")
  /\ IF io[i].own /\ Has(i)
       THEN Tick /\ event_cache' = [event_cache EXCEPT ![i].start_block_io = now + 1]
       ELSE UNCHANGED <<now, event_cache>>
  /\ UNCHANGED <<other, io, dio_write_start, dio_read_start, ext4_dio_log, stale, files>>

(* kprobe/iomap_dio_complete, in the caller or, for asynchronous I/O, in a *)
(* worker that no process filter lets through.  Another CPU may come in    *)
(* between the time stamp and the reservation in the ring.                 *)
Completers(i) == {io[i].own} \cup (IF io[i].sync THEN {} ELSE {FALSE})

CompleteStamp(i) ==
  /\ istate[i] \in {"ext4", "mapped"}
  /\ Has(i) /\ TRUE \in Completers(i)
  /\ Tick
  /\ Goto(i, "stamped")
  /\ event_cache' = [event_cache EXCEPT ![i].end_block_io = now + 1]
  /\ UNCHANGED <<other, io, dio_write_start, dio_read_start, ext4_dio_log, stale, files>>

CompleteUnseen(i) ==
  /\ istate[i] \in {"ext4", "mapped"}
  /\ ~Has(i) \/ FALSE \in Completers(i)
  /\ Over(i)
  /\ UNCHANGED <<other, now, maps, files>>

Forget_IfLogged(i) ==   \* the deletion moved into if(log)
  IF RingRoom THEN [event_cache EXCEPT ![i] = NoEvent] ELSE event_cache
Forget(i) == [event_cache EXCEPT ![i] = NoEvent]

CompleteEmit(i) ==
  /\ istate[i] = "stamped"
  /\ Goto(i, "idle")
  /\ io' = [io EXCEPT ![i] = NoCall]
  /\ ext4_dio_log' =
       IF RingRoom
         THEN Append(ext4_dio_log, [event |-> event_cache[i], io |-> io[i], stale |-> i \in stale])
         ELSE ext4_dio_log
  /\ event_cache' = Forget(i)
  /\ stale' = stale \ {i}
  /\ UNCHANGED <<other, now, dio_write_start, dio_read_start, files>>

-----------------------------------------------------------------------------
(* TimeThroughputPmc::commit.                                              *)
CommitThroughput(tp) ==
  /\ start_time' = IF start_time = 0 THEN tp ELSE start_time
  /\ passed' = Sub(tp, start_time')

(* proxy(): do_event commits the row unless the t-digest filter finds the  *)
(* chosen stage fast (any answer is possible); do_meta commits the time to *)
(* the throughput always and the second row only if the first was.         *)
MetaRows_Always(rec, select) == Append(meta_rows, rec.io.began)
MetaRows(rec, select) == IF select THEN Append(meta_rows, rec.io.began) ELSE meta_rows

Proxy ==
  /\ ext4_dio_log # <<>>
  /\ LET rec == Head(ext4_dio_log)
     IN /\ event_data' = EventRow(rec.event)
        /\ \E select \in IF QuantileFilter THEN BOOLEAN ELSE {TRUE} :
          /\ event_rows' = IF select THEN Append(event_rows, rec.io.began) ELSE event_rows
          /\ meta_rows' = MetaRows(rec, select)
          /\ CommitThroughput(rec.event.end_block_io)
  /\ ext4_dio_log' = Tail(ext4_dio_log)
  /\ UNCHANGED <<kernel, now, dio_write_start, dio_read_start, event_cache, stale>>

(* The bound on the clock is reached.                                      *)
Horizon == now = MaxTime /\ UNCHANGED vars

CallStep(i) ==
  \/ ForeignCall(i)
  \/ \E type \in dio_type : SyncCall(i, type) \/ AsyncCall(i, type)

Next ==
  \/ \E i \in Iocbs : CallStep(i)
  \/ \E type \in dio_type : OtherStamp(type)
  \/ OtherStore
  \/ \E i \in Iocbs : DioIter(i) \/ GiveUp(i) \/ BioActor(i) \/ CompleteStamp(i)
                      \/ CompleteUnseen(i) \/ CompleteEmit(i)
  \/ Proxy
  \/ Horizon

Spec == Init /\ [][Next]_vars

-----------------------------------------------------------------------------
Events == [start_dio : Nat, start_ext4 : Nat, start_block_io : Nat,
           end_block_io : Nat, type : dio_type]
Calls == [type : dio_type, sync : BOOLEAN, own : BOOLEAN, oldest : Nat, began : Nat]
Word == 0..(WordSize - 1)
EventRows == [end_dio_io : Nat, kernel_crossing : Word, file_system : Word, block_io : Word]

(* Every variable stays in its range; the columns of a row are words; the  *)
(* map and the ring buffer stay within their capacities.                   *)
Typed ==
  /\ istate \in [Iocbs -> {"idle", "called", "ext4", "mapped", "stamped"}]
  /\ io \in [Iocbs -> Calls]
  /\ other \in [type : dio_type, at : 0..now, calls : 0..OtherMax]
  /\ now \in 0..MaxTime
  /\ dio_write_start \in 0..now /\ dio_read_start \in 0..now
  /\ event_cache \in [Iocbs -> Events]
  /\ ext4_dio_log \in Seq([event : Events, io : Calls, stale : BOOLEAN])
  /\ stale \subseteq Iocbs
  /\ event_data \in EventRows
  /\ event_rows \in Seq(Nat)
  /\ meta_rows \in Seq(Nat)
  /\ start_time \in 0..now /\ passed \in Word

Cached == {i \in Iocbs : Has(i)}
WithinCapacity == Cardinality(Cached) <= EventCacheMax /\ Len(ext4_dio_log) <= RingMax
TypeOK == Typed /\ WithinCapacity

Records == {ext4_dio_log[k] : k \in 1..Len(ext4_dio_log)}

(* A record of the ring is about the call that completed, whose kiocb it   *)
(* was found by: its stamps are of this call, unless an earlier call at    *)
(* the address left without iomap_dio_complete seeing it (BPF_NOEXIST then *)
(* keeps the old event).  A full ring never has that effect.               *)
RecordOfItsCall ==
  \A rec \in Records :
    ~rec.stale =>
       /\ rec.event.start_ext4 = rec.io.began
       /\ rec.event.type = rec.io.type
       /\ rec.event.start_block_io # 0 => rec.event.start_block_io > rec.io.began

(* The global start times are overwritten by other calls, but only with    *)
(* the times of calls of the same direction that were under way: for a     *)
(* synchronous call kernel_crossing may be too short, and it is too long   *)
(* by no more than what another CPU takes from its clock to its store.     *)
(* The later stages of a call that mapped an extent do not wrap.           *)
StagesBounded ==
  \A rec \in Records :
    LET e == rec.event
    IN ~rec.stale =>
         /\ e.start_dio <= e.start_ext4
         /\ rec.io.sync => rec.io.oldest <= e.start_dio
         /\ e.start_block_io # 0 =>
              e.start_ext4 < e.start_block_io /\ e.start_block_io < e.end_block_io

(* The offline part joins the two files by row number: row k of both is    *)
(* about the same call, whatever the filter dropped.                       *)
RowsAligned == event_rows = meta_rows

(* TimeThroughputPmc::commit, DLOG_IF(FATAL,index < 0) "order error": no   *)
(* I/O committed to the series ended before the one that started it, so    *)
(* the unsigned difference never wraps.                                    *)
SeriesInOrder == passed <= now
=============================================================================

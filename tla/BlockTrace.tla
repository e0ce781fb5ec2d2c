----------------------------- MODULE BlockTrace -----------------------------
(***************************************************************************)
(* The probes of block_trace.bpf.c.  Each probe runs inside a step of the  *)
(* kernel's block layer and stamps one entry of the map rq_cache, keyed by *)
(* the address of the request; the last probe copies the entry to the ring *)
(* buffer blk_log.  Addresses of bios and requests are reused, so what     *)
(* matters is that an entry never mixes two lives of an address.           *)
(*                                                                         *)
(* The block layer itself (stages of a request, life of a bio) is external *)
(* and modelled as far as the probes can see it: Linux 5.10, multi-queue.  *)
(***************************************************************************)
EXTENDS Integers, Sequences, FiniteSets

CONSTANTS
  Bios, Requests,     \* addresses of struct bio and struct request
  Elevator,           \* [Requests -> scheduler of the request's queue]
  Drive,              \* [Requests -> driver of the request's queue]
  BioPassMax,         \* max_entries of bio_pass (256 * 128)
  RqCacheMax,         \* max_entries of rq_cache (256)
  RingMax,            \* capacity of blk_log, counted in records
  UsingFilter,        \* using_pid_filter or using_common_filter
  DriverBusy,         \* whether a driver may refuse or retry a request
  Splits,             \* whether bios may be split
  MaxTime             \* bound: readings of the clock in one behaviour

Elevators == {"none", "mq-deadline", "bfq", "kyber"}

ASSUME BlockTraceAssumption ==
  /\ Elevator \in [Requests -> Elevators]
  /\ Drive \in [Requests -> {"NVME", "SCSI"}]
  /\ BioPassMax \in Nat /\ RqCacheMax \in Nat /\ RingMax \in Nat /\ MaxTime \in Nat
  /\ UsingFilter \in BOOLEAN /\ DriverBusy \in BOOLEAN /\ Splits \in BOOLEAN

VARIABLES
  stage,      \* [Requests -> where the kernel has the request]
  bioOf,      \* [Requests -> the bio a request was allocated for]
  born,       \* [Requests -> time of its last allocation]
  bstate,     \* [Bios -> what the kernel did with the bio]
  enteredAt,  \* [Bios -> time it entered blk_mq_submit_bio, 0: a fresh split]
  mine,       \* [Bios -> whether the filter lets its process through]
  now,        \* bpf_ktime_get_ns, advancing at every reading
  bio_pass,   \* [Bios -> time of entry, 0 when the map has no such key]
  rq_cache,   \* [Requests -> entry, NoEntry when the map has no such key]
  blk_log     \* the ring buffer, oldest record first

kernel == <<stage, bioOf, born, bstate, enteredAt, mine>>
vars == <<stage, bioOf, born, bstate, enteredAt, mine, now, bio_pass, rq_cache, blk_log>>

-----------------------------------------------------------------------------
(* struct rq_trace_event, zeroed.  direct_path.direct shares its storage   *)
(* with sched_path.sched (a union): both are the field sched.              *)
NoEntry ==
  [bio_enter |-> 0, rq_start |-> 0, plug |-> 0, sched |-> 0, dispatch |-> 0,
   queue_rq |-> 0, s_type |-> "UNKNOWN_SCHEDU", d_type |-> "UNKNOWN_DISPATCH",
   done |-> 0, account_io |-> 0, drive |-> "ERROR"]

Has(r) == rq_cache[r] # NoEntry

(* Room in a hash map for one more key: updates fail silently without it.  *)
PassRoom(b) == bio_pass[b] # 0 \/ Cardinality({c \in Bios : bio_pass[c] # 0}) < BioPassMax
CacheRoom(r) == Cardinality({q \in Requests \ {r} : Has(q)}) < RqCacheMax
RingRoom == Len(blk_log) < RingMax

Tick == now < MaxTime /\ now' = now + 1

(* A probe that finds the request's entry sets fields of it, and reads the *)
(* clock when it stamps; one that does not find it returns -1.             *)
Mark(r, e) ==
  /\ rq_cache' = IF Has(r) THEN [rq_cache EXCEPT ![r] = e] ELSE rq_cache
  /\ UNCHANGED <<now, bio_pass, blk_log>>
Stamp(r, e) ==
  /\ IF Has(r) THEN Tick /\ rq_cache' = [rq_cache EXCEPT ![r] = e]
               ELSE UNCHANGED <<now, rq_cache>>
  /\ UNCHANGED <<bio_pass, blk_log>>

Goto(r, s) ==
  /\ stage' = [stage EXCEPT ![r] = s]
  /\ UNCHANGED <<bioOf, born, bstate, enteredAt, mine>>

Init ==
  /\ stage = [r \in Requests |-> "free"]
  /\ bioOf \in [Requests -> Bios]
  /\ born = [r \in Requests |-> 0]
  /\ bstate = [b \in Bios |-> "idle"]
  /\ enteredAt = [b \in Bios |-> 0]
  /\ mine = [b \in Bios |-> TRUE]
  /\ now = 0
  /\ bio_pass = [b \in Bios |-> 0]
  /\ rq_cache = [r \in Requests |-> NoEntry]
  /\ blk_log = <<>>

-----------------------------------------------------------------------------
(* kprobe/blk_mq_submit_bio.  A bio that was split comes through again     *)
(* with what is left of it.                                                *)
Owner(b) ==
  IF bstate[b] = "entered" THEN {mine[b]}
  ELSE IF UsingFilter THEN BOOLEAN ELSE {TRUE}

Submit(b) ==
  /\ bstate[b] = "idle" \/ (Splits /\ bstate[b] = "entered")
  /\ Tick
  /\ \E own \in Owner(b) :
       /\ mine' = [mine EXCEPT ![b] = own]
       /\ blk_log' = IF own /\ RingRoom
                       THEN Append(blk_log, [type |-> "bio_enter", bio |-> b, tp |-> now + 1])
                       ELSE blk_log
       /\ bio_pass' = IF own /\ PassRoom(b) THEN [bio_pass EXCEPT ![b] = now + 1]
                                            ELSE bio_pass
  /\ bstate' = [bstate EXCEPT ![b] = "entered"]
  /\ enteredAt' = [enteredAt EXCEPT ![b] = now + 1]
  /\ UNCHANGED <<stage, bioOf, born, rq_cache>>

(* A bio merged into an existing request gets none of its own and ends     *)
(* with that request (external; no probe).                                 *)
BioMerge(b) ==
  /\ bstate[b] = "entered"
  /\ bstate' = [bstate EXCEPT ![b] = "merged"]
  /\ UNCHANGED <<stage, bioOf, born, enteredAt, mine, now, bio_pass, rq_cache, blk_log>>

BioEnd(b) ==
  /\ bstate[b] = "merged"
  /\ bstate' = [bstate EXCEPT ![b] = "idle"]
  /\ UNCHANGED <<stage, bioOf, born, enteredAt, mine, now, bio_pass, rq_cache, blk_log>>

(* kprobe/__rq_qos_track: request r is allocated for bio b.  The filter    *)
(* comes first; then an entry left by an earlier life of r is deleted.     *)
NewEntry(b) == [NoEntry EXCEPT !.bio_enter = bio_pass[b], !.rq_start = now + 1]

TrackProbe_KeepsStale(r, b, own) ==   \* no bpf_map_delete_elem: BPF_NOEXIST refuses
  rq_cache' = IF own /\ bio_pass[b] # 0 /\ CacheRoom(r) /\ ~Has(r)
                THEN [rq_cache EXCEPT ![r] = NewEntry(b)] ELSE rq_cache
TrackProbe_NoRoom(r, b, own) ==       \* the key being replaced still counts
  rq_cache' = IF ~own THEN rq_cache
              ELSE [rq_cache EXCEPT ![r] =
                      IF bio_pass[b] # 0 /\ CacheRoom(r) /\ ~Has(r)
                        THEN NewEntry(b) ELSE NoEntry]
TrackProbe(r, b, own) ==
  rq_cache' = IF ~own THEN rq_cache
              ELSE [rq_cache EXCEPT ![r] =
                      IF bio_pass[b] # 0 /\ CacheRoom(r) THEN NewEntry(b) ELSE NoEntry]

Track(r, b) ==
  /\ stage[r] = "free" /\ bstate[b] = "entered"
  /\ Tick
  /\ TrackProbe(r, b, mine[b])
  /\ stage' = [stage EXCEPT ![r] = "allocated"]
  /\ bioOf' = [bioOf EXCEPT ![r] = b]
  /\ born' = [born EXCEPT ![r] = now + 1]
  /\ bstate' = [bstate EXCEPT ![b] = "carried"]
  /\ UNCHANGED <<enteredAt, mine, bio_pass, blk_log>>

(* The same probe when bio b was split: r carries the new bio c, which has *)
(* never been through blk_mq_submit_bio at this address in this life.      *)
TrackSplit(r, b, c) ==
  /\ Splits
  /\ stage[r] = "free" /\ bstate[b] = "entered" /\ bstate[c] = "idle"
  /\ Tick
  /\ TrackProbe(r, c, mine[b])
  /\ stage' = [stage EXCEPT ![r] = "allocated"]
  /\ bioOf' = [bioOf EXCEPT ![r] = c]
  /\ born' = [born EXCEPT ![r] = now + 1]
  /\ bstate' = [bstate EXCEPT ![c] = "carried"]
  /\ enteredAt' = [enteredAt EXCEPT ![c] = 0]
  /\ mine' = [mine EXCEPT ![c] = mine[b]]
  /\ UNCHANGED <<bio_pass, blk_log>>

-----------------------------------------------------------------------------
(* kprobe/blk_add_rq_to_plug.                                              *)
Plug(r) ==
  /\ stage[r] = "allocated"
  /\ Goto(r, "plugged")
  /\ Stamp(r, [rq_cache[r] EXCEPT !.plug = now + 1])

(* kprobe/blk_mq_request_bypass_insert: straight to the dispatch list, for *)
(* a flush, for want of a tag, because the driver had no resources, or     *)
(* from the requeue list when the driver has prepared the request.         *)
BypassInsert(r) ==
  /\ \/ stage[r] \in {"allocated", "requeued"}
     \/ stage[r] = "plugged" /\ Elevator[r] = "none"
     \/ stage[r] = "queued" /\ DriverBusy
  /\ Goto(r, "bypassed")
  /\ Stamp(r, [rq_cache[r] EXCEPT !.sched = now + 1, !.s_type = "BYPASS"])

Insertable(r) == stage[r] \in {"allocated", "plugged", "requeued"}

(* kprobe/dd_insert_request and kprobe/bfq_insert_request.                 *)
DdInsert(r) ==
  /\ Insertable(r) /\ Elevator[r] = "mq-deadline"
  /\ Goto(r, "inserting")
  /\ Mark(r, [rq_cache[r] EXCEPT !.s_type = "MQ_DEADLINE"])

BfqInsert(r) ==
  /\ Insertable(r) /\ Elevator[r] = "bfq"
  /\ Goto(r, "inserting")
  /\ Mark(r, [rq_cache[r] EXCEPT !.s_type = "BFQ"])

(* The scheduler merges the request it was given, or one it holds, into    *)
(* another and frees it (external; no probe, the entry stays).             *)
SchedMerge(r) ==
  /\ stage[r] \in {"inserting", "scheduled"}
  /\ stage' = [stage EXCEPT ![r] = "free"]
  /\ bstate' = [bstate EXCEPT ![bioOf[r]] = "merged"]
  /\ UNCHANGED <<bioOf, born, enteredAt, mine, now, bio_pass, rq_cache, blk_log>>

(* kprobe/blk_mq_sched_request_inserted.                                   *)
SchedInserted(r) ==
  /\ stage[r] = "inserting" \/ (Insertable(r) /\ Elevator[r] = "kyber")
  /\ Goto(r, "scheduled")
  /\ Stamp(r, [rq_cache[r] EXCEPT !.sched = now + 1,
                 !.s_type = IF @ \in {"MQ_DEADLINE", "BFQ"} THEN @ ELSE "KYBER"])

(* kretprobe/{dd,bfq,kyber}_dispatch_request.                              *)
DispatchType_Enum(r) ==   \* SCHEDU's enumerators instead of DISPATCH's
  CASE Elevator[r] = "mq-deadline" -> "MQ_DEADLINE"
    [] Elevator[r] = "bfq" -> "BFQ"
    [] OTHER -> "KYBER"
DispatchType(r) ==
  CASE Elevator[r] = "mq-deadline" -> "MQ_DEADLINE_"
    [] Elevator[r] = "bfq" -> "BFQ_"
    [] OTHER -> "KYBER_"

Dispatch_KeepsFirst(r) ==   \* the stamp of an earlier dispatch is not renewed
  /\ stage[r] = "scheduled"
  /\ Goto(r, "dispatched")
  /\ Stamp(r, [rq_cache[r] EXCEPT !.d_type = DispatchType(r),
                 !.dispatch = IF @ = 0 THEN now + 1 ELSE @])
Dispatch(r) ==
  /\ stage[r] = "scheduled"
  /\ Goto(r, "dispatched")
  /\ Stamp(r, [rq_cache[r] EXCEPT !.d_type = DispatchType(r), !.dispatch = now + 1])

(* Without a scheduler the request waits in the software queue, and leaves *)
(* it through blk_mq_dequeue_from_ctx (kretprobe), or all together through *)
(* blk_mq_flush_busy_ctxs, which has no probe.                             *)
CtxInsert(r) ==
  /\ Insertable(r) /\ Elevator[r] = "none"
  /\ Goto(r, "ctx")
  /\ UNCHANGED <<now, bio_pass, rq_cache, blk_log>>

DequeueFromCtx(r) ==
  /\ stage[r] = "ctx"
  /\ Goto(r, "dispatched")
  /\ Stamp(r, [rq_cache[r] EXCEPT !.d_type = "DEQUEUE_CTX_", !.dispatch = now + 1])

FlushBusyCtxs(r) ==
  /\ stage[r] = "ctx"
  /\ Goto(r, "dispatched")
  /\ UNCHANGED <<now, bio_pass, rq_cache, blk_log>>

(* kprobe/__blk_mq_issue_directly.                                         *)
IssueDirectly(r) ==
  /\ stage[r] \in {"allocated", "plugged"} /\ Elevator[r] = "none"
  /\ Goto(r, "issued")
  /\ Stamp(r, [rq_cache[r] EXCEPT !.sched = now + 1, !.s_type = "NO_SCHEDU",
                 !.d_type = "DIRECT_DISPATCH"])

(* kprobe/nvme_queue_rq and kprobe/scsi_queue_rq.                          *)
QueueRq(r) ==
  /\ stage[r] \in {"dispatched", "issued", "bypassed"}
  /\ Goto(r, "queued")
  /\ Stamp(r, [rq_cache[r] EXCEPT !.queue_rq = now + 1, !.drive = Drive[r]])

(* The driver is out of resources and the request goes back to the         *)
(* dispatch list, or it is retried from the requeue list (external).       *)
Park(r) ==
  /\ DriverBusy
  /\ stage[r] = "queued"
  /\ Goto(r, "bypassed")
  /\ UNCHANGED <<now, bio_pass, rq_cache, blk_log>>

Requeue(r) ==
  /\ DriverBusy
  /\ stage[r] \in {"queued", "completed"}
  /\ Goto(r, "requeued")
  /\ UNCHANGED <<now, bio_pass, rq_cache, blk_log>>

(* kprobe/scsi_end_request and kprobe/nvme_complete_rq (a union: done).    *)
Complete(r) ==
  /\ stage[r] = "queued"
  /\ Goto(r, "completed")
  /\ Stamp(r, [rq_cache[r] EXCEPT !.done = now + 1])

(* kprobe/blk_account_io_done: the entry goes to the ring and leaves the   *)
(* map, unless the ring is full; then it stays.  The record also carries,  *)
(* for the properties, which life of the request it is about.              *)
Record(r) ==
  [type |-> "rq_trace_event", entry |-> [rq_cache[r] EXCEPT !.account_io = now + 1],
   rq |-> r, born |-> born[r]]

AfterEmit_Kept(r) == [rq_cache EXCEPT ![r].account_io = now + 1]
AfterEmit(r) == [rq_cache EXCEPT ![r] = NoEntry]

AccountIoDone(r) ==
  /\ stage[r] = "completed"
  /\ stage' = [stage EXCEPT ![r] = "free"]
  /\ bstate' = [bstate EXCEPT ![bioOf[r]] = "idle"]
  /\ \/ /\ ~Has(r)
        /\ UNCHANGED <<now, rq_cache, blk_log>>
     \/ /\ Has(r) /\ RingRoom
        /\ Tick
        /\ blk_log' = Append(blk_log, Record(r))
        /\ rq_cache' = AfterEmit(r)
     \/ /\ Has(r) /\ ~RingRoom
        /\ Tick
        /\ rq_cache' = [rq_cache EXCEPT ![r].account_io = now + 1]
        /\ UNCHANGED blk_log
  /\ UNCHANGED <<bioOf, born, enteredAt, mine, bio_pass>>

(* The consumer takes the oldest record (ring_buffer__poll).               *)
Take ==
  /\ blk_log # <<>>
  /\ blk_log' = Tail(blk_log)
  /\ UNCHANGED <<stage, bioOf, born, bstate, enteredAt, mine, now, bio_pass, rq_cache>>

(* The bound on the clock is reached.                                      *)
Horizon == now = MaxTime /\ UNCHANGED vars

BioStep(b) == Submit(b) \/ BioMerge(b) \/ BioEnd(b)

SubmitStep(r) ==
  \/ Plug(r) \/ BypassInsert(r) \/ DdInsert(r) \/ BfqInsert(r) \/ SchedMerge(r)
  \/ SchedInserted(r) \/ Dispatch(r) \/ CtxInsert(r) \/ DequeueFromCtx(r)
  \/ FlushBusyCtxs(r) \/ IssueDirectly(r) \/ QueueRq(r) \/ Park(r) \/ Requeue(r)

InFlightStep ==
  \/ \E b \in Bios : BioStep(b)
  \/ \E r \in Requests, b \in Bios : Track(r, b)
  \/ \E r \in Requests, b \in Bios, c \in Bios : TrackSplit(r, b, c)
  \/ \E r \in Requests : SubmitStep(r) \/ Complete(r)

Next ==
  \/ InFlightStep
  \/ \E r \in Requests : AccountIoDone(r)
  \/ Take
  \/ Horizon

Spec == Init /\ [][Next]_vars

-----------------------------------------------------------------------------
(* Every variable stays in its range, and a record of the ring is one of   *)
(* the two that proxy() knows.                                             *)
Stages == {"free", "allocated", "plugged", "inserting", "scheduled", "ctx",
           "bypassed", "dispatched", "issued", "queued", "requeued", "completed"}
Entries ==
  [bio_enter : Nat, rq_start : Nat, plug : Nat, sched : Nat, dispatch : Nat,
   queue_rq : Nat,
   s_type : {"UNKNOWN_SCHEDU", "BYPASS", "MQ_DEADLINE", "BFQ", "KYBER", "NO_SCHEDU"},
   d_type : {"UNKNOWN_DISPATCH", "DEQUEUE_CTX_", "MQ_DEADLINE_", "BFQ_", "KYBER_",
             "DIRECT_DISPATCH"},
   done : Nat, account_io : Nat, drive : {"ERROR", "NVME", "SCSI"}]
Records ==
  [type : {"bio_enter"}, bio : Bios, tp : Nat] \cup
  [type : {"rq_trace_event"}, entry : Entries, rq : Requests, born : Nat]

TypeOK ==
  /\ stage \in [Requests -> Stages]
  /\ bioOf \in [Requests -> Bios]
  /\ born \in [Requests -> Nat]
  /\ bstate \in [Bios -> {"idle", "entered", "carried", "merged"}]
  /\ enteredAt \in [Bios -> Nat]
  /\ mine \in [Bios -> BOOLEAN]
  /\ now \in Nat
  /\ bio_pass \in [Bios -> Nat]
  /\ rq_cache \in [Requests -> Entries]
  /\ blk_log \in Seq(Records)

(* The records of finished requests that are in the ring.                  *)
Emitted == {blk_log[i] : i \in {j \in 1..Len(blk_log) : blk_log[j].type = "rq_trace_event"}}

(* Without a filter, the entry found for a request in flight is about this *)
(* life of the request, and starts when its bio last entered the block     *)
(* layer, whatever was merged, lost to a full ring or left behind in the   *)
(* maps before (__rq_qos_track: delete, then BPF_NOEXIST).  A fresh split  *)
(* is excepted: its address was never stamped, or in another life.         *)
CacheFresh ==
  ~UsingFilter =>
    \A r \in Requests : stage[r] # "free" /\ Has(r) =>
      /\ rq_cache[r].rq_start = born[r]
      /\ enteredAt[bioOf[r]] # 0 => rq_cache[r].bio_enter = enteredAt[bioOf[r]]

(* The comment in __rq_qos_track: an entry still there when its request is *)
(* allocated again "now is recyled".  So an event is about one life of a   *)
(* request: it starts at the allocation of the request that finished.      *)
OneLife == \A e \in Emitted : e.entry.rq_start = e.born

(* The stages of a scheduled or directly issued request lie in order in    *)
(* its event, through refusals, retries and re-insertions, so that none of *)
(* the differences do_event computes from them wraps.                      *)
Scheduled(e) ==
  <<e.s_type, e.d_type>> \in {<<"MQ_DEADLINE", "MQ_DEADLINE_">>, <<"BFQ", "BFQ_">>,
                              <<"KYBER", "KYBER_">>}
Direct(e) == e.s_type = "NO_SCHEDU" /\ e.d_type = "DIRECT_DISPATCH"

InOrder(e) ==
  /\ 0 < e.bio_enter /\ e.bio_enter < e.rq_start
  /\ e.rq_start < e.sched
  /\ e.plug # 0 => e.rq_start < e.plug /\ e.plug < e.sched
  /\ IF Direct(e) THEN e.sched < e.queue_rq
                  ELSE e.sched < e.dispatch /\ e.dispatch < e.queue_rq
  /\ e.queue_rq < e.done /\ e.done < e.account_io
  /\ e.drive # "ERROR"

TimelineOrdered ==
  ~UsingFilter =>
    \A x \in Emitted :
      /\ x.entry.s_type \in {"MQ_DEADLINE", "BFQ", "KYBER"} => Scheduled(x.entry)
      /\ Scheduled(x.entry) \/ Direct(x.entry) => InOrder(x.entry)

(* A life of a request is reported at most once: two events never start at *)
(* the same allocation and the map keeps no entry already reported         *)
(* (blk_account_io_done: submit, then delete).                             *)
ReportedOnce ==
  \A i \in 1..Len(blk_log) : blk_log[i].type = "rq_trace_event" =>
    /\ \A j \in 1..Len(blk_log) :
         j # i /\ blk_log[j].type = "rq_trace_event" =>
           blk_log[j].entry.rq_start # blk_log[i].entry.rq_start
    /\ \A r \in Requests : rq_cache[r].rq_start # blk_log[i].entry.rq_start

(* When the maps can hold every bio and every request, no request in       *)
(* flight goes unseen, however many entries earlier lives left behind: a   *)
(* stale entry never takes the place of a live one.                        *)
NoBlindSpot ==
  /\ ~UsingFilter
  /\ Cardinality(Bios) <= BioPassMax
  /\ Cardinality(Requests) <= RqCacheMax
  => \A r \in Requests :
       stage[r] # "free" /\ enteredAt[bioOf[r]] # 0 => Has(r)
=============================================================================

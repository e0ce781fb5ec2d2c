-------------------------- MODULE BlockTraceProofs --------------------------
(***************************************************************************)
(* Proofs about the probes of block_trace.bpf.c, for any number of bios    *)
(* and requests, any capacity of the maps and of the ring and any          *)
(* schedulers: types; without a filter the freshness of entries, the       *)
(* events being about one life of a request, and the order of their        *)
(* stamps; filter or not, a life of a request being reported at most once, *)
(* and with room in the maps every request in flight being seen.           *)
(***************************************************************************)
EXTENDS BlockTrace, FiniteSetTheorems, SequenceTheorems, TLAPS

(* What a step of the block layer does to one request: it moves on, and    *)
(* the probe on its way, if there is one, sets its entry to e.             *)
Moves(r, s, e) ==
  /\ Goto(r, s)
  /\ Stamp(r, e) \/ Mark(r, e) \/ UNCHANGED <<now, bio_pass, rq_cache, blk_log>>

LEMMA MovesTypes ==
  ASSUME TypeOK, NEW r \in Requests, NEW s \in Stages, NEW e \in Entries, Moves(r, s, e)
  PROVE  TypeOK'
<1> USE DEF TypeOK
<1>1. stage' \in [Requests -> Stages]
  BY DEF Moves, Goto
<1>2. UNCHANGED <<bioOf, born, bstate, enteredAt, mine, bio_pass, blk_log>>
  BY DEF Moves, Goto, Stamp, Mark
<1>3. now' \in Nat
  BY DEF Moves, Stamp, Mark, Tick
<1>4. rq_cache' \in [Requests -> Entries]
  BY DEF Moves, Stamp, Mark
<1> QED BY <1>1, <1>2, <1>3, <1>4

(* Every submission or completion step but a merge in the scheduler has    *)
(* that shape, and leaves alone what identifies the entry.                 *)
Same(c, e) == e \in Entries /\ e.rq_start = c.rq_start /\ e.bio_enter = c.bio_enter

LEMMA StepMoves ==
  ASSUME TypeOK, NEW r \in Requests, SubmitStep(r) \/ Complete(r), ~SchedMerge(r)
  PROVE  /\ stage[r] # "free"
         /\ \E s \in Stages \ {"free"}, e \in Entries :
              Moves(r, s, e) /\ Same(rq_cache[r], e)
<1> USE BlockTraceAssumption DEF TypeOK
<1> DEFINE c == rq_cache[r]
<1>1. c \in Entries /\ now + 1 \in Nat
  OBVIOUS
<1>2. CASE Plug(r)
  <2>1. Same(c, [c EXCEPT !.plug = now + 1])
    BY <1>1 DEF Entries, Same
  <2> QED BY <1>2, <2>1 DEF Plug, Same, Moves, Stages
<1>3. CASE BypassInsert(r)
  <2>1. Same(c, [c EXCEPT !.sched = now + 1, !.s_type = "BYPASS"])
    BY <1>1 DEF Entries, Same
  <2> QED BY <1>3, <2>1 DEF BypassInsert, Same, Moves, Stages
<1>4. CASE DdInsert(r)
  <2>1. Same(c, [c EXCEPT !.s_type = "MQ_DEADLINE"])
    BY <1>1 DEF Entries, Same
  <2> QED BY <1>4, <2>1 DEF DdInsert, Insertable, Same, Moves, Stages
<1>5. CASE BfqInsert(r)
  <2>1. Same(c, [c EXCEPT !.s_type = "BFQ"])
    BY <1>1 DEF Entries, Same
  <2> QED BY <1>5, <2>1 DEF BfqInsert, Insertable, Same, Moves, Stages
<1>6. CASE SchedInserted(r)
  <2>1. Same(c, [c EXCEPT !.sched = now + 1,
           !.s_type = IF @ \in {"MQ_DEADLINE", "BFQ"} THEN @ ELSE "KYBER"])
    BY <1>1 DEF Entries, Same
  <2> QED BY <1>6, <2>1 DEF SchedInserted, Insertable, Same, Moves, Stages
<1>7. CASE Dispatch(r)
  <2>1. DispatchType(r) \in {"MQ_DEADLINE_", "BFQ_", "KYBER_"}
    BY DEF DispatchType
  <2>2. Same(c, [c EXCEPT !.d_type = DispatchType(r), !.dispatch = now + 1])
    BY <1>1, <2>1 DEF Entries, Same
  <2> QED BY <1>7, <2>2 DEF Dispatch, Same, Moves, Stages
<1>8. CASE DequeueFromCtx(r)
  <2>1. Same(c, [c EXCEPT !.d_type = "DEQUEUE_CTX_", !.dispatch = now + 1])
    BY <1>1 DEF Entries, Same
  <2> QED BY <1>8, <2>1 DEF DequeueFromCtx, Same, Moves, Stages
<1>9. CASE IssueDirectly(r)
  <2>1. Same(c, [c EXCEPT !.sched = now + 1, !.s_type = "NO_SCHEDU",
           !.d_type = "DIRECT_DISPATCH"])
    BY <1>1 DEF Entries, Same
  <2> QED BY <1>9, <2>1 DEF IssueDirectly, Same, Moves, Stages
<1>10. CASE QueueRq(r)
  <2>1. Same(c, [c EXCEPT !.queue_rq = now + 1, !.drive = Drive[r]])
    BY <1>1 DEF Entries, Same
  <2> QED BY <1>10, <2>1 DEF QueueRq, Same, Moves, Stages
<1>11. CASE Complete(r)
  <2>1. Same(c, [c EXCEPT !.done = now + 1])
    BY <1>1 DEF Entries, Same
  <2> QED BY <1>11, <2>1 DEF Complete, Same, Moves, Stages
<1>12. CASE CtxInsert(r) \/ FlushBusyCtxs(r) \/ Park(r) \/ Requeue(r)
  BY <1>12, <1>1 DEF CtxInsert, FlushBusyCtxs, Park, Requeue, Insertable, Same, Moves, Stages
<1> QED
  BY <1>2, <1>3, <1>4, <1>5, <1>6, <1>7, <1>8, <1>9, <1>10, <1>11, <1>12
  DEF SubmitStep

LEMMA EntryTypes ==
  ASSUME TypeOK, NEW b \in Bios
  PROVE  NoEntry \in Entries /\ NewEntry(b) \in Entries
<1>1. NoEntry \in Entries
  BY DEF NoEntry, Entries
<1>2. bio_pass[b] \in Nat /\ now + 1 \in Nat
  BY DEF TypeOK
<1> QED BY <1>1, <1>2 DEF NewEntry, NoEntry, Entries

LEMMA RecordTypes ==
  ASSUME TypeOK, NEW r \in Requests
  PROVE  Record(r) \in Records /\ [rq_cache[r] EXCEPT !.account_io = now + 1] \in Entries
<1> DEFINE c == rq_cache[r]
<1>0. c \in Entries /\ now + 1 \in Nat
  BY DEF TypeOK
<1>1. [c EXCEPT !.account_io = now + 1] \in Entries
  BY <1>0 DEF Entries
<1>2. born[r] \in Nat
  BY DEF TypeOK
<1> QED BY <1>1, <1>2 DEF Record, Records

(* The probes keep the types of the maps and of the ring's records.        *)
THEOREM TypeCorrect == Spec => []TypeOK
<1> USE BlockTraceAssumption
<1>1. Init => TypeOK
  <2>1. NoEntry \in Entries
    BY DEF NoEntry, Entries
  <2> QED BY <2>1 DEF Init, TypeOK, Stages
<1>2. TypeOK /\ [Next]_vars => TypeOK'
  <2> SUFFICES ASSUME TypeOK, [Next]_vars PROVE TypeOK'
    OBVIOUS
  <2>1. ASSUME NEW b \in Bios, Submit(b) PROVE TypeOK'
    <3>1. PICK own \in Owner(b) :
            /\ mine' = [mine EXCEPT ![b] = own]
            /\ blk_log' = IF own /\ RingRoom
                 THEN Append(blk_log, [type |-> "bio_enter", bio |-> b, tp |-> now + 1])
                 ELSE blk_log
            /\ bio_pass' = IF own /\ PassRoom(b) THEN [bio_pass EXCEPT ![b] = now + 1]
                                                 ELSE bio_pass
      BY <2>1 DEF Submit
    <3>2. own \in BOOLEAN
      BY DEF Owner, TypeOK
    <3>3. now + 1 \in Nat /\ now' \in Nat
      BY <2>1 DEF Submit, Tick, TypeOK
    <3>4. [type |-> "bio_enter", bio |-> b, tp |-> now + 1] \in Records
      BY <3>3 DEF Records
    <3>5. blk_log' \in Seq(Records)
      BY <3>1, <3>4, AppendProperties DEF TypeOK
    <3>6. bio_pass' \in [Bios -> Nat] /\ mine' \in [Bios -> BOOLEAN]
      BY <3>1, <3>2, <3>3 DEF TypeOK
    <3>7. /\ bstate' \in [Bios -> {"idle", "entered", "carried", "merged"}]
          /\ enteredAt' \in [Bios -> Nat]
          /\ UNCHANGED <<stage, bioOf, born, rq_cache>>
      BY <2>1, <3>3 DEF Submit, TypeOK
    <3> QED BY <3>3, <3>5, <3>6, <3>7 DEF TypeOK
  <2>2. ASSUME NEW b \in Bios, BioMerge(b) \/ BioEnd(b) PROVE TypeOK'
    BY <2>2 DEF BioMerge, BioEnd, TypeOK
  <2>3. ASSUME NEW r \in Requests, NEW b \in Bios, Track(r, b) PROVE TypeOK'
    <3>1. rq_cache' \in [Requests -> Entries]
      BY <2>3, EntryTypes DEF Track, TrackProbe, TypeOK
    <3>2. now' \in Nat /\ born' \in [Requests -> Nat]
      BY <2>3 DEF Track, Tick, TypeOK
    <3>3. /\ stage' \in [Requests -> Stages] /\ bioOf' \in [Requests -> Bios]
          /\ bstate' \in [Bios -> {"idle", "entered", "carried", "merged"}]
          /\ UNCHANGED <<enteredAt, mine, bio_pass, blk_log>>
      BY <2>3 DEF Track, TypeOK, Stages
    <3> QED BY <3>1, <3>2, <3>3 DEF TypeOK
  <2>4. ASSUME NEW r \in Requests, NEW b \in Bios, NEW c \in Bios, TrackSplit(r, b, c)
        PROVE  TypeOK'
    <3>1. rq_cache' \in [Requests -> Entries]
      BY <2>4, EntryTypes DEF TrackSplit, TrackProbe, TypeOK
    <3>2. now' \in Nat /\ born' \in [Requests -> Nat]
      BY <2>4 DEF TrackSplit, Tick, TypeOK
    <3>3. /\ stage' \in [Requests -> Stages] /\ bioOf' \in [Requests -> Bios]
          /\ bstate' \in [Bios -> {"idle", "entered", "carried", "merged"}]
          /\ enteredAt' \in [Bios -> Nat] /\ mine' \in [Bios -> BOOLEAN]
          /\ UNCHANGED <<bio_pass, blk_log>>
      BY <2>4 DEF TrackSplit, TypeOK, Stages
    <3> QED BY <3>1, <3>2, <3>3 DEF TypeOK
  <2>5. ASSUME NEW r \in Requests, SubmitStep(r) \/ Complete(r) PROVE TypeOK'
    <3>1. CASE SchedMerge(r)
      BY <3>1 DEF SchedMerge, TypeOK, Stages
    <3>2. CASE ~SchedMerge(r)
      BY <2>5, <3>2, StepMoves, MovesTypes
    <3> QED BY <3>1, <3>2
  <2>6. ASSUME NEW r \in Requests, AccountIoDone(r) PROVE TypeOK'
    <3>1. blk_log' \in Seq(Records)
      <4>1. blk_log' = blk_log \/ blk_log' = Append(blk_log, Record(r))
        BY <2>6 DEF AccountIoDone
      <4>2. Record(r) \in Records /\ blk_log \in Seq(Records)
        BY RecordTypes DEF TypeOK
      <4> QED BY <4>1, <4>2, AppendProperties
    <3>2. rq_cache' \in [Requests -> Entries]
      <4>1. NoEntry \in Entries
        BY DEF NoEntry, Entries
      <4>2. [rq_cache[r] EXCEPT !.account_io = now + 1] \in Entries
        BY RecordTypes
      <4>3. \/ rq_cache' = rq_cache
            \/ rq_cache' = [rq_cache EXCEPT ![r] = NoEntry]
            \/ rq_cache' = [rq_cache EXCEPT ![r] = [rq_cache[r] EXCEPT !.account_io = now + 1]]
        BY <2>6 DEF AccountIoDone, AfterEmit
      <4> QED BY <4>1, <4>2, <4>3 DEF TypeOK
    <3>3. now' \in Nat
      BY <2>6 DEF AccountIoDone, Tick, TypeOK
    <3>4. /\ stage' \in [Requests -> Stages]
          /\ bstate' \in [Bios -> {"idle", "entered", "carried", "merged"}]
          /\ UNCHANGED <<bioOf, born, enteredAt, mine, bio_pass>>
      BY <2>6 DEF AccountIoDone, TypeOK, Stages
    <3> QED BY <3>1, <3>2, <3>3, <3>4 DEF TypeOK
  <2>7. CASE Take
    BY <2>7, HeadTailProperties DEF Take, TypeOK
  <2>8. CASE UNCHANGED vars
    BY <2>8 DEF vars, TypeOK
  <2> QED
    BY <2>1, <2>2, <2>3, <2>4, <2>5, <2>6, <2>7, <2>8
    DEF Next, InFlightStep, BioStep, Horizon
<1>3. QED
  BY <1>1, <1>2, PTL DEF Spec

-----------------------------------------------------------------------------
(* Why an entry is fresh.  A bio in the block layer that has an entry in   *)
(* bio_pass has its own time there; a request in flight has a bio that no  *)
(* other request carries and that cannot enter again before it ends.       *)
BioOK ==
  /\ \A b \in Bios : mine[b]
  /\ \A b \in Bios : bio_pass[b] <= now
  /\ \A b \in Bios : bstate[b] = "entered" => bio_pass[b] \in {0, enteredAt[b]}
  /\ \A r \in Requests : stage[r] # "free" => bstate[bioOf[r]] = "carried"
  /\ \A q, r \in Requests : stage[q] # "free" /\ stage[r] # "free" /\ bioOf[q] = bioOf[r]
       => q = r

(* What the entry of a request in flight says at each stage of its way.    *)
SType(r) ==
  CASE Elevator[r] = "mq-deadline" -> "MQ_DEADLINE"
    [] Elevator[r] = "bfq" -> "BFQ"
    [] OTHER -> "KYBER"
SchedTypes == {"MQ_DEADLINE", "BFQ", "KYBER"}

StampsOK(r, e, t) ==
  /\ 0 < e.bio_enter /\ e.bio_enter < e.rq_start /\ e.rq_start <= t
  /\ e.plug <= t /\ e.sched <= t /\ e.dispatch <= t /\ e.queue_rq <= t /\ e.done <= t
  /\ e.plug # 0 => e.rq_start < e.plug
  /\ e.sched # 0 => e.rq_start < e.sched /\ e.plug < e.sched
  /\ e.s_type \in SchedTypes => e.s_type = SType(r) /\ Elevator[r] # "none"
  /\ e.s_type = "NO_SCHEDU" => e.sched # 0

StageOK(r, e, s) ==
  /\ s = "allocated" => e.sched = 0
  /\ s = "inserting" => e.s_type = SType(r) /\ Elevator[r] \in {"mq-deadline", "bfq"}
  /\ s = "scheduled" => e.s_type = SType(r) /\ Elevator[r] # "none" /\ e.sched # 0
  /\ s = "ctx" => Elevator[r] = "none"
  /\ s \in {"dispatched", "issued", "bypassed", "queued", "completed"} =>
       (e.s_type \in SchedTypes => Scheduled(e) /\ e.sched # 0 /\ e.sched < e.dispatch)
  /\ s \in {"queued", "completed"} =>
       e.sched < e.queue_rq /\ e.dispatch < e.queue_rq /\ e.drive # "ERROR"
  /\ s = "completed" => e.queue_rq < e.done

EntryOK(r) ==
  stage[r] # "free" /\ Has(r) =>
    StampsOK(r, rq_cache[r], now) /\ StageOK(r, rq_cache[r], stage[r])
EntriesOK == \A r \in Requests : EntryOK(r)

EventOK(x) ==
  /\ x.entry.rq_start = x.born
  /\ x.entry.s_type \in {"MQ_DEADLINE", "BFQ", "KYBER"} => Scheduled(x.entry)
  /\ Scheduled(x.entry) \/ Direct(x.entry) => InOrder(x.entry)
LogOK == \A i \in 1..Len(blk_log) : blk_log[i].type = "rq_trace_event" => EventOK(blk_log[i])

(* The entry of a request that does not move stays good as time passes.    *)
LEMMA EntryFrame ==
  ASSUME TypeOK, NEW q \in Requests, EntryOK(q), now' \in Nat, now <= now',
         stage'[q] = stage[q], rq_cache'[q] = rq_cache[q]
  PROVE  EntryOK(q)'
<1>1. rq_cache[q] \in Entries /\ now \in Nat
  BY DEF TypeOK
<1>2. StampsOK(q, rq_cache[q], now) => StampsOK(q, rq_cache[q], now')
  BY <1>1 DEF StampsOK, Entries
<1> QED BY <1>2 DEF EntryOK, Has

(* A step that moves request r and leaves it a good entry keeps all        *)
(* entries good: the clock only advances.                                  *)
LEMMA MoveKeepsEntries ==
  ASSUME TypeOK, EntriesOK, NEW r \in Requests, NEW s, NEW e,
         stage' = [stage EXCEPT ![r] = s], now' \in Nat, now <= now',
         rq_cache' = IF Has(r) THEN [rq_cache EXCEPT ![r] = e] ELSE rq_cache,
         Has(r) => StampsOK(r, e, now') /\ StageOK(r, e, s)
  PROVE  EntriesOK'
<1> SUFFICES ASSUME NEW q \in Requests PROVE EntryOK(q)'
  BY DEF EntriesOK
<1>1. CASE q = r
  <2>1. stage'[r] = s
    BY DEF TypeOK
  <2>2. CASE Has(r)
    <3>1. rq_cache'[r] = e
      BY <2>2 DEF TypeOK
    <3> QED BY <1>1, <2>1, <2>2, <3>1 DEF EntryOK, StampsOK, StageOK, Has
  <2>3. CASE ~Has(r)
    BY <1>1, <2>3 DEF EntryOK, Has
  <2> QED BY <2>2, <2>3
<1>2. CASE q # r
  <2>1. stage'[q] = stage[q] /\ rq_cache'[q] = rq_cache[q] /\ EntryOK(q)
    BY <1>2 DEF TypeOK, EntriesOK
  <2> QED BY <2>1, EntryFrame
<1> QED BY <1>1, <1>2

(* A stamp keeps the entry good at the request's next stage.               *)
LEMMA StampsKeepEntries ==
  ASSUME TypeOK, EntriesOK, NEW r \in Requests,
         SubmitStep(r) \/ Complete(r), ~SchedMerge(r)
  PROVE  EntriesOK'
<1> USE BlockTraceAssumption
<1> DEFINE c == rq_cache[r]
<1>1. c \in Entries /\ now \in Nat /\ now + 1 \in Nat /\ now <= now + 1
  BY DEF TypeOK
<1>2. stage[r] # "free" /\ Has(r) => StampsOK(r, c, now) /\ StageOK(r, c, stage[r])
  BY DEF EntriesOK, EntryOK
<1>3. Elevator[r] \in Elevators /\ Drive[r] \in {"NVME", "SCSI"}
  OBVIOUS
<1>4. ASSUME NEW s, NEW e, stage[r] # "free", Goto(r, s), Stamp(r, e),
             StampsOK(r, c, now) /\ StageOK(r, c, stage[r])
               => StampsOK(r, e, now + 1) /\ StageOK(r, e, s)
      PROVE  EntriesOK'
  <2>1. /\ stage' = [stage EXCEPT ![r] = s]
        /\ now' = IF Has(r) THEN now + 1 ELSE now
        /\ rq_cache' = IF Has(r) THEN [rq_cache EXCEPT ![r] = e] ELSE rq_cache
    BY <1>4 DEF Goto, Stamp, Tick
  <2>2. now' \in Nat /\ now <= now'
    BY <1>1, <2>1
  <2>3. Has(r) => StampsOK(r, e, now') /\ StageOK(r, e, s)
    BY <1>2, <1>4, <2>1
  <2> QED BY <2>1, <2>2, <2>3, MoveKeepsEntries
<1>5. ASSUME NEW s, NEW e, stage[r] # "free", Goto(r, s),
             rq_cache' = IF Has(r) THEN [rq_cache EXCEPT ![r] = e] ELSE rq_cache,
             now' = now,
             StampsOK(r, c, now) /\ StageOK(r, c, stage[r])
               => StampsOK(r, e, now) /\ StageOK(r, e, s)
      PROVE  EntriesOK'
  <2>1. stage' = [stage EXCEPT ![r] = s] /\ now' \in Nat /\ now <= now'
    BY <1>1, <1>5 DEF Goto
  <2>2. Has(r) => StampsOK(r, e, now') /\ StageOK(r, e, s)
    BY <1>2, <1>5
  <2> QED BY <1>5, <2>1, <2>2, MoveKeepsEntries
<1> HIDE DEF c
<1> USE DEF StampsOK, StageOK, Entries, SchedTypes, SType, Elevators, Scheduled
<1>6. CASE Plug(r)
  <2> DEFINE e == [c EXCEPT !.plug = now + 1]
  <2>1. StampsOK(r, c, now) /\ StageOK(r, c, "allocated")
          => StampsOK(r, e, now + 1) /\ StageOK(r, e, "plugged")
    BY <1>1
  <2> QED BY <1>4, <1>6, <2>1 DEF Plug, c
<1>7. CASE BypassInsert(r)
  <2> DEFINE e == [c EXCEPT !.sched = now + 1, !.s_type = "BYPASS"]
  <2>1. StampsOK(r, c, now) => StampsOK(r, e, now + 1) /\ StageOK(r, e, "bypassed")
    BY <1>1
  <2> QED BY <1>4, <1>7, <2>1 DEF BypassInsert, c
<1>8. CASE SchedInserted(r)
  <2> DEFINE e == [c EXCEPT !.sched = now + 1,
                    !.s_type = IF @ \in {"MQ_DEADLINE", "BFQ"} THEN @ ELSE "KYBER"]
  <2>1. stage[r] = "inserting" \/ Elevator[r] = "kyber"
    BY <1>8 DEF SchedInserted
  <2>2. StampsOK(r, c, now) /\ StageOK(r, c, stage[r])
          => StampsOK(r, e, now + 1) /\ StageOK(r, e, "scheduled")
    BY <1>1, <1>3, <2>1
  <2> QED BY <1>4, <1>8, <2>2 DEF SchedInserted, Insertable, c
<1>9. CASE Dispatch(r)
  <2> DEFINE e == [c EXCEPT !.d_type = DispatchType(r), !.dispatch = now + 1]
  <2>1. StampsOK(r, c, now) /\ StageOK(r, c, "scheduled")
          => StampsOK(r, e, now + 1) /\ StageOK(r, e, "dispatched")
    BY <1>1, <1>3 DEF DispatchType
  <2> QED BY <1>4, <1>9, <2>1 DEF Dispatch, c
<1>10. CASE DequeueFromCtx(r)
  <2> DEFINE e == [c EXCEPT !.d_type = "DEQUEUE_CTX_", !.dispatch = now + 1]
  <2>1. StampsOK(r, c, now) /\ StageOK(r, c, "ctx")
          => StampsOK(r, e, now + 1) /\ StageOK(r, e, "dispatched")
    BY <1>1
  <2> QED BY <1>4, <1>10, <2>1 DEF DequeueFromCtx, c
<1>11. CASE IssueDirectly(r)
  <2> DEFINE e == [c EXCEPT !.sched = now + 1, !.s_type = "NO_SCHEDU",
                    !.d_type = "DIRECT_DISPATCH"]
  <2>1. StampsOK(r, c, now) => StampsOK(r, e, now + 1) /\ StageOK(r, e, "issued")
    BY <1>1
  <2> QED BY <1>4, <1>11, <2>1 DEF IssueDirectly, c
<1>12. CASE QueueRq(r)
  <2> DEFINE e == [c EXCEPT !.queue_rq = now + 1, !.drive = Drive[r]]
  <2>1. stage[r] \in {"dispatched", "issued", "bypassed"}
    BY <1>12 DEF QueueRq
  <2>2. StampsOK(r, c, now) /\ StageOK(r, c, stage[r])
          => StampsOK(r, e, now + 1) /\ StageOK(r, e, "queued")
    BY <1>1, <1>3, <2>1
  <2> QED BY <1>4, <1>12, <2>1, <2>2 DEF QueueRq, c
<1>13. CASE Complete(r)
  <2> DEFINE e == [c EXCEPT !.done = now + 1]
  <2>1. StampsOK(r, c, now) /\ StageOK(r, c, "queued")
          => StampsOK(r, e, now + 1) /\ StageOK(r, e, "completed")
    BY <1>1
  <2> QED BY <1>4, <1>13, <2>1 DEF Complete, c
<1>14. CASE DdInsert(r)
  <2> DEFINE e == [c EXCEPT !.s_type = "MQ_DEADLINE"]
  <2>1. Elevator[r] = "mq-deadline" /\ stage[r] # "free"
    BY <1>14 DEF DdInsert, Insertable
  <2>2. StampsOK(r, c, now) => StampsOK(r, e, now) /\ StageOK(r, e, "inserting")
    BY <1>1, <2>1
  <2> QED BY <1>5, <1>14, <2>1, <2>2 DEF DdInsert, Mark, c
<1>15. CASE BfqInsert(r)
  <2> DEFINE e == [c EXCEPT !.s_type = "BFQ"]
  <2>1. Elevator[r] = "bfq" /\ stage[r] # "free"
    BY <1>15 DEF BfqInsert, Insertable
  <2>2. StampsOK(r, c, now) => StampsOK(r, e, now) /\ StageOK(r, e, "inserting")
    BY <1>1, <2>1
  <2> QED BY <1>5, <1>15, <2>1, <2>2 DEF BfqInsert, Mark, c
<1>16. CASE CtxInsert(r) \/ FlushBusyCtxs(r) \/ Park(r) \/ Requeue(r)
  <2>1. PICK s \in {"ctx", "dispatched", "bypassed", "requeued"} :
          /\ Goto(r, s) /\ stage[r] # "free"
          /\ s = "ctx" => Elevator[r] = "none"
          /\ s = "dispatched" => stage[r] = "ctx"
          /\ s = "bypassed" => stage[r] = "queued"
    BY <1>16 DEF CtxInsert, FlushBusyCtxs, Park, Requeue, Insertable
  <2>2. now' = now /\ rq_cache' = rq_cache
    BY <1>16 DEF CtxInsert, FlushBusyCtxs, Park, Requeue
  <2>3. rq_cache' = IF Has(r) THEN [rq_cache EXCEPT ![r] = c] ELSE rq_cache
    BY <2>2 DEF TypeOK, c
  <2>4. StampsOK(r, c, now) /\ StageOK(r, c, stage[r])
          => StampsOK(r, c, now) /\ StageOK(r, c, s)
    BY <1>1, <2>1
  <2> QED BY <1>5, <2>1, <2>2, <2>3, <2>4
<1> QED
  BY <1>6, <1>7, <1>8, <1>9, <1>10, <1>11, <1>12, <1>13, <1>14, <1>15, <1>16
  DEF SubmitStep

(* The records of the ring stay good as one is appended or taken.          *)
LEMMA LogAppend ==
  ASSUME TypeOK, LogOK, NEW x \in Records, blk_log' = Append(blk_log, x),
         x.type = "rq_trace_event" => EventOK(x)
  PROVE  LogOK'
<1>1. /\ Len(blk_log') = Len(blk_log) + 1 /\ Len(blk_log) \in Nat
      /\ \A i \in 1..Len(blk_log) : blk_log'[i] = blk_log[i]
      /\ blk_log'[Len(blk_log) + 1] = x
  BY AppendProperties DEF TypeOK
<1> SUFFICES ASSUME NEW i \in 1..Len(blk_log'), blk_log'[i].type = "rq_trace_event"
             PROVE  EventOK(blk_log'[i])
  BY DEF LogOK, EventOK, Scheduled, Direct, InOrder
<1>2. CASE i = Len(blk_log) + 1
  BY <1>1, <1>2
<1>3. CASE i # Len(blk_log) + 1
  <2>1. i \in 1..Len(blk_log) /\ blk_log'[i] = blk_log[i]
    BY <1>1, <1>3
  <2> QED BY <2>1 DEF LogOK
<1> QED BY <1>2, <1>3

LEMMA LogTail ==
  ASSUME TypeOK, LogOK, blk_log # <<>>, blk_log' = Tail(blk_log)
  PROVE  LogOK'
<1>1. /\ Len(blk_log') = Len(blk_log) - 1 /\ Len(blk_log) \in Nat
      /\ \A i \in 1..Len(blk_log') : blk_log'[i] = blk_log[i + 1]
  BY HeadTailProperties DEF TypeOK
<1> SUFFICES ASSUME NEW i \in 1..Len(blk_log'), blk_log'[i].type = "rq_trace_event"
             PROVE  EventOK(blk_log'[i])
  BY DEF LogOK, EventOK, Scheduled, Direct, InOrder
<1>2. i + 1 \in 1..Len(blk_log) /\ blk_log'[i] = blk_log[i + 1]
  BY <1>1
<1> QED BY <1>2 DEF LogOK

(* The entry of a request that completes makes a good record.              *)
LEMMA RecordGood ==
  ASSUME ~UsingFilter, TypeOK, CacheFresh, EntriesOK, NEW r \in Requests,
         stage[r] = "completed", Has(r)
  PROVE  EventOK(Record(r))
<1> DEFINE c == rq_cache[r]
           e == [c EXCEPT !.account_io = now + 1]
<1>1. c \in Entries /\ now \in Nat /\ now < now + 1
  BY DEF TypeOK
<1>2. c.rq_start = born[r]
  BY DEF CacheFresh
<1>3. StampsOK(r, c, now) /\ StageOK(r, c, "completed")
  BY DEF EntriesOK, EntryOK
<1>4. Record(r).entry = e /\ Record(r).born = born[r]
  BY DEF Record
<1> HIDE DEF c
<1>5. /\ e.rq_start = born[r]
      /\ e.s_type \in SchedTypes => Scheduled(e)
      /\ Scheduled(e) \/ Direct(e) => InOrder(e)
  BY <1>1, <1>2, <1>3
  DEF StampsOK, StageOK, Entries, SchedTypes, Scheduled, Direct, InOrder
<1> QED BY <1>4, <1>5 DEF EventOK, SchedTypes

-----------------------------------------------------------------------------
Inv == TypeOK /\ BioOK /\ CacheFresh /\ EntriesOK /\ LogOK

(* The step in which request r is allocated for bio c, whose time of entry *)
(* is the one in bio_pass or which is a fresh split.                       *)
LEMMA TrackKeeps ==
  ASSUME ~UsingFilter, Inv, NEW r \in Requests, NEW c \in Bios,
         stage[r] = "free", bstate[c] # "carried",
         now' = now + 1, mine[c]', TrackProbe(r, c, TRUE),
         stage' = [stage EXCEPT ![r] = "allocated"],
         bioOf' = [bioOf EXCEPT ![r] = c],
         born' = [born EXCEPT ![r] = now + 1],
         bstate' = [bstate EXCEPT ![c] = "carried"],
         NEW t \in Nat, enteredAt' = [enteredAt EXCEPT ![c] = t],
         t # 0 => bio_pass[c] \in {0, t},
         \A b \in Bios : mine'[b] = mine[b] \/ b = c,
         UNCHANGED <<bio_pass, blk_log>>
  PROVE  BioOK' /\ CacheFresh' /\ EntriesOK' /\ LogOK'
<1> USE DEF Inv
<1>0. now \in Nat /\ bio_pass[c] \in Nat /\ bio_pass[c] <= now
  BY DEF TypeOK, BioOK
<1>1. \A q \in Requests : q # r =>
        /\ stage'[q] = stage[q] /\ bioOf'[q] = bioOf[q] /\ born'[q] = born[q]
        /\ rq_cache'[q] = rq_cache[q]
        /\ stage[q] # "free" => bioOf[q] # c /\ enteredAt'[bioOf[q]] = enteredAt[bioOf[q]]
  BY DEF TypeOK, TrackProbe, BioOK
<1>2. /\ stage'[r] = "allocated" /\ bioOf'[r] = c /\ born'[r] = now + 1
      /\ enteredAt'[c] = t /\ bstate'[c] = "carried"
      /\ \A b \in Bios : b # c => bstate'[b] = bstate[b] /\ enteredAt'[b] = enteredAt[b]
  BY DEF TypeOK
<1>3. rq_cache'[r] # NoEntry => bio_pass[c] # 0 /\ rq_cache'[r] = NewEntry(c)
  BY DEF TypeOK, TrackProbe
<1>4. BioOK'
  <2>1. \A b \in Bios : mine'[b] /\ bio_pass'[b] <= now'
    BY <1>0 DEF BioOK, TypeOK
  <2>2. \A b \in Bios : bstate'[b] = "entered" => bio_pass'[b] \in {0, enteredAt'[b]}
    BY <1>2 DEF BioOK
  <2>3. \A q \in Requests : stage'[q] # "free" => bstate'[bioOf'[q]] = "carried"
    BY <1>1, <1>2 DEF BioOK, TypeOK
  <2>4. \A p, q \in Requests :
          stage'[p] # "free" /\ stage'[q] # "free" /\ bioOf'[p] = bioOf'[q] => p = q
    BY <1>1, <1>2 DEF BioOK
  <2> QED BY <2>1, <2>2, <2>3, <2>4 DEF BioOK
<1>5. CacheFresh'
  <2> SUFFICES ASSUME NEW q \in Requests, stage'[q] # "free", rq_cache'[q] # NoEntry
               PROVE  /\ rq_cache'[q].rq_start = born'[q]
                      /\ enteredAt'[bioOf'[q]] # 0 =>
                           rq_cache'[q].bio_enter = enteredAt'[bioOf'[q]]
    BY DEF CacheFresh, Has
  <2>1. CASE q = r
    <3>1. NewEntry(c).rq_start = now + 1 /\ NewEntry(c).bio_enter = bio_pass[c]
      BY DEF NewEntry, NoEntry
    <3> QED BY <1>2, <1>3, <2>1, <3>1
  <2>2. CASE q # r
    BY <1>1, <2>2 DEF CacheFresh, Has
  <2> QED BY <2>1, <2>2
<1>6. EntriesOK'
  <2> SUFFICES ASSUME NEW q \in Requests PROVE EntryOK(q)'
    BY DEF EntriesOK
  <2>1. CASE q = r
    <3> DEFINE e == NewEntry(c)
    <3>1. bio_pass[c] # 0 => StampsOK(r, e, now + 1) /\ StageOK(r, e, "allocated")
      BY <1>0 DEF StampsOK, StageOK, NewEntry, NoEntry, SchedTypes
    <3> QED BY <1>2, <1>3, <2>1, <3>1 DEF EntryOK, Has, StampsOK, StageOK
  <2>2. CASE q # r
    BY <1>0, <1>1, <2>2, EntryFrame DEF EntriesOK
  <2> QED BY <2>1, <2>2
<1>7. LogOK'
  BY DEF LogOK
<1> QED BY <1>4, <1>5, <1>6, <1>7

(* A step that touches no entry, and no bio in a way that an entry or a    *)
(* request could notice, keeps what is about them.                         *)
LEMMA BioStepKeeps ==
  ASSUME ~UsingFilter, Inv, TypeOK', NEW b \in Bios, BioStep(b)
  PROVE  Inv'
<1> USE DEF Inv
<1>0. UNCHANGED <<stage, bioOf, born, rq_cache>> /\ bstate[b] # "carried"
  BY DEF BioStep, Submit, BioMerge, BioEnd
<1>1. \A a \in Bios : a # b => bstate'[a] = bstate[a] /\ enteredAt'[a] = enteredAt[a]
  BY DEF BioStep, Submit, BioMerge, BioEnd, TypeOK
<1>2. now \in Nat /\ now' \in Nat /\ now <= now'
  BY DEF BioStep, Submit, BioMerge, BioEnd, Tick, TypeOK
<1>3. EntriesOK'
  BY <1>0, <1>2, EntryFrame DEF EntriesOK
<1>4. CacheFresh'
  <2>1. \A r \in Requests : stage[r] # "free" => enteredAt'[bioOf[r]] = enteredAt[bioOf[r]]
    BY <1>0, <1>1 DEF BioOK, TypeOK
  <2> QED BY <1>0, <2>1 DEF CacheFresh, Has
<1>5. \A r \in Requests : stage[r] # "free" => bstate'[bioOf[r]] = "carried"
  BY <1>0, <1>1 DEF BioOK, TypeOK
<1>6. CASE Submit(b)
  <2>1. PICK own \in Owner(b) :
          /\ mine' = [mine EXCEPT ![b] = own]
          /\ blk_log' = IF own /\ RingRoom
               THEN Append(blk_log, [type |-> "bio_enter", bio |-> b, tp |-> now + 1])
               ELSE blk_log
          /\ bio_pass' = IF own /\ PassRoom(b) THEN [bio_pass EXCEPT ![b] = now + 1]
                                               ELSE bio_pass
    BY <1>6 DEF Submit
  <2>2. own
    BY DEF Owner, BioOK
  <2>3. now' = now + 1 /\ enteredAt' = [enteredAt EXCEPT ![b] = now + 1]
    BY <1>6 DEF Submit, Tick
  <2>4. \A a \in Bios : mine'[a]
    BY <2>1, <2>2 DEF BioOK, TypeOK
  <2>5. \A a \in Bios : a # b => bio_pass'[a] = bio_pass[a]
    BY <2>1 DEF TypeOK
  <2>6. bio_pass'[b] \in {0, now + 1} /\ enteredAt'[b] = now + 1
    BY <2>1, <2>2, <2>3 DEF PassRoom, TypeOK
  <2>7. \A a \in Bios : bio_pass'[a] <= now'
    <3>1. ASSUME NEW a \in Bios PROVE bio_pass'[a] <= now'
      <4>1. bio_pass[a] <= now /\ bio_pass[a] \in Nat
        BY DEF BioOK, TypeOK
      <4> QED BY <1>2, <2>3, <2>5, <2>6, <4>1
    <3> QED BY <3>1
  <2>8. \A a \in Bios : bstate'[a] = "entered" => bio_pass'[a] \in {0, enteredAt'[a]}
    BY <1>1, <2>5, <2>6 DEF BioOK
  <2>9. BioOK'
    BY <1>0, <1>5, <2>4, <2>7, <2>8 DEF BioOK
  <2>10. LogOK'
    <3> DEFINE x == [type |-> "bio_enter", bio |-> b, tp |-> now + 1]
    <3>1. now + 1 \in Nat
      BY <1>2
    <3>2. x \in Records /\ x.type # "rq_trace_event"
      BY <3>1 DEF Records
    <3> HIDE DEF x
    <3>3. CASE blk_log' = Append(blk_log, x)
      BY <3>2, <3>3, LogAppend
    <3>4. CASE blk_log' = blk_log
      BY <3>4 DEF LogOK
    <3> QED BY <2>1, <3>3, <3>4 DEF x
  <2> QED BY <1>3, <1>4, <2>9, <2>10
<1>7. CASE BioMerge(b) \/ BioEnd(b)
  <2>1. /\ UNCHANGED <<enteredAt, mine, now, bio_pass, blk_log>>
        /\ bstate'[b] # "entered"
    BY <1>7 DEF BioMerge, BioEnd, TypeOK
  <2>2. \A a \in Bios : bstate'[a] = "entered" => bstate[a] = "entered"
    BY <1>1, <2>1
  <2>3. BioOK' /\ LogOK'
    BY <1>0, <1>5, <2>1, <2>2 DEF BioOK, LogOK
  <2> QED BY <1>3, <1>4, <2>3
<1> QED BY <1>6, <1>7 DEF BioStep

(* A request that ends, reported or merged away, frees its bio.            *)
LEMMA FreeKeeps ==
  ASSUME ~UsingFilter, Inv, NEW r \in Requests, stage[r] # "free",
         stage' = [stage EXCEPT ![r] = "free"],
         NEW s \in {"idle", "merged"}, bstate' = [bstate EXCEPT ![bioOf[r]] = s],
         now' \in Nat, now <= now', \A q \in Requests : q # r => rq_cache'[q] = rq_cache[q],
         UNCHANGED <<bioOf, born, enteredAt, mine, bio_pass>>
  PROVE  BioOK' /\ CacheFresh' /\ EntriesOK'
<1> USE DEF Inv
<1>1. stage'[r] = "free" /\ \A q \in Requests : q # r => stage'[q] = stage[q]
  BY DEF TypeOK
<1>2. /\ bstate'[bioOf[r]] = s
      /\ \A b \in Bios : b # bioOf[r] => bstate'[b] = bstate[b]
  BY DEF TypeOK
<1>3. BioOK'
  <2>1. \A b \in Bios : bio_pass'[b] <= now'
    <3>1. ASSUME NEW b \in Bios PROVE bio_pass'[b] <= now'
      <4>1. bio_pass[b] \in Nat /\ bio_pass[b] <= now /\ now \in Nat
        BY DEF BioOK, TypeOK
      <4> QED BY <4>1
    <3> QED BY <3>1
  <2>2. \A b \in Bios : bstate'[b] = "entered" => bstate[b] = "entered"
    BY <1>2
  <2>3. \A q \in Requests : stage'[q] # "free" => bstate'[bioOf[q]] = "carried"
    BY <1>1, <1>2 DEF BioOK, TypeOK
  <2> QED BY <1>1, <2>1, <2>2, <2>3 DEF BioOK
<1>4. CacheFresh'
  BY <1>1 DEF CacheFresh, Has
<1>5. EntriesOK'
  <2> SUFFICES ASSUME NEW q \in Requests PROVE EntryOK(q)'
    BY DEF EntriesOK
  <2>1. CASE q = r
    BY <1>1, <2>1 DEF EntryOK
  <2>2. CASE q # r
    BY <1>1, <2>2, EntryFrame DEF EntriesOK
  <2> QED BY <2>1, <2>2
<1> QED BY <1>3, <1>4, <1>5

LEMMA MoveKeepsKeys ==
  ASSUME ~UsingFilter, Inv, NEW r \in Requests, NEW s \in Stages \ {"free"},
         NEW e \in Entries, stage[r] # "free", Moves(r, s, e), Same(rq_cache[r], e)
  PROVE  BioOK' /\ CacheFresh' /\ LogOK'
<1> USE DEF Inv
<1>1. UNCHANGED <<bioOf, born, bstate, enteredAt, mine, bio_pass, blk_log>>
  BY DEF Moves, Goto, Stamp, Mark
<1>2. now \in Nat /\ now' \in Nat /\ now <= now'
  BY DEF Moves, Stamp, Mark, Tick, TypeOK
<1>3. \A q \in Requests : stage'[q] # "free" => stage[q] # "free"
  BY DEF Moves, Goto, TypeOK
<1>4. \A q \in Requests : rq_cache'[q] # NoEntry =>
        /\ rq_cache[q] # NoEntry
        /\ rq_cache'[q].rq_start = rq_cache[q].rq_start
        /\ rq_cache'[q].bio_enter = rq_cache[q].bio_enter
  BY DEF Moves, Stamp, Mark, Same, Has, TypeOK
<1>5. BioOK'
  <2>1. \A b \in Bios : bio_pass'[b] <= now'
    <3>1. ASSUME NEW b \in Bios PROVE bio_pass'[b] <= now'
      <4>1. bio_pass[b] \in Nat /\ bio_pass[b] <= now
        BY DEF BioOK, TypeOK
      <4> QED BY <1>1, <1>2, <4>1
    <3> QED BY <3>1
  <2> QED BY <1>1, <1>3, <2>1 DEF BioOK
<1>6. CacheFresh'
  BY <1>1, <1>3, <1>4 DEF CacheFresh, Has
<1>7. LogOK'
  BY <1>1 DEF LogOK
<1> QED BY <1>5, <1>6, <1>7

THEOREM EntryInvariant == ASSUME ~UsingFilter PROVE Spec => []Inv
<1>1. Init => Inv
  <2> SUFFICES ASSUME Init PROVE Inv
    OBVIOUS
  <2>1. TypeOK
    <3>1. NoEntry \in Entries
      BY DEF NoEntry, Entries
    <3> QED BY <3>1 DEF Init, TypeOK, Stages
  <2>2. BioOK /\ CacheFresh /\ EntriesOK /\ LogOK
    BY EmptySeq DEF Init, BioOK, CacheFresh, EntriesOK, EntryOK, Has, LogOK
  <2> QED BY <2>1, <2>2 DEF Inv
<1>2. Inv /\ TypeOK' /\ [Next]_vars => Inv'
  <2> SUFFICES ASSUME Inv, TypeOK', [Next]_vars PROVE Inv'
    OBVIOUS
  <2> USE DEF Inv
  <2>1. ASSUME NEW b \in Bios, BioStep(b) PROVE Inv'
    BY <2>1, BioStepKeeps
  <2>2. ASSUME NEW r \in Requests, NEW b \in Bios, Track(r, b) PROVE Inv'
    <3>1. /\ mine[b] /\ bio_pass[b] \in {0, enteredAt[b]} /\ bstate[b] = "entered"
          /\ enteredAt[b] \in Nat /\ mine'[b]
      BY <2>2 DEF Track, BioOK, TypeOK
    <3>2. TrackProbe(r, b, TRUE)
      BY <2>2, <3>1 DEF Track, TrackProbe
    <3>3. enteredAt' = [enteredAt EXCEPT ![b] = enteredAt[b]]
      BY <2>2 DEF Track, TypeOK
    <3>4. /\ stage[r] = "free" /\ now' = now + 1
          /\ stage' = [stage EXCEPT ![r] = "allocated"]
          /\ bioOf' = [bioOf EXCEPT ![r] = b]
          /\ born' = [born EXCEPT ![r] = now + 1]
          /\ bstate' = [bstate EXCEPT ![b] = "carried"]
          /\ UNCHANGED <<mine, bio_pass, blk_log>>
      BY <2>2 DEF Track, Tick
    <3>5. BioOK' /\ CacheFresh' /\ EntriesOK' /\ LogOK'
      BY <3>1, <3>2, <3>3, <3>4, TrackKeeps
    <3> QED BY <3>5
  <2>3. ASSUME NEW r \in Requests, NEW b \in Bios, NEW c \in Bios, TrackSplit(r, b, c)
        PROVE  Inv'
    <3>1. mine[b] /\ bstate[c] = "idle" /\ mine'[c]
      BY <2>3 DEF TrackSplit, BioOK, TypeOK
    <3>2. TrackProbe(r, c, TRUE)
      BY <2>3, <3>1 DEF TrackSplit, TrackProbe
    <3>3. \A a \in Bios : mine'[a] = mine[a] \/ a = c
      BY <2>3 DEF TrackSplit, TypeOK
    <3>4. /\ stage[r] = "free" /\ now' = now + 1
          /\ stage' = [stage EXCEPT ![r] = "allocated"]
          /\ bioOf' = [bioOf EXCEPT ![r] = c]
          /\ born' = [born EXCEPT ![r] = now + 1]
          /\ bstate' = [bstate EXCEPT ![c] = "carried"]
          /\ enteredAt' = [enteredAt EXCEPT ![c] = 0]
          /\ UNCHANGED <<bio_pass, blk_log>>
      BY <2>3 DEF TrackSplit, Tick
    <3>5. BioOK' /\ CacheFresh' /\ EntriesOK' /\ LogOK'
      BY <3>1, <3>2, <3>3, <3>4, TrackKeeps
    <3> QED BY <3>5
  <2>4. ASSUME NEW r \in Requests, SubmitStep(r) \/ Complete(r) PROVE Inv'
    <3>1. CASE SchedMerge(r)
      <4>1. /\ stage[r] # "free" /\ stage' = [stage EXCEPT ![r] = "free"]
            /\ bstate' = [bstate EXCEPT ![bioOf[r]] = "merged"]
            /\ UNCHANGED <<bioOf, born, enteredAt, mine, now, bio_pass, rq_cache, blk_log>>
        BY <3>1 DEF SchedMerge
      <4>2. now' \in Nat /\ now <= now'
        BY <4>1 DEF TypeOK
      <4>3. BioOK' /\ CacheFresh' /\ EntriesOK'
        BY <4>1, <4>2, FreeKeeps
      <4>4. LogOK'
        BY <4>1 DEF LogOK
      <4> QED BY <4>3, <4>4
    <3>2. CASE ~SchedMerge(r)
      <4>1. EntriesOK'
        BY <2>4, <3>2, StampsKeepEntries
      <4>2. BioOK' /\ CacheFresh' /\ LogOK'
        BY <2>4, <3>2, StepMoves, MoveKeepsKeys
      <4> QED BY <4>1, <4>2
    <3> QED BY <3>1, <3>2
  <2>5. ASSUME NEW r \in Requests, AccountIoDone(r) PROVE Inv'
    <3>1. /\ stage[r] = "completed" /\ stage' = [stage EXCEPT ![r] = "free"]
          /\ bstate' = [bstate EXCEPT ![bioOf[r]] = "idle"]
          /\ UNCHANGED <<bioOf, born, enteredAt, mine, bio_pass>>
      BY <2>5 DEF AccountIoDone
    <3>2. now' \in Nat /\ now <= now'
      BY <2>5 DEF AccountIoDone, Tick, TypeOK
    <3>3. \A q \in Requests : q # r => rq_cache'[q] = rq_cache[q]
      BY <2>5 DEF AccountIoDone, AfterEmit, TypeOK
    <3>4. BioOK' /\ CacheFresh' /\ EntriesOK'
      BY <3>1, <3>2, <3>3, FreeKeeps
    <3>5. LogOK'
      <4>1. CASE blk_log' = blk_log
        BY <4>1 DEF LogOK
      <4>2. CASE Has(r) /\ blk_log' = Append(blk_log, Record(r))
        <5>1. EventOK(Record(r)) /\ Record(r) \in Records
          BY <3>1, <4>2, RecordGood, RecordTypes
        <5> QED BY <4>2, <5>1, LogAppend
      <4> QED BY <2>5, <4>1, <4>2 DEF AccountIoDone
    <3> QED BY <3>4, <3>5
  <2>6. CASE Take
    <3>1. LogOK'
      BY <2>6, LogTail DEF Take
    <3>2. BioOK' /\ CacheFresh' /\ EntriesOK'
      BY <2>6 DEF Take, BioOK, CacheFresh, EntriesOK, EntryOK, Has
    <3> QED BY <3>1, <3>2
  <2>7. CASE UNCHANGED vars
    BY <2>7 DEF vars, BioOK, CacheFresh, EntriesOK, EntryOK, Has, LogOK
  <2> QED
    BY <2>1, <2>2, <2>3, <2>4, <2>5, <2>6, <2>7 DEF Next, InFlightStep, Horizon
<1>3. QED
  BY <1>1, <1>2, TypeCorrect, PTL DEF Spec

(* What a probe finds under the address of a request in flight is about    *)
(* this life of the request (__rq_qos_track deletes before it inserts),    *)
(* for any number of requests, any room and any schedulers.                *)
THEOREM EntriesAreFresh == Spec => []CacheFresh
<1>1. CASE UsingFilter
  <2>1. CacheFresh
    BY <1>1 DEF CacheFresh
  <2> QED BY <2>1, PTL
<1>2. CASE ~UsingFilter
  <2>1. Inv => CacheFresh
    BY DEF Inv
  <2> QED BY <1>2, <2>1, EntryInvariant, PTL
<1> QED BY <1>1, <1>2

(* Without a filter every event of the ring is about one life of its       *)
(* request, as the comment in __rq_qos_track promises.                     *)
THEOREM EventsAreOneLife == ASSUME ~UsingFilter PROVE Spec => []OneLife
<1>1. Inv => OneLife
  BY DEF Inv, LogOK, EventOK, OneLife, Emitted
<1> QED BY <1>1, EntryInvariant, PTL

(* The stamps of scheduled and directly issued requests lie in order in    *)
(* their events, through any number of refusals and re-insertions.         *)
THEOREM TimelinesAreOrdered == Spec => []TimelineOrdered
<1>1. CASE UsingFilter
  <2>1. TimelineOrdered
    BY <1>1 DEF TimelineOrdered
  <2> QED BY <2>1, PTL
<1>2. CASE ~UsingFilter
  <2>1. Inv => TimelineOrdered
    BY DEF Inv, LogOK, EventOK, TimelineOrdered, Emitted
  <2> QED BY <1>2, <2>1, EntryInvariant, PTL
<1> QED BY <1>1, <1>2
-----------------------------------------------------------------------------
(* The time of an allocation names a life: it is the rq_start of at most   *)
(* one entry of rq_cache or of one event in the ring, and never in the     *)
(* future.                                                                 *)
IsEvent(k) == blk_log[k].type = "rq_trace_event"
CacheStarts ==
  \A r \in Requests :
    /\ rq_cache[r].rq_start <= now
    /\ Has(r) <=> rq_cache[r].rq_start # 0
    /\ \A q \in Requests : q # r /\ Has(r) => rq_cache[q].rq_start # rq_cache[r].rq_start
EventStarts ==
  \A k \in 1..Len(blk_log) : IsEvent(k) =>
    /\ blk_log[k].entry.rq_start # 0 /\ blk_log[k].entry.rq_start <= now
    /\ \A r \in Requests : rq_cache[r].rq_start # blk_log[k].entry.rq_start
    /\ \A j \in 1..Len(blk_log) :
         j # k /\ IsEvent(j) => blk_log[j].entry.rq_start # blk_log[k].entry.rq_start
StartsInv == CacheStarts /\ EventStarts

LEMMA RecordTypesOf ==
  ASSUME TypeOK
  PROVE  /\ now \in Nat /\ Len(blk_log) \in Nat
         /\ \A r \in Requests : rq_cache[r] \in Entries /\ rq_cache[r].rq_start \in Nat
         /\ \A k \in 1..Len(blk_log) : IsEvent(k) => blk_log[k].entry.rq_start \in Nat
<1>1. ASSUME NEW k \in 1..Len(blk_log), IsEvent(k) PROVE blk_log[k].entry.rq_start \in Nat
  <2>1. blk_log[k] \in Records
    BY DEF TypeOK
  <2>2. blk_log[k].entry \in Entries
    BY <1>1, <2>1 DEF IsEvent, Records
  <2> QED BY <2>2 DEF Entries
<1>2. \A r \in Requests : rq_cache[r] \in Entries /\ rq_cache[r].rq_start \in Nat
  BY DEF TypeOK, Entries
<1>3. now \in Nat /\ Len(blk_log) \in Nat
  BY DEF TypeOK
<1> QED BY <1>1, <1>2, <1>3

(* A step that reports nothing keeps the starts distinct if the entries it *)
(* leaves keep their starts, but for at most one that is deleted or starts *)
(* now.                                                                    *)
NothingReported ==
  /\ Len(blk_log) <= Len(blk_log') /\ Len(blk_log') \in Nat
  /\ \A k \in 1..Len(blk_log) : blk_log'[k] = blk_log[k]
  /\ \A k \in 1..Len(blk_log') : k > Len(blk_log) => ~IsEvent(k)'

LEMMA EventsKeep ==
  ASSUME TypeOK, EventStarts, NothingReported, now' \in Nat, now <= now',
         \A r \in Requests : rq_cache'[r].rq_start \in {0, rq_cache[r].rq_start} \/
                             (now' = now + 1 /\ rq_cache'[r].rq_start = now + 1)
  PROVE  EventStarts'
<1>1. \A k \in 1..Len(blk_log') : IsEvent(k)' =>
        /\ k \in 1..Len(blk_log) /\ IsEvent(k) /\ blk_log'[k] = blk_log[k]
        /\ blk_log[k].entry.rq_start \in Nat
  BY RecordTypesOf DEF NothingReported, IsEvent
<1> SUFFICES ASSUME NEW k \in 1..Len(blk_log'), IsEvent(k)'
             PROVE  /\ blk_log'[k].entry.rq_start # 0 /\ blk_log'[k].entry.rq_start <= now'
                    /\ \A r \in Requests : rq_cache'[r].rq_start # blk_log'[k].entry.rq_start
                    /\ \A j \in 1..Len(blk_log') : j # k /\ IsEvent(j)' =>
                         blk_log'[j].entry.rq_start # blk_log'[k].entry.rq_start
  BY DEF EventStarts, IsEvent
<1> DEFINE s == blk_log[k].entry.rq_start
<1>2. /\ k \in 1..Len(blk_log) /\ IsEvent(k) /\ blk_log'[k].entry.rq_start = s
      /\ s \in Nat /\ s # 0 /\ s <= now /\ now \in Nat
      /\ \A r \in Requests : rq_cache[r].rq_start # s
  BY <1>1, RecordTypesOf DEF EventStarts
<1>3. s # now + 1 /\ s <= now'
  BY <1>2
<1>4. \A r \in Requests : rq_cache'[r].rq_start # s
  BY <1>2, <1>3
<1>5. \A j \in 1..Len(blk_log') : j # k /\ IsEvent(j)' => blk_log'[j].entry.rq_start # s
  BY <1>1, <1>2 DEF EventStarts
<1> QED BY <1>2, <1>3, <1>4, <1>5

(* The probe of __rq_qos_track deletes the entry or lets it start now.     *)
LEMMA TrackStarts ==
  ASSUME TypeOK, StartsInv, NEW r \in Requests, NEW b \in Bios, NEW own,
         TrackProbe(r, b, own), now' = now + 1, UNCHANGED blk_log
  PROVE  StartsInv'
<1>1. /\ now \in Nat /\ now + 1 # 0 /\ now < now + 1
      /\ \A q \in Requests : rq_cache[q].rq_start \in Nat /\ rq_cache[q].rq_start <= now
  BY RecordTypesOf DEF StartsInv, CacheStarts
<1>2. NothingReported
  BY RecordTypesOf, <1>1 DEF NothingReported, IsEvent
<1>3. /\ \A q \in Requests : q # r => rq_cache'[q] = rq_cache[q]
      /\ rq_cache'[r] \in {rq_cache[r], NoEntry, NewEntry(b)}
  BY DEF TrackProbe, TypeOK
<1>4. NoEntry.rq_start = 0 /\ NewEntry(b).rq_start = now + 1
  BY DEF NoEntry, NewEntry
<1>5. EventStarts'
  BY <1>1, <1>2, <1>3, <1>4, EventsKeep DEF StartsInv
<1>6. ASSUME NEW q \in Requests
      PROVE  rq_cache'[q].rq_start <= now' /\ (Has(q)' <=> rq_cache'[q].rq_start # 0)
  <2>1. NewEntry(b) # NoEntry
    BY <1>1, <1>4
  <2> QED BY <1>1, <1>3, <1>4, <2>1 DEF StartsInv, CacheStarts, Has
<1>7. ASSUME NEW q \in Requests, NEW p \in Requests, p # q, Has(q)'
      PROVE  rq_cache'[p].rq_start # rq_cache'[q].rq_start
  <2>1. rq_cache'[q].rq_start # 0
    BY <1>6, <1>7
  <2>2. rq_cache[q].rq_start # 0 => rq_cache[p].rq_start # rq_cache[q].rq_start
    BY <1>7 DEF StartsInv, CacheStarts
  <2>3. rq_cache[p].rq_start # 0 => rq_cache[p].rq_start # rq_cache[q].rq_start
    BY <1>7 DEF StartsInv, CacheStarts
  <2> QED BY <1>1, <1>3, <1>4, <1>7, <2>1, <2>2, <2>3
<1>8. CacheStarts'
  BY <1>6, <1>7 DEF CacheStarts, Has
<1> QED BY <1>5, <1>8 DEF StartsInv

(* A step that leaves every entry its start keeps the starts distinct.     *)
LEMMA SameStarts ==
  ASSUME TypeOK, StartsInv, NothingReported, now' \in Nat, now <= now',
         \A r \in Requests : /\ rq_cache'[r].rq_start = rq_cache[r].rq_start
                             /\ Has(r)' <=> Has(r)
  PROVE  StartsInv'
<1>1. EventStarts'
  BY EventsKeep DEF StartsInv
<1>2. \A r \in Requests : rq_cache[r].rq_start \in Nat /\ now \in Nat
  BY RecordTypesOf
<1>3. \A r \in Requests : rq_cache'[r].rq_start <= now'
  BY <1>2 DEF StartsInv, CacheStarts
<1>4. CacheStarts'
  BY <1>3 DEF StartsInv, CacheStarts
<1> QED BY <1>1, <1>4 DEF StartsInv

(* A stamp sets a time, never the start, and an entry with a start is one. *)
LEMMA MovesStarts ==
  ASSUME TypeOK, StartsInv, NEW r \in Requests, NEW s, NEW e \in Entries,
         Moves(r, s, e), Same(rq_cache[r], e)
  PROVE  /\ now' \in Nat /\ now <= now' /\ UNCHANGED blk_log
         /\ \A q \in Requests : /\ rq_cache'[q].rq_start = rq_cache[q].rq_start
                                /\ Has(q)' <=> Has(q)
<1>1. now' \in Nat /\ now <= now' /\ UNCHANGED blk_log
  BY DEF Moves, Stamp, Mark, Tick, TypeOK
<1>2. rq_cache' = rq_cache \/ (Has(r) /\ rq_cache' = [rq_cache EXCEPT ![r] = e])
  BY DEF Moves, Stamp, Mark
<1>3. ASSUME Has(r) PROVE e # NoEntry
  <2>1. e.rq_start # 0
    BY <1>3 DEF Same, StartsInv, CacheStarts
  <2>2. NoEntry.rq_start = 0
    BY DEF NoEntry
  <2> QED BY <2>1, <2>2
<1>4. CASE rq_cache' = rq_cache
  BY <1>1, <1>4 DEF Has
<1>5. CASE Has(r) /\ rq_cache' = [rq_cache EXCEPT ![r] = e]
  <2>1. rq_cache'[r] = e /\ \A q \in Requests : q # r => rq_cache'[q] = rq_cache[q]
    BY <1>5 DEF TypeOK
  <2>2. ASSUME NEW q \in Requests
        PROVE  rq_cache'[q].rq_start = rq_cache[q].rq_start /\ (Has(q)' <=> Has(q))
    BY <1>3, <1>5, <2>1 DEF Same, Has
  <2> QED BY <1>1, <2>2
<1> QED BY <1>2, <1>4, <1>5

(* blk_account_io_done: the start leaves the map for the ring, or stays    *)
(* when the ring is full.                                                  *)
LEMMA EmitStarts ==
  ASSUME TypeOK, StartsInv, NEW r \in Requests, AccountIoDone(r)
  PROVE  StartsInv'
<1> DEFINE n == Len(blk_log)
           e == [rq_cache[r] EXCEPT !.account_io = now + 1]
<1>1. /\ now \in Nat /\ n \in Nat /\ now <= now + 1
      /\ \A q \in Requests : rq_cache[q] \in Entries /\ rq_cache[q].rq_start \in Nat
      /\ e \in Entries /\ e.rq_start = rq_cache[r].rq_start
  <2>1. now \in Nat /\ n \in Nat /\ now <= now + 1
    BY RecordTypesOf
  <2>2. \A q \in Requests : rq_cache[q] \in Entries /\ rq_cache[q].rq_start \in Nat
    BY RecordTypesOf
  <2>3. e \in Entries
    BY RecordTypes
  <2>4. e.rq_start = rq_cache[r].rq_start
    BY <2>2 DEF Entries
  <2> QED BY <2>1, <2>2, <2>3, <2>4
<1>2. CASE ~Has(r) /\ UNCHANGED <<now, rq_cache, blk_log>>
  BY <1>2 DEF StartsInv, CacheStarts, EventStarts, IsEvent, Has
<1>3. CASE Has(r) /\ Tick /\ rq_cache' = [rq_cache EXCEPT ![r] = e] /\ UNCHANGED blk_log
  <2>1. rq_cache[r].rq_start # 0 /\ NoEntry.rq_start = 0
    BY <1>3 DEF StartsInv, CacheStarts, NoEntry
  <2>2. e # NoEntry
    BY <1>1, <2>1
  <2>3. ASSUME NEW q \in Requests
        PROVE  rq_cache'[q].rq_start = rq_cache[q].rq_start /\ (Has(q)' <=> Has(q))
    BY <1>1, <1>3, <2>2 DEF Has, TypeOK
  <2>4. NothingReported /\ now' \in Nat /\ now <= now'
    BY <1>1, <1>3 DEF NothingReported, IsEvent, Tick
  <2> QED BY <2>3, <2>4, SameStarts
<1>4. CASE /\ Has(r) /\ Tick /\ rq_cache' = AfterEmit(r)
           /\ blk_log' = Append(blk_log, Record(r))
  <2> DEFINE s == rq_cache[r].rq_start
  <2>1. /\ Len(blk_log') = n + 1 /\ blk_log'[n + 1] = Record(r)
        /\ \A k \in 1..n : blk_log'[k] = blk_log[k]
    BY <1>4, RecordTypes, AppendProperties DEF TypeOK
  <2>2. /\ s # 0 /\ s <= now /\ now' = now + 1
        /\ \A q \in Requests : q # r => rq_cache[q].rq_start # s
        /\ \A k \in 1..n : IsEvent(k) => blk_log[k].entry.rq_start # s
    BY <1>1, <1>4 DEF StartsInv, CacheStarts, EventStarts, Tick
  <2>3. /\ rq_cache'[r] = NoEntry /\ \A q \in Requests : q # r => rq_cache'[q] = rq_cache[q]
        /\ NoEntry.rq_start = 0
    BY <1>4 DEF AfterEmit, NoEntry, TypeOK
  <2>4. Record(r).entry.rq_start = s
    BY <1>1 DEF Record
  <2>5. CacheStarts'
    <3>1. ASSUME NEW q \in Requests
          PROVE  rq_cache'[q].rq_start <= now' /\ (Has(q)' <=> rq_cache'[q].rq_start # 0)
      BY <1>1, <2>2, <2>3 DEF StartsInv, CacheStarts, Has
    <3>2. ASSUME NEW q \in Requests, NEW p \in Requests, p # q, Has(q)'
          PROVE  rq_cache'[p].rq_start # rq_cache'[q].rq_start
      <4>1. q # r /\ rq_cache'[q] = rq_cache[q] /\ Has(q) /\ rq_cache[q].rq_start # 0
        BY <2>3, <3>2 DEF Has, StartsInv, CacheStarts
      <4>2. rq_cache'[p].rq_start \in {0, rq_cache[p].rq_start}
        BY <2>3
      <4>3. rq_cache[p].rq_start # rq_cache[q].rq_start
        BY <3>2, <4>1 DEF StartsInv, CacheStarts
      <4> QED BY <4>1, <4>2, <4>3
    <3> QED BY <3>1, <3>2 DEF CacheStarts, Has
  <2>6. EventStarts'
    <3>1. \A q \in Requests : rq_cache'[q].rq_start # s
      BY <2>2, <2>3
    <3>2. \A q \in Requests : rq_cache'[q].rq_start \in {0, rq_cache[q].rq_start}
      BY <2>3
    <3>3. ASSUME NEW k \in 1..n, IsEvent(k)
          PROVE  /\ blk_log[k].entry.rq_start # 0 /\ blk_log[k].entry.rq_start <= now'
                 /\ blk_log[k].entry.rq_start # s
                 /\ \A q \in Requests : rq_cache'[q].rq_start # blk_log[k].entry.rq_start
                 /\ \A j \in 1..n : j # k /\ IsEvent(j) =>
                      blk_log[j].entry.rq_start # blk_log[k].entry.rq_start
      <4>1. /\ blk_log[k].entry.rq_start \in Nat /\ blk_log[k].entry.rq_start # 0
            /\ blk_log[k].entry.rq_start <= now
            /\ \A q \in Requests : rq_cache[q].rq_start # blk_log[k].entry.rq_start
            /\ \A j \in 1..n : j # k /\ IsEvent(j) =>
                 blk_log[j].entry.rq_start # blk_log[k].entry.rq_start
        BY <3>3, RecordTypesOf DEF StartsInv, EventStarts
      <4>2. blk_log[k].entry.rq_start <= now'
        BY <1>1, <2>2, <4>1
      <4> QED BY <2>2, <3>2, <3>3, <4>1, <4>2
    <3>4. ASSUME NEW k \in 1..(n + 1), IsEvent(k)'
          PROVE  k = n + 1 \/ (k \in 1..n /\ IsEvent(k) /\ blk_log'[k] = blk_log[k])
      BY <1>1, <2>1, <3>4 DEF IsEvent
    <3>5. ASSUME NEW k \in 1..(n + 1), IsEvent(k)'
          PROVE  /\ blk_log'[k].entry.rq_start # 0 /\ blk_log'[k].entry.rq_start <= now'
                 /\ \A q \in Requests : rq_cache'[q].rq_start # blk_log'[k].entry.rq_start
      <4>1. CASE k = n + 1
        BY <1>1, <2>1, <2>2, <2>4, <3>1, <4>1
      <4>2. CASE k # n + 1
        BY <3>3, <3>4, <3>5, <4>2
      <4> QED BY <4>1, <4>2
    <3>6. ASSUME NEW k \in 1..(n + 1), IsEvent(k)', NEW j \in 1..(n + 1), IsEvent(j)', j # k
          PROVE  blk_log'[j].entry.rq_start # blk_log'[k].entry.rq_start
      <4>1. CASE k = n + 1
        <5>1. j \in 1..n /\ IsEvent(j) /\ blk_log'[j] = blk_log[j]
          BY <3>4, <3>6, <4>1
        <5> QED BY <2>1, <2>4, <3>3, <4>1, <5>1
      <4>2. CASE k # n + 1
        <5>1. k \in 1..n /\ IsEvent(k) /\ blk_log'[k] = blk_log[k]
          BY <3>4, <3>6, <4>2
        <5>2. CASE j = n + 1
          BY <2>1, <2>4, <3>3, <5>1, <5>2
        <5>3. CASE j # n + 1
          <6>1. j \in 1..n /\ IsEvent(j) /\ blk_log'[j] = blk_log[j]
            BY <3>4, <3>6, <5>3
          <6> QED BY <3>3, <3>6, <5>1, <6>1
        <5> QED BY <5>2, <5>3
      <4> QED BY <4>1, <4>2
    <3> QED BY <2>1, <3>5, <3>6 DEF EventStarts, IsEvent
  <2> QED BY <2>5, <2>6 DEF StartsInv
<1> QED BY <1>2, <1>3, <1>4 DEF AccountIoDone

LEMMA TakeStarts ==
  ASSUME TypeOK, StartsInv, Take
  PROVE  StartsInv'
<1>1. /\ Len(blk_log') = Len(blk_log) - 1 /\ Len(blk_log) \in Nat
      /\ \A k \in 1..Len(blk_log') : blk_log'[k] = blk_log[k + 1]
  BY HeadTailProperties DEF TypeOK, Take
<1>2. UNCHANGED <<now, rq_cache>>
  BY DEF Take
<1>3. \A k \in 1..Len(blk_log') : IsEvent(k)' =>
        k + 1 \in 1..Len(blk_log) /\ IsEvent(k + 1) /\ blk_log'[k] = blk_log[k + 1]
  BY <1>1 DEF IsEvent
<1>4. \A j, k \in 1..Len(blk_log') : j # k => j + 1 # k + 1
  BY <1>1
<1>5. EventStarts'
  BY <1>2, <1>3, <1>4 DEF StartsInv, EventStarts, IsEvent
<1>6. CacheStarts'
  BY <1>2 DEF StartsInv, CacheStarts, Has
<1> QED BY <1>5, <1>6 DEF StartsInv

(* The starts of lives stay distinct.                                      *)
THEOREM StartsInvariant == Spec => []StartsInv
<1>1. Init => StartsInv
  <2> SUFFICES ASSUME Init PROVE StartsInv
    OBVIOUS
  <2>1. \A r \in Requests : rq_cache[r] = NoEntry /\ rq_cache[r].rq_start = 0
    BY DEF Init, NoEntry
  <2>2. now = 0 /\ Len(blk_log) = 0
    BY DEF Init
  <2> QED BY <2>1, <2>2 DEF StartsInv, CacheStarts, EventStarts, Has
<1>2. TypeOK /\ StartsInv /\ [Next]_vars => StartsInv'
  <2> SUFFICES ASSUME TypeOK, StartsInv, [Next]_vars PROVE StartsInv'
    OBVIOUS
  <2>0. now \in Nat /\ now <= now + 1 /\ Len(blk_log) \in Nat
    BY RecordTypesOf
  <2>1. ASSUME UNCHANGED <<rq_cache, blk_log>>, now' \in {now, now + 1} PROVE StartsInv'
    <3>1. NothingReported /\ now' \in Nat /\ now <= now'
      BY <2>0, <2>1 DEF NothingReported, IsEvent
    <3> QED BY <2>1, <3>1, SameStarts DEF Has
  <2>2. ASSUME NEW b \in Bios, BioStep(b) PROVE StartsInv'
    <3>1. CASE Submit(b)
      <4> DEFINE x == [type |-> "bio_enter", bio |-> b, tp |-> now + 1]
      <4>1. x \in Records /\ x.type # "rq_trace_event"
        BY <2>0 DEF Records
      <4>2. now' = now + 1 /\ UNCHANGED rq_cache
        BY <3>1 DEF Submit, Tick
      <4>3. blk_log' \in {blk_log, Append(blk_log, x)}
        BY <3>1 DEF Submit
      <4> HIDE DEF x
      <4>4. CASE blk_log' = Append(blk_log, x)
        <5>1. /\ Len(blk_log') = Len(blk_log) + 1
              /\ \A k \in 1..Len(blk_log) : blk_log'[k] = blk_log[k]
              /\ blk_log'[Len(blk_log) + 1] = x
          BY <4>1, <4>4, AppendProperties DEF TypeOK
        <5>2. NothingReported
          BY <2>0, <4>1, <5>1 DEF NothingReported, IsEvent
        <5> QED BY <2>0, <4>2, <5>2, SameStarts DEF Has
      <4> QED BY <2>1, <4>2, <4>3, <4>4
    <3>2. CASE BioMerge(b) \/ BioEnd(b)
      BY <2>1, <3>2 DEF BioMerge, BioEnd
    <3> QED BY <2>2, <3>1, <3>2 DEF BioStep
  <2>3. ASSUME NEW r \in Requests, NEW b \in Bios, Track(r, b) PROVE StartsInv'
    BY <2>3, TrackStarts DEF Track, Tick
  <2>4. ASSUME NEW r \in Requests, NEW b \in Bios, NEW c \in Bios, TrackSplit(r, b, c)
        PROVE  StartsInv'
    BY <2>4, TrackStarts DEF TrackSplit, Tick
  <2>5. ASSUME NEW r \in Requests, SubmitStep(r) \/ Complete(r) PROVE StartsInv'
    <3>1. CASE SchedMerge(r)
      BY <2>1, <3>1 DEF SchedMerge
    <3>2. CASE ~SchedMerge(r)
      <4>1. PICK s \in Stages \ {"free"}, e \in Entries :
              Moves(r, s, e) /\ Same(rq_cache[r], e)
        BY <2>5, <3>2, StepMoves
      <4>2. /\ now' \in Nat /\ now <= now' /\ UNCHANGED blk_log
            /\ \A q \in Requests : /\ rq_cache'[q].rq_start = rq_cache[q].rq_start
                                   /\ Has(q)' <=> Has(q)
        BY <4>1, MovesStarts
      <4>3. NothingReported
        BY <2>0, <4>2 DEF NothingReported, IsEvent
      <4> QED BY <4>2, <4>3, SameStarts
    <3> QED BY <3>1, <3>2
  <2>6. ASSUME NEW r \in Requests, AccountIoDone(r) PROVE StartsInv'
    BY <2>6, EmitStarts
  <2>7. CASE Take
    BY <2>7, TakeStarts
  <2>8. CASE UNCHANGED vars
    BY <2>1, <2>8 DEF vars
  <2> QED
    BY <2>2, <2>3, <2>4, <2>5, <2>6, <2>7, <2>8 DEF Next, InFlightStep, Horizon
<1>3. QED
  BY <1>1, <1>2, TypeCorrect, PTL DEF Spec

(* A life of a request is reported at most once, and no entry that was     *)
(* reported stays in the map, with a filter or without, however full ring  *)
(* and maps are (blk_account_io_done).                                     *)
THEOREM LivesAreReportedOnce == Spec => []ReportedOnce
<1>1. StartsInv => ReportedOnce
  BY DEF StartsInv, EventStarts, IsEvent, ReportedOnce
<1> QED BY <1>1, StartsInvariant, PTL

-----------------------------------------------------------------------------
(* Without a filter and with a key for every bio and every request, a bio  *)
(* that entered is in bio_pass and a request in flight in rq_cache.        *)
Unbounded ==
  /\ ~UsingFilter
  /\ IsFiniteSet(Bios) /\ Cardinality(Bios) <= BioPassMax
  /\ IsFiniteSet(Requests) /\ Cardinality(Requests) <= RqCacheMax

SeenInv ==
  /\ \A b \in Bios : bstate[b] = "entered" => bio_pass[b] # 0
  /\ \A r \in Requests : stage[r] # "free" /\ enteredAt[bioOf[r]] # 0 => Has(r)

LEMMA RoomForAll ==
  ASSUME Unbounded
  PROVE  /\ \A b \in Bios : PassRoom(b)
         /\ \A r \in Requests : CacheRoom(r)
<1> USE BlockTraceAssumption DEF Unbounded
<1>1. ASSUME NEW b \in Bios PROVE PassRoom(b)
  <2> DEFINE keys == {c \in Bios : bio_pass[c] # 0}
  <2>1. CASE bio_pass[b] # 0
    BY <2>1 DEF PassRoom
  <2>2. CASE bio_pass[b] = 0
    <3>1. keys \in SUBSET Bios /\ keys # Bios
      BY <2>2
    <3>2. Cardinality(keys) <= Cardinality(Bios) /\ Cardinality(keys) # Cardinality(Bios)
      BY <3>1, FS_Subset
    <3>3. Cardinality(keys) \in Nat /\ Cardinality(Bios) \in Nat
      BY <3>1, FS_Subset, FS_CardinalityType
    <3> QED BY <3>2, <3>3 DEF PassRoom
  <2> QED BY <2>1, <2>2
<1>2. ASSUME NEW r \in Requests PROVE CacheRoom(r)
  <2> DEFINE keys == {q \in Requests \ {r} : Has(q)}
  <2>1. keys \in SUBSET Requests /\ keys # Requests
    OBVIOUS
  <2>2. Cardinality(keys) <= Cardinality(Requests) /\ Cardinality(keys) # Cardinality(Requests)
    BY <2>1, FS_Subset
  <2>3. Cardinality(keys) \in Nat /\ Cardinality(Requests) \in Nat
    BY <2>1, FS_Subset, FS_CardinalityType
  <2> QED BY <2>2, <2>3 DEF CacheRoom
<1> QED BY <1>1, <1>2

(* __rq_qos_track finds the bio and makes the entry.                       *)
LEMMA TrackSees ==
  ASSUME Unbounded, Inv, SeenInv, NEW r \in Requests, NEW b \in Bios,
         TrackProbe(r, b, TRUE), stage[r] = "free", stage' = [stage EXCEPT ![r] = "allocated"],
         bioOf' = [bioOf EXCEPT ![r] = b], bstate' = [bstate EXCEPT ![b] = "carried"],
         bstate[b] # "carried", bio_pass' = bio_pass,
         \A a \in Bios : a # b => enteredAt'[a] = enteredAt[a],
         enteredAt'[b] = 0 \/ bio_pass[b] # 0
  PROVE  SeenInv'
<1> USE DEF Inv
<1>1. /\ stage' \in [Requests -> Stages] /\ bioOf'[r] = b
      /\ \A q \in Requests : q # r =>
           stage'[q] = stage[q] /\ bioOf'[q] = bioOf[q] /\ rq_cache'[q] = rq_cache[q]
  BY DEF TypeOK, Stages, TrackProbe
<1>2. bio_pass[b] # 0 => rq_cache'[r] = NewEntry(b)
  BY RoomForAll DEF TrackProbe, TypeOK
<1>3. NewEntry(b) # NoEntry
  <2>1. now + 1 # 0 /\ NewEntry(b).rq_start = now + 1 /\ NoEntry.rq_start = 0
    BY DEF TypeOK, NewEntry, NoEntry
  <2> QED BY <2>1
<1>4. \A q \in Requests : q # r /\ stage[q] # "free" => bioOf[q] \in Bios /\ bioOf[q] # b
  BY DEF BioOK, TypeOK
<1>5. ASSUME NEW q \in Requests, stage'[q] # "free", enteredAt'[bioOf'[q]] # 0
      PROVE  Has(q)'
  BY <1>1, <1>2, <1>3, <1>4, <1>5 DEF SeenInv, Has
<1>6. \A a \in Bios : bstate'[a] = "entered" => bio_pass'[a] # 0
  BY DEF SeenInv, TypeOK
<1> QED BY <1>5, <1>6 DEF SeenInv, Has

LEMMA SeenStep ==
  ASSUME Unbounded, Inv, StartsInv, SeenInv, Next
  PROVE  SeenInv'
<1> USE DEF Inv
<1>1. ASSUME NEW b \in Bios, BioStep(b) PROVE SeenInv'
  <2>1. /\ bstate[b] # "carried" /\ UNCHANGED <<stage, bioOf, rq_cache>>
        /\ \A a \in Bios : a # b => bstate'[a] = bstate[a] /\ enteredAt'[a] = enteredAt[a]
    BY <1>1 DEF BioStep, Submit, BioMerge, BioEnd, TypeOK
  <2>2. \A r \in Requests : stage[r] # "free" => bioOf[r] \in Bios /\ bioOf[r] # b
    BY <2>1 DEF BioOK, TypeOK
  <2>3. \A r \in Requests : stage'[r] # "free" /\ enteredAt'[bioOf'[r]] # 0 => Has(r)'
    BY <2>1, <2>2 DEF SeenInv, Has
  <2>4. CASE Submit(b)
    <3>1. PICK own \in Owner(b) :
            bio_pass' = IF own /\ PassRoom(b) THEN [bio_pass EXCEPT ![b] = now + 1] ELSE bio_pass
      BY <2>4 DEF Submit
    <3>2. own
      BY <2>4 DEF Unbounded, Owner, BioOK
    <3>3. bio_pass' = [bio_pass EXCEPT ![b] = now + 1] /\ now + 1 # 0
      BY <3>1, <3>2, RoomForAll DEF TypeOK
    <3>4. \A a \in Bios : bstate'[a] = "entered" => bio_pass'[a] # 0
      BY <2>1, <3>3 DEF SeenInv, TypeOK
    <3> QED BY <2>3, <3>4 DEF SeenInv, Has
  <2>5. CASE BioMerge(b) \/ BioEnd(b)
    <3>1. bstate'[b] # "entered" /\ bio_pass' = bio_pass
      BY <2>5 DEF BioMerge, BioEnd, TypeOK
    <3> QED BY <2>1, <2>3, <3>1 DEF SeenInv, Has
  <2> QED BY <1>1, <2>4, <2>5 DEF BioStep
<1>2. ASSUME NEW r \in Requests, NEW b \in Bios, Track(r, b) PROVE SeenInv'
  <2>1. mine[b] /\ bstate[b] = "entered" /\ bio_pass[b] # 0
    BY <1>2 DEF Track, BioOK, SeenInv
  <2>2. TrackProbe(r, b, TRUE)
    BY <1>2, <2>1 DEF Track, TrackProbe
  <2> QED BY <1>2, <2>1, <2>2, TrackSees DEF Track
<1>3. ASSUME NEW r \in Requests, NEW b \in Bios, NEW c \in Bios, TrackSplit(r, b, c)
      PROVE  SeenInv'
  <2>1. mine[b] /\ bstate[c] = "idle"
    BY <1>3 DEF TrackSplit, BioOK
  <2>2. TrackProbe(r, c, TRUE)
    BY <1>3, <2>1 DEF TrackSplit, TrackProbe
  <2>3. enteredAt'[c] = 0 /\ \A a \in Bios : a # c => enteredAt'[a] = enteredAt[a]
    BY <1>3 DEF TrackSplit, TypeOK
  <2> QED BY <1>3, <2>1, <2>2, <2>3, TrackSees DEF TrackSplit
<1>4. ASSUME NEW r \in Requests, SubmitStep(r) \/ Complete(r) PROVE SeenInv'
  <2>1. CASE SchedMerge(r)
    <3>1. /\ UNCHANGED <<bioOf, enteredAt, bio_pass, rq_cache>>
          /\ \A q \in Requests : stage'[q] # "free" => stage[q] # "free"
          /\ \A a \in Bios : bstate'[a] = "entered" => bstate[a] = "entered"
      BY <2>1 DEF SchedMerge, TypeOK
    <3> QED BY <3>1 DEF SeenInv, Has
  <2>2. CASE ~SchedMerge(r)
    <3>1. stage[r] # "free"
      BY <1>4, <2>2, StepMoves
    <3>2. PICK s \in Stages \ {"free"}, e \in Entries : Moves(r, s, e) /\ Same(rq_cache[r], e)
      BY <1>4, <2>2, StepMoves
    <3>3. /\ UNCHANGED <<bioOf, enteredAt, bstate, bio_pass>>
          /\ \A q \in Requests : stage'[q] # "free" => stage[q] # "free"
      BY <3>1, <3>2 DEF Moves, Goto, Stamp, Mark, TypeOK
    <3>4. \A q \in Requests : Has(q)' <=> Has(q)
      BY <3>2, MovesStarts
    <3> QED BY <3>3, <3>4 DEF SeenInv, Has
  <2> QED BY <2>1, <2>2
<1>5. ASSUME NEW r \in Requests, AccountIoDone(r) PROVE SeenInv'
  <2>1. /\ UNCHANGED <<bioOf, enteredAt, bio_pass>> /\ stage'[r] = "free"
        /\ \A q \in Requests : q # r => stage'[q] = stage[q] /\ rq_cache'[q] = rq_cache[q]
        /\ \A a \in Bios : bstate'[a] = "entered" => bstate[a] = "entered"
    BY <1>5 DEF AccountIoDone, AfterEmit, TypeOK
  <2> QED BY <2>1 DEF SeenInv, Has
<1>6. CASE Take \/ Horizon
  BY <1>6 DEF Take, Horizon, vars, SeenInv, Has
<1> QED BY <1>1, <1>2, <1>3, <1>4, <1>5, <1>6 DEF Next, InFlightStep

(* When the maps have room for every bio and every request, a request in   *)
(* flight has its entry, whatever earlier lives of its address and of its  *)
(* bio's left behind (bio_pass is never cleaned).                          *)
THEOREM NoRequestUnseen ==
  ASSUME IsFiniteSet(Bios), IsFiniteSet(Requests)
  PROVE  Spec => []NoBlindSpot
<1>1. CASE Unbounded
  <2>1. Init => SeenInv
    BY DEF Init, SeenInv
  <2>2. Inv /\ StartsInv /\ SeenInv /\ [Next]_vars => SeenInv'
    <3>1. CASE UNCHANGED vars
      BY <3>1 DEF vars, SeenInv, Has
    <3> QED BY <1>1, <3>1, SeenStep
  <2>3. ~UsingFilter
    BY <1>1 DEF Unbounded
  <2>4. Spec => []Inv
    BY <2>3, EntryInvariant
  <2>5. SeenInv => NoBlindSpot
    BY DEF SeenInv, NoBlindSpot
  <2> QED BY <2>1, <2>2, <2>4, <2>5, StartsInvariant, PTL DEF Spec
<1>2. CASE ~Unbounded
  <2>1. NoBlindSpot
    BY <1>2 DEF Unbounded, NoBlindSpot
  <2> QED BY <2>1, PTL
<1> QED BY <1>1, <1>2
=============================================================================

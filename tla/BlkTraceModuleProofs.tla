------------------------ MODULE BlkTraceModuleProofs ------------------------
(***************************************************************************)
(* Proofs about the consumer of block_trace.hpp together with the probes,  *)
(* for any number of I/Os and any capacity of maps and ring: no event is   *)
(* lost or counted twice, the columns of a row add up to the life of its   *)
(* I/O, and the whole implements IoReports, so that a life of a request    *)
(* has at most one row.                                                    *)
(***************************************************************************)
EXTENDS BlkTraceModule, BlockTraceProofs

(* To the probes the consumer only takes records from the ring.            *)
LEMMA ConsumerTakes == NextAll => Next
BY DEF NextAll, Next, Account, ConsumeBioEnter, IgnoreUnplugged, DropUndispatched, CommitRow, Next_

LEMMA SpecAllImpliesSpec == SpecAll => Spec
<1>1. InitAll => Init
  BY DEF InitAll
<1>2. [NextAll]_allvars => [Next]_vars
  BY ConsumerTakes DEF allvars, vars
<1> QED BY <1>1, <1>2, PTL DEF SpecAll, Spec

-----------------------------------------------------------------------------
(* The events in the ring are as many as records: two records of the same  *)
(* content would be the same life reported twice.                          *)
CommittedRows == [cols : {Row(e) : e \in Entries}, entry : Entries]

AccountInv ==
  /\ rows \in Seq(CommittedRows)
  /\ heat \in Nat /\ noplug \in Nat /\ ended \in Nat /\ lost \in Nat
  /\ IsFiniteSet(Emitted)
  /\ EveryIoAccounted

LEMMA AppendEvent ==
  ASSUME TypeOK, StartsInv, IsFiniteSet(Emitted), NEW r \in Requests, Has(r),
         blk_log' = Append(blk_log, Record(r))
  PROVE  IsFiniteSet(Emitted') /\ Cardinality(Emitted') = Cardinality(Emitted) + 1
<1> DEFINE n == Len(blk_log)
<1>1. /\ Len(blk_log') = n + 1 /\ n \in Nat /\ blk_log'[n + 1] = Record(r)
      /\ \A k \in 1..n : blk_log'[k] = blk_log[k]
  BY RecordTypes, AppendProperties DEF TypeOK
<1>2. Record(r).type = "rq_trace_event"
  BY DEF Record
<1>3. Emitted' = Emitted \cup {Record(r)}
  <2>1. ASSUME NEW x \in Emitted' PROVE x \in Emitted \cup {Record(r)}
    <3>1. PICK k \in 1..(n + 1) : blk_log'[k].type = "rq_trace_event" /\ x = blk_log'[k]
      BY <1>1, <2>1 DEF Emitted
    <3>2. CASE k = n + 1
      BY <1>1, <3>1, <3>2
    <3>3. CASE k # n + 1
      <4>1. k \in 1..n /\ blk_log'[k] = blk_log[k]
        BY <1>1, <3>1, <3>3
      <4> QED BY <3>1, <4>1 DEF Emitted
    <3> QED BY <3>2, <3>3
  <2>2. ASSUME NEW x \in Emitted PROVE x \in Emitted'
    <3>1. PICK k \in 1..n : blk_log[k].type = "rq_trace_event" /\ x = blk_log[k]
      BY <2>2 DEF Emitted
    <3>2. k \in 1..Len(blk_log') /\ blk_log'[k] = x
      BY <1>1, <3>1
    <3> QED BY <3>1, <3>2 DEF Emitted
  <2>3. Record(r) \in Emitted'
    <3>1. n + 1 \in 1..Len(blk_log')
      BY <1>1
    <3> QED BY <1>1, <1>2, <3>1 DEF Emitted
  <2> QED BY <2>1, <2>2, <2>3
<1>4. Record(r) \notin Emitted
  <2>1. rq_cache[r] \in Entries
    BY DEF TypeOK
  <2>2. Record(r).entry.rq_start = rq_cache[r].rq_start
    BY <2>1 DEF Record, Entries
  <2>3. \A k \in 1..n : IsEvent(k) => blk_log[k].entry.rq_start # rq_cache[r].rq_start
    BY DEF StartsInv, EventStarts
  <2> QED BY <2>2, <2>3 DEF Emitted, IsEvent
<1> QED BY <1>3, <1>4, FS_AddElement

LEMMA SameEvents ==
  ASSUME TypeOK, NothingReported
  PROVE  Emitted' = Emitted
<1>1. \A k : k \in 1..Len(blk_log') /\ blk_log'[k].type = "rq_trace_event" =>
        k \in 1..Len(blk_log) /\ blk_log[k].type = "rq_trace_event" /\ blk_log'[k] = blk_log[k]
  BY RecordTypesOf DEF NothingReported, IsEvent
<1>2. \A k : k \in 1..Len(blk_log) /\ blk_log[k].type = "rq_trace_event" =>
        k \in 1..Len(blk_log') /\ blk_log'[k].type = "rq_trace_event" /\ blk_log'[k] = blk_log[k]
  BY RecordTypesOf DEF NothingReported, IsEvent
<1> QED BY <1>1, <1>2 DEF Emitted

LEMMA TakeEvent ==
  ASSUME TypeOK, StartsInv, IsFiniteSet(Emitted), Take
  PROVE  /\ IsFiniteSet(Emitted')
         /\ Cardinality(Emitted') =
              IF Head(blk_log).type = "rq_trace_event" THEN Cardinality(Emitted) - 1
                                                       ELSE Cardinality(Emitted)
<1> DEFINE n == Len(blk_log)
<1>1. /\ n \in Nat /\ n # 0 /\ Head(blk_log) = blk_log[1] /\ Len(blk_log') = n - 1
      /\ \A k \in 1..(n - 1) : blk_log'[k] = blk_log[k + 1]
  <2>1. blk_log # <<>> /\ blk_log' = Tail(blk_log) /\ blk_log \in Seq(Records)
    BY DEF Take, TypeOK
  <2>2. n \in Nat /\ n # 0
    BY <2>1, EmptySeq
  <2>3. Head(blk_log) = blk_log[1]
    BY <2>1
  <2> QED BY <2>1, <2>2, <2>3, HeadTailProperties
<1>2. \A x : x \in Emitted' <=> \E k \in 2..n : blk_log[k].type = "rq_trace_event" /\ x = blk_log[k]
  <2>1. ASSUME NEW x \in Emitted'
        PROVE  \E k \in 2..n : blk_log[k].type = "rq_trace_event" /\ x = blk_log[k]
    <3>1. PICK k \in 1..(n - 1) : blk_log'[k].type = "rq_trace_event" /\ x = blk_log'[k]
      BY <1>1, <2>1 DEF Emitted
    <3>2. k + 1 \in 2..n /\ blk_log'[k] = blk_log[k + 1]
      BY <1>1, <3>1
    <3> QED BY <3>1, <3>2
  <2>2. ASSUME NEW k \in 2..n, blk_log[k].type = "rq_trace_event" PROVE blk_log[k] \in Emitted'
    <3>1. /\ k - 1 \in 1..(n - 1) /\ (k - 1) + 1 = k
      BY <1>1
    <3>2. blk_log'[k - 1] = blk_log[k]
      BY <1>1, <3>1
    <3> QED BY <1>1, <2>2, <3>1, <3>2 DEF Emitted
  <2> QED BY <2>1, <2>2
<1>3. \A x : x \in Emitted <=> \E k \in 1..n : blk_log[k].type = "rq_trace_event" /\ x = blk_log[k]
  BY DEF Emitted
<1>4. \A k \in 1..n : k = 1 \/ k \in 2..n
  BY <1>1
<1>5. CASE blk_log[1].type = "rq_trace_event"
  <2>1. 1 \in 1..n
    BY <1>1
  <2>2. blk_log[1] \in Emitted
    BY <1>3, <1>5, <2>1
  <2>3. \A k \in 2..n : blk_log[k].type = "rq_trace_event" => blk_log[k] # blk_log[1]
    <3>1. \A k \in 2..n : k \in 1..n /\ k # 1
      BY <1>1
    <3> QED BY <1>5, <2>1, <3>1 DEF StartsInv, EventStarts, IsEvent
  <2>4. Emitted' = Emitted \ {blk_log[1]}
    <3>1. \A k \in 2..n : k \in 1..n
      BY <1>1
    <3> QED BY <1>2, <1>3, <1>4, <2>3, <3>1
  <2> QED BY <1>1, <1>5, <2>2, <2>4, FS_RemoveElement
<1>6. CASE blk_log[1].type # "rq_trace_event"
  <2>1. \A k \in 2..n : k \in 1..n
    BY <1>1
  <2>2. Emitted' = Emitted
    BY <1>2, <1>3, <1>4, <1>6, <2>1, ZenonT(40)
  <2> QED BY <1>1, <1>6, <2>2
<1> QED BY <1>5, <1>6

LEMMA RowTypes ==
  ASSUME TypeOK, blk_log # <<>>, Head(blk_log).type = "rq_trace_event"
  PROVE  /\ Head(blk_log).entry \in Entries
         /\ [cols |-> Row(Head(blk_log).entry), entry |-> Head(blk_log).entry] \in CommittedRows
<1>1. Head(blk_log) \in Records
  BY HeadTailProperties DEF TypeOK
<1>2. Head(blk_log).entry \in Entries
  BY <1>1 DEF Records
<1> QED BY <1>2 DEF CommittedRows

(* The steps that do not report: no event enters or leaves the ring.       *)
LEMMA InFlightKeepsEvents ==
  ASSUME TypeOK, InFlightStep
  PROVE  NothingReported
<1>1. now + 1 \in Nat /\ Len(blk_log) \in Nat
  BY RecordTypesOf
<1>2. ASSUME UNCHANGED blk_log PROVE NothingReported
  BY <1>1, <1>2 DEF NothingReported, IsEvent
<1>3. ASSUME NEW b \in Bios, BioStep(b) PROVE NothingReported
  <2> DEFINE x == [type |-> "bio_enter", bio |-> b, tp |-> now + 1]
  <2>1. x \in Records /\ x.type # "rq_trace_event"
    BY <1>1 DEF Records
  <2>2. blk_log' \in {blk_log, Append(blk_log, x)}
    BY <1>3 DEF BioStep, Submit, BioMerge, BioEnd
  <2> HIDE DEF x
  <2>3. CASE blk_log' = Append(blk_log, x)
    <3>1. /\ Len(blk_log') = Len(blk_log) + 1 /\ blk_log'[Len(blk_log) + 1] = x
          /\ \A k \in 1..Len(blk_log) : blk_log'[k] = blk_log[k]
      BY <2>1, <2>3, AppendProperties DEF TypeOK
    <3> QED BY <1>1, <2>1, <3>1 DEF NothingReported, IsEvent
  <2> QED BY <1>2, <2>2, <2>3
<1>4. ASSUME NEW r \in Requests, NEW b \in Bios, Track(r, b) PROVE NothingReported
  BY <1>2, <1>4 DEF Track
<1>5. ASSUME NEW r \in Requests, NEW b \in Bios, NEW c \in Bios, TrackSplit(r, b, c)
      PROVE  NothingReported
  BY <1>2, <1>5 DEF TrackSplit
<1>6. ASSUME NEW r \in Requests, SubmitStep(r) \/ Complete(r) PROVE NothingReported
  <2>1. CASE SchedMerge(r)
    BY <1>2, <2>1 DEF SchedMerge
  <2>2. CASE ~SchedMerge(r)
    <3>1. \E s \in Stages \ {"free"}, e \in Entries : Moves(r, s, e)
      BY <1>6, <2>2, StepMoves
    <3> QED BY <1>2, <3>1 DEF Moves, Stamp, Mark
  <2> QED BY <2>1, <2>2
<1> QED BY <1>3, <1>4, <1>5, <1>6 DEF InFlightStep

LEMMA AccountStep ==
  ASSUME TypeOK, StartsInv, AccountInv, [NextAll]_allvars
  PROVE  AccountInv'
<1> DEFINE row == [cols |-> Row(Head(blk_log).entry), entry |-> Head(blk_log).entry]
<1>1. /\ rows \in Seq(CommittedRows) /\ Len(rows) \in Nat /\ Len(rows) <= heat
      /\ heat \in Nat /\ noplug \in Nat /\ ended \in Nat /\ lost \in Nat
      /\ IsFiniteSet(Emitted) /\ Cardinality(Emitted) \in Nat
      /\ ended = Cardinality(Emitted) + heat + noplug + lost
  BY FS_CardinalityType DEF AccountInv, EveryIoAccounted
<1>2. ASSUME NothingReported, UNCHANGED consumer PROVE AccountInv'
  <2>1. Emitted' = Emitted
    BY <1>2, SameEvents
  <2> QED BY <1>1, <1>2, <2>1 DEF consumer, AccountInv, EveryIoAccounted
<1>3. ASSUME UNCHANGED blk_log PROVE NothingReported /\ Emitted' = Emitted
  BY <1>3, RecordTypesOf DEF NothingReported, IsEvent, Emitted
<1>4. CASE InFlightStep /\ UNCHANGED consumer
  BY <1>2, <1>4, InFlightKeepsEvents
<1>5. ASSUME NEW r \in Requests, Account(r) PROVE AccountInv'
  <2>1. rows' = rows /\ heat' = heat /\ noplug' = noplug
    BY <1>5 DEF Account
  <2>2. CASE ~Has(r) \/ ~RingRoom
    <3>1. UNCHANGED blk_log /\ Emitted' = Emitted
      BY <1>3, <1>5, <2>2 DEF Account, AccountIoDone
    <3>2. CASE Has(r)
      <4>1. ended' = ended + 1 /\ lost' = lost + 1
        BY <1>5, <2>2, <3>2 DEF Account
      <4> QED BY <1>1, <2>1, <3>1, <4>1 DEF AccountInv, EveryIoAccounted
    <3>3. CASE ~Has(r)
      <4>1. ended' = ended + 0 /\ lost' = lost + 0
        BY <1>5, <3>3 DEF Account
      <4> QED BY <1>1, <2>1, <3>1, <4>1 DEF AccountInv, EveryIoAccounted
    <3> QED BY <3>2, <3>3
  <2>3. CASE Has(r) /\ RingRoom
    <3>1. blk_log' = Append(blk_log, Record(r))
      BY <1>5, <2>3 DEF Account, AccountIoDone
    <3>2. IsFiniteSet(Emitted') /\ Cardinality(Emitted') = Cardinality(Emitted) + 1
      BY <1>1, <2>3, <3>1, AppendEvent
    <3>3. ended' = ended + 1 /\ lost' = lost + 0
      BY <1>5, <2>3 DEF Account
    <3> QED BY <1>1, <2>1, <3>2, <3>3 DEF AccountInv, EveryIoAccounted
  <2> QED BY <2>2, <2>3
<1>6. ASSUME Take
      PROVE  /\ IsFiniteSet(Emitted')
             /\ Cardinality(Emitted') =
                  IF Head(blk_log).type = "rq_trace_event" THEN Cardinality(Emitted) - 1
                                                           ELSE Cardinality(Emitted)
  BY <1>1, <1>6, TakeEvent
<1>7. CASE ConsumeBioEnter
  <2>1. /\ Take /\ Head(blk_log).type # "rq_trace_event"
        /\ UNCHANGED <<rows, heat, noplug, ended, lost>>
    BY <1>7 DEF ConsumeBioEnter, Next_
  <2> QED BY <1>1, <1>6, <2>1 DEF AccountInv, EveryIoAccounted
<1>8. CASE IgnoreUnplugged
  <2>1. /\ Take /\ Head(blk_log).type = "rq_trace_event" /\ noplug' = noplug + 1
        /\ UNCHANGED <<rows, heat, ended, lost>>
    BY <1>8 DEF IgnoreUnplugged, Next_
  <2> QED BY <1>1, <1>6, <2>1 DEF AccountInv, EveryIoAccounted
<1>9. CASE DropUndispatched
  <2>1. /\ Take /\ Head(blk_log).type = "rq_trace_event" /\ heat' = heat + 1
        /\ UNCHANGED <<rows, noplug, ended, lost>>
    BY <1>9 DEF DropUndispatched, Next_
  <2> QED BY <1>1, <1>6, <2>1 DEF AccountInv, EveryIoAccounted
<1>10. CASE CommitRow
  <2>1. /\ Take /\ blk_log # <<>> /\ Head(blk_log).type = "rq_trace_event" /\ heat' = heat + 1
        /\ rows' = Append(rows, row) /\ UNCHANGED <<noplug, ended, lost>>
    BY <1>10 DEF CommitRow, Next_
  <2>2. row \in CommittedRows
    BY <2>1, RowTypes
  <2> HIDE DEF row
  <2>3. rows' \in Seq(CommittedRows) /\ Len(rows') = Len(rows) + 1
    BY <1>1, <2>1, <2>2, AppendProperties
  <2> QED BY <1>1, <1>6, <2>1, <2>3 DEF AccountInv, EveryIoAccounted
<1>11. CASE UNCHANGED allvars \/ (Horizon /\ UNCHANGED consumer)
  BY <1>2, <1>3, <1>11 DEF allvars, vars, consumer, Horizon
<1> QED
  BY <1>4, <1>5, <1>7, <1>8, <1>9, <1>10, <1>11 DEF NextAll

LEMMA AccountInvariant == SpecAll => []AccountInv
<1>1. InitAll => AccountInv
  <2> SUFFICES ASSUME InitAll PROVE AccountInv
    OBVIOUS
  <2>1. Len(blk_log) = 0 /\ rows = <<>>
    BY DEF InitAll, Init, InitConsumer
  <2>2. Emitted = {}
    BY <2>1 DEF Emitted
  <2>3. rows \in Seq(CommittedRows) /\ Len(rows) = 0
    BY <2>1
  <2> QED BY <2>2, <2>3, FS_EmptySet DEF InitAll, InitConsumer, AccountInv, EveryIoAccounted
<1> QED
  BY <1>1, AccountStep, SpecAllImpliesSpec, TypeCorrect, StartsInvariant, PTL DEF SpecAll

(* Between blk_account_io_done and the files no I/O is lost or counted     *)
(* twice: it is in the ring, in the heatmap, was ignored for want of a     *)
(* plug stamp (proxy()) or refused by the full ring.                       *)
THEOREM IosAreAccounted == SpecAll => []EveryIoAccounted
<1>1. AccountInv => EveryIoAccounted
  BY DEF AccountInv
<1> QED BY <1>1, AccountInvariant, PTL

-----------------------------------------------------------------------------
(* The stages of an event whose stamps are in order add up.                *)
LEMMA SmallWord ==
  ASSUME NEW x \in Nat, x < WordSize
  PROVE  x % WordSize = x
BY BlkTraceModuleAssumption, BlockTraceAssumption

LEMMA Telescope ==
  ASSUME NEW e \in Entries, e.plug # 0, e.account_io <= MaxTime, InOrder(e),
         Scheduled(e) \/ Direct(e)
  PROVE  /\ \A x \in {Row(e).alloc_request, Row(e).plug, Row(e).scheduling, Row(e).dispatch,
                      Row(e).exec, Row(e).verify} : x \in 0..MaxTime
         /\ Add(Sum(Row(e)), e.plug - e.rq_start) = e.account_io - e.bio_enter
<1> DEFINE c == Row(e)
<1>1. /\ MaxTime \in Nat /\ WordSize \in Nat /\ WordSize > 2 * MaxTime
  BY BlkTraceModuleAssumption, BlockTraceAssumption
<1>2. /\ e.bio_enter \in Nat /\ e.rq_start \in Nat /\ e.plug \in Nat /\ e.sched \in Nat
      /\ e.dispatch \in Nat /\ e.queue_rq \in Nat /\ e.done \in Nat /\ e.account_io \in Nat
  BY DEF Entries
<1>3. /\ 0 < e.bio_enter /\ e.bio_enter < e.rq_start /\ e.rq_start < e.plug /\ e.plug < e.sched
      /\ e.queue_rq < e.done /\ e.done < e.account_io /\ e.drive # "ERROR"
  BY DEF InOrder
<1>4. \A a, b \in Nat : b <= a => Sub(a, b) = a - b
  BY DEF Sub
<1>5. /\ c.alloc_request = e.rq_start - e.bio_enter
      /\ c.exec = e.done - e.queue_rq /\ c.verify = e.account_io - e.done
  BY <1>2, <1>3, <1>4 DEF Row, ExecStage, VerifyStage
<1>6. c.plug = e.sched - e.plug
  <2>1. e.s_type # "UNKNOWN_SCHEDU"
    BY DEF Scheduled, Direct
  <2> QED BY <1>2, <1>3, <1>4, <2>1 DEF Row, PlugStage
<1>7. /\ c.scheduling \in Nat /\ c.dispatch \in Nat
      /\ c.scheduling + c.dispatch = e.queue_rq - e.sched
  <2>1. CASE Direct(e)
    <3>1. e.sched < e.queue_rq
      BY <2>1 DEF InOrder
    <3>2. c.scheduling = 0
      BY <2>1 DEF Direct, Row, SchedStage
    <3>3. c.dispatch = e.queue_rq - e.sched
      BY <1>2, <1>4, <2>1, <3>1 DEF Direct, Row, DispatchStage
    <3> QED BY <1>2, <3>1, <3>2, <3>3
  <2>2. CASE Scheduled(e)
    <3>1. /\ e.s_type # "NO_SCHEDU" /\ e.s_type # "UNKNOWN_SCHEDU"
          /\ e.d_type # "DIRECT_DISPATCH"
      BY <2>2 DEF Scheduled
    <3>2. e.sched < e.dispatch /\ e.dispatch < e.queue_rq
      BY <3>1 DEF InOrder, Direct
    <3>3. c.scheduling = e.dispatch - e.sched
      BY <1>2, <1>4, <3>1, <3>2 DEF Row, SchedStage
    <3>4. c.dispatch = e.queue_rq - e.dispatch
      BY <1>2, <1>4, <3>1, <3>2 DEF Row, DispatchStage
    <3> QED BY <1>2, <3>2, <3>3, <3>4
  <2> QED BY <2>1, <2>2
<1>8. \A x \in {c.alloc_request, c.plug, c.scheduling, c.dispatch, c.exec, c.verify} :
        x \in 0..MaxTime
  <2>1. c.alloc_request \in 0..MaxTime /\ c.exec \in 0..MaxTime /\ c.verify \in 0..MaxTime
    BY <1>1, <1>2, <1>3, <1>5, <1>7
  <2>2. c.plug \in 0..MaxTime /\ c.scheduling \in 0..MaxTime /\ c.dispatch \in 0..MaxTime
    BY <1>1, <1>2, <1>3, <1>6, <1>7
  <2> HIDE DEF c
  <2> QED BY <2>1, <2>2
<1>9. \A a, b \in Nat : a + b <= MaxTime => Add(a, b) = a + b /\ a + b \in Nat
  <2> SUFFICES ASSUME NEW a \in Nat, NEW b \in Nat, a + b <= MaxTime
               PROVE  Add(a, b) = a + b /\ a + b \in Nat
    OBVIOUS
  <2>1. a + b \in Nat /\ a + b < WordSize
    BY <1>1
  <2> QED BY <2>1, SmallWord DEF Add
<1>10. Sum(c) = e.account_io - e.bio_enter - (e.plug - e.rq_start)
  <2> HIDE DEF c
  <2>1. Add(c.exec, c.verify) = e.account_io - e.queue_rq
    BY <1>1, <1>2, <1>3, <1>5, <1>7, <1>9, SMTT(30)
  <2>2. Add(c.dispatch, Add(c.exec, c.verify)) = c.dispatch + (e.account_io - e.queue_rq)
    BY <1>1, <1>2, <1>3, <1>7, <1>9, <2>1
  <2>3. Add(c.scheduling, Add(c.dispatch, Add(c.exec, c.verify))) = e.account_io - e.sched
    BY <1>1, <1>2, <1>3, <1>7, <1>9, <2>2
  <2>4. Add(c.plug, Add(c.scheduling, Add(c.dispatch, Add(c.exec, c.verify))))
          = e.account_io - e.plug
    BY <1>1, <1>2, <1>3, <1>6, <1>7, <1>9, <2>3
  <2> QED BY <1>1, <1>2, <1>3, <1>5, <1>7, <1>9, <2>4 DEF Sum
<1>11. Add(Sum(c), e.plug - e.rq_start) = e.account_io - e.bio_enter
  <2> HIDE DEF c
  <2>1. Sum(c) \in Nat /\ e.plug - e.rq_start \in Nat
    BY <1>2, <1>3, <1>7, <1>10
  <2>2. Sum(c) + (e.plug - e.rq_start) = e.account_io - e.bio_enter
    BY <1>2, <1>10
  <2>3. Sum(c) + (e.plug - e.rq_start) <= MaxTime
    BY <1>1, <1>2, <1>3, <2>2
  <2> QED BY <1>9, <2>1, <2>2, <2>3
<1> QED BY <1>8, <1>11

(* The clock of an event and of a row is within the horizon, and a row is  *)
(* computed from the event kept with it, whose stamps are in order.        *)
ClockInv ==
  /\ now <= MaxTime
  /\ \A k \in 1..Len(blk_log) : IsEvent(k) => blk_log[k].entry.account_io <= MaxTime
RowOK(x) ==
  /\ x.entry \in Entries /\ x.cols = Row(x.entry)
  /\ x.entry.plug # 0 /\ x.entry.account_io <= MaxTime
  /\ Scheduled(x.entry) \/ Direct(x.entry) => InOrder(x.entry)
RowsInv ==
  /\ rows \in Seq(CommittedRows)
  /\ \A i \in 1..Len(rows) : RowOK(rows[i])

LEMMA ClockStep ==
  ASSUME TypeOK, ClockInv, [Next]_vars
  PROVE  ClockInv'
<1>1. now \in Nat /\ Len(blk_log) \in Nat /\ MaxTime \in Nat
  BY RecordTypesOf, BlockTraceAssumption
<1>2. ASSUME NothingReported, now' <= MaxTime PROVE ClockInv'
  <2>1. \A k \in 1..Len(blk_log') : IsEvent(k)' =>
          k \in 1..Len(blk_log) /\ IsEvent(k) /\ blk_log'[k] = blk_log[k]
    BY <1>1, <1>2 DEF NothingReported, IsEvent
  <2> QED BY <1>2, <2>1 DEF ClockInv, IsEvent
<1>3. ASSUME UNCHANGED blk_log PROVE NothingReported
  BY <1>1, <1>3 DEF NothingReported, IsEvent
<1>4. CASE InFlightStep
  <2>1. now' = now \/ Tick
    <3>1. ASSUME NEW r \in Requests, SubmitStep(r) \/ Complete(r) PROVE now' = now \/ Tick
      <4>1. CASE SchedMerge(r)
        BY <4>1 DEF SchedMerge
      <4>2. CASE ~SchedMerge(r)
        <5>1. \E s \in Stages \ {"free"}, e \in Entries : Moves(r, s, e)
          BY <3>1, <4>2, StepMoves
        <5> QED BY <5>1 DEF Moves, Stamp, Mark
      <4> QED BY <4>1, <4>2
    <3>2. ASSUME NEW b \in Bios, BioStep(b) PROVE now' = now \/ Tick
      BY <3>2 DEF BioStep, Submit, BioMerge, BioEnd
    <3>3. ASSUME NEW r \in Requests, NEW b \in Bios, Track(r, b) PROVE Tick
      BY <3>3 DEF Track
    <3>4. ASSUME NEW r \in Requests, NEW b \in Bios, NEW c \in Bios, TrackSplit(r, b, c)
          PROVE  Tick
      BY <3>4 DEF TrackSplit
    <3> QED BY <1>4, <3>1, <3>2, <3>3, <3>4 DEF InFlightStep
  <2>2. now' <= MaxTime
    BY <1>1, <2>1 DEF Tick, ClockInv
  <2> QED BY <1>2, <1>4, <2>2, InFlightKeepsEvents
<1>5. ASSUME NEW r \in Requests, AccountIoDone(r) PROVE ClockInv'
  <2>1. now' <= MaxTime
    BY <1>1, <1>5 DEF AccountIoDone, Tick, ClockInv
  <2>2. CASE UNCHANGED blk_log
    BY <1>2, <1>3, <2>1, <2>2
  <2>3. CASE Tick /\ blk_log' = Append(blk_log, Record(r))
    <3>1. /\ Len(blk_log') = Len(blk_log) + 1 /\ blk_log'[Len(blk_log) + 1] = Record(r)
          /\ \A k \in 1..Len(blk_log) : blk_log'[k] = blk_log[k]
      BY <2>3, RecordTypes, AppendProperties DEF TypeOK
    <3>2. Record(r).entry.account_io = now + 1
      <4>1. rq_cache[r] \in Entries
        BY DEF TypeOK
      <4> QED BY <4>1 DEF Record, Entries
    <3>3. now + 1 <= MaxTime
      BY <1>1, <2>3 DEF Tick
    <3>4. ASSUME NEW k \in 1..Len(blk_log'), IsEvent(k)'
          PROVE  blk_log'[k].entry.account_io <= MaxTime
      <4>1. CASE k = Len(blk_log) + 1
        BY <3>1, <3>2, <3>3, <4>1
      <4>2. CASE k # Len(blk_log) + 1
        <5>1. k \in 1..Len(blk_log) /\ blk_log'[k] = blk_log[k]
          BY <1>1, <3>1, <4>2
        <5> QED BY <3>4, <5>1 DEF ClockInv, IsEvent
      <4> QED BY <4>1, <4>2
    <3> QED BY <2>1, <3>4 DEF ClockInv, IsEvent
  <2> QED BY <1>5, <2>2, <2>3 DEF AccountIoDone
<1>6. CASE Take
  <2>1. /\ Len(blk_log') = Len(blk_log) - 1 /\ now' = now
        /\ \A k \in 1..Len(blk_log') : blk_log'[k] = blk_log[k + 1]
    BY <1>6, HeadTailProperties DEF Take, TypeOK
  <2>2. \A k \in 1..Len(blk_log') : k + 1 \in 1..Len(blk_log)
    BY <1>1, <2>1
  <2> QED BY <2>1, <2>2 DEF ClockInv, IsEvent
<1>7. CASE UNCHANGED vars \/ Horizon
  <2>1. UNCHANGED blk_log /\ now' <= MaxTime
    BY <1>7 DEF vars, Horizon, ClockInv
  <2> QED BY <1>2, <1>3, <2>1
<1> QED BY <1>4, <1>5, <1>6, <1>7 DEF Next

THEOREM ClockInvariant == Spec => []ClockInv
<1>1. Init => ClockInv
  BY BlockTraceAssumption DEF Init, ClockInv
<1> QED BY <1>1, ClockStep, TypeCorrect, PTL DEF Spec

LEMMA RowsStep ==
  ASSUME TypeOK, Inv, ClockInv, RowsInv, [NextAll]_allvars
  PROVE  RowsInv'
<1> DEFINE e == Head(blk_log).entry
           row == [cols |-> Row(e), entry |-> e]
<1>1. CASE UNCHANGED rows
  BY <1>1 DEF RowsInv
<1>2. CASE CommitRow
  <2>1. /\ blk_log # <<>> /\ Head(blk_log).type = "rq_trace_event" /\ e.plug # 0
        /\ rows' = Append(rows, row)
    BY <1>2 DEF CommitRow, Next_
  <2>2. e \in Entries /\ row \in CommittedRows
    BY <2>1, RowTypes
  <2>3. 1 \in 1..Len(blk_log) /\ Head(blk_log) = blk_log[1]
    <3>1. blk_log \in Seq(Records) /\ blk_log # <<>>
      BY <2>1 DEF TypeOK
    <3> QED BY <3>1, EmptySeq
  <2>4. e.account_io <= MaxTime /\ (Scheduled(e) \/ Direct(e) => InOrder(e))
    BY <2>1, <2>3 DEF ClockInv, IsEvent, Inv, LogOK, EventOK
  <2>5. RowOK(row)
    BY <2>1, <2>2, <2>4 DEF RowOK
  <2> HIDE DEF row
  <2>6. /\ rows' \in Seq(CommittedRows) /\ Len(rows') = Len(rows) + 1
        /\ \A i \in 1..Len(rows) : rows'[i] = rows[i]
        /\ rows'[Len(rows) + 1] = row /\ Len(rows) \in Nat
    BY <2>1, <2>2, AppendProperties DEF RowsInv
  <2>7. ASSUME NEW i \in 1..Len(rows') PROVE RowOK(rows'[i])
    <3>1. CASE i = Len(rows) + 1
      BY <2>5, <2>6, <3>1
    <3>2. CASE i # Len(rows) + 1
      <4>1. i \in 1..Len(rows) /\ rows'[i] = rows[i]
        BY <2>6, <3>2
      <4> QED BY <4>1 DEF RowsInv
    <3> QED BY <3>1, <3>2
  <2> QED BY <2>6, <2>7 DEF RowsInv, RowOK
<1>3. UNCHANGED rows \/ CommitRow
  BY DEF NextAll, allvars, consumer, Account, ConsumeBioEnter, IgnoreUnplugged, DropUndispatched
<1> QED BY <1>1, <1>2, <1>3

(* Without a filter the latencies of a row are the differences between     *)
(* consecutive stamps of one I/O: none wraps, and with the time before the *)
(* plug they add up to its life (do_event, process_blk_event).             *)
THEOREM RowsTelescope == ASSUME ~UsingFilter PROVE SpecAll => []RowTelescopes
<1>1. InitAll => RowsInv
  BY EmptySeq DEF InitAll, InitConsumer, RowsInv
<1>2. RowsInv => RowTelescopes
  <2> SUFFICES ASSUME RowsInv, NEW i \in 1..Len(rows),
                      Scheduled(rows[i].entry) \/ Direct(rows[i].entry)
               PROVE  LET e == rows[i].entry
                          c == rows[i].cols
                      IN /\ \A x \in {c.alloc_request, c.plug, c.scheduling, c.dispatch,
                                      c.exec, c.verify} : x \in 0..MaxTime
                         /\ Add(Sum(c), e.plug - e.rq_start) = e.account_io - e.bio_enter
    BY DEF RowTelescopes
  <2> DEFINE e == rows[i].entry
  <2>1. /\ e \in Entries /\ rows[i].cols = Row(e) /\ e.plug # 0 /\ e.account_io <= MaxTime
        /\ InOrder(e)
    BY DEF RowsInv, RowOK
  <2> QED BY <2>1, Telescope
<1>3. Spec => []Inv
  BY EntryInvariant
<1> QED
  BY <1>1, <1>2, <1>3, RowsStep, ClockInvariant, SpecAllImpliesSpec, TypeCorrect, PTL
  DEF SpecAll

-----------------------------------------------------------------------------
(* The refinement of IoReports: what the steps do to the starts of lives.  *)
LEMMA StartTypes ==
  ASSUME TypeOK
  PROVE  /\ now \in Nat /\ Len(blk_log) \in Nat
         /\ OpenStarts \in [Requests -> Nat]
         /\ \A x \in Records : StartOf(x) \in Nat
         /\ RingStarts \in Seq(Nat) /\ Len(RingStarts) = Len(blk_log)
         /\ \A k \in 1..Len(blk_log) : RingStarts[k] = StartOf(blk_log[k])
<1>1. /\ now \in Nat /\ Len(blk_log) \in Nat
      /\ \A r \in Requests : rq_cache[r].rq_start \in Nat
  BY RecordTypesOf
<1>2. OpenStarts \in [Requests -> Nat]
  BY <1>1 DEF OpenStarts
<1>3. ASSUME NEW x \in Records PROVE StartOf(x) \in Nat
  BY <1>3 DEF Records, Entries, StartOf
<1>4. \A k \in 1..Len(blk_log) : blk_log[k] \in Records
  BY DEF TypeOK
<1>5. RingStarts \in [1..Len(blk_log) -> Nat]
  BY <1>3, <1>4 DEF RingStarts
<1>6. /\ RingStarts \in Seq(Nat) /\ Len(RingStarts) = Len(blk_log)
      /\ \A k \in 1..Len(blk_log) : RingStarts[k] = StartOf(blk_log[k])
  BY <1>1, <1>5 DEF RingStarts
<1> QED BY <1>1, <1>2, <1>3, <1>6

LEMMA RingAppend ==
  ASSUME TypeOK, NEW x \in Records, blk_log' = Append(blk_log, x)
  PROVE  RingStarts' = Append(RingStarts, StartOf(x))
<1> DEFINE n == Len(blk_log)
<1>1. /\ n \in Nat /\ Len(blk_log') = n + 1 /\ blk_log'[n + 1] = x
      /\ \A k \in 1..n : blk_log'[k] = blk_log[k]
  BY AppendProperties DEF TypeOK
<1>2. /\ RingStarts \in Seq(Nat) /\ Len(RingStarts) = n /\ StartOf(x) \in Nat
      /\ \A k \in 1..n : RingStarts[k] = StartOf(blk_log[k])
  BY StartTypes
<1> DEFINE t == Append(RingStarts, StartOf(x))
<1>3. /\ t \in Seq(Nat) /\ Len(t) = n + 1 /\ t[n + 1] = StartOf(x)
      /\ \A k \in 1..n : t[k] = RingStarts[k]
  BY <1>2, AppendProperties
<1> HIDE DEF t
<1>4. t = [k \in 1..(n + 1) |-> t[k]]
  <2>1. t \in [1..Len(t) -> Nat] BY <1>3, LenProperties
  <2> QED BY <1>3, <2>1
<1>5. \A k \in 1..(n + 1) : StartOf(blk_log'[k]) = t[k]
  <2> SUFFICES ASSUME NEW k \in 1..(n + 1) PROVE StartOf(blk_log'[k]) = t[k]
    OBVIOUS
  <2>1. CASE k = n + 1
    BY <1>1, <1>3, <2>1
  <2>2. CASE k # n + 1
    <3>1. k \in 1..n
      BY <1>1, <2>2
    <3> QED BY <1>1, <1>2, <1>3, <3>1
  <2> QED BY <2>1, <2>2
<1>6. RingStarts' = [k \in 1..(n + 1) |-> StartOf(blk_log'[k])]
  BY <1>1 DEF RingStarts, StartOf
<1>7. RingStarts' = [k \in 1..(n + 1) |-> t[k]]
  BY <1>5, <1>6
<1> QED BY <1>4, <1>7 DEF t

LEMMA RingTake ==
  ASSUME TypeOK, Take
  PROVE  /\ RingStarts # <<>> /\ Head(RingStarts) = StartOf(Head(blk_log))
         /\ RingStarts' = Tail(RingStarts)
         /\ UNCHANGED <<now, OpenStarts>>
<1> DEFINE n == Len(blk_log)
<1>1. /\ n \in Nat /\ n # 0 /\ Head(blk_log) = blk_log[1] /\ Len(blk_log') = n - 1
      /\ \A k \in 1..(n - 1) : blk_log'[k] = blk_log[k + 1]
  <2>1. blk_log # <<>> /\ blk_log' = Tail(blk_log) /\ blk_log \in Seq(Records)
    BY DEF Take, TypeOK
  <2>2. n \in Nat /\ n # 0
    BY <2>1, EmptySeq
  <2>3. Head(blk_log) = blk_log[1]
    BY <2>1
  <2> QED BY <2>1, <2>2, <2>3, HeadTailProperties
<1>2. /\ RingStarts \in Seq(Nat) /\ Len(RingStarts) = n
      /\ \A k \in 1..n : RingStarts[k] = StartOf(blk_log[k])
  BY StartTypes
<1>3. RingStarts # <<>>
  BY <1>1, <1>2
<1>4. Head(RingStarts) = RingStarts[1] /\ 1 \in 1..n
  BY <1>1, <1>2, <1>3
<1> DEFINE t == Tail(RingStarts)
<1>5. /\ t \in Seq(Nat) /\ Len(t) = n - 1 /\ \A k \in 1..(n - 1) : t[k] = RingStarts[k + 1]
  BY <1>2, <1>3, HeadTailProperties
<1> HIDE DEF t
<1>6. t = [k \in 1..(n - 1) |-> t[k]]
  <2>1. t \in [1..Len(t) -> Nat] BY <1>5, LenProperties
  <2> QED BY <1>5, <2>1
<1>7. \A k \in 1..(n - 1) : StartOf(blk_log'[k]) = t[k]
  <2>1. \A k \in 1..(n - 1) : k + 1 \in 1..n
    BY <1>1
  <2> QED BY <1>1, <1>2, <1>5, <2>1
<1>8. RingStarts' = [k \in 1..(n - 1) |-> StartOf(blk_log'[k])]
  BY <1>1 DEF RingStarts, StartOf
<1>9. RingStarts' = t
  BY <1>6, <1>7, <1>8
<1>10. UNCHANGED <<now, OpenStarts>>
  BY DEF Take, OpenStarts
<1> QED BY <1>1, <1>2, <1>3, <1>4, <1>9, <1>10 DEF t

(* The ring is only appended to or taken from: without either, and with    *)
(* the starts in rq_cache as they were, nothing happened but time passing. *)
LEMMA Quiet ==
  ASSUME UNCHANGED <<blk_log, rows>>, now' \in {now, now + 1},
         \A r \in Requests : rq_cache'[r].rq_start = rq_cache[r].rq_start
  PROVE  [Reports!IoNext]_Reports!ioVars
<1>1. OpenStarts' = OpenStarts
  BY DEF OpenStarts
<1>2. RingStarts' = RingStarts /\ RowStarts' = RowStarts
  BY DEF RingStarts, StartOf, RowStarts
<1> QED BY <1>1, <1>2 DEF Reports!IoNext, Reports!ioVars, Reports!Advance

LEMMA TrackReports ==
  ASSUME TypeOK, NEW r \in Requests, NEW b \in Bios, NEW own, TrackProbe(r, b, own),
         now' = now + 1, UNCHANGED <<blk_log, rows>>
  PROVE  [Reports!IoNext]_Reports!ioVars
<1>1. NoEntry.rq_start = 0 /\ NewEntry(b).rq_start = now + 1
  BY DEF NoEntry, NewEntry
<1>2. CASE rq_cache' = rq_cache
  BY <1>2, Quiet
<1>3. ASSUME NEW e \in {NoEntry, NewEntry(b)}, rq_cache' = [rq_cache EXCEPT ![r] = e]
      PROVE  Reports!Allocate(r)
  <2>1. e.rq_start \in {0, now + 1}
    BY <1>1
  <2>2. OpenStarts' = [OpenStarts EXCEPT ![r] = e.rq_start]
    BY <1>3 DEF OpenStarts, TypeOK
  <2>3. RingStarts' = RingStarts /\ RowStarts' = RowStarts
    BY DEF RingStarts, StartOf, RowStarts
  <2> QED BY <2>1, <2>2, <2>3 DEF Reports!Allocate
<1>4. rq_cache' = rq_cache \/ \E e \in {NoEntry, NewEntry(b)} : rq_cache' = [rq_cache EXCEPT ![r] = e]
  BY DEF TrackProbe
<1> QED BY <1>2, <1>3, <1>4 DEF Reports!IoNext

LEMMA InFlightReports ==
  ASSUME TypeOK, StartsInv, InFlightStep, UNCHANGED rows
  PROVE  [Reports!IoNext]_Reports!ioVars
<1>1. now \in Nat /\ RowStarts' = RowStarts
  BY StartTypes DEF RowStarts
<1>2. ASSUME NEW b \in Bios, BioStep(b) PROVE [Reports!IoNext]_Reports!ioVars
  <2> DEFINE x == [type |-> "bio_enter", bio |-> b, tp |-> now + 1]
  <2>1. x \in Records /\ StartOf(x) = 0
    BY <1>1 DEF Records, StartOf
  <2>2. \/ UNCHANGED blk_log /\ now' \in {now, now + 1}
        \/ blk_log' = Append(blk_log, x) /\ now' = now + 1
    BY <1>2 DEF BioStep, Submit, BioMerge, BioEnd, Tick
  <2>3. UNCHANGED rq_cache
    BY <1>2 DEF BioStep, Submit, BioMerge, BioEnd
  <2> HIDE DEF x
  <2>4. CASE blk_log' = Append(blk_log, x) /\ now' = now + 1
    <3>1. RingStarts' = Append(RingStarts, 0)
      BY <2>1, <2>4, RingAppend
    <3>2. OpenStarts' = OpenStarts
      BY <2>3 DEF OpenStarts
    <3> QED BY <1>1, <2>4, <3>1, <3>2 DEF Reports!IoNext, Reports!OtherTraffic
  <2> QED BY <2>2, <2>3, <2>4, Quiet
<1>3. ASSUME NEW r \in Requests, NEW b \in Bios, Track(r, b)
      PROVE  [Reports!IoNext]_Reports!ioVars
  BY <1>3, TrackReports DEF Track, Tick
<1>4. ASSUME NEW r \in Requests, NEW b \in Bios, NEW c \in Bios, TrackSplit(r, b, c)
      PROVE  [Reports!IoNext]_Reports!ioVars
  BY <1>4, TrackReports DEF TrackSplit, Tick
<1>5. ASSUME NEW r \in Requests, SubmitStep(r) \/ Complete(r)
      PROVE  [Reports!IoNext]_Reports!ioVars
  <2>1. CASE SchedMerge(r)
    BY <2>1, Quiet DEF SchedMerge
  <2>2. CASE ~SchedMerge(r)
    <3>1. PICK s \in Stages \ {"free"}, e \in Entries : Moves(r, s, e) /\ Same(rq_cache[r], e)
      BY <1>5, <2>2, StepMoves
    <3>2. UNCHANGED blk_log /\ \A q \in Requests : rq_cache'[q].rq_start = rq_cache[q].rq_start
      BY <3>1, MovesStarts
    <3>3. now' \in {now, now + 1}
      BY <3>1 DEF Moves, Stamp, Mark, Tick
    <3> QED BY <3>2, <3>3, Quiet
  <2> QED BY <2>1, <2>2
<1> QED BY <1>2, <1>3, <1>4, <1>5 DEF InFlightStep

LEMMA AccountReports ==
  ASSUME TypeOK, StartsInv, NEW r \in Requests, Account(r)
  PROVE  [Reports!IoNext]_Reports!ioVars
<1> DEFINE e == [rq_cache[r] EXCEPT !.account_io = now + 1]
<1>1. e \in Entries /\ e.rq_start = rq_cache[r].rq_start /\ rq_cache[r] \in Entries
  <2>1. rq_cache[r] \in Entries
    BY DEF TypeOK
  <2> QED BY <2>1, RecordTypes DEF Entries
<1>2. UNCHANGED rows /\ RowStarts' = RowStarts
  BY DEF Account, RowStarts
<1>3. CASE ~Has(r) /\ UNCHANGED <<now, rq_cache, blk_log>>
  BY <1>2, <1>3, Quiet
<1>4. CASE Tick /\ rq_cache' = [rq_cache EXCEPT ![r] = e] /\ UNCHANGED blk_log
  <2>1. \A q \in Requests : rq_cache'[q].rq_start = rq_cache[q].rq_start
    BY <1>1, <1>4 DEF TypeOK
  <2> QED BY <1>2, <1>4, <2>1, Quiet DEF Tick
<1>5. CASE /\ Has(r) /\ Tick /\ rq_cache' = AfterEmit(r)
           /\ blk_log' = Append(blk_log, Record(r))
  <2>1. OpenStarts[r] # 0 /\ StartOf(Record(r)) = OpenStarts[r]
    BY <1>1, <1>5 DEF StartsInv, CacheStarts, OpenStarts, StartOf, Record
  <2>2. RingStarts' = Append(RingStarts, OpenStarts[r])
    BY <1>5, <2>1, RecordTypes, RingAppend
  <2>3. OpenStarts' = [OpenStarts EXCEPT ![r] = 0]
    <3>1. NoEntry.rq_start = 0
      BY DEF NoEntry
    <3> QED BY <1>5, <3>1 DEF OpenStarts, AfterEmit, TypeOK
  <2> QED BY <1>2, <1>5, <2>1, <2>2, <2>3 DEF Reports!IoNext, Reports!Report, Tick
<1> QED BY <1>3, <1>4, <1>5 DEF Account, AccountIoDone

LEMMA RowAppend ==
  ASSUME rows \in Seq(CommittedRows), NEW x \in CommittedRows, rows' = Append(rows, x)
  PROVE  RowStarts' = Append(RowStarts, x.entry.rq_start)
<1> DEFINE n == Len(rows)
           start == x.entry.rq_start
<1>1. /\ n \in Nat /\ Len(rows') = n + 1 /\ rows'[n + 1] = x
      /\ \A k \in 1..n : rows'[k] = rows[k] /\ rows[k] \in CommittedRows
  BY AppendProperties
<1>2. \A y \in CommittedRows : y.entry.rq_start \in Nat
  BY DEF CommittedRows, Entries
<1>3. RowStarts \in [1..n -> Nat]
  BY <1>1, <1>2 DEF RowStarts
<1>4. /\ RowStarts \in Seq(Nat) /\ Len(RowStarts) = n /\ start \in Nat
      /\ \A k \in 1..n : RowStarts[k] = rows[k].entry.rq_start
  BY <1>1, <1>2, <1>3 DEF RowStarts
<1> DEFINE t == Append(RowStarts, start)
<1>5. /\ t \in Seq(Nat) /\ Len(t) = n + 1 /\ t[n + 1] = start
      /\ \A k \in 1..n : t[k] = RowStarts[k]
  BY <1>4, AppendProperties
<1> HIDE DEF t
<1>6. t = [k \in 1..(n + 1) |-> t[k]]
  <2>1. t \in [1..Len(t) -> Nat]
    BY <1>5, LenProperties
  <2> QED BY <1>5, <2>1
<1>7. \A k \in 1..(n + 1) : rows'[k].entry.rq_start = t[k]
  <2> SUFFICES ASSUME NEW k \in 1..(n + 1) PROVE rows'[k].entry.rq_start = t[k]
    OBVIOUS
  <2>1. CASE k = n + 1
    BY <1>1, <1>5, <2>1
  <2>2. CASE k # n + 1
    <3>1. k \in 1..n
      BY <1>1, <2>2
    <3> QED BY <1>1, <1>4, <1>5, <3>1
  <2> QED BY <2>1, <2>2
<1>8. RowStarts' = [k \in 1..(n + 1) |-> rows'[k].entry.rq_start]
  BY <1>1 DEF RowStarts
<1> QED BY <1>6, <1>7, <1>8 DEF t

LEMMA StepReports ==
  ASSUME TypeOK, StartsInv, AccountInv, [NextAll]_allvars
  PROVE  [Reports!IoNext]_Reports!ioVars
<1> DEFINE e == Head(blk_log).entry
           row == [cols |-> Row(e), entry |-> e]
<1>1. CASE InFlightStep /\ UNCHANGED consumer
  BY <1>1, InFlightReports DEF consumer
<1>2. ASSUME NEW r \in Requests, Account(r) PROVE [Reports!IoNext]_Reports!ioVars
  BY <1>2, AccountReports
<1>3. CASE ConsumeBioEnter \/ IgnoreUnplugged \/ DropUndispatched
  <2>1. Take /\ UNCHANGED rows
    BY <1>3 DEF ConsumeBioEnter, IgnoreUnplugged, DropUndispatched, Next_
  <2>2. RowStarts' = RowStarts
    BY <2>1 DEF RowStarts
  <2> QED BY <2>1, <2>2, RingTake DEF Reports!IoNext, Reports!Discard
<1>4. CASE CommitRow
  <2>1. /\ Take /\ blk_log # <<>> /\ Head(blk_log).type = "rq_trace_event"
        /\ rows' = Append(rows, row)
    BY <1>4 DEF CommitRow, Next_
  <2>2. row \in CommittedRows
    BY <2>1, RowTypes
  <2>3. StartOf(Head(blk_log)) = e.rq_start /\ row.entry.rq_start = e.rq_start
    BY <2>1 DEF StartOf
  <2> HIDE DEF row
  <2>4. RowStarts' = Append(RowStarts, e.rq_start)
    BY <2>1, <2>2, <2>3, RowAppend DEF AccountInv
  <2>5. Head(blk_log) = blk_log[1] /\ 1 \in 1..Len(blk_log)
    <3>1. blk_log \in Seq(Records) /\ blk_log # <<>>
      BY <2>1 DEF TypeOK
    <3> QED BY <3>1, EmptySeq
  <2>6. e.rq_start # 0
    BY <2>1, <2>5 DEF StartsInv, EventStarts, IsEvent
  <2> HIDE DEF e
  <2> QED BY <2>1, <2>3, <2>4, <2>6, RingTake DEF Reports!IoNext, Reports!Deliver
<1>5. CASE UNCHANGED allvars \/ (Horizon /\ UNCHANGED consumer)
  <2>1. UNCHANGED <<now, rq_cache, blk_log, rows>>
    BY <1>5 DEF allvars, vars, consumer, Horizon
  <2> QED BY <2>1, Quiet
<1> QED BY <1>1, <1>2, <1>3, <1>4, <1>5 DEF NextAll

(* The probes and the consumer, with a filter or without, implement        *)
(* IoReports: what reaches the files is a selection of the lives that were *)
(* traced, each reported at most once (block_trace.bpf.c, proxy()).        *)
THEOREM RowsImplementReports == SpecAll => IoReportsSpec
<1>1. InitAll => Reports!IoInit
  <2> SUFFICES ASSUME InitAll PROVE Reports!IoInit
    OBVIOUS
  <2>1. now = 0 /\ blk_log = <<>> /\ rows = <<>> /\ rq_cache = [r \in Requests |-> NoEntry]
    BY DEF InitAll, Init, InitConsumer
  <2>2. RingStarts = <<>> /\ RowStarts = <<>>
    BY <2>1 DEF RingStarts, RowStarts
  <2>3. OpenStarts = [r \in Requests |-> 0]
    BY <2>1 DEF OpenStarts, NoEntry
  <2> QED BY <2>1, <2>2, <2>3 DEF Reports!IoInit
<1> QED
  BY <1>1, StepReports, AccountInvariant, SpecAllImpliesSpec, TypeCorrect, StartsInvariant, PTL
  DEF SpecAll, IoReportsSpec, Reports!IoSpec

-----------------------------------------------------------------------------
(* What IoReports promises follows from its own steps alone: the start of  *)
(* a life is in one place, rq_cache, the ring or a row.                    *)
ReportTypes ==
  /\ now \in Nat /\ OpenStarts \in [Requests -> Nat]
  /\ RingStarts \in Seq(Nat) /\ RowStarts \in Seq(Nat)
InThePast ==
  /\ \A r \in Requests : OpenStarts[r] <= now
  /\ \A k \in 1..Len(RingStarts) : RingStarts[k] <= now
  /\ \A i \in 1..Len(RowStarts) : RowStarts[i] # 0 /\ RowStarts[i] <= now
OneReportPerLife ==
  /\ \A r \in Requests, q \in Requests :
       q # r /\ OpenStarts[r] # 0 => OpenStarts[q] # OpenStarts[r]
  /\ \A k \in 1..Len(RingStarts) : RingStarts[k] # 0 =>
       /\ \A j \in 1..Len(RingStarts) : j # k => RingStarts[j] # RingStarts[k]
       /\ \A r \in Requests : OpenStarts[r] # RingStarts[k]
ReportInv == ReportTypes /\ InThePast /\ OneReportPerLife /\ OneRowPerLife

(* What appending a start to the ring or to the rows, or taking the oldest *)
(* of the ring, does to the positions.                                     *)
LEMMA GrownBy ==
  ASSUME NEW s \in Seq(Nat), NEW v \in Nat
  PROVE  /\ Append(s, v) \in Seq(Nat)
         /\ \A k \in 1..Len(Append(s, v)) :
              \/ k \in 1..Len(s) /\ Append(s, v)[k] = s[k]
              \/ k = Len(s) + 1 /\ Append(s, v)[k] = v
<1>1. /\ Append(s, v) \in Seq(Nat) /\ Len(Append(s, v)) = Len(s) + 1 /\ Len(s) \in Nat
      /\ Append(s, v)[Len(s) + 1] = v /\ \A k \in 1..Len(s) : Append(s, v)[k] = s[k]
  BY AppendProperties
<1>2. \A k \in 1..(Len(s) + 1) : k \in 1..Len(s) \/ k = Len(s) + 1
  BY <1>1
<1> QED BY <1>1, <1>2

LEMMA ShiftedBy ==
  ASSUME NEW s \in Seq(Nat), s # <<>>
  PROVE  /\ Tail(s) \in Seq(Nat) /\ Head(s) = s[1] /\ 1 \in 1..Len(s)
         /\ \A k \in 1..Len(Tail(s)) :
              k + 1 \in 1..Len(s) /\ k + 1 # 1 /\ Tail(s)[k] = s[k + 1]
         /\ \A j, k \in 1..Len(Tail(s)) : j # k => j + 1 # k + 1
<1>1. Len(s) \in Nat /\ Len(s) # 0
  BY EmptySeq
<1>2. /\ Tail(s) \in Seq(Nat) /\ Head(s) = s[1] /\ Len(Tail(s)) = Len(s) - 1
      /\ \A k \in 1..(Len(s) - 1) : Tail(s)[k] = s[k + 1]
  BY HeadTailProperties
<1> QED BY <1>1, <1>2

LEMMA AdvanceKeeps ==
  ASSUME ReportInv, Reports!Advance \/ UNCHANGED Reports!ioVars
  PROVE  ReportInv'
<1>1. /\ now' \in Nat /\ now <= now' /\ now \in Nat
      /\ OpenStarts' = OpenStarts /\ RingStarts' = RingStarts /\ RowStarts' = RowStarts
  BY DEF ReportInv, ReportTypes, Reports!Advance, Reports!ioVars
<1>2. ReportTypes'
  BY <1>1 DEF ReportInv, ReportTypes
<1>3. /\ \A r \in Requests : OpenStarts[r] \in Nat
      /\ \A k \in 1..Len(RingStarts) : RingStarts[k] \in Nat
      /\ \A i \in 1..Len(RowStarts) : RowStarts[i] \in Nat
  BY DEF ReportInv, ReportTypes
<1>4. InThePast'
  BY <1>1, <1>3 DEF ReportInv, InThePast
<1> QED
  BY <1>1, <1>2, <1>4 DEF ReportInv, OneReportPerLife, OneRowPerLife, Reports!OneRowPerLife

LEMMA AllocateKeeps ==
  ASSUME ReportInv, NEW r \in Requests, Reports!Allocate(r)
  PROVE  ReportInv'
<1>1. /\ now' = now + 1 /\ RingStarts' = RingStarts /\ RowStarts' = RowStarts
      /\ \E start \in {0, now + 1} : OpenStarts' = [OpenStarts EXCEPT ![r] = start]
  BY DEF Reports!Allocate
<1>2. PICK start \in {0, now + 1} : OpenStarts' = [OpenStarts EXCEPT ![r] = start]
  BY <1>1
<1>3. /\ now \in Nat /\ now + 1 \in Nat /\ start \in Nat /\ start <= now + 1
      /\ OpenStarts \in [Requests -> Nat]
      /\ OpenStarts'[r] = start /\ \A q \in Requests : q # r => OpenStarts'[q] = OpenStarts[q]
      /\ \A q \in Requests : OpenStarts[q] \in Nat /\ OpenStarts[q] <= now
  BY <1>2 DEF ReportInv, ReportTypes, InThePast
<1>4. /\ \A k \in 1..Len(RingStarts) : RingStarts[k] \in Nat /\ RingStarts[k] <= now
      /\ \A i \in 1..Len(RowStarts) :
           RowStarts[i] \in Nat /\ RowStarts[i] # 0 /\ RowStarts[i] <= now
  BY DEF ReportInv, ReportTypes, InThePast
<1>5. \A x \in Nat : x # 0 /\ x <= now => x # start /\ x <= now + 1
  BY <1>3
<1>6. ReportTypes'
  BY <1>1, <1>2, <1>3 DEF ReportInv, ReportTypes
<1>7. InThePast'
  <2>1. \A x \in Nat : x <= now => x <= now + 1
    BY <1>3
  <2> QED BY <1>1, <1>3, <1>4, <2>1 DEF InThePast
<1>8. OneReportPerLife'
  <2>1. ASSUME NEW p \in Requests, NEW q \in Requests, q # p, OpenStarts'[p] # 0
        PROVE  OpenStarts'[q] # OpenStarts'[p]
    BY <1>3, <1>5, <2>1 DEF ReportInv, OneReportPerLife
  <2>2. ASSUME NEW k \in 1..Len(RingStarts), RingStarts[k] # 0, NEW q \in Requests
        PROVE  OpenStarts'[q] # RingStarts[k]
    BY <1>3, <1>4, <1>5, <2>2 DEF ReportInv, OneReportPerLife
  <2> QED BY <1>1, <2>1, <2>2 DEF ReportInv, OneReportPerLife
<1>9. OneRowPerLife'
  <2>1. ASSUME NEW i \in 1..Len(RowStarts), NEW q \in Requests
        PROVE  OpenStarts'[q] # RowStarts[i]
    BY <1>3, <1>4, <1>5, <2>1 DEF ReportInv, OneRowPerLife, Reports!OneRowPerLife
  <2> QED BY <1>1, <2>1 DEF ReportInv, OneRowPerLife, Reports!OneRowPerLife
<1> QED BY <1>6, <1>7, <1>8, <1>9 DEF ReportInv

LEMMA ReportKeeps ==
  ASSUME ReportInv, NEW r \in Requests, Reports!Report(r)
  PROVE  ReportInv'
<1> DEFINE s == OpenStarts[r]
           n == Len(RingStarts)
<1>1. /\ s # 0 /\ now' = now + 1 /\ RingStarts' = Append(RingStarts, s)
      /\ OpenStarts' = [OpenStarts EXCEPT ![r] = 0] /\ RowStarts' = RowStarts
  BY DEF Reports!Report
<1>2. /\ now \in Nat /\ OpenStarts \in [Requests -> Nat] /\ RingStarts \in Seq(Nat)
      /\ RowStarts \in Seq(Nat) /\ s \in Nat
  BY DEF ReportInv, ReportTypes
<1>3. /\ RingStarts' \in Seq(Nat)
      /\ \A k \in 1..Len(RingStarts') :
           \/ k \in 1..n /\ RingStarts'[k] = RingStarts[k]
           \/ k = n + 1 /\ RingStarts'[k] = s
  BY <1>1, <1>2, GrownBy
<1>4. \A q \in Requests : OpenStarts'[q] = IF q = r THEN 0 ELSE OpenStarts[q]
  BY <1>1, <1>2
<1>5. /\ \A q \in Requests : OpenStarts[q] \in Nat /\ OpenStarts[q] <= now
      /\ \A k \in 1..n : RingStarts[k] \in Nat /\ RingStarts[k] <= now
      /\ \A i \in 1..Len(RowStarts) :
           RowStarts[i] \in Nat /\ RowStarts[i] # 0 /\ RowStarts[i] <= now
      /\ \A x \in Nat : x <= now => x <= now + 1
  BY <1>2 DEF ReportInv, InThePast
<1>6. /\ \A q \in Requests : q # r => OpenStarts[q] # s
      /\ \A k \in 1..n : RingStarts[k] # s
      /\ \A i \in 1..Len(RowStarts) : RowStarts[i] # s
  BY <1>1 DEF ReportInv, OneReportPerLife, OneRowPerLife, Reports!OneRowPerLife
<1> HIDE DEF s, n
<1>7. ReportTypes'
  BY <1>1, <1>2, <1>3 DEF ReportTypes
<1>8. InThePast'
  <2>1. s <= now /\ 0 <= now + 1
    BY <1>2, <1>5 DEF s
  <2>2. \A k \in 1..Len(RingStarts') : RingStarts'[k] <= now + 1
    BY <1>2, <1>3, <1>5, <2>1
  <2> QED BY <1>1, <1>4, <1>5, <2>1, <2>2 DEF InThePast
<1>9. OneReportPerLife'
  <2>1. ASSUME NEW p \in Requests, NEW q \in Requests, q # p, OpenStarts'[p] # 0
        PROVE  OpenStarts'[q] # OpenStarts'[p]
    <3>1. p # r /\ OpenStarts'[p] = OpenStarts[p]
      BY <1>4, <2>1
    <3> QED BY <1>4, <2>1, <3>1 DEF ReportInv, OneReportPerLife
  <2>2. ASSUME NEW k \in 1..Len(RingStarts'), RingStarts'[k] # 0, NEW q \in Requests
        PROVE  OpenStarts'[q] # RingStarts'[k]
    <3>1. CASE k = n + 1 /\ RingStarts'[k] = s
      BY <1>4, <1>6, <2>2, <3>1
    <3>2. CASE k \in 1..n /\ RingStarts'[k] = RingStarts[k]
      BY <1>4, <2>2, <3>2 DEF ReportInv, OneReportPerLife, n
    <3> QED BY <1>3, <3>1, <3>2
  <2>3. ASSUME NEW k \in 1..Len(RingStarts'), RingStarts'[k] # 0,
               NEW j \in 1..Len(RingStarts'), j # k
        PROVE  RingStarts'[j] # RingStarts'[k]
    <3>1. CASE k = n + 1 /\ RingStarts'[k] = s
      BY <1>3, <1>6, <2>3, <3>1
    <3>2. CASE k \in 1..n /\ RingStarts'[k] = RingStarts[k]
      <4>1. CASE j = n + 1 /\ RingStarts'[j] = s
        BY <1>6, <3>2, <4>1
      <4>2. CASE j \in 1..n /\ RingStarts'[j] = RingStarts[j]
        BY <2>3, <3>2, <4>2 DEF ReportInv, OneReportPerLife, n
      <4> QED BY <1>3, <4>1, <4>2
    <3> QED BY <1>3, <3>1, <3>2
  <2> QED BY <2>1, <2>2, <2>3 DEF OneReportPerLife
<1>10. OneRowPerLife'
  <2>1. ASSUME NEW i \in 1..Len(RowStarts)
        PROVE  /\ \A k \in 1..Len(RingStarts') : RingStarts'[k] # RowStarts[i]
               /\ \A q \in Requests : OpenStarts'[q] # RowStarts[i]
               /\ \A j \in 1..Len(RowStarts) : j # i => RowStarts[j] # RowStarts[i]
    <3>1. /\ RowStarts[i] # 0 /\ RowStarts[i] # s
          /\ \A k \in 1..n : RingStarts[k] # RowStarts[i]
          /\ \A q \in Requests : OpenStarts[q] # RowStarts[i]
          /\ \A j \in 1..Len(RowStarts) : j # i => RowStarts[j] # RowStarts[i]
      BY <1>5, <1>6 DEF ReportInv, OneRowPerLife, Reports!OneRowPerLife, n
    <3> QED BY <1>3, <1>4, <3>1
  <2> QED BY <1>1, <2>1 DEF OneRowPerLife, Reports!OneRowPerLife
<1> QED BY <1>7, <1>8, <1>9, <1>10 DEF ReportInv

LEMMA TrafficKeeps ==
  ASSUME ReportInv, Reports!OtherTraffic
  PROVE  ReportInv'
<1> DEFINE n == Len(RingStarts)
<1>1. /\ now' = now + 1 /\ RingStarts' = Append(RingStarts, 0)
      /\ OpenStarts' = OpenStarts /\ RowStarts' = RowStarts
  BY DEF Reports!OtherTraffic
<1>2. /\ now \in Nat /\ OpenStarts \in [Requests -> Nat] /\ RingStarts \in Seq(Nat)
      /\ RowStarts \in Seq(Nat) /\ 0 \in Nat
  BY DEF ReportInv, ReportTypes
<1>3. /\ RingStarts' \in Seq(Nat)
      /\ \A k \in 1..Len(RingStarts') :
           \/ k \in 1..n /\ RingStarts'[k] = RingStarts[k]
           \/ k = n + 1 /\ RingStarts'[k] = 0
  BY <1>1, <1>2, GrownBy
<1>4. /\ \A q \in Requests : OpenStarts[q] <= now + 1
      /\ \A k \in 1..n : RingStarts[k] <= now + 1
      /\ \A i \in 1..Len(RowStarts) : RowStarts[i] # 0 /\ RowStarts[i] <= now + 1
  <2>1. /\ \A q \in Requests : OpenStarts[q] \in Nat
        /\ \A k \in 1..n : RingStarts[k] \in Nat
        /\ \A i \in 1..Len(RowStarts) : RowStarts[i] \in Nat
    BY <1>2
  <2>2. \A x \in Nat : x <= now => x <= now + 1
    BY <1>2
  <2> QED BY <2>1, <2>2 DEF ReportInv, InThePast
<1> HIDE DEF n
<1>5. ReportTypes'
  BY <1>1, <1>2, <1>3 DEF ReportTypes
<1>6. InThePast'
  <2>1. 0 <= now + 1
    BY <1>2
  <2>2. \A k \in 1..Len(RingStarts') : RingStarts'[k] <= now + 1
    BY <1>3, <1>4, <2>1
  <2> QED BY <1>1, <1>4, <2>2 DEF InThePast
<1>7. OneReportPerLife'
  <2>1. ASSUME NEW k \in 1..Len(RingStarts'), RingStarts'[k] # 0
        PROVE  /\ \A j \in 1..Len(RingStarts') : j # k => RingStarts'[j] # RingStarts'[k]
               /\ \A q \in Requests : OpenStarts[q] # RingStarts'[k]
    <3>1. k \in 1..n /\ RingStarts'[k] = RingStarts[k]
      BY <1>3, <2>1
    <3>2. /\ \A j \in 1..n : j # k => RingStarts[j] # RingStarts[k]
          /\ \A q \in Requests : OpenStarts[q] # RingStarts[k]
      BY <2>1, <3>1 DEF ReportInv, OneReportPerLife, n
    <3> QED BY <1>3, <2>1, <3>1, <3>2
  <2> QED BY <1>1, <2>1 DEF ReportInv, OneReportPerLife
<1>8. OneRowPerLife'
  <2>1. ASSUME NEW i \in 1..Len(RowStarts), NEW k \in 1..Len(RingStarts')
        PROVE  RingStarts'[k] # RowStarts[i]
    <3>1. RowStarts[i] # 0 /\ \A j \in 1..n : RingStarts[j] # RowStarts[i]
      BY <1>4 DEF ReportInv, OneRowPerLife, Reports!OneRowPerLife, n
    <3> QED BY <1>3, <3>1
  <2> QED BY <1>1, <2>1 DEF ReportInv, OneRowPerLife, Reports!OneRowPerLife
<1> QED BY <1>5, <1>6, <1>7, <1>8 DEF ReportInv

LEMMA DeliverKeeps ==
  ASSUME ReportInv, Reports!Deliver \/ Reports!Discard
  PROVE  ReportInv'
<1> DEFINE h == Head(RingStarts)
           n == Len(RingStarts)
           m == Len(RowStarts)
<1>1. /\ RingStarts # <<>> /\ RingStarts' = Tail(RingStarts)
      /\ now' = now /\ OpenStarts' = OpenStarts
      /\ RowStarts' = RowStarts \/ (h # 0 /\ RowStarts' = Append(RowStarts, h))
  BY DEF Reports!Deliver, Reports!Discard
<1>2. /\ now \in Nat /\ OpenStarts \in [Requests -> Nat] /\ RingStarts \in Seq(Nat)
      /\ RowStarts \in Seq(Nat)
  BY DEF ReportInv, ReportTypes
<1>3. /\ RingStarts' \in Seq(Nat) /\ h = RingStarts[1] /\ 1 \in 1..n
      /\ \A k \in 1..Len(RingStarts') :
           k + 1 \in 1..n /\ k + 1 # 1 /\ RingStarts'[k] = RingStarts[k + 1]
      /\ \A j, k \in 1..Len(RingStarts') : j # k => j + 1 # k + 1
  BY <1>1, <1>2, ShiftedBy
<1>4. h \in Nat
  BY <1>2, <1>3
<1>5. /\ RowStarts' \in Seq(Nat)
      /\ \A i \in 1..Len(RowStarts') :
           \/ i \in 1..m /\ RowStarts'[i] = RowStarts[i]
           \/ i = m + 1 /\ h # 0 /\ RowStarts'[i] = h
  <2>1. CASE RowStarts' = RowStarts
    BY <1>2, <2>1
  <2>2. CASE h # 0 /\ RowStarts' = Append(RowStarts, h)
    BY <1>2, <1>4, <2>2, GrownBy
  <2> QED BY <1>1, <2>1, <2>2
<1>6. h # 0 => /\ h <= now
               /\ \A k \in 1..n : k # 1 => RingStarts[k] # h
               /\ \A q \in Requests : OpenStarts[q] # h
               /\ \A i \in 1..m : RowStarts[i] # h
  BY <1>3 DEF ReportInv, InThePast, OneReportPerLife, OneRowPerLife, Reports!OneRowPerLife
<1>7. \A i \in 1..m : /\ RowStarts[i] # 0 /\ RowStarts[i] <= now
                      /\ \A k \in 1..n : RingStarts[k] # RowStarts[i]
                      /\ \A q \in Requests : OpenStarts[q] # RowStarts[i]
                      /\ \A j \in 1..m : j # i => RowStarts[j] # RowStarts[i]
  BY DEF ReportInv, InThePast, OneRowPerLife, Reports!OneRowPerLife
<1> HIDE DEF h, n, m
<1>8. ReportTypes'
  BY <1>1, <1>2, <1>3, <1>5 DEF ReportTypes
<1>9. InThePast'
  <2>1. \A k \in 1..Len(RingStarts') : RingStarts'[k] <= now
    BY <1>3 DEF ReportInv, InThePast, n
  <2>2. \A i \in 1..Len(RowStarts') : RowStarts'[i] # 0 /\ RowStarts'[i] <= now
    BY <1>5, <1>6, <1>7
  <2> QED BY <1>1, <2>1, <2>2 DEF ReportInv, InThePast
<1>10. OneReportPerLife'
  <2>1. ASSUME NEW k \in 1..Len(RingStarts'), RingStarts'[k] # 0
        PROVE  /\ \A j \in 1..Len(RingStarts') : j # k => RingStarts'[j] # RingStarts'[k]
               /\ \A q \in Requests : OpenStarts[q] # RingStarts'[k]
    <3>1. /\ \A j \in 1..n : j # k + 1 => RingStarts[j] # RingStarts[k + 1]
          /\ \A q \in Requests : OpenStarts[q] # RingStarts[k + 1]
      BY <1>3, <2>1 DEF ReportInv, OneReportPerLife, n
    <3> QED BY <1>3, <2>1, <3>1
  <2> QED BY <1>1, <2>1 DEF ReportInv, OneReportPerLife
<1>11. OneRowPerLife'
  <2>1. ASSUME NEW i \in 1..Len(RowStarts')
        PROVE  /\ \A k \in 1..Len(RingStarts') : RingStarts'[k] # RowStarts'[i]
               /\ \A q \in Requests : OpenStarts[q] # RowStarts'[i]
               /\ \A j \in 1..Len(RowStarts') : j # i => RowStarts'[j] # RowStarts'[i]
    <3>1. CASE i \in 1..m /\ RowStarts'[i] = RowStarts[i]
      BY <1>3, <1>5, <1>6, <1>7, <3>1
    <3>2. CASE i = m + 1 /\ h # 0 /\ RowStarts'[i] = h
      BY <1>3, <1>5, <1>6, <3>2
    <3> QED BY <1>5, <3>1, <3>2
  <2> QED BY <1>1, <2>1 DEF OneRowPerLife, Reports!OneRowPerLife
<1> QED BY <1>8, <1>9, <1>10, <1>11 DEF ReportInv

(* A request that ended has at most one row, and what has a row is gone    *)
(* from the ring and from rq_cache, with a filter or without, however      *)
(* small the maps and the ring and however often addresses are reused.     *)
THEOREM RowsAreOnePerLife == SpecAll => []OneRowPerLife
<1>1. Reports!IoInit => ReportInv
  <2> SUFFICES ASSUME Reports!IoInit PROVE ReportInv
    OBVIOUS
  <2>1. /\ now = 0 /\ OpenStarts = [r \in Requests |-> 0]
        /\ RingStarts = <<>> /\ RowStarts = <<>>
    BY DEF Reports!IoInit
  <2>2. Len(RingStarts) = 0 /\ Len(RowStarts) = 0
    BY <2>1
  <2>3. ReportTypes
    BY <2>1 DEF ReportTypes
  <2>4. InThePast /\ OneReportPerLife /\ OneRowPerLife
    BY <2>1, <2>2 DEF InThePast, OneReportPerLife, OneRowPerLife, Reports!OneRowPerLife
  <2> QED BY <2>3, <2>4 DEF ReportInv
<1>2. ReportInv /\ [Reports!IoNext]_Reports!ioVars => ReportInv'
  BY AdvanceKeeps, AllocateKeeps, ReportKeeps, TrafficKeeps, DeliverKeeps DEF Reports!IoNext
<1>3. ReportInv => OneRowPerLife
  BY DEF ReportInv
<1> QED
  BY <1>1, <1>2, <1>3, RowsImplementReports, PTL DEF IoReportsSpec, Reports!IoSpec
=============================================================================

------------------------- MODULE Ext4DioInfoProofs -------------------------
(***************************************************************************)
(* Proofs about the probes and the consumer of the info level, for any     *)
(* addresses, queues, capacities and bound on the clock: the types with    *)
(* the max_entries of the maps, and which keys of dio_filter outlive their *)
(* direct I/O.                                                             *)
(***************************************************************************)
EXTENDS Ext4DioInfo, FiniteSetTheorems, SequenceTheorems, TLAPS

(* A map within its max_entries stays so when one key changes, if the key  *)
(* was there, is taken away, or finds room.                                *)
MapOK(map, none, max) == IsFiniteSet(Keys(map, none)) /\ Cardinality(Keys(map, none)) <= max

LEMMA OneKeyChanges ==
  ASSUME NEW map, NEW map2, NEW none, NEW max \in Nat, NEW k \in DOMAIN map,
         MapOK(map, none, max), DOMAIN map2 = DOMAIN map,
         \A j \in DOMAIN map : j # k => map2[j] = map[j],
         \/ map2[k] = none \/ map[k] # none \/ Cardinality(Keys(map, none)) < max
  PROVE  MapOK(map2, none, max)
<1> DEFINE K == Keys(map, none)
           K2 == Keys(map2, none)
<1>1. IsFiniteSet(K) /\ Cardinality(K) \in Nat /\ Cardinality(K) <= max
  BY FS_CardinalityType DEF MapOK
<1>2. CASE map2[k] = none \/ map[k] # none
  <2>1. K2 \subseteq K
    BY <1>2 DEF Keys
  <2>2. IsFiniteSet(K2) /\ Cardinality(K2) <= Cardinality(K)
    BY <1>1, <2>1, FS_Subset
  <2>3. Cardinality(K2) \in Nat
    BY <2>2, FS_CardinalityType
  <2> QED BY <1>1, <2>2, <2>3 DEF MapOK
<1>3. CASE map2[k] # none /\ map[k] = none
  <2>1. K2 = K \cup {k} /\ k \notin K
    BY <1>3 DEF Keys
  <2>2. IsFiniteSet(K2) /\ Cardinality(K2) = Cardinality(K) + 1
    BY <1>1, <2>1, FS_AddElement
  <2>3. Cardinality(K) < max
    BY <1>3
  <2> QED BY <1>1, <2>2, <2>3 DEF MapOK
<1> QED BY <1>2, <1>3

-----------------------------------------------------------------------------
(* The strengthening for the types: the maps have finitely many keys, a    *)
(* call has mapped at most as many extents as the clock was read, and it   *)
(* has an iomap_dio exactly while it is in iomap_dio_rw.                   *)
CallClock == \A i \in Iocbs :
  /\ call[i].ext <= now /\ call[i].began <= now
  /\ call[i].at # "idle" => now > 0
  /\ call[i].at = "dio" <=> call[i].dio # NoDio

TypeInv ==
  /\ TypeOK
  /\ MapOK(event_cache, 0, EventCacheMax)
  /\ MapOK(dio_filter, 0, DioFilterMax)
  /\ MapOK(rq_cache, NoEntry, RqCacheMax)
  /\ CallClock

Records == DioRecords \cup HctxRecords \cup RqRecords

LEMMA Constants ==
  /\ NoEntry \in Entries /\ NoCall \in CallStates /\ NoRq \in RqStates
  /\ EventCacheMax \in Nat /\ DioFilterMax \in Nat /\ RqCacheMax \in Nat
  /\ RingMax \in Nat /\ MaxTime \in Nat
BY Ext4DioInfoAssumption
DEF NoEntry, Entries, NoCall, CallStates, NoRq, RqStates, Times, Stages

(* A record that the ring takes or refuses leaves the ring well typed.     *)
LEMMA EmitTypes ==
  ASSUME TypeOK, NEW rec \in Records, Emit(rec)
  PROVE  ext4_dio_log' \in Seq(Records) /\ Len(ext4_dio_log') <= RingMax
<1>1. ext4_dio_log \in Seq(Records) /\ Len(ext4_dio_log) <= RingMax
  BY DEF TypeOK, Records
<1>2. CASE RingRoom
  BY <1>1, <1>2, Constants, AppendProperties DEF Emit, RingRoom
<1>3. CASE ~RingRoom
  BY <1>1, <1>3 DEF Emit
<1> QED BY <1>2, <1>3

(* What the steps of a request do to rq_cache: one entry changes, and only *)
(* the probe of __rq_qos_track adds one.                                   *)
LEMMA StampTypes ==
  ASSUME TypeInv, NEW r \in Requests, NEW stage \in Stages
  PROVE  /\ Stamp(r, stage) \in [Requests -> Entries]
         /\ MapOK(Stamp(r, stage), NoEntry, RqCacheMax)
<1> DEFINE cache == Stamp(r, stage)
<1>1. rq_cache \in [Requests -> Entries] /\ MapOK(rq_cache, NoEntry, RqCacheMax)
  BY DEF TypeInv, TypeOK
<1>2. CASE Tracked(r)
  <2>1. [rq_cache[r] EXCEPT !.stamps = @ \cup {stage}] \in Entries
    BY <1>1 DEF Entries
  <2>2. cache = [rq_cache EXCEPT ![r] = [rq_cache[r] EXCEPT !.stamps = @ \cup {stage}]]
    BY <1>1, <1>2 DEF Stamp
  <2>3. cache \in [Requests -> Entries]
    BY <1>1, <2>1, <2>2
  <2>4. rq_cache[r] # NoEntry /\ \A j \in Requests : j # r => cache[j] = rq_cache[j]
    BY <1>1, <1>2, <2>2 DEF Tracked
  <2>5. MapOK(cache, NoEntry, RqCacheMax)
    <3> HIDE DEF cache
    <3> QED BY <1>1, <2>3, <2>4, Constants, OneKeyChanges
  <2> QED BY <2>3, <2>5
<1>3. CASE ~Tracked(r)
  BY <1>1, <1>3 DEF Stamp
<1> QED BY <1>2, <1>3

LEMMA TrackTypes ==
  ASSUME TypeInv, NEW r \in Requests, NEW d \in Dios \cup {NoDio}, NEW seen \in BOOLEAN
  PROVE  /\ TrackProbe(r, d, seen) \in [Requests -> Entries]
         /\ MapOK(TrackProbe(r, d, seen), NoEntry, RqCacheMax)
<1> DEFINE cleaned == [rq_cache EXCEPT ![r] = NoEntry]
           entry == [NoEntry EXCEPT !.uid = dio_filter[d]]
           tracked == [cleaned EXCEPT ![r] = entry]
<1>1. rq_cache \in [Requests -> Entries] /\ MapOK(rq_cache, NoEntry, RqCacheMax)
  BY DEF TypeInv, TypeOK
<1>2. cleaned \in [Requests -> Entries] /\ cleaned[r] = NoEntry
  BY <1>1, Constants
<1>3. MapOK(cleaned, NoEntry, RqCacheMax)
  <2>1. \A j \in Requests : j # r => cleaned[j] = rq_cache[j]
    BY <1>1
  <2> HIDE DEF cleaned
  <2> QED BY <1>1, <1>2, <2>1, Constants, OneKeyChanges
<1>4. ASSUME d \in Dios, Cardinality(Keys(cleaned, NoEntry)) < RqCacheMax
      PROVE  tracked \in [Requests -> Entries] /\ MapOK(tracked, NoEntry, RqCacheMax)
  <2>1. entry \in Entries
    BY <1>4 DEF TypeInv, TypeOK, NoEntry, Entries
  <2>2. tracked \in [Requests -> Entries] /\ \A j \in Requests : j # r => tracked[j] = cleaned[j]
    BY <1>2, <2>1
  <2> HIDE DEF cleaned, tracked
  <2> QED BY <1>2, <1>3, <1>4, <2>2, Constants, OneKeyChanges
<1>5. TrackProbe(r, d, seen) \in {rq_cache, cleaned}
      \/ /\ d \in Dios /\ Cardinality(Keys(cleaned, NoEntry)) < RqCacheMax
         /\ TrackProbe(r, d, seen) = tracked
  BY DEF TrackProbe
<1> QED BY <1>1, <1>2, <1>3, <1>4, <1>5

(* The steps of a request keep the types.                                  *)
LEMMA RequestTypes ==
  ASSUME TypeInv, NEW r \in Requests, RequestStep(r)
  PROVE  TypeInv'
<1> USE Constants
<1>1. /\ rq \in [Requests -> RqStates] /\ rq_cache \in [Requests -> Entries]
      /\ MapOK(rq_cache, NoEntry, RqCacheMax)
  BY DEF TypeInv, TypeOK
<1>2. /\ UNCHANGED <<call, now, event_cache, dio_filter, consumer, refused>>
      /\ MapOK(event_cache, 0, EventCacheMax)' /\ MapOK(dio_filter, 0, DioFilterMax)' /\ CallClock'
  <2>1. UNCHANGED <<call, now, event_cache, dio_filter, consumer, refused>>
    BY DEF RequestStep, Track, TrackForeign, SchedMerge, QueueRq, DriverBusy, StartRequest, Done,
           EhFinish, Verify, Retry, EndBios, AccountIoDone, maps, consumer
  <2> QED BY <2>1 DEF TypeInv, MapOK, CallClock, Keys
<1>3. /\ rq' \in [Requests -> RqStates] /\ rq_cache' \in [Requests -> Entries]
      /\ MapOK(rq_cache', NoEntry, RqCacheMax)
      /\ ext4_dio_log' \in Seq(Records) /\ Len(ext4_dio_log') <= RingMax
      /\ unheard' \subseteq Hctxs
  <2>0. /\ ext4_dio_log \in Seq(Records) /\ Len(ext4_dio_log) <= RingMax
        /\ unheard \subseteq Hctxs /\ Contexts(TRUE) \subseteq BOOLEAN
    BY DEF TypeInv, TypeOK, Records, Contexts
  <2>1. ASSUME NEW i \in Iocbs, Track(r, i)
        PROVE  <1>3!:
    <3>1. call[i] \in CallStates
      BY DEF TypeInv, TypeOK
    <3>2. [NoRq EXCEPT !.at = "tracked", !.of = call[i].began, !.ext = call[i].ext] \in RqStates
      BY <3>1 DEF NoRq, RqStates, CallStates, Times
    <3>3. call[i].dio \in Dios \cup {NoDio} /\ call[i].mine \in BOOLEAN
      BY <3>1 DEF CallStates
    <3>4. rq_cache' = TrackProbe(r, call[i].dio, call[i].mine)
      BY <2>1 DEF Track
    <3>5. rq_cache' \in [Requests -> Entries] /\ MapOK(rq_cache', NoEntry, RqCacheMax)
      BY <3>3, <3>4, TrackTypes
    <3> QED BY <1>1, <2>0, <2>1, <3>2, <3>5 DEF Track
  <2>2. ASSUME NEW d \in Dios \cup {NoDio}, NEW seen \in BOOLEAN, TrackForeign(r, d, seen)
        PROVE  <1>3!:
    <3>1. rq_cache' \in [Requests -> Entries] /\ MapOK(rq_cache', NoEntry, RqCacheMax)
      BY <2>2, TrackTypes DEF TrackForeign
    <3>2. [rq[r] EXCEPT !.at = "tracked"] \in RqStates
      BY <1>1 DEF RqStates
    <3> QED BY <1>1, <2>0, <2>2, <3>1, <3>2 DEF TrackForeign
  <2>3. CASE SchedMerge(r)
    BY <1>1, <2>0, <2>3 DEF SchedMerge, maps
  <2>4. ASSUME NEW seen \in BOOLEAN, QueueRq(r, seen)
        PROVE  <1>3!:
    <3>1. rq' \in [Requests -> RqStates]
      <4>1. [rq[r] EXCEPT !.at = "queued", !.seen = seen] \in RqStates
        BY <1>1 DEF RqStates
      <4> QED BY <1>1, <2>4, <4>1 DEF QueueRq
    <3>2. CASE seen /\ Tracked(r)
      <4>1. [rq_cache[r] EXCEPT !.stamps = {"queue_rq"}] \in Entries
        BY <1>1 DEF Entries, Stages
      <4>2. rq_cache' = [rq_cache EXCEPT ![r] = [rq_cache[r] EXCEPT !.stamps = {"queue_rq"}]]
        BY <1>1, <2>4, <3>2 DEF QueueRq
      <4>3. rq_cache' \in [Requests -> Entries] /\ \A j \in Requests : j # r => rq_cache'[j] = rq_cache[j]
        BY <1>1, <4>1, <4>2
      <4>4. MapOK(rq_cache', NoEntry, RqCacheMax)
        BY <1>1, <3>2, <4>3, OneKeyChanges DEF Tracked
      <4>5. Hctx[r] \in Hctxs
        BY DEF Hctxs
      <4>6. [kind |-> "hctx", hctx |-> Hctx[r]] \in Records
        BY <4>5 DEF Records, HctxRecords
      <4>7. ext4_dio_log' \in Seq(Records) /\ Len(ext4_dio_log') <= RingMax
        BY <2>4, <3>2, <4>6, EmitTypes DEF QueueRq, TypeInv
      <4>8. unheard' \subseteq Hctxs
        BY <2>0, <2>4, <3>2, <4>5 DEF QueueRq
      <4> QED BY <3>1, <4>3, <4>4, <4>7, <4>8
    <3> QED BY <1>1, <2>0, <2>4, <3>1, <3>2 DEF QueueRq
  <2>5. CASE DriverBusy(r) \/ EhFinish(r) \/ Retry(r) \/ EndBios(r)
    <3>1. UNCHANGED <<rq_cache, ext4_dio_log, unheard>>
      BY <2>5 DEF DriverBusy, EhFinish, Retry, EndBios, maps
    <3>2. \A at \in {"tracked", "done", "ended"} : [rq[r] EXCEPT !.at = at] \in RqStates
      BY <1>1 DEF RqStates
    <3>3. /\ [rq[r] EXCEPT !.at = "done", !.eh = TRUE] \in RqStates
          /\ [rq[r] EXCEPT !.at = "tracked", !.eh = FALSE] \in RqStates
      BY <1>1 DEF RqStates
    <3>4. rq' \in [Requests -> RqStates]
      <4>1. CASE DriverBusy(r) \/ EndBios(r)
        BY <1>1, <3>2, <4>1 DEF DriverBusy, EndBios, Goto
      <4>2. CASE EhFinish(r)
        BY <1>1, <3>3, <4>2 DEF EhFinish
      <4>3. CASE Retry(r)
        BY <1>1, <3>3, <4>3 DEF Retry
      <4> QED BY <2>5, <4>1, <4>2, <4>3
    <3> QED BY <1>1, <2>0, <3>1, <3>4
  <2>6. CASE StartRequest(r) \/ Verify(r)
    <3>1. \A at \in {"started", "verified"} : [rq[r] EXCEPT !.at = at] \in RqStates
      BY <1>1 DEF RqStates
    <3>2. rq' \in [Requests -> RqStates]
      BY <1>1, <2>6, <3>1 DEF StartRequest, Verify, Goto
    <3>3. UNCHANGED <<ext4_dio_log, unheard>>
      BY <2>6 DEF StartRequest, Verify
    <3>4. rq_cache' \in {rq_cache, Stamp(r, "rq_start"), Stamp(r, "verified")}
      BY <2>6 DEF StartRequest, Verify, SecondStamp
    <3>5. rq_cache' \in [Requests -> Entries] /\ MapOK(rq_cache', NoEntry, RqCacheMax)
      BY <1>1, <3>4, StampTypes DEF Stages
    <3> QED BY <2>0, <3>2, <3>3, <3>5
  <2>7. CASE Done(r)
    <3>1. [rq[r] EXCEPT !.at = "done"] \in RqStates
      BY <1>1 DEF RqStates
    <3>2. rq' \in [Requests -> RqStates] /\ UNCHANGED <<ext4_dio_log, unheard>>
      BY <1>1, <2>7, <3>1 DEF Done, Goto
    <3>3. CASE Tracked(r)
      <4>1. [rq_cache[r] EXCEPT !.stamps = @ \cup {"done"}, !.drive = Drive[r]] \in Entries
        BY <1>1, Ext4DioInfoAssumption DEF Entries, Stages
      <4>2. rq_cache' = [rq_cache EXCEPT
              ![r] = [rq_cache[r] EXCEPT !.stamps = @ \cup {"done"}, !.drive = Drive[r]]]
        BY <1>1, <2>7, <3>3 DEF Done
      <4>3. rq_cache' \in [Requests -> Entries] /\ \A j \in Requests : j # r => rq_cache'[j] = rq_cache[j]
        BY <1>1, <4>1, <4>2
      <4>4. MapOK(rq_cache', NoEntry, RqCacheMax)
        BY <1>1, <3>3, <4>3, OneKeyChanges DEF Tracked
      <4> QED BY <2>0, <3>2, <4>3, <4>4
    <3>4. CASE ~Tracked(r)
      BY <1>1, <2>0, <2>7, <3>2, <3>4 DEF Done
    <3> QED BY <3>3, <3>4
  <2>8. CASE AccountIoDone(r)
    <3>1. rq' \in [Requests -> RqStates] /\ UNCHANGED unheard
      BY <1>1, <2>8 DEF AccountIoDone
    <3>2. CASE Tracked(r)
      <4>1. [kind |-> "rq", entry |-> rq_cache[r], hctx |-> Hctx[r], rq |-> rq[r]] \in Records
        BY <1>1 DEF Records, RqRecords, Hctxs
      <4>2. ext4_dio_log' \in Seq(Records) /\ Len(ext4_dio_log') <= RingMax
        BY <2>8, <3>2, <4>1, EmitTypes DEF AccountIoDone, TypeInv
      <4>3. rq_cache' \in {rq_cache, [rq_cache EXCEPT ![r] = NoEntry]}
        BY <2>8, <3>2 DEF AccountIoDone
      <4>4. /\ rq_cache' \in [Requests -> Entries]
            /\ \A j \in Requests : j # r => rq_cache'[j] = rq_cache[j]
            /\ rq_cache'[r] = NoEntry \/ rq_cache[r] # NoEntry
        BY <1>1, <3>2, <4>3 DEF Tracked
      <4>5. MapOK(rq_cache', NoEntry, RqCacheMax)
        BY <1>1, <4>4, OneKeyChanges
      <4> QED BY <2>0, <3>1, <4>2, <4>4, <4>5
    <3>3. CASE ~Tracked(r)
      BY <1>1, <2>0, <2>8, <3>1, <3>3 DEF AccountIoDone
    <3> QED BY <3>2, <3>3
  <2> QED
    BY <2>0, <2>1, <2>2, <2>3, <2>4, <2>5, <2>6, <2>7, <2>8 DEF RequestStep
<1>4. Cardinality(Keys(rq_cache', NoEntry)) <= RqCacheMax
  BY <1>3 DEF MapOK
<1> QED BY <1>2, <1>3, <1>4 DEF TypeInv, TypeOK, Records, consumer, MapOK, Keys

(* The steps of a call keep the types.                                     *)
LEMMA CallTypes ==
  ASSUME TypeInv, NEW i \in Iocbs, CallStep(i)
  PROVE  TypeInv'
<1> USE Constants
<1>1. /\ call \in [Iocbs -> CallStates] /\ now \in 0..MaxTime
      /\ event_cache \in [Iocbs -> Times] /\ MapOK(event_cache, 0, EventCacheMax)
      /\ dio_filter \in [Dios -> Times] /\ MapOK(dio_filter, 0, DioFilterMax)
      /\ ext4_dio_log \in Seq(Records) /\ Len(ext4_dio_log) <= RingMax /\ refused \subseteq Dios
      /\ CallClock
  BY DEF TypeInv, TypeOK, Records, Times
<1>2. /\ UNCHANGED <<rq, rq_cache, consumer, unheard>>
      /\ MapOK(rq_cache, NoEntry, RqCacheMax)'
  <2>1. UNCHANGED <<rq, rq_cache, consumer, unheard>>
    BY DEF CallStep, DioIter, GiveUp, AllocDio, BioActor, Kfree, maps, consumer
  <2> QED BY <2>1 DEF TypeInv, MapOK, Keys
<1>3. /\ call' \in [Iocbs -> CallStates] /\ now' \in 0..MaxTime
      /\ event_cache' \in [Iocbs -> Times] /\ MapOK(event_cache', 0, EventCacheMax)
      /\ dio_filter' \in [Dios -> Times] /\ MapOK(dio_filter', 0, DioFilterMax)
      /\ ext4_dio_log' \in Seq(Records) /\ Len(ext4_dio_log') <= RingMax /\ refused' \subseteq Dios
      /\ CallClock'
  <2>1. ASSUME NEW own \in BOOLEAN, DioIter(i, own)
        PROVE  <1>3!:
    <3>1. now' = now + 1 /\ now' \in 0..MaxTime /\ now + 1 \in Times
      BY <1>1, <2>1 DEF DioIter, Tick, Times
    <3>2. [NoCall EXCEPT !.at = "ext4", !.mine = own, !.began = now + 1] \in CallStates
      BY <3>1 DEF NoCall, CallStates, Times
    <3>3. call' \in [Iocbs -> CallStates]
      BY <1>1, <2>1, <3>2 DEF DioIter
    <3>4. CallClock'
      <4>1. /\ call'[i].ext = 0 /\ call'[i].began = now + 1
            /\ call'[i].at = "ext4" /\ call'[i].dio = NoDio
            /\ \A j \in Iocbs : j # i => call'[j] = call[j]
        BY <1>1, <2>1 DEF DioIter, NoCall
      <4>2. \A j \in Iocbs : call[j].ext \in Nat /\ call[j].began \in Nat
        BY <1>1 DEF CallStates, Times
      <4> QED BY <1>1, <3>1, <4>1, <4>2 DEF CallClock
    <3>5. event_cache' \in [Iocbs -> Times] /\ MapOK(event_cache', 0, EventCacheMax)
      <4>1. CASE own /\ ~Known(i) /\ Cardinality(Keys(event_cache, 0)) < EventCacheMax
        <5>1. event_cache' = [event_cache EXCEPT ![i] = now + 1]
          BY <2>1, <4>1 DEF DioIter
        <5>2. event_cache' \in [Iocbs -> Times] /\ \A j \in Iocbs : j # i => event_cache'[j] = event_cache[j]
          BY <1>1, <3>1, <5>1
        <5> QED BY <1>1, <4>1, <5>2, OneKeyChanges
      <4>2. CASE ~(own /\ ~Known(i) /\ Cardinality(Keys(event_cache, 0)) < EventCacheMax)
        BY <1>1, <2>1, <4>2 DEF DioIter
      <4> QED BY <4>1, <4>2
    <3> QED BY <1>1, <2>1, <3>1, <3>3, <3>4, <3>5 DEF DioIter
  <2>2. ASSUME call' \in [Iocbs -> CallStates], \A j \in Iocbs : j # i => call'[j] = call[j],
               now' = now, call'[i].ext <= now, call'[i].began <= now,
               call'[i].at # "idle" => now > 0, call'[i].at = "dio" <=> call'[i].dio # NoDio
        PROVE  CallClock'
    BY <1>1, <2>2 DEF CallClock
  <2>3. CASE GiveUp(i)
    <3>1. call' \in [Iocbs -> CallStates] /\ CallClock'
      BY <1>1, <2>2, <2>3 DEF GiveUp, NoCall
    <3> QED BY <1>1, <2>3, <3>1 DEF GiveUp, maps
  <2>4. ASSUME NEW d \in Dios, AllocDio(i, d)
        PROVE  <1>3!:
    <3>1. [call[i] EXCEPT !.at = "dio", !.dio = d] \in CallStates
      BY <1>1 DEF CallStates
    <3>2. call' = [call EXCEPT ![i] = [call[i] EXCEPT !.at = "dio", !.dio = d]]
      BY <1>1, <2>4 DEF AllocDio
    <3>3. call' \in [Iocbs -> CallStates]
      BY <1>1, <3>1, <3>2
    <3>4. /\ call'[i].ext = call[i].ext /\ call'[i].began = call[i].began /\ call[i].at = "ext4"
          /\ now' = now /\ call'[i].at = "dio" /\ call'[i].dio # NoDio
      BY <1>1, <2>4, <3>2, Ext4DioInfoAssumption DEF AllocDio, CallStates
    <3>5. CallClock'
      BY <1>1, <2>2, <3>2, <3>3, <3>4 DEF CallClock
    <3> QED BY <1>1, <2>4, <3>3, <3>5 DEF AllocDio, maps
  <2>5. CASE BioActor(i)
    <3>1. /\ call[i] \in CallStates /\ call[i].at = "dio" /\ call[i].dio \in Dios \cup {NoDio}
          /\ call[i].ext \in 0..now /\ now > 0
      BY <1>1, <2>5 DEF BioActor, CallClock, CallStates, Times
    <3>2. now' \in 0..MaxTime /\ now' >= now /\ call[i].ext + 1 \in 0..now'
      <4>1. CASE call[i].mine /\ Known(i)
        BY <1>1, <2>5, <3>1, <4>1 DEF BioActor, Tick
      <4>2. CASE ~(call[i].mine /\ Known(i))
        BY <1>1, <2>5, <3>1, <4>2 DEF BioActor
      <4> QED BY <4>1, <4>2
    <3>3. call' = [call EXCEPT ![i] = [call[i] EXCEPT !.ext = call[i].ext + 1]]
      BY <1>1, <2>5 DEF BioActor
    <3>4. [call[i] EXCEPT !.ext = call[i].ext + 1] \in CallStates
      <4>1. call[i].ext + 1 \in Times
        BY <3>1, <3>2 DEF Times
      <4>2. /\ call[i].at \in {"idle", "ext4", "dio"} /\ call[i].mine \in BOOLEAN
            /\ call[i].began \in Times
            /\ call[i] = [at |-> call[i].at, mine |-> call[i].mine, dio |-> call[i].dio,
                          ext |-> call[i].ext, began |-> call[i].began]
        BY <3>1 DEF CallStates
      <4> QED BY <3>1, <4>1, <4>2 DEF CallStates
    <3>5. call' \in [Iocbs -> CallStates]
      BY <1>1, <3>3, <3>4
    <3>6. CallClock'
      <4>1. /\ call'[i].ext = call[i].ext + 1 /\ call'[i].began = call[i].began
            /\ call'[i].at = call[i].at /\ call'[i].dio = call[i].dio
            /\ \A j \in Iocbs : j # i => call'[j] = call[j]
        BY <1>1, <3>1, <3>3 DEF CallStates
      <4>2. \A j \in Iocbs : call[j].ext \in Nat /\ call[j].began \in Nat
        BY <1>1 DEF CallStates, Times
      <4> QED BY <1>1, <3>1, <3>2, <4>1, <4>2, SMTT(30) DEF CallClock
    <3>7. dio_filter' \in [Dios -> Times] /\ MapOK(dio_filter', 0, DioFilterMax)
      <4>1. CASE /\ call[i].mine /\ Known(i) /\ call[i].dio \in Dios
                 /\ dio_filter[call[i].dio] # 0 \/ Cardinality(Keys(dio_filter, 0)) < DioFilterMax
        <5> DEFINE d == call[i].dio
        <5>1. dio_filter' = [dio_filter EXCEPT ![d] = now + 1] /\ now + 1 \in Times
          BY <1>1, <2>5, <4>1 DEF BioActor, NewUid, Tick, Times
        <5>2. dio_filter' \in [Dios -> Times] /\ \A j \in Dios : j # d => dio_filter'[j] = dio_filter[j]
          BY <1>1, <4>1, <5>1
        <5> QED BY <1>1, <4>1, <5>2, OneKeyChanges
      <4>2. CASE call[i].dio = NoDio
        <5>1. dio_filter' = dio_filter \/ dio_filter' = [dio_filter EXCEPT ![NoDio] = now + 1]
          BY <2>5, <4>2 DEF BioActor, NewUid
        <5>2. [dio_filter EXCEPT ![NoDio] = now + 1] = dio_filter
          BY <1>1, Ext4DioInfoAssumption
        <5> QED BY <1>1, <5>1, <5>2
      <4>3. CASE ~(/\ call[i].mine /\ Known(i)
                   /\ dio_filter[call[i].dio] # 0 \/ Cardinality(Keys(dio_filter, 0)) < DioFilterMax)
        BY <1>1, <2>5, <4>3 DEF BioActor, NewUid
      <4> QED BY <3>1, <4>1, <4>2, <4>3
    <3> QED BY <1>1, <2>5, <3>2, <3>5, <3>6, <3>7 DEF BioActor
  <2>6. ASSUME NEW seen \in BOOLEAN, NEW leftover \in Leftovers, Kfree(i, seen, leftover)
        PROVE  <1>3!:
    <3>1. /\ call' \in [Iocbs -> CallStates] /\ now' = now /\ CallClock'
          /\ call[i].dio \in Dios /\ call[i] \in CallStates
      <4>1. call' = [call EXCEPT ![i] = NoCall] /\ now' = now
        BY <2>6 DEF Kfree
      <4>2. call[i].dio \in Dios /\ call[i] \in CallStates
        BY <1>1, <2>6 DEF Kfree, CallClock, CallStates
      <4> QED BY <1>1, <2>2, <4>1, <4>2 DEF NoCall
    <3>2. CASE seen /\ Known(i)
      <4> DEFINE d == call[i].dio
                 known == dio_filter[d] # 0
                 uid == IF known THEN dio_filter[d] ELSE leftover
                 rec == [kind |-> "dio", uid |-> uid, own |-> known /\ call[i].ext > 0,
                         call |-> call[i].began, ext |-> call[i].ext]
      <4>1. Emit(rec) /\ dio_filter' = ForgetDio(d) /\ event_cache' = [event_cache EXCEPT ![i] = 0]
            /\ refused' = IF RingRoom THEN refused \ {d} ELSE refused \cup {d}
        BY <2>6, <3>2 DEF Kfree
      <4>2. uid \in Times
        BY <1>1, <3>1 DEF Leftovers, TypeInv, TypeOK, DioRows, Times
      <4>3. rec \in Records
        BY <3>1, <4>2 DEF Records, DioRecords, CallStates
      <4>4. ext4_dio_log' \in Seq(Records) /\ Len(ext4_dio_log') <= RingMax
        BY <4>1, <4>3, EmitTypes DEF TypeInv
      <4>5. /\ dio_filter' \in [Dios -> Times]
            /\ \A j \in Dios : j # d => dio_filter'[j] = dio_filter[j]
            /\ dio_filter'[d] = 0 \/ dio_filter' = dio_filter
        BY <1>1, <3>1, <4>1 DEF ForgetDio, Times
      <4>6. MapOK(dio_filter', 0, DioFilterMax)
        BY <1>1, <3>1, <4>5, OneKeyChanges
      <4>7. /\ event_cache' \in [Iocbs -> Times]
            /\ \A j \in Iocbs : j # i => event_cache'[j] = event_cache[j]
            /\ event_cache'[i] = 0
        BY <1>1, <4>1 DEF Times
      <4>8. MapOK(event_cache', 0, EventCacheMax)
        BY <1>1, <4>7, OneKeyChanges
      <4> QED BY <1>1, <3>1, <4>1, <4>4, <4>5, <4>6, <4>7, <4>8
    <3>3. CASE ~(seen /\ Known(i))
      BY <1>1, <2>6, <3>1, <3>3 DEF Kfree
    <3> QED BY <3>2, <3>3
  <2> QED
    BY <2>1, <2>3, <2>4, <2>5, <2>6 DEF CallStep, Contexts
<1>4. /\ Cardinality(Keys(event_cache', 0)) <= EventCacheMax
      /\ Cardinality(Keys(dio_filter', 0)) <= DioFilterMax
  BY <1>3 DEF MapOK
<1> QED BY <1>2, <1>3, <1>4 DEF TypeInv, TypeOK, Records, consumer, MapOK, Keys, Times

(* The consumer keeps the types.                                           *)
LEMMA ProxyTypes ==
  ASSUME TypeInv, Proxy
  PROVE  TypeInv'
<1> DEFINE rec == Head(ext4_dio_log)
<1>1. /\ ext4_dio_log \in Seq(Records) /\ Len(ext4_dio_log) <= RingMax /\ ext4_dio_log # <<>>
      /\ ext4_dio_log' = Tail(ext4_dio_log)
  BY DEF Proxy, TypeInv, TypeOK, Records
<1>2. rec \in Records /\ ext4_dio_log' \in Seq(Records) /\ Len(ext4_dio_log') <= RingMax
  BY <1>1, HeadTailProperties, Constants
<1>3. UNCHANGED <<kernel, now, maps, unheard, refused>>
  BY DEF Proxy
<1>4. /\ hctx_mapping \subseteq Hctxs /\ dio_rows \subseteq DioRows /\ rq_rows \subseteq RqRows
      /\ fatal \in {"no", "unknown drive", "unknown disk"}
  BY DEF TypeInv, TypeOK
<1>5. /\ hctx_mapping' \subseteq Hctxs /\ dio_rows' \subseteq DioRows /\ rq_rows' \subseteq RqRows
      /\ fatal' \in {"no", "unknown drive", "unknown disk"}
  <2>1. CASE rec.kind = "dio" /\ ConsumeDio(rec)
    <3>1. [uid |-> rec.uid, own |-> rec.own, call |-> rec.call, ext |-> rec.ext] \in DioRows
      BY <1>2, <2>1 DEF Records, DioRecords, HctxRecords, RqRecords, DioRows
    <3> QED BY <1>4, <2>1, <3>1 DEF ConsumeDio
  <2>2. CASE rec.kind = "hctx" /\ ConsumeHctx(rec) /\ UNCHANGED <<dio_rows, rq_rows, fatal>>
    BY <1>2, <1>4, <2>2 DEF ConsumeHctx, Records, DioRecords, HctxRecords, RqRecords
  <2>3. CASE rec.kind = "rq" /\ ConsumeRq(rec)
    <3>1. rec.entry \in Entries /\ rec.rq \in RqStates
      BY <1>2, <2>3 DEF Records, DioRecords, HctxRecords, RqRecords
    <3>2. RqRow(rec) \in RqRows
      BY <3>1 DEF RqRow, RqRows, Entries, RqStates
    <3> QED BY <1>4, <2>3, <3>2 DEF ConsumeRq
  <2> QED BY <2>1, <2>2, <2>3 DEF Proxy
<1> QED
  BY <1>2, <1>3, <1>5
  DEF TypeInv, TypeOK, Records, kernel, maps, MapOK, Keys, CallClock

(* The maps never hold more keys than their max_entries, the ring no more  *)
(* records than it has room for, and no variable leaves its range.         *)
THEOREM TypeInvariant == Spec => []TypeInv
<1>1. Init => TypeInv
  <2> SUFFICES ASSUME Init PROVE TypeInv
    OBVIOUS
  <2>1. Keys(event_cache, 0) = {} /\ Keys(dio_filter, 0) = {} /\ Keys(rq_cache, NoEntry) = {}
    BY DEF Init, Keys
  <2>2. /\ MapOK(event_cache, 0, EventCacheMax) /\ MapOK(dio_filter, 0, DioFilterMax)
        /\ MapOK(rq_cache, NoEntry, RqCacheMax)
    BY <2>1, Constants, FS_EmptySet DEF MapOK
  <2>3. CallClock
    BY DEF Init, CallClock, NoCall
  <2>4. <<>> \in Seq(Records) /\ Len(<<>>) <= RingMax
    BY Constants
  <2> QED BY <2>2, <2>3, <2>4, Constants DEF Init, TypeInv, TypeOK, MapOK, Records, Times
<1>2. TypeInv /\ [Next]_vars => TypeInv'
  <2> SUFFICES ASSUME TypeInv, [Next]_vars PROVE TypeInv'
    OBVIOUS
  <2>1. CASE Proxy
    BY <2>1, ProxyTypes
  <2>2. CASE UNCHANGED vars
    BY <2>2 DEF vars, TypeInv, TypeOK, MapOK, Keys, CallClock
  <2> QED
    BY <2>1, <2>2, CallTypes, RequestTypes DEF Next, Aborted, Horizon
<1> QED BY <1>1, <1>2, PTL DEF Spec

THEOREM TypeCorrect == Spec => []TypeOK
<1>1. TypeInv => TypeOK
  BY DEF TypeInv
<1> QED BY <1>1, TypeInvariant, PTL

-----------------------------------------------------------------------------
(* Why a key outlives its direct I/O: a key of dio_filter whose record was *)
(* not refused belongs to a call that is in iomap_dio_rw and whose event   *)
(* is known, and no two calls share an iomap_dio.                          *)
KeysInv ==
  /\ \A d \in Dios : dio_filter[d] # 0 =>
       d \in refused \/ \E i \in Iocbs : call[i].dio = d /\ Known(i)
  /\ \A i, j \in Iocbs : call[i].dio = call[j].dio /\ call[i].dio # NoDio => i = j

LEMMA KeysStep ==
  ASSUME TypeInv, ~UsingFilter, KeysInv, NEW i \in Iocbs, CallStep(i)
  PROVE  KeysInv'
<1>1. /\ call \in [Iocbs -> CallStates] /\ event_cache \in [Iocbs -> Times]
      /\ dio_filter \in [Dios -> Times] /\ refused \subseteq Dios
      /\ CallClock /\ NoDio \notin Dios
  BY Ext4DioInfoAssumption DEF TypeInv, TypeOK
<1>2. \A j \in Iocbs : call[j].dio \in Dios \cup {NoDio}
  BY <1>1 DEF CallStates
<1>3. ASSUME NEW own \in BOOLEAN, DioIter(i, own)
      PROVE  KeysInv'
  <2>1. call[i].dio = NoDio /\ UNCHANGED <<dio_filter, refused>>
    BY <1>1, <1>2, <1>3 DEF DioIter, CallClock
  <2>2. call'[i].dio = NoDio /\ \A j \in Iocbs : j # i => call'[j] = call[j]
    BY <1>1, <1>3 DEF DioIter, NoCall
  <2>3. \A j \in Iocbs : j # i => event_cache'[j] = event_cache[j]
    BY <1>1, <1>3 DEF DioIter
  <2> QED BY <1>1, <2>1, <2>2, <2>3 DEF KeysInv, Known
<1>4. CASE GiveUp(i)
  <2>1. call[i].dio = NoDio /\ UNCHANGED <<event_cache, dio_filter, refused>>
    BY <1>1, <1>2, <1>4 DEF GiveUp, CallClock, maps
  <2>2. call'[i].dio = NoDio /\ \A j \in Iocbs : j # i => call'[j] = call[j]
    BY <1>1, <1>4 DEF GiveUp, NoCall
  <2> QED BY <1>1, <2>1, <2>2 DEF KeysInv, Known
<1>5. ASSUME NEW d \in Dios, AllocDio(i, d)
      PROVE  KeysInv'
  <2>1. /\ call[i].dio = NoDio /\ UNCHANGED <<event_cache, dio_filter, refused>>
        /\ \A j \in Iocbs : call[j].dio # d
    BY <1>1, <1>2, <1>5 DEF AllocDio, CallClock, maps, InUse
  <2>2. call'[i].dio = d /\ \A j \in Iocbs : j # i => call'[j] = call[j]
    BY <1>1, <1>5 DEF AllocDio, CallStates
  <2> QED BY <1>1, <2>1, <2>2 DEF KeysInv, Known
<1>6. CASE BioActor(i)
  <2>1. /\ UNCHANGED <<event_cache, refused>>
        /\ \A j \in Iocbs : call'[j].dio = call[j].dio
    BY <1>1, <1>6 DEF BioActor, CallStates
  <2>2. \A d \in Dios : dio_filter'[d] = dio_filter[d] \/ (d = call[i].dio /\ Known(i))
    BY <1>1, <1>6 DEF BioActor, NewUid
  <2>3. ASSUME NEW d \in Dios, dio_filter'[d] # 0
        PROVE  d \in refused \/ \E j \in Iocbs : call[j].dio = d /\ Known(j)
    BY <2>2, <2>3 DEF KeysInv
  <2>4. \A j \in Iocbs : Known(j)' <=> Known(j)
    BY <2>1 DEF Known
  <2> QED BY <2>1, <2>3, <2>4 DEF KeysInv
<1>7. ASSUME NEW leftover \in Leftovers, Kfree(i, TRUE, leftover)
      PROVE  KeysInv'
  <2>1. call'[i].dio = NoDio /\ \A j \in Iocbs : j # i => call'[j] = call[j]
    BY <1>1, <1>7 DEF Kfree, NoCall
  <2>2. call[i].dio \in Dios /\ \A j \in Iocbs : j # i => call[j].dio # call[i].dio
    BY <1>1, <1>2, <1>7 DEF Kfree, CallClock, KeysInv
  <2>3. \A j \in Iocbs : j # i => event_cache'[j] = event_cache[j]
    BY <1>1, <1>7 DEF Kfree
  <2>4. CASE Known(i) /\ RingRoom
    <3>1. /\ dio_filter' = [dio_filter EXCEPT ![call[i].dio] = 0]
          /\ refused' = refused \ {call[i].dio}
      BY <1>7, <2>4 DEF Kfree, ForgetDio
    <3> QED BY <1>1, <2>1, <2>2, <2>3, <3>1 DEF KeysInv, Known
  <2>5. CASE Known(i) /\ ~RingRoom
    <3>1. dio_filter' = dio_filter /\ refused' = refused \cup {call[i].dio}
      BY <1>7, <2>5 DEF Kfree, ForgetDio
    <3> QED BY <1>1, <2>1, <2>2, <2>3, <3>1 DEF KeysInv, Known
  <2>6. CASE ~Known(i)
    <3>1. UNCHANGED <<dio_filter, refused>>
      BY <1>7, <2>6 DEF Kfree
    <3> QED BY <1>1, <2>1, <2>2, <2>3, <2>6, <3>1 DEF KeysInv, Known
  <2> QED BY <2>4, <2>5, <2>6
<1>8. Contexts(call[i].mine) = {TRUE}
  BY DEF Contexts
<1> QED BY <1>3, <1>4, <1>5, <1>6, <1>7, <1>8 DEF CallStep

(* Without a filter, kpkfree leaves a key in dio_filter only when the ring *)
(* refused the record of its direct I/O.                                   *)
THEOREM KeysLeakOnlyOnRefusal == ~UsingFilter /\ Spec => []KeysLeakOnRefusal
<1> SUFFICES ASSUME ~UsingFilter PROVE Spec => []KeysLeakOnRefusal
  OBVIOUS
<1>1. Init => KeysInv
  BY DEF Init, KeysInv, NoCall
<1>2. TypeInv /\ KeysInv /\ [Next]_vars => KeysInv'
  <2> SUFFICES ASSUME TypeInv, KeysInv, [Next]_vars PROVE KeysInv'
    OBVIOUS
  <2>1. ASSUME UNCHANGED <<call, event_cache, dio_filter, refused>>
        PROVE  KeysInv'
    BY <2>1 DEF KeysInv, Known
  <2>2. ASSUME NEW r \in Requests, RequestStep(r)
        PROVE  UNCHANGED <<call, event_cache, dio_filter, refused>>
    BY <2>2 DEF RequestStep, Track, TrackForeign, SchedMerge, QueueRq, DriverBusy, StartRequest,
                Done, EhFinish, Verify, Retry, EndBios, AccountIoDone, maps
  <2>3. CASE Proxy \/ UNCHANGED vars
    BY <2>1, <2>3 DEF Proxy, kernel, maps, vars
  <2> QED BY <2>1, <2>2, <2>3, KeysStep DEF Next, Aborted, Horizon
<1>3. KeysInv => KeysLeakOnRefusal
  BY Ext4DioInfoAssumption DEF KeysInv, KeysLeakOnRefusal, InUse
<1> QED BY <1>1, <1>2, <1>3, TypeInvariant, PTL DEF Spec

-----------------------------------------------------------------------------
(* Why the disk of a request is known: once a tracked request has been     *)
(* through queue_rq, its hardware queue is announced, by a record that the *)
(* consumer has seen, the ring holds or the ring refused; and once it is   *)
(* done, its entry has a drive, or the error handler ended it.             *)
HctxRecord(h) == [kind |-> "hctx", hctx |-> h]
Announced(h) ==
  \/ h \in hctx_mapping \cup unheard
  \/ \E j \in 1..Len(ext4_dio_log) : ext4_dio_log[j] = HctxRecord(h)

DriveKnown(entry, eh) == entry.drive = "none" => eh

RequestInv == \A r \in Requests : Tracked(r) =>
  /\ rq[r].at \in {"queued", "started", "done", "verified", "ended"} => Announced(Hctx[r])
  /\ rq[r].at \in {"done", "verified", "ended"} => DriveKnown(rq_cache[r], rq[r].eh)

DisksInv == RequestInv /\ DisksAnnounced

(* A record at the end of the ring, or refused, disturbs no announcement.  *)
LEMMA EmitAnnounces ==
  ASSUME TypeInv, DisksAnnounced, NEW rec, Emit(rec),
         hctx_mapping' = hctx_mapping, unheard \subseteq unheard',
         rec.kind = "rq" => Announced(rec.hctx) /\ DriveKnown(rec.entry, rec.rq.eh)
  PROVE  /\ DisksAnnounced'
         /\ \A h : Announced(h) => Announced(h)'
         /\ \A h : RingRoom /\ rec = HctxRecord(h) => Announced(h)'
<1>1. ext4_dio_log \in Seq(Records)
  BY DEF TypeInv, TypeOK, Records
<1>2. CASE ~RingRoom
  BY <1>2 DEF Emit, DisksAnnounced, Announced
<1>3. CASE RingRoom
  <2> DEFINE n == Len(ext4_dio_log)
  <2>1. /\ n \in Nat /\ Len(ext4_dio_log') = n + 1 /\ ext4_dio_log'[n + 1] = rec
        /\ \A j \in 1..n : ext4_dio_log'[j] = ext4_dio_log[j]
    BY <1>1, <1>3 DEF Emit
  <2>2. \A h : Announced(h) => Announced(h)'
    BY <2>1 DEF Announced
  <2>3. \A h : rec = HctxRecord(h) => Announced(h)'
    BY <2>1 DEF Announced
  <2>4. DisksAnnounced'
    <3> SUFFICES ASSUME NEW k \in 1..Len(ext4_dio_log'), ext4_dio_log'[k].kind = "rq"
                 PROVE  /\ \/ ext4_dio_log'[k].hctx \in hctx_mapping' \cup unheard'
                           \/ \E j \in 1..(k - 1) : ext4_dio_log'[j] = HctxRecord(ext4_dio_log'[k].hctx)
                        /\ DriveKnown(ext4_dio_log'[k].entry, ext4_dio_log'[k].rq.eh)
      BY DEF DisksAnnounced, HctxRecord, DriveKnown
    <3>1. CASE k = n + 1
      BY <2>1, <3>1 DEF Announced
    <3>2. CASE k \in 1..n
      <4>1. ext4_dio_log'[k] = ext4_dio_log[k] /\ \A j \in 1..(k - 1) : j \in 1..n
        BY <2>1, <3>2
      <4> QED BY <2>1, <3>2, <4>1 DEF DisksAnnounced, HctxRecord, DriveKnown
    <3> QED BY <2>1, <3>1, <3>2
  <2> QED BY <2>2, <2>3, <2>4
<1> QED BY <1>2, <1>3

(* What the consumer takes off the ring it knows from then on.             *)
LEMMA ProxyAnnounces ==
  ASSUME TypeInv, DisksAnnounced, Proxy
  PROVE  DisksAnnounced' /\ \A h : Announced(h) => Announced(h)'
<1> DEFINE n == Len(ext4_dio_log)
<1>0. ext4_dio_log \in Seq(Records) /\ ext4_dio_log # <<>> /\ ext4_dio_log' = Tail(ext4_dio_log)
  BY DEF TypeInv, TypeOK, Records, Proxy
<1>1. /\ n \in Nat /\ n > 0 /\ Len(ext4_dio_log') = n - 1
      /\ \A j \in 1..(n - 1) : ext4_dio_log'[j] = ext4_dio_log[j + 1]
  BY <1>0
<1>2. hctx_mapping \subseteq hctx_mapping' /\ unheard' = unheard
  BY DEF Proxy, ConsumeDio, ConsumeHctx, ConsumeRq
<1>3. \A h : ext4_dio_log[1] = HctxRecord(h) => h \in hctx_mapping'
  <2> SUFFICES ASSUME NEW h, ext4_dio_log[1] = HctxRecord(h) PROVE h \in hctx_mapping'
    OBVIOUS
  <2>1. Head(ext4_dio_log) = HctxRecord(h)
    BY <1>0
  <2> QED BY <2>1 DEF Proxy, ConsumeHctx, HctxRecord
<1>4. \A h : Announced(h) => Announced(h)'
  <2> SUFFICES ASSUME NEW h, NEW j \in 1..n, ext4_dio_log[j] = HctxRecord(h) PROVE Announced(h)'
    BY <1>2 DEF Announced
  <2>1. CASE j = 1
    BY <1>3, <2>1 DEF Announced
  <2>2. CASE j > 1
    <3>1. j - 1 \in 1..(n - 1) /\ ext4_dio_log'[j - 1] = HctxRecord(h)
      BY <1>1, <2>2
    <3> QED BY <1>1, <3>1 DEF Announced
  <2> QED BY <2>1, <2>2
<1>5. DisksAnnounced'
  <2> SUFFICES ASSUME NEW k \in 1..(n - 1), ext4_dio_log'[k].kind = "rq"
               PROVE  /\ \/ ext4_dio_log'[k].hctx \in hctx_mapping' \cup unheard'
                         \/ \E j \in 1..(k - 1) : ext4_dio_log'[j] = HctxRecord(ext4_dio_log'[k].hctx)
                      /\ DriveKnown(ext4_dio_log'[k].entry, ext4_dio_log'[k].rq.eh)
    BY <1>1 DEF DisksAnnounced, HctxRecord, DriveKnown
  <2> DEFINE h == ext4_dio_log[k + 1].hctx
  <2>1. ext4_dio_log'[k] = ext4_dio_log[k + 1] /\ k + 1 \in 1..n
    BY <1>1
  <2>2. /\ \/ h \in hctx_mapping \cup unheard
           \/ \E j \in 1..k : ext4_dio_log[j] = HctxRecord(h)
        /\ DriveKnown(ext4_dio_log[k + 1].entry, ext4_dio_log[k + 1].rq.eh)
    BY <2>1 DEF DisksAnnounced, HctxRecord, DriveKnown
  <2>3. ASSUME NEW j \in 1..k, ext4_dio_log[j] = HctxRecord(h)
        PROVE  h \in hctx_mapping' \/ \E m \in 1..(k - 1) : ext4_dio_log'[m] = HctxRecord(h)
    <3>1. CASE j = 1
      BY <1>3, <2>3, <3>1
    <3>2. CASE j > 1
      <4>1. j - 1 \in 1..(k - 1) /\ j - 1 \in 1..(n - 1) /\ (j - 1) + 1 = j
        BY <1>1, <3>2
      <4>2. ext4_dio_log'[j - 1] = HctxRecord(h)
        BY <1>1, <2>3, <4>1
      <4> QED BY <4>1, <4>2
    <3> QED BY <3>1, <3>2
  <2> QED BY <1>2, <2>1, <2>2, <2>3
<1> QED BY <1>4, <1>5

(* A step of a request: what it claims of itself, and what it leaves.      *)
LEMMA RequestAnnounces ==
  ASSUME TypeInv, ~UsingFilter, DisksInv, NEW r \in Requests, RequestStep(r)
  PROVE  DisksInv'
<1>1. /\ rq \in [Requests -> RqStates] /\ rq_cache \in [Requests -> Entries]
  BY DEF TypeInv, TypeOK
<1> DEFINE Claims ==
             Tracked(r)' =>
               /\ rq'[r].at \in {"queued", "started", "done", "verified", "ended"} => Announced(Hctx[r])'
               /\ rq'[r].at \in {"done", "verified", "ended"} => DriveKnown(rq_cache'[r], rq'[r].eh)
           Others ==
             \A s \in Requests : s # r => rq'[s] = rq[s] /\ rq_cache'[s] = rq_cache[s]
           Heard == DisksAnnounced' /\ \A h : Announced(h) => Announced(h)'
<1>2. ASSUME Claims, Others, Heard PROVE DisksInv'
  BY <1>2 DEF DisksInv, RequestInv, Tracked
<1>3. ASSUME UNCHANGED <<ext4_dio_log, hctx_mapping, unheard>> PROVE Heard
  BY <1>3 DEF DisksInv, DisksAnnounced, Announced
<1>4. ASSUME NEW i \in Iocbs, Track(r, i) PROVE DisksInv'
  <2>1. Heard
    BY <1>3, <1>4 DEF Track, consumer
  <2>2. Others /\ rq'[r].at = "tracked"
    BY <1>1, <1>4 DEF Track, TrackProbe, NoRq
  <2> QED BY <1>2, <2>1, <2>2
<1>5. ASSUME NEW d \in Dios \cup {NoDio}, NEW seen \in BOOLEAN, TrackForeign(r, d, seen) PROVE DisksInv'
  <2>1. Heard
    BY <1>3, <1>5 DEF TrackForeign, consumer
  <2>2. Others /\ rq'[r].at \in {"tracked", "free"}
    BY <1>1, <1>5 DEF TrackForeign, TrackProbe, RqStates
  <2> QED BY <1>2, <2>1, <2>2
<1>6. CASE SchedMerge(r) \/ DriverBusy(r) \/ Retry(r)
  <2>1. Heard
    BY <1>3, <1>6 DEF SchedMerge, DriverBusy, Retry, consumer
  <2>2. Others /\ rq'[r].at \in {"tracked", "free"}
    BY <1>1, <1>6 DEF SchedMerge, DriverBusy, Retry, Goto, NoRq, maps, RqStates
  <2> QED BY <1>2, <2>1, <2>2
<1>7. CASE QueueRq(r, TRUE)
  <2>1. Others /\ rq'[r].at = "queued" /\ (Tracked(r)' => Tracked(r))
    BY <1>1, <1>7 DEF QueueRq, Tracked, RqStates
  <2>2. CASE Tracked(r)
    <3> DEFINE rec == HctxRecord(Hctx[r])
    <3>1. /\ Emit(rec) /\ hctx_mapping' = hctx_mapping
          /\ unheard' = IF RingRoom THEN unheard ELSE unheard \cup {Hctx[r]}
      BY <1>7, <2>2 DEF QueueRq, HctxRecord, consumer
    <3>2. Heard /\ (RingRoom => Announced(Hctx[r])')
      <4>1. rec.kind # "rq" /\ unheard \subseteq unheard'
        BY <3>1 DEF HctxRecord
      <4> HIDE DEF rec
      <4>2. DisksAnnounced
        BY DEF DisksInv
      <4> QED BY <3>1, <4>1, <4>2, EmitAnnounces DEF rec
    <3>3. Announced(Hctx[r])'
      BY <3>1, <3>2 DEF Announced
    <3> QED BY <1>2, <2>1, <3>2, <3>3
  <2>3. CASE ~Tracked(r)
    <3>1. Heard
      BY <1>3, <1>7, <2>3 DEF QueueRq, consumer
    <3> QED BY <1>2, <2>1, <2>3, <3>1
  <2> QED BY <2>2, <2>3
<1>8. CASE StartRequest(r) \/ Verify(r) \/ EndBios(r)
  <2>1. Heard
    BY <1>3, <1>8 DEF StartRequest, Verify, EndBios, consumer
  <2>2. /\ Others /\ rq'[r].eh = rq[r].eh /\ rq_cache'[r].drive = rq_cache[r].drive
        /\ Tracked(r)' => Tracked(r)
    BY <1>1, <1>8 DEF StartRequest, Verify, EndBios, Goto, SecondStamp, Stamp, Tracked, maps,
                      RqStates, Entries
  <2>3. \/ rq[r].at = "queued" /\ rq'[r].at = "started"
        \/ rq[r].at = "done" /\ rq'[r].at = "verified"
        \/ rq[r].at = "verified" /\ rq'[r].at = "ended"
    BY <1>1, <1>8 DEF StartRequest, Verify, EndBios, Goto, RqStates
  <2> QED BY <1>2, <2>1, <2>2, <2>3 DEF DisksInv, RequestInv, DriveKnown
<1>9. CASE Done(r)
  <2>1. Heard
    BY <1>3, <1>9 DEF Done, consumer
  <2>2. Others /\ rq[r].at = "started" /\ (Tracked(r)' => Tracked(r))
    BY <1>1, <1>9 DEF Done, Goto, Tracked
  <2>3. Tracked(r) => rq_cache'[r].drive # "none"
    BY <1>1, <1>9, Ext4DioInfoAssumption DEF Done, Entries
  <2> QED BY <1>2, <2>1, <2>2, <2>3 DEF DisksInv, RequestInv, DriveKnown
<1>10. CASE EhFinish(r)
  <2>1. Heard
    BY <1>3, <1>10 DEF EhFinish, consumer
  <2>2. Others /\ rq[r].at = "started" /\ rq'[r].eh /\ (Tracked(r)' => Tracked(r))
    BY <1>1, <1>10 DEF EhFinish, Tracked, maps, RqStates
  <2> QED BY <1>2, <2>1, <2>2 DEF DisksInv, RequestInv, DriveKnown
<1>11. CASE AccountIoDone(r)
  <2>1. Others /\ rq[r].at = "ended" /\ rq'[r].at = "free"
    BY <1>1, <1>11 DEF AccountIoDone, NoRq
  <2>2. CASE Tracked(r)
    <3> DEFINE rec == [kind |-> "rq", entry |-> rq_cache[r], hctx |-> Hctx[r], rq |-> rq[r]]
    <3>1. Emit(rec) /\ UNCHANGED <<hctx_mapping, unheard>>
      BY <1>11, <2>2 DEF AccountIoDone, consumer
    <3>2. Announced(rec.hctx) /\ DriveKnown(rec.entry, rec.rq.eh) /\ DisksAnnounced
      BY <2>1, <2>2 DEF DisksInv, RequestInv
    <3>3. Heard
      <4> HIDE DEF rec
      <4> QED BY <3>1, <3>2, EmitAnnounces
    <3> QED BY <1>2, <2>1, <3>3
  <2>3. CASE ~Tracked(r)
    <3>1. Heard
      BY <1>3, <1>11, <2>3 DEF AccountIoDone, consumer
    <3> QED BY <1>2, <2>1, <3>1
  <2> QED BY <2>2, <2>3
<1>12. Contexts(TRUE) = {TRUE}
  BY DEF Contexts
<1> QED
  BY <1>4, <1>5, <1>6, <1>7, <1>8, <1>9, <1>10, <1>11, <1>12 DEF RequestStep

(* Without a filter, the disk of every reported request is known by the    *)
(* time its record is consumed, unless the ring refused the record of the  *)
(* hardware queue, and so is its drive, unless the error handler ended it. *)
THEOREM DisksAlwaysAnnounced == ~UsingFilter /\ Spec => []DisksAnnounced
<1> SUFFICES ASSUME ~UsingFilter PROVE Spec => []DisksAnnounced
  OBVIOUS
<1>1. Init => DisksInv
  BY DEF Init, DisksInv, RequestInv, DisksAnnounced, Tracked
<1>2. TypeInv /\ DisksInv /\ [Next]_vars => DisksInv'
  <2> SUFFICES ASSUME TypeInv, DisksInv, [Next]_vars PROVE DisksInv'
    OBVIOUS
  <2>1. ASSUME UNCHANGED kernel \/ UNCHANGED rq, UNCHANGED rq_cache,
               DisksAnnounced' /\ \A h : Announced(h) => Announced(h)'
        PROVE  DisksInv'
    BY <2>1 DEF DisksInv, RequestInv, Tracked, kernel
  <2>2. ASSUME NEW i \in Iocbs, CallStep(i) PROVE DisksInv'
    <3>1. UNCHANGED <<rq, rq_cache, hctx_mapping, unheard>>
      BY <2>2 DEF CallStep, DioIter, GiveUp, AllocDio, BioActor, Kfree, maps, consumer
    <3>2. UNCHANGED ext4_dio_log \/ \E rec : Emit(rec) /\ rec.kind = "dio"
      <4>1. ASSUME NEW seen, NEW leftover, Kfree(i, seen, leftover)
            PROVE  UNCHANGED ext4_dio_log \/ \E rec : Emit(rec) /\ rec.kind = "dio"
        <5> DEFINE d == call[i].dio
                   known == dio_filter[d] # 0
                   rec == [kind |-> "dio", uid |-> IF known THEN dio_filter[d] ELSE leftover,
                           own |-> known /\ call[i].ext > 0, call |-> call[i].began,
                           ext |-> call[i].ext]
        <5>1. rec.kind = "dio"
          OBVIOUS
        <5>2. UNCHANGED ext4_dio_log \/ Emit(rec)
          BY <4>1 DEF Kfree
        <5> HIDE DEF rec
        <5> QED BY <5>1, <5>2
      <4>2. CASE \A seen, leftover : ~Kfree(i, seen, leftover)
        BY <2>2, <4>2 DEF CallStep, DioIter, GiveUp, AllocDio, BioActor
      <4> QED BY <4>1, <4>2
    <3>3. CASE UNCHANGED ext4_dio_log
      BY <2>1, <3>1, <3>3 DEF DisksInv, DisksAnnounced, Announced
    <3>4. ASSUME NEW rec, Emit(rec), rec.kind = "dio"
          PROVE  DisksAnnounced' /\ \A h : Announced(h) => Announced(h)'
      BY <3>1, <3>4, EmitAnnounces DEF DisksInv
    <3> QED BY <2>1, <3>1, <3>2, <3>3, <3>4
  <2>3. CASE Proxy
    <3>1. UNCHANGED rq /\ UNCHANGED rq_cache
      BY <2>3 DEF Proxy, kernel, maps
    <3> QED BY <2>1, <2>3, <3>1, ProxyAnnounces DEF DisksInv
  <2>4. CASE UNCHANGED vars
    BY <2>1, <2>4 DEF vars, DisksInv, DisksAnnounced, Announced
  <2> QED BY <2>2, <2>3, <2>4, RequestAnnounces DEF Next, Aborted, Horizon
<1>3. DisksInv => DisksAnnounced
  BY DEF DisksInv
<1> QED BY <1>1, <1>2, <1>3, TypeInvariant, PTL DEF Spec

-----------------------------------------------------------------------------
(* Why a row is complete: at each stage of an attempt the entry has the    *)
(* stamps of this attempt so far, unless the error handler took over.      *)
StampsSoFar(at, stamps) ==
  /\ at \in {"queued", "started", "done", "verified", "ended"} => "queue_rq" \in stamps
  /\ at \in {"started", "done", "verified", "ended"} => "rq_start" \in stamps
  /\ at \in {"done", "verified", "ended"} => "done" \in stamps
  /\ at \in {"verified", "ended"} => "verified" \in stamps

Attempt(r) ==
  /\ rq[r].at = "queued" => rq[r].seen
  /\ rq[r].eh => rq[r].at \in {"done", "verified", "ended"}
  /\ Tracked(r) /\ ~rq[r].eh => StampsSoFar(rq[r].at, rq_cache[r].stamps)

RecordsComplete ==
  \A k \in 1..Len(ext4_dio_log) :
    ext4_dio_log[k].kind = "rq" /\ ~ext4_dio_log[k].rq.eh => ext4_dio_log[k].entry.stamps = Stages

StampsInv == RecordsComplete /\ RowsComplete /\ \A r \in Requests : Attempt(r)

LEMMA EmitComplete ==
  ASSUME TypeInv, RecordsComplete, NEW rec, Emit(rec),
         rec.kind = "rq" /\ ~rec.rq.eh => rec.entry.stamps = Stages
  PROVE  RecordsComplete'
<1> DEFINE n == Len(ext4_dio_log)
<1>1. ext4_dio_log \in Seq(Records)
  BY DEF TypeInv, TypeOK, Records
<1>2. CASE ~RingRoom
  BY <1>2 DEF Emit, RecordsComplete
<1>3. CASE RingRoom
  <2>1. /\ n \in Nat /\ Len(ext4_dio_log') = n + 1 /\ ext4_dio_log'[n + 1] = rec
        /\ \A j \in 1..n : ext4_dio_log'[j] = ext4_dio_log[j]
    BY <1>1, <1>3 DEF Emit
  <2>2. \A k \in 1..(n + 1) : k = n + 1 \/ k \in 1..n
    BY <2>1
  <2> QED BY <2>1, <2>2 DEF RecordsComplete
<1> QED BY <1>2, <1>3

LEMMA ProxyComplete ==
  ASSUME TypeInv, RecordsComplete, RowsComplete, Proxy
  PROVE  RecordsComplete' /\ RowsComplete'
<1> DEFINE n == Len(ext4_dio_log)
           rec == Head(ext4_dio_log)
<1>1. /\ n \in Nat /\ n > 0 /\ Len(ext4_dio_log') = n - 1 /\ rec = ext4_dio_log[1]
      /\ \A j \in 1..(n - 1) : ext4_dio_log'[j] = ext4_dio_log[j + 1]
  <2>1. ext4_dio_log \in Seq(Records) /\ ext4_dio_log # <<>> /\ ext4_dio_log' = Tail(ext4_dio_log)
    BY DEF TypeInv, TypeOK, Records, Proxy
  <2> QED BY <2>1
<1>2. RecordsComplete'
  <2>1. \A k \in 1..(n - 1) : k + 1 \in 1..n
    BY <1>1
  <2> QED BY <1>1, <2>1 DEF RecordsComplete
<1>3. RowsComplete'
  <2>1. 1 \in 1..n
    BY <1>1
  <2>2. rec.kind = "rq" /\ ~rec.rq.eh => rec.entry.stamps = Stages
    BY <1>1, <2>1 DEF RecordsComplete
  <2>3. rq_rows' \subseteq rq_rows \/ (rec.kind = "rq" /\ rq_rows' = rq_rows \cup {RqRow(rec)})
    BY DEF Proxy, ConsumeDio, ConsumeRq
  <2>4. RqRow(rec).eh = rec.rq.eh /\ RqRow(rec).stamps = rec.entry.stamps
    BY DEF RqRow
  <2> HIDE DEF rec
  <2> QED BY <2>2, <2>3, <2>4 DEF RowsComplete
<1> QED BY <1>2, <1>3

LEMMA RequestComplete ==
  ASSUME TypeInv, ~UsingFilter, StampsInv, NEW r \in Requests, RequestStep(r)
  PROVE  StampsInv'
<1>1. /\ rq \in [Requests -> RqStates] /\ rq_cache \in [Requests -> Entries]
      /\ rq[r] \in RqStates /\ rq_cache[r] \in Entries
  BY DEF TypeInv, TypeOK
<1>2. rq_cache[r].stamps \subseteq Stages /\ rq[r].eh \in BOOLEAN /\ Attempt(r)
  BY <1>1 DEF Entries, RqStates, StampsInv
<1> DEFINE Others ==
             \A s \in Requests : s # r => rq'[s] = rq[s] /\ rq_cache'[s] = rq_cache[s]
<1>3. ASSUME Attempt(r)', Others, RecordsComplete', UNCHANGED rq_rows PROVE StampsInv'
  BY <1>3 DEF StampsInv, Attempt, Tracked, RowsComplete
<1>4. ASSUME UNCHANGED ext4_dio_log PROVE RecordsComplete'
  BY <1>4 DEF StampsInv, RecordsComplete
<1>5. ASSUME NEW i \in Iocbs, Track(r, i) PROVE StampsInv'
  <2>1. Others /\ rq'[r].at = "tracked" /\ rq'[r].eh = FALSE
    BY <1>1, <1>5 DEF Track, TrackProbe, NoRq
  <2> QED BY <1>3, <1>4, <1>5, <2>1 DEF Track, consumer, Attempt, StampsSoFar
<1>6. ASSUME NEW d \in Dios \cup {NoDio}, TrackForeign(r, d, TRUE) PROVE StampsInv'
  <2>1. Others /\ UNCHANGED <<ext4_dio_log, rq_rows>>
    BY <1>1, <1>6 DEF TrackForeign, TrackProbe, consumer
  <2>2. rq[r].at = "free" /\ ~rq[r].eh
    BY <1>2, <1>6 DEF TrackForeign, Attempt
  <2>3. rq'[r].eh = rq[r].eh /\ rq'[r].at \in {"free", "tracked"}
    BY <1>1, <1>6, <2>2 DEF TrackForeign, RqStates
  <2> QED BY <1>3, <1>4, <2>1, <2>2, <2>3 DEF Attempt, StampsSoFar
<1>7. CASE SchedMerge(r) \/ DriverBusy(r) \/ Retry(r)
  <2>1. Others /\ UNCHANGED <<ext4_dio_log, rq_rows>>
    BY <1>1, <1>7 DEF SchedMerge, DriverBusy, Retry, Goto, maps, consumer
  <2>2. rq'[r].at \in {"free", "tracked"} /\ rq'[r].eh = FALSE
    <3>1. CASE SchedMerge(r)
      BY <1>1, <3>1 DEF SchedMerge, NoRq
    <3>2. CASE DriverBusy(r)
      BY <1>1, <1>2, <3>2 DEF DriverBusy, Goto, Attempt, RqStates
    <3>3. CASE Retry(r)
      BY <1>1, <3>3 DEF Retry, RqStates
    <3> QED BY <1>7, <3>1, <3>2, <3>3
  <2> QED BY <1>3, <1>4, <2>1, <2>2 DEF Attempt, StampsSoFar
<1>8. CASE QueueRq(r, TRUE)
  <2>1. Others /\ rq'[r].at = "queued" /\ rq'[r].seen /\ rq'[r].eh = rq[r].eh /\ ~rq[r].eh
    BY <1>1, <1>2, <1>8 DEF QueueRq, RqStates, Attempt
  <2>2. UNCHANGED rq_rows
    BY <1>8 DEF QueueRq, consumer
  <2>3. CASE Tracked(r)
    <3> DEFINE rec == [kind |-> "hctx", hctx |-> Hctx[r]]
    <3>1. Emit(rec) /\ rec.kind # "rq"
      BY <1>8, <2>3 DEF QueueRq
    <3>2. RecordsComplete'
      <4> HIDE DEF rec
      <4> QED BY <3>1, EmitComplete DEF StampsInv
    <3>3. rq_cache'[r].stamps = {"queue_rq"}
      BY <1>1, <1>8, <2>3 DEF QueueRq, Entries
    <3> QED BY <1>3, <2>1, <2>2, <3>2, <3>3 DEF Attempt, StampsSoFar
  <2>4. CASE ~Tracked(r)
    <3>1. UNCHANGED <<ext4_dio_log, rq_cache>>
      BY <1>8, <2>4 DEF QueueRq
    <3> QED BY <1>3, <1>4, <2>1, <2>2, <2>4, <3>1 DEF Attempt, Tracked
  <2> QED BY <2>3, <2>4
<1>9. ASSUME NEW stage \in Stages, rq_cache' = Stamp(r, stage)
      PROVE  /\ Tracked(r)' => Tracked(r)
             /\ Tracked(r) => rq_cache'[r].stamps = rq_cache[r].stamps \cup {stage}
  BY <1>1, <1>9 DEF Stamp, Tracked, Entries
<1>10. CASE StartRequest(r)
  <2>1. /\ Others /\ UNCHANGED <<ext4_dio_log, rq_rows>> /\ rq[r].at = "queued"
        /\ rq'[r].at = "started" /\ rq'[r].eh = rq[r].eh
    BY <1>1, <1>10 DEF StartRequest, Goto, Stamp, consumer, RqStates
  <2>2. rq_cache' = Stamp(r, "rq_start") /\ "rq_start" \in Stages /\ ~rq[r].eh
    BY <1>2, <1>10, <2>1 DEF StartRequest, Attempt, Stages
  <2> QED BY <1>2, <1>3, <1>4, <1>9, <2>1, <2>2 DEF Attempt, StampsSoFar
<1>11. CASE Done(r)
  <2>1. /\ Others /\ UNCHANGED <<ext4_dio_log, rq_rows>> /\ rq[r].at = "started"
        /\ rq'[r].at = "done" /\ rq'[r].eh = rq[r].eh
    BY <1>1, <1>11 DEF Done, Goto, consumer, RqStates
  <2>2. /\ Tracked(r)' => Tracked(r)
        /\ Tracked(r) => rq_cache'[r].stamps = rq_cache[r].stamps \cup {"done"}
    BY <1>1, <1>11 DEF Done, Tracked, Entries
  <2> QED BY <1>2, <1>3, <1>4, <2>1, <2>2 DEF Attempt, StampsSoFar
<1>12. CASE EhFinish(r)
  <2>1. /\ Others /\ UNCHANGED <<ext4_dio_log, rq_rows>> /\ rq'[r].at = "done" /\ rq'[r].eh
    BY <1>1, <1>12 DEF EhFinish, maps, consumer, RqStates
  <2> QED BY <1>3, <1>4, <2>1 DEF Attempt
<1>13. CASE Verify(r)
  <2>1. /\ Others /\ UNCHANGED <<ext4_dio_log, rq_rows>> /\ rq[r].at = "done"
        /\ rq'[r].at = "verified" /\ rq'[r].eh = rq[r].eh
    BY <1>1, <1>13 DEF Verify, Goto, SecondStamp, Stamp, consumer, RqStates
  <2>2. rq_cache' = Stamp(r, "verified") /\ "verified" \in Stages
    BY <1>13 DEF Verify, SecondStamp, Stages
  <2> QED BY <1>2, <1>3, <1>4, <1>9, <2>1, <2>2 DEF Attempt, StampsSoFar
<1>14. CASE EndBios(r)
  <2>1. /\ Others /\ UNCHANGED <<ext4_dio_log, rq_rows, rq_cache>> /\ rq[r].at = "verified"
        /\ rq'[r].at = "ended" /\ rq'[r].eh = rq[r].eh
    BY <1>1, <1>14 DEF EndBios, Goto, maps, consumer, RqStates
  <2> QED BY <1>2, <1>3, <1>4, <2>1 DEF Attempt, StampsSoFar, Tracked
<1>15. CASE AccountIoDone(r)
  <2>1. Others /\ UNCHANGED rq_rows /\ rq[r].at = "ended" /\ rq'[r] = NoRq
    BY <1>1, <1>15 DEF AccountIoDone, consumer
  <2>2. Attempt(r)'
    BY <2>1 DEF Attempt, StampsSoFar, NoRq
  <2>3. CASE Tracked(r)
    <3> DEFINE rec == [kind |-> "rq", entry |-> rq_cache[r], hctx |-> Hctx[r], rq |-> rq[r]]
    <3>1. Emit(rec)
      BY <1>15, <2>3 DEF AccountIoDone
    <3>2. rec.kind = "rq" /\ ~rec.rq.eh => rec.entry.stamps = Stages
      BY <1>2, <2>1, <2>3 DEF Attempt, StampsSoFar, Stages
    <3>3. RecordsComplete'
      <4> HIDE DEF rec
      <4> QED BY <3>1, <3>2, EmitComplete DEF StampsInv
    <3> QED BY <1>3, <2>1, <2>2, <3>3
  <2>4. CASE ~Tracked(r)
    <3>1. UNCHANGED ext4_dio_log
      BY <1>15, <2>4 DEF AccountIoDone
    <3> QED BY <1>3, <1>4, <2>1, <2>2, <3>1
  <2> QED BY <2>3, <2>4
<1>16. Contexts(TRUE) = {TRUE}
  BY DEF Contexts
<1> QED
  BY <1>5, <1>6, <1>7, <1>8, <1>10, <1>11, <1>12, <1>13, <1>14, <1>15, <1>16 DEF RequestStep

(* Without a filter, the row of a request whose last attempt the driver    *)
(* completed has the four stamps of that attempt, whatever was retried     *)
(* before: none of its latencies is computed from a time never taken.      *)
THEOREM RowsAreComplete == ~UsingFilter /\ Spec => []RowsComplete
<1> SUFFICES ASSUME ~UsingFilter PROVE Spec => []RowsComplete
  OBVIOUS
<1>1. Init => StampsInv
  <2> SUFFICES ASSUME Init PROVE StampsInv
    OBVIOUS
  <2>1. \A r \in Requests : Attempt(r)
    BY DEF Init, Attempt, Tracked, NoRq
  <2>2. RecordsComplete /\ RowsComplete
    BY DEF Init, RecordsComplete, RowsComplete
  <2> QED BY <2>1, <2>2 DEF StampsInv
<1>2. TypeInv /\ StampsInv /\ [Next]_vars => StampsInv'
  <2> SUFFICES ASSUME TypeInv, StampsInv, [Next]_vars PROVE StampsInv'
    OBVIOUS
  <2>1. ASSUME UNCHANGED <<rq, rq_cache>>, RecordsComplete', RowsComplete' PROVE StampsInv'
    BY <2>1 DEF StampsInv, Attempt, Tracked
  <2>2. ASSUME NEW i \in Iocbs, CallStep(i) PROVE StampsInv'
    <3>1. UNCHANGED <<rq, rq_cache, rq_rows>>
      BY <2>2 DEF CallStep, DioIter, GiveUp, AllocDio, BioActor, Kfree, maps, consumer
    <3>2. RecordsComplete'
      <4>1. ASSUME NEW seen, NEW leftover, Kfree(i, seen, leftover) PROVE RecordsComplete'
        <5> DEFINE known == dio_filter[call[i].dio] # 0
                   rec == [kind |-> "dio", uid |-> IF known THEN dio_filter[call[i].dio] ELSE leftover,
                           own |-> known /\ call[i].ext > 0, call |-> call[i].began,
                           ext |-> call[i].ext]
        <5>1. rec.kind # "rq" /\ (UNCHANGED ext4_dio_log \/ Emit(rec))
          BY <4>1 DEF Kfree
        <5> HIDE DEF rec
        <5>2. CASE UNCHANGED ext4_dio_log
          BY <5>2 DEF StampsInv, RecordsComplete
        <5> QED BY <5>1, <5>2, EmitComplete DEF StampsInv
      <4>2. CASE UNCHANGED ext4_dio_log
        BY <4>2 DEF StampsInv, RecordsComplete
      <4> QED BY <2>2, <4>1, <4>2 DEF CallStep, DioIter, GiveUp, AllocDio, BioActor
    <3> QED BY <2>1, <3>1, <3>2 DEF StampsInv, RowsComplete
  <2>3. CASE Proxy
    <3>1. UNCHANGED <<rq, rq_cache>>
      BY <2>3 DEF Proxy, kernel, maps
    <3> QED BY <2>1, <2>3, <3>1, ProxyComplete DEF StampsInv
  <2>4. CASE UNCHANGED vars
    BY <2>1, <2>4 DEF vars, StampsInv, RecordsComplete, RowsComplete
  <2> QED BY <2>2, <2>3, <2>4, RequestComplete DEF Next, Aborted, Horizon
<1>3. StampsInv => RowsComplete
  BY DEF StampsInv
<1> QED BY <1>1, <1>2, <1>3, TypeInvariant, PTL DEF Spec
=============================================================================

------------------------ MODULE Ext4DioInfoJoinProofs ------------------------
(***************************************************************************)
(* Why the join by dio_uid is right, without a filter and for any          *)
(* addresses and capacities, although keys of dio_filter leak and the      *)
(* addresses of calls and requests are reused.                             *)
(***************************************************************************)
EXTENDS Ext4DioInfoProofs

(* A request with the uid u and a call began at c with e extents mapped:   *)
(* in flight, in the ring or in its row; and a direct I/O reported so.     *)
InFlight(r) == rq[r].at # "free" /\ Tracked(r)

Borne(u, c, e) ==
  \/ \E r \in Requests : InFlight(r) /\ rq_cache[r].uid = u /\ rq[r].of = c /\ rq[r].ext = e
  \/ \E k \in 1..Len(ext4_dio_log) :
       /\ ext4_dio_log[k].kind = "rq" /\ ext4_dio_log[k].entry.uid = u
       /\ ext4_dio_log[k].rq.of = c /\ ext4_dio_log[k].rq.ext = e
  \/ \E b \in rq_rows : b.uid = u /\ b.of = c /\ b.ext = e

Reported(u, c, e) ==
  \/ \E k \in 1..Len(ext4_dio_log) :
       /\ ext4_dio_log[k].kind = "dio" /\ ext4_dio_log[k].own /\ ext4_dio_log[k].uid = u
       /\ ext4_dio_log[k].call = c /\ ext4_dio_log[k].ext = e
  \/ \E a \in dio_rows : a.own /\ a.uid = u /\ a.call = c /\ a.ext = e

(* A call whose uid is in dio_filter: set in this call, since the first    *)
(* extent overwrites what an earlier call left under the address.          *)
Live(i) == Known(i) /\ call[i].ext > 0 /\ dio_filter[call[i].dio] # 0

(* What the join needs of the calls: they begin at different times, have   *)
(* different dios with different keys, and map extents only with a dio.    *)
CallsApart ==
  /\ \A i \in Iocbs :
       /\ call[i].mine /\ call[i].began <= now
       /\ call[i].at # "idle" => call[i].began > 0
       /\ call[i].at # "dio" => call[i].ext = 0 /\ call[i].dio = NoDio
       /\ call[i].at = "dio" => call[i].dio \in Dios
       /\ \A j \in Iocbs : i # j =>
            /\ call[i].began = call[j].began => call[i].began = 0
            /\ call[i].dio = call[j].dio => call[i].dio = NoDio
  /\ \A d \in Dios :
       /\ dio_filter[d] <= now
       /\ \A d2 \in Dios : d # d2 /\ dio_filter[d] = dio_filter[d2] => dio_filter[d] = 0

FreeRequests == \A r \in Requests : rq[r].at = "free" => rq[r] = NoRq

BorneInv == \A u, c, e : Borne(u, c, e) =>
  /\ u \in 0..now /\ c \in 0..now
  /\ \A i \in Iocbs :
       /\ c = call[i].began /\ c # 0 => e <= call[i].ext
       /\ Live(i) => /\ u = dio_filter[call[i].dio] => c = call[i].began
                     /\ c = call[i].began /\ e = call[i].ext => u = dio_filter[call[i].dio]

ReportedInv == \A u, c, e : Reported(u, c, e) =>
  /\ u \in 1..now /\ c \in 1..now
  /\ \A d \in Dios : dio_filter[d] # u
  /\ \A i \in Iocbs : call[i].began # c

Joined == \A u, c, e, u2, c2, e2 : Reported(u, c, e) /\ Borne(u2, c2, e2) =>
  /\ u2 = u => c2 = c
  /\ c2 = c /\ e2 = e => u2 = u

JoinInv == CallsApart /\ FreeRequests /\ BorneInv /\ ReportedInv /\ Joined

-----------------------------------------------------------------------------
(* What a step does to the ring, record by record.                         *)
LEMMA RingGains ==
  ASSUME TypeInv, NEW rec, Emit(rec), NEW k \in 1..Len(ext4_dio_log')
  PROVE  \/ k \in 1..Len(ext4_dio_log) /\ ext4_dio_log'[k] = ext4_dio_log[k]
         \/ RingRoom /\ ext4_dio_log'[k] = rec
<1>1. ext4_dio_log \in Seq(Records)
  BY DEF TypeInv, TypeOK, Records
<1>2. CASE RingRoom
  BY <1>1, <1>2 DEF Emit
<1>3. CASE ~RingRoom
  BY <1>3 DEF Emit
<1> QED BY <1>2, <1>3

LEMMA RingLoses ==
  ASSUME TypeInv, Proxy
  PROVE  /\ 1 \in 1..Len(ext4_dio_log) /\ Head(ext4_dio_log) = ext4_dio_log[1]
         /\ \A k \in 1..Len(ext4_dio_log') :
              k + 1 \in 1..Len(ext4_dio_log) /\ ext4_dio_log'[k] = ext4_dio_log[k + 1]
<1>1. ext4_dio_log \in Seq(Records) /\ ext4_dio_log # <<>> /\ ext4_dio_log' = Tail(ext4_dio_log)
  BY DEF TypeInv, TypeOK, Records, Proxy
<1> QED BY <1>1

(* Whose uid a request starts its life with.                               *)
NewBorne(u, c, e) ==
  \/ \E i \in Iocbs : /\ call[i].at = "dio" /\ call[i].ext > 0
                      /\ u = dio_filter[call[i].dio] /\ c = call[i].began /\ e = call[i].ext
  \/ \E d \in Dios \ InUse : u = dio_filter[d] /\ c = 0 /\ e = 0

LEMMA TrackBears ==
  ASSUME TypeInv, NEW r \in Requests, NEW d, rq_cache' = TrackProbe(r, d, TRUE)
  PROVE  /\ \A s \in Requests : s # r => rq_cache'[s] = rq_cache[s]
         /\ rq_cache'[r] # NoEntry => d \in Dios /\ rq_cache'[r].uid = dio_filter[d]
<1>1. rq_cache \in [Requests -> Entries]
  BY DEF TypeInv, TypeOK
<1> QED BY <1>1 DEF TrackProbe, NoEntry

LEMMA RequestBears ==
  ASSUME TypeInv, JoinInv, ~UsingFilter, NEW r \in Requests, RequestStep(r),
         NEW u, NEW c, NEW e, Borne(u, c, e)'
  PROVE  Borne(u, c, e) \/ NewBorne(u, c, e)
<1>1. rq \in [Requests -> RqStates] /\ rq_cache \in [Requests -> Entries]
  BY DEF TypeInv, TypeOK
<1>2. UNCHANGED rq_rows
  BY DEF RequestStep, Track, TrackForeign, SchedMerge, QueueRq, DriverBusy, StartRequest, Done,
         EhFinish, Verify, Retry, EndBios, AccountIoDone, consumer
<1>3. ASSUME NEW k \in 1..Len(ext4_dio_log'), ext4_dio_log'[k].kind = "rq",
             ext4_dio_log'[k].entry.uid = u, ext4_dio_log'[k].rq.of = c, ext4_dio_log'[k].rq.ext = e
      PROVE  Borne(u, c, e)
  <2>1. CASE AccountIoDone(r) /\ Tracked(r)
    <3> DEFINE rec == [kind |-> "rq", entry |-> rq_cache[r], hctx |-> Hctx[r], rq |-> rq[r]]
    <3>1. Emit(rec) /\ InFlight(r)
      BY <2>1 DEF AccountIoDone, InFlight
    <3>2. rec.entry = rq_cache[r] /\ rec.rq = rq[r]
      OBVIOUS
    <3> HIDE DEF rec
    <3>3. \/ k \in 1..Len(ext4_dio_log) /\ ext4_dio_log'[k] = ext4_dio_log[k]
          \/ ext4_dio_log'[k] = rec
      BY <3>1, RingGains
    <3> QED BY <1>3, <3>1, <3>2, <3>3 DEF Borne
  <2>2. CASE QueueRq(r, TRUE) /\ Tracked(r)
    <3> DEFINE rec == [kind |-> "hctx", hctx |-> Hctx[r]]
    <3>1. Emit(rec) /\ rec.kind # "rq"
      BY <2>2 DEF QueueRq
    <3> HIDE DEF rec
    <3>2. \/ k \in 1..Len(ext4_dio_log) /\ ext4_dio_log'[k] = ext4_dio_log[k]
          \/ ext4_dio_log'[k] = rec
      BY <3>1, RingGains
    <3> QED BY <1>3, <3>1, <3>2 DEF Borne
  <2>3. CASE UNCHANGED ext4_dio_log
    BY <1>3, <2>3 DEF Borne
  <2>4. Contexts(TRUE) = {TRUE}
    BY DEF Contexts
  <2> QED
    BY <2>1, <2>2, <2>3, <2>4
    DEF RequestStep, Track, TrackForeign, SchedMerge, QueueRq, DriverBusy, StartRequest, Done,
        EhFinish, Verify, Retry, EndBios, AccountIoDone
<1>4. ASSUME NEW s \in Requests, InFlight(s)', rq_cache'[s].uid = u, rq'[s].of = c, rq'[s].ext = e
      PROVE  Borne(u, c, e) \/ NewBorne(u, c, e)
  <2>1. ASSUME NEW i \in Iocbs, Track(r, i) PROVE Borne(u, c, e) \/ NewBorne(u, c, e)
    <3>1. /\ rq_cache' = TrackProbe(r, call[i].dio, TRUE) /\ call[i].at = "dio" /\ call[i].ext > 0
          /\ rq' = [rq EXCEPT ![r] = [NoRq EXCEPT !.at = "tracked", !.of = call[i].began,
                                                  !.ext = call[i].ext]]
      BY <2>1 DEF Track, JoinInv, CallsApart
    <3>2. CASE s = r
      <4>1. rq'[r].of = call[i].began /\ rq'[r].ext = call[i].ext
        BY <1>1, <3>1 DEF NoRq
      <4>2. rq_cache'[r].uid = dio_filter[call[i].dio]
        BY <1>4, <3>1, <3>2, TrackBears DEF InFlight, Tracked
      <4> QED BY <1>4, <3>1, <3>2, <4>1, <4>2 DEF NewBorne
    <3>3. CASE s # r
      <4>1. rq_cache'[s] = rq_cache[s] /\ rq'[s] = rq[s]
        BY <1>1, <3>1, <3>3, TrackBears
      <4> QED BY <1>4, <4>1 DEF Borne, InFlight, Tracked
    <3> QED BY <3>2, <3>3
  <2>2. ASSUME NEW d \in Dios \cup {NoDio}, TrackForeign(r, d, TRUE)
        PROVE  Borne(u, c, e) \/ NewBorne(u, c, e)
    <3>1. /\ rq_cache' = TrackProbe(r, d, TRUE) /\ d \notin InUse /\ rq[r].at = "free"
          /\ rq' = IF rq_cache'[r] = NoEntry THEN rq ELSE [rq EXCEPT ![r].at = "tracked"]
      BY <2>2 DEF TrackForeign
    <3>2. CASE s = r
      <4>1. rq[r].of = 0 /\ rq[r].ext = 0
        BY <3>1 DEF JoinInv, FreeRequests, NoRq
      <4>2. rq'[r].of = 0 /\ rq'[r].ext = 0
        BY <1>1, <3>1, <4>1 DEF RqStates
      <4>3. d \in Dios /\ rq_cache'[r].uid = dio_filter[d]
        BY <1>4, <3>1, <3>2, TrackBears DEF InFlight, Tracked
      <4> QED BY <1>4, <3>1, <3>2, <4>2, <4>3 DEF NewBorne
    <3>3. CASE s # r
      <4>1. rq_cache'[s] = rq_cache[s] /\ rq'[s] = rq[s]
        BY <1>1, <3>1, <3>3, TrackBears
      <4> QED BY <1>4, <4>1 DEF Borne, InFlight, Tracked
    <3> QED BY <3>2, <3>3
  <2>3. CASE /\ rq'[s].of = rq[s].of /\ rq'[s].ext = rq[s].ext /\ rq[s].at # "free"
             /\ rq_cache'[s].uid = rq_cache[s].uid /\ Tracked(s)
    BY <1>4, <2>3 DEF Borne, InFlight
  <2>4. CASE SchedMerge(r) \/ DriverBusy(r) \/ EhFinish(r) \/ Retry(r) \/ EndBios(r)
    <3>1. UNCHANGED rq_cache
      BY <2>4 DEF SchedMerge, DriverBusy, EhFinish, Retry, EndBios, maps
    <3>2. rq'[s].at # "free" => rq'[s].of = rq[s].of /\ rq'[s].ext = rq[s].ext /\ rq[s].at # "free"
      BY <1>1, <2>4 DEF SchedMerge, DriverBusy, EhFinish, Retry, EndBios, Goto, RqStates, NoRq
    <3> QED BY <1>4, <2>3, <3>1, <3>2 DEF InFlight, Tracked
  <2>5. CASE QueueRq(r, TRUE) \/ StartRequest(r) \/ Done(r) \/ Verify(r)
    <3>1. rq_cache'[s].uid = rq_cache[s].uid /\ (rq_cache'[s] # NoEntry => rq_cache[s] # NoEntry)
      BY <1>1, <2>5 DEF QueueRq, StartRequest, Done, Verify, SecondStamp, Stamp, Tracked, Entries
    <3>2. rq'[s].of = rq[s].of /\ rq'[s].ext = rq[s].ext /\ (rq'[s].at # "free" => rq[s].at # "free")
      BY <1>1, <2>5 DEF QueueRq, StartRequest, Done, Verify, Goto, RqStates
    <3> QED BY <1>4, <2>3, <3>1, <3>2 DEF InFlight, Tracked
  <2>6. CASE AccountIoDone(r)
    <3>1. s # r /\ rq'[s] = rq[s]
      BY <1>1, <1>4, <2>6 DEF AccountIoDone, NoRq, InFlight
    <3>2. rq_cache'[s] = rq_cache[s]
      BY <1>1, <2>6, <3>1 DEF AccountIoDone
    <3> QED BY <1>4, <2>3, <3>1, <3>2 DEF InFlight, Tracked
  <2>7. Contexts(TRUE) = {TRUE}
    BY DEF Contexts
  <2> QED BY <2>1, <2>2, <2>4, <2>5, <2>6, <2>7 DEF RequestStep
<1> QED BY <1>2, <1>3, <1>4 DEF Borne

(* No other step gives a request a uid.                                    *)
LEMMA CallBears ==
  ASSUME TypeInv, NEW i \in Iocbs, CallStep(i), NEW u, NEW c, NEW e, Borne(u, c, e)'
  PROVE  Borne(u, c, e)
<1>1. UNCHANGED <<rq, rq_cache, rq_rows>>
  BY DEF CallStep, DioIter, GiveUp, AllocDio, BioActor, Kfree, maps, consumer
<1>2. ASSUME NEW k \in 1..Len(ext4_dio_log'), ext4_dio_log'[k].kind = "rq"
      PROVE  k \in 1..Len(ext4_dio_log) /\ ext4_dio_log'[k] = ext4_dio_log[k]
  <2>1. ASSUME NEW seen, NEW leftover, Kfree(i, seen, leftover)
        PROVE  k \in 1..Len(ext4_dio_log) /\ ext4_dio_log'[k] = ext4_dio_log[k]
    <3> DEFINE d == call[i].dio
               known == dio_filter[d] # 0
               rec == [kind |-> "dio", uid |-> IF known THEN dio_filter[d] ELSE leftover,
                       own |-> known /\ call[i].ext > 0, call |-> call[i].began,
                       ext |-> call[i].ext]
    <3>1. rec.kind # "rq"
      OBVIOUS
    <3>2. UNCHANGED ext4_dio_log \/ Emit(rec)
      BY <2>1 DEF Kfree
    <3> HIDE DEF rec
    <3> QED BY <1>2, <3>1, <3>2, RingGains
  <2>2. CASE UNCHANGED ext4_dio_log
    BY <1>2, <2>2
  <2> QED BY <2>1, <2>2 DEF CallStep, DioIter, GiveUp, AllocDio, BioActor
<1> QED BY <1>1, <1>2 DEF Borne, InFlight, Tracked

LEMMA ProxyBears ==
  ASSUME TypeInv, Proxy, NEW u, NEW c, NEW e
  PROVE  /\ Borne(u, c, e)' => Borne(u, c, e)
         /\ Reported(u, c, e)' => Reported(u, c, e)
<1> DEFINE rec == ext4_dio_log[1]
<1>1. /\ 1 \in 1..Len(ext4_dio_log) /\ UNCHANGED <<rq, rq_cache>>
      /\ \A k \in 1..Len(ext4_dio_log') :
           k + 1 \in 1..Len(ext4_dio_log) /\ ext4_dio_log'[k] = ext4_dio_log[k + 1]
  BY RingLoses DEF Proxy, kernel, maps
<1>2. \/ rec.kind = "dio" /\ ConsumeDio(rec)
      \/ rec.kind = "hctx" /\ UNCHANGED <<dio_rows, rq_rows>>
      \/ rec.kind = "rq" /\ ConsumeRq(rec)
  BY RingLoses DEF Proxy
<1>3. \A b \in rq_rows' : b \in rq_rows \/ (rec.kind = "rq" /\ b = RqRow(rec))
  BY <1>2 DEF ConsumeDio, ConsumeRq
<1>4. RqRow(rec).uid = rec.entry.uid /\ RqRow(rec).of = rec.rq.of /\ RqRow(rec).ext = rec.rq.ext
  BY DEF RqRow
<1>5. \A a \in dio_rows' :
        a \in dio_rows \/ (rec.kind = "dio" /\ a = [uid |-> rec.uid, own |-> rec.own,
                                                   call |-> rec.call, ext |-> rec.ext])
  BY <1>2 DEF ConsumeDio, ConsumeRq
<1>6. Borne(u, c, e)' => Borne(u, c, e)
  BY <1>1, <1>3, <1>4 DEF Borne, InFlight, Tracked
<1>7. Reported(u, c, e)' => Reported(u, c, e)
  BY <1>1, <1>5 DEF Reported
<1> QED BY <1>6, <1>7

(* Which direct I/O a step reports with a uid of its own.                  *)
NewReport(i, u, c, e) ==
  /\ call[i].at = "dio" /\ Live(i) /\ RingRoom
  /\ u = dio_filter[call[i].dio] /\ c = call[i].began /\ e = call[i].ext

LEMMA CallReports ==
  ASSUME TypeInv, NEW i \in Iocbs, CallStep(i), NEW u, NEW c, NEW e, Reported(u, c, e)'
  PROVE  \/ Reported(u, c, e)
         \/ NewReport(i, u, c, e) /\ dio_filter' = [dio_filter EXCEPT ![call[i].dio] = 0]
                                  /\ call' = [call EXCEPT ![i] = NoCall]
<1>1. UNCHANGED dio_rows
  BY DEF CallStep, DioIter, GiveUp, AllocDio, BioActor, Kfree, consumer
<1>2. CASE UNCHANGED ext4_dio_log
  BY <1>1, <1>2 DEF Reported
<1>3. ASSUME NEW seen, NEW leftover, Kfree(i, seen, leftover), ~UNCHANGED ext4_dio_log
      PROVE  \/ Reported(u, c, e)
             \/ NewReport(i, u, c, e) /\ dio_filter' = [dio_filter EXCEPT ![call[i].dio] = 0]
                                      /\ call' = [call EXCEPT ![i] = NoCall]
  <2> DEFINE d == call[i].dio
             known == dio_filter[d] # 0
             rec == [kind |-> "dio", uid |-> IF known THEN dio_filter[d] ELSE leftover,
                     own |-> known /\ call[i].ext > 0, call |-> call[i].began,
                     ext |-> call[i].ext]
  <2>1. /\ Emit(rec) /\ Known(i) /\ call[i].at = "dio" /\ dio_filter' = ForgetDio(d)
        /\ call' = [call EXCEPT ![i] = NoCall]
    BY <1>3 DEF Kfree
  <2>2. RingRoom
    BY <1>3, <2>1 DEF Emit
  <2>3. /\ rec.call = call[i].began /\ rec.ext = call[i].ext
        /\ rec.own => Live(i) /\ rec.uid = dio_filter[d]
    BY <2>1 DEF Live
  <2> HIDE DEF rec
  <2>4. \A k \in 1..Len(ext4_dio_log') :
          (k \in 1..Len(ext4_dio_log) /\ ext4_dio_log'[k] = ext4_dio_log[k]) \/ ext4_dio_log'[k] = rec
    BY <2>1, RingGains
  <2>5. Reported(u, c, e) \/ (rec.own /\ rec.uid = u /\ rec.call = c /\ rec.ext = e)
    BY <1>1, <2>4 DEF Reported
  <2> QED BY <2>1, <2>2, <2>3, <2>5 DEF NewReport, ForgetDio
<1> QED BY <1>2, <1>3 DEF CallStep, DioIter, GiveUp, AllocDio, BioActor

LEMMA RequestReports ==
  ASSUME TypeInv, NEW r \in Requests, RequestStep(r), NEW u, NEW c, NEW e, Reported(u, c, e)'
  PROVE  Reported(u, c, e)
<1>1. UNCHANGED dio_rows
  BY DEF RequestStep, Track, TrackForeign, SchedMerge, QueueRq, DriverBusy, StartRequest, Done,
         EhFinish, Verify, Retry, EndBios, AccountIoDone, consumer
<1>2. UNCHANGED ext4_dio_log \/ \E rec \in {[kind |-> "hctx", hctx |-> Hctx[r]],
              [kind |-> "rq", entry |-> rq_cache[r], hctx |-> Hctx[r], rq |-> rq[r]]} : Emit(rec)
  BY DEF RequestStep, Track, TrackForeign, SchedMerge, QueueRq, DriverBusy, StartRequest, Done,
         EhFinish, Verify, Retry, EndBios, AccountIoDone
<1>3. ASSUME NEW rec, Emit(rec), rec.kind # "dio" PROVE Reported(u, c, e)
  <2>1. \A k \in 1..Len(ext4_dio_log') :
          (k \in 1..Len(ext4_dio_log) /\ ext4_dio_log'[k] = ext4_dio_log[k]) \/ ext4_dio_log'[k] = rec
    BY <1>3, RingGains
  <2> QED BY <1>1, <1>3, <2>1 DEF Reported
<1>4. CASE UNCHANGED ext4_dio_log
  BY <1>1, <1>4 DEF Reported
<1> QED BY <1>2, <1>3, <1>4

-----------------------------------------------------------------------------
LEMMA Numbers ==
  ASSUME TypeInv
  PROVE  /\ now \in Nat /\ NoDio \notin Dios
         /\ call \in [Iocbs -> CallStates] /\ dio_filter \in [Dios -> Times]
         /\ \A i \in Iocbs : call[i].began \in Nat /\ call[i].ext \in Nat
         /\ \A d \in Dios : dio_filter[d] \in Nat
<1>1. Times \subseteq Nat
  <2>1. MaxTime \in Nat
    BY Constants
  <2> QED BY <2>1 DEF Times
<1>2. /\ now \in Times /\ call \in [Iocbs -> CallStates] /\ dio_filter \in [Dios -> Times]
  BY DEF TypeInv, TypeOK
<1> QED BY <1>1, <1>2, Ext4DioInfoAssumption DEF CallStates

LEMMA CallsApartStep ==
  ASSUME TypeInv, ~UsingFilter, CallsApart, NEW i \in Iocbs, CallStep(i)
  PROVE  CallsApart'
<1>1. /\ call \in [Iocbs -> CallStates] /\ dio_filter \in [Dios -> Times]
      /\ now \in Nat /\ NoDio \notin Dios
  BY Numbers
<1>2. \A j \in Iocbs : call[j].began \in Nat /\ call[j].ext \in Nat
  BY Numbers
<1>3. \A d \in Dios : dio_filter[d] \in Nat
  BY Numbers
<1>4. NoCall.at = "idle" /\ NoCall.mine /\ NoCall.began = 0 /\ NoCall.ext = 0 /\ NoCall.dio = NoDio
  BY DEF NoCall
<1>5. CASE DioIter(i, TRUE)
  <2>1. /\ now' = now + 1 /\ UNCHANGED dio_filter
        /\ call' = [call EXCEPT ![i] = [NoCall EXCEPT !.at = "ext4", !.mine = TRUE, !.began = now + 1]]
    BY <1>5 DEF DioIter, Tick
  <2>2. /\ call'[i].at = "ext4" /\ call'[i].mine /\ call'[i].began = now + 1 /\ call'[i].ext = 0
        /\ call'[i].dio = NoDio /\ \A j \in Iocbs : j # i => call'[j] = call[j]
    BY <1>1, <2>1 DEF NoCall
  <2> QED BY <1>1, <1>2, <1>3, <2>1, <2>2 DEF CallsApart
<1>6. ASSUME call' = [call EXCEPT ![i] = NoCall], UNCHANGED now,
             \A d \in Dios : dio_filter'[d] \in {0, dio_filter[d]}
      PROVE  CallsApart'
  <2>1. call'[i] = NoCall /\ \A j \in Iocbs : j # i => call'[j] = call[j]
    BY <1>1, <1>6
  <2> QED BY <1>1, <1>2, <1>3, <1>4, <1>6, <2>1 DEF CallsApart
<1>7. CASE GiveUp(i)
  BY <1>6, <1>7 DEF GiveUp, maps
<1>8. ASSUME NEW d \in Dios, AllocDio(i, d) PROVE CallsApart'
  <2>1. /\ UNCHANGED <<now, dio_filter>> /\ call[i].at = "ext4" /\ d \notin InUse
        /\ call'[i].at = "dio" /\ call'[i].dio = d /\ call'[i].mine = call[i].mine
        /\ call'[i].began = call[i].began /\ call'[i].ext = call[i].ext
        /\ \A j \in Iocbs : j # i => call'[j] = call[j]
    BY <1>1, <1>8 DEF AllocDio, CallStates, maps
  <2>2. \A j \in Iocbs : call[j].dio # d
    BY <1>1, <2>1 DEF InUse
  <2> QED BY <1>1, <1>2, <1>3, <2>1, <2>2 DEF CallsApart
<1>9. CASE BioActor(i)
  <2>1. /\ call[i].at = "dio" /\ call'[i].at = "dio" /\ call'[i].dio = call[i].dio
        /\ call'[i].mine = call[i].mine /\ call'[i].began = call[i].began
        /\ \A j \in Iocbs : j # i => call'[j] = call[j]
    BY <1>1, <1>9 DEF BioActor, CallStates
  <2>2. \/ UNCHANGED <<now, dio_filter>>
        \/ now' = now + 1 /\ dio_filter' \in {dio_filter, [dio_filter EXCEPT ![call[i].dio] = now + 1]}
    BY <1>9 DEF BioActor, Tick, NewUid
  <2>3. now' \in Nat /\ now <= now' /\ \A d \in Dios : dio_filter'[d] = dio_filter[d]
                            \/ (d = call[i].dio /\ dio_filter'[d] = now + 1 /\ now' = now + 1)
    BY <1>1, <2>2
  <2> QED BY <1>1, <1>2, <1>3, <2>1, <2>3 DEF CallsApart
<1>10. ASSUME NEW leftover, Kfree(i, TRUE, leftover) PROVE CallsApart'
  <2>1. \A d \in Dios : dio_filter'[d] \in {0, dio_filter[d]}
    BY <1>1, <1>10 DEF Kfree, ForgetDio
  <2> QED BY <1>6, <1>10, <2>1 DEF Kfree
<1>11. Contexts(call[i].mine) = {TRUE}
  BY DEF Contexts
<1> QED BY <1>5, <1>7, <1>8, <1>9, <1>10, <1>11 DEF CallStep

LEMMA FreeRequestsStep ==
  ASSUME TypeInv, FreeRequests, NEW r \in Requests, RequestStep(r)
  PROVE  FreeRequests'
<1>1. rq \in [Requests -> RqStates]
  BY DEF TypeInv, TypeOK
<1>2. \A s \in Requests : s # r => rq'[s] = rq[s]
  BY <1>1 DEF RequestStep, Track, TrackForeign, SchedMerge, QueueRq, DriverBusy, StartRequest, Done,
              EhFinish, Verify, Retry, EndBios, AccountIoDone, Goto
<1>3. rq'[r].at = "free" => rq'[r] = NoRq
  <2>1. CASE \E i \in Iocbs : Track(r, i)
    BY <1>1, <2>1 DEF Track, NoRq
  <2>2. CASE \E d \in Dios \cup {NoDio}, seen \in Contexts(TRUE) : TrackForeign(r, d, seen)
    BY <1>1, <2>2 DEF TrackForeign, FreeRequests, RqStates
  <2>3. CASE SchedMerge(r) \/ AccountIoDone(r)
    BY <1>1, <2>3 DEF SchedMerge, AccountIoDone
  <2>4. CASE \/ \E seen \in Contexts(TRUE) : QueueRq(r, seen)
             \/ DriverBusy(r) \/ StartRequest(r) \/ Done(r) \/ EhFinish(r) \/ Verify(r) \/ Retry(r)
             \/ EndBios(r)
    BY <1>1, <2>4, ZenonT(40)
    DEF QueueRq, DriverBusy, StartRequest, Done, EhFinish, Verify, Retry, EndBios, Goto, RqStates
  <2> QED BY <2>1, <2>2, <2>3, <2>4 DEF RequestStep
<1> QED BY <1>2, <1>3 DEF FreeRequests

-----------------------------------------------------------------------------
(* The invariant is kept: by the steps of a request, of a call, and of the *)
(* consumer.                                                               *)
LEMMA RequestJoins ==
  ASSUME TypeInv, ~UsingFilter, JoinInv, NEW r \in Requests, RequestStep(r)
  PROVE  JoinInv'
<1>1. UNCHANGED <<call, now, event_cache, dio_filter>>
  BY DEF RequestStep, Track, TrackForeign, SchedMerge, QueueRq, DriverBusy, StartRequest, Done,
         EhFinish, Verify, Retry, EndBios, AccountIoDone, maps
<1>2. /\ now \in Nat /\ dio_filter \in [Dios -> Times]
      /\ \A i \in Iocbs : call[i].began \in Nat /\ call[i].ext \in Nat
  BY Numbers
<1>3. \A d \in Dios : dio_filter[d] \in Nat /\ dio_filter[d] <= now
  BY Numbers DEF JoinInv, CallsApart
<1>4. CallsApart'
  BY <1>1 DEF JoinInv, CallsApart
<1>5. FreeRequests'
  BY FreeRequestsStep DEF JoinInv
<1>6. \A u, c, e : NewBorne(u, c, e) =>
        /\ u \in 0..now /\ c \in 0..now /\ ~\E u2, e2 : Reported(u2, c, e2)
        /\ ~\E c2, e2 : Reported(u, c2, e2)
        /\ \A i \in Iocbs :
             /\ c = call[i].began /\ c # 0 => e <= call[i].ext
             /\ Live(i) => /\ u = dio_filter[call[i].dio] => c = call[i].began
                           /\ c = call[i].began /\ e = call[i].ext => u = dio_filter[call[i].dio]
  <2> SUFFICES ASSUME NEW u, NEW c, NEW e, NewBorne(u, c, e)
               PROVE  /\ u \in 0..now /\ c \in 0..now /\ ~\E u2, e2 : Reported(u2, c, e2)
                      /\ ~\E c2, e2 : Reported(u, c2, e2)
                      /\ \A i \in Iocbs :
                           /\ c = call[i].began /\ c # 0 => e <= call[i].ext
                           /\ Live(i) => /\ u = dio_filter[call[i].dio] => c = call[i].began
                                         /\ c = call[i].began /\ e = call[i].ext
                                              => u = dio_filter[call[i].dio]
    OBVIOUS
  <2>1. ASSUME NEW i \in Iocbs, Live(i) PROVE call[i].at = "dio" /\ call[i].dio \in Dios /\ call[i].began > 0
    BY <2>1 DEF Live, JoinInv, CallsApart
  <2>2. CASE \E j \in Iocbs : /\ call[j].at = "dio" /\ call[j].ext > 0
                              /\ u = dio_filter[call[j].dio] /\ c = call[j].began /\ e = call[j].ext
    <3> PICK j \in Iocbs : /\ call[j].at = "dio" /\ call[j].ext > 0
                           /\ u = dio_filter[call[j].dio] /\ c = call[j].began /\ e = call[j].ext
      BY <2>2
    <3>1. call[j].dio \in Dios /\ c > 0 /\ c \in 0..now
      BY <1>2 DEF JoinInv, CallsApart
    <3>2. ~\E u2, e2 : Reported(u2, c, e2)
      BY DEF JoinInv, ReportedInv
    <3>3. ~\E c2, e2 : Reported(u, c2, e2)
      BY <3>1 DEF JoinInv, ReportedInv
    <3>4. ASSUME NEW i \in Iocbs, c = call[i].began PROVE i = j
      <4>1. i # j /\ call[i].began = call[j].began => call[i].began = 0
        BY DEF JoinInv, CallsApart
      <4> QED BY <3>1, <3>4, <4>1
    <3>5. ASSUME NEW i \in Iocbs, Live(i), u = dio_filter[call[i].dio] PROVE i = j
      <4>1. call[i].dio \in Dios /\ dio_filter[call[i].dio] # 0
        BY <2>1, <3>5 DEF Live
      <4>2. call[i].dio = call[j].dio
        BY <3>1, <3>5, <4>1 DEF JoinInv, CallsApart
      <4>3. i # j => call[i].dio = NoDio
        BY <4>2 DEF JoinInv, CallsApart
      <4> QED BY <4>1, <4>3, Ext4DioInfoAssumption
    <3> QED BY <1>2, <1>3, <3>1, <3>2, <3>3, <3>4, <3>5
  <2>3. CASE \E d \in Dios \ InUse : u = dio_filter[d] /\ c = 0 /\ e = 0
    <3> PICK d \in Dios \ InUse : u = dio_filter[d] /\ c = 0 /\ e = 0
      BY <2>3
    <3>1. ~\E u2, e2 : Reported(u2, c, e2)
      BY DEF JoinInv, ReportedInv
    <3>2. ~\E c2, e2 : Reported(u, c2, e2)
      BY DEF JoinInv, ReportedInv
    <3>3. \A i \in Iocbs : call[i].dio \in Dios => call[i].dio # d
      BY Ext4DioInfoAssumption DEF InUse
    <3>4. \A i \in Iocbs : Live(i) => u # dio_filter[call[i].dio] /\ c # call[i].began
      BY <2>1, <3>3 DEF Live, JoinInv, CallsApart
    <3> QED BY <1>2, <1>3, <3>1, <3>2, <3>4
  <2> QED BY <2>2, <2>3 DEF NewBorne
<1>7. \A u, c, e : Borne(u, c, e)' => Borne(u, c, e) \/ NewBorne(u, c, e)
  BY RequestBears
<1>8. \A u, c, e : Reported(u, c, e)' => Reported(u, c, e)
  BY RequestReports
<1>9. \A i \in Iocbs : Live(i)' <=> Live(i)
  BY <1>1 DEF Live, Known
<1>10. BorneInv'
  BY <1>1, <1>6, <1>7, <1>9 DEF JoinInv, BorneInv
<1>11. ReportedInv'
  BY <1>1, <1>8 DEF JoinInv, ReportedInv
<1>12. Joined'
  BY <1>6, <1>7, <1>8 DEF JoinInv, Joined
<1> QED BY <1>4, <1>5, <1>10, <1>11, <1>12 DEF JoinInv

(* A step of a call changes its own entries only; the uid it gives, like   *)
(* the time it begins at, is new.                                          *)
OwnStep(i) ==
  /\ now' \in Nat /\ now <= now'
  /\ \A j \in Iocbs : j # i => call'[j] = call[j] /\ event_cache'[j] = event_cache[j]
  /\ \A d \in Dios :
       \/ dio_filter'[d] = dio_filter[d]
       \/ d = call[i].dio /\ dio_filter'[d] \in {0, now + 1}
  /\ \/ call'[i].ext = 0 /\ call'[i].began \in {0, now + 1}
     \/ call'[i].ext = 0 /\ call'[i].began = call[i].began /\ call[i].ext = 0
     \/ /\ call'[i].began = call[i].began /\ call[i].began > 0 /\ call'[i].ext = call[i].ext + 1
        /\ call'[i].dio = call[i].dio
        /\ Live(i)' => dio_filter'[call[i].dio] = now + 1

LEMMA CallOwnStep ==
  ASSUME TypeInv, ~UsingFilter, CallsApart, NEW i \in Iocbs, CallStep(i)
  PROVE  OwnStep(i)
<1>1. /\ call \in [Iocbs -> CallStates] /\ dio_filter \in [Dios -> Times] /\ now \in Nat
      /\ event_cache \in [Iocbs -> Times]
  BY Numbers DEF TypeInv, TypeOK
<1>2. NoCall.ext = 0 /\ NoCall.began = 0
  BY DEF NoCall
<1>3. CASE DioIter(i, TRUE)
  <2>1. now' = now + 1 /\ UNCHANGED dio_filter
    BY <1>3 DEF DioIter, Tick
  <2>2. call'[i].ext = 0 /\ call'[i].began = now + 1 /\ \A j \in Iocbs : j # i => call'[j] = call[j]
    BY <1>1, <1>3 DEF DioIter, NoCall
  <2>3. \A j \in Iocbs : j # i => event_cache'[j] = event_cache[j]
    BY <1>1, <1>3 DEF DioIter
  <2> QED BY <1>1, <2>1, <2>2, <2>3 DEF OwnStep
<1>4. CASE GiveUp(i)
  <2>1. /\ UNCHANGED <<now, event_cache, dio_filter>>
        /\ call'[i] = NoCall /\ \A j \in Iocbs : j # i => call'[j] = call[j]
    BY <1>1, <1>4 DEF GiveUp, maps
  <2> QED BY <1>1, <1>2, <2>1 DEF OwnStep
<1>5. ASSUME NEW d \in Dios, AllocDio(i, d) PROVE OwnStep(i)
  <2>1. /\ UNCHANGED <<now, event_cache, dio_filter>> /\ call[i].at = "ext4"
        /\ call'[i].began = call[i].began /\ call'[i].ext = call[i].ext
        /\ \A j \in Iocbs : j # i => call'[j] = call[j]
    BY <1>1, <1>5 DEF AllocDio, CallStates, maps
  <2>2. call[i].ext = 0
    BY <2>1 DEF CallsApart
  <2> QED BY <1>1, <2>1, <2>2 DEF OwnStep
<1>6. CASE BioActor(i)
  <2>1. /\ call[i].at = "dio" /\ call'[i].dio = call[i].dio /\ call'[i].began = call[i].began
        /\ call'[i].ext = call[i].ext + 1 /\ \A j \in Iocbs : j # i => call'[j] = call[j]
        /\ UNCHANGED event_cache
    BY <1>1, <1>6 DEF BioActor, CallStates
  <2>2. call[i].began > 0 /\ call[i].mine /\ call[i].dio \in Dios
    BY <2>1 DEF CallsApart
  <2>3. CASE ~Known(i)
    <3>1. UNCHANGED <<now, dio_filter>> /\ ~Live(i)'
      BY <1>6, <2>1, <2>3 DEF BioActor, Live, Known
    <3> QED BY <1>1, <2>1, <2>2, <3>1 DEF OwnStep
  <2>4. CASE Known(i)
    <3>1. now' = now + 1 /\ dio_filter' = NewUid(call[i].dio, now + 1)
      BY <1>6, <2>2, <2>4 DEF BioActor, Tick
    <3>2. \A d \in Dios : d # call[i].dio => dio_filter'[d] = dio_filter[d]
      BY <1>1, <3>1 DEF NewUid
    <3>3. dio_filter'[call[i].dio] = now + 1
          \/ (dio_filter'[call[i].dio] = 0 /\ dio_filter[call[i].dio] = 0)
      BY <1>1, <2>2, <3>1 DEF NewUid
    <3>4. Live(i)' => dio_filter'[call[i].dio] = now + 1
      BY <2>1, <3>3 DEF Live
    <3> QED BY <1>1, <2>1, <2>2, <3>1, <3>2, <3>3, <3>4 DEF OwnStep
  <2> QED BY <2>3, <2>4
<1>7. ASSUME NEW leftover, Kfree(i, TRUE, leftover) PROVE OwnStep(i)
  <2>1. /\ UNCHANGED now /\ call'[i] = NoCall /\ \A j \in Iocbs : j # i => call'[j] = call[j]
    BY <1>1, <1>7 DEF Kfree
  <2>2. \A j \in Iocbs : j # i => event_cache'[j] = event_cache[j]
    BY <1>1, <1>7 DEF Kfree
  <2>3. \A d \in Dios : dio_filter'[d] = dio_filter[d] \/ (d = call[i].dio /\ dio_filter'[d] = 0)
    BY <1>1, <1>7 DEF Kfree, ForgetDio
  <2> QED BY <1>1, <1>2, <2>1, <2>2, <2>3 DEF OwnStep
<1>8. Contexts(call[i].mine) = {TRUE}
  BY DEF Contexts
<1> QED BY <1>3, <1>4, <1>5, <1>6, <1>7, <1>8 DEF CallStep

LEMMA CallJoins ==
  ASSUME TypeInv, ~UsingFilter, JoinInv, NEW i \in Iocbs, CallStep(i)
  PROVE  JoinInv'
<1>1. /\ now \in Nat /\ NoDio \notin Dios
      /\ \A j \in Iocbs : call[j].began \in Nat /\ call[j].ext \in Nat
      /\ \A d \in Dios : dio_filter[d] \in Nat
  BY Numbers
<1>2. OwnStep(i)
  BY CallOwnStep DEF JoinInv
<1>3. CallsApart'
  BY CallsApartStep DEF JoinInv
<1>4. FreeRequests'
  <2>1. UNCHANGED rq
    BY DEF CallStep, DioIter, GiveUp, AllocDio, BioActor, Kfree
  <2> QED BY <2>1 DEF JoinInv, FreeRequests
<1>5. \A u, c, e : Borne(u, c, e)' => Borne(u, c, e)
  BY CallBears
<1>6. BorneInv'
  <2> SUFFICES ASSUME NEW u, NEW c, NEW e, Borne(u, c, e)
               PROVE  /\ u \in 0..now' /\ c \in 0..now'
                      /\ \A j \in Iocbs :
                           /\ c = call'[j].began /\ c # 0 => e <= call'[j].ext
                           /\ Live(j)' => /\ u = dio_filter'[call'[j].dio] => c = call'[j].began
                                          /\ c = call'[j].began /\ e = call'[j].ext
                                               => u = dio_filter'[call'[j].dio]
    BY <1>5 DEF BorneInv
  <2>1. /\ u \in 0..now /\ c \in 0..now
        /\ \A j \in Iocbs :
             /\ c = call[j].began /\ c # 0 => e <= call[j].ext
             /\ Live(j) => /\ u = dio_filter[call[j].dio] => c = call[j].began
                           /\ c = call[j].began /\ e = call[j].ext => u = dio_filter[call[j].dio]
    BY DEF JoinInv, BorneInv
  <2>2. u \in 0..now' /\ c \in 0..now'
    BY <1>1, <1>2, <2>1 DEF OwnStep
  <2>3. ASSUME NEW j \in Iocbs, j # i
        PROVE  /\ c = call'[j].began /\ c # 0 => e <= call'[j].ext
               /\ Live(j)' => /\ u = dio_filter'[call'[j].dio] => c = call'[j].began
                              /\ c = call'[j].began /\ e = call'[j].ext
                                   => u = dio_filter'[call'[j].dio]
    <3>1. call'[j] = call[j] /\ (Known(j)' <=> Known(j))
      BY <1>2, <2>3 DEF OwnStep, Known
    <3>2. ASSUME Live(j)' PROVE Live(j) /\ dio_filter'[call[j].dio] = dio_filter[call[j].dio]
      <4>1. call[j].ext > 0 /\ Known(j)
        BY <3>1, <3>2 DEF Live
      <4>2. call[j].at = "dio"
        BY <1>1, <4>1 DEF JoinInv, CallsApart
      <4>3. call[j].dio \in Dios /\ call[j].dio # NoDio
        BY <1>1, <4>2 DEF JoinInv, CallsApart
      <4>4. call[j].dio # call[i].dio
        BY <2>3, <4>3 DEF JoinInv, CallsApart
      <4>5. dio_filter'[call[j].dio] = dio_filter[call[j].dio]
        BY <1>2, <4>3, <4>4 DEF OwnStep
      <4> QED BY <3>1, <3>2, <4>1, <4>5 DEF Live
    <3> QED BY <2>1, <3>1, <3>2
  <2>4. /\ c = call'[i].began /\ c # 0 => e <= call'[i].ext
        /\ Live(i)' => /\ u = dio_filter'[call'[i].dio] => c = call'[i].began
                       /\ c = call'[i].began /\ e = call'[i].ext => u = dio_filter'[call'[i].dio]
    <3>1. CASE call'[i].ext = 0 /\ call'[i].began \in {0, now + 1}
      BY <1>1, <2>1, <3>1 DEF Live
    <3>2. CASE call'[i].ext = 0 /\ call'[i].began = call[i].began /\ call[i].ext = 0
      BY <2>1, <3>2 DEF Live
    <3>3. CASE /\ call'[i].began = call[i].began /\ call[i].began > 0
               /\ call'[i].ext = call[i].ext + 1 /\ call'[i].dio = call[i].dio
               /\ Live(i)' => dio_filter'[call[i].dio] = now + 1
      <4>1. c = call[i].began => e <= call[i].ext
        BY <1>1, <2>1, <3>3
      <4>2. e \in Int
        <5>1. /\ rq \in [Requests -> RqStates] /\ ext4_dio_log \in Seq(Records) /\ rq_rows \subseteq RqRows
          BY DEF TypeInv, TypeOK, Records
        <5>2. ASSUME NEW t \in Times PROVE t \in Int
          BY DEF Times
        <5>3. ASSUME NEW q \in RqStates PROVE q.ext \in Int
          <6>1. q.ext \in Times
            BY <5>3 DEF RqStates
          <6> QED BY <5>2, <6>1
        <5>4. ASSUME NEW r \in Requests PROVE rq[r].ext \in Int
          <6>1. rq[r] \in RqStates
            BY <5>1
          <6> QED BY <5>3, <6>1
        <5>5. ASSUME NEW k \in 1..Len(ext4_dio_log), ext4_dio_log[k].kind = "rq"
              PROVE  ext4_dio_log[k].rq.ext \in Int
          <6>1. ext4_dio_log[k] \in Records
            BY <5>1
          <6>2. ext4_dio_log[k].rq \in RqStates
            BY <5>5, <6>1 DEF Records, DioRecords, HctxRecords, RqRecords
          <6> QED BY <5>3, <6>2
        <5>6. ASSUME NEW b \in rq_rows PROVE b.ext \in Int
          <6>1. b \in RqRows
            BY <5>1
          <6>2. b.ext \in Times
            BY <6>1 DEF RqRows
          <6> QED BY <5>2, <6>2
        <5> QED BY <5>4, <5>5, <5>6 DEF Borne
      <4>3. c = call[i].began => e < call[i].ext + 1
        BY <1>1, <4>1, <4>2
      <4> QED BY <1>1, <2>1, <3>3, <4>1, <4>2, <4>3
    <3> QED BY <1>2, <3>1, <3>2, <3>3 DEF OwnStep
  <2> QED BY <2>2, <2>3, <2>4
<1>7. \A u, c, e : Reported(u, c, e)' =>
        \/ Reported(u, c, e)
        \/ NewReport(i, u, c, e) /\ dio_filter' = [dio_filter EXCEPT ![call[i].dio] = 0]
                                 /\ call' = [call EXCEPT ![i] = NoCall]
  BY CallReports
<1>8. ReportedInv'
  <2> SUFFICES ASSUME NEW u, NEW c, NEW e, Reported(u, c, e)'
               PROVE  /\ u \in 1..now' /\ c \in 1..now'
                      /\ \A d \in Dios : dio_filter'[d] # u
                      /\ \A j \in Iocbs : call'[j].began # c
    BY DEF ReportedInv
  <2>1. CASE Reported(u, c, e)
    <3>1. /\ u \in 1..now /\ c \in 1..now /\ \A d \in Dios : dio_filter[d] # u
          /\ \A j \in Iocbs : call[j].began # c
      BY <2>1 DEF JoinInv, ReportedInv
    <3>2. \A d \in Dios : dio_filter'[d] \in {dio_filter[d], 0, now + 1}
      BY <1>2 DEF OwnStep
    <3>3. \A j \in Iocbs : call'[j].began \in {call[j].began, 0, now + 1}
      BY <1>2 DEF OwnStep
    <3> QED BY <1>1, <1>2, <3>1, <3>2, <3>3 DEF OwnStep
  <2>2. CASE /\ NewReport(i, u, c, e) /\ dio_filter' = [dio_filter EXCEPT ![call[i].dio] = 0]
             /\ call' = [call EXCEPT ![i] = NoCall]
    <3>1. /\ call[i].at = "dio" /\ u = dio_filter[call[i].dio] /\ u # 0 /\ c = call[i].began
      BY <2>2 DEF NewReport, Live
    <3>2. call[i].dio \in Dios /\ c > 0 /\ c <= now
      BY <3>1 DEF JoinInv, CallsApart
    <3>3. u \in Nat /\ u <= now
      BY <1>1, <3>1, <3>2 DEF JoinInv, CallsApart
    <3>4. ASSUME NEW d \in Dios PROVE dio_filter'[d] # u
      <4>1. dio_filter \in [Dios -> Times]
        BY Numbers
      <4>2. CASE d = call[i].dio
        BY <2>2, <3>1, <4>1, <4>2
      <4>3. CASE d # call[i].dio
        <5>1. dio_filter'[d] = dio_filter[d]
          BY <2>2, <4>1, <4>3
        <5> QED BY <3>1, <3>2, <4>3, <5>1 DEF JoinInv, CallsApart
      <4> QED BY <4>2, <4>3
    <3>5. ASSUME NEW j \in Iocbs PROVE call'[j].began # c
      <4>1. call \in [Iocbs -> CallStates] /\ NoCall.began = 0
        BY Numbers DEF NoCall
      <4>2. CASE j = i
        BY <2>2, <3>2, <4>1, <4>2
      <4>3. CASE j # i
        <5>1. call'[j] = call[j]
          BY <2>2, <4>1, <4>3
        <5> QED BY <3>1, <3>2, <4>3, <5>1 DEF JoinInv, CallsApart
      <4> QED BY <4>2, <4>3
    <3> QED BY <1>1, <1>2, <3>1, <3>2, <3>3, <3>4, <3>5 DEF OwnStep
  <2> QED BY <1>7, <2>1, <2>2
<1>9. Joined'
  <2> SUFFICES ASSUME NEW u, NEW c, NEW e, NEW u2, NEW c2, NEW e2,
                      Reported(u, c, e)', Borne(u2, c2, e2)
               PROVE  (u2 = u => c2 = c) /\ (c2 = c /\ e2 = e => u2 = u)
    BY <1>5 DEF Joined
  <2>1. CASE Reported(u, c, e)
    BY <2>1 DEF JoinInv, Joined
  <2>2. CASE NewReport(i, u, c, e)
    BY <2>2 DEF NewReport, JoinInv, BorneInv
  <2> QED BY <1>7, <2>1, <2>2
<1> QED BY <1>3, <1>4, <1>6, <1>8, <1>9 DEF JoinInv

LEMMA ProxyJoins ==
  ASSUME TypeInv, JoinInv, Proxy
  PROVE  JoinInv'
<1>1. UNCHANGED <<call, rq, now, event_cache, dio_filter>>
  BY DEF Proxy, kernel, maps
<1>2. \A u, c, e : (Borne(u, c, e)' => Borne(u, c, e)) /\ (Reported(u, c, e)' => Reported(u, c, e))
  BY ProxyBears
<1>3. \A i \in Iocbs : Live(i)' <=> Live(i)
  BY <1>1 DEF Live, Known
<1> QED
  BY <1>1, <1>2, <1>3 DEF JoinInv, CallsApart, FreeRequests, BorneInv, ReportedInv, Joined

(* The strengthening: where the uids in the system are, whose they are,    *)
(* and that a uid once reported is no key any more.                        *)
THEOREM JoinInvariant == ~UsingFilter /\ Spec => []JoinInv
<1> SUFFICES ASSUME ~UsingFilter PROVE Spec => []JoinInv
  OBVIOUS
<1>1. TypeInv /\ Init => JoinInv
  <2> SUFFICES ASSUME TypeInv, Init PROVE JoinInv
    OBVIOUS
  <2>1. \A u, c, e : ~Borne(u, c, e) /\ ~Reported(u, c, e)
    BY DEF Init, Borne, Reported, InFlight, Tracked
  <2>2. CallsApart /\ FreeRequests
    BY DEF Init, CallsApart, FreeRequests, NoCall
  <2> QED BY <2>1, <2>2 DEF JoinInv, BorneInv, ReportedInv, Joined
<1>2. TypeInv /\ JoinInv /\ [Next]_vars => JoinInv'
  <2> SUFFICES ASSUME TypeInv, JoinInv, [Next]_vars PROVE JoinInv'
    OBVIOUS
  <2>1. CASE UNCHANGED vars
    BY <2>1 DEF vars, JoinInv, CallsApart, FreeRequests, BorneInv, ReportedInv, Joined, Borne,
                Reported, InFlight, Tracked, Live, Known
  <2> QED BY <2>1, CallJoins, RequestJoins, ProxyJoins DEF Next, Aborted, Horizon
<1> QED BY <1>1, <1>2, TypeInvariant, PTL DEF Spec

LEMMA RowsClaim ==
  ASSUME NEW a \in dio_rows, NEW b \in rq_rows, a.own
  PROVE  Reported(a.uid, a.call, a.ext) /\ Borne(b.uid, b.of, b.ext)
BY DEF Reported, Borne

(* A request that joins a call carried a bio of that call.                 *)
THEOREM JoinIsSound == ~UsingFilter /\ Spec => []JoinSound
<1>1. JoinInv => JoinSound
  BY RowsClaim DEF JoinInv, Joined, JoinSound
<1> QED BY <1>1, JoinInvariant, PTL

(* A reported request of the last extent of a reported call joins it.      *)
THEOREM JoinIsComplete == ~UsingFilter /\ Spec => []JoinComplete
<1>1. JoinInv => JoinComplete
  BY RowsClaim DEF JoinInv, Joined, JoinComplete
<1> QED BY <1>1, JoinInvariant, PTL
=============================================================================

---------------------------- MODULE SessionProofs ----------------------------
(***************************************************************************)
(* Proofs about Session, from the first record to the end of the analysis: *)
(* the types, the series that double only once for a commit and yet stay   *)
(* within their vectors, the counters, and what the analysis reports of    *)
(* the rows: heatmap, distribution, intervals, rates and join.             *)
(***************************************************************************)
EXTENDS Session, OfflineProofs

(* The records, with the CPU that has yet to submit them; a request ends   *)
(* before the clock reaches half a word.                                   *)
LastTime == WordSize \div 2 - 1
Times == 0..LastTime
BioRecords == [kind : {"bio_enter"}, tp : Times, owner : Cpus \cup {NoCpu}]
RqRecords ==
  {r \in [kind : {"rq_trace_event"}, bio_enter : Nat, latency : Nat, io : Ios, owner : {NoCpu}] :
     r.bio_enter + r.latency <= LastTime}
DioRecords == [kind : {"dio_event"}, end : Nat, call : Calls, owner : {NoCpu}]
HctxRecords == [kind : {"hctx_metadata"}, tp : Times, owner : {NoCpu}]
RqInfoRecords == [kind : {"rq_info_event"}, uid : Uids, io : Ios, owner : {NoCpu}]
Late == RqRecords \cup DioRecords \cup HctxRecords \cup RqInfoRecords
Pending == {Idle, [kind |-> "bio_enter"]} \cup Late
Records == BioRecords \cup Late

TrafficTypes ==
  /\ now \in Times /\ begun \in Nat
  /\ cpu \in [Cpus -> Pending]
  /\ open \subseteq [bio_enter : Nat, io : Ios]
  /\ ring \in Seq(Records) /\ Len(ring) <= RingMax

MemoryTypes ==
  /\ IsSeries(series)
  /\ hctx_trace = [known |-> hctx_trace.known, state |-> hctx_trace.state]
  /\ IsSeries(hctx_trace.state)
  /\ ops \in [{"READ", "WRITE"} -> Nat]
  /\ file_op \in [Files -> [{"READ", "WRITE"} -> Nat]]
  /\ committed \in [series : Seq(Nat), hctx : Seq(Times)]

(* A record in the ring that is not submitted yet is the one its CPU has   *)
(* in hand, and a CPU has one at a time.                                   *)
OwnersOK ==
  /\ \A k \in 1..Len(ring) : ring[k].owner # NoCpu => cpu[ring[k].owner].kind = "bio_enter"
  /\ \A j, k \in 1..Len(ring) : ring[j].owner = ring[k].owner /\ ring[j].owner # NoCpu => j = k

TypeInv ==
  /\ pc \in {"read_config", "load", "poll", "drain", "release", "process",
             "done", "crashed", "fatal"}
  /\ exiting \in BOOLEAN
  /\ config \in Configs /\ env.interval \in Nat
  /\ TrafficTypes /\ MemoryTypes /\ OwnersOK

LEMMA LastTimeBound ==
  LastTime \in Int /\ WordSize \div 2 \in Int /\ LastTime < WordSize \div 2 /\ LastTime < WordSize
<1>1. WordSize \in Nat /\ WordSize \div 2 \in Int /\ WordSize \div 2 <= WordSize
  BY TimeSeriesAssumption
<1>2. \A x \in Int : x - 1 \in Int /\ x - 1 < x OBVIOUS
<1>3. LastTime \in Int /\ LastTime < WordSize \div 2 BY <1>1, <1>2 DEF LastTime
<1> QED BY <1>1, <1>3

(* There is a time before half a word, and the clock stays there.          *)
LEMMA ClockBounds ==
  ASSUME config \in Configs
  PROVE  /\ LastTime \in Nat /\ 0 \in Times /\ Times \subseteq Nat
         /\ MaxTime[config] \in Nat /\ MaxTime[config] <= LastTime
<1>1. MaxTime[config] \in Nat /\ MaxTime[config] < WordSize \div 2 BY SessionAssumption
<1>2. WordSize \div 2 \in Int BY TimeSeriesAssumption
<1>3. LastTime \in Nat /\ MaxTime[config] <= LastTime BY <1>1, <1>2 DEF LastTime
<1> QED BY <1>1, <1>3 DEF Times

LEMMA RecordFields ==
  /\ \A r \in Records : r.owner \in Cpus \cup {NoCpu}
  /\ \A r \in Records : r.owner # NoCpu => r \in BioRecords
  /\ \A r \in Late : r.owner = NoCpu /\ r.kind # "bio_enter" /\ r.kind # "idle"
BY DEF Records, Late, BioRecords, RqRecords, DioRecords, HctxRecords, RqInfoRecords

LEMMA RingIsRecords == ASSUME TrafficTypes, NEW k \in 1..Len(ring) PROVE ring[k] \in Records
BY DEF TrafficTypes

(* A record put at the end of the ring.                                    *)
LEMMA AppendToRing ==
  ASSUME TypeInv, NEW r \in Records,
         ring' = IF Len(ring) < RingMax THEN Append(ring, r) ELSE ring
  PROVE  /\ ring' \in Seq(Records) /\ Len(ring') <= RingMax
         /\ \A k \in 1..Len(ring') :
              (k \in 1..Len(ring) /\ ring'[k] = ring[k]) \/ (k = Len(ring) + 1 /\ ring'[k] = r)
<1>0. ring \in Seq(Records) /\ Len(ring) <= RingMax BY DEF TypeInv, TrafficTypes
<1>1. CASE Len(ring) < RingMax
  <2>1. ring' = Append(ring, r) BY <1>1
  <2>2. ring' \in Seq(Records) /\ Len(ring') = Len(ring) + 1 BY <1>0, <2>1
  <2>3. \A k \in 1..Len(ring') : ring'[k] = IF k <= Len(ring) THEN ring[k] ELSE r BY <1>0, <2>1
  <2> QED BY <1>0, <1>1, <2>2, <2>3, SessionAssumption
<1>2. CASE ~(Len(ring) < RingMax) BY <1>0, <1>2
<1> QED BY <1>1, <1>2

LEMMA TypesAtInit == Init => TypeInv
<1> SUFFICES ASSUME Init PROVE TypeInv OBVIOUS
<1>1. TrafficTypes BY SessionAssumption, ClockBounds DEF Init, TrafficTypes, Pending
<1>2. MemoryTypes BY NewSeriesIsSeries DEF Init, MemoryTypes, NoHctx
<1>3. OwnersOK BY DEF Init, OwnersOK
<1> QED BY <1>1, <1>2, <1>3 DEF Init, TypeInv, NoEnv

(* What leaves the traffic alone.                                          *)
LEMMA QuietTraffic ==
  ASSUME TypeInv, UNCHANGED traffic PROVE TrafficTypes' /\ OwnersOK'
BY DEF TypeInv, TrafficTypes, OwnersOK, traffic

LEMMA QuietMemory ==
  ASSUME TypeInv, UNCHANGED memory PROVE MemoryTypes'
BY DEF TypeInv, MemoryTypes, memory

-----------------------------------------------------------------------------
(* The probes.                                                             *)
LEMMA BeginKeepsOwners ==
  ASSUME TypeInv, NEW c \in Cpus, cpu[c] = Idle
  PROVE  \A k \in 1..Len(ring) : ring[k].owner # c
BY SessionAssumption DEF TypeInv, OwnersOK, Idle

LEMMA BioEnterReserveTypes ==
  ASSUME TypeInv, NEW c \in Cpus, BioEnterReserve(c) PROVE TypeInv'
<1> DEFINE b == [kind |-> "bio_enter", tp |-> 0, owner |-> c]
<1>1. /\ cpu[c] = Idle /\ cpu' = [cpu EXCEPT ![c] = [kind |-> "bio_enter"]]
      /\ begun' \in Nat /\ UNCHANGED <<main, now, open, memory>>
      /\ ring' = IF Len(ring) < RingMax THEN Append(ring, b) ELSE ring
  BY DEF BioEnterReserve, BeginOne, Begin, TypeInv, TrafficTypes
<1>2. b \in Records BY ClockBounds DEF Records, BioRecords, TypeInv
<1>3. /\ ring' \in Seq(Records) /\ Len(ring') <= RingMax
      /\ \A k \in 1..Len(ring') :
           (k \in 1..Len(ring) /\ ring'[k] = ring[k]) \/ (k = Len(ring) + 1 /\ ring'[k] = b)
  BY <1>1, <1>2, AppendToRing
<1>4. TrafficTypes' BY <1>1, <1>3 DEF TypeInv, TrafficTypes, Pending
<1>5. \A k \in 1..Len(ring) : ring[k].owner # c BY <1>1, BeginKeepsOwners
<1>6. OwnersOK'
  <2>1. b.owner = c /\ cpu'[c].kind = "bio_enter" BY <1>1 DEF TypeInv, TrafficTypes
  <2>2. \A d \in Cpus : d # c => cpu'[d] = cpu[d] BY <1>1 DEF TypeInv, TrafficTypes
  <2>3. \A k \in 1..Len(ring) : ring[k].owner \in Cpus \cup {NoCpu}
    BY RingIsRecords, RecordFields DEF TypeInv
  <2>4. \A k \in 1..Len(ring') : ring'[k].owner # NoCpu => cpu'[ring'[k].owner].kind = "bio_enter"
    BY <1>3, <1>5, <2>1, <2>2, <2>3 DEF TypeInv, OwnersOK
  <2>5. \A j, k \in 1..Len(ring') :
          ring'[j].owner = ring'[k].owner /\ ring'[j].owner # NoCpu => j = k
    BY <1>3, <1>5, <2>1 DEF TypeInv, OwnersOK
  <2> QED BY <2>4, <2>5 DEF OwnersOK
<1>7. MemoryTypes' BY <1>1, QuietMemory
<1> QED BY <1>1, <1>4, <1>6, <1>7 DEF TypeInv, main

(* Submitting a record stamps it where it is.                              *)
LEMMA SubmitInPlace ==
  ASSUME TypeInv, NEW c \in Cpus, BioEnterSubmit(c)
  PROVE  /\ ring' \in Seq(Records) /\ Len(ring') = Len(ring)
         /\ \A k \in 1..Len(ring) :
              /\ ring'[k].kind = ring[k].kind
              /\ ring'[k].owner = IF ring[k].owner = c THEN NoCpu ELSE ring[k].owner
<1> DEFINE sub(k) == IF ring[k].owner = c THEN [ring[k] EXCEPT !.tp = now, !.owner = NoCpu]
                                          ELSE ring[k]
<1>1. ring' = [k \in 1..Len(ring) |-> sub(k)] BY DEF BioEnterSubmit
<1>2. now \in Times /\ ring \in Seq(Records) /\ c # NoCpu
  BY SessionAssumption DEF TypeInv, TrafficTypes
<1>3. \A k \in 1..Len(ring) : /\ sub(k) \in Records /\ sub(k).kind = ring[k].kind
                              /\ sub(k).owner = IF ring[k].owner = c THEN NoCpu ELSE ring[k].owner
  <2> SUFFICES ASSUME NEW k \in 1..Len(ring)
               PROVE  sub(k) \in Records /\ sub(k).kind = ring[k].kind
                      /\ sub(k).owner = IF ring[k].owner = c THEN NoCpu ELSE ring[k].owner
    OBVIOUS
  <2>1. ring[k] \in Records BY RingIsRecords DEF TypeInv
  <2>2. CASE ring[k].owner = c
    <3>1. ring[k] \in BioRecords BY <1>2, <2>1, <2>2, RecordFields
    <3> QED BY <1>2, <2>2, <3>1 DEF BioRecords, Records
  <2>3. CASE ring[k].owner # c BY <2>1, <2>3
  <2> QED BY <2>2, <2>3
<1> HIDE DEF sub
<1>4. ring' \in Seq(Records) /\ Len(ring') = Len(ring) /\ \A k \in 1..Len(ring) : ring'[k] = sub(k)
  BY <1>1, <1>2, <1>3
<1> QED BY <1>3, <1>4

LEMMA BioEnterSubmitTypes ==
  ASSUME TypeInv, NEW c \in Cpus, BioEnterSubmit(c) PROVE TypeInv'
<1>1. /\ cpu' = [cpu EXCEPT ![c] = Idle] /\ UNCHANGED <<main, now, begun, memory>>
  BY DEF BioEnterSubmit
<1>2. now \in Nat BY ClockBounds DEF TypeInv, TrafficTypes
<1>3. /\ ring' \in Seq(Records) /\ Len(ring') = Len(ring)
      /\ \A k \in 1..Len(ring) : ring'[k].owner = IF ring[k].owner = c THEN NoCpu ELSE ring[k].owner
  BY SubmitInPlace
<1>4. open' \subseteq [bio_enter : Nat, io : Ios]
  <2>1. open \subseteq [bio_enter : Nat, io : Ios] BY DEF TypeInv, TrafficTypes
  <2>2. CASE \E io \in Ios : open' = open \cup {[bio_enter |-> now, io |-> io]} BY <1>2, <2>1, <2>2
  <2>3. CASE UNCHANGED open BY <2>1, <2>3
  <2> QED BY <2>2, <2>3 DEF BioEnterSubmit
<1>5. TrafficTypes' BY <1>1, <1>3, <1>4 DEF TypeInv, TrafficTypes, Pending
<1>6. \A d \in Cpus : d # c => cpu'[d] = cpu[d] BY <1>1 DEF TypeInv, TrafficTypes
<1>7. \A k \in 1..Len(ring) : ring[k].owner \in Cpus \cup {NoCpu}
  BY RingIsRecords, RecordFields DEF TypeInv
<1>8. OwnersOK' BY <1>3, <1>6, <1>7 DEF TypeInv, OwnersOK
<1>9. MemoryTypes' BY <1>1, QuietMemory
<1> QED BY <1>1, <1>5, <1>8, <1>9 DEF TypeInv, main

(* The probes that fill their record before they reserve it.               *)
LEMMA BeginTypes ==
  ASSUME TypeInv, NEW c \in Cpus, NEW r \in Late, Begin(c, r), begun' \in Nat, UNCHANGED ring,
         open' \subseteq open
  PROVE  TypeInv'
<1>1. /\ cpu[c] = Idle /\ cpu' = [cpu EXCEPT ![c] = r] /\ begun' \in Nat
      /\ UNCHANGED <<main, now, memory>>
  BY DEF Begin
<1>2. TrafficTypes' BY <1>1 DEF TypeInv, TrafficTypes, Pending
<1>3. \A k \in 1..Len(ring) : ring[k].owner # c BY <1>1, BeginKeepsOwners
<1>4. \A d \in Cpus : d # c => cpu'[d] = cpu[d] BY <1>1 DEF TypeInv, TrafficTypes
<1>5. \A k \in 1..Len(ring) : ring[k].owner \in Cpus \cup {NoCpu}
  BY RingIsRecords, RecordFields DEF TypeInv
<1>6. OwnersOK' BY <1>3, <1>4, <1>5 DEF TypeInv, OwnersOK
<1>7. MemoryTypes' BY <1>1, QuietMemory
<1> QED BY <1>1, <1>2, <1>6, <1>7 DEF TypeInv, main

LEMMA CountedIsBegun ==
  ASSUME TypeInv, NEW c, NEW r, BeginOne(c, r) PROVE Begin(c, r) /\ begun' \in Nat
BY DEF BeginOne, TypeInv, TrafficTypes

LEMMA LateProbeTypes ==
  ASSUME TypeInv, NEW c \in Cpus,
         \/ \E rq \in open : AccountIoDone(c, rq)
         \/ \E call \in Calls : DioComplete(c, call)
         \/ HctxSeen(c)
         \/ \E uid \in Uids, io \in Ios : RqInfo(c, uid, io)
  PROVE  TypeInv'
<1>0. now \in Nat /\ now \in Times /\ now <= LastTime /\ LastTime \in Nat /\ begun \in Nat
  BY ClockBounds DEF TypeInv, TrafficTypes, Times
<1>1. CASE \E rq \in open : AccountIoDone(c, rq)
  <2>1. PICK rq \in open : AccountIoDone(c, rq) BY <1>1
  <2>2. rq \in [bio_enter : Nat, io : Ios] BY DEF TypeInv, TrafficTypes
  <2>3. PICK unplugged \in {0, 1} \cap 0..(now - rq.bio_enter) :
          BeginOne(c, [kind |-> "rq_trace_event", bio_enter |-> rq.bio_enter,
                       latency |-> now - rq.bio_enter - unplugged, io |-> rq.io, owner |-> NoCpu])
    BY <2>1 DEF AccountIoDone
  <2>4. [kind |-> "rq_trace_event", bio_enter |-> rq.bio_enter,
         latency |-> now - rq.bio_enter - unplugged, io |-> rq.io, owner |-> NoCpu] \in Late
    <3>1. unplugged \in 0..(now - rq.bio_enter) /\ rq.bio_enter \in Nat /\ rq.io \in Ios BY <2>2, <2>3
    <3>2. /\ now - rq.bio_enter - unplugged \in Nat
          /\ rq.bio_enter + (now - rq.bio_enter - unplugged) <= LastTime
      BY <1>0, <3>1
    <3> QED BY <3>1, <3>2 DEF Late, RqRecords
  <2>5. UNCHANGED ring /\ open' \subseteq open BY <2>1 DEF AccountIoDone
  <2> QED BY <2>3, <2>4, <2>5, CountedIsBegun, BeginTypes
<1>2. CASE \E call \in Calls : DioComplete(c, call)
  <2>1. PICK call \in Calls : DioComplete(c, call) BY <1>2
  <2> DEFINE r == [kind |-> "dio_event", end |-> now, call |-> call, owner |-> NoCpu]
  <2>2. r \in Late BY <1>0 DEF Late, DioRecords
  <2>3. Begin(c, r) /\ begun' \in Nat /\ UNCHANGED <<open, ring>>
    BY <2>1, CountedIsBegun DEF DioComplete
  <2> QED BY <2>2, <2>3, BeginTypes
<1>3. CASE HctxSeen(c)
  <2> DEFINE r == [kind |-> "hctx_metadata", tp |-> now, owner |-> NoCpu]
  <2>1. r \in Late BY <1>0 DEF Late, HctxRecords
  <2>2. Begin(c, r) /\ begun' \in Nat /\ UNCHANGED <<open, ring>> BY <1>0, <1>3 DEF HctxSeen
  <2> QED BY <2>1, <2>2, BeginTypes
<1>4. CASE \E uid \in Uids, io \in Ios : RqInfo(c, uid, io)
  <2>1. PICK uid \in Uids, io \in Ios : RqInfo(c, uid, io) BY <1>4
  <2> DEFINE r == [kind |-> "rq_info_event", uid |-> uid, io |-> io, owner |-> NoCpu]
  <2>2. r \in Late BY DEF Late, RqInfoRecords
  <2>3. Begin(c, r) /\ begun' \in Nat /\ UNCHANGED <<open, ring>> BY <2>1, CountedIsBegun DEF RqInfo
  <2> QED BY <2>2, <2>3, BeginTypes
<1> QED BY <1>1, <1>2, <1>3, <1>4

LEMMA EmitTypes == ASSUME TypeInv, NEW c \in Cpus, Emit(c) PROVE TypeInv'
<1>1. /\ cpu[c].kind \notin {"idle", "bio_enter"} /\ cpu' = [cpu EXCEPT ![c] = Idle]
      /\ ring' = IF Len(ring) < RingMax THEN Append(ring, cpu[c]) ELSE ring
      /\ UNCHANGED <<main, now, begun, open, memory>>
  BY DEF Emit
<1>2. cpu[c] \in Late BY <1>1 DEF TypeInv, TrafficTypes, Pending, Idle
<1>3. cpu[c] \in Records /\ cpu[c].owner = NoCpu BY <1>2, RecordFields DEF Records
<1>4. /\ ring' \in Seq(Records) /\ Len(ring') <= RingMax
      /\ \A k \in 1..Len(ring') :
           (k \in 1..Len(ring) /\ ring'[k] = ring[k]) \/ (k = Len(ring) + 1 /\ ring'[k] = cpu[c])
  BY <1>1, <1>3, AppendToRing
<1>5. TrafficTypes' BY <1>1, <1>4 DEF TypeInv, TrafficTypes, Pending
<1>6. \A k \in 1..Len(ring) : ring[k].owner # c
  BY <1>1, SessionAssumption DEF TypeInv, OwnersOK
<1>7. \A d \in Cpus : d # c => cpu'[d] = cpu[d] BY <1>1 DEF TypeInv, TrafficTypes
<1>8. \A k \in 1..Len(ring) : ring[k].owner \in Cpus \cup {NoCpu}
  BY RingIsRecords, RecordFields DEF TypeInv
<1>9. OwnersOK' BY <1>3, <1>4, <1>6, <1>7, <1>8, SMTT(30) DEF TypeInv, OwnersOK
<1>10. MemoryTypes' BY <1>1, QuietMemory
<1> QED BY <1>1, <1>5, <1>9, <1>10 DEF TypeInv, main

-----------------------------------------------------------------------------
(* The consumer: each record goes to the handler of its kind.              *)
LEMMA TakeOne ==
  ASSUME TypeInv, Take
  PROVE  /\ ring # <<>> /\ ring[1].owner = NoCpu /\ ring[1] \in Records
         /\ pc = "drain" /\ pc' \in {"drain", "fatal"}
         /\ ring' = Tail(ring)
         /\ UNCHANGED <<config, env, probes, exiting, now, begun, cpu, open, dumped>>
         /\ \/ ring[1] \in BioRecords /\ ProxyBioEnter(ring[1])
            \/ ring[1] \in RqRecords /\ ProxyRqTrace(ring[1])
            \/ ring[1] \in DioRecords /\ ProxyDio(ring[1])
            \/ ring[1] \in HctxRecords /\ ProxyHctx(ring[1])
            \/ ring[1] \in RqInfoRecords /\ ProxyRqInfo(ring[1])
<1>1. /\ ring # <<>> /\ ring[1].owner = NoCpu /\ pc = "drain" /\ pc' \in {"drain", "fatal"}
      /\ ring' = Tail(ring)
      /\ UNCHANGED <<config, env, probes, exiting, now, begun, cpu, open, dumped>>
  BY DEF Take, Ready
<1>2. ring[1] \in Records BY <1>1 DEF TypeInv, TrafficTypes
<1>3. CASE ring[1] \in BioRecords
  <2>1. ring[1].kind = "bio_enter" BY <1>3 DEF BioRecords
  <2> QED BY <1>1, <1>2, <1>3, <2>1 DEF Take
<1>4. CASE ring[1] \in RqRecords
  <2>1. ring[1].kind = "rq_trace_event" BY <1>4 DEF RqRecords
  <2> QED BY <1>1, <1>2, <1>4, <2>1 DEF Take
<1>5. CASE ring[1] \in DioRecords
  <2>1. ring[1].kind = "dio_event" BY <1>5 DEF DioRecords
  <2> QED BY <1>1, <1>2, <1>5, <2>1 DEF Take
<1>6. CASE ring[1] \in HctxRecords
  <2>1. ring[1].kind = "hctx_metadata" BY <1>6 DEF HctxRecords
  <2> QED BY <1>1, <1>2, <1>6, <2>1 DEF Take
<1>7. CASE ring[1] \in RqInfoRecords
  <2>1. ring[1].kind = "rq_info_event" BY <1>7 DEF RqInfoRecords
  <2> QED BY <1>1, <1>2, <1>7, <2>1 DEF Take
<1> QED BY <1>1, <1>2, <1>3, <1>4, <1>5, <1>6, <1>7 DEF Records, Late

LEMMA DioMemory ==
  ASSUME TypeInv, NEW r \in DioRecords, ProxyDio(r)
  PROVE  /\ r.end \in Nat /\ r.call.type \in {"READ", "WRITE"} /\ r.call.filename \in Files
         /\ series' = Commit(series, env.interval, r.end, 1)
         /\ committed' = [committed EXCEPT !.series = Append(@, r.end)]
         /\ ops' = [ops EXCEPT ![r.call.type] = @ + 1]
         /\ file_op' = [file_op EXCEPT ![r.call.filename][r.call.type] = @ + 1]
         /\ UNCHANGED <<other_rows, hctx_trace, recv_data>>
<1>1. r.end \in Nat /\ r.call.type \in {"READ", "WRITE"} /\ r.call.filename \in Files
  BY SessionAssumption DEF DioRecords
<1>2. ops[r.call.type] \in Nat /\ file_op[r.call.filename][r.call.type] \in Nat
  BY <1>1 DEF TypeInv, MemoryTypes
<1>3. \A count \in Nat : CounterCommit(count, 1) = count + 1 BY DEF CounterCommit
<1> QED BY <1>1, <1>2, <1>3 DEF ProxyDio

LEMMA TakeTypes == ASSUME TypeInv, Take PROVE TypeInv'
<1>1. /\ ring # <<>> /\ ring[1].owner = NoCpu /\ ring[1] \in Records
      /\ pc' \in {"drain", "fatal"} /\ ring' = Tail(ring)
      /\ UNCHANGED <<config, env, probes, exiting, now, begun, cpu, open, dumped>>
  BY TakeOne
<1>2. ring \in Seq(Records) /\ Len(ring) <= RingMax BY DEF TypeInv, TrafficTypes
<1>3. /\ ring' \in Seq(Records) /\ Len(ring') = Len(ring) - 1
      /\ \A k \in 1..Len(ring') : ring'[k] = ring[k + 1] /\ k + 1 \in 1..Len(ring)
  BY <1>1, <1>2
<1>4. TrafficTypes' BY <1>1, <1>2, <1>3, SessionAssumption DEF TypeInv, TrafficTypes
<1>5. OwnersOK' BY <1>1, <1>3 DEF TypeInv, OwnersOK
<1>6. MemoryTypes'
  <2>1. CASE ring[1] \in BioRecords /\ ProxyBioEnter(ring[1])
    BY <2>1, QuietMemory DEF ProxyBioEnter
  <2>2. CASE ring[1] \in RqRecords /\ ProxyRqTrace(ring[1])
    BY <2>2 DEF ProxyRqTrace, TypeInv, MemoryTypes
  <2>3. CASE ring[1] \in DioRecords /\ ProxyDio(ring[1])
    <3>1. /\ ring[1].end \in Nat /\ ring[1].call.type \in {"READ", "WRITE"}
          /\ series' = Commit(series, env.interval, ring[1].end, 1)
          /\ committed' = [committed EXCEPT !.series = Append(@, ring[1].end)]
          /\ ops' = [ops EXCEPT ![ring[1].call.type] = @ + 1]
          /\ file_op' = [file_op EXCEPT ![ring[1].call.filename][ring[1].call.type] = @ + 1]
          /\ ring[1].call.filename \in Files
          /\ UNCHANGED hctx_trace
      BY <2>3, DioMemory
    <3>2. IsSeries(series') BY <3>1, CommitKeepsSeries DEF TypeInv, MemoryTypes
    <3>3. committed' \in [series : Seq(Nat), hctx : Seq(Times)]
      <4>1. committed \in [series : Seq(Nat), hctx : Seq(Times)] BY DEF TypeInv, MemoryTypes
      <4>2. Append(committed.series, ring[1].end) \in Seq(Nat) BY <3>1, <4>1
      <4> QED BY <3>1, <4>1, <4>2
    <3>4. ops' \in [{"READ", "WRITE"} -> Nat]
      <4>1. ops \in [{"READ", "WRITE"} -> Nat] BY DEF TypeInv, MemoryTypes
      <4>2. ops[ring[1].call.type] + 1 \in Nat BY <3>1, <4>1
      <4>3. ops' = [ops EXCEPT ![ring[1].call.type] = ops[ring[1].call.type] + 1] BY <3>1
      <4> QED BY <3>1, <4>1, <4>2, <4>3
    <3>5. file_op' \in [Files -> [{"READ", "WRITE"} -> Nat]]
      <4> DEFINE of == file_op[ring[1].call.filename]
      <4>1. file_op \in [Files -> [{"READ", "WRITE"} -> Nat]] BY DEF TypeInv, MemoryTypes
      <4>2. of \in [{"READ", "WRITE"} -> Nat] BY <3>1, <4>1
      <4>3. [of EXCEPT ![ring[1].call.type] = @ + 1] \in [{"READ", "WRITE"} -> Nat] BY <3>1, <4>2
      <4>4. file_op' = [file_op EXCEPT ![ring[1].call.filename] = [of EXCEPT ![ring[1].call.type] = @ + 1]]
        BY <3>1, <4>1
      <4> QED BY <4>1, <4>3, <4>4
    <3> QED BY <3>1, <3>2, <3>3, <3>4, <3>5 DEF TypeInv, MemoryTypes
  <2>4. CASE ring[1] \in HctxRecords /\ ProxyHctx(ring[1])
    <3>1. ring[1].tp \in Times /\ ring[1].tp \in Nat
      BY <2>4, ClockBounds DEF HctxRecords, TypeInv
    <3>2. UNCHANGED <<series, ops, file_op>> BY <2>4 DEF ProxyHctx
    <3>3. committed' \in [series : Seq(Nat), hctx : Seq(Times)]
      <4>1. committed \in [series : Seq(Nat), hctx : Seq(Times)] BY DEF TypeInv, MemoryTypes
      <4>2. Append(committed.hctx, ring[1].tp) \in Seq(Times) BY <3>1, <4>1
      <4> QED BY <2>4, <4>1, <4>2 DEF ProxyHctx
    <3>4. hctx_trace' = HctxCollect(hctx_trace, ring[1].tp) BY <2>4 DEF ProxyHctx
    <3>5. /\ hctx_trace' = [known |-> hctx_trace'.known, state |-> hctx_trace'.state]
          /\ IsSeries(hctx_trace'.state)
      BY <3>1, <3>4, HctxCommitKeepsSeries DEF HctxCollect, TypeInv, MemoryTypes
    <3> QED BY <3>2, <3>3, <3>5 DEF TypeInv, MemoryTypes
  <2>5. CASE ring[1] \in RqInfoRecords /\ ProxyRqInfo(ring[1])
    BY <2>5 DEF ProxyRqInfo, ToHeatmap, TypeInv, MemoryTypes
  <2> QED BY <2>1, <2>2, <2>3, <2>4, <2>5, TakeOne
<1> QED BY <1>1, <1>4, <1>5, <1>6 DEF TypeInv, main

-----------------------------------------------------------------------------
(* main() outside the handlers.                                            *)
LEMMA MainTypes ==
  ASSUME TypeInv,
         ReadConfig \/ Load \/ Wake \/ Leave \/ Drained \/ Release \/ Process \/ SigInt \/ Tick
           \/ UNCHANGED vars
  PROVE  TypeInv'
<1>1. CASE ReadConfig
  <2>1. env'.interval \in Nat
    <3>1. IntervalOf(config.pmc_inv) \in Nat BY IntervalIsNat, SessionAssumption DEF TypeInv
    <3>2. Env(config).interval = IntervalOf(config.pmc_inv) BY DEF Env
    <3> QED BY <1>1, <3>1, <3>2 DEF ReadConfig, TypeInv
  <2>2. TrafficTypes' /\ OwnersOK' /\ MemoryTypes' BY <1>1, QuietTraffic, QuietMemory DEF ReadConfig
  <2> QED BY <1>1, <2>1, <2>2 DEF TypeInv, ReadConfig
<1>2. CASE Load
  <2>1. TrafficTypes' /\ OwnersOK' /\ MemoryTypes' BY <1>2, QuietTraffic, QuietMemory DEF Load
  <2> QED BY <1>2, <2>1 DEF TypeInv, Load
<1>3. CASE Wake \/ Leave \/ Drained \/ Release
  <2>1. PICK to \in {"drain", "release", "poll", "process", "crashed"} : Goto(to)
    BY <1>3 DEF Wake, Leave, Drained, WhileNotExiting, Release
  <2>2. TrafficTypes' /\ OwnersOK' /\ MemoryTypes' BY <2>1, QuietTraffic, QuietMemory DEF Goto
  <2> QED BY <2>1, <2>2 DEF TypeInv, Goto
<1>4. CASE Process
  <2>1. TrafficTypes' /\ OwnersOK' /\ MemoryTypes' BY <1>4, QuietTraffic, QuietMemory DEF Process
  <2> QED BY <1>4, <2>1 DEF TypeInv, Process
<1>5. CASE SigInt
  <2>1. TrafficTypes' /\ OwnersOK' /\ MemoryTypes' BY <1>5, QuietTraffic, QuietMemory DEF SigInt
  <2> QED BY <1>5, <2>1 DEF TypeInv, SigInt
<1>6. CASE Tick
  <2>1. MemoryTypes' /\ UNCHANGED main BY <1>6, QuietMemory DEF Tick
  <2>2. now' \in Times
    <3>1. now \in Times /\ now < MaxTime[config] /\ now' = now + 1 /\ config \in Configs
      BY <1>6 DEF Tick, TypeInv, TrafficTypes
    <3> QED BY <3>1, ClockBounds DEF Times
  <2>4. TrafficTypes' BY <1>6, <2>2 DEF Tick, TypeInv, TrafficTypes
  <2>3. OwnersOK' BY <1>6 DEF Tick, TypeInv, OwnersOK
  <2> QED BY <2>1, <2>3, <2>4 DEF TypeInv, main
<1>7. CASE UNCHANGED vars
  <2>1. TrafficTypes' /\ OwnersOK' /\ MemoryTypes'
    BY <1>7, QuietTraffic, QuietMemory DEF vars, traffic, memory
  <2> QED BY <1>7, <2>1 DEF TypeInv, vars
<1> QED BY <1>1, <1>2, <1>3, <1>4, <1>5, <1>6, <1>7

(* The steps of Next, for the proofs by cases.                             *)
LEMMA StepKinds ==
  ASSUME [Next]_vars
  PROVE  \/ Take
         \/ \E c \in Cpus : Probe(c)
         \/ ReadConfig \/ Load \/ Wake \/ Leave \/ Drained \/ Release \/ Process \/ SigInt \/ Tick
              \/ UNCHANGED vars
BY DEF Next, Main, Trace, Stopped

(* The strengthened types, for any configurations, capacities and bounds.  *)
THEOREM TypeInvariant == Spec => []TypeInv
<1>1. Init => TypeInv BY TypesAtInit
<1>2. TypeInv /\ [Next]_vars => TypeInv'
  <2> SUFFICES ASSUME TypeInv, [Next]_vars PROVE TypeInv' OBVIOUS
  <2>1. CASE Take BY <2>1, TakeTypes
  <2>2. CASE \E c \in Cpus : Probe(c)
    <3>1. PICK c \in Cpus : Probe(c) BY <2>2
    <3> QED BY <3>1, BioEnterReserveTypes, BioEnterSubmitTypes, LateProbeTypes, EmitTypes DEF Probe
  <2> QED BY <2>1, <2>2, StepKinds, MainTypes
<1> QED BY <1>1, <1>2, PTL DEF Spec

(* The tracer's state keeps its types: above all, the ring stays within    *)
(* its capacity, a CPU has one record in it that is not submitted, and the *)
(* vectors of the series have the size they say (TypeOK).                  *)
THEOREM TypeCorrect == Spec => []TypeOK
<1>1. TypeInv => TypeOK
  <2> SUFFICES ASSUME TypeInv PROVE TypeOK OBVIOUS
  <2>1. \A c \in Cpus : Cardinality({k \in 1..Len(ring) : ring[k].owner = c}) <= 1
    <3> SUFFICES ASSUME NEW c \in Cpus
                 PROVE  Cardinality({k \in 1..Len(ring) : ring[k].owner = c}) <= 1
      OBVIOUS
    <3> DEFINE own == {k \in 1..Len(ring) : ring[k].owner = c}
    <3>1. c # NoCpu BY SessionAssumption
    <3>2. \A j, k \in own : j = k BY <3>1 DEF TypeInv, OwnersOK
    <3> HIDE DEF own
    <3> SUFFICES Cardinality(own) <= 1 BY DEF own
    <3>3. CASE own = {} BY <3>3, FS_EmptySet
    <3>4. CASE own # {}
      <4>1. PICK k \in own : TRUE BY <3>4
      <4>2. own = {k} BY <3>2, <4>1
      <4> QED BY <4>2, FS_Singleton
    <3> QED BY <3>3, <3>4
  <2>2. now \in Nat /\ now < WordSize \div 2
    <3>1. now \in Times /\ config \in Configs BY DEF TypeInv, TrafficTypes
    <3>2. now \in Nat /\ now <= LastTime BY <3>1, ClockBounds DEF Times
    <3> QED BY <3>2, LastTimeBound
  <2> QED BY <2>1, <2>2 DEF TypeInv, TrafficTypes, MemoryTypes, IsSeries, TypeOK
<1> QED BY <1>1, TypeInvariant, PTL

-----------------------------------------------------------------------------
(* The throughput series.  As long as its times are steady, its last slot  *)
(* is inside: a step forward is at most SeriesSize slots, and a vector     *)
(* that doubles grows by at least as many.                                 *)
Fits(s, interval, times) ==
  /\ s.valid
  /\ times = <<>> => ~s.started
  /\ times # <<>> =>
       /\ s.started /\ s.start = times[1]
       /\ TrueSlot(interval, times[1], times[Len(times)]) < s.size

SeriesInv ==
  /\ pc \in {"read_config", "load"} => committed.series = <<>> /\ series = NewSeries
  /\ Steady(env.interval, committed.series) => Fits(series, env.interval, committed.series)

LEMMA SteadyPrefix ==
  ASSUME NEW interval \in Nat, NEW times \in Seq(Nat), NEW tp \in Nat,
         Steady(interval, Append(times, tp))
  PROVE  /\ Steady(interval, times)
         /\ interval > 0
         /\ LET first == IF times = <<>> THEN tp ELSE times[1]
            IN /\ tp >= first
               /\ 2 * TrueSlot(interval, first, tp) < IntSize
               /\ times # <<>> => TrueSlot(interval, first, tp)
                                    <= TrueSlot(interval, first, times[Len(times)]) + SeriesSize
<1> DEFINE all == Append(times, tp)
<1>1. /\ Len(all) = Len(times) + 1 /\ Len(times) \in Nat /\ all[Len(times) + 1] = tp
      /\ \A k \in 1..Len(times) : all[k] = times[k]
  OBVIOUS
<1>2. times = <<>> <=> Len(times) = 0 OBVIOUS
<1>3. interval > 0 BY DEF Steady
<1>4. \A k \in 1..Len(all) :
        /\ all[k] >= all[1]
        /\ 2 * TrueSlot(interval, all[1], all[k]) < IntSize
        /\ k > 1 => TrueSlot(interval, all[1], all[k]) <= TrueSlot(interval, all[1], all[k - 1]) + SeriesSize
  BY DEF Steady
<1> HIDE DEF all
<1>5. Steady(interval, times)
  <2>1. \A k \in 1..Len(times) : k > 1 => k - 1 \in 1..Len(times) BY <1>1
  <2>2. \A k \in 1..Len(times) : 1 \in 1..Len(times) /\ k \in 1..Len(all) BY <1>1
  <2> QED BY <1>1, <1>3, <1>4, <2>1, <2>2 DEF Steady
<1>6. CASE times = <<>>
  <2>1. 1 \in 1..Len(all) /\ all[1] = tp BY <1>1, <1>2, <1>6
  <2> QED BY <1>3, <1>4, <1>5, <1>6, <2>1
<1>7. CASE times # <<>>
  <2>1. Len(times) + 1 \in 1..Len(all) /\ Len(times) \in 1..Len(times) /\ all[1] = times[1]
    BY <1>1, <1>2, <1>7
  <2>2. all[(Len(times) + 1) - 1] = times[Len(times)] /\ Len(times) + 1 > 1 BY <1>1, <2>1
  <2> QED BY <1>1, <1>3, <1>4, <1>5, <1>7, <2>1, <2>2
<1> QED BY <1>6, <1>7

LEMMA SteadyCommit ==
  ASSUME NEW interval \in Nat, NEW times \in Seq(Nat), NEW tp \in Nat, NEW x, NEW s, IsSeries(s),
         Steady(interval, times) => Fits(s, interval, times),
         Steady(interval, Append(times, tp))
  PROVE  Fits(Commit(s, interval, tp, x), interval, Append(times, tp))
<1> DEFINE first == IF times = <<>> THEN tp ELSE times[1]
           slot == TrueSlot(interval, first, tp)
<1>1. /\ Fits(s, interval, times) /\ interval > 0 /\ tp >= first /\ 2 * slot < IntSize
      /\ times # <<>> => slot <= TrueSlot(interval, first, times[Len(times)]) + SeriesSize
  BY SteadyPrefix
<1>2. first \in Nat
  <2>1. CASE times = <<>> BY <2>1
  <2>2. CASE times # <<>> BY <2>2
  <2> QED BY <2>1, <2>2
<1>3. StartOf(s, tp) = first BY <1>1 DEF StartOf, Fits
<1>4. slot \in Nat BY <1>1, <1>2, TrueSlotIsNat
<1>5. slot < s.size + SeriesSize
  <2>0. SeriesSize \in Nat \ {0} /\ s.size \in Nat /\ s.size >= SeriesSize
    BY TimeSeriesAssumption DEF IsSeries
  <2>1. CASE times = <<>>
    <3>1. slot = 0 BY <1>1, <2>1 DEF TrueSlot
    <3> QED BY <2>0, <3>1
  <2>2. CASE times # <<>>
    <3>1. times[Len(times)] \in Nat /\ Len(times) \in 1..Len(times) BY <2>2
    <3>2. Steady(interval, times) BY SteadyPrefix
    <3>3. times[Len(times)] >= first BY <2>2, <3>1, <3>2 DEF Steady
    <3>4. TrueSlot(interval, first, times[Len(times)]) \in Nat
      BY <1>1, <1>2, <3>1, <3>3, TrueSlotIsNat
    <3>5. TrueSlot(interval, first, times[Len(times)]) < s.size BY <1>1, <2>2 DEF Fits
    <3> QED BY <1>1, <1>4, <2>0, <2>2, <3>4, <3>5
  <2> QED BY <2>1, <2>2
<1>6. LET c == Commit(s, interval, tp, x)
      IN c.valid /\ c.started /\ c.start = first /\ slot < c.size
  <2>1. s.valid BY <1>1 DEF Fits
  <2> HIDE DEF first
  <2> QED BY <1>1, <1>2, <1>3, <1>5, <2>1, CommitInside
<1> HIDE DEF slot
<1>7. /\ Append(times, tp) # <<>> /\ Append(times, tp)[1] = first
      /\ Append(times, tp)[Len(Append(times, tp))] = tp
  OBVIOUS
<1> HIDE DEF first
<1> QED BY <1>6, <1>7 DEF Fits, slot

THEOREM SeriesInvariant == Spec => []SeriesInv
<1>1. Init => SeriesInv
  BY DEF Init, SeriesInv, Fits, NewSeries
<1>2. SeriesInv /\ TypeInv /\ [Next]_vars => SeriesInv'
  <2> SUFFICES ASSUME SeriesInv, TypeInv, [Next]_vars PROVE SeriesInv' OBVIOUS
  <2>1. CASE Take
    <3>1. pc' \in {"drain", "fatal"} /\ UNCHANGED env BY <2>1, TakeOne
    <3>2. CASE UNCHANGED series /\ committed'.series = committed.series
      BY <3>1, <3>2 DEF SeriesInv
    <3>3. CASE ring[1] \in DioRecords /\ ProxyDio(ring[1])
      <4>1. /\ ring[1].end \in Nat /\ series' = Commit(series, env.interval, ring[1].end, 1)
            /\ committed' = [committed EXCEPT !.series = Append(@, ring[1].end)]
        BY <3>3, DioMemory
      <4>2. committed \in [series : Seq(Nat), hctx : Seq(Times)] /\ env.interval \in Nat
            /\ IsSeries(series)
        BY DEF TypeInv, MemoryTypes
      <4>3. committed'.series = Append(committed.series, ring[1].end) BY <4>1, <4>2
      <4>4. committed.series \in Seq(Nat) BY <4>2
      <4> QED BY <3>1, <4>1, <4>2, <4>3, <4>4, SteadyCommit DEF SeriesInv
    <3>4. CASE \/ ProxyBioEnter(ring[1]) \/ ProxyRqTrace(ring[1])
               \/ ProxyRqInfo(ring[1]) \/ ProxyHctx(ring[1])
      <4>1. committed \in [series : Seq(Nat), hctx : Seq(Times)] BY DEF TypeInv, MemoryTypes
      <4> QED BY <3>2, <3>4, <4>1 DEF ProxyBioEnter, ProxyRqTrace, ProxyHctx, ProxyRqInfo, memory
    <3> QED BY <2>1, <3>3, <3>4, TakeOne
  <2>2. CASE \E c \in Cpus : Probe(c)
    <3>1. UNCHANGED <<main, memory>>
      BY <2>2 DEF Probe, BioEnterReserve, BioEnterSubmit, AccountIoDone, DioComplete, HctxSeen,
                  RqInfo, Emit, BeginOne, Begin
    <3> QED BY <3>1 DEF SeriesInv, main, memory
  <2>3. CASE ReadConfig
    BY <2>3 DEF ReadConfig, SeriesInv, Fits, NewSeries, memory
  <2>4. CASE \/ Load \/ Wake \/ Leave \/ Drained \/ Release \/ Process \/ SigInt \/ Tick
             \/ UNCHANGED vars
    <3>1. UNCHANGED <<env, series, committed>>
      BY <2>4 DEF Load, Wake, Leave, Drained, WhileNotExiting, Release, Process, SigInt, Tick, vars, Goto, main, memory
    <3>2. pc' \in {"read_config", "load"} => pc \in {"read_config", "load"}
      BY <2>4 DEF Load, Wake, Leave, Drained, WhileNotExiting, Release, Process, SigInt, Tick, vars, Goto, main
    <3> QED BY <3>1, <3>2 DEF SeriesInv
  <2> QED BY <2>1, <2>2, <2>3, <2>4, StepKinds
<1> QED BY <1>1, <1>2, TypeInvariant, PTL DEF Spec

(* TimeThroughputPmc::commit doubles its vector once at most, and yet it   *)
(* never leaves it while the times are steady (SeriesValid), whatever the  *)
(* first size, the interval and the width of an int.                       *)
THEOREM SeriesStaysInside == Spec => []SeriesValid
<1>1. SeriesInv => SeriesValid BY DEF SeriesInv, Fits, SeriesValid
<1> QED BY <1>1, SeriesInvariant, PTL

-----------------------------------------------------------------------------
(* The counters count what the series counts, each once for a direct I/O.  *)
OpsAgree ==
  /\ ops["READ"] + ops["WRITE"] = Len(committed.series)
  /\ \A f \in Files, d \in {"READ", "WRITE"} : file_op[f][d] <= ops[d]

(* What each mode lets into the ring.                                      *)
KindsOf(mode) ==
  CASE mode = "blk" -> {"idle", "bio_enter", "rq_trace_event"}
    [] mode = "simple" -> {"idle", "dio_event"}
    [] mode = "info" -> {"idle", "dio_event", "hctx_metadata", "rq_info_event"}

KindsOK ==
  /\ \A c \in Cpus : cpu[c].kind \in KindsOf(Mode)
  /\ \A k \in 1..Len(ring) : ring[k].kind \in KindsOf(Mode)

(* What each mode keeps in its files and in memory, and when nothing is    *)
(* kept yet.                                                               *)
BlkRows ==
  {r \in [bio_enter : Nat, latency : Nat, io_direction : {"READ", "WRITE"}] :
     r.bio_enter + r.latency <= LastTime}
Sectors == [sector : 0..(WordSize \div 2 - 1), stats : Nat]
DioRows == [uid : {call.uid : call \in Calls}, end_dio_io : Nat]
MetaRows == [filename : {call.filename : call \in Calls}]

BlkKept ==
  /\ event_rows \in Seq(BlkRows) /\ other_rows \in Seq([tp : Times])
  /\ recv_data \in Seq(Sectors)
  /\ series = NewSeries /\ hctx_trace = NoHctx

DioKept ==
  /\ event_rows \in Seq(DioRows) /\ meta_rows \in Seq(MetaRows)
  /\ other_rows \in Seq([uid : Uids])
  /\ Len(event_rows) = Len(meta_rows) /\ Len(event_rows) <= Len(committed.series)
  /\ recv_data \in Seq(Sectors)

KeptOK ==
  /\ Mode = "blk" => BlkKept
  /\ Mode # "blk" => DioKept
  /\ Mode = "simple" => hctx_trace = NoHctx

Fresh ==
  /\ ring = <<>> /\ \A c \in Cpus : cpu[c] = Idle
  /\ event_rows = <<>> /\ meta_rows = <<>> /\ other_rows = <<>> /\ recv_data = <<>>
  /\ hctx_trace = NoHctx /\ series = NewSeries /\ committed.series = <<>>

ModeInv ==
  /\ pc \in {"read_config", "load"} => Fresh
  /\ OpsAgree /\ KindsOK /\ KeptOK

LEMMA Modes == Mode \in {"blk", "simple", "info"}
BY DEF Mode

LEMMA FreshIsKept == ASSUME Fresh PROVE KindsOK /\ KeptOK
<1>1. KindsOK BY Modes DEF Fresh, KindsOK, KindsOf, Idle
<1>2. KeptOK BY DEF Fresh, KeptOK, BlkKept, DioKept
<1> QED BY <1>1, <1>2

(* A probe starts the records of its mode.                                 *)
LEMMA ProbeKeepsMode ==
  ASSUME ModeInv, TypeInv, NEW c \in Cpus, Probe(c) PROVE ModeInv'
<1>1. UNCHANGED <<main, memory, logged>>
  BY DEF Probe, BioEnterReserve, BioEnterSubmit, AccountIoDone, DioComplete, HctxSeen, RqInfo, Emit, BeginOne, Begin
<1>2. Tracing
  BY DEF Probe, BioEnterReserve, BioEnterSubmit, AccountIoDone, DioComplete, HctxSeen, RqInfo, Emit, BeginOne, Begin
<1>3. pc \notin {"read_config", "load"} /\ UNCHANGED <<pc, Mode>> BY <1>1, <1>2 DEF Tracing, main, Mode
<1>4. OpsAgree' /\ KeptOK'
  BY <1>1, <1>3 DEF ModeInv, OpsAgree, KeptOK, BlkKept, DioKept, memory, logged
<1>5. cpu \in [Cpus -> Pending] /\ ring \in Seq(Records) BY DEF TypeInv, TrafficTypes
<1>6. KindsOK'
  <2>0. "idle" \in KindsOf(Mode) BY Modes DEF KindsOf
  <2>1. CASE BioEnterReserve(c)
    <3> DEFINE b == [kind |-> "bio_enter", tp |-> 0, owner |-> c]
    <3>1. Mode = "blk" /\ cpu' = [cpu EXCEPT ![c] = [kind |-> "bio_enter"]]
          /\ ring' = IF Len(ring) < RingMax THEN Append(ring, b) ELSE ring
      BY <2>1 DEF BioEnterReserve, BeginOne, Begin
    <3>2. b \in Records BY ClockBounds DEF Records, BioRecords, TypeInv
    <3>3. \A k \in 1..Len(ring') :
            (k \in 1..Len(ring) /\ ring'[k] = ring[k]) \/ (k = Len(ring) + 1 /\ ring'[k] = b)
      BY <3>1, <3>2, AppendToRing
    <3>4. "bio_enter" \in KindsOf(Mode) BY <3>1 DEF KindsOf
    <3> QED BY <1>3, <1>5, <3>1, <3>3, <3>4 DEF ModeInv, KindsOK
  <2>2. CASE BioEnterSubmit(c)
    <3>1. cpu' = [cpu EXCEPT ![c] = Idle] BY <2>2 DEF BioEnterSubmit
    <3>2. Len(ring') = Len(ring) /\ \A k \in 1..Len(ring) : ring'[k].kind = ring[k].kind
      BY <2>2, SubmitInPlace
    <3> QED BY <1>3, <1>5, <2>0, <3>1, <3>2 DEF ModeInv, KindsOK, Idle
  <2>3. CASE \E rq \in open : AccountIoDone(c, rq)
    <3>1. PICK r : Begin(c, r) /\ r.kind = "rq_trace_event" /\ Mode = "blk" /\ UNCHANGED ring
      BY <2>3 DEF AccountIoDone, BeginOne
    <3> QED BY <1>3, <1>5, <3>1 DEF ModeInv, KindsOK, KindsOf, Begin
  <2>4. CASE \E call \in Calls : DioComplete(c, call)
    <3>1. PICK r : Begin(c, r) /\ r.kind = "dio_event" /\ Mode \in {"simple", "info"} /\ UNCHANGED ring
      BY <2>4 DEF DioComplete, BeginOne
    <3> QED BY <1>3, <1>5, <3>1 DEF ModeInv, KindsOK, KindsOf, Begin
  <2>5. CASE HctxSeen(c)
    <3>1. PICK r : Begin(c, r) /\ r.kind = "hctx_metadata" /\ Mode = "info" /\ UNCHANGED ring
      BY <2>5 DEF HctxSeen
    <3> QED BY <1>3, <1>5, <3>1 DEF ModeInv, KindsOK, KindsOf, Begin
  <2>6. CASE \E uid \in Uids, io \in Ios : RqInfo(c, uid, io)
    <3>1. PICK r : Begin(c, r) /\ r.kind = "rq_info_event" /\ Mode = "info" /\ UNCHANGED ring
      BY <2>6 DEF RqInfo, BeginOne
    <3> QED BY <1>3, <1>5, <3>1 DEF ModeInv, KindsOK, KindsOf, Begin
  <2>7. CASE Emit(c)
    <3>1. cpu[c].kind \notin {"idle", "bio_enter"} /\ cpu' = [cpu EXCEPT ![c] = Idle]
          /\ ring' = IF Len(ring) < RingMax THEN Append(ring, cpu[c]) ELSE ring
      BY <2>7 DEF Emit
    <3>2. cpu[c] \in Late BY <1>5, <3>1 DEF Pending, Idle
    <3>3. cpu[c] \in Records BY <3>2 DEF Records
    <3>4. \A k \in 1..Len(ring') :
            (k \in 1..Len(ring) /\ ring'[k] = ring[k]) \/ (k = Len(ring) + 1 /\ ring'[k] = cpu[c])
      BY <3>1, <3>3, AppendToRing
    <3> QED BY <1>3, <1>5, <2>0, <3>1, <3>4 DEF ModeInv, KindsOK, Idle
  <2> QED BY <2>1, <2>2, <2>3, <2>4, <2>5, <2>6, <2>7 DEF Probe
<1> QED BY <1>3, <1>4, <1>6 DEF ModeInv

LEMMA OneMoreSector ==
  ASSUME recv_data \in Seq(Sectors), NEW r, r.io \in Ios, ToHeatmap(r)
  PROVE  recv_data' \in Seq(Sectors)
<1> DEFINE top == WordSize \div 2 - 1
           x == r.io.sector
<1>1. x \in Nat /\ x < WordSize \div 2 /\ r.io.stats \in Nat BY SessionAssumption
<1>2. WordSize \div 2 \in Int BY LastTimeBound
<1>3. x \in 0..top BY <1>1, <1>2
<1> HIDE DEF top, x
<1>4. [sector |-> x, stats |-> r.io.stats] \in Sectors BY <1>1, <1>3 DEF Sectors, top
<1> QED BY <1>4 DEF ToHeatmap, x

(* A record taken is one of the mode, and so is what its handler changes.  *)
LEMMA TakeKeepsMode == ASSUME ModeInv, TypeInv, Take PROVE ModeInv'
<1>1. /\ pc' \in {"drain", "fatal"} /\ UNCHANGED <<Mode, cpu>> /\ ring # <<>> /\ ring' = Tail(ring)
  BY TakeOne DEF Mode
<1>2. ring \in Seq(Records) /\ committed \in [series : Seq(Nat), hctx : Seq(Times)]
      /\ ops \in [{"READ", "WRITE"} -> Nat] /\ file_op \in [Files -> [{"READ", "WRITE"} -> Nat]]
  BY DEF TypeInv, TrafficTypes, MemoryTypes
<1>3. 1 \in 1..Len(ring) /\ ring[1].kind \in KindsOf(Mode) BY <1>1, <1>2 DEF ModeInv, KindsOK
<1>4. KindsOK'
  <2>1. Len(ring') = Len(ring) - 1 /\ \A k \in 1..Len(ring') : ring'[k] = ring[k + 1] /\ k + 1 \in 1..Len(ring)
    BY <1>1, <1>2
  <2> QED BY <1>1, <2>1 DEF ModeInv, KindsOK
<1>5. OpsAgree /\ KeptOK BY DEF ModeInv
<1>6. CASE ring[1] \in BioRecords /\ ProxyBioEnter(ring[1])
  <2>1. Mode = "blk" BY <1>3, <1>6, Modes DEF BioRecords, KindsOf
  <2>2. UNCHANGED <<event_rows, meta_rows, memory>> BY <1>6 DEF ProxyBioEnter
  <2>3. other_rows' \in Seq([tp : Times])
    <3>1. [tp |-> ring[1].tp] \in [tp : Times] BY <1>6 DEF BioRecords
    <3> HIDE DEF Times
    <3> QED BY <1>5, <1>6, <2>1, <3>1 DEF KeptOK, BlkKept, ProxyBioEnter
  <2> QED BY <1>1, <1>4, <1>5, <2>1, <2>2, <2>3 DEF ModeInv, OpsAgree, KeptOK, BlkKept, memory
<1>7. CASE ring[1] \in RqRecords /\ ProxyRqTrace(ring[1])
  <2>1. Mode = "blk" BY <1>3, <1>7, Modes DEF RqRecords, KindsOf
  <2>2. UNCHANGED <<meta_rows, other_rows, series, hctx_trace, ops, file_op, committed>>
    BY <1>7 DEF ProxyRqTrace
  <2>3. event_rows' \in Seq(BlkRows)
    <3> DEFINE row == [bio_enter |-> ring[1].bio_enter, latency |-> ring[1].latency,
                       io_direction |-> ring[1].io.direction]
    <3>1. row \in BlkRows BY <1>7, SessionAssumption DEF RqRecords, BlkRows
    <3>2. event_rows' = Append(event_rows, row) \/ event_rows' = event_rows BY <1>7 DEF ProxyRqTrace
    <3>3. event_rows \in Seq(BlkRows) BY <1>5, <2>1 DEF KeptOK, BlkKept
    <3> HIDE DEF row
    <3> QED BY <3>1, <3>2, <3>3
  <2>4. recv_data' \in Seq(Sectors)
    <3>1. ring[1].io \in Ios BY <1>7 DEF RqRecords
    <3>2. recv_data \in Seq(Sectors) BY <1>5, <2>1 DEF KeptOK, BlkKept
    <3>3. ToHeatmap(ring[1]) \/ recv_data' = recv_data BY <1>7 DEF ProxyRqTrace
    <3> QED BY <3>1, <3>2, <3>3, OneMoreSector
  <2> QED BY <1>1, <1>4, <1>5, <2>1, <2>2, <2>3, <2>4 DEF ModeInv, OpsAgree, KeptOK, BlkKept
<1>8. CASE ring[1] \in DioRecords /\ ProxyDio(ring[1])
  <2>1. /\ ring[1].end \in Nat /\ ring[1].call.type \in {"READ", "WRITE"}
        /\ committed' = [committed EXCEPT !.series = Append(@, ring[1].end)]
        /\ ops' = [ops EXCEPT ![ring[1].call.type] = @ + 1]
        /\ file_op' = [file_op EXCEPT ![ring[1].call.filename][ring[1].call.type] = @ + 1]
        /\ ring[1].call.filename \in Files
        /\ UNCHANGED <<other_rows, hctx_trace, recv_data>>
    BY <1>8, DioMemory
  <2>2. committed'.series = Append(committed.series, ring[1].end) /\ committed.series \in Seq(Nat)
    BY <1>2, <2>1
  <2>3. Len(committed'.series) = Len(committed.series) + 1 /\ Len(committed.series) \in Nat
    BY <2>1, <2>2
  <2>4. OpsAgree'
    <3>1. ops'["READ"] + ops'["WRITE"] = Len(committed'.series) BY <1>2, <1>5, <2>1, <2>3, SMTT(30) DEF OpsAgree
    <3>2. \A d \in {"READ", "WRITE"} :
            ops[d] \in Nat /\ ops'[d] = IF d = ring[1].call.type THEN ops[d] + 1 ELSE ops[d]
      BY <1>2, <2>1
    <3>3. \A f \in Files, d \in {"READ", "WRITE"} :
            /\ file_op[f][d] \in Nat
            /\ file_op'[f][d] = IF f = ring[1].call.filename /\ d = ring[1].call.type
                                  THEN file_op[f][d] + 1 ELSE file_op[f][d]
      BY <1>2, <2>1
    <3>4. \A f \in Files, d \in {"READ", "WRITE"} : file_op[f][d] <= ops[d] BY <1>5 DEF OpsAgree
    <3> QED BY <3>1, <3>2, <3>3, <3>4 DEF OpsAgree
  <2>5. Mode # "blk" BY <1>3, <1>8 DEF DioRecords, KindsOf
  <2> DEFINE row == [uid |-> ring[1].call.uid, end_dio_io |-> ring[1].end]
             meta == [filename |-> ring[1].call.filename]
  <2>6. row \in DioRows /\ meta \in MetaRows BY <1>8, <2>1 DEF DioRecords, DioRows, MetaRows
  <2>7. \/ event_rows' = Append(event_rows, row) /\ meta_rows' = Append(meta_rows, meta)
        \/ event_rows' = event_rows /\ meta_rows' = meta_rows
    BY <1>8 DEF ProxyDio
  <2> HIDE DEF row, meta
  <2>8. /\ event_rows' \in Seq(DioRows) /\ meta_rows' \in Seq(MetaRows)
        /\ Len(event_rows') = Len(meta_rows') /\ Len(event_rows') <= Len(event_rows) + 1
        /\ Len(event_rows) \in Nat /\ Len(event_rows') \in Nat
    <3>1. /\ event_rows \in Seq(DioRows) /\ meta_rows \in Seq(MetaRows)
          /\ Len(event_rows) = Len(meta_rows)
      BY <1>5, <2>5 DEF KeptOK, DioKept
    <3>2. CASE event_rows' = Append(event_rows, row) /\ meta_rows' = Append(meta_rows, meta)
      BY <2>6, <3>1, <3>2
    <3>3. CASE event_rows' = event_rows /\ meta_rows' = meta_rows BY <3>1, <3>3
    <3> QED BY <2>7, <3>2, <3>3
  <2>9. Len(event_rows') <= Len(committed'.series) BY <1>5, <2>3, <2>5, <2>8 DEF KeptOK, DioKept
  <2> QED BY <1>1, <1>4, <1>5, <2>1, <2>4, <2>5, <2>8, <2>9 DEF ModeInv, KeptOK, DioKept
<1>9. CASE ring[1] \in HctxRecords /\ ProxyHctx(ring[1])
  <2>1. Mode = "info" BY <1>3, <1>9, Modes DEF HctxRecords, KindsOf
  <2>2. UNCHANGED <<logged, series, ops, file_op, recv_data>> /\ committed'.series = committed.series
    BY <1>2, <1>9 DEF ProxyHctx
  <2> QED BY <1>1, <1>4, <1>5, <2>1, <2>2 DEF ModeInv, OpsAgree, KeptOK, DioKept, logged
<1>10. CASE ring[1] \in RqInfoRecords /\ ProxyRqInfo(ring[1])
  <2>1. Mode = "info" BY <1>3, <1>10, Modes DEF RqInfoRecords, KindsOf
  <2>2. UNCHANGED <<event_rows, meta_rows, series, hctx_trace, ops, file_op, committed>>
    BY <1>10 DEF ProxyRqInfo
  <2>3. other_rows' \in Seq([uid : Uids])
    <3>1. [uid |-> ring[1].uid] \in [uid : Uids] BY <1>10 DEF RqInfoRecords
    <3> QED BY <1>5, <1>10, <2>1, <3>1 DEF KeptOK, DioKept, ProxyRqInfo
  <2>4. recv_data' \in Seq(Sectors)
    <3>1. ring[1].io \in Ios BY <1>10 DEF RqInfoRecords
    <3> QED BY <1>5, <1>10, <2>1, <3>1, OneMoreSector DEF KeptOK, DioKept, ProxyRqInfo
  <2> QED BY <1>1, <1>4, <1>5, <2>1, <2>2, <2>3, <2>4 DEF ModeInv, OpsAgree, KeptOK, DioKept
<1> QED BY <1>6, <1>7, <1>8, <1>9, <1>10, TakeOne

LEMMA MainKeepsMode ==
  ASSUME ModeInv, TypeInv,
         ReadConfig \/ Load \/ Wake \/ Leave \/ Drained \/ Release \/ Process \/ SigInt \/ Tick
           \/ UNCHANGED vars
  PROVE  ModeInv'
<1>1. UNCHANGED <<cpu, ring, logged, memory>>
  BY DEF ReadConfig, Load, Wake, Leave, Drained, WhileNotExiting, Release, Process, SigInt, Tick, Goto, traffic, vars, memory, logged
<1>2. OpsAgree' BY <1>1 DEF ModeInv, OpsAgree, memory
<1>3. CASE ReadConfig
  <2>1. Fresh BY <1>3 DEF ReadConfig, ModeInv
  <2>2. Fresh' BY <1>1, <2>1 DEF Fresh, memory, logged
  <2>3. KindsOK' BY <2>2, Modes DEF Fresh, KindsOK, KindsOf, Idle, Mode
  <2>4. KeptOK' BY <2>2 DEF Fresh, KeptOK, BlkKept, DioKept
  <2> QED BY <1>2, <2>2, <2>3, <2>4 DEF ModeInv
<1>4. CASE \/ Load \/ Wake \/ Leave \/ Drained \/ Release \/ Process \/ SigInt \/ Tick
           \/ UNCHANGED vars
  <2>1. UNCHANGED Mode
    BY <1>4 DEF Load, Wake, Leave, Drained, WhileNotExiting, Release, Process, SigInt, Tick, vars, Goto, main, Mode
  <2>2. pc' \in {"read_config", "load"} => pc \in {"read_config", "load"}
    BY <1>4 DEF Load, Wake, Leave, Drained, WhileNotExiting, Release, Process, SigInt, Tick, vars, Goto, main
  <2>3. KindsOK' /\ KeptOK'
    BY <1>1, <2>1 DEF ModeInv, KindsOK, KeptOK, BlkKept, DioKept, memory, logged
  <2>4. Fresh => Fresh' BY <1>1 DEF Fresh, memory, logged
  <2> QED BY <1>2, <2>2, <2>3, <2>4 DEF ModeInv
<1> QED BY <1>3, <1>4

THEOREM ModeInvariant == Spec => []ModeInv
<1>1. Init => ModeInv
  <2> SUFFICES ASSUME Init PROVE ModeInv OBVIOUS
  <2>1. Fresh BY DEF Init, Fresh
  <2>2. OpsAgree BY DEF Init, OpsAgree
  <2> QED BY <2>1, <2>2, FreshIsKept DEF ModeInv
<1>2. ModeInv /\ TypeInv /\ [Next]_vars => ModeInv'
  BY StepKinds, ProbeKeepsMode, TakeKeepsMode, MainKeepsMode
<1> QED BY <1>1, <1>2, TypeInvariant, PTL DEF Spec

(* The counter by process and the throughput series agree, and no level    *)
(* has more rows than they count (OpsCountEveryIo), for any traffic.       *)
THEOREM EveryIoIsCounted == Spec => []OpsCountEveryIo
<1>1. ModeInv => OpsCountEveryIo BY DEF ModeInv, OpsAgree, KeptOK, DioKept, OpsCountEveryIo
<1> QED BY <1>1, ModeInvariant, PTL

-----------------------------------------------------------------------------
(* What the configuration made of the environment, and where the end of    *)
(* main() stands: with what the analysis computed, or crashed before it.   *)
Kept ==
  /\ series.valid /\ hctx_trace.state.valid
  /\ recv_data # <<>> => Heatmap(recv_data, 8 * env.heatmap_row).valid

Analysis ==
  CASE Mode = "blk" -> ProcessBlkTraceLog(env.interval, event_rows, other_rows)
    [] Mode = "simple" -> ProcessDioSimple(event_rows, meta_rows)
    [] Mode = "info" -> ProcessDioInfo(event_rows, meta_rows, other_rows)

EndInv ==
  /\ pc \notin {"read_config", "fatal"} => env = Env(config)
  /\ pc = "done" => dumped = Analysis /\ dumped.valid
  /\ pc = "crashed" => ~Kept \/ (dumped = Analysis /\ ~dumped.valid)

LEMMA QuietEnd ==
  ASSUME EndInv, UNCHANGED <<config, env, pc, memory, logged, dumped>> PROVE EndInv'
<1>1. UNCHANGED <<Kept, Analysis>> BY DEF Kept, Analysis, Mode, memory, logged
<1> QED BY <1>1 DEF EndInv

THEOREM EndInvariant == Spec => []EndInv
<1>1. Init => EndInv BY DEF Init, EndInv
<1>2. EndInv /\ [Next]_vars => EndInv'
  <2> SUFFICES ASSUME EndInv, [Next]_vars PROVE EndInv' OBVIOUS
  <2>1. CASE Take
    <3>1. pc = "drain" /\ pc' \in {"drain", "fatal"} /\ UNCHANGED <<config, env>> BY <2>1 DEF Take
    <3> QED BY <3>1 DEF EndInv
  <2>2. CASE \E c \in Cpus : Probe(c)
    <3>1. UNCHANGED <<main, memory, logged, dumped>>
      BY <2>2 DEF Probe, BioEnterReserve, BioEnterSubmit, AccountIoDone, DioComplete, HctxSeen,
                  RqInfo, Emit, BeginOne, Begin
    <3> QED BY <3>1, QuietEnd DEF main
  <2>3. CASE ReadConfig BY <2>3 DEF ReadConfig, EndInv
  <2>4. CASE Load \/ Wake \/ Leave \/ Drained 
    BY <2>4 DEF Load, Wake, Leave, Drained, WhileNotExiting, Goto, EndInv
  <2>5. CASE Release
    <3>1. UNCHANGED <<config, env, memory, logged, Kept>>
      BY <2>5 DEF Release, Goto, Kept, memory
    <3>2. pc = "release" /\ pc' = IF Kept THEN "process" ELSE "crashed"
      BY <2>5 DEF Release, Goto, Kept
    <3> QED BY <3>1, <3>2 DEF EndInv
  <2>6. CASE Process
    <3>1. UNCHANGED <<config, env, memory, logged, Analysis>>
      BY <2>6 DEF Process, Analysis, Mode, logged
    <3>2. pc = "process" /\ dumped' = Analysis /\ pc' = IF dumped'.valid THEN "done" ELSE "crashed"
      BY <2>6 DEF Process, Analysis
    <3> QED BY <3>1, <3>2 DEF EndInv
  <2>7. CASE SigInt \/ Tick \/ UNCHANGED vars
    BY <2>7, QuietEnd DEF SigInt, Tick, vars, main, memory, logged
  <2> QED BY <2>1, <2>2, <2>3, <2>4, <2>5, <2>6, <2>7, StepKinds
<1> QED BY <1>1, <1>2, PTL DEF Spec

-----------------------------------------------------------------------------
(* The heatmap dumped on release (HeatmapComplete), for any rows and       *)
(* sectors: every sector committed is in a bucket unless the width is cut  *)
(* to 0, no count is lost unless their sum does not fit an int, and a      *)
(* width that fits one makes no more buckets than eight a row.             *)
LEMMA RowsAreSmall ==
  ASSUME EndInv, TypeInv, pc \notin {"read_config", "fatal"}
  PROVE  env.heatmap_row \in Nat
<1>1. env = Env(config) BY DEF EndInv
<1>2. Env(config).heatmap_row = config.heatmap_row BY DEF Env
<1> QED BY <1>1, <1>2, SessionAssumption DEF TypeInv

LEMMA HeatmapIsComplete ==
  ASSUME recv_data \in Seq(Sectors), recv_data # <<>>, env.heatmap_row \in Nat, HeatmapSized
  PROVE  LET map == Heatmap(recv_data, 8 * env.heatmap_row)
             stats == Total(Column(recv_data, LAMBDA r : r.stats))
         IN /\ map.valid
            /\ 2 * stats < IntSize => Total(map.bucket) = stats
            /\ 2 * SectorsPerBucket < IntSize => Cardinality(DOMAIN map.bucket) <= 8 * env.heatmap_row
<1> DEFINE partition == 8 * env.heatmap_row
<1>1. partition \in Nat /\ partition > 0 /\ SectorsPerBucket % IntSize # 0 BY DEF HeatmapSized
<1>2. SectorsPerBucket = (Max(SectorsKept) - Min(SectorsKept)) \div partition + HeatBias
  BY DEF SectorsPerBucket
<1>3. SectorsKept = {r.sector : r \in Elements(recv_data)} BY DEF SectorsKept
<1>4. recv_data \in Seq([sector : 0..(WordSize \div 2 - 1), stats : Nat]) BY DEF Sectors
<1> HIDE DEF partition
<1> QED BY <1>1, <1>2, <1>3, <1>4, HeatmapHoldsAll DEF partition

THEOREM EverySectorIsShown == Spec => []HeatmapComplete
<1>1. ModeInv /\ EndInv /\ TypeInv => HeatmapComplete
  <2> SUFFICES ASSUME ModeInv, EndInv, TypeInv, pc = "release", recv_data # <<>>, HeatmapSized
               PROVE  LET map == Heatmap(recv_data, 8 * env.heatmap_row)
                          stats == Total(Column(recv_data, LAMBDA r : r.stats))
                      IN /\ map.valid
                         /\ 2 * stats < IntSize => Total(map.bucket) = stats
                         /\ 2 * SectorsPerBucket < IntSize =>
                              Cardinality(DOMAIN map.bucket) <= 8 * env.heatmap_row
    BY DEF HeatmapComplete
  <2>1. env.heatmap_row \in Nat BY RowsAreSmall
  <2>2. recv_data \in Seq(Sectors) BY DEF ModeInv, KeptOK, BlkKept, DioKept
  <2> QED BY <2>1, <2>2, HeatmapIsComplete
<1> QED BY <1>1, ModeInvariant, EndInvariant, TypeInvariant, PTL

(* The rows of the block layer and their latencies at the end.             *)
LEMMA ReportIsOfBlkRows ==
  ASSUME ModeInv, EndInv, Reported
  PROVE  /\ Mode = "blk" /\ BlkKept /\ env.interval = IntervalOf(config.pmc_inv)
         /\ dumped = ProcessBlkTraceLog(env.interval, event_rows, other_rows) /\ dumped.valid
<1>1. dumped = Analysis /\ dumped.valid /\ env = Env(config) BY DEF EndInv, Reported
<1>2. ProcessDioSimple(event_rows, meta_rows).kind = "simple" BY DEF ProcessDioSimple
<1>3. ProcessDioInfo(event_rows, meta_rows, other_rows).kind = "info" BY DEF ProcessDioInfo
<1>4. Mode = "blk" BY <1>1, <1>2, <1>3, Modes DEF Analysis, Reported
<1> QED BY <1>1, <1>4 DEF Analysis, Env, ModeInv, KeptOK

LEMMA LatenciesAreSmall ==
  ASSUME BlkKept
  PROVE  LET latency == Column(event_rows, LAMBDA r : r.latency)
         IN /\ latency \in Seq(Nat) /\ Len(latency) = Len(event_rows)
            /\ \A k \in 1..Len(latency) : latency[k] < WordSize \div 2
            /\ event_rows # <<>> => latency # <<>>
<1> DEFINE n == Len(event_rows)
           latency == Column(event_rows, LAMBDA r : r.latency)
<1>1. n \in Nat /\ \A k \in 1..n : event_rows[k] \in BlkRows
  BY LenProperties, ElementOfSeq DEF BlkKept
<1>2. LastTime \in Int /\ WordSize \div 2 \in Int /\ LastTime < WordSize \div 2 BY LastTimeBound
<1>3. \A k \in 1..n : event_rows[k].latency \in Nat /\ event_rows[k].latency <= LastTime
  BY <1>1, <1>2 DEF BlkRows
<1>4. latency = [k \in 1..n |-> event_rows[k].latency] BY DEF Column
<1>5. latency \in Seq(Nat) /\ Len(latency) = n BY <1>1, <1>3, <1>4
<1>6. \A k \in 1..n : latency[k] < WordSize \div 2 BY <1>2, <1>3, <1>4
<1>7. event_rows # <<>> => n # 0 BY DEF BlkKept
<1> QED BY <1>5, <1>6, <1>7

(* Every row of a session is in one bucket of the distribution, the        *)
(* fastest in the first (DistributionComplete).                            *)
THEOREM EveryRowIsInTheDistribution == Spec => []DistributionComplete
<1>1. ModeInv /\ EndInv => DistributionComplete
  <2> SUFFICES ASSUME ModeInv, EndInv, Reported
               PROVE  Total(dumped.dis) = Len(event_rows) /\ dumped.dis[0] > 0
    BY DEF DistributionComplete
  <2> DEFINE latency == Column(event_rows, LAMBDA r : r.latency)
  <2>1. BlkKept /\ dumped = ProcessBlkTraceLog(env.interval, event_rows, other_rows) /\ dumped.valid
    BY ReportIsOfBlkRows
  <2>2. dumped.dis = GetDis(latency).distribution BY <2>1 DEF ProcessBlkTraceLog
  <2>3. event_rows # <<>>
    <3>1. SUFFICES ASSUME event_rows = <<>> PROVE FALSE OBVIOUS
    <3>2. BlkEnd(event_rows) = <<>> BY <3>1 DEF BlkEnd
    <3>3. \A io_types : ~RwRate(env.interval, BlkEnd(event_rows), io_types).valid BY <3>2 DEF RwRate
    <3> QED BY <2>1, <3>3 DEF ProcessBlkTraceLog
  <2>4. latency \in Seq(Nat) /\ Len(latency) = Len(event_rows) /\ latency # <<>>
        /\ \A k \in 1..Len(latency) : latency[k] < WordSize \div 2
    BY <2>1, <2>3, LatenciesAreSmall
  <2> HIDE DEF latency
  <2> QED BY <2>2, <2>4, DistributionHoldsAll
<1> QED BY <1>1, ModeInvariant, EndInvariant, PTL

-----------------------------------------------------------------------------
(* The rows of the block layer as the analysis sees them: in an order of   *)
(* their ends, with what is committed for each.                            *)
EndKey == [k \in 1..Len(event_rows) |-> EndOf(k)]
Latencies == Column(event_rows, LAMBDA r : r.latency)
Directions == Column(event_rows, LAMBDA r : r.io_direction)
PmcCommits == [k \in 1..Len(Ends) |-> [tp |-> Ends[k].tp, x |-> 1]]
AvgCommits == [k \in 1..Len(Ends) |-> [tp |-> Ends[k].tp, x |-> Latencies[Ends[k].row]]]
OrdersEnds(p, t) ==
  /\ SortsRows(p, Len(event_rows), EndKey)
  /\ t \in [1..Len(event_rows) -> Nat] /\ \A k \in 1..Len(event_rows) : t[k] = EndKey[p[k]]
  /\ EndsAre(Ends, t, p, Len(event_rows))

LEMMA RowFacts ==
  ASSUME BlkKept
  PROVE  /\ Len(event_rows) \in Nat /\ (event_rows # <<>> => Len(event_rows) > 0)
         /\ EndKey \in [1..Len(event_rows) -> Nat]
         /\ \A k \in 1..Len(event_rows) :
              /\ event_rows[k].latency \in Nat /\ event_rows[k].io_direction \in {"READ", "WRITE"}
              /\ EndKey[k] = EndOf(k) /\ EndKey[k] <= LastTime /\ EndKey[k] < WordSize
<1>1. /\ Len(event_rows) \in Nat /\ (event_rows # <<>> => Len(event_rows) > 0)
      /\ \A k \in 1..Len(event_rows) : event_rows[k] \in BlkRows
  BY LenProperties, ElementOfSeq, EmptySeq DEF BlkKept
<1>2. LastTime \in Int /\ WordSize \in Nat /\ LastTime < WordSize
  BY LastTimeBound, TimeSeriesAssumption
<1>3. \A k \in 1..Len(event_rows) :
        /\ event_rows[k].latency \in Nat /\ event_rows[k].io_direction \in {"READ", "WRITE"}
        /\ EndOf(k) \in Nat /\ EndOf(k) <= LastTime
  BY <1>1 DEF BlkRows, EndOf
<1> QED BY <1>1, <1>2, <1>3 DEF EndKey

LEMMA EndsInOrder == ASSUME BlkKept PROVE \E p, t : OrdersEnds(p, t)
<1> DEFINE n == Len(event_rows)
<1>1. n \in Nat /\ EndKey \in [1..n -> Nat]
      /\ \A k \in 1..n : EndKey[k] = EndOf(k) /\ EndKey[k] < WordSize
  BY RowFacts
<1>2. \A k \in 1..n : EndKey[k] = event_rows[k].bio_enter + event_rows[k].latency
                      /\ EndKey[k] < WordSize
  BY <1>1 DEF EndOf
<1> HIDE DEF n
<1>3. PICK p : /\ SortsRows(p, n, EndKey)
               /\ BlkEnd(event_rows) = [k \in 1..n |-> [tp |-> EndKey[p[k]], row |-> p[k]]]
  BY <1>1, <1>2, BlkEndSorts, ZenonT(40) DEF n
<1> DEFINE t == [k \in 1..n |-> EndKey[p[k]]]
<1>4. p \in [1..n -> 1..n] BY <1>3 DEF SortsRows
<1>5. t \in [1..n -> Nat] BY <1>1, <1>4
<1>6. EndsAre(Ends, t, p, n) BY <1>3 DEF EndsAre, Ends
<1>7. \A k \in 1..n : t[k] = EndKey[p[k]] OBVIOUS
<1> HIDE DEF t
<1> QED BY <1>3, <1>5, <1>6, <1>7 DEF OrdersEnds, n

LEMMA EndCommits ==
  ASSUME BlkKept, NEW p, NEW t, OrdersEnds(p, t)
  PROVE  /\ PmcCommits \in Seq(Commits) /\ AvgCommits \in Seq(Commits)
         /\ Len(PmcCommits) = Len(event_rows) /\ Len(AvgCommits) = Len(event_rows)
         /\ TimesIn(PmcCommits) = EndTimes /\ TimesIn(AvgCommits) = EndTimes
         /\ EndTimes \in Seq(Nat) /\ Len(EndTimes) = Len(event_rows)
         /\ \A k \in 1..Len(event_rows) :
              /\ EndTimes[k] = t[k] /\ PmcCommits[k] = [tp |-> t[k], x |-> 1]
              /\ AvgCommits[k] = [tp |-> t[k], x |-> event_rows[p[k]].latency]
<1> DEFINE n == Len(event_rows)
<1>1. n \in Nat /\ p \in [1..n -> 1..n] /\ t \in [1..n -> Nat] /\ EndsAre(Ends, t, p, n)
  BY RowFacts DEF OrdersEnds, SortsRows
<1>2. \A k \in 1..n : Latencies[k] = event_rows[k].latency /\ Latencies[k] \in Nat
  BY RowFacts DEF Latencies, Column
<1> HIDE DEF n
<1>3. Len(Ends) = n /\ \A k \in 1..n : Ends[k].tp = t[k] /\ Ends[k].row = p[k]
  BY <1>1 DEF EndsAre
<1>4. PmcCommits = [k \in 1..n |-> [tp |-> t[k], x |-> 1]] BY <1>3 DEF PmcCommits
<1>5. AvgCommits = [k \in 1..n |-> [tp |-> t[k], x |-> event_rows[p[k]].latency]]
  BY <1>1, <1>2, <1>3 DEF AvgCommits
<1>6. EndTimes = [k \in 1..n |-> t[k]] BY <1>3 DEF EndTimes
<1>7. \A k \in 1..n : /\ [tp |-> t[k], x |-> 1] \in Commits
                      /\ [tp |-> t[k], x |-> event_rows[p[k]].latency] \in Commits
  <2> TAKE k \in 1..n
  <2>1. t[k] \in Nat /\ p[k] \in 1..n BY <1>1
  <2>2. event_rows[p[k]].latency \in Nat BY <1>2, <2>1
  <2> QED BY <2>1, <2>2 DEF Commits
<1>8. PmcCommits \in Seq(Commits) /\ Len(PmcCommits) = n
  <2>1. PmcCommits \in [1..n -> Commits] BY <1>4, <1>7
  <2> QED BY <1>1, <2>1, FunctionIsSeq
<1>9. AvgCommits \in Seq(Commits) /\ Len(AvgCommits) = n
  <2>1. AvgCommits \in [1..n -> Commits] BY <1>5, <1>7
  <2> QED BY <1>1, <2>1, FunctionIsSeq
<1>10. EndTimes \in Seq(Nat) /\ Len(EndTimes) = n BY <1>1, <1>6
<1>11. TimesIn(PmcCommits) = EndTimes /\ TimesIn(AvgCommits) = EndTimes
  <2>1. \A k \in 1..n : PmcCommits[k].tp = t[k] /\ AvgCommits[k].tp = t[k] BY <1>4, <1>5
  <2> QED BY <1>6, <1>8, <1>9, <2>1 DEF TimesIn
<1> QED BY <1>4, <1>5, <1>6, <1>8, <1>9, <1>10, <1>11 DEF n

LEMMA TypedEnds ==
  ASSUME BlkKept, event_rows # <<>>, NEW p, NEW t, OrdersEnds(p, t), NEW type,
         NEW D, RowsAre(D, p, Len(event_rows), Directions, type)
  PROVE  \E e : IsEnumeration(e, D) /\ Selects(TypedTimes(type), t, e, Cardinality(D))
<1>1. Len(event_rows) \in Nat /\ Len(event_rows) > 0 BY RowFacts
<1>2. t \in [1..Len(event_rows) -> Nat] /\ EndsAre(Ends, t, p, Len(event_rows)) BY DEF OrdersEnds
<1>3. \E e : /\ IsEnumeration(e, D)
             /\ Selects(TimesOf(Ends, Directions, type), t, e, Cardinality(D))
  BY <1>1, <1>2, TimesOfOneType
<1> QED BY <1>3 DEF TypedTimes, Directions

LEMMA BioTimesTyped ==
  ASSUME BlkKept, other_rows # <<>>, EndTimes \in Seq(Nat)
  PROVE  /\ BioTimes \in Seq(Nat) /\ Len(BioTimes) > 0 /\ BioTimes # <<>>
         /\ MergedTimes \in Seq(Nat) /\ Len(MergedTimes) > 0
<1>1. Len(other_rows) \in Nat /\ Len(other_rows) > 0
      /\ \A k \in 1..Len(other_rows) : other_rows[k] \in [tp : Times]
  <2> DEFINE T == [tp : Times]
  <2>1. other_rows \in Seq(T) BY DEF BlkKept
  <2> HIDE DEF T
  <2>2. Len(other_rows) \in Nat /\ \A k \in 1..Len(other_rows) : other_rows[k] \in T
    BY <2>1, LenProperties, ElementOfSeq
  <2>3. Len(other_rows) # 0 BY <2>1, EmptySeq
  <2> QED BY <2>2, <2>3 DEF T
<1>2. \A k \in 1..Len(other_rows) : other_rows[k].tp \in Nat
  BY <1>1, SessionAssumption DEF Times
<1>3. BioTimes = [k \in 1..Len(other_rows) |-> other_rows[k].tp] BY DEF BioTimes, Column
<1>4. BioTimes \in Seq(Nat) /\ Len(BioTimes) = Len(other_rows) BY <1>1, <1>2, <1>3
<1>5. <<BioTimes[1]>> \in Seq(Nat) /\ Len(<<BioTimes[1]>>) = 1 BY <1>1, <1>4
<1>6. MergedTimes \in Seq(Nat) /\ Len(MergedTimes) = 1 + Len(EndTimes)
  BY <1>5, ConcatProperties DEF MergedTimes
<1>7. Len(EndTimes) \in Nat BY LenProperties
<1> QED BY <1>1, <1>4, <1>6, <1>7, EmptySeq

-----------------------------------------------------------------------------
(* With steady times the analysis of the block layer stays inside.         *)
LEMMA CountedIsInside ==
  ASSUME NEW interval \in Nat, NEW times \in Seq(Nat), Len(times) > 0, Steady(interval, times)
  PROVE  Counted(interval, times).valid /\ Counted(interval, times).size = SpanOf(interval, times)
<1> DEFINE commits == [k \in 1..Len(times) |-> [tp |-> times[k], x |-> 1]]
<1>1. commits \in Seq(Commits) /\ Len(commits) = Len(times) /\ TimesIn(commits) = times
  BY CountedIsTyped
<1>2. Counted(interval, times) = CommitAll(interval, commits) BY DEF Counted
<1> HIDE DEF commits
<1>3. commits # <<>> BY <1>1
<1>4. CommitAll(interval, commits).valid BY <1>1, SteadyIsValid
<1>5. CommitAll(interval, commits).size = SpanOf(interval, times) BY <1>1, <1>3, SteadySize
<1> QED BY <1>2, <1>4, <1>5

LEMMA BlkIsDefined ==
  ASSUME BlkKept, event_rows # <<>>, BlkSteady, env.interval \in Nat
  PROVE  ProcessBlkTraceLog(env.interval, event_rows, other_rows).valid
<1> DEFINE i == env.interval
<1>1. PICK p, t : OrdersEnds(p, t) BY EndsInOrder
<1>2. /\ PmcCommits \in Seq(Commits) /\ AvgCommits \in Seq(Commits)
      /\ TimesIn(PmcCommits) = EndTimes /\ TimesIn(AvgCommits) = EndTimes
      /\ EndTimes \in Seq(Nat) /\ Len(EndTimes) = Len(event_rows)
  BY <1>1, EndCommits
<1>3. /\ other_rows # <<>>
      /\ Steady(i, EndTimes) /\ Steady(i, TypedTimes("READ")) /\ Steady(i, TypedTimes("WRITE"))
      /\ Steady(i, BioTimes) /\ Steady(i, MergedTimes)
  BY DEF BlkSteady
<1>4. GetIoPmc(i, Ends).valid
  <2>1. CommitAll(i, PmcCommits).valid BY <1>2, <1>3, SteadyIsValid
  <2> QED BY <2>1 DEF GetIoPmc, PmcCommits
<1>5. GetAvgSeq(i, Latencies, Ends).valid
  <2>1. CommitAll(i, AvgCommits).valid BY <1>2, <1>3, SteadyIsValid
  <2> QED BY <2>1 DEF GetAvgSeq, AvgCommits
<1>6. GetDis(Latencies).valid
  <2>1. /\ Latencies \in Seq(Nat) /\ Latencies # <<>>
        /\ \A k \in 1..Len(Latencies) : Latencies[k] < WordSize \div 2
    BY LatenciesAreSmall DEF Latencies
  <2> QED BY <2>1, DistributionHoldsAll
<1>7. Len(event_rows) \in Nat /\ Len(event_rows) > 0 BY RowFacts
<1>8. \A type \in {"READ", "WRITE"} : Counted(i, TimesOf(Ends, Directions, type)).valid
  <2> TAKE type \in {"READ", "WRITE"}
  <2> DEFINE D == {k \in 1..Len(event_rows) : Directions[p[k]] = type}
  <2>1. RowsAre(D, p, Len(event_rows), Directions, type) BY DEF RowsAre
  <2>2. D \in SUBSET (1..Len(event_rows)) OBVIOUS
  <2> HIDE DEF D
  <2>3. PICK e : IsEnumeration(e, D) /\ Selects(TypedTimes(type), t, e, Cardinality(D))
    BY <1>1, <2>1, TypedEnds
  <2>4. TypedTimes(type) \in Seq(Nat) /\ Len(TypedTimes(type)) > 0
    BY <2>3 DEF Selects, IsEnumeration
  <2>5. Counted(i, TypedTimes(type)).valid BY <1>3, <2>4, CountedIsInside
  <2> QED BY <2>5 DEF TypedTimes, Directions
<1>9. Ends # <<>>
  <2>1. Len(Ends) = Len(event_rows) BY <1>1, <1>7 DEF OrdersEnds, EndsAre
  <2>2. Len(<<>>) = 0 BY EmptySeq
  <2> QED BY <1>7, <2>1, <2>2
<1>10. RwRate(i, Ends, Directions).valid BY <1>8, <1>9 DEF RwRate
<1>11. /\ BioTimes \in Seq(Nat) /\ Len(BioTimes) > 0 /\ BioTimes # <<>>
       /\ MergedTimes \in Seq(Nat) /\ Len(MergedTimes) > 0
  BY <1>2, <1>3, BioTimesTyped
<1>12. MergeRate(i, BioTimes, Ends).valid
  <2>1. Counted(i, BioTimes).valid /\ Counted(i, BioTimes).size = SpanOf(i, BioTimes)
    BY <1>3, <1>11, CountedIsInside
  <2>2. Counted(i, MergedTimes).valid /\ Counted(i, MergedTimes).size = SpanOf(i, MergedTimes)
    BY <1>3, <1>11, CountedIsInside
  <2>3. SpanOf(i, MergedTimes) <= SpanOf(i, BioTimes) BY DEF BlkSteady, Span, SpanOf
  <2> QED BY <1>11, <2>1, <2>2, <2>3 DEF MergeRate, MergedTimes, EndTimes
<1> QED BY <1>4, <1>5, <1>6, <1>10, <1>12
        DEF ProcessBlkTraceLog, Ends, Latencies, Directions, BioTimes

-----------------------------------------------------------------------------
(* The series of the hardware queue stays within its vector while, above   *)
(* being steady, no time falls just behind the end.  A time committed      *)
(* again has its slot already.                                             *)
OffSize(slot) == slot \notin {SizeAfter[j] : j \in 0..slot}
OffSizes(interval, times) ==
  \A k \in 1..Len(times) : OffSize(TrueSlot(interval, times[1], times[k]))

HctxFits(s, interval, times) ==
  /\ Fits(s, interval, times)
  /\ \A k \in 1..Len(times) : TrueSlot(interval, times[1], times[k]) < s.size
  /\ \E p \in Nat : s.size = SizeAfter[p]

HctxInv ==
  /\ pc \in {"read_config", "load"} => committed.hctx = <<>> /\ hctx_trace.state = NewSeries
  /\ Steady(env.interval, committed.hctx) /\ OffSizes(env.interval, committed.hctx) =>
       HctxFits(hctx_trace.state, env.interval, committed.hctx)

LEMMA NewHctxFits == ASSUME NEW interval PROVE HctxFits(NewSeries, interval, <<>>)
<1>1. 0 \in Nat /\ NewSeries.size = SizeAfter[0] BY SizesDouble DEF NewSeries
<1>2. 1..Len(<<>>) = {} OBVIOUS
<1> QED BY <1>1, <1>2 DEF HctxFits, Fits, NewSeries

LEMMA OffSizesPrefix ==
  ASSUME NEW interval, NEW times \in Seq(Nat), NEW tp \in Nat, OffSizes(interval, Append(times, tp))
  PROVE  /\ OffSizes(interval, times)
         /\ OffSize(TrueSlot(interval, IF times = <<>> THEN tp ELSE times[1], tp))
<1> DEFINE all == Append(times, tp)
<1>1. /\ Len(all) = Len(times) + 1 /\ Len(times) \in Nat /\ all[Len(times) + 1] = tp
      /\ \A k \in 1..Len(times) : all[k] = times[k]
  OBVIOUS
<1>2. \A k \in 1..Len(all) : OffSize(TrueSlot(interval, all[1], all[k])) BY DEF OffSizes
<1>3. times = <<>> <=> Len(times) = 0 OBVIOUS
<1> HIDE DEF all
<1>4. all[1] = IF times = <<>> THEN tp ELSE times[1] BY <1>1, <1>3
<1>5. OffSizes(interval, times)
  <2>1. \A k \in 1..Len(times) : times # <<>> /\ k \in 1..Len(all) BY <1>1, <1>3
  <2> QED BY <1>1, <1>2, <1>4, <2>1 DEF OffSizes
<1>6. Len(times) + 1 \in 1..Len(all) BY <1>1
<1> QED BY <1>1, <1>2, <1>4, <1>5, <1>6

LEMMA HctxSteadyCommit ==
  ASSUME NEW interval \in Nat, NEW times \in Seq(Nat), NEW tp \in Times, NEW s, IsSeries(s),
         Steady(interval, times) /\ OffSizes(interval, times) => HctxFits(s, interval, times),
         Steady(interval, Append(times, tp)), OffSizes(interval, Append(times, tp))
  PROVE  HctxFits(HctxCommit(s, interval, tp, tp, tp), interval, Append(times, tp))
<1> DEFINE first == IF times = <<>> THEN tp ELSE times[1]
           slot == TrueSlot(interval, first, tp)
           c == HctxCommit(s, interval, tp, tp, tp)
<1>0. tp \in Nat BY LastTimeBound DEF Times
<1>1. /\ Steady(interval, times) /\ interval > 0 /\ tp >= first /\ 2 * slot < IntSize
      /\ times # <<>> => slot <= TrueSlot(interval, first, times[Len(times)]) + SeriesSize
  BY <1>0, SteadyPrefix
<1>2. OffSizes(interval, times) /\ OffSize(slot) BY <1>0, OffSizesPrefix
<1>3. HctxFits(s, interval, times) BY <1>1, <1>2
<1>4. PICK p \in Nat : s.size = SizeAfter[p] BY <1>3 DEF HctxFits
<1>5. Fits(s, interval, times) BY <1>3 DEF HctxFits
<1>6. first \in Nat /\ StartOf(s, tp) = first
  <2>1. CASE times = <<>> BY <1>0, <1>5, <2>1 DEF StartOf, Fits
  <2>2. CASE times # <<>>
    <3>1. times[1] \in Nat BY <2>2
    <3> QED BY <1>5, <2>2, <3>1 DEF StartOf, Fits
  <2> QED BY <2>1, <2>2
<1>7. slot \in Nat BY <1>0, <1>1, <1>6, TrueSlotIsNat
<1>8. slot # s.size
  <2>1. SizeAfter[p] > p /\ SizeAfter[p] \in Nat BY <1>4, SizeIsBehind, SizesDouble
  <2>2. slot = SizeAfter[p] => p \in 0..slot BY <1>4, <1>7, <2>1
  <2> HIDE DEF slot
  <2> QED BY <1>2, <1>4, <2>2 DEF OffSize
<1>9. s.size \in Nat /\ slot < s.size + SeriesSize
  <2>0. SeriesSize \in Nat \ {0} /\ s.size \in Nat /\ s.size >= SeriesSize
    BY TimeSeriesAssumption DEF IsSeries
  <2>1. CASE times = <<>>
    <3>1. slot = 0 BY <1>0, <1>1, <2>1 DEF TrueSlot
    <3> QED BY <2>0, <3>1
  <2>2. CASE times # <<>>
    <3>1. times[Len(times)] \in Nat /\ Len(times) \in 1..Len(times) BY <2>2
    <3>2. times[Len(times)] >= first BY <1>1, <2>2, <3>1 DEF Steady
    <3>3. TrueSlot(interval, first, times[Len(times)]) \in Nat
      BY <1>1, <1>6, <3>1, <3>2, TrueSlotIsNat
    <3>4. TrueSlot(interval, first, times[Len(times)]) < s.size BY <1>5, <2>2 DEF Fits
    <3> QED BY <1>1, <1>7, <2>0, <2>2, <3>3, <3>4
  <2> QED BY <2>0, <2>1, <2>2
<1>10. /\ c.valid /\ c.started /\ c.start = first /\ slot < c.size
       /\ c.size = IF slot > s.size THEN 2 * s.size ELSE s.size
  <2>1. s.valid BY <1>5 DEF Fits
  <2> HIDE DEF first
  <2> QED BY <1>0, <1>1, <1>6, <1>8, <1>9, <2>1, HctxCommitInside
<1>11. \A k \in 1..Len(times) : /\ first = times[1]
                                /\ TrueSlot(interval, first, times[k]) \in Nat
                                /\ TrueSlot(interval, first, times[k]) < s.size
  <2> TAKE k \in 1..Len(times)
  <2>1. first = times[1] /\ times[k] \in Nat OBVIOUS
  <2>2. times[k] >= times[1] BY <1>1 DEF Steady
  <2>3. TrueSlot(interval, times[1], times[k]) < s.size BY <1>3 DEF HctxFits
  <2> HIDE DEF first
  <2> QED BY <1>1, <1>6, <2>1, <2>2, <2>3, TrueSlotIsNat
<1>12. /\ Append(times, tp) # <<>> /\ Append(times, tp)[1] = first
       /\ Append(times, tp)[Len(Append(times, tp))] = tp
       /\ \A k \in 1..Len(Append(times, tp)) :
            \/ k \in 1..Len(times) /\ Append(times, tp)[k] = times[k]
            \/ Append(times, tp)[k] = tp
  BY <1>0
<1> HIDE DEF slot, first, c
<1>13. Fits(c, interval, Append(times, tp)) BY <1>10, <1>12 DEF Fits, slot
<1>14. c.size \in Nat /\ c.size >= s.size BY <1>9, <1>10
<1>15. \A k \in 1..Len(Append(times, tp)) :
         TrueSlot(interval, Append(times, tp)[1], Append(times, tp)[k]) < c.size
  <2> TAKE k \in 1..Len(Append(times, tp))
  <2>1. CASE k \in 1..Len(times) /\ Append(times, tp)[k] = times[k]
    <3>1. TrueSlot(interval, first, times[k]) \in Nat /\ TrueSlot(interval, first, times[k]) < s.size
      BY <1>11, <2>1
    <3>2. TrueSlot(interval, first, times[k]) < c.size BY <1>9, <1>14, <3>1
    <3> QED BY <1>12, <2>1, <3>2
  <2>2. CASE Append(times, tp)[k] = tp BY <1>10, <1>12, <2>2 DEF slot
  <2> QED BY <1>12, <2>1, <2>2
<1>16. \E q \in Nat : c.size = SizeAfter[q]
  <2>1. CASE ~(slot > s.size) BY <1>4, <1>10, <2>1
  <2>2. CASE slot > s.size
    <3>1. p + 1 \in Nat /\ c.size = SizeAfter[p + 1] BY <1>4, <1>10, <2>2, SizesDouble
    <3> QED BY <3>1
  <2> QED BY <2>1, <2>2
<1> QED BY <1>13, <1>15, <1>16 DEF HctxFits, c

LEMMA HctxCommitAgain ==
  ASSUME NEW interval \in Nat, NEW times \in Seq(Nat), NEW s, IsSeries(s),
         NEW tp \in Elements(times), Steady(interval, times), HctxFits(s, interval, times)
  PROVE  HctxFits(HctxCommit(s, interval, tp, tp, tp), interval, times)
<1> DEFINE first == times[1]
           slot == TrueSlot(interval, first, tp)
           c == HctxCommit(s, interval, tp, tp, tp)
<1>1. PICK k \in 1..Len(times) : tp = times[k]
  BY DEF Elements
<1>2. times # <<>> /\ tp \in Nat /\ first \in Nat BY <1>1
<1>3. interval > 0 /\ tp >= first /\ 2 * slot < IntSize BY <1>1 DEF Steady
<1>4. slot < s.size BY <1>1 DEF HctxFits
<1>5. s.valid /\ StartOf(s, tp) = first BY <1>2 DEF HctxFits, Fits, StartOf
<1>6. slot \in Nat /\ s.size \in Nat /\ SeriesSize \in Nat
  BY <1>2, <1>3, TrueSlotIsNat, TimeSeriesAssumption DEF IsSeries
<1>7. slot < s.size + SeriesSize /\ slot # s.size /\ ~(slot > s.size) BY <1>4, <1>6
<1>8. c.valid /\ c.started /\ c.start = first /\ c.size = s.size
  <2> HIDE DEF first
  <2>1. c.valid /\ c.started /\ c.start = first
        /\ c.size = IF slot > s.size THEN 2 * s.size ELSE s.size
    BY <1>2, <1>3, <1>5, <1>6, <1>7, HctxCommitInside
  <2> QED BY <1>7, <2>1
<1> HIDE DEF slot, c
<1> QED BY <1>2, <1>8 DEF HctxFits, Fits, c

THEOREM HctxInvariant == Spec => []HctxInv
<1>1. Init => HctxInv BY NewHctxFits DEF Init, HctxInv, NoHctx
<1>2. HctxInv /\ TypeInv /\ [Next]_vars => HctxInv'
  <2> SUFFICES ASSUME HctxInv, TypeInv, [Next]_vars PROVE HctxInv' OBVIOUS
  <2>1. CASE Take
    <3>1. pc' \in {"drain", "fatal"} /\ UNCHANGED env BY <2>1, TakeOne
    <3>2. CASE UNCHANGED hctx_trace /\ committed'.hctx = committed.hctx
      BY <3>1, <3>2 DEF HctxInv
    <3>3. CASE ring[1] \in HctxRecords /\ ProxyHctx(ring[1])
      <4>1. /\ hctx_trace' = HctxCollect(hctx_trace, ring[1].tp)
            /\ committed' = IF hctx_trace.known /\ ring[1].tp \notin Elements(committed.hctx)
                              THEN [committed EXCEPT !.hctx = Append(@, ring[1].tp)] ELSE committed
        BY <3>3 DEF ProxyHctx
      <4>2. /\ committed \in [series : Seq(Nat), hctx : Seq(Times)] /\ env.interval \in Nat
            /\ IsSeries(hctx_trace.state)
            /\ hctx_trace = [known |-> hctx_trace.known, state |-> hctx_trace.state]
        BY DEF TypeInv, MemoryTypes
      <4>3. ring[1].tp \in Times BY <3>3 DEF HctxRecords
      <4>4. CASE ~hctx_trace.known
        <5>1. hctx_trace'.state = hctx_trace.state /\ committed' = committed
          BY <4>1, <4>2, <4>4 DEF HctxCollect
        <5> QED BY <3>1, <5>1 DEF HctxInv
      <4>5. committed.hctx \in Seq(Nat)
        <5>1. committed.hctx \in Seq(Times) BY <4>2
        <5>2. Times \subseteq Nat BY LastTimeBound DEF Times
        <5> QED BY <5>1, <5>2, SeqOfMore
      <4>6. hctx_trace.known =>
              hctx_trace'.state
                = HctxCommit(hctx_trace.state, env.interval, ring[1].tp, ring[1].tp, ring[1].tp)
        BY <4>1, <4>2 DEF HctxCollect
      <4>7. CASE hctx_trace.known /\ ring[1].tp \notin Elements(committed.hctx)
        <5>1. committed'.hctx = Append(committed.hctx, ring[1].tp) BY <4>1, <4>2, <4>7
        <5> QED BY <3>1, <4>2, <4>3, <4>5, <4>6, <4>7, <5>1, HctxSteadyCommit DEF HctxInv
      <4>8. CASE hctx_trace.known /\ ring[1].tp \in Elements(committed.hctx)
        <5>1. committed' = committed BY <4>1, <4>8
        <5> QED BY <3>1, <4>2, <4>5, <4>6, <4>8, <5>1, HctxCommitAgain DEF HctxInv
      <4> QED BY <4>4, <4>7, <4>8
    <3>4. CASE ring[1] \in DioRecords /\ ProxyDio(ring[1])
      <4>1. UNCHANGED hctx_trace /\ committed'.hctx = committed.hctx
        <5>1. committed \in [series : Seq(Nat), hctx : Seq(Times)] BY DEF TypeInv, MemoryTypes
        <5> QED BY <3>4, <5>1 DEF ProxyDio
      <4> QED BY <3>2, <4>1
    <3>5. CASE ProxyBioEnter(ring[1]) \/ ProxyRqTrace(ring[1]) \/ ProxyRqInfo(ring[1])
      BY <3>2, <3>5 DEF ProxyBioEnter, ProxyRqTrace, ProxyRqInfo, memory
    <3> QED BY <2>1, <3>3, <3>4, <3>5, TakeOne
  <2>2. CASE \E c \in Cpus : Probe(c)
    <3>1. UNCHANGED <<main, memory>>
      BY <2>2 DEF Probe, BioEnterReserve, BioEnterSubmit, AccountIoDone, DioComplete, HctxSeen,
                  RqInfo, Emit, BeginOne, Begin
    <3> QED BY <3>1 DEF HctxInv, main, memory
  <2>3. CASE ReadConfig
    <3>1. /\ committed'.hctx = <<>> /\ hctx_trace'.state = NewSeries
          /\ pc = "read_config"
      BY <2>3 DEF ReadConfig, HctxInv, memory
    <3> QED BY <3>1, NewHctxFits DEF HctxInv
  <2>4. CASE \/ Load \/ Wake \/ Leave \/ Drained \/ Release \/ Process \/ SigInt \/ Tick
             \/ UNCHANGED vars
    <3>1. UNCHANGED <<env, hctx_trace, committed>>
      BY <2>4 DEF Load, Wake, Leave, Drained, WhileNotExiting, Release, Process, SigInt, Tick, vars, Goto, main, memory
    <3>2. pc' \in {"read_config", "load"} => pc \in {"read_config", "load"}
      BY <2>4 DEF Load, Wake, Leave, Drained, WhileNotExiting, Release, Process, SigInt, Tick, vars, Goto, main
    <3> QED BY <3>1, <3>2 DEF HctxInv
  <2> QED BY <2>1, <2>2, <2>3, <2>4, StepKinds
<1> QED BY <1>1, <1>2, TypeInvariant, PTL DEF Spec

-----------------------------------------------------------------------------
(* Neither what is kept while tracing nor the analysis leaves a vector, in *)
(* any mode, while the times are steady and there is a row                 *)
(* (AnalysisDefined).                                                      *)
LEMMA KeptUnlessUnsteady ==
  ASSUME TypeInv, ModeInv, SeriesInv, HctxInv, EndInv, pc = "crashed",
         recv_data # <<>> => HeatmapSized, ~Kept
  PROVE  Mode # "blk" /\ (~Steady(env.interval, committed.series) \/ ~HctxSteady)
<1>1. env.heatmap_row \in Nat BY RowsAreSmall
<1>2. recv_data # <<>> => Heatmap(recv_data, 8 * env.heatmap_row).valid
  <2>1. recv_data \in Seq(Sectors) BY DEF ModeInv, KeptOK, BlkKept, DioKept
  <2> QED BY <1>1, <2>1, HeatmapIsComplete
<1>3. ~series.valid \/ ~hctx_trace.state.valid BY <1>2 DEF Kept
<1>4. Mode # "blk" BY <1>3 DEF ModeInv, KeptOK, BlkKept, NoHctx, NewSeries
<1>5. CASE ~series.valid BY <1>4, <1>5 DEF SeriesInv, Fits
<1>6. CASE ~hctx_trace.state.valid
  <2>1. ~(Steady(env.interval, committed.hctx) /\ OffSizes(env.interval, committed.hctx))
    BY <1>6 DEF HctxInv, HctxFits, Fits
  <2>2. ~HctxSteady BY <2>1 DEF HctxSteady, OffSizes, OffSize
  <2> QED BY <1>4, <2>2
<1> QED BY <1>3, <1>5, <1>6

LEMMA AnalysedUnlessUnsteady ==
  ASSUME TypeInv, ModeInv, event_rows # <<>>, ~Analysis.valid
  PROVE  Mode = "blk" /\ ~BlkSteady
<1>1. CASE Mode = "blk"
  <2>1. BlkKept /\ env.interval \in Nat BY <1>1 DEF ModeInv, KeptOK, TypeInv
  <2>2. ~ProcessBlkTraceLog(env.interval, event_rows, other_rows).valid BY <1>1 DEF Analysis
  <2> QED BY <1>1, <2>1, <2>2, BlkIsDefined
<1>2. CASE Mode # "blk"
  <2>1. Len(event_rows) = Len(meta_rows) /\ Len(event_rows) \in Nat
    BY <1>2 DEF ModeInv, KeptOK, DioKept
  <2>2. DioLatency(event_rows, meta_rows).valid
    <3>1. DioLatency(event_rows, meta_rows).valid
            = (event_rows # <<>> /\ Len(event_rows) <= Len(meta_rows))
      BY DEF DioLatency
    <3>2. Len(event_rows) <= Len(meta_rows) BY <2>1
    <3> QED BY <3>1, <3>2
  <2>3. CASE Mode = "simple"
    <3>1. ~ProcessDioSimple(event_rows, meta_rows).valid BY <2>3 DEF Analysis
    <3> QED BY <2>2, <3>1 DEF ProcessDioSimple
  <2>4. CASE Mode = "info"
    <3>1. ~ProcessDioInfo(event_rows, meta_rows, other_rows).valid BY <2>4 DEF Analysis
    <3> QED BY <2>2, <3>1 DEF ProcessDioInfo
  <2> QED BY <1>2, <2>3, <2>4, Modes
<1> QED BY <1>1, <1>2

THEOREM NothingLeavesItsVector == Spec => []AnalysisDefined
<1>1. TypeInv /\ ModeInv /\ SeriesInv /\ HctxInv /\ EndInv => AnalysisDefined
  <2> SUFFICES ASSUME TypeInv, ModeInv, SeriesInv, HctxInv, EndInv, pc = "crashed",
                      event_rows # <<>>, recv_data # <<>> => HeatmapSized
               PROVE  IF Mode = "blk" THEN ~BlkSteady
                      ELSE ~Steady(env.interval, committed.series) \/ ~HctxSteady
    BY DEF AnalysisDefined
  <2>1. CASE ~Kept BY <2>1, KeptUnlessUnsteady
  <2>2. CASE dumped = Analysis /\ ~dumped.valid BY <2>2, AnalysedUnlessUnsteady
  <2> QED BY <2>1, <2>2 DEF EndInv
<1> QED BY <1>1, TypeInvariant, ModeInvariant, SeriesInvariant, HctxInvariant, EndInvariant, PTL

-----------------------------------------------------------------------------
(* The slots of the series are the intervals of the rows.                  *)
LEMMA SampledInterval ==
  ASSUME config \in Configs, Sampled, env.interval = IntervalOf(config.pmc_inv)
  PROVE  env.interval = config.pmc_inv * NsPerMs
<1> DEFINE u == config.pmc_inv * NsPerMs
<1>1. config.pmc_inv \in Nat /\ NsPerMs \in Nat BY SessionAssumption, TimeSeriesAssumption
<1>2. u \in Nat /\ 2 * u < IntSize
  <2>1. 2 * config.pmc_inv * NsPerMs < IntSize BY DEF Sampled
  <2>2. \A a, b \in Nat : 2 * a * b = 2 * (a * b) /\ a * b \in Nat OBVIOUS
  <2> QED BY <1>1, <2>1, <2>2
<1> HIDE DEF u
<1>3. ToInt(u) = u BY <1>2, ToIntOfSmall
<1>4. ToWord(u) = u BY <1>2 DEF ToWord
<1> QED BY <1>3, <1>4 DEF IntervalOf, u

LEMMA IntervalsOfEnds ==
  ASSUME BlkKept, event_rows # <<>>, NEW p, NEW t, OrdersEnds(p, t),
         env.interval \in Nat, env.interval > 0, env.interval = config.pmc_inv * NsPerMs
  PROVE  \A k \in 1..Len(event_rows) :
           /\ t[k] \in Nat /\ t[1] <= t[k]
           /\ IntervalIndex(p[k]) = (t[k] - t[1]) \div env.interval
           /\ IntervalIndex(p[k]) \in Nat
<1> DEFINE n == Len(event_rows)
           low == Min({EndOf(j) : j \in 1..n})
<1>1. n \in Nat /\ n > 0 /\ EndKey \in [1..n -> Nat] /\ \A k \in 1..n : EndKey[k] = EndOf(k)
  BY RowFacts
<1>2. p \in [1..n -> 1..n] /\ t \in [1..n -> Nat] /\ (\A k \in 1..n : t[k] = EndKey[p[k]])
      /\ (\A k \in 1..n : \E j \in 1..n : p[j] = k)
      /\ \A i, j \in 1..n : i < j => EndKey[p[i]] <= EndKey[p[j]]
  BY DEF OrdersEnds, SortsRows
<1>3. low = Min({EndKey[j] : j \in 1..n})
  <2>1. {EndOf(j) : j \in 1..n} = {EndKey[j] : j \in 1..n} BY <1>1
  <2> QED BY <2>1
<1>4. \A k \in 1..n : IntervalIndex(k) = (EndKey[k] - low) \div env.interval
  BY <1>1 DEF IntervalIndex
<1> HIDE DEF n, low
<1>5. /\ \E k \in 1..n : low = EndKey[k]
      /\ \A k \in 1..n : low <= EndKey[k]
  BY <1>1, <1>3, ColumnExtremes
<1>6. 1 \in 1..n /\ \A k \in 1..n : t[1] <= t[k]
  <2>1. 1 \in 1..n BY <1>1 DEF n
  <2>2. ASSUME NEW k \in 1..n PROVE t[1] <= t[k]
    <3>1. t[1] = EndKey[p[1]] /\ t[k] = EndKey[p[k]] /\ t[1] \in Nat /\ t[k] \in Nat BY <1>2, <2>1
    <3>2. CASE k = 1 BY <3>1, <3>2
    <3>3. CASE k # 1
      <4>1. 1 < k BY <1>1, <3>3 DEF n
      <4>2. EndKey[p[1]] <= EndKey[p[k]] BY <1>2, <2>1, <4>1
      <4> QED BY <3>1, <4>2
    <3> QED BY <3>2, <3>3
  <2> QED BY <2>1, <2>2
<1>7. low = t[1]
  <2>1. PICK k \in 1..n : low = EndKey[k] BY <1>5
  <2>2. PICK j \in 1..n : p[j] = k BY <1>2
  <2>3. t[1] <= low /\ low \in Nat BY <1>1, <1>2, <1>6, <2>1, <2>2
  <2>4. 1 \in 1..n BY <1>6
  <2>5. low <= t[1] /\ t[1] \in Nat BY <1>2, <1>5, <2>4
  <2> QED BY <2>3, <2>5
<1>8. ASSUME NEW k \in 1..n
      PROVE  /\ t[k] \in Nat /\ t[1] <= t[k]
             /\ IntervalIndex(p[k]) = (t[k] - t[1]) \div env.interval
             /\ IntervalIndex(p[k]) \in Nat
  <2>1. t[k] \in Nat /\ t[1] \in Nat /\ p[k] \in 1..n /\ t[k] = EndKey[p[k]] BY <1>2, <1>6
  <2>5. t[1] <= t[k] BY <1>6
  <2>2. IntervalIndex(p[k]) = (t[k] - t[1]) \div env.interval BY <1>4, <1>7, <2>1
  <2>3. t[k] - t[1] \in Nat BY <2>1, <2>5
  <2>4. (t[k] - t[1]) \div env.interval \in Nat BY <2>3
  <2> QED BY <2>1, <2>2, <2>4, <2>5
<1> QED BY <1>8 DEF n

(* What a series of all ends holds.                                        *)
HoldsRows(s, f) ==
  /\ s.size \in Nat
  /\ \A k \in 1..Len(event_rows) : IntervalIndex(k) \in 0..(s.size - 1)
  /\ \A i \in 0..(s.size - 1) :
       /\ s.data[i].sum = Total([k \in RowsIn(i) |-> f[k]])
       /\ s.data[i].n = Cardinality(RowsIn(i))

OfRows(commits, p, t, f) ==
  /\ commits \in Seq(Commits) /\ Len(commits) = Len(event_rows)
  /\ \A k \in 1..Len(event_rows) : commits[k] = [tp |-> t[k], x |-> f[p[k]]]

LEMMA SeriesHoldsRows ==
  ASSUME BlkKept, event_rows # <<>>, Sampled, NEW p, NEW t, OrdersEnds(p, t),
         env.interval \in Nat, env.interval = config.pmc_inv * NsPerMs,
         NEW f \in [1..Len(event_rows) -> Int], NEW commits, OfRows(commits, p, t, f),
         CommitAll(env.interval, commits).valid
  PROVE  HoldsRows(CommitAll(env.interval, commits), f)
<1> DEFINE n == Len(event_rows)
           s == CommitAll(env.interval, commits)
           slots == SlotsOf(env.interval, commits)
           xs == Values(commits)
<1>1. n \in Nat /\ n > 0 BY RowFacts
<1>2. commits \in Seq(Commits) /\ Len(commits) = n
      /\ \A k \in 1..n : commits[k].tp = t[k] /\ commits[k].x = f[p[k]]
  <2>1. commits \in Seq(Commits) /\ Len(commits) = n BY DEF OfRows
  <2>2. \A k \in 1..n : commits[k] = [tp |-> t[k], x |-> f[p[k]]] BY DEF OfRows
  <2> HIDE DEF n
  <2>3. ASSUME NEW k \in 1..n PROVE commits[k].tp = t[k] /\ commits[k].x = f[p[k]]
    <3>1. commits[k] = [tp |-> t[k], x |-> f[p[k]]] BY <2>2
    <3> QED BY ONLY <3>1
  <2> QED BY <2>1, <2>3
<1>3. p \in [1..n -> 1..n] /\ (\A k \in 1..n : \E j \in 1..n : p[j] = k)
      /\ \A i, j \in 1..n : p[i] = p[j] => i = j
  BY DEF OrdersEnds, SortsRows
<1>4. Holds(s, env.interval, commits, n) BY <1>2, SeriesHoldsAll
<1>5. Placed(s, env.interval, commits, n) /\ Filled(s, slots, xs, n) BY <1>1, <1>4 DEF Holds
<1>13. s.size \in Nat
  <2>1. Sized(s, slots, n) BY <1>4 DEF Holds
  <2> HIDE DEF s, slots
  <2> QED BY <2>1, SizesDouble DEF Sized
<1>6. env.interval > 0 /\ \A k \in 1..n : slots[k] \in 0..(s.size - 1) BY <1>5 DEF Placed
<1>7. \A k \in 1..n : /\ t[k] \in Nat /\ t[1] <= t[k]
                      /\ IntervalIndex(p[k]) = (t[k] - t[1]) \div env.interval
  BY <1>6, IntervalsOfEnds
<1>8. \A k \in 1..n : slots[k] = IntervalIndex(p[k])
  <2> SUFFICES ASSUME NEW k \in 1..n PROVE slots[k] = IntervalIndex(p[k]) OBVIOUS
  <2>1. 1 \in 1..n BY <1>1
  <2>2. slots[k] = ToInt(Sub(t[k], t[1]) \div env.interval)
    BY <1>2, <2>1 DEF SlotsOf, SlotIn
  <2>3. slots[k] >= 0 BY <1>6
  <2>4. p[k] \in 1..n BY <1>3
  <2>5. IntervalIndex(p[k]) < IntSize BY <2>4 DEF Sampled
  <2>6. t[k] \in Nat /\ t[1] \in Nat /\ t[1] <= t[k]
        /\ IntervalIndex(p[k]) = (t[k] - t[1]) \div env.interval
    BY <1>7, <2>1
  <2> HIDE DEF slots
  <2> QED BY <1>6, <2>2, <2>3, <2>5, <2>6, SlotIsInterval
<1>9. \A k \in 1..n : IntervalIndex(k) \in 0..(s.size - 1)
  <2> TAKE k \in 1..n
  <2>1. PICK j \in 1..n : p[j] = k BY <1>3
  <2> QED BY <1>6, <1>8, <2>1
<1>10. IsFiniteSet(1..n) BY <1>1, FS_Interval
<1>11. \A k \in 1..n : xs[k] = f[p[k]] BY <1>2 DEF Values
<1> HIDE DEF s, slots, xs, n
<1>12. ASSUME NEW i \in 0..(s.size - 1)
       PROVE  /\ s.data[i].sum = Total([k \in RowsIn(i) |-> f[k]])
              /\ s.data[i].n = Cardinality(RowsIn(i))
  <2> DEFINE A == In(slots, n, i)
  <2>1. \A j : j \in A <=> j \in 1..n /\ IntervalIndex(p[j]) = i BY <1>8 DEF In
  <2>2. \A k : k \in RowsIn(i) <=> k \in 1..n /\ IntervalIndex(k) = i BY DEF RowsIn, n
  <2>3. A \in SUBSET (1..n) BY <2>1
  <2>4. IsFiniteSet(A) BY <1>10, <2>3, FS_Subset
  <2>5. s.data[i] = [sum |-> SumOver(xs, A), n |-> Cardinality(A)] BY <1>5 DEF Filled
  <2>6. f \in [1..n -> Int] BY DEF n
  <2> HIDE DEF A
  <2>7. \A a \in A : p[a] \in RowsIn(i) /\ xs[a] = f[p[a]]
    <3> TAKE a \in A
    <3>1. a \in 1..n /\ p[a] \in 1..n /\ IntervalIndex(p[a]) = i BY <1>3, <2>1
    <3> QED BY <1>11, <2>2, <3>1
  <2>8. \A b \in RowsIn(i) : f[b] \in Int /\ \E a \in A : p[a] = b
    <3> TAKE b \in RowsIn(i)
    <3>1. b \in 1..n /\ IntervalIndex(b) = i BY <2>2
    <3>2. PICK a \in 1..n : p[a] = b BY <1>3, <3>1
    <3>3. a \in A BY <2>1, <3>1, <3>2
    <3> QED BY <2>6, <3>1, <3>2, <3>3
  <2>9. \A a, b \in A : p[a] = p[b] => a = b BY <1>3, <2>3
  <2>10. SumOver(xs, A) = SumOver(f, RowsIn(i)) /\ Cardinality(RowsIn(i)) = Cardinality(A)
    <3>1. PlacesOf(A, RowsIn(i), p, xs, f) BY <2>7, <2>8, <2>9 DEF PlacesOf
    <3> QED BY <2>4, <3>1, SumOverPlaces
  <2>11. SumOver(f, RowsIn(i)) = Total([k \in RowsIn(i) |-> f[k]]) BY DEF SumOver
  <2> QED BY <2>5, <2>10, <2>11
<1> QED BY <1>9, <1>12, <1>13 DEF HoldsRows, s, n

(* What a report of sampled rows is made of.                               *)
LEMMA SampledReport ==
  ASSUME TypeInv, ModeInv, EndInv, Reported, Sampled
  PROVE  /\ BlkKept /\ event_rows # <<>>
         /\ env.interval \in Nat /\ env.interval = config.pmc_inv * NsPerMs
         /\ dumped = ProcessBlkTraceLog(env.interval, event_rows, other_rows) /\ dumped.valid
<1>1. /\ BlkKept /\ env.interval = IntervalOf(config.pmc_inv)
      /\ dumped = ProcessBlkTraceLog(env.interval, event_rows, other_rows) /\ dumped.valid
  BY ReportIsOfBlkRows
<1>2. env.interval \in Nat /\ config \in Configs BY DEF TypeInv
<1>3. event_rows # <<>>
  <2>1. SUFFICES ASSUME event_rows = <<>> PROVE FALSE OBVIOUS
  <2>2. BlkEnd(event_rows) = <<>> BY <2>1 DEF BlkEnd
  <2>3. \A io_types : ~RwRate(env.interval, BlkEnd(event_rows), io_types).valid BY <2>2 DEF RwRate
  <2> QED BY <1>1, <2>3 DEF ProcessBlkTraceLog
<1>4. env.interval = config.pmc_inv * NsPerMs BY <1>1, <1>2, SampledInterval
<1> QED BY <1>1, <1>2, <1>3, <1>4

(* The two series of all rows.                                             *)
LEMMA RowsAreCommitted ==
  ASSUME BlkKept, NEW p, NEW t, OrdersEnds(p, t)
  PROVE  /\ OfRows(PmcCommits, p, t, [k \in 1..Len(event_rows) |-> 1])
         /\ OfRows(AvgCommits, p, t, [k \in 1..Len(event_rows) |-> event_rows[k].latency])
<1>1. /\ PmcCommits \in Seq(Commits) /\ AvgCommits \in Seq(Commits)
      /\ Len(PmcCommits) = Len(event_rows) /\ Len(AvgCommits) = Len(event_rows)
      /\ \A k \in 1..Len(event_rows) :
           /\ PmcCommits[k] = [tp |-> t[k], x |-> 1]
           /\ AvgCommits[k] = [tp |-> t[k], x |-> event_rows[p[k]].latency]
  BY EndCommits
<1>2. p \in [1..Len(event_rows) -> 1..Len(event_rows)] BY DEF OrdersEnds, SortsRows
<1>3. \A k \in 1..Len(event_rows) :
        /\ [j \in 1..Len(event_rows) |-> 1][p[k]] = 1
        /\ [j \in 1..Len(event_rows) |-> event_rows[j].latency][p[k]] = event_rows[p[k]].latency
  BY <1>2
<1> QED BY <1>1, <1>3 DEF OfRows

PmcSeries == CommitAll(env.interval, PmcCommits)
AvgSeries == CommitAll(env.interval, AvgCommits)

LEMMA SeriesOfReport ==
  ASSUME TypeInv, ModeInv, EndInv, Reported, Sampled
  PROVE  /\ HoldsRows(PmcSeries, [k \in 1..Len(event_rows) |-> 1])
         /\ HoldsRows(AvgSeries, [k \in 1..Len(event_rows) |-> event_rows[k].latency])
         /\ dumped.sum_io_pmc = SeqData(PmcSeries) /\ dumped.avg = Avgs(AvgSeries)
<1> DEFINE ones == [k \in 1..Len(event_rows) |-> 1]
           latencies == [k \in 1..Len(event_rows) |-> event_rows[k].latency]
<1>1. /\ BlkKept /\ event_rows # <<>>
      /\ env.interval \in Nat /\ env.interval = config.pmc_inv * NsPerMs
      /\ dumped = ProcessBlkTraceLog(env.interval, event_rows, other_rows) /\ dumped.valid
  BY SampledReport
<1>2. PICK p, t : OrdersEnds(p, t) BY <1>1, EndsInOrder
<1>3. OfRows(PmcCommits, p, t, ones) /\ OfRows(AvgCommits, p, t, latencies)
  BY <1>1, <1>2, RowsAreCommitted
<1>4. ones \in [1..Len(event_rows) -> Int] /\ latencies \in [1..Len(event_rows) -> Int]
  <2>1. \A k \in 1..Len(event_rows) : event_rows[k].latency \in Int BY <1>1, RowFacts
  <2> QED BY <2>1
<1>5. GetIoPmc(env.interval, Ends) = PmcSeries BY DEF GetIoPmc, PmcCommits, PmcSeries
<1>6. GetAvgSeq(env.interval, Latencies, Ends) = AvgSeries BY DEF GetAvgSeq, AvgCommits, AvgSeries
<1>7. /\ PmcSeries.valid /\ AvgSeries.valid
      /\ dumped.sum_io_pmc = SeqData(PmcSeries) /\ dumped.avg = Avgs(AvgSeries)
  BY <1>1, <1>5, <1>6 DEF ProcessBlkTraceLog, Ends, Latencies
<1> HIDE DEF ones, latencies
<1>8. HoldsRows(PmcSeries, ones)
  BY <1>1, <1>2, <1>3, <1>4, <1>7, SeriesHoldsRows DEF PmcSeries
<1>9. HoldsRows(AvgSeries, latencies)
  BY <1>1, <1>2, <1>3, <1>4, <1>7, SeriesHoldsRows DEF AvgSeries
<1> QED BY <1>7, <1>8, <1>9 DEF ones, latencies

BlockCounts(counts, S, T, g) == counts = [b \in T |-> Cardinality({k \in S : g[k] = b})]

LEMMA TotalOfBlocks ==
  ASSUME NEW S, IsFiniteSet(S), NEW T, IsFiniteSet(T), NEW g \in [S -> T],
         NEW counts, BlockCounts(counts, S, T, g)
  PROVE  Total(counts) = Cardinality(S)
BY CountByBlocks DEF BlockCounts

(* The report counts every request once, in the interval its end falls     *)
(* into, and averages the latencies of each interval (SeriesCountIos).     *)
THEOREM EveryIoIsInItsInterval == Spec => []SeriesCountIos
<1>1. TypeInv /\ ModeInv /\ EndInv => SeriesCountIos
  <2> SUFFICES ASSUME TypeInv, ModeInv, EndInv, Reported, Sampled
               PROVE  /\ Total(dumped.sum_io_pmc) = Len(event_rows)
                      /\ \A i \in DOMAIN dumped.sum_io_pmc :
                           /\ dumped.sum_io_pmc[i] = Cardinality(RowsIn(i))
                           /\ RowsIn(i) # {} =>
                                dumped.avg[i] = Total([k \in RowsIn(i) |-> event_rows[k].latency])
                                                  \div Cardinality(RowsIn(i))
    BY DEF SeriesCountIos
  <2> DEFINE n == Len(event_rows)
             ones == [k \in 1..n |-> 1]
             latencies == [k \in 1..n |-> event_rows[k].latency]
             slots == 0..(PmcSeries.size - 1)
             counts == [b \in slots |-> Cardinality(RowsIn(b))]
  <2>1. /\ HoldsRows(PmcSeries, ones) /\ HoldsRows(AvgSeries, latencies)
        /\ dumped.sum_io_pmc = SeqData(PmcSeries) /\ dumped.avg = Avgs(AvgSeries)
    BY SeriesOfReport
  <2>2. n \in Nat
    <3>1. BlkKept BY SampledReport
    <3> QED BY <3>1, RowFacts
  <2>3. IsFiniteSet(1..n) /\ Cardinality(1..n) = n BY <2>2, FS_Interval, SMTT(30)
  <2>4. PmcSeries.size \in Nat /\ IsFiniteSet(slots)
    <3>1. PmcSeries.size \in Nat BY <2>1 DEF HoldsRows
    <3> QED BY <3>1, FS_Interval
  <2>5. \A i : RowsIn(i) = {k \in 1..n : IntervalIndex(k) = i} BY DEF RowsIn
  <2>6. \A i : RowsIn(i) \in SUBSET (1..n) /\ IsFiniteSet(RowsIn(i)) BY <2>3, <2>5, FS_Subset
  <2>7. ASSUME NEW i \in slots PROVE PmcSeries.data[i].sum = Cardinality(RowsIn(i))
    <3>1. PmcSeries.data[i].sum = Total([k \in RowsIn(i) |-> ones[k]]) BY <2>1 DEF HoldsRows
    <3>2. [k \in RowsIn(i) |-> ones[k]] = [k \in RowsIn(i) |-> 1] BY <2>6
    <3>3. Total([k \in RowsIn(i) |-> 1]) = Cardinality(RowsIn(i)) BY <2>6, SumOfOnes
    <3> QED BY <3>1, <3>2, <3>3
  <2>8. dumped.sum_io_pmc = counts BY <2>1, <2>7 DEF SeqData
  <2>9. Total(counts) = n
    <3> DEFINE g == [k \in 1..n |-> IntervalIndex(k)]
    <3>1. g \in [1..n -> slots] BY <2>1 DEF HoldsRows
    <3>2. counts = [b \in slots |-> Cardinality({k \in 1..n : g[k] = b})]
      <4>1. \A b : {k \in 1..n : g[k] = b} = RowsIn(b) BY <2>5
      <4> QED BY <4>1
    <3> HIDE DEF g, slots, counts
    <3>3. BlockCounts(counts, 1..n, slots, g) BY <3>2 DEF BlockCounts
    <3>4. Total(counts) = Cardinality(1..n) BY <2>3, <2>4, <3>1, <3>3, TotalOfBlocks
    <3> QED BY <2>3, <3>4
  <2>10. ASSUME NEW i \in slots, RowsIn(i) # {}
         PROVE  dumped.avg[i] = Total([k \in RowsIn(i) |-> event_rows[k].latency])
                                  \div Cardinality(RowsIn(i))
    <3>1. i \in 0..(AvgSeries.size - 1)
      <4>1. PICK k \in 1..n : IntervalIndex(k) = i BY <2>5, <2>10
      <4> QED BY <2>1, <4>1 DEF HoldsRows
    <3>2. /\ AvgSeries.data[i].sum = Total([k \in RowsIn(i) |-> latencies[k]])
          /\ AvgSeries.data[i].n = Cardinality(RowsIn(i))
      BY <2>1, <3>1 DEF HoldsRows
    <3>3. [k \in RowsIn(i) |-> latencies[k]] = [k \in RowsIn(i) |-> event_rows[k].latency] BY <2>6
    <3>4. Cardinality(RowsIn(i)) # 0 BY <2>6, <2>10, FS_EmptySet
    <3>5. dumped.avg[i] = IF AvgSeries.data[i].n = 0 THEN 0
                          ELSE AvgSeries.data[i].sum \div AvgSeries.data[i].n
      BY <2>1, <3>1 DEF Avgs
    <3> HIDE DEF latencies
    <3>6. dumped.avg[i] = AvgSeries.data[i].sum \div AvgSeries.data[i].n BY <3>2, <3>4, <3>5
    <3> QED BY <3>2, <3>3, <3>6
  <2>11. DOMAIN dumped.sum_io_pmc = slots BY <2>8
  <2>12. \A i \in slots : dumped.sum_io_pmc[i] = Cardinality(RowsIn(i)) BY <2>8
  <2> HIDE DEF slots, counts
  <2> QED BY <2>8, <2>9, <2>10, <2>11, <2>12
<1> QED BY <1>1, TypeInvariant, ModeInvariant, EndInvariant, PTL

(* The series of the reads or of the writes: after a first end, each of    *)
(* its rows in the interval its end falls into.                            *)
OfKind(type, i) == {k \in RowsIn(i) : event_rows[k].io_direction = type}
TypeSeries(type) == Counted(env.interval, TypedTimes(type))
CountOf(type, i) == Cardinality(OfKind(type, i)) + (IF i = 0 THEN 1 ELSE 0)

LEMMA TypeSeriesCounts ==
  ASSUME BlkKept, event_rows # <<>>, Sampled,
         env.interval \in Nat, env.interval = config.pmc_inv * NsPerMs,
         NEW type, TypeSeries(type).valid
  PROVE  /\ TypeSeries(type).size \in Nat
         /\ \A i \in 0..(TypeSeries(type).size - 1) :
              TypeSeries(type).data[i].sum = CountOf(type, i)
<1> DEFINE n == Len(event_rows)
           times == TypedTimes(type)
           commits == [k \in 1..Len(times) |-> [tp |-> times[k], x |-> 1]]
           slots == SlotsOf(env.interval, commits)
           s == TypeSeries(type)
<1>1. PICK p, t : OrdersEnds(p, t) BY EndsInOrder
<1> DEFINE P == {k \in 1..n : Directions[p[k]] = type}
           m == Cardinality(P)
<1>2. n \in Nat /\ n > 0 /\ \A k \in 1..n : Directions[k] = event_rows[k].io_direction
  BY RowFacts DEF Directions, Column
<1>3. p \in [1..n -> 1..n] /\ (\A k \in 1..n : \E j \in 1..n : p[j] = k)
      /\ \A i, j \in 1..n : p[i] = p[j] => i = j
  BY <1>1 DEF OrdersEnds, SortsRows
<1>4. RowsAre(P, p, n, Directions, type) BY DEF RowsAre
<1>5. \A k : k \in P <=> k \in 1..n /\ Directions[p[k]] = type OBVIOUS
<1> HIDE DEF P
<1>6. PICK e : IsEnumeration(e, P) /\ Selects(times, t, e, m) BY <1>1, <1>4, TypedEnds
<1>7. /\ m \in Nat /\ e \in [1..m -> P]
      /\ \A i, j \in 1..m : i < j => e[i] < e[j]
      /\ \A d \in P : \E j \in 1..m : e[j] = d
  BY <1>6 DEF IsEnumeration
<1>8. /\ times \in Seq(Nat) /\ Len(times) = m + 1 /\ times[1] = t[1]
      /\ \A j \in 1..m : times[j + 1] = t[e[j]]
  BY <1>6 DEF Selects
<1> HIDE DEF m, times
<1>9. times # <<>> BY <1>7, <1>8, EmptySeq
<1>10. s = Counted(env.interval, times) /\ Counted(env.interval, times).valid
  BY DEF TypeSeries, times
<1> HIDE DEF s
<1>11. /\ env.interval > 0 /\ s.size \in Nat
       /\ \A k \in 1..Len(times) :
            /\ slots[k] = ToInt(Sub(times[k], times[1]) \div env.interval)
            /\ slots[k] \in 0..(s.size - 1)
       /\ \A i \in 0..(s.size - 1) : s.data[i].sum = Cardinality(In(slots, Len(times), i))
  BY <1>8, <1>9, <1>10, CountedSlots
<1> HIDE DEF commits, slots, n
<1>12. \A k \in 1..n : /\ t[k] \in Nat /\ t[1] <= t[k]
                       /\ IntervalIndex(p[k]) = (t[k] - t[1]) \div env.interval
  BY <1>1, <1>11, IntervalsOfEnds DEF n
<1>13. 1 \in 1..n /\ t[1] \in Nat BY <1>2, <1>12
<1>14. \A j \in 1..m : e[j] \in 1..n /\ Directions[p[e[j]]] = type BY <1>5, <1>7
<1>15. slots[1] = 0
  <2>1. 1 \in 1..Len(times) BY <1>7, <1>8
  <2>2. slots[1] = ToInt(Sub(t[1], t[1]) \div env.interval) BY <1>8, <1>11, <2>1
  <2>3. Sub(t[1], t[1]) = 0 BY <1>13 DEF Sub
  <2>4. 0 \div env.interval = 0 BY <1>11
  <2>5. ToInt(0) = 0
    <3>1. 2 * 0 < IntSize BY TimeSeriesAssumption
    <3> QED BY <3>1, ToIntOfSmall
  <2> QED BY <2>2, <2>3, <2>4, <2>5
<1>16. \A j \in 1..m : slots[j + 1] = IntervalIndex(p[e[j]])
  <2> SUFFICES ASSUME NEW j \in 1..m PROVE slots[j + 1] = IntervalIndex(p[e[j]]) OBVIOUS
  <2> DEFINE tp == t[e[j]]
  <2>1. j + 1 \in 1..Len(times) BY <1>7, <1>8
  <2>2. slots[j + 1] = ToInt(Sub(tp, t[1]) \div env.interval) /\ slots[j + 1] >= 0
    BY <1>8, <1>11, <2>1
  <2>3. e[j] \in 1..n BY <1>14
  <2>4. tp \in Nat /\ t[1] <= tp /\ IntervalIndex(p[e[j]]) = (tp - t[1]) \div env.interval
    BY <1>12, <2>3
  <2>5. IntervalIndex(p[e[j]]) < IntSize
    <3>1. p[e[j]] \in 1..n BY <1>3, <2>3
    <3> QED BY <3>1 DEF Sampled, n
  <2> HIDE DEF tp
  <2> QED BY <1>11, <1>13, <2>2, <2>4, <2>5, SlotIsInterval, ZenonT(40)
<1>17. ASSUME NEW i \in 0..(s.size - 1) PROVE s.data[i].sum = CountOf(type, i)
  <2> DEFINE B == OfKind(type, i)
             q == [j \in 1..m |-> p[e[j]]]
  <2>1. \A k : k \in B <=> k \in 1..n /\ IntervalIndex(k) = i /\ Directions[k] = type
    BY <1>2 DEF OfKind, RowsIn, n
  <2>2. \A j \in 1..m : q[j] = p[e[j]] /\ q[j] \in 1..n BY <1>3, <1>14
  <2> HIDE DEF q, B
  <2>3. \A j \in 1..m : slots[j + 1] = i => q[j] \in B
    <3> TAKE j \in 1..m
    <3> QED BY <1>14, <1>16, <2>1, <2>2
  <2>4. \A b \in B : \E j \in 1..m : slots[j + 1] = i /\ q[j] = b
    <3> TAKE b \in B
    <3>1. b \in 1..n /\ IntervalIndex(b) = i /\ Directions[b] = type BY <2>1
    <3>2. PICK k \in 1..n : p[k] = b BY <1>3, <3>1
    <3>3. PICK j \in 1..m : e[j] = k BY <1>5, <1>7, <3>1, <3>2
    <3> QED BY <1>16, <2>2, <3>1, <3>2, <3>3
  <2>5. \A j, k \in 1..m : q[j] = q[k] => j = k
    <3> SUFFICES ASSUME NEW j \in 1..m, NEW k \in 1..m, q[j] = q[k] PROVE j = k OBVIOUS
    <3>1. e[j] = e[k] BY <1>3, <1>14, <2>2
    <3>2. e[j] \in Int BY <1>14
    <3>3. ~(j < k) /\ ~(k < j) BY <1>7, <3>1, <3>2
    <3> QED BY <3>3
  <2>6. RestOf(slots, m, q, B, i) BY <2>3, <2>4, <2>5 DEF RestOf
  <2>7. Cardinality(In(slots, m + 1, i)) = Cardinality(B) + (IF i = 0 THEN 1 ELSE 0)
    BY <1>7, <1>15, <2>6, FirstAndRest
  <2> QED BY <1>8, <1>11, <2>7 DEF CountOf, B
<1> QED BY <1>11, <1>17 DEF s

(* The two rates of an interval are the shares of its reads and writes,    *)
(* with one more of each in the first interval, when that makes two of     *)
(* each, and 0 otherwise; under which name each is published is left open  *)
(* (RatesAreShares).                                                       *)
ShareOf(own, R, W) == IF R > 1 /\ W > 1 THEN <<own, R + W>> ELSE <<0, 1>>

LEMMA RatesOfSeries ==
  ASSUME Ends # <<>>
  PROVE  LET rw == RwRate(env.interval, Ends, Directions)
             R(i) == TypeSeries("READ").data[i].sum
             W(i) == TypeSeries("WRITE").data[i].sum
         IN /\ rw.valid <=> TypeSeries("READ").valid /\ TypeSeries("WRITE").valid
            /\ DOMAIN rw.r_rate
                 = 0..(Min({TypeSeries("READ").size, TypeSeries("WRITE").size}) - 1)
            /\ \A i \in DOMAIN rw.r_rate : /\ rw.r_rate[i] = ShareOf(W(i), R(i), W(i))
                                           /\ rw.w_rate[i] = ShareOf(R(i), R(i), W(i))
BY DEF RwRate, TypeSeries, TypedTimes, Directions, ShareOf

THEOREM RatesAreOfTheirInterval == Spec => []RatesAreShares
<1>1. TypeInv /\ ModeInv /\ EndInv => RatesAreShares
  <2> SUFFICES ASSUME TypeInv, ModeInv, EndInv, Reported, Sampled,
                      NEW i \in DOMAIN dumped.rw_rate.r_rate
               PROVE  LET all == CountOf("READ", i) + CountOf("WRITE", i)
                          shown == CountOf("READ", i) > 1 /\ CountOf("WRITE", i) > 1
                      IN {dumped.rw_rate.r_rate[i], dumped.rw_rate.w_rate[i]}
                           = IF shown THEN {<<CountOf("READ", i), all>>, <<CountOf("WRITE", i), all>>}
                                      ELSE {<<0, 1>>}
    BY DEF RatesAreShares, CountOf, OfKind
  <2> DEFINE R == TypeSeries("READ")
             W == TypeSeries("WRITE")
  <2>1. /\ BlkKept /\ event_rows # <<>>
        /\ env.interval \in Nat /\ env.interval = config.pmc_inv * NsPerMs
        /\ dumped = ProcessBlkTraceLog(env.interval, event_rows, other_rows) /\ dumped.valid
    BY SampledReport
  <2>2. dumped.rw_rate = RwRate(env.interval, Ends, Directions) /\ dumped.rw_rate.valid
    BY <2>1 DEF ProcessBlkTraceLog, Ends, Directions
  <2>3. Ends # <<>>
    <3>1. RwRate(env.interval, <<>>, Directions).valid = FALSE BY DEF RwRate
    <3> QED BY <2>2, <3>1
  <2> HIDE DEF R, W
  <2>4. /\ R.valid /\ W.valid
        /\ DOMAIN dumped.rw_rate.r_rate = 0..(Min({R.size, W.size}) - 1)
        /\ dumped.rw_rate.r_rate[i] = ShareOf(W.data[i].sum, R.data[i].sum, W.data[i].sum)
        /\ dumped.rw_rate.w_rate[i] = ShareOf(R.data[i].sum, R.data[i].sum, W.data[i].sum)
    BY <2>2, <2>3, RatesOfSeries DEF R, W
  <2>5. /\ R.size \in Nat /\ \A j \in 0..(R.size - 1) : R.data[j].sum = CountOf("READ", j)
        /\ W.size \in Nat /\ \A j \in 0..(W.size - 1) : W.data[j].sum = CountOf("WRITE", j)
    BY <2>1, <2>4, TypeSeriesCounts DEF R, W
  <2>6. i \in 0..(R.size - 1) /\ i \in 0..(W.size - 1)
    <3>1. Min({R.size, W.size}) <= R.size /\ Min({R.size, W.size}) <= W.size
          /\ Min({R.size, W.size}) \in Int
      <4>1. {R.size, W.size} \in SUBSET Nat /\ {R.size, W.size} # {} BY <2>5
      <4> QED BY <4>1, MinOf
    <3> QED BY <2>4, <2>5, <3>1
  <2>7. R.data[i].sum = CountOf("READ", i) /\ W.data[i].sum = CountOf("WRITE", i)
    BY <2>5, <2>6
  <2> QED BY <2>4, <2>7 DEF ShareOf
<1> QED BY <1>1, TypeInvariant, ModeInvariant, EndInvariant, PTL

(* The requests under a direct I/O are those that carry its uid, each once *)
(* and in the order of their rows (JoinIsRelational).                      *)
CallUids == Column(event_rows, LAMBDA r : r.uid)
RequestUids == Column(other_rows, LAMBDA r : r.uid)
RequestsOf(a) == {b \in 1..Len(other_rows) : other_rows[b].uid = event_rows[a].uid}

LEMMA UidColumns ==
  ASSUME DioKept
  PROVE  /\ Len(event_rows) \in Nat /\ Len(CallUids) = Len(event_rows)
         /\ Len(other_rows) \in Nat /\ Len(RequestUids) = Len(other_rows)
         /\ \A a \in 1..Len(event_rows) : CallUids[a] = event_rows[a].uid
         /\ \A b \in 1..Len(other_rows) : RequestUids[b] = other_rows[b].uid
<1>1. Len(event_rows) \in Nat BY LenProperties DEF DioKept
<1>2. Len(other_rows) \in Nat
  <2> DEFINE T == [uid : Uids]
  <2>1. other_rows \in Seq(T) BY DEF DioKept
  <2> HIDE DEF T
  <2> QED BY <2>1, LenProperties
<1>3. CallUids = [a \in 1..Len(event_rows) |-> event_rows[a].uid] BY DEF CallUids, Column
<1>4. RequestUids = [b \in 1..Len(other_rows) |-> other_rows[b].uid] BY DEF RequestUids, Column
<1>5. Len(CallUids) = Len(event_rows) BY <1>1, <1>3
<1>6. Len(RequestUids) = Len(other_rows) BY <1>2, <1>4
<1> QED BY <1>1, <1>2, <1>3, <1>4, <1>5, <1>6

LEMMA ReportIsOfDioRows ==
  ASSUME ModeInv, EndInv, pc = "done", dumped.kind = "info"
  PROVE  DioKept /\ dumped = ProcessDioInfo(event_rows, meta_rows, other_rows)
<1>1. dumped = Analysis BY DEF EndInv
<1>2. ProcessDioSimple(event_rows, meta_rows).kind = "simple" BY DEF ProcessDioSimple
<1>3. ProcessBlkTraceLog(env.interval, event_rows, other_rows).kind = "blk"
  BY DEF ProcessBlkTraceLog
<1>4. Mode = "info" BY <1>1, <1>2, <1>3, Modes DEF Analysis
<1> QED BY <1>1, <1>4 DEF Analysis, ModeInv, KeptOK

THEOREM RequestsAreJoined == Spec => []JoinIsRelational
<1>1. ModeInv /\ EndInv => JoinIsRelational
  <2> SUFFICES ASSUME ModeInv, EndInv, pc = "done", dumped.kind = "info"
               PROVE  /\ \A a \in 1..Len(event_rows) :
                           IF RequestsOf(a) = {} THEN a \notin DOMAIN dumped.dio_rq_map
                           ELSE /\ Elements(dumped.dio_rq_map[a]) = RequestsOf(a)
                                /\ Len(dumped.dio_rq_map[a]) = Cardinality(RequestsOf(a))
                      /\ \A a \in DOMAIN dumped.dio_rq_map : \A j \in 2..Len(dumped.dio_rq_map[a]) :
                           dumped.dio_rq_map[a][j - 1] < dumped.dio_rq_map[a][j]
    BY DEF JoinIsRelational, RequestsOf
  <2> DEFINE J == HashJoin(CallUids, RequestUids)
             map == dumped.dio_rq_map
             n == Len(event_rows)
             l == Len(J)
  <2>1. DioKept /\ dumped = ProcessDioInfo(event_rows, meta_rows, other_rows)
    BY ReportIsOfDioRows
  <2>2. /\ n \in Nat /\ Len(CallUids) = n
        /\ Len(other_rows) \in Nat /\ Len(RequestUids) = Len(other_rows)
        /\ \A a \in 1..n : CallUids[a] = event_rows[a].uid
        /\ \A b \in 1..Len(other_rows) : RequestUids[b] = other_rows[b].uid
    BY <2>1, UidColumns
  <2>3. map = [a \in {p[1] : p \in Elements(J)} |-> JoinedTo(J, a)]
    BY <2>1 DEF ProcessDioInfo, CallUids, RequestUids, JoinedTo
  <2>4. Joined(J, CallUids, RequestUids, Len(RequestUids)) BY <2>2, JoinHoldsAll
  <2>5. /\ \A x \in 1..l : /\ J[x][1] \in 1..n /\ J[x][2] \in 1..Len(other_rows)
                           /\ CallUids[J[x][1]] = RequestUids[J[x][2]]
        /\ \A a \in 1..n, b \in 1..Len(other_rows) :
             CallUids[a] = RequestUids[b] => \E x \in 1..l : J[x] = <<a, b>>
    BY <2>2, <2>4 DEF Joined
  <2>6. \A a \in 1..n : RowsWithKey(RequestsOf(a), RequestUids, CallUids[a])
    BY <2>2 DEF RowsWithKey, RequestsOf
  <2> HIDE DEF J, n
  <2>7. \A a \in 1..n :
          /\ Elements(JoinedTo(J, a)) = RequestsOf(a)
          /\ Len(JoinedTo(J, a)) = Cardinality(RequestsOf(a))
          /\ \A j \in 2..Len(JoinedTo(J, a)) : JoinedTo(J, a)[j - 1] < JoinedTo(J, a)[j]
    <3> TAKE a \in 1..n
    <3> DEFINE R == RequestsOf(a)
    <3>1. /\ Len(CallUids) \in Nat /\ Len(RequestUids) \in Nat /\ a \in 1..Len(CallUids)
          /\ RowsWithKey(R, RequestUids, CallUids[a])
      BY <2>2, <2>6
    <3> HIDE DEF R
    <3>2. Elements(JoinedTo(J, a)) = R /\ Len(JoinedTo(J, a)) = Cardinality(R)
      BY <2>4, <3>1, JoinedToHolds
    <3>3. \A j \in 2..Len(JoinedTo(J, a)) : JoinedTo(J, a)[j - 1] < JoinedTo(J, a)[j]
      BY <2>4, <3>1, JoinedToHolds
    <3> QED BY <3>2, <3>3 DEF R
  <2>8. \A a : a \in DOMAIN map <=> \E x \in 1..l : J[x][1] = a BY <2>3 DEF Elements
  <2>9. \A a \in DOMAIN map : a \in 1..n /\ map[a] = JoinedTo(J, a)
    <3> TAKE a \in DOMAIN map
    <3>1. a \in 1..n BY <2>5, <2>8
    <3> QED BY <2>3, <3>1
  <2> HIDE DEF map, l
  <2>10. ASSUME NEW a \in 1..n PROVE a \in DOMAIN map <=> RequestsOf(a) # {}
    <3>1. \A b : b \in RequestsOf(a) <=> b \in 1..Len(other_rows) /\ RequestUids[b] = CallUids[a]
      BY <2>2 DEF RequestsOf
    <3>2. ASSUME a \in DOMAIN map PROVE RequestsOf(a) # {}
      <4>1. PICK x \in 1..l : J[x][1] = a BY <2>8, <3>2
      <4>2. J[x][2] \in RequestsOf(a) BY <2>5, <3>1, <4>1
      <4> QED BY <4>2
    <3>3. ASSUME RequestsOf(a) # {} PROVE a \in DOMAIN map
      <4>1. PICK b : b \in RequestsOf(a) BY <3>3
      <4>2. PICK x \in 1..l : J[x] = <<a, b>> BY <2>5, <3>1, <4>1
      <4> QED BY <2>8, <4>2
    <3> QED BY <3>2, <3>3
  <2>11. \A a \in 1..n :
           IF RequestsOf(a) = {} THEN a \notin DOMAIN map
           ELSE Elements(map[a]) = RequestsOf(a) /\ Len(map[a]) = Cardinality(RequestsOf(a))
    BY <2>7, <2>9, <2>10
  <2>12. \A a \in DOMAIN map : \A j \in 2..Len(map[a]) : map[a][j - 1] < map[a][j]
    BY <2>7, <2>9
  <2> QED BY <2>11, <2>12 DEF map, n
<1> QED BY <1>1, ModeInvariant, EndInvariant, PTL
=============================================================================

------------------------ MODULE Ext4DioSimpleProofs ------------------------
(***************************************************************************)
(* Proofs about the probes and the consumer of the simple level, for any   *)
(* addresses, capacities and bounds: the types, whose call a record is     *)
(* about, how its stages lie, and that the two files stay aligned.         *)
(***************************************************************************)
EXTENDS Ext4DioSimple, SequenceTheorems, FiniteSetTheorems, TLAPS

(* The strengthening for the types: no stamp is later than the clock.      *)
Past(e) == /\ e.start_dio <= now /\ e.start_ext4 <= now
           /\ e.start_block_io <= now /\ e.end_block_io <= now

LogRecords == [event : Events, io : Calls, stale : BOOLEAN]

TypeInv ==
  /\ Typed
  /\ \A i \in Iocbs : Past(event_cache[i]) /\ io[i].began <= now
  /\ \A k \in 1..Len(ext4_dio_log) : Past(ext4_dio_log[k].event)

LEMMA Constants ==
  /\ MaxTime \in Nat /\ OtherMax \in Nat /\ WordSize \in Nat /\ WordSize > 2 * MaxTime
  /\ NoEvent \in Events /\ NoCall \in Calls
  /\ dio_type = {"D_WRITE", "D_READ"}
BY Ext4DioSimpleAssumption DEF NoEvent, Events, NoCall, Calls, dio_type

(* Unsigned subtraction of two times is a word.                            *)
LEMMA SubWord ==
  ASSUME NEW a \in 0..MaxTime, NEW b \in 0..MaxTime
  PROVE  Sub(a, b) \in Word
BY Constants DEF Sub, Word

LEMMA RowTyped ==
  ASSUME NEW e \in Events, now \in 0..MaxTime, Past(e)
  PROVE  EventRow(e) \in EventRows
<1>1. /\ e.start_dio \in 0..MaxTime /\ e.start_ext4 \in 0..MaxTime
      /\ e.start_block_io \in 0..MaxTime /\ e.end_block_io \in 0..MaxTime
  BY Constants DEF Events, Past
<1>2. /\ Sub(e.start_ext4, e.start_dio) \in Word /\ Sub(e.start_block_io, e.start_ext4) \in Word
      /\ Sub(e.end_block_io, e.start_block_io) \in Word
  BY <1>1, SubWord
<1>3. e.end_block_io \in Nat
  BY DEF Events
<1> QED BY <1>2, <1>3 DEF EventRow, EventRows

(* The clock only advances, so what was past stays past.                   *)
LEMMA StaysPast ==
  ASSUME NEW e \in Events, now \in Nat, now' \in Nat, now <= now', Past(e)
  PROVE  /\ e.start_dio <= now' /\ e.start_ext4 <= now'
         /\ e.start_block_io <= now' /\ e.end_block_io <= now'
BY DEF Events, Past

(* What each probe does to the event of one address.                       *)
LEMMA OneEvent ==
  ASSUME TypeInv, now' \in 0..MaxTime, now <= now', NEW i \in Iocbs, NEW e \in Events,
         event_cache' = [event_cache EXCEPT ![i] = e],
         /\ e.start_dio <= now' /\ e.start_ext4 <= now'
         /\ e.start_block_io <= now' /\ e.end_block_io <= now'
  PROVE  event_cache' \in [Iocbs -> Events] /\ \A j \in Iocbs : Past(event_cache[j])'
<1>1. event_cache \in [Iocbs -> Events] /\ now \in Nat /\ now' \in Nat
  BY Constants DEF TypeInv, Typed
<1>2. event_cache' \in [Iocbs -> Events]
  BY <1>1
<1>3. ASSUME NEW j \in Iocbs PROVE Past(event_cache[j])'
  <2>1. CASE j = i
    BY <1>1, <2>1 DEF Past
  <2>2. CASE j # i
    <3>1. event_cache'[j] = event_cache[j] /\ event_cache[j] \in Events /\ Past(event_cache[j])
      BY <1>1, <2>2 DEF TypeInv
    <3> QED BY <1>1, <3>1, StaysPast DEF Past
  <2> QED BY <2>1, <2>2
<1> QED BY <1>2, <1>3

LEMMA SameEvents ==
  ASSUME TypeInv, now' \in 0..MaxTime, now <= now', UNCHANGED event_cache
  PROVE  event_cache' \in [Iocbs -> Events] /\ \A j \in Iocbs : Past(event_cache[j])'
BY Constants, StaysPast DEF TypeInv, Typed, Past

(* The ring when no record or one of a past event is added.                *)
LEMMA SameRing ==
  ASSUME TypeInv, now' \in 0..MaxTime, now <= now', UNCHANGED ext4_dio_log
  PROVE  /\ ext4_dio_log' \in Seq(LogRecords)
         /\ \A k \in 1..Len(ext4_dio_log') : Past(ext4_dio_log[k].event)'
<1>1. ext4_dio_log \in Seq(LogRecords) /\ now \in Nat /\ now' \in Nat
  BY Constants DEF TypeInv, Typed, LogRecords
<1>2. ASSUME NEW k \in 1..Len(ext4_dio_log) PROVE Past(ext4_dio_log[k].event)'
  <2>1. ext4_dio_log[k] \in LogRecords
    BY <1>1
  <2>2. ext4_dio_log[k].event \in Events /\ Past(ext4_dio_log[k].event)
    BY <2>1 DEF TypeInv, LogRecords
  <2> QED BY <1>1, <2>2, StaysPast DEF Past
<1> QED BY <1>1, <1>2

LEMMA TickTypes ==
  ASSUME TypeInv, Tick \/ UNCHANGED now
  PROVE  /\ now \in Nat /\ now' \in 0..MaxTime /\ now' \in Nat /\ now <= now'
         /\ Tick => now' = now + 1
BY Constants DEF TypeInv, Typed, Tick

(* The steps that leave the consumer and the ring alone.                   *)
LEMMA CallTypes ==
  ASSUME TypeInv, NEW i \in Iocbs,
         CallStep(i) \/ DioIter(i) \/ GiveUp(i) \/ BioActor(i) \/ CompleteStamp(i) \/ CompleteUnseen(i)
  PROVE  TypeInv'
<1>1. Tick \/ UNCHANGED now
  BY DEF CallStep, SyncCall, ForeignCall, AsyncCall, DioIter, GiveUp, BioActor, CompleteStamp, CompleteUnseen
<1>2. /\ now \in Nat /\ now' \in 0..MaxTime /\ now' \in Nat /\ now <= now'
      /\ Tick => now' = now + 1
  BY <1>1, TickTypes
<1>3. /\ UNCHANGED <<other, ext4_dio_log, files>>
  BY DEF CallStep, SyncCall, ForeignCall, AsyncCall, Call, DioIter, GiveUp, BioActor, CompleteStamp,
         CompleteUnseen, Over, maps
<1>4. /\ ext4_dio_log' \in Seq(LogRecords)
      /\ \A k \in 1..Len(ext4_dio_log') : Past(ext4_dio_log[k].event)'
  BY <1>2, <1>3, SameRing
<1>5. /\ istate \in [Iocbs -> {"idle", "called", "ext4", "mapped", "stamped"}]
      /\ io \in [Iocbs -> Calls] /\ stale \subseteq Iocbs
      /\ \A j \in Iocbs : io[j].began \in Nat /\ io[j].began <= now
      /\ other \in [type : dio_type, at : 0..now, calls : 0..OtherMax]
      /\ dio_write_start \in 0..now /\ dio_read_start \in 0..now
      /\ event_cache \in [Iocbs -> Events] /\ \A j \in Iocbs : Past(event_cache[j])
  BY DEF TypeInv, Typed, Calls
<1>6. /\ istate' \in [Iocbs -> {"idle", "called", "ext4", "mapped", "stamped"}]
      /\ stale' \subseteq Iocbs
  BY <1>5 DEF CallStep, SyncCall, ForeignCall, AsyncCall, Call, DioIter, GiveUp, BioActor, CompleteStamp,
         CompleteUnseen, Over, Goto
<1>7. io' \in [Iocbs -> Calls] /\ \A j \in Iocbs : io'[j].began <= now'
  <2>1. ASSUME NEW c \in Calls, c.began <= now', io' = [io EXCEPT ![i] = c]
        PROVE  io' \in [Iocbs -> Calls] /\ \A j \in Iocbs : io'[j].began <= now'
    BY <1>2, <1>5, <2>1
  <2>2. NoCall \in Calls /\ NoCall.began <= now'
    <3>1. 0 <= now'
      BY <1>2
    <3> QED BY <3>1, Constants DEF NoCall
  <2>3. ASSUME NEW type \in dio_type, SyncCall(i, type)
        PROVE  \E c \in Calls : c.began <= now' /\ io' = [io EXCEPT ![i] = c]
    <3> DEFINE c == [type |-> type, sync |-> TRUE, own |-> TRUE, oldest |-> Oldest(type), began |-> 0]
    <3>1. c \in Calls /\ c.began <= now'
      BY <1>2, <1>5 DEF Oldest, Calls
    <3>2. io' = [io EXCEPT ![i] = c]
      BY <2>3 DEF SyncCall, Call
    <3> HIDE DEF c
    <3> QED BY <3>1, <3>2
  <2>4. ASSUME NEW type \in dio_type, AsyncCall(i, type)
        PROVE  \E c \in Calls : c.began <= now' /\ io' = [io EXCEPT ![i] = c]
    <3> DEFINE c == [NoCall EXCEPT !.type = type, !.sync = FALSE]
    <3>1. c \in Calls /\ c.began <= now'
      BY <2>2 DEF Calls
    <3>2. io' = [io EXCEPT ![i] = c]
      BY <2>4 DEF AsyncCall, Call
    <3> HIDE DEF c
    <3> QED BY <3>1, <3>2
  <2>5. ASSUME ForeignCall(i)
        PROVE  \E c \in Calls : c.began <= now' /\ io' = [io EXCEPT ![i] = c]
    <3> DEFINE c == [NoCall EXCEPT !.own = FALSE]
    <3>1. c \in Calls /\ c.began <= now'
      BY <2>2 DEF Calls
    <3>2. io' = [io EXCEPT ![i] = c]
      BY <2>5 DEF ForeignCall, Call
    <3> HIDE DEF c
    <3> QED BY <3>1, <3>2
  <2>6. CASE GiveUp(i) \/ CompleteUnseen(i)
    BY <2>1, <2>2, <2>6 DEF GiveUp, CompleteUnseen, Over
  <2>7. CASE DioIter(i) /\ io[i].own
    <3> DEFINE c == [io[i] EXCEPT !.began = now + 1]
    <3>1. c \in Calls /\ c.began = now + 1
      BY <1>2, <1>5 DEF Calls
    <3>2. io' = [io EXCEPT ![i] = c] /\ now' = now + 1
      BY <1>2, <2>7 DEF DioIter
    <3>3. c.began <= now'
      BY <1>2, <3>1, <3>2
    <3> HIDE DEF c
    <3> QED BY <2>1, <3>1, <3>2, <3>3
  <2>8. CASE UNCHANGED io
    BY <1>2, <1>5, <2>8
  <2> QED
    BY <2>1, <2>3, <2>4, <2>5, <2>6, <2>7, <2>8
    DEF CallStep, DioIter, BioActor, CompleteStamp
<1>8. event_cache' \in [Iocbs -> Events] /\ \A j \in Iocbs : Past(event_cache[j])'
  <2>1. CASE UNCHANGED event_cache
    BY <1>2, <2>1, SameEvents
  <2>2. CASE DioIter(i) /\ ~UNCHANGED event_cache
    <3> DEFINE e == [start_dio |-> StartOf(io[i].type), start_ext4 |-> now + 1, start_block_io |-> 0,
                     end_block_io |-> 0, type |-> io[i].type]
    <3>0. StartOf(io[i].type) \in 0..now /\ io[i].type \in dio_type /\ now' = now + 1
      BY <1>2, <1>5, <2>2 DEF DioIter, StartOf, Calls
    <3>1. e \in Events /\ e.start_dio <= now' /\ e.start_ext4 <= now' /\ e.start_block_io <= now'
          /\ e.end_block_io <= now'
      BY <1>2, <3>0 DEF Events
    <3>2. event_cache' = [event_cache EXCEPT ![i] = e]
      BY <2>2 DEF DioIter, NoEvent
    <3> HIDE DEF e
    <3> QED BY <1>2, <3>1, <3>2, OneEvent
  <2>3. CASE BioActor(i) /\ ~UNCHANGED event_cache
    <3> DEFINE e == [event_cache[i] EXCEPT !.start_block_io = now + 1]
    <3>1. e \in Events /\ e.start_dio <= now' /\ e.start_ext4 <= now' /\ e.start_block_io <= now'
          /\ e.end_block_io <= now'
      BY <1>2, <1>5, <2>3 DEF BioActor, Events, Past
    <3>2. event_cache' = [event_cache EXCEPT ![i] = e]
      BY <2>3 DEF BioActor
    <3> HIDE DEF e
    <3> QED BY <1>2, <3>1, <3>2, OneEvent
  <2>4. CASE CompleteStamp(i)
    <3> DEFINE e == [event_cache[i] EXCEPT !.end_block_io = now + 1]
    <3>1. e \in Events /\ e.start_dio <= now' /\ e.start_ext4 <= now' /\ e.start_block_io <= now'
          /\ e.end_block_io <= now'
      BY <1>2, <1>5, <2>4 DEF CompleteStamp, Events, Past
    <3>2. event_cache' = [event_cache EXCEPT ![i] = e]
      BY <2>4 DEF CompleteStamp
    <3> HIDE DEF e
    <3> QED BY <1>2, <3>1, <3>2, OneEvent
  <2> QED
    BY <2>1, <2>2, <2>3, <2>4
    DEF CallStep, SyncCall, ForeignCall, AsyncCall, Call, GiveUp, CompleteUnseen, maps
<1>9. /\ other' \in [type : dio_type, at : 0..now', calls : 0..OtherMax]
      /\ dio_write_start' \in 0..now' /\ dio_read_start' \in 0..now'
  <2>1. ASSUME NEW type \in dio_type, SyncCall(i, type)
        PROVE  dio_write_start' \in 0..now' /\ dio_read_start' \in 0..now'
    BY <1>2, <1>5, <2>1 DEF SyncCall, Start
  <2>2. UNCHANGED <<dio_write_start, dio_read_start>> \/ \E type \in dio_type : SyncCall(i, type)
    BY DEF CallStep, ForeignCall, AsyncCall, DioIter, GiveUp, BioActor, CompleteStamp,
           CompleteUnseen, maps
  <2>3. other' \in [type : dio_type, at : 0..now', calls : 0..OtherMax]
    BY <1>2, <1>3, <1>5
  <2> QED BY <1>2, <1>5, <2>1, <2>2, <2>3
<1>10. /\ event_data' \in EventRows /\ event_rows' \in Seq(Nat) /\ meta_rows' \in Seq(Nat)
       /\ start_time' \in 0..now' /\ passed' \in Word
  BY <1>2, <1>3 DEF TypeInv, Typed, files
<1> QED BY <1>2, <1>4, <1>6, <1>7, <1>8, <1>9, <1>10 DEF TypeInv, Typed, LogRecords

(* A record that the ring takes or refuses.                                *)
LEMMA EmitTypes ==
  ASSUME TypeInv, NEW i \in Iocbs, CompleteEmit(i)
  PROVE  TypeInv'
<1> DEFINE rec == [event |-> event_cache[i], io |-> io[i], stale |-> i \in stale]
<1>1. /\ UNCHANGED <<other, now, dio_write_start, dio_read_start, files>>
      /\ istate' = [istate EXCEPT ![i] = "idle"] /\ io' = [io EXCEPT ![i] = NoCall]
      /\ ext4_dio_log' = IF RingRoom THEN Append(ext4_dio_log, rec) ELSE ext4_dio_log
      /\ event_cache' = [event_cache EXCEPT ![i] = NoEvent] /\ stale' = stale \ {i}
  BY DEF CompleteEmit, Goto, Forget
<1>2. /\ ext4_dio_log \in Seq(LogRecords) /\ now \in 0..MaxTime /\ now' = now /\ now \in Nat
      /\ io \in [Iocbs -> Calls] /\ event_cache \in [Iocbs -> Events]
      /\ \A j \in Iocbs : Past(event_cache[j]) /\ io[j].began <= now
  BY <1>1, Constants DEF TypeInv, Typed, LogRecords
<1>3. rec \in LogRecords /\ Past(rec.event)
  BY <1>2 DEF LogRecords
<1>4. /\ ext4_dio_log' \in Seq(LogRecords)
      /\ \A k \in 1..Len(ext4_dio_log') : Past(ext4_dio_log[k].event)'
  <2>1. CASE ~RingRoom
    BY <1>1, <1>2, <2>1, SameRing
  <2>2. CASE RingRoom
    <3>1. ext4_dio_log' = Append(ext4_dio_log, rec)
      BY <1>1, <2>2
    <3> HIDE DEF rec
    <3>2. /\ ext4_dio_log' \in Seq(LogRecords) /\ Len(ext4_dio_log') = Len(ext4_dio_log) + 1
          /\ \A k \in 1..Len(ext4_dio_log') :
               ext4_dio_log'[k] = rec \/ (k \in 1..Len(ext4_dio_log) /\ ext4_dio_log'[k] = ext4_dio_log[k])
      BY <1>2, <1>3, <3>1
    <3>3. \A k \in 1..Len(ext4_dio_log) : Past(ext4_dio_log[k].event)
      BY DEF TypeInv
    <3> QED BY <1>2, <1>3, <3>2, <3>3 DEF Past
  <2> QED BY <2>1, <2>2
<1>5. NoEvent.start_dio = 0 /\ NoEvent.start_ext4 = 0 /\ NoEvent.start_block_io = 0
      /\ NoEvent.end_block_io = 0 /\ NoCall.began = 0
  BY DEF NoEvent, NoCall
<1>6. event_cache' \in [Iocbs -> Events] /\ \A j \in Iocbs : Past(event_cache[j])'
  <2>1. /\ NoEvent.start_dio <= now' /\ NoEvent.start_ext4 <= now'
        /\ NoEvent.start_block_io <= now' /\ NoEvent.end_block_io <= now'
    BY <1>2, <1>5
  <2>2. now' \in 0..MaxTime /\ now <= now' /\ NoEvent \in Events
    BY <1>2, Constants
  <2> QED BY <1>1, <2>1, <2>2, OneEvent
<1>7. io' \in [Iocbs -> Calls] /\ \A j \in Iocbs : io'[j].began <= now'
  <2>1. NoCall \in Calls /\ NoCall.began <= now
    BY <1>2, <1>5, Constants
  <2> QED BY <1>1, <1>2, <2>1
<1> QED BY <1>1, <1>2, <1>4, <1>6, <1>7 DEF TypeInv, Typed, LogRecords, files

(* A record that the consumer takes.                                       *)
LEMMA ProxyTypes ==
  ASSUME TypeInv, Proxy
  PROVE  TypeInv'
<1> DEFINE rec == Head(ext4_dio_log)
<1>1. /\ UNCHANGED <<istate, io, other, now, dio_write_start, dio_read_start, event_cache, stale>>
      /\ ext4_dio_log # <<>> /\ ext4_dio_log' = Tail(ext4_dio_log)
      /\ event_data' = EventRow(rec.event) /\ CommitThroughput(rec.event.end_block_io)
      /\ event_rows' = event_rows \/ event_rows' = Append(event_rows, rec.io.began)
      /\ meta_rows' = meta_rows \/ meta_rows' = Append(meta_rows, rec.io.began)
  BY DEF Proxy, kernel, MetaRows
<1>2. ext4_dio_log \in Seq(LogRecords) /\ now \in 0..MaxTime
      /\ \A k \in 1..Len(ext4_dio_log) : Past(ext4_dio_log[k].event)
  BY DEF TypeInv, Typed, LogRecords
<1>3. /\ rec = ext4_dio_log[1] /\ 1 \in 1..Len(ext4_dio_log) /\ rec \in LogRecords
      /\ ext4_dio_log' \in Seq(LogRecords)
      /\ \A k \in 1..Len(ext4_dio_log') :
           k + 1 \in 1..Len(ext4_dio_log) /\ ext4_dio_log'[k] = ext4_dio_log[k + 1]
  BY <1>1, <1>2
<1>4. rec.event \in Events /\ Past(rec.event) /\ rec.io \in Calls
  BY <1>2, <1>3 DEF LogRecords
<1>5. event_data' \in EventRows
  BY <1>1, <1>2, <1>4, RowTyped
<1>6. event_rows' \in Seq(Nat) /\ meta_rows' \in Seq(Nat)
  <2>1. event_rows \in Seq(Nat) /\ meta_rows \in Seq(Nat) /\ rec.io.began \in Nat
    BY <1>4 DEF TypeInv, Typed, Calls
  <2> DEFINE b == rec.io.began
  <2>2. b \in Nat /\ (event_rows' = event_rows \/ event_rows' = Append(event_rows, b))
        /\ (meta_rows' = meta_rows \/ meta_rows' = Append(meta_rows, b))
    BY <1>1, <2>1
  <2> HIDE DEF b
  <2>3. Append(event_rows, b) \in Seq(Nat) /\ Append(meta_rows, b) \in Seq(Nat)
    BY <2>1, <2>2, AppendProperties
  <2> QED BY <2>1, <2>2, <2>3
<1>7. start_time' \in 0..now' /\ passed' \in Word
  <2> DEFINE tp == rec.event.end_block_io
  <2>1. tp \in 0..now /\ start_time \in 0..now
    BY <1>2, <1>4, SMTT(30) DEF Past, Events, TypeInv, Typed
  <2>2. start_time' \in 0..now /\ passed' = Sub(tp, start_time')
    BY <1>1, <2>1 DEF CommitThroughput
  <2>3. tp \in 0..MaxTime /\ start_time' \in 0..MaxTime
    BY <1>2, <2>1, <2>2, Constants
  <2> HIDE DEF tp
  <2> QED BY <1>1, <2>2, <2>3, SubWord
<1>8. \A k \in 1..Len(ext4_dio_log') : Past(ext4_dio_log[k].event)'
  BY <1>1, <1>2, <1>3 DEF Past
<1> QED BY <1>1, <1>3, <1>5, <1>6, <1>7, <1>8 DEF TypeInv, Typed, LogRecords, Past

LEMMA OtherTypes ==
  ASSUME TypeInv, OtherStore \/ \E type \in dio_type : OtherStamp(type)
  PROVE  TypeInv'
<1>1. Tick \/ UNCHANGED now
  BY DEF OtherStore, OtherStamp
<1>2. /\ now \in Nat /\ now' \in 0..MaxTime /\ now' \in Nat /\ now <= now'
      /\ Tick => now' = now + 1
  BY <1>1, TickTypes
<1>3. UNCHANGED <<istate, io, event_cache, ext4_dio_log, stale, files>>
  BY DEF OtherStore, OtherStamp, maps
<1>4. /\ other \in [type : dio_type, at : 0..now, calls : 0..OtherMax]
      /\ dio_write_start \in 0..now /\ dio_read_start \in 0..now
      /\ \A j \in Iocbs : io[j].began \in Nat /\ io[j].began <= now
  BY DEF TypeInv, Typed, Calls
<1>5. /\ event_cache' \in [Iocbs -> Events] /\ \A j \in Iocbs : Past(event_cache[j])'
      /\ ext4_dio_log' \in Seq(LogRecords)
      /\ \A k \in 1..Len(ext4_dio_log') : Past(ext4_dio_log[k].event)'
  BY <1>2, <1>3, SameEvents, SameRing
<1>6. /\ other' \in [type : dio_type, at : 0..now', calls : 0..OtherMax]
      /\ dio_write_start' \in 0..now' /\ dio_read_start' \in 0..now'
  <2>1. CASE OtherStore
    BY <1>2, <1>4, <2>1 DEF OtherStore, Start, NoOther, dio_type
  <2>2. ASSUME NEW type \in dio_type, OtherStamp(type)
        PROVE  /\ other' \in [type : dio_type, at : 0..now', calls : 0..OtherMax]
               /\ dio_write_start' \in 0..now' /\ dio_read_start' \in 0..now'
    BY <1>2, <1>4, <2>2, Constants DEF OtherStamp, maps
  <2> QED BY <2>1, <2>2
<1> QED BY <1>2, <1>3, <1>4, <1>5, <1>6 DEF TypeInv, Typed, LogRecords, files

(* No variable leaves its range, no stamp runs ahead of the clock, and the *)
(* columns of a row are words.                                             *)
THEOREM TypeInvariant == Spec => []TypeInv
<1>1. Init => TypeInv
  <2> SUFFICES ASSUME Init PROVE TypeInv
    OBVIOUS
  <2>1. NoEvent.start_dio = 0 /\ NoEvent.start_ext4 = 0 /\ NoEvent.start_block_io = 0
        /\ NoEvent.end_block_io = 0 /\ NoCall.began = 0
    BY DEF NoEvent, NoCall
  <2>2. now = 0 /\ Past(NoEvent) /\ now \in 0..MaxTime
    BY <2>1, Constants DEF Init, Past
  <2>3. event_data \in EventRows
    BY <2>2, Constants, RowTyped DEF Init
  <2>4. \A i \in Iocbs : Past(event_cache[i]) /\ io[i].began <= now
    BY <2>1, <2>2 DEF Init
  <2>5. other \in [type : dio_type, at : 0..now, calls : 0..OtherMax]
    BY <2>2, Constants DEF Init, NoOther
  <2>6. start_time \in 0..now /\ passed \in Word
    BY <2>2, Constants DEF Init, Word
  <2> QED BY <2>2, <2>3, <2>4, <2>5, <2>6, Constants DEF Init, TypeInv, Typed, LogRecords
<1>2. TypeInv /\ [Next]_vars => TypeInv'
  <2> SUFFICES ASSUME TypeInv, [Next]_vars PROVE TypeInv'
    OBVIOUS
  <2>1. CASE UNCHANGED vars
    BY <2>1 DEF vars, TypeInv, Typed, Past
  <2> QED
    BY <2>1, CallTypes, EmitTypes, ProxyTypes, OtherTypes DEF Next, Horizon
<1> QED BY <1>1, <1>2, PTL DEF Spec

(* The map takes a key only when it has room, and so does the ring buffer; *)
(* a probe that stamps an event found it in the map.                       *)
CapacityInv == IsFiniteSet(Cached) /\ WithinCapacity

LEMMA FewerCached ==
  ASSUME CapacityInv, Cached' \subseteq Cached
  PROVE  IsFiniteSet(Cached') /\ Cardinality(Cached') <= EventCacheMax
<1>1. Cached' \in SUBSET Cached OBVIOUS
<1>2. IsFiniteSet(Cached') /\ Cardinality(Cached') <= Cardinality(Cached)
  BY <1>1, FS_Subset DEF CapacityInv
<1>3. Cardinality(Cached') \in Nat /\ Cardinality(Cached) \in Nat
  BY <1>2, FS_CardinalityType DEF CapacityInv
<1> QED BY <1>2, <1>3, Ext4DioSimpleAssumption DEF CapacityInv, WithinCapacity

LEMMA CacheBound ==
  ASSUME TypeInv, CapacityInv, [Next]_vars
  PROVE  IsFiniteSet(Cached') /\ Cardinality(Cached') <= EventCacheMax
<1>0. event_cache \in [Iocbs -> Events] BY DEF TypeInv, Typed
<1>1. ASSUME NEW i \in Iocbs, DioIter(i)
      PROVE  IsFiniteSet(Cached') /\ Cardinality(Cached') <= EventCacheMax
  <2>1. CASE UNCHANGED event_cache
    <3>1. Cached' \subseteq Cached BY <2>1 DEF Cached, Has
    <3> QED BY <3>1, FewerCached
  <2>2. CASE CacheRoom /\ ~Has(i) /\ \E e \in Events : event_cache' = [event_cache EXCEPT ![i] = e]
    <3>1. Cached' \in SUBSET (Cached \cup {i}) BY <1>0, <2>2 DEF Cached, Has
    <3>2. IsFiniteSet(Cached \cup {i}) /\ Cardinality(Cached \cup {i}) = Cardinality(Cached) + 1
      <4>1. i \notin Cached BY <2>2 DEF Cached
      <4> QED BY <4>1, FS_AddElement DEF CapacityInv
    <3>3. Cardinality(Cached) < EventCacheMax BY <2>2 DEF CacheRoom, Cached
    <3>4. IsFiniteSet(Cached') /\ Cardinality(Cached') <= Cardinality(Cached \cup {i})
      BY <3>1, <3>2, FS_Subset
    <3>5. Cardinality(Cached') \in Nat /\ Cardinality(Cached) \in Nat
      BY <3>4, FS_CardinalityType DEF CapacityInv
    <3> QED BY <3>2, <3>3, <3>4, <3>5, Ext4DioSimpleAssumption
  <2>3. ~UNCHANGED event_cache => io[i].own /\ Tick /\ ~Has(i) /\ CacheRoom
    BY <1>1 DEF DioIter
  <2>4. ~UNCHANGED event_cache => \E e \in Events : event_cache' = [event_cache EXCEPT ![i] = e]
    <3> SUFFICES ASSUME ~UNCHANGED event_cache
                 PROVE  \E e \in Events : event_cache' = [event_cache EXCEPT ![i] = e]
      OBVIOUS
    <3> DEFINE e == [start_dio |-> StartOf(io[i].type), start_ext4 |-> now + 1, start_block_io |-> 0,
                     end_block_io |-> 0, type |-> io[i].type]
    <3>1. event_cache' = [event_cache EXCEPT ![i] = e] BY <1>1, <2>3 DEF DioIter, NoEvent
    <3>2. e \in Events
      <4>1. io[i].type \in dio_type /\ now \in Nat /\ StartOf(io[i].type) \in Nat
        BY Constants DEF TypeInv, Typed, Calls, StartOf
      <4> QED BY <4>1 DEF Events
    <3> QED BY <3>1, <3>2
  <2> QED BY <2>1, <2>2, <2>3, <2>4
<1>2. ASSUME NEW i \in Iocbs, BioActor(i) \/ CompleteStamp(i) \/ CompleteEmit(i)
      PROVE  Cached' \subseteq Cached
  <2>1. \A j \in Iocbs : j # i => event_cache'[j] = event_cache[j]
    BY <1>0, <1>2 DEF BioActor, CompleteStamp, CompleteEmit, Forget
  <2>2. Has(i) \/ UNCHANGED event_cache \/ event_cache'[i] = NoEvent
    BY <1>0, <1>2 DEF BioActor, CompleteStamp, CompleteEmit, Forget
  <2> QED BY <2>1, <2>2 DEF Cached, Has
<1>3. CASE UNCHANGED event_cache
  <2>1. Cached' \subseteq Cached BY <1>3 DEF Cached, Has
  <2> QED BY <2>1, FewerCached
<1>4. \/ UNCHANGED event_cache
      \/ \E i \in Iocbs : DioIter(i) \/ BioActor(i) \/ CompleteStamp(i) \/ CompleteEmit(i)
  BY DEF Next, Horizon, vars, maps, CallStep, ForeignCall, SyncCall, AsyncCall, Call, OtherStamp,
         OtherStore, GiveUp, CompleteUnseen, Proxy
<1> QED BY <1>1, <1>2, <1>3, <1>4, FewerCached

LEMMA RingBound ==
  ASSUME TypeInv, Len(ext4_dio_log) <= RingMax, [Next]_vars
  PROVE  Len(ext4_dio_log') <= RingMax
<1>0. ext4_dio_log \in Seq(LogRecords) /\ Len(ext4_dio_log) \in Nat /\ RingMax \in Nat
  BY Ext4DioSimpleAssumption DEF TypeInv, Typed, LogRecords
<1>1. ASSUME NEW i \in Iocbs, CompleteEmit(i) PROVE Len(ext4_dio_log') <= RingMax
  <2> DEFINE r == [event |-> event_cache[i], io |-> io[i], stale |-> i \in stale]
  <2>1. ext4_dio_log' = IF RingRoom THEN Append(ext4_dio_log, r) ELSE ext4_dio_log
    BY <1>1 DEF CompleteEmit
  <2> HIDE DEF r
  <2>2. Len(Append(ext4_dio_log, r)) = Len(ext4_dio_log) + 1 BY <1>0
  <2> QED BY <1>0, <2>1, <2>2 DEF RingRoom
<1>2. CASE Proxy
  <2>1. ext4_dio_log # <<>> /\ ext4_dio_log' = Tail(ext4_dio_log) BY <1>2 DEF Proxy
  <2> QED BY <1>0, <2>1
<1>3. \/ UNCHANGED ext4_dio_log
      \/ Proxy \/ \E i \in Iocbs : CompleteEmit(i)
  BY DEF Next, Horizon, vars, maps, CallStep, ForeignCall, SyncCall, AsyncCall, Call, OtherStamp,
         OtherStore, DioIter, GiveUp, BioActor, CompleteStamp, CompleteUnseen
<1> QED BY <1>0, <1>1, <1>2, <1>3

(* Every variable keeps its range, and the map and the ring buffer their   *)
(* capacities (TypeOK).                                                    *)
THEOREM TypeCorrect == Spec => []TypeOK
<1>1. Init => CapacityInv
  <2> HAVE Init
  <2>1. Cached = {} BY DEF Init, Cached, Has
  <2>2. Len(ext4_dio_log) = 0 BY DEF Init
  <2> QED BY <2>1, <2>2, FS_EmptySet, Ext4DioSimpleAssumption DEF CapacityInv, WithinCapacity
<1>2. TypeInv /\ CapacityInv /\ [Next]_vars => CapacityInv'
  <2> SUFFICES ASSUME TypeInv, CapacityInv, [Next]_vars PROVE CapacityInv' OBVIOUS
  <2>1. IsFiniteSet(Cached') /\ Cardinality(Cached') <= EventCacheMax BY CacheBound
  <2>2. Len(ext4_dio_log') <= RingMax BY RingBound DEF CapacityInv, WithinCapacity
  <2> QED BY <2>1, <2>2 DEF CapacityInv, WithinCapacity
<1>3. TypeInv /\ CapacityInv => TypeOK BY DEF TypeInv, CapacityInv, TypeOK
<1> QED BY <1>1, <1>2, <1>3, TypeInvariant, PTL DEF Spec

(* Whatever the t-digest answers, the two files have the same rows.        *)
THEOREM FilesStayAligned == Spec => []RowsAligned
<1>1. Init => RowsAligned
  BY DEF Init, RowsAligned
<1>2. RowsAligned /\ [Next]_vars => RowsAligned'
  <2> SUFFICES ASSUME RowsAligned, [Next]_vars PROVE RowsAligned'
    OBVIOUS
  <2>1. CASE Proxy
    BY <2>1 DEF Proxy, MetaRows, RowsAligned
  <2>2. CASE ~Proxy
    <3>1. UNCHANGED <<event_rows, meta_rows>>
      BY <2>2
      DEF Next, Horizon, vars, files, CallStep, ForeignCall, SyncCall, AsyncCall, Call, OtherStamp,
          OtherStore, DioIter, GiveUp, BioActor, CompleteStamp, CompleteUnseen, CompleteEmit
    <3> QED BY <3>1 DEF RowsAligned
  <2> QED BY <2>1, <2>2
<1> QED BY <1>1, <1>2, PTL DEF Spec

-----------------------------------------------------------------------------
(* Why a record is about its call.  An event found in the cache is that of *)
(* the call at its address, or is known to be left from an earlier one; a  *)
(* call that has not reached ext4 is no younger than the start time it     *)
(* will be given, nor than the one that another CPU is about to store.     *)
EventOfCall(e, c) ==
  /\ e.start_ext4 = c.began /\ e.type = c.type /\ e.start_dio <= e.start_ext4
  /\ e.start_block_io # 0 => e.start_ext4 < e.start_block_io
  /\ c.sync => c.oldest <= e.start_dio

Ended(e) == e.start_block_io # 0 => e.start_block_io < e.end_block_io

Found(i) ==
  /\ i \in stale => Has(i)
  /\ istate[i] = "stamped" => Has(i)
  /\ Has(i) /\ i \notin stale =>
       /\ istate[i] \in {"ext4", "mapped", "stamped"}
       /\ EventOfCall(event_cache[i], io[i])
       /\ istate[i] = "stamped" => Ended(event_cache[i])

Awaits(i) ==
  istate[i] = "called" /\ io[i].sync =>
    /\ io[i].oldest <= StartOf(io[i].type)
    /\ other.at # 0 /\ other.type = io[i].type => io[i].oldest <= other.at

RecordInv ==
  \A k \in 1..Len(ext4_dio_log) :
    ~ext4_dio_log[k].stale =>
      EventOfCall(ext4_dio_log[k].event, ext4_dio_log[k].io) /\ Ended(ext4_dio_log[k].event)

CallInv == RecordInv /\ \A i \in Iocbs : Found(i) /\ Awaits(i)

ActOn(i) ==
  \/ CallStep(i) \/ DioIter(i) \/ GiveUp(i) \/ BioActor(i) \/ CompleteStamp(i)
  \/ CompleteUnseen(i) \/ CompleteEmit(i)

LEMMA OthersUndisturbed ==
  ASSUME TypeInv, NEW i \in Iocbs, ActOn(i), NEW j \in Iocbs, j # i
  PROVE  /\ istate'[j] = istate[j] /\ io'[j] = io[j] /\ event_cache'[j] = event_cache[j]
         /\ j \in stale' <=> j \in stale
<1>1. istate \in [Iocbs -> {"idle", "called", "ext4", "mapped", "stamped"}]
      /\ io \in [Iocbs -> Calls] /\ event_cache \in [Iocbs -> Events]
  BY DEF TypeInv, Typed
<1>2. istate'[j] = istate[j] /\ io'[j] = io[j]
  BY <1>1 DEF ActOn, CallStep, SyncCall, ForeignCall, AsyncCall, Call, DioIter, GiveUp, BioActor,
              CompleteStamp, CompleteUnseen, CompleteEmit, Over, Goto
<1>3. event_cache'[j] = event_cache[j]
  BY <1>1 DEF ActOn, CallStep, SyncCall, ForeignCall, AsyncCall, Call, DioIter, GiveUp, BioActor,
              CompleteStamp, CompleteUnseen, CompleteEmit, Forget, maps
<1>4. j \in stale' <=> j \in stale
  BY DEF ActOn, CallStep, SyncCall, ForeignCall, AsyncCall, Call, DioIter, GiveUp, BioActor,
         CompleteStamp, CompleteUnseen, CompleteEmit, Over
<1> QED BY <1>2, <1>3, <1>4

(* What a call's own steps do to what is found at its address.             *)
LEMMA FoundStep ==
  ASSUME TypeInv, NEW i \in Iocbs, Found(i), Awaits(i), ActOn(i)
  PROVE  Found(i)'
<1>1. /\ istate \in [Iocbs -> {"idle", "called", "ext4", "mapped", "stamped"}]
      /\ io \in [Iocbs -> Calls] /\ event_cache \in [Iocbs -> Events]
      /\ now \in Nat /\ Past(event_cache[i]) /\ io[i].began <= now
      /\ dio_write_start \in 0..now /\ dio_read_start \in 0..now /\ stale \subseteq Iocbs
  BY Constants DEF TypeInv, Typed
<1>2. CASE CallStep(i)
  <2>1. istate[i] = "idle" /\ istate'[i] = "called" /\ UNCHANGED <<event_cache, stale>>
    BY <1>1, <1>2 DEF CallStep, SyncCall, ForeignCall, AsyncCall, Call, Goto
  <2> QED BY <2>1 DEF Found, Has
<1>3. CASE DioIter(i)
  <2>1. istate[i] = "called" /\ istate'[i] = "ext4" /\ UNCHANGED stale
    BY <1>1, <1>3 DEF DioIter, Goto
  <2>2. CASE UNCHANGED event_cache
    BY <2>1, <2>2 DEF Found, Has
  <2>3. CASE ~UNCHANGED event_cache
    <3>1. /\ io[i].own /\ ~Has(i) /\ now' = now + 1
          /\ io' = [io EXCEPT ![i].began = now + 1]
          /\ event_cache' = [event_cache EXCEPT ![i] =
                               [NoEvent EXCEPT !.start_dio = StartOf(io[i].type),
                                               !.start_ext4 = now + 1, !.type = io[i].type]]
      BY <1>3, <2>3 DEF DioIter, Tick
    <3>2. /\ event_cache'[i].start_dio = StartOf(io[i].type) /\ event_cache'[i].start_ext4 = now + 1
          /\ event_cache'[i].type = io[i].type /\ event_cache'[i].start_block_io = 0
      BY <1>1, <3>1 DEF NoEvent
    <3>3. /\ io'[i].began = now + 1 /\ io'[i].type = io[i].type /\ io'[i].sync = io[i].sync
          /\ io'[i].oldest = io[i].oldest
      BY <1>1, <3>1 DEF Calls
    <3>4. StartOf(io[i].type) \in 0..now /\ (io[i].sync => io[i].oldest <= StartOf(io[i].type))
      BY <1>1, <2>1 DEF StartOf, Awaits
    <3>5. i \notin stale
      BY <3>1 DEF Found
    <3>6. EventOfCall(event_cache[i], io[i])'
      BY <1>1, <3>2, <3>3, <3>4 DEF EventOfCall
    <3>7. event_cache'[i] # NoEvent
      BY <1>1, <3>2 DEF NoEvent
    <3> QED BY <2>1, <3>5, <3>6, <3>7 DEF Found, Has
  <2> QED BY <2>2, <2>3
<1>4. CASE GiveUp(i) \/ CompleteUnseen(i)
  <2>1. /\ istate'[i] = "idle" /\ UNCHANGED event_cache
        /\ stale' = IF Has(i) THEN stale \cup {i} ELSE stale
    BY <1>1, <1>4 DEF GiveUp, CompleteUnseen, Over, Goto, maps
  <2> QED BY <2>1 DEF Found, Has
<1>5. CASE BioActor(i)
  <2>1. /\ istate[i] \in {"ext4", "mapped"} /\ istate'[i] = "mapped" /\ UNCHANGED <<stale, io>>
    BY <1>1, <1>5 DEF BioActor, Goto
  <2>2. CASE UNCHANGED event_cache
    BY <2>1, <2>2 DEF Found, Has
  <2>3. CASE ~UNCHANGED event_cache
    <3>1. Has(i) /\ event_cache' = [event_cache EXCEPT ![i].start_block_io = now + 1]
      BY <1>5, <2>3 DEF BioActor
    <3>2. /\ event_cache'[i].start_dio = event_cache[i].start_dio
          /\ event_cache'[i].start_ext4 = event_cache[i].start_ext4
          /\ event_cache'[i].type = event_cache[i].type /\ event_cache'[i].start_block_io = now + 1
          /\ event_cache[i].start_ext4 \in Nat
      BY <1>1, <3>1 DEF Events
    <3>3. event_cache'[i] # NoEvent
      BY <1>1, <3>2 DEF NoEvent
    <3>4. EventOfCall(event_cache[i], io[i]) => EventOfCall(event_cache[i], io[i])'
      BY <1>1, <2>1, <3>2 DEF EventOfCall, Past
    <3> QED BY <2>1, <3>1, <3>3, <3>4 DEF Found, Has
  <2> QED BY <2>2, <2>3
<1>6. CASE CompleteStamp(i)
  <2>1. /\ istate'[i] = "stamped" /\ UNCHANGED <<stale, io>> /\ Has(i)
        /\ istate[i] \in {"ext4", "mapped"}
        /\ event_cache' = [event_cache EXCEPT ![i].end_block_io = now + 1]
    BY <1>1, <1>6 DEF CompleteStamp, Goto
  <2>2. /\ event_cache'[i].start_dio = event_cache[i].start_dio
        /\ event_cache'[i].start_ext4 = event_cache[i].start_ext4
        /\ event_cache'[i].type = event_cache[i].type /\ event_cache'[i].end_block_io = now + 1
        /\ event_cache'[i].start_block_io = event_cache[i].start_block_io
        /\ event_cache[i].start_block_io \in Nat
    BY <1>1, <2>1 DEF Events
  <2>3. event_cache'[i] # NoEvent
    BY <1>1, <2>2 DEF NoEvent
  <2>4. Ended(event_cache[i])'
    BY <1>1, <2>2 DEF Ended, Past
  <2>5. EventOfCall(event_cache[i], io[i]) => EventOfCall(event_cache[i], io[i])'
    BY <2>1, <2>2 DEF EventOfCall
  <2> QED BY <2>1, <2>3, <2>4, <2>5 DEF Found, Has
<1>7. CASE CompleteEmit(i)
  <2>1. istate'[i] = "idle" /\ event_cache'[i] = NoEvent /\ stale' = stale \ {i}
    BY <1>1, <1>7 DEF CompleteEmit, Goto, Forget
  <2> QED BY <2>1 DEF Found, Has
<1> QED BY <1>2, <1>3, <1>4, <1>5, <1>6, <1>7 DEF ActOn

(* The start times only move forward, and past no pending store.           *)
LEMMA AwaitsStep ==
  ASSUME TypeInv, [Next]_vars, NEW j \in Iocbs, Awaits(j)
  PROVE  Awaits(j)'
<1>1. /\ istate \in [Iocbs -> {"idle", "called", "ext4", "mapped", "stamped"}]
      /\ io \in [Iocbs -> Calls] /\ now \in Nat
      /\ other \in [type : dio_type, at : 0..now, calls : 0..OtherMax]
      /\ dio_write_start \in 0..now /\ dio_read_start \in 0..now
      /\ \A i \in Iocbs : io[i].oldest \in Nat
  BY Constants DEF TypeInv, Typed, Calls
<1>2. ASSUME NEW type \in dio_type, SyncCall(j, type) PROVE Awaits(j)'
  <2>1. /\ now' = now + 1 /\ Start(type, now + 1) /\ UNCHANGED other
        /\ io'[j].type = type /\ io'[j].oldest = Oldest(type)
    BY <1>1, <1>2 DEF SyncCall, Call, Tick
  <2>2. StartOf(type)' = now + 1
    BY <2>1, Constants DEF Start, StartOf
  <2>3. Oldest(type) <= now + 1 /\ (other.at # 0 /\ other.type = type => Oldest(type) <= other.at)
    BY <1>1 DEF Oldest
  <2> QED BY <1>1, <2>1, <2>2, <2>3 DEF Awaits, StartOf
<1>3. ASSUME ForeignCall(j) \/ \E type \in dio_type : AsyncCall(j, type) PROVE Awaits(j)'
  <2>1. UNCHANGED <<dio_write_start, dio_read_start, other>>
        /\ (io'[j].sync => io'[j].oldest = 0)
    BY <1>1, <1>3, ZenonT(40) DEF ForeignCall, AsyncCall, Call, NoCall
  <2> QED BY <1>1, <2>1 DEF Awaits, StartOf
<1>4. ASSUME istate'[j] # "called" \/ (istate'[j] = istate[j] /\ io'[j] = io[j]),
             NEW type \in dio_type, Start(type, now + 1), UNCHANGED other
      PROVE  Awaits(j)'
  <2>1. CASE istate'[j] = "called" /\ io'[j].sync
    <3>1. istate[j] = "called" /\ io[j].sync /\ io'[j] = io[j]
      BY <1>4, <2>1
    <3>2. io[j].oldest <= StartOf(io[j].type) /\ StartOf(io[j].type) <= StartOf(io[j].type)'
      BY <1>1, <1>4, <3>1 DEF Awaits, StartOf, Start
    <3>3. StartOf(io[j].type) \in 0..now /\ StartOf(io[j].type)' \in Nat
      BY <1>1, <1>4 DEF StartOf, Start
    <3>4. io[j].oldest <= StartOf(io[j].type)'
      BY <1>1, <3>2, <3>3
    <3> QED BY <1>4, <3>1, <3>4 DEF Awaits, StartOf
  <2> QED BY <2>1 DEF Awaits
<1>5. ASSUME NEW type \in dio_type, OtherStamp(type) PROVE Awaits(j)'
  <2>1. /\ other'.at = now + 1 /\ UNCHANGED <<istate, io, dio_write_start, dio_read_start>>
    BY <1>5 DEF OtherStamp, maps
  <2>2. StartOf(io[j].type) \in 0..now
    BY <1>1 DEF StartOf
  <2>3. istate[j] = "called" /\ io[j].sync => io[j].oldest <= now + 1
    BY <1>1, <2>2 DEF Awaits
  <2> QED BY <2>1, <2>3 DEF Awaits, StartOf
<1>6. CASE OtherStore
  <2>1. /\ UNCHANGED <<istate, io>> /\ other'.at = 0 /\ other.at # 0 /\ Start(other.type, other.at)
    BY <1>6 DEF OtherStore, NoOther
  <2>2. istate[j] = "called" /\ io[j].sync => io[j].oldest <= StartOf(io[j].type)'
    BY <1>1, <2>1 DEF Awaits, StartOf, Start, Calls, dio_type
  <2> QED BY <2>1, <2>2 DEF Awaits, StartOf
<1>7. ASSUME istate'[j] # "called" \/ (istate'[j] = istate[j] /\ io'[j] = io[j]),
             UNCHANGED <<dio_write_start, dio_read_start, other>>
      PROVE  Awaits(j)'
  BY <1>7 DEF Awaits, StartOf
<1>8. ASSUME NEW i \in Iocbs, ActOn(i) PROVE Awaits(j)'
  <2>1. CASE i = j
    <3>1. CASE ~CallStep(j)
      <4>1. istate'[j] # "called" /\ UNCHANGED <<dio_write_start, dio_read_start, other>>
        BY <1>1, <1>8, <2>1, <3>1
        DEF ActOn, DioIter, GiveUp, BioActor, CompleteStamp, CompleteUnseen, CompleteEmit, Over, Goto, maps
      <4> QED BY <1>7, <4>1
    <3> QED BY <1>2, <1>3, <3>1 DEF CallStep
  <2>2. CASE i # j
    <3>1. istate'[j] = istate[j] /\ io'[j] = io[j]
      BY <1>8, <2>2, OthersUndisturbed
    <3>2. \/ UNCHANGED <<dio_write_start, dio_read_start, other>>
          \/ \E type \in dio_type : Start(type, now + 1) /\ UNCHANGED other
      BY <1>8 DEF ActOn, CallStep, SyncCall, ForeignCall, AsyncCall, Call, DioIter, GiveUp, BioActor,
                  CompleteStamp, CompleteUnseen, CompleteEmit, maps
    <3> QED BY <1>4, <1>7, <3>1, <3>2
  <2> QED BY <2>1, <2>2
<1>9. CASE Proxy \/ Horizon \/ UNCHANGED vars
  BY <1>7, <1>9 DEF Proxy, kernel, Horizon, vars
<1> QED BY <1>5, <1>6, <1>8, <1>9 DEF Next, ActOn

LEMMA RecordStep ==
  ASSUME TypeInv, CallInv, [Next]_vars
  PROVE  RecordInv'
<1>1. ext4_dio_log \in Seq(LogRecords)
  BY DEF TypeInv, Typed, LogRecords
<1>2. ASSUME NEW i \in Iocbs, CompleteEmit(i), RingRoom PROVE RecordInv'
  <2> DEFINE rec == [event |-> event_cache[i], io |-> io[i], stale |-> i \in stale]
  <2>1. ext4_dio_log' = Append(ext4_dio_log, rec)
    BY <1>2 DEF CompleteEmit
  <2>2. ~rec.stale => EventOfCall(rec.event, rec.io) /\ Ended(rec.event)
    BY <1>2 DEF CompleteEmit, CallInv, Found
  <2> HIDE DEF rec
  <2>3. \A k \in 1..Len(ext4_dio_log') :
          ext4_dio_log'[k] = rec \/ (k \in 1..Len(ext4_dio_log) /\ ext4_dio_log'[k] = ext4_dio_log[k])
    BY <1>1, <2>1
  <2> QED BY <2>2, <2>3 DEF CallInv, RecordInv
<1>3. CASE Proxy
  <2>1. ext4_dio_log # <<>> /\ ext4_dio_log' = Tail(ext4_dio_log)
    BY <1>3 DEF Proxy
  <2>2. \A k \in 1..Len(ext4_dio_log') :
          k + 1 \in 1..Len(ext4_dio_log) /\ ext4_dio_log'[k] = ext4_dio_log[k + 1]
    BY <1>1, <2>1
  <2> QED BY <2>2 DEF CallInv, RecordInv
<1>4. CASE UNCHANGED ext4_dio_log
  BY <1>4 DEF CallInv, RecordInv
<1>5. ASSUME ~Proxy, \A i \in Iocbs : ~CompleteEmit(i) \/ ~RingRoom PROVE UNCHANGED ext4_dio_log
  BY <1>5 DEF Next, Horizon, vars, maps, CallStep, ForeignCall, SyncCall, AsyncCall, Call, OtherStamp,
              OtherStore, DioIter, GiveUp, BioActor, CompleteStamp, CompleteUnseen, CompleteEmit
<1> QED BY <1>2, <1>3, <1>4, <1>5

(* The strengthening: what is found at an address, what a call that has    *)
(* not reached ext4 will find, and what the ring holds.                    *)
THEOREM CallInvariant == Spec => []CallInv
<1>1. Init => CallInv
  BY DEF Init, CallInv, RecordInv, Found, Awaits, Has
<1>2. TypeInv /\ CallInv /\ [Next]_vars => CallInv'
  <2> SUFFICES ASSUME TypeInv, CallInv, [Next]_vars PROVE CallInv'
    OBVIOUS
  <2>1. ASSUME NEW j \in Iocbs PROVE Awaits(j)'
    BY <2>1, AwaitsStep DEF CallInv
  <2>2. ASSUME NEW j \in Iocbs PROVE Found(j)'
    <3>1. ASSUME NEW i \in Iocbs, ActOn(i) PROVE Found(j)'
      <4>1. CASE i = j
        BY <3>1, <4>1, FoundStep DEF CallInv
      <4>2. CASE i # j
        BY <2>2, <3>1, <4>2, OthersUndisturbed DEF CallInv, Found, Has
      <4> QED BY <4>1, <4>2
    <3>2. ASSUME UNCHANGED <<istate, io, event_cache, stale>> PROVE Found(j)'
      BY <2>2, <3>2 DEF CallInv, Found, Has
    <3>3. \/ \E i \in Iocbs : ActOn(i)
          \/ UNCHANGED <<istate, io, event_cache, stale>>
      BY DEF Next, ActOn, OtherStamp, OtherStore, Proxy, kernel, maps, Horizon, vars
    <3> QED BY <3>1, <3>2, <3>3
  <2> QED BY <2>1, <2>2, RecordStep DEF CallInv
<1> QED BY <1>1, <1>2, TypeInvariant, PTL DEF Spec

(* A record is about the call that completed, unless an event was left at  *)
(* its address by a call whose completion no probe saw.                    *)
THEOREM RecordsAreOfTheirCalls == Spec => []RecordOfItsCall
<1>1. TypeInv /\ CallInv => RecordOfItsCall
  BY DEF CallInv, RecordInv, RecordOfItsCall, Records, EventOfCall
<1> QED BY <1>1, TypeInvariant, CallInvariant, PTL

(* The stages of a record do not wrap, and the first is too long by no     *)
(* more than another CPU takes from its clock to its store.                *)
THEOREM StagesAreBounded == Spec => []StagesBounded
<1>1. CallInv => StagesBounded
  BY DEF CallInv, RecordInv, StagesBounded, Records, EventOfCall, Ended
<1> QED BY <1>1, CallInvariant, PTL
=============================================================================

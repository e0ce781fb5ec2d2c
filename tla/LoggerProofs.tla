---------------------------- MODULE LoggerProofs ----------------------------
(***************************************************************************)
(* Proofs about Logger: type correctness, the life of row buffers, the     *)
(* quiescent close and, when the storage fails no write, the placement of  *)
(* rows, the truth of log_meta and the refinement of AppendLog.            *)
(***************************************************************************)
EXTENDS Logger, SequenceTheorems, TLAPS

(* The requests and completions that exist, and when: a write carries its  *)
(* own number as user_data; the draining fsync is the last one submitted   *)
(* and its completion the last one posted; a buffer is alive exactly while *)
(* its write is in flight or its completion unread.                        *)
RequestsOK ==
  \A p \in inflight :
    /\ p.seq \in 1..submits
    /\ p.op = "write" => p.user_data = p.seq /\ ~p.drain
    /\ p.op = "fsync" => p.user_data = IF p.drain THEN Finish ELSE 0
    /\ p.drain => pc = "wait" /\ p.op = "fsync" /\ p.file = LogMeta
    /\ p.drain => \A q \in inflight : q # p => q.seq < p.seq
    /\ \A q \in inflight : p.op = "write" /\ q.op = "write" /\ p.seq = q.seq => p = q

CompletionsOK ==
  \A i \in 1..Len(cq) :
    /\ cq[i] > 0 =>
         /\ cq[i] \in bufs
         /\ \A j \in 1..Len(cq) : j # i => cq[j] # cq[i]
         /\ \A p \in inflight : p.op = "write" => p.seq # cq[i]
    /\ cq[i] = Finish => i = Len(cq) /\ pc = "wait" /\ inflight = {}

BuffersOK ==
  /\ \A p \in inflight : p.op = "write" => p.seq \in bufs
  /\ bufs \subseteq 1..submits
  /\ \A b \in bufs : \/ \E p \in inflight : p.op = "write" /\ p.seq = b
                     \/ \E i \in 1..Len(cq) : cq[i] = b

ClosedOK == pc = "closed" => inflight = {} /\ cq = <<>>

ProtocolInv == TypeOK /\ RequestsOK /\ CompletionsOK /\ BuffersOK /\ ClosedOK

-----------------------------------------------------------------------------
(* logger.hpp's variables keep their types: every offset and count is a    *)
(* natural number, and every completion is a buffer, 0 or the last mark.   *)
THEOREM TypeCorrect == Spec => []TypeOK
<1> USE LoggerAssumption DEF TypeOK, AllFiles, Finish
<1>1. Init => TypeOK
  BY DEF Init
<1>2. TypeOK /\ [Next]_vars => TypeOK'
  <2> SUFFICES ASSUME TypeOK, [Next]_vars PROVE TypeOK'
    OBVIOUS
  <2>1. ASSUME NEW f \in Files, NEW r \in Rows, Commit(f, r) PROVE TypeOK'
    <3>1. WriteSqe(submits + 1, f, off_set_of[f], r) \in Sqes
      BY DEF WriteSqe, Sqes
    <3>2. inflight' \subseteq Sqes
      BY <2>1, <3>1 DEF Commit
    <3>3. bufs' \subseteq Nat
      BY <2>1 DEF Commit, WithCopy
    <3>4. accepted' \in [Files -> Seq(Rows)]
      BY <2>1 DEF Commit
    <3> QED BY <2>1, <3>2, <3>3, <3>4 DEF Commit, Counted, Advance
  <2>2. CASE ReapBuffer
    <3>1. cq' \in Seq(Nat \cup {-1})
      BY <2>2, HeadTailProperties DEF ReapBuffer
    <3> QED BY <2>2, <3>1 DEF ReapBuffer
  <2>3. CASE ReapEmpty
    BY <2>3 DEF ReapEmpty
  <2>4. CASE FlushAll
    <3>1. \A f \in Files : FsyncSqe(submits + 1, f, FALSE, 0) \in Sqes
      BY DEF FsyncSqe, Sqes
    <3>2. inflight' \subseteq Sqes
      BY <2>4, <3>1 DEF FlushAll
    <3>3. /\ pc' = "dump_meta" /\ log_data' = file_commit_count
          /\ submits' = submits + 1
          /\ UNCHANGED <<off_set_of, file_commit_count, cq, bufs, disk, durable, accepted>>
      BY <2>4 DEF FlushAll
    <3> QED BY <3>2, <3>3
  <2>5. CASE DumpMeta
    <3>1. WriteSqe(submits + 1, LogMeta, 0, Counts) \in Sqes
      BY DEF WriteSqe, Sqes
    <3>2. inflight' \subseteq Sqes
      BY <2>5, <3>1 DEF DumpMeta
    <3> QED BY <2>5, <3>2 DEF DumpMeta, WithCopy
  <2>6. CASE FsyncMeta
    <3>1. FsyncSqe(submits + 1, LogMeta, LastFsyncDrains, Finish) \in Sqes
      BY DEF FsyncSqe, Sqes, LastFsyncDrains
    <3>2. inflight' \subseteq Sqes
      BY <2>6, <3>1 DEF FsyncMeta
    <3> QED BY <2>6, <3>2 DEF FsyncMeta
  <2>7. CASE Wait
    <3>1. cq' \in Seq(Nat \cup {-1})
      <4>1. cq # <<>> /\ cq' = Tail(cq)
        BY <2>7 DEF Wait, WaitBuffer, WaitFsync, WaitFinish
      <4> QED BY <4>1, HeadTailProperties
    <3>3. bufs' \subseteq Nat /\ pc' \in {"wait", "closed"}
      BY <2>7 DEF Wait, WaitBuffer, WaitFsync, WaitFinish
    <3>2. UNCHANGED <<off_set_of, file_commit_count, log_data, submits, inflight,
                      disk, durable, accepted>>
      BY <2>7 DEF Wait, WaitBuffer, WaitFsync, WaitFinish
    <3> QED BY <3>1, <3>2, <3>3
  <2>8. ASSUME NEW o \in inflight, Complete(o) PROVE TypeOK'
    <3>1. /\ o.user_data \in Nat \cup {-1}
          /\ o.file \in AllFiles
          /\ <<o.off, o.row>> \in Nat \X (Rows \cup {Counts})
      <4>1. o \in Sqes
        OBVIOUS
      <4> QED BY <4>1 DEF Sqes
    <3>2. inflight' \subseteq Sqes /\ cq' \in Seq(Nat \cup {-1})
      BY <2>8, <3>1 DEF Complete
    <3>3. disk' \in [AllFiles -> SUBSET (Nat \X (Rows \cup {Counts}))]
      BY <2>8, <3>1 DEF Complete
    <3>4. durable' \in [AllFiles -> SUBSET (Nat \X (Rows \cup {Counts}))]
      BY <2>8, <3>1 DEF Complete
    <3> QED BY <2>8, <3>2, <3>3, <3>4 DEF Complete
  <2>9. CASE UNCHANGED vars
    BY <2>9 DEF vars
  <2> QED
    BY <2>1, <2>2, <2>3, <2>4, <2>5, <2>6, <2>7, <2>8, <2>9
    DEF Next, Reap, Kernel, Stopped
<1>3. QED
  BY <1>1, <1>2, PTL DEF Spec

-----------------------------------------------------------------------------
(* The three ways a step touches the queues: it submits requests with a    *)
(* fresh number, it consumes the oldest completion, or the kernel          *)
(* completes a request.                                                    *)
LEMMA TailOfCq ==
  ASSUME TypeOK, cq # <<>>, cq' = Tail(cq)
  PROVE  /\ Len(cq) \in Nat \ {0} /\ Len(cq') = Len(cq) - 1
         /\ \A i \in 1..Len(cq') : i + 1 \in 1..Len(cq) /\ cq'[i] = cq[i + 1]
         /\ Head(cq) = cq[1]
         /\ \A i \in 1..Len(cq) : i = 1 \/ (i - 1 \in 1..Len(cq') /\ cq'[i - 1] = cq[i])
<1> DEFINE S == Nat \cup {Finish}
<1>1. cq \in Seq(S)
  BY DEF TypeOK
<1>2. /\ Len(Tail(cq)) = Len(cq) - 1
      /\ \A i \in 1..Len(Tail(cq)) : Tail(cq)[i] = cq[i + 1]
  BY <1>1, HeadTailProperties
<1>3. Len(cq) \in Nat /\ Len(cq) # 0 /\ Head(cq) = cq[1]
  BY <1>1
<1> QED BY <1>2, <1>3

LEMMA AppendToCq ==
  ASSUME TypeOK, NEW d \in Nat \cup {Finish}, cq' = Append(cq, d)
  PROVE  /\ Len(cq) \in Nat /\ Len(cq') = Len(cq) + 1
         /\ \A i \in 1..Len(cq) : i \in 1..Len(cq') /\ cq'[i] = cq[i]
         /\ cq'[Len(cq) + 1] = d
BY AppendProperties DEF TypeOK

LEMMA CqElements ==
  ASSUME TypeOK
  PROVE  Len(cq) \in Nat /\ \A i \in 1..Len(cq) : cq[i] \in Nat \cup {Finish}
BY DEF TypeOK

LEMMA FieldTypes ==
  ASSUME TypeOK, NEW p \in inflight
  PROVE  /\ p.seq \in Nat /\ p.op \in {"write", "fsync"} /\ p.file \in AllFiles
         /\ p.off \in Nat /\ p.drain \in BOOLEAN /\ p.user_data \in Nat \cup {Finish}
         /\ p.row \in Rows \cup {Counts}
BY DEF TypeOK, Sqes

(* One write request with a fresh number and its buffer: commit() and the  *)
(* write of log_meta.                                                      *)
LEMMA SubmitWrite ==
  ASSUME ProtocolInv, TypeOK', NEW f, NEW off, NEW r,
         pc \notin {"wait", "closed"}, pc' \notin {"wait", "closed"},
         submits' = submits + 1,
         inflight' = inflight \cup {WriteSqe(submits + 1, f, off, r)},
         bufs' = bufs \cup {submits + 1},
         cq' = cq
  PROVE  ProtocolInv'
<1> DEFINE w == WriteSqe(submits + 1, f, off, r)
<1> USE DEF ProtocolInv
<1>1. /\ w.seq = submits + 1 /\ w.op = "write" /\ w.user_data = submits + 1
      /\ w.drain = FALSE
  BY DEF WriteSqe
<1>2. submits \in Nat
  BY DEF TypeOK
<1>3. \A p \in inflight : p.seq \in 1..submits /\ p.drain = FALSE
  <2> SUFFICES ASSUME NEW p \in inflight PROVE p.seq \in 1..submits /\ p.drain = FALSE
    OBVIOUS
  <2> QED BY FieldTypes DEF RequestsOK
<1>4. RequestsOK'
  <2> HIDE DEF w
  <2>1. ASSUME NEW p \in inflight' PROVE
          /\ p.seq \in 1..submits'
          /\ p.op = "write" => p.user_data = p.seq /\ ~p.drain
          /\ p.op = "fsync" => p.user_data = IF p.drain THEN Finish ELSE 0
          /\ p.drain = FALSE
    <3>1. CASE p = w
      BY <3>1, <1>1, <1>2
    <3>2. CASE p \in inflight
      BY <3>2, <1>2, <1>3 DEF RequestsOK
    <3> QED BY <2>1, <3>1, <3>2 DEF w
  <2>2. ASSUME NEW p \in inflight', NEW q \in inflight', p.op = "write", q.op = "write",
               p.seq = q.seq
        PROVE  p = q
    <3>1. CASE p \in inflight /\ q \in inflight
      BY <2>2, <3>1 DEF RequestsOK
    <3>2. CASE p = w /\ q = w
      BY <3>2
    <3>3. CASE p = w /\ q \in inflight
      BY <3>3, <2>2, <1>1, <1>2, <1>3
    <3>4. CASE q = w /\ p \in inflight
      BY <3>4, <2>2, <1>1, <1>2, <1>3
    <3> QED BY <3>1, <3>2, <3>3, <3>4 DEF w
  <2> QED BY <2>1, <2>2 DEF RequestsOK
<1>5. CompletionsOK'
  <2> SUFFICES ASSUME NEW i \in 1..Len(cq)
               PROVE  /\ cq[i] > 0 =>
                           /\ cq[i] \in bufs'
                           /\ \A j \in 1..Len(cq) : j # i => cq[j] # cq[i]
                           /\ \A p \in inflight' : p.op = "write" => p.seq # cq[i]
                      /\ cq[i] # Finish
    BY DEF CompletionsOK
  <2>1. cq[i] # Finish
    BY DEF CompletionsOK
  <2>2. ASSUME cq[i] > 0
        PROVE  /\ cq[i] \in bufs'
               /\ \A j \in 1..Len(cq) : j # i => cq[j] # cq[i]
               /\ \A p \in inflight' : p.op = "write" => p.seq # cq[i]
    <3>1. cq[i] \in bufs /\ cq[i] \in 1..submits
      BY <2>2 DEF CompletionsOK, BuffersOK
    <3>2. cq[i] # w.seq
      BY <3>1, <1>1, <1>2
    <3> QED BY <2>2, <3>1, <3>2 DEF CompletionsOK
  <2> QED BY <2>1, <2>2
<1>6. BuffersOK'
  <2>1. \A p \in inflight' : p.op = "write" => p.seq \in bufs'
    BY <1>1 DEF BuffersOK
  <2>2. bufs' \subseteq 1..submits'
    BY <1>2 DEF BuffersOK
  <2>3. ASSUME NEW b \in bufs'
        PROVE  \/ \E p \in inflight' : p.op = "write" /\ p.seq = b
               \/ \E i \in 1..Len(cq') : cq'[i] = b
    <3>1. CASE b = submits + 1
      BY <3>1, <1>1
    <3>2. CASE b \in bufs
      BY <3>2 DEF BuffersOK
    <3> QED BY <3>1, <3>2
  <2> QED BY <2>1, <2>2, <2>3 DEF BuffersOK
<1>7. ClosedOK'
  BY DEF ClosedOK
<1> QED BY <1>4, <1>5, <1>6, <1>7

(* Fsyncs submitted together: the fsyncs of the registered files (none     *)
(* drains), and the last one (it drains, and finds no other that does).    *)
LEMMA SubmitFsyncs ==
  ASSUME ProtocolInv, TypeOK', NEW B,
         pc \notin {"wait", "closed"}, pc' # "closed",
         submits' = submits + 1,
         inflight' = inflight \cup B,
         \A p \in B : /\ p.seq = submits + 1 /\ p.op = "fsync"
                      /\ p.user_data = IF p.drain THEN Finish ELSE 0
                      /\ p.drain => pc' = "wait" /\ p.file = LogMeta /\ B = {p},
         UNCHANGED <<cq, bufs>>
  PROVE  ProtocolInv'
<1> USE DEF ProtocolInv
<1>1. submits \in Nat
  BY DEF TypeOK
<1>2. \A p \in inflight : p.seq \in 1..submits /\ ~p.drain
  BY DEF RequestsOK
<1>3. RequestsOK'
  <2>1. ASSUME NEW p \in inflight' PROVE
          /\ p.seq \in 1..submits'
          /\ p.op = "write" => p.user_data = p.seq /\ ~p.drain
          /\ p.op = "fsync" => p.user_data = IF p.drain THEN Finish ELSE 0
          /\ p.drain => pc' = "wait" /\ p.op = "fsync" /\ p.file = LogMeta
          /\ p.drain => \A q \in inflight' : q # p => q.seq < p.seq
    <3>1. CASE p \in B
      BY <3>1, <1>1, <1>2
    <3>2. CASE p \in inflight
      BY <3>2, <1>1, <1>2 DEF RequestsOK
    <3> QED BY <2>1, <3>1, <3>2
  <2>2. ASSUME NEW p \in inflight', NEW q \in inflight', p.op = "write", q.op = "write",
               p.seq = q.seq
        PROVE  p = q
    <3>1. p \notin B /\ q \notin B
      BY <2>2
    <3> QED BY <2>2, <3>1 DEF RequestsOK
  <2> QED BY <2>1, <2>2 DEF RequestsOK
<1>4. CompletionsOK'
  <2> SUFFICES ASSUME NEW i \in 1..Len(cq)
               PROVE  /\ cq[i] > 0 =>
                           /\ cq[i] \in bufs
                           /\ \A j \in 1..Len(cq) : j # i => cq[j] # cq[i]
                           /\ \A p \in inflight' : p.op = "write" => p.seq # cq[i]
                      /\ cq[i] # Finish
    BY DEF CompletionsOK
  <2>1. \A p \in B : p.op # "write"
    OBVIOUS
  <2> QED BY <2>1 DEF CompletionsOK
<1>5. BuffersOK'
  <2>1. \A p \in inflight' : p.op = "write" => p.seq \in bufs'
    BY DEF BuffersOK
  <2>2. bufs' \subseteq 1..submits'
    BY <1>1 DEF BuffersOK
  <2>3. \A b \in bufs' : \/ \E p \in inflight' : p.op = "write" /\ p.seq = b
                         \/ \E i \in 1..Len(cq') : cq'[i] = b
    BY DEF BuffersOK
  <2> QED BY <2>1, <2>2, <2>3 DEF BuffersOK
<1>6. ClosedOK'
  BY DEF ClosedOK
<1> QED BY <1>3, <1>4, <1>5, <1>6

(* The oldest completion is consumed: a buffer is deleted with it.         *)
LEMMA ConsumeCompletion ==
  ASSUME ProtocolInv, TypeOK', cq # <<>>, cq' = Tail(cq),
         pc \in {"reap", "wait"},
         \/ Head(cq) = Finish /\ pc' = "closed" /\ UNCHANGED bufs
         \/ Head(cq) = 0 /\ UNCHANGED <<pc, bufs>>
         \/ Head(cq) > 0 /\ pc' = pc /\ bufs' = bufs \ {Head(cq)},
         UNCHANGED <<submits, inflight>>
  PROVE  ProtocolInv'
<1> USE DEF ProtocolInv
<1>1. /\ Len(cq) \in Nat \ {0} /\ Len(cq') = Len(cq) - 1
      /\ \A i \in 1..Len(cq') : i + 1 \in 1..Len(cq) /\ cq'[i] = cq[i + 1]
      /\ Head(cq) = cq[1]
      /\ \A i \in 1..Len(cq) : i = 1 \/ (i - 1 \in 1..Len(cq') /\ cq'[i - 1] = cq[i])
  BY TailOfCq
<1>2. /\ Head(cq) \in Nat \cup {Finish}
      /\ \A i \in 1..Len(cq') : cq'[i] \in Nat \cup {Finish}
  BY <1>1, CqElements
<1>3. CASE Head(cq) = Finish
  <2>1. Len(cq) = 1 /\ inflight = {} /\ pc = "wait"
    <3>1. 1 \in 1..Len(cq) /\ cq[1] = Finish
      BY <1>1, <1>3
    <3> QED BY <3>1 DEF CompletionsOK
  <2>2. Len(cq') = 0 /\ cq' = <<>>
    <3>1. Len(cq') = 0 /\ cq' \in Seq(Nat \cup {Finish})
      BY <2>1, <1>1 DEF TypeOK
    <3> QED BY <3>1, EmptySeq
  <2>3. bufs = {} /\ bufs' = {}
    <3>1. \A b \in bufs : cq[1] = b /\ b > 0
      BY <2>1, <1>1 DEF BuffersOK, TypeOK
    <3> QED BY <3>1, <1>1, <1>3 DEF Finish
  <2> QED BY <2>1, <2>2, <2>3 DEF RequestsOK, CompletionsOK, BuffersOK, ClosedOK
<1>4. CASE Head(cq) # Finish
  <2>1. pc' = pc
    BY <1>4 DEF Finish
  <2>2. RequestsOK'
    BY <2>1 DEF RequestsOK
  <2>3. (Head(cq) = 0 /\ bufs' = bufs) \/ (Head(cq) > 0 /\ bufs' = bufs \ {Head(cq)})
    BY <1>4 DEF Finish
  <2>4. \A i \in 1..Len(cq') : cq'[i] > 0 => cq'[i] \in bufs'
    <3> SUFFICES ASSUME NEW i \in 1..Len(cq'), cq'[i] > 0 PROVE cq'[i] \in bufs'
      OBVIOUS
    <3>1. cq[i + 1] \in bufs /\ i + 1 \in 1..Len(cq) /\ cq'[i] = cq[i + 1]
      BY <1>1 DEF CompletionsOK
    <3>2. cq[1] # cq[i + 1]
      <4>1. 1 \in 1..Len(cq) /\ 1 # i + 1 /\ cq[i + 1] > 0
        BY <1>1
      <4> QED BY <4>1, <3>1 DEF CompletionsOK
    <3> QED BY <3>1, <3>2, <1>1, <2>3, <2>1, <1>4
  <2>5. CompletionsOK'
    <3> SUFFICES ASSUME NEW i \in 1..Len(cq')
                 PROVE  /\ cq'[i] > 0 =>
                             /\ \A j \in 1..Len(cq') : j # i => cq'[j] # cq'[i]
                             /\ \A p \in inflight : p.op = "write" => p.seq # cq'[i]
                        /\ cq'[i] = Finish => i = Len(cq') /\ pc = "wait" /\ inflight = {}
      BY <2>1, <2>4 DEF CompletionsOK
    <3>1. i + 1 \in 1..Len(cq) /\ cq'[i] = cq[i + 1]
      BY <1>1
    <3>2. \A j \in 1..Len(cq') : j # i => j + 1 \in 1..Len(cq) /\ j + 1 # i + 1 /\ cq'[j] = cq[j + 1]
      BY <1>1
    <3>3. cq'[i] = Finish => i = Len(cq') /\ pc = "wait" /\ inflight = {}
      <4>1. cq'[i] = Finish => i + 1 = Len(cq) /\ pc = "wait" /\ inflight = {}
        BY <3>1 DEF CompletionsOK
      <4>2. i + 1 = Len(cq) => i = Len(cq')
        <5> DEFINE n == Len(cq)
                   m == Len(cq')
        <5>1. i \in Int /\ n \in Int /\ m \in Int /\ m = n - 1
          BY <1>1
        <5> HIDE DEF n, m
        <5>2. i + 1 = n => i = m
          BY <5>1
        <5> QED BY <5>2 DEF n, m
      <4> QED BY <4>1, <4>2
    <3>4. ASSUME cq'[i] > 0
          PROVE  /\ \A j \in 1..Len(cq') : j # i => cq'[j] # cq'[i]
                 /\ \A p \in inflight : p.op = "write" => p.seq # cq'[i]
      BY <3>1, <3>2, <3>4 DEF CompletionsOK
    <3> QED BY <3>3, <3>4
  <2>6. BuffersOK'
    <3>1. bufs' \subseteq bufs
      BY <2>3, <2>1, <1>4
    <3>2. \A p \in inflight : p.op = "write" => p.seq \in bufs'
      <4> SUFFICES ASSUME NEW p \in inflight, p.op = "write" PROVE p.seq \in bufs'
        OBVIOUS
      <4>1. p.seq \in bufs /\ p.seq \in 1..submits /\ submits \in Nat
        BY DEF BuffersOK, RequestsOK, TypeOK
      <4>2. Head(cq) > 0 => p.seq # Head(cq)
        <5>1. 1 \in 1..Len(cq) /\ Head(cq) = cq[1]
          BY <1>1
        <5> QED BY <5>1 DEF CompletionsOK
      <4>3. CASE bufs' = bufs
        BY <4>1, <4>3
      <4>4. CASE Head(cq) > 0 /\ bufs' = bufs \ {Head(cq)}
        BY <4>1, <4>2, <4>4
      <4> QED BY <4>3, <4>4, <2>3
    <3>3. ASSUME NEW b \in bufs'
          PROVE  \/ \E p \in inflight : p.op = "write" /\ p.seq = b
                 \/ \E i \in 1..Len(cq') : cq'[i] = b
      <4>1. b \in 1..submits /\ submits \in Nat /\ b # Head(cq)
        BY <3>1, <2>3, <1>4 DEF BuffersOK, TypeOK
      <4>2. ASSUME NEW i \in 1..Len(cq), cq[i] = b
            PROVE  \E k \in 1..Len(cq') : cq'[k] = b
        BY <4>1, <4>2, <1>1
      <4> QED BY <3>1, <4>2 DEF BuffersOK
    <3> QED BY <3>1, <3>2, <3>3 DEF BuffersOK
  <2> QED BY <2>1, <2>2, <2>5, <2>6 DEF ClosedOK
<1> QED BY <1>3, <1>4

(* The kernel completes a request.                                         *)
LEMMA CompleteOne ==
  ASSUME ProtocolInv, TypeOK', NEW o \in inflight, Complete(o)
  PROVE  ProtocolInv'
<1> USE DEF ProtocolInv
<1>1. /\ inflight' = inflight \ {o} /\ cq' = Append(cq, o.user_data)
      /\ UNCHANGED <<pc, submits, bufs>> /\ CanComplete(o)
  BY DEF Complete
<1>2. o.user_data \in Nat \cup {Finish}
  BY FieldTypes
<1>3. /\ Len(cq) \in Nat /\ Len(cq') = Len(cq) + 1
      /\ \A i \in 1..Len(cq) : i \in 1..Len(cq') /\ cq'[i] = cq[i]
      /\ cq'[Len(cq) + 1] = o.user_data
  BY <1>1, <1>2, AppendToCq
<1>4. \A i \in 1..Len(cq') : i \in 1..Len(cq) \/ i = Len(cq) + 1
  BY <1>3
<1>5. o.user_data > 0 => o.op = "write" /\ o.user_data = o.seq
  <2>1. o.op \in {"write", "fsync"}
    BY FieldTypes
  <2> QED BY <2>1 DEF RequestsOK, Finish
<1>6. \A i \in 1..Len(cq) : cq[i] # Finish
  BY DEF CompletionsOK
<1>7. o.user_data = Finish => o.drain
  <2>1. o.op \in {"write", "fsync"} /\ o.seq \in Nat
    BY FieldTypes
  <2> QED BY <2>1 DEF RequestsOK, Finish
<1>8. o.user_data = Finish => inflight' = {} /\ pc = "wait"
  <2> SUFFICES ASSUME o.user_data = Finish PROVE inflight' = {} /\ pc = "wait"
    OBVIOUS
  <2>1. o.drain /\ pc = "wait"
    BY <1>7 DEF RequestsOK
  <2>2. \A q \in inflight : q = o \/ q.seq < o.seq
    BY <2>1 DEF RequestsOK
  <2>3. \A q \in inflight : q.seq >= o.seq
    BY <2>1, <1>1 DEF CanComplete
  <2>4. \A q \in inflight : q.seq \in Nat
    BY FieldTypes
  <2>5. \A q \in inflight : q = o
    BY <2>2, <2>3, <2>4
  <2> QED BY <2>1, <2>5, <1>1
<1>9. RequestsOK'
  BY <1>1 DEF RequestsOK
<1>10. CompletionsOK'
  <2> SUFFICES ASSUME NEW i \in 1..Len(cq')
               PROVE  /\ cq'[i] > 0 =>
                           /\ cq'[i] \in bufs
                           /\ \A j \in 1..Len(cq') : j # i => cq'[j] # cq'[i]
                           /\ \A p \in inflight' : p.op = "write" => p.seq # cq'[i]
                      /\ cq'[i] = Finish => i = Len(cq') /\ pc = "wait" /\ inflight' = {}
    BY <1>1 DEF CompletionsOK
  <2>1. CASE i = Len(cq) + 1
    <3>1. cq'[i] = o.user_data /\ i = Len(cq')
      BY <2>1, <1>3
    <3>2. ASSUME o.user_data > 0
          PROVE  /\ o.user_data \in bufs
                 /\ \A j \in 1..Len(cq) : cq[j] # o.user_data
                 /\ \A p \in inflight' : p.op = "write" => p.seq # o.user_data
      <4>1. o.op = "write" /\ o.user_data = o.seq
        BY <3>2, <1>5
      <4>2. o.user_data \in bufs
        BY <4>1 DEF BuffersOK
      <4>3. \A j \in 1..Len(cq) : cq[j] # o.user_data
        BY <3>2, <4>1 DEF CompletionsOK
      <4>4. \A p \in inflight' : p.op = "write" => p.seq # o.user_data
        BY <4>1, <1>1 DEF RequestsOK
      <4> QED BY <4>2, <4>3, <4>4
    <3>3. \A j \in 1..Len(cq') : j # i => j \in 1..Len(cq) /\ cq'[j] = cq[j]
      BY <2>1, <1>3, <1>4
    <3> QED BY <3>1, <3>2, <3>3, <1>8
  <2>2. CASE i \in 1..Len(cq)
    <3>1. cq'[i] = cq[i] /\ cq[i] # Finish
      BY <2>2, <1>3, <1>6
    <3>2. ASSUME cq[i] > 0
          PROVE  /\ cq[i] \in bufs
                 /\ \A j \in 1..Len(cq) : j # i => cq[j] # cq[i]
                 /\ \A p \in inflight : p.op = "write" => p.seq # cq[i]
      BY <2>2, <3>2 DEF CompletionsOK
    <3>3. cq[i] > 0 => o.user_data # cq[i]
      <4> SUFFICES ASSUME cq[i] > 0, o.user_data = cq[i] PROVE FALSE
        OBVIOUS
      <4>1. o.op = "write" /\ o.seq = cq[i]
        BY <1>5
      <4> QED BY <4>1, <3>2
    <3>4. \A j \in 1..Len(cq') : j # i /\ cq[i] > 0 => cq'[j] # cq[i]
      BY <3>2, <3>3, <1>3, <1>4
    <3> QED BY <3>1, <3>2, <3>4, <1>1
  <2> QED BY <2>1, <2>2, <1>4
<1>11. BuffersOK'
  <2>1. \A p \in inflight' : p.op = "write" => p.seq \in bufs'
    BY <1>1 DEF BuffersOK
  <2>2. bufs' \subseteq 1..submits'
    BY <1>1 DEF BuffersOK
  <2>3. ASSUME NEW b \in bufs'
        PROVE  \/ \E p \in inflight' : p.op = "write" /\ p.seq = b
               \/ \E i \in 1..Len(cq') : cq'[i] = b
    <3>1. CASE o.op = "write" /\ o.seq = b
      <4>1. o.user_data = b /\ Len(cq) + 1 \in 1..Len(cq')
        BY <3>1, <1>3 DEF RequestsOK
      <4> QED BY <4>1, <1>3
    <3>2. CASE \E p \in inflight : p # o /\ p.op = "write" /\ p.seq = b
      BY <3>2, <1>1
    <3>3. CASE \E i \in 1..Len(cq) : cq[i] = b
      BY <3>3, <1>3
    <3> QED BY <3>1, <3>2, <3>3, <1>1 DEF BuffersOK
  <2> QED BY <2>1, <2>2, <2>3 DEF BuffersOK
<1>12. ClosedOK'
  BY <1>1 DEF ClosedOK
<1> QED BY <1>9, <1>10, <1>11, <1>12

THEOREM ProtocolInvariant == Spec => []ProtocolInv
<1>1. Init => ProtocolInv
  <2> SUFFICES ASSUME Init PROVE ProtocolInv
    OBVIOUS
  <2>1. TypeOK
    BY LoggerAssumption DEF Init, TypeOK, AllFiles
  <2>2. Len(cq) = 0
    BY EmptySeq DEF Init
  <2> QED
    BY <2>1, <2>2 DEF Init, ProtocolInv, RequestsOK, CompletionsOK, BuffersOK, ClosedOK
<1>2. ProtocolInv /\ TypeOK' /\ [Next]_vars => ProtocolInv'
  <2> SUFFICES ASSUME ProtocolInv, TypeOK', [Next]_vars PROVE ProtocolInv'
    OBVIOUS
  <2>1. ASSUME NEW f \in Files, NEW r \in Rows, Commit(f, r) PROVE ProtocolInv'
    BY <2>1, SubmitWrite DEF Commit, WithCopy
  <2>2. CASE ReapBuffer
    <3>1. Head(cq) > 0
      <4>1. Len(cq) \in Nat /\ Len(cq) # 0 /\ Head(cq) = cq[1]
        BY <2>2, TailOfCq DEF ReapBuffer, ProtocolInv
      <4>2. 1 \in 1..Len(cq)
        BY <4>1
      <4>3. cq[1] \in Nat \cup {Finish} /\ cq[1] # Finish
        BY <4>2, <2>2, CqElements DEF ReapBuffer, ProtocolInv, CompletionsOK
      <4> QED BY <4>1, <4>3, <2>2 DEF ReapBuffer
    <3> QED BY <2>2, <3>1, ConsumeCompletion DEF ReapBuffer
  <2>3. CASE ReapEmpty
    BY <2>3 DEF ReapEmpty, ProtocolInv, RequestsOK, CompletionsOK, BuffersOK, ClosedOK
  <2>4. CASE FlushAll
    <3> DEFINE B == {FsyncSqe(submits + 1, f, FALSE, 0) : f \in Files}
    <3>1. \A p \in B : /\ p.seq = submits + 1 /\ p.op = "fsync"
                       /\ p.user_data = 0 /\ p.drain = FALSE
      BY DEF FsyncSqe
    <3>2. /\ pc = "idle" /\ pc' = "dump_meta" /\ submits' = submits + 1
          /\ inflight' = inflight \cup B /\ UNCHANGED <<cq, bufs>>
      BY <2>4 DEF FlushAll
    <3> HIDE DEF B
    <3> QED BY <3>1, <3>2, SubmitFsyncs
  <2>5. CASE DumpMeta
    BY <2>5, SubmitWrite DEF DumpMeta, WithCopy
  <2>6. CASE FsyncMeta
    <3> DEFINE s == FsyncSqe(submits + 1, LogMeta, LastFsyncDrains, Finish)
    <3>1. /\ s.seq = submits + 1 /\ s.op = "fsync" /\ s.file = LogMeta
          /\ s.user_data = Finish /\ s.drain = TRUE
      BY DEF FsyncSqe, LastFsyncDrains
    <3>2. /\ pc = "fsync_meta" /\ pc' = "wait" /\ submits' = submits + 1
          /\ inflight' = inflight \cup {s} /\ UNCHANGED <<cq, bufs>>
      BY <2>6 DEF FsyncMeta
    <3> HIDE DEF s
    <3> DEFINE B == {s}
    <3>3. \A p \in B : /\ p.seq = submits + 1 /\ p.op = "fsync"
                       /\ p.user_data = IF p.drain THEN Finish ELSE 0
                       /\ p.drain => pc' = "wait" /\ p.file = LogMeta /\ B = {p}
      BY <3>1, <3>2
    <3>4. inflight' = inflight \cup B
      BY <3>2
    <3> HIDE DEF B
    <3> QED BY <3>2, <3>3, <3>4, SubmitFsyncs
  <2>7. CASE Wait
    <3>1. CASE WaitBuffer
      <4>1. Len(cq) \in Nat /\ Len(cq) # 0 /\ Head(cq) = cq[1]
        BY <3>1, TailOfCq DEF WaitBuffer, ProtocolInv
      <4>2. 1 \in 1..Len(cq)
        BY <4>1
      <4>3. Head(cq) \in Nat \cup {Finish}
        BY <4>1, <4>2, CqElements DEF ProtocolInv
      <4>4. Head(cq) > 0
        BY <4>3, <3>1 DEF WaitBuffer
      <4> QED BY <3>1, <4>4, ConsumeCompletion DEF WaitBuffer
    <3>2. CASE WaitFsync
      BY <3>2, ConsumeCompletion DEF WaitFsync
    <3>3. CASE WaitFinish
      BY <3>3, ConsumeCompletion DEF WaitFinish
    <3> QED BY <2>7, <3>1, <3>2, <3>3 DEF Wait
  <2>8. ASSUME NEW o \in inflight, Complete(o) PROVE ProtocolInv'
    BY <2>8, CompleteOne
  <2>9. CASE UNCHANGED vars
    BY <2>9 DEF vars, ProtocolInv, RequestsOK, CompletionsOK, BuffersOK, ClosedOK
  <2> QED
    BY <2>1, <2>2, <2>3, <2>4, <2>5, <2>6, <2>7, <2>8, <2>9
    DEF Next, Reap, Kernel, Stopped
<1>3. QED
  BY <1>1, <1>2, TypeCorrect, PTL DEF Spec

(* The kernel never reads a freed row and no buffer is deleted twice, for  *)
(* any number of files, rows and completion orders, failed writes included *)
(* (logger.hpp: commit() and the loop of __dump_logger_meta()).            *)
THEOREM BuffersSafe == Spec => []BufferLifetime
<1>1. ProtocolInv => BufferLifetime
  <2> SUFFICES ASSUME ProtocolInv PROVE BufferLifetime
    OBVIOUS
  <2> USE DEF ProtocolInv
  <2>1. \A p \in inflight : p.op = "write" => p.user_data \in bufs
    BY DEF RequestsOK, BuffersOK
  <2>2. ASSUME NEW i \in 1..Len(cq), cq[i] > 0, NEW p \in inflight PROVE p.user_data # cq[i]
    <3>1. p.op \in {"write", "fsync"}
      BY FieldTypes
    <3> QED BY <2>2, <3>1 DEF RequestsOK, CompletionsOK, Finish
  <2> QED BY <2>1, <2>2 DEF CompletionsOK, BufferLifetime
<1> QED BY <1>1, ProtocolInvariant, PTL

(* When the destructor has returned nothing is in flight, unread or        *)
(* allocated: the drained fsync makes io_uring_queue_exit safe.            *)
THEOREM CloseIsQuiescent == Spec => []QuiescentAtClose
<1>1. ProtocolInv => QuiescentAtClose
  BY EmptySeq DEF ProtocolInv, ClosedOK, BuffersOK, QuiescentAtClose
<1> QED BY <1>1, ProtocolInvariant, PTL

-----------------------------------------------------------------------------
(* The contents of the files.                                              *)
(* Offsets and counts agree with the rows accepted; the text of log_meta   *)
(* was built from the final counts.                                        *)
CountersOK ==
  /\ \A f \in Files : /\ off_set_of[f] = Len(accepted[f])
                      /\ file_commit_count[f] = Len(accepted[f])
  /\ pc \in {"dump_meta", "fsync_meta", "wait", "closed"} =>
       log_data = file_commit_count

(* log_meta receives one row, which is stable when the mark comes back.    *)
MetaOK ==
  /\ \A p \in inflight : p.op = "write" /\ p.file = LogMeta =>
       p.off = 0 /\ p.row = Counts
  /\ pc \in {"fsync_meta", "wait", "closed"} => Placed(LogMeta, 0, Counts)
  /\ pc = "closed" \/ (\E i \in 1..Len(cq) : cq[i] = Finish) =>
       <<0, Counts>> \in durable[LogMeta]

DataInv == ProtocolInv /\ CountersOK /\ AppendOnly /\ MetaOK

-----------------------------------------------------------------------------
(* A write that lands adds its row and overwrites nothing: the offset is   *)
(* free, or holds that very row.                                           *)
LEMMA WriteAdds ==
  ASSUME TypeOK, AppendOnly, NEW f \in Files, NEW o \in inflight,
         o.op = "write", o.file = f
  PROVE  {c \in disk[f] : c[1] # o.off} \cup {<<o.off, o.row>>}
           = disk[f] \cup {<<o.off, o.row>>}
<1>1. \A c \in disk[f] : c = <<c[1], c[2]>>
  BY DEF TypeOK, AllFiles
<1>2. \A c \in disk[f] : c[1] = o.off => c[2] = o.row
  BY DEF AppendOnly
<1> QED BY <1>1, <1>2

(* A row stays placed when requests are added and files are left alone.    *)
LEMMA PlacedFrame ==
  ASSUME NEW f, NEW i, NEW r, Placed(f, i, r), inflight \subseteq inflight',
         disk' = disk
  PROVE  Placed(f, i, r)'
BY DEF Placed

(* A completion that fails no write keeps every row of a file whose other  *)
(* cells it does not contradict.                                           *)
LEMMA PlacedComplete ==
  ASSUME TypeOK, ~WriteErrors, NEW o \in inflight, Complete(o),
         NEW f \in AllFiles, NEW i, NEW r, Placed(f, i, r),
         o.op = "write" /\ o.file = f /\ o.off = i => o.row = r
  PROVE  Placed(f, i, r)'
<1>1. inflight' = inflight \ {o}
  BY DEF Complete
<1>2. CASE o.op = "write"
  <2>1. disk' = [disk EXCEPT ![o.file] =
                   {c \in @ : c[1] # o.off} \cup {<<o.off, o.row>>}]
    BY <1>2 DEF Complete
  <2>2. disk'[f] = IF o.file = f
                     THEN {c \in disk[f] : c[1] # o.off} \cup {<<o.off, o.row>>}
                     ELSE disk[f]
    BY <2>1 DEF TypeOK
  <2>3. CASE <<i, r>> \in disk[f]
    <3>1. <<i, r>> \in disk'[f]
      BY <2>2, <2>3, <1>2
    <3> QED BY <3>1 DEF Placed
  <2>4. CASE \E p \in inflight : p.op = "write" /\ p.file = f /\ p.off = i /\ p.row = r
    <3>1. PICK p \in inflight : p.op = "write" /\ p.file = f /\ p.off = i /\ p.row = r
      BY <2>4
    <3>2. CASE p = o
      <4>1. <<i, r>> \in disk'[f]
        BY <3>1, <3>2, <2>2
      <4> QED BY <4>1 DEF Placed
    <3>3. CASE p # o
      BY <3>1, <3>3, <1>1 DEF Placed
    <3> QED BY <3>2, <3>3
  <2> QED BY <2>3, <2>4 DEF Placed
<1>3. CASE o.op # "write"
  <2>1. disk' = disk
    BY <1>3 DEF Complete
  <2> QED BY <2>1, <1>1, <1>3 DEF Placed
<1> QED BY <1>2, <1>3

-----------------------------------------------------------------------------
(* The step that gives a row its place.                                    *)
LEMMA CommitKeepsData ==
  ASSUME DataInv, TypeOK', NEW f \in Files, NEW r \in Rows, Commit(f, r)
  PROVE  CountersOK' /\ AppendOnly' /\ MetaOK'
<1> USE DEF DataInv
<1> DEFINE w == WriteSqe(submits + 1, f, off_set_of[f], r)
           n == Len(accepted[f])
<1>1. /\ w.op = "write" /\ w.file = f /\ w.off = off_set_of[f] /\ w.row = r
  BY DEF WriteSqe
<1>2. /\ pc = "idle" /\ pc' = "reap" /\ inflight' = inflight \cup {w}
      /\ UNCHANGED <<log_data, cq, disk, durable>>
      /\ accepted' = [accepted EXCEPT ![f] = Append(@, r)]
  BY DEF Commit
<1>3. /\ off_set_of' = [off_set_of EXCEPT ![f] = @ + 1]
      /\ file_commit_count' = [file_commit_count EXCEPT ![f] = @ + 1]
  BY DEF Commit, Advance, Counted
<1>4. /\ accepted'[f] = Append(accepted[f], r)
      /\ accepted[f] \in Seq(Rows)
      /\ \A g \in Files : g # f => accepted'[g] = accepted[g]
  BY <1>2 DEF ProtocolInv, TypeOK
<1>5. /\ n \in Nat /\ Len(accepted'[f]) = n + 1
      /\ \A i \in 1..n : accepted'[f][i] = accepted[f][i]
      /\ accepted'[f][n + 1] = r
  BY <1>4, AppendProperties
<1>6. off_set_of[f] = n
  BY DEF CountersOK
<1> HIDE DEF w, n
<1>7. CountersOK'
  <2>1. ASSUME NEW g \in Files
        PROVE  off_set_of'[g] = Len(accepted'[g]) /\ file_commit_count'[g] = Len(accepted'[g])
    <3>1. CASE g = f
      BY <3>1, <1>3, <1>5 DEF CountersOK, ProtocolInv, TypeOK, n
    <3>2. CASE g # f
      BY <3>2, <1>3, <1>4 DEF CountersOK, ProtocolInv, TypeOK
    <3> QED BY <3>1, <3>2
  <2> QED BY <2>1, <1>2 DEF CountersOK
<1>8. AppendOnly'
  <2> SUFFICES ASSUME NEW g \in Files
               PROVE  /\ \A i \in 1..Len(accepted'[g]) : Placed(g, i - 1, accepted[g][i])'
                      /\ \A c \in disk'[g] : c[1] < Len(accepted'[g])
                                             /\ c[2] = accepted'[g][c[1] + 1]
                      /\ \A p \in inflight' : p.op = "write" /\ p.file = g =>
                           p.off < Len(accepted'[g]) /\ p.row = accepted'[g][p.off + 1]
    BY DEF AppendOnly
  <2>1. CASE g # f
    <3>1. accepted'[g] = accepted[g] /\ disk'[g] = disk[g]
      BY <2>1, <1>2, <1>4
    <3>2. \A i \in 1..Len(accepted'[g]) : Placed(g, i - 1, accepted[g][i])'
      BY <3>1, <1>2 DEF AppendOnly, Placed
    <3>3. ASSUME NEW p \in inflight', p.op = "write", p.file = g
          PROVE  p.off < Len(accepted'[g]) /\ p.row = accepted'[g][p.off + 1]
      <4>1. p \in inflight
        BY <3>3, <2>1, <1>1, <1>2
      <4> QED BY <4>1, <3>1, <3>3 DEF AppendOnly
    <3> QED BY <3>1, <3>2, <3>3 DEF AppendOnly
  <2>2. CASE g = f
    <3>1. ASSUME NEW i \in 1..(n + 1) PROVE Placed(f, i - 1, accepted[f][i])'
      <4>1. CASE i = n + 1
        <5>1. w \in inflight' /\ w.off = i - 1 /\ w.row = accepted'[f][i]
          BY <4>1, <1>1, <1>2, <1>5, <1>6
        <5> QED BY <5>1, <1>1 DEF Placed
      <4>2. CASE i \in 1..n
        <5>1. Placed(f, i - 1, accepted[f][i]) /\ accepted'[f][i] = accepted[f][i]
          BY <4>2, <1>5 DEF AppendOnly, n
        <5> QED BY <5>1, <1>2 DEF Placed
      <4> QED BY <4>1, <4>2, <1>5
    <3>2. ASSUME NEW c \in disk'[f]
          PROVE  c[1] < n + 1 /\ c[2] = accepted'[f][c[1] + 1]
      <4>1. c \in disk[f] /\ c[1] \in Nat
        BY <1>2 DEF ProtocolInv, TypeOK, AllFiles
      <4>2. c[1] < n /\ c[2] = accepted[f][c[1] + 1]
        BY <4>1 DEF AppendOnly, n
      <4>3. c[1] + 1 \in 1..n
        BY <4>1, <4>2, <1>5
      <4> QED BY <4>1, <4>2, <4>3, <1>5
    <3>3. ASSUME NEW p \in inflight', p.op = "write", p.file = f
          PROVE  p.off < n + 1 /\ p.row = accepted'[f][p.off + 1]
      <4>1. CASE p = w
        BY <4>1, <1>1, <1>5, <1>6
      <4>2. CASE p \in inflight
        <5>1. p.off \in Nat
          BY <4>2, FieldTypes DEF ProtocolInv
        <5>2. p.off < n /\ p.row = accepted[f][p.off + 1]
          BY <4>2, <3>3 DEF AppendOnly, n
        <5>3. p.off + 1 \in 1..n
          BY <5>1, <5>2, <1>5
        <5> QED BY <5>1, <5>2, <5>3, <1>5
      <4> QED BY <4>1, <4>2, <1>2
    <3> QED BY <3>1, <3>2, <3>3, <2>2, <1>5
  <2> QED BY <2>1, <2>2
<1>9. MetaOK'
  <2>1. \A p \in inflight' : p.op = "write" /\ p.file = LogMeta => p.off = 0 /\ p.row = Counts
    BY <1>1, <1>2, LoggerAssumption DEF MetaOK
  <2> QED BY <2>1, <1>2 DEF MetaOK
<1> QED BY <1>7, <1>8, <1>9

(* Steps that add requests for log_meta or fsyncs, and consume completions,*)
(* leave every row where it is.                                            *)
LEMMA FrameKeepsRows ==
  ASSUME AppendOnly, NEW B, inflight' = inflight \cup B,
         \A p \in B : p.op = "write" => p.file \notin Files,
         UNCHANGED <<disk, accepted>>
  PROVE  AppendOnly'
<1> SUFFICES ASSUME NEW g \in Files
             PROVE  /\ \A i \in 1..Len(accepted[g]) : Placed(g, i - 1, accepted[g][i])'
                    /\ \A c \in disk[g] : c[1] < Len(accepted[g])
                                          /\ c[2] = accepted[g][c[1] + 1]
                    /\ \A p \in inflight' : p.op = "write" /\ p.file = g =>
                         p.off < Len(accepted[g]) /\ p.row = accepted[g][p.off + 1]
  BY DEF AppendOnly
<1>1. \A i \in 1..Len(accepted[g]) : Placed(g, i - 1, accepted[g][i])'
  BY DEF AppendOnly, Placed
<1>2. \A p \in inflight' : p.op = "write" /\ p.file = g => p \in inflight
  OBVIOUS
<1> QED BY <1>1, <1>2 DEF AppendOnly

(* The completion of a request: the row it carries, if any, reaches its    *)
(* place and no other row moves.                                           *)
LEMMA CompleteKeepsData ==
  ASSUME DataInv, TypeOK', ~WriteErrors, NEW o \in inflight, Complete(o)
  PROVE  CountersOK' /\ AppendOnly' /\ MetaOK'
<1> USE DEF DataInv, ProtocolInv
<1>1. /\ inflight' = inflight \ {o} /\ cq' = Append(cq, o.user_data)
      /\ UNCHANGED <<pc, off_set_of, file_commit_count, log_data, accepted>>
      /\ CanComplete(o)
  BY DEF Complete
<1>2. /\ o.op \in {"write", "fsync"} /\ o.off \in Nat /\ o.file \in AllFiles
      /\ o.user_data \in Nat \cup {Finish}
  BY FieldTypes
<1>3. CountersOK'
  BY <1>1 DEF CountersOK
<1>4. \A g \in AllFiles : disk'[g] \subseteq disk[g] \cup
          (IF o.op = "write" /\ o.file = g THEN {<<o.off, o.row>>} ELSE {})
  <2>1. CASE o.op = "write"
    <3>1. disk' = [disk EXCEPT ![o.file] =
                     {c \in @ : c[1] # o.off} \cup {<<o.off, o.row>>}]
      BY <2>1 DEF Complete
    <3> QED BY <3>1, <2>1 DEF TypeOK
  <2>2. CASE o.op # "write"
    <3>1. disk' = disk
      BY <2>2 DEF Complete
    <3> QED BY <3>1
  <2> QED BY <2>1, <2>2
<1>5. AppendOnly'
  <2> SUFFICES ASSUME NEW g \in Files
               PROVE  /\ \A i \in 1..Len(accepted[g]) : Placed(g, i - 1, accepted[g][i])'
                      /\ \A c \in disk'[g] : c[1] < Len(accepted[g])
                                             /\ c[2] = accepted[g][c[1] + 1]
                      /\ \A p \in inflight' : p.op = "write" /\ p.file = g =>
                           p.off < Len(accepted[g]) /\ p.row = accepted[g][p.off + 1]
    BY <1>1 DEF AppendOnly
  <2>1. ASSUME NEW i \in 1..Len(accepted[g]) PROVE Placed(g, i - 1, accepted[g][i])'
    <3>1. Placed(g, i - 1, accepted[g][i]) /\ g \in AllFiles
      BY DEF AppendOnly, AllFiles
    <3>2. o.op = "write" /\ o.file = g /\ o.off = i - 1 => o.row = accepted[g][i]
      <4>1. Len(accepted[g]) \in Nat
        BY DEF TypeOK
      <4>2. o.off = i - 1 => o.off + 1 = i
        BY <4>1, <1>2
      <4> QED BY <4>2 DEF AppendOnly
    <3>3. accepted'[g][i] = accepted[g][i]
      BY <1>1
    <3>4. \A r : Placed(g, i - 1, r) /\ r = accepted[g][i] => Placed(g, i - 1, r)'
      BY <3>1, <3>2, PlacedComplete
    <3> QED BY <3>1, <3>3, <3>4 DEF Placed
  <2>2. \A c \in disk'[g] : c[1] < Len(accepted[g]) /\ c[2] = accepted[g][c[1] + 1]
    <3>1. \A c \in disk[g] : c[1] < Len(accepted[g]) /\ c[2] = accepted[g][c[1] + 1]
      BY DEF AppendOnly
    <3>2. o.op = "write" /\ o.file = g =>
            o.off < Len(accepted[g]) /\ o.row = accepted[g][o.off + 1]
      BY DEF AppendOnly
    <3> QED BY <3>1, <3>2, <1>4 DEF AllFiles
  <2>3. \A p \in inflight' : p.op = "write" /\ p.file = g =>
          p.off < Len(accepted[g]) /\ p.row = accepted[g][p.off + 1]
    BY <1>1 DEF AppendOnly
  <2> QED BY <2>1, <2>2, <2>3
<1>6. MetaOK'
  <2>1. \A p \in inflight' : p.op = "write" /\ p.file = LogMeta => p.off = 0 /\ p.row = Counts
    BY <1>1 DEF MetaOK
  <2>2. pc \in {"fsync_meta", "wait", "closed"} => Placed(LogMeta, 0, Counts)'
    <3>1. o.op = "write" /\ o.file = LogMeta /\ o.off = 0 => o.row = Counts
      BY DEF MetaOK
    <3>2. pc \in {"fsync_meta", "wait", "closed"} => Placed(LogMeta, 0, Counts)
      BY DEF MetaOK
    <3>3. LogMeta \in AllFiles
      BY DEF AllFiles
    <3> QED BY <3>1, <3>2, <3>3, PlacedComplete
  <2>3. ASSUME NEW i \in 1..Len(cq'), cq'[i] = Finish PROVE <<0, Counts>> \in durable'[LogMeta]
    <3>1. /\ Len(cq) \in Nat /\ Len(cq') = Len(cq) + 1
          /\ \A j \in 1..Len(cq) : cq'[j] = cq[j]
          /\ cq'[Len(cq) + 1] = o.user_data
      BY <1>1, <1>2, AppendToCq
    <3>2. \A j \in 1..Len(cq) : cq[j] # Finish
      BY DEF CompletionsOK
    <3>3. o.user_data = Finish
      <4>1. i \in 1..Len(cq) \/ i = Len(cq) + 1
        BY <3>1
      <4> QED BY <4>1, <3>1, <3>2, <2>3
    <3>4. o.op = "fsync" /\ o.drain /\ o.file = LogMeta /\ pc = "wait"
      BY <3>3, <1>2 DEF RequestsOK, Finish
    <3>5. \A q \in inflight : q = o
      <4>1. \A q \in inflight : q = o \/ q.seq < o.seq
        BY <3>4 DEF RequestsOK
      <4>2. \A q \in inflight : q.seq >= o.seq
        BY <3>4, <1>1 DEF CanComplete
      <4>3. \A q \in inflight : q.seq \in Nat
        BY FieldTypes
      <4> QED BY <4>1, <4>2, <4>3
    <3>6. <<0, Counts>> \in disk[LogMeta]
      BY <3>4, <3>5 DEF MetaOK, Placed
    <3>7. durable' = [durable EXCEPT ![LogMeta] = disk[LogMeta]]
      BY <3>4 DEF Complete
    <3> QED BY <3>6, <3>7 DEF TypeOK, AllFiles
  <2>4. pc # "closed"
    BY DEF ClosedOK
  <2> QED BY <2>1, <2>2, <2>3, <2>4, <1>1 DEF MetaOK
<1> QED BY <1>3, <1>5, <1>6

(* Consuming the oldest completion changes no file; the loop ends only at  *)
(* the mark of the last fsync.                                             *)
LEMMA ConsumeKeepsData ==
  ASSUME DataInv, ReapBuffer \/ Wait
  PROVE  CountersOK' /\ AppendOnly' /\ MetaOK'
<1> USE DEF DataInv, ProtocolInv
<1>1. /\ cq # <<>> /\ cq' = Tail(cq)
      /\ UNCHANGED <<off_set_of, file_commit_count, log_data, submits, inflight,
                     disk, durable, accepted>>
      /\ \/ pc' = pc /\ pc \in {"reap", "wait"}
         \/ pc = "wait" /\ pc' = "closed" /\ Head(cq) = Finish
  BY DEF ReapBuffer, Wait, WaitBuffer, WaitFsync, WaitFinish
<1>2. CountersOK'
  BY <1>1 DEF CountersOK
<1>3. AppendOnly'
  <2>1. inflight' = inflight \cup {}
    BY <1>1
  <2> QED BY <2>1, <1>1, FrameKeepsRows
<1>4. MetaOK'
  <2>1. Placed(LogMeta, 0, Counts)' = Placed(LogMeta, 0, Counts)
    BY <1>1 DEF Placed
  <2>2. (\E i \in 1..Len(cq') : cq'[i] = Finish) => <<0, Counts>> \in durable[LogMeta]
    BY <1>1, TailOfCq DEF MetaOK
  <2>3. Head(cq) = Finish => <<0, Counts>> \in durable[LogMeta]
    <3>1. Head(cq) = cq[1] /\ 1 \in 1..Len(cq)
      BY <1>1, TailOfCq
    <3> QED BY <3>1 DEF MetaOK
  <2> QED BY <1>1, <2>1, <2>2, <2>3 DEF MetaOK
<1> QED BY <1>2, <1>3, <1>4

-----------------------------------------------------------------------------
THEOREM DataInvariant == ASSUME ~WriteErrors PROVE Spec => []DataInv
<1>1. Init => CountersOK /\ AppendOnly /\ MetaOK
  <2> SUFFICES ASSUME Init PROVE CountersOK /\ AppendOnly /\ MetaOK
    OBVIOUS
  <2>1. Len(cq) = 0 /\ \A f \in Files : Len(accepted[f]) = 0 /\ disk[f] = {}
    BY EmptySeq DEF Init, AllFiles
  <2>2. CountersOK
    BY <2>1 DEF Init, CountersOK
  <2>3. AppendOnly
    <3>1. ASSUME NEW f \in Files, NEW i \in 1..Len(accepted[f]) PROVE FALSE
      BY <2>1
    <3>2. inflight = {}
      BY DEF Init
    <3> QED BY <2>1, <3>1, <3>2 DEF AppendOnly
  <2>4. MetaOK
    <3>1. 1..Len(cq) = {}
      BY <2>1
    <3> QED BY <3>1 DEF Init, MetaOK
  <2> QED BY <2>2, <2>3, <2>4
<1>2. DataInv /\ ProtocolInv' /\ [Next]_vars => CountersOK' /\ AppendOnly' /\ MetaOK'
  <2> SUFFICES ASSUME DataInv, ProtocolInv', [Next]_vars
               PROVE CountersOK' /\ AppendOnly' /\ MetaOK'
    OBVIOUS
  <2>0. TypeOK'
    BY DEF ProtocolInv
  <2>1. ASSUME NEW f \in Files, NEW r \in Rows, Commit(f, r)
        PROVE  CountersOK' /\ AppendOnly' /\ MetaOK'
    BY <2>0, <2>1, CommitKeepsData
  <2>2. CASE ReapBuffer \/ Wait
    BY <2>2, ConsumeKeepsData
  <2>3. CASE ReapEmpty \/ UNCHANGED vars
    <3>1. /\ UNCHANGED <<off_set_of, file_commit_count, log_data, inflight, cq,
                         disk, durable, accepted>>
          /\ pc' = pc \/ (pc = "reap" /\ pc' = "idle")
      <4>1. CASE ReapEmpty
        BY <4>1 DEF ReapEmpty
      <4>2. CASE UNCHANGED vars
        BY <4>2 DEF vars
      <4> QED BY <2>3, <4>1, <4>2
    <3>2. AppendOnly'
      <4> DEFINE B == {}
      <4>1. inflight' = inflight \cup B /\ \A p \in B : p.file \notin Files
        BY <3>1
      <4> HIDE DEF B
      <4> QED BY <4>1, <3>1, FrameKeepsRows DEF DataInv
    <3> QED BY <3>1, <3>2 DEF DataInv, CountersOK, MetaOK, Placed
  <2>4. CASE FlushAll
    <3> DEFINE B == {FsyncSqe(submits + 1, f, FALSE, 0) : f \in Files}
    <3>1. \A p \in B : p.op = "fsync"
      BY DEF FsyncSqe
    <3>2. /\ pc = "idle" /\ pc' = "dump_meta" /\ log_data' = file_commit_count
          /\ inflight' = inflight \cup B
          /\ UNCHANGED <<off_set_of, file_commit_count, cq, disk, durable, accepted>>
      BY <2>4 DEF FlushAll
    <3> HIDE DEF B
    <3>3. AppendOnly'
      BY <3>1, <3>2, FrameKeepsRows DEF DataInv
    <3>4. CountersOK'
      BY <3>2 DEF DataInv, CountersOK
    <3>5. \A p \in inflight' : p.op = "write" => p \in inflight
      BY <3>1, <3>2
    <3>6. MetaOK'
      BY <3>2, <3>5 DEF DataInv, MetaOK
    <3> QED BY <3>3, <3>4, <3>6
  <2>5. CASE DumpMeta
    <3> DEFINE w == WriteSqe(submits + 1, LogMeta, 0, Counts)
    <3>1. w.op = "write" /\ w.file = LogMeta /\ w.off = 0 /\ w.row = Counts
      BY DEF WriteSqe
    <3>2. /\ pc = "dump_meta" /\ pc' = "fsync_meta" /\ inflight' = inflight \cup {w}
          /\ UNCHANGED <<off_set_of, file_commit_count, log_data, cq, disk, durable, accepted>>
      BY <2>5 DEF DumpMeta
    <3> HIDE DEF w
    <3>3. AppendOnly'
      <4> DEFINE B == {w}
      <4>1. \A p \in B : p.op = "write" => p.file \notin Files
        BY <3>1, LoggerAssumption
      <4>2. inflight' = inflight \cup B
        BY <3>2
      <4> HIDE DEF B
      <4> QED BY <3>2, <4>1, <4>2, FrameKeepsRows DEF DataInv
    <3>4. CountersOK'
      BY <3>2 DEF DataInv, CountersOK
    <3>5. Placed(LogMeta, 0, Counts)'
      BY <3>1, <3>2 DEF Placed
    <3>6. MetaOK'
      BY <3>1, <3>2, <3>5 DEF DataInv, MetaOK
    <3> QED BY <3>3, <3>4, <3>6
  <2>6. CASE FsyncMeta
    <3> DEFINE s == FsyncSqe(submits + 1, LogMeta, LastFsyncDrains, Finish)
    <3>1. s.op = "fsync"
      BY DEF FsyncSqe
    <3>2. /\ pc = "fsync_meta" /\ pc' = "wait" /\ inflight' = inflight \cup {s}
          /\ UNCHANGED <<off_set_of, file_commit_count, log_data, cq, disk, durable, accepted>>
      BY <2>6 DEF FsyncMeta
    <3> HIDE DEF s
    <3>3. AppendOnly'
      <4> DEFINE B == {s}
      <4>1. \A p \in B : p.op = "write" => p.file \notin Files
        BY <3>1
      <4>2. inflight' = inflight \cup B
        BY <3>2
      <4> HIDE DEF B
      <4> QED BY <3>2, <4>1, <4>2, FrameKeepsRows DEF DataInv
    <3>4. CountersOK'
      BY <3>2 DEF DataInv, CountersOK
    <3>5. Placed(LogMeta, 0, Counts)'
      BY <3>2, PlacedFrame DEF DataInv, MetaOK
    <3>6. \A p \in inflight' : p.op = "write" => p \in inflight
      BY <3>1, <3>2
    <3>7. MetaOK'
      BY <3>2, <3>5, <3>6 DEF DataInv, MetaOK
    <3> QED BY <3>3, <3>4, <3>7
  <2>7. ASSUME NEW o \in inflight, Complete(o)
        PROVE  CountersOK' /\ AppendOnly' /\ MetaOK'
    BY <2>0, <2>7, CompleteKeepsData
  <2> QED
    BY <2>1, <2>2, <2>3, <2>4, <2>5, <2>6, <2>7 DEF Next, Reap, Kernel, Stopped
<1>3. QED
  BY <1>1, <1>2, ProtocolInvariant, PTL DEF Spec, DataInv

(* For any number of files, rows and commits and any completion order,     *)
(* every accepted row is on its way to, or at, its own offset and nothing  *)
(* else is (commit(): off_set_of), as long as no write fails.              *)
THEOREM RowsKeepTheirPlaces == ASSUME ~WriteErrors PROVE Spec => []AppendOnly
BY DataInvariant, PTL DEF DataInv

(* When ~Logger() has returned, log_meta is stable and gives for each file *)
(* the number of rows it holds (__flush_all(), __dump_logger_meta()).      *)
THEOREM MetaIsTruthful == ASSUME ~WriteErrors PROVE Spec => []MetaTruthful
<1>1. DataInv => MetaTruthful
  <2> SUFFICES ASSUME DataInv, pc = "closed" PROVE MetaTruthful
    BY DEF MetaTruthful
  <2> USE DEF DataInv, ProtocolInv
  <2>1. <<0, Counts>> \in durable[LogMeta]
    BY DEF MetaOK
  <2> SUFFICES ASSUME NEW f \in Files
               PROVE  {c[1] : c \in disk[f]} = 0..(log_data[f] - 1)
    BY <2>1 DEF MetaTruthful
  <2> DEFINE n == Len(accepted[f])
  <2>2. log_data[f] = n /\ n \in Nat
    BY DEF CountersOK, TypeOK
  <2>3. inflight = {}
    BY DEF ClosedOK
  <2>4. \A c \in disk[f] : c[1] \in 0..(n - 1)
    <3>1. \A c \in disk[f] : c[1] \in Nat /\ c[1] < n
      BY DEF AppendOnly, TypeOK, AllFiles
    <3> QED BY <3>1, <2>2
  <2>5. ASSUME NEW i \in 0..(n - 1) PROVE \E c \in disk[f] : c[1] = i
    <3>1. i + 1 \in 1..n /\ (i + 1) - 1 = i
      BY <2>2
    <3>2. <<i, accepted[f][i + 1]>> \in disk[f]
      BY <3>1, <2>3 DEF AppendOnly, Placed
    <3> QED BY <3>2
  <2> QED BY <2>1, <2>2, <2>4, <2>5
<1> QED BY <1>1, DataInvariant, PTL

-----------------------------------------------------------------------------
(* A completion is a Store of the abstract log, or invisible to it.        *)
LEMMA CompleteRefines ==
  ASSUME DataInv, ~WriteErrors, NEW o \in inflight, Complete(o)
  PROVE  [Abs!ANext]_(Abs!avars)
<1> USE DEF DataInv, ProtocolInv
<1> DEFINE stored == [f \in Files |-> {<<c[1] + 1, c[2]>> : c \in disk[f]}]
<1>1. pc # "closed" /\ pc' = pc /\ accepted' = accepted
  BY DEF Complete, ClosedOK
<1>3. CASE o.op = "write" /\ o.file \in Files
  <2> DEFINE f == o.file
             cell == <<o.off + 1, o.row>>
  <2>1. disk' = [disk EXCEPT ![f] = {c \in @ : c[1] # o.off} \cup {<<o.off, o.row>>}]
    BY <1>3 DEF Complete
  <2>2. disk' = [disk EXCEPT ![f] = disk[f] \cup {<<o.off, o.row>>}]
    BY <2>1, <1>3, WriteAdds
  <2>3. /\ disk'[f] = disk[f] \cup {<<o.off, o.row>>}
        /\ \A g \in Files : g # f => disk'[g] = disk[g]
    BY <2>2, <1>3 DEF TypeOK, AllFiles
  <2>4. /\ stored'[f] = stored[f] \cup {cell}
        /\ \A g \in Files : g # f => stored'[g] = stored[g]
    <3>1. ASSUME NEW y PROVE y \in stored'[f] <=> y \in stored[f] \/ y = cell
      <4>1. y \in stored'[f] <=> \E c \in disk'[f] : y = <<c[1] + 1, c[2]>>
        BY <1>3
      <4>2. y \in stored[f] <=> \E c \in disk[f] : y = <<c[1] + 1, c[2]>>
        BY <1>3
      <4>3. \A c : c \in disk'[f] <=> c \in disk[f] \/ c = <<o.off, o.row>>
        BY <2>3
      <4>4. <<o.off, o.row>>[1] = o.off /\ <<o.off, o.row>>[2] = o.row
        OBVIOUS
      <4> HIDE DEF stored
      <4> QED BY <4>1, <4>2, <4>3, <4>4
    <3>2. \A g \in Files : g # f => stored'[g] = stored[g]
      BY <2>3
    <3> QED BY <3>1, <3>2
  <2>5. cell \in Abs!Contents(f)
    <3>1. o.off \in Nat /\ o.off < Len(accepted[f]) /\ o.row = accepted[f][o.off + 1]
      BY <1>3, FieldTypes DEF AppendOnly
    <3>2. Len(accepted[f]) \in Nat
      BY <1>3 DEF TypeOK
    <3>3. o.off + 1 \in 1..Len(accepted[f])
      BY <3>1, <3>2
    <3> QED BY <3>1, <3>3 DEF Abs!Contents
  <2>6. stored' = [stored EXCEPT ![f] = @ \cup {cell}]
    <3> HIDE DEF f, cell
    <3>1. stored' = [g \in Files |-> stored'[g]] /\ stored = [g \in Files |-> stored[g]]
      OBVIOUS
    <3> HIDE DEF stored
    <3> QED BY <3>1, <2>4
  <2>7. CASE cell \in stored[f]
    <3>1. stored' = stored
      <4> HIDE DEF cell, f
      <4>1. stored = [g \in Files |-> stored[g]]
        OBVIOUS
      <4> HIDE DEF stored
      <4> QED BY <2>6, <2>7, <4>1
    <3> QED BY <3>1, <1>1 DEF Abs!avars
  <2>8. CASE cell \notin stored[f]
    <3>1. Abs!Store(f)
      BY <2>5, <2>6, <2>8, <1>1 DEF Abs!Store
    <3> QED BY <3>1, <1>3 DEF Abs!ANext
  <2> QED BY <2>7, <2>8
<1>4. CASE ~(o.op = "write" /\ o.file \in Files)
  <2>1. \A g \in Files : disk'[g] = disk[g]
    BY <1>4, FieldTypes DEF Complete, TypeOK, AllFiles
  <2>2. stored' = stored
    BY <2>1
  <2> QED BY <2>2, <1>1 DEF Abs!avars
<1> QED BY <1>3, <1>4

(* The detailed logger, with its asynchronous writes, is an append log:    *)
(* commit() accepts a row, a completed write stores it, and ~Logger()      *)
(* closes a log in which nothing is left to store.                         *)
THEOREM LoggerImplementsAppendLog == ASSUME ~WriteErrors PROVE Spec => AppendLogSpec
<1> DEFINE stored == [f \in Files |-> {<<c[1] + 1, c[2]>> : c \in disk[f]}]
<1>1. Init => Abs!AInit
  BY DEF Init, Abs!AInit, AllFiles
<1>2. DataInv /\ [Next]_vars => [Abs!ANext]_(Abs!avars)
  <2> SUFFICES ASSUME DataInv, [Next]_vars PROVE [Abs!ANext]_(Abs!avars)
    OBVIOUS
  <2>1. ASSUME NEW f \in Files, NEW r \in Rows, Commit(f, r)
        PROVE  [Abs!ANext]_(Abs!avars)
    <3>1. Abs!Accept(f, r)
      BY <2>1 DEF Commit, Abs!Accept
    <3> QED BY <3>1 DEF Abs!ANext
  <2>2. ASSUME UNCHANGED <<accepted, disk>>, (pc = "closed") = (pc' = "closed")
        PROVE  [Abs!ANext]_(Abs!avars)
    BY <2>2 DEF Abs!avars
  <2>3. CASE WaitFinish
    <3>1. inflight = {}
      <4>1. cq # <<>> /\ Head(cq) = Finish /\ TypeOK
        BY <2>3 DEF WaitFinish, DataInv, ProtocolInv
      <4>2. Len(cq) \in Nat /\ Len(cq) # 0 /\ Head(cq) = cq[1]
        BY <4>1 DEF TypeOK
      <4>3. 1 \in 1..Len(cq) /\ cq[1] = Finish
        BY <4>1, <4>2
      <4> QED BY <4>3 DEF DataInv, ProtocolInv, CompletionsOK
    <3>2. ASSUME NEW f \in Files PROVE stored[f] = Abs!Contents(f)
      <4> USE DEF DataInv, ProtocolInv
      <4> DEFINE n == Len(accepted[f])
      <4>1. n \in Nat
        BY DEF TypeOK
      <4>2. \A i \in 1..n : <<i - 1, accepted[f][i]>> \in disk[f]
        BY <3>1 DEF AppendOnly, Placed
      <4>3. \A c \in disk[f] : /\ c[1] \in Nat /\ c[1] < n
                               /\ c[2] = accepted[f][c[1] + 1]
        BY DEF AppendOnly, TypeOK, AllFiles
      <4>4. ASSUME NEW i \in 1..n PROVE <<i, accepted[f][i]>> \in stored[f]
        <5> DEFINE c == <<i - 1, accepted[f][i]>>
        <5>1. c \in disk[f] /\ c[1] + 1 = i /\ c[2] = accepted[f][i]
          BY <4>1, <4>2
        <5> HIDE DEF c
        <5>2. <<c[1] + 1, c[2]>> \in stored[f]
          BY <5>1
        <5> QED BY <5>1, <5>2
      <4>5. ASSUME NEW c \in disk[f]
            PROVE  <<c[1] + 1, c[2]>> \in Abs!Contents(f)
        <5>1. c[1] + 1 \in 1..n
          BY <4>1, <4>3
        <5> QED BY <5>1, <4>3 DEF Abs!Contents
      <4> QED BY <4>4, <4>5 DEF Abs!Contents
    <3>3. Abs!Close
      BY <2>3, <3>2 DEF WaitFinish, Abs!Close
    <3> QED BY <3>3 DEF Abs!ANext
  <2>4. CASE Reap \/ FlushAll \/ DumpMeta \/ FsyncMeta \/ WaitBuffer \/ WaitFsync
             \/ UNCHANGED vars
    BY <2>4, <2>2
    DEF Reap, ReapBuffer, ReapEmpty, FlushAll, DumpMeta, FsyncMeta, WaitBuffer,
        WaitFsync, vars
  <2>5. ASSUME NEW o \in inflight, Complete(o) PROVE [Abs!ANext]_(Abs!avars)
    BY <2>5, CompleteRefines
  <2> QED
    BY <2>1, <2>3, <2>4, <2>5 DEF Next, Wait, Kernel, Stopped
<1>3. QED
  BY <1>1, <1>2, DataInvariant, PTL DEF Spec, AppendLogSpec, Abs!ASpec
=============================================================================

------------------------------- MODULE Logger -------------------------------
(***************************************************************************)
(* The row logger of logger.hpp.  One thread prepares and submits io_uring *)
(* requests; the kernel completes them asynchronously, in any order that   *)
(* IOSQE_IO_DRAIN allows, and posts the user_data of each on the           *)
(* completion queue, from which the thread frees the row buffers.          *)
(*                                                                         *)
(* Offsets are counted in rows (every commit of a file has the length      *)
(* row_size of that file) and a buffer is named by the number of the       *)
(* io_uring_submit call that handed it over, which also orders requests.   *)
(***************************************************************************)
EXTENDS Integers, Sequences

CONSTANTS Files,     \* names given to register_log
          LogMeta,   \* the file log_meta, opened by __dump_logger_meta
          Rows,      \* contents of a row
          Counts,    \* the contents of log_meta: the text built from log_data
          WriteErrors, \* whether the storage may fail a write (no space, I/O error)
          MaxRows    \* bound on the commits of one behaviour

ASSUME LoggerAssumption ==
  /\ LogMeta \notin Files
  /\ WriteErrors \in BOOLEAN
  /\ MaxRows \in Nat

VARIABLES
  pc,                 \* where the logger's thread is
  off_set_of,         \* [Files -> offset of the next row]
  file_commit_count,  \* [Files -> rows accepted]
  log_data,           \* [Files -> count written to log_meta], set by __flush_all
  submits,            \* number of io_uring_submit calls so far
  inflight,           \* submitted requests the kernel has not completed
  cq,                 \* completion queue: the user_data of completed requests
  bufs,               \* heap buffers allocated and not yet deleted
  disk,               \* [file -> set of <<offset, row>>]: the file's contents
  durable,            \* the part of disk that an fsync has made stable
  accepted            \* history: [Files -> rows passed to commit, in order]

vars == <<pc, off_set_of, file_commit_count, log_data, submits, inflight, cq,
          bufs, disk, durable, accepted>>

AllFiles == Files \cup {LogMeta}

Finish == -1   \* INT16_MAX: the user_data of the last fsync, never a heap address

(* off_set_of[index] += length: where the next row of a file goes.         *)
Advance_Stays(off) == off
Advance_Back(off) == off - 1
Advance(off) == off + 1

(* file_commit_count[index]++.                                             *)
Counted_Not(count) == count
Counted(count) == count + 1

(* sqe_finish->flags = IOSQE_IO_DRAIN.                                     *)
LastFsyncDrains_Not == FALSE
LastFsyncDrains == TRUE

(* The copy of the row must stay allocated while the kernel may read it.   *)
WithCopy(live, n) == live \cup {n}

(* Requests, as io_uring_prep_write and io_uring_prep_fsync fill them in.  *)
(* commit() and the last fsync set user_data themselves; __flush_all()     *)
(* does not, its 0 is that of io_uring_prep_fsync (external).              *)
WriteSqe(n, f, off, r) ==
  [seq |-> n, op |-> "write", file |-> f, off |-> off, row |-> r,
   drain |-> FALSE, user_data |-> n]
FsyncSqe_StaleData(n, f, drain, data) ==   \* user_data keeps the slot's old value
  [seq |-> n, op |-> "fsync", file |-> f, off |-> 0, row |-> Counts,
   drain |-> drain, user_data |-> IF drain THEN data ELSE n - 1]
FsyncSqe(n, f, drain, data) ==
  [seq |-> n, op |-> "fsync", file |-> f, off |-> 0, row |-> Counts,
   drain |-> drain, user_data |-> data]

Init ==
  /\ pc = "idle"
  /\ off_set_of = [f \in Files |-> 0]
  /\ file_commit_count = [f \in Files |-> 0]
  /\ log_data = [f \in Files |-> 0]
  /\ submits = 0
  /\ inflight = {}
  /\ cq = <<>>
  /\ bufs = {}
  /\ disk = [f \in AllFiles |-> {}]
  /\ durable = [f \in AllFiles |-> {}]
  /\ accepted = [f \in Files |-> <<>>]

-----------------------------------------------------------------------------
(* commit(): copy the row, queue its write at the file's offset, submit,   *)
(* then enter the loop that frees the buffers of completed writes.         *)
Commit(f, r) ==
  /\ pc = "idle"
  /\ submits < MaxRows
  /\ pc' = "reap"
  /\ submits' = submits + 1
  /\ file_commit_count' = [file_commit_count EXCEPT ![f] = Counted(@)]
  /\ off_set_of' = [off_set_of EXCEPT ![f] = Advance(@)]
  /\ bufs' = WithCopy(bufs, submits + 1)
  /\ inflight' = inflight \cup {WriteSqe(submits + 1, f, off_set_of[f], r)}
  /\ accepted' = [accepted EXCEPT ![f] = Append(@, r)]
  /\ UNCHANGED <<log_data, cq, disk, durable>>

(* One turn of commit()'s loop: a completion is there, and its user_data,  *)
(* when not null, is the buffer to delete; a null one is never consumed.   *)
ReapBuffer ==
  /\ pc = "reap"
  /\ cq # <<>>
  /\ Head(cq) # 0
  /\ bufs' = bufs \ {Head(cq)}
  /\ cq' = Tail(cq)
  /\ UNCHANGED <<pc, off_set_of, file_commit_count, log_data, submits,
                 inflight, disk, durable, accepted>>

(* io_uring_peek_cqe finds nothing: commit() returns.                      *)
ReapEmpty ==
  /\ pc = "reap"
  /\ cq = <<>>
  /\ pc' = "idle"
  /\ UNCHANGED <<off_set_of, file_commit_count, log_data, submits, inflight,
                 cq, bufs, disk, durable, accepted>>

-----------------------------------------------------------------------------
(* ~Logger() -> __flush_all(): one fsync per registered file, submitted    *)
(* together and without IOSQE_IO_DRAIN, and the text of log_meta.          *)
FlushAll ==
  /\ pc = "idle"
  /\ pc' = "dump_meta"
  /\ log_data' = file_commit_count
  /\ submits' = submits + 1
  /\ inflight' = inflight \cup {FsyncSqe(submits + 1, f, FALSE, 0) : f \in Files}
  /\ UNCHANGED <<off_set_of, file_commit_count, cq, bufs, disk, durable, accepted>>

(* __dump_logger_meta(), up to the first submit: the write of log_meta.    *)
DumpMeta ==
  /\ pc = "dump_meta"
  /\ pc' = "fsync_meta"
  /\ submits' = submits + 1
  /\ bufs' = WithCopy(bufs, submits + 1)
  /\ inflight' = inflight \cup {WriteSqe(submits + 1, LogMeta, 0, Counts)}
  /\ UNCHANGED <<off_set_of, file_commit_count, log_data, cq, disk, durable, accepted>>

(* __dump_logger_meta(), second submit: the fsync of log_meta, which is    *)
(* held back until everything submitted before it has completed.           *)
FsyncMeta ==
  /\ pc = "fsync_meta"
  /\ pc' = "wait"
  /\ submits' = submits + 1
  /\ inflight' = inflight \cup
       {FsyncSqe(submits + 1, LogMeta, LastFsyncDrains, Finish)}
  /\ UNCHANGED <<off_set_of, file_commit_count, log_data, cq, bufs, disk,
                 durable, accepted>>

(* __dump_logger_meta()'s busy loop, by the user_data of the completion.   *)
WaitBuffer ==
  /\ pc = "wait"
  /\ cq # <<>>
  /\ Head(cq) \notin {0, Finish}
  /\ bufs' = bufs \ {Head(cq)}
  /\ cq' = Tail(cq)
  /\ UNCHANGED <<pc, off_set_of, file_commit_count, log_data, submits,
                 inflight, disk, durable, accepted>>

WaitFsync_NotSeen ==   \* the completion is inspected and never consumed
  /\ pc = "wait"
  /\ cq # <<>>
  /\ Head(cq) = 0
  /\ UNCHANGED vars

WaitFsync_Breaks ==   \* the loop ends at the first fsync
  /\ pc = "wait"
  /\ cq # <<>>
  /\ Head(cq) = 0
  /\ cq' = Tail(cq)
  /\ pc' = "closed"
  /\ UNCHANGED <<off_set_of, file_commit_count, log_data, submits,
                 inflight, bufs, disk, durable, accepted>>

WaitFsync ==
  /\ pc = "wait"
  /\ cq # <<>>
  /\ Head(cq) = 0
  /\ cq' = Tail(cq)
  /\ UNCHANGED <<pc, off_set_of, file_commit_count, log_data, submits,
                 inflight, bufs, disk, durable, accepted>>

(* The completion of the last fsync ends the loop and the destructor.      *)
WaitFinish ==
  /\ pc = "wait"
  /\ cq # <<>>
  /\ Head(cq) = Finish
  /\ cq' = Tail(cq)
  /\ pc' = "closed"
  /\ UNCHANGED <<off_set_of, file_commit_count, log_data, submits,
                 inflight, bufs, disk, durable, accepted>>

-----------------------------------------------------------------------------
(* The kernel side of the ring (external).  A draining request waits for   *)
(* the earlier ones, and later ones wait for it; all others complete in    *)
(* any order.  A write lands at its offset, or fails: cqe->res says so and *)
(* logger.hpp never reads it.  An fsync makes stable what the file holds   *)
(* when it completes, the most that fsync can give.                        *)
CanComplete(o) ==
  /\ o.drain => \A p \in inflight : p.seq >= o.seq
  /\ \A p \in inflight : p.drain => p.seq >= o.seq

Complete(o) ==
  /\ o \in inflight
  /\ CanComplete(o)
  /\ inflight' = inflight \ {o}
  /\ cq' = Append(cq, o.user_data)
  /\ \/ /\ o.op = "write"
        /\ disk' = [disk EXCEPT ![o.file] =
             {c \in @ : c[1] # o.off} \cup {<<o.off, o.row>>}]
        /\ UNCHANGED durable
     \/ /\ o.op = "fsync"
        /\ durable' = [durable EXCEPT ![o.file] = disk[o.file]]
        /\ UNCHANGED disk
     \/ /\ o.op = "write"
        /\ WriteErrors
        /\ UNCHANGED <<disk, durable>>
  /\ UNCHANGED <<pc, off_set_of, file_commit_count, log_data, submits, bufs, accepted>>

(* After the destructor main() goes on without the logger.                 *)
Stopped ==
  /\ pc = "closed"
  /\ UNCHANGED vars

-----------------------------------------------------------------------------
Reap == ReapBuffer \/ ReapEmpty
Wait == WaitBuffer \/ WaitFsync \/ WaitFinish
Kernel == \E o \in inflight : Complete(o)

Next ==
  \/ \E f \in Files, r \in Rows : Commit(f, r)
  \/ Reap
  \/ FlushAll
  \/ DumpMeta
  \/ FsyncMeta
  \/ Wait
  \/ Kernel
  \/ Stopped

Spec == Init /\ [][Next]_vars

(* The thread runs while it has something to do, and the kernel finishes   *)
(* the requests it was given.  Commits and the end of tracing are up to    *)
(* the traced system and the user: no fairness.                            *)
FairSpec ==
  /\ Spec
  /\ WF_vars(Reap)
  /\ WF_vars(DumpMeta)
  /\ WF_vars(FsyncMeta)
  /\ WF_vars(Wait)
  /\ WF_vars(Kernel)

-----------------------------------------------------------------------------
(* Every variable stays in its range; what comes back on the completion    *)
(* queue is a buffer, 0, or the last fsync's mark.                         *)
Sqes ==
  [seq : Nat, op : {"write", "fsync"}, file : AllFiles, off : Nat,
   row : Rows \cup {Counts}, drain : BOOLEAN, user_data : Nat \cup {Finish}]

TypeOK ==
  /\ pc \in {"idle", "reap", "dump_meta", "fsync_meta", "wait", "closed"}
  /\ off_set_of \in [Files -> Nat]
  /\ file_commit_count \in [Files -> Nat]
  /\ log_data \in [Files -> Nat]
  /\ submits \in Nat
  /\ inflight \subseteq Sqes
  /\ cq \in Seq(Nat \cup {Finish})
  /\ bufs \subseteq Nat
  /\ disk \in [AllFiles -> SUBSET (Nat \X (Rows \cup {Counts}))]
  /\ durable \in [AllFiles -> SUBSET (Nat \X (Rows \cup {Counts}))]
  /\ accepted \in [Files -> Seq(Rows)]

(* Position o of file f holds, or is about to receive, row r.              *)
Placed(f, o, r) ==
  \/ <<o, r>> \in disk[f]
  \/ \E p \in inflight : p.op = "write" /\ p.file = f /\ p.off = o /\ p.row = r

(* Whatever order the writes complete in, a file grows as an append-only   *)
(* log: each accepted row is on its way to, or at, its own offset, and no  *)
(* other row is on its way to, or at, that offset (commit()'s off_set_of). *)
AppendOnly ==
  \A f \in Files :
    /\ \A i \in 1..Len(accepted[f]) : Placed(f, i - 1, accepted[f][i])
    /\ \A c \in disk[f] : c[1] < Len(accepted[f]) /\ c[2] = accepted[f][c[1] + 1]
    /\ \A p \in inflight : p.op = "write" /\ p.file = f =>
         p.off < Len(accepted[f]) /\ p.row = accepted[f][p.off + 1]

(* The kernel never reads a freed row: the buffer of a write in flight is  *)
(* alive, and a buffer is deleted once, from the only completion that      *)
(* names it (commit()'s and __dump_logger_meta()'s reaping loops).         *)
BufferLifetime ==
  /\ \A p \in inflight : p.op = "write" => p.user_data \in bufs
  /\ \A i \in 1..Len(cq) : cq[i] > 0 =>
       /\ cq[i] \in bufs
       /\ \A j \in 1..Len(cq) : j # i => cq[j] # cq[i]
       /\ \A p \in inflight : p.user_data # cq[i]

(* ~Logger() returns only after every request has completed, every         *)
(* completion was consumed and every row buffer deleted: the last fsync    *)
(* drains the ring, so io_uring_queue_exit finds nothing in flight.        *)
QuiescentAtClose ==
  pc = "closed" => inflight = {} /\ cq = <<>> /\ bufs = {}

(* When ~Logger() has returned, log_meta is on stable storage and the      *)
(* count it gives for a file is the number of rows in the file, without    *)
(* holes: LogCollecterVector reads exactly that many rows back.            *)
MetaTruthful ==
  pc = "closed" =>
    /\ <<0, Counts>> \in durable[LogMeta]
    /\ \A f \in Files : {c[1] : c \in disk[f]} = 0..(log_data[f] - 1)

(* Once the destructor has started it returns: the busy loop of            *)
(* __dump_logger_meta() consumes everything in front of its mark.          *)
FlushTerminates == pc = "dump_meta" ~> pc = "closed"

(* mysql.md, on Ctrl+C: stortrace waits for all data to reach the disk     *)
(* before it ends, and the fsyncs confirm it.  Stated of every file: what  *)
(* it holds when ~Logger() has returned is on stable storage.              *)
DurableAtClose ==
  pc = "closed" => \A f \in Files : durable[f] = disk[f]

(* The logger implements the append log its callers rely on.               *)
Abs == INSTANCE AppendLog WITH
  stored <- [f \in Files |-> {<<c[1] + 1, c[2]>> : c \in disk[f]}],
  closed <- (pc = "closed")
AppendLogSpec == Abs!ASpec
=============================================================================

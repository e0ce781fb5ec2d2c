----------------------------- MODULE IoReports -----------------------------
(***************************************************************************)
(* What the analysis relies on when it takes the rows of blk mode to be    *)
(* the I/Os of the machine: every row is about one life of a request, the  *)
(* life is named by the time it began, it is reported at most once,        *)
(* whatever becomes of its address afterwards, and reports arrive in the   *)
(* order they were made.  Lives may go unreported.                         *)
(* Module BlkTraceModule is shown to implement this specification.         *)
(***************************************************************************)
EXTENDS Integers, Sequences

CONSTANT Requests   \* addresses of struct request

VARIABLES
  clock,   \* the last reading of the clock
  open,    \* [Requests -> when the life being traced began, 0: none is]
  queue,   \* the ring: starts of the lives reported, 0 for other records
  rows     \* starts of the lives that have a row

ioVars == <<clock, open, queue, rows>>

IoInit ==
  /\ clock = 0 /\ queue = <<>> /\ rows = <<>>
  /\ open = [r \in Requests |-> 0]

Advance ==
  /\ clock' = clock + 1
  /\ UNCHANGED <<open, queue, rows>>

(* The address gets a new life; what was open there can no longer be       *)
(* reported.  With no room in the maps the new life is not traced.         *)
Allocate(r) ==
  /\ clock' = clock + 1
  /\ \E start \in {0, clock + 1} : open' = [open EXCEPT ![r] = start]
  /\ UNCHANGED <<queue, rows>>

(* A life ends and is reported: nothing is left to report it again.        *)
Report(r) ==
  /\ open[r] # 0
  /\ clock' = clock + 1
  /\ queue' = Append(queue, open[r])
  /\ open' = [open EXCEPT ![r] = 0]
  /\ UNCHANGED rows

OtherTraffic ==
  /\ clock' = clock + 1
  /\ queue' = Append(queue, 0)
  /\ UNCHANGED <<open, rows>>

(* The consumer turns the oldest report into a row, or passes over it.     *)
Deliver ==
  /\ queue # <<>> /\ Head(queue) # 0
  /\ rows' = Append(rows, Head(queue))
  /\ queue' = Tail(queue)
  /\ UNCHANGED <<clock, open>>

Discard ==
  /\ queue # <<>>
  /\ queue' = Tail(queue)
  /\ UNCHANGED <<clock, open, rows>>

IoNext ==
  \/ Advance
  \/ \E r \in Requests : Allocate(r) \/ Report(r)
  \/ OtherTraffic
  \/ Deliver
  \/ Discard

IoSpec == IoInit /\ [][IoNext]_ioVars

-----------------------------------------------------------------------------
(* A life has at most one row, and a life that has one is neither in the   *)
(* ring nor still open, so that it will not get another.                   *)
OneRowPerLife ==
  \A i \in 1..Len(rows) :
    /\ \A j \in 1..Len(rows) : j # i => rows[j] # rows[i]
    /\ \A k \in 1..Len(queue) : queue[k] # rows[i]
    /\ \A r \in Requests : open[r] # rows[i]
=============================================================================

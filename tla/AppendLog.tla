----------------------------- MODULE AppendLog -----------------------------
(***************************************************************************)
(* What the tracer's front ends rely on when they hand rows to the logger: *)
(* each registered file is an append-only log, the storage may receive the *)
(* accepted rows late and in any order, and the destructor returns only    *)
(* when every file holds exactly the rows that were accepted, in order.    *)
(* Module Logger is shown to implement this specification.                 *)
(***************************************************************************)
EXTENDS Integers, Sequences

CONSTANTS Files,   \* the files registered with register_log
          Rows     \* the rows a front end can commit

VARIABLES
  accepted,   \* [Files -> Seq(Rows)]: rows commit() has accepted
  stored,     \* [Files -> SUBSET (position \X row)]: what the file holds
  closed      \* TRUE once ~Logger() has returned

avars == <<accepted, stored, closed>>

Contents(f) == {<<i, accepted[f][i]>> : i \in 1..Len(accepted[f])}

AInit ==
  /\ accepted = [f \in Files |-> <<>>]
  /\ stored = [f \in Files |-> {}]
  /\ closed = FALSE

(* commit(): the row gets the next position of its file, whatever the      *)
(* storage has done so far.                                                *)
Accept(f, r) ==
  /\ ~closed
  /\ accepted' = [accepted EXCEPT ![f] = Append(@, r)]
  /\ UNCHANGED <<stored, closed>>

(* The storage takes one accepted row at its position; never another.      *)
Store(f) ==
  /\ ~closed
  /\ \E cell \in Contents(f) \ stored[f] :
       stored' = [stored EXCEPT ![f] = @ \cup {cell}]
  /\ UNCHANGED <<accepted, closed>>

(* The destructor returns only when nothing is left to store.              *)
Close ==
  /\ ~closed
  /\ \A f \in Files : stored[f] = Contents(f)
  /\ closed' = TRUE
  /\ UNCHANGED <<accepted, stored>>

ANext ==
  \/ \E f \in Files, r \in Rows : Accept(f, r)
  \/ \E f \in Files : Store(f)
  \/ Close

ASpec == AInit /\ [][ANext]_avars
=============================================================================

----------------------------- MODULE TimeSeries -----------------------------
(***************************************************************************)
(* The growing vectors of time_aq.hpp and hctx_state.hpp: a value is put   *)
(* into the slot of its time, counted in intervals from the first time     *)
(* committed, and the vector doubles when the slot lies behind its end.    *)
(* Writing outside the vector is undefined; `valid' says it never happened.*)
(***************************************************************************)
EXTENDS Integers, Sequences, SequencesExt

CONSTANTS
  SeriesSize,   \* the vectors' first size, the literal 30
  WordSize,     \* 2^64, unsigned long long
  IntSize,      \* 2^32, int and unsigned int
  NsPerMs       \* 1000000

ASSUME TimeSeriesAssumption ==
  /\ SeriesSize \in Nat \ {0} /\ NsPerMs \in Nat \ {0}
  /\ IntSize \in Nat \ {0} /\ WordSize \in Nat /\ WordSize >= IntSize

(* Unsigned subtraction, and the conversions of a number to int and back   *)
(* to unsigned long.                                                       *)
Sub(a, b) == IF b <= a THEN a - b ELSE WordSize + a - b
ToInt(u) == LET low == u % IntSize IN IF 2 * low >= IntSize THEN low - IntSize ELSE low
ToWord(i) == IF i < 0 THEN WordSize + i ELSE i

(* pmc_inv is an unsigned int of nanoseconds, the constructors take an int *)
(* and keep an unsigned long.                                              *)
IntervalOf(ms) == ToWord(ToInt(ms * NsPerMs))

NoCell == [sum |-> 0, n |-> 0]
NewSeries ==
  [started |-> FALSE, start |-> 0, size |-> SeriesSize, valid |-> TRUE,
   data |-> [i \in 0..(SeriesSize - 1) |-> NoCell]]

StartOf(s, tp) == IF s.started THEN s.start ELSE tp
SlotOf_Rounded(s, interval, tp) ==   \* to the nearest slot
  ToInt((Sub(tp, StartOf(s, tp)) + interval \div 2 + 1) \div interval)
SlotOf(s, interval, tp) == ToInt(Sub(tp, StartOf(s, tp)) \div interval)

(* The vector after the growth test, with a new cell in one slot.          *)
Put_SizeOnly(s, start, size, index, cell) ==   \* the size is doubled, the vector is not
  [s EXCEPT !.started = TRUE, !.start = start, !.size = size,
            !.data = [i \in DOMAIN s.data |-> IF i = index THEN cell ELSE s.data[i]]]
Put(s, start, size, index, cell) ==
  IF index \in 0..(size - 1)
    THEN [started |-> TRUE, start |-> start, size |-> size, valid |-> s.valid,
          data |-> [i \in 0..(size - 1) |->
                      IF i = index THEN cell ELSE IF i < s.size THEN s.data[i] ELSE NoCell]]
    ELSE [s EXCEPT !.valid = FALSE]

CellAt(s, index) == IF index \in 0..(s.size - 1) THEN s.data[index] ELSE NoCell
Doubled(s) == 2 * s.size

(* TimeAvgPmc::commit and TimeThroughputPmc::commit (which has no n).      *)
GrownSize_Late(s, index) == IF index > s.size THEN Doubled(s) ELSE s.size
GrownSize(s, index) == IF index > s.size - 1 THEN Doubled(s) ELSE s.size

Commit(s, interval, tp, x) ==
  IF interval = 0
    THEN [s EXCEPT !.valid = FALSE]   \* division by zero
    ELSE LET index == SlotOf(s, interval, tp)
             old == CellAt(s, index)
         IN Put(s, StartOf(s, tp), GrownSize(s, index), index,
                [sum |-> old.sum + x, n |-> old.n + 1])

(* HctxState::commit: another growth test, and a slot keeps the last pair. *)
HctxGrownSize(s, index) == IF index > s.size THEN Doubled(s) ELSE s.size

HctxCommit(s, interval, tp, runed, queued) ==
  IF interval = 0
    THEN [s EXCEPT !.valid = FALSE]
    ELSE LET index == SlotOf(s, interval, tp)
         IN Put(s, StartOf(s, tp), HctxGrownSize(s, index), index, [sum |-> runed, n |-> queued])

(* A series filled from a sequence of [tp, x].                             *)
CommitAll(interval, commits) ==
  FoldLeft(LAMBDA s, c : Commit(s, interval, c.tp, c.x), NewSeries, commits)

SeqData(s) == [i \in 0..(s.size - 1) |-> s.data[i].sum]
Avgs(s) == [i \in 0..(s.size - 1) |-> IF s.data[i].n = 0 THEN 0 ELSE s.data[i].sum \div s.data[i].n]

-----------------------------------------------------------------------------
(* What a caller must see to for a series to stay within its vector: times *)
(* no earlier than the first, and no step forward past SeriesSize slots.   *)
TrueSlot(interval, first, tp) == (tp - first) \div interval
SizeAfter[j \in Nat] == IF j = 0 THEN SeriesSize ELSE 2 * SizeAfter[j - 1]   \* doubled j times

Steady(interval, times) ==
  /\ interval > 0
  /\ \A k \in 1..Len(times) :
       /\ times[k] >= times[1]
       /\ 2 * TrueSlot(interval, times[1], times[k]) < IntSize
       /\ k > 1 => TrueSlot(interval, times[1], times[k])
                     <= TrueSlot(interval, times[1], times[k - 1]) + SeriesSize
=============================================================================

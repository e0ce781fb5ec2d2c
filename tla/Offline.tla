------------------------------ MODULE Offline ------------------------------
(***************************************************************************)
(* What the tracer computes once the tracing is over: the heatmaps it      *)
(* dumps on release and, from the tables read back, the distributions,     *)
(* rates and joins of collector.hpp and the process_* functions of         *)
(* main.cpp.  A function's result has `valid' = FALSE when computing it    *)
(* leaves a vector or divides by zero.  Rates are pairs, numerator and     *)
(* denominator, for floats.                                                *)
(***************************************************************************)
EXTENDS TimeSeries, FiniteSetsExt, TLC

CONSTANTS
  Buckets,     \* buckets of a distribution but the last, the literal 100
  HeatBias     \* the least width of a heatmap's bucket, the literal 100

ASSUME OfflineAssumption == Buckets \in Nat \ {0} /\ HeatBias \in Nat \ {0}

Elements(s) == {s[k] : k \in 1..Len(s)}
Column(table, Get(_)) == [k \in 1..Len(table) |-> Get(table[k])]
Total(f) == MapThenSumSet(LAMBDA i : f[i], DOMAIN f)
At(s, D) ==   \* the elements of s with an index in D, in their order
  LET nth(j) == CHOOSE k \in D : Cardinality({i \in D : i <= k}) = j
  IN [j \in 1..Cardinality(D) |-> s[nth(j)]]

(* Heatmap::commit and gen_heatmap: the width of a bucket is cut to an int *)
(* and divides as an unsigned long: a negative one leaves one bucket, and  *)
(* zero is a division by zero.                                             *)
HeatWidth(range, partition) == ToWord(ToInt(range \div partition + HeatBias))
HeatSize_NotRounded(range, width) == range \div width
HeatSize(range, width) == range \div width + 1

Heatmap(recv, partition) ==
  LET sectors == {r.sector : r \in Elements(recv)}
      low == Min(sectors \cup {WordSize \div 2 - 1})
      range == Max(sectors \cup {0}) - low
      width == HeatWidth(range, partition)
      slot(r) == (r.sector - low) \div width
      size == HeatSize(range, width)
  IN IF partition = 0 \/ width = 0
       THEN [valid |-> FALSE, bucket |-> <<>>]
       ELSE [valid |-> \A r \in Elements(recv) : slot(r) < size,
             bucket |-> [b \in 0..(size - 1) |->
               ToInt(Total([k \in {k \in 1..Len(recv) : slot(recv[k]) = b} |-> recv[k].stats]))]]

(* get_dis: a step of one hundredth of the range, at least 1.              *)
BucketOf_FromZero(v, low, step) ==
  LET index == v \div step IN IF index >= Buckets THEN Buckets ELSE index
BucketOf(v, low, step) ==
  LET index == (v - low) \div step IN IF index >= Buckets THEN Buckets ELSE index

GetDis(latency) ==
  LET low == Min(Elements(latency) \cup {WordSize \div 2 - 1})
      high == Max(Elements(latency) \cup {0})
      hundredth == Sub(high, low) \div Buckets
      step == IF hundredth = 0 THEN 1 ELSE hundredth
      count(b) == Cardinality({k \in 1..Len(latency) : BucketOf(latency[k], low, step) = b})
  IN [valid |-> \A v \in Elements(latency) : BucketOf(v, low, step) \in 0..Buckets,
      distribution |-> [b \in 0..Buckets |-> count(b)]]

(* get_IO_pmc, get_avg_seq.                                                *)
GetIoPmc(interval, ends) == CommitAll(interval, [k \in 1..Len(ends) |-> [tp |-> ends[k].tp, x |-> 1]])
GetAvgSeq_InTableOrder(interval, latency, ends) ==   \* the k-th row for the k-th end
  CommitAll(interval, [k \in 1..Len(ends) |-> [tp |-> ends[k].tp, x |-> latency[k]]])
GetAvgSeq(interval, latency, ends) ==
  CommitAll(interval, [k \in 1..Len(ends) |-> [tp |-> ends[k].tp, x |-> latency[ends[k].row]]])

(* get_rw_rate: both series start at the first end, which counts once more *)
(* in each of them; the rate published as r_rate is that of the writes.    *)
OfType(ends, io_types, type) == At(ends, {k \in 1..Len(ends) : io_types[ends[k].row] = type})
TimesOf_Unaligned(ends, io_types, type) ==   \* from the first of its own
  Column(OfType(ends, io_types, type), LAMBDA e : e.tp)
TimesOf(ends, io_types, type) ==
  <<ends[1].tp>> \o Column(OfType(ends, io_types, type), LAMBDA e : e.tp)
Counted(interval, times) == CommitAll(interval, [k \in 1..Len(times) |-> [tp |-> times[k], x |-> 1]])

RwRate(interval, ends, io_types) ==
  IF ends = <<>>
    THEN [valid |-> FALSE, r_rate |-> <<>>, w_rate |-> <<>>]
    ELSE LET reads == Counted(interval, TimesOf(ends, io_types, "READ"))
             writes == Counted(interval, TimesOf(ends, io_types, "WRITE"))
             less_size == Min({reads.size, writes.size})
             rate(own, i) ==
               LET R == reads.data[i].sum
                   W == writes.data[i].sum
               IN IF R > 1 /\ W > 1 THEN <<own.data[i].sum, R + W>> ELSE <<0, 1>>
         IN [valid |-> reads.valid /\ writes.valid,
             r_rate |-> [i \in 0..(less_size - 1) |-> rate(writes, i)],
             w_rate |-> [i \in 0..(less_size - 1) |-> rate(reads, i)]]

(* get_merge_rate: the second series starts at the first bio as well, and  *)
(* its size bounds the loop over both.                                     *)
MergeRate(interval, before, ends) ==
  IF before = <<>>
    THEN [valid |-> FALSE, rate |-> <<>>]
    ELSE LET all == Counted(interval, before)
             merged == Counted(interval, <<before[1]>> \o [k \in 1..Len(ends) |-> ends[k].tp])
         IN [valid |-> all.valid /\ merged.valid /\ merged.size <= all.size,
             rate |-> [i \in 0..(merged.size - 1) |->
                         LET a == CellAt(all, i).sum
                         IN IF a > 1 THEN <<a - merged.data[i].sum, a>> ELSE <<0, 1>>]]

(* process_blk_trace_log: ends are starts plus latencies, sorted by time;  *)
(* rows that end together are in any order.                                *)
BlkEnd(rows) ==
  LET end(k) == (rows[k].bio_enter + rows[k].latency) % WordSize
      order == CHOOSE p \in Bijection(1..Len(rows), 1..Len(rows)) :
                 \A i, j \in 1..Len(rows) : i < j => end(p[i]) <= end(p[j])
  IN [k \in 1..Len(rows) |-> [tp |-> end(order[k]), row |-> order[k]]]

ProcessBlkTraceLog(interval, rows, bio_rows) ==
  LET ends == BlkEnd(rows)
      latency == Column(rows, LAMBDA r : r.latency)
      io_types == Column(rows, LAMBDA r : r.io_direction)
      before == Column(bio_rows, LAMBDA r : r.tp)
      pmc == GetIoPmc(interval, ends)
      dis == GetDis(latency)
      avg == GetAvgSeq(interval, latency, ends)
      rw == RwRate(interval, ends, io_types)
      merge == MergeRate(interval, before, ends)
  IN [kind |-> "blk", valid |-> pmc.valid /\ dis.valid /\ avg.valid /\ rw.valid /\ merge.valid,
      sum_io_pmc |-> SeqData(pmc), dis |-> dis.distribution, avg |-> Avgs(avg),
      rw_rate |-> rw, merge_rate |-> merge.rate]

(* process_dio_simple_event, and the same lines of process_dio_info_event: *)
(* times since the first row, each with the row of the other file.         *)
DioLatency(event_rows, meta_rows) ==
  [valid |-> event_rows # <<>> /\ Len(event_rows) <= Len(meta_rows),
   x_data |-> Column(event_rows, LAMBDA r : Sub(r.end_dio_io, event_rows[1].end_dio_io)),
   file |-> [k \in 1..Min({Len(event_rows), Len(meta_rows)}) |-> meta_rows[k].filename]]

ProcessDioSimple(event_rows, meta_rows) ==
  LET d == DioLatency(event_rows, meta_rows)
  IN [kind |-> "simple", valid |-> d.valid, x_data |-> d.x_data, file |-> d.file]

(* hashjoin_vector in its m-to-n mode: for each row of B, the rows of A    *)
(* with its key, in the order the multimap was filled.                     *)
Matches(A, b, key) == At([a \in 1..Len(A) |-> <<a, b>>], {a \in 1..Len(A) : A[a] = key})
HashJoin_PerToPer(A, B) ==   \* mode 0: a row of A is used once
  FoldLeft(LAMBDA joined, b :
             joined \o SelectSeq(Matches(A, b, B[b]), LAMBDA p : \A q \in Elements(joined) : q[1] # p[1]),
           <<>>, [b \in 1..Len(B) |-> b])
HashJoin(A, B) ==
  FoldLeft(LAMBDA joined, b : joined \o Matches(A, b, B[b]), <<>>, [b \in 1..Len(B) |-> b])

(* process_dio_info_event: a file of requests for each row joined.  The    *)
(* files go to a directory nothing makes (main.cpp 249), so the result is  *)
(* the join's and what the files were to hold.                             *)
ProcessDioInfo(event_rows, meta_rows, rq_rows) ==
  LET d == DioLatency(event_rows, meta_rows)
      join == HashJoin(Column(event_rows, LAMBDA r : r.uid), Column(rq_rows, LAMBDA r : r.uid))
  IN [kind |-> "info", valid |-> d.valid, x_data |-> d.x_data, file |-> d.file,
      dio_rq_map |-> [a \in {p[1] : p \in Elements(join)} |->
                        Column(At(join, {k \in 1..Len(join) : join[k][1] = a}), LAMBDA p : p[2])]]
=============================================================================

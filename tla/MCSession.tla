------------------------------ MODULE MCSession ------------------------------
(* Session for TLC: configurations of each kind, two files and a missing   *)
(* one, a read and a write far apart on the disk.                          *)
EXTENDS Session

CONSTANTS f1, f2, missing

MCInode == [f \in Files |-> IF f = f1 THEN 1 ELSE IF f = f2 THEN 2 ELSE 0]
MCIos == {[direction |-> "READ", sector |-> 0, stats |-> 1],
          [direction |-> "WRITE", sector |-> 504, stats |-> 17]}

MCCalls == {[filename |-> f1, type |-> "READ", uid |-> 1],
            [filename |-> f2, type |-> "WRITE", uid |-> 2]}

Off == [enable |-> FALSE, stage |-> "sum"]
On == [enable |-> TRUE, stage |-> "block_io"]

(* The disk of MCIos needs buckets of 22 sectors with 3 rows; 32 with 2    *)
(* and 64 with 1 do not fit an int of IntSize = 64.                        *)
Blk == [event_type |-> "blk", trace_level |-> "info", filter |-> Off, common |-> "",
        files |-> <<>>, pmc_inv |-> 1, heatmap_row |-> 3]
BlkTwoRows == [Blk EXCEPT !.heatmap_row = 2]
BlkOneRow == [Blk EXCEPT !.heatmap_row = 1]
BlkLong == [Blk EXCEPT !.common = "fio"]
Simple == [Blk EXCEPT !.event_type = "dio", !.trace_level = "simple", !.filter = On]
Info == [Blk EXCEPT !.event_type = "dio"]
InfoLater == [Info EXCEPT !.common = "fio"]   \* fewer records over a longer time

Rejected ==
  {[Blk EXCEPT !.event_type = "net"], [Blk EXCEPT !.trace_level = "all"],
   [Simple EXCEPT !.filter.stage = "net"], [Blk EXCEPT !.common = "longer than 16"],
   [Simple EXCEPT !.files = <<f1, missing>>], [Simple EXCEPT !.files = <<f2, f2>>],
   [Blk EXCEPT !.filter = On], [Info EXCEPT !.filter = On],
   [Simple EXCEPT !.event_type = "buffered_io"]}

MCConfigs ==
  {Blk, BlkTwoRows, BlkOneRow, BlkLong, Simple, [Simple EXCEPT !.pmc_inv = 33], Info, InfoLater}
    \cup Rejected
FileConfigs == {[Simple EXCEPT !.files = <<f1>>]}

MCRecords == [c \in MCConfigs \cup FileConfigs |->
                CASE c = BlkLong -> 6 [] c = Info -> 3 [] c = InfoLater -> 1
                  [] c.event_type = "blk" -> 4 [] OTHER -> 2]
MCTime == [c \in MCConfigs \cup FileConfigs |->
             CASE c \in {BlkTwoRows, BlkOneRow, BlkLong, Info} -> 0 [] c = Blk -> 2 [] OTHER -> 3]
=============================================================================

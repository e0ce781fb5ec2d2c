---------------------------- MODULE MCBlockTrace ----------------------------
(* A small machine for BlockTrace: a request for each kind of queue.       *)
EXTENDS BlockTrace

CONSTANTS r1, r2, r3
MCElevator ==
  [r \in Requests |-> IF r = r1 THEN "bfq" ELSE IF r = r2 THEN "none" ELSE "mq-deadline"]
MCDrive == [r \in Requests |-> IF r = r2 THEN "NVME" ELSE "SCSI"]
=============================================================================

-------------------------- MODULE MCBlkTraceModule --------------------------
(* A small machine for BlkTraceModule: a request for each kind of queue.   *)
EXTENDS BlkTraceModule

CONSTANTS r1, r2, r3
MCElevator ==
  [r \in Requests |-> IF r = r1 THEN "mq-deadline" ELSE IF r = r2 THEN "none" ELSE "kyber"]
MCDrive == [r \in Requests |-> IF r = r2 THEN "NVME" ELSE "SCSI"]
MCGarbage == -1
=============================================================================

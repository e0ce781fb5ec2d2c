---------------------------- MODULE MCExt4DioInfo ----------------------------
(* A small machine for Ext4DioInfo: a SCSI and an NVMe disk, each with one *)
(* hardware queue; addresses are interchangeable where the machine is.     *)
EXTENDS Ext4DioInfo, TLC

CONSTANTS r1, r2, h1, h2
MCHctx == [r \in Requests |-> IF r = r1 THEN h1 ELSE h2]
MCDrive == [r \in Requests |-> IF r = r1 THEN "scsi_drive" ELSE "nvme_drive"]
AddressSymmetry == Permutations(Iocbs) \cup Permutations(Dios)
=============================================================================

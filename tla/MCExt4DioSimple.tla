--------------------------- MODULE MCExt4DioSimple ---------------------------
(* Ext4DioSimple for TLC: the addresses of kiocbs are interchangeable.     *)
EXTENDS Ext4DioSimple, TLC

IocbSymmetry == Permutations(Iocbs)
=============================================================================

---------------------------- MODULE MCSyncObject ----------------------------
(* Instances of SyncObject for TLC. *)
EXTENDS SyncObject, TLC

CONSTANTS t1, t2, t3

Threads == {t1, t2, t3}
Sym == Permutations(Threads)
=============================================================================

------------------------------- MODULE MCLocks -------------------------------
(* Two transfer threads: one that notifies and one that transfers.         *)
EXTENDS Locks

CONSTANTS t1, t2
=============================================================================

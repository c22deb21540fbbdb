------------------------------ MODULE MCMemory ------------------------------
(* Three partitions of two cells, and addresses on both sides of each.     *)
EXTENDS Memory

CONSTANTS p1, p2

MCOffsets == -3 .. 2

=============================================================================

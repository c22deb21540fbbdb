------------------------------- MODULE MCDma -------------------------------
(* Values of the constants for model checking Dma. *)
EXTENDS Dma

CONSTANTS t1, t2, t3    \* transfer threads

=============================================================================

---------------------------- MODULE MCMiniKernel ----------------------------
(* Values of the constants for model checking MiniKernel. *)
EXTENDS MiniKernel, TLC

(* Program names: three of one word, one of three, one of none, and one    *)
(* for which there is no file.  `big' fills a track of three words to the  *)
(* last, so that it is refused on the last track, and spills into the next *)
(* partition of two.                                                       *)
CONSTANTS prog1, prog2, prog3, big, empty, missing

MCSize == [p \in Programs |-> CASE p = big -> 3
                                [] p = empty -> 0
                                [] OTHER -> 1]

(* The programs of one word are interchangeable. *)
Symmetry == Permutations({prog1, prog2, prog3})
=============================================================================

------------------------------- MODULE MCAlu -------------------------------
(* Words of one digit and its sign digit, in ints of six bits: the sum of  *)
(* two words fits in an int, the product does not.                         *)
EXTENDS Alu

(* Every word of sign digit 0 or 1, some with a digit that is no sign, and *)
(* the one a product may have left in AC and STR in memory.                *)
MCWords == 0 .. 23 \union {-22}

MCInputs == -32 .. 31
=============================================================================

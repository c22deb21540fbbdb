-------------------------------- MODULE Alu --------------------------------
(***************************************************************************)
(* The accumulator and the condition code of a process: words in sign and  *)
(* magnitude (src/src/cpu.c), arithmetic done in a wider integer, and the  *)
(* narrowing to a C int on the way back into the accumulator.              *)
(*                                                                         *)
(* A word has a sign digit and a magnitude below MAG (10^7 in the code);   *)
(* an int goes from -INT_MAX - 1 to INT_MAX (2^31 - 1 in the code).        *)
(***************************************************************************)
EXTENDS Integers

CONSTANTS
    MAG,        \* one more than the largest magnitude
    INT_MAX,
    Words,      \* words an operand may be, besides those stored from AC
    Inputs      \* what the user may type for system call 3

ASSUME AluAssumption ==
    /\ MAG \in Nat \ {0}
    /\ INT_MAX \in Nat /\ 2 * MAG <= INT_MAX
    /\ Words \subseteq -INT_MAX - 1 .. INT_MAX
    /\ Inputs \subseteq -INT_MAX - 1 .. INT_MAX

VARIABLES
    AC, CC,
    last        \* history: the last instruction that computed something,
                \* and its result as a mathematical integer

avars == <<AC, CC, last>>

Int32 == -INT_MAX - 1 .. INT_MAX

Init == AC = 0 /\ CC = 0 /\ last = [op |-> "NONE", exact |-> 0]

-----------------------------------------------------------------------------
(* Conversions. *)

Abs(n) == IF n < 0 THEN -n ELSE n

(* (int) n, and the negation of an int. *)
Narrow(n) == ((n + INT_MAX + 1) % (2 * (INT_MAX + 1))) - (INT_MAX + 1)

(* Slip: the sign digit is not taken off the magnitude. *)
sm_to_int_KeepsDigit(w) ==
    IF w >= 0 /\ w \div MAG = 1 THEN -w ELSE w

(* / and % of C truncate towards zero; a negative word has no sign digit.  *)
sm_to_int(w) ==
    IF w < 0 THEN -((-w) % MAG)
    ELSE IF w \div MAG = 1 THEN -(w % MAG)
    ELSE w % MAG

(* The magnitude int_to_sm works with, before it truncates it. *)
Magnitude(n) == IF n < 0 THEN Narrow(-n) ELSE n
Overflows(n) == Magnitude(n) > MAG - 1

(* Slip: the magnitude is not cut down to seven digits. *)
int_to_sm_Unbounded(n) == (IF n < 0 THEN MAG ELSE 0) + Magnitude(n)

int_to_sm(n) ==
    (IF n < 0 THEN MAG ELSE 0) + (IF Overflows(n) THEN MAG - 1 ELSE Magnitude(n))

(* C division. *)
Quotient(a, b) ==
    IF (a < 0) = (b < 0) THEN Abs(a) \div Abs(b) ELSE -(Abs(a) \div Abs(b))

-----------------------------------------------------------------------------
(* Instructions, with the word w their operand stands for. *)

SignOf(n) == IF n = 0 THEN 0 ELSE IF n < 0 THEN 1 ELSE 2

(* Slip: the condition code is set after the conversion, so that it hides  *)
(* the overflow.                                                           *)
Result_SignLast(op, n) ==
    /\ AC' = int_to_sm(Narrow(n))
    /\ CC' = SignOf(n)
    /\ last' = [op |-> op, exact |-> n]

(* The end of SUM, RES, MULT and DIVI. *)
Result(op, n) ==
    /\ AC' = int_to_sm(Narrow(n))
    /\ CC' = IF Overflows(Narrow(n)) THEN 3 ELSE SignOf(n)
    /\ last' = [op |-> op, exact |-> n]

SUM(w) == Result("SUM", sm_to_int(AC) + sm_to_int(w))
RES(w) == Result("RES", sm_to_int(AC) - sm_to_int(w))
MULT(w) == Result("MULT", sm_to_int(AC) * sm_to_int(w))

(* By zero, the instruction is invalid: AC and CC stay as they are. *)
DIVI(w) ==
    /\ sm_to_int(w) # 0
    /\ Result("DIVI", Quotient(sm_to_int(AC), sm_to_int(w)))

(* AC is compared, and left alone. *)
COMP(w) ==
    /\ CC' = SignOf(sm_to_int(AC) - sm_to_int(w))
    /\ last' = [op |-> "COMP", exact |-> sm_to_int(AC) - sm_to_int(w)]
    /\ UNCHANGED AC

LOAD(w) ==
    /\ AC' = w
    /\ last' = [op |-> "NONE", exact |-> 0]
    /\ UNCHANGED CC

(* System call 3: the number goes into the AC of the PCB.  An overflow     *)
(* marks the CC of the CPU, which the restored context then replaces.      *)
Read(n) ==
    /\ AC' = int_to_sm(n)
    /\ last' = [op |-> "READ", exact |-> n]
    /\ UNCHANGED CC

Arithmetic(w) == SUM(w) \/ RES(w) \/ MULT(w) \/ DIVI(w)

Next ==
    \/ \E w \in Words \union {AC} : Arithmetic(w) \/ COMP(w) \/ LOAD(w)
    \/ \E n \in Inputs : Read(n)

Spec == Init /\ [][Next]_avars

-----------------------------------------------------------------------------
(* The shape of the state.  A word has eight digits, but MULT can leave a  *)
(* negative number in AC.                                                  *)
AluTypeOK ==
    /\ AC \in Int32
    /\ CC \in 0 .. 3
    /\ last \in [op : {"NONE", "SUM", "RES", "MULT", "DIVI", "COMP", "READ"},
                 exact : Int]

(* The results that are ints with an opposite. *)
Fits(n) == n \in -INT_MAX .. INT_MAX

Clamp(n) == IF n > MAG - 1 THEN MAG - 1 ELSE IF n < 1 - MAG THEN 1 - MAG ELSE n

(* What an instruction or a system call leaves in AC stands for the exact  *)
(* result, or for the largest magnitude of its sign (cpu.c:255), as long   *)
(* as the result fits: whatever words the operands are, signed zeros and   *)
(* wrong sign digits included.                                             *)
ExactOrSaturated ==
    last.op \notin {"NONE", "COMP"} /\ Fits(last.exact)
        => sm_to_int(AC) = Clamp(last.exact)

(* After an arithmetic instruction whose result fits in an int, the        *)
(* condition code says overflow exactly when AC is not the result, and     *)
(* otherwise agrees with the sign that COMP and the jumps find in AC; no   *)
(* order of instructions leaves an overflow behind for the next            *)
(* comparison.  Of a product that does not fit it says nothing: cut down   *)
(* to an int (cpu.c:393), it may leave neither its value nor the mark.     *)
FlagsAgree ==
    last.op \notin {"NONE", "READ"} /\ Fits(last.exact) =>
        CC = IF last.op # "COMP" /\ sm_to_int(AC) # last.exact THEN 3
             ELSE SignOf(last.exact)

=============================================================================

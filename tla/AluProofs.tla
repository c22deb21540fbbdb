----------------------------- MODULE AluProofs -----------------------------
(***************************************************************************)
(* The arithmetic of Alu is exact or saturated, for every size of a word   *)
(* and of an int that holds the sum of two of them.                        *)
(***************************************************************************)
EXTENDS Alu, TLAPS

USE AluAssumption

-----------------------------------------------------------------------------
(* Conversions. *)

(* Dividing a word by the weight of its sign digit. *)
LEMMA SignDigit ==
    ASSUME NEW s \in {0, 1}, NEW m \in 0 .. MAG - 1
    PROVE  (s * MAG + m) \div MAG = s /\ (s * MAG + m) % MAG = m
<1>1. CASE s = 0
  BY <1>1
<1>2. CASE s = 1
  BY <1>2
<1> QED
  BY <1>1, <1>2

(* Whatever is in a word, it stands for a number of one magnitude. *)
LEMMA DecodedRange ==
    ASSUME NEW w \in Int32
    PROVE  sm_to_int(w) \in 1 - MAG .. MAG - 1
<1>1. \A x \in Nat : x % MAG \in 0 .. MAG - 1
  OBVIOUS
<1>2. CASE w < 0
  BY <1>1, <1>2 DEF sm_to_int, Int32
<1>3. CASE w >= 0
  BY <1>1, <1>3 DEF sm_to_int, Int32
<1> QED
  BY <1>2, <1>3 DEF Int32

(* An int stays as it is, and so does its opposite if it has one. *)
LEMMA NarrowFits ==
    ASSUME NEW n \in Int32
    PROVE  Narrow(n) = n
<1>1. n + INT_MAX + 1 \in 0 .. 2 * (INT_MAX + 1) - 1
  BY DEF Int32
<1>2. \A x \in 0 .. 2 * (INT_MAX + 1) - 1 : x % (2 * (INT_MAX + 1)) = x
  OBVIOUS
<1> QED
  BY <1>1, <1>2 DEF Narrow, Int32

(* The cast gives an int. *)
LEMMA NarrowType ==
    ASSUME NEW n \in Int
    PROVE  Narrow(n) \in Int32
<1> DEFINE x == n + INT_MAX + 1
           m == 2 * (INT_MAX + 1)
           r == x % m
<1>1. x \in Int /\ m \in Nat \ {0}
  OBVIOUS
<1> HIDE DEF x, m
<1>2. r \in 0 .. m - 1
  BY <1>1
<1>3. Narrow(n) = r - (INT_MAX + 1)
  BY DEF Narrow, r, x, m
<1> HIDE DEF r
<1> QED
  BY <1>2, <1>3 DEF Int32, m

(* The conversions are inverse of each other up to saturation. *)
LEMMA EncodeDecode ==
    ASSUME NEW n \in Int, Fits(n)
    PROVE  /\ sm_to_int(int_to_sm(n)) = Clamp(n)
           /\ Overflows(n) <=> Clamp(n) # n
<1>1. Magnitude(n) = Abs(n)
  BY NarrowFits DEF Magnitude, Abs, Fits, Int32
<1>2. Overflows(n) <=> Abs(n) > MAG - 1
  BY <1>1 DEF Overflows
<1> DEFINE m == IF Abs(n) > MAG - 1 THEN MAG - 1 ELSE Abs(n)
           s == IF n < 0 THEN 1 ELSE 0
<1>3. m \in 0 .. MAG - 1 /\ s \in {0, 1}
  BY DEF Abs
<1>4. int_to_sm(n) = s * MAG + m
  BY <1>1, <1>2 DEF int_to_sm
<1>5. Clamp(n) = IF n < 0 THEN -m ELSE m
  BY DEF Clamp, Abs
<1>6. Clamp(n) # n <=> Abs(n) > MAG - 1
  BY DEF Clamp, Abs
<1> HIDE DEF m, s
<1>7. s * MAG + m \in Nat
  BY <1>3
<1>8. sm_to_int(s * MAG + m) = IF s = 1 THEN -m ELSE m
  BY <1>3, <1>7, SignDigit DEF sm_to_int
<1> QED
  BY <1>2, <1>4, <1>5, <1>6, <1>8 DEF s

(* AC is an int again, also when its product was narrowed to -2^31. *)
LEMMA EncodeType ==
    ASSUME NEW n \in Int32
    PROVE  int_to_sm(n) \in Int32
<1>1. Magnitude(n) \in Int32
  BY NarrowType DEF Magnitude, Int32
<1>2. Magnitude(n) <= MAG - 1 \/ Overflows(n)
  BY <1>1 DEF Overflows, Int32
<1> QED
  BY <1>1, <1>2 DEF int_to_sm, Int32

(* A quotient is no larger than the dividend. *)
LEMMA QuotientRange ==
    ASSUME NEW a \in 1 - MAG .. MAG - 1, NEW b \in 1 - MAG .. MAG - 1, b # 0
    PROVE  Quotient(a, b) \in 1 - MAG .. MAG - 1
<1>1. Abs(a) \in 0 .. MAG - 1 /\ Abs(b) \in 1 .. MAG - 1
  BY DEF Abs
<1>2. \A x \in Nat, y \in Nat \ {0} : x \div y \in 0 .. x
  <2> TAKE x \in Nat, y \in Nat \ {0}
  <2> DEFINE q == x \div y
  <2>1. q \in Int /\ x = y * q + (x % y) /\ x % y \in 0 .. y - 1
    OBVIOUS
  <2>2. q >= 0
    BY <2>1
  <2>3. y * q >= q
    BY <2>1, <2>2
  <2> QED
    BY <2>1, <2>2, <2>3
<1>3. Abs(a) \div Abs(b) \in 0 .. Abs(a)
  BY <1>1, <1>2
<1> QED
  BY <1>1, <1>3 DEF Quotient

-----------------------------------------------------------------------------
(* What one instruction leaves. *)

AluInv == AluTypeOK /\ ExactOrSaturated /\ FlagsAgree

LEMMA ResultInv ==
    ASSUME NEW op \in {"SUM", "RES", "MULT", "DIVI"}, NEW n \in Int,
           Result(op, n)
    PROVE  AluInv'
<1>1. /\ AC' = int_to_sm(Narrow(n))
      /\ CC' = IF Overflows(Narrow(n)) THEN 3 ELSE SignOf(n)
      /\ last' = [op |-> op, exact |-> n]
  BY DEF Result
<1>2. AluTypeOK'
  <2>1. AC' \in Int32
    BY <1>1, NarrowType, EncodeType
  <2>2. CC' \in 0 .. 3
    BY <1>1 DEF SignOf
  <2> QED
    BY <1>1, <2>1, <2>2 DEF AluTypeOK
<1>3. ASSUME Fits(n)
      PROVE  /\ sm_to_int(AC') = Clamp(n)
             /\ CC' = IF sm_to_int(AC') # n THEN 3 ELSE SignOf(n)
  <2>1. Narrow(n) = n
    BY <1>3, NarrowFits DEF Fits, Int32
  <2>2. sm_to_int(int_to_sm(n)) = Clamp(n) /\ (Overflows(n) <=> Clamp(n) # n)
    BY <1>3, EncodeDecode
  <2> QED
    BY <1>1, <2>1, <2>2
<1>4. ExactOrSaturated'
  BY <1>1, <1>3 DEF ExactOrSaturated, Fits, Clamp, sm_to_int
<1>5. FlagsAgree'
  BY <1>1, <1>3 DEF FlagsAgree, Fits, SignOf, sm_to_int
<1> QED
  BY <1>2, <1>4, <1>5 DEF AluInv

(* Every instruction and system call 3 keep the invariant: no operand, and *)
(* no value an earlier instruction left in AC, leads out of it.            *)
THEOREM AluInvariant == Spec => []AluInv
<1>1. Init => AluInv
  BY DEF Init, AluInv, AluTypeOK, Int32, ExactOrSaturated, FlagsAgree
<1>2. AluInv /\ [Next]_avars => AluInv'
  <2> SUFFICES ASSUME AluInv, [Next]_avars PROVE AluInv'
    OBVIOUS
  <2>1. /\ AC \in Int32 /\ CC \in 0 .. 3
        /\ \A w \in Words \union {AC} : w \in Int32
    BY DEF AluInv, AluTypeOK, Int32
  <2>2. ASSUME NEW w \in Words \union {AC}
        PROVE  sm_to_int(w) \in 1 - MAG .. MAG - 1
    BY <2>1, DecodedRange
  <2>3. sm_to_int(AC) \in 1 - MAG .. MAG - 1
    BY <2>2
  <2>4. ASSUME NEW w \in Words \union {AC}, Arithmetic(w)
        PROVE  AluInv'
    <3> DEFINE a == sm_to_int(AC)
               b == sm_to_int(w)
    <3>1. a \in 1 - MAG .. MAG - 1 /\ b \in 1 - MAG .. MAG - 1
      BY <2>2, <2>3
    <3> HIDE DEF a, b
    <3>2. a \in Int /\ b \in Int
      BY <3>1
    <3>3. CASE SUM(w)
      BY <3>2, <3>3, ResultInv DEF SUM, a, b
    <3>4. CASE RES(w)
      BY <3>2, <3>4, ResultInv DEF RES, a, b
    <3>5. CASE MULT(w)
      BY <3>2, <3>5, ResultInv DEF MULT, a, b
    <3>6. CASE DIVI(w)
      <4>1. b # 0 /\ Result("DIVI", Quotient(a, b))
        BY <3>6 DEF DIVI, a, b
      <4>2. Quotient(a, b) \in Int
        BY <3>1, <4>1, QuotientRange
      <4> QED
        BY <4>1, <4>2, ResultInv
    <3> QED
      BY <2>4, <3>3, <3>4, <3>5, <3>6 DEF Arithmetic
  <2>5. ASSUME NEW w \in Words \union {AC}, COMP(w)
        PROVE  AluInv'
    <3> DEFINE d == sm_to_int(AC) - sm_to_int(w)
    <3>1. d \in Int
      BY <2>2, <2>3
    <3>2. CC' = SignOf(d) /\ last' = [op |-> "COMP", exact |-> d] /\ AC' = AC
      BY <2>5 DEF COMP
    <3> HIDE DEF d
    <3>3. AluTypeOK'
      BY <2>1, <3>1, <3>2 DEF AluTypeOK, SignOf
    <3> QED
      BY <3>2, <3>3 DEF AluInv, ExactOrSaturated, FlagsAgree
  <2>6. ASSUME NEW w \in Words \union {AC}, LOAD(w)
        PROVE  AluInv'
    BY <2>1, <2>6 DEF LOAD, AluInv, AluTypeOK, ExactOrSaturated, FlagsAgree
  <2>7. ASSUME NEW n \in Inputs, Read(n)
        PROVE  AluInv'
    <3>1. n \in Int32 /\ n \in Int
      BY DEF Int32
    <3>2. AC' = int_to_sm(n) /\ last' = [op |-> "READ", exact |-> n] /\ CC' = CC
      BY <2>7 DEF Read
    <3>3. AluTypeOK'
      BY <2>1, <3>1, <3>2, EncodeType DEF AluTypeOK
    <3>4. ASSUME Fits(n) PROVE sm_to_int(AC') = Clamp(n)
      BY <3>1, <3>2, <3>4, EncodeDecode
    <3> QED
      BY <3>2, <3>3, <3>4 DEF AluInv, ExactOrSaturated, FlagsAgree, Fits, Clamp, sm_to_int
  <2>8. CASE UNCHANGED avars
    BY <2>8 DEF avars, AluInv, AluTypeOK, ExactOrSaturated, FlagsAgree, sm_to_int
  <2> QED
    BY <2>4, <2>5, <2>6, <2>7, <2>8 DEF Next
<1> QED
  BY <1>1, <1>2, PTL DEF Spec

(* SUM, RES, DIVI, a product that fits in an int and the number typed for  *)
(* system call 3 (cpu.c:327-428, kernel.c:461) are exact or saturated.     *)
THEOREM ArithmeticExact == Spec => []ExactOrSaturated
<1>1. AluInv => ExactOrSaturated
  BY DEF AluInv
<1> QED
  BY <1>1, AluInvariant, PTL

(* Among the results that fit in an int, the condition code of cpu.c tells *)
(* an overflow from an exact result, and COMP always replaces the one      *)
(* before it.  Nothing is said of a product cut down to an int             *)
(* (cpu.c:393), of which the code may lose the mark.                       *)
THEOREM FlagsCorrect == Spec => []FlagsAgree
<1>1. AluInv => FlagsAgree
  BY DEF AluInv
<1> QED
  BY <1>1, AluInvariant, PTL

(* AC never leaves the width of an int and CC is one of the four codes     *)
(* that a conditional jump knows (cpu.c:260, 327-428, 488), whatever the   *)
(* operands and whatever the order of the instructions.                    *)
THEOREM AluTypes == Spec => []AluTypeOK
<1>1. AluInv => AluTypeOK
  BY DEF AluInv
<1> QED
  BY <1>1, AluInvariant, PTL

=============================================================================

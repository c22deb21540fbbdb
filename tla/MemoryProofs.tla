---------------------------- MODULE MemoryProofs ----------------------------
(***************************************************************************)
(* How a process may leave its partition, and that there is no other way,  *)
(* for any number of processes, partitions and cells and any programs.     *)
(***************************************************************************)
EXTENDS Memory, TLAPS

USE MemoryAssumption

-----------------------------------------------------------------------------
(* The partitions lie side by side in RAM, above the cells of the system.  *)

LEMMA CellsInRam ==
    ASSUME NEW part \in Partitions
    PROVE  /\ RB(part) \in Int /\ RB(part) >= OS_RESERVED
           /\ RL(part) = RB(part) + PARTITION_SIZE - 1
           /\ RL(part) < MEM_SIZE
<1>1. part \in Nat /\ part + 1 <= NUM_PARTITIONS
  BY DEF Partitions
<1>2. part * PARTITION_SIZE \in Nat
  BY <1>1
<1>3. (part + 1) * PARTITION_SIZE <= NUM_PARTITIONS * PARTITION_SIZE
  BY <1>1
<1>4. (part + 1) * PARTITION_SIZE = part * PARTITION_SIZE + PARTITION_SIZE
  BY <1>1
<1> QED
  BY <1>1, <1>2, <1>3, <1>4 DEF RB, RL

LEMMA CellsDisjoint ==
    ASSUME NEW i \in Partitions, NEW j \in Partitions, i # j
    PROVE  Cells(i) \intersect Cells(j) = {}
<1>1. ASSUME NEW x \in Partitions, NEW y \in Partitions, x < y
      PROVE  RL(x) < RB(y)
  <2>1. x \in Nat /\ y \in Nat /\ x + 1 <= y
    BY <1>1 DEF Partitions
  <2>2. (x + 1) * PARTITION_SIZE <= y * PARTITION_SIZE
    BY <2>1
  <2>3. (x + 1) * PARTITION_SIZE = x * PARTITION_SIZE + PARTITION_SIZE
    BY <2>1
  <2>4. x * PARTITION_SIZE \in Nat /\ y * PARTITION_SIZE \in Nat
    BY <2>1
  <2> QED
    BY <2>2, <2>3, <2>4 DEF RB, RL
<1>2. i < j \/ j < i
  BY DEF Partitions
<1>3. /\ RB(i) \in Int /\ RL(i) \in Int
      /\ RB(j) \in Int /\ RL(j) \in Int
  BY CellsInRam
<1> QED
  BY <1>1, <1>2, <1>3 DEF Cells

-----------------------------------------------------------------------------
(* The inductive invariant: besides the properties, live processes have    *)
(* partitions of their own, an address put by a live process in its own    *)
(* partition is still there, and a transfer whose address has not been set *)
(* again keeps the one that SDMAON tested.                                 *)
MemInv ==
    /\ MemoryTypeOK
    /\ \A p, q \in Alive : home[p] = home[q] => p = q
    /\ StackInside
    /\ aimed_by # Nobody => aimed_by \in Alive /\ ADDRESS \in Cells(home[aimed_by])
    /\ BUSY /\ ~retargeted => ADDRESS \in Ram \ Reserved
    /\ Isolated
    /\ SystemUntouched

(* What a live process writes in its own partition is nobody else's. *)
LEMMA OwnCells ==
    ASSUME home' \in [Pids -> Partitions \union {None}],
           (\A p, q \in Alive : home[p] = home[q] => p = q)',
           NEW p \in Pids \union {Nobody}, NEW how \in Hows, NEW cells,
           cells = {} \/ (p \in Alive' /\ cells \subseteq Cells(home'[p])),
           Writes(p, how, cells)
    PROVE  /\ written' \in [by : Pids \union {Nobody}, how : Hows, cells : SUBSET Ram]
           /\ Isolated' /\ SystemUntouched'
<1>1. written' = [by |-> p, how |-> how, cells |-> cells]
  BY DEF Writes
<1>2. CASE cells = {}
  BY <1>1, <1>2 DEF Isolated, SystemUntouched
<1>3. CASE p \in Alive' /\ cells \subseteq Cells(home'[p])
  <2>1. \A q \in Alive' : home'[q] \in Partitions
    BY DEF Alive
  <2>2. Cells(home'[p]) \subseteq Ram \ Reserved
    BY <1>3, <2>1, CellsInRam DEF Cells, Ram, Reserved
  <2>3. \A q \in Alive' : q # p => Cells(home'[p]) \intersect Cells(home'[q]) = {}
    BY <1>3, <2>1, CellsDisjoint
  <2>4. written'.by = p /\ written'.cells = cells
    BY <1>1
  <2>5. Isolated'
    BY <1>3, <2>3, <2>4 DEF Isolated
  <2>6. SystemUntouched'
    BY <1>3, <2>2, <2>4 DEF SystemUntouched
  <2> QED
    BY <1>1, <1>3, <2>2, <2>5, <2>6
<1> QED
  BY <1>2, <1>3

(* What the translation accepts is a cell of the process. *)
LEMMA Translated ==
    ASSUME MemInv, NEW p \in Alive, NEW a \in Offsets, Translates(p, a)
    PROVE  RB(home[p]) + a \in Cells(home[p])
<1>1. home[p] \in Partitions
  BY DEF MemInv, MemoryTypeOK, Alive
<1> QED
  BY <1>1, CellsInRam DEF Translates, Cells

(* Moving the stack pointer of a process, not below its partition, and not *)
(* above it unless its stack is overdrawn by then.                         *)
LEMMA MovedSP ==
    ASSUME MemInv, NEW p \in Alive, NEW s \in Int, s >= RB(home[p]),
           SP' = [SP EXCEPT ![p] = s], UNCHANGED home,
           overdrawn' = overdrawn \/ overdrawn' = overdrawn \union {p},
           p \notin overdrawn' => s <= RL(home[p])
    PROVE  StackInside' /\ SP' \in [Pids -> Int] /\ overdrawn' \subseteq Pids
<1>1. /\ SP'[p] = s
      /\ \A q \in Alive : q # p => SP'[q] = SP[q] /\ (q \in overdrawn' <=> q \in overdrawn)
      /\ Alive' = Alive
  BY DEF MemInv, MemoryTypeOK, Alive
<1> QED
  BY <1>1 DEF MemInv, MemoryTypeOK, StackInside, Alive

(* Every instruction of a process keeps the invariant, *)
LEMMA ExecutesInv ==
    ASSUME MemInv, NEW p \in Alive, Executes(p)
    PROVE  MemInv'
<1>1. /\ p \in Pids
      /\ home[p] \in Partitions
      /\ SP[p] \in Int /\ SP[p] >= RB(home[p])
      /\ p \notin overdrawn => SP[p] <= RL(home[p])
  BY DEF MemInv, MemoryTypeOK, Alive, StackInside
<1>2. /\ RB(home[p]) \in Int /\ RB(home[p]) >= OS_RESERVED
      /\ RL(home[p]) = RB(home[p]) + PARTITION_SIZE - 1
      /\ RL(home[p]) < MEM_SIZE
  BY <1>1, CellsInRam
<1>3. ASSUME UNCHANGED <<home, dma>>, SP' \in [Pids -> Int],
             overdrawn' \subseteq Pids, StackInside',
             written' \in [by : Pids \union {Nobody}, how : Hows, cells : SUBSET Ram],
             Isolated', SystemUntouched'
      PROVE  MemInv'
  BY <1>3 DEF MemInv, MemoryTypeOK, Alive, dma
<1>4. ASSUME UNCHANGED home, NEW how \in Hows,
             NEW cells \in SUBSET Cells(home[p]), Writes(p, how, cells)
      PROVE  /\ written' \in [by : Pids \union {Nobody}, how : Hows, cells : SUBSET Ram]
             /\ Isolated' /\ SystemUntouched'
  <2>1. /\ home' \in [Pids -> Partitions \union {None}]
        /\ (\A r, q \in Alive : home[r] = home[q] => r = q)'
        /\ p \in Alive' /\ cells \subseteq Cells(home'[p])
    BY <1>4 DEF MemInv, MemoryTypeOK, Alive
  <2> QED
    BY <1>1, <1>4, <2>1, OwnCells
<1>5. ASSUME NEW a \in Offsets, Store(p, a)
      PROVE  MemInv'
  <2>1. RB(home[p]) + a \in Cells(home[p])
    BY <1>5, Translated DEF Store
  <2>2. SP' \in [Pids -> Int] /\ StackInside' /\ overdrawn' \subseteq Pids
    BY <1>5 DEF Store, MemInv, MemoryTypeOK, StackInside, Alive
  <2>3. UNCHANGED <<home, dma>> /\ Writes(p, "store", {RB(home[p]) + a})
    BY <1>5 DEF Store
  <2>4. /\ written' \in [by : Pids \union {Nobody}, how : Hows, cells : SUBSET Ram]
        /\ Isolated' /\ SystemUntouched'
    BY <1>4, <2>1, <2>3 DEF Hows
  <2> QED
    BY <1>3, <2>2, <2>3, <2>4
<1>6. ASSUME NEW a \in Offsets, Pop(p, a)
      PROVE  MemInv'
  <2>1. /\ SP[p] < RL(home[p])
        /\ UNCHANGED <<home, overdrawn, dma>>
        /\ SP' = [SP EXCEPT ![p] = SP[p] + 1]
    BY <1>6 DEF Pop, PopInto
  <2>2. SP' \in [Pids -> Int] /\ StackInside' /\ overdrawn' \subseteq Pids
    <3>1. /\ SP[p] + 1 \in Int /\ SP[p] + 1 >= RB(home[p])
          /\ p \notin overdrawn' => SP[p] + 1 <= RL(home[p])
      BY <1>1, <1>2, <2>1
    <3> QED
      BY <2>1, <3>1, MovedSP
  <2>3. PICK cells \in SUBSET Cells(home[p]) : Writes(p, "store", cells)
    BY <1>6, Translated DEF Pop, PopInto
  <2>4. /\ written' \in [by : Pids \union {Nobody}, how : Hows, cells : SUBSET Ram]
        /\ Isolated' /\ SystemUntouched'
    BY <1>4, <2>1, <2>3 DEF Hows
  <2> QED
    BY <1>3, <2>1, <2>2, <2>4
<1>7. ASSUME Push(p) PROVE MemInv'
  <2> DEFINE cells == {SP[p] - 1} \intersect Ram
  <2>1. /\ SP[p] - 1 >= RB(home[p])
        /\ UNCHANGED <<home, overdrawn, dma>>
        /\ SP' = [SP EXCEPT ![p] = SP[p] - 1]
        /\ Writes(p, "push", cells)
    BY <1>7 DEF Push
  <2>2. SP' \in [Pids -> Int] /\ StackInside' /\ overdrawn' \subseteq Pids
    <3>1. /\ SP[p] - 1 \in Int /\ SP[p] - 1 >= RB(home[p])
          /\ p \notin overdrawn' => SP[p] - 1 <= RL(home[p])
      BY <1>1, <1>2, <2>1
    <3> QED
      BY <2>1, <3>1, MovedSP
  <2>3. CASE p \notin overdrawn
    <3>1. cells \subseteq Cells(home[p])
      BY <1>1, <1>2, <2>1, <2>3 DEF Cells
    <3> HIDE DEF cells
    <3>2. /\ written' \in [by : Pids \union {Nobody}, how : Hows, cells : SUBSET Ram]
          /\ Isolated' /\ SystemUntouched'
      BY <1>4, <2>1, <3>1 DEF Hows
    <3> QED
      BY <1>3, <2>1, <2>2, <3>2
  <2>4. CASE p \in overdrawn
    <3>1. cells \subseteq Ram /\ cells \intersect Reserved = {}
      BY <1>1, <1>2, <2>1 DEF Reserved
    <3> HIDE DEF cells
    <3>2. written' = [by |-> p, how |-> "push", cells |-> cells]
      BY <2>1 DEF Writes
    <3>3. written' \in [by : Pids \union {Nobody}, how : Hows, cells : SUBSET Ram]
      BY <1>1, <3>1, <3>2 DEF Hows
    <3>4. Isolated'
      BY <2>1, <2>4, <3>2 DEF Isolated
    <3>5. SystemUntouched'
      BY <3>1, <3>2 DEF SystemUntouched
    <3> QED
      BY <1>3, <2>1, <2>2, <3>3, <3>4, <3>5
  <2> QED
    BY <2>3, <2>4
<1>8. ASSUME KernelPop(p) PROVE MemInv'
  <2>1. /\ UNCHANGED <<home, dma>> /\ Nothing(p)
        /\ SP' = [SP EXCEPT ![p] = SP[p] + 1]
        /\ overdrawn' = overdrawn \/ overdrawn' = overdrawn \union {p}
        /\ p \notin overdrawn' => SP[p] < RL(home[p])
    BY <1>8 DEF KernelPop
  <2>2. SP' \in [Pids -> Int] /\ StackInside' /\ overdrawn' \subseteq Pids
    <3>1. /\ SP[p] + 1 \in Int /\ SP[p] + 1 >= RB(home[p])
          /\ p \notin overdrawn' => SP[p] + 1 <= RL(home[p])
      BY <1>1, <1>2, <2>1
    <3> QED
      BY <2>1, <3>1, MovedSP
  <2>3. /\ written' \in [by : Pids \union {Nobody}, how : Hows, cells : SUBSET Ram]
        /\ Isolated' /\ SystemUntouched'
    BY <1>4, <2>1 DEF Nothing, Hows
  <2> QED
    BY <1>3, <2>1, <2>2, <2>3
<1>9. ASSUME Nothing(p), UNCHANGED <<home, SP, overdrawn>>
      PROVE  /\ written' \in [by : Pids \union {Nobody}, how : Hows, cells : SUBSET Ram]
             /\ Isolated' /\ SystemUntouched' /\ StackInside'
             /\ Alive' = Alive
  <2>1. StackInside' /\ Alive' = Alive
    BY <1>9 DEF MemInv, StackInside, Alive
  <2> QED
    BY <1>4, <1>9, <2>1 DEF Nothing, Hows
<1>10. ASSUME NEW a \in Offsets, Sdmam(p, a)
       PROVE  MemInv'
  <2>1. /\ Nothing(p) /\ UNCHANGED <<home, SP, overdrawn, BUSY, asked_by>>
        /\ ADDRESS' = RB(home[p]) + a /\ ADDRESS' <= RL(home[p])
        /\ aimed_by' = IF a >= 0 THEN p ELSE Nobody
        /\ retargeted' = BUSY
    BY <1>10 DEF Sdmam
  <2>2. /\ ADDRESS' \in Int
        /\ aimed_by' # Nobody => aimed_by' = p /\ ADDRESS' \in Cells(home[p])
    BY <1>2, <2>1 DEF Cells
  <2>3. ~(BUSY' /\ ~retargeted')
    BY <2>1
  <2>4. retargeted' \in BOOLEAN /\ aimed_by' \in Pids \union {Nobody}
    BY <1>1, <2>1 DEF MemInv, MemoryTypeOK
  <2> QED
    BY <1>9, <2>1, <2>2, <2>3, <2>4 DEF MemInv, MemoryTypeOK
<1>11. ASSUME Sdmaon(p) PROVE MemInv'
  <2>1. /\ Nothing(p) /\ UNCHANGED <<home, SP, overdrawn, ADDRESS, aimed_by>>
        /\ ADDRESS \in Ram \ Reserved
        /\ BUSY' = TRUE /\ asked_by' = p /\ retargeted' = FALSE
    BY <1>11 DEF Sdmaon, Accepted
  <2> QED
    BY <1>1, <1>9, <2>1 DEF MemInv, MemoryTypeOK
<1>12. ASSUME End(p) PROVE MemInv'
  <2>1. /\ home' \in [Pids -> Partitions \union {None}]
        /\ Alive' = Alive \ {p}
        /\ \A q \in Alive' : home'[q] = home[q]
        /\ Nothing(p)
        /\ UNCHANGED <<SP, ADDRESS, BUSY, overdrawn, retargeted>>
    BY <1>1, <1>12 DEF End, Alive, MemInv, MemoryTypeOK
  <2>2. (\A r, q \in Alive : home[r] = home[q] => r = q)'
    BY <2>1 DEF MemInv
  <2>3. /\ written' \in [by : Pids \union {Nobody}, how : Hows, cells : SUBSET Ram]
        /\ Isolated' /\ SystemUntouched'
    BY <1>1, <2>1, <2>2, OwnCells DEF Nothing, Hows
  <2>4. StackInside'
    BY <2>1 DEF MemInv, StackInside
  <2>5. /\ aimed_by' # Nobody =>
              aimed_by' \in Alive' /\ ADDRESS' \in Cells(home'[aimed_by'])
        /\ aimed_by' \in Pids \union {Nobody}
        /\ asked_by' \in Pids \union {Nobody}
    BY <1>12, <2>1 DEF End, MemInv, MemoryTypeOK
  <2>6. MemoryTypeOK'
    BY <2>1, <2>3, <2>5 DEF MemInv, MemoryTypeOK
  <2>7. BUSY' /\ ~retargeted' => ADDRESS' \in Ram \ Reserved
    BY <2>1 DEF MemInv
  <2> QED
    BY <2>2, <2>3, <2>4, <2>5, <2>6, <2>7 DEF MemInv
<1> QED
  BY <1>5, <1>6, <1>7, <1>8, <1>10, <1>11, <1>12 DEF Executes

(* and so does the loader, *)
LEMMA LoadInv ==
    ASSUME MemInv,
           NEW p \in Pids, NEW part \in Partitions, NEW size \in Sizes,
           Load(p, part, size)
    PROVE  MemInv'
<1> DEFINE cells == (RB(part) .. RB(part) + size - 1) \intersect Ram
           how == IF size <= PARTITION_SIZE THEN "load" ELSE "overlong load"
<1>1. /\ RB(part) \in Int /\ RB(part) >= OS_RESERVED
      /\ RL(part) = RB(part) + PARTITION_SIZE - 1
      /\ RL(part) < MEM_SIZE
      /\ size \in Nat /\ PARTITION_SIZE \in Nat /\ part # None
  BY CellsInRam DEF Partitions, None
<1>2. /\ p \notin Alive
      /\ \A q \in Alive : home[q] # part
      /\ UNCHANGED dma
      /\ Writes(p, how, cells)
  BY DEF Load
<1>3. /\ cells \subseteq Ram /\ cells \intersect Reserved = {}
      /\ how \in Hows
  BY <1>1 DEF Reserved, Hows
<1>4. size <= PARTITION_SIZE =>
          RB(part) + size <= MEM_SIZE /\ cells \subseteq Cells(part)
  BY <1>1 DEF Cells
<1>5. size > PARTITION_SIZE => how = "overlong load"
  BY <1>1
<1> HIDE DEF cells, how
<1>6. CASE RB(part) + size <= MEM_SIZE
  <2>1. /\ home' = [home EXCEPT ![p] = part]
        /\ SP' = [SP EXCEPT ![p] = RL(part)]
        /\ overdrawn' = overdrawn \ {p}
    BY <1>6 DEF Load
  <2>2. /\ home' \in [Pids -> Partitions \union {None}]
        /\ Alive' = Alive \union {p} /\ home'[p] = part
        /\ \A q \in Alive : home'[q] = home[q] /\ q # p
    BY <1>1, <1>2, <2>1 DEF Alive, MemInv, MemoryTypeOK
  <2>3. (\A r, q \in Alive : home[r] = home[q] => r = q)'
    BY <1>2, <2>2 DEF MemInv
  <2>4. /\ SP' \in [Pids -> Int] /\ SP'[p] = RL(part)
        /\ \A q \in Alive : SP'[q] = SP[q] /\ (q \in overdrawn' <=> q \in overdrawn)
        /\ overdrawn' \subseteq Pids
    BY <1>1, <2>1, <2>2 DEF MemInv, MemoryTypeOK, Alive
  <2>5. StackInside'
    BY <1>1, <2>2, <2>4 DEF MemInv, StackInside
  <2>6. /\ written' \in [by : Pids \union {Nobody}, how : Hows, cells : SUBSET Ram]
        /\ Isolated' /\ SystemUntouched'
    <3>1. CASE size <= PARTITION_SIZE
      BY <1>2, <1>3, <1>4, <2>2, <2>3, <3>1, OwnCells
    <3>2. CASE size > PARTITION_SIZE
      <4>1. written' = [by |-> p, how |-> "overlong load", cells |-> cells]
        BY <1>2, <1>5, <3>2 DEF Writes
      <4> QED
        BY <1>3, <4>1 DEF Isolated, SystemUntouched, Hows
    <3> QED
      BY <1>1, <3>1, <3>2
  <2>7. aimed_by' # Nobody =>
            aimed_by' \in Alive' /\ ADDRESS' \in Cells(home'[aimed_by'])
    BY <1>2, <2>2 DEF MemInv, dma
  <2>8. MemoryTypeOK'
    BY <1>2, <2>2, <2>4, <2>6 DEF MemInv, MemoryTypeOK, dma
  <2>9. BUSY' /\ ~retargeted' => ADDRESS' \in Ram \ Reserved
    BY <1>2 DEF MemInv, dma
  <2> QED
    BY <2>3, <2>5, <2>6, <2>7, <2>8, <2>9 DEF MemInv
<1>7. CASE ~(RB(part) + size <= MEM_SIZE)
  <2>1. UNCHANGED <<home, SP, overdrawn, dma>>
    BY <1>2, <1>7 DEF Load
  <2>2. written' = [by |-> p, how |-> "overlong load", cells |-> cells]
    <3>1. size > PARTITION_SIZE
      BY <1>1, <1>4, <1>7
    <3> QED
      BY <1>2, <1>5, <3>1 DEF Writes
  <2>3. /\ written' \in [by : Pids \union {Nobody}, how : Hows, cells : SUBSET Ram]
        /\ Isolated' /\ SystemUntouched'
    BY <1>3, <2>2 DEF Isolated, SystemUntouched, Hows
  <2> QED
    BY <2>1, <2>3 DEF MemInv, MemoryTypeOK, StackInside, Alive, dma
<1> QED
  BY <1>6, <1>7

(* the transfer, *)
LEMMA TransferInv ==
    ASSUME MemInv, Transfer
    PROVE  MemInv'
<1>1. /\ BUSY /\ BUSY' = FALSE
      /\ UNCHANGED <<home, SP, ADDRESS, overdrawn, aimed_by, asked_by, retargeted>>
      /\ Alive' = Alive
  BY DEF Transfer, histories, Alive
<1>2. /\ written' \in [by : Pids \union {Nobody}, how : Hows, cells : SUBSET Ram]
      /\ Isolated' /\ SystemUntouched'
  <2>1. /\ home' \in [Pids -> Partitions \union {None}]
        /\ (\A r, q \in Alive : home[r] = home[q] => r = q)'
        /\ asked_by \in Pids \union {Nobody}
    BY <1>1 DEF MemInv, MemoryTypeOK
  <2>2. CASE Nothing(asked_by)
    BY <2>1, <2>2, OwnCells DEF Nothing, Hows
  <2>3. CASE Writes(asked_by, "transfer", {ADDRESS} \intersect Ram)
    <3>1. written' = [by |-> asked_by, how |-> "transfer",
                      cells |-> {ADDRESS} \intersect Ram]
      BY <2>3 DEF Writes
    <3>2. SystemUntouched'
      BY <1>1, <3>1 DEF SystemUntouched, MemInv
    <3>3. CASE asked_by = Nobody \/ asked_by # aimed_by
      BY <1>1, <2>1, <3>1, <3>2, <3>3 DEF Isolated, Hows
    <3>4. CASE asked_by # Nobody /\ asked_by = aimed_by
      <4>1. asked_by \in Alive' /\ {ADDRESS} \intersect Ram \subseteq Cells(home'[asked_by])
        BY <1>1, <3>4 DEF MemInv
      <4> QED
        BY <2>1, <2>3, <4>1, OwnCells DEF Hows
    <3> QED
      BY <3>3, <3>4
  <2> QED
    BY <2>2, <2>3 DEF Transfer
<1> QED
  BY <1>1, <1>2 DEF MemInv, MemoryTypeOK, StackInside

(* and the restart. *)
LEMMA ReiniciarInv ==
    ASSUME MemInv, Reiniciar
    PROVE  MemInv'
<1>1. /\ Alive' = {}
      /\ aimed_by' = Nobody /\ asked_by' = Nobody
      /\ written' = [by |-> Nobody, how |-> "restart", cells |-> Ram]
      /\ home' = [q \in Pids |-> None]
      /\ UNCHANGED <<SP, ADDRESS, BUSY, overdrawn, retargeted>>
  BY DEF Reiniciar, Writes, Alive
<1>2. MemoryTypeOK'
  BY <1>1 DEF MemInv, MemoryTypeOK, Hows
<1> QED
  BY <1>1, <1>2 DEF MemInv, StackInside, Isolated, SystemUntouched

-----------------------------------------------------------------------------
(* The theorems. *)

(* The invariant holds whatever the programs are: however long, wherever   *)
(* they index, whatever they push, and whoever sets the DMA.               *)
THEOREM MemoryInvariant == Spec => []MemInv
<1>1. Init => MemInv
  <2> SUFFICES ASSUME Init PROVE MemInv
    OBVIOUS
  <2>1. home = [p \in Pids |-> None] /\ Alive = {}
    BY DEF Init, Alive
  <2>2. written = [by |-> Nobody, how |-> "none", cells |-> {}]
    BY DEF Init
  <2>3. /\ BUSY \in BOOLEAN /\ retargeted \in BOOLEAN
        /\ ~BUSY
    BY Zenon DEF Init
  <2>4. MemoryTypeOK
    <3>1. SP = [p \in Pids |-> 0] /\ SP \in [Pids -> Int]
      BY DEF Init
    <3>2. home \in [Pids -> Partitions \union {None}]
      BY <2>1
    <3>3. written \in [by : Pids \union {Nobody}, how : Hows, cells : SUBSET Ram]
      BY <2>2 DEF Hows
    <3>4. ADDRESS \in Int /\ aimed_by = Nobody /\ asked_by = Nobody /\ overdrawn = {}
      BY DEF Init
    <3> QED
      BY <2>3, <3>1, <3>2, <3>3, <3>4 DEF MemoryTypeOK
  <2>5. aimed_by = Nobody
    BY DEF Init
  <2> QED
    BY <2>1, <2>2, <2>3, <2>4, <2>5 DEF MemInv, StackInside, Isolated, SystemUntouched
<1>2. MemInv /\ [Next]_mvars => MemInv'
  <2>1. ASSUME MemInv, UNCHANGED mvars PROVE MemInv'
    BY <2>1 DEF mvars, histories, MemInv, MemoryTypeOK, StackInside, Alive, Isolated,
                SystemUntouched
  <2> QED
    BY <2>1, ExecutesInv, LoadInv, TransferInv, ReiniciarInv DEF Next
<1> QED
  BY <1>1, <1>2, PTL DEF Spec

(* push_stack, pop_stack (cpu.c:20-60) and the loader (load.c:411) keep SP *)
(* in the partition, until the kernel pops a parameter that was never      *)
(* pushed (kernel.c:500); then it may leave by the upper end only.         *)
THEOREM StacksInside == Spec => []StackInside
<1>1. MemInv => StackInside
  BY DEF MemInv
<1> QED
  BY <1>1, MemoryInvariant, PTL

(* Writing in another's partition takes an overlong image (load.c:418), a  *)
(* push on an overdrawn stack (kernel.c:500), or a transfer to an address  *)
(* that its process, still alive, did not put in its own partition         *)
(* (cpu.c:802, dma.c:94).                                                  *)
THEOREM ProcessesIsolated == Spec => []Isolated
<1>1. MemInv => Isolated
  BY DEF MemInv
<1> QED
  BY <1>1, MemoryInvariant, PTL

(* Below OS_RESERVED (brain.h:9) writes a restart, or a transfer whose     *)
(* address was set after SDMAON had tested it, and nothing else.           *)
THEOREM SystemCellsUntouched == Spec => []SystemUntouched
<1>1. MemInv => SystemUntouched
  BY DEF MemInv
<1> QED
  BY <1>1, MemoryInvariant, PTL

=============================================================================

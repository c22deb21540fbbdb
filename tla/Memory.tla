------------------------------- MODULE Memory -------------------------------
(***************************************************************************)
(* Who writes where in RAM: the partitions of the processes, the address   *)
(* translation and the stack of src/src/cpu.c, the parameters the kernel   *)
(* pops, the address register of the DMA and its transfers (dma.c), the    *)
(* loader (load.c) and the bus and the memory under them (bus.c,           *)
(* memory.c).                                                              *)
(*                                                                         *)
(* Which process runs is left open: any process that has been admitted may *)
(* execute at any moment, which covers every schedule of MiniKernel.  The  *)
(* words are left out; the cells each step writes are kept, with what      *)
(* wrote them and on whose behalf.  Only the CPU in user mode is here: one *)
(* with no process executes words in kernel mode, on any address.          *)
(***************************************************************************)
EXTENDS Integers

CONSTANTS
    Pids,
    Nobody,             \* on whose behalf the system is restarted
    OS_RESERVED,        \* cells of the system; the first partition follows
    NUM_PARTITIONS, PARTITION_SIZE, MEM_SIZE,
    Offsets,            \* logical addresses the programs compute
    Sizes               \* words of the programs

ASSUME MemoryAssumption ==
    /\ Nobody \notin Pids
    /\ OS_RESERVED \in Nat
    /\ NUM_PARTITIONS \in Nat \ {0} /\ PARTITION_SIZE \in Nat \ {0}
    /\ MEM_SIZE = OS_RESERVED + NUM_PARTITIONS * PARTITION_SIZE
    /\ Offsets \subseteq Int
    /\ Sizes \subseteq Nat

Ram == 0 .. MEM_SIZE - 1
Reserved == 0 .. OS_RESERVED - 1
Partitions == 0 .. NUM_PARTITIONS - 1
None == -1

VARIABLES
    home,       \* partition of each live process, or None
    SP,         \* stack pointer of each
    ADDRESS, BUSY,  \* of the DMA
    overdrawn,  \* history: processes with a word popped from an empty stack
    aimed_by,   \* history: the live process in whose partition SDMAM put
                \* ADDRESS, or Nobody
    asked_by,   \* history: the live process that started the transfer
    retargeted, \* history: ADDRESS was set after SDMAON had tested it
    written     \* history: what the last step wrote, how, on whose behalf

histories == <<overdrawn, aimed_by, asked_by, retargeted>>
mvars == <<home, SP, ADDRESS, BUSY, histories, written>>

RB(part) == OS_RESERVED + part * PARTITION_SIZE
RL(part) == RB(part) + PARTITION_SIZE - 1
Cells(part) == RB(part) .. RL(part)

Alive == {p \in Pids : home[p] # None}
Writes(p, how, cells) == written' = [by |-> p, how |-> how, cells |-> cells]
Nothing(p) == Writes(p, "none", {})

Init ==
    /\ home = [p \in Pids |-> None]
    /\ SP = [p \in Pids |-> 0]
    /\ ADDRESS = 0 /\ BUSY = FALSE
    /\ overdrawn = {}
    /\ aimed_by = Nobody /\ asked_by = Nobody /\ retargeted = FALSE
    /\ written = [by |-> Nobody, how |-> "none", cells |-> {}]

-----------------------------------------------------------------------------
(* Instructions of a live process. *)

(* Slip: the limit is compared with the logical address. *)
Translates_NoBase(p, a) == a >= 0 /\ a <= RL(home[p])

(* mmu_translate accepts the logical address a, in user mode. *)
Translates(p, a) ==
    /\ RB(home[p]) + a >= RB(home[p])
    /\ RB(home[p]) + a <= RL(home[p])

dma == <<ADDRESS, BUSY, aimed_by, asked_by, retargeted>>

(* STR and STRRX; an address the MMU refuses is not written. *)
Store(p, a) ==
    /\ Translates(p, a)
    /\ Writes(p, "store", {RB(home[p]) + a})
    /\ UNCHANGED <<home, SP, overdrawn, dma>>

(* PSH: the pointer goes back on an overflow only, and a write outside of  *)
(* RAM leaves it where it went.                                            *)
Push(p) ==
    /\ SP[p] - 1 >= RB(home[p])
    /\ SP' = [SP EXCEPT ![p] = @ - 1]
    /\ Writes(p, "push", {SP[p] - 1} \intersect Ram)
    /\ UNCHANGED <<home, overdrawn, dma>>

(* The word a pop hands over goes where the MMU lets it. *)
PopInto(p, a) ==
    /\ SP' = [SP EXCEPT ![p] = @ + 1]
    /\ Writes(p, "store", IF Translates(p, a) THEN {RB(home[p]) + a} ELSE {})
    /\ UNCHANGED <<home, overdrawn, dma>>

(* Slip: the stack may be popped with SP on the limit. *)
Pop_AtLimit(p, a) == SP[p] <= RL(home[p]) /\ PopInto(p, a)

(* POP: the pointer moves also when the destination is then refused. *)
Pop(p, a) == SP[p] < RL(home[p]) /\ PopInto(p, a)

(* kernel_pop_stack, for a system call that returns to the program: the    *)
(* one bound of SP is the end of RAM.  The loader left SP on the limit of  *)
(* the partition, the mark of an empty stack.                              *)
KernelPop(p) ==
    /\ SP[p] \in Ram
    /\ SP' = [SP EXCEPT ![p] = @ + 1]
    /\ overdrawn' = IF SP[p] < RL(home[p]) THEN overdrawn ELSE overdrawn \union {p}
    /\ Nothing(p)
    /\ UNCHANGED <<home, dma>>

(* SDMAM: the address has an upper bound, whether or not a transfer is     *)
(* under way.                                                              *)
Sdmam(p, a) ==
    /\ RB(home[p]) + a <= RL(home[p])
    /\ ADDRESS' = RB(home[p]) + a
    /\ aimed_by' = IF a >= 0 THEN p ELSE Nobody
    /\ retargeted' = BUSY
    /\ Nothing(p)
    /\ UNCHANGED <<home, SP, overdrawn, BUSY, asked_by>>

Accepted(p) ==
    /\ BUSY' = TRUE
    /\ asked_by' = p
    /\ retargeted' = FALSE
    /\ Nothing(p)
    /\ UNCHANGED <<home, SP, overdrawn, ADDRESS, aimed_by>>

(* Slip: the cells of the system are not refused. *)
Sdmaon_Anywhere(p) == ~BUSY /\ ADDRESS \in Ram /\ Accepted(p)

(* SDMAON, when the DMA accepts it: whoever set the address. *)
Sdmaon(p) == ~BUSY /\ ADDRESS \in Ram \ Reserved /\ Accepted(p)

(* The end of p, by itself or by the kernel, a transfer of its own under   *)
(* way or not.                                                             *)
End(p) ==
    /\ home' = [home EXCEPT ![p] = None]
    /\ aimed_by' = IF aimed_by = p THEN Nobody ELSE aimed_by
    /\ asked_by' = IF asked_by = p THEN Nobody ELSE asked_by
    /\ Nothing(p)
    /\ UNCHANGED <<SP, ADDRESS, BUSY, overdrawn, retargeted>>

-----------------------------------------------------------------------------
(* The rest of the system. *)

(* The end of the transfer: it uses the address it finds by then, and      *)
(* writes it only if it goes from disk to memory and nothing fails.        *)
Transfer ==
    /\ BUSY
    /\ BUSY' = FALSE
    /\ \/ Writes(asked_by, "transfer", {ADDRESS} \intersect Ram)
       \/ Nothing(asked_by)
    /\ UNCHANGED <<home, SP, ADDRESS, histories>>

(* load_program_to_ram, into a partition no live process has (MiniKernel's *)
(* PartitionsOwned): words are written until the image or RAM ends, and    *)
(* the process is admitted if the image did.                               *)
Load(p, part, size) ==
    /\ p \notin Alive
    /\ \A q \in Alive : home[q] # part
    /\ Writes(p, IF size <= PARTITION_SIZE THEN "load" ELSE "overlong load",
              (RB(part) .. RB(part) + size - 1) \intersect Ram)
    /\ IF RB(part) + size <= MEM_SIZE
       THEN /\ home' = [home EXCEPT ![p] = part]
            /\ SP' = [SP EXCEPT ![p] = RL(part)]
            /\ overdrawn' = overdrawn \ {p}
       ELSE UNCHANGED <<home, SP, overdrawn>>
    /\ UNCHANGED dma

(* `reiniciar': no process is left, RAM is cleared, and the DMA, already   *)
(* initialised, stays as it is.                                            *)
Reiniciar ==
    /\ home' = [p \in Pids |-> None]
    /\ aimed_by' = Nobody /\ asked_by' = Nobody
    /\ Writes(Nobody, "restart", Ram)
    /\ UNCHANGED <<SP, ADDRESS, BUSY, overdrawn, retargeted>>

Executes(p) ==
    \/ \E a \in Offsets : Store(p, a) \/ Pop(p, a) \/ Sdmam(p, a)
    \/ Push(p) \/ KernelPop(p) \/ Sdmaon(p) \/ End(p)

Next ==
    \/ \E p \in Alive : Executes(p)
    \/ Transfer
    \/ \E p \in Pids, part \in Partitions, size \in Sizes : Load(p, part, size)
    \/ Reiniciar

Spec == Init /\ [][Next]_mvars

-----------------------------------------------------------------------------
(* The shape of the state. *)
Hows == {"none", "store", "push", "load", "overlong load", "transfer", "restart"}

MemoryTypeOK ==
    /\ home \in [Pids -> Partitions \union {None}]
    /\ SP \in [Pids -> Int]
    /\ ADDRESS \in Int /\ BUSY \in BOOLEAN
    /\ overdrawn \subseteq Pids
    /\ aimed_by \in Pids \union {Nobody} /\ asked_by \in Pids \union {Nobody}
    /\ retargeted \in BOOLEAN
    /\ written \in [by : Pids \union {Nobody}, how : Hows, cells : SUBSET Ram]

(* The stack pointer never goes below its partition, and above it only by  *)
(* a parameter the program never pushed: PSH, POP, a POP refused half way  *)
(* and the mark the loader leaves agree on which stack is full and which   *)
(* empty (cpu.c:27, cpu.c:47, load.c:411), and the kernel's own pop        *)
(* (kernel.c:500), which looks at neither, is the one way out.             *)
StackInside ==
    \A p \in Alive :
        /\ SP[p] >= RB(home[p])
        /\ p \notin overdrawn => SP[p] <= RL(home[p])

(* There are three ways for a step of the CPU in user mode, of the loader  *)
(* or of the DMA to write in the partition of a process but on its behalf, *)
(* and no other: an image longer than its partition (load.c:418), the      *)
(* PSH of a process whose stack was overdrawn (kernel.c:500), and a        *)
(* transfer whose address was not put by the process that asked for it, in *)
(* its own partition, or whose process has ended by then (cpu.c:802,       *)
(* dma.c:94, dma.c:156).                                                   *)
Isolated ==
    \A q \in Alive \ {written.by} :
        written.cells \intersect Cells(home[q]) # {} =>
            \/ written.how = "overlong load"
            \/ written.how = "push" /\ written.by \in overdrawn
            \/ written.how = "transfer" /\ (asked_by = Nobody \/ asked_by # aimed_by)

(* The cells of the system are written by a restart, or by a transfer with *)
(* its address set again after SDMAON had tested it (dma.c:94, dma.c:105), *)
(* and by nothing else: not by the stack, the loader, a program, nor a     *)
(* transfer of an ended process.                                           *)
SystemUntouched ==
    written.cells \intersect Reserved # {} =>
        written.how = "restart" \/ (written.how = "transfer" /\ retargeted)

=============================================================================

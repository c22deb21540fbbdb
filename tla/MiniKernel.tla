----------------------------- MODULE MiniKernel -----------------------------
(***************************************************************************)
(* The whole simulator at the granularity of one call of cpu(): the shell  *)
(* of src/src/main.c, the loader's effect on the kernel tables             *)
(* (src/src/load.c), the instruction cycle and the interrupt sequence of   *)
(* src/src/cpu.c, and the completion of a DMA transfer (src/src/dma.c), on *)
(* top of the kernel of module Kernel.                                     *)
(*                                                                         *)
(* A program is abstract: whatever it does, one instruction belongs to one *)
(* of the classes of Effects, and one system call is one of Calls.  What   *)
(* the CPU executes with no current process (the words it finds at the     *)
(* physical addresses its PC runs over) is one of IdleEffects.             *)
(***************************************************************************)
EXTENDS Kernel

CONSTANTS
    Programs,           \* names the user may give to `ejecutar'
    Size,               \* words of each program
    Unreadable,         \* names no program file can be read for
    DISK_TRACKS, TRACK_WORDS,   \* tracks, and words (sectors) of a track
    PARTITION_SIZE,     \* words of a partition
    Effects,            \* classes of instructions the programs contain
    IdleEffects,        \* classes of words met with no current process
    Calls,              \* system calls the programs make
    Commands,           \* shell commands given besides `ejecutar'
    MaxIrqs             \* bound of the model: DMA threads about to notify

ASSUME MiniKernelAssumption ==
    /\ Size \in [Programs -> Nat]
    /\ Unreadable \subseteq Programs
    /\ DISK_TRACKS \in Nat \ {0}
    /\ TRACK_WORDS \in Nat \ {0}
    /\ PARTITION_SIZE \in Nat \ {0}
    /\ Effects \subseteq {"PLAIN", "SVC", "FAULT", "FETCH", "PRIVILEGED",
                          "HAB", "DHAB", "STOP", "SDMAON"}
    /\ IdleEffects \subseteq {"PLAIN", "SVC", "FAULT", "FETCH", "PRIVILEGED",
                              "HAB", "DHAB", "STOP", "SDMAON", "RETRN", "CHMOD"}
    /\ Calls \subseteq {"EXIT", "PRINT", "READ", "SLEEP", "UNKNOWN"}
    /\ Commands \subseteq {"reiniciar", "apagar"}
    /\ MaxIrqs \in Nat \ {0}

(* The interrupt codes of src/src/brain.h the kernel tells apart: FATAL is *)
(* 5 to 8, IGNORED is 0 and 1, which kernel_handle_interrupt has no branch *)
(* for.                                                                    *)
Codes == {"SYSCALL", "CLOCK", "IO_END", "FATAL", "IGNORED"}

VARIABLES
    phase,          \* where main() is: reading a command, loading the list
                    \* of `ejecutar', in its cpu() loop, in the scanf of
                    \* system call 3, or gone
    loaded,         \* programs_loaded > 0
    file_table,     \* the names in the file table
    proxima_pista_libre,
    pending,        \* the code the CPU would attend, "NONE" when
                    \* interrupt_pending is down
    interrupt_code_val,     \* the code last written, attended or not
    cycle_counter,
    Mode, Interrupts,   \* of context.PSW
    dma_BUSY, dma_STATE,
    dma_irqs,       \* threads with a transfer completed and cpu_interrupt
                    \* to come
    dma_codes,      \* threads that have raised interrupt_pending in it, and
                    \* not yet written interrupt_code_val
    behind,         \* history: pids whose PCB lacks instructions already run
    raised_by       \* history: the process whose instruction raised pending

cpuvars == <<pending, interrupt_code_val, cycle_counter, Mode, Interrupts,
             raised_by>>
latch == <<pending, interrupt_code_val, raised_by>>
dmavars == <<dma_BUSY, dma_STATE, dma_irqs, dma_codes>>
diskvars == <<file_table, proxima_pista_libre>>
vars == <<kvars, cpuvars, dmavars, diskvars, phase, loaded, behind>>

Init ==
    /\ KernelInit
    /\ pending = "NONE" /\ interrupt_code_val = "IGNORED"
    /\ raised_by = NULL_PID
    /\ Mode = "USER" /\ Interrupts = TRUE /\ cycle_counter = 0
    /\ dma_BUSY = FALSE /\ dma_STATE = 1 /\ dma_irqs = 0 /\ dma_codes = 0
    /\ file_table = {} /\ proxima_pista_libre = 0
    /\ phase = "shell" /\ loaded = FALSE /\ behind = {}

-----------------------------------------------------------------------------
(* The commands of the shell. *)

Ejecutar ==
    /\ phase = "shell"
    /\ phase' = "loading"
    /\ loaded' = FALSE
    /\ UNCHANGED <<kvars, cpuvars, dmavars, diskvars, behind>>

(* dma_init does nothing on a DMA already initialised; the counter of      *)
(* cpu(), the next free track of cmd_ejecutar and the contexts in the PCBs *)
(* are not among what is reset.                                            *)
Reiniciar ==
    /\ phase = "shell"
    /\ "reiniciar" \in Commands
    /\ KernelReinit
    /\ pending' = "NONE" /\ interrupt_code_val' = "IGNORED"
    /\ raised_by' = NULL_PID
    /\ Mode' = "USER" /\ Interrupts' = TRUE
    /\ file_table' = {}
    /\ UNCHANGED <<cycle_counter, dmavars, proxima_pista_libre, phase, loaded,
                   behind>>

(* `apagar', or the end of the input: the program exits. *)
Apagar ==
    /\ phase = "shell"
    /\ "apagar" \in Commands
    /\ phase' = "off"
    /\ UNCHANGED <<kvars, cpuvars, dmavars, diskvars, loaded, behind>>

-----------------------------------------------------------------------------
(* cmd_ejecutar, one program of the list. *)

(* write_program_to_disk succeeds: it gives up when the word just written  *)
(* is the last of the disk, even if it was also the last of the program.   *)
Fits(prog) ==
    \/ Size[prog] = 0
    \/ proxima_pista_libre * TRACK_WORDS + Size[prog] < DISK_TRACKS * TRACK_WORDS

(* The image loaded at partition part ends before the end of RAM, though   *)
(* perhaps beyond the partition: load_program_to_ram has no other bound.   *)
InRam(prog, part) == Size[prog] <= PARTITION_SIZE * (NUM_PARTITIONS - part)

TableFull == Cardinality(file_table) >= MAX_PROCESSES

(* load_program_to_disk, or create_process for a program already on disk,  *)
(* goes through and leaves a new PCB in slot p.                            *)
Created(prog, p) ==
    /\ IsLeast(p, FreeSlots)
    /\ \/ /\ prog \in file_table
          /\ UNCHANGED diskvars
       \/ /\ prog \notin file_table
          /\ prog \notin Unreadable /\ Fits(prog) /\ ~TableFull
          /\ file_table' = file_table \union {prog}
          /\ proxima_pista_libre' = proxima_pista_libre + 1
    /\ used' = used \union {p}
    /\ behind' = behind \ {p}

(* load_program_to_disk fails before it makes a PCB.  The code goes on     *)
(* with pid = -1: it takes a partition, and load_program_to_ram then fails *)
(* and gives nothing back.                                                 *)
LoadFails(prog) ==
    /\ phase = "loading"
    /\ prog \notin file_table
    /\ prog \in Unreadable \/ ~Fits(prog) \/ FreeSlots = {}
    /\ NoPartitionLeft \/ \E part \in Partitions : TakePartition(part)
    /\ UNCHANGED <<used, state, partition_id, wake_time, quantum_counter,
                   ready_queue, current_pid, cpuvars, dmavars, diskvars,
                   phase, loaded, behind>>

(* The file table is full: the PCB has been made and stays behind, NEW.    *)
AddFails(prog) ==
    /\ phase = "loading"
    /\ prog \notin file_table
    /\ prog \notin Unreadable /\ Fits(prog) /\ TableFull
    /\ \E p \in Pids :
        /\ IsLeast(p, FreeSlots)
        /\ used' = used \union {p}
        /\ state' = CreatedState(p)
        /\ partition_id' = CreatedPartition(p)
        /\ behind' = behind \ {p}
    /\ NoPartitionLeft \/ \E part \in Partitions : TakePartition(part)
    /\ UNCHANGED <<wake_time, quantum_counter, ready_queue, current_pid,
                   cpuvars, dmavars, diskvars, phase, loaded>>

(* No free partition, or the image does not fit between the partition and  *)
(* the end of RAM (load_program_to_ram): the new PCB stays NEW.            *)
LoadStops(prog) ==
    /\ phase = "loading"
    /\ \E p \in Pids :
        /\ Created(prog, p)
        /\ state' = CreatedState(p)
        /\ partition_id' = CreatedPartition(p)
    /\ \/ NoPartitionLeft
       \/ \E part \in Partitions : TakePartition(part) /\ ~InRam(prog, part)
    /\ UNCHANGED <<wake_time, quantum_counter, ready_queue, current_pid,
                   cpuvars, dmavars, phase, loaded>>

LoadOk(prog) ==
    /\ phase = "loading"
    /\ \E p \in Pids, part \in Partitions :
        /\ Created(prog, p)
        /\ TakePartition(part) /\ InRam(prog, part)
        /\ partition_id' = [partition_id EXCEPT ![p] = part]
        /\ state' = MarkedReady(CreatedState(p), ready_queue, <<p>>)
        /\ ready_queue' = Enqueued(ready_queue, <<p>>)
    /\ loaded' = TRUE
    /\ UNCHANGED <<wake_time, quantum_counter, current_pid, cpuvars, dmavars,
                   phase>>

(* The end of the list: schedule() picks the first process, and dispatch   *)
(* gives it the CPU, unless nothing was loaded.                            *)
EndOfList ==
    /\ phase = "loading"
    /\ \/ /\ ~loaded
          /\ phase' = "shell"
          /\ UNCHANGED <<kvars, Mode, Interrupts>>
       \/ /\ loaded
          /\ phase' = "running"
          /\ Schedule(state, ready_queue)
          /\ IF current_pid' = NULL_PID
             THEN UNCHANGED <<Mode, Interrupts>>
             ELSE Mode' = "USER" /\ Interrupts' = TRUE
          /\ UNCHANGED <<used, partition_id, wake_time, partitions_bitmap>>
    /\ UNCHANGED <<latch, cycle_counter, dmavars, diskvars, loaded, behind>>

-----------------------------------------------------------------------------
(* cpu(), one call. *)

(* Slip: the clock is not held back. *)
CpuInterrupt_NoGuard(pend, code) == code

(* cpu_interrupt: the pending code once `code' has been raised. *)
CpuInterrupt(pend, code) ==
    IF pend # "NONE" /\ code = "CLOCK" THEN pend ELSE code

(* The clock comes every second call, if interrupts are enabled. *)
Latched ==
    IF cycle_counter = 1 /\ Interrupts THEN CpuInterrupt(pending, "CLOCK")
                                       ELSE pending
Attends == Interrupts /\ Latched # "NONE"

(* cmd_ejecutar's loop goes on while cpu() returns 0 and some process is   *)
(* READY, RUNNING or BLOCKED.                                              *)
Returns(ret) ==
    phase' = IF ret = 0 /\ Live(state') \intersect used' # {}
             THEN "running" ELSE "shell"

Cycle ==
    /\ phase = "running"
    /\ cycle_counter' = 1 - cycle_counter
    /\ UNCHANGED <<diskvars, loaded>>

(* The call fetches and executes a word of one of the given classes. *)
Instruction(effect) ==
    /\ Cycle
    /\ ~Attends
    /\ effect \in (IF current_pid = NULL_PID THEN IdleEffects ELSE Effects)
    /\ behind' = behind \union ({current_pid} \ {NULL_PID})
    /\ UNCHANGED kvars

Raises(code) ==
    /\ pending' = CpuInterrupt(pending, code)
    /\ interrupt_code_val' = pending'
    /\ raised_by' = current_pid
    /\ UNCHANGED <<Mode, Interrupts, dmavars>>

(* Arithmetic, loads, stores, comparisons, jumps, TTI, the DMA registers,  *)
(* and an SDMAON that finds the DMA busy and steps the PC back.            *)
Plain ==
    /\ Instruction("PLAIN")
    /\ UNCHANGED <<latch, Mode, Interrupts, dmavars>>
    /\ Returns(0)

Svc == Instruction("SVC") /\ Raises("SYSCALL") /\ Returns(0)

(* Division by zero, unknown opcode, stack overflow or underflow, or an    *)
(* operand outside the partition.                                          *)
Fault == Instruction("FAULT") /\ Raises("FATAL") /\ Returns(0)

(* A PC outside the partition, or the operand of an SDMAON: the violation  *)
(* is raised, and cpu() returns 1, which ends the loop of cmd_ejecutar.    *)
FetchFault ==
    /\ Mode = "USER"
    /\ Instruction("FETCH") /\ Raises("FATAL") /\ Returns(1)

(* RETRN, CHMOD or a base, limit or stack register touched in user mode.   *)
Privileged ==
    /\ Mode = "USER"
    /\ Instruction("PRIVILEGED") /\ Raises("IGNORED") /\ Returns(0)

(* HAB and DHAB, which user programs may execute too. *)
Enable ==
    /\ \/ Instruction("HAB") /\ Interrupts' = TRUE
       \/ Instruction("DHAB") /\ Interrupts' = FALSE
    /\ UNCHANGED <<latch, Mode, dmavars>>
    /\ Returns(0)

(* An immediate operand for STR, STRRX or POP, or an SDMAON the DMA        *)
(* refuses: cpu() returns 1 and raises nothing.  One that got as far as    *)
(* pthread_create, and no further, leaves its mark in STATE.               *)
Stop ==
    /\ Instruction("STOP")
    /\ dma_STATE' = dma_STATE \/ (~dma_BUSY /\ dma_STATE' = 1)
    /\ UNCHANGED <<latch, Mode, Interrupts, dma_BUSY, dma_irqs, dma_codes>>
    /\ Returns(1)

(* SDMAON with the DMA free and valid registers. *)
Sdmaon ==
    /\ Instruction("SDMAON")
    /\ ~dma_BUSY
    /\ dma_BUSY' = TRUE /\ dma_STATE' = 1
    /\ UNCHANGED <<latch, Mode, Interrupts, dma_irqs, dma_codes>>
    /\ Returns(0)

(* RETRN in kernel mode with no process to go back to.  (With one, RETRN   *)
(* would dispatch it; UserModeOwnsCpu says that case does not arise.)      *)
Retrn ==
    /\ Mode = "KERNEL" /\ current_pid = NULL_PID
    /\ Instruction("RETRN")
    /\ UNCHANGED <<latch, Mode, Interrupts, dmavars>>
    /\ Returns(1)

Chmod ==
    /\ Mode = "KERNEL"
    /\ Instruction("CHMOD")
    /\ Mode' = "USER"
    /\ UNCHANGED <<latch, Interrupts, dmavars>>
    /\ Returns(0)

-----------------------------------------------------------------------------
(* Slip: the context is not saved before the kernel runs. *)
Handling_NoSave(code) ==
    /\ Cycle
    /\ Attends /\ Latched = code
    /\ interrupt_code_val' = code
    /\ UNCHANGED <<behind, dmavars>>

(* handle_interrupt, which takes the whole call of cpu(): the context is   *)
(* saved in the PCB, kernel_handle_interrupt runs, the pending flag is     *)
(* cleared.  Whoever is current afterwards has been dispatched or has its  *)
(* context restored, in user mode; with nobody, the CPU is left in kernel  *)
(* mode with interrupts disabled.                                          *)
Handling(code) ==
    /\ Cycle
    /\ Attends /\ Latched = code
    /\ interrupt_code_val' = code
    /\ behind' = behind \ {current_pid}
    /\ UNCHANGED dmavars

Handles(code) == Handling(code) /\ current_pid # NULL_PID

(* Slips: the context of the process is not restored; the flag survives. *)
Resume_InKernelMode ==
    /\ pending' = "NONE" /\ raised_by' = NULL_PID
    /\ Mode' = "KERNEL" /\ Interrupts' = (current_pid' # NULL_PID)
    /\ Returns(0)

Resume_StillPending ==
    /\ Mode' = IF current_pid' = NULL_PID THEN "KERNEL" ELSE "USER"
    /\ Interrupts' = (current_pid' # NULL_PID)
    /\ UNCHANGED <<pending, raised_by>>
    /\ Returns(0)

Resume ==
    /\ pending' = "NONE" /\ raised_by' = NULL_PID
    /\ Mode' = IF current_pid' = NULL_PID THEN "KERNEL" ELSE "USER"
    /\ Interrupts' = (current_pid' # NULL_PID)
    /\ Returns(0)

(* kernel_handle_interrupt returns at once when there is no process. *)
IdleInterrupt ==
    /\ \E code \in Codes : Handling(code)
    /\ current_pid = NULL_PID
    /\ UNCHANGED kvars
    /\ Resume

ClockInterrupt == Handles("CLOCK") /\ OnClock /\ Resume

FatalInterrupt == Handles("FATAL") /\ Terminate /\ Resume

(* A DMA error terminates the process that happens to be running. *)
IoEndInterrupt ==
    /\ Handles("IO_END")
    /\ \/ dma_STATE # 0 /\ Terminate
       \/ dma_STATE = 0 /\ UNCHANGED kvars
    /\ Resume

IgnoredInterrupt == Handles("IGNORED") /\ UNCHANGED kvars /\ Resume

(* System call 1, and any code that is not a system call. *)
EndCall ==
    /\ Handles("SYSCALL")
    /\ Calls \intersect {"EXIT", "UNKNOWN"} # {}
    /\ Terminate
    /\ Resume

(* Calls that return to the caller: system call 2, and 1 or 4 with an      *)
(* unreadable stack or no positive number of ticks.                        *)
ReturningCall ==
    /\ Handles("SYSCALL")
    /\ Calls \intersect {"EXIT", "PRINT", "SLEEP"} # {}
    /\ UNCHANGED kvars
    /\ Resume

SleepCall ==
    /\ Handles("SYSCALL")
    /\ "SLEEP" \in Calls
    /\ \E n \in 1 .. MaxSleep : Sleep(n)
    /\ Resume

(* System call 3 waits in scanf in the middle of the handler, and takes    *)
(* `ps' and `memestat' meanwhile; the rest of the handler runs once a      *)
(* number has been typed.                                                  *)
ReadCall ==
    /\ Handles("SYSCALL")
    /\ "READ" \in Calls
    /\ phase' = "input"
    /\ Mode' = "KERNEL" /\ Interrupts' = FALSE
    /\ UNCHANGED <<kvars, pending, raised_by>>

ReadInput ==
    /\ phase = "input"
    /\ UNCHANGED <<kvars, dmavars, diskvars, cycle_counter, interrupt_code_val,
                   loaded, behind>>
    /\ Resume

-----------------------------------------------------------------------------
(* The DMA thread: dma_perform_io ends its transfer, and, when it went     *)
(* well, raises the interrupt after it has released the DMA.               *)
DmaTransfer ==
    /\ phase # "off"
    /\ dma_BUSY
    /\ dma_BUSY' = FALSE
    /\ \/ /\ dma_irqs + dma_codes < MaxIrqs
          /\ dma_STATE' = 0
          /\ dma_irqs' = dma_irqs + 1
       \/ dma_STATE' = 1 /\ UNCHANGED dma_irqs
    /\ UNCHANGED <<kvars, cpuvars, diskvars, dma_codes, phase, loaded, behind>>

(* cpu_interrupt, called by the thread: two unlocked writes.  Between them *)
(* interrupt_pending stands for whatever code was written before.          *)
DmaNotifyFlag ==
    /\ phase # "off"
    /\ dma_irqs > 0
    /\ dma_irqs' = dma_irqs - 1 /\ dma_codes' = dma_codes + 1
    /\ IF pending = "NONE"
       THEN pending' = interrupt_code_val /\ raised_by' = NULL_PID
       ELSE UNCHANGED <<pending, raised_by>>
    /\ UNCHANGED <<kvars, diskvars, dma_BUSY, dma_STATE, interrupt_code_val,
                   cycle_counter, Mode, Interrupts, phase, loaded, behind>>

DmaNotifyCode ==
    /\ phase # "off"
    /\ dma_codes > 0
    /\ dma_codes' = dma_codes - 1
    /\ interrupt_code_val' = "IO_END"
    /\ pending' = IF pending = "NONE" THEN "NONE" ELSE CpuInterrupt(pending, "IO_END")
    /\ raised_by' = NULL_PID
    /\ UNCHANGED <<kvars, diskvars, dma_BUSY, dma_STATE, dma_irqs,
                   cycle_counter, Mode, Interrupts, phase, loaded, behind>>

(* The program has exited. *)
Off == phase = "off" /\ UNCHANGED vars

-----------------------------------------------------------------------------
Shell == Ejecutar \/ Reiniciar \/ Apagar

Loading ==
    \/ \E prog \in Programs :
        LoadFails(prog) \/ AddFails(prog) \/ LoadStops(prog) \/ LoadOk(prog)
    \/ EndOfList

Executes ==
    \/ Plain \/ Svc \/ Fault \/ FetchFault \/ Privileged \/ Enable
    \/ Stop \/ Sdmaon \/ Retrn \/ Chmod

Attending ==
    \/ IdleInterrupt \/ ClockInterrupt \/ FatalInterrupt \/ IoEndInterrupt
    \/ IgnoredInterrupt \/ EndCall \/ ReturningCall \/ SleepCall \/ ReadCall

Next ==
    \/ Shell \/ Loading \/ Executes \/ Attending \/ ReadInput
    \/ DmaTransfer \/ DmaNotifyFlag \/ DmaNotifyCode \/ Off

Spec == Init /\ [][Next]_vars

(* Fairness: the cpu() loop and the loading loop never rest, and the       *)
(* transfer ends and is notified.  WF(ReadInput) is of the user: a system  *)
(* call 3 is answered in the end (with the input closed, its loop spins    *)
(* for ever, kernel.c:441).  A program whose every instruction is a trap   *)
(* would keep the clock out for ever; it cannot be written, since the PC   *)
(* grows through at most PARTITION_SIZE words before a jump, which is an   *)
(* ordinary instruction, has to be executed.                               *)
Fairness ==
    /\ WF_vars(Executes \/ Attending)
    /\ SF_vars(Plain)
    /\ WF_vars(EndOfList)
    /\ WF_vars(ReadInput)
    /\ WF_vars(DmaTransfer)
    /\ WF_vars(DmaNotifyFlag)
    /\ WF_vars(DmaNotifyCode)

FairSpec == Spec /\ Fairness

-----------------------------------------------------------------------------
(* The shape of the state. *)
MachineTypeOK ==
    /\ phase \in {"shell", "loading", "running", "input", "off"}
    /\ loaded \in BOOLEAN
    /\ file_table \subseteq Programs
    /\ proxima_pista_libre \in Nat
    /\ pending \in Codes \union {"NONE"}
    /\ interrupt_code_val \in Codes
    /\ cycle_counter \in {0, 1}
    /\ Mode \in {"USER", "KERNEL"}
    /\ Interrupts \in BOOLEAN
    /\ dma_BUSY \in BOOLEAN /\ dma_STATE \in {0, 1}
    /\ dma_irqs \in 0 .. MaxIrqs /\ dma_codes \in 0 .. MaxIrqs - dma_irqs
    /\ behind \subseteq Pids
    /\ raised_by \in Pids \union {NULL_PID}

TypeOK == KernelTypeOK /\ MachineTypeOK

(* The queue holds every READY process exactly once, and nothing else.     *)
(* enqueue_ready, schedule, dispatch, the wake-up loop and                 *)
(* load_program_to_ram each keep half of this in step with the other half. *)
ReadyQueueExact ==
    /\ \A i, j \in 1 .. Len(ready_queue) :
            ready_queue[i] = ready_queue[j] => i = j
    /\ \A p \in Pids :
            (p \in used /\ state[p] = "READY")
                <=> \E i \in 1 .. Len(ready_queue) : ready_queue[i] = p

(* Nobody but the current process is marked RUNNING, whoever leaves the    *)
(* CPU and wherever schedule() is called from: an `ejecutar' after the CPU *)
(* stopped in the middle of a process (main.c:370), and a queue that a     *)
(* restart left behind (kernel.c:57), included; and while programs run the *)
(* current process is so marked.                                           *)
OneRunning ==
    /\ \A p \in Pids : state[p] = "RUNNING" => p = current_pid
    /\ phase \in {"running", "input"} /\ current_pid # NULL_PID
          => state[current_pid] = "RUNNING"

(* Two processes that can still execute never share a partition, and the   *)
(* partition of each is marked: find_free_partition cannot hand it out.    *)
PartitionsOwned ==
    \A p \in Live(state) :
        /\ partition_id[p] \in partitions_bitmap
        /\ \A q \in Live(state) : partition_id[p] = partition_id[q] => p = q

(* A process never executes in kernel mode, whatever interrupts it takes:  *)
(* kernel mode outside the handler means that there is no process.         *)
UserModeOwnsCpu ==
    phase \in {"shell", "loading", "running"} /\ Mode = "KERNEL"
        => current_pid = NULL_PID

(* The CPU idles only when no process is ready (work conservation).        *)
WorkConserving ==
    phase \in {"running", "input"} /\ current_pid = NULL_PID => ready_queue = <<>>

(* schedule() never needs the second dequeue of kernel.c:317, which would  *)
(* read NULL_PID from the empty queue and index process_table with it.     *)
SecondDequeueUnreached ==
    ready_queue = <<>> /\ current_pid # NULL_PID => state[current_pid] # "READY"

(* A sleeper is never left without an alarm: the wake-up loop clears       *)
(* wake_time only when it also makes the process READY.                    *)
AlarmSet == \A p \in used : state[p] = "BLOCKED" => wake_time[p] > 0

(* A process that does not hold the CPU has, in its PCB, everything it has *)
(* executed (``Si hay un proceso corriendo actualmente, guardamos su       *)
(* estado exacto'', cpu.c:201).  Not so where a program stops the CPU: the *)
(* next `ejecutar' takes it from its process without saving anything.      *)
SavedContexts == behind \subseteq {current_pid}

(* A system call or a fatal code is served on account of the process whose *)
(* instruction raised it: the current process when the CPU is about to     *)
(* attend it.  A trap that also stops the CPU (cpu.c:303), and a transfer  *)
(* that raises the flag before its code (cpu.c:190), break it; what else   *)
(* processes do does not.                                                  *)
TrapsHitTheirProcess ==
    phase = "running" /\ Interrupts /\ current_pid # NULL_PID
        /\ pending \in {"SYSCALL", "FATAL"}
            => raised_by = current_pid

(* A system call or a fatal code, once raised, is the next that the kernel *)
(* attends: neither the end of a transfer nor the clock of the same call   *)
(* of cpu() replaces it (``El ciclo cpu_step la procesará antes de la      *)
(* siguiente instrucción'', cpu.c:189).                                    *)
TrapsNotOverwritten ==
    [][phase = "running" /\ pending \in {"SYSCALL", "FATAL"}
        => /\ pending' \in {pending, "NONE"}
           /\ Attends => Latched = pending]_vars

(* Where one step may take a process while programs run. *)
MovesFrom(p) ==
    CASE state[p] = "READY" -> {"READY", "RUNNING"}
      [] state[p] = "RUNNING" -> ProcessState \ {"NEW"}
      [] state[p] = "BLOCKED" -> {"BLOCKED", "READY", "RUNNING"}
      [] OTHER -> {state[p]}

(* While programs run, a process that waits for the CPU or for its alarm   *)
(* is never ended, and never moved but to the CPU or to the queue: what    *)
(* the running process does, or suffers, stays with it.                    *)
WaitersUntouched ==
    [][\A p \in used :
        phase \in {"running", "input"} => state'[p] \in MovesFrom(p)]_vars

(* Nobody is overtaken: a READY process only moves towards the head of the *)
(* queue, from the moment it is queued until it gets the CPU.              *)
Position(q, p) == {i \in 1 .. Len(q) : q[i] = p}
NoOvertaking ==
    [][\A p \in used \intersect used' :
        Position(ready_queue, p) # {} /\ current_pid' # p =>
            \E i \in Position(ready_queue, p), j \in Position(ready_queue', p) :
                j <= i]_vars

(* While programs run, a process goes from the CPU back to the queue only  *)
(* with its quantum used up.                                               *)
TurnsAreWhole ==
    [][\A p \in Pids :
        phase = "running" /\ state[p] = "RUNNING" /\ state'[p] = "READY"
            => quantum_counter = QUANTUM_TICKS - 1]_vars

(* Every READY process gets the CPU. *)
ReadyRuns ==
    \A p \in Pids : (p \in used /\ state[p] = "READY") ~> (current_pid = p)

(* A sleeper wakes up, as long as some process keeps the clock running. *)
SleepersWake ==
    \A p \in Pids :
        (p \in used /\ state[p] = "BLOCKED")
            ~> (state[p] # "BLOCKED" \/ current_pid = NULL_PID)

(* The sleeper of test_sleep.txt: after its ticks it goes on (``AL         *)
(* DESPERTAR, IMPRIMIR 777'').  Alone it does not: an idle CPU has its     *)
(* interrupts masked (cpu.c:210) and raises no clock (cpu.c:276), until it *)
(* meets a word that stops it.                                             *)
EverySleeperWakes ==
    \A p \in Pids : (p \in used /\ state[p] = "BLOCKED") ~> (state[p] # "BLOCKED")

-----------------------------------------------------------------------------
(* The kernel tables, the queue and the shell carry out what               *)
(* Multiprogramming promises to the processes, step by step.               *)
Promise == INSTANCE Multiprogramming WITH
    cpu    <- current_pid,
    queue  <- ready_queue,
    asleep <- {p \in Pids : state[p] = "BLOCKED"},
    room   <- [p \in Live(state) |-> partition_id[p]]

KeepsPromise == Promise!Spec

=============================================================================

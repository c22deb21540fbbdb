-------------------------------- MODULE Dma --------------------------------
(***************************************************************************)
(* The DMA controller of src/src/dma.c and the interrupt latch of          *)
(* src/src/cpu.c as the threads of the program see them: the main thread,  *)
(* which is the CPU and the shell, and one thread for each transfer.       *)
(*                                                                         *)
(* What dma.lock protects (the registers, BUSY, STATE) changes in one step *)
(* per critical section.  interrupt_pending, interrupt_code_val and        *)
(* dma_thread_running have no lock: each access to them is a step.         *)
(*                                                                         *)
(* MiniKernel sees of all this a transfer that ends (DmaTransfer) and the  *)
(* two writes of its notification (DmaNotifyFlag, DmaNotifyCode) between   *)
(* calls of cpu(); how they fall inside of one is only here.               *)
(***************************************************************************)
EXTENDS Integers, FiniteSets

CONSTANT Threads        \* bound: transfer threads alive at the same time

ASSUME DmaAssumption == Threads \cap {"none"} = {}

NoThread == "none"

(* The codes of src/src/brain.h: those an instruction raises, a fatal      *)
(* error being any of four and an invalid operation one that the kernel    *)
(* ignores; the clock's; that of the transfer threads; and the value       *)
(* cpu_init leaves.                                                        *)
Trap == {"SYSCALL", "FATAL", "INVALID"}
Code == Trap \union {"CLOCK", "IO_END", "ZERO"}

VARIABLES
    valid,              \* TRACK, CYLINDER, SECTOR and ADDRESS are in range
    dma_BUSY, dma_STATE,
    dma_thread_running,
    dma_thread,         \* the thread last created
    dma_initialized,
    interrupt_pending, interrupt_code_val,
    main,               \* where the main thread is
    thread,             \* where each transfer thread is
    code,               \* the argument of kernel_handle_interrupt, or ZERO out of it
    good                \* history: the last transfer to end ended well

latch == <<interrupt_pending, interrupt_code_val, code>>
device == <<valid, dma_BUSY, dma_STATE, good>>
flags == <<dma_thread_running, dma_thread, dma_initialized>>
vars == <<latch, device, flags, main, thread>>

Init ==
    /\ valid = TRUE /\ dma_BUSY = FALSE /\ dma_STATE = 1
    /\ dma_thread_running = FALSE /\ dma_thread = NoThread
    /\ dma_initialized = TRUE
    /\ interrupt_pending = FALSE /\ interrupt_code_val = "ZERO"
    /\ main = "shell"
    /\ thread = [t \in Threads |-> "ended"]
    /\ code = "ZERO" /\ good = FALSE

MainGoes(from, to) == main = from /\ main' = to
ThreadGoes(t, from, to) ==
    thread[t] = from /\ thread' = [thread EXCEPT ![t] = to]

-----------------------------------------------------------------------------
(* The main thread in cpu(): the tick, the interrupt, the instruction.     *)

Ejecutar == MainGoes("shell", "tick") /\ UNCHANGED <<latch, device, flags, thread>>

(* The clock comes every second call; the guard of cpu_interrupt is a read *)
(* of interrupt_pending that the two writes only follow.                   *)
Tick ==
    /\ \/ MainGoes("tick", "attend")
       \/ ~interrupt_pending /\ MainGoes("tick", "clock flag")
    /\ UNCHANGED <<latch, device, flags, thread>>

ClockFlag ==
    /\ MainGoes("clock flag", "clock code")
    /\ interrupt_pending' = TRUE
    /\ UNCHANGED <<interrupt_code_val, code, device, flags, thread>>

ClockCode ==
    /\ MainGoes("clock code", "attend")
    /\ interrupt_code_val' = "CLOCK"
    /\ UNCHANGED <<interrupt_pending, code, device, flags, thread>>

(* With interrupts masked a pending one is left for later. *)
Attend ==
    /\ \/ interrupt_pending /\ MainGoes("attend", "handle")
       \/ MainGoes("attend", "execute")
    /\ UNCHANGED <<latch, device, flags, thread>>

(* handle_interrupt passes the code it finds to the kernel. *)
Handle ==
    /\ MainGoes("handle", "kernel")
    /\ code' = interrupt_code_val
    /\ UNCHANGED <<interrupt_pending, interrupt_code_val, device,
                   flags, thread>>

(* kernel_handle_interrupt serves the code; for IO_END it reads dma_STATE. *)
Kernel ==
    /\ MainGoes("kernel", "clear")
    /\ code' = "ZERO"
    /\ UNCHANGED <<interrupt_pending, interrupt_code_val, device, flags, thread>>

(* The flag goes down, and cmd_ejecutar's loop goes on or ends.            *)
Clear ==
    /\ MainGoes("clear", "tick") \/ MainGoes("clear", "shell")
    /\ interrupt_pending' = FALSE
    /\ UNCHANGED <<interrupt_code_val, code, device, flags, thread>>

(* An instruction that does not touch the DMA, or an SDMAON it refuses.    *)
Execute ==
    /\ \/ MainGoes("execute", "tick")
       \/ MainGoes("execute", "shell")
    /\ UNCHANGED <<latch, device, flags, thread>>

(* cpu_interrupt, from an instruction that makes a trap: it ends cpu(),    *)
(* and after an error of the fetch the loop of cmd_ejecutar too.           *)
TrapFlag ==
    /\ MainGoes("execute", "trap code")
    /\ interrupt_pending' = TRUE
    /\ UNCHANGED <<interrupt_code_val, code, device, flags, thread>>

TrapCode ==
    /\ \/ MainGoes("trap code", "tick") /\ interrupt_code_val' \in Trap
       \/ MainGoes("trap code", "shell") /\ interrupt_code_val' = "FATAL"
    /\ UNCHANGED <<interrupt_pending, code, device, flags, thread>>

(* SDMAP, SDMAC, SDMAS, SDMAIO and SDMAM, whether or not a transfer is     *)
(* waiting to read the registers.                                          *)
SetRegisters ==
    /\ MainGoes("execute", "tick")
    /\ valid' \in BOOLEAN
    /\ UNCHANGED <<dma_BUSY, dma_STATE, good, latch, flags, thread>>

(* Slips: BUSY is not looked at; STATE keeps the last result. *)
Sdmaon_AnyTime ==
    /\ MainGoes("execute", "create")
    /\ valid
    /\ dma_BUSY' = TRUE /\ dma_STATE' = 1
    /\ dma_thread_running' = TRUE
    /\ UNCHANGED <<valid, good, latch, dma_thread, dma_initialized, thread>>

Sdmaon_KeepsState ==
    /\ MainGoes("execute", "create")
    /\ ~dma_BUSY /\ valid
    /\ dma_BUSY' = TRUE
    /\ dma_thread_running' = TRUE
    /\ UNCHANGED <<valid, dma_STATE, good, latch, dma_thread, dma_initialized,
                   thread>>

(* SDMAON with the DMA free and the registers valid. *)
Sdmaon ==
    /\ MainGoes("execute", "create")
    /\ ~dma_BUSY /\ valid
    /\ dma_BUSY' = TRUE /\ dma_STATE' = 1
    /\ dma_thread_running' = TRUE
    /\ UNCHANGED <<valid, good, latch, dma_thread, dma_initialized, thread>>

(* pthread_create, out of the critical section. *)
Create(t) ==
    /\ MainGoes("create", "tick")
    /\ ThreadGoes(t, "ended", "latency")
    /\ dma_thread' = t
    /\ UNCHANGED <<latch, device, dma_thread_running, dma_initialized>>

(* Slip: dma_thread_running is left set. *)
CreateFails_StillRunning ==
    /\ MainGoes("create", "shell")
    /\ dma_BUSY' = FALSE /\ dma_STATE' = 1 /\ good' = FALSE
    /\ UNCHANGED <<valid, latch, flags, thread>>

CreateFails ==
    /\ MainGoes("create", "shell")
    /\ dma_BUSY' = FALSE /\ dma_STATE' = 1 /\ good' = FALSE
    /\ dma_thread_running' = FALSE
    /\ UNCHANGED <<valid, latch, dma_thread, dma_initialized, thread>>

-----------------------------------------------------------------------------
(* The shell. *)

(* cpu_init() forgets what is pending; dma_init() finds the DMA ready. *)
ReiniciarFlag ==
    /\ MainGoes("shell", "restart code")
    /\ interrupt_pending' = FALSE
    /\ UNCHANGED <<interrupt_code_val, code, device, flags, thread>>

ReiniciarCode ==
    /\ MainGoes("restart code", "shell")
    /\ interrupt_code_val' = "ZERO"
    /\ UNCHANGED <<interrupt_pending, code, device, flags, thread>>

(* dma_destroy() decides to wait, or not, on the flag alone. *)
Apagar ==
    /\ MainGoes("shell", IF dma_thread_running THEN "join" ELSE "destroy")
    /\ UNCHANGED <<latch, device, flags, thread>>

Join ==
    /\ MainGoes("join", "destroy")
    /\ thread[dma_thread] = "ended"
    /\ UNCHANGED <<latch, device, flags, thread>>

Destroy ==
    /\ MainGoes("destroy", "off")
    /\ dma_initialized' = FALSE /\ dma_thread_running' = FALSE
    /\ UNCHANGED <<latch, device, dma_thread, thread>>

(* The end of the input ends the program without cmd_apagar. *)
EndOfInput == MainGoes("shell", "off") /\ UNCHANGED <<latch, device, flags, thread>>

Off == main = "off" /\ UNCHANGED vars

-----------------------------------------------------------------------------
(* dma_perform_io, in transfer thread t. *)

TransferEnds(t, to) ==
    /\ main # "off"
    /\ ThreadGoes(t, "latency", to)
    /\ dma_BUSY' = FALSE
    /\ UNCHANGED <<valid, latch, flags, main>>

TransferGood(t) ==
    /\ valid
    /\ TransferEnds(t, "flag")
    /\ dma_STATE' = 0 /\ good' = TRUE

(* Slips: the early return leaves the DMA busy; what the disk answers is   *)
(* put into STATE.                                                         *)
TransferBad_Busy(t) ==
    /\ main # "off"
    /\ ThreadGoes(t, "latency", "clear")
    /\ dma_STATE' = 1 /\ good' = FALSE
    /\ UNCHANGED <<valid, dma_BUSY, latch, flags, main>>

TransferBad_Answer(t) ==
    /\ TransferEnds(t, "clear")
    /\ dma_STATE' = -1 /\ good' = FALSE

(* Registers out of range by now, or the bus or the disk refuses. *)
TransferBad(t) ==
    /\ TransferEnds(t, "clear")
    /\ dma_STATE' = 1 /\ good' = FALSE

(* cpu_interrupt(INT_IO_END) *)
NotifyFlag(t) ==
    /\ main # "off"
    /\ ThreadGoes(t, "flag", "code")
    /\ interrupt_pending' = TRUE
    /\ UNCHANGED <<interrupt_code_val, code, device, flags, main>>

NotifyCode(t) ==
    /\ main # "off"
    /\ ThreadGoes(t, "code", "clear")
    /\ interrupt_code_val' = "IO_END"
    /\ UNCHANGED <<interrupt_pending, code, device, flags, main>>

(* Slip: the thread waits for the main thread before it ends. *)
ThreadEnds_WhenRunning(t) ==
    /\ main \notin {"off", "shell", "join", "destroy"}
    /\ ThreadGoes(t, "clear", "ended")
    /\ dma_thread_running' = FALSE
    /\ UNCHANGED <<latch, device, dma_thread, dma_initialized, main>>

(* dma_thread_running = 0, whichever thread it stands for by now. *)
ThreadEnds(t) ==
    /\ main # "off"
    /\ ThreadGoes(t, "clear", "ended")
    /\ dma_thread_running' = FALSE
    /\ UNCHANGED <<latch, device, dma_thread, dma_initialized, main>>

-----------------------------------------------------------------------------
Instruction == Execute \/ TrapFlag \/ SetRegisters \/ Sdmaon
Cpu ==
    \/ Tick \/ ClockFlag \/ ClockCode \/ Attend \/ Handle \/ Kernel \/ Clear
    \/ Instruction \/ TrapCode \/ CreateFails \/ \E t \in Threads : Create(t)
Shell == Ejecutar \/ ReiniciarFlag \/ ReiniciarCode \/ Apagar \/ EndOfInput
ShuttingDown == Join \/ Destroy
Transfer(t) ==
    TransferGood(t) \/ TransferBad(t) \/ NotifyFlag(t) \/ NotifyCode(t) \/ ThreadEnds(t)

Next ==
    \/ Cpu \/ Shell \/ ShuttingDown \/ Off
    \/ \E t \in Threads : Transfer(t)

Spec == Init /\ [][Next]_vars

(* Fairness: the operating system runs every thread. *)
FairSpec ==
    /\ Spec
    /\ WF_vars(Cpu) /\ WF_vars(ShuttingDown)
    /\ \A t \in Threads : WF_vars(Transfer(t))

-----------------------------------------------------------------------------
(* Where a thread is in dma_perform_io: the sleep and the transfer, the    *)
(* two writes of cpu_interrupt, dma_thread_running = 0, the end.           *)
Place == {"latency", "flag", "code", "clear", "ended"}

(* The shape of the state. *)
DmaTypeOK ==
    /\ valid \in BOOLEAN /\ good \in BOOLEAN
    /\ dma_BUSY \in BOOLEAN /\ dma_STATE \in {0, 1}
    /\ dma_thread_running \in BOOLEAN /\ dma_initialized \in BOOLEAN
    /\ dma_thread \in Threads \union {NoThread}
    /\ interrupt_pending \in BOOLEAN
    /\ interrupt_code_val \in Code /\ code \in Code
    /\ main \in {"shell", "tick", "clock flag", "clock code", "attend", "handle",
                 "kernel", "clear", "execute", "trap code", "create",
                 "restart code", "join", "destroy", "off"}
    /\ thread \in [Threads -> Place]

Transferring == {t \in Threads : thread[t] = "latency"}

(* The disk and the memory are never touched by two transfers: BUSY is     *)
(* claimed by dma_handler, given to the thread outside the lock, and given *)
(* back by dma_perform_io, on every path.                                  *)
OneTransfer ==
    /\ dma_BUSY <=> (main = "create" \/ Transferring # {})
    /\ main = "create" => Transferring = {}
    /\ \A t, u \in Transferring : t = u

(* Whoever reads success reads the result of the last transfer started,    *)
(* not that of an earlier one (STATE, brain.h:107).                        *)
SuccessIsTrue == dma_STATE = 0 => good /\ ~dma_BUSY

(* dma_destroy never joins a thread that was not created: the flag and     *)
(* dma_thread are set apart, outside the lock.                             *)
JoinsAThread == main = "join" => dma_thread \in Threads

(* A program that waits for the DMA, repeating its SDMAON, does not wait   *)
(* for ever, unless the program itself ends.                               *)
BusyEnds == dma_BUSY ~> (~dma_BUSY \/ main = "off")

(* The wait of dma_destroy ends, and with it the program.                  *)
ShutdownEnds == main = "join" ~> main = "off"

(* When the kernel finds an error in the DMA on the end of a transfer, a   *)
(* transfer has failed (STATE: ``0 = exito, 1 = fallo'', brain.h:107).     *)
DmaErrorIsReal ==
    main = "kernel" /\ code = "IO_END" /\ dma_STATE # 0 => ~good

=============================================================================

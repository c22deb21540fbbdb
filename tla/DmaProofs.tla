----------------------------- MODULE DmaProofs -----------------------------
(***************************************************************************)
(* Proofs about Dma, for any set of transfer threads.                      *)
(*                                                                         *)
(* DmaInv strengthens the three safety properties of the module, of which  *)
(* JoinsAThread is not inductive: the flag is never set without a thread,  *)
(* but for the window in which dma_handler creates it.                     *)
(***************************************************************************)
EXTENDS Dma, TLAPS

ThreadsOK == thread \in [Threads -> Place]

FlagHasThread == dma_thread_running /\ main # "create" => dma_thread \in Threads

DmaInv ==
    /\ ThreadsOK
    /\ OneTransfer
    /\ SuccessIsTrue
    /\ JoinsAThread
    /\ FlagHasThread

(* The program starts with the DMA free and no thread. *)
LEMMA InitDma == Init => DmaInv
<1> SUFFICES ASSUME Init PROVE DmaInv
  OBVIOUS
<1>1. ThreadsOK
  BY DEF Init, ThreadsOK, Place
<1>2. OneTransfer
  <2>1. Transferring = {}
    BY DEF Init, Transferring
  <2>2. QED
    BY <2>1 DEF Init, OneTransfer
<1>3. SuccessIsTrue /\ JoinsAThread /\ FlagHasThread
  BY DEF Init, SuccessIsTrue, JoinsAThread, FlagHasThread
<1>4. QED
  BY <1>1, <1>2, <1>3 DEF DmaInv

(* The steps of the main thread that leave the device, its flags and its   *)
(* threads alone, and do not enter or leave the creation of a thread.      *)
Elsewhere ==
    /\ main # "create" /\ main' # "create"
    /\ main' = "join" => dma_thread_running \/ main = "join"
    /\ UNCHANGED <<dma_BUSY, dma_STATE, good, flags, thread>>

LEMMA ElsewhereKeeps ==
  ASSUME DmaInv, Elsewhere
  PROVE  DmaInv'
<1>1. ThreadsOK'
  BY DEF DmaInv, ThreadsOK, Elsewhere
<1>2. OneTransfer'
  BY DEF DmaInv, Elsewhere, OneTransfer, Transferring
<1>3. SuccessIsTrue' /\ JoinsAThread' /\ FlagHasThread'
  BY DEF DmaInv, Elsewhere, SuccessIsTrue, JoinsAThread, FlagHasThread, flags
<1>4. QED
  BY <1>1, <1>2, <1>3 DEF DmaInv

(* The steps of the CPU and of the shell that only move the main thread,   *)
(* the latch and the registers.                                            *)
LEMMA Elsewheres ==
  ASSUME \/ Tick \/ ClockFlag \/ ClockCode \/ Attend \/ Handle \/ Kernel \/ Clear
         \/ Execute \/ TrapFlag \/ TrapCode \/ SetRegisters
         \/ Shell \/ Join
  PROVE  Elsewhere
<1> USE DEF MainGoes, Elsewhere, device
<1>1. CASE Tick \/ ClockFlag \/ ClockCode \/ Attend \/ Handle \/ Kernel \/ Clear
  BY <1>1 DEF Tick, ClockFlag, ClockCode, Attend, Handle, Kernel, Clear
<1>2. CASE Execute \/ TrapFlag \/ TrapCode \/ SetRegisters
  BY <1>2 DEF Execute, TrapFlag, TrapCode, SetRegisters
<1>3. CASE Shell \/ Join
  BY <1>3 DEF Shell, Ejecutar, ReiniciarFlag, ReiniciarCode, Apagar, EndOfInput, Join
<1>4. QED
  BY <1>1, <1>2, <1>3

(* SDMAON claims the DMA, which is free: no thread is transferring. *)
LEMMA SdmaonKeeps ==
  ASSUME DmaInv, Sdmaon
  PROVE  DmaInv'
<1> USE DEF DmaInv, Sdmaon, MainGoes
<1>1. ThreadsOK'
  BY DEF ThreadsOK
<1>2. OneTransfer'
  <2>1. Transferring = {} /\ Transferring' = {}
    BY DEF OneTransfer, Transferring
  <2>2. QED
    BY <2>1 DEF OneTransfer
<1>3. SuccessIsTrue' /\ JoinsAThread' /\ FlagHasThread'
  BY DEF SuccessIsTrue, JoinsAThread, FlagHasThread
<1>4. QED
  BY <1>1, <1>2, <1>3

(* pthread_create hands the DMA to the one thread it creates. *)
LEMMA CreateKeeps ==
  ASSUME NEW t \in Threads, DmaInv, Create(t)
  PROVE  DmaInv'
<1> USE DEF DmaInv, Create, MainGoes, ThreadGoes, device
<1>1. ThreadsOK'
  BY DEF ThreadsOK, Place
<1>2. OneTransfer'
  <2>1. Transferring' = {t}
    BY DEF OneTransfer, Transferring, ThreadsOK
  <2>2. QED
    BY <2>1 DEF OneTransfer
<1>3. SuccessIsTrue' /\ JoinsAThread' /\ FlagHasThread'
  BY DEF SuccessIsTrue, JoinsAThread, FlagHasThread
<1>4. QED
  BY <1>1, <1>2, <1>3

(* A creation that fails gives the DMA and the flag back. *)
LEMMA CreateFailsKeeps ==
  ASSUME DmaInv, CreateFails
  PROVE  DmaInv'
<1> USE DEF DmaInv, CreateFails, MainGoes
<1>1. ThreadsOK'
  BY DEF ThreadsOK
<1>2. OneTransfer'
  <2>1. Transferring' = {}
    BY DEF OneTransfer, Transferring
  <2>2. QED
    BY <2>1 DEF OneTransfer
<1>3. SuccessIsTrue' /\ JoinsAThread' /\ FlagHasThread'
  BY DEF SuccessIsTrue, JoinsAThread, FlagHasThread
<1>4. QED
  BY <1>1, <1>2, <1>3

(* The one thread that transfers leaves the DMA free. *)
LEMMA TransferKeeps ==
  ASSUME NEW t \in Threads, DmaInv, TransferGood(t) \/ TransferBad(t)
  PROVE  DmaInv'
<1>1. PICK to \in {"flag", "clear"} : TransferEnds(t, to)
  BY DEF TransferGood, TransferBad
<1> USE DEF DmaInv, TransferEnds, ThreadGoes, flags
<1>2. ThreadsOK'
  BY <1>1 DEF ThreadsOK, Place
<1>3. OneTransfer'
  <2>1. Transferring = {t}
    BY <1>1 DEF OneTransfer, Transferring
  <2>2. Transferring' = {} /\ main # "create"
    BY <1>1, <2>1 DEF OneTransfer, Transferring, ThreadsOK
  <2>3. QED
    BY <1>1, <2>2 DEF OneTransfer
<1>4. SuccessIsTrue'
  BY <1>1 DEF TransferGood, TransferBad, SuccessIsTrue
<1>5. JoinsAThread' /\ FlagHasThread'
  BY <1>1 DEF JoinsAThread, FlagHasThread
<1>6. QED
  BY <1>2, <1>3, <1>4, <1>5

(* A thread that has transferred notifies and ends without the DMA. *)
LEMMA AfterTransferKeeps ==
  ASSUME NEW t \in Threads, DmaInv,
         NotifyFlag(t) \/ NotifyCode(t) \/ ThreadEnds(t)
  PROVE  DmaInv'
<1>1. PICK from \in Place \ {"latency"}, to \in Place \ {"latency"} :
            ThreadGoes(t, from, to)
  BY DEF NotifyFlag, NotifyCode, ThreadEnds, Place
<1>2. /\ UNCHANGED <<dma_BUSY, dma_STATE, good, main, dma_thread>>
      /\ dma_thread_running' = dma_thread_running \/ dma_thread_running' = FALSE
  BY DEF NotifyFlag, NotifyCode, ThreadEnds, device, flags
<1> USE DEF DmaInv, ThreadGoes
<1>3. ThreadsOK'
  BY <1>1 DEF ThreadsOK
<1>4. OneTransfer'
  <2>1. Transferring' = Transferring
    BY <1>1 DEF Transferring, ThreadsOK
  <2>2. QED
    BY <1>2, <2>1 DEF OneTransfer
<1>5. SuccessIsTrue' /\ JoinsAThread' /\ FlagHasThread'
  BY <1>2 DEF SuccessIsTrue, JoinsAThread, FlagHasThread
<1>6. QED
  BY <1>3, <1>4, <1>5

(* dma_destroy ends the program. *)
LEMMA DestroyKeeps ==
  ASSUME DmaInv, Destroy
  PROVE  DmaInv'
<1> USE DEF DmaInv, Destroy, MainGoes, device
<1>1. ThreadsOK' /\ OneTransfer'
  BY DEF ThreadsOK, OneTransfer, Transferring
<1>2. SuccessIsTrue' /\ JoinsAThread' /\ FlagHasThread'
  BY DEF SuccessIsTrue, JoinsAThread, FlagHasThread
<1>3. QED
  BY <1>1, <1>2

LEMMA DmaUnchanged ==
  ASSUME DmaInv, UNCHANGED vars
  PROVE  DmaInv'
<1> USE DEF DmaInv, vars, device, flags
<1>1. ThreadsOK' /\ OneTransfer'
  BY DEF ThreadsOK, OneTransfer, Transferring
<1>2. SuccessIsTrue' /\ JoinsAThread' /\ FlagHasThread'
  BY DEF SuccessIsTrue, JoinsAThread, FlagHasThread
<1>3. QED
  BY <1>1, <1>2

LEMMA NextDma == DmaInv /\ [Next]_vars => DmaInv'
<1> SUFFICES ASSUME DmaInv, [Next]_vars PROVE DmaInv'
  OBVIOUS
<1>1. CASE \/ Tick \/ ClockFlag \/ ClockCode \/ Attend \/ Handle \/ Kernel
           \/ Clear \/ Execute \/ TrapFlag \/ TrapCode \/ SetRegisters
           \/ Shell \/ Join
  BY <1>1, Elsewheres, ElsewhereKeeps
<1>2. CASE Sdmaon
  BY <1>2, SdmaonKeeps
<1>3. CASE \E t \in Threads : Create(t)
  BY <1>3, CreateKeeps
<1>4. CASE CreateFails
  BY <1>4, CreateFailsKeeps
<1>5. CASE Destroy
  BY <1>5, DestroyKeeps
<1>6. CASE \E t \in Threads : Transfer(t)
  <2>1. PICK t \in Threads : Transfer(t)
    BY <1>6
  <2>2. CASE TransferGood(t) \/ TransferBad(t)
    BY <2>2, TransferKeeps
  <2>3. CASE NotifyFlag(t) \/ NotifyCode(t) \/ ThreadEnds(t)
    BY <2>3, AfterTransferKeeps
  <2>4. QED
    BY <2>1, <2>2, <2>3 DEF Transfer
<1>7. CASE Off \/ UNCHANGED vars
  BY <1>7, DmaUnchanged DEF Off
<1>8. QED
  BY <1>1, <1>2, <1>3, <1>4, <1>5, <1>6, <1>7
     DEF Next, Cpu, Instruction, ShuttingDown

(* The inductive invariant of the DMA controller and its threads. *)
THEOREM DmaInvariant == Spec => []DmaInv
  BY InitDma, NextDma, PTL DEF Spec

(* However many threads linger after their transfer (dma_perform_io, after *)
(* BUSY = 0), at most one ever holds the disk and the memory, and BUSY     *)
(* says which state that is.                                               *)
THEOREM TransfersExclude == Spec => []OneTransfer
<1>1. DmaInv => OneTransfer
  BY DEF DmaInv
<1>2. QED
  BY <1>1, DmaInvariant, PTL

(* dma_get_state never answers success for an operation in progress, nor   *)
(* for one that failed.                                                    *)
THEOREM SuccessTrue == Spec => []SuccessIsTrue
<1>1. DmaInv => SuccessIsTrue
  BY DEF DmaInv
<1>2. QED
  BY <1>1, DmaInvariant, PTL

(* pthread_join in dma_destroy is given a thread that pthread_create made. *)
THEOREM JoinsCreated == Spec => []JoinsAThread
<1>1. DmaInv => JoinsAThread
  BY DEF DmaInv
<1>2. QED
  BY <1>1, DmaInvariant, PTL

(* Every step of the main thread and of the transfers, the writes to the   *)
(* unprotected latch and flags included, keeps the shape of the state.     *)
LEMMA NextDmaType == DmaTypeOK /\ [Next]_vars => DmaTypeOK'
<1> SUFFICES ASSUME DmaTypeOK, [Next]_vars PROVE DmaTypeOK'
  OBVIOUS
<1> USE DEF DmaTypeOK, MainGoes, latch, device, flags
<1>1. CASE \/ Tick \/ ClockFlag \/ ClockCode \/ Attend \/ Handle \/ Kernel
           \/ Clear
  <2>1. CASE Tick \/ Attend
    BY <2>1 DEF Tick, Attend
  <2>2. CASE ClockFlag \/ Clear
    BY <2>2 DEF ClockFlag, Clear
  <2>3. CASE ClockCode
    BY <2>3 DEF ClockCode, Code
  <2>4. CASE Handle
    BY <2>4 DEF Handle
  <2>5. CASE Kernel
    BY <2>5 DEF Kernel, Code
  <2> QED
    BY <1>1, <2>1, <2>2, <2>3, <2>4, <2>5
<1>2. CASE Instruction \/ TrapCode
  <2>1. CASE Execute
    BY <2>1 DEF Execute
  <2>2. CASE TrapFlag
    BY <2>2 DEF TrapFlag
  <2>3. CASE SetRegisters
    BY <2>3 DEF SetRegisters
  <2>4. CASE Sdmaon
    BY <2>4 DEF Sdmaon
  <2>5. CASE TrapCode
    <3>1. interrupt_code_val' \in Code
      BY <2>5 DEF TrapCode, Trap, Code
    <3>2. main' \in {"tick", "shell"}
      BY <2>5 DEF TrapCode
    <3>3. UNCHANGED <<interrupt_pending, code, device, flags, thread>>
      BY <2>5 DEF TrapCode
    <3> QED
      BY <3>1, <3>2, <3>3
  <2> QED
    BY <1>2, <2>1, <2>2, <2>3, <2>4, <2>5 DEF Instruction
<1>3. CASE CreateFails
  BY <1>3 DEF CreateFails
<1>4. ASSUME NEW t \in Threads, Create(t)
      PROVE  DmaTypeOK'
  BY <1>4 DEF Create, ThreadGoes, Place
<1>5. CASE Shell \/ ShuttingDown
  <2>1. CASE Ejecutar \/ EndOfInput
    BY <2>1 DEF Ejecutar, EndOfInput
  <2>2. CASE Apagar \/ Join
    BY <2>2 DEF Apagar, Join
  <2>3. CASE ReiniciarFlag
    BY <2>3 DEF ReiniciarFlag
  <2>4. CASE ReiniciarCode
    BY <2>4 DEF ReiniciarCode, Code
  <2>5. CASE Destroy
    BY <2>5 DEF Destroy
  <2> QED
    BY <1>5, <2>1, <2>2, <2>3, <2>4, <2>5 DEF Shell, ShuttingDown
<1>6. ASSUME NEW t \in Threads, Transfer(t)
      PROVE  DmaTypeOK'
  <2>1. CASE TransferGood(t) \/ TransferBad(t)
    BY <2>1 DEF TransferGood, TransferBad, TransferEnds, ThreadGoes, Place
  <2>2. CASE NotifyFlag(t)
    BY <2>2 DEF NotifyFlag, ThreadGoes, Place
  <2>3. CASE NotifyCode(t)
    <3>1. /\ thread' \in [Threads -> Place]
          /\ interrupt_code_val' \in Code /\ code' \in Code
      BY <2>3 DEF NotifyCode, ThreadGoes, Place, Code
    <3> QED
      BY <2>3, <3>1 DEF NotifyCode
  <2>4. CASE ThreadEnds(t)
    BY <2>4 DEF ThreadEnds, ThreadGoes, Place
  <2> QED
    BY <1>6, <2>1, <2>2, <2>3, <2>4 DEF Transfer
<1>7. CASE Off \/ UNCHANGED vars
  <2>1. UNCHANGED <<valid, dma_BUSY, dma_STATE, good>>
    BY <1>7, Zenon DEF Off, vars
  <2>2. UNCHANGED <<dma_thread_running, dma_thread, dma_initialized>>
    BY <1>7, Zenon DEF Off, vars
  <2>3. UNCHANGED <<interrupt_pending, interrupt_code_val, code, main, thread>>
    BY <1>7, Zenon DEF Off, vars
  <2> QED
    BY <2>1, <2>2, <2>3
<1>8. QED
  BY <1>1, <1>2, <1>3, <1>4, <1>5, <1>6, <1>7 DEF Next, Cpu

(* The shape of the state, for any set of threads: the latch only ever     *)
(* holds one of the codes of brain.h, whichever two writes of              *)
(* cpu_interrupt are interleaved (cpu.c:190).                              *)
THEOREM DmaTypes == Spec => []DmaTypeOK
<1>1. Init => DmaTypeOK
  BY DEF Init, DmaTypeOK, Code, Place
<1>2. QED
  BY <1>1, NextDmaType, PTL DEF Spec

=============================================================================

---------------------------- MODULE KernelProofs ----------------------------
(***************************************************************************)
(* Proofs about the scheduler and the process table, for every value of    *)
(* the constants of MiniKernel: what holds in every session, restarted at  *)
(* any moment, with programs that stop the CPU half way.                   *)
(***************************************************************************)
EXTENDS MiniKernel, FiniteSetTheorems, SequenceTheorems, TLAPS

USE FifoAssumption, KernelAssumption

-----------------------------------------------------------------------------
(* Lemmas about the operators of module Kernel. *)

(* The pids are finitely many: one per slot of the table.                  *)
LEMMA PidsFinite ==
    /\ Pids \subseteq Nat
    /\ IsFiniteSet(Pids)
    /\ Cardinality(Pids) = MAX_PROCESSES
<1> DEFINE top == MAX_PROCESSES - 1
<1>1. top \in Int /\ ~ (0 > top) /\ top - 0 + 1 = MAX_PROCESSES
  OBVIOUS
<1>2. /\ IsFiniteSet(0 .. top)
      /\ Cardinality(0 .. top) = IF 0 > top THEN 0 ELSE top - 0 + 1
  <2> HIDE DEF top
  <2> QED
    BY <1>1, FS_Interval
<1>3. Pids = 0 .. top /\ Pids \subseteq Nat
  BY DEF Pids
<1> HIDE DEF top
<1> QED
  BY <1>1, <1>2, <1>3

(* A list of distinct pids is no longer than the process table. *)
LEMMA DistinctFit ==
    ASSUME NEW q \in Seq(Pids),
           \A i, j \in 1 .. Len(q) : q[i] = q[j] => i = j
    PROVE  Len(q) <= MAX_PROCESSES
<1>1. IsFiniteSet(Pids) /\ Cardinality(Pids) = MAX_PROCESSES
  BY PidsFinite
<1> Len(q) \in Nat
  BY LenProperties
<1>2. /\ IsFiniteSet(1 .. Len(q))
      /\ Cardinality(1 .. Len(q)) = IF 1 > Len(q) THEN 0 ELSE Len(q) - 1 + 1
  BY FS_Interval
<1>3. q \in [1 .. Len(q) -> Pids]
  BY LenProperties
<1>4. ~ Cardinality(Pids) < Cardinality(1 .. Len(q))
  BY <1>1, <1>2, <1>3, FS_PigeonHole
<1> QED
  BY <1>1, <1>2, <1>4, LenProperties

(* What the wake-up loop enqueues is a list of distinct pids: the members  *)
(* of S.                                                                   *)
LEMMA InPidOrderList ==
    ASSUME NEW S \in SUBSET Pids, NEW w \in InPidOrder(S)
    PROVE  /\ w \in Seq(Pids)
           /\ \A i, j \in 1 .. Len(w) : w[i] = w[j] => i = j
           /\ \A p \in Pids : p \in S <=> \E i \in 1 .. Len(w) : w[i] = p
<1>1. IsFiniteSet(S)
  BY PidsFinite, FS_Subset
<1>2. Cardinality(S) \in Nat
  BY <1>1, FS_CardinalityType
<1>3. w \in [1 .. Cardinality(S) -> S]
  BY DEF InPidOrder
<1>4. w \in Seq(S) /\ Len(w) = Cardinality(S)
  BY <1>2, <1>3, SeqDef
<1>5. w \in Seq(Pids)
  BY <1>4, SeqMonotonic
<1>6. \A i, j \in 1 .. Len(w) : i < j => w[i] < w[j]
  BY <1>4 DEF InPidOrder
<1>7. ASSUME NEW i \in 1 .. Len(w), NEW j \in 1 .. Len(w), w[i] = w[j]
      PROVE  i = j
  <2>1. w[i] \in Nat /\ w[j] \in Nat
    BY <1>5, <1>7, ElementOfSeq, PidsFinite
  <2>2. ~ (i < j) /\ ~ (j < i)
    BY <1>6, <1>7, <2>1
  <2> QED
    BY <1>2, <1>4, <1>7, <2>2
<1>8. \A p \in S : \E i \in 1 .. Len(w) : w[i] = p
  BY <1>4 DEF InPidOrder
<1> QED
  BY <1>3, <1>4, <1>5, <1>7, <1>8

(* A prefix of a list of pids is one.                                      *)
LEMMA PrefixType ==
    ASSUME NEW s \in Seq(Pids), NEW n \in Nat, n <= Len(s)
    PROVE  SubSeq(s, 1, n) \in Seq(Pids) /\ Len(SubSeq(s, 1, n)) = n
<1>1. Len(s) \in Nat
  BY LenProperties
<1>2. \A i \in 1 .. n : s[i] \in Pids
  BY <1>1, ElementOfSeq
<1> QED
  BY <1>2, SubSeqProperties

(* The ring never holds more than MAX_PROCESSES pids. *)
LEMMA EnqueuedType ==
    ASSUME NEW q \in Seq(Pids), Len(q) <= MAX_PROCESSES, NEW w \in Seq(Pids)
    PROVE  Enqueued(q, w) \in Seq(Pids) /\ Len(Enqueued(q, w)) <= MAX_PROCESSES
<1>1. q \o w \in Seq(Pids) /\ Len(q \o w) = Len(q) + Len(w)
  BY ConcatProperties
<1>2. Len(q) \in Nat /\ Len(w) \in Nat
  BY LenProperties
<1>3. CASE Len(q) + Len(w) <= MAX_PROCESSES
  BY <1>1, <1>3 DEF Enqueued
<1>4. CASE Len(q) + Len(w) > MAX_PROCESSES
  <2>1. MAX_PROCESSES <= Len(q \o w)
    BY <1>1, <1>2, <1>4
  <2>2. /\ SubSeq(q \o w, 1, MAX_PROCESSES) \in Seq(Pids)
        /\ Len(SubSeq(q \o w, 1, MAX_PROCESSES)) = MAX_PROCESSES
    BY <1>1, <2>1, PrefixType
  <2> QED
    BY <1>2, <1>4, <2>2 DEF Enqueued
<1> QED
  BY <1>2, <1>3, <1>4

(* Marking processes READY keeps the table of states a table.              *)
LEMMA MarkedReadyType ==
    ASSUME NEW st \in [Pids -> ProcessState], NEW q, NEW w
    PROVE  MarkedReady(st, q, w) \in [Pids -> ProcessState]
BY DEF MarkedReady, ProcessState

ScheduledType ==
    /\ state' \in [Pids -> ProcessState]
    /\ ready_queue' \in Seq(Pids) /\ Len(ready_queue') <= MAX_PROCESSES
    /\ current_pid' \in Pids \union {NULL_PID}
    /\ quantum_counter' = 0

(* Whatever tables schedule() is entered with, it leaves tables. *)
LEMMA ScheduleType ==
    ASSUME current_pid \in Pids \union {NULL_PID},
           NEW st \in [Pids -> ProcessState],
           NEW q \in Seq(Pids), Len(q) <= MAX_PROCESSES,
           Schedule(st, q)
    PROVE  ScheduledType
<1> DEFINE turn == IF current_pid # NULL_PID /\ st[current_pid] = "RUNNING"
                   THEN <<current_pid>> ELSE <<>>
           q1   == Enqueued(q, turn)
           st1  == MarkedReady(st, q, turn)
<1>1. turn \in Seq(Pids)
  OBVIOUS
<1>2. q1 \in Seq(Pids) /\ Len(q1) <= MAX_PROCESSES
  BY <1>1, EnqueuedType
<1>3. st1 \in [Pids -> ProcessState]
  BY MarkedReadyType
<1>4. /\ quantum_counter' = 0
      /\ \/ q1 = <<>> /\ current_pid' = NULL_PID /\ state' = st1 /\ ready_queue' = <<>>
         \/ q1 # <<>> /\ Dispatch(st1, Head(q1)) /\ ready_queue' = Tail(q1)
  BY DEF Schedule
<1> HIDE DEF turn, q1, st1
<1>5. CASE q1 = <<>>
  BY <1>3, <1>4, <1>5, EmptySeq DEF ScheduledType
<1>6. CASE q1 # <<>>
  <2>1. /\ Head(q1) \in Pids
        /\ Tail(q1) \in Seq(Pids)
        /\ Len(Tail(q1)) = Len(q1) - 1
    BY <1>2, <1>6, HeadTailProperties
  <2>2. Len(q1) \in Nat
    BY <1>2, LenProperties
  <2>3. Dispatch(st1, Head(q1)) /\ ready_queue' = Tail(q1)
    BY <1>4, <1>6
  <2>4. state' \in [Pids -> ProcessState]
    BY <1>3, <2>3 DEF Dispatch, ProcessState
  <2>5. current_pid' = Head(q1)
    BY <2>3 DEF Dispatch
  <2> QED
    BY <1>2, <1>4, <2>1, <2>2, <2>3, <2>4, <2>5 DEF ScheduledType
<1> QED
  BY <1>5, <1>6

-----------------------------------------------------------------------------
(* Type correctness. *)

(* The clock handler leaves the kernel tables tables.                      *)
LEMMA OnClockType ==
    ASSUME KernelTypeOK, OnClock
    PROVE  KernelTypeOK'
<1>1. PICK w \in InPidOrder(Due) :
        LET st == MarkedReady(state, ready_queue, w)
            q  == Enqueued(ready_queue, w)
        IN  \/ /\ QuantumOver
               /\ Schedule(st, q)
            \/ /\ ~QuantumOver
               /\ quantum_counter' = quantum_counter + 1
               /\ state' = st
               /\ ready_queue' = q
               /\ UNCHANGED current_pid
  BY DEF OnClock
<1>2. Due \in SUBSET Pids
  BY DEF KernelTypeOK, Due, Sleeping
<1>3. w \in Seq(Pids)
  BY <1>2, InPidOrderList
<1> DEFINE st == MarkedReady(state, ready_queue, w)
           q  == Enqueued(ready_queue, w)
<1>4. st \in [Pids -> ProcessState]
  BY MarkedReadyType DEF KernelTypeOK
<1>5. q \in Seq(Pids) /\ Len(q) <= MAX_PROCESSES
  BY <1>3, EnqueuedType DEF KernelTypeOK
<1>6. wake_time' \in [Pids -> 0 .. MaxSleep]
  <2>1. wake_time' = [p \in Pids |-> IF p \in Sleeping THEN wake_time[p] - 1
                                                      ELSE wake_time[p]]
    BY DEF OnClock
  <2>2. \A p \in Sleeping : wake_time[p] > 0
    BY DEF Sleeping
  <2> QED
    BY <2>1, <2>2 DEF KernelTypeOK
<1>7. UNCHANGED <<used, partition_id, partitions_bitmap>>
  BY DEF OnClock
<1> HIDE DEF st, q
<1>8. CASE QuantumOver /\ Schedule(st, q)
  <2>1. ScheduledType
    BY <1>4, <1>5, <1>8, ScheduleType DEF KernelTypeOK
  <2> QED
    BY <1>6, <1>7, <2>1 DEF KernelTypeOK, ScheduledType
<1>9. CASE /\ ~QuantumOver
           /\ quantum_counter' = quantum_counter + 1
           /\ state' = st
           /\ ready_queue' = q
           /\ UNCHANGED current_pid
  BY <1>4, <1>5, <1>6, <1>7, <1>9 DEF KernelTypeOK, QuantumOver
<1> QED
  BY <1>1, <1>8, <1>9 DEF st, q

(* So does the end of the running process,                                 *)
LEMMA TerminateType ==
    ASSUME KernelTypeOK, current_pid # NULL_PID, Terminate
    PROVE  KernelTypeOK'
<1> DEFINE st == [state EXCEPT ![current_pid] = "TERMINATED"]
<1>1. st \in [Pids -> ProcessState]
  BY DEF KernelTypeOK, ProcessState
<1>2. Schedule(st, ready_queue)
  BY DEF Terminate
<1>3. UNCHANGED <<used, partition_id, wake_time>> /\ partitions_bitmap' \subseteq Partitions
  BY DEF KernelTypeOK, Terminate
<1> HIDE DEF st
<1>4. ScheduledType
  BY <1>1, <1>2, ScheduleType DEF KernelTypeOK
<1> QED
  BY <1>3, <1>4 DEF KernelTypeOK, ScheduledType

(* so does system call 4,                                                  *)
LEMMA SleepType ==
    ASSUME KernelTypeOK, current_pid # NULL_PID, NEW n \in 1 .. MaxSleep, Sleep(n)
    PROVE  KernelTypeOK'
<1> DEFINE st == [state EXCEPT ![current_pid] = "BLOCKED"]
<1>1. st \in [Pids -> ProcessState]
  BY DEF KernelTypeOK, ProcessState
<1>2. Schedule(st, ready_queue)
  BY DEF Sleep
<1>3. wake_time' \in [Pids -> 0 .. MaxSleep]
  BY DEF KernelTypeOK, Sleep
<1>4. UNCHANGED <<used, partition_id, partitions_bitmap>>
  BY DEF Sleep
<1> HIDE DEF st
<1>5. ScheduledType
  BY <1>1, <1>2, ScheduleType DEF KernelTypeOK
<1> QED
  BY <1>3, <1>4, <1>5 DEF KernelTypeOK, ScheduledType

(* and so does loading the programs of a list.                             *)
LEMMA LoadingType ==
    ASSUME TypeOK, Loading
    PROVE  KernelTypeOK'
<1> USE DEF TypeOK
<1>1. ASSUME NEW prog \in Programs, LoadFails(prog)
      PROVE  KernelTypeOK'
  BY <1>1 DEF LoadFails, KernelTypeOK, NoPartitionLeft, TakePartition
<1>2. ASSUME NEW prog \in Programs, AddFails(prog)
      PROVE  KernelTypeOK'
  BY <1>2 DEF AddFails, KernelTypeOK, NoPartitionLeft, TakePartition,
              CreatedState, CreatedPartition, ProcessState
<1>3. ASSUME NEW prog \in Programs, LoadStops(prog)
      PROVE  KernelTypeOK'
  BY <1>3 DEF LoadStops, Created, KernelTypeOK, NoPartitionLeft, TakePartition,
              CreatedState, CreatedPartition, ProcessState
<1>4. ASSUME NEW prog \in Programs, LoadOk(prog)
      PROVE  KernelTypeOK'
  <2>1. PICK p \in Pids, part \in Partitions :
            /\ used' = used \union {p}
            /\ partitions_bitmap' = partitions_bitmap \union {part}
            /\ partition_id' = [partition_id EXCEPT ![p] = part]
            /\ state' = MarkedReady(CreatedState(p), ready_queue, <<p>>)
            /\ ready_queue' = Enqueued(ready_queue, <<p>>)
    BY <1>4 DEF LoadOk, Created, TakePartition
  <2>2. CreatedState(p) \in [Pids -> ProcessState]
    BY DEF CreatedState, KernelTypeOK, ProcessState
  <2>3. state' \in [Pids -> ProcessState]
    BY <2>1, <2>2, MarkedReadyType
  <2>4. <<p>> \in Seq(Pids)
    OBVIOUS
  <2>5. ready_queue' \in Seq(Pids) /\ Len(ready_queue') <= MAX_PROCESSES
    BY <2>1, <2>4, EnqueuedType DEF KernelTypeOK
  <2>6. UNCHANGED <<wake_time, quantum_counter, current_pid>>
    BY <1>4 DEF LoadOk
  <2> QED
    BY <2>1, <2>3, <2>5, <2>6 DEF KernelTypeOK
<1>5. ASSUME EndOfList
      PROVE  KernelTypeOK'
  <2>1. CASE UNCHANGED kvars
    BY <2>1 DEF kvars, KernelTypeOK
  <2>2. CASE /\ Schedule(state, ready_queue)
             /\ UNCHANGED <<used, partition_id, wake_time, partitions_bitmap>>
    <3>1. ScheduledType
      BY <2>2, ScheduleType DEF KernelTypeOK
    <3> QED
      BY <2>2, <3>1 DEF KernelTypeOK, ScheduledType
  <2> QED
    BY <1>5, <2>1, <2>2 DEF EndOfList
<1> QED
  BY <1>1, <1>2, <1>3, <1>4, <1>5 DEF Loading

(* An interrupt leaves the kernel tables tables. *)
LEMMA AttendingType ==
    ASSUME TypeOK, Attending
    PROVE  KernelTypeOK'
<1> USE DEF TypeOK
<1>1. ASSUME UNCHANGED kvars PROVE KernelTypeOK'
  BY <1>1 DEF kvars, KernelTypeOK
<1>2. ASSUME ClockInterrupt PROVE KernelTypeOK'
  BY <1>2, OnClockType DEF ClockInterrupt
<1>3. ASSUME Terminate, current_pid # NULL_PID PROVE KernelTypeOK'
  BY <1>3, TerminateType
<1>4. ASSUME SleepCall PROVE KernelTypeOK'
  BY <1>4, SleepType DEF SleepCall, Handles
<1> QED
  BY <1>1, <1>2, <1>3, <1>4
  DEF Attending, IdleInterrupt, FatalInterrupt, IoEndInterrupt,
      IgnoredInterrupt, EndCall, ReturningCall, ReadCall, Handles

(* The part of the machine's assumption that the types rest on. *)
LEMMA MaxIrqsAssumption == MaxIrqs \in Nat \ {0}
  BY MiniKernelAssumption

(* What an instruction may do to the CPU keeps the machine variables typed. *)
LEMMA ExecutesType ==
    ASSUME TypeOK, Executes
    PROVE  MachineTypeOK' /\ UNCHANGED kvars
<1> USE DEF TypeOK
<1>1. ASSUME NEW effect, Instruction(effect)
      PROVE  /\ UNCHANGED kvars
             /\ cycle_counter' \in {0, 1}
             /\ behind' \subseteq Pids
             /\ UNCHANGED <<diskvars, loaded>>
  BY <1>1 DEF Instruction, Cycle, KernelTypeOK, MachineTypeOK
<1>2. ASSUME NEW ret, Returns(ret)
      PROVE  phase' \in {"shell", "running"}
  BY <1>2 DEF Returns
<1>3. ASSUME NEW code \in Codes, Raises(code)
      PROVE  /\ pending' \in Codes \union {"NONE"}
             /\ interrupt_code_val' \in Codes
             /\ raised_by' \in Pids \union {NULL_PID}
             /\ UNCHANGED <<Mode, Interrupts, dmavars>>
  BY <1>3 DEF Raises, CpuInterrupt, KernelTypeOK, MachineTypeOK
<1> DEFINE Ends == \E effect, ret : Instruction(effect) /\ Returns(ret)
<1>4. ASSUME Ends,
             pending' \in Codes \union {"NONE"}, interrupt_code_val' \in Codes,
             raised_by' \in Pids \union {NULL_PID},
             Mode' \in {"USER", "KERNEL"}, Interrupts' \in BOOLEAN,
             dma_BUSY' \in BOOLEAN, dma_STATE' \in {0, 1},
             dma_irqs' \in 0 .. MaxIrqs, dma_codes' \in 0 .. MaxIrqs - dma_irqs'
      PROVE  MachineTypeOK' /\ UNCHANGED kvars
  BY <1>1, <1>2, <1>4 DEF MachineTypeOK, diskvars
<1>5. CASE Svc \/ Fault \/ FetchFault \/ Privileged
  <2>1. \E code \in Codes : Raises(code)
    BY <1>5 DEF Svc, Fault, FetchFault, Privileged, Codes
  <2>2. Ends
    BY <1>5 DEF Svc, Fault, FetchFault, Privileged
  <2> QED
    BY <1>3, <1>4, <2>1, <2>2 DEF MachineTypeOK, dmavars
<1>6. CASE Plain \/ Enable \/ Stop \/ Sdmaon \/ Retrn \/ Chmod
  <2>1. Ends
    BY <1>6 DEF Plain, Enable, Stop, Sdmaon, Retrn, Chmod
  <2>2. UNCHANGED <<pending, interrupt_code_val, raised_by, dma_irqs, dma_codes>>
    BY <1>6 DEF Plain, Enable, Stop, Sdmaon, Retrn, Chmod, dmavars, latch
  <2>3. Mode' \in {Mode, "USER"} /\ Interrupts' \in {Interrupts, TRUE, FALSE}
    BY <1>6 DEF Plain, Enable, Stop, Sdmaon, Retrn, Chmod
  <2>4. dma_BUSY' \in {dma_BUSY, TRUE} /\ dma_STATE' \in {dma_STATE, 1}
    BY <1>6 DEF Plain, Enable, Stop, Sdmaon, Retrn, Chmod, dmavars
  <2> HIDE DEF Ends
  <2> QED
    BY <1>4, <2>1, <2>2, <2>3, <2>4 DEF MachineTypeOK
<1> QED
  BY <1>5, <1>6 DEF Executes

(* The same for the interrupt sequence, given the tables' own type.        *)
LEMMA AttendingMachineType ==
    ASSUME TypeOK, KernelTypeOK', Attending \/ ReadInput
    PROVE  MachineTypeOK'
<1> USE DEF TypeOK
<1>1. ASSUME Resume
      PROVE  /\ pending' = "NONE" /\ raised_by' = NULL_PID
             /\ Mode' \in {"USER", "KERNEL"} /\ Interrupts' \in BOOLEAN
             /\ phase' \in {"shell", "running"}
  BY <1>1 DEF Resume, Returns
<1>2. ASSUME NEW code, Handling(code)
      PROVE  /\ cycle_counter' \in {0, 1}
             /\ interrupt_code_val' \in Codes
             /\ behind' \subseteq Pids
             /\ UNCHANGED <<dmavars, diskvars, loaded>>
  BY <1>2 DEF Handling, Cycle, Attends, Latched, CpuInterrupt, Codes, MachineTypeOK
<1> DEFINE Handled == \E code : Handling(code)
<1>3. CASE Handled /\ Resume
  BY <1>1, <1>2, <1>3 DEF MachineTypeOK, dmavars, diskvars
<1>4. CASE ReadCall
  <2>1. Handled
    BY <1>4 DEF ReadCall, Handles
  <2> HIDE DEF Handled
  <2>2. /\ phase' = "input" /\ Mode' = "KERNEL" /\ Interrupts' = FALSE
        /\ UNCHANGED <<pending, raised_by>>
    BY <1>4 DEF ReadCall
  <2> USE DEF Handled
  <2> QED
    BY <1>2, <2>1, <2>2 DEF MachineTypeOK, dmavars, diskvars
<1>5. CASE ReadInput
  BY <1>1, <1>5 DEF ReadInput, MachineTypeOK, dmavars, diskvars
<1>6. Attending => ReadCall \/ (Handled /\ Resume)
  BY DEF Attending, IdleInterrupt, ClockInterrupt, FatalInterrupt,
         IoEndInterrupt, IgnoredInterrupt, EndCall, ReturningCall, SleepCall,
         Handles
<1> QED
  BY <1>3, <1>4, <1>5, <1>6

(* The same for the shell and for the loading of the list of programs.     *)
LEMMA LoadingMachineType ==
    ASSUME TypeOK, Loading
    PROVE  MachineTypeOK'
<1> USE DEF TypeOK
<1>1. ASSUME NEW prog \in Programs, NEW p \in Pids, Created(prog, p)
      PROVE  /\ file_table' \subseteq Programs
             /\ proxima_pista_libre' \in Nat
             /\ behind' \subseteq Pids
  BY <1>1 DEF Created, diskvars, MachineTypeOK
<1>2. ASSUME NEW prog \in Programs, LoadFails(prog)
      PROVE  MachineTypeOK'
  BY <1>2 DEF LoadFails, cpuvars, dmavars, diskvars, MachineTypeOK
<1>3. ASSUME NEW prog \in Programs, AddFails(prog)
      PROVE  MachineTypeOK'
  BY <1>3 DEF AddFails, cpuvars, dmavars, diskvars, MachineTypeOK
<1>4. ASSUME NEW prog \in Programs, LoadStops(prog)
      PROVE  MachineTypeOK'
  <2>1. PICK p \in Pids : Created(prog, p)
    BY <1>4 DEF LoadStops
  <2>2. UNCHANGED <<cpuvars, dmavars, phase, loaded>>
    BY <1>4 DEF LoadStops
  <2> QED
    BY <1>1, <2>1, <2>2 DEF cpuvars, dmavars, MachineTypeOK
<1>5. ASSUME NEW prog \in Programs, LoadOk(prog)
      PROVE  MachineTypeOK'
  <2>1. PICK p \in Pids : Created(prog, p)
    BY <1>5 DEF LoadOk
  <2>2. UNCHANGED <<cpuvars, dmavars, phase>> /\ loaded' = TRUE
    BY <1>5 DEF LoadOk
  <2> QED
    BY <1>1, <2>1, <2>2 DEF cpuvars, dmavars, MachineTypeOK
<1>6. ASSUME EndOfList
      PROVE  MachineTypeOK'
  <2>1. /\ phase' \in {"shell", "running"}
        /\ Mode' \in {Mode, "USER"} /\ Interrupts' \in {Interrupts, TRUE}
        /\ UNCHANGED <<latch, cycle_counter, dmavars, diskvars, loaded, behind>>
    BY <1>6 DEF EndOfList
  <2> QED
    BY <2>1 DEF latch, dmavars, diskvars, MachineTypeOK
<1> QED
  BY <1>2, <1>3, <1>4, <1>5, <1>6 DEF Loading

(* The initial state and every step. *)
LEMMA InitTypeOK == Init => TypeOK
<1>1. Init => KernelTypeOK
  BY DEF Init, KernelInit, KernelTypeOK, ProcessState
<1>2. Init => MachineTypeOK
  <2> SUFFICES ASSUME Init PROVE MachineTypeOK
    OBVIOUS
  <2>1. /\ loaded \in BOOLEAN /\ Interrupts \in BOOLEAN /\ dma_BUSY \in BOOLEAN
        /\ phase = "shell" /\ Mode = "USER" /\ pending = "NONE"
        /\ raised_by = NULL_PID /\ interrupt_code_val = "IGNORED"
        /\ file_table = {} /\ behind = {}
    BY DEF Init
  <2>2. /\ proxima_pista_libre = 0 /\ cycle_counter = 0 /\ dma_STATE = 1
        /\ dma_irqs = 0 /\ dma_codes = 0
    BY DEF Init
  <2>3. dma_irqs \in 0 .. MaxIrqs /\ dma_codes \in 0 .. MaxIrqs - dma_irqs
    BY <2>2, MaxIrqsAssumption
  <2> QED
    BY <2>1, <2>2, <2>3 DEF MachineTypeOK, Codes
<1> QED
  BY <1>1, <1>2 DEF TypeOK

(* Every step, one case per group of actions.                              *)
LEMMA NextTypeOK == TypeOK /\ [Next]_vars => TypeOK'
<1> SUFFICES ASSUME TypeOK, [Next]_vars PROVE TypeOK'
  OBVIOUS
<1>1. ASSUME UNCHANGED kvars PROVE KernelTypeOK'
  BY <1>1 DEF kvars, KernelTypeOK, TypeOK
<1>2. CASE Reiniciar
  <2>1. KernelTypeOK'
    BY <1>2 DEF Reiniciar, KernelReinit, TypeOK, KernelTypeOK, ProcessState
  <2>2. MachineTypeOK'
    BY <1>2 DEF Reiniciar, TypeOK, MachineTypeOK, dmavars, Codes
  <2> QED
    BY <2>1, <2>2 DEF TypeOK
<1>3. CASE Ejecutar \/ Apagar
  <2>1. /\ UNCHANGED <<kvars, cpuvars, dmavars, diskvars, behind>>
        /\ phase' \in {"loading", "off"} /\ loaded' \in {loaded, FALSE}
    BY <1>3 DEF Ejecutar, Apagar
  <2>2. MachineTypeOK'
    BY <2>1 DEF TypeOK, MachineTypeOK, cpuvars, dmavars, diskvars
  <2> QED
    BY <1>1, <2>1, <2>2 DEF TypeOK
<1>4. CASE Loading
  BY <1>4, LoadingType, LoadingMachineType DEF TypeOK
<1>5. CASE Executes
  BY <1>1, <1>5, ExecutesType DEF TypeOK
<1>6. CASE Attending
  BY <1>6, AttendingType, AttendingMachineType DEF TypeOK
<1>7. CASE ReadInput
  <2>1. KernelTypeOK'
    BY <1>1, <1>7 DEF ReadInput
  <2> QED
    BY <1>7, <2>1, AttendingMachineType DEF TypeOK
<1>8. CASE DmaTransfer
  <2>1. /\ UNCHANGED <<kvars, cpuvars, diskvars, dma_codes, phase, loaded, behind>>
        /\ dma_BUSY' = FALSE /\ dma_STATE' \in {0, 1}
        /\ dma_irqs' \in 0 .. MaxIrqs /\ dma_codes \in 0 .. MaxIrqs - dma_irqs'
    BY <1>8, MaxIrqsAssumption DEF DmaTransfer, TypeOK, MachineTypeOK
  <2>2. MachineTypeOK'
    BY <2>1 DEF TypeOK, MachineTypeOK, cpuvars, diskvars
  <2> QED
    BY <1>1, <2>1, <2>2 DEF TypeOK
<1>9. CASE DmaNotifyFlag \/ DmaNotifyCode
  <2>1. dma_irqs' \in 0 .. MaxIrqs
    BY <1>9, MaxIrqsAssumption DEF DmaNotifyFlag, DmaNotifyCode, TypeOK, MachineTypeOK
  <2>2. dma_codes' \in 0 .. MaxIrqs - dma_irqs'
    BY <1>9, MaxIrqsAssumption DEF DmaNotifyFlag, DmaNotifyCode, TypeOK, MachineTypeOK
  <2>3. /\ pending' \in Codes \union {"NONE"}
        /\ interrupt_code_val' \in Codes
        /\ raised_by' \in Pids \union {NULL_PID}
    BY <1>9 DEF DmaNotifyFlag, DmaNotifyCode, CpuInterrupt, Codes, TypeOK, MachineTypeOK
  <2>4. UNCHANGED <<kvars, diskvars, dma_BUSY, dma_STATE, cycle_counter, Mode,
                    Interrupts, phase, loaded, behind>>
    BY <1>9 DEF DmaNotifyFlag, DmaNotifyCode
  <2>5. MachineTypeOK'
    BY <2>1, <2>2, <2>3, <2>4 DEF TypeOK, MachineTypeOK, diskvars
  <2> QED
    BY <1>1, <2>4, <2>5 DEF TypeOK
<1>10. CASE UNCHANGED vars
  <2>1. MachineTypeOK'
    BY <1>10 DEF vars, TypeOK, MachineTypeOK, cpuvars, dmavars, diskvars
  <2> QED
    BY <1>1, <1>10, <2>1 DEF vars, TypeOK
<1> QED
  BY <1>2, <1>3, <1>4, <1>5, <1>6, <1>7, <1>8, <1>9, <1>10
  DEF Next, Shell, Off

(* Every variable keeps its type, through restarts, stopped programs and   *)
(* whatever the idle CPU executes (the whole of main.c, cpu.c, kernel.c).  *)
THEOREM TypeCorrect == Spec => []TypeOK
  BY InitTypeOK, NextTypeOK, PTL DEF Spec

-----------------------------------------------------------------------------
(* The owner of the CPU, in every session. *)

(* What an interrupt may do to the kernel tables. *)
LEMMA AttendingKernel ==
    ASSUME Attending
    PROVE  \/ UNCHANGED kvars
           \/ current_pid # NULL_PID /\ Terminate
           \/ current_pid # NULL_PID /\ OnClock
           \/ current_pid # NULL_PID /\ \E n \in 1 .. MaxSleep : Sleep(n)
BY DEF Attending, IdleInterrupt, ClockInterrupt, FatalInterrupt,
       IoEndInterrupt, IgnoredInterrupt, EndCall, ReturningCall, SleepCall,
       ReadCall, Handles

(* schedule() leaves the CPU without a process only with an empty queue,   *)
(* whatever the tables hold, restarts included.                            *)
LEMMA ScheduleConserves ==
    ASSUME current_pid \in Pids \union {NULL_PID},
           NEW st, NEW q \in Seq(Pids), Len(q) <= MAX_PROCESSES,
           Schedule(st, q), current_pid' = NULL_PID
    PROVE  ready_queue' = <<>>
<1> DEFINE turn == IF current_pid # NULL_PID /\ st[current_pid] = "RUNNING"
                   THEN <<current_pid>> ELSE <<>>
           q1   == Enqueued(q, turn)
<1>1. turn \in Seq(Pids)
  OBVIOUS
<1>2. q1 \in Seq(Pids)
  BY <1>1, EnqueuedType
<1>3. \/ ready_queue' = <<>>
      \/ q1 # <<>> /\ current_pid' = Head(q1)
  BY DEF Schedule, Dispatch
<1> HIDE DEF turn, q1
<1>4. q1 # <<>> => Head(q1) \in Pids
  BY <1>2, HeadTailProperties
<1>5. NULL_PID \notin Pids
  BY DEF Pids, NULL_PID
<1> QED
  BY <1>3, <1>4, <1>5

(* Nobody waits in the queue while the CPU idles, in every session:        *)
(* terminations, sleeps, clock ticks and `ejecutar' all end in a schedule. *)
THEOREM CpuConserved == Spec => []WorkConserving
<1>1. Init => WorkConserving
  BY DEF Init, WorkConserving
<1>2. TypeOK /\ WorkConserving /\ [Next]_vars => WorkConserving'
  <2> SUFFICES ASSUME TypeOK, WorkConserving, [Next]_vars PROVE WorkConserving'
    OBVIOUS
  <2> DEFINE Active == {"running", "input"}
  <2>1. ASSUME UNCHANGED kvars, phase' \in Active => phase \in Active
        PROVE  WorkConserving'
    BY <2>1 DEF kvars, WorkConserving
  <2>2. ASSUME current_pid' = NULL_PID => ready_queue' = <<>>
        PROVE  WorkConserving'
    BY <2>2 DEF WorkConserving
  <2>3. /\ current_pid \in Pids \union {NULL_PID}
        /\ ready_queue \in Seq(Pids) /\ Len(ready_queue) <= MAX_PROCESSES
    BY DEF TypeOK, KernelTypeOK
  <2>4. CASE Shell
    BY <2>4 DEF Shell, Ejecutar, Reiniciar, Apagar, WorkConserving
  <2>5. CASE Loading
    <3>1. CASE EndOfList
      <4>1. CASE ~loaded
        BY <3>1, <4>1 DEF EndOfList, WorkConserving
      <4>2. CASE Schedule(state, ready_queue)
        BY <2>2, <2>3, <4>2, ScheduleConserves
      <4> QED
        BY <3>1, <4>1, <4>2 DEF EndOfList
    <3>2. CASE phase' = "loading"
      BY <3>2 DEF WorkConserving
    <3> QED
      BY <2>5, <3>1, <3>2 DEF Loading, LoadFails, AddFails, LoadStops, LoadOk
  <2>6. CASE Executes
    <3>1. phase = "running"
      BY <2>6 DEF Executes, Plain, Svc, Fault, FetchFault, Privileged, Enable,
                  Stop, Sdmaon, Retrn, Chmod, Instruction, Cycle
    <3> QED
      BY <2>1, <2>6, <3>1, ExecutesType
  <2>7. CASE Attending
    <3>1. phase = "running"
      BY <2>7 DEF Attending, IdleInterrupt, ClockInterrupt, FatalInterrupt,
                  IoEndInterrupt, IgnoredInterrupt, EndCall, ReturningCall,
                  SleepCall, ReadCall, Handles, Handling, Cycle
    <3>2. CASE UNCHANGED kvars
      BY <2>1, <3>1, <3>2
    <3>3. CASE current_pid # NULL_PID /\ Terminate
      BY <2>2, <2>3, <3>3, ScheduleConserves DEF Terminate
    <3>4. CASE current_pid # NULL_PID /\ \E n \in 1 .. MaxSleep : Sleep(n)
      BY <2>2, <2>3, <3>4, ScheduleConserves DEF Sleep
    <3>5. CASE current_pid # NULL_PID /\ OnClock
      <4>1. PICK w \in InPidOrder(Due) :
              \/ UNCHANGED current_pid
              \/ Schedule(MarkedReady(state, ready_queue, w), Enqueued(ready_queue, w))
        BY <3>5 DEF OnClock
      <4>2. w \in Seq(Pids)
        BY InPidOrderList DEF TypeOK, KernelTypeOK, Due, Sleeping
      <4>3. /\ Enqueued(ready_queue, w) \in Seq(Pids)
            /\ Len(Enqueued(ready_queue, w)) <= MAX_PROCESSES
        BY <2>3, <4>2, EnqueuedType
      <4> QED
        BY <2>2, <2>3, <3>5, <4>1, <4>3, ScheduleConserves
    <3> QED
      BY <2>7, <3>2, <3>3, <3>4, <3>5, AttendingKernel
  <2>8. CASE ReadInput \/ DmaTransfer \/ DmaNotifyFlag \/ DmaNotifyCode
    BY <2>1, <2>8 DEF ReadInput, DmaTransfer, DmaNotifyFlag, DmaNotifyCode
  <2>9. CASE UNCHANGED vars
    BY <2>1, <2>9 DEF vars
  <2> QED
    BY <2>4, <2>5, <2>6, <2>7, <2>8, <2>9 DEF Next, Off
<1> QED
  BY <1>1, <1>2, TypeCorrect, PTL DEF Spec

(* A process runs in user mode, in every session: handle_interrupt restores *)
(* or replaces the context on each of its paths, and no instruction enters *)
(* kernel mode (cpu.c).                                                    *)
THEOREM ProcessesRunInUserMode == Spec => []UserModeOwnsCpu
<1>1. Init => UserModeOwnsCpu
  BY DEF Init, UserModeOwnsCpu
<1>2. UserModeOwnsCpu /\ [Next]_vars => UserModeOwnsCpu'
  <2> SUFFICES ASSUME UserModeOwnsCpu, [Next]_vars PROVE UserModeOwnsCpu'
    OBVIOUS
  <2> DEFINE Outside == {"shell", "loading", "running"}
  <2>1. ASSUME phase' \in Outside => phase \in Outside,
               Mode' \in {Mode, "USER"}, UNCHANGED current_pid
        PROVE  UserModeOwnsCpu'
    BY <2>1 DEF UserModeOwnsCpu
  <2>2. ASSUME Mode' = "KERNEL" => current_pid' = NULL_PID
        PROVE  UserModeOwnsCpu'
    BY <2>2 DEF UserModeOwnsCpu
  <2>3. CASE Shell
    <3>1. CASE Reiniciar
      BY <2>2, <3>1 DEF Reiniciar
    <3>2. CASE Ejecutar \/ Apagar
      BY <2>1, <3>2 DEF Ejecutar, Apagar, kvars, cpuvars
    <3> QED
      BY <2>3, <3>1, <3>2 DEF Shell
  <2>4. CASE Loading
    <3>1. CASE EndOfList
      <4>1. phase = "loading"
        BY <3>1 DEF EndOfList
      <4>2. CASE UNCHANGED <<kvars, Mode>>
        BY <2>1, <4>1, <4>2 DEF kvars
      <4>3. CASE IF current_pid' = NULL_PID THEN UNCHANGED <<Mode, Interrupts>>
                 ELSE Mode' = "USER" /\ Interrupts' = TRUE
        BY <2>2, <4>3
      <4> QED
        BY <3>1, <4>2, <4>3 DEF EndOfList
    <3>2. CASE phase = "loading" /\ UNCHANGED <<current_pid, cpuvars>>
      BY <2>1, <3>2 DEF cpuvars
    <3> QED
      BY <2>4, <3>1, <3>2 DEF Loading, LoadFails, AddFails, LoadStops, LoadOk
  <2>5. CASE Executes
    <3>1. phase = "running" /\ UNCHANGED kvars
      BY <2>5 DEF Executes, Plain, Svc, Fault, FetchFault, Privileged, Enable,
                  Stop, Sdmaon, Retrn, Chmod, Instruction, Cycle
    <3>2. Mode' \in {Mode, "USER"}
      BY <2>5 DEF Executes, Plain, Svc, Fault, FetchFault, Privileged, Enable,
                  Stop, Sdmaon, Retrn, Chmod, Raises
    <3> QED
      BY <2>1, <3>1, <3>2 DEF kvars
  <2>6. CASE Attending \/ ReadInput
    <3>1. CASE Resume
      BY <2>2, <3>1 DEF Resume
    <3>2. CASE ReadCall
      BY <3>2 DEF ReadCall, UserModeOwnsCpu
    <3> QED
      BY <2>6, <3>1, <3>2
      DEF Attending, IdleInterrupt, ClockInterrupt, FatalInterrupt,
          IoEndInterrupt, IgnoredInterrupt, EndCall, ReturningCall, SleepCall,
          ReadInput
  <2>7. CASE DmaTransfer \/ DmaNotifyFlag \/ DmaNotifyCode
    BY <2>1, <2>7 DEF DmaTransfer, DmaNotifyFlag, DmaNotifyCode, kvars, cpuvars
  <2>8. CASE UNCHANGED vars
    BY <2>1, <2>8 DEF vars, kvars, cpuvars
  <2> QED
    BY <2>3, <2>4, <2>5, <2>6, <2>7, <2>8 DEF Next, Off
<1> QED
  BY <1>1, <1>2, PTL DEF Spec

-----------------------------------------------------------------------------
(* The marks of the process that owns the CPU, in every session. *)

(* The inductive invariant.  A pid of a queue that a restart left behind   *)
(* may be current in a slot the loader then fills again: that is why the   *)
(* process may be NEW, or READY, while the shell loads programs.           *)
CpuOwner ==
    /\ \A p \in Pids : state[p] = "RUNNING" => p = current_pid
    /\ current_pid # NULL_PID =>
        /\ phase \in {"running", "input"} => state[current_pid] = "RUNNING"
        /\ state[current_pid] = "READY" => ready_queue # <<>>

(* The ring is not empty once a pid has been put into it, be it dropped.   *)
LEMMA EnqueuedEmpty ==
    ASSUME NEW q \in Seq(Pids), NEW w \in Seq(Pids), Enqueued(q, w) = <<>>
    PROVE  q = <<>> /\ w = <<>>
<1>1. q \o w \in Seq(Pids) /\ Len(q \o w) = Len(q) + Len(w)
  BY ConcatProperties
<1>2. Len(q) \in Nat /\ Len(w) \in Nat
  BY LenProperties
<1>3. Len(Enqueued(q, w)) = 0
  OBVIOUS
<1>4. CASE Len(q) + Len(w) <= MAX_PROCESSES
  <2>1. Len(q) = 0 /\ Len(w) = 0
    BY <1>1, <1>2, <1>3, <1>4 DEF Enqueued
  <2> QED
    BY <2>1, EmptySeq
<1>5. CASE Len(q) + Len(w) > MAX_PROCESSES
  <2>1. MAX_PROCESSES <= Len(q \o w)
    BY <1>1, <1>2, <1>5
  <2>2. Len(SubSeq(q \o w, 1, MAX_PROCESSES)) = MAX_PROCESSES
    BY <1>1, <2>1, PrefixType
  <2> QED
    BY <1>2, <1>3, <1>5, <2>2 DEF Enqueued
<1> QED
  BY <1>2, <1>4, <1>5

(* Whatever queue schedule() is entered with, it marks RUNNING the process *)
(* it gives the CPU to and no other, and sends back to the queue at most   *)
(* the one that was running.                                               *)
LEMMA ScheduleOwner ==
    ASSUME current_pid \in Pids \union {NULL_PID},
           NEW st \in [Pids -> ProcessState],
           NEW q \in Seq(Pids),
           \A p \in Pids : st[p] = "RUNNING" => p = current_pid,
           Schedule(st, q)
    PROVE  /\ \A p \in Pids : state'[p] = "RUNNING" <=> p = current_pid'
           /\ \A p \in Pids : state'[p] = "READY" => st[p] \in {"READY", "RUNNING"}
<1> DEFINE turn == IF current_pid # NULL_PID /\ st[current_pid] = "RUNNING"
                   THEN <<current_pid>> ELSE <<>>
           q1   == Enqueued(q, turn)
           st1  == MarkedReady(st, q, turn)
<1>1. turn \in Seq(Pids)
  OBVIOUS
<1>2. \/ q1 = <<>> /\ current_pid' = NULL_PID /\ state' = st1
      \/ q1 # <<>> /\ Dispatch(st1, Head(q1))
  BY DEF Schedule
<1>3. \A p \in Pids : p # NULL_PID
  BY DEF Pids, NULL_PID
<1>4. \A p \in Pids : st1[p] = st[p] \/ (st[p] = "RUNNING" /\ st1[p] = "READY")
  BY DEF MarkedReady
<1>5. CASE q1 = <<>>
  <2>1. turn = <<>>
    BY <1>1, <1>5, EnqueuedEmpty
  <2>2. \A p \in Pids : st[p] # "RUNNING"
    BY <1>3, <2>1
  <2> HIDE DEF turn, q1, st1
  <2> QED
    BY <1>2, <1>3, <1>4, <1>5, <2>2
<1>6. CASE q1 # <<>>
  <2> HIDE DEF turn, q1, st1
  <2>1. current_pid' = Head(q1)
    BY <1>2, <1>6 DEF Dispatch
  <2>2. \A p \in Pids : state'[p] =
            IF p = Head(q1) THEN "RUNNING"
            ELSE IF p = current_pid /\ st1[p] = "RUNNING" THEN "READY" ELSE st1[p]
    BY <1>2, <1>6 DEF Dispatch
  <2> QED
    BY <1>4, <2>1, <2>2
<1> QED
  BY <1>5, <1>6

(* What the clock may do to the mark of a process: a sleeper is queued,    *)
(* the running process keeps the CPU or has used up its turn.              *)
LEMMA OnClockOwner ==
    ASSUME KernelTypeOK, CpuOwner, phase \in {"running", "input"},
           current_pid # NULL_PID, OnClock
    PROVE  /\ \A p \in Pids : state'[p] = "RUNNING" <=> p = current_pid'
           /\ \A p \in Pids : state[p] = "RUNNING" /\ state'[p] = "READY"
                                => QuantumOver
<1>1. PICK w \in InPidOrder(Due) :
        \/ /\ QuantumOver
           /\ Schedule(MarkedReady(state, ready_queue, w), Enqueued(ready_queue, w))
        \/ /\ state' = MarkedReady(state, ready_queue, w)
           /\ UNCHANGED current_pid
  BY DEF OnClock
<1> DEFINE st == MarkedReady(state, ready_queue, w)
           q  == Enqueued(ready_queue, w)
<1>2. Due \in SUBSET Pids /\ \A p \in Due : state[p] = "BLOCKED"
  BY DEF KernelTypeOK, Due, Sleeping
<1>3. w \in Seq(Pids) /\ \A i \in 1 .. Len(w) : w[i] \in Due
  <2>1. /\ w \in Seq(Pids)
        /\ \A p \in Pids : p \in Due <=> \E i \in 1 .. Len(w) : w[i] = p
    BY <1>2, InPidOrderList
  <2>2. \A i \in 1 .. Len(w) : w[i] \in Pids
    BY <2>1, ElementOfSeq
  <2> QED
    BY <2>1, <2>2
<1>4. \A p \in Pids : st[p] = state[p] \/ (state[p] = "BLOCKED" /\ st[p] = "READY")
  BY <1>2, <1>3 DEF MarkedReady
<1>5. q \in Seq(Pids)
  BY <1>3, EnqueuedType DEF KernelTypeOK
<1>6. st \in [Pids -> ProcessState]
  BY MarkedReadyType DEF KernelTypeOK
<1>7. \/ QuantumOver /\ Schedule(st, q)
      \/ state' = st /\ UNCHANGED current_pid
  BY <1>1
<1> HIDE DEF st, q
<1>8. CASE QuantumOver /\ Schedule(st, q)
  <2>1. \A p \in Pids : st[p] = "RUNNING" => p = current_pid
    BY <1>4 DEF CpuOwner
  <2>2. \A p \in Pids : state'[p] = "RUNNING" <=> p = current_pid'
    BY <1>5, <1>6, <1>8, <2>1, ScheduleOwner DEF KernelTypeOK
  <2> QED
    BY <1>8, <2>2
<1>9. CASE state' = st /\ UNCHANGED current_pid
  BY <1>4, <1>9 DEF CpuOwner
<1> QED
  BY <1>7, <1>8, <1>9

(* The same when the running process leaves the CPU.                       *)
LEMMA LeavesOwner ==
    ASSUME KernelTypeOK, CpuOwner, current_pid # NULL_PID,
           NEW s \in {"BLOCKED", "TERMINATED"},
           Schedule([state EXCEPT ![current_pid] = s], ready_queue)
    PROVE  /\ \A p \in Pids : state'[p] = "RUNNING" <=> p = current_pid'
           /\ \A p \in Pids : ~(state[p] = "RUNNING" /\ state'[p] = "READY")
<1> DEFINE st == [state EXCEPT ![current_pid] = s]
<1>1. /\ st \in [Pids -> ProcessState]
      /\ \A p \in Pids : st[p] = IF p = current_pid THEN s ELSE state[p]
  BY DEF KernelTypeOK, ProcessState
<1>2. Schedule(st, ready_queue)
  OBVIOUS
<1> HIDE DEF st
<1>3. \A p \in Pids : st[p] = "RUNNING" => FALSE
  BY <1>1 DEF CpuOwner
<1>4. /\ \A p \in Pids : state'[p] = "RUNNING" <=> p = current_pid'
      /\ \A p \in Pids : state'[p] = "READY" => st[p] \in {"READY", "RUNNING"}
  BY <1>1, <1>2, <1>3, ScheduleOwner DEF KernelTypeOK
<1> QED
  BY <1>1, <1>3, <1>4 DEF CpuOwner

(* Any interrupt, seen from the marks.                                     *)
LEMMA AttendingOwner ==
    ASSUME TypeOK, CpuOwner, phase = "running", Attending
    PROVE  /\ \/ UNCHANGED kvars
              \/ \A p \in Pids : state'[p] = "RUNNING" <=> p = current_pid'
           /\ \A p \in Pids : state[p] = "RUNNING" /\ state'[p] = "READY"
                                => QuantumOver
<1>1. CASE UNCHANGED kvars
  BY <1>1 DEF kvars
<1>2. CASE current_pid # NULL_PID /\ Terminate
  BY <1>2, LeavesOwner DEF TypeOK, Terminate
<1>3. CASE current_pid # NULL_PID /\ OnClock
  BY <1>3, OnClockOwner DEF TypeOK
<1>4. CASE current_pid # NULL_PID /\ \E n \in 1 .. MaxSleep : Sleep(n)
  BY <1>4, LeavesOwner DEF TypeOK, Sleep
<1> QED
  BY <1>1, <1>2, <1>3, <1>4, AttendingKernel

(* The instructions and the interrupts belong to the loop of cpu().        *)
LEMMA CycleRuns == Executes \/ Attending => phase = "running"
BY DEF Executes, Plain, Svc, Fault, FetchFault, Privileged, Enable, Stop,
       Sdmaon, Retrn, Chmod, Instruction, Cycle, Attending, IdleInterrupt,
       ClockInterrupt, FatalInterrupt, IoEndInterrupt, IgnoredInterrupt,
       EndCall, ReturningCall, SleepCall, ReadCall, Handles, Handling

(* Loading programs marks nobody RUNNING, and a slot it makes READY is in  *)
(* the queue, or finds the queue full.                                     *)
LEMMA LoadingOwner ==
    ASSUME TypeOK, CpuOwner, Loading
    PROVE  CpuOwner'
<1> USE DEF TypeOK
<1>1. ASSUME NEW prog \in Programs, LoadFails(prog)
      PROVE  CpuOwner'
  BY <1>1 DEF LoadFails, CpuOwner
<1>2. ASSUME NEW prog \in Programs, AddFails(prog) \/ LoadStops(prog)
      PROVE  CpuOwner'
  <2>1. PICK p \in Pids : state' = CreatedState(p)
    BY <1>2 DEF AddFails, LoadStops
  <2>2. \A r \in Pids : state'[r] = IF r = p THEN "NEW" ELSE state[r]
    BY <2>1 DEF CreatedState, KernelTypeOK
  <2>3. phase' = "loading" /\ UNCHANGED <<ready_queue, current_pid>>
    BY <1>2 DEF AddFails, LoadStops
  <2> QED
    BY <2>2, <2>3 DEF CpuOwner, KernelTypeOK
<1>3. ASSUME NEW prog \in Programs, LoadOk(prog)
      PROVE  CpuOwner'
  <2>1. PICK p \in Pids :
            /\ state' = MarkedReady(CreatedState(p), ready_queue, <<p>>)
            /\ ready_queue' = Enqueued(ready_queue, <<p>>)
    BY <1>3 DEF LoadOk
  <2>2. \A r \in Pids : state'[r] = "RUNNING" => state[r] = "RUNNING"
    BY <2>1 DEF MarkedReady, CreatedState, KernelTypeOK
  <2>3. ready_queue' # <<>>
    <3>1. <<p>> \in Seq(Pids) /\ <<p>> # <<>>
      OBVIOUS
    <3>2. ready_queue \in Seq(Pids)
      BY DEF KernelTypeOK
    <3> QED
      BY <2>1, <3>1, <3>2, EnqueuedEmpty
  <2>4. phase' = "loading" /\ UNCHANGED current_pid
    BY <1>3 DEF LoadOk
  <2> QED
    BY <2>2, <2>3, <2>4 DEF CpuOwner
<1>4. ASSUME EndOfList
      PROVE  CpuOwner'
  <2>1. CASE phase' = "shell" /\ UNCHANGED kvars
    BY <2>1 DEF CpuOwner, kvars
  <2>2. CASE Schedule(state, ready_queue)
    <3>1. \A p \in Pids : state'[p] = "RUNNING" <=> p = current_pid'
      BY <2>2, ScheduleOwner DEF CpuOwner, KernelTypeOK
    <3>2. current_pid' \in Pids \union {NULL_PID}
      BY <2>2, ScheduleType DEF KernelTypeOK, ScheduledType
    <3> QED
      BY <3>1, <3>2 DEF CpuOwner
  <2> QED
    BY <1>4, <2>1, <2>2 DEF EndOfList
<1> QED
  BY <1>1, <1>2, <1>3, <1>4 DEF Loading

(* The marks are right in every session. *)
LEMMA CpuOwnerInvariant == Spec => [](TypeOK /\ CpuOwner)
<1>1. Init => CpuOwner
  BY DEF Init, KernelInit, CpuOwner
<1>2. TypeOK /\ CpuOwner /\ [Next]_vars => CpuOwner'
  <2> SUFFICES ASSUME TypeOK, CpuOwner, [Next]_vars PROVE CpuOwner'
    OBVIOUS
  <2> DEFINE Active == {"running", "input"}
  <2>1. ASSUME UNCHANGED kvars, phase' \in Active => phase \in Active
        PROVE  CpuOwner'
    BY <2>1 DEF CpuOwner, kvars
  <2>2. CASE Shell
    <3>1. CASE Reiniciar
      BY <3>1 DEF Reiniciar, KernelReinit, CpuOwner
    <3>2. CASE Ejecutar \/ Apagar
      BY <2>1, <3>2 DEF Ejecutar, Apagar
    <3> QED
      BY <2>2, <3>1, <3>2 DEF Shell
  <2>3. CASE Executes
    BY <2>1, <2>3, ExecutesType, CycleRuns
  <2>4. CASE Attending
    <3>1. phase = "running"
      BY <2>4, CycleRuns
    <3>2. CASE UNCHANGED kvars
      BY <2>1, <3>1, <3>2
    <3>3. CASE \A p \in Pids : state'[p] = "RUNNING" <=> p = current_pid'
      <4>1. current_pid' \in Pids \union {NULL_PID}
        BY <2>4, AttendingType DEF KernelTypeOK
      <4> QED
        BY <3>3, <4>1 DEF CpuOwner
    <3> QED
      BY <2>4, <3>1, <3>2, <3>3, AttendingOwner
  <2>5. CASE ReadInput \/ DmaTransfer \/ DmaNotifyFlag \/ DmaNotifyCode
    BY <2>1, <2>5 DEF ReadInput, DmaTransfer, DmaNotifyFlag, DmaNotifyCode
  <2>6. CASE UNCHANGED vars
    BY <2>1, <2>6 DEF vars
  <2> QED
    BY <2>2, <2>3, <2>4, <2>5, <2>6, LoadingOwner DEF Next, Off
<1> QED
  BY <1>1, <1>2, TypeCorrect, PTL DEF Spec

(* In every session, restarts and programs that stop in the middle         *)
(* included, schedule() never takes a second pid from an empty queue and   *)
(* indexes the process table with it (kernel.c:317).                       *)
THEOREM OneDequeue == Spec => []SecondDequeueUnreached
<1>1. CpuOwner => SecondDequeueUnreached
  BY DEF CpuOwner, SecondDequeueUnreached
<1> QED
  BY <1>1, CpuOwnerInvariant, PTL

(* In every session, whatever stops, is started again or was left in the   *)
(* queue, nobody but the current process is marked RUNNING, and it is so   *)
(* marked while programs run (schedule, dispatch, handle_interrupt).       *)
THEOREM RunningIsCurrent == Spec => []OneRunning
<1>1. CpuOwner => OneRunning
  BY DEF CpuOwner, OneRunning
<1> QED
  BY <1>1, CpuOwnerInvariant, PTL

(* In every session, nothing but the clock at the end of its quantum sends *)
(* a running process back to the queue (kernel_handle_interrupt, dispatch). *)
THEOREM TurnsKept == Spec => TurnsAreWhole
<1>1. TypeOK /\ CpuOwner /\ [Next]_vars =>
        [\A p \in Pids :
            phase = "running" /\ state[p] = "RUNNING" /\ state'[p] = "READY"
                => quantum_counter = QUANTUM_TICKS - 1]_vars
  <2> SUFFICES ASSUME TypeOK, CpuOwner, [Next]_vars, NEW p \in Pids,
                      phase = "running", state[p] = "RUNNING", state'[p] = "READY"
               PROVE  quantum_counter = QUANTUM_TICKS - 1
    OBVIOUS
  <2>1. QuantumOver => quantum_counter = QUANTUM_TICKS - 1
    BY DEF QuantumOver, TypeOK, KernelTypeOK
  <2>2. CASE Attending
    BY <2>1, <2>2, AttendingOwner
  <2>3. ~Shell /\ ~Loading
    BY DEF Shell, Ejecutar, Reiniciar, Apagar, Loading, LoadFails, AddFails,
           LoadStops, LoadOk, EndOfList
  <2>4. UNCHANGED state => FALSE
    OBVIOUS
  <2>5. ~Executes
    BY <2>4, ExecutesType DEF kvars
  <2>6. ~(ReadInput \/ DmaTransfer \/ DmaNotifyFlag \/ DmaNotifyCode \/ UNCHANGED vars)
    BY <2>4 DEF ReadInput, DmaTransfer, DmaNotifyFlag, DmaNotifyCode, vars, kvars
  <2> QED
    BY <2>2, <2>3, <2>5, <2>6 DEF Next, Off
<1> QED
  BY <1>1, CpuOwnerInvariant, PTL DEF Spec, TurnsAreWhole

=============================================================================

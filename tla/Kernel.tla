------------------------------- MODULE Kernel -------------------------------
(***************************************************************************)
(* The kernel tables and the scheduler of src/src/kernel.c.                *)
(*                                                                         *)
(* State of the C file and its counterpart here:                           *)
(*   process_table[p].pid != -1     p \in used                             *)
(*   process_table[p].state         state[p]                               *)
(*   process_table[p].partition_id  partition_id[p]                        *)
(*   process_table[p].wake_time     wake_time[p], counted in ticks still   *)
(*                                  to come: wake_time - system_ticks      *)
(*   process_table[current_pid].quantum_counter    quantum_counter         *)
(*   partitions_bitmap              the set of occupied partitions         *)
(*   ready_queue, rq_head, rq_aux, rq_count        the sequence of pids    *)
(*                                                 between head and tail   *)
(*   current_pid                    current_pid                            *)
(*                                                                         *)
(* system_ticks is read only against wake_time, so the difference carries  *)
(* all of it; only the counter of the running process is ever read, and    *)
(* schedule() clears it before every dispatch, so one counter stands for   *)
(* all of them.                                                            *)
(***************************************************************************)
EXTENDS Fifo, FiniteSets

CONSTANTS
    NUM_PARTITIONS,     \* fixed RAM partitions
    QUANTUM_TICKS,      \* clock ticks of a turn
    MaxSleep            \* bound of the model: longest sleep asked for

ASSUME KernelAssumption ==
    /\ NUM_PARTITIONS \in Nat \ {0}
    /\ QUANTUM_TICKS \in Nat \ {0}
    /\ MaxSleep \in Nat \ {0}

NoPartition == -1
Partitions == 0 .. NUM_PARTITIONS - 1

VARIABLES
    used, state, partition_id, wake_time, quantum_counter,
    partitions_bitmap, ready_queue, current_pid

kvars == <<used, state, partition_id, wake_time, quantum_counter,
           partitions_bitmap, ready_queue, current_pid>>

(* kernel_init_structures() on the zeroed globals of a fresh program. *)
KernelInit ==
    /\ used = {}
    /\ state = [p \in Pids |-> "TERMINATED"]
    /\ partition_id = [p \in Pids |-> NoPartition]
    /\ wake_time = [p \in Pids |-> 0]
    /\ quantum_counter = 0
    /\ partitions_bitmap = {}
    /\ ready_queue = <<>>
    /\ current_pid = NULL_PID

(* kernel_init_structures() on a kernel that has already run: the ready    *)
(* queue and the wake_time of the PCBs are not among what it resets (a     *)
(* wake_time is not read before its process has gone to sleep again).      *)
KernelReinit ==
    /\ used' = {}
    /\ state' = [p \in Pids |-> "TERMINATED"]
    /\ partition_id' = [p \in Pids |-> NoPartition]
    /\ quantum_counter' = 0
    /\ partitions_bitmap' = {}
    /\ current_pid' = NULL_PID
    /\ UNCHANGED <<wake_time, ready_queue>>

-----------------------------------------------------------------------------
(* Slip: dispatch does not mark the incoming process. *)
Dispatch_Unmarked(st, p) ==
    /\ current_pid' = p
    /\ state' = st

(* dispatch(p), the part that touches the kernel tables. *)
Dispatch(st, p) ==
    /\ current_pid' = p
    /\ state' = [q \in Pids |->
                    IF q = p THEN "RUNNING"
                    ELSE IF q = current_pid /\ st[q] = "RUNNING" THEN "READY"
                    ELSE st[q]]

(* schedule(), entered with the process states st and the queue q. The     *)
(* second dequeue of the code, for a READY process that is not queued, is  *)
(* reached by no state where SecondDequeueUnreached holds.                 *)
Schedule(st, q) ==
    LET turn == IF current_pid # NULL_PID /\ st[current_pid] = "RUNNING"
                THEN <<current_pid>> ELSE <<>>
        q1   == Enqueued(q, turn)
        st1  == MarkedReady(st, q, turn)
    IN  /\ quantum_counter' = 0
        /\ \/ /\ q1 = <<>>
              /\ current_pid' = NULL_PID
              /\ state' = st1
              /\ ready_queue' = <<>>
           \/ /\ q1 # <<>>
              /\ Dispatch(st1, Head(q1))
              /\ ready_queue' = Tail(q1)

-----------------------------------------------------------------------------
(* The first slot create_process may take, and the first free partition.   *)
FreeSlots == {p \in Pids : p \notin used \/ state[p] = "TERMINATED"}
FreePartitions == Partitions \ partitions_bitmap
IsLeast(x, S) == x \in S /\ \A y \in S : x <= y

(* The fields of the PCB in slot p that create_process sets. *)
CreatedState(p) == [state EXCEPT ![p] = "NEW"]
CreatedPartition(p) == [partition_id EXCEPT ![p] = NoPartition]

(* Slip: find_free_partition returns the partition without marking it. *)
TakePartition_Unmarked(part) ==
    /\ IsLeast(part, FreePartitions)
    /\ UNCHANGED partitions_bitmap

(* find_free_partition() marks the partition it returns. *)
TakePartition(part) ==
    /\ IsLeast(part, FreePartitions)
    /\ partitions_bitmap' = partitions_bitmap \union {part}

NoPartitionLeft == FreePartitions = {} /\ UNCHANGED partitions_bitmap

-----------------------------------------------------------------------------
(* The branches of kernel_handle_interrupt, entered with a current process. *)

(* The sleepers whose alarm has come, in the order of the scan.            *)
Sleeping == {p \in used : state[p] = "BLOCKED" /\ wake_time[p] > 0}
Due == {p \in Sleeping : wake_time[p] = 1}
InPidOrder(S) ==
    {w \in [1 .. Cardinality(S) -> S] :
        /\ \A i, j \in 1 .. Cardinality(S) : i < j => w[i] < w[j]
        /\ \A p \in S : \E i \in 1 .. Cardinality(S) : w[i] = p}

(* Slips: > for >=, and a turn one tick short. *)
QuantumOver_Late == quantum_counter + 1 > QUANTUM_TICKS
QuantumOver_Early == quantum_counter + 2 >= QUANTUM_TICKS

(* The tick being charged completes the turn. *)
QuantumOver == quantum_counter + 1 >= QUANTUM_TICKS

(* INT_CLOCK: wake the sleepers, then charge the tick to the process that  *)
(* is running and take the CPU from it when its turn is over.              *)
OnClock ==
    \E w \in InPidOrder(Due) :
        LET st == MarkedReady(state, ready_queue, w)
            q  == Enqueued(ready_queue, w)
        IN  /\ wake_time' = [p \in Pids |-> IF p \in Sleeping
                                            THEN wake_time[p] - 1
                                            ELSE wake_time[p]]
            /\ \/ /\ QuantumOver
                  /\ Schedule(st, q)
               \/ /\ ~QuantumOver
                  /\ quantum_counter' = quantum_counter + 1
                  /\ state' = st
                  /\ ready_queue' = q
                  /\ UNCHANGED current_pid
            /\ UNCHANGED <<used, partition_id, partitions_bitmap>>

(* Slip: schedule() called before the state is set, so that the process    *)
(* that comes in is the one that ends.                                     *)
Terminate_AfterSchedule ==
    LET q == Append(ready_queue, current_pid)
    IN  /\ partitions_bitmap' = partitions_bitmap \ {partition_id[current_pid]}
        /\ current_pid' = Head(q)
        /\ ready_queue' = Tail(q)
        /\ state' = [state EXCEPT ![current_pid] = "READY",
                                  ![Head(q)] = "TERMINATED"]
        /\ quantum_counter' = 0
        /\ UNCHANGED <<used, partition_id, wake_time>>

(* The end of the running process: fatal codes, a failed DMA transfer,     *)
(* system call 1 and unknown system calls all take these steps.            *)
Terminate ==
    /\ partitions_bitmap' = partitions_bitmap \ {partition_id[current_pid]}
    /\ Schedule([state EXCEPT ![current_pid] = "TERMINATED"], ready_queue)
    /\ UNCHANGED <<used, partition_id, wake_time>>

(* Slips: the alarm is not set; the CPU is left without a schedule(). *)
Sleep_NoAlarm(n) ==
    /\ Schedule([state EXCEPT ![current_pid] = "BLOCKED"], ready_queue)
    /\ UNCHANGED <<used, partition_id, partitions_bitmap, wake_time>>

Sleep_NoSchedule(n) ==
    /\ wake_time' = [wake_time EXCEPT ![current_pid] = n]
    /\ state' = [state EXCEPT ![current_pid] = "BLOCKED"]
    /\ current_pid' = NULL_PID
    /\ UNCHANGED <<used, partition_id, partitions_bitmap, ready_queue,
                   quantum_counter>>

(* System call 4 with n > 0 ticks. *)
Sleep(n) ==
    /\ wake_time' = [wake_time EXCEPT ![current_pid] = n]
    /\ Schedule([state EXCEPT ![current_pid] = "BLOCKED"], ready_queue)
    /\ UNCHANGED <<used, partition_id, partitions_bitmap>>

-----------------------------------------------------------------------------
(* The processes hay_procesos_activos() counts when their slot is in use.  *)
Live(st) == {p \in Pids : st[p] \in {"READY", "RUNNING", "BLOCKED"}}

(* The shape of the kernel tables. *)
KernelTypeOK ==
    /\ used \subseteq Pids
    /\ state \in [Pids -> ProcessState]
    /\ partition_id \in [Pids -> Partitions \union {NoPartition}]
    /\ wake_time \in [Pids -> 0 .. MaxSleep]
    /\ quantum_counter \in 0 .. QUANTUM_TICKS - 1
    /\ partitions_bitmap \subseteq Partitions
    /\ ready_queue \in Seq(Pids) /\ Len(ready_queue) <= MAX_PROCESSES
    /\ current_pid \in Pids \union {NULL_PID}

=============================================================================

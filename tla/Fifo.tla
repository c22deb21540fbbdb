-------------------------------- MODULE Fifo --------------------------------
(* What the ready queue of src/src/kernel.c is to the rest of the kernel:  *)
(* a bounded sequence of pids.  Kernel is written with these operators;    *)
(* ReadyFifo makes a specification of them, which ReadyRing implements.    *)
EXTENDS Integers, Sequences

CONSTANT MAX_PROCESSES  \* slots of the process table and of the ready queue

ASSUME FifoAssumption == MAX_PROCESSES \in Nat \ {0}

NULL_PID == -1
Pids == 0 .. MAX_PROCESSES - 1
ProcessState == {"NEW", "READY", "RUNNING", "BLOCKED", "TERMINATED"}

(* Slip: pids put at the head of the queue instead of the tail. *)
Enqueued_AtHead(q, w) == w \o q

(* enqueue_ready, called for each pid of the sequence w in turn: the ring  *)
(* holds MAX_PROCESSES pids and what does not fit is dropped, its state    *)
(* left as it was.                                                         *)
Enqueued(q, w) ==
    IF Len(q) + Len(w) <= MAX_PROCESSES
    THEN q \o w
    ELSE SubSeq(q \o w, 1, MAX_PROCESSES)

(* Slip: enqueue_ready queues the pid and leaves its state alone. *)
MarkedReady_Forgotten(st, q, w) == st

MarkedReady(st, q, w) ==
    [p \in Pids |->
        IF \E i \in 1 .. Len(w) : w[i] = p /\ Len(q) + i <= MAX_PROCESSES
        THEN "READY" ELSE st[p]]

=============================================================================

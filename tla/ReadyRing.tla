----------------------------- MODULE ReadyRing ------------------------------
(***************************************************************************)
(* The ready queue of src/src/kernel.c as it is stored: an array used as a *)
(* ring, the index of its head, the index where the next pid goes, and a   *)
(* count.  Nothing ever resets it: kernel_init_structures is, for the      *)
(* ring, one more move of the process states.                              *)
(***************************************************************************)
EXTENDS Fifo

VARIABLES
    ring,           \* ready_queue[] of the code
    rq_head, rq_aux, rq_count,
    state,          \* process_table[].state
    pid             \* what the last dequeue_ready returned

vars == <<ring, rq_head, rq_aux, rq_count, state, pid>>

Init ==
    /\ ring = [i \in Pids |-> 0]
    /\ rq_head = 0 /\ rq_aux = 0 /\ rq_count = 0
    /\ state = [p \in Pids |-> "TERMINATED"]
    /\ pid = NULL_PID

(* Slip: an index that never wraps. *)
After_NoWrap(i) == i + 1

(* The index that follows i around the ring. *)
After(i) == (i + 1) % MAX_PROCESSES

(* Slip: a full ring takes one pid more. *)
enqueue_ready_OneMore(p) ==
    /\ IF rq_count <= MAX_PROCESSES
       THEN /\ ring' = [ring EXCEPT ![rq_aux] = p]
            /\ rq_aux' = After(rq_aux) /\ rq_count' = rq_count + 1
            /\ state' = [state EXCEPT ![p] = "READY"]
       ELSE UNCHANGED <<ring, rq_aux, rq_count, state>>
    /\ UNCHANGED <<rq_head, pid>>

enqueue_ready(p) ==
    /\ \/ /\ rq_count < MAX_PROCESSES
          /\ ring' = [ring EXCEPT ![rq_aux] = p]
          /\ rq_aux' = After(rq_aux)
          /\ rq_count' = rq_count + 1
          /\ state' = [state EXCEPT ![p] = "READY"]
       \/ /\ rq_count >= MAX_PROCESSES
          /\ UNCHANGED <<ring, rq_aux, rq_count, state>>
    /\ UNCHANGED <<rq_head, pid>>

dequeue_ready ==
    /\ \/ /\ rq_count = 0
          /\ pid' = NULL_PID
          /\ UNCHANGED <<rq_head, rq_count>>
       \/ /\ rq_count > 0
          /\ pid' = ring[rq_head]
          /\ rq_head' = After(rq_head)
          /\ rq_count' = rq_count - 1
    /\ UNCHANGED <<ring, rq_aux, state>>

(* Every other assignment to a process state in kernel.c, cpu.c and        *)
(* load.c, and the reset of them all.                                      *)
Move(p, s) ==
    /\ state' = [state EXCEPT ![p] = s]
    /\ UNCHANGED <<ring, rq_head, rq_aux, rq_count, pid>>

kernel_init_structures ==
    /\ state' = [p \in Pids |-> "TERMINATED"]
    /\ UNCHANGED <<ring, rq_head, rq_aux, rq_count, pid>>

Next ==
    \/ \E p \in Pids : enqueue_ready(p)
    \/ dequeue_ready
    \/ \E p \in Pids, s \in ProcessState : Move(p, s)
    \/ kernel_init_structures

Spec == Init /\ [][Next]_vars

-----------------------------------------------------------------------------
(* The three counters describe one stretch of the ring: what is counted    *)
(* between head and tail is what is queued, also when the ring is full and *)
(* both meet.                                                              *)
RingShape ==
    /\ ring \in [Pids -> Pids]
    /\ rq_head \in Pids /\ rq_aux \in Pids
    /\ rq_count \in 0 .. MAX_PROCESSES
    /\ rq_aux = (rq_head + rq_count) % MAX_PROCESSES

(* The pids between head and tail, in their order. *)
Contents == [i \in 1 .. rq_count |-> ring[(rq_head + (i - 1)) % MAX_PROCESSES]]

(* The ring is a bounded first-in first-out queue: what kernel.c may       *)
(* assume of enqueue_ready and dequeue_ready, and what the module Kernel   *)
(* takes them for.                                                         *)
AsFifo == INSTANCE ReadyFifo WITH ready_queue <- Contents
ImplementsFifo == AsFifo!Spec

=============================================================================

----------------------------- MODULE ReadyFifo ------------------------------
(***************************************************************************)
(* The promise of enqueue_ready and dequeue_ready to their callers: a      *)
(* first-in first-out queue of at most MAX_PROCESSES pids, in which a pid  *)
(* is marked READY exactly when it is accepted.  `pid' is what the last    *)
(* dequeue_ready returned.                                                 *)
(***************************************************************************)
EXTENDS Fifo

VARIABLES ready_queue, state, pid

vars == <<ready_queue, state, pid>>

Init ==
    /\ ready_queue = <<>>
    /\ state = [p \in Pids |-> "TERMINATED"]
    /\ pid = NULL_PID

Enqueue(p) ==
    /\ ready_queue' = Enqueued(ready_queue, <<p>>)
    /\ state' = MarkedReady(state, ready_queue, <<p>>)
    /\ UNCHANGED pid

Dequeue ==
    /\ \/ /\ ready_queue = <<>>
          /\ pid' = NULL_PID /\ UNCHANGED ready_queue
       \/ /\ ready_queue # <<>>
          /\ pid' = Head(ready_queue) /\ ready_queue' = Tail(ready_queue)
    /\ UNCHANGED state

(* The rest of the kernel moves processes without touching the queue. *)
Move ==
    /\ state' \in [Pids -> ProcessState]
    /\ UNCHANGED <<ready_queue, pid>>

Next == Dequeue \/ Move \/ \E p \in Pids : Enqueue(p)

Spec == Init /\ [][Next]_vars

=============================================================================

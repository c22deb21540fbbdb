-------------------------- MODULE Multiprogramming --------------------------
(***************************************************************************)
(* What the kernel owes to the processes, whatever its tables are: the CPU *)
(* is held by one of them and passes to the one that has waited longest,   *)
(* a sleeper comes back behind those that wait already, each has a         *)
(* partition to itself from its admission to its end, and only the process *)
(* that holds the CPU can be put to sleep or ended; but a restart ends all *)
(* sleepers at once.  MiniKernel implements this specification as long as  *)
(* it is restarted with nobody in the queue.                               *)
(***************************************************************************)
EXTENDS Fifo, Functions

CONSTANT Partitions

VARIABLES
    cpu,        \* who holds the CPU, NULL_PID if nobody
    queue,      \* who waits for it, in order
    asleep,     \* who waits for an alarm
    room        \* the partition of each process that has not ended

mvars == <<cpu, queue, asleep, room>>

Resident == DOMAIN room

Init ==
    /\ cpu = NULL_PID
    /\ queue = <<>>
    /\ asleep = {}
    /\ room = [p \in {} |-> 0]

(* The CPU is handed to the first of the processes q. *)
HandOver(q) ==
    \/ q = <<>> /\ cpu' = NULL_PID /\ queue' = <<>>
    \/ q # <<>> /\ cpu' = Head(q) /\ queue' = Tail(q)

(* A program becomes the process p, in a partition that nobody has. *)
Admit(p, part) ==
    /\ p \notin Resident
    /\ \A other \in Resident : room[other] # part
    /\ room' = [r \in Resident \union {p} |-> IF r = p THEN part ELSE room[r]]
    /\ queue' = Append(queue, p)
    /\ UNCHANGED <<cpu, asleep>>

(* The CPU is idle and somebody waits. *)
Start ==
    /\ cpu = NULL_PID
    /\ HandOver(queue)
    /\ UNCHANGED <<asleep, room>>

(* Some of the sleepers, each once, in some order. *)
Awakenings ==
    {w \in UNION {[1 .. n -> asleep] : n \in 0 .. MAX_PROCESSES} : IsInjective(w)}

(* Sleepers wake up, in the order of w; the turn of the running process    *)
(* goes on, or is over.                                                    *)
Wake(w) ==
    /\ cpu # NULL_PID
    /\ asleep' = asleep \ Range(w)
    /\ \/ queue' = queue \o w /\ UNCHANGED cpu
       \/ HandOver((queue \o w) \o <<cpu>>)
    /\ UNCHANGED room

(* The running process goes to sleep, *)
Sleep ==
    /\ cpu # NULL_PID
    /\ asleep' = asleep \union {cpu}
    /\ HandOver(queue)
    /\ UNCHANGED room

(* or ends. *)
End ==
    /\ cpu # NULL_PID
    /\ room' = Restrict(room, Resident \ {cpu})
    /\ HandOver(queue)
    /\ UNCHANGED asleep

(* The system starts again, when nobody has the CPU or waits for it:       *)
(* whoever sleeps is ended.                                                *)
Restart ==
    /\ cpu = NULL_PID /\ queue = <<>>
    /\ asleep' = {}
    /\ room' = [p \in {} |-> 0]
    /\ UNCHANGED <<cpu, queue>>

Next ==
    \/ \E p \in Pids, part \in Partitions : Admit(p, part)
    \/ Start
    \/ \E w \in Awakenings : Wake(w)
    \/ Sleep
    \/ End
    \/ Restart

Spec == Init /\ [][Next]_mvars

=============================================================================

-------------------------------- MODULE Locks --------------------------------
(***************************************************************************)
(* The four mutexes of the program, dma.lock (src/src/dma.c), bus_lock     *)
(* (src/src/bus.c), disk_lock (src/src/disk.c) and log_lock                *)
(* (src/src/log.c), between the main thread and the transfer threads.      *)
(*                                                                         *)
(* What the critical sections do is in the other modules.  Here is which   *)
(* lock each thread may ask for while it holds which others, read off the  *)
(* calls: nearly every critical section writes to the log, and a transfer  *)
(* uses the bus and the disk within that of the DMA.  `reiniciar' goes to  *)
(* the memory and the disk without any lock, and initialises that of the   *)
(* disk again; it is here step by step.  `apagar', which destroys the      *)
(* mutexes, is in Dma, where what it waits for is.                         *)
(***************************************************************************)
EXTENDS Integers

CONSTANT Threads        \* bound: transfer threads alive at the same time

ASSUME LocksAssumption == "main" \notin Threads

Agents == Threads \union {"main"}
Lock == {"dma", "bus", "disk", "log"}
Stage == {"start", "transfer", "notify", "ended"}
Restart == {"no", "ram", "tables", "disk", "vector"}
Free == "free"

VARIABLES
    locked,     \* the state of each mutex
    held,       \* the critical sections each agent is in
    wants,      \* the mutex each is waiting for, or Free
    stage,      \* where each transfer thread is in dma_perform_io
    restart     \* where the main thread is in cmd_reiniciar

lvars == <<locked, held, wants, stage, restart>>

Init ==
    /\ locked = [l \in Lock |-> FALSE]
    /\ held = [a \in Agents |-> {}]
    /\ wants = [a \in Agents |-> Free]
    /\ stage = [t \in Threads |-> "ended"]
    /\ restart = "no"

Idle(a) == held[a] = {} /\ wants[a] = Free

-----------------------------------------------------------------------------
(* Slip: the memory asks the DMA for its state. *)
Under_AsksDma(a, l) ==
    CASE l = "dma" -> IF a = "main" THEN {"log"} ELSE {"log", "bus", "disk"}
      [] l = "bus" -> {"log", "dma"}
      [] l = "disk" -> {"log"}
      [] l = "log" -> {}

(* The mutexes that a asks for in the critical section of l: dma_handler   *)
(* and dma_perform_io, mem_read_physical and mem_write_physical, the       *)
(* functions of disk.c, and write_log.                                     *)
Under(a, l) ==
    CASE l = "dma" -> IF a = "main" THEN {"log"} ELSE {"log", "bus", "disk"}
      [] l = "bus" -> {"log"}
      [] l = "disk" -> {"log"}
      [] l = "log" -> {}

(* The mutexes that a asks for out of any critical section.  A restart     *)
(* only writes to the log, for the tables (cpu_init,                       *)
(* kernel_init_structures) and the vector (dma_init, mem_write_physical).  *)
Outside(a) ==
    CASE a = "main" /\ restart = "no" -> Lock
      [] a = "main" /\ restart \in {"tables", "vector"} -> {"log"}
      [] a # "main" /\ stage[a] = "start" -> {"log", "dma"}
      [] a # "main" /\ stage[a] = "notify" -> {"log"}
      [] OTHER -> {}

-----------------------------------------------------------------------------
(* pthread_mutex_lock: a asks for the mutex l, and gets it once free. *)
Ask(a, l) ==
    /\ wants[a] = Free
    /\ IF held[a] = {} THEN l \in Outside(a)
                       ELSE \A h \in held[a] : l \in Under(a, h)
    /\ wants' = [wants EXCEPT ![a] = l]
    /\ UNCHANGED <<locked, held, stage, restart>>

Take(a) ==
    /\ wants[a] # Free
    /\ ~locked[wants[a]]
    /\ locked' = [locked EXCEPT ![wants[a]] = TRUE]
    /\ held' = [held EXCEPT ![a] = @ \union {wants[a]}]
    /\ wants' = [wants EXCEPT ![a] = Free]
    /\ stage' = IF a \in Threads /\ wants[a] = "dma"
                THEN [stage EXCEPT ![a] = "transfer"] ELSE stage
    /\ UNCHANGED restart

(* Slip: the transfer keeps dma.lock until the CPU asks for nothing. *)
Leave_WaitsForCpu(a, l) ==
    /\ wants[a] = Free
    /\ a \in Threads /\ l = "dma" => wants["main"] = Free
    /\ l \in held[a]
    /\ \A h \in held[a] \ {l} : l \in Under(a, h)
    /\ locked' = [locked EXCEPT ![l] = FALSE]
    /\ held' = [held EXCEPT ![a] = @ \ {l}]
    /\ IF a \in Threads /\ l = "dma"
       THEN \E next \in {"notify", "ended"} : stage' = [stage EXCEPT ![a] = next]
       ELSE UNCHANGED stage
    /\ UNCHANGED <<wants, restart>>

(* pthread_mutex_unlock, by whoever is in the critical section, at the end *)
(* of it or on an early return; some of those of dma_perform_io end the    *)
(* thread.                                                                 *)
Leave(a, l) ==
    /\ wants[a] = Free
    /\ l \in held[a]
    /\ \A h \in held[a] \ {l} : l \in Under(a, h)
    /\ locked' = [locked EXCEPT ![l] = FALSE]
    /\ held' = [held EXCEPT ![a] = @ \ {l}]
    /\ IF a \in Threads /\ l = "dma"
       THEN \E next \in {"notify", "ended"} : stage' = [stage EXCEPT ![a] = next]
       ELSE UNCHANGED stage
    /\ UNCHANGED <<wants, restart>>

(* The end of dma_perform_io after the notification. *)
EndThread(t) ==
    /\ stage[t] = "notify" /\ Idle(t)
    /\ stage' = [stage EXCEPT ![t] = "ended"]
    /\ UNCHANGED <<locked, held, wants, restart>>

(* pthread_create of dma_handler: no other transfer is under way (Dma's    *)
(* OneTransfer).                                                           *)
StartThread(t) ==
    /\ Idle("main") /\ restart = "no"
    /\ \A u \in Threads : stage[u] \notin {"start", "transfer"}
    /\ stage[t] = "ended"
    /\ stage' = [stage EXCEPT ![t] = "start"]
    /\ UNCHANGED <<locked, held, wants, restart>>

(* cmd_reiniciar, in the main thread.  mem_init clears the RAM without     *)
(* bus_lock, disk_init clears DISK without disk_lock and then initialises  *)
(* the mutex, whoever holds it, and init_kernel writes the RAM without     *)
(* bus_lock.                                                               *)
RestartGoes(from, to) ==
    /\ Idle("main")
    /\ restart = from /\ restart' = to
    /\ UNCHANGED <<held, wants, stage>>

MemInit == RestartGoes("no", "ram") /\ UNCHANGED locked
TablesInit == RestartGoes("ram", "tables") /\ UNCHANGED locked
DiskMemset == RestartGoes("tables", "disk") /\ UNCHANGED locked
DiskMutexInit ==
    RestartGoes("disk", "vector") /\ locked' = [locked EXCEPT !["disk"] = FALSE]
Restarted == RestartGoes("vector", "no") /\ UNCHANGED locked

Reiniciar == MemInit \/ TablesInit \/ DiskMemset \/ DiskMutexInit \/ Restarted

Next ==
    \/ \E a \in Agents : Take(a) \/ \E l \in Lock : Ask(a, l) \/ Leave(a, l)
    \/ \E t \in Threads : EndThread(t) \/ StartThread(t)
    \/ Reiniciar

Spec == Init /\ [][Next]_lvars

(* Fairness: a mutex that stays free is given to who waits for it, and no  *)
(* path through dma_perform_io is endless: a transfer thread leaves every  *)
(* critical section in the end and goes on to its next stage.              *)
FairSpec ==
    /\ Spec
    /\ \A a \in Agents : WF_lvars(Take(a))
    /\ \A t \in Threads :
          /\ WF_lvars(Leave(t, "log"))
          /\ \A l \in Lock \ {"log"} : SF_lvars(Leave(t, l))
          /\ SF_lvars(stage[t] = "start" /\ Ask(t, "dma"))
          /\ SF_lvars(EndThread(t))

-----------------------------------------------------------------------------
(* The shape of the state. *)
LocksTypeOK ==
    /\ locked \in [Lock -> BOOLEAN]
    /\ held \in [Agents -> SUBSET Lock]
    /\ wants \in [Agents -> Lock \union {Free}]
    /\ stage \in [Threads -> Stage]
    /\ restart \in Restart

Blocked(a) == wants[a] # Free /\ locked[wants[a]]

(* No threads wait in a circle, each for a mutex that another of them      *)
(* holds: the transfer asks for the bus, the disk and the log with the DMA *)
(* locked (dma.c:166-291) while the CPU logs within the bus, the disk and  *)
(* the DMA.                                                                *)
NoCircularWait ==
    \A circle \in (SUBSET Agents) \ {{}} :
        ~ \A a \in circle : /\ Blocked(a)
                            /\ \E b \in circle : wants[a] \in held[b]

(* The CPU does not wait for ever for a mutex: every transfer gives back   *)
(* what it took, on every path of dma_perform_io.                          *)
CpuGoesOn == wants["main"] # Free ~> wants["main"] = Free

=============================================================================

----------------------------- MODULE LocksProofs -----------------------------
(***************************************************************************)
(* For any number of transfer threads, the mutexes of module Locks are     *)
(* never waited for in a circle.                                           *)
(***************************************************************************)
EXTENDS Locks, TLAPS

USE LocksAssumption

(* The order in which the code takes the mutexes. *)
Rank(l) == CASE l = "dma" -> 1 [] l = "bus" -> 2 [] l = "disk" -> 2 [] l = "log" -> 3

LEMMA Ranks == \A l \in Lock : Rank(l) \in 1 .. 3
  BY DEF Lock, Rank

LEMMA UnderIsHigher ==
    ASSUME NEW a \in Agents, NEW h \in Lock, NEW l \in Lock, l \in Under(a, h)
    PROVE  Rank(h) < Rank(l)
<1>1. h \in {"dma", "bus", "disk", "log"} /\ l \in {"dma", "bus", "disk", "log"}
  BY DEF Lock
<1>2. Under(a, h) \subseteq CASE h = "dma" -> {"log", "bus", "disk"}
                              [] h = "bus" -> {"log"}
                              [] h = "disk" -> {"log"}
                              [] h = "log" -> {}
  BY <1>1 DEF Under
<1> QED
  BY <1>1, <1>2 DEF Rank

-----------------------------------------------------------------------------
(* The inductive invariant: each agent asks in the order of Rank.  That a  *)
(* restart unlocks the disk under a transfer (disk.c:18) does not matter   *)
(* to it: it says nothing of who else is in a critical section.            *)
Ordered ==
    \A a \in Agents : \A h \in held[a] :
        wants[a] # Free => Rank(h) < Rank(wants[a])

LocksInv == LocksTypeOK /\ Ordered

LEMMA InitInv == Init => LocksInv
<1> SUFFICES ASSUME Init PROVE LocksInv
  OBVIOUS
<1>1. \A a \in Agents : held[a] = {}
  BY DEF Init
<1>2. LocksTypeOK
  BY DEF Init, LocksTypeOK, Stage, Restart
<1> QED
  BY <1>1, <1>2 DEF LocksInv, Ordered

LEMMA AskInv ==
    ASSUME LocksInv, NEW a \in Agents, NEW l \in Lock, Ask(a, l)
    PROVE  LocksInv'
<1>1. /\ wants' = [wants EXCEPT ![a] = l]
      /\ UNCHANGED <<locked, held, stage, restart>>
      /\ \A h \in held[a] : l \in Under(a, h)
  BY DEF Ask
<1>2. \A h \in held[a] : h \in Lock /\ Rank(h) < Rank(l)
  BY <1>1, UnderIsHigher DEF LocksInv, LocksTypeOK
<1>3. wants' \in [Agents -> Lock \union {Free}] /\ wants'[a] = l
      /\ \A b \in Agents \ {a} : wants'[b] = wants[b]
  BY <1>1 DEF LocksInv, LocksTypeOK
<1>4. LocksTypeOK'
  BY <1>1, <1>3 DEF LocksInv, LocksTypeOK
<1>5. Ordered'
  BY <1>1, <1>2, <1>3 DEF LocksInv, Ordered
<1> QED
  BY <1>4, <1>5 DEF LocksInv

LEMMA TakeInv ==
    ASSUME LocksInv, NEW a \in Agents, Take(a)
    PROVE  LocksInv'
<1> DEFINE l == wants[a]
<1>1. /\ l # Free /\ ~locked[l]
      /\ locked' = [locked EXCEPT ![l] = TRUE]
      /\ held' = [held EXCEPT ![a] = @ \union {l}]
      /\ wants' = [wants EXCEPT ![a] = Free]
      /\ stage' = IF a \in Threads /\ l = "dma"
                  THEN [stage EXCEPT ![a] = "transfer"] ELSE stage
      /\ UNCHANGED restart
  BY DEF Take
<1>2. l \in Lock
  BY <1>1 DEF LocksInv, LocksTypeOK
<1> HIDE DEF l
<1>3. /\ held'[a] = held[a] \union {l}
      /\ \A b \in Agents \ {a} : held'[b] = held[b] /\ wants'[b] = wants[b]
      /\ wants'[a] = Free
  BY <1>1, <1>2 DEF LocksInv, LocksTypeOK
<1>4. LocksTypeOK'
  <2>1. locked' \in [Lock -> BOOLEAN]
    BY <1>1, <1>2 DEF LocksInv, LocksTypeOK
  <2>2. stage' \in [Threads -> Stage]
    BY <1>1 DEF LocksInv, LocksTypeOK, Stage
  <2>3. held' \in [Agents -> SUBSET Lock] /\ wants' \in [Agents -> Lock \union {Free}]
    BY <1>1, <1>2 DEF LocksInv, LocksTypeOK
  <2>4. restart' \in Restart
    BY <1>1 DEF LocksInv, LocksTypeOK
  <2> QED
    BY <2>1, <2>2, <2>3, <2>4 DEF LocksTypeOK
<1>5. Ordered'
  BY <1>3 DEF LocksInv, Ordered
<1> QED
  BY <1>4, <1>5 DEF LocksInv

LEMMA LeaveInv ==
    ASSUME LocksInv, NEW a \in Agents, NEW l \in Lock, Leave(a, l)
    PROVE  LocksInv'
<1>1. /\ l \in held[a]
      /\ locked' = [locked EXCEPT ![l] = FALSE]
      /\ held' = [held EXCEPT ![a] = @ \ {l}]
      /\ UNCHANGED <<wants, restart>>
  BY DEF Leave
<1>2. stage' \in [Threads -> Stage]
  <2>1. CASE a \in Threads /\ l = "dma"
    <3>1. PICK next \in {"notify", "ended"} : stage' = [stage EXCEPT ![a] = next]
      BY <2>1 DEF Leave
    <3> QED
      BY <3>1 DEF LocksInv, LocksTypeOK, Stage
  <2>2. CASE ~(a \in Threads /\ l = "dma")
    BY <2>2 DEF Leave, LocksInv, LocksTypeOK
  <2> QED
    BY <2>1, <2>2
<1>3. /\ held'[a] = held[a] \ {l}
      /\ \A b \in Agents : held'[b] \subseteq held[b]
  BY <1>1 DEF LocksInv, LocksTypeOK
<1>4. LocksTypeOK'
  <2>1. locked' \in [Lock -> BOOLEAN]
    BY <1>1 DEF LocksInv, LocksTypeOK
  <2>2. held' \in [Agents -> SUBSET Lock]
    BY <1>1 DEF LocksInv, LocksTypeOK
  <2>3. wants' \in [Agents -> Lock \union {Free}] /\ restart' \in Restart
    BY <1>1 DEF LocksInv, LocksTypeOK
  <2> QED
    BY <1>2, <2>1, <2>2, <2>3 DEF LocksTypeOK
<1>5. Ordered'
  BY <1>1, <1>3 DEF LocksInv, Ordered
<1> QED
  BY <1>4, <1>5 DEF LocksInv

LEMMA ReiniciarInv ==
    ASSUME LocksInv, Reiniciar
    PROVE  LocksInv'
<1>1. UNCHANGED <<held, wants, stage>> /\ restart' \in Restart
  BY DEF Reiniciar, MemInit, TablesInit, DiskMemset, DiskMutexInit, Restarted,
         RestartGoes, Restart
<1>2. locked' \in [Lock -> BOOLEAN]
  BY DEF LocksInv, LocksTypeOK, Reiniciar, MemInit, TablesInit, DiskMemset,
         DiskMutexInit, Restarted
<1>3. LocksTypeOK'
  BY <1>1, <1>2 DEF LocksInv, LocksTypeOK
<1>4. Ordered'
  BY <1>1 DEF LocksInv, Ordered
<1> QED
  BY <1>3, <1>4 DEF LocksInv

LEMMA StageInv ==
    ASSUME LocksInv, NEW t \in Threads, EndThread(t) \/ StartThread(t)
    PROVE  LocksInv'
<1>1. stage' \in [Threads -> Stage] /\ UNCHANGED <<locked, held, wants, restart>>
  BY DEF EndThread, StartThread, LocksInv, LocksTypeOK, Stage
<1> QED
  BY <1>1 DEF LocksInv, LocksTypeOK, Ordered

(* LocksInv holds of every reachable state. *)
THEOREM LocksInvariant == Spec => []LocksInv
<1>1. LocksInv /\ [Next]_lvars => LocksInv'
  <2>1. ASSUME LocksInv, UNCHANGED lvars PROVE LocksInv'
    BY <2>1 DEF lvars, LocksInv, LocksTypeOK, Ordered
  <2> QED
    BY <2>1, AskInv, TakeInv, LeaveInv, ReiniciarInv, StageInv DEF Next
<1> QED
  BY <1>1, InitInv, PTL DEF Spec

-----------------------------------------------------------------------------
(* The theorem. *)

(* Whoever holds what another waits for waits itself for something higher  *)
(* only, and nothing is higher than the log (log.c:52).                    *)
LEMMA NoCircle == LocksInv => NoCircularWait
<1> SUFFICES ASSUME LocksInv,
                    NEW circle \in (SUBSET Agents) \ {{}},
                    \A a \in circle : /\ Blocked(a)
                                      /\ \E b \in circle : wants[a] \in held[b]
             PROVE  FALSE
  BY DEF NoCircularWait
<1>1. \A a \in circle : wants[a] \in Lock /\ Rank(wants[a]) \in 1 .. 3
  BY Ranks DEF Blocked, LocksInv, LocksTypeOK
<1>2. \A a \in circle : \E b \in circle : Rank(wants[a]) < Rank(wants[b])
  BY DEF Blocked, LocksInv, Ordered
<1>3. \A a \in circle : Rank(wants[a]) # 3
  BY <1>1, <1>2
<1>4. \A a \in circle : Rank(wants[a]) # 2
  BY <1>1, <1>2, <1>3
<1>5. \A a \in circle : Rank(wants[a]) # 1
  BY <1>1, <1>2, <1>3, <1>4
<1> QED
  BY <1>1, <1>3, <1>4, <1>5

(* The threads never wait for each other's mutexes in a circle, not even   *)
(* when a restart has unlocked the disk in the middle of a transfer: the   *)
(* one order is DMA, then bus or disk, then log (dma.c:166, bus.c:26,      *)
(* disk.c:39, log.c:52).                                                   *)
THEOREM DeadlockFree == Spec => []NoCircularWait
  BY NoCircle, LocksInvariant, PTL

=============================================================================

-------------------------- MODULE SchedulerProofs --------------------------
(***************************************************************************)
(* The ready queue, the owner of the CPU and the partitions: the inductive *)
(* invariant of a session whose restarts are clean (RestartsAreClean), and *)
(* the safety properties of MiniKernel that follow from it; that it keeps  *)
(* what Multiprogramming promises; saved contexts and traps, for programs  *)
(* that do not stop the CPU (NoneStops).                                   *)
(***************************************************************************)
EXTENDS KernelProofs

USE FifoAssumption, KernelAssumption

(* q lists the processes that st calls READY, each once. *)
Queued(st, q) ==
    /\ \A i, j \in 1 .. Len(q) : q[i] = q[j] => i = j
    /\ \A p \in Pids : st[p] = "READY" <=> \E i \in 1 .. Len(q) : q[i] = p

(* c is the process that st calls RUNNING. *)
Running(st, c) == \A p \in Pids : st[p] = "RUNNING" <=> p = c

(* The inductive invariant.  Slots that were never used are TERMINATED, so *)
(* that the tests of `used' in the properties are redundant.               *)
SchedInv ==
    /\ Queued(state, ready_queue)
    /\ Running(state, current_pid)
    /\ \A p \in Pids \ used : state[p] = "TERMINATED"
    /\ \A p \in Pids : state[p] = "BLOCKED" => wake_time[p] > 0
    /\ PartitionsOwned

-----------------------------------------------------------------------------
(* Lemmas about the ready queue. *)

(* w lists processes that may be queued behind an exact queue. *)
Queueable(st, w) ==
    /\ \A i, j \in 1 .. Len(w) : w[i] = w[j] => i = j
    /\ \A i \in 1 .. Len(w) : st[w[i]] # "READY"

(* st1 is st with the processes of w READY. *)
NowReady(st, w, st1) ==
    \A p \in Pids : st1[p] =
        IF \E i \in 1 .. Len(w) : w[i] = p THEN "READY" ELSE st[p]

(* A list of distinct processes that are not READY fits behind the queue,  *)
(* nothing is dropped, and the queue stays exact.                          *)
LEMMA EnqueueQueued ==
    ASSUME NEW st \in [Pids -> ProcessState],
           NEW q \in Seq(Pids), NEW w \in Seq(Pids),
           Queued(st, q), Queueable(st, w)
    PROVE  /\ Queued(MarkedReady(st, q, w), Enqueued(q, w))
           /\ Enqueued(q, w) = q \o w
           /\ NowReady(st, w, MarkedReady(st, q, w))
<1> USE DEF Queueable
<1> DEFINE qw == q \o w
<1>1. /\ qw \in Seq(Pids)
      /\ Len(qw) = Len(q) + Len(w)
      /\ \A i \in 1 .. Len(q) + Len(w) :
            qw[i] = IF i <= Len(q) THEN q[i] ELSE w[i - Len(q)]
  <2>1. qw \in Seq(Pids)
    BY ConcatProperties
  <2>2. Len(qw) = Len(q) + Len(w)
    BY ConcatProperties
  <2>3. \A i \in 1 .. Len(q) + Len(w) :
            qw[i] = IF i <= Len(q) THEN q[i] ELSE w[i - Len(q)]
    BY ConcatProperties
  <2> QED
    BY <2>1, <2>2, <2>3
<1>2. Len(q) \in Nat /\ Len(w) \in Nat
  BY LenProperties
<1> HIDE DEF qw
<1>3. \A i \in 1 .. Len(q) : qw[i] = q[i]
  BY <1>1, <1>2
<1>4. ASSUME NEW i \in 1 .. Len(w)
      PROVE  \E k \in 1 .. Len(qw) : qw[k] = w[i]
  <2> DEFINE k == i + Len(q)
  <2>1. /\ k \in 1 .. Len(q) + Len(w)
        /\ ~ (k <= Len(q))
        /\ k - Len(q) = i
    BY <1>2
  <2> HIDE DEF k
  <2> QED
    BY <1>1, <2>1
<1>5. \A i \in 1 .. Len(qw) :
        \/ i \in 1 .. Len(q) /\ qw[i] = q[i]
        \/ i - Len(q) \in 1 .. Len(w) /\ qw[i] = w[i - Len(q)]
  BY <1>1, <1>2
<1>6. \A i \in 1 .. Len(q), j \in 1 .. Len(w) : q[i] # w[j]
  <2> SUFFICES ASSUME NEW i \in 1 .. Len(q), NEW j \in 1 .. Len(w), q[i] = w[j]
               PROVE  FALSE
    OBVIOUS
  <2>1. w[j] \in Pids
    BY <1>2, ElementOfSeq
  <2>2. st[w[j]] = "READY"
    BY <2>1 DEF Queued
  <2> QED
    BY <2>2
<1>7. ASSUME NEW i \in 1 .. Len(qw), NEW j \in 1 .. Len(qw), qw[i] = qw[j]
      PROVE  i = j
  <2>1. CASE i \in 1 .. Len(q) /\ j \in 1 .. Len(q)
    BY <1>3, <1>7, <2>1 DEF Queued
  <2>2. CASE i - Len(q) \in 1 .. Len(w) /\ j - Len(q) \in 1 .. Len(w)
    <3>1. qw[i] = w[i - Len(q)] /\ qw[j] = w[j - Len(q)]
      BY <1>1, <1>2, <2>2
    <3>2. i - Len(q) = j - Len(q)
      BY <1>7, <2>2, <3>1
    <3> QED
      BY <1>1, <1>2, <3>2
  <2> QED
    BY <1>5, <1>6, <1>7, <2>1, <2>2
<1>8. Len(qw) <= MAX_PROCESSES
  BY <1>1, <1>7, DistinctFit
<1>9. Enqueued(q, w) = qw
  BY <1>1, <1>8 DEF Enqueued, qw
<1>10. \A p \in Pids : MarkedReady(st, q, w)[p] =
            IF \E i \in 1 .. Len(w) : w[i] = p THEN "READY" ELSE st[p]
  <2>1. \A i \in 1 .. Len(w) : Len(q) + i <= MAX_PROCESSES
    BY <1>1, <1>2, <1>8
  <2> QED
    BY <2>1 DEF MarkedReady
<1>11. ASSUME NEW p \in Pids
       PROVE  MarkedReady(st, q, w)[p] = "READY"
                <=> \E i \in 1 .. Len(qw) : qw[i] = p
  <2>1. CASE \E i \in 1 .. Len(w) : w[i] = p
    <3>1. MarkedReady(st, q, w)[p] = "READY"
      BY <1>10, <2>1
    <3>2. \E k \in 1 .. Len(qw) : qw[k] = p
      BY <1>4, <2>1
    <3> QED
      BY <3>1, <3>2
  <2>2. CASE ~ \E i \in 1 .. Len(w) : w[i] = p
    <3>1. MarkedReady(st, q, w)[p] = st[p]
      BY <1>10, <2>2
    <3>2. st[p] = "READY" <=> \E i \in 1 .. Len(q) : q[i] = p
      BY DEF Queued
    <3>3. 1 .. Len(q) \subseteq 1 .. Len(qw)
      BY <1>1, <1>2
    <3>4. (\E i \in 1 .. Len(q) : q[i] = p) => \E i \in 1 .. Len(qw) : qw[i] = p
      BY <1>3, <3>3
    <3>5. (\E i \in 1 .. Len(qw) : qw[i] = p) => \E i \in 1 .. Len(q) : q[i] = p
      BY <1>5, <2>2
    <3> QED
      BY <3>1, <3>2, <3>4, <3>5
  <2> QED
    BY <2>1, <2>2
<1> QED
  BY <1>7, <1>9, <1>10, <1>11 DEF Queued, NowReady, qw

(* The sleepers the clock wakes join the end of the queue, all of them. *)
LEMMA WakeQueued ==
    ASSUME NEW st \in [Pids -> ProcessState], NEW q \in Seq(Pids),
           Queued(st, q),
           NEW S \in SUBSET Pids, \A p \in S : st[p] # "READY",
           NEW w \in InPidOrder(S)
    PROVE  /\ MarkedReady(st, q, w) \in [Pids -> ProcessState]
           /\ Enqueued(q, w) \in Seq(Pids)
           /\ Queued(MarkedReady(st, q, w), Enqueued(q, w))
           /\ \A p \in Pids : MarkedReady(st, q, w)[p] =
                IF p \in S THEN "READY" ELSE st[p]
<1>1. /\ w \in Seq(Pids)
      /\ \A i, j \in 1 .. Len(w) : w[i] = w[j] => i = j
  BY InPidOrderList
<1>2. \A p \in Pids : p \in S <=> \E i \in 1 .. Len(w) : w[i] = p
  BY InPidOrderList
<1>3. \A i \in 1 .. Len(w) : w[i] \in Pids
  BY <1>1, ElementOfSeq
<1>4. \A i \in 1 .. Len(w) : st[w[i]] # "READY"
  BY <1>2, <1>3
<1>5. /\ Queued(MarkedReady(st, q, w), Enqueued(q, w))
      /\ Enqueued(q, w) = q \o w
      /\ NowReady(st, w, MarkedReady(st, q, w))
  <2>1. Queueable(st, w)
    BY <1>1, <1>4 DEF Queueable
  <2> QED
    BY <1>1, <2>1, EnqueueQueued
<1>6. Enqueued(q, w) \in Seq(Pids)
  BY <1>1, <1>5, ConcatProperties
<1>7. MarkedReady(st, q, w) \in [Pids -> ProcessState]
  BY MarkedReadyType
<1> QED
  BY <1>2, <1>5, <1>6, <1>7 DEF NowReady

(* The head of an exact queue gets the CPU, and the tail is exact for the  *)
(* processes that stay.                                                    *)
LEMMA DequeueQueued ==
    ASSUME NEW st \in [Pids -> ProcessState], NEW st2 \in [Pids -> ProcessState],
           NEW q \in Seq(Pids), q # <<>>,
           Queued(st, q),
           \A p \in Pids : st2[p] = "READY" <=> st[p] = "READY" /\ p # Head(q)
    PROVE  Queued(st2, Tail(q)) /\ Head(q) \in Pids /\ st[Head(q)] = "READY"
<1>1. /\ Head(q) \in Pids /\ Head(q) = q[1]
      /\ Len(Tail(q)) = Len(q) - 1
      /\ \A i \in 1 .. Len(Tail(q)) : Tail(q)[i] = q[i + 1]
  BY HeadTailProperties
<1>2. Len(q) \in Nat /\ Len(q) >= 1
  BY LenProperties, EmptySeq
<1>3. \A i \in 1 .. Len(Tail(q)) : i + 1 \in 1 .. Len(q)
  BY <1>1, <1>2
<1>4. 1 \in 1 .. Len(q)
  BY <1>2
<1>5. ASSUME NEW i \in 1 .. Len(Tail(q)), NEW j \in 1 .. Len(Tail(q)),
             Tail(q)[i] = Tail(q)[j]
      PROVE  i = j
  <2>1. q[i + 1] = q[j + 1]
    BY <1>1, <1>5
  <2>2. i + 1 = j + 1
    BY <1>3, <2>1 DEF Queued
  <2> QED
    BY <2>2
<1>6. ASSUME NEW p \in Pids
      PROVE  st2[p] = "READY" <=> \E i \in 1 .. Len(Tail(q)) : Tail(q)[i] = p
  <2>1. ASSUME NEW i \in 1 .. Len(Tail(q)), Tail(q)[i] = p
        PROVE  st2[p] = "READY"
    <3>1. i + 1 \in 1 .. Len(q) /\ q[i + 1] = p /\ i + 1 # 1
      BY <1>1, <1>3, <2>1
    <3>2. st[p] = "READY" /\ p # q[1]
      BY <1>4, <3>1 DEF Queued
    <3> QED
      BY <1>1, <3>2
  <2>2. ASSUME st2[p] = "READY"
        PROVE  \E i \in 1 .. Len(Tail(q)) : Tail(q)[i] = p
    <3>1. st[p] = "READY" /\ p # q[1]
      BY <1>1, <2>2
    <3>2. PICK k \in 1 .. Len(q) : q[k] = p
      BY <3>1 DEF Queued
    <3>3. k - 1 \in 1 .. Len(Tail(q)) /\ (k - 1) + 1 = k
      BY <1>1, <1>2, <3>1, <3>2
    <3> QED
      BY <1>1, <3>2, <3>3
  <2> QED
    BY <2>1, <2>2
<1>7. st[q[1]] = "READY"
  BY <1>1, <1>4 DEF Queued
<1> QED
  BY <1>1, <1>5, <1>6, <1>7 DEF Queued

(* What schedule() leaves behind when it is entered with the states st: an *)
(* exact queue, one process marked RUNNING, nobody waiting if the CPU is   *)
(* left idle, and every process outside the round robin as it was.         *)
Scheduled(st) ==
    /\ Queued(state', ready_queue')
    /\ Running(state', current_pid')
    /\ current_pid' = NULL_PID => ready_queue' = <<>>
    /\ \A p \in Pids : IF st[p] \in {"READY", "RUNNING"}
                        THEN state'[p] \in {"READY", "RUNNING"}
                        ELSE state'[p] = st[p]

(* schedule() does that, entered with an exact queue.                      *)
LEMMA ScheduleScheduled ==
    ASSUME current_pid \in Pids \union {NULL_PID},
           NEW st \in [Pids -> ProcessState],
           NEW q \in Seq(Pids),
           Queued(st, q),
           \A p \in Pids : st[p] = "RUNNING" => p = current_pid,
           Schedule(st, q)
    PROVE  Scheduled(st)
<1> DEFINE turn == IF current_pid # NULL_PID /\ st[current_pid] = "RUNNING"
                   THEN <<current_pid>> ELSE <<>>
           q1   == Enqueued(q, turn)
           st1  == MarkedReady(st, q, turn)
<1>1. turn \in Seq(Pids) /\ Queueable(st, turn)
  BY DEF Queueable
<1>2. \A p \in Pids : st[p] = "RUNNING" <=> \E i \in 1 .. Len(turn) : turn[i] = p
  <2>1. CASE current_pid # NULL_PID /\ st[current_pid] = "RUNNING"
    <3>1. Len(turn) = 1 /\ turn[1] = current_pid
      BY <2>1
    <3> HIDE DEF turn
    <3> QED
      BY <2>1, <3>1
  <2>2. CASE ~ (current_pid # NULL_PID /\ st[current_pid] = "RUNNING")
    <3>1. Len(turn) = 0
      BY <2>2
    <3>2. \A p \in Pids : p # NULL_PID
      BY DEF Pids, NULL_PID
    <3> HIDE DEF turn
    <3> QED
      BY <2>2, <3>1, <3>2
  <2> QED
    BY <2>1, <2>2
<1>3. /\ quantum_counter' = 0
      /\ \/ q1 = <<>> /\ current_pid' = NULL_PID /\ state' = st1 /\ ready_queue' = <<>>
         \/ q1 # <<>> /\ Dispatch(st1, Head(q1)) /\ ready_queue' = Tail(q1)
  BY DEF Schedule
<1> HIDE DEF turn
<1>4. st1 \in [Pids -> ProcessState]
  BY MarkedReadyType
<1>5. /\ Queued(st1, q1)
      /\ q1 = q \o turn
      /\ NowReady(st, turn, st1)
  BY <1>1, EnqueueQueued
<1>6. q1 \in Seq(Pids)
  BY <1>1, <1>5, ConcatProperties
<1> HIDE DEF q1, st1
<1>7. \A p \in Pids : st1[p] = IF st[p] = "RUNNING" THEN "READY" ELSE st[p]
  BY <1>2, <1>5 DEF NowReady
<1>8. CASE q1 = <<>>
  <2>1. current_pid' = NULL_PID /\ state' = st1 /\ ready_queue' = <<>>
    BY <1>3, <1>8
  <2>2. \A p \in Pids : st1[p] # "RUNNING" /\ p # NULL_PID
    BY <1>7 DEF Pids, NULL_PID
  <2> QED
    BY <1>5, <1>7, <1>8, <2>1, <2>2 DEF Scheduled, Running
<1>9. CASE q1 # <<>>
  <2>1. Dispatch(st1, Head(q1)) /\ ready_queue' = Tail(q1)
    BY <1>3, <1>9
  <2>2. Head(q1) \in Pids
    BY <1>6, <1>9, HeadTailProperties
  <2>3. /\ current_pid' = Head(q1)
        /\ state' \in [Pids -> ProcessState]
        /\ \A p \in Pids : state'[p] = IF p = Head(q1) THEN "RUNNING" ELSE st1[p]
    BY <1>4, <1>7, <2>1 DEF Dispatch, ProcessState
  <2>4. /\ Queued(state', Tail(q1))
        /\ st1[Head(q1)] = "READY"
    <3>1. \A p \in Pids : state'[p] = "READY" <=> st1[p] = "READY" /\ p # Head(q1)
      BY <2>3
    <3>2. state' \in [Pids -> ProcessState]
      BY <2>3
    <3>3. Queued(st1, q1)
      BY <1>5
    <3> QED
      BY <1>4, <1>6, <1>9, <3>1, <3>2, <3>3, DequeueQueued
  <2>5. Running(state', current_pid')
    BY <1>7, <2>3 DEF Running
  <2>6. current_pid' # NULL_PID
    BY <2>2, <2>3 DEF Pids, NULL_PID
  <2> QED
    BY <1>7, <2>1, <2>2, <2>3, <2>4, <2>5, <2>6 DEF Scheduled
<1> QED
  BY <1>8, <1>9

-----------------------------------------------------------------------------
(* The invariant is kept by each change of the kernel tables. *)

(* What is left to show of a step that leaves the queue and the CPU right. *)
LEMMA LiveScheduled ==
    ASSUME NEW st \in [Pids -> ProcessState], Scheduled(st)
    PROVE  /\ Live(state') = Live(st)
           /\ \A p \in Pids : st[p] = "TERMINATED" => state'[p] = "TERMINATED"
           /\ \A p \in Pids : state'[p] = "BLOCKED" => st[p] = "BLOCKED"
BY DEF Scheduled, Live

(* The running process is the current one, and nobody else. *)
LEMMA CurrentRuns ==
    ASSUME KernelTypeOK, SchedInv, current_pid # NULL_PID
    PROVE  current_pid \in Pids /\ state[current_pid] = "RUNNING"
BY DEF KernelTypeOK, SchedInv, Running

(* The states schedule() is entered with when the running process leaves. *)
LEMMA LeavesQueued ==
    ASSUME KernelTypeOK, SchedInv, current_pid # NULL_PID,
           NEW s \in {"BLOCKED", "TERMINATED"},
           Schedule([state EXCEPT ![current_pid] = s], ready_queue)
    PROVE  /\ [state EXCEPT ![current_pid] = s] \in [Pids -> ProcessState]
           /\ Scheduled([state EXCEPT ![current_pid] = s])
<1> DEFINE st == [state EXCEPT ![current_pid] = s]
<1>1. current_pid \in Pids /\ state[current_pid] = "RUNNING"
  BY CurrentRuns
<1>2. /\ st \in [Pids -> ProcessState]
      /\ \A p \in Pids : st[p] = IF p = current_pid THEN s ELSE state[p]
  BY DEF KernelTypeOK, ProcessState
<1>3. Schedule(st, ready_queue)
  OBVIOUS
<1> HIDE DEF st
<1>4. Queued(st, ready_queue)
  <2>1. \A p \in Pids : st[p] = "READY" <=> state[p] = "READY"
    BY <1>1, <1>2
  <2> QED
    BY <2>1 DEF SchedInv, Queued
<1>5. \A p \in Pids : st[p] = "RUNNING" => p = current_pid
  BY <1>2 DEF SchedInv, Running
<1>6. Scheduled(st)
  BY <1>2, <1>3, <1>4, <1>5, ScheduleScheduled DEF KernelTypeOK
<1> QED
  BY <1>2, <1>6 DEF st

(* The invariant survives the end of the running process,                  *)
LEMMA TerminateSched ==
    ASSUME KernelTypeOK, SchedInv, current_pid # NULL_PID, Terminate
    PROVE  SchedInv'
<1> DEFINE st == [state EXCEPT ![current_pid] = "TERMINATED"]
<1>1. current_pid \in Pids /\ state[current_pid] = "RUNNING"
  BY CurrentRuns
<1>2. Schedule(st, ready_queue)
  BY DEF Terminate
<1>3. st \in [Pids -> ProcessState] /\ Scheduled(st)
  BY <1>2, LeavesQueued
<1>4. \A p \in Pids : st[p] = IF p = current_pid THEN "TERMINATED" ELSE state[p]
  BY DEF KernelTypeOK
<1> HIDE DEF st
<1>5. /\ UNCHANGED <<used, partition_id, wake_time>>
      /\ partitions_bitmap' = partitions_bitmap \ {partition_id[current_pid]}
  BY DEF Terminate
<1>6. Live(state') = Live(state) \ {current_pid} /\ current_pid \in Live(state)
  <2>1. Live(st) = Live(state) \ {current_pid} /\ current_pid \in Live(state)
    BY <1>1, <1>4 DEF Live
  <2> QED
    BY <1>3, <2>1, LiveScheduled
<1>7. PartitionsOwned'
  BY <1>5, <1>6 DEF SchedInv, PartitionsOwned
<1>8. \A p \in Pids \ used' : state'[p] = "TERMINATED"
  BY <1>3, <1>4, <1>5, LiveScheduled DEF SchedInv
<1>9. \A p \in Pids : state'[p] = "BLOCKED" => wake_time'[p] > 0
  BY <1>3, <1>4, <1>5, LiveScheduled DEF SchedInv
<1> QED
  BY <1>3, <1>7, <1>8, <1>9 DEF SchedInv, Scheduled

(* system call 4,                                                          *)
LEMMA SleepSched ==
    ASSUME KernelTypeOK, SchedInv, current_pid # NULL_PID,
           NEW n \in 1 .. MaxSleep, Sleep(n)
    PROVE  SchedInv'
<1> DEFINE st == [state EXCEPT ![current_pid] = "BLOCKED"]
<1>1. current_pid \in Pids /\ state[current_pid] = "RUNNING"
  BY CurrentRuns
<1>2. Schedule(st, ready_queue)
  BY DEF Sleep
<1>3. st \in [Pids -> ProcessState] /\ Scheduled(st)
  BY <1>2, LeavesQueued
<1>4. \A p \in Pids : st[p] = IF p = current_pid THEN "BLOCKED" ELSE state[p]
  BY DEF KernelTypeOK
<1> HIDE DEF st
<1>5. /\ UNCHANGED <<used, partition_id, partitions_bitmap>>
      /\ \A p \in Pids : wake_time'[p] = IF p = current_pid THEN n ELSE wake_time[p]
  BY DEF Sleep, KernelTypeOK
<1>6. Live(state') = Live(state)
  <2>1. Live(st) = Live(state)
    BY <1>1, <1>4 DEF Live
  <2> QED
    BY <1>3, <2>1, LiveScheduled
<1>7. PartitionsOwned'
  BY <1>5, <1>6 DEF SchedInv, PartitionsOwned
<1>8. \A p \in Pids \ used' : state'[p] = "TERMINATED"
  BY <1>1, <1>3, <1>4, <1>5, LiveScheduled DEF SchedInv
<1>9. \A p \in Pids : state'[p] = "BLOCKED" => wake_time'[p] > 0
  BY <1>3, <1>4, <1>5, LiveScheduled DEF SchedInv
<1> QED
  BY <1>3, <1>7, <1>8, <1>9 DEF SchedInv, Scheduled

(* The clock: due sleepers become READY, the running process may go back   *)
(* to the queue and a queued one may get the CPU; nothing else moves.      *)
LEMMA OnClockMoves ==
    ASSUME KernelTypeOK, SchedInv, current_pid # NULL_PID, OnClock
    PROVE  /\ Queued(state', ready_queue') /\ Running(state', current_pid')
           /\ \A p \in Pids :
                IF state[p] \in {"READY", "RUNNING"} \/ p \in Due
                THEN state'[p] \in {"READY", "RUNNING"}
                ELSE state'[p] = state[p]
<1>1. PICK w \in InPidOrder(Due) :
        \/ Schedule(MarkedReady(state, ready_queue, w), Enqueued(ready_queue, w))
        \/ /\ state' = MarkedReady(state, ready_queue, w)
           /\ ready_queue' = Enqueued(ready_queue, w)
           /\ UNCHANGED current_pid
  BY DEF OnClock
<1> DEFINE st == MarkedReady(state, ready_queue, w)
           q  == Enqueued(ready_queue, w)
<1>2. Due \in SUBSET Pids /\ \A p \in Due : state[p] = "BLOCKED" /\ wake_time[p] = 1
  BY DEF KernelTypeOK, Due, Sleeping
<1>3. state \in [Pids -> ProcessState] /\ ready_queue \in Seq(Pids)
  BY DEF KernelTypeOK
<1>4. Queued(state, ready_queue)
  BY DEF SchedInv
<1>5. \A p \in Due : state[p] # "READY"
  BY <1>2
<1>6. /\ st \in [Pids -> ProcessState]
      /\ q \in Seq(Pids)
      /\ Queued(st, q)
      /\ \A p \in Pids : st[p] = IF p \in Due THEN "READY" ELSE state[p]
  BY <1>2, <1>3, <1>4, <1>5, WakeQueued
<1> HIDE DEF st, q
<1>7. Queued(st, q)
  BY <1>6
<1>8. st \in [Pids -> ProcessState]
  BY <1>6
<1>9. q \in Seq(Pids)
  BY <1>6
<1>10. \A p \in Pids : st[p] = IF p \in Due THEN "READY" ELSE state[p]
  BY <1>6
<1>11. Running(st, current_pid)
  <2>1. \A p \in Pids : st[p] = "RUNNING" <=> state[p] = "RUNNING"
    BY <1>2, <1>10
  <2> QED
    BY <2>1 DEF SchedInv, Running
<1>12. CASE Schedule(st, q)
  <2>1. Scheduled(st)
    BY <1>7, <1>8, <1>9, <1>11, <1>12, ScheduleScheduled DEF KernelTypeOK, Running
  <2> QED
    BY <1>2, <1>10, <2>1 DEF Scheduled
<1>13. CASE state' = st /\ ready_queue' = q /\ UNCHANGED current_pid
  BY <1>7, <1>10, <1>11, <1>13
<1> QED
  BY <1>1, <1>12, <1>13 DEF st, q

(* the clock,                                                              *)
LEMMA OnClockSched ==
    ASSUME KernelTypeOK, SchedInv, current_pid # NULL_PID, OnClock
    PROVE  SchedInv'
<1>1. \A p \in Due : p \in Pids /\ state[p] = "BLOCKED"
  BY DEF KernelTypeOK, Due, Sleeping
<1>2. /\ Queued(state', ready_queue') /\ Running(state', current_pid')
      /\ \A p \in Pids :
            IF state[p] \in {"READY", "RUNNING"} \/ p \in Due
            THEN state'[p] \in {"READY", "RUNNING"}
            ELSE state'[p] = state[p]
  BY OnClockMoves
<1>3. /\ UNCHANGED <<used, partition_id, partitions_bitmap>>
      /\ wake_time' = [p \in Pids |-> IF p \in Sleeping THEN wake_time[p] - 1
                                                        ELSE wake_time[p]]
  BY DEF OnClock
<1>4. PartitionsOwned'
  <2>1. Live(state') = Live(state)
    BY <1>1, <1>2 DEF Live
  <2> QED
    BY <1>3, <2>1 DEF SchedInv, PartitionsOwned
<1>5. \A p \in Pids \ used' : state'[p] = "TERMINATED"
  BY <1>1, <1>2, <1>3 DEF SchedInv
<1>6. ASSUME NEW p \in Pids, state'[p] = "BLOCKED"
      PROVE  wake_time'[p] > 0
  <2>1. state[p] = "BLOCKED" /\ p \notin Due
    BY <1>2, <1>6
  <2>2. p \in used /\ wake_time[p] > 0 /\ wake_time[p] \in Nat
    BY <2>1 DEF SchedInv, KernelTypeOK
  <2>3. p \in Sleeping /\ wake_time[p] # 1
    BY <2>1, <2>2 DEF Due, Sleeping
  <2> QED
    BY <1>3, <2>2, <2>3
<1> QED
  BY <1>2, <1>4, <1>5, <1>6 DEF SchedInv

(* A new PCB takes a slot nobody is using. *)
LEMMA CreatedSched ==
    ASSUME KernelTypeOK, SchedInv, NEW p \in Pids, IsLeast(p, FreeSlots)
    PROVE  /\ state[p] = "TERMINATED"
           /\ CreatedState(p) \in [Pids -> ProcessState]
           /\ \A r \in Pids : CreatedState(p)[r] = IF r = p THEN "NEW" ELSE state[r]
           /\ Queued(CreatedState(p), ready_queue)
           /\ Running(CreatedState(p), current_pid)
           /\ Live(CreatedState(p)) = Live(state)
<1>1. state[p] = "TERMINATED"
  BY DEF IsLeast, FreeSlots, SchedInv
<1>2. /\ CreatedState(p) \in [Pids -> ProcessState]
      /\ \A r \in Pids : CreatedState(p)[r] = IF r = p THEN "NEW" ELSE state[r]
  BY DEF CreatedState, KernelTypeOK, ProcessState
<1>3. Queued(CreatedState(p), ready_queue)
  BY <1>1, <1>2 DEF SchedInv, Queued
<1>4. Running(CreatedState(p), current_pid)
  BY <1>1, <1>2 DEF SchedInv, Running
<1>5. Live(CreatedState(p)) = Live(state)
  BY <1>1, <1>2 DEF Live
<1> QED
  BY <1>1, <1>2, <1>3, <1>4, <1>5

(* A PCB that is created and not loaded disturbs nobody. *)
LEMMA StoppedSched ==
    ASSUME KernelTypeOK, SchedInv, NEW p \in Pids, IsLeast(p, FreeSlots),
           used' = used \union {p},
           state' = CreatedState(p),
           partition_id' = CreatedPartition(p),
           partitions_bitmap \subseteq partitions_bitmap',
           UNCHANGED <<wake_time, ready_queue, current_pid>>
    PROVE  SchedInv'
<1>1. /\ state[p] = "TERMINATED"
      /\ \A r \in Pids : state'[r] = IF r = p THEN "NEW" ELSE state[r]
      /\ Queued(state', ready_queue') /\ Running(state', current_pid')
      /\ Live(state') = Live(state)
  BY CreatedSched
<1>2. \A r \in Live(state) : partition_id'[r] = partition_id[r]
  BY <1>1 DEF CreatedPartition, KernelTypeOK, Live
<1>3. PartitionsOwned'
  BY <1>1, <1>2 DEF SchedInv, PartitionsOwned
<1> QED
  BY <1>1, <1>3 DEF SchedInv

(* a program loaded and queued,                                            *)
LEMMA LoadOkSched ==
    ASSUME TypeOK, SchedInv, NEW prog \in Programs, LoadOk(prog)
    PROVE  SchedInv'
<1>1. PICK p \in Pids, part \in Partitions :
        /\ Created(prog, p)
        /\ TakePartition(part)
        /\ partition_id' = [partition_id EXCEPT ![p] = part]
        /\ state' = MarkedReady(CreatedState(p), ready_queue, <<p>>)
        /\ ready_queue' = Enqueued(ready_queue, <<p>>)
  BY DEF LoadOk
<1>2. UNCHANGED <<wake_time, current_pid>>
  BY DEF LoadOk
<1>3. IsLeast(p, FreeSlots) /\ used' = used \union {p}
  BY <1>1 DEF Created
<1> DEFINE st == CreatedState(p)
<1>4. /\ state[p] = "TERMINATED"
      /\ st \in [Pids -> ProcessState]
      /\ \A r \in Pids : st[r] = IF r = p THEN "NEW" ELSE state[r]
      /\ Queued(st, ready_queue) /\ Running(st, current_pid)
      /\ Live(st) = Live(state)
  BY <1>3, CreatedSched DEF TypeOK
<1> HIDE DEF st
<1>5. <<p>> \in Seq(Pids) /\ Len(<<p>>) = 1 /\ <<p>>[1] = p
  OBVIOUS
<1>6. Queueable(st, <<p>>)
  BY <1>4, <1>5 DEF Queueable
<1>7. Queued(state', ready_queue') /\ NowReady(st, <<p>>, state')
  BY <1>1, <1>4, <1>5, <1>6, EnqueueQueued DEF TypeOK, KernelTypeOK, st
<1>8. \A r \in Pids : state'[r] = IF r = p THEN "READY" ELSE state[r]
  BY <1>4, <1>5, <1>7 DEF NowReady
<1>9. Running(state', current_pid')
  BY <1>2, <1>4, <1>8 DEF SchedInv, Running
<1>10. Live(state') = Live(state) \union {p} /\ p \notin Live(state)
  BY <1>4, <1>8 DEF Live
<1>11. PartitionsOwned'
  <2>1. part \notin partitions_bitmap /\ partitions_bitmap' = partitions_bitmap \union {part}
    BY <1>1 DEF TakePartition, IsLeast, FreePartitions
  <2>2. /\ partition_id'[p] = part
        /\ \A r \in Live(state) : partition_id'[r] = partition_id[r]
    BY <1>1, <1>10 DEF TypeOK, KernelTypeOK, Live
  <2>3. /\ \A r \in Live(state) : partition_id[r] \in partitions_bitmap
        /\ \A r, t \in Live(state) : partition_id[r] = partition_id[t] => r = t
    BY DEF SchedInv, PartitionsOwned
  <2> QED
    BY <1>10, <2>1, <2>2, <2>3 DEF PartitionsOwned
<1>12. \A r \in Pids \ used' : state'[r] = "TERMINATED"
  BY <1>3, <1>8 DEF SchedInv
<1>13. \A r \in Pids : state'[r] = "BLOCKED" => wake_time'[r] > 0
  BY <1>2, <1>8 DEF SchedInv
<1> QED
  BY <1>7, <1>9, <1>11, <1>12, <1>13 DEF SchedInv

(* schedule() at the end of the list takes the CPU from the process that   *)
(* had it when the CPU stopped, if there is one, and keeps it in the queue. *)
LEMMA EndOfListSched ==
    ASSUME KernelTypeOK, SchedInv, Schedule(state, ready_queue),
           UNCHANGED <<used, partition_id, wake_time, partitions_bitmap>>
    PROVE  SchedInv'
<1>1. /\ state \in [Pids -> ProcessState] /\ ready_queue \in Seq(Pids)
      /\ current_pid \in Pids \union {NULL_PID}
  BY DEF KernelTypeOK
<1>2. Queued(state, ready_queue) /\ \A p \in Pids : state[p] = "RUNNING" => p = current_pid
  BY DEF SchedInv, Running
<1>3. Scheduled(state)
  BY <1>1, <1>2, ScheduleScheduled
<1>4. /\ Live(state') = Live(state)
      /\ \A p \in Pids : state[p] = "TERMINATED" => state'[p] = "TERMINATED"
      /\ \A p \in Pids : state'[p] = "BLOCKED" => state[p] = "BLOCKED"
  BY <1>1, <1>3, LiveScheduled
<1>5. PartitionsOwned'
  BY <1>4 DEF SchedInv, PartitionsOwned
<1> QED
  BY <1>3, <1>4, <1>5 DEF SchedInv, Scheduled

(* any outcome of `ejecutar',                                              *)
LEMMA LoadingSched ==
    ASSUME TypeOK, SchedInv, Loading
    PROVE  SchedInv'
<1>1. ASSUME UNCHANGED kvars PROVE SchedInv'
  BY <1>1 DEF kvars, SchedInv, Queued, Running, PartitionsOwned, Live
<1>2. ASSUME NEW prog \in Programs, LoadFails(prog)
      PROVE  SchedInv'
  <2>1. partitions_bitmap \subseteq partitions_bitmap'
    BY <1>2 DEF LoadFails, NoPartitionLeft, TakePartition
  <2>2. UNCHANGED <<used, state, partition_id, wake_time, ready_queue, current_pid>>
    BY <1>2 DEF LoadFails
  <2>3. PartitionsOwned'
    BY <2>1, <2>2 DEF SchedInv, PartitionsOwned, Live
  <2> QED
    BY <2>2, <2>3 DEF SchedInv, Queued, Running
<1>3. ASSUME NEW prog \in Programs, AddFails(prog) \/ LoadStops(prog)
      PROVE  SchedInv'
  <2>1. PICK p \in Pids :
            /\ IsLeast(p, FreeSlots)
            /\ used' = used \union {p}
            /\ state' = CreatedState(p)
            /\ partition_id' = CreatedPartition(p)
    BY <1>3 DEF AddFails, LoadStops, Created
  <2>2. partitions_bitmap \subseteq partitions_bitmap'
    BY <1>3 DEF AddFails, LoadStops, NoPartitionLeft, TakePartition
  <2>3. UNCHANGED <<wake_time, ready_queue, current_pid>>
    BY <1>3 DEF AddFails, LoadStops
  <2> QED
    BY <2>1, <2>2, <2>3, StoppedSched DEF TypeOK
<1>4. ASSUME EndOfList PROVE SchedInv'
  <2>1. \/ UNCHANGED kvars
        \/ /\ Schedule(state, ready_queue)
           /\ UNCHANGED <<used, partition_id, wake_time, partitions_bitmap>>
    BY <1>4 DEF EndOfList
  <2> QED
    BY <1>1, <2>1, EndOfListSched DEF TypeOK
<1> QED
  BY <1>2, <1>3, <1>4, LoadOkSched DEF Loading

(* and any interrupt.                                                      *)
LEMMA AttendingSched ==
    ASSUME TypeOK, SchedInv, Attending
    PROVE  SchedInv'
<1>1. ASSUME UNCHANGED kvars PROVE SchedInv'
  BY <1>1 DEF kvars, SchedInv, Queued, Running, PartitionsOwned, Live
<1> QED
  BY <1>1, AttendingKernel, TerminateSched, OnClockSched, SleepSched DEF TypeOK

-----------------------------------------------------------------------------
(* Restarts. *)

(* No process of the session makes cpu() return 1: none has an instruction *)
(* of the classes that end the loop of `ejecutar' with a process current   *)
(* (a PC outside its partition, an immediate STR, STRRX or POP, an SDMAON  *)
(* the DMA refuses).                                                       *)
NoneStops == Effects \intersect {"STOP", "FETCH"} = {}

(* `reiniciar' forgets the ready queue, which does no harm if the queue is *)
(* empty whenever the shell has the terminal.                              *)
RestartsAreClean == "reiniciar" \notin Commands \/ NoneStops

(* What a session in which no program stops leaves the shell with.         *)
Quiet ==
    /\ phase \in {"shell", "loading", "off"} => current_pid = NULL_PID
    /\ phase = "shell" \/ (phase = "loading" /\ ~loaded) => ready_queue = <<>>

(* Every step but a restart keeps the invariant.                           *)
LEMMA StepSched ==
    ASSUME TypeOK, SchedInv, [Next]_vars, ~Reiniciar
    PROVE  SchedInv'
<1>1. ASSUME UNCHANGED kvars PROVE SchedInv'
  BY <1>1 DEF kvars, SchedInv, Queued, Running, PartitionsOwned, Live
<1>2. CASE Shell
  BY <1>1, <1>2 DEF Shell, Ejecutar, Apagar
<1>3. CASE Loading
  BY <1>3, LoadingSched
<1>4. CASE Executes
  BY <1>1, <1>4, ExecutesType
<1>5. CASE Attending
  BY <1>5, AttendingSched
<1>6. CASE ReadInput \/ DmaTransfer \/ DmaNotifyFlag \/ DmaNotifyCode
  BY <1>1, <1>6 DEF ReadInput, DmaTransfer, DmaNotifyFlag, DmaNotifyCode
<1>7. CASE UNCHANGED vars
  BY <1>1, <1>7 DEF vars
<1> QED
  BY <1>2, <1>3, <1>4, <1>5, <1>6, <1>7 DEF Next, Off

(* A restart keeps it when the queue is empty.                             *)
LEMMA RestartSched ==
    ASSUME TypeOK, SchedInv, Quiet, Reiniciar
    PROVE  SchedInv'
<1>1. ready_queue' = <<>> /\ current_pid' = NULL_PID
  BY DEF Reiniciar, KernelReinit, Quiet
<1>2. \A p \in Pids : state'[p] = "TERMINATED" /\ p # NULL_PID
  BY DEF Reiniciar, KernelReinit, Pids, NULL_PID
<1> QED
  BY <1>1, <1>2 DEF SchedInv, Queued, Running, PartitionsOwned, Live

(* With no live process in the table, nobody is queued or current: what    *)
(* hay_procesos_activos() says of the table holds of the queue.            *)
LEMMA NoneLeft ==
    ASSUME NEW st, NEW q \in Seq(Pids), NEW c \in Pids \union {NULL_PID}, NEW u,
           Queued(st, q), Running(st, c),
           \A p \in Pids \ u : st[p] = "TERMINATED",
           Live(st) \intersect u = {}
    PROVE  q = <<>> /\ c = NULL_PID
<1>1. \A p \in Pids : st[p] \notin {"READY", "RUNNING"}
  BY DEF Live
<1>2. c = NULL_PID
  BY <1>1 DEF Running
<1>3. q = <<>>
  <2>1. Len(q) \in Nat
    BY LenProperties
  <2>2. \A i \in 1 .. Len(q) : q[i] \in Pids
    BY ElementOfSeq
  <2>3. Len(q) = 0
    BY <1>1, <2>1, <2>2 DEF Queued
  <2> QED
    BY <2>3, EmptySeq
<1> QED
  BY <1>2, <1>3

(* cpu() that returns 0 gives the terminal back only to a shell with no    *)
(* process.                                                                *)
LEMMA ReturnsQuiet ==
    ASSUME TypeOK', SchedInv', Returns(0)
    PROVE  Quiet'
<1>1. CASE phase' = "running"
  BY <1>1 DEF Quiet
<1>2. CASE Live(state') \intersect used' = {}
  <2>1. ready_queue' = <<>> /\ current_pid' = NULL_PID
    BY <1>2, NoneLeft DEF SchedInv, TypeOK, KernelTypeOK
  <2> QED
    BY <2>1 DEF Quiet
<1> QED
  BY <1>1, <1>2 DEF Returns

(* No step of such a session breaks the quiet of the shell.                *)
LEMMA StepQuiet ==
    ASSUME NoneStops, TypeOK, SchedInv, WorkConserving, Quiet, [Next]_vars,
           TypeOK', SchedInv'
    PROVE  Quiet'
<1>1. CASE Shell
  BY <1>1 DEF Shell, Ejecutar, Reiniciar, KernelReinit, Apagar, Quiet, kvars
<1>2. CASE Loading
  BY <1>2 DEF Loading, LoadFails, AddFails, LoadStops, LoadOk, EndOfList,
              Quiet, kvars
<1>3. CASE Executes
  <2>1. CASE Returns(0)
    BY <2>1, ReturnsQuiet
  <2>2. CASE FetchFault \/ Stop \/ Retrn
    <3>1. current_pid = NULL_PID /\ phase = "running" /\ UNCHANGED kvars
      BY <2>2 DEF FetchFault, Stop, Retrn, Instruction, Cycle, NoneStops
    <3> QED
      BY <3>1 DEF WorkConserving, Quiet, kvars
  <2> QED
    BY <1>3, <2>1, <2>2 DEF Executes, Plain, Svc, Fault, Privileged, Enable,
                            Sdmaon, Chmod
<1>4. CASE Attending \/ ReadInput
  <2>1. CASE Resume
    BY <2>1, ReturnsQuiet DEF Resume
  <2>2. CASE ReadCall
    BY <2>2 DEF ReadCall, Quiet
  <2> QED
    BY <1>4, <2>1, <2>2
    DEF Attending, IdleInterrupt, ClockInterrupt, FatalInterrupt,
        IoEndInterrupt, IgnoredInterrupt, EndCall, ReturningCall, SleepCall,
        ReadInput
<1>5. CASE DmaTransfer \/ DmaNotifyFlag \/ DmaNotifyCode
  BY <1>5 DEF DmaTransfer, DmaNotifyFlag, DmaNotifyCode, Quiet, kvars
<1>6. CASE UNCHANGED vars
  BY <1>6 DEF vars, kvars, Quiet
<1> QED
  BY <1>1, <1>2, <1>3, <1>4, <1>5, <1>6 DEF Next, Off

(* Sessions without a program that stops, restarted at will.               *)
LEMMA QuietInvariant ==
    ASSUME NoneStops
    PROVE  Spec => [](TypeOK /\ SchedInv /\ Quiet)
<1>1. Init => SchedInv /\ Quiet
  BY DEF Init, KernelInit, SchedInv, Queued, Running, PartitionsOwned, Live,
         Quiet, Pids, NULL_PID
<1>2. TypeOK /\ WorkConserving /\ SchedInv /\ Quiet /\ [Next]_vars
        => SchedInv' /\ Quiet'
  <2> SUFFICES ASSUME TypeOK, WorkConserving, SchedInv, Quiet, [Next]_vars
               PROVE  SchedInv' /\ Quiet'
    OBVIOUS
  <2>1. SchedInv'
    BY StepSched, RestartSched
  <2> QED
    BY <2>1, NextTypeOK, StepQuiet
<1> QED
  BY <1>1, <1>2, TypeCorrect, CpuConserved, PTL DEF Spec

-----------------------------------------------------------------------------
(* The theorems. *)

(* The invariant holds in every session without restarts, whatever the     *)
(* programs do, and in every session without programs that stop, restarted *)
(* or not.  A restart after a program has stopped breaks it, because       *)
(* kernel_init_structures forgets the queue.                               *)
THEOREM SchedInvariant ==
    ASSUME RestartsAreClean
    PROVE  Spec => [](TypeOK /\ SchedInv)
<1>1. CASE "reiniciar" \notin Commands
  <2>1. Init => SchedInv
    BY DEF Init, KernelInit, SchedInv, Queued, Running, PartitionsOwned, Live,
           Pids, NULL_PID
  <2>2. TypeOK /\ SchedInv /\ [Next]_vars => SchedInv'
    BY <1>1, StepSched DEF Reiniciar
  <2> QED
    BY <2>1, <2>2, TypeCorrect, PTL DEF Spec
<1>2. CASE NoneStops
  BY <1>2, QuietInvariant, PTL
<1> QED
  BY <1>1, <1>2 DEF RestartsAreClean

(* The ready queue is exactly the set of READY processes: enqueue_ready    *)
(* and dequeue_ready never lose or repeat one (kernel.c).                  *)
THEOREM QueueExact ==
    ASSUME RestartsAreClean
    PROVE  Spec => []ReadyQueueExact
<1>1. TypeOK /\ SchedInv => ReadyQueueExact
  BY DEF SchedInv, Queued, ReadyQueueExact
<1> QED
  BY <1>1, SchedInvariant, PTL

(* No two live processes share a partition, whatever loads fail and        *)
(* whatever slots are reused (find_free_partition, create_process, the     *)
(* terminations of kernel_handle_interrupt).                               *)
THEOREM PartitionsNotShared ==
    ASSUME RestartsAreClean
    PROVE  Spec => []PartitionsOwned
<1>1. TypeOK /\ SchedInv => PartitionsOwned
  BY DEF SchedInv
<1> QED
  BY <1>1, SchedInvariant, PTL

(* Every sleeper has an alarm ahead of it (system call 4 and the wake-up   *)
(* loop of the clock handler).                                             *)
THEOREM SleepersHaveAlarm ==
    ASSUME RestartsAreClean
    PROVE  Spec => []AlarmSet
<1>1. TypeOK /\ SchedInv => AlarmSet
  BY DEF TypeOK, KernelTypeOK, SchedInv, AlarmSet
<1> QED
  BY <1>1, SchedInvariant, PTL

(* What the running process does or suffers never ends or moves a process  *)
(* that waits: the handlers of kernel_handle_interrupt touch the current   *)
(* process, the due sleepers and the head of the queue.                    *)
THEOREM WaitersLeftAlone ==
    ASSUME RestartsAreClean
    PROVE  Spec => WaitersUntouched
<1>1. TypeOK /\ SchedInv /\ [Next]_vars =>
        [\A p \in used :
            phase \in {"running", "input"} => state'[p] \in MovesFrom(p)]_vars
  <2> SUFFICES ASSUME TypeOK, SchedInv, [Next]_vars,
                      NEW p \in used, phase \in {"running", "input"}
               PROVE  state'[p] \in MovesFrom(p)
    OBVIOUS
  <2>1. p \in Pids /\ state[p] \in ProcessState
    BY DEF TypeOK, KernelTypeOK
  <2>2. CASE UNCHANGED state
    BY <2>1, <2>2 DEF MovesFrom, ProcessState
  <2>3. ASSUME current_pid # NULL_PID, NEW s \in {"BLOCKED", "TERMINATED"},
               Schedule([state EXCEPT ![current_pid] = s], ready_queue)
        PROVE  state'[p] \in MovesFrom(p)
    <3> DEFINE st == [state EXCEPT ![current_pid] = s]
    <3>1. Scheduled(st)
      BY <2>3, LeavesQueued DEF TypeOK
    <3>2. st[p] = IF p = current_pid THEN s ELSE state[p]
      BY <2>1 DEF TypeOK, KernelTypeOK
    <3>3. state[p] = "RUNNING" <=> p = current_pid
      BY <2>1 DEF SchedInv, Running
    <3> HIDE DEF st
    <3>4. IF st[p] \in {"READY", "RUNNING"} THEN state'[p] \in {"READY", "RUNNING"}
                                            ELSE state'[p] = st[p]
      BY <2>1, <3>1 DEF Scheduled
    <3> QED
      BY <2>1, <3>2, <3>3, <3>4 DEF MovesFrom, ProcessState
  <2>4. ASSUME current_pid # NULL_PID, OnClock
        PROVE  state'[p] \in MovesFrom(p)
    <3>1. IF state[p] \in {"READY", "RUNNING"} \/ p \in Due
          THEN state'[p] \in {"READY", "RUNNING"}
          ELSE state'[p] = state[p]
      BY <2>1, <2>4, OnClockMoves DEF TypeOK
    <3>2. p \in Due => state[p] = "BLOCKED"
      BY DEF Due, Sleeping
    <3> QED
      BY <2>1, <3>1, <3>2 DEF MovesFrom, ProcessState
  <2>5. CASE Attending
    BY <2>2, <2>3, <2>4, <2>5, AttendingKernel DEF kvars, Terminate, Sleep
  <2>6. CASE Executes
    BY <2>2, <2>6, ExecutesType DEF kvars
  <2>7. CASE Shell \/ Loading
    BY <2>7 DEF Shell, Ejecutar, Reiniciar, Apagar, Loading, LoadFails,
                AddFails, LoadStops, LoadOk, EndOfList
  <2>8. CASE ReadInput \/ DmaTransfer \/ DmaNotifyFlag \/ DmaNotifyCode \/ UNCHANGED vars
    BY <2>2, <2>8 DEF ReadInput, DmaTransfer, DmaNotifyFlag, DmaNotifyCode, vars, kvars
  <2> QED
    BY <2>5, <2>6, <2>7, <2>8 DEF Next, Off
<1> QED
  BY <1>1, SchedInvariant, PTL DEF Spec, WaitersUntouched

-----------------------------------------------------------------------------
(* The promise. *)

(* The abstract module has its own name for -1. *)
USE DEF Promise!NULL_PID, NULL_PID

-----------------------------------------------------------------------------
(* schedule() hands the CPU to the first of the queue, behind which it has *)
(* put the process it takes the CPU from, if that one can go on.           *)
LEMMA ScheduleHandsOver ==
    ASSUME current_pid \in Pids \union {NULL_PID},
           NEW st \in [Pids -> ProcessState],
           NEW q \in Seq(Pids),
           Queued(st, q),
           Schedule(st, q)
    PROVE  IF current_pid # NULL_PID /\ st[current_pid] = "RUNNING"
           THEN Promise!HandOver(q \o <<current_pid>>)
           ELSE Promise!HandOver(q)
<1> DEFINE turn == IF current_pid # NULL_PID /\ st[current_pid] = "RUNNING"
                   THEN <<current_pid>> ELSE <<>>
           q1   == Enqueued(q, turn)
<1>1. turn \in Seq(Pids) /\ Queueable(st, turn)
  BY DEF Queueable
<1>2. q1 = q \o turn
  BY <1>1, EnqueueQueued
<1>3. \/ q1 = <<>> /\ current_pid' = NULL_PID /\ ready_queue' = <<>>
      \/ q1 # <<>> /\ current_pid' = Head(q1) /\ ready_queue' = Tail(q1)
  BY DEF Schedule, Dispatch
<1>4. Promise!HandOver(q1)
  BY <1>3 DEF Promise!HandOver
<1>5. CASE current_pid # NULL_PID /\ st[current_pid] = "RUNNING"
  BY <1>2, <1>4, <1>5
<1>6. CASE ~(current_pid # NULL_PID /\ st[current_pid] = "RUNNING")
  <2>1. q \o turn = q
    BY <1>6, ConcatEmptySeq
  <2> QED
    BY <1>2, <1>4, <1>6, <2>1
<1> QED
  BY <1>5, <1>6

(* What leaves the kernel tables alone leaves the promise alone. *)
LEMMA TablesStutter ==
    ASSUME UNCHANGED <<state, partition_id, ready_queue, current_pid>>
    PROVE  UNCHANGED Promise!mvars
BY DEF Promise!mvars, Live

-----------------------------------------------------------------------------
(* The end of the running process, *)
LEMMA TerminateEnds ==
    ASSUME KernelTypeOK, SchedInv, current_pid # NULL_PID, Terminate
    PROVE  Promise!End
<1> DEFINE st == [state EXCEPT ![current_pid] = "TERMINATED"]
<1>1. current_pid \in Pids /\ state[current_pid] = "RUNNING"
  BY CurrentRuns
<1>2. Schedule(st, ready_queue)
  BY DEF Terminate
<1>3. st \in [Pids -> ProcessState] /\ Scheduled(st)
  BY <1>2, LeavesQueued
<1>4. \A p \in Pids : st[p] = IF p = current_pid THEN "TERMINATED" ELSE state[p]
  BY DEF KernelTypeOK
<1> HIDE DEF st
<1>5. partition_id' = partition_id
  BY DEF Terminate
<1>6. Live(state') = Live(state) \ {current_pid}
  <2>1. Live(st) = Live(state) \ {current_pid}
    BY <1>1, <1>4 DEF Live
  <2> QED
    BY <1>3, <2>1, LiveScheduled
<1>7. \A p \in Pids : state'[p] = "BLOCKED" <=> state[p] = "BLOCKED"
  BY <1>1, <1>3, <1>4 DEF Scheduled
<1>8. Promise!HandOver(ready_queue)
  <2>1. Queued(st, ready_queue)
    BY <1>1, <1>4 DEF SchedInv, Queued
  <2>2. st[current_pid] # "RUNNING"
    BY <1>1, <1>4
  <2> QED
    BY <1>2, <1>3, <2>1, <2>2, ScheduleHandsOver DEF KernelTypeOK
<1> QED
  BY <1>5, <1>6, <1>7, <1>8 DEF Promise!End, Promise!Resident, Promise!Restrict

(* system call 4, *)
LEMMA SleepSleeps ==
    ASSUME KernelTypeOK, SchedInv, current_pid # NULL_PID,
           NEW n \in 1 .. MaxSleep, Sleep(n)
    PROVE  Promise!Sleep
<1> DEFINE st == [state EXCEPT ![current_pid] = "BLOCKED"]
<1>1. current_pid \in Pids /\ state[current_pid] = "RUNNING"
  BY CurrentRuns
<1>2. Schedule(st, ready_queue)
  BY DEF Sleep
<1>3. st \in [Pids -> ProcessState] /\ Scheduled(st)
  BY <1>2, LeavesQueued
<1>4. \A p \in Pids : st[p] = IF p = current_pid THEN "BLOCKED" ELSE state[p]
  BY DEF KernelTypeOK
<1> HIDE DEF st
<1>5. partition_id' = partition_id
  BY DEF Sleep
<1>6. Live(state') = Live(state)
  <2>1. Live(st) = Live(state)
    BY <1>1, <1>4 DEF Live
  <2> QED
    BY <1>3, <2>1, LiveScheduled
<1>7. \A p \in Pids :
        state'[p] = "BLOCKED" <=> state[p] = "BLOCKED" \/ p = current_pid
  BY <1>1, <1>3, <1>4 DEF Scheduled
<1>8. Promise!HandOver(ready_queue)
  <2>1. Queued(st, ready_queue)
    BY <1>1, <1>4 DEF SchedInv, Queued
  <2>2. st[current_pid] # "RUNNING"
    BY <1>1, <1>4
  <2> QED
    BY <1>2, <1>3, <2>1, <2>2, ScheduleHandsOver DEF KernelTypeOK
<1>9. {p \in Pids : state'[p] = "BLOCKED"}
        = {p \in Pids : state[p] = "BLOCKED"} \union {current_pid}
  BY <1>1, <1>7
<1> QED
  BY <1>5, <1>6, <1>8, <1>9 DEF Promise!Sleep

(* the clock, *)
LEMMA OnClockWakes ==
    ASSUME KernelTypeOK, SchedInv, current_pid # NULL_PID, OnClock
    PROVE  Promise!Next
<1>1. PICK w \in InPidOrder(Due) :
        \/ Schedule(MarkedReady(state, ready_queue, w), Enqueued(ready_queue, w))
        \/ /\ state' = MarkedReady(state, ready_queue, w)
           /\ ready_queue' = Enqueued(ready_queue, w)
           /\ UNCHANGED current_pid
  BY DEF OnClock
<1> DEFINE st     == MarkedReady(state, ready_queue, w)
           q      == Enqueued(ready_queue, w)
           asleep == {p \in Pids : state[p] = "BLOCKED"}
<1>2. Due \in SUBSET asleep /\ Due \in SUBSET Pids
  BY DEF KernelTypeOK, Due, Sleeping
<1>3. /\ state \in [Pids -> ProcessState] /\ ready_queue \in Seq(Pids)
      /\ Queued(state, ready_queue)
      /\ \A p \in Due : state[p] # "READY"
  BY <1>2 DEF KernelTypeOK, SchedInv
<1>4. /\ w \in Seq(Pids)
      /\ \A i, j \in 1 .. Len(w) : w[i] = w[j] => i = j
      /\ \A p \in Pids : p \in Due <=> \E i \in 1 .. Len(w) : w[i] = p
  BY <1>2, InPidOrderList
<1>5. q = ready_queue \o w
  <2>1. \A i \in 1 .. Len(w) : w[i] \in Pids
    BY <1>4, ElementOfSeq
  <2>2. Queueable(state, w)
    BY <1>3, <1>4, <2>1 DEF Queueable
  <2> QED
    BY <1>3, <1>4, <2>2, EnqueueQueued
<1>6. /\ st \in [Pids -> ProcessState]
      /\ q \in Seq(Pids)
      /\ Queued(st, q)
      /\ \A p \in Pids : st[p] = IF p \in Due THEN "READY" ELSE state[p]
  BY <1>2, <1>3, WakeQueued
<1>7. current_pid \in Pids /\ state[current_pid] = "RUNNING" /\ current_pid \notin Due
  BY <1>2, CurrentRuns
<1>8. \/ Schedule(st, q)
      \/ state' = st /\ ready_queue' = q /\ UNCHANGED current_pid
  BY <1>1
<1>9. partition_id' = partition_id
  BY DEF OnClock
<1> HIDE DEF st, q
<1>10. \/ ready_queue' = ready_queue \o w /\ UNCHANGED current_pid
       \/ Promise!HandOver((ready_queue \o w) \o <<current_pid>>)
  <2>1. st[current_pid] = "RUNNING"
    BY <1>6, <1>7
  <2>2. CASE Schedule(st, q)
    <3>1. Promise!HandOver(q \o <<current_pid>>)
      BY <1>6, <1>7, <2>1, <2>2, ScheduleHandsOver
    <3> QED
      BY <1>5, <3>1
  <2>3. CASE state' = st /\ ready_queue' = q /\ UNCHANGED current_pid
    BY <1>5, <2>3
  <2> QED
    BY <1>8, <2>2, <2>3
<1>11. \A p \in Pids :
        IF state[p] \in {"READY", "RUNNING"} \/ p \in Due
        THEN state'[p] \in {"READY", "RUNNING"}
        ELSE state'[p] = state[p]
  BY OnClockMoves
<1>12. Live(state') = Live(state)
  BY <1>2, <1>11 DEF Live
<1>13. {p \in Pids : state'[p] = "BLOCKED"} = asleep \ Promise!Range(w)
  <2>1. {p \in Pids : state'[p] = "BLOCKED"} = asleep \ Due
    BY <1>11
  <2>2. DOMAIN w = 1 .. Len(w)
    BY <1>4, LenProperties
  <2>3. \A i \in 1 .. Len(w) : w[i] \in Pids
    BY <1>4, ElementOfSeq
  <2>4. Due = Promise!Range(w)
    BY <1>2, <1>4, <2>2, <2>3 DEF Promise!Range
  <2> QED
    BY <2>1, <2>4
<1>14. Promise!Wake(w)
  BY <1>7, <1>9, <1>10, <1>12, <1>13 DEF Promise!Wake
<1>15. w \in Promise!Awakenings
  <2>1. Len(w) <= MAX_PROCESSES /\ Len(w) \in Nat /\ DOMAIN w = 1 .. Len(w)
    BY <1>4, DistinctFit, LenProperties
  <2>2. w \in [1 .. Len(w) -> asleep]
    <3>1. w \in [1 .. Cardinality(Due) -> Due]
      BY DEF InPidOrder
    <3> QED
      BY <1>2, <2>1, <3>1
  <2>3. Promise!IsInjective(w)
    BY <1>4, <2>1 DEF Promise!IsInjective
  <2> QED
    BY <2>1, <2>2, <2>3 DEF Promise!Awakenings
<1> QED
  BY <1>14, <1>15 DEF Promise!Next

(* a program loaded, *)
LEMMA LoadOkAdmits ==
    ASSUME TypeOK, SchedInv, NEW prog \in Programs, LoadOk(prog)
    PROVE  Promise!Next
<1>1. PICK p \in Pids, part \in Partitions :
        /\ Created(prog, p)
        /\ TakePartition(part)
        /\ partition_id' = [partition_id EXCEPT ![p] = part]
        /\ state' = MarkedReady(CreatedState(p), ready_queue, <<p>>)
        /\ ready_queue' = Enqueued(ready_queue, <<p>>)
  BY DEF LoadOk
<1>2. current_pid' = current_pid
  BY DEF LoadOk
<1>3. IsLeast(p, FreeSlots)
  BY <1>1 DEF Created
<1> DEFINE st == CreatedState(p)
<1>4. /\ state[p] = "TERMINATED"
      /\ st \in [Pids -> ProcessState]
      /\ \A r \in Pids : st[r] = IF r = p THEN "NEW" ELSE state[r]
      /\ Queued(st, ready_queue)
  BY <1>3, CreatedSched DEF TypeOK
<1> HIDE DEF st
<1>5. <<p>> \in Seq(Pids) /\ Len(<<p>>) = 1 /\ <<p>>[1] = p
  OBVIOUS
<1>6. Queueable(st, <<p>>)
  BY <1>4, <1>5 DEF Queueable
<1>7. /\ NowReady(st, <<p>>, state')
      /\ ready_queue' = ready_queue \o <<p>>
  BY <1>1, <1>4, <1>5, <1>6, EnqueueQueued DEF TypeOK, KernelTypeOK, st
<1>8. ready_queue' = Append(ready_queue, p)
  BY <1>7, AppendIsConcat DEF TypeOK, KernelTypeOK
<1>9. \A r \in Pids : state'[r] = IF r = p THEN "READY" ELSE state[r]
  BY <1>4, <1>5, <1>7 DEF NowReady
<1>10. Live(state') = Live(state) \union {p} /\ p \notin Live(state)
  BY <1>4, <1>9 DEF Live
<1>11. {r \in Pids : state'[r] = "BLOCKED"} = {r \in Pids : state[r] = "BLOCKED"}
  BY <1>4, <1>9
<1>12. \A r \in Live(state) : partition_id[r] # part
  BY <1>1 DEF SchedInv, PartitionsOwned, TakePartition, IsLeast, FreePartitions
<1>13. [r \in Live(state') |-> partition_id'[r]] =
        [r \in Live(state) \union {p} |-> IF r = p THEN part ELSE partition_id[r]]
  <2>1. /\ partition_id'[p] = part
        /\ \A r \in Live(state) : partition_id'[r] = partition_id[r]
    BY <1>1, <1>10 DEF TypeOK, KernelTypeOK, Live
  <2> QED
    BY <1>10, <2>1
<1>14. Promise!Admit(p, part)
  BY <1>2, <1>8, <1>10, <1>11, <1>12, <1>13 DEF Promise!Admit, Promise!Resident
<1> QED
  BY <1>14 DEF Promise!Next, Promise!Pids, Pids

(* the start of the programs of a list, which may find a process that the  *)
(* CPU stopped in: its turn is over,                                       *)
LEMMA EndOfListStarts ==
    ASSUME KernelTypeOK, SchedInv, Schedule(state, ready_queue),
           UNCHANGED partition_id
    PROVE  Promise!Next
<1>1. /\ state \in [Pids -> ProcessState] /\ ready_queue \in Seq(Pids)
      /\ current_pid \in Pids \union {NULL_PID}
  BY DEF KernelTypeOK
<1>2. Queued(state, ready_queue) /\ \A p \in Pids : state[p] = "RUNNING" => p = current_pid
  BY DEF SchedInv, Running
<1>3. Scheduled(state)
  BY <1>1, <1>2, ScheduleScheduled
<1>4. Live(state') = Live(state)
  BY <1>1, <1>3, LiveScheduled
<1>5. {p \in Pids : state'[p] = "BLOCKED"} = {p \in Pids : state[p] = "BLOCKED"}
  BY <1>1, <1>3 DEF Scheduled
<1>6. CASE current_pid = NULL_PID
  <2>1. Promise!HandOver(ready_queue)
    BY <1>1, <1>2, <1>6, ScheduleHandsOver
  <2>2. Promise!Start
    BY <1>4, <1>5, <1>6, <2>1 DEF Promise!Start
  <2> QED
    BY <2>2 DEF Promise!Next
<1>7. CASE current_pid # NULL_PID
  <2>1. state[current_pid] = "RUNNING"
    BY <1>7, CurrentRuns
  <2>2. Promise!HandOver(ready_queue \o <<current_pid>>)
    BY <1>1, <1>2, <1>7, <2>1, ScheduleHandsOver
  <2>3. ready_queue \o <<>> = ready_queue
    BY <1>1, ConcatEmptySeq
  <2>4. Promise!Range(<<>>) = {}
    BY DEF Promise!Range
  <2>5. Promise!Wake(<<>>)
    BY <1>4, <1>5, <1>7, <2>2, <2>3, <2>4 DEF Promise!Wake
  <2>6. <<>> \in Promise!Awakenings
    <3>1. <<>> \in [1 .. 0 -> {p \in Pids : state[p] = "BLOCKED"}]
      OBVIOUS
    <3>2. Promise!IsInjective(<<>>)
      BY DEF Promise!IsInjective
    <3> QED
      BY <3>1, <3>2 DEF Promise!Awakenings
  <2> QED
    BY <2>5, <2>6 DEF Promise!Next
<1> QED
  BY <1>6, <1>7

(* and any outcome of `ejecutar'. *)
LEMMA LoadingKeeps ==
    ASSUME TypeOK, SchedInv, Loading
    PROVE  [Promise!Next]_(Promise!mvars)
<1>1. ASSUME NEW prog \in Programs, LoadFails(prog)
      PROVE  UNCHANGED Promise!mvars
  BY <1>1, TablesStutter DEF LoadFails
<1>2. ASSUME NEW prog \in Programs, AddFails(prog) \/ LoadStops(prog)
      PROVE  UNCHANGED Promise!mvars
  <2>1. PICK p \in Pids :
            /\ IsLeast(p, FreeSlots)
            /\ state' = CreatedState(p)
            /\ partition_id' = CreatedPartition(p)
    BY <1>2 DEF AddFails, LoadStops, Created
  <2>2. UNCHANGED <<ready_queue, current_pid>>
    BY <1>2 DEF AddFails, LoadStops
  <2>3. /\ state[p] = "TERMINATED"
        /\ \A r \in Pids : state'[r] = IF r = p THEN "NEW" ELSE state[r]
        /\ Live(state') = Live(state)
    BY <2>1, CreatedSched DEF TypeOK
  <2>4. \A r \in Live(state) : partition_id'[r] = partition_id[r]
    BY <2>1, <2>3 DEF CreatedPartition, TypeOK, KernelTypeOK, Live
  <2>5. [r \in Live(state') |-> partition_id'[r]] = [r \in Live(state) |-> partition_id[r]]
    BY <2>3, <2>4
  <2>6. {r \in Pids : state'[r] = "BLOCKED"} = {r \in Pids : state[r] = "BLOCKED"}
    BY <2>3
  <2> QED
    BY <2>2, <2>5, <2>6 DEF Promise!mvars
<1>3. ASSUME EndOfList
      PROVE  [Promise!Next]_(Promise!mvars)
  <2>1. \/ UNCHANGED kvars
        \/ Schedule(state, ready_queue) /\ UNCHANGED partition_id
    BY <1>3 DEF EndOfList
  <2>2. CASE UNCHANGED kvars
    BY <2>2, TablesStutter DEF kvars
  <2>3. CASE Schedule(state, ready_queue) /\ UNCHANGED partition_id
    BY <2>3, EndOfListStarts DEF TypeOK
  <2> QED
    BY <2>1, <2>2, <2>3
<1> QED
  BY <1>1, <1>2, <1>3, LoadOkAdmits DEF Loading

-----------------------------------------------------------------------------
(* Each step of the machine but a restart. *)
LEMMA StepPromise ==
    ASSUME TypeOK, SchedInv, [Next]_vars, ~Reiniciar
    PROVE  [Promise!Next]_(Promise!mvars)
<1>1. ASSUME UNCHANGED kvars PROVE UNCHANGED Promise!mvars
  BY <1>1, TablesStutter DEF kvars
<1>2. CASE Shell
  BY <1>1, <1>2 DEF Shell, Ejecutar, Apagar
<1>3. CASE Loading
  BY <1>3, LoadingKeeps
<1>4. CASE Executes
  BY <1>1, <1>4, ExecutesType
<1>5. CASE Attending
  <2>1. \/ UNCHANGED kvars
        \/ current_pid # NULL_PID /\ Terminate
        \/ current_pid # NULL_PID /\ OnClock
        \/ current_pid # NULL_PID /\ \E n \in 1 .. MaxSleep : Sleep(n)
    BY <1>5, AttendingKernel
  <2>2. CASE current_pid # NULL_PID /\ Terminate
    BY <2>2, TerminateEnds DEF TypeOK, Promise!Next
  <2>3. CASE current_pid # NULL_PID /\ OnClock
    BY <2>3, OnClockWakes DEF TypeOK
  <2>4. CASE current_pid # NULL_PID /\ \E n \in 1 .. MaxSleep : Sleep(n)
    BY <2>4, SleepSleeps DEF TypeOK, Promise!Next
  <2> QED
    BY <1>1, <2>1, <2>2, <2>3, <2>4
<1>6. CASE ReadInput \/ DmaTransfer \/ DmaNotifyFlag \/ DmaNotifyCode
  BY <1>1, <1>6 DEF ReadInput, DmaTransfer, DmaNotifyFlag, DmaNotifyCode
<1>7. CASE UNCHANGED vars
  BY <1>1, <1>7 DEF vars
<1> QED
  BY <1>2, <1>3, <1>4, <1>5, <1>6, <1>7 DEF Next, Off

(* A restart with an empty queue ends the sleepers, and nobody else.       *)
LEMMA RestartEmpties ==
    ASSUME Quiet, Reiniciar
    PROVE  Promise!Restart
<1>1. current_pid = NULL_PID /\ ready_queue = <<>>
  BY DEF Reiniciar, Quiet
<1>2. current_pid' = NULL_PID /\ ready_queue' = <<>>
  BY <1>1 DEF Reiniciar, KernelReinit
<1>3. \A p \in Pids : state'[p] = "TERMINATED"
  BY DEF Reiniciar, KernelReinit
<1>4. {p \in Pids : state'[p] = "BLOCKED"} = {}
  BY <1>3
<1>5. Live(state') = {}
  BY <1>3 DEF Live
<1> QED
  BY <1>1, <1>2, <1>4, <1>5 DEF Promise!Restart

(* The kernel of kernel.c, driven by the shell of main.c and the cycle of  *)
(* cpu.c, implements Multiprogramming in every session whose restarts are  *)
(* clean: no process is lost, repeated, overtaken, moved from its          *)
(* partition, or ended by what another one does.                           *)
THEOREM ImplementsPromise ==
    ASSUME RestartsAreClean
    PROVE  Spec => KeepsPromise
<1>1. Init => Promise!Init
  BY DEF Init, KernelInit, Promise!Init, Live
<1>2. CASE "reiniciar" \notin Commands
  <2>1. TypeOK /\ SchedInv /\ [Next]_vars => [Promise!Next]_(Promise!mvars)
    BY <1>2, StepPromise DEF Reiniciar
  <2> QED
    BY <1>1, <2>1, SchedInvariant, PTL DEF Spec, KeepsPromise, Promise!Spec
<1>3. CASE NoneStops
  <2>1. TypeOK /\ SchedInv /\ Quiet /\ [Next]_vars
          => [Promise!Next]_(Promise!mvars)
    BY StepPromise, RestartEmpties DEF Promise!Next
  <2> QED
    BY <1>1, <1>3, <2>1, QuietInvariant, PTL
       DEF Spec, KeepsPromise, Promise!Spec
<1> QED
  BY <1>2, <1>3 DEF RestartsAreClean

-----------------------------------------------------------------------------
(* Nobody is overtaken. *)

(* Behind a queue others are put; the CPU may be handed to its head.       *)
Follows(q, q1, c1) ==
    \E x \in Seq(Pids) :
        \/ q1 = q \o x
        \/ q \o x # <<>> /\ c1 = Head(q \o x) /\ q1 = Tail(q \o x)
        \/ q \o x = <<>>

(* That brings whoever stays in the queue nearer to its head.              *)
LEMMA FollowsForward ==
    ASSUME NEW q \in Seq(Pids), NEW q1, NEW c1, Follows(q, q1, c1),
           NEW p, NEW i \in Position(q, p), c1 # p
    PROVE  \E j \in Position(q1, p) : j <= i
<1>1. PICK x \in Seq(Pids) :
        \/ q1 = q \o x
        \/ q \o x # <<>> /\ c1 = Head(q \o x) /\ q1 = Tail(q \o x)
        \/ q \o x = <<>>
  BY DEF Follows
<1> DEFINE qx == q \o x
<1>2. /\ qx \in Seq(Pids)
      /\ Len(qx) = Len(q) + Len(x)
      /\ \A k \in 1 .. Len(q) + Len(x) :
            qx[k] = IF k <= Len(q) THEN q[k] ELSE x[k - Len(q)]
  BY ConcatProperties
<1>3. Len(q) \in Nat /\ Len(x) \in Nat
  BY LenProperties
<1>4. i \in 1 .. Len(q) /\ q[i] = p
  BY DEF Position
<1>5. q1 = qx \/ (qx # <<>> /\ c1 = Head(qx) /\ q1 = Tail(qx)) \/ qx = <<>>
  BY <1>1
<1> HIDE DEF qx
<1>6. i \in 1 .. Len(qx) /\ qx[i] = p
  BY <1>2, <1>3, <1>4
<1>7. CASE q1 = qx
  BY <1>6, <1>7 DEF Position
<1>8. CASE qx # <<>> /\ c1 = Head(qx) /\ q1 = Tail(qx)
  <2>1. /\ Head(qx) = qx[1]
        /\ Len(Tail(qx)) = Len(qx) - 1
        /\ \A k \in 1 .. Len(Tail(qx)) : Tail(qx)[k] = qx[k + 1]
    BY <1>2, <1>8, HeadTailProperties
  <2>2. i # 1
    BY <1>6, <1>8, <2>1
  <2>3. i - 1 \in 1 .. Len(q1) /\ (i - 1) + 1 = i
    BY <1>2, <1>3, <1>4, <1>8, <2>1, <2>2
  <2>4. q1[i - 1] = p
    BY <1>6, <1>8, <2>1, <2>3
  <2>5. i - 1 \in Position(q1, p) /\ i - 1 <= i
    BY <1>4, <2>3, <2>4 DEF Position
  <2> QED
    BY <2>5
<1>9. CASE qx = <<>>
  BY <1>2, <1>3, <1>4, <1>9
<1> QED
  BY <1>5, <1>7, <1>8, <1>9

(* All that the promise allows to happen to the queue is of that form.     *)
LEMMA PromiseFollows ==
    ASSUME TypeOK, [Promise!Next]_(Promise!mvars)
    PROVE  Follows(ready_queue, ready_queue', current_pid')
<1>1. ready_queue \in Seq(Pids) /\ <<>> \in Seq(Pids)
      /\ current_pid \in Pids \union {NULL_PID}
  BY DEF TypeOK, KernelTypeOK
<1>2. ready_queue \o <<>> = ready_queue
  BY <1>1, ConcatEmptySeq
<1>3. ASSUME NEW x \in Seq(Pids), Promise!HandOver(ready_queue \o x)
      PROVE  Follows(ready_queue, ready_queue', current_pid')
  BY <1>3 DEF Promise!HandOver, Follows
<1>4. CASE Promise!Start \/ Promise!Sleep \/ Promise!End
  <2>1. Promise!HandOver(ready_queue)
    BY <1>4 DEF Promise!Start, Promise!Sleep, Promise!End
  <2> QED
    BY <1>1, <1>2, <1>3, <2>1
<1>5. ASSUME NEW p \in Pids, NEW part \in Partitions, Promise!Admit(p, part)
      PROVE  Follows(ready_queue, ready_queue', current_pid')
  <2>1. ready_queue' = ready_queue \o <<p>> /\ <<p>> \in Seq(Pids)
    BY <1>1, <1>5, AppendIsConcat DEF Promise!Admit
  <2> QED
    BY <2>1 DEF Follows
<1>6. ASSUME NEW w \in Promise!Awakenings, Promise!Wake(w)
      PROVE  Follows(ready_queue, ready_queue', current_pid')
  <2>1. PICK n \in 0 .. MAX_PROCESSES : w \in [1 .. n -> {p \in Pids : state[p] = "BLOCKED"}]
    BY DEF Promise!Awakenings
  <2>2. w \in Seq(Pids)
    BY <2>1, SeqDef
  <2>3. CASE ready_queue' = ready_queue \o w
    BY <2>2, <2>3 DEF Follows
  <2>4. CASE Promise!HandOver((ready_queue \o w) \o <<current_pid>>)
    <3>1. current_pid \in Pids
      BY <1>1, <1>6 DEF Promise!Wake
    <3> DEFINE x == w \o <<current_pid>>
    <3>2. <<current_pid>> \in Seq(Pids)
      BY <3>1
    <3>3. x \in Seq(Pids)
      BY <2>2, <3>2, ConcatProperties
    <3>4. (ready_queue \o w) \o <<current_pid>> = ready_queue \o x
      BY <1>1, <2>2, <3>2, ConcatAssociative
    <3> HIDE DEF x
    <3> QED
      BY <1>3, <2>4, <3>3, <3>4
  <2> QED
    BY <1>6, <2>3, <2>4 DEF Promise!Wake
<1>7. CASE Promise!Restart \/ UNCHANGED Promise!mvars
  <2>1. ready_queue' = ready_queue \o <<>>
    BY <1>2, <1>7 DEF Promise!mvars, Promise!Restart
  <2> QED
    BY <1>1, <2>1 DEF Follows
<1> QED
  BY <1>4, <1>5, <1>6, <1>7 DEF Promise!Next, Promise!Pids, Pids

(* Nobody is overtaken, from the moment it is queued until it gets the     *)
(* CPU: wake-ups, `ejecutar' and the end of a turn put others behind, and  *)
(* schedule() takes the head (enqueue_ready, dequeue_ready).               *)
THEOREM NobodyOvertaken ==
    ASSUME RestartsAreClean
    PROVE  Spec => NoOvertaking
<1>1. TypeOK /\ SchedInv /\ [Next]_vars =>
        [\A p \in used \intersect used' :
            Position(ready_queue, p) # {} /\ current_pid' # p =>
                \E i \in Position(ready_queue, p), j \in Position(ready_queue', p) :
                    j <= i]_vars
  <2> SUFFICES ASSUME TypeOK, SchedInv, [Next]_vars,
                      NEW p \in used \intersect used',
                      Position(ready_queue, p) # {}, current_pid' # p
               PROVE  \E i \in Position(ready_queue, p),
                          j \in Position(ready_queue', p) : j <= i
    OBVIOUS
  <2>1. ~Reiniciar
    BY DEF Reiniciar, KernelReinit
  <2>2. Follows(ready_queue, ready_queue', current_pid')
    BY <2>1, StepPromise, PromiseFollows
  <2>3. PICK i \in Position(ready_queue, p) : TRUE
    OBVIOUS
  <2> QED
    BY <2>2, <2>3, FollowsForward DEF TypeOK, KernelTypeOK
<1> QED
  BY <1>1, SchedInvariant, PTL DEF Spec, NoOvertaking

-----------------------------------------------------------------------------
(* Contexts and traps. *)

(* The words the CPU meets when it has no process raise nothing that would *)
(* be served on account of the next one.                                   *)
IdleNeverTraps == IdleEffects \intersect {"SVC", "FAULT", "FETCH"} = {}

(* A trap that waits to be attended was raised by the current process.     *)
TrapOfCurrent ==
    pending \in {"SYSCALL", "FATAL"} =>
        current_pid # NULL_PID /\ raised_by = current_pid

(* handle_interrupt saves the context before the kernel gives the CPU to   *)
(* another; nothing else changes hands while a process is current.         *)
LEMMA StepContexts ==
    ASSUME TypeOK, Quiet, SavedContexts, [Next]_vars
    PROVE  SavedContexts'
<1>1. current_pid = NULL_PID => behind = {}
  BY DEF TypeOK, MachineTypeOK, SavedContexts, Pids, NULL_PID
<1>2. CASE Shell \/ EndOfList
  <2>1. behind' = behind /\ (current_pid = NULL_PID \/ UNCHANGED current_pid)
    BY <1>2 DEF Shell, Ejecutar, Reiniciar, Apagar, EndOfList, Quiet, kvars
  <2> QED
    BY <1>1, <2>1 DEF SavedContexts
<1>3. ASSUME NEW prog \in Programs,
             LoadFails(prog) \/ AddFails(prog) \/ LoadStops(prog) \/ LoadOk(prog)
      PROVE  SavedContexts'
  <2>1. behind' \subseteq behind /\ UNCHANGED current_pid
    BY <1>3 DEF LoadFails, AddFails, LoadStops, LoadOk, Created
  <2> QED
    BY <2>1 DEF SavedContexts
<1>4. CASE Executes
  <2>1. UNCHANGED current_pid
    BY <1>4, ExecutesType DEF kvars
  <2>2. behind' = behind \union ({current_pid} \ {NULL_PID})
    BY <1>4 DEF Executes, Plain, Svc, Fault, FetchFault, Privileged, Enable,
                Stop, Sdmaon, Retrn, Chmod, Instruction
  <2> QED
    BY <2>1, <2>2 DEF SavedContexts
<1>5. CASE Attending
  <2>1. behind' = behind \ {current_pid}
    BY <1>5 DEF Attending, IdleInterrupt, ClockInterrupt, FatalInterrupt,
                IoEndInterrupt, IgnoredInterrupt, EndCall, ReturningCall,
                SleepCall, ReadCall, Handles, Handling
  <2> QED
    BY <2>1 DEF SavedContexts
<1>6. CASE ReadInput \/ DmaTransfer \/ DmaNotifyFlag \/ DmaNotifyCode \/ UNCHANGED vars
  BY <1>6 DEF ReadInput, DmaTransfer, DmaNotifyFlag, DmaNotifyCode, vars, kvars, SavedContexts
<1> QED
  BY <1>2, <1>3, <1>4, <1>5, <1>6 DEF Next, Loading, Off

(* In a session without programs that stop, restarted or not, whoever has  *)
(* lost the CPU has its whole execution in its PCB (handle_interrupt,      *)
(* dispatch, cpu.c:201).                                                   *)
THEOREM ContextsSaved ==
    ASSUME NoneStops
    PROVE  Spec => []SavedContexts
<1>1. Init => SavedContexts
  BY DEF Init, SavedContexts
<1>2. TypeOK /\ Quiet /\ SavedContexts /\ [Next]_vars => SavedContexts'
  BY StepContexts
<1> QED
  BY <1>1, <1>2, QuietInvariant, PTL DEF Spec

(* Nobody starts a transfer. *)
NoTransfers == "SDMAON" \notin Effects \union IdleEffects

(* The DMA is quiet, threads that have not ended included, *)
DmaQuiet == ~dma_BUSY /\ dma_irqs = 0 /\ dma_codes = 0

(* and stays so.                                                           *)
LEMMA StepDmaQuiet ==
    ASSUME NoTransfers, DmaQuiet, [Next]_vars
    PROVE  DmaQuiet' /\ ~DmaNotifyFlag /\ ~DmaNotifyCode /\ ~DmaTransfer /\ ~Sdmaon
<1>1. ASSUME UNCHANGED <<dma_BUSY, dma_irqs, dma_codes>> PROVE DmaQuiet'
  BY <1>1 DEF DmaQuiet
<1>2. ~Sdmaon
  BY DEF Sdmaon, Instruction, NoTransfers
<1>3. ~DmaNotifyFlag /\ ~DmaNotifyCode /\ ~DmaTransfer
  BY DEF DmaTransfer, DmaNotifyFlag, DmaNotifyCode, DmaQuiet
<1>4. ASSUME Shell \/ Loading
      PROVE  DmaQuiet'
  BY <1>1, <1>4 DEF Shell, Ejecutar, Reiniciar, Apagar, Loading, LoadFails,
                    AddFails, LoadStops, LoadOk, EndOfList, dmavars
<1>5. ASSUME Svc \/ Fault \/ FetchFault \/ Privileged \/ Plain \/ Enable \/ Stop \/ Retrn \/ Chmod
      PROVE  DmaQuiet'
  BY <1>1, <1>5 DEF Svc, Fault, FetchFault, Privileged, Plain, Enable, Stop,
                    Retrn, Chmod, Raises, dmavars
<1>6. ASSUME Attending \/ ReadInput
      PROVE  DmaQuiet'
  BY <1>1, <1>6 DEF Attending, IdleInterrupt, ClockInterrupt, FatalInterrupt,
                    IoEndInterrupt, IgnoredInterrupt, EndCall, ReturningCall,
                    SleepCall, ReadCall, ReadInput, Handles, Handling, dmavars
<1>7. ASSUME UNCHANGED vars
      PROVE  DmaQuiet'
  BY <1>1, <1>7 DEF vars, dmavars
<1> QED
  BY <1>2, <1>3, <1>4, <1>5, <1>6, <1>7 DEF Next, Executes, Off

(* A trap is raised by the current process, the end of its service clears  *)
(* it, and the CPU does not change hands outside the service.              *)
LEMMA StepTrap ==
    ASSUME IdleNeverTraps, NoTransfers, Quiet, DmaQuiet, TrapOfCurrent, [Next]_vars
    PROVE  TrapOfCurrent'
<1>1. ASSUME UNCHANGED <<pending, raised_by, current_pid>> PROVE TrapOfCurrent'
  BY <1>1 DEF TrapOfCurrent
<1>2. ASSUME pending' \notin {"SYSCALL", "FATAL"} PROVE TrapOfCurrent'
  BY <1>2 DEF TrapOfCurrent
<1>3. CASE Shell
  BY <1>1, <1>2, <1>3 DEF Shell, Ejecutar, Reiniciar, Apagar, kvars, cpuvars
<1>4. CASE EndOfList
  <2>1. pending' = pending /\ current_pid = NULL_PID
    BY <1>4 DEF EndOfList, Quiet, latch
  <2> QED
    BY <1>2, <2>1 DEF TrapOfCurrent
<1>5. ASSUME NEW prog \in Programs,
             LoadFails(prog) \/ AddFails(prog) \/ LoadStops(prog) \/ LoadOk(prog)
      PROVE  TrapOfCurrent'
  BY <1>1, <1>5 DEF LoadFails, AddFails, LoadStops, LoadOk, cpuvars
<1>6. CASE Svc \/ Fault \/ FetchFault
  <2>1. current_pid # NULL_PID
    BY <1>6 DEF Svc, Fault, FetchFault, Instruction, IdleNeverTraps
  <2>2. raised_by' = current_pid /\ UNCHANGED current_pid
    BY <1>6 DEF Svc, Fault, FetchFault, Instruction, Raises, kvars
  <2> QED
    BY <2>1, <2>2 DEF TrapOfCurrent
<1>7. CASE Privileged
  BY <1>2, <1>7 DEF Privileged, Raises, CpuInterrupt
<1>8. CASE Plain \/ Enable \/ Stop \/ Sdmaon \/ Retrn \/ Chmod
  BY <1>1, <1>8 DEF Plain, Enable, Stop, Sdmaon, Retrn, Chmod, Instruction, kvars, latch
<1>9. CASE Attending \/ ReadInput
  <2>1. CASE Resume
    BY <1>2, <2>1 DEF Resume
  <2>2. CASE ReadCall
    BY <1>1, <2>2 DEF ReadCall, kvars
  <2> QED
    BY <1>9, <2>1, <2>2
    DEF Attending, IdleInterrupt, ClockInterrupt, FatalInterrupt,
        IoEndInterrupt, IgnoredInterrupt, EndCall, ReturningCall, SleepCall,
        ReadInput
<1>10. ~DmaNotifyFlag /\ ~DmaNotifyCode /\ ~DmaTransfer
  BY StepDmaQuiet
<1>11. CASE UNCHANGED vars
  BY <1>1, <1>11 DEF vars, kvars, cpuvars
<1> QED
  BY <1>3, <1>4, <1>5, <1>6, <1>7, <1>8, <1>9, <1>10, <1>11
  DEF Next, Loading, Executes, Off

(* The invariant of the traps.                                             *)
LEMMA TrapInvariant ==
    ASSUME NoneStops, IdleNeverTraps, NoTransfers
    PROVE  Spec => [](DmaQuiet /\ TrapOfCurrent)
<1>1. Init => DmaQuiet
  BY DEF Init, DmaQuiet
<1>2. Init => TrapOfCurrent
  BY DEF Init, TrapOfCurrent
<1>3. DmaQuiet /\ [Next]_vars => DmaQuiet'
  BY StepDmaQuiet
<1>4. Quiet /\ DmaQuiet /\ TrapOfCurrent /\ [Next]_vars => TrapOfCurrent'
  BY StepTrap
<1> QED
  BY <1>1, <1>2, <1>3, <1>4, QuietInvariant, PTL DEF Spec

(* In such a session, if moreover nobody starts a transfer, a system call  *)
(* or a fatal code is served on account of the process that raised it,     *)
(* whatever DHAB and the restarts do (cpu_interrupt, handle_interrupt).    *)
(* A transfer's interrupt does make the CPU serve a system call that       *)
(* nobody has raised: its flag goes up before its code (cpu.c:190).        *)
THEOREM TrapsServedToTheirProcess ==
    ASSUME NoneStops, IdleNeverTraps, NoTransfers
    PROVE  Spec => []TrapsHitTheirProcess
<1>1. TrapOfCurrent => TrapsHitTheirProcess
  BY DEF TrapOfCurrent, TrapsHitTheirProcess
<1> QED
  BY <1>1, TrapInvariant, PTL

(* The running process is interruptible.                                   *)
Undisturbed == phase = "running" /\ current_pid # NULL_PID => Interrupts = TRUE

(* That is so as long as nobody executes DHAB.                             *)
LEMMA StepUndisturbed ==
    ASSUME "DHAB" \notin Effects, Undisturbed, [Next]_vars
    PROVE  Undisturbed'
<1>1. ASSUME phase' # "running" PROVE Undisturbed'
  BY <1>1 DEF Undisturbed
<1>2. ASSUME current_pid' # NULL_PID => Interrupts' = TRUE PROVE Undisturbed'
  BY <1>2 DEF Undisturbed
<1>3. ASSUME UNCHANGED <<Interrupts, current_pid>>, phase = "running"
      PROVE  Undisturbed'
  BY <1>3 DEF Undisturbed
<1>4. CASE Shell
  BY <1>1, <1>4 DEF Shell, Ejecutar, Reiniciar, Apagar
<1>5. CASE Loading
  BY <1>1, <1>2, <1>5 DEF Loading, LoadFails, AddFails, LoadStops, LoadOk, EndOfList
<1>6. CASE Svc \/ Fault \/ FetchFault \/ Privileged \/ Plain \/ Stop \/ Sdmaon \/ Retrn \/ Chmod
  BY <1>3, <1>6 DEF Svc, Fault, FetchFault, Privileged, Plain, Stop, Sdmaon,
                    Retrn, Chmod, Raises, Instruction, Cycle, kvars
<1>7. CASE Enable
  <2>1. current_pid' # NULL_PID => Interrupts' = TRUE
    BY <1>7 DEF Enable, Instruction, kvars
  <2> QED
    BY <1>2, <2>1
<1>8. CASE Attending \/ ReadInput
  <2>1. Resume \/ phase' = "input"
    BY <1>8 DEF Attending, IdleInterrupt, ClockInterrupt, FatalInterrupt,
                IoEndInterrupt, IgnoredInterrupt, EndCall, ReturningCall,
                SleepCall, ReadCall, ReadInput
  <2> QED
    BY <1>1, <1>2, <2>1 DEF Resume
<1>9. CASE DmaTransfer \/ DmaNotifyFlag \/ DmaNotifyCode \/ UNCHANGED vars
  BY <1>9 DEF DmaTransfer, DmaNotifyFlag, DmaNotifyCode, vars, kvars, cpuvars,
              Undisturbed
<1> QED
  BY <1>4, <1>5, <1>6, <1>7, <1>8, <1>9 DEF Next, Executes, Off

(* In such a session, if moreover nobody starts a transfer or disables the *)
(* interrupts, a trap is the next thing the kernel attends: neither the    *)
(* clock nor another trap replaces it (cpu.c:189).  A transfer that ends   *)
(* in between does: that is the finding of run trap_overwritten.           *)
THEOREM TrapsKept ==
    ASSUME NoneStops, IdleNeverTraps, NoTransfers, "DHAB" \notin Effects
    PROVE  Spec => TrapsNotOverwritten
<1>1. Init => Undisturbed
  BY DEF Init, Undisturbed
<1>2. Undisturbed /\ [Next]_vars => Undisturbed'
  BY StepUndisturbed
<1>3. DmaQuiet /\ TrapOfCurrent /\ Undisturbed /\ [Next]_vars =>
        [phase = "running" /\ pending \in {"SYSCALL", "FATAL"}
            => /\ pending' \in {pending, "NONE"}
               /\ Attends => Latched = pending]_vars
  <2> SUFFICES ASSUME DmaQuiet, TrapOfCurrent, Undisturbed, [Next]_vars,
                      phase = "running", pending \in {"SYSCALL", "FATAL"}
               PROVE  pending' \in {pending, "NONE"} /\ Latched = pending
    OBVIOUS
  <2>1. Latched = pending
    BY DEF Latched, CpuInterrupt
  <2>2. Attends
    BY <2>1 DEF Attends, TrapOfCurrent, Undisturbed
  <2>3. ~Executes
    BY <2>2 DEF Executes, Plain, Svc, Fault, FetchFault, Privileged, Enable,
                Stop, Sdmaon, Retrn, Chmod, Instruction
  <2>4. CASE Attending \/ ReadInput
    <3>1. Resume \/ UNCHANGED pending
      BY <2>4 DEF Attending, IdleInterrupt, ClockInterrupt, FatalInterrupt,
                  IoEndInterrupt, IgnoredInterrupt, EndCall, ReturningCall,
                  SleepCall, ReadCall, ReadInput
    <3> QED
      BY <2>1, <3>1 DEF Resume
  <2>5. ~DmaNotifyFlag /\ ~DmaNotifyCode /\ ~DmaTransfer
    BY StepDmaQuiet
  <2>6. CASE Shell \/ Loading
    BY <2>6 DEF Shell, Ejecutar, Reiniciar, Apagar, Loading, LoadFails,
                AddFails, LoadStops, LoadOk, EndOfList
  <2>7. CASE UNCHANGED vars
    BY <2>1, <2>7 DEF vars, cpuvars
  <2> QED
    BY <2>3, <2>4, <2>5, <2>6, <2>7 DEF Next, Off
<1> QED
  BY <1>1, <1>2, <1>3, TrapInvariant, PTL DEF Spec, TrapsNotOverwritten

=============================================================================

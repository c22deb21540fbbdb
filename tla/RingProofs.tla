----------------------------- MODULE RingProofs -----------------------------
(* The ring of kernel.c implements the bounded queue the rest of the       *)
(* kernel relies on, whatever the size of the process table.               *)
EXTENDS ReadyRing, SequenceTheorems, TLAPS

USE FifoAssumption

(* An index that has gone at most once around the ring. *)
LEMMA Around ==
    ASSUME NEW x \in Nat, x < 2 * MAX_PROCESSES
    PROVE  x % MAX_PROCESSES = IF x < MAX_PROCESSES THEN x ELSE x - MAX_PROCESSES
<1>1. CASE x < MAX_PROCESSES
  BY <1>1
<1>2. CASE x >= MAX_PROCESSES
  BY <1>2
<1> QED
  BY <1>1, <1>2
(* Places of the ring counted from a head h: they stay in the ring, and    *)
(* two of them meet only a whole turn apart.                               *)
LEMMA Places ==
    ASSUME NEW h \in Pids, NEW k \in 0 .. MAX_PROCESSES
    PROVE  /\ (h + k) % MAX_PROCESSES \in Pids
           /\ \A j \in 0 .. MAX_PROCESSES :
                 (h + j) % MAX_PROCESSES = (h + k) % MAX_PROCESSES
                   => j = k \/ j = k + MAX_PROCESSES \/ k = j + MAX_PROCESSES
<1>1. \A j \in 0 .. MAX_PROCESSES :
        (h + j) % MAX_PROCESSES
          = IF h + j < MAX_PROCESSES THEN h + j ELSE h + j - MAX_PROCESSES
  <2> SUFFICES ASSUME NEW j \in 0 .. MAX_PROCESSES
               PROVE  (h + j) % MAX_PROCESSES
                        = IF h + j < MAX_PROCESSES THEN h + j ELSE h + j - MAX_PROCESSES
    OBVIOUS
  <2>1. h + j \in Nat /\ h + j < 2 * MAX_PROCESSES
    BY DEF Pids
  <2> QED
    BY <2>1, Around DEF Pids
<1> QED
  BY <1>1 DEF Pids

LEMMA AfterPlace ==
    ASSUME NEW h \in Pids, NEW k \in 0 .. MAX_PROCESSES - 1
    PROVE  /\ After((h + k) % MAX_PROCESSES) = (h + (k + 1)) % MAX_PROCESSES
           /\ (After(h) + k) % MAX_PROCESSES = (h + (k + 1)) % MAX_PROCESSES
           /\ After(h) \in Pids
<1>1. /\ h + k \in Nat /\ h + k < 2 * MAX_PROCESSES
      /\ h + (k + 1) \in Nat /\ h + (k + 1) < 2 * MAX_PROCESSES
      /\ h + 1 \in Nat /\ h + 1 < 2 * MAX_PROCESSES
  BY DEF Pids
<1>2. After(h) = IF h + 1 < MAX_PROCESSES THEN h + 1 ELSE h + 1 - MAX_PROCESSES
  BY <1>1, Around DEF After, Pids
<1>3. After(h) \in Pids
  BY <1>2 DEF Pids
<1>4. After(h) + k \in Nat /\ After(h) + k < 2 * MAX_PROCESSES
  BY <1>3 DEF Pids
<1>5. (After(h) + k) % MAX_PROCESSES = (h + (k + 1)) % MAX_PROCESSES
  BY <1>1, <1>2, <1>4, Around DEF Pids
<1> DEFINE a == (h + k) % MAX_PROCESSES
<1>6. a = IF h + k < MAX_PROCESSES THEN h + k ELSE h + k - MAX_PROCESSES
  BY <1>1, Around DEF Pids
<1>7. a + 1 \in Nat /\ a + 1 < 2 * MAX_PROCESSES
  BY <1>6 DEF Pids
<1>8. After(a) = (h + (k + 1)) % MAX_PROCESSES
  <2>1. After(a) = IF a + 1 < MAX_PROCESSES THEN a + 1 ELSE a + 1 - MAX_PROCESSES
    BY <1>6, <1>7, Around DEF After, Pids
  <2>2. (h + (k + 1)) % MAX_PROCESSES
          = IF h + (k + 1) < MAX_PROCESSES THEN h + (k + 1) ELSE h + (k + 1) - MAX_PROCESSES
    BY <1>1, Around DEF Pids
  <2> QED
    BY <1>6, <2>1, <2>2 DEF Pids
<1> QED
  BY <1>3, <1>5, <1>8

-----------------------------------------------------------------------------
(* The shape of the ring is an invariant. *)

LEMMA ShapeInit == Init => RingShape
<1> SUFFICES ASSUME Init PROVE RingShape
  OBVIOUS
<1>1. 0 \in Pids
  BY DEF Pids
<1>2. (0 + 0) % MAX_PROCESSES = 0
  BY Around
<1> QED
  BY <1>1, <1>2 DEF Init, RingShape

LEMMA ShapeStep == RingShape /\ [Next]_vars => RingShape'
<1> SUFFICES ASSUME RingShape, [Next]_vars PROVE RingShape'
  OBVIOUS
<1>1. ASSUME NEW p \in Pids, enqueue_ready(p) PROVE RingShape'
  <2>1. CASE rq_count < MAX_PROCESSES
    <3>1. rq_count \in 0 .. MAX_PROCESSES - 1 /\ rq_count' = rq_count + 1 /\ rq_head' = rq_head
      BY <1>1, <2>1 DEF enqueue_ready, RingShape
    <3>2. rq_aux' = After(rq_aux) /\ rq_aux = (rq_head + rq_count) % MAX_PROCESSES
      BY <1>1, <2>1 DEF enqueue_ready, RingShape
    <3>3. /\ After((rq_head + rq_count) % MAX_PROCESSES)
               = (rq_head + (rq_count + 1)) % MAX_PROCESSES
          /\ rq_head \in Pids
      BY <3>1, AfterPlace DEF RingShape
    <3>4. After(rq_aux) \in Pids
      BY AfterPlace DEF RingShape
    <3>5. ring' \in [Pids -> Pids]
      BY <1>1, <2>1 DEF enqueue_ready, RingShape
    <3> QED
      BY <3>1, <3>2, <3>3, <3>4, <3>5 DEF RingShape
  <2>2. CASE ~(rq_count < MAX_PROCESSES)
    BY <1>1, <2>2 DEF enqueue_ready, RingShape
  <2> QED
    BY <2>1, <2>2
<1>2. CASE dequeue_ready
  <2>1. CASE rq_count = 0
    BY <1>2, <2>1 DEF dequeue_ready, RingShape
  <2>2. CASE rq_count > 0
    <3>1. /\ rq_count - 1 \in 0 .. MAX_PROCESSES - 1
          /\ rq_count' = rq_count - 1 /\ rq_head' = After(rq_head)
          /\ rq_aux' = rq_aux /\ ring' = ring
      BY <1>2, <2>2 DEF dequeue_ready, RingShape
    <3>2. /\ (After(rq_head) + (rq_count - 1)) % MAX_PROCESSES
               = (rq_head + ((rq_count - 1) + 1)) % MAX_PROCESSES
          /\ After(rq_head) \in Pids
      BY <3>1, AfterPlace DEF RingShape
    <3>3. rq_head + ((rq_count - 1) + 1) = rq_head + rq_count
      BY DEF RingShape, Pids
    <3> QED
      BY <3>1, <3>2, <3>3 DEF RingShape
  <2> QED
    BY <2>1, <2>2 DEF RingShape
<1>3. ASSUME NEW p \in Pids, NEW s \in ProcessState, Move(p, s) PROVE RingShape'
  BY <1>3 DEF Move, RingShape
<1>4. CASE kernel_init_structures
  BY <1>4 DEF kernel_init_structures, RingShape
<1>5. CASE UNCHANGED vars
  BY <1>5 DEF vars, RingShape
<1> QED
  BY <1>1, <1>2, <1>3, <1>4, <1>5 DEF Next

(* The counters of the ring agree at every step of the kernel.             *)
THEOREM RingKeepsShape == Spec => []RingShape
  BY ShapeInit, ShapeStep, PTL DEF Spec

-----------------------------------------------------------------------------
(* The refinement. *)

(* What the counters delimit is a sequence of rq_count pids.               *)
ContentsRead ==
    /\ Contents \in Seq(Pids) /\ Len(Contents) = rq_count
    /\ \A i \in 1 .. rq_count :
          Contents[i] = ring[(rq_head + (i - 1)) % MAX_PROCESSES]

LEMMA ContentsSeq == RingShape => ContentsRead
<1> SUFFICES ASSUME RingShape PROVE ContentsRead
  OBVIOUS
<1>1. \A i \in 1 .. rq_count : ring[(rq_head + (i - 1)) % MAX_PROCESSES] \in Pids
  <2> SUFFICES ASSUME NEW i \in 1 .. rq_count
               PROVE  ring[(rq_head + (i - 1)) % MAX_PROCESSES] \in Pids
    OBVIOUS
  <2>1. i - 1 \in 0 .. MAX_PROCESSES /\ rq_head \in Pids
    BY DEF RingShape
  <2>2. (rq_head + (i - 1)) % MAX_PROCESSES \in Pids
    BY <2>1, Places
  <2> QED
    BY <2>2 DEF RingShape
<1>2. rq_count \in Nat
  BY DEF RingShape
<1> QED
  BY <1>1, <1>2 DEF Contents, ContentsRead

(* The abstract queue is written with the operators of Fifo itself.        *)
LEMMA SameOperators ==
    /\ AsFifo!Pids = Pids
    /\ AsFifo!NULL_PID = NULL_PID
    /\ AsFifo!ProcessState = ProcessState
    /\ \A q, w : AsFifo!Enqueued(q, w) = Enqueued(q, w)
    /\ \A st, q, w : AsFifo!MarkedReady(st, q, w) = MarkedReady(st, q, w)
  BY DEF AsFifo!Pids, Pids, AsFifo!NULL_PID, NULL_PID, AsFifo!ProcessState,
         ProcessState, AsFifo!Enqueued, Enqueued, AsFifo!MarkedReady, MarkedReady

LEMMA EnqueueRefines ==
    ASSUME RingShape, RingShape', state \in [Pids -> ProcessState],
           NEW p \in Pids, enqueue_ready(p)
    PROVE  AsFifo!Enqueue(p)
<1>0. Contents \in Seq(Pids) /\ Len(Contents) = rq_count
  BY ContentsSeq DEF ContentsRead
<1>1. /\ <<p>> \in Seq(Pids) /\ Len(<<p>>) = 1 /\ <<p>>[1] = p
      /\ pid' = pid
  BY DEF enqueue_ready
<1>2. CASE rq_count < MAX_PROCESSES
  <2>1. /\ Contents' \in Seq(Pids) /\ Len(Contents') = rq_count + 1
        /\ \A i \in 1 .. rq_count + 1 :
              Contents'[i] = ring'[(rq_head + (i - 1)) % MAX_PROCESSES]
    <3>1. /\ Contents' \in Seq(Pids) /\ Len(Contents') = rq_count'
          /\ \A i \in 1 .. rq_count' :
              Contents'[i] = ring'[(rq_head' + (i - 1)) % MAX_PROCESSES]
      <4>1. ContentsRead'
        BY ContentsSeq, PTL
      <4> QED
        BY <4>1 DEF ContentsRead
    <3>2. rq_count' = rq_count + 1 /\ rq_head' = rq_head
      BY <1>2 DEF enqueue_ready, RingShape
    <3> QED
      BY <3>1, <3>2
  <2>2. \A i \in 1 .. rq_count + 1 : Contents'[i] = (Contents \o <<p>>)[i]
    <3> SUFFICES ASSUME NEW i \in 1 .. rq_count + 1
                 PROVE  Contents'[i] = (Contents \o <<p>>)[i]
      OBVIOUS
    <3> DEFINE place == (rq_head + (i - 1)) % MAX_PROCESSES
    <3>1. /\ rq_head \in Pids /\ rq_count \in 0 .. MAX_PROCESSES /\ i - 1 \in 0 .. MAX_PROCESSES
          /\ rq_aux = (rq_head + rq_count) % MAX_PROCESSES /\ rq_aux \in Pids
          /\ ring \in [Pids -> Pids]
      BY <1>2 DEF RingShape
    <3>2. place \in Pids
      BY <3>1, Places
    <3>3. ring'[place] = IF place = rq_aux THEN p ELSE ring[place]
      BY <1>2, <3>1, <3>2 DEF enqueue_ready
    <3>4. place = rq_aux <=> i = rq_count + 1
      <4>1. place = rq_aux =>
              \/ i - 1 = rq_count \/ i - 1 = rq_count + MAX_PROCESSES
              \/ rq_count = i - 1 + MAX_PROCESSES
        BY <3>1, Places
      <4> HIDE DEF place
      <4>2. place = rq_aux => i = rq_count + 1
        BY <1>2, <3>1, <4>1
      <4>3. i = rq_count + 1 => i - 1 = rq_count
        BY <3>1
      <4> QED
        BY <3>1, <4>2, <4>3 DEF place
    <3>5. (Contents \o <<p>>)[i] = IF i <= rq_count THEN Contents[i] ELSE p
      BY <1>0, <1>1, <3>1
    <3>6. i <= rq_count => Contents[i] = ring[place]
      BY <3>1, ContentsSeq DEF ContentsRead
    <3> HIDE DEF place
    <3>7. CASE i <= rq_count
      <4>1. i # rq_count + 1
        BY <3>1, <3>7
      <4> QED
        BY <2>1, <3>3, <3>4, <3>5, <3>6, <3>7, <4>1 DEF place
    <3>8. CASE i = rq_count + 1
      <4>1. ~(i <= rq_count)
        BY <3>1, <3>8
      <4> QED
        BY <2>1, <3>3, <3>4, <3>5, <3>8, <4>1 DEF place
    <3>9. i <= rq_count \/ i = rq_count + 1
      BY <3>1
    <3> QED
      BY <3>7, <3>8, <3>9
  <2>3. Contents \o <<p>> \in Seq(Pids) /\ Len(Contents \o <<p>>) = rq_count + 1
    BY <1>0, <1>1, ConcatProperties
  <2>4. Contents' = Contents \o <<p>>
    BY <2>1, <2>2, <2>3, SeqEqual
  <2>5. Contents' = Enqueued(Contents, <<p>>)
    BY <1>0, <1>1, <1>2, <2>4 DEF Enqueued, RingShape
  <2>6. state' = MarkedReady(state, Contents, <<p>>)
    <3>1. state' = [state EXCEPT ![p] = "READY"]
      BY <1>2 DEF enqueue_ready, RingShape
    <3>2. \A x \in Pids :
            (\E i \in 1 .. Len(<<p>>) :
                <<p>>[i] = x /\ Len(Contents) + i <= MAX_PROCESSES) <=> x = p
      BY <1>0, <1>1, <1>2 DEF RingShape
    <3> QED
      BY <3>1, <3>2 DEF MarkedReady
  <2> QED
    BY <1>1, <2>5, <2>6, SameOperators DEF AsFifo!Enqueue
<1>3. CASE ~(rq_count < MAX_PROCESSES)
  <2>1. UNCHANGED <<ring, rq_head, rq_count, state>> /\ rq_count = MAX_PROCESSES
    BY <1>3 DEF enqueue_ready, RingShape
  <2>2. Contents' = Contents
    BY <2>1 DEF Contents
  <2>3. Enqueued(Contents, <<p>>) = Contents
    <3>1. Enqueued(Contents, <<p>>) = SubSeq(Contents \o <<p>>, 1, MAX_PROCESSES)
      BY <1>0, <1>1, <2>1 DEF Enqueued
    <3>2. /\ 1 \in 1 .. Len(Contents) /\ MAX_PROCESSES \in 1 .. Len(Contents)
          /\ MAX_PROCESSES = Len(Contents)
      BY <1>0, <2>1
    <3>3. SubSeq(Contents \o <<p>>, 1, MAX_PROCESSES) = SubSeq(Contents, 1, MAX_PROCESSES)
      BY <1>0, <1>1, <3>2, SubSeqOfConcat1
    <3> QED
      BY <1>0, <3>1, <3>2, <3>3, SubSeqFull
  <2>4. MarkedReady(state, Contents, <<p>>) = state
    <3>1. \A x \in Pids : ~ \E i \in 1 .. Len(<<p>>) :
            <<p>>[i] = x /\ Len(Contents) + i <= MAX_PROCESSES
      BY <1>0, <1>1, <2>1
    <3> QED
      BY <3>1 DEF MarkedReady
  <2> QED
    BY <1>1, <2>1, <2>2, <2>3, <2>4, SameOperators DEF AsFifo!Enqueue
<1> QED
  BY <1>2, <1>3

LEMMA DequeueRefines ==
    ASSUME RingShape, RingShape', dequeue_ready
    PROVE  AsFifo!Dequeue
<1>0. Contents \in Seq(Pids) /\ Len(Contents) = rq_count
  BY ContentsSeq DEF ContentsRead
<1>1. CASE rq_count = 0
  <2>1. Contents = <<>>
    BY <1>0, <1>1
  <2>2. Contents' = Contents /\ pid' = NULL_PID /\ state' = state
    BY <1>1 DEF dequeue_ready, Contents
  <2> QED
    BY <2>1, <2>2, SameOperators DEF AsFifo!Dequeue
<1>2. CASE rq_count > 0
  <2>1. /\ Contents # <<>> /\ rq_count \in Nat
        /\ rq_head \in Pids /\ rq_count - 1 \in 0 .. MAX_PROCESSES - 1
    BY <1>0, <1>2 DEF RingShape
  <2>2. /\ Tail(Contents) \in Seq(Pids) /\ Len(Tail(Contents)) = rq_count - 1
        /\ \A i \in 1 .. rq_count - 1 : Tail(Contents)[i] = Contents[i + 1]
    BY <1>0, <2>1, HeadTailProperties
  <2>3. rq_count' = rq_count - 1 /\ rq_head' = After(rq_head) /\ ring' = ring
        /\ pid' = ring[rq_head] /\ state' = state
    BY <1>2 DEF dequeue_ready, RingShape
  <2>4. /\ Contents' \in Seq(Pids) /\ Len(Contents') = rq_count'
        /\ \A i \in 1 .. rq_count' :
              Contents'[i] = ring'[(rq_head' + (i - 1)) % MAX_PROCESSES]
    <3>1. ContentsRead'
      BY ContentsSeq, PTL
    <3> QED
      BY <3>1 DEF ContentsRead
  <2>5. \A i \in 1 .. rq_count - 1 : Contents'[i] = Tail(Contents)[i]
    <3> SUFFICES ASSUME NEW i \in 1 .. rq_count - 1
                 PROVE  Contents'[i] = Tail(Contents)[i]
      OBVIOUS
    <3>1. i - 1 \in 0 .. MAX_PROCESSES - 1 /\ i + 1 \in 1 .. rq_count /\ (i - 1) + 1 = (i + 1) - 1
      BY <2>1
    <3>2. (After(rq_head) + (i - 1)) % MAX_PROCESSES = (rq_head + ((i - 1) + 1)) % MAX_PROCESSES
      BY <2>1, <3>1, AfterPlace
    <3>3. Contents[i + 1] = ring[(rq_head + ((i + 1) - 1)) % MAX_PROCESSES]
      BY <3>1, ContentsSeq DEF ContentsRead
    <3> QED
      BY <2>2, <2>3, <2>4, <3>1, <3>2, <3>3
  <2>6. Contents' = Tail(Contents)
    BY <2>2, <2>3, <2>4, <2>5, SeqEqual
  <2>7. pid' = Head(Contents)
    <3>1. 1 \in 1 .. rq_count
      BY <2>1
    <3>2. Contents[1] = ring[(rq_head + (1 - 1)) % MAX_PROCESSES]
      BY <3>1, ContentsSeq DEF ContentsRead
    <3>3. (rq_head + (1 - 1)) % MAX_PROCESSES = rq_head
      BY <2>1, Around DEF Pids
    <3> QED
      BY <1>0, <2>1, <2>3, <3>2, <3>3
  <2> QED
    BY <2>1, <2>3, <2>6, <2>7 DEF AsFifo!Dequeue
<1> QED
  BY <1>1, <1>2 DEF RingShape

LEMMA InitRefines == Init => AsFifo!Init
<1> SUFFICES ASSUME Init PROVE AsFifo!Init
  OBVIOUS
<1>1. Contents = <<>>
  BY ShapeInit, ContentsSeq DEF Init, ContentsRead
<1> QED
  BY <1>1, SameOperators DEF Init, AsFifo!Init

LEMMA StepRefines ==
    RingShape /\ RingShape' /\ state \in [Pids -> ProcessState] /\ [Next]_vars
        => [AsFifo!Next]_AsFifo!vars
<1> SUFFICES ASSUME RingShape, RingShape', state \in [Pids -> ProcessState], [Next]_vars
             PROVE  AsFifo!Next \/ UNCHANGED AsFifo!vars
  OBVIOUS
<1>1. ASSUME NEW p \in Pids, enqueue_ready(p) PROVE AsFifo!Next
  BY <1>1, EnqueueRefines, SameOperators DEF AsFifo!Next
<1>2. CASE dequeue_ready
  BY <1>2, DequeueRefines DEF AsFifo!Next
<1>3. ASSUME NEW p \in Pids, NEW s \in ProcessState, Move(p, s) PROVE AsFifo!Next
  <2>1. state' \in [Pids -> ProcessState] /\ Contents' = Contents /\ pid' = pid
    BY <1>3 DEF Move, Contents
  <2> QED
    BY <2>1, SameOperators DEF AsFifo!Next, AsFifo!Move
<1>4. CASE kernel_init_structures
  <2>1. state' \in [Pids -> ProcessState] /\ Contents' = Contents /\ pid' = pid
    BY <1>4 DEF kernel_init_structures, Contents, ProcessState
  <2> QED
    BY <2>1, SameOperators DEF AsFifo!Next, AsFifo!Move
<1>5. CASE UNCHANGED vars
  BY <1>5 DEF vars, AsFifo!vars, Contents
<1> QED
  BY <1>1, <1>2, <1>3, <1>4, <1>5 DEF Next

LEMMA StatesTyped == Spec => [](state \in [Pids -> ProcessState])
<1> DEFINE Typed == state \in [Pids -> ProcessState]
<1>1. Init => Typed
  BY DEF Init, ProcessState
<1>2. Typed /\ [Next]_vars => Typed'
  BY DEF Next, vars, enqueue_ready, dequeue_ready, Move, kernel_init_structures, ProcessState
<1> HIDE DEF Typed
<1>3. Spec => []Typed
  BY <1>1, <1>2, PTL DEF Spec
<1> QED
  BY <1>3 DEF Typed

(* enqueue_ready and dequeue_ready (kernel.c:28-53) behave as the bounded  *)
(* first-in first-out queue that the module Kernel takes them for, however *)
(* often the indices have gone around and whether or not the ring is full. *)
THEOREM RingImplementsFifo == Spec => ImplementsFifo
<1>1. Spec => []RingShape
  BY RingKeepsShape
<1>2. Spec => [](state \in [Pids -> ProcessState])
  BY StatesTyped
<1> QED
  BY <1>1, <1>2, InitRefines, StepRefines, PTL DEF Spec, ImplementsFifo, AsFifo!Spec

=============================================================================

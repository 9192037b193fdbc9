------------------------ MODULE ConcurrentQueueProofs ------------------------
(***************************************************************************)
(* Theorems about ConcurrentQueue for any sets of producers and consumers  *)
(* and any number of pushes.                                               *)
(***************************************************************************)
EXTENDS ConcurrentQueue, TLAPS

\* TypeOK is not inductive alone: push must know that it has a push left.
Typed == TypeOK /\ PushInProgress

\* The item a producer pushes next is an item.
LEMMA ItemType ==
  ASSUME NEW p \in Producers, NEW k \in 1..MaxPushes
  PROVE  Fifo!NthItem(p, k) \in Item
BY DEF Item, Fifo!Item, Fifo!NthItem

\* Each step of push keeps every variable in its type.
LEMMA PushKeepsTypes ==
  ASSUME Typed, NEW p \in Producers, PushStep(p)
  PROVE  Typed'
<1> USE ThreadsAssumption
    DEF Typed, TypeOK, PushInProgress, Threads, PushPc, PopPc, Goto, Acquire, Release
<1>1. CASE PushLock(p)
  BY <1>1 DEF PushLock
<1>2. CASE PushItem(p)
  <2>1. pushed[p] \in 0..MaxPushes /\ pushed[p] < MaxPushes
    BY <1>2 DEF PushItem
  <2>2. Fifo!NthItem(p, pushed[p] + 1) \in Item
    BY <2>1, ItemType
  <2>3. mQueue' \in Seq(Item)
    BY <1>2, <2>2 DEF PushItem
  <2>4. pushed' \in [Producers -> 0..MaxPushes]
    BY <1>2, <2>1 DEF PushItem
  <2> QED
    BY <1>2, <2>3, <2>4 DEF PushItem
<1>3. CASE PushUnlock(p)
  BY <1>3 DEF PushUnlock
<1>4. CASE PushNotify(p)
  BY <1>4 DEF PushNotify
<1> QED
  BY <1>1, <1>2, <1>3, <1>4 DEF PushStep

\* Each step of pop, and a spurious wakeup, keeps every variable in its type.
LEMMA PopKeepsTypes ==
  ASSUME Typed, NEW c \in Consumers, PopStep(c) \/ SpuriousWakeup(c)
  PROVE  Typed'
<1> USE ThreadsAssumption
    DEF Typed, TypeOK, PushInProgress, Threads, PushPc, PopPc, Goto, Acquire, Release
<1>1. CASE PopLock(c)
  BY <1>1 DEF PopLock
<1>2. CASE PopWait(c)
  BY <1>2 DEF PopWait
<1>3. CASE PopResume(c)
  BY <1>3 DEF PopResume
<1>4. CASE PopTake(c)
  <2>1. Head(mQueue) \in Item /\ mQueue' \in Seq(Item)
    BY <1>4 DEF PopTake
  <2> QED
    BY <1>4, <2>1 DEF PopTake
<1>5. CASE PopReturn(c)
  BY <1>5 DEF PopReturn
<1>6. CASE SpuriousWakeup(c)
  BY <1>6 DEF SpuriousWakeup
<1> QED
  BY <1>1, <1>2, <1>3, <1>4, <1>5, <1>6 DEF PopStep

\* A step that changes nothing keeps the types.
LEMMA StutterKeepsTypes ==
  ASSUME Typed, UNCHANGED vars
  PROVE  Typed'
BY DEF vars, Typed, TypeOK, PushInProgress

\* Every reachable state of the queue is well typed, and a producer in the
\* middle of push has not used up its pushes.
THEOREM TypeCorrect == Spec => [](TypeOK /\ PushInProgress)
<1>1. Init => Typed
  BY ThreadsAssumption
     DEF Init, Typed, TypeOK, PushInProgress, Threads, PushPc, PopPc
<1>2. Typed /\ [Next]_vars => Typed'
  BY PushKeepsTypes, PopKeepsTypes, StutterKeepsTypes DEF Next
<1>3. Typed => TypeOK /\ PushInProgress
  BY DEF Typed
<1> QED
  BY <1>1, <1>2, <1>3, PTL DEF Spec, SafeSpec

-----------------------------------------------------------------------------

\* The mutex changes hands only through Acquire and Release, so no two threads
\* are in push's or pop's critical section, also across a wait.
THEOREM MutexProtectsQueue == Spec => []LockDiscipline
<1> USE ThreadsAssumption
    DEF TypeOK, LockDiscipline, Critical, Threads, Goto, Acquire, Release
<1>1. Init => LockDiscipline
  BY DEF Init
<1>2. TypeOK /\ LockDiscipline /\ [Next]_vars => LockDiscipline'
  <2> SUFFICES ASSUME TypeOK, LockDiscipline, [Next]_vars
               PROVE  LockDiscipline'
    OBVIOUS
  <2>1. ASSUME NEW p \in Producers, PushStep(p) PROVE LockDiscipline'
    BY <2>1 DEF PushStep, PushLock, PushItem, PushUnlock, PushNotify
  <2>2. ASSUME NEW c \in Consumers, PopStep(c) \/ SpuriousWakeup(c)
        PROVE  LockDiscipline'
    BY <2>2 DEF PopStep, PopLock, PopWait, PopResume, PopTake, PopReturn, SpuriousWakeup
  <2>3. CASE UNCHANGED vars
    BY <2>3 DEF vars
  <2> QED
    BY <2>1, <2>2, <2>3 DEF Next
<1> QED
  BY <1>1, <1>2, TypeCorrect, PTL DEF Spec, SafeSpec

\* A consumer goes to sleep only on an empty queue and under the mutex, and
\* whoever makes the queue non-empty notifies afterwards: no wakeup is lost.
THEOREM WakeupsAreNotLost == Spec => []NoLostWakeup
<1> USE ThreadsAssumption DEF TypeOK, NoLostWakeup, Threads, Goto, Acquire, Release
<1>1. Init => NoLostWakeup
  BY DEF Init
<1>2. TypeOK /\ NoLostWakeup /\ [Next]_vars => NoLostWakeup'
  <2> SUFFICES ASSUME TypeOK, NoLostWakeup, [Next]_vars
               PROVE  NoLostWakeup'
    OBVIOUS
  <2>1. ASSUME NEW p \in Producers, PushStep(p) PROVE NoLostWakeup'
    <3>1. CASE PushLock(p)
      BY <3>1 DEF PushLock
    <3>2. CASE PushItem(p)
      BY <3>2 DEF PushItem
    <3>3. CASE PushUnlock(p)
      BY <3>3 DEF PushUnlock
    <3>4. CASE PushNotify(p)
      BY <3>4 DEF PushNotify
    <3> QED
      BY <2>1, <3>1, <3>2, <3>3, <3>4 DEF PushStep
  <2>2. ASSUME NEW c \in Consumers, PopStep(c) \/ SpuriousWakeup(c)
        PROVE  NoLostWakeup'
    <3>1. \A p \in Producers : pc'[p] = pc[p]
      BY <2>2 DEF PopStep, PopLock, PopWait, PopResume, PopTake, PopReturn, SpuriousWakeup
    <3>2. CASE PopWait(c)
      BY <3>2 DEF PopWait
    <3>3. CASE PopTake(c)
      BY <3>1, <3>3 DEF PopTake
    <3>4. CASE PopLock(c) \/ PopResume(c) \/ PopReturn(c) \/ SpuriousWakeup(c)
      BY <3>1, <3>4 DEF PopLock, PopResume, PopReturn, SpuriousWakeup
    <3> QED
      BY <2>2, <3>2, <3>3, <3>4 DEF PopStep
  <2>3. CASE UNCHANGED vars
    BY <2>3 DEF vars
  <2> QED
    BY <2>1, <2>2, <2>3 DEF Next
<1> QED
  BY <1>1, <1>2, TypeCorrect, PTL DEF Spec, SafeSpec

-----------------------------------------------------------------------------

\* Safety part of ImplementsFifo: push takes effect at mQueue.push and pop at
\* mQueue.pop, every other step is invisible to the users of the queue.
THEOREM FifoRefinement == Spec => Fifo!SafeSpec
<1>1. Init => Fifo!Init
  BY DEF Init, Fifo!Init
<1>2. TypeOK /\ PushInProgress /\ [Next]_vars => [Fifo!Next]_(Fifo!vars)
  <2> SUFFICES ASSUME TypeOK, PushInProgress, [Next]_vars
               PROVE  [Fifo!Next]_(Fifo!vars)
    OBVIOUS
  <2> USE DEF Fifo!Next, Fifo!vars, Fifo!SomePop
  <2>1. ASSUME NEW p \in Producers, PushItem(p) PROVE Fifo!Push(p)
    BY <2>1 DEF PushItem, Fifo!Push, PushInProgress, Goto
  <2>2. ASSUME NEW c \in Consumers, PopTake(c) PROVE Fifo!Pop(c)
    BY <2>2 DEF PopTake, Fifo!Pop
  <2>3. ASSUME NEW p \in Producers, PushStep(p), ~PushItem(p)
        PROVE  UNCHANGED <<mQueue, pushed, got>>
    BY <2>3 DEF PushStep, PushLock, PushUnlock, PushNotify
  <2>4. ASSUME NEW c \in Consumers, PopStep(c) \/ SpuriousWakeup(c), ~PopTake(c)
        PROVE  UNCHANGED <<mQueue, pushed, got>>
    BY <2>4 DEF PopStep, PopLock, PopWait, PopResume, PopReturn, SpuriousWakeup
  <2>5. CASE UNCHANGED vars
    BY <2>5 DEF vars
  <2> QED
    BY <2>1, <2>2, <2>3, <2>4, <2>5 DEF Next
<1> QED
  BY <1>1, <1>2, TypeCorrect, PTL DEF Spec, SafeSpec, Fifo!SafeSpec

=============================================================================

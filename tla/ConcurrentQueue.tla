--------------------------- MODULE ConcurrentQueue ---------------------------
(***************************************************************************)
(* The blocking queue of src/Server/ConcurrentQueue.h at the granularity   *)
(* of its mutex and condition variable.  Producers call push, consumers    *)
(* call pop in a loop (sendTask for mSendQueue, DoTask for mTasks).        *)
(*                                                                         *)
(* The window that matters is between lk.unlock() and notify_all() in      *)
(* push: the item is visible, the notification is not yet sent, and any    *)
(* number of other threads may run.  condition_variable::wait may also     *)
(* return spuriously, which is why pop tests in a while loop.              *)
(***************************************************************************)
EXTENDS Naturals, Sequences

CONSTANTS Producers, Consumers,
          MaxPushes,  \* bound: pushes per producer
          NoItem, NoThread

Threads == Producers \cup Consumers

ASSUME ThreadsAssumption ==
  /\ Producers \cap Consumers = {}
  /\ NoThread \notin Threads
  /\ MaxPushes \in Nat
  /\ NoItem \notin [from: Producers, n: 1..MaxPushes]

VARIABLES mQueue,   \* the std::queue
          mMutex,   \* the thread that holds the mutex, or NoThread
          waiting,  \* the consumers blocked in mCondVar.wait, not yet notified
          pc,       \* where each thread is
          pushed, got  \* as in FifoQueue

vars == <<mQueue, mMutex, waiting, pc, pushed, got>>

Fifo == INSTANCE FifoQueue WITH queue <- mQueue

Item == Fifo!Item

Init ==
  /\ mQueue = <<>>
  /\ mMutex = NoThread
  /\ waiting = {}
  /\ pc = [t \in Threads |-> "idle"]
  /\ pushed = [p \in Producers |-> 0]
  /\ got = [c \in Consumers |-> NoItem]

Goto(t, from, to) ==
  /\ pc[t] = from
  /\ pc' = [pc EXCEPT ![t] = to]

Acquire(t) == mMutex = NoThread /\ mMutex' = t
Release == mMutex' = NoThread

-----------------------------------------------------------------------------
(* Faulty variants of the steps below, one slip each; no specification here *)
(* uses them.  They show which slip each property would catch.              *)

\* push names its item by the old count
PushItemOffByOne(p) ==
  /\ Goto(p, "pushing", "unlocking")
  /\ pushed' = [pushed EXCEPT ![p] = @ + 1]
  /\ mQueue' = Append(mQueue, Fifo!NthItem(p, pushed[p]))
  /\ UNCHANGED <<mMutex, waiting, got>>

\* wait returns without the mutex
PopResumeUnlocked(c) ==
  /\ c \notin waiting
  /\ Goto(c, "waiting", "testing")
  /\ UNCHANGED <<mQueue, mMutex, waiting, pushed, got>>

\* push returns without notify_all
PushUnlockQuietly(p) ==
  /\ Goto(p, "unlocking", "idle")
  /\ Release
  /\ UNCHANGED <<mQueue, waiting, pushed, got>>

\* pop takes the newest item
PopTakeNewest(c) ==
  /\ mQueue # <<>>
  /\ Goto(c, "testing", "returning")
  /\ got' = [got EXCEPT ![c] = mQueue[Len(mQueue)]]
  /\ mQueue' = SubSeq(mQueue, 1, Len(mQueue) - 1)
  /\ UNCHANGED <<mMutex, waiting, pushed>>

-----------------------------------------------------------------------------
(* push *)

\* unique_lock<mutex> lk(mMutex)
PushLock(p) ==
  /\ pushed[p] < MaxPushes
  /\ Goto(p, "idle", "pushing")
  /\ Acquire(p)
  /\ UNCHANGED <<mQueue, waiting, pushed, got>>

\* mQueue.push(item)
PushItem(p) ==
  /\ Goto(p, "pushing", "unlocking")
  /\ pushed' = [pushed EXCEPT ![p] = @ + 1]
  /\ mQueue' = Append(mQueue, Fifo!NthItem(p, pushed[p] + 1))
  /\ UNCHANGED <<mMutex, waiting, got>>

\* lk.unlock(), before the notification
PushUnlock(p) ==
  /\ Goto(p, "unlocking", "notifying")
  /\ Release
  /\ UNCHANGED <<mQueue, waiting, pushed, got>>

\* mCondVar.notify_all()
PushNotify(p) ==
  /\ Goto(p, "notifying", "idle")
  /\ waiting' = {}
  /\ UNCHANGED <<mQueue, mMutex, pushed, got>>

-----------------------------------------------------------------------------
(* pop *)

\* unique_lock<mutex> lk(mMutex)
PopLock(c) ==
  /\ Goto(c, "idle", "testing")
  /\ Acquire(c)
  /\ UNCHANGED <<mQueue, waiting, pushed, got>>

\* while (mQueue.empty()) mCondVar.wait(lk): release and block in one step
PopWait(c) ==
  /\ mQueue = <<>>
  /\ Goto(c, "testing", "waiting")
  /\ Release
  /\ waiting' = waiting \cup {c}
  /\ UNCHANGED <<mQueue, pushed, got>>

\* wait returns once the notified thread has the mutex again
PopResume(c) ==
  /\ c \notin waiting
  /\ Goto(c, "waiting", "testing")
  /\ Acquire(c)
  /\ UNCHANGED <<mQueue, waiting, pushed, got>>

\* the standard allows wait to return without a notification
SpuriousWakeup(c) ==
  /\ c \in waiting
  /\ waiting' = waiting \ {c}
  /\ UNCHANGED <<mQueue, mMutex, pc, pushed, got>>

\* res = mQueue.front(); mQueue.pop()
PopTake(c) ==
  /\ mQueue # <<>>
  /\ Goto(c, "testing", "returning")
  /\ got' = [got EXCEPT ![c] = Head(mQueue)]
  /\ mQueue' = Tail(mQueue)
  /\ UNCHANGED <<mMutex, waiting, pushed>>

\* the unique_lock is destroyed on return
PopReturn(c) ==
  /\ Goto(c, "returning", "idle")
  /\ Release
  /\ UNCHANGED <<mQueue, waiting, pushed, got>>

-----------------------------------------------------------------------------

PushStep(p) == PushLock(p) \/ PushItem(p) \/ PushUnlock(p) \/ PushNotify(p)

PopStep(c) ==
  \/ PopLock(c) \/ PopWait(c) \/ PopResume(c)
  \/ PopTake(c) \/ PopReturn(c)

Next ==
  \/ \E p \in Producers : PushStep(p)
  \/ \E c \in Consumers : PopStep(c) \/ SpuriousWakeup(c)

SafeSpec == Init /\ [][Next]_vars

(***************************************************************************)
(* A thread that runs keeps running, and a thread that asks for the mutex  *)
(* again and again gets it (std::mutex of the MSVC runtime queues its      *)
(* waiters).  Nobody has to start a push, and no wakeup has to be spurious.*)
(***************************************************************************)
Fairness ==
  /\ \A p \in Producers :
       WF_vars(PushItem(p) \/ PushUnlock(p) \/ PushNotify(p))
  /\ \A c \in Consumers :
       /\ SF_vars(PopLock(c) \/ PopResume(c))
       /\ WF_vars(PopWait(c) \/ PopTake(c) \/ PopReturn(c))

Spec == SafeSpec /\ Fairness

-----------------------------------------------------------------------------
(* Properties *)

PushPc == {"idle", "pushing", "unlocking", "notifying"}
PopPc == {"idle", "testing", "waiting", "returning"}

\* Every variable has its type: a queue of items, a mutex held by one thread,
\* a wait set of consumers.
TypeOK ==
  /\ mQueue \in Seq(Item)
  /\ mMutex \in Threads \cup {NoThread}
  /\ waiting \subseteq Consumers
  /\ pc \in [Threads -> PushPc \cup PopPc]
  /\ \A p \in Producers : pc[p] \in PushPc
  /\ \A c \in Consumers : pc[c] \in PopPc
  /\ pushed \in [Producers -> 0..MaxPushes]
  /\ got \in [Consumers -> Item \cup {NoItem}]

\* The places where mQueue is read or written.
Critical == {"pushing", "unlocking", "testing", "returning"}

\* The queue is touched under the mutex only: a thread inside push or pop's
\* critical section is the one that holds mMutex, also after a wait.
LockDiscipline == \A t \in Threads : pc[t] \in Critical => mMutex = t

\* A producer inside push has a push left; with TypeOK and LockDiscipline this
\* is inductive.
PushInProgress == \A p \in Producers : pc[p] = "pushing" => pushed[p] < MaxPushes

\* No wakeup is lost although push notifies after it has released the mutex:
\* while a consumer sleeps in mCondVar.wait and the queue has an item, some
\* producer is still on its way to notify_all.
NoLostWakeup ==
  (waiting # {} /\ mQueue # <<>>) =>
    \E p \in Producers : pc[p] \in {"unlocking", "notifying"}

\* The queue is a fair FIFO: each push and each pop takes effect at one
\* instant, in order, and items do not stay while consumers keep popping.
ImplementsFifo == Fifo!Spec

=============================================================================

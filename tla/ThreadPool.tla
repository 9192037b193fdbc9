----------------------------- MODULE ThreadPool -----------------------------
(***************************************************************************)
(* src/Server/ThreadPool.h: the pool that runs the server's threads.  The  *)
(* constructor starts the threads one after the other; each runs DoTask,   *)
(* which takes tasks from mTasks (the atomic queue that ConcurrentQueue    *)
(* implements) until mFinished is set.  Its owner enqueues tasks and may   *)
(* call JoinAll.                                                           *)
(*                                                                         *)
(* mFinished and mJobsRemaining are never initialised: the constructor     *)
(* finds whatever was on the stack.                                        *)
(***************************************************************************)
EXTENDS Integers, Sequences, FiniteSets

CONSTANTS
  Sizes,         \* what the constructor may be called with
  Cores,         \* hardware_concurrency()
  MaxThreads,    \* bound: no pool is larger
  Tasks,         \* what may be enqueued, each once
  Endless,       \* the tasks among them that never return
  StackGarbage,  \* what an uninitialised mFinished may hold
  None           \* an empty Task

Threads == 1..MaxThreads

\* the constructor's default for a negative argument
PoolSize(n) == IF n < 0 THEN Cores ELSE n

ASSUME PoolAssumption ==
  /\ Sizes \subseteq Int /\ Cores \in Nat /\ MaxThreads \in Nat
  /\ \A n \in Sizes : PoolSize(n) <= MaxThreads
  /\ Endless \subseteq Tasks /\ None \notin Tasks
  /\ StackGarbage \subseteq BOOLEAN

VARIABLES
  mFinished, mJobsRemaining, mTasks,
  numThreads,  \* how many threads the constructor makes
  owner,     \* where the owning thread is: "construct", "own", "join", "joined"
  at,        \* the thread it constructs next
  pc, task,  \* where each pool thread is, and its task
  enqueued, completed,  \* the tasks pushed so far, and those that returned
  terminated \* std::terminate: an exception, of an empty Task for one, met no
             \* handler

poolVars == <<mFinished, mJobsRemaining, mTasks>>
ownerVars == <<numThreads, owner, at>>
threadVars == <<pc, task>>
taskVars == <<enqueued, completed>>

vars == <<poolVars, ownerVars, threadVars, taskVars, terminated>>

Runs == ~terminated /\ UNCHANGED terminated

Goto(t, from, to) == pc[t] = from /\ pc' = [pc EXCEPT ![t] = to]

\* Faulty variants of the steps below, one slip each; no specification here
\* uses them.

\* the constructor makes one thread too many
StartThreadOneMore ==
  /\ Runs
  /\ owner = "construct" /\ at <= numThreads + 1
  /\ Goto(at, "unborn", "loop")
  /\ at' = at + 1
  /\ UNCHANGED <<poolVars, numThreads, owner, task, taskVars>>

\* JoinAll sets mFinished before it joins
JoinAllFlagFirst ==
  /\ Runs
  /\ owner = "own" /\ ~mFinished
  /\ owner' = "join"
  /\ mFinished' = TRUE
  /\ UNCHANGED <<numThreads, at, mJobsRemaining, mTasks, threadVars, taskVars>>

\* DoTask returns after one task
TaskDoneOnce(t) ==
  /\ Runs
  /\ Goto(t, "decrement", "exited")
  /\ mJobsRemaining' = mJobsRemaining - 1
  /\ task' = [task EXCEPT ![t] = None]
  /\ UNCHANGED <<mFinished, mTasks, ownerVars, taskVars>>

\* nextTask leaves the task in the queue
PopCopies(t) ==
  /\ Runs
  /\ Goto(t, "pop", "run")
  /\ mTasks # <<>>
  /\ task' = [task EXCEPT ![t] = Head(mTasks)]
  /\ UNCHANGED <<poolVars, ownerVars, taskVars>>

-----------------------------------------------------------------------------
(* The owner *)

\* mThreads.push_back(thread(DoTask)): the thread may run at once
StartThread ==
  /\ Runs
  /\ owner = "construct" /\ at <= numThreads
  /\ Goto(at, "unborn", "loop")
  /\ at' = at + 1
  /\ UNCHANGED <<poolVars, numThreads, owner, task, taskVars>>

Constructed ==
  /\ Runs
  /\ owner = "construct" /\ at > numThreads
  /\ owner' = "own"
  /\ UNCHANGED <<poolVars, numThreads, at, threadVars, taskVars>>

EnqueueTask(k) ==
  /\ Runs
  /\ owner = "own"
  /\ k \notin enqueued
  /\ enqueued' = enqueued \cup {k}
  /\ mTasks' = Append(mTasks, k)
  /\ UNCHANGED <<mFinished, mJobsRemaining, ownerVars, threadVars, completed>>

\* JoinAll: nothing when mFinished is set, else join every thread
JoinAll ==
  /\ Runs
  /\ owner = "own" /\ ~mFinished
  /\ owner' = "join"
  /\ UNCHANGED <<poolVars, numThreads, at, threadVars, taskVars>>

JoinDone ==
  /\ Runs
  /\ owner = "join"
  /\ \A t \in 1..numThreads : pc[t] = "exited"
  /\ owner' = "joined"
  /\ mFinished' = TRUE
  /\ UNCHANGED <<mJobsRemaining, mTasks, numThreads, at, threadVars, taskVars>>

-----------------------------------------------------------------------------
(* DoTask *)

\* while (!isFinished())
TestFinished(t) ==
  /\ Runs
  /\ Goto(t, "loop", IF mFinished THEN "exited" ELSE "next")
  /\ UNCHANGED <<poolVars, ownerVars, task, taskVars>>

\* nextTask tests again, and returns an empty Task when the answer changed
NextTask(t) ==
  /\ Runs
  /\ Goto(t, "next", IF mFinished THEN "run" ELSE "pop")
  /\ UNCHANGED <<poolVars, ownerVars, task, taskVars>>

Pop(t) ==
  /\ Runs
  /\ Goto(t, "pop", "run")
  /\ mTasks # <<>>
  /\ task' = [task EXCEPT ![t] = Head(mTasks)]
  /\ mTasks' = Tail(mTasks)
  /\ UNCHANGED <<mFinished, mJobsRemaining, ownerVars, taskVars>>

\* task(): an empty one throws bad_function_call out of the thread
RunTask(t) ==
  /\ ~terminated
  /\ pc[t] = "run" /\ task[t] \notin Endless
  /\ terminated' = (task[t] = None)
  /\ IF task[t] = None
       THEN UNCHANGED <<pc, completed>>
       ELSE Goto(t, "run", "decrement") /\ completed' = completed \cup {task[t]}
  /\ UNCHANGED <<poolVars, ownerVars, task, enqueued>>

TaskDone(t) ==
  /\ Runs
  /\ Goto(t, "decrement", "loop")
  /\ mJobsRemaining' = mJobsRemaining - 1
  /\ task' = [task EXCEPT ![t] = None]
  /\ UNCHANGED <<mFinished, mTasks, ownerVars, taskVars>>

-----------------------------------------------------------------------------

Init ==
  /\ mFinished \in StackGarbage
  /\ mJobsRemaining = 0
  /\ mTasks = <<>>
  /\ \E n \in Sizes : numThreads = PoolSize(n)
  /\ owner = "construct" /\ at = 1
  /\ pc = [t \in Threads |-> "unborn"]
  /\ task = [t \in Threads |-> None]
  /\ enqueued = {} /\ completed = {}
  /\ terminated = FALSE

OwnerStep == StartThread \/ Constructed \/ JoinDone

ThreadStep(t) ==
  \/ TestFinished(t) \/ NextTask(t) \/ Pop(t) \/ RunTask(t) \/ TaskDone(t)

Next ==
  \/ OwnerStep \/ JoinAll
  \/ \E k \in Tasks : EnqueueTask(k)
  \/ \E t \in Threads : ThreadStep(t)

SafeSpec == Init /\ [][Next]_vars

\* Threads that can run do; nobody has to enqueue anything or to join.
Fairness == WF_vars(OwnerStep) /\ \A t \in Threads : WF_vars(ThreadStep(t))

Spec == SafeSpec /\ Fairness

-----------------------------------------------------------------------------
(* Properties *)

\* Every variable has its type; the constructor makes numThreads threads.
TypeOK ==
  /\ mFinished \in BOOLEAN /\ mJobsRemaining \in Int
  /\ mTasks \in Seq(Tasks)
  /\ owner \in {"construct", "own", "join", "joined"}
  /\ numThreads \in 0..MaxThreads /\ at \in 1..(numThreads + 1)
  /\ pc \in [Threads -> {"unborn", "loop", "next", "pop", "run", "decrement", "exited"}]
  /\ task \in [Threads -> Tasks \cup {None}]
  /\ enqueued \subseteq Tasks /\ completed \subseteq enqueued
  /\ terminated \in BOOLEAN

Holders(k) == {t \in Threads : task[t] = k /\ pc[t] = "run"}

\* A task is run once: it is queued, held by a single thread, or completed.
RunOnce ==
  \A k \in enqueued :
    Cardinality(Holders(k)) + Cardinality({i \in DOMAIN mTasks : mTasks[i] = k})
      = IF k \in completed THEN 0 ELSE 1

\* No thread ever calls the empty Task that nextTask returns when mFinished is
\* set between the two tests: JoinAll sets it only after it has joined.
NoEmptyTask == ~terminated

\* ThreadPool.h:82 says of JoinAll "WILL BLOCK UNTIL ALL QUEUES ARE COMPLETE":
\* once every task has completed, it returns.  It does not: it waits for threads
\* that wait for mFinished, which it sets when they have exited.
JoinAllReturns ==
  owner = "join" /\ completed = enqueued ~> owner = "joined" \/ terminated

\* In a pool whose mFinished happens to start as false every task completes,
\* as long as the endless ones leave a thread free.
TasksComplete ==
  \A k \in Tasks \ Endless :
    numThreads > Cardinality(Endless) /\ k \in enqueued /\ ~mFinished
      ~> k \in completed \/ terminated

=============================================================================

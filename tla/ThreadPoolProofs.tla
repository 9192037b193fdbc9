--------------------------- MODULE ThreadPoolProofs ---------------------------
(***************************************************************************)
(* Theorems about ThreadPool for pools of any size and any tasks.          *)
(***************************************************************************)
EXTENDS ThreadPool, FiniteSetTheorems, TLAPS

\* k is at place i of the queue; t is about to call k, or calls it.
Queued(i, k) == i \in DOMAIN mTasks /\ mTasks[i] = k

Held(t, k) == pc[t] = "run" /\ task[t] = k

\* A thread has no task before it takes one and after it is done with it.
Handed == \A t \in Threads : pc[t] \notin {"run", "decrement"} => task[t] = None

\* Every task is at one place in the queue, or in the hands of one thread, or
\* completed.
OnePlace ==
  /\ \A i, j \in DOMAIN mTasks : mTasks[i] = mTasks[j] => i = j
  /\ \A t, u \in Threads, k \in Tasks : Held(t, k) /\ Held(u, k) => t = u
  /\ \A i \in DOMAIN mTasks, t \in Threads : ~Held(t, mTasks[i])
  /\ \A i \in DOMAIN mTasks : mTasks[i] \in enqueued \ completed
  /\ \A t \in Threads, k \in Tasks : Held(t, k) => k \in enqueued \ completed
  /\ \A k \in enqueued \ completed :
       (\E i \in DOMAIN mTasks : mTasks[i] = k) \/ \E t \in Threads : Held(t, k)

Placed == TypeOK /\ Handed /\ OnePlace

\* mFinished is set by an owner that waited for threads that never exit, or by
\* the stack: it changes under no thread.
Flagged ==
  /\ \A t \in Threads : (t >= at \/ t > numThreads) => pc[t] = "unborn"
  /\ \A t \in Threads : pc[t] \in {"next", "pop"} => ~mFinished
  /\ \A t \in Threads : pc[t] = "run" => task[t] # None
  /\ \A t \in Threads : pc[t] = "exited" => mFinished
  /\ owner = "join" => ~mFinished

-----------------------------------------------------------------------------

\* The constructor makes no fewer than no threads.
LEMMA PoolSizes ==
  ASSUME NEW n \in Sizes
  PROVE  PoolSize(n) \in 0..MaxThreads
BY PoolAssumption DEF PoolSize

\* A task is queued behind the others.
LEMMA PlacedEnqueue ==
  ASSUME Placed, NEW k \in Tasks, EnqueueTask(k)
  PROVE  Placed'
<1> USE DEF Placed, TypeOK, ownerVars, threadVars, Runs
<1>1. /\ DOMAIN mTasks' = DOMAIN mTasks \cup {Len(mTasks) + 1}
      /\ mTasks'[Len(mTasks) + 1] = k
      /\ \A i \in DOMAIN mTasks : mTasks'[i] = mTasks[i]
      /\ Len(mTasks) + 1 \notin DOMAIN mTasks
  BY DEF EnqueueTask
<1>2. TypeOK'
  BY DEF EnqueueTask
<1>3. Handed'
  BY DEF EnqueueTask, Handed
<1>4. OnePlace'
  BY <1>1 DEF EnqueueTask, OnePlace, Held
<1> QED
  BY <1>2, <1>3, <1>4

\* A thread takes the oldest task.
LEMMA PlacedPop ==
  ASSUME Placed, NEW t \in Threads, Pop(t)
  PROVE  Placed'
<1> USE DEF Placed, TypeOK, ownerVars, taskVars, Runs, Goto
<1> DEFINE h == Head(mTasks)
<1>1. /\ h = mTasks[1] /\ 1 \in DOMAIN mTasks /\ h \in Tasks
      /\ \A i \in DOMAIN mTasks' : i \in Nat \ {0} /\ i + 1 \in DOMAIN mTasks
                                    /\ mTasks'[i] = mTasks[i + 1]
      /\ \A i \in DOMAIN mTasks : i # 1 => i - 1 \in DOMAIN mTasks'
                                           /\ mTasks'[i - 1] = mTasks[i]
  BY DEF Pop
<1>2. /\ pc[t] = "pop" /\ pc'[t] = "run" /\ task'[t] = h
      /\ \A u \in Threads \ {t} : pc'[u] = pc[u] /\ task'[u] = task[u]
  BY DEF Pop, Held
<1>3. TypeOK'
  BY <1>1 DEF Pop
<1>4. Handed'
  BY <1>2 DEF Pop, Handed
<1>5. UNCHANGED <<enqueued, completed>>
  BY DEF Pop
<1>6. \A u \in Threads, k \in Tasks : Held(u, k)' <=> Held(u, k) \/ (u = t /\ k = h)
  BY <1>1, <1>2 DEF Held, Pop
<1>7. \A i, j \in DOMAIN mTasks' : mTasks'[i] = mTasks'[j] => i = j
  BY <1>1 DEF OnePlace
<1>8. \A i \in DOMAIN mTasks' : mTasks'[i] # h
  BY <1>1 DEF OnePlace
<1>9. \A k \in enqueued \ completed :
        (\E i \in DOMAIN mTasks' : mTasks'[i] = k) \/ \E u \in Threads : Held(u, k)'
  <2> SUFFICES ASSUME NEW k \in enqueued \ completed, k # h
               PROVE  (\E i \in DOMAIN mTasks' : mTasks'[i] = k) \/ \E u \in Threads : Held(u, k)'
    BY <1>1, <1>6
  <2>1. CASE \E u \in Threads : Held(u, k)
    BY <1>6, <2>1
  <2>2. ASSUME NEW i \in DOMAIN mTasks, mTasks[i] = k
        PROVE  \E j \in DOMAIN mTasks' : mTasks'[j] = k
    BY <1>1, <2>2
  <2> QED
    BY <2>1, <2>2 DEF OnePlace
<1>10. OnePlace'
  <2>1. \A i \in DOMAIN mTasks' : mTasks'[i] \in Tasks
    BY <1>1
  <2>2. \A u, v \in Threads, k \in Tasks : Held(u, k)' /\ Held(v, k)' => u = v
    BY <1>1, <1>6 DEF OnePlace
  <2>3. \A i \in DOMAIN mTasks', u \in Threads : ~Held(u, mTasks[i + 1])
    BY <1>1 DEF OnePlace
  <2>4. ASSUME NEW i \in DOMAIN mTasks', NEW u \in Threads, NEW k \in Tasks, k = mTasks'[i]
        PROVE  ~Held(u, k)'
    BY <1>1, <1>6, <1>8, <2>3, <2>4
  <2>5. \A i \in DOMAIN mTasks' : mTasks'[i] \in enqueued \ completed
    BY <1>1 DEF OnePlace
  <2>6. \A u \in Threads, k \in Tasks : Held(u, k)' => k \in enqueued \ completed
    BY <1>1, <1>6 DEF OnePlace
  <2> QED
    BY <1>5, <1>7, <1>9, <2>1, <2>2, <2>4, <2>5, <2>6 DEF OnePlace, Held
<1> QED
  BY <1>3, <1>4, <1>10

\* A thread's task returns, or was none.
LEMMA PlacedRun ==
  ASSUME Placed, NEW t \in Threads, RunTask(t)
  PROVE  Placed'
<1> USE DEF Placed, TypeOK, poolVars, ownerVars, Goto
<1>1. CASE task[t] = None
  BY <1>1 DEF RunTask, Handed, OnePlace, Held
<1>2. CASE task[t] # None
  <2> DEFINE k == task[t]
  <2>1. /\ k \in Tasks /\ Held(t, k) /\ completed' = completed \cup {k}
        /\ pc' = [pc EXCEPT ![t] = "decrement"]
        /\ UNCHANGED <<mTasks, task, enqueued>>
    BY <1>2 DEF RunTask, Held
  <2>2. k \in enqueued
    BY <2>1 DEF OnePlace
  <2>3. TypeOK'
    BY <1>2, <2>1, <2>2 DEF RunTask
  <2>4. Handed'
    BY <2>1 DEF Handed
  <2>5. \A u \in Threads, l \in Tasks : Held(u, l)' <=> Held(u, l) /\ u # t
    BY <2>1 DEF Held
  <2>6. \A u \in Threads, l \in Tasks : Held(u, l) /\ u # t => l # k
    BY <2>1 DEF OnePlace
  <2>7. \A i \in DOMAIN mTasks : mTasks[i] # k /\ mTasks[i] \in Tasks
    BY <2>1 DEF OnePlace
  <2>8. \A i \in DOMAIN mTasks, u \in Threads : ~Held(u, mTasks[i])'
    BY <2>1, <2>5, <2>7 DEF OnePlace, Held
  <2>9. \A l \in enqueued \ completed' :
          (\E i \in DOMAIN mTasks : mTasks[i] = l) \/ \E u \in Threads : Held(u, l)'
    <3> SUFFICES ASSUME NEW l \in enqueued \ completed, l # k
                 PROVE  (\E i \in DOMAIN mTasks : mTasks[i] = l) \/ \E u \in Threads : Held(u, l)'
      BY <2>1
    <3>1. \A u \in Threads : Held(u, l) => u # t
      BY DEF Held
    <3> QED
      BY <2>5, <3>1 DEF OnePlace
  <2>10. OnePlace'
    BY <2>1, <2>5, <2>6, <2>7, <2>8, <2>9 DEF OnePlace
  <2> QED
    BY <2>3, <2>4, <2>10
<1> QED
  BY <1>1, <1>2

\* No other step touches a task.
LEMMA PlacedKept ==
  ASSUME Placed,
         UNCHANGED <<mTasks, enqueued, completed, numThreads>>,
         mFinished' \in BOOLEAN, mJobsRemaining' \in Int, terminated' \in BOOLEAN,
         owner' \in {"construct", "own", "join", "joined"}, at' \in 1..(numThreads + 1),
         pc' \in [Threads -> {"unborn", "loop", "next", "pop", "run", "decrement", "exited"}],
         task' \in [Threads -> Tasks \cup {None}],
         \A t \in Threads :
           \/ pc'[t] = pc[t] /\ task'[t] = task[t]
           \/ pc[t] # "run" /\ task'[t] = None
  PROVE  Placed'
<1>1. \A t \in Threads, k \in Tasks : Held(t, k)' <=> Held(t, k)
  BY PoolAssumption DEF Held, Placed, Handed
<1>2. \A i \in DOMAIN mTasks : mTasks[i] \in Tasks
  BY DEF Placed, TypeOK
<1>3. \A i \in DOMAIN mTasks, t \in Threads : Held(t, mTasks[i])' <=> Held(t, mTasks[i])
  BY <1>2, PoolAssumption DEF Held, Placed, Handed
<1>4. OnePlace'
  BY <1>1, <1>3 DEF Placed, TypeOK, OnePlace
<1> QED
  BY <1>4 DEF Placed, TypeOK, Handed

\* The steps of the pool, and those of a program around it that leave the pool
\* alone except that they may end the process.
PoolStep ==
  Next \/ (UNCHANGED <<poolVars, ownerVars, threadVars, taskVars>> /\ terminated' \in BOOLEAN)

\* Every step keeps every task at its place or moves it on.
LEMMA PlacedStep ==
  ASSUME Placed, PoolStep
  PROVE  Placed'
<1> USE DEF Placed, TypeOK, poolVars, ownerVars, threadVars, taskVars, Runs, Goto, Threads
<1>1. CASE StartThread
  <2>1. at \in Threads /\ at + 1 \in 1..(numThreads + 1)
    BY <1>1, PoolAssumption DEF StartThread
  <2>2. pc' = [pc EXCEPT ![at] = "loop"] /\ pc[at] = "unborn" /\ UNCHANGED task
    BY <1>1 DEF StartThread
  <2>3. \A t \in Threads :
          \/ pc'[t] = pc[t] /\ task'[t] = task[t]
          \/ pc[t] # "run" /\ task'[t] = None
    BY <2>2 DEF Handed
  <2> QED
    BY <1>1, <2>1, <2>2, <2>3, PlacedKept DEF StartThread
<1>2. CASE Constructed \/ JoinAll \/ JoinDone
  BY <1>2, PlacedKept DEF Constructed, JoinAll, JoinDone
<1>3. ASSUME NEW k \in Tasks, EnqueueTask(k) PROVE Placed'
  BY <1>3, PlacedEnqueue
<1>4. ASSUME NEW t \in Threads, TestFinished(t) \/ NextTask(t) PROVE Placed'
  <2>1. \A u \in Threads :
          \/ pc'[u] = pc[u] /\ task'[u] = task[u]
          \/ pc[u] # "run" /\ task'[u] = None
    BY <1>4 DEF TestFinished, NextTask, Handed
  <2> QED
    BY <1>4, <2>1, PlacedKept DEF TestFinished, NextTask
<1>5. ASSUME NEW t \in Threads, TaskDone(t) PROVE Placed'
  <2>1. \A u \in Threads :
          \/ pc'[u] = pc[u] /\ task'[u] = task[u]
          \/ pc[u] # "run" /\ task'[u] = None
    BY <1>5 DEF TaskDone
  <2> QED
    BY <1>5, <2>1, PlacedKept DEF TaskDone
<1>6. ASSUME NEW t \in Threads, Pop(t) \/ RunTask(t) PROVE Placed'
  BY <1>6, PlacedPop, PlacedRun
<1>7. CASE UNCHANGED <<poolVars, ownerVars, threadVars, taskVars>> /\ terminated' \in BOOLEAN
  BY <1>7, PlacedKept
<1> QED
  BY <1>1, <1>2, <1>3, <1>4, <1>5, <1>6, <1>7 DEF PoolStep, Next, OwnerStep, ThreadStep

\* A pool starts without tasks.
LEMMA PlacedInit ==
  ASSUME Init
  PROVE  Placed
<1>1. numThreads \in 0..MaxThreads /\ MaxThreads \in Nat
  BY PoolSizes, PoolAssumption DEF Init
<1>2. /\ pc \in [Threads -> {"unborn", "loop", "next", "pop", "run", "decrement", "exited"}]
      /\ task \in [Threads -> Tasks \cup {None}]
  BY DEF Init
<1>3. mFinished \in BOOLEAN /\ at \in 1..(numThreads + 1)
  BY <1>1, PoolAssumption DEF Init
<1>4. TypeOK
  <2>1. mTasks \in Seq(Tasks) /\ mJobsRemaining \in Int
    BY DEF Init
  <2>2. /\ owner \in {"construct", "own", "join", "joined"}
        /\ enqueued \subseteq Tasks /\ completed \subseteq enqueued
        /\ terminated \in BOOLEAN
    BY DEF Init
  <2> QED
    BY <1>1, <1>2, <1>3, <2>1, <2>2 DEF TypeOK
<1> QED
  BY <1>4 DEF Init, Placed, Handed, OnePlace, Held

\* Types and places of tasks in every reachable state.
LEMMA PlacedInvariant == SafeSpec => []Placed
<1>1. Init => Placed
  BY PlacedInit
<1>2. Placed /\ [Next]_vars => Placed'
  BY PlacedStep DEF PoolStep, vars, Placed, TypeOK
<1> QED
  BY <1>1, <1>2, PTL DEF SafeSpec

\* Every reachable state of the pool is well typed: the constructor starts no
\* more threads than it was asked for, and only what was enqueued completes.
THEOREM PoolTypeCorrect == SafeSpec => []TypeOK
<1>1. Placed => TypeOK
  BY DEF Placed
<1> QED
  BY <1>1, PlacedInvariant, PTL

\* What is placed like that runs once.
LEMMA PlacedRunsOnce ==
  ASSUME Placed
  PROVE  RunOnce
<1> SUFFICES ASSUME NEW k \in enqueued
             PROVE  Cardinality(Holders(k)) + Cardinality({i \in DOMAIN mTasks : mTasks[i] = k})
                      = IF k \in completed THEN 0 ELSE 1
  BY DEF RunOnce
<1> DEFINE places == {i \in DOMAIN mTasks : mTasks[i] = k}
<1>1. k \in Tasks /\ Holders(k) = {t \in Threads : Held(t, k)}
  BY DEF Placed, TypeOK, Holders, Held
<1>2. Cardinality({}) = 0
  BY FS_EmptySet
<1>3. CASE k \in completed
  <2>1. Holders(k) = {} /\ places = {}
    BY <1>1, <1>3 DEF Placed, OnePlace
  <2> QED
    BY <1>2, <1>3, <2>1
<1>4. ASSUME k \notin completed, NEW i \in DOMAIN mTasks, mTasks[i] = k
      PROVE  Cardinality(Holders(k)) + Cardinality(places) = 1
  <2>1. Holders(k) = {} /\ places = {i}
    BY <1>1, <1>4 DEF Placed, OnePlace
  <2>2. Cardinality({i}) = 1
    BY FS_Singleton
  <2> QED
    BY <1>2, <2>1, <2>2
<1>5. ASSUME k \notin completed, NEW t \in Threads, Held(t, k)
      PROVE  Cardinality(Holders(k)) + Cardinality(places) = 1
  <2>1. Holders(k) = {t} /\ places = {}
    BY <1>1, <1>5 DEF Placed, OnePlace
  <2>2. Cardinality({t}) = 1
    BY FS_Singleton
  <2> QED
    BY <1>2, <2>1, <2>2
<1> QED
  BY <1>3, <1>4, <1>5 DEF Placed, OnePlace

\* A task that was enqueued is in the queue once, or in the hands of one thread,
\* or completed, and never two of these: no task is run twice and none is lost.
THEOREM TasksRunOnce == SafeSpec => []RunOnce
BY PlacedRunsOnce, PlacedInvariant, PTL

-----------------------------------------------------------------------------
(* mFinished *)

\* No thread runs before it is made, and no flag changes while one tests it.
LEMMA FlaggedStep ==
  ASSUME Placed, Flagged, PoolStep
  PROVE  Flagged'
<1> USE DEF Placed, TypeOK, poolVars, ownerVars, threadVars, taskVars, Runs, Goto, Threads
<1>1. CASE StartThread
  BY <1>1 DEF StartThread, Flagged
<1>2. CASE Constructed \/ JoinAll \/ \E k \in Tasks : EnqueueTask(k)
  <2>1. UNCHANGED <<pc, task, at, numThreads, mFinished>> /\ (owner' = "join" => ~mFinished)
    BY <1>2 DEF Constructed, JoinAll, EnqueueTask
  <2> QED
    BY <2>1 DEF Flagged
<1>3. CASE JoinDone
  BY <1>3 DEF JoinDone, Flagged
<1>4. ASSUME NEW t \in Threads, ThreadStep(t) PROVE Flagged'
  <2>1. CASE TestFinished(t)
    BY <1>4, <2>1 DEF TestFinished, Flagged
  <2>2. CASE NextTask(t)
    BY <1>4, <2>2 DEF NextTask, Flagged
  <2>3. CASE Pop(t)
    <3>1. Head(mTasks) \in Tasks
      BY <2>3 DEF Pop
    <3> QED
      BY <2>3, <3>1, PoolAssumption DEF Pop, Flagged
  <2>4. CASE RunTask(t)
    BY <2>4 DEF RunTask, Flagged
  <2>5. CASE TaskDone(t)
    BY <2>5 DEF TaskDone, Flagged
  <2> QED
    BY <1>4, <2>1, <2>2, <2>3, <2>4, <2>5 DEF ThreadStep
<1>5. CASE UNCHANGED <<poolVars, ownerVars, threadVars, taskVars>>
  BY <1>5 DEF Flagged
<1> QED
  BY <1>1, <1>2, <1>3, <1>4, <1>5 DEF PoolStep, Next, OwnerStep

\* The flag is stable under the threads that test it in every reachable state.
LEMMA FlaggedInvariant == SafeSpec => []Flagged
<1>1. Init => Flagged
  BY DEF Init, Flagged
<1>2. Placed /\ Flagged /\ [Next]_vars => Flagged'
  BY FlaggedStep DEF PoolStep, vars, Placed, TypeOK
<1> QED
  BY <1>1, <1>2, PlacedInvariant, PTL DEF SafeSpec

\* No thread calls the empty Task that nextTask returns when mFinished is set
\* between its test and the one of DoTask.
THEOREM NoEmptyTaskIsCalled == SafeSpec => []NoEmptyTask
<1>1. Init => NoEmptyTask
  BY DEF Init, NoEmptyTask
<1>2. Flagged /\ NoEmptyTask /\ [Next]_vars => NoEmptyTask'
  BY DEF Flagged, NoEmptyTask, Next, OwnerStep, StartThread, Constructed, JoinAll, JoinDone,
         EnqueueTask, ThreadStep, TestFinished, NextTask, Pop, RunTask, TaskDone, Runs, vars
<1> QED
  BY <1>1, <1>2, FlaggedInvariant, PTL DEF SafeSpec

\* JoinAll returns from a pool without threads only.
ReturnsFromNone == owner = "joined" => numThreads = 0

\* JoinAll waits for threads that exit only once mFinished is set, which it does
\* itself afterwards: from a pool with threads it never returns, whether its
\* tasks complete or not.
THEOREM JoinBlocks == SafeSpec => []ReturnsFromNone
<1>1. Init => ReturnsFromNone
  BY DEF Init, ReturnsFromNone
<1>2. Placed /\ Flagged /\ ReturnsFromNone /\ [Next]_vars => ReturnsFromNone'
  <2> SUFFICES ASSUME Placed, Flagged, ReturnsFromNone, [Next]_vars
               PROVE  ReturnsFromNone'
    OBVIOUS
  <2>1. CASE JoinDone
    <3>1. numThreads \in 0..MaxThreads /\ MaxThreads \in Nat
      BY PoolAssumption DEF Placed, TypeOK
    <3>2. \A t \in 1..numThreads : t \in Threads /\ pc[t] # "exited"
      BY <2>1, <3>1 DEF JoinDone, Flagged, Threads
    <3> QED
      BY <2>1, <3>1, <3>2 DEF JoinDone, ReturnsFromNone
  <2>2. CASE ~JoinDone
    BY <2>2 DEF ReturnsFromNone, Next, OwnerStep, StartThread, Constructed, JoinAll,
       EnqueueTask, ThreadStep, TestFinished, NextTask, Pop, RunTask, TaskDone, ownerVars, vars
  <2> QED
    BY <2>1, <2>2
<1> QED
  BY <1>1, <1>2, PlacedInvariant, FlaggedInvariant, PTL DEF SafeSpec

=============================================================================

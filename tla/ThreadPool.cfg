\* Pools of two threads, of none and of the default size, two tasks that return
\* and one that does not, either value in mFinished, and an owner that may join
\* at any time.
CONSTANTS
  Sizes <- MCSizes
  Cores = 1
  MaxThreads = 2
  Tasks = {k1, k2, serve}
  Endless = {serve}
  StackGarbage = {TRUE, FALSE}
  None = None

SPECIFICATION Spec

INVARIANTS
  TypeOK
  RunOnce
  NoEmptyTask

PROPERTY TasksComplete

\* Threads block in pop, and the owner in join, when nothing is enqueued.
CHECK_DEADLOCK FALSE

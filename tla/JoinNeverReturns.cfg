\* JoinAll of a pool whose tasks all return: no task here is endless.
CONSTANTS
  Sizes <- MCSizes
  Cores = 1
  MaxThreads = 2
  Tasks = {k1, k2}
  Endless = {}
  StackGarbage = {FALSE}
  None = None

SPECIFICATION Spec

PROPERTY JoinAllReturns

\* The owner waits in join, and the threads in pop.
CHECK_DEADLOCK FALSE

\* Two producers with two pushes each against two consumers: several consumers
\* can sleep at once while several pushes are between unlock and notify_all.
CONSTANTS
  Producers = {p1, p2}
  Consumers = {c1, c2}
  MaxPushes = 2
  NoItem = NoItem
  NoThread = NoThread

SPECIFICATION Spec

INVARIANTS
  TypeOK
  LockDiscipline
  NoLostWakeup

PROPERTY ImplementsFifo

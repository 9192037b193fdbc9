\* Two managers with a queue each or one for both; a descriptor may be given out
\* again.
CONSTANTS
  Connections = 2
  Sockets = 2
  Garbage = {"zero", "garbage"}
  MaxPushes = 2
  MaxMessages = 1
  None = None

SPECIFICATION Spec

INVARIANTS
  TypeOK
  PillWakesSender
  StaysConnected
  OrderedOnWire

PROPERTY StartReturns

\* Managers end, and senders wait for packets.
CHECK_DEADLOCK FALSE

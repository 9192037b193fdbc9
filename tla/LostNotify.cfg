\* The notification of the send thread comes before it waits.
CONSTANTS
  Conns = {s1}
  Addrs = {a1}
  Workers = {w1, w2}
  Responses <- MCFileList
  LeaveModes = {}
  MaxDeliveries = 1
  MaxSendDones = 2
  Spurious = FALSE
  None = None

SPECIFICATION Spec

PROPERTY QueueDrained

\* The server may wait for ever for peers, or end.
CHECK_DEADLOCK FALSE

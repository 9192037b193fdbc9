\* The data of a send that is pending is freed.
CONSTANTS
  Conns = {s1}
  Addrs = {a1}
  Workers = {w1, w2}
  Responses <- MCFile
  LeaveModes = {}
  MaxDeliveries = 2
  MaxSendDones = 1
  Spurious = FALSE
  None = None

SPECIFICATION Spec

INVARIANT SentBeforeDelete

\* The server may wait for ever for peers, or end.
CHECK_DEADLOCK FALSE

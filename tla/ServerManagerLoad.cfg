\* One connection that stays, two workers, two requests and a completed send:
\* two responses can be queued at once.
CONSTANTS
  Conns = {s1}
  Addrs = {a1}
  Workers = {w1, w2}
  Responses <- MCFile
  LeaveModes = {}
  MaxDeliveries = 2
  MaxSendDones = 1
  Spurious = TRUE
  None = None

SPECIFICATION Spec

INVARIANT AnswersInOrder

PROPERTY SenderWoken

\* The server may wait for ever for peers, or end.
CHECK_DEADLOCK FALSE

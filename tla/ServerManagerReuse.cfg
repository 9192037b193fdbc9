\* Two connections, two heap addresses, two workers: both clients at once, or
\* the second at the address of the first.  One request per behaviour, peers
\* that close and reset.
CONSTANTS
  Conns = {s1, s2}
  Addrs = {a1, a2}
  Workers = {w1, w2}
  Responses <- MCFile
  LeaveModes = {"closed", "reset"}
  MaxDeliveries = 1
  MaxSendDones = 1
  Spurious = FALSE
  None = None

SYMMETRY MCSymmetry
SPECIFICATION SafeSpec

INVARIANTS
  TypeOK
  NeverDeaf
  CrashCause
  RemovalCause

PROPERTIES RightBranch ImplementsStreams

\* The server may wait for ever for peers, or end.
CHECK_DEADLOCK FALSE

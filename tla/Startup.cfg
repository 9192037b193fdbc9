\* Three cores: six threads for the acceptor, the sender and two workers.  Two
\* peers, and every call may fail once.
CONSTANTS
  Cores = 3
  MaxThreads = 6
  Sizes = {3, 6}
  Tasks = {0, 1, 2, 3, 4, 5, 6}
  Endless = {0, 1, 2, 3, 4, 5, 6}
  StackGarbage = {TRUE, FALSE}
  None = None
  Peers = {p1, p2}
  MayFail = {"WSAStartup", "thread", "WSASocketW", "getaddrinfo", "bind",
             "listen", "WSACreateEvent", "WSAEventSelect", "port", "accept",
             "associate", "folder", "WSARecv", "serving", "network"}

SPECIFICATION StartupSpec

INVARIANTS
  StartupTypeOK
  EndsHaveCauses
  NoPeerForgotten

PROPERTIES
  RolesFilled
  PeersServed

\* In the end every thread serves or blocks in pop.
CHECK_DEADLOCK FALSE

---------------------------- MODULE ServerSocket ----------------------------
(***************************************************************************)
(* src/Server/ServerSocket.cpp: the socket that listens, with what Winsock *)
(* keeps for it.  WSAEventSelect makes it non-blocking and has FD_ACCEPT   *)
(* recorded, and mAcceptEvent signaled, when a peer waits.  What has been  *)
(* recorded is not recorded again before accept is called, even one that   *)
(* fails: that call re-enables it, and records it at once while peers are  *)
(* left.                                                                   *)
(***************************************************************************)
EXTENDS Integers, FiniteSets

CONSTANTS
  Peers,    \* who may connect, once each
  MayFail   \* bound: the calls that may fail, each once

\* The calls whose failures are told apart.  Three are no calls: "network" is a
\* FD_ACCEPT that comes with an error code, "folder" a file of the music folder
\* that ends the process when the list of a client is made of it, and "serving"
\* whatever ends it in sendTask and workerThread (ServerManager has the details).
BeginCalls == <<"WSASocketW", "getaddrinfo", "bind", "listen">>

Calls ==
  {"WSAStartup", "thread", "WSACreateEvent", "WSAEventSelect", "port",
   "accept", "associate", "folder", "WSARecv", "serving", "network"} \cup {BeginCalls[k] : k \in 1..4}

ASSUME SocketAssumption == MayFail \subseteq Calls

VARIABLES
  mSocketFileDesc,  \* "zero", "invalid", "open", "bound" or "listening"
  wsa,              \* Winsock is started
  enabled,          \* FD_ACCEPT will be recorded
  recorded,         \* what is recorded: "nothing", "accept" or "error"
  signaled,         \* mAcceptEvent
  peer,             \* where each peer is, see PeerStates
  failed            \* the calls that have failed (history)

eventVars == <<enabled, recorded, signaled>>
socketVars == <<mSocketFileDesc, wsa, eventVars, peer, failed>>

(***************************************************************************)
(* A peer waits in the backlog until it gives up or is accepted; then the  *)
(* server registers it on the completion port, or ("alone") on a port that *)
(* no thread serves, or drops it with its socket open.                     *)
(***************************************************************************)
PeerStates ==
  {"away", "waiting", "gone", "accepted", "registered", "alone", "dropped"}

Waiting == {p \in Peers : peer[p] = "waiting"}

PeerGoes(p, from, to) == peer[p] = from /\ peer' = [peer EXCEPT ![p] = to]

Fails(call) == call \in MayFail \ failed /\ failed' = failed \cup {call}

SocketInit ==
  /\ mSocketFileDesc = "zero" /\ wsa = FALSE
  /\ enabled = FALSE /\ recorded = "nothing" /\ signaled = FALSE
  /\ peer = [p \in Peers |-> "away"]
  /\ failed = {}

-----------------------------------------------------------------------------
(* Winsock and the peers *)

Record(event) ==
  IF enabled
    THEN enabled' = FALSE /\ recorded' = event /\ signaled' = TRUE
    ELSE UNCHANGED eventVars

Enable(waiting) ==
  IF waiting # {}
    THEN enabled' = FALSE /\ recorded' = "accept" /\ signaled' = TRUE
    ELSE enabled' = TRUE /\ UNCHANGED <<recorded, signaled>>

Connect(p) ==
  /\ mSocketFileDesc = "listening"
  /\ PeerGoes(p, "away", "waiting")
  /\ Record("accept")
  /\ UNCHANGED <<mSocketFileDesc, wsa, failed>>

GiveUp(p) ==
  /\ PeerGoes(p, "waiting", "gone")
  /\ UNCHANGED <<mSocketFileDesc, wsa, eventVars, failed>>

NetworkError ==
  /\ enabled /\ Fails("network")
  /\ Record("error")
  /\ UNCHANGED <<mSocketFileDesc, wsa, peer>>

WSAEventSelect ==
  /\ Enable(Waiting)
  /\ UNCHANGED <<mSocketFileDesc, wsa, peer>>

\* fetches what is recorded, and resets the event
WSAEnumNetworkEvents ==
  /\ recorded' = "nothing" /\ signaled' = FALSE
  /\ UNCHANGED <<mSocketFileDesc, wsa, enabled, peer, failed>>

-----------------------------------------------------------------------------
(* ServerSocket *)

\* The constructor throws when WSAStartup fails.
Construct ==
  /\ wsa' = TRUE
  /\ UNCHANGED <<mSocketFileDesc, eventVars, peer, failed>>

ConstructThrows ==
  /\ Fails("WSAStartup")
  /\ UNCHANGED <<mSocketFileDesc, wsa, eventVars, peer>>

\* begin: WSASocketW, getaddrinfo, bind, listen
BeginOk ==
  /\ mSocketFileDesc' = "listening"
  /\ UNCHANGED <<wsa, eventVars, peer, failed>>

\* ... and what is left of them when one fails: nothing is closed
BeginFails ==
  /\ \E k \in 1..4 :
       /\ Fails(BeginCalls[k])
       /\ mSocketFileDesc' = CASE k = 1 -> "invalid" [] k = 4 -> "bound" [] OTHER -> "open"
  /\ UNCHANGED <<wsa, eventVars, peer>>

\* acceptSocket: accept returns one of the peers that wait ...
acceptSocket(p) ==
  /\ PeerGoes(p, "waiting", "accepted")
  /\ Enable(Waiting \ {p})
  /\ UNCHANGED <<mSocketFileDesc, wsa, failed>>

\* ... or fails, because all have given up or for a reason of its own
acceptSocketThrows ==
  /\ \/ Waiting = {} /\ UNCHANGED failed
     \/ Fails("accept")
  /\ Enable(Waiting)
  /\ UNCHANGED <<mSocketFileDesc, wsa, peer>>

\* close, which the destructor calls: WSACleanup, then closesocket
close ==
  /\ wsa' = FALSE
  /\ mSocketFileDesc' = "zero"
  /\ UNCHANGED <<eventVars, peer>>

=============================================================================

--------------------------- MODULE CompletionPort ---------------------------
(***************************************************************************)
(* The part of Windows the server stands on: overlapped sockets and one    *)
(* I/O completion port.  Nothing here is under src/; it is modelled from   *)
(* how Client.cpp and ServerManager.cpp call WSARecv, WSASend and          *)
(* GetQueuedCompletionStatus.                                              *)
(*                                                                         *)
(* Peers are arbitrary: they send anything, split as TCP likes, stay       *)
(* silent, stop reading, close or reset.  A received message is            *)
(* represented by the response the server's handlers give it, a sequence   *)
(* of packet sizes; <<>> stands for everything that gets no answer         *)
(* (SETTINGS, an unknown song, bytes that are not a packet).               *)
(***************************************************************************)
EXTENDS Naturals, Sequences

CONSTANTS
  Conns,          \* accepted sockets; a handle is never closed, so never reused
  Addrs,          \* heap addresses for Client objects: the completion keys
  Responses,      \* what a request may be answered with
  LeaveModes,     \* how peers may leave: a subset of {"closed", "reset"}
  MaxDeliveries,  \* bound: receives completed with data
  MaxSendDones    \* bound: sends completed

\* A completed operation transfers sizeof(Packet) bytes, another number, or none.
Bytes == {"whole", "part", "none"}

ASSUME EnvironmentAssumption ==
  /\ Responses \subseteq Seq({"whole", "part"})
  /\ <<>> \in Responses
  /\ LeaveModes \subseteq {"closed", "reset"}
  /\ MaxDeliveries \in Nat /\ MaxSendDones \in Nat

VARIABLES
  peer,       \* peer[s]: "absent" before accept, then "open" until it leaves
  recvs,      \* recvs[s]: overlapped receives posted and not completed
  sends,      \* sends[s]: the packets of the sends posted and not completed
  port,       \* the completions queued, oldest first
  delivered, sendsDone  \* how much of the bounds is used up

kernelVars == <<peer, recvs, sends, port, delivered, sendsDone>>

PeerStates == {"absent", "open", "closed", "reset"}

Gone(s) == peer[s] \in {"closed", "reset"}

(***************************************************************************)
(* A completion tells a worker its key and its bytes.  op and conn are not *)
(* visible to the server: one OVERLAPPED serves all operations of a client.*)
(***************************************************************************)
Completion == [key: Addrs, bytes: Bytes, op: {"recv", "send"}, conn: Conns]

Complete(s, a, op, bytes) ==
  port' = Append(port, [key |-> a, bytes |-> bytes, op |-> op, conn |-> s])

KernelInit ==
  /\ peer = [s \in Conns |-> "absent"]
  /\ recvs = [s \in Conns |-> 0]
  /\ sends = [s \in Conns |-> <<>>]
  /\ port = <<>>
  /\ delivered = 0
  /\ sendsDone = 0

\* accept(): a connection that waits in the backlog becomes a socket.
AcceptSocket(s) ==
  /\ peer[s] = "absent"
  /\ peer' = [peer EXCEPT ![s] = "open"]
  /\ UNCHANGED <<recvs, sends, port, delivered, sendsDone>>

\* WSARecv, WSASend: the operation is pending from now on.  (Each may also fail,
\* when the peer has reset, or for want of resources; see StopsFor.)
WSARecv(s) ==
  /\ recvs' = [recvs EXCEPT ![s] = @ + 1]
  /\ UNCHANGED <<peer, sends, port, delivered, sendsDone>>

WSASend(s, p) ==
  /\ sends' = [sends EXCEPT ![s] = Append(@, p)]
  /\ UNCHANGED <<peer, recvs, port, delivered, sendsDone>>

\* GetQueuedCompletionStatus takes the oldest completion, d.
Dequeue(d) ==
  /\ port # <<>>
  /\ d = Head(port)
  /\ port' = Tail(port)
  /\ UNCHANGED <<peer, recvs, sends, delivered, sendsDone>>

\* A pending receive completes with data.
CompleteRecv(s, a, bytes) ==
  /\ peer[s] = "open"
  /\ recvs[s] > 0
  /\ delivered < MaxDeliveries
  /\ bytes # "none"
  /\ recvs' = [recvs EXCEPT ![s] = @ - 1]
  /\ delivered' = delivered + 1
  /\ Complete(s, a, "recv", bytes)
  /\ UNCHANGED <<peer, sends, sendsDone>>

\* A pending receive completes with zero bytes or an error: the peer left.
CompleteHangup(s, a) ==
  /\ Gone(s)
  /\ recvs[s] > 0
  /\ recvs' = [recvs EXCEPT ![s] = @ - 1]
  /\ Complete(s, a, "recv", "none")
  /\ UNCHANGED <<peer, sends, delivered, sendsDone>>

\* The oldest pending send completes; after a reset it fails.
CompleteSendOp(s, a, bytes) ==
  /\ sends[s] # <<>>
  /\ sendsDone < MaxSendDones
  /\ sends' = [sends EXCEPT ![s] = Tail(@)]
  /\ sendsDone' = sendsDone + 1
  /\ Complete(s, a, "send", IF peer[s] = "reset" THEN "none" ELSE bytes)
  /\ UNCHANGED <<peer, recvs, delivered>>

PeerLeaves(s) ==
  /\ \E how \in LeaveModes :
       /\ peer[s] = "open" \/ (peer[s] = "closed" /\ how = "reset")
       /\ peer' = [peer EXCEPT ![s] = how]
  /\ UNCHANGED <<recvs, sends, port, delivered, sendsDone>>

=============================================================================

---------------------------- MODULE ClientManager ----------------------------
(***************************************************************************)
(* src/Server/ClientManager.cpp with the Socket of Socket.cpp: the earlier *)
(* design, which served each connection by two threads of its own, and     *)
(* which nothing in the repository starts any more.  start runs on a       *)
(* thread of its caller: it starts a receiver and a sender, joins the      *)
(* receiver, wakes the sender with an INVALID packet, and joins it.        *)
(*                                                                         *)
(* A queue is the atomic one that ConcurrentQueue implements; the two      *)
(* constructors make one for the manager or share a given one.  mMutex is  *)
(* only ever taken by the one sender of its manager.  What is received is  *)
(* extracted and dropped, as the call of the handler is commented out.     *)
(***************************************************************************)
EXTENDS Naturals, Sequences, SequencesExt

CONSTANTS
  Connections,  \* bound: how many connections are accepted
  Sockets,      \* bound: how many descriptors the system gives out
  Garbage,      \* what a size_t that was never returned may be: "zero", or
                \* "garbage" for everything else
  MaxPushes,    \* bound: the packets handlers push to any two queues
  MaxMessages,  \* bound: the messages that wait to be received
  None

\* A manager has the number of its connection, in the order they are accepted,
\* a queue that of the first manager that has it, and the system's descriptors
\* are numbered as they are first given out.
Managers == 1..Connections
Queues == Managers
Descriptors == 1..Sockets

ASSUME ManagerAssumption ==
  /\ Connections \in Nat /\ Sockets \in Nat
  /\ None \notin Managers \cup Descriptors
  /\ Garbage \subseteq {"zero", "garbage"}
  /\ MaxPushes \in Nat /\ MaxMessages \in Nat

VARIABLES
  mSendQueue,   \* mSendQueue[m]: the queue m sends from
  queue,        \* queue[q]: the packets in q
  pushed,       \* pushed[q]: how many handlers have pushed so far
  mIsRunning,
  startPc,      \* "none", "thrown", "made", "receive" and "send" (whom start
                \* joins), "returned", "destroyed"
  receivePc,    \* recvTask: "none", "test", "read", "done"
  msgSize,      \* what it has read in this round: "zero", "message" (its
                \* length), or "garbage"
  sendPc,       \* sendTask: "none", "test", "pop", "send", "done"
  item,         \* the packet it popped
  fd,           \* fd[m]: mSocketFileDesc of m's Socket
  table,        \* table[d]: the connection behind descriptor d
  peer, inbox,  \* of each connection: "none", "connected", "closed" or
                \* "reset", and the messages that wait
  wire          \* wire[c]: the packets sent on c, in order

queueVars == <<mSendQueue, queue, pushed>>
threadVars == <<mIsRunning, startPc, receivePc, msgSize, sendPc, item>>
netVars == <<fd, table, peer, inbox, wire>>
vars == <<queueVars, threadVars, netVars>>

Packet(q) == [queue: {q}, n: 1..MaxPushes]
Invalid(q) == [queue |-> q, n |-> 0]

\* Another manager was made with the same queue.
Shared(m) == \E k \in Managers \ {m} : mSendQueue[k] = mSendQueue[m]

Moves(pc, m, from, to) == pc[m] = from /\ pc' = [pc EXCEPT ![m] = to]

Push(q, p) == queue' = [queue EXCEPT ![q] = Append(@, p)]

Stop(m) == mIsRunning' = [mIsRunning EXCEPT ![m] = FALSE]

closesocket(d) == table' = [table EXCEPT ![d] = None]

\* The connection that the system finds behind m's descriptor, or None.
Behind(m) == IF fd[m] = None THEN None ELSE table[fd[m]]

Failing(m) == \A c \in Managers : Behind(m) = c => peer[c] = "reset"

\* Faulty variants of the steps below, one slip each; no specification here
\* uses them.

\* start does not push the INVALID packet
JoinReceiveQuietly(m) ==
  /\ Moves(startPc, m, "receive", "send")
  /\ receivePc[m] = "done"
  /\ UNCHANGED <<queueVars, mIsRunning, receivePc, msgSize, sendPc, item, netVars>>

\* start closes the socket to wake the sender
JoinReceiveCloses(m) ==
  /\ Moves(startPc, m, "receive", "send")
  /\ receivePc[m] = "done"
  /\ Push(mSendQueue[m], Invalid(mSendQueue[m]))
  /\ closesocket(fd[m])
  /\ UNCHANGED <<mSendQueue, pushed, mIsRunning, receivePc, msgSize, sendPc, item,
                 fd, peer, inbox, wire>>

\* recvTask goes on when nothing was received
ReadEndGoesOn(m) ==
  LET c == Behind(m)
  IN /\ Moves(receivePc, m, "read", "test")
     /\ ~Failing(m) /\ inbox[c] = 0 /\ peer[c] = "closed"
     /\ \E size \in Garbage : msgSize' = [msgSize EXCEPT ![m] = size]
     /\ UNCHANGED <<queueVars, mIsRunning, startPc, sendPc, item, netVars>>

\* sendTask does not test for INVALID
PopUntested(m) ==
  LET q == mSendQueue[m]
  IN /\ queue[q] # <<>>
     /\ queue' = [queue EXCEPT ![q] = Tail(@)]
     /\ item' = [item EXCEPT ![m] = Head(queue[q])]
     /\ Moves(sendPc, m, "pop", "send")
     /\ UNCHANGED <<mSendQueue, pushed, mIsRunning, startPc, receivePc, msgSize, netVars>>

\* sendTask takes the newest packet
PopNewest(m) ==
  LET q == mSendQueue[m]
  IN /\ queue[q] # <<>>
     /\ queue' = [queue EXCEPT ![q] = Front(@)]
     /\ item' = [item EXCEPT ![m] = Last(queue[q])]
     /\ Moves(sendPc, m, "pop", IF item'[m] = Invalid(q) THEN "test" ELSE "send")
     /\ UNCHANGED <<mSendQueue, pushed, mIsRunning, startPc, receivePc, msgSize, netVars>>

-----------------------------------------------------------------------------
(* start and its caller *)

\* m is the next connection, and d a descriptor that it may get.
FirstFree(m, d) ==
  /\ \A k \in 1..(m - 1) : startPc[k] # "none"
  /\ table[d] = None /\ 1..(d - 1) \subseteq Range(fd)

\* A connection is accepted, and a Socket and a manager are made for it.
Construct(m, d) ==
  /\ Moves(startPc, m, "none", "made")
  /\ FirstFree(m, d)
  /\ table' = [table EXCEPT ![d] = m]
  /\ fd' = [fd EXCEPT ![m] = d]
  /\ peer' = [peer EXCEPT ![m] = "connected"]
  /\ UNCHANGED <<queueVars, mIsRunning, receivePc, msgSize, sendPc, item, inbox, wire>>

\* WSAStartup fails in the constructor of the Socket, which is then not destroyed
\* either: the descriptor stays in use.
ConstructThrows(m, d) ==
  /\ Moves(startPc, m, "none", "thrown")
  /\ FirstFree(m, d)
  /\ table' = [table EXCEPT ![d] = m]
  /\ fd' = [fd EXCEPT ![m] = d]
  /\ peer' = [peer EXCEPT ![m] = "connected"]
  /\ UNCHANGED <<queueVars, mIsRunning, receivePc, msgSize, sendPc, item, inbox, wire>>

Start(m) ==
  /\ Moves(startPc, m, "made", "receive")
  /\ mIsRunning' = [mIsRunning EXCEPT ![m] = TRUE]
  /\ Moves(receivePc, m, "none", "test")
  /\ Moves(sendPc, m, "none", "test")
  /\ UNCHANGED <<queueVars, msgSize, item, netVars>>

JoinReceive(m) ==
  /\ Moves(startPc, m, "receive", "send")
  /\ receivePc[m] = "done"
  /\ Push(mSendQueue[m], Invalid(mSendQueue[m]))
  /\ UNCHANGED <<mSendQueue, pushed, mIsRunning, receivePc, msgSize, sendPc, item, netVars>>

\* ... and closeClient
JoinSend(m) ==
  /\ Moves(startPc, m, "send", "returned")
  /\ sendPc[m] = "done"
  /\ Stop(m)
  /\ closesocket(fd[m])
  /\ UNCHANGED <<queueVars, receivePc, msgSize, sendPc, item, fd, peer, inbox, wire>>

\* The destructor of mSocket closes its descriptor, for the second time.
Destroy(m) ==
  /\ Moves(startPc, m, "returned", "destroyed")
  /\ closesocket(fd[m])
  /\ UNCHANGED <<queueVars, mIsRunning, receivePc, msgSize, sendPc, item,
                 fd, peer, inbox, wire>>

-----------------------------------------------------------------------------
(* recvTask *)

\* every round has a msgSize of its own, which starts as 0
TestReceive(m) ==
  /\ Moves(receivePc, m, "test", IF mIsRunning[m] THEN "read" ELSE "done")
  /\ msgSize' = [msgSize EXCEPT ![m] = "zero"]
  /\ UNCHANGED <<queueVars, mIsRunning, startPc, sendPc, item, netVars>>

\* Socket::read: recv returns a message ...
ReadMessage(m) ==
  LET c == Behind(m)
  IN /\ Moves(receivePc, m, "read", "test")
     /\ ~Failing(m) /\ inbox[c] > 0
     /\ inbox' = [inbox EXCEPT ![c] = @ - 1]
     /\ msgSize' = [msgSize EXCEPT ![m] = "message"]
     /\ UNCHANGED <<queueVars, mIsRunning, startPc, sendPc, item, fd, table, peer, wire>>

\* ... or 0, as the peer has closed, and read returns nothing at all: only a
\* msgSize that happens to be 0 stops recvTask ...
ReadEnd(m) ==
  LET c == Behind(m)
  IN /\ Moves(receivePc, m, "read", "test")
     /\ ~Failing(m) /\ inbox[c] = 0 /\ peer[c] = "closed"
     /\ \E size \in Garbage :
          /\ msgSize' = [msgSize EXCEPT ![m] = size]
          /\ IF size = "zero" THEN Stop(m) ELSE UNCHANGED mIsRunning
     /\ UNCHANGED <<queueVars, startPc, sendPc, item, netVars>>

\* ... or fails, and recvTask catches the exception.
ReadThrows(m) ==
  /\ Moves(receivePc, m, "read", "test")
  /\ Failing(m)
  /\ Stop(m)
  /\ UNCHANGED <<queueVars, startPc, msgSize, sendPc, item, netVars>>

-----------------------------------------------------------------------------
(* sendTask *)

TestSend(m) ==
  /\ Moves(sendPc, m, "test", IF mIsRunning[m] THEN "pop" ELSE "done")
  /\ UNCHANGED <<queueVars, mIsRunning, startPc, receivePc, msgSize, item, netVars>>

Pop(m) ==
  LET q == mSendQueue[m]
  IN /\ queue[q] # <<>>
     /\ queue' = [queue EXCEPT ![q] = Tail(@)]
     /\ item' = [item EXCEPT ![m] = Head(queue[q])]
     /\ Moves(sendPc, m, "pop", IF item'[m] = Invalid(q) THEN "test" ELSE "send")
     /\ UNCHANGED <<mSendQueue, pushed, mIsRunning, startPc, receivePc, msgSize, netVars>>

\* Socket::send: a peer that has closed may answer with a reset.
Send(m) ==
  LET c == Behind(m)
  IN /\ Moves(sendPc, m, "send", "test")
     /\ ~Failing(m)
     /\ wire' = [wire EXCEPT ![c] = Append(@, item[m])]
     /\ \/ UNCHANGED peer
        \/ peer[c] = "closed" /\ peer' = [peer EXCEPT ![c] = "reset"]
     /\ UNCHANGED <<queueVars, mIsRunning, startPc, receivePc, msgSize, item,
                    fd, table, inbox>>

SendThrows(m) ==
  /\ Moves(sendPc, m, "send", "test")
  /\ Failing(m)
  /\ Stop(m)
  /\ UNCHANGED <<queueVars, startPc, receivePc, msgSize, item, netVars>>

-----------------------------------------------------------------------------
(* Handlers and peers *)

\* A handler pushes to what getSendQueue returned, while it exists.
HandlerPushes(q) ==
  /\ \E m \in Managers :
       mSendQueue[m] = q /\ startPc[m] \notin {"none", "thrown", "destroyed"}
  /\ pushed[q] < MaxPushes
  /\ \A r \in Queues \ {q} : pushed[q] + pushed[r] < MaxPushes
  /\ pushed' = [pushed EXCEPT ![q] = @ + 1]
  /\ Push(q, [queue |-> q, n |-> pushed'[q]])
  /\ UNCHANGED <<mSendQueue, threadVars, netVars>>

PeerSends(c) ==
  /\ c \in Range(table) /\ peer[c] = "connected"
  /\ inbox[c] < MaxMessages
  /\ inbox' = [inbox EXCEPT ![c] = @ + 1]
  /\ UNCHANGED <<queueVars, threadVars, fd, table, peer, wire>>

PeerLeaves(c) ==
  /\ c \in Range(table) /\ peer[c] = "connected"
  /\ \E how \in {"closed", "reset"} : peer' = [peer EXCEPT ![c] = how]
  /\ UNCHANGED <<queueVars, threadVars, fd, table, inbox, wire>>

-----------------------------------------------------------------------------

Init ==
  /\ mSendQueue \in {f \in [Managers -> Queues] :
                      \A m \in Managers : f[m] <= m /\ f[f[m]] = f[m]}
  /\ queue = [q \in Queues |-> <<>>] /\ pushed = [q \in Queues |-> 0]
  /\ mIsRunning = [m \in Managers |-> FALSE]
  /\ startPc = [m \in Managers |-> "none"]
  /\ receivePc = [m \in Managers |-> "none"] /\ sendPc = [m \in Managers |-> "none"]
  /\ msgSize = [m \in Managers |-> "zero"]
  /\ item = [m \in Managers |-> Invalid(mSendQueue[m])]
  /\ fd = [m \in Managers |-> None] /\ table = [d \in Descriptors |-> None]
  /\ peer = [m \in Managers |-> "none"] /\ inbox = [m \in Managers |-> 0]
  /\ wire = [m \in Managers |-> <<>>]

StartStep(m) == Start(m) \/ JoinReceive(m) \/ JoinSend(m)

ReceiveStep(m) ==
  TestReceive(m) \/ ReadMessage(m) \/ ReadEnd(m) \/ ReadThrows(m)

SendStep(m) == TestSend(m) \/ Pop(m) \/ Send(m) \/ SendThrows(m)

Next ==
  \/ \E m \in Managers :
       \/ StartStep(m) \/ ReceiveStep(m) \/ SendStep(m)
       \/ Destroy(m) \/ PeerSends(m) \/ PeerLeaves(m)
       \/ \E d \in Descriptors : Construct(m, d) \/ ConstructThrows(m, d)
  \/ \E q \in Queues : HandlerPushes(q)

SafeSpec == Init /\ [][Next]_vars

\* Threads keep running; nobody has to connect, send, leave or push.
Spec ==
  /\ SafeSpec
  /\ \A m \in Managers :
       WF_vars(StartStep(m)) /\ WF_vars(ReceiveStep(m)) /\ WF_vars(SendStep(m))

-----------------------------------------------------------------------------
(* Properties *)

\* Every variable has its type; what is sent was pushed by a handler.
TypeOK ==
  /\ mSendQueue \in [Managers -> Queues]
  /\ \A q \in Queues : queue[q] \in Seq(Packet(q) \cup {Invalid(q)})
  /\ pushed \in [Queues -> 0..MaxPushes]
  /\ mIsRunning \in [Managers -> BOOLEAN]
  /\ startPc \in [Managers ->
       {"none", "thrown", "made", "receive", "send", "returned", "destroyed"}]
  /\ receivePc \in [Managers -> {"none", "test", "read", "done"}]
  /\ sendPc \in [Managers -> {"none", "test", "pop", "send", "done"}]
  /\ msgSize \in [Managers -> {"zero", "message", "garbage"}]
  /\ fd \in [Managers -> Descriptors \cup {None}]
  /\ table \in [Descriptors -> Managers \cup {None}]
  /\ peer \in [Managers -> {"none", "connected", "closed", "reset"}]
  /\ inbox \in [Managers -> 0..MaxMessages]
  /\ \A c \in Managers : wire[c] \in Seq(UNION {Packet(q) : q \in Queues})

\* The INVALID packet reaches the sender it is for: while start joins a sender
\* that pops, there is something to pop, unless another manager has the queue
\* too and its sender may have taken the packet, which means nothing to it.
PillWakesSender ==
  \A m \in Managers :
    startPc[m] = "send" /\ sendPc[m] = "pop" =>
      queue[mSendQueue[m]] # <<>> \/ Shared(m)

\* A manager keeps its connection until start is done with it, but for the
\* second closesocket of a manager whose descriptor was given out again.
StaysConnected ==
  \A m \in Managers :
    startPc[m] \in {"made", "receive", "send"} /\ Behind(m) # m =>
      \E k \in Managers \ {m} : startPc[k] = "destroyed" /\ fd[k] = fd[m]

\* Another manager, whose connection was closed by a third one's destructor,
\* has a descriptor that leads to c now.
Crossed(c) ==
  \E m, k \in Managers \ {c} :
    /\ m # k /\ fd[m] = fd[c] /\ fd[k] = fd[c]
    /\ startPc[k] = "destroyed"

\* No packet is sent twice.  On a connection that only its own manager sends to,
\* the packets of its queue go out in the order of their pushes, and when no
\* other manager has the queue, none is skipped.
OrderedOnWire ==
  \A c \in Managers :
    /\ \A b \in Managers \ {c} : Range(wire[b]) \cap Range(wire[c]) = {}
    /\ IsInjective(wire[c])
    /\ \/ Crossed(c)
       \/ \A k \in DOMAIN wire[c] :
            /\ wire[c][k].queue = mSendQueue[c]
            /\ \A j \in 1..(k - 1) : wire[c][j].n < wire[c][k].n
            /\ wire[c][k].n = k \/ Shared(c)

Left(m) == startPc[m] \in {"receive", "send"} /\ peer[m] \in {"closed", "reset"}

\* After m's peer has closed, read returned garbage other than 0.
Misreads(m) == peer[m] = "closed" /\ msgSize[m] = "garbage"

\* When the peer of a manager leaves, start returns, unless the manager shares
\* its queue, or its descriptor leads to another connection.  It may not return
\* either when read, which returns nothing for a peer that has closed, seems to
\* have read something in round after round, for ever; once is not enough.
StartReturns ==
  \A m \in Managers :
    \/ []<>Misreads(m)
    \/ Left(m) ~> \/ startPc[m] \in {"returned", "destroyed"}
                  \/ Shared(m)
                  \/ Behind(m) \notin {m, None}

=============================================================================

------------------------- MODULE ClientManagerProofs -------------------------
(***************************************************************************)
(* Theorems about ClientManager for any number of connections, descriptors *)
(* and packets, and for queues shared in any way.                          *)
(***************************************************************************)
EXTENDS ClientManager, TLAPS

AnyPacket == [queue: Queues, n: 0..MaxPushes]

\* The types, and whose the packets are that are queued or held.
Types ==
  /\ mSendQueue \in [Managers -> Queues]
  /\ queue \in [Queues -> Seq(AnyPacket)]
  /\ \A q \in Queues : \A i \in DOMAIN queue[q] : queue[q][i].queue = q
  /\ pushed \in [Queues -> 0..MaxPushes]
  /\ mIsRunning \in [Managers -> BOOLEAN]
  /\ startPc \in [Managers ->
       {"none", "thrown", "made", "receive", "send", "returned", "destroyed"}]
  /\ receivePc \in [Managers -> {"none", "test", "read", "done"}]
  /\ sendPc \in [Managers -> {"none", "test", "pop", "send", "done"}]
  /\ msgSize \in [Managers -> {"zero", "message", "garbage"}]
  /\ item \in [Managers -> AnyPacket]
  /\ \A m \in Managers :
       /\ item[m].queue = mSendQueue[m]
       /\ sendPc[m] = "send" => item[m].n # 0
  /\ fd \in [Managers -> Descriptors \cup {None}]
  /\ table \in [Descriptors -> Managers \cup {None}]
  /\ peer \in [Managers -> {"none", "connected", "closed", "reset"}]
  /\ inbox \in [Managers -> 0..MaxMessages]
  /\ wire \in [Managers -> Seq(AnyPacket)]
  /\ \A c \in Managers : \A i \in DOMAIN wire[c] : wire[c][i].n # 0

-----------------------------------------------------------------------------
(* What the steps do to the sequences *)

\* None is no manager and no descriptor.
LEMMA NoneIsNothing ==
  /\ None \notin Managers /\ None \notin Descriptors
  /\ Connections \in Nat /\ Sockets \in Nat /\ MaxPushes \in Nat /\ MaxMessages \in Nat
BY ManagerAssumption

\* What Append does to a sequence.
LEMMA Appended ==
  ASSUME NEW W, NEW s \in Seq(W), NEW x \in W, NEW t, t = Append(s, x)
  PROVE  /\ Len(s) \in Nat /\ DOMAIN s = 1..Len(s)
         /\ t \in Seq(W) /\ Len(t) = Len(s) + 1 /\ DOMAIN t = 1..(Len(s) + 1)
         /\ t[Len(s) + 1] = x
         /\ \A i \in 1..Len(s) : t[i] = s[i]
OBVIOUS

\* The first of a sequence, and the others.
LEMMA Parted ==
  ASSUME NEW W, NEW s \in Seq(W), s # <<>>, NEW t, t = Tail(s)
  PROVE  /\ Len(s) \in Nat \ {0} /\ DOMAIN s = 1..Len(s) /\ 1 \in DOMAIN s
         /\ Head(s) = s[1] /\ s[1] \in W
         /\ t \in Seq(W) /\ Len(t) = Len(s) - 1 /\ DOMAIN t = 1..(Len(s) - 1)
         /\ \A i \in 1..(Len(s) - 1) : t[i] = s[i + 1] /\ i + 1 \in DOMAIN s
OBVIOUS

\* A packet joins its queue.
LEMMA PushedLast ==
  ASSUME Types, NEW q \in Queues, NEW p \in AnyPacket, p.queue = q, Push(q, p)
  PROVE  /\ queue' \in [Queues -> Seq(AnyPacket)]
         /\ \A r \in Queues \ {q} : queue'[r] = queue[r]
         /\ Len(queue[q]) \in Nat /\ DOMAIN queue[q] = 1..Len(queue[q])
         /\ DOMAIN queue'[q] = 1..(Len(queue[q]) + 1)
         /\ queue'[q][Len(queue[q]) + 1] = p
         /\ \A i \in 1..Len(queue[q]) : queue'[q][i] = queue[q][i]
         /\ queue'[q] # <<>>
         /\ \A r \in Queues : \A i \in DOMAIN queue'[r] : queue'[r][i].queue = r
<1>1. queue[q] \in Seq(AnyPacket) /\ queue'[q] = Append(queue[q], p)
      /\ queue' = [queue EXCEPT ![q] = Append(queue[q], p)]
  BY DEF Types, Push
<1>2. /\ Len(queue[q]) \in Nat /\ DOMAIN queue[q] = 1..Len(queue[q])
      /\ queue'[q] \in Seq(AnyPacket)
      /\ DOMAIN queue'[q] = 1..(Len(queue[q]) + 1) /\ queue'[q][Len(queue[q]) + 1] = p
      /\ \A i \in 1..Len(queue[q]) : queue'[q][i] = queue[q][i]
  BY <1>1, Appended
<1>3. queue' \in [Queues -> Seq(AnyPacket)] /\ \A r \in Queues \ {q} : queue'[r] = queue[r]
  BY <1>1, <1>2 DEF Types
<1>4. ASSUME NEW i \in DOMAIN queue'[q] PROVE queue'[q][i].queue = q
  <2>1. i \in 1..Len(queue[q]) \/ i = Len(queue[q]) + 1
    BY <1>2
  <2> QED
    BY <1>2, <2>1 DEF Types
<1>5. queue'[q] # <<>>
  BY <1>2
<1>6. ASSUME NEW r \in Queues, NEW i \in DOMAIN queue'[r] PROVE queue'[r][i].queue = r
  <2>1. CASE r = q
    BY <1>4, <1>6, <2>1
  <2>2. CASE r # q
    <3>1. queue'[r] = queue[r]
      BY <1>3, <2>2
    <3> QED
      BY <1>6, <3>1 DEF Types
  <2> QED
    BY <2>1, <2>2
<1> QED
  BY <1>2, <1>3, <1>5, <1>6

\* A sender takes the first packet of its queue.
LEMMA PoppedFirst ==
  ASSUME Types, NEW m \in Managers, Pop(m), NEW q, q = mSendQueue[m]
  PROVE  /\ q \in Queues /\ queue' \in [Queues -> Seq(AnyPacket)]
         /\ \A r \in Queues \ {q} : queue'[r] = queue[r]
         /\ Len(queue[q]) \in Nat \ {0} /\ DOMAIN queue[q] = 1..Len(queue[q])
         /\ 1 \in DOMAIN queue[q] /\ DOMAIN queue'[q] = 1..(Len(queue[q]) - 1)
         /\ \A i \in 1..(Len(queue[q]) - 1) :
              queue'[q][i] = queue[q][i + 1] /\ i + 1 \in DOMAIN queue[q]
         /\ item' \in [Managers -> AnyPacket] /\ item'[m] = queue[q][1]
         /\ item'[m].queue = q
         /\ \A k \in Managers \ {m} : item'[k] = item[k]
         /\ sendPc' = [sendPc EXCEPT ![m] = IF queue[q][1].n = 0 THEN "test" ELSE "send"]
         /\ sendPc[m] = "pop"
         /\ \A r \in Queues : \A i \in DOMAIN queue'[r] : queue'[r][i].queue = r
         /\ UNCHANGED <<mSendQueue, pushed, mIsRunning, startPc, receivePc, msgSize, netVars>>
<1>1. /\ q \in Queues /\ queue[q] \in Seq(AnyPacket) /\ queue[q] # <<>>
      /\ queue' = [queue EXCEPT ![q] = Tail(queue[q])] /\ queue'[q] = Tail(queue[q])
      /\ item' = [item EXCEPT ![m] = Head(queue[q])]
  BY DEF Types, Pop
<1>2. /\ Len(queue[q]) \in Nat \ {0} /\ DOMAIN queue[q] = 1..Len(queue[q])
      /\ 1 \in DOMAIN queue[q]
      /\ Head(queue[q]) = queue[q][1] /\ queue[q][1] \in AnyPacket
      /\ queue'[q] \in Seq(AnyPacket) /\ DOMAIN queue'[q] = 1..(Len(queue[q]) - 1)
      /\ \A i \in 1..(Len(queue[q]) - 1) :
           queue'[q][i] = queue[q][i + 1] /\ i + 1 \in DOMAIN queue[q]
  <2>1. ASSUME NEW s \in Seq(AnyPacket), s # <<>>, NEW t, t = Tail(s)
        PROVE  /\ Len(s) \in Nat \ {0} /\ DOMAIN s = 1..Len(s) /\ 1 \in DOMAIN s
               /\ Head(s) = s[1] /\ s[1] \in AnyPacket
               /\ t \in Seq(AnyPacket) /\ DOMAIN t = 1..(Len(s) - 1)
               /\ \A i \in 1..(Len(s) - 1) : t[i] = s[i + 1] /\ i + 1 \in DOMAIN s
    BY <2>1, Parted
  <2> QED
    BY <1>1, <2>1
<1>3. queue' \in [Queues -> Seq(AnyPacket)] /\ \A r \in Queues \ {q} : queue'[r] = queue[r]
  BY <1>1, <1>2 DEF Types
<1>4. /\ item' \in [Managers -> AnyPacket] /\ item'[m] = queue[q][1]
      /\ \A k \in Managers \ {m} : item'[k] = item[k]
      /\ item'[m].queue = q
  BY <1>1, <1>2 DEF Types
<1>5. item'[m] = Invalid(q) <=> queue[q][1].n = 0
  BY <1>2, <1>4 DEF Invalid, AnyPacket
<1>6. /\ sendPc' = [sendPc EXCEPT ![m] = IF queue[q][1].n = 0 THEN "test" ELSE "send"]
      /\ sendPc[m] = "pop"
      /\ UNCHANGED <<mSendQueue, pushed, mIsRunning, startPc, receivePc, msgSize, netVars>>
  BY <1>5 DEF Pop, Moves
<1>7. \A i \in DOMAIN queue'[q] : queue'[q][i].queue = q
  BY <1>1, <1>2 DEF Types
<1>8. ASSUME NEW r \in Queues, NEW i \in DOMAIN queue'[r] PROVE queue'[r][i].queue = r
  <2>1. CASE r = q
    BY <1>7, <1>8, <2>1
  <2>2. CASE r # q
    <3>1. queue'[r] = queue[r]
      BY <1>3, <2>2
    <3> QED
      BY <1>8, <3>1 DEF Types
  <2> QED
    BY <2>1, <2>2
<1> QED
  BY <1>1, <1>2, <1>3, <1>4, <1>6, <1>8

\* Where a descriptor leads that does not fail.
LEMMA BehindIsThere ==
  ASSUME Types, NEW m \in Managers, ~Failing(m)
  PROVE  /\ Behind(m) \in Managers /\ fd[m] \in Descriptors /\ table[fd[m]] = Behind(m)
         /\ peer[Behind(m)] # "reset"
BY NoneIsNothing DEF Types, Failing, Behind

\* A packet goes.
LEMMA SentLast ==
  ASSUME Types, NEW m \in Managers, Send(m), NEW c, c = Behind(m)
  PROVE  /\ c \in Managers /\ fd[m] \in Descriptors /\ table[fd[m]] = c
         /\ wire' \in [Managers -> Seq(AnyPacket)]
         /\ \A b \in Managers \ {c} : wire'[b] = wire[b]
         /\ Len(wire[c]) \in Nat /\ DOMAIN wire[c] = 1..Len(wire[c])
         /\ DOMAIN wire'[c] = 1..(Len(wire[c]) + 1) /\ Len(wire'[c]) = Len(wire[c]) + 1
         /\ wire'[c][Len(wire[c]) + 1] = item[m]
         /\ \A i \in 1..Len(wire[c]) : wire'[c][i] = wire[c][i]
         /\ sendPc[m] = "send" /\ sendPc' = [sendPc EXCEPT ![m] = "test"]
         /\ UNCHANGED <<queueVars, mIsRunning, startPc, receivePc, msgSize, item,
                        fd, table, inbox>>
         /\ peer' \in [Managers -> {"none", "connected", "closed", "reset"}]
         /\ \A b \in Managers : \A i \in DOMAIN wire'[b] : wire'[b][i].n # 0
<1>1. ~Failing(m) /\ item[m] \in AnyPacket
  BY DEF Send, Types
<1>2. /\ c \in Managers /\ fd[m] \in Descriptors /\ table[fd[m]] = c
  BY <1>1, BehindIsThere
<1>3. /\ wire[c] \in Seq(AnyPacket) /\ wire' = [wire EXCEPT ![c] = Append(wire[c], item[m])]
      /\ wire'[c] = Append(wire[c], item[m])
  BY <1>2 DEF Send, Types
<1>4. /\ Len(wire[c]) \in Nat /\ DOMAIN wire[c] = 1..Len(wire[c])
      /\ wire'[c] \in Seq(AnyPacket) /\ Len(wire'[c]) = Len(wire[c]) + 1
      /\ DOMAIN wire'[c] = 1..(Len(wire[c]) + 1) /\ wire'[c][Len(wire[c]) + 1] = item[m]
      /\ \A i \in 1..Len(wire[c]) : wire'[c][i] = wire[c][i]
  BY <1>1, <1>3, Appended
<1>5. wire' \in [Managers -> Seq(AnyPacket)] /\ \A b \in Managers \ {c} : wire'[b] = wire[b]
  BY <1>3, <1>4 DEF Types
<1>6. /\ sendPc[m] = "send" /\ sendPc' = [sendPc EXCEPT ![m] = "test"]
      /\ UNCHANGED <<queueVars, mIsRunning, startPc, receivePc, msgSize, item, fd, table, inbox>>
      /\ peer' \in [Managers -> {"none", "connected", "closed", "reset"}]
  BY <1>2 DEF Send, Moves, Types
<1>7. ASSUME NEW i \in DOMAIN wire'[c] PROVE wire'[c][i].n # 0
  <2>1. i \in 1..Len(wire[c]) \/ i = Len(wire[c]) + 1
    BY <1>4
  <2> QED
    BY <1>2, <1>4, <1>6, <2>1 DEF Types
<1>8. ASSUME NEW b \in Managers, NEW i \in DOMAIN wire'[b] PROVE wire'[b][i].n # 0
  <2>1. CASE b = c
    BY <1>7, <1>8, <2>1
  <2>2. CASE b # c
    <3>1. wire'[b] = wire[b]
      BY <1>5, <2>2
    <3> QED
      BY <1>8, <3>1 DEF Types
  <2> QED
    BY <2>1, <2>2
<1> QED
  BY <1>2, <1>4, <1>5, <1>6, <1>8

-----------------------------------------------------------------------------
(* Types *)

\* The steps of start and its caller keep the types.
LEMMA StartTypes ==
  ASSUME Types, NEW m \in Managers,
         \/ StartStep(m) \/ Destroy(m)
         \/ \E d \in Descriptors : Construct(m, d) \/ ConstructThrows(m, d)
  PROVE  Types'
<1> USE DEF queueVars, threadVars, netVars, Moves, Stop, closesocket
<1>1. CASE \E d \in Descriptors : Construct(m, d) \/ ConstructThrows(m, d)
  <2>1. PICK d \in Descriptors : Construct(m, d) \/ ConstructThrows(m, d)
    BY <1>1
  <2>2. /\ startPc' \in [Managers ->
             {"none", "thrown", "made", "receive", "send", "returned", "destroyed"}]
        /\ table' \in [Descriptors -> Managers \cup {None}]
        /\ fd' \in [Managers -> Descriptors \cup {None}]
        /\ peer' \in [Managers -> {"none", "connected", "closed", "reset"}]
        /\ UNCHANGED <<queueVars, mIsRunning, receivePc, msgSize, sendPc, item, inbox, wire>>
    <3>1. /\ table' = [table EXCEPT ![d] = m] /\ fd' = [fd EXCEPT ![m] = d]
          /\ peer' = [peer EXCEPT ![m] = "connected"]
          /\ UNCHANGED <<queueVars, mIsRunning, receivePc, msgSize, sendPc, item, inbox, wire>>
      BY <2>1 DEF Construct, ConstructThrows
    <3>2. PICK x \in {"thrown", "made"} : startPc' = [startPc EXCEPT ![m] = x]
      BY <2>1 DEF Construct, ConstructThrows
    <3> QED
      BY <3>1, <3>2 DEF Types
  <2> QED
    BY <2>2 DEF Types
<1>2. CASE Start(m)
  <2>1. /\ startPc' \in [Managers ->
             {"none", "thrown", "made", "receive", "send", "returned", "destroyed"}]
        /\ mIsRunning' \in [Managers -> BOOLEAN]
        /\ receivePc' \in [Managers -> {"none", "test", "read", "done"}]
        /\ sendPc' = [sendPc EXCEPT ![m] = "test"]
        /\ sendPc' \in [Managers -> {"none", "test", "pop", "send", "done"}]
        /\ UNCHANGED <<queueVars, msgSize, item, netVars>>
    BY <1>2 DEF Start, Types
  <2> QED
    BY <2>1 DEF Types
<1>3. CASE JoinReceive(m)
  <2>1. /\ mSendQueue[m] \in Queues /\ Invalid(mSendQueue[m]) \in AnyPacket
        /\ Invalid(mSendQueue[m]).queue = mSendQueue[m]
    BY NoneIsNothing DEF Invalid, AnyPacket, Types
  <2>2. /\ queue' \in [Queues -> Seq(AnyPacket)]
        /\ \A r \in Queues : \A i \in DOMAIN queue'[r] : queue'[r][i].queue = r
    BY <1>3, <2>1, PushedLast DEF JoinReceive
  <2>3. /\ startPc' \in [Managers ->
             {"none", "thrown", "made", "receive", "send", "returned", "destroyed"}]
        /\ UNCHANGED <<mSendQueue, pushed, mIsRunning, receivePc, msgSize, sendPc, item, netVars>>
    BY <1>3 DEF JoinReceive, Types
  <2> QED
    BY <2>2, <2>3 DEF Types
<1>4. CASE JoinSend(m) \/ Destroy(m)
  <2>1. /\ startPc' \in [Managers ->
             {"none", "thrown", "made", "receive", "send", "returned", "destroyed"}]
        /\ mIsRunning' \in [Managers -> BOOLEAN]
        /\ table' \in [Descriptors -> Managers \cup {None}]
        /\ UNCHANGED <<queueVars, receivePc, msgSize, sendPc, item, fd, peer, inbox, wire>>
    BY <1>4 DEF JoinSend, Destroy, Types
  <2> QED
    BY <2>1 DEF Types
<1> QED
  BY <1>1, <1>2, <1>3, <1>4 DEF StartStep

\* The steps of recvTask keep the types.
LEMMA ReceiveTypes ==
  ASSUME Types, NEW m \in Managers, ReceiveStep(m)
  PROVE  Types'
<1> USE DEF queueVars, netVars, Moves, Stop
<1>1. receivePc' \in [Managers -> {"none", "test", "read", "done"}]
  <2>1. \E x \in {"test", "read", "done"} : receivePc' = [receivePc EXCEPT ![m] = x]
    <3>1. CASE TestReceive(m)
      BY <3>1 DEF TestReceive
    <3>2. CASE ReadMessage(m) \/ ReadEnd(m) \/ ReadThrows(m)
      BY <3>2 DEF ReadMessage, ReadEnd, ReadThrows
    <3> QED
      BY <3>1, <3>2 DEF ReceiveStep
  <2> QED
    BY <2>1 DEF Types
<1>2. mIsRunning' \in [Managers -> BOOLEAN]
  BY DEF ReceiveStep, TestReceive, ReadMessage, ReadEnd, ReadThrows, Types
<1>3. msgSize' \in [Managers -> {"zero", "message", "garbage"}]
  <2>1. Garbage \subseteq {"zero", "garbage"}
    BY ManagerAssumption
  <2>2. \/ msgSize' = msgSize
        \/ \E x \in {"zero", "message", "garbage"} : msgSize' = [msgSize EXCEPT ![m] = x]
    BY <2>1 DEF ReceiveStep, TestReceive, ReadMessage, ReadEnd, ReadThrows
  <2> QED
    BY <2>2 DEF Types
<1>4. inbox' \in [Managers -> 0..MaxMessages]
  <2>1. CASE ReadMessage(m)
    <3>1. Behind(m) \in Managers /\ inbox[Behind(m)] > 0
          /\ inbox' = [inbox EXCEPT ![Behind(m)] = inbox[Behind(m)] - 1]
      BY <2>1, BehindIsThere DEF ReadMessage
    <3> QED
      BY <3>1, NoneIsNothing DEF Types
  <2>2. CASE ~ReadMessage(m)
    BY <2>2 DEF ReceiveStep, TestReceive, ReadEnd, ReadThrows, Types
  <2> QED
    BY <2>1, <2>2
<1>5. UNCHANGED <<queueVars, startPc, sendPc, item, fd, table, peer, wire>>
  BY DEF ReceiveStep, TestReceive, ReadMessage, ReadEnd, ReadThrows
<1> QED
  BY <1>1, <1>2, <1>3, <1>4, <1>5 DEF Types

\* The steps of sendTask keep the types.
LEMMA SendTypes ==
  ASSUME Types, NEW m \in Managers, SendStep(m)
  PROVE  Types'
<1>1. CASE TestSend(m) \/ SendThrows(m)
  <2>1. /\ sendPc' \in [Managers -> {"none", "test", "pop", "send", "done"}]
        /\ mIsRunning' \in [Managers -> BOOLEAN]
        /\ \A k \in Managers : sendPc'[k] = "send" => sendPc[k] = "send"
        /\ UNCHANGED <<queueVars, startPc, receivePc, msgSize, item, netVars>>
    BY <1>1, ZenonT(30) DEF TestSend, SendThrows, Moves, Stop, Types
  <2> QED
    BY <2>1 DEF Types, queueVars, netVars
<1>2. CASE Pop(m)
  <2>1. PICK q : q = mSendQueue[m]
    OBVIOUS
  <2>2. /\ q \in Queues /\ queue' \in [Queues -> Seq(AnyPacket)]
        /\ item' \in [Managers -> AnyPacket] /\ item'[m] = queue[q][1] /\ item'[m].queue = q
        /\ \A k \in Managers \ {m} : item'[k] = item[k]
        /\ sendPc' = [sendPc EXCEPT ![m] = IF queue[q][1].n = 0 THEN "test" ELSE "send"]
        /\ \A r \in Queues : \A i \in DOMAIN queue'[r] : queue'[r][i].queue = r
        /\ UNCHANGED <<mSendQueue, pushed, mIsRunning, startPc, receivePc, msgSize, netVars>>
    BY <1>2, <2>1, PoppedFirst
  <2>3. ASSUME NEW k \in Managers
        PROVE  item'[k].queue = mSendQueue[k] /\ (sendPc'[k] = "send" => item'[k].n # 0)
    <3>1. CASE k = m
      BY <2>1, <2>2, <3>1 DEF Types
    <3>2. CASE k # m
      BY <2>2, <3>2 DEF Types
    <3> QED
      BY <3>1, <3>2
  <2>4. sendPc' \in [Managers -> {"none", "test", "pop", "send", "done"}]
    BY <2>2 DEF Types
  <2> QED
    BY <2>2, <2>3, <2>4 DEF Types, netVars
<1>3. CASE Send(m)
  <2>1. PICK c : c = Behind(m)
    OBVIOUS
  <2>2. /\ wire' \in [Managers -> Seq(AnyPacket)]
        /\ sendPc' = [sendPc EXCEPT ![m] = "test"]
        /\ UNCHANGED <<queueVars, mIsRunning, startPc, receivePc, msgSize, item,
                       fd, table, inbox>>
        /\ peer' \in [Managers -> {"none", "connected", "closed", "reset"}]
        /\ \A b \in Managers : \A i \in DOMAIN wire'[b] : wire'[b][i].n # 0
    BY <1>3, <2>1, SentLast
  <2> QED
    BY <2>2 DEF Types, queueVars
<1> QED
  BY <1>1, <1>2, <1>3 DEF SendStep

\* A handler's packet is the next one of its queue.
LEMMA NextPacket ==
  ASSUME Types, NEW q \in Queues, HandlerPushes(q),
         NEW p, p = [queue |-> q, n |-> pushed'[q]]
  PROVE  /\ p \in AnyPacket /\ p.queue = q /\ p.n = pushed[q] + 1 /\ Push(q, p)
         /\ pushed' = [pushed EXCEPT ![q] = pushed[q] + 1]
         /\ pushed' \in [Queues -> 0..MaxPushes] /\ pushed'[q] = pushed[q] + 1
         /\ UNCHANGED <<mSendQueue, threadVars, netVars>>
<1>1. /\ pushed' = [pushed EXCEPT ![q] = pushed[q] + 1] /\ pushed[q] < MaxPushes
      /\ pushed[q] \in 0..MaxPushes /\ Push(q, p)
      /\ UNCHANGED <<mSendQueue, threadVars, netVars>>
  BY DEF HandlerPushes, Types
<1>2. pushed[q] + 1 \in 0..MaxPushes
  BY <1>1, NoneIsNothing
<1>3. pushed' \in [Queues -> 0..MaxPushes] /\ pushed'[q] = pushed[q] + 1
  BY <1>1, <1>2 DEF Types
<1> QED
  BY <1>1, <1>2, <1>3 DEF AnyPacket

\* What handlers and peers do keeps the types.
LEMMA OtherTypes ==
  ASSUME Types,
         \/ \E q \in Queues : HandlerPushes(q)
         \/ \E c \in Managers : PeerSends(c) \/ PeerLeaves(c)
         \/ UNCHANGED vars
  PROVE  Types'
<1> USE DEF queueVars, threadVars, netVars
<1>1. CASE \E q \in Queues : HandlerPushes(q)
  <2>1. PICK q \in Queues : HandlerPushes(q)
    BY <1>1
  <2>2. PICK p : p = [queue |-> q, n |-> pushed'[q]]
    OBVIOUS
  <2>3. /\ p \in AnyPacket /\ p.queue = q /\ Push(q, p)
        /\ pushed' \in [Queues -> 0..MaxPushes]
        /\ UNCHANGED <<mSendQueue, threadVars, netVars>>
    BY <2>1, <2>2, NextPacket
  <2>4. /\ queue' \in [Queues -> Seq(AnyPacket)]
        /\ \A r \in Queues : \A i \in DOMAIN queue'[r] : queue'[r][i].queue = r
    BY <2>3, PushedLast
  <2> QED
    BY <2>3, <2>4 DEF Types
<1>2. CASE \E c \in Managers : PeerSends(c) \/ PeerLeaves(c)
  <2>1. /\ inbox' \in [Managers -> 0..MaxMessages]
        /\ peer' \in [Managers -> {"none", "connected", "closed", "reset"}]
        /\ UNCHANGED <<queueVars, threadVars, fd, table, wire>>
    <3>1. CASE \E c \in Managers : PeerSends(c)
      BY <3>1, NoneIsNothing DEF PeerSends, Types
    <3>2. CASE \E c \in Managers : PeerLeaves(c)
      <4>1. PICK c \in Managers, how \in {"closed", "reset"} :
              /\ peer' = [peer EXCEPT ![c] = how]
              /\ UNCHANGED <<queueVars, threadVars, fd, table, inbox, wire>>
        BY <3>2 DEF PeerLeaves
      <4> QED
        BY <4>1 DEF Types
    <3> QED
      BY <1>2, <3>1, <3>2
  <2> QED
    BY <2>1 DEF Types
<1>3. CASE UNCHANGED vars
  BY <1>3 DEF Types, vars
<1> QED
  BY <1>1, <1>2, <1>3

\* Every step keeps the types.
LEMMA TypesStep ==
  ASSUME Types, [Next]_vars
  PROVE  Types'
<1>1. CASE \E m \in Managers : SendStep(m)
  BY <1>1, SendTypes
<1>2. CASE \E m \in Managers : ReceiveStep(m)
  BY <1>2, ReceiveTypes
<1>3. CASE \E m \in Managers :
             \/ StartStep(m) \/ Destroy(m)
             \/ \E d \in Descriptors : Construct(m, d) \/ ConstructThrows(m, d)
  BY <1>3, StartTypes
<1>4. CASE \/ \E q \in Queues : HandlerPushes(q)
           \/ \E c \in Managers : PeerSends(c) \/ PeerLeaves(c)
           \/ UNCHANGED vars
  BY <1>4, OtherTypes
<1> QED
  BY <1>1, <1>2, <1>3, <1>4 DEF Next

-----------------------------------------------------------------------------
(* The threads of a manager *)

\* Where the threads of a manager can be together; a receiver that is done has
\* seen mIsRunning FALSE, which nobody sets again.
Stages ==
  \A m \in Managers :
    /\ startPc[m] \in {"none", "thrown", "made"} => receivePc[m] = "none" /\ sendPc[m] = "none"
    /\ startPc[m] \in {"send", "returned", "destroyed"} => receivePc[m] = "done"
    /\ startPc[m] \in {"returned", "destroyed"} => sendPc[m] = "done"
    /\ receivePc[m] = "done" => ~mIsRunning[m]

\* One manager does something, which is no handler's push and no peer's doing.
ManagerStep(m) ==
  \/ StartStep(m) \/ ReceiveStep(m) \/ SendStep(m) \/ Destroy(m)
  \/ \E d \in Descriptors : Construct(m, d) \/ ConstructThrows(m, d)

\* The threads of the other managers stay where they are.
LEMMA OthersStay ==
  ASSUME Types, NEW m \in Managers, ManagerStep(m), NEW k \in Managers \ {m}
  PROVE  /\ startPc'[k] = startPc[k] /\ receivePc'[k] = receivePc[k] /\ sendPc'[k] = sendPc[k]
         /\ mIsRunning'[k] = mIsRunning[k] /\ item'[k] = item[k] /\ fd'[k] = fd[k]
<1> USE DEF Types, Moves, Stop, queueVars, netVars
<1>1. CASE StartStep(m)
  BY <1>1 DEF StartStep, Start, JoinReceive, JoinSend
<1>2. CASE ReceiveStep(m)
  BY <1>2 DEF ReceiveStep, TestReceive, ReadMessage, ReadEnd, ReadThrows
<1>3. CASE SendStep(m)
  BY <1>3 DEF SendStep, TestSend, Pop, Send, SendThrows
<1>4. CASE Destroy(m) \/ \E d \in Descriptors : Construct(m, d) \/ ConstructThrows(m, d)
  BY <1>4 DEF Destroy, Construct, ConstructThrows
<1> QED
  BY <1>1, <1>2, <1>3, <1>4 DEF ManagerStep

\* What the others do leaves the managers' threads where they are.
LEMMA NobodyMoves ==
  ASSUME [Next]_vars, \A m \in Managers : ~ManagerStep(m)
  PROVE  UNCHANGED <<mSendQueue, threadVars, fd, table, wire>>
BY DEF Next, ManagerStep, HandlerPushes, PeerSends, PeerLeaves, vars, queueVars, threadVars, netVars

\* Every step keeps the stages.
LEMMA StagesStep ==
  ASSUME Types, Stages, [Next]_vars
  PROVE  Stages'
<1>1. CASE \E m \in Managers : ManagerStep(m)
  <2>1. PICK m \in Managers : ManagerStep(m)
    BY <1>1
  <2>2. /\ startPc'[m] \in {"none", "thrown", "made"} => receivePc'[m] = "none" /\ sendPc'[m] = "none"
        /\ startPc'[m] \in {"send", "returned", "destroyed"} => receivePc'[m] = "done"
        /\ startPc'[m] \in {"returned", "destroyed"} => sendPc'[m] = "done"
        /\ receivePc'[m] = "done" => ~mIsRunning'[m]
    <3> USE DEF Types, Stages, Moves, Stop, queueVars, netVars
    <3>1. CASE StartStep(m)
      BY <3>1 DEF StartStep, Start, JoinReceive, JoinSend
    <3>2. CASE ReceiveStep(m)
      <4>1. CASE TestReceive(m)
        <5>1. CASE mIsRunning[m]
          BY <4>1, <5>1 DEF TestReceive
        <5>2. CASE ~mIsRunning[m]
          BY <4>1, <5>2 DEF TestReceive
        <5> QED
          BY <5>1, <5>2
      <4>2. CASE ReadMessage(m) \/ ReadEnd(m) \/ ReadThrows(m)
        BY <4>2 DEF ReadMessage, ReadEnd, ReadThrows
      <4> QED
        BY <3>2, <4>1, <4>2 DEF ReceiveStep
    <3>3. CASE SendStep(m)
      <4>1. /\ UNCHANGED <<startPc, receivePc>> /\ sendPc[m] \in {"test", "pop", "send"}
            /\ mIsRunning' = mIsRunning \/ ~mIsRunning'[m]
        BY <3>3 DEF SendStep, TestSend, Pop, Send, SendThrows
      <4> QED
        BY <4>1
    <3>4. CASE Destroy(m) \/ \E d \in Descriptors : Construct(m, d) \/ ConstructThrows(m, d)
      BY <3>4 DEF Destroy, Construct, ConstructThrows
    <3> QED
      BY <2>1, <3>1, <3>2, <3>3, <3>4 DEF ManagerStep
  <2>3. ASSUME NEW k \in Managers \ {m}
        PROVE  /\ startPc'[k] = startPc[k] /\ receivePc'[k] = receivePc[k]
               /\ sendPc'[k] = sendPc[k] /\ mIsRunning'[k] = mIsRunning[k]
    BY <2>1, OthersStay
  <2> QED
    BY <2>2, <2>3 DEF Stages
<1>2. CASE \A m \in Managers : ~ManagerStep(m)
  <2>1. UNCHANGED threadVars
    BY <1>2, NobodyMoves
  <2> QED
    BY <2>1 DEF Stages, threadVars
<1> QED
  BY <1>1, <1>2

\* A queue gets packets from JoinReceive and handlers, and loses them to Pop.
LEMMA QueueStep ==
  ASSUME Types, [Next]_vars, NEW q \in Queues
  PROVE  \/ queue'[q] = queue[q]
         \/ queue'[q] # <<>>
         \/ \E k \in Managers : Pop(k) /\ mSendQueue[k] = q
<1>1. CASE \E m \in Managers : JoinReceive(m)
  <2>1. PICK m \in Managers : JoinReceive(m)
    BY <1>1
  <2>2. /\ mSendQueue[m] \in Queues /\ Invalid(mSendQueue[m]) \in AnyPacket
        /\ Invalid(mSendQueue[m]).queue = mSendQueue[m]
    BY NoneIsNothing DEF Invalid, AnyPacket, Types
  <2> QED
    BY <2>1, <2>2, PushedLast DEF JoinReceive
<1>2. CASE \E r \in Queues : HandlerPushes(r)
  <2>1. PICK r \in Queues : HandlerPushes(r)
    BY <1>2
  <2>2. PICK p : p = [queue |-> r, n |-> pushed'[r]]
    OBVIOUS
  <2>3. p \in AnyPacket /\ p.queue = r /\ Push(r, p)
    BY <2>1, <2>2, NextPacket
  <2> QED
    BY <2>3, PushedLast
<1>3. CASE \E k \in Managers : Pop(k)
  <2>1. PICK k \in Managers : Pop(k)
    BY <1>3
  <2>2. CASE mSendQueue[k] = q
    BY <2>1, <2>2
  <2>3. CASE mSendQueue[k] # q
    BY <2>1, <2>3, PoppedFirst
  <2> QED
    BY <2>2, <2>3
<1>4. CASE ~(\E m \in Managers : JoinReceive(m) \/ Pop(m)) /\ ~(\E r \in Queues : HandlerPushes(r))
  <2>1. queue' = queue
    BY <1>4 DEF Next, StartStep, Start, JoinSend, Destroy, Construct, ConstructThrows, ReceiveStep,
       TestReceive, ReadMessage, ReadEnd, ReadThrows, SendStep, TestSend, Send, SendThrows,
       PeerSends, PeerLeaves, vars, queueVars
  <2> QED
    BY <2>1
<1> QED
  BY <1>1, <1>2, <1>3, <1>4

\* Every step keeps the packet that is to wake the sender.
LEMMA PillStep ==
  ASSUME Types, Stages, PillWakesSender, [Next]_vars
  PROVE  PillWakesSender'
<1> SUFFICES ASSUME NEW m \in Managers, startPc'[m] = "send", sendPc'[m] = "pop",
                    NEW q, q = mSendQueue[m]
             PROVE  queue'[q] # <<>> \/ Shared(m)
  <2>1. UNCHANGED mSendQueue
    BY DEF Next, StartStep, Start, JoinReceive, JoinSend, Destroy, Construct, ConstructThrows,
       ReceiveStep, TestReceive, ReadMessage, ReadEnd, ReadThrows, SendStep, TestSend, Pop, Send,
       SendThrows, HandlerPushes, PeerSends, PeerLeaves, vars, queueVars
  <2> QED
    BY <2>1 DEF PillWakesSender, Shared
<1>0. q \in Queues
  BY DEF Types
<1>1. CASE JoinReceive(m)
  <2>1. /\ Invalid(q) \in AnyPacket /\ Invalid(q).queue = q
    BY <1>0, NoneIsNothing DEF Invalid, AnyPacket
  <2> QED
    BY <1>0, <1>1, <2>1, PushedLast DEF JoinReceive
<1>2. CASE ~JoinReceive(m)
  <2>1. startPc[m] = "send" /\ sendPc[m] = "pop"
    <3>1. CASE ManagerStep(m)
      <4> USE DEF Types, Moves, Stop, queueVars, netVars
      <4>1. CASE StartStep(m)
        BY <1>2, <4>1 DEF StartStep, Start, JoinSend
      <4>2. CASE ReceiveStep(m)
        BY <4>2 DEF ReceiveStep, TestReceive, ReadMessage, ReadEnd, ReadThrows
      <4>3. CASE TestSend(m)
        <5>1. startPc[m] = "send" /\ mIsRunning[m]
          BY <4>3 DEF TestSend
        <5> QED
          BY <5>1 DEF Stages
      <4>4. CASE Pop(m)
        <5>1. sendPc' = [sendPc EXCEPT ![m] = IF queue[q][1].n = 0 THEN "test" ELSE "send"]
          BY <4>4, PoppedFirst
        <5> QED
          BY <5>1
      <4>5. CASE Send(m) \/ SendThrows(m)
        BY <4>5 DEF Send, SendThrows
      <4>6. CASE Destroy(m) \/ \E d \in Descriptors : Construct(m, d) \/ ConstructThrows(m, d)
        BY <4>6 DEF Destroy, Construct, ConstructThrows
      <4> QED
        BY <3>1, <4>1, <4>2, <4>3, <4>4, <4>5, <4>6 DEF ManagerStep, SendStep
    <3>2. CASE \E k \in Managers \ {m} : ManagerStep(k)
      BY <3>2, OthersStay
    <3>3. CASE \A k \in Managers : ~ManagerStep(k)
      BY <3>3, NobodyMoves DEF threadVars
    <3> QED
      BY <3>1, <3>2, <3>3
  <2>2. queue[q] # <<>> \/ Shared(m)
    BY <2>1 DEF PillWakesSender
  <2>3. CASE \E k \in Managers : Pop(k) /\ mSendQueue[k] = q
    <3>1. PICK k \in Managers : Pop(k) /\ mSendQueue[k] = q
      BY <2>3
    <3>2. CASE k = m
      <4>1. sendPc' = [sendPc EXCEPT ![m] = IF queue[q][1].n = 0 THEN "test" ELSE "send"]
        BY <3>1, <3>2, PoppedFirst
      <4> QED
        BY <4>1 DEF Types
    <3>3. CASE k # m
      BY <3>1, <3>3 DEF Shared
    <3> QED
      BY <3>2, <3>3
  <2> QED
    BY <1>0, <2>2, <2>3, QueueStep
<1> QED
  BY <1>1, <1>2

-----------------------------------------------------------------------------
(* Descriptors *)

\* The manager has a descriptor that it has not closed.
Live(m) == startPc[m] \in {"thrown", "made", "receive", "send"}

\* The manager that had d was destroyed, and so d may have been closed twice.
ClosedTwice(d) == \E k \in Managers : startPc[k] = "destroyed" /\ fd[k] = d

\* What is behind a descriptor is a connection whose manager has not closed it, and
\* a manager that has not closed its descriptor has its connection behind it, or
\* the descriptor was closed twice.
Owned ==
  /\ \A m \in Managers : fd[m] = None <=> startPc[m] = "none"
  /\ \A d \in Descriptors : \A c \in Managers : table[d] = c => fd[c] = d /\ Live(c)
  /\ \A m \in Managers : Live(m) => table[fd[m]] = m \/ ClosedTwice(fd[m])

\* Two managers have one descriptor only when a third closed it twice.
LEMMA TwoAtOne ==
  ASSUME Types, Owned, NEW m \in Managers, NEW k \in Managers, m # k, Live(m), Live(k),
         fd[m] = fd[k]
  PROVE  ClosedTwice(fd[m])
BY DEF Owned

\* A descriptor stays with its manager, and what is destroyed stays so.
LEMMA DescriptorsStay ==
  ASSUME Types, [Next]_vars, NEW m \in Managers
  PROVE  /\ startPc[m] # "none" => fd'[m] = fd[m]
         /\ startPc[m] = "destroyed" => startPc'[m] = "destroyed"
<1> USE DEF Types, Moves, Stop, queueVars, netVars
<1>1. CASE ManagerStep(m)
  BY <1>1 DEF ManagerStep, StartStep, Start, JoinReceive, JoinSend, ReceiveStep, TestReceive,
     ReadMessage, ReadEnd, ReadThrows, SendStep, TestSend, Pop, Send, SendThrows, Destroy,
     Construct, ConstructThrows
<1>2. CASE \E k \in Managers \ {m} : ManagerStep(k)
  BY <1>2, OthersStay
<1>3. CASE \A k \in Managers : ~ManagerStep(k)
  BY <1>3, NobodyMoves DEF threadVars
<1> QED
  BY <1>1, <1>2, <1>3

\* What was closed twice stays so.
LEMMA TwiceStays ==
  ASSUME Types, Owned, [Next]_vars, NEW d, ClosedTwice(d)
  PROVE  \E k \in Managers : startPc'[k] = "destroyed" /\ fd'[k] = d
<1>1. PICK k \in Managers : startPc[k] = "destroyed" /\ fd[k] = d
  BY DEF ClosedTwice
<1> QED
  BY <1>1, DescriptorsStay

\* Every step keeps what is known of the descriptors.
LEMMA OwnedStep ==
  ASSUME Types, Owned, [Next]_vars
  PROVE  Owned'
<1> USE DEF Types, Moves, Stop, closesocket, queueVars, netVars
<1>0. ASSUME NEW m \in Managers, ClosedTwice(fd[m]), startPc[m] # "none"
      PROVE  ClosedTwice(fd[m])'
  <2>1. PICK d : d = fd[m]
    OBVIOUS
  <2>2. fd'[m] = d
    BY <1>0, <2>1, DescriptorsStay
  <2>3. ClosedTwice(d)
    BY <1>0, <2>1
  <2>4. \E k \in Managers : startPc'[k] = "destroyed" /\ fd'[k] = d
    BY <2>3, TwiceStays
  <2> QED
    BY <2>2, <2>4 DEF ClosedTwice
<1>1. CASE \E m \in Managers, d \in Descriptors : Construct(m, d) \/ ConstructThrows(m, d)
  <2>1. PICK m \in Managers, d \in Descriptors : Construct(m, d) \/ ConstructThrows(m, d)
    BY <1>1
  <2>2. PICK x \in {"thrown", "made"} : startPc' = [startPc EXCEPT ![m] = x]
    BY <2>1 DEF Construct, ConstructThrows
  <2>3. /\ startPc[m] = "none" /\ table[d] = None
        /\ table' = [table EXCEPT ![d] = m] /\ fd' = [fd EXCEPT ![m] = d]
    BY <2>1 DEF Construct, ConstructThrows, FirstFree
  <2>4. \A c \in Managers : fd'[c] = None <=> startPc'[c] = "none"
    BY <2>2, <2>3, NoneIsNothing DEF Owned
  <2>5. ASSUME NEW e \in Descriptors, NEW c \in Managers, table'[e] = c
        PROVE  fd'[c] = e /\ Live(c)'
    <3>1. CASE e = d
      BY <2>2, <2>3, <2>5, <3>1 DEF Live
    <3>2. CASE e # d
      <4>1. table[e] = c
        BY <2>3, <2>5, <3>2
      <4>2. fd[c] = e /\ Live(c)
        BY <4>1 DEF Owned
      <4>3. c # m
        BY <2>3, <4>2 DEF Live
      <4> QED
        BY <2>2, <2>3, <4>2, <4>3 DEF Live
    <3> QED
      BY <3>1, <3>2
  <2>6. ASSUME NEW c \in Managers, Live(c)'
        PROVE  table'[fd'[c]] = c \/ ClosedTwice(fd[c])'
    <3>1. CASE c = m
      BY <2>3, <3>1
    <3>2. CASE c # m
      <4>1. Live(c) /\ fd'[c] = fd[c] /\ fd[c] \in Descriptors /\ startPc[c] # "none"
        BY <2>2, <2>3, <2>6, <3>2 DEF Live, Owned
      <4>2. CASE table[fd[c]] = c
        <5>1. fd[c] # d
          BY <2>3, <4>2, NoneIsNothing
        <5> QED
          BY <2>3, <4>1, <4>2, <5>1
      <4>3. CASE ClosedTwice(fd[c])
        BY <1>0, <4>1, <4>3
      <4> QED
        BY <4>1, <4>2, <4>3 DEF Owned
    <3> QED
      BY <3>1, <3>2
  <2> QED
    BY <2>4, <2>5, <2>6 DEF Owned
<1>2. CASE \E m \in Managers : JoinSend(m) \/ Destroy(m)
  <2>1. PICK m \in Managers : JoinSend(m) \/ Destroy(m)
    BY <1>2
  <2>2. /\ startPc[m] # "none" /\ fd[m] \in Descriptors /\ UNCHANGED fd
        /\ table' = [table EXCEPT ![fd[m]] = None]
        /\ startPc'[m] # "none" /\ ~Live(m)'
        /\ \A c \in Managers \ {m} : startPc'[c] = startPc[c]
    BY <2>1 DEF JoinSend, Destroy, Owned, Live
  <2>3. \A c \in Managers : fd'[c] = None <=> startPc'[c] = "none"
    BY <2>2 DEF Owned
  <2>4. ASSUME NEW e \in Descriptors, NEW c \in Managers, table'[e] = c
        PROVE  fd'[c] = e /\ Live(c)'
    <3>1. e # fd[m] /\ table[e] = c
      BY <2>2, <2>4, NoneIsNothing
    <3>2. fd[c] = e /\ Live(c)
      BY <3>1 DEF Owned
    <3>3. c # m
      BY <3>1, <3>2
    <3> QED
      BY <2>2, <3>2, <3>3 DEF Live
  <2>5. ASSUME NEW c \in Managers, Live(c)'
        PROVE  table'[fd'[c]] = c \/ ClosedTwice(fd[c])'
    <3>1. c # m /\ Live(c) /\ startPc[c] # "none" /\ fd[c] \in Descriptors
      BY <2>2, <2>5 DEF Live, Owned
    <3>2. CASE fd[c] # fd[m]
      BY <1>0, <2>2, <3>1, <3>2 DEF Owned
    <3>3. CASE fd[c] = fd[m]
      <4>1. CASE JoinSend(m)
        <5>1. Live(m)
          BY <4>1 DEF JoinSend, Live
        <5>2. ClosedTwice(fd[c])
          BY <3>1, <3>3, <5>1, TwoAtOne
        <5> QED
          BY <1>0, <3>1, <5>2
      <4>2. CASE Destroy(m)
        BY <2>2, <3>3, <4>2 DEF Destroy, ClosedTwice
      <4> QED
        BY <2>1, <4>1, <4>2
    <3> QED
      BY <3>2, <3>3
  <2> QED
    BY <2>3, <2>4, <2>5 DEF Owned
<1>3. CASE /\ ~\E m \in Managers, d \in Descriptors : Construct(m, d) \/ ConstructThrows(m, d)
           /\ ~\E m \in Managers : JoinSend(m) \/ Destroy(m)
  <2>1. UNCHANGED <<fd, table>>
    BY <1>3 DEF Next, StartStep, Start, JoinReceive, ReceiveStep, TestReceive, ReadMessage, ReadEnd,
       ReadThrows, SendStep, TestSend, Pop, Send, SendThrows, HandlerPushes, PeerSends, PeerLeaves,
       vars
  <2>2. \A m \in Managers : /\ startPc'[m] = "none" <=> startPc[m] = "none"
                            /\ Live(m)' <=> Live(m)
    <3>1. CASE \E m \in Managers : Start(m) \/ JoinReceive(m)
      BY <3>1 DEF Start, JoinReceive, Live
    <3>2. CASE ~\E m \in Managers : Start(m) \/ JoinReceive(m)
      <4>1. startPc' = startPc
        BY <1>3, <3>2 DEF Next, StartStep, ReceiveStep, TestReceive, ReadMessage, ReadEnd,
           ReadThrows, SendStep, TestSend, Pop, Send, SendThrows, HandlerPushes, PeerSends,
           PeerLeaves, vars, threadVars
      <4> QED
        BY <4>1 DEF Live
    <3> QED
      BY <3>1, <3>2
  <2>3. ASSUME NEW m \in Managers, Live(m)
        PROVE  table[fd[m]] = m \/ ClosedTwice(fd[m])'
    BY <1>0, <2>3 DEF Owned, Live
  <2>4. \A m \in Managers : fd'[m] = None <=> startPc'[m] = "none"
    BY <2>1, <2>2 DEF Owned
  <2>5. \A d \in Descriptors : \A c \in Managers : table'[d] = c => fd'[c] = d /\ Live(c)'
    BY <2>1, <2>2 DEF Owned
  <2>6. \A m \in Managers : Live(m)' => table'[fd'[m]] = m \/ ClosedTwice(fd[m])'
    BY <2>1, <2>2, <2>3
  <2> QED
    BY <2>4, <2>5, <2>6 DEF Owned
<1> QED
  BY <1>1, <1>2, <1>3

-----------------------------------------------------------------------------
(* Packets *)

\* m holds a packet that it is about to send.
Holds(m) == sendPc[m] = "send"

\* The packets of a queue are in the order of their pushes.
Numbered ==
  \A q \in Queues :
    /\ \A i \in DOMAIN queue[q] : queue[q][i].n <= pushed[q]
    /\ \A i, j \in DOMAIN queue[q] :
         i < j /\ queue[q][j].n # 0 => queue[q][i].n < queue[q][j].n

\* p was pushed before all that its queue has now.
Earlier(p) ==
  /\ p.n <= pushed[p.queue]
  /\ \A i \in DOMAIN queue[p.queue] :
       queue[p.queue][i].n # 0 => p.n < queue[p.queue][i].n

\* What has left a queue was pushed before what is in it.
TakenEarlier ==
  /\ \A m \in Managers : Holds(m) => Earlier(item[m])
  /\ \A c \in Managers : \A k \in DOMAIN wire[c] : Earlier(wire[c][k])

\* Packets are moved by JoinReceive, Pop, Send and handlers only.
Moving ==
  \/ \E m \in Managers : JoinReceive(m) \/ Pop(m) \/ Send(m)
  \/ \E q \in Queues : HandlerPushes(q)

\* Other steps leave them where they are.
LEMMA QuietStep ==
  ASSUME Types, [Next]_vars, ~Moving
  PROVE  /\ UNCHANGED <<mSendQueue, queue, pushed, item, wire>>
         /\ \A m \in Managers : sendPc'[m] = "send" => sendPc[m] = "send"
<1> USE DEF Types, Moves, queueVars, netVars
<1>1. UNCHANGED <<mSendQueue, queue, pushed, item, wire>>
  BY DEF Next, StartStep, Start, JoinSend, Destroy, Construct, ConstructThrows, ReceiveStep,
     TestReceive, ReadMessage, ReadEnd, ReadThrows, SendStep, TestSend, SendThrows, Moving,
     PeerSends, PeerLeaves, vars, threadVars
<1>2. \/ sendPc' = sendPc
      \/ \E m \in Managers, x \in {"test", "pop", "done"} : sendPc' = [sendPc EXCEPT ![m] = x]
  <2>1. CASE \E m \in Managers : TestSend(m)
    <3>1. PICK m \in Managers : TestSend(m)
      BY <2>1
    <3>2. sendPc' = [sendPc EXCEPT ![m] = IF mIsRunning[m] THEN "pop" ELSE "done"]
      BY <3>1 DEF TestSend
    <3>3. PICK x \in {"pop", "done"} : x = IF mIsRunning[m] THEN "pop" ELSE "done"
      OBVIOUS
    <3> QED
      BY <3>2, <3>3
  <2>2. CASE \E m \in Managers : Start(m) \/ SendThrows(m)
    BY <2>2 DEF Start, SendThrows
  <2>3. CASE ~(\E m \in Managers : TestSend(m) \/ Start(m) \/ SendThrows(m))
    BY <2>3 DEF Next, StartStep, JoinSend, Destroy, Construct, ConstructThrows, ReceiveStep,
       TestReceive, ReadMessage, ReadEnd, ReadThrows, SendStep, Moving,
       PeerSends, PeerLeaves, vars, threadVars
  <2> QED
    BY <2>1, <2>2, <2>3
<1> QED
  BY <1>1, <1>2

\* The packet that is to wake a sender is no packet of a handler.
LEMMA PillPushed ==
  ASSUME Types, NEW m \in Managers, JoinReceive(m), NEW q, q = mSendQueue[m]
  PROVE  /\ q \in Queues
         /\ \A r \in Queues \ {q} : queue'[r] = queue[r]
         /\ Len(queue[q]) \in Nat /\ DOMAIN queue[q] = 1..Len(queue[q])
         /\ DOMAIN queue'[q] = 1..(Len(queue[q]) + 1)
         /\ queue'[q][Len(queue[q]) + 1].n = 0
         /\ \A i \in 1..Len(queue[q]) : queue'[q][i] = queue[q][i]
         /\ UNCHANGED <<mSendQueue, pushed, mIsRunning, receivePc, msgSize, sendPc, item, netVars>>
<1>1. q \in Queues /\ Invalid(q) \in AnyPacket /\ Invalid(q).queue = q /\ Invalid(q).n = 0
  BY NoneIsNothing DEF Invalid, AnyPacket, Types
<1>2. Push(q, Invalid(q))
      /\ UNCHANGED <<mSendQueue, pushed, mIsRunning, receivePc, msgSize, sendPc, item, netVars>>
  BY DEF JoinReceive
<1> QED
  BY <1>1, <1>2, PushedLast

\* A handler's packet is the newest of its queue.
LEMMA HandlerPushed ==
  ASSUME Types, NEW q \in Queues, HandlerPushes(q)
  PROVE  /\ \A r \in Queues \ {q} : queue'[r] = queue[r] /\ pushed'[r] = pushed[r]
         /\ Len(queue[q]) \in Nat /\ DOMAIN queue[q] = 1..Len(queue[q])
         /\ DOMAIN queue'[q] = 1..(Len(queue[q]) + 1)
         /\ queue'[q][Len(queue[q]) + 1].n = pushed[q] + 1
         /\ \A i \in 1..Len(queue[q]) : queue'[q][i] = queue[q][i]
         /\ pushed[q] \in Nat /\ pushed'[q] = pushed[q] + 1
         /\ UNCHANGED <<mSendQueue, threadVars, netVars>>
<1>1. PICK p : p = [queue |-> q, n |-> pushed'[q]]
  OBVIOUS
<1>2. /\ p \in AnyPacket /\ p.queue = q /\ p.n = pushed[q] + 1 /\ Push(q, p)
      /\ pushed' = [pushed EXCEPT ![q] = pushed[q] + 1] /\ pushed'[q] = pushed[q] + 1
      /\ UNCHANGED <<mSendQueue, threadVars, netVars>>
  BY <1>1, NextPacket
<1>3. \A r \in Queues \ {q} : queue'[r] = queue[r] /\ pushed'[r] = pushed[r]
  BY <1>2, PushedLast DEF Types
<1>4. /\ Len(queue[q]) \in Nat /\ DOMAIN queue[q] = 1..Len(queue[q])
      /\ DOMAIN queue'[q] = 1..(Len(queue[q]) + 1)
      /\ queue'[q][Len(queue[q]) + 1].n = pushed[q] + 1
      /\ \A i \in 1..Len(queue[q]) : queue'[q][i] = queue[q][i]
  BY <1>2, PushedLast
<1>5. pushed[q] \in Nat
  BY NoneIsNothing DEF Types
<1> QED
  BY <1>2, <1>3, <1>4, <1>5

\* The packets in queues have numbers.
LEMMA NumberTypes ==
  ASSUME Types, NEW q \in Queues
  PROVE  /\ pushed[q] \in Nat
         /\ \A i \in DOMAIN queue[q] : queue[q][i].n \in Nat /\ queue[q][i].queue = q
<1>1. queue[q] \in Seq(AnyPacket)
  BY DEF Types
<1>2. \A i \in DOMAIN queue[q] : queue[q][i] \in AnyPacket
  BY <1>1
<1> QED
  BY <1>2, NoneIsNothing DEF AnyPacket, Types

\* Every step keeps the order in the queues.
LEMMA NumberedStep ==
  ASSUME Types, Numbered, [Next]_vars
  PROVE  Numbered'
<1> SUFFICES ASSUME NEW r \in Queues
             PROVE  /\ \A i \in DOMAIN queue'[r] : queue'[r][i].n <= pushed'[r]
                    /\ \A i, j \in DOMAIN queue'[r] :
                         i < j /\ queue'[r][j].n # 0 => queue'[r][i].n < queue'[r][j].n
  BY DEF Numbered
<1>0. /\ pushed[r] \in Nat /\ \A i \in DOMAIN queue[r] : queue[r][i].n \in Nat
      /\ \A i \in DOMAIN queue[r] : queue[r][i].n <= pushed[r]
      /\ \A i, j \in DOMAIN queue[r] :
           i < j /\ queue[r][j].n # 0 => queue[r][i].n < queue[r][j].n
  BY NumberTypes DEF Numbered
<1>1. CASE \E m \in Managers : JoinReceive(m)
  <2>1. PICK m \in Managers : JoinReceive(m)
    BY <1>1
  <2>2. PICK q : q = mSendQueue[m]
    OBVIOUS
  <2>3. /\ q \in Queues /\ UNCHANGED pushed
        /\ \A k \in Queues \ {q} : queue'[k] = queue[k]
        /\ Len(queue[q]) \in Nat /\ DOMAIN queue[q] = 1..Len(queue[q])
        /\ DOMAIN queue'[q] = 1..(Len(queue[q]) + 1)
        /\ queue'[q][Len(queue[q]) + 1].n = 0
        /\ \A i \in 1..Len(queue[q]) : queue'[q][i] = queue[q][i]
    BY <2>1, <2>2, PillPushed
  <2>4. CASE r # q
    BY <1>0, <2>3, <2>4
  <2>5. CASE r = q
    <3>1. \A i \in DOMAIN queue'[r] : i \in 1..Len(queue[q]) \/ i = Len(queue[q]) + 1
      BY <2>3, <2>5
    <3>2. \A i \in 1..Len(queue[q]) : /\ queue'[r][i] = queue[r][i] /\ queue[r][i].n \in Nat
                                    /\ queue[r][i].n <= pushed[r]
      BY <1>0, <2>3, <2>5
    <3>3. /\ queue'[r][Len(queue[q]) + 1].n = 0
          /\ pushed'[r] \in Nat /\ pushed[r] <= pushed'[r] /\ 0 <= pushed'[r]
      BY <1>0, <2>3, <2>5
    <3>4. ASSUME NEW i \in DOMAIN queue'[r]
          PROVE  queue'[r][i].n <= pushed'[r]
      <4>1. CASE i \in 1..Len(queue[q])
        BY <1>0, <3>2, <3>3, <4>1
      <4>2. CASE i = Len(queue[q]) + 1
        BY <3>3, <4>2
      <4> QED
        BY <3>1, <4>1, <4>2
    <3>5. ASSUME NEW i \in DOMAIN queue'[r], NEW j \in DOMAIN queue'[r],
                 i < j, queue'[r][j].n # 0
          PROVE  queue'[r][i].n < queue'[r][j].n
      <4>1. i \in 1..Len(queue[q])
        BY <2>3, <2>5, <3>5
      <4>2. CASE j \in 1..Len(queue[q])
        BY <1>0, <2>3, <2>5, <3>2, <3>5, <4>1, <4>2
      <4>3. CASE j = Len(queue[q]) + 1
        BY <1>0, <3>2, <3>3, <3>5, <4>1, <4>3
      <4> QED
        BY <3>1, <4>2, <4>3
    <3> QED
      BY <3>4, <3>5
  <2> QED
    BY <2>4, <2>5
<1>2. CASE \E q \in Queues : HandlerPushes(q)
  <2>1. PICK q \in Queues : HandlerPushes(q)
    BY <1>2
  <2>2. /\ \A k \in Queues \ {q} : queue'[k] = queue[k] /\ pushed'[k] = pushed[k]
        /\ Len(queue[q]) \in Nat /\ DOMAIN queue[q] = 1..Len(queue[q])
        /\ DOMAIN queue'[q] = 1..(Len(queue[q]) + 1)
        /\ queue'[q][Len(queue[q]) + 1].n = pushed[q] + 1
        /\ \A i \in 1..Len(queue[q]) : queue'[q][i] = queue[q][i]
        /\ pushed[q] \in Nat /\ pushed'[q] = pushed[q] + 1
    BY <2>1, HandlerPushed
  <2>3. CASE r # q
    BY <1>0, <2>2, <2>3
  <2>4. CASE r = q
    <3>1. \A i \in DOMAIN queue'[r] : i \in 1..Len(queue[q]) \/ i = Len(queue[q]) + 1
      BY <2>2, <2>4
    <3>2. \A i \in 1..Len(queue[q]) : /\ queue'[r][i] = queue[r][i] /\ queue[r][i].n \in Nat
                                    /\ queue[r][i].n <= pushed[r]
      BY <1>0, <2>2, <2>4
    <3>3. /\ queue'[r][Len(queue[q]) + 1].n = pushed[r] + 1
          /\ pushed'[r] \in Nat /\ pushed[r] <= pushed'[r] /\ pushed[r] + 1 <= pushed'[r]
      BY <1>0, <2>2, <2>4
    <3>4. ASSUME NEW i \in DOMAIN queue'[r]
          PROVE  queue'[r][i].n <= pushed'[r]
      <4>1. CASE i \in 1..Len(queue[q])
        BY <1>0, <3>2, <3>3, <4>1
      <4>2. CASE i = Len(queue[q]) + 1
        BY <3>3, <4>2
      <4> QED
        BY <3>1, <4>1, <4>2
    <3>5. ASSUME NEW i \in DOMAIN queue'[r], NEW j \in DOMAIN queue'[r],
                 i < j, queue'[r][j].n # 0
          PROVE  queue'[r][i].n < queue'[r][j].n
      <4>1. i \in 1..Len(queue[q])
        BY <2>2, <2>4, <3>5
      <4>2. CASE j \in 1..Len(queue[q])
        BY <1>0, <2>2, <2>4, <3>2, <3>5, <4>1, <4>2
      <4>3. CASE j = Len(queue[q]) + 1
        BY <1>0, <3>2, <3>3, <3>5, <4>1, <4>3
      <4> QED
        BY <3>1, <4>2, <4>3
    <3> QED
      BY <3>4, <3>5
  <2> QED
    BY <2>3, <2>4
<1>3. CASE \E m \in Managers : Pop(m)
  <2>1. PICK m \in Managers : Pop(m)
    BY <1>3
  <2>2. PICK q : q = mSendQueue[m]
    OBVIOUS
  <2>3. /\ q \in Queues /\ pushed' = pushed
        /\ Len(queue[q]) \in Nat \ {0} /\ DOMAIN queue[q] = 1..Len(queue[q])
        /\ DOMAIN queue'[q] = 1..(Len(queue[q]) - 1)
    BY <2>1, <2>2, PoppedFirst, SMTT(30)
  <2>6. \A k \in Queues \ {q} : queue'[k] = queue[k]
    BY <2>1, <2>2, PoppedFirst, SMTT(30)
  <2>7. \A i \in 1..(Len(queue[q]) - 1) :
          queue'[q][i] = queue[q][i + 1] /\ i + 1 \in DOMAIN queue[q]
    BY <2>1, <2>2, PoppedFirst, SMTT(30)
  <2>4. CASE r # q
    BY <1>0, <2>3, <2>4, <2>6
  <2>5. CASE r = q
    <3>1. ASSUME NEW i \in DOMAIN queue'[r]
          PROVE  queue'[r][i] = queue[r][i + 1] /\ i + 1 \in DOMAIN queue[r] /\ i \in Nat
      BY <2>3, <2>5, <2>7, SMTT(30)
    <3>2. \A i \in DOMAIN queue'[r] : queue'[r][i].n <= pushed'[r]
      BY <1>0, <2>3, <3>1
    <3>3. ASSUME NEW i \in DOMAIN queue'[r], NEW j \in DOMAIN queue'[r],
                 i < j, queue'[r][j].n # 0
          PROVE  queue'[r][i].n < queue'[r][j].n
      <4>1. i + 1 < j + 1
        BY <3>1, <3>3
      <4> QED
        BY <1>0, <3>1, <3>3, <4>1
    <3> QED
      BY <3>2, <3>3
  <2> QED
    BY <2>4, <2>5
<1>4. CASE \E m \in Managers : Send(m)
  <2>1. UNCHANGED <<queue, pushed>>
    BY <1>4 DEF Send, queueVars
  <2> QED
    BY <1>0, <2>1
<1>5. CASE ~Moving
  <2>1. UNCHANGED <<queue, pushed>>
    BY <1>5, QuietStep
  <2> QED
    BY <1>0, <2>1
<1> QED
  BY <1>1, <1>2, <1>3, <1>4, <1>5 DEF Moving

\* What was pushed before all that is queued will always have been.
LEMMA EarlierStays ==
  ASSUME Types, [Next]_vars, NEW p \in AnyPacket, Earlier(p)
  PROVE  Earlier(p)'
<1>0. PICK r \in Queues : r = p.queue
  BY DEF AnyPacket
<1>1. /\ p.n \in Nat /\ p.n <= pushed[r] /\ pushed[r] \in Nat
      /\ \A i \in DOMAIN queue[r] : queue[r][i].n \in Nat
      /\ \A i \in DOMAIN queue[r] : queue[r][i].n # 0 => p.n < queue[r][i].n
  BY <1>0, NumberTypes, NoneIsNothing DEF Earlier, AnyPacket
<1> SUFFICES /\ p.n <= pushed'[r]
             /\ \A i \in DOMAIN queue'[r] : queue'[r][i].n # 0 => p.n < queue'[r][i].n
  BY <1>0 DEF Earlier
<1>2. CASE \E m \in Managers : JoinReceive(m)
  <2>1. PICK m \in Managers : JoinReceive(m)
    BY <1>2
  <2>2. PICK q : q = mSendQueue[m]
    OBVIOUS
  <2>3. /\ q \in Queues /\ UNCHANGED pushed
        /\ \A k \in Queues \ {q} : queue'[k] = queue[k]
        /\ Len(queue[q]) \in Nat /\ DOMAIN queue[q] = 1..Len(queue[q])
        /\ DOMAIN queue'[q] = 1..(Len(queue[q]) + 1)
        /\ queue'[q][Len(queue[q]) + 1].n = 0
        /\ \A i \in 1..Len(queue[q]) : queue'[q][i] = queue[q][i]
    BY <2>1, <2>2, PillPushed
  <2>4. CASE r # q
    BY <1>1, <2>3, <2>4
  <2>5. CASE r = q
    BY <1>1, <2>3, <2>5, SMTT(30)
  <2> QED
    BY <2>4, <2>5
<1>3. CASE \E q \in Queues : HandlerPushes(q)
  <2>1. PICK q \in Queues : HandlerPushes(q)
    BY <1>3
  <2>2. /\ \A k \in Queues \ {q} : queue'[k] = queue[k] /\ pushed'[k] = pushed[k]
        /\ Len(queue[q]) \in Nat /\ DOMAIN queue[q] = 1..Len(queue[q])
        /\ DOMAIN queue'[q] = 1..(Len(queue[q]) + 1)
        /\ queue'[q][Len(queue[q]) + 1].n = pushed[q] + 1
        /\ \A i \in 1..Len(queue[q]) : queue'[q][i] = queue[q][i]
        /\ pushed[q] \in Nat /\ pushed'[q] = pushed[q] + 1
    BY <2>1, HandlerPushed
  <2>3. CASE r # q
    BY <1>1, <2>2, <2>3
  <2>4. CASE r = q
    <3>1. p.n <= pushed'[r]
      BY <1>1, <2>2, <2>4
    <3>2. ASSUME NEW i \in DOMAIN queue'[r], queue'[r][i].n # 0
          PROVE  p.n < queue'[r][i].n
      <4>1. i \in 1..Len(queue[q]) \/ i = Len(queue[q]) + 1
        BY <2>2, <2>4
      <4>2. CASE i \in 1..Len(queue[q])
        BY <1>1, <2>2, <2>4, <3>2, <4>2
      <4>3. CASE i = Len(queue[q]) + 1
        BY <1>1, <2>2, <2>4, <4>3
      <4> QED
        BY <4>1, <4>2, <4>3
    <3> QED
      BY <3>1, <3>2
  <2> QED
    BY <2>3, <2>4
<1>4. CASE \E m \in Managers : Pop(m)
  <2>1. PICK m \in Managers : Pop(m)
    BY <1>4
  <2>2. PICK q : q = mSendQueue[m]
    OBVIOUS
  <2>3. /\ q \in Queues /\ UNCHANGED pushed
        /\ \A k \in Queues \ {q} : queue'[k] = queue[k]
        /\ DOMAIN queue'[q] = 1..(Len(queue[q]) - 1)
        /\ \A i \in 1..(Len(queue[q]) - 1) :
             queue'[q][i] = queue[q][i + 1] /\ i + 1 \in DOMAIN queue[q]
    BY <2>1, <2>2, PoppedFirst
  <2>4. CASE r # q
    BY <1>1, <2>3, <2>4
  <2>5. CASE r = q
    BY <1>1, <2>3, <2>5
  <2> QED
    BY <2>4, <2>5
<1>5. CASE \E m \in Managers : Send(m)
  <2>1. UNCHANGED <<queue, pushed>>
    BY <1>5 DEF Send, queueVars
  <2> QED
    BY <1>1, <2>1
<1>6. CASE ~Moving
  <2>1. UNCHANGED <<queue, pushed>>
    BY <1>6, QuietStep
  <2> QED
    BY <1>1, <2>1
<1> QED
  BY <1>2, <1>3, <1>4, <1>5, <1>6 DEF Moving

\* Senders take and send packets by Pop and Send only.
LEMMA Untouched ==
  ASSUME Types, [Next]_vars, \A m \in Managers : ~Pop(m) /\ ~Send(m)
  PROVE  /\ UNCHANGED <<mSendQueue, item, wire>>
         /\ \A m \in Managers : Holds(m)' => Holds(m)
<1>1. CASE \E m \in Managers : JoinReceive(m)
  BY <1>1 DEF JoinReceive, netVars, Holds
<1>2. CASE \E q \in Queues : HandlerPushes(q)
  BY <1>2 DEF HandlerPushes, threadVars, netVars, Holds
<1>3. CASE ~Moving
  BY <1>3, QuietStep DEF Holds
<1> QED
  BY <1>1, <1>2, <1>3 DEF Moving

\* Who holds a packet held it, or has just taken it.
LEMMA HeldStep ==
  ASSUME Types, [Next]_vars, NEW m \in Managers, Holds(m)'
  PROVE  (Holds(m) /\ item'[m] = item[m]) \/ Pop(m)
<1>1. CASE \E k \in Managers : Pop(k)
  <2>1. PICK k \in Managers : Pop(k)
    BY <1>1
  <2>2. CASE k # m
    <3>1. PICK q : q = mSendQueue[k]
      OBVIOUS
    <3>2. /\ \A b \in Managers \ {k} : item'[b] = item[b]
          /\ sendPc' = [sendPc EXCEPT ![k] = IF queue[q][1].n = 0 THEN "test" ELSE "send"]
      BY <2>1, <3>1, PoppedFirst
    <3> QED
      BY <2>2, <3>2 DEF Holds, Types
  <2> QED
    BY <2>1, <2>2
<1>2. CASE \E k \in Managers : Send(k)
  <2>1. PICK k \in Managers : Send(k)
    BY <1>2
  <2>2. item' = item /\ sendPc' = [sendPc EXCEPT ![k] = "test"]
    BY <2>1 DEF Send, Moves
  <2> QED
    BY <2>2 DEF Holds, Types
<1>3. CASE \A k \in Managers : ~Pop(k) /\ ~Send(k)
  BY <1>3, Untouched
<1> QED
  BY <1>1, <1>2, <1>3

\* What is on a wire was, or has just been sent there.
LEMMA WireStep ==
  ASSUME Types, [Next]_vars, NEW c \in Managers
  PROVE  wire'[c] = wire[c] \/ \E m \in Managers : Send(m) /\ Behind(m) = c
<1>1. CASE \E k \in Managers : Pop(k)
  BY <1>1 DEF Pop, netVars
<1>2. CASE \E k \in Managers : Send(k)
  <2>1. PICK k \in Managers : Send(k)
    BY <1>2
  <2>2. PICK b : b = Behind(k)
    OBVIOUS
  <2>3. \A a \in Managers \ {b} : wire'[a] = wire[a]
    BY <2>1, <2>2, SentLast
  <2> QED
    BY <2>1, <2>2, <2>3
<1>3. CASE \A k \in Managers : ~Pop(k) /\ ~Send(k)
  BY <1>3, Untouched
<1> QED
  BY <1>1, <1>2, <1>3

\* A packet that is taken was pushed before the others of its queue.
LEMMA TakenFirst ==
  ASSUME Types, Numbered, NEW m \in Managers, Pop(m), Holds(m)', NEW q, q = mSendQueue[m],
         NEW p, p = item'[m]
  PROVE  p \in AnyPacket /\ p.queue = q /\ p.n # 0 /\ p = queue[q][1] /\ Earlier(p)'
<1>1. /\ q \in Queues
      /\ Len(queue[q]) \in Nat \ {0} /\ DOMAIN queue[q] = 1..Len(queue[q])
      /\ 1 \in DOMAIN queue[q] /\ DOMAIN queue'[q] = 1..(Len(queue[q]) - 1)
      /\ \A i \in 1..(Len(queue[q]) - 1) :
           queue'[q][i] = queue[q][i + 1] /\ i + 1 \in DOMAIN queue[q]
      /\ p \in AnyPacket /\ p = queue[q][1] /\ p.queue = q
      /\ sendPc' = [sendPc EXCEPT ![m] = IF queue[q][1].n = 0 THEN "test" ELSE "send"]
      /\ UNCHANGED pushed
  BY PoppedFirst
<1>2. p.n # 0
  BY <1>1 DEF Holds, Types
<1>3. p.n <= pushed'[q]
  BY <1>1 DEF Numbered
<1>4. ASSUME NEW i \in DOMAIN queue'[q], queue'[q][i].n # 0
      PROVE  p.n < queue'[q][i].n
  <2>0. i \in 1..(Len(queue[q]) - 1)
    BY <1>1, <1>4
  <2>1. i + 1 \in DOMAIN queue[q] /\ queue'[q][i] = queue[q][i + 1]
    BY <1>1, <2>0
  <2>2. 1 < i + 1
    BY <2>0, <1>1
  <2> QED
    BY <1>1, <1>4, <2>1, <2>2 DEF Numbered
<1> QED
  BY <1>1, <1>2, <1>3, <1>4 DEF Earlier

\* Every step keeps that what has left a queue was pushed before the rest.
LEMMA TakenEarlierStep ==
  ASSUME Types, Numbered, TakenEarlier, [Next]_vars
  PROVE  TakenEarlier'
<1>1. ASSUME NEW m \in Managers, Holds(m)', NEW p, p = item'[m]
      PROVE  Earlier(p)'
  <2>1. CASE Holds(m) /\ item'[m] = item[m]
    <3>1. Earlier(p) /\ p \in AnyPacket
      BY <1>1, <2>1 DEF TakenEarlier, Types
    <3> QED
      BY <3>1, EarlierStays
  <2>2. CASE Pop(m)
    BY <1>1, <2>2, TakenFirst
  <2> QED
    BY <1>1, <2>1, <2>2, HeldStep
<1>2. ASSUME NEW c \in Managers, NEW k \in DOMAIN wire'[c], NEW p, p = wire'[c][k]
      PROVE  Earlier(p)'
  <2>1. Earlier(p) /\ p \in AnyPacket
    <3>1. CASE wire'[c] = wire[c]
      <4>1. wire[c] \in Seq(AnyPacket)
        BY DEF Types
      <4> QED
        BY <1>2, <3>1, <4>1 DEF TakenEarlier
    <3>2. CASE \E m \in Managers : Send(m) /\ Behind(m) = c
      <4>1. PICK m \in Managers : Send(m) /\ Behind(m) = c
        BY <3>2
      <4>2. /\ DOMAIN wire[c] = 1..Len(wire[c]) /\ Len(wire[c]) \in Nat
            /\ DOMAIN wire'[c] = 1..(Len(wire[c]) + 1)
            /\ wire'[c][Len(wire[c]) + 1] = item[m]
            /\ \A i \in 1..Len(wire[c]) : wire'[c][i] = wire[c][i]
            /\ Holds(m)
        BY <4>1, SentLast DEF Holds
      <4>3. k \in 1..Len(wire[c]) \/ k = Len(wire[c]) + 1
        BY <4>2
      <4>4. CASE k \in 1..Len(wire[c])
        <5>1. wire[c] \in Seq(AnyPacket) /\ p = wire[c][k] /\ k \in DOMAIN wire[c]
          BY <1>2, <4>2, <4>4 DEF Types
        <5> QED
          BY <5>1 DEF TakenEarlier
      <4>5. CASE k = Len(wire[c]) + 1
        BY <1>2, <4>2, <4>5 DEF TakenEarlier, Types
      <4> QED
        BY <4>3, <4>4, <4>5
    <3> QED
      BY <3>1, <3>2, WireStep
  <2> QED
    BY <2>1, EarlierStays
<1> QED
  BY <1>1, <1>2 DEF TakenEarlier

\* No packet is held twice, sent twice, or held after it was sent.
Once ==
  /\ \A m, k \in Managers : m # k /\ Holds(m) /\ Holds(k) => item[m] # item[k]
  /\ \A m, c \in Managers : Holds(m) => \A j \in DOMAIN wire[c] : wire[c][j] # item[m]
  /\ \A b, c \in Managers : \A j \in DOMAIN wire[b], k \in DOMAIN wire[c] :
       wire[b][j] = wire[c][k] => b = c /\ j = k

\* A packet that is taken is one that nobody holds and that is on no wire.
LEMMA TakenIsNew ==
  ASSUME Types, Numbered, TakenEarlier, NEW m \in Managers, Pop(m), Holds(m)',
         NEW p, p = item'[m]
  PROVE  /\ \A k \in Managers : Holds(k) => item[k] # p
         /\ \A c \in Managers : \A j \in DOMAIN wire[c] : wire[c][j] # p
<1>1. PICK q : q = mSendQueue[m]
  OBVIOUS
<1>2. /\ q \in Queues /\ 1 \in DOMAIN queue[q] /\ p \in AnyPacket
      /\ p.queue = q /\ p.n # 0 /\ p = queue[q][1]
  BY <1>1, TakenFirst, PoppedFirst
<1>3. ~Earlier(p)
  BY <1>2, NoneIsNothing DEF Earlier, AnyPacket
<1> QED
  BY <1>3 DEF TakenEarlier

\* Every step keeps the packets single.
LEMMA OnceStep ==
  ASSUME Types, Numbered, TakenEarlier, Once, [Next]_vars
  PROVE  Once'
<1>1. CASE \E m \in Managers : Pop(m)
  <2>1. PICK m \in Managers : Pop(m)
    BY <1>1
  <2>2. PICK p : p = item'[m]
    OBVIOUS
  <2>3. UNCHANGED wire /\ \A k \in Managers \ {m} : item'[k] = item[k]
    <3>1. PICK q : q = mSendQueue[m]
      OBVIOUS
    <3> QED
      BY <2>1, <3>1, PoppedFirst DEF netVars
  <2>4. \A k \in Managers \ {m} : Holds(k)' => Holds(k)
    <3>1. PICK q : q = mSendQueue[m]
      OBVIOUS
    <3>2. sendPc' = [sendPc EXCEPT ![m] = IF queue[q][1].n = 0 THEN "test" ELSE "send"]
      BY <2>1, <3>1, PoppedFirst
    <3> QED
      BY <3>2 DEF Holds, Types
  <2>5. Holds(m)' =>
          /\ \A k \in Managers : Holds(k) => item[k] # p
          /\ \A c \in Managers : \A j \in DOMAIN wire[c] : wire[c][j] # p
    BY <2>1, <2>2, TakenIsNew
  <2>6. ASSUME NEW k \in Managers, NEW b \in Managers, k # b, Holds(k)', Holds(b)'
        PROVE  item'[k] # item'[b]
    <3>1. CASE k = m
      BY <2>2, <2>3, <2>4, <2>5, <2>6, <3>1
    <3>2. CASE b = m
      BY <2>2, <2>3, <2>4, <2>5, <2>6, <3>2
    <3>3. CASE k # m /\ b # m
      BY <2>3, <2>4, <2>6, <3>3 DEF Once
    <3> QED
      BY <3>1, <3>2, <3>3
  <2>7. ASSUME NEW k \in Managers, NEW c \in Managers, Holds(k)', NEW j \in DOMAIN wire'[c]
        PROVE  wire'[c][j] # item'[k]
    <3>1. CASE k = m
      BY <2>2, <2>3, <2>5, <2>7, <3>1
    <3>2. CASE k # m
      BY <2>3, <2>4, <2>7, <3>2 DEF Once
    <3> QED
      BY <3>1, <3>2
  <2>8. \A b, c \in Managers : \A j \in DOMAIN wire'[b], k \in DOMAIN wire'[c] :
          wire'[b][j] = wire'[c][k] => b = c /\ j = k
    BY <2>3 DEF Once
  <2> QED
    BY <2>6, <2>7, <2>8 DEF Once
<1>2. CASE \E m \in Managers : Send(m)
  <2>1. PICK m \in Managers : Send(m)
    BY <1>2
  <2>2. PICK a : a = Behind(m)
    OBVIOUS
  <2>3. /\ a \in Managers /\ \A b \in Managers \ {a} : wire'[b] = wire[b]
        /\ Len(wire[a]) \in Nat /\ DOMAIN wire[a] = 1..Len(wire[a])
        /\ DOMAIN wire'[a] = 1..(Len(wire[a]) + 1)
        /\ wire'[a][Len(wire[a]) + 1] = item[m]
        /\ \A i \in 1..Len(wire[a]) : wire'[a][i] = wire[a][i]
        /\ Holds(m) /\ sendPc' = [sendPc EXCEPT ![m] = "test"] /\ UNCHANGED item
    BY <2>1, <2>2, SentLast DEF Holds
  <2>4. ~Holds(m)' /\ \A k \in Managers : Holds(k)' => Holds(k) /\ k # m
    BY <2>3 DEF Holds, Types
  <2>5. ASSUME NEW b \in Managers, NEW j \in DOMAIN wire'[b]
        PROVE  \/ b = a /\ j = Len(wire[a]) + 1 /\ wire'[b][j] = item[m]
               \/ /\ j \in DOMAIN wire[b] /\ wire'[b][j] = wire[b][j]
                  /\ wire[b][j] # item[m]
    <3>1. CASE b # a
      BY <2>3, <2>5, <3>1 DEF Once
    <3>2. CASE b = a
      <4>1. j \in 1..Len(wire[a]) \/ j = Len(wire[a]) + 1
        BY <2>3, <2>5, <3>2
      <4> QED
        BY <2>3, <3>2, <4>1 DEF Once
    <3> QED
      BY <3>1, <3>2
  <2>6. \A k, b \in Managers : k # b /\ Holds(k)' /\ Holds(b)' => item'[k] # item'[b]
    BY <2>3, <2>4 DEF Once
  <2>7. ASSUME NEW k \in Managers, NEW c \in Managers, Holds(k)', NEW j \in DOMAIN wire'[c]
        PROVE  wire'[c][j] # item'[k]
    <3>1. Holds(k) /\ k # m /\ item'[k] = item[k] /\ item[k] # item[m]
      BY <2>3, <2>4, <2>7 DEF Once
    <3>2. \/ wire'[c][j] = item[m]
          \/ j \in DOMAIN wire[c] /\ wire'[c][j] = wire[c][j]
      BY <2>5, <2>7
    <3> QED
      BY <3>1, <3>2 DEF Once
  <2>8. ASSUME NEW b \in Managers, NEW c \in Managers, NEW j \in DOMAIN wire'[b],
               NEW k \in DOMAIN wire'[c], wire'[b][j] = wire'[c][k]
        PROVE  b = c /\ j = k
    <3>1. \/ b = a /\ j = Len(wire[a]) + 1 /\ wire'[b][j] = item[m]
          \/ /\ j \in DOMAIN wire[b] /\ wire'[b][j] = wire[b][j]
             /\ wire[b][j] # item[m]
      BY <2>5, <2>8
    <3>2. \/ c = a /\ k = Len(wire[a]) + 1 /\ wire'[c][k] = item[m]
          \/ /\ k \in DOMAIN wire[c] /\ wire'[c][k] = wire[c][k]
             /\ wire[c][k] # item[m]
      BY <2>5, <2>8
    <3> QED
      BY <2>8, <3>1, <3>2 DEF Once
  <2> QED
    BY <2>6, <2>7, <2>8 DEF Once
<1>3. CASE \A m \in Managers : ~Pop(m) /\ ~Send(m)
  <2>1. UNCHANGED <<item, wire>> /\ \A m \in Managers : Holds(m)' => Holds(m)
    BY <1>3, Untouched
  <2> QED
    BY <2>1 DEF Once
<1> QED
  BY <1>1, <1>2, <1>3

-----------------------------------------------------------------------------
(* Connections *)

\* A sender whose descriptor leads to another connection shares the descriptor
\* with the manager of that one.
LEMMA Misdirected ==
  ASSUME Types, Stages, Owned, NEW m \in Managers, Holds(m), NEW c \in Managers,
         c = Behind(m), c # m
  PROVE  Crossed(c) /\ Crossed(m)
<1>1. Live(m)
  BY DEF Stages, Holds, Live, Types
<1>2. fd[m] \in Descriptors /\ table[fd[m]] = c
  BY NoneIsNothing DEF Behind, Types
<1>3. fd[c] = fd[m] /\ Live(c)
  BY <1>2 DEF Owned
<1>4. PICK k \in Managers : startPc[k] = "destroyed" /\ fd[k] = fd[m]
  BY <1>1, <1>3, TwoAtOne DEF ClosedTwice
<1>5. k # m /\ k # c
  BY <1>1, <1>3, <1>4 DEF Live
<1> QED
  BY <1>3, <1>4, <1>5 DEF Crossed

\* A connection that others can send to stays one.
LEMMA CrossedStays ==
  ASSUME Types, Owned, [Next]_vars, NEW c \in Managers, Crossed(c)
  PROVE  Crossed(c)'
<1>1. PICK m \in Managers \ {c}, k \in Managers \ {c} :
        m # k /\ fd[m] = fd[c] /\ fd[k] = fd[c] /\ startPc[k] = "destroyed"
  BY DEF Crossed
<1>2. fd[k] # None
  BY <1>1 DEF Owned
<1>3. startPc[m] # "none" /\ startPc[c] # "none" /\ startPc[k] # "none"
  BY <1>1, <1>2 DEF Owned
<1>4. fd'[m] = fd[m] /\ fd'[c] = fd[c] /\ fd'[k] = fd[k] /\ startPc'[k] = "destroyed"
  BY <1>1, <1>3, DescriptorsStay
<1> QED
  BY <1>1, <1>4 DEF Crossed

\* What goes to a connection that is not crossed comes from its own manager.
LEMMA OwnSend ==
  ASSUME Types, Stages, Owned, [Next]_vars, NEW c \in Managers, ~Crossed(c)',
         NEW m \in Managers, Send(m)
  PROVE  Behind(m) = c <=> m = c
<1>1. ~Crossed(c)
  BY CrossedStays
<1>2. PICK b : b = Behind(m)
  OBVIOUS
<1>3. Holds(m) /\ b \in Managers
  BY <1>2, SentLast DEF Holds
<1> QED
  BY <1>1, <1>2, <1>3, Misdirected

\* The packets on a wire have numbers, and m's queue is one.
LEMMA WireTypes ==
  ASSUME Types, NEW c \in Managers
  PROVE  /\ mSendQueue[c] \in Queues /\ item[c] \in AnyPacket /\ item[c].n \in Nat
         /\ Len(wire[c]) \in Nat /\ DOMAIN wire[c] = 1..Len(wire[c])
         /\ \A k \in DOMAIN wire[c] : wire[c][k] \in AnyPacket /\ wire[c][k].n \in Nat \ {0}
<1>1. wire[c] \in Seq(AnyPacket) /\ mSendQueue[c] \in Queues /\ item[c] \in AnyPacket
  BY DEF Types
<1>2. \A p \in AnyPacket : p.n \in Nat
  BY NoneIsNothing DEF AnyPacket
<1>3. \A k \in DOMAIN wire[c] : wire[c][k] \in AnyPacket /\ wire[c][k].n # 0
  BY <1>1 DEF Types
<1> QED
  BY <1>1, <1>2, <1>3

\* The packets on c are those of its manager's queue, in their order, and the one
\* that the manager holds comes after them.
Ordered(c) ==
  /\ \A k \in DOMAIN wire[c] : wire[c][k].queue = mSendQueue[c]
  /\ \A j, k \in DOMAIN wire[c] : j < k => wire[c][j].n < wire[c][k].n
  /\ Holds(c) => \A k \in DOMAIN wire[c] : wire[c][k].n < item[c].n

InOrder == \A c \in Managers : ~Crossed(c) => Ordered(c)

\* Every step keeps the order on the connections that are not crossed.
LEMMA InOrderStep ==
  ASSUME Types, Stages, Owned, Numbered, TakenEarlier, InOrder, [Next]_vars
  PROVE  InOrder'
<1> SUFFICES ASSUME NEW c \in Managers, ~Crossed(c)'
             PROVE  Ordered(c)'
  BY DEF InOrder
<1>0. ~Crossed(c) /\ Ordered(c)
  BY CrossedStays DEF InOrder
<1>1. CASE \E m \in Managers : Pop(m)
  <2>1. PICK m \in Managers : Pop(m)
    BY <1>1
  <2>2. PICK q : q = mSendQueue[m]
    OBVIOUS
  <2>3. /\ UNCHANGED <<mSendQueue, wire>> /\ 1 \in DOMAIN queue[q]
        /\ \A k \in Managers \ {m} : item'[k] = item[k]
        /\ sendPc' = [sendPc EXCEPT ![m] = IF queue[q][1].n = 0 THEN "test" ELSE "send"]
        /\ item'[m] = queue[q][1]
    BY <2>1, <2>2, PoppedFirst DEF netVars
  <2>4. CASE m # c
    <3>1. item'[c] = item[c] /\ (Holds(c)' => Holds(c))
      BY <2>3, <2>4 DEF Holds, Types
    <3> QED
      BY <1>0, <2>3, <3>1 DEF Ordered
  <2>5. CASE m = c
    <3>1. ASSUME Holds(c)', NEW k \in DOMAIN wire[c]
          PROVE  wire[c][k].n < item'[c].n
      <4>1. queue[q][1].n # 0
        BY <2>3, <2>5, <3>1 DEF Holds, Types
      <4>2. wire[c][k].queue = q /\ Earlier(wire[c][k])
        BY <1>0, <2>2, <2>5, <3>1 DEF Ordered, TakenEarlier
      <4> QED
        BY <2>3, <2>5, <4>1, <4>2 DEF Earlier
    <3> QED
      BY <1>0, <2>3, <3>1 DEF Ordered
  <2> QED
    BY <2>4, <2>5
<1>2. CASE \E m \in Managers : Send(m)
  <2>1. PICK m \in Managers : Send(m)
    BY <1>2
  <2>2. PICK a : a = Behind(m)
    OBVIOUS
  <2>3. /\ \A b \in Managers \ {a} : wire'[b] = wire[b]
        /\ Len(wire[a]) \in Nat /\ DOMAIN wire[a] = 1..Len(wire[a])
        /\ DOMAIN wire'[a] = 1..(Len(wire[a]) + 1)
        /\ wire'[a][Len(wire[a]) + 1] = item[m]
        /\ \A i \in 1..Len(wire[a]) : wire'[a][i] = wire[a][i]
        /\ Holds(m) /\ sendPc' = [sendPc EXCEPT ![m] = "test"]
        /\ UNCHANGED <<item, mSendQueue>>
    BY <2>1, <2>2, SentLast DEF Holds, queueVars
  <2>4. a = c <=> m = c
    BY <2>1, <2>2, OwnSend
  <2>5. CASE m # c
    <3>1. wire'[c] = wire[c] /\ (Holds(c)' => Holds(c))
      BY <2>3, <2>4, <2>5 DEF Holds, Types
    <3> QED
      BY <1>0, <2>3, <3>1 DEF Ordered
  <2>6. CASE m = c
    <3>0. a = c
      BY <2>4, <2>6
    <3>1. ~Holds(c)' /\ item[c].queue = mSendQueue[c]
      BY <2>3, <2>6 DEF Holds, Types
    <3>2. ASSUME NEW k \in DOMAIN wire'[c]
          PROVE  \/ k \in DOMAIN wire[c] /\ wire'[c][k] = wire[c][k]
                 \/ k = Len(wire[c]) + 1 /\ wire'[c][k] = item[c]
      BY <2>3, <2>6, <3>0, <3>2
    <3>3. \A k \in DOMAIN wire'[c] : wire'[c][k].queue = mSendQueue'[c]
      BY <1>0, <2>3, <3>1, <3>2 DEF Ordered
    <3>4. ASSUME NEW j \in DOMAIN wire'[c], NEW k \in DOMAIN wire'[c], j < k
          PROVE  wire'[c][j].n < wire'[c][k].n
      <4>1. j \in DOMAIN wire[c] /\ wire'[c][j] = wire[c][j]
        BY <2>3, <3>0, <3>4
      <4>2. CASE k \in DOMAIN wire[c] /\ wire'[c][k] = wire[c][k]
        BY <1>0, <3>4, <4>1, <4>2 DEF Ordered
      <4>3. CASE wire'[c][k] = item[c]
        BY <1>0, <2>3, <2>6, <4>1, <4>3 DEF Ordered
      <4> QED
        BY <3>2, <3>4, <4>2, <4>3
    <3> QED
      BY <3>1, <3>3, <3>4 DEF Ordered
  <2> QED
    BY <2>5, <2>6
<1>3. CASE \A m \in Managers : ~Pop(m) /\ ~Send(m)
  <2>1. UNCHANGED <<mSendQueue, item, wire>> /\ (Holds(c)' => Holds(c))
    BY <1>3, Untouched
  <2> QED
    BY <1>0, <2>1 DEF Ordered
<1> QED
  BY <1>1, <1>2, <1>3

-----------------------------------------------------------------------------
(* No packet is skipped *)

\* c's sender has not stopped, and the packet that it sends next but for the one
\* that it holds.
GoesOn(c) ==
  \/ sendPc[c] \in {"none", "pop", "send"}
  \/ sendPc[c] = "test" /\ mIsRunning[c]

Upcoming(c) == IF Holds(c) THEN Len(wire[c]) + 2 ELSE Len(wire[c]) + 1

\* The packets on c are the first ones of its manager's queue, the one that the
\* manager holds is the next, and those after it are in the queue.
Complete(c) ==
  /\ \A k \in DOMAIN wire[c] : wire[c][k].n = k
  /\ Holds(c) => item[c].n = Len(wire[c]) + 1
  /\ GoesOn(c) => \A n \in Upcoming(c)..pushed[mSendQueue[c]] :
                    \E i \in DOMAIN queue[mSendQueue[c]] : queue[mSendQueue[c]][i].n = n

NoneSkipped == \A c \in Managers : ~Crossed(c) /\ ~Shared(c) => Complete(c)

\* A sender that has not stopped had not, and it still holds what it held.
LEMMA GoingOn ==
  ASSUME Types, [Next]_vars, \A m \in Managers : ~Pop(m) /\ ~Send(m),
         NEW c \in Managers, GoesOn(c)'
  PROVE  GoesOn(c) /\ (Holds(c)' <=> Holds(c))
<1> USE DEF Types, Moves, Stop, queueVars, netVars, GoesOn, Holds
<1>1. CASE ManagerStep(c)
  <2>1. CASE StartStep(c)
    BY <2>1 DEF StartStep, Start, JoinReceive, JoinSend
  <2>2. CASE ReceiveStep(c)
    BY <2>2 DEF ReceiveStep, TestReceive, ReadMessage, ReadEnd, ReadThrows
  <2>3. CASE SendStep(c)
    BY <2>3 DEF SendStep, TestSend, SendThrows
  <2>4. CASE Destroy(c) \/ \E d \in Descriptors : Construct(c, d) \/ ConstructThrows(c, d)
    BY <2>4 DEF Destroy, Construct, ConstructThrows
  <2> QED
    BY <1>1, <2>1, <2>2, <2>3, <2>4 DEF ManagerStep
<1>2. CASE \E k \in Managers \ {c} : ManagerStep(k)
  <2>1. sendPc'[c] = sendPc[c] /\ mIsRunning'[c] = mIsRunning[c]
    BY <1>2, OthersStay
  <2> QED
    BY <2>1
<1>3. CASE \A k \in Managers : ~ManagerStep(k)
  BY <1>3, NobodyMoves DEF threadVars
<1> QED
  BY <1>1, <1>2, <1>3

\* When no sender takes or sends, the queues only grow.
LEMMA QueueGrows ==
  ASSUME Types, [Next]_vars, \A m \in Managers : ~Pop(m) /\ ~Send(m), NEW r \in Queues
  PROVE  /\ \A i \in DOMAIN queue[r] : i \in DOMAIN queue'[r] /\ queue'[r][i] = queue[r][i]
         /\ \/ pushed'[r] = pushed[r]
            \/ /\ pushed'[r] = pushed[r] + 1
               /\ \E i \in DOMAIN queue'[r] : queue'[r][i].n = pushed[r] + 1
<1>1. CASE \E m \in Managers : JoinReceive(m)
  <2>1. PICK m \in Managers : JoinReceive(m)
    BY <1>1
  <2>2. PICK q : q = mSendQueue[m]
    OBVIOUS
  <2>3. /\ q \in Queues /\ UNCHANGED pushed
        /\ \A k \in Queues \ {q} : queue'[k] = queue[k]
        /\ Len(queue[q]) \in Nat /\ DOMAIN queue[q] = 1..Len(queue[q])
        /\ DOMAIN queue'[q] = 1..(Len(queue[q]) + 1)
        /\ \A i \in 1..Len(queue[q]) : queue'[q][i] = queue[q][i]
    BY <2>1, <2>2, PillPushed
  <2>4. CASE r # q
    BY <2>3, <2>4
  <2>5. CASE r = q
    BY <2>3, <2>5
  <2> QED
    BY <2>4, <2>5
<1>2. CASE \E q \in Queues : HandlerPushes(q)
  <2>1. PICK q \in Queues : HandlerPushes(q)
    BY <1>2
  <2>2. /\ \A k \in Queues \ {q} : queue'[k] = queue[k] /\ pushed'[k] = pushed[k]
        /\ Len(queue[q]) \in Nat /\ DOMAIN queue[q] = 1..Len(queue[q])
        /\ DOMAIN queue'[q] = 1..(Len(queue[q]) + 1)
        /\ queue'[q][Len(queue[q]) + 1].n = pushed[q] + 1
        /\ \A i \in 1..Len(queue[q]) : queue'[q][i] = queue[q][i]
        /\ pushed'[q] = pushed[q] + 1
    BY <2>1, HandlerPushed
  <2>3. CASE r # q
    BY <2>2, <2>3
  <2>4. CASE r = q
    <3>1. Len(queue[q]) + 1 \in DOMAIN queue'[q]
      BY <2>2
    <3> QED
      BY <2>2, <2>4, <3>1
  <2> QED
    BY <2>3, <2>4
<1>3. CASE ~Moving
  BY <1>3, QuietStep
<1> QED
  BY <1>1, <1>2, <1>3 DEF Moving

\* The packet that a sender takes is the next one, and the others stay.
LEMMA TakenNext ==
  ASSUME Types, Numbered, TakenEarlier, NEW c \in Managers, Ordered(c), Complete(c), Pop(c)
  PROVE  Complete(c)'
<1>1. PICK q : q = mSendQueue[c]
  OBVIOUS
<1>2. PICK l : l = Len(wire[c])
  OBVIOUS
<1>3. /\ q \in Queues /\ Len(queue[q]) \in Nat \ {0} /\ DOMAIN queue[q] = 1..Len(queue[q])
      /\ 1 \in DOMAIN queue[q] /\ DOMAIN queue'[q] = 1..(Len(queue[q]) - 1)
      /\ \A i \in 1..(Len(queue[q]) - 1) :
           queue'[q][i] = queue[q][i + 1] /\ i + 1 \in DOMAIN queue[q]
      /\ item'[c] = queue[q][1]
      /\ sendPc' = [sendPc EXCEPT ![c] = IF queue[q][1].n = 0 THEN "test" ELSE "send"]
      /\ sendPc[c] = "pop"
      /\ UNCHANGED <<mSendQueue, pushed, wire>>
  BY <1>1, PoppedFirst DEF netVars
<1>4. /\ pushed[q] \in Nat /\ \A i \in DOMAIN queue[q] : queue[q][i].n \in Nat
      /\ l \in Nat /\ DOMAIN wire[c] = 1..l
  BY <1>2, <1>3, NumberTypes, WireTypes
<1>5. Upcoming(c) = l + 1 /\ GoesOn(c)
  BY <1>2, <1>3 DEF Upcoming, GoesOn, Holds
<1>6. \A n \in (l + 1)..pushed[q] : \E i \in DOMAIN queue[q] : queue[q][i].n = n
  BY <1>1, <1>5 DEF Complete
<1>7. Holds(c)' <=> queue[q][1].n # 0
  BY <1>3 DEF Holds, Types
<1>8. queue[q][1].n # 0 => queue[q][1].n = l + 1
  <2> SUFFICES ASSUME queue[q][1].n # 0
               PROVE  queue[q][1].n = l + 1
    OBVIOUS
  <2>1. l + 1 <= queue[q][1].n
    <3>1. CASE l = 0
      BY <1>3, <1>4, <3>1
    <3>2. CASE l # 0
      <4>1. l \in DOMAIN wire[c] /\ wire[c][l].n = l /\ wire[c][l].queue = q
        BY <1>1, <1>4, <3>2 DEF Complete, Ordered
      <4>2. Earlier(wire[c][l])
        BY <4>1 DEF TakenEarlier
      <4>3. l < queue[q][1].n
        BY <1>3, <4>1, <4>2 DEF Earlier
      <4> QED
        BY <1>3, <1>4, <4>3
    <3> QED
      BY <3>1, <3>2
  <2>2. queue[q][1].n <= pushed[q]
    BY <1>3 DEF Numbered
  <2>3. PICK i \in DOMAIN queue[q] : queue[q][i].n = l + 1
    <3>1. l + 1 \in (l + 1)..pushed[q]
      BY <1>3, <1>4, <2>1, <2>2
    <3> QED
      BY <1>6, <3>1
  <2>4. CASE i = 1
    BY <2>3, <2>4
  <2>5. CASE i # 1
    <3>1. 1 < i
      BY <1>3, <2>5
    <3>2. queue[q][1].n < queue[q][i].n
      BY <1>3, <1>4, <2>3, <3>1 DEF Numbered
    <3> QED
      BY <1>3, <1>4, <2>1, <2>3, <3>2
  <2> QED
    BY <2>4, <2>5
<1>9. ASSUME NEW n \in (l + 1)..pushed[q], n # queue[q][1].n
      PROVE  \E i \in DOMAIN queue'[q] : queue'[q][i].n = n
  <2>1. PICK i \in DOMAIN queue[q] : queue[q][i].n = n
    BY <1>6
  <2>2. i # 1
    BY <1>9, <2>1
  <2>3. i - 1 \in 1..(Len(queue[q]) - 1) /\ (i - 1) + 1 = i
    BY <1>3, <2>2
  <2>4. queue'[q][i - 1] = queue[q][i] /\ i - 1 \in DOMAIN queue'[q]
    BY <1>3, <2>3
  <2> QED
    BY <2>1, <2>4
<1>10. \A n \in Upcoming(c)'..pushed[q] : n \in (l + 1)..pushed[q] /\ n # queue[q][1].n
  <2>1. CASE queue[q][1].n = 0
    BY <1>2, <1>3, <1>4, <1>7, <2>1 DEF Upcoming
  <2>2. CASE queue[q][1].n # 0
    BY <1>2, <1>3, <1>4, <1>7, <1>8, <2>2 DEF Upcoming
  <2> QED
    BY <2>1, <2>2
<1>11. \A k \in DOMAIN wire'[c] : wire'[c][k].n = k
  BY <1>3 DEF Complete
<1>12. Holds(c)' => item'[c].n = Len(wire'[c]) + 1
  BY <1>2, <1>3, <1>7, <1>8
<1>13. \A n \in Upcoming(c)'..pushed'[mSendQueue'[c]] :
         \E i \in DOMAIN queue'[mSendQueue'[c]] : queue'[mSendQueue'[c]][i].n = n
  BY <1>1, <1>3, <1>9, <1>10
<1> QED
  BY <1>11, <1>12, <1>13 DEF Complete

\* The packet that is sent is the next one.
LEMMA SentNext ==
  ASSUME Types, NEW c \in Managers, Complete(c), Send(c), Behind(c) = c
  PROVE  Complete(c)'
<1>1. PICK l : l = Len(wire[c])
  OBVIOUS
<1>2. /\ l \in Nat /\ DOMAIN wire[c] = 1..l
      /\ DOMAIN wire'[c] = 1..(l + 1) /\ Len(wire'[c]) = l + 1
      /\ wire'[c][l + 1] = item[c]
      /\ \A i \in 1..l : wire'[c][i] = wire[c][i]
      /\ sendPc[c] = "send" /\ sendPc' = [sendPc EXCEPT ![c] = "test"]
      /\ UNCHANGED <<mSendQueue, queue, pushed, item>>
  BY <1>1, SentLast DEF queueVars
<1>3. Holds(c) /\ GoesOn(c) /\ ~Holds(c)'
  BY <1>2 DEF Holds, GoesOn, Types
<1>4. Upcoming(c) = l + 2 /\ Upcoming(c)' = l + 2
  BY <1>1, <1>2, <1>3 DEF Upcoming
<1>5. ASSUME NEW k \in DOMAIN wire'[c]
      PROVE  wire'[c][k].n = k
  <2>1. k \in 1..l \/ k = l + 1
    BY <1>2
  <2> QED
    BY <1>1, <1>2, <1>3, <2>1 DEF Complete
<1>6. \A n \in (l + 2)..pushed'[mSendQueue'[c]] :
        \E i \in DOMAIN queue'[mSendQueue'[c]] : queue'[mSendQueue'[c]][i].n = n
  BY <1>2, <1>3, <1>4 DEF Complete
<1> QED
  BY <1>3, <1>4, <1>5, <1>6 DEF Complete

\* Every step keeps it that no packet is skipped on a connection that is not
\* crossed and whose manager has its queue alone.
LEMMA NoneSkippedStep ==
  ASSUME Types, Stages, Owned, Numbered, TakenEarlier, InOrder, NoneSkipped, [Next]_vars
  PROVE  NoneSkipped'
<1> SUFFICES ASSUME NEW c \in Managers, ~Crossed(c)', ~Shared(c)'
             PROVE  Complete(c)'
  BY DEF NoneSkipped
<1>0. /\ mSendQueue' = mSendQueue /\ ~Crossed(c) /\ ~Shared(c)
      /\ Complete(c) /\ Ordered(c) /\ mSendQueue[c] \in Queues
  <2>1. mSendQueue' = mSendQueue
    BY QuietStep DEF Moving, JoinReceive, Pop, Send, HandlerPushes, queueVars
  <2>2. ~Crossed(c) /\ ~Shared(c)
    BY <2>1, CrossedStays DEF Shared
  <2> QED
    BY <2>1, <2>2 DEF NoneSkipped, InOrder, Types
<1>1. PICK q : q = mSendQueue[c]
  OBVIOUS
<1>2. ASSUME wire'[c] = wire[c], item'[c] = item[c],
             queue'[q] = queue[q], pushed'[q] = pushed[q],
             GoesOn(c)' <=> GoesOn(c), Holds(c)' <=> Holds(c)
      PROVE  Complete(c)'
  <2>1. Upcoming(c)' = Upcoming(c)
    BY <1>2 DEF Upcoming
  <2> QED
    BY <1>0, <1>1, <1>2, <2>1 DEF Complete
<1>3. CASE \E m \in Managers : Pop(m)
  <2>1. PICK m \in Managers : Pop(m)
    BY <1>3
  <2>2. CASE m = c
    BY <1>0, <2>1, <2>2, TakenNext
  <2>3. CASE m # c
    <3>1. PICK r : r = mSendQueue[m]
      OBVIOUS
    <3>2. /\ \A k \in Queues \ {r} : queue'[k] = queue[k]
          /\ \A k \in Managers \ {m} : item'[k] = item[k]
          /\ sendPc' = [sendPc EXCEPT ![m] = IF queue[r][1].n = 0 THEN "test" ELSE "send"]
          /\ UNCHANGED <<pushed, mIsRunning, wire>>
      BY <2>1, <3>1, PoppedFirst DEF netVars
    <3>3. q # r
      BY <1>0, <1>1, <2>3, <3>1 DEF Shared
    <3>4. GoesOn(c)' <=> GoesOn(c)
      BY <2>3, <3>2 DEF GoesOn, Types
    <3>5. Holds(c)' <=> Holds(c)
      BY <2>3, <3>2 DEF Holds, Types
    <3> QED
      BY <1>0, <1>1, <1>2, <2>3, <3>2, <3>3, <3>4, <3>5
  <2> QED
    BY <2>2, <2>3
<1>4. CASE \E m \in Managers : Send(m)
  <2>1. PICK m \in Managers : Send(m)
    BY <1>4
  <2>2. Behind(m) = c <=> m = c
    BY <2>1, OwnSend
  <2>3. CASE m = c
    BY <1>0, <2>1, <2>2, <2>3, SentNext
  <2>4. CASE m # c
    <3>1. PICK a : a = Behind(m)
      OBVIOUS
    <3>2. /\ \A b \in Managers \ {a} : wire'[b] = wire[b]
          /\ sendPc' = [sendPc EXCEPT ![m] = "test"]
          /\ UNCHANGED <<queue, pushed, mIsRunning, item>>
      BY <2>1, <3>1, SentLast DEF queueVars
    <3>3. GoesOn(c)' <=> GoesOn(c)
      BY <2>4, <3>2 DEF GoesOn, Types
    <3>4. Holds(c)' <=> Holds(c)
      BY <2>4, <3>2 DEF Holds, Types
    <3> QED
      BY <1>2, <2>2, <2>4, <3>1, <3>2, <3>3, <3>4
  <2> QED
    BY <2>3, <2>4
<1>5. CASE \A m \in Managers : ~Pop(m) /\ ~Send(m)
  <2>1. UNCHANGED <<item, wire>> /\ (Holds(c)' => Holds(c))
    BY <1>5, Untouched
  <2>2. GoesOn(c)' => GoesOn(c) /\ (Holds(c)' <=> Holds(c))
    BY <1>5, GoingOn
  <2>3. /\ \A i \in DOMAIN queue[q] : i \in DOMAIN queue'[q] /\ queue'[q][i] = queue[q][i]
        /\ \/ pushed'[q] = pushed[q]
           \/ /\ pushed'[q] = pushed[q] + 1
              /\ \E i \in DOMAIN queue'[q] : queue'[q][i].n = pushed[q] + 1
    BY <1>0, <1>1, <1>5, QueueGrows
  <2>4. pushed[q] \in Nat /\ Len(wire[c]) \in Nat
    BY <1>0, <1>1, NumberTypes, WireTypes
  <2>5. ASSUME GoesOn(c)', NEW n \in Upcoming(c)'..pushed'[q]
        PROVE  \E i \in DOMAIN queue'[q] : queue'[q][i].n = n
    <3>1. Upcoming(c)' = Upcoming(c) /\ Upcoming(c) \in Nat
      BY <2>1, <2>2, <2>4, <2>5 DEF Upcoming
    <3>2. CASE n \in Upcoming(c)..pushed[q]
      <4>1. PICK i \in DOMAIN queue[q] : queue[q][i].n = n
        BY <1>1, <1>0, <2>2, <2>5, <3>2 DEF Complete
      <4> QED
        BY <2>3, <4>1
    <3>3. CASE n \notin Upcoming(c)..pushed[q]
      <4>1. pushed'[q] = pushed[q] + 1 /\ n = pushed[q] + 1
        BY <2>3, <2>4, <2>5, <3>1, <3>3
      <4> QED
        BY <2>3, <2>4, <4>1
    <3> QED
      BY <3>2, <3>3
  <2> QED
    BY <1>0, <1>1, <2>1, <2>5 DEF Complete
<1> QED
  BY <1>3, <1>4, <1>5

-----------------------------------------------------------------------------
(* The theorems *)

\* A sequence is one over any set that has its elements.
LEMMA Resorted ==
  ASSUME NEW W, NEW V, NEW s \in Seq(W), \A i \in DOMAIN s : s[i] \in V
  PROVE  s \in Seq(V)
<1>1. Len(s) \in Nat /\ DOMAIN s = 1..Len(s) /\ s = [i \in 1..Len(s) |-> s[i]]
  OBVIOUS
<1> QED
  BY <1>1

ManagerInv ==
  /\ Types /\ Stages /\ PillWakesSender /\ Owned
  /\ Numbered /\ TakenEarlier /\ Once /\ InOrder /\ NoneSkipped

\* The invariant holds before the first connection.
LEMMA ManagerStart ==
  ASSUME Init
  PROVE  ManagerInv
<1>0. /\ mSendQueue \in [Managers -> Queues]
      /\ queue = [q \in Queues |-> <<>>] /\ pushed = [q \in Queues |-> 0]
      /\ item = [m \in Managers |-> Invalid(mSendQueue[m])]
      /\ sendPc = [m \in Managers |-> "none"] /\ startPc = [m \in Managers |-> "none"]
      /\ receivePc = [m \in Managers |-> "none"] /\ mIsRunning = [m \in Managers |-> FALSE]
      /\ fd = [m \in Managers |-> None] /\ table = [d \in Descriptors |-> None]
      /\ wire = [m \in Managers |-> <<>>]
  BY DEF Init
<1>1. Types
  <2>1. \A q \in Queues : Invalid(q) \in AnyPacket /\ Invalid(q).queue = q
    BY NoneIsNothing DEF Invalid, AnyPacket
  <2>2. /\ item \in [Managers -> AnyPacket]
        /\ \A m \in Managers : item[m].queue = mSendQueue[m] /\ sendPc[m] # "send"
    BY <1>0, <2>1
  <2>3. <<>> \in Seq(AnyPacket) /\ DOMAIN <<>> = {}
    OBVIOUS
  <2>4. /\ queue \in [Queues -> Seq(AnyPacket)] /\ wire \in [Managers -> Seq(AnyPacket)]
        /\ \A q \in Queues : DOMAIN queue[q] = {}
        /\ \A c \in Managers : DOMAIN wire[c] = {}
    BY <1>0, <2>3
  <2>5. /\ pushed \in [Queues -> 0..MaxPushes] /\ mIsRunning \in [Managers -> BOOLEAN]
        /\ startPc \in [Managers ->
             {"none", "thrown", "made", "receive", "send", "returned", "destroyed"}]
        /\ receivePc \in [Managers -> {"none", "test", "read", "done"}]
        /\ sendPc \in [Managers -> {"none", "test", "pop", "send", "done"}]
        /\ msgSize \in [Managers -> {"zero", "message", "garbage"}]
        /\ fd \in [Managers -> Descriptors \cup {None}]
        /\ table \in [Descriptors -> Managers \cup {None}]
        /\ peer \in [Managers -> {"none", "connected", "closed", "reset"}]
        /\ inbox \in [Managers -> 0..MaxMessages]
    BY NoneIsNothing DEF Init
  <2> QED
    BY <1>0, <2>2, <2>4, <2>5 DEF Types
<1>2. Stages /\ PillWakesSender
  BY <1>0 DEF Stages, PillWakesSender
<1>3. Owned
  BY <1>0, NoneIsNothing DEF Owned, Live
<1>4. /\ \A q \in Queues : DOMAIN queue[q] = {} /\ pushed[q] = 0
      /\ \A c \in Managers : DOMAIN wire[c] = {} /\ Len(wire[c]) = 0 /\ ~Holds(c)
  <2>1. DOMAIN <<>> = {} /\ Len(<<>>) = 0
    OBVIOUS
  <2> QED
    BY <1>0, <2>1 DEF Holds
<1>5. Numbered /\ TakenEarlier /\ Once /\ InOrder
  BY <1>4 DEF Numbered, TakenEarlier, Once, InOrder, Ordered
<1>6. NoneSkipped
  <2>1. \A c \in Managers : Upcoming(c) = 1 /\ pushed[mSendQueue[c]] = 0
    BY <1>0, <1>4 DEF Upcoming
  <2> QED
    BY <1>4, <2>1 DEF NoneSkipped, Complete
<1> QED
  BY <1>1, <1>2, <1>3, <1>5, <1>6 DEF ManagerInv

\* The invariant always holds.
LEMMA ManagerAlways == SafeSpec => []ManagerInv
<1>1. Init => ManagerInv
  BY ManagerStart
<1>2. ManagerInv /\ [Next]_vars => ManagerInv'
  <2> SUFFICES ASSUME ManagerInv, [Next]_vars
               PROVE  ManagerInv'
    OBVIOUS
  <2>1. /\ Types /\ Stages /\ PillWakesSender /\ Owned
        /\ Numbered /\ TakenEarlier /\ Once /\ InOrder /\ NoneSkipped
    BY DEF ManagerInv
  <2>2. Types' /\ Stages' /\ PillWakesSender' /\ Owned'
    BY <2>1, TypesStep, StagesStep, PillStep, OwnedStep
  <2>3. Numbered' /\ TakenEarlier' /\ Once'
    BY <2>1, NumberedStep, TakenEarlierStep, OnceStep
  <2>4. InOrder' /\ NoneSkipped'
    BY <2>1, InOrderStep, NoneSkippedStep
  <2> QED
    BY <2>2, <2>3, <2>4 DEF ManagerInv
<1> QED
  BY <1>1, <1>2, PTL DEF SafeSpec

\* Every variable has its type: only packets that a handler pushed to some queue
\* are sent, and a queue has its own packets and the one that wakes a sender.
THEOREM ManagerTypeCorrect == SafeSpec => []TypeOK
<1>1. ManagerInv => TypeOK
  <2> SUFFICES ASSUME Types
               PROVE  TypeOK
    BY DEF ManagerInv
  <2>1. ASSUME NEW p \in AnyPacket
        PROVE  /\ p \in Packet(p.queue) \cup {Invalid(p.queue)} /\ p.queue \in Queues
               /\ p.n # 0 => p \in Packet(p.queue)
    <3>1. p = [queue |-> p.queue, n |-> p.n] /\ p.queue \in Queues /\ p.n \in 0..MaxPushes
      BY DEF AnyPacket
    <3>2. CASE p.n = 0
      BY <3>1, <3>2 DEF Invalid
    <3>3. CASE p.n # 0
      <4>1. p.n \in 1..MaxPushes
        BY <3>1, <3>3, NoneIsNothing
      <4> QED
        BY <3>1, <4>1 DEF Packet
    <3> QED
      BY <3>1, <3>2, <3>3
  <2>2. ASSUME NEW q \in Queues
        PROVE  queue[q] \in Seq(Packet(q) \cup {Invalid(q)})
    <3>1. queue[q] \in Seq(AnyPacket) /\ \A i \in DOMAIN queue[q] : queue[q][i].queue = q
      BY DEF Types
    <3>2. \A i \in DOMAIN queue[q] : queue[q][i] \in AnyPacket
      BY <3>1
    <3>3. \A i \in DOMAIN queue[q] : queue[q][i] \in Packet(q) \cup {Invalid(q)}
      BY <2>1, <3>1, <3>2
    <3> QED
      BY <3>1, <3>3, Resorted
  <2>3. ASSUME NEW c \in Managers
        PROVE  wire[c] \in Seq(UNION {Packet(q) : q \in Queues})
    <3>1. wire[c] \in Seq(AnyPacket) /\ \A i \in DOMAIN wire[c] : wire[c][i].n # 0
      BY DEF Types
    <3>2. \A i \in DOMAIN wire[c] : wire[c][i] \in AnyPacket
      BY <3>1
    <3>3. \A i \in DOMAIN wire[c] : wire[c][i] \in UNION {Packet(q) : q \in Queues}
      BY <2>1, <3>1, <3>2
    <3> QED
      BY <3>1, <3>3, Resorted
  <2> QED
    BY <2>2, <2>3 DEF Types, TypeOK
<1> QED
  BY <1>1, ManagerAlways, PTL

\* While start joins a sender that pops, its queue has a packet, unless another
\* manager has the queue too: the INVALID packet is not lost.
THEOREM PillReachesSender == SafeSpec => []PillWakesSender
<1>1. ManagerInv => PillWakesSender
  BY DEF ManagerInv
<1> QED
  BY <1>1, ManagerAlways, PTL

\* A manager that start is not done with has its own connection behind its
\* descriptor, unless a manager that had the descriptor before closed it twice.
THEOREM OnlyTheDestructorCutsOff == SafeSpec => []StaysConnected
<1>1. ManagerInv => StaysConnected
  <2> SUFFICES ASSUME Types, Owned, NEW m \in Managers,
                      startPc[m] \in {"made", "receive", "send"}, Behind(m) # m
               PROVE  \E k \in Managers \ {m} : startPc[k] = "destroyed" /\ fd[k] = fd[m]
    BY DEF ManagerInv, StaysConnected
  <2>1. Live(m) /\ fd[m] # None
    BY DEF Live, Owned
  <2>2. table[fd[m]] # m
    BY <2>1 DEF Behind
  <2>3. ClosedTwice(fd[m])
    BY <2>1, <2>2 DEF Owned
  <2> QED
    BY <2>3 DEF ClosedTwice
<1> QED
  BY <1>1, ManagerAlways, PTL

\* No packet is sent twice, and on a connection that only its own manager sends
\* to, the packets of its queue go out in the order of their pushes, with none
\* skipped when no other manager has the queue.
THEOREM PacketsLeaveInOrder == SafeSpec => []OrderedOnWire
<1>1. ManagerInv => OrderedOnWire
  <2> SUFFICES ASSUME Types, Once, InOrder, NoneSkipped, NEW c \in Managers
               PROVE  /\ \A b \in Managers \ {c} : Range(wire[b]) \cap Range(wire[c]) = {}
                      /\ IsInjective(wire[c])
                      /\ \/ Crossed(c)
                         \/ \A k \in DOMAIN wire[c] :
                              /\ wire[c][k].queue = mSendQueue[c]
                              /\ \A j \in 1..(k - 1) : wire[c][j].n < wire[c][k].n
                              /\ wire[c][k].n = k \/ Shared(c)
    BY DEF ManagerInv, OrderedOnWire
  <2>1. \A b \in Managers \ {c} : Range(wire[b]) \cap Range(wire[c]) = {}
    BY DEF Once, Range
  <2>2. IsInjective(wire[c])
    BY DEF Once, IsInjective
  <2>3. ASSUME ~Crossed(c), NEW k \in DOMAIN wire[c]
        PROVE  /\ wire[c][k].queue = mSendQueue[c]
               /\ \A j \in 1..(k - 1) : wire[c][j].n < wire[c][k].n
               /\ wire[c][k].n = k \/ Shared(c)
    <3>1. Ordered(c)
      BY <2>3 DEF InOrder
    <3>2. \A j \in 1..(k - 1) : j \in DOMAIN wire[c] /\ j < k
      BY <2>3, WireTypes
    <3>3. wire[c][k].n = k \/ Shared(c)
      BY <2>3 DEF NoneSkipped, Complete
    <3> QED
      BY <2>3, <3>1, <3>2, <3>3 DEF Ordered
  <2> QED
    BY <2>1, <2>2, <2>3
<1> QED
  BY <1>1, ManagerAlways, PTL

=============================================================================

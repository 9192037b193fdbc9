---------------------- MODULE ServerManagerStreamProofs ----------------------
(***************************************************************************)
(* Theorems about what the server sends, for any sets of connections,      *)
(* addresses and workers and any answers: ServerManager implements         *)
(* ResponseStreams, and until a client is sent something its completions   *)
(* are taken for what they are.                                            *)
(***************************************************************************)
EXTENDS ServerManagerProofs

\* A worker without a client in hand has let go of its shared_ptr, and an
\* address belongs to one living Client.
Lives ==
  /\ \A w \in Workers : workPc[w] \in {"wait", "check", "lookup"} => client[w] = None
  /\ \A s, t \in Conns : Alive(s) /\ Alive(t) /\ addr[s] = addr[t] => s = t

OnWire(p) == \E i \in DOMAIN wire[p.to] : wire[p.to][i] = p

\* sendTask has taken p and not yet sent it.
InSender(p) == sendPc \in {"mark", "post"} /\ item = p

Queued(p) == \E i \in DOMAIN mSendQueue : mSendQueue[i] = p

Dead == {s \in Conns : Destroyed(s)}

PacketOf(j, n) == [to |-> jobs[j].to, job |-> j, n |-> n]

\* The packets in the queue: none is on the wire, those of one answer are in
\* order, and none that comes before is missing while the client lives.
QueueInOrder ==
  \A i \in DOMAIN mSendQueue :
    LET p == mSendQueue[i]
    IN /\ ~OnWire(p) /\ ~InSender(p)
       /\ \A k \in 1..(i - 1) : mSendQueue[k].job = p.job => mSendQueue[k].n < p.n
       /\ p.to \notin Dead =>
            \A n \in 1..(p.n - 1) :
              \/ OnWire(PacketOf(p.job, n)) \/ InSender(PacketOf(p.job, n))
              \/ \E k \in 1..(i - 1) : mSendQueue[k] = PacketOf(p.job, n)

\* The packet sendTask has in hand is the next one of its answer.
NextInHand ==
  sendPc \in {"mark", "post"} =>
    ~OnWire(item) /\ \A n \in 1..(item.n - 1) : OnWire(PacketOf(item.job, n))

\* Each worker queues an answer of its own, to the client it holds: what it has
\* queued is somewhere on the way, what it has not is nowhere.
Somewhere(p) == OnWire(p) \/ InSender(p) \/ Queued(p)

OwnJob ==
  \A w \in Workers : workPc[w] = "queue" =>
    /\ jobs[job[w]].to = client[w]
    /\ \A v \in Workers \ {w} : workPc[v] = "queue" => job[v] # job[w]
    /\ \A n \in DOMAIN jobs[job[w]].response :
         n < next[w] <=> Somewhere(PacketOf(job[w], n))

InOrder == QueueInOrder /\ NextInHand /\ OwnJob

\* Until a client is sent something mState says READ wherever one of its
\* receives is pending, completed or about to be posted, and none of its sends
\* is.
Marked(s) == mState[s] = "READ" \/ SendBegun(s)

\* ... and only of its sends once there is one.
Fits(d) == Marked(d.conn) /\ (d.op = "send" => wire[d.conn] # <<>>)

ReadsMarked ==
  /\ \A s \in Conns : recvs[s] > 0 => Marked(s)
  /\ \A s \in Conns : sends[s] # <<>> => wire[s] # <<>>
  /\ \A i \in DOMAIN port : Fits(port[i])
  /\ acceptPc = "post" => Marked(accepting)
  /\ \A w \in Workers :
       /\ workPc[w] # "wait" => Fits(completion[w])
       /\ workPc[w] \in {"post1", "post2"} => Marked(client[w])

-----------------------------------------------------------------------------
(* Lives is inductive, and a step destroys one client at most. *)

\* A living Client has an address.
LEMMA AliveAddr ==
  ASSUME Typed, NEW s \in Conns, Alive(s)
  PROVE  addr[s] \in Addrs
<1> USE ThreadsAssumption DEF Typed, TypeOK, InHand, Addressed
<1>1. CASE SenderHolds(s)
  <2>1. item.job \in DOMAIN jobs /\ jobs[item.job].to = s
    BY <1>1 DEF SenderHolds, Packets
  <2> QED
    BY <2>1
<1>2. CASE Registered(s)
  <2>1. PICK a \in Addrs : mSockets[a] = s
    BY <1>2 DEF Registered
  <2> QED
    BY <2>1
<1>3. CASE accepting = s
  BY <1>3
<1>4. CASE \E w \in Workers : client[w] = s
  BY <1>4
<1> QED
  BY <1>1, <1>2, <1>3, <1>4 DEF Alive

\* A worker comes by a client through the map only, and lets go of it before it
\* waits.
LEMMA ClientSet ==
  ASSUME Typed, NEW w \in Workers, WorkStep(w)
  PROVE  /\ \A v \in Workers \ {w} : client'[v] = client[v] /\ workPc'[v] = workPc[v]
         /\ UNCHANGED <<accepting, addr>>
         /\ \/ client'[w] = client[w]
            \/ client'[w] = None /\ (WorkErase(w) \/ WorkNotify(w))
            \/ WorkLookup(w) /\ Key(w) \in Addrs /\ client'[w] = mSockets[Key(w)]
BY DEF Typed, TypeOK, InHand, Completion, WorkGoto, Key, clientVars, acceptVars, workVars,
       MarkRead, WorkStep, WorkDequeue, WorkCheck, WorkLookup, WorkLookupFails, WorkRemoveLock,
       WorkErase, WorkIOEvent, WorkQueue, WorkMark, WorkPost, WorkNotify

\* sendTask has a client in hand before and after a step of a worker, or in
\* neither state.
LEMMA SenderHoldsStays ==
  ASSUME NEW w \in Workers, WorkStep(w), NEW s \in Conns
  PROVE  SenderHolds(s)' <=> SenderHolds(s)
BY DEF SenderHolds, sendVars, WorkStep, WorkDequeue, WorkCheck, WorkLookup, WorkLookupFails,
       WorkRemoveLock, WorkErase, WorkIOEvent, WorkQueue, WorkMark, WorkPost, WorkNotify

\* Only the Accept of its connection brings a Client to life.
LEMMA NoneRevived ==
  ASSUME Typed, [Next]_vars, NEW s \in Conns, Alive(s)', ~Alive(s)
  PROVE  \E a \in Addrs : Accept(s, a)
<1> USE DEF managerVars, acceptVars, workVars, sendVars
<1>1. CASE AcceptStep
  <2>1. CASE AcceptInsert
    BY <1>1, <2>1, ThreadsAssumption
       DEF AcceptInsert, Alive, Registered, SenderHolds, Typed, TypeOK, InHand
  <2> QED
    BY <1>1, <2>1, ThreadsAssumption
       DEF AcceptStep, AcceptLock, AcceptHandlers, AcceptMark, AcceptPost, Alive, Registered,
           SenderHolds
<1>2. CASE SendStep \/ SendWakesUnasked
  BY <1>2 DEF SendStep, SendTake, SendMark, SendPost, SendSleep, SendDelete, SendWakesUnasked,
              Alive, Registered, SenderHolds
<1>3. ASSUME NEW w \in Workers, WorkStep(w) PROVE FALSE
  <2>1. Registered(s)' => Registered(s)
    <3>1. CASE WorkErase(w)
      BY <3>1, ThreadsAssumption DEF WorkErase, Registered, Typed, TypeOK
    <3>2. CASE ~WorkErase(w)
      BY <1>3, <3>2 DEF Registered, WorkStep, WorkDequeue, WorkCheck, WorkLookup,
         WorkLookupFails, WorkRemoveLock, WorkIOEvent, WorkQueue, WorkMark, WorkPost, WorkNotify
    <3> QED
      BY <3>1, <3>2
  <2>2. PICK v \in Workers : client'[v] = s /\ client[v] # s
    BY <1>3, <2>1, ClientSet, SenderHoldsStays DEF Alive
  <2>3. \E a \in Addrs : mSockets[a] = s
    BY <1>3, <2>2, ClientSet, ThreadsAssumption
  <2> QED
    BY <2>3 DEF Alive, Registered
<1>4. CASE \E t \in Conns, a \in Addrs : Accept(t, a)
  BY <1>4, ThreadsAssumption DEF Accept, Alive, Registered, SenderHolds, Typed, InHand
<1>5. CASE Stop \/ (\E t \in Conns : Deliver(t) \/ SendDone(t) \/ Hangup(t) \/ Leave(t))
           \/ UNCHANGED vars
  BY <1>5 DEF Stop, StopsFor, Deliver, SendDone, Hangup, Leave, vars, Alive, Registered,
              SenderHolds
<1> QED
  BY <1>1, <1>2, <1>3, <1>4, <1>5 DEF Next, Environment

\* A destroyed Client stays destroyed.
LEMMA DeadStays ==
  ASSUME Typed, [Next]_vars, NEW s \in Conns, Destroyed(s)
  PROVE  Destroyed(s)'
<1>1. addr'[s] = addr[s] /\ addr[s] # None
  BY AddrStays DEF Destroyed
<1>2. \A a \in Addrs : ~Accept(s, a)
  BY <1>1 DEF Accept, AcceptSocket, Typed, Addressed
<1> QED
  BY <1>1, <1>2, NoneRevived DEF Destroyed

\* The set of the destroyed only grows.
LEMMA DeadKept ==
  ASSUME Typed, [Next]_vars
  PROVE  Dead \subseteq Dead'
BY DeadStays DEF Dead

\* Whatever is alive and registered under an address is the client of the worker
\* that erases the address.
LEMMA ErasesOwn ==
  ASSUME Typed, Lives, NEW w \in Workers, WorkErase(w)
  PROVE  mSockets[addr[client[w]]] \in {client[w], None}
<1> USE ThreadsAssumption DEF Typed, TypeOK, InHand, Addressed
<1>1. client[w] \in Conns /\ addr[client[w]] \in Addrs
  <2>1. client[w] \in Conns
    BY DEF WorkErase, WorkGoto
  <2> QED
    BY <2>1
<1> DEFINE a == addr[client[w]]
<1>2. CASE mSockets[a] \in Conns
  <2>1. Alive(mSockets[a]) /\ Alive(client[w])
    BY <1>1, <1>2 DEF Alive, Registered
  <2>2. addr[mSockets[a]] = a
    BY <1>1, <1>2
  <2> QED
    BY <1>1, <1>2, <2>1, <2>2 DEF Lives
<1> QED
  BY <1>1, <1>2

\* A Client that dies in a step of a worker is the one the worker lets go of.
LEMMA WorkerKills ==
  ASSUME Typed, Lives, NEW w \in Workers, WorkStep(w), NEW s \in Conns,
         Alive(s), ~Alive(s)'
  PROVE  client[w] = s /\ (WorkErase(w) \/ WorkNotify(w))
<1> USE ThreadsAssumption DEF Typed, TypeOK
<1>1. accepting # s /\ ~SenderHolds(s)
  BY ClientSet, SenderHoldsStays DEF Alive
<1>2. CASE \E v \in Workers : client[v] = s
  <2>1. PICK v \in Workers : client[v] = s
    BY <1>2
  <2>2. client'[v] # s
    BY DEF Alive
  <2>3. v = w
    BY <2>1, <2>2, ClientSet
  <2>4. ~WorkLookup(w)
    BY <2>1, <2>3 DEF WorkLookup, WorkGoto, Lives
  <2> QED
    BY <2>1, <2>2, <2>3, <2>4, ClientSet
<1>3. CASE Registered(s)
  <2>1. PICK a \in Addrs : mSockets[a] = s
    BY <1>3 DEF Registered
  <2>2. mSockets'[a] # s
    BY DEF Alive, Registered
  <2>3. CASE WorkErase(w)
    <3>1. addr[client[w]] = a
      BY <2>1, <2>2, <2>3 DEF WorkErase
    <3> QED
      BY <2>1, <2>3, <3>1, ErasesOwn
  <2>4. CASE ~WorkErase(w)
    <3>1. mSockets' = mSockets
      BY <2>4 DEF managerVars, WorkStep, WorkDequeue, WorkCheck, WorkLookup,
         WorkLookupFails, WorkRemoveLock, WorkIOEvent, WorkQueue, WorkMark, WorkPost, WorkNotify
    <3> QED
      BY <2>1, <2>2, <3>1
  <2> QED
    BY <2>3, <2>4
<1> QED
  BY <1>1, <1>2, <1>3 DEF Alive

\* The steps that let go of a shared_ptr: only what they had in hand may die.
LEMMA Kills ==
  ASSUME Typed, MapGuarded, Lives, [Next]_vars, NEW s \in Conns, Alive(s), ~Alive(s)'
  PROVE  \/ AcceptPost /\ accepting = s
         \/ SendDelete /\ item.to = s
         \/ \E w \in Workers : client[w] = s /\ (WorkErase(w) \/ WorkNotify(w))
<1> USE ThreadsAssumption
    DEF Typed, TypeOK, managerVars, acceptVars, workVars, sendVars
<1>1. CASE AcceptStep
  <2>1. CASE AcceptInsert
    <3>1. accepting \in Conns /\ addr[accepting] \in Addrs
      BY <2>1 DEF AcceptInsert, InHand, Addressed
    <3>2. \A a \in Addrs : mSockets[a] # None => mSockets'[a] = mSockets[a]
      BY <2>1, <3>1 DEF AcceptInsert
    <3> QED
      BY <2>1, <3>2 DEF AcceptInsert, Alive, Registered, SenderHolds
  <2> QED
    BY <1>1, <2>1
       DEF AcceptStep, AcceptLock, AcceptHandlers, AcceptMark, AcceptPost, Alive, Registered,
           SenderHolds
<1>2. CASE SendStep \/ SendWakesUnasked
  BY <1>2 DEF SendStep, SendTake, SendMark, SendPost, SendSleep, SendDelete, SendWakesUnasked,
              Alive, Registered, SenderHolds
<1>3. ASSUME NEW w \in Workers, WorkStep(w)
      PROVE  client[w] = s /\ (WorkErase(w) \/ WorkNotify(w))
  BY <1>3, WorkerKills
<1>4. CASE \E t \in Conns, a \in Addrs : Accept(t, a)
  BY <1>4 DEF Accept, Alive, Registered, SenderHolds, InHand
<1>5. CASE Stop \/ (\E t \in Conns : Deliver(t) \/ SendDone(t) \/ Hangup(t) \/ Leave(t))
           \/ UNCHANGED vars
  BY <1>5 DEF Stop, StopsFor, Deliver, SendDone, Hangup, Leave, vars, Alive, Registered,
              SenderHolds
<1> QED
  BY <1>1, <1>2, <1>3, <1>4, <1>5 DEF Next, Environment

\* No two living Clients share an address, and waiting workers hold none.
LEMMA LivesInvariant == SafeSpec => []Lives
<1>1. Init => Lives
  BY ThreadsAssumption DEF Init, Lives, Alive, Registered, SenderHolds
<1>2. Typed /\ Lives /\ [Next]_vars => Lives'
  <2> SUFFICES ASSUME Typed, Lives, [Next]_vars PROVE Lives'
    OBVIOUS
  <2>1. ASSUME NEW w \in Workers, workPc'[w] \in {"wait", "check", "lookup"}
        PROVE  client'[w] = None
    <3>1. CASE \E v \in Workers : WorkStep(v)
      BY <2>1, <3>1, SMTT(30)
         DEF Lives, Typed, TypeOK, WorkGoto, WorkStep, WorkDequeue, WorkCheck, WorkLookup,
             WorkLookupFails, WorkRemoveLock, WorkErase, WorkIOEvent, WorkQueue, WorkMark,
             WorkPost, WorkNotify, workVars
    <3>2. CASE UNCHANGED workVars
      BY <2>1, <3>2 DEF Lives, workVars
    <3>3. (\E v \in Workers : WorkStep(v)) \/ UNCHANGED workVars
      BY DEF Next, AcceptStep, AcceptLock, AcceptInsert, AcceptHandlers, AcceptMark,
         AcceptPost, Accept, SendStep, SendTake, SendMark, SendPost, SendSleep, SendDelete,
         SendWakesUnasked, Environment, Stop, StopsFor, Deliver, SendDone, Hangup, Leave, vars
    <3> QED
      BY <3>1, <3>2, <3>3
  <2>2. ASSUME NEW s \in Conns, NEW t \in Conns, Alive(s)', Alive(t)', addr'[s] = addr'[t],
               s # t, NEW a \in Addrs, Accept(s, a)
        PROVE  FALSE
    <3>1. addr[s] = None /\ addr' = [addr EXCEPT ![s] = a]
      BY <2>2 DEF Accept, AcceptSocket, Construct, Typed, Addressed
    <3>2. addr[t] = a
      BY <2>2, <3>1 DEF Typed, TypeOK
    <3>3. ~Alive(t)
      BY <2>2, <3>2 DEF Accept, FreeAddr
    <3>4. PICK b \in Addrs : Accept(t, b)
      BY <2>2, <3>3, NoneRevived
    <3> QED
      BY <3>2, <3>4, ThreadsAssumption DEF Accept, AcceptSocket, Typed, Addressed
  <2>3. ASSUME NEW s \in Conns, NEW t \in Conns, Alive(s)', Alive(t)', addr'[s] = addr'[t]
        PROVE  s = t
    <3>1. CASE Alive(s) /\ Alive(t)
      <4>1. addr'[s] = addr[s] /\ addr'[t] = addr[t]
        BY <3>1, AliveAddr, AddrStays, ThreadsAssumption
      <4> QED
        BY <2>3, <3>1, <4>1 DEF Lives
    <3>2. CASE ~Alive(s)
      <4>1. PICK a \in Addrs : Accept(s, a)
        BY <2>3, <3>2, NoneRevived
      <4> QED
        BY <2>2, <2>3, <4>1
    <3>3. CASE ~Alive(t)
      <4>1. PICK a \in Addrs : Accept(t, a)
        BY <2>3, <3>3, NoneRevived
      <4> QED
        BY <2>2, <2>3, <4>1
    <3> QED
      BY <3>1, <3>2, <3>3
  <2> QED
    BY <2>1, <2>3 DEF Lives
<1> QED
  BY <1>1, <1>2, TypedInvariant, PTL DEF SafeSpec

\* A step destroys one Client at most.
LEMMA OneDies ==
  ASSUME Typed, MapGuarded, Lives, [Next]_vars
  PROVE  Dead' = Dead \/ \E s \in Conns : Dead' = Dead \cup {s}
<1>1. ASSUME NEW t \in Conns, ~Destroyed(t), Destroyed(t)', ~Alive(t)
      PROVE  \E a \in Addrs : Accept(t, a)
  <2>1. addr[t] = None /\ addr'[t] # None
    BY <1>1 DEF Destroyed
  <2>2. PICK s \in Conns, a \in Addrs : Accept(s, a)
    BY <2>1, AddrSet
  <2>3. addr' = [addr EXCEPT ![s] = a]
    BY <2>2 DEF Accept, Construct
  <2> QED
    BY <2>1, <2>2, <2>3 DEF Typed, TypeOK
<1>2. ASSUME NEW t \in Conns, ~Destroyed(t), Destroyed(t)'
      PROVE  \/ \E a \in Addrs : Accept(t, a)
             \/ AcceptPost /\ accepting = t
             \/ SendDelete /\ item.to = t
             \/ \E w \in Workers : client[w] = t /\ (WorkErase(w) \/ WorkNotify(w))
  BY <1>1, <1>2, Kills DEF Destroyed
<1>3. \A t \in Conns, a \in Addrs : Accept(t, a) =>
        /\ acceptPc = "listen" /\ addr[t] = None /\ addr'[t] = a
        /\ \A u \in Conns \ {t} : addr'[u] = addr[u]
        /\ UNCHANGED <<workPc, sendPc>>
  BY DEF Accept, AcceptSocket, Construct, Typed, TypeOK, Addressed, workVars, sendVars
<1>4. AcceptPost => acceptPc = "post" /\ UNCHANGED <<workPc, sendPc>>
  BY DEF AcceptPost, workVars, sendVars
<1>5. SendDelete => sendPc = "woken" /\ sendPc' = "take" /\ UNCHANGED workPc
  BY DEF SendDelete, workVars
<1>6. \A w \in Workers : WorkErase(w) \/ WorkNotify(w) =>
        /\ workPc[w] # "wait" /\ workPc'[w] = "wait"
        /\ \A v \in Workers \ {w} : workPc'[v] = workPc[v]
  BY DEF WorkErase, WorkNotify, WorkGoto, Typed, TypeOK
<1>7. ASSUME NEW t \in Conns, ~Destroyed(t), Destroyed(t)',
             NEW u \in Conns, ~Destroyed(u), Destroyed(u)'
      PROVE  t = u
  BY <1>2, <1>3, <1>4, <1>5, <1>6, <1>7, ThreadsAssumption
<1> QED
  BY <1>7, DeadKept DEF Dead

\* A step that keeps every shared_ptr destroys nobody.
LEMMA AllLive ==
  ASSUME UNCHANGED <<mSockets, accepting, client, addr, item>>,
         sendPc' = "take" <=> sendPc = "take"
  PROVE  Dead' = Dead
BY DEF Dead, Destroyed, Alive, Registered, SenderHolds

-----------------------------------------------------------------------------
(* InOrder is inductive. *)

\* A packet is the n-th of its answer, to the connection that asked.
LEMMA PacketShape ==
  ASSUME TypeOK, NEW p \in Packets
  PROVE  /\ p = PacketOf(p.job, p.n) /\ p.to \in Conns
         /\ p.job \in DOMAIN jobs /\ p.n \in DOMAIN jobs[p.job].response
         /\ p.job \in Nat /\ p.n \in Nat /\ p.n > 0
<1>1. /\ p \in Packet /\ p.to = jobs[p.job].to
      /\ p.job \in DOMAIN jobs /\ p.n \in DOMAIN jobs[p.job].response
  BY DEF Packets
<1>2. jobs[p.job].response \in Seq({"whole", "part"})
  BY <1>1, ResponseType
<1> QED
  BY <1>1, <1>2 DEF Packet, PacketOf

\* The packets on their way are packets.
LEMMA OnTheWay ==
  ASSUME TypeOK, NEW p, NEW s \in Conns, p.to = s, OnWire(p) \/ Queued(p)
  PROVE  p \in Packets
BY DEF OnWire, Queued, TypeOK

\* A step that moves no packet and starts no response.
LEMMA InOrderFrame ==
  ASSUME Typed, MapGuarded, Lives, InOrder, [Next]_vars,
         UNCHANGED <<jobs, wire, mSendQueue>>,
         sendPc' \in {"mark", "post"} => sendPc \in {"mark", "post"} /\ item' = item,
         sendPc \in {"mark", "post"} => sendPc' \in {"mark", "post"} /\ item' = item,
         \A w \in Workers : workPc'[w] = "queue" =>
           /\ workPc[w] = "queue" /\ job'[w] = job[w] /\ next'[w] = next[w]
           /\ client'[w] = client[w]
  PROVE  InOrder'
<1>1. \A p : /\ OnWire(p)' <=> OnWire(p)
             /\ InSender(p)' <=> InSender(p)
             /\ Queued(p)' <=> Queued(p)
  BY DEF OnWire, InSender, Queued
<1>2. \A j, n : PacketOf(j, n)' = PacketOf(j, n)
  BY DEF PacketOf
<1>3. \A i \in DOMAIN mSendQueue : mSendQueue[i].to \in Conns
  BY PacketShape DEF Typed, TypeOK
<1>4. QueueInOrder'
  BY <1>1, <1>2, <1>3, DeadKept DEF InOrder, QueueInOrder
<1>5. NextInHand'
  BY <1>1, <1>2 DEF InOrder, NextInHand
<1>6. OwnJob'
  BY <1>1, <1>2 DEF InOrder, OwnJob, Somewhere
<1> QED
  BY <1>4, <1>5, <1>6 DEF InOrder

\* A worker starts a response: none of its packets is anywhere yet.
LEMMA InOrderStart ==
  ASSUME Typed, MapGuarded, Lives, InOrder, [Next]_vars,
         NEW w \in Workers, WorkIOEvent(w)
  PROVE  InOrder'
<1> DEFINE s == client[w]
           answer == Answer(s, completion[w].bytes)
           r == [to |-> s, response |-> answer]
<1>1. CASE answer = <<>>
  <2>1. \A v \in Workers : workPc'[v] = "queue" => v # w
    BY <1>1 DEF WorkIOEvent, WorkGoto, Typed, TypeOK
  <2>2. \A v \in Workers \ {w} : workPc'[v] = workPc[v]
    BY DEF WorkIOEvent, WorkGoto, Typed, TypeOK
  <2>3. UNCHANGED <<jobs, job, next, client, wire, mSendQueue, sendPc, item>>
    BY <1>1 DEF WorkIOEvent, managerVars, sendVars
  <2> QED
    BY <2>1, <2>2, <2>3, InOrderFrame
<1>2. CASE answer # <<>>
  <2>1. /\ jobs' = Append(jobs, r)
        /\ job' = [job EXCEPT ![w] = Len(jobs) + 1]
        /\ next' = [next EXCEPT ![w] = 1]
        /\ workPc' = [workPc EXCEPT ![w] = "queue"]
        /\ UNCHANGED <<client, wire, mSendQueue, sendPc, item>>
    BY <1>2 DEF WorkIOEvent, WorkGoto, managerVars, sendVars
  <2>2. s \in Conns /\ answer \in Responses
    BY AnswerType DEF WorkIOEvent, WorkGoto, Typed, InHand
  <2>3. r \in Job /\ answer \in Seq({"whole", "part"})
    BY <2>2, EnvironmentAssumption DEF Job
  <2>4. /\ Len(jobs) \in Nat /\ jobs'[Len(jobs) + 1] = r
        /\ \A j \in DOMAIN jobs : jobs'[j] = jobs[j] /\ j # Len(jobs) + 1
    BY <2>1, <2>3 DEF Typed, TypeOK
  <2>5. \A p : /\ OnWire(p)' <=> OnWire(p)
               /\ InSender(p)' <=> InSender(p)
               /\ Queued(p)' <=> Queued(p)
    BY <2>1 DEF OnWire, InSender, Queued
  <2>6. \A n : \A j \in DOMAIN jobs : PacketOf(j, n)' = PacketOf(j, n)
    BY <2>4 DEF PacketOf
  <2>7. \A i \in DOMAIN mSendQueue :
          mSendQueue[i].to \in Conns /\ mSendQueue[i].job \in DOMAIN jobs
    BY PacketShape DEF Typed, TypeOK
  <2>8. QueueInOrder'
    <3> SUFFICES ASSUME NEW i \in DOMAIN mSendQueue
                 PROVE  LET p == mSendQueue[i]
                        IN /\ ~OnWire(p) /\ ~InSender(p)
                           /\ \A k \in 1..(i - 1) :
                                mSendQueue[k].job = p.job => mSendQueue[k].n < p.n
                           /\ p.to \notin Dead' =>
                                \A n \in 1..(p.n - 1) :
                                  \/ OnWire(PacketOf(p.job, n)) \/ InSender(PacketOf(p.job, n))
                                  \/ \E k \in 1..(i - 1) : mSendQueue[k] = PacketOf(p.job, n)
      <4>1. mSendQueue' = mSendQueue
        BY <2>1
      <4> QED
        BY <2>5, <2>6, <2>7, <4>1 DEF QueueInOrder
    <3> QED
      BY DeadKept DEF InOrder, QueueInOrder
  <2>9. NextInHand'
    <3>1. sendPc \in {"mark", "post"} => item.job \in DOMAIN jobs
      BY PacketShape DEF Typed, InHand
    <3> QED
      BY <2>1, <2>5, <2>6, <3>1 DEF InOrder, NextInHand
  <2>10. ASSUME NEW n PROVE ~Somewhere([to |-> s, job |-> Len(jobs) + 1, n |-> n])
    <3> DEFINE p == [to |-> s, job |-> Len(jobs) + 1, n |-> n]
    <3>1. p \notin Packets
      BY <2>4, PacketShape DEF Typed
    <3>2. ~OnWire(p) /\ ~Queued(p)
      BY <2>2, <3>1, OnTheWay DEF Typed
    <3>3. ~InSender(p)
      BY <3>1 DEF InSender, Typed, InHand
    <3> QED
      BY <3>2, <3>3 DEF Somewhere
  <2>11. OwnJob'
    <3>1. \A v \in Workers \ {w} : workPc'[v] = "queue" =>
            /\ workPc[v] = "queue" /\ job'[v] = job[v] /\ next'[v] = next[v]
            /\ job[v] \in DOMAIN jobs /\ jobs'[job[v]] = jobs[job[v]]
      BY <2>1, <2>4 DEF Typed, TypeOK, InHand
    <3>2. job'[w] = Len(jobs) + 1 /\ next'[w] = 1
      BY <2>1 DEF Typed, TypeOK
    <3>3. \A v \in Workers : workPc'[v] = "queue" =>
            /\ jobs'[job'[v]].to = client'[v]
            /\ \A u \in Workers \ {v} : workPc'[u] = "queue" => job'[u] # job'[v]
      BY <2>1, <2>4, <3>1, <3>2 DEF InOrder, OwnJob
    <3>4. ASSUME NEW v \in Workers, workPc'[v] = "queue",
                 NEW n \in DOMAIN jobs'[job'[v]].response
          PROVE  n < next'[v] <=> Somewhere(PacketOf(job[v], n))'
      <4>1. CASE v = w
        <5>1. n \in Nat /\ n > 0
          BY <2>3, <2>4, <3>2, <3>4, <4>1
        <5>2. PacketOf(job[v], n)' = [to |-> s, job |-> Len(jobs) + 1, n |-> n]
          BY <2>1, <2>4, <3>2, <4>1 DEF PacketOf
        <5> QED
          BY <2>5, <2>10, <3>2, <4>1, <5>1, <5>2 DEF Somewhere
      <4>2. CASE v # w
        <5>1. n < next[v] <=> Somewhere(PacketOf(job[v], n))
          BY <3>1, <3>4, <4>2 DEF InOrder, OwnJob
        <5>2. PacketOf(job[v], n)' = PacketOf(job[v], n)
          BY <3>1, <3>4, <4>2 DEF PacketOf
        <5> QED
          BY <2>5, <3>1, <3>4, <4>2, <5>1, <5>2 DEF Somewhere
      <4> QED
        BY <4>1, <4>2
    <3> QED
      BY <3>3, <3>4 DEF OwnJob
  <2> QED
    BY <2>8, <2>9, <2>11 DEF InOrder
<1> QED
  BY <1>1, <1>2

\* A worker queues the next packet of its response: it follows those before it.
LEMMA InOrderQueue ==
  ASSUME Typed, MapGuarded, Lives, InOrder, [Next]_vars,
         NEW w \in Workers, WorkQueue(w)
  PROVE  InOrder'
<1> DEFINE p == PacketOf(job[w], next[w])
<1>1. /\ mSendQueue' = Append(mSendQueue, p) /\ next' = [next EXCEPT ![w] = @ + 1]
      /\ UNCHANGED <<jobs, wire, sendPc, item, job, client>>
  BY DEF WorkQueue, PacketOf, sendVars, historyVars
<1>2. /\ workPc[w] = "queue" /\ job[w] \in DOMAIN jobs
      /\ next[w] \in DOMAIN jobs[job[w]].response
      /\ p.job = job[w] /\ p.n = next[w] /\ p.to = jobs[job[w]].to
  BY DEF WorkQueue, WorkGoto, Typed, InHand, PacketOf
<1>3. next[w] \in Nat /\ next'[w] = next[w] + 1
  BY <1>1 DEF Typed, TypeOK
<1>4. ~Somewhere(p)
  BY <1>2, <1>3 DEF InOrder, OwnJob
<1>5. /\ Len(mSendQueue) \in Nat /\ DOMAIN mSendQueue = 1..Len(mSendQueue)
      /\ DOMAIN mSendQueue' = 1..(Len(mSendQueue) + 1)
      /\ mSendQueue'[Len(mSendQueue) + 1] = p
      /\ \A i \in DOMAIN mSendQueue : mSendQueue'[i] = mSendQueue[i]
  BY <1>1 DEF Typed, TypeOK
<1>6. \A q : /\ OnWire(q)' <=> OnWire(q)
             /\ InSender(q)' <=> InSender(q)
             /\ Queued(q)' <=> Queued(q) \/ q = p
  BY <1>1, <1>5 DEF OnWire, InSender, Queued
<1>7. \A j, n : PacketOf(j, n)' = PacketOf(j, n)
  BY <1>1 DEF PacketOf
<1>8. QueueInOrder'
  <2> SUFFICES ASSUME NEW i \in DOMAIN mSendQueue'
               PROVE  LET q == mSendQueue'[i]
                      IN /\ ~OnWire(q) /\ ~InSender(q)
                         /\ \A k \in 1..(i - 1) :
                              mSendQueue'[k].job = q.job => mSendQueue'[k].n < q.n
                         /\ q.to \notin Dead' =>
                              \A n \in 1..(q.n - 1) :
                                \/ OnWire(PacketOf(q.job, n)) \/ InSender(PacketOf(q.job, n))
                                \/ \E k \in 1..(i - 1) : mSendQueue'[k] = PacketOf(q.job, n)
    BY <1>6, <1>7 DEF QueueInOrder
  <2>1. CASE i \in DOMAIN mSendQueue
    <3>1. mSendQueue[i].to \in Conns
      BY <2>1, PacketShape DEF Typed, TypeOK
    <3>2. \A k \in 1..(i - 1) : mSendQueue'[k] = mSendQueue[k]
      BY <1>5, <2>1
    <3>3. mSendQueue'[i] = mSendQueue[i]
      BY <1>5, <2>1
    <3> QED
      BY <2>1, <3>1, <3>2, <3>3, DeadKept DEF InOrder, QueueInOrder
  <2>2. CASE i = Len(mSendQueue) + 1
    <3>1. mSendQueue'[i] = p /\ \A k \in 1..(i - 1) :
            k \in DOMAIN mSendQueue /\ mSendQueue'[k] = mSendQueue[k]
      BY <1>5, <2>2
    <3>2. ASSUME NEW k \in DOMAIN mSendQueue, mSendQueue[k].job = job[w]
          PROVE  mSendQueue[k].n < next[w]
      <4>1. mSendQueue[k] \in Packets
        BY DEF Typed, TypeOK
      <4>2. mSendQueue[k] = PacketOf(job[w], mSendQueue[k].n)
            /\ mSendQueue[k].n \in DOMAIN jobs[job[w]].response
        BY <3>2, <4>1, PacketShape DEF Typed
      <4>3. Somewhere(mSendQueue[k])
        BY DEF Somewhere, Queued
      <4> QED
        BY <1>2, <4>2, <4>3 DEF InOrder, OwnJob
    <3>3. ASSUME NEW n \in 1..(next[w] - 1) PROVE Somewhere(PacketOf(job[w], n))
      <4>1. jobs[job[w]].response \in Seq({"whole", "part"})
        BY <1>2, ResponseType DEF Typed
      <4>2. n \in DOMAIN jobs[job[w]].response /\ n < next[w]
        BY <1>2, <4>1
      <4> QED
        BY <1>2, <4>2 DEF InOrder, OwnJob
    <3> QED
      BY <1>2, <1>4, <2>2, <3>1, <3>2, <3>3 DEF Somewhere, Queued
  <2> QED
    BY <1>5, <2>1, <2>2
<1>9. NextInHand'
  BY <1>1, <1>6, <1>7 DEF InOrder, NextInHand
<1>10. OwnJob'
  <2>1. \A v \in Workers : workPc'[v] = "queue" => workPc[v] = "queue"
    BY <1>2 DEF WorkQueue, WorkGoto, Typed, TypeOK
  <2>2. \A v \in Workers \ {w} : next'[v] = next[v]
    BY <1>1 DEF Typed, TypeOK
  <2>3. ASSUME NEW v \in Workers, workPc'[v] = "queue", NEW n \in DOMAIN jobs[job[v]].response
        PROVE  n < next'[v] <=> Somewhere(PacketOf(job[v], n))'
    <3>1. n < next[v] <=> Somewhere(PacketOf(job[v], n))
      BY <2>1, <2>3 DEF InOrder, OwnJob
    <3>2. n \in Nat
      <4>1. job[v] \in DOMAIN jobs
        BY <2>1, <2>3 DEF Typed, InHand
      <4> QED
        BY <2>3, <4>1, ResponseType DEF Typed
    <3>3. PacketOf(job[v], n) = p <=> v = w /\ n = next[w]
      BY <1>2, <2>1, <2>3 DEF PacketOf, InOrder, OwnJob
    <3>4. PacketOf(job[v], n)' = PacketOf(job[v], n)
      BY <1>1 DEF PacketOf
    <3> QED
      BY <1>3, <1>6, <2>2, <3>1, <3>2, <3>3, <3>4 DEF Somewhere
  <2> QED
    BY <1>1, <2>1, <2>3 DEF InOrder, OwnJob
<1> QED
  BY <1>8, <1>9, <1>10 DEF InOrder

\* sendTask takes the oldest packet: it is the next one of its response.
LEMMA InOrderTake ==
  ASSUME Typed, MapGuarded, Lives, InOrder, [Next]_vars, SendTake
  PROVE  InOrder'
<1> DEFINE h == Head(mSendQueue)
<1>1. /\ sendPc = "take" /\ mSendQueue # <<>> /\ mSendQueue' = Tail(mSendQueue)
      /\ IF Alive(h.to) THEN sendPc' = "mark" /\ item' = h ELSE UNCHANGED <<sendPc, item>>
      /\ UNCHANGED <<jobs, wire, job, next, client, workPc>>
  BY DEF SendTake, sendVars, workVars, historyVars
<1>2. /\ h = mSendQueue[1] /\ 1 \in DOMAIN mSendQueue
      /\ \A i \in DOMAIN mSendQueue' : i \in Nat \ {0} /\ i + 1 \in DOMAIN mSendQueue
                                       /\ mSendQueue'[i] = mSendQueue[i + 1]
      /\ \A i \in DOMAIN mSendQueue : i # 1 => i - 1 \in DOMAIN mSendQueue'
                                                /\ mSendQueue'[i - 1] = mSendQueue[i]
  BY <1>1 DEF Typed, TypeOK
<1>3. h \in Packets /\ addr[h.to] # None
  BY <1>2 DEF Typed, TypeOK, Packets, Addressed
<1>4. \A q : ~InSender(q)
  BY <1>1 DEF InSender
<1>5. \A q : /\ OnWire(q)' <=> OnWire(q)
             /\ InSender(q)' <=> Alive(h.to) /\ q = h
             /\ Queued(q) => Queued(q)' \/ q = h
             /\ Queued(q)' => Queued(q)
  <2>1. \A q : /\ OnWire(q)' <=> OnWire(q)
               /\ InSender(q)' <=> Alive(h.to) /\ q = h
    BY <1>1 DEF OnWire, InSender
  <2>2. ASSUME NEW q, Queued(q) PROVE Queued(q)' \/ q = h
    <3>1. PICK i \in DOMAIN mSendQueue : mSendQueue[i] = q
      BY <2>2 DEF Queued
    <3> QED
      BY <1>2, <3>1 DEF Queued
  <2>3. ASSUME NEW q, Queued(q)' PROVE Queued(q)
    <3>1. PICK i \in DOMAIN mSendQueue' : mSendQueue'[i] = q
      BY <2>3 DEF Queued
    <3> QED
      BY <1>2, <3>1 DEF Queued
  <2> QED
    BY <2>1, <2>2, <2>3
<1>6. \A j, n : PacketOf(j, n)' = PacketOf(j, n)
  BY <1>1 DEF PacketOf
<1>7. ~Alive(h.to) => h.to \in Dead'
  BY <1>3, PacketShape, DeadKept DEF Typed, Dead, Destroyed
<1>8. QueueInOrder'
  <2> SUFFICES ASSUME NEW i \in DOMAIN mSendQueue'
               PROVE  LET q == mSendQueue'[i]
                      IN /\ ~OnWire(q) /\ ~(Alive(h.to) /\ q = h)
                         /\ \A k \in 1..(i - 1) :
                              mSendQueue'[k].job = q.job => mSendQueue'[k].n < q.n
                         /\ q.to \notin Dead' =>
                              \A n \in 1..(q.n - 1) :
                                \/ OnWire(PacketOf(q.job, n))
                                \/ Alive(h.to) /\ PacketOf(q.job, n) = h
                                \/ \E k \in 1..(i - 1) : mSendQueue'[k] = PacketOf(q.job, n)
    BY <1>5, <1>6 DEF QueueInOrder
  <2> DEFINE q == mSendQueue[i + 1]
  <2>1. i \in Nat /\ i > 0 /\ i + 1 \in DOMAIN mSendQueue /\ mSendQueue'[i] = q
    BY <1>2
  <2>2. \A k \in 1..(i - 1) : k + 1 \in 1..i /\ mSendQueue'[k] = mSendQueue[k + 1]
    BY <1>1, <2>1 DEF Typed, TypeOK
  <2>3. \A k \in 2..i : k - 1 \in 1..(i - 1) /\ mSendQueue'[k - 1] = mSendQueue[k]
    BY <2>1, <2>2
  <2>4. q \in Packets /\ q = PacketOf(q.job, q.n) /\ q.to \in Conns /\ q.n \in Nat
    BY <2>1, PacketShape, SMTT(30) DEF Typed, TypeOK
  <2>5. ~OnWire(q)
    BY <2>1 DEF InOrder, QueueInOrder
  <2>6. \A k \in 1..i : mSendQueue[k].job = q.job => mSendQueue[k].n < q.n
    BY <2>1 DEF InOrder, QueueInOrder
  <2>7. q # h
    BY <1>2, <2>1, <2>4, <2>6
  <2>8. ASSUME q.to \notin Dead', NEW n \in 1..(q.n - 1)
        PROVE  \/ OnWire(PacketOf(q.job, n))
               \/ Alive(h.to) /\ PacketOf(q.job, n) = h
               \/ \E k \in 1..(i - 1) : mSendQueue'[k] = PacketOf(q.job, n)
    <3>1. q.to \notin Dead
      BY <2>4, <2>8, DeadKept
    <3>2. \/ OnWire(PacketOf(q.job, n))
          \/ \E k \in 1..i : mSendQueue[k] = PacketOf(q.job, n)
      BY <1>4, <2>1, <3>1 DEF InOrder, QueueInOrder
    <3>3. PacketOf(q.job, n) = h => Alive(h.to)
      <4>1. PacketOf(q.job, n).to = q.to
        BY <2>4 DEF PacketOf
      <4> QED
        BY <1>7, <2>8, <4>1
    <3>4. ASSUME NEW k \in 1..i, mSendQueue[k] = PacketOf(q.job, n)
          PROVE  k = 1 \/ \E l \in 1..(i - 1) : mSendQueue'[l] = PacketOf(q.job, n)
      BY <2>1, <2>3, <3>4
    <3> QED
      BY <1>2, <3>2, <3>3, <3>4
  <2> QED
    BY <2>1, <2>2, <2>5, <2>6, <2>7, <2>8
<1>9. NextInHand'
  <2> SUFFICES ASSUME Alive(h.to)
               PROVE  ~OnWire(h) /\ \A n \in 1..(h.n - 1) : OnWire(PacketOf(h.job, n))
    BY <1>1, <1>5, <1>6 DEF NextInHand
  <2>1. h.to \notin Dead
    BY DEF Dead, Destroyed
  <2> QED
    BY <1>2, <1>4, <2>1 DEF InOrder, QueueInOrder
<1>10. OwnJob'
  <2>1. ASSUME NEW v \in Workers, workPc[v] = "queue", NEW n \in DOMAIN jobs[job[v]].response
        PROVE  Somewhere(PacketOf(job[v], n))' <=> Somewhere(PacketOf(job[v], n))
    <3> DEFINE q == PacketOf(job[v], n)
    <3>1. q' = q
      BY <1>1 DEF PacketOf
    <3>2. q.to = client[v] /\ client[v] \in Conns
      BY <2>1 DEF PacketOf, InOrder, OwnJob, Typed, InHand
    <3>3. Alive(q.to)
      BY <3>2 DEF Alive
    <3>4. Queued(h)
      BY <1>2 DEF Queued
    <3> QED
      BY <1>4, <1>5, <3>1, <3>3, <3>4 DEF Somewhere
  <2> QED
    BY <1>1, <2>1 DEF InOrder, OwnJob
<1> QED
  BY <1>8, <1>9, <1>10 DEF InOrder

\* sendTask sends the packet in hand.
LEMMA InOrderSend ==
  ASSUME Typed, MapGuarded, Lives, InOrder, [Next]_vars, SendPost
  PROVE  InOrder'
<1>1. /\ sendPc = "post" /\ sendPc' = "posted" /\ item' = item
      /\ wire' = [wire EXCEPT ![item.to] = Append(@, item)]
      /\ UNCHANGED <<jobs, mSendQueue, job, next, client, workPc>>
  BY DEF SendPost, managerVars, workVars
<1>2. item \in Packets /\ item.to \in Conns
  BY <1>1, PacketShape DEF Typed, InHand
<1>3. ASSUME NEW q, q.to \in Conns
      PROVE  OnWire(q)' <=> OnWire(q) \/ InSender(q)
  <2>1. CASE q.to # item.to
    BY <1>1, <1>2, <1>3, <2>1 DEF OnWire, InSender, Typed, TypeOK
  <2>2. CASE q.to = item.to
    <3> DEFINE u == wire[item.to]
    <3>1. u \in Seq(Packets) /\ wire'[item.to] = Append(u, item)
      BY <1>1, <1>2 DEF Typed, TypeOK
    <3>2. /\ \A i \in DOMAIN u : i \in DOMAIN wire'[item.to] /\ wire'[item.to][i] = u[i]
          /\ \A i \in DOMAIN wire'[item.to] :
               (i \in DOMAIN u /\ wire'[item.to][i] = u[i]) \/ wire'[item.to][i] = item
          /\ Len(u) + 1 \in DOMAIN wire'[item.to] /\ wire'[item.to][Len(u) + 1] = item
      BY <3>1
    <3> QED
      BY <1>1, <2>2, <3>2 DEF OnWire, InSender
  <2> QED
    BY <2>1, <2>2
<1>4. \A q : InSender(q) <=> q = item
  BY <1>1 DEF InSender
<1>5. \A q : ~InSender(q)' /\ (Queued(q)' <=> Queued(q))
  BY <1>1 DEF InSender, Queued
<1>6. \A j, n : PacketOf(j, n)' = PacketOf(j, n)
  BY <1>1 DEF PacketOf
<1>7. \A n : \A j \in DOMAIN jobs : PacketOf(j, n).to \in Conns
  BY JobTo DEF PacketOf, Typed
<1>8. QueueInOrder'
  <2>1. \A i \in DOMAIN mSendQueue :
          mSendQueue[i].to \in Conns /\ mSendQueue[i].job \in DOMAIN jobs
    BY PacketShape DEF Typed, TypeOK
  <2> QED
    BY <1>1, <1>3, <1>5, <1>6, <1>7, <2>1, DeadKept DEF InOrder, QueueInOrder
<1>9. NextInHand'
  BY <1>1 DEF NextInHand
<1>10. OwnJob'
  <2>1. ASSUME NEW v \in Workers, workPc[v] = "queue", NEW n
        PROVE  Somewhere(PacketOf(job[v], n))' <=> Somewhere(PacketOf(job[v], n))
    <3>1. job[v] \in DOMAIN jobs
      BY <2>1 DEF Typed, InHand
    <3>2. PacketOf(job[v], n)' = PacketOf(job[v], n)
      BY <1>1 DEF PacketOf
    <3> QED
      BY <1>3, <1>5, <1>7, <3>1, <3>2 DEF Somewhere
  <2> QED
    BY <1>1, <2>1 DEF InOrder, OwnJob
<1> QED
  BY <1>8, <1>9, <1>10 DEF InOrder

\* Only sendTask sends, and only BeginIOEvent starts responses.
LEMMA StreamSet ==
  ASSUME [Next]_vars, ~SendPost, ~ \E w \in Workers : WorkIOEvent(w)
  PROVE  UNCHANGED <<jobs, wire>>
BY DEF Next, AcceptStep, AcceptLock, AcceptInsert, AcceptHandlers, AcceptMark, AcceptPost,
       Accept, SendStep, SendTake, SendMark, SendSleep, SendDelete, SendWakesUnasked,
       Environment, Stop, StopsFor, Deliver, SendDone, Hangup, Leave, WorkStep, WorkDequeue,
       WorkCheck, WorkLookup, WorkLookupFails, WorkRemoveLock, WorkErase, WorkQueue, WorkMark,
       WorkPost, WorkNotify, historyVars, vars

\* The steps that neither move a packet nor start a response.
LEMMA InOrderOther ==
  ASSUME Typed, MapGuarded, Lives, InOrder, [Next]_vars, ~SendPost, ~SendTake,
         ~ \E w \in Workers : WorkIOEvent(w) \/ WorkQueue(w)
  PROVE  InOrder'
<1> USE DEF managerVars, workVars, sendVars, historyVars
<1>1. CASE (\E w \in Workers : WorkStep(w))
  <2>1. PICK w \in Workers : WorkStep(w)
    BY <1>1
  <2>2. UNCHANGED <<mSendQueue, job, next>> /\ item' = item /\
        (sendPc' = sendPc \/ (sendPc = "sleep" /\ sendPc' = "woken"))
    BY <2>1 DEF WorkStep, WorkDequeue, WorkCheck, WorkLookup, WorkLookupFails, WorkRemoveLock,
                WorkErase, WorkMark, WorkPost, WorkNotify
  <2>3. workPc'[w] # "queue"
    BY <2>1 DEF WorkGoto, WorkStep, WorkDequeue, WorkCheck, WorkLookup, WorkLookupFails,
                WorkRemoveLock, WorkErase, WorkMark, WorkPost, WorkNotify, Typed, TypeOK
  <2> QED
    BY <2>1, <2>2, <2>3, StreamSet, ClientSet, InOrderFrame
<1>2. CASE UNCHANGED workVars
  <2>1. /\ UNCHANGED mSendQueue
        /\ sendPc' \in {"mark", "post"} => sendPc \in {"mark", "post"} /\ item' = item
        /\ sendPc \in {"mark", "post"} => sendPc' \in {"mark", "post"} /\ item' = item
    BY DEF Next, AcceptStep, AcceptLock, AcceptInsert, AcceptHandlers, AcceptMark, AcceptPost,
       Accept, SendStep, SendMark, SendSleep, SendDelete, SendWakesUnasked,
       Environment, Stop, StopsFor, Deliver, SendDone, Hangup, Leave, WorkStep, WorkDequeue,
       WorkCheck, WorkLookup, WorkLookupFails, WorkRemoveLock, WorkErase, WorkMark,
       WorkPost, WorkNotify, vars
  <2> QED
    BY <1>2, <2>1, StreamSet, InOrderFrame
<1>3. (\E w \in Workers : WorkStep(w)) \/ UNCHANGED workVars
  BY DEF Next, AcceptStep, AcceptLock, AcceptInsert, AcceptHandlers, AcceptMark, AcceptPost,
     Accept, SendStep, SendMark, SendSleep, SendDelete, SendWakesUnasked,
     Environment, Stop, StopsFor, Deliver, SendDone, Hangup, Leave, vars
<1> QED
  BY <1>1, <1>2, <1>3

\* The packets of every response stay in order on their way to the wire.
LEMMA InOrderInvariant == SafeSpec => []InOrder
<1>1. Init => InOrder
  BY DEF Init, InOrder, QueueInOrder, NextInHand, OwnJob
<1>2. Typed /\ MapGuarded /\ Lives /\ InOrder /\ [Next]_vars => InOrder'
  BY InOrderStart, InOrderQueue, InOrderTake, InOrderSend, InOrderOther
<1> QED
  BY <1>1, <1>2, TypedInvariant, MapInvariant, LivesInvariant, PTL DEF SafeSpec

-----------------------------------------------------------------------------
(* ServerManager implements ResponseStreams. *)

\* Starting a response is Start, sending a packet is Send; of what is left, the
\* release of the last shared_ptr is Die, and the rest changes nothing there.
LEMMA StreamStep ==
  ASSUME Typed, MapGuarded, Lives, InOrder, [Next]_vars
  PROVE  [Streams!Next]_(Streams!vars)
<1>1. {s \in Conns : Destroyed(s)} = Dead /\ {s \in Conns : Destroyed(s)}' = Dead'
  BY DEF Dead
<1>2. ASSUME NEW w \in Workers, WorkIOEvent(w) PROVE [Streams!Next]_(Streams!vars)
  <2> DEFINE s == client[w]
             answer == Answer(s, completion[w].bytes)
  <2>1. s \in Conns /\ answer \in Responses
    BY <1>2, AnswerType DEF WorkIOEvent, WorkGoto, Typed, InHand
  <2>2. Dead' = Dead
    BY <1>2, AllLive DEF WorkIOEvent, clientVars, managerVars, acceptVars, sendVars
  <2>3. CASE answer = <<>>
    BY <1>1, <1>2, <2>2, <2>3 DEF WorkIOEvent, Streams!vars
  <2>4. CASE answer # <<>>
    <3>1. s \notin Dead
      BY <2>1 DEF Dead, Destroyed, Alive
    <3>2. Streams!Start(s, answer)
      BY <1>1, <1>2, <2>2, <2>4, <3>1 DEF WorkIOEvent, Streams!Start
    <3> QED
      BY <2>1, <3>2 DEF Streams!Next
  <2> QED
    BY <2>3, <2>4
<1>3. CASE SendPost
  <2>1. /\ sendPc = "post" /\ item \in Packets /\ UNCHANGED jobs
        /\ wire' = [wire EXCEPT ![item.to] = Append(@, item)]
    BY <1>3 DEF SendPost, Typed, InHand
  <2>2. /\ item = PacketOf(item.job, item.n) /\ item.to \in Conns
        /\ item.job \in DOMAIN jobs /\ item.n \in DOMAIN jobs[item.job].response
        /\ item.to = jobs[item.job].to
    BY <2>1, PacketShape DEF Typed, PacketOf
  <2>3. Dead' = Dead
    BY <1>3, AllLive DEF SendPost, clientVars, managerVars, acceptVars, workVars
  <2>4. item.to \notin Dead
    BY <2>1 DEF Dead, Destroyed, Alive, SenderHolds
  <2>5. \A n : Streams!Sent(item.job, n) <=> OnWire(PacketOf(item.job, n))
    BY DEF Streams!Sent, Streams!PacketOf, OnWire, PacketOf
  <2>6. ~OnWire(item) /\ \A n \in 1..(item.n - 1) : OnWire(PacketOf(item.job, n))
    BY <2>1 DEF InOrder, NextInHand
  <2>7. Streams!Send(item.job, item.n)
    BY <1>1, <2>1, <2>2, <2>3, <2>4, <2>5, <2>6 DEF Streams!Send, Streams!PacketOf, PacketOf
  <2> QED
    BY <2>2, <2>7 DEF Streams!Next
<1>4. CASE ~SendPost /\ ~ \E w \in Workers : WorkIOEvent(w)
  <2>1. UNCHANGED <<jobs, wire>>
    BY <1>4, StreamSet
  <2> QED
    BY <1>1, <2>1, OneDies DEF Streams!Next, Streams!Die, Streams!vars
<1> QED
  BY <1>2, <1>3, <1>4

\* Whatever the threads of the server do, the packets of a response reach the
\* wire in the order the handler made them, none twice, none left out, none to
\* another client, and none is sent to a client that was destroyed.
THEOREM AnswersReachTheWire == SafeSpec => ImplementsStreams
<1>1. Init => Streams!Init
  BY DEF Init, ClientInit, Destroyed, Streams!Init
<1> QED
  BY <1>1, StreamStep, TypedInvariant, MapInvariant, LivesInvariant, InOrderInvariant, PTL
     DEF SafeSpec, ImplementsStreams, Streams!Spec

-----------------------------------------------------------------------------
(* What that gives a peer. *)

\* A packet that goes out follows exactly the packets made before it.
LEMMA SentInOrder ==
  ASSUME Typed, InOrder, AnswersInOrder, SendPost
  PROVE  AnswersInOrder'
<1> DEFINE u == wire[item.to]
           m == Len(u)
<1>1. /\ sendPc = "post" /\ item \in Packets /\ item.to \in Conns
      /\ item = PacketOf(item.job, item.n) /\ item.n \in Nat
      /\ item.job \in DOMAIN jobs
  BY PacketShape DEF SendPost, Typed, InHand
<1>2. /\ u \in Seq(Packets) /\ wire'[item.to] = Append(u, item)
      /\ \A s \in Conns \ {item.to} : wire'[s] = wire[s]
  BY <1>1 DEF SendPost, Typed, TypeOK
<1>3. /\ m \in Nat /\ DOMAIN wire'[item.to] = 1..(m + 1) /\ DOMAIN u = 1..m
      /\ wire'[item.to][m + 1] = item
      /\ \A i \in 1..m : wire'[item.to][i] = u[i] /\ u[i] \in Packets
  BY <1>1, <1>2
<1>4. \A i \in 1..m : u[i].to = item.to /\ u[i] = PacketOf(u[i].job, u[i].n)
                      /\ u[i].n \in Nat /\ u[i].n > 0
  BY <1>1, <1>3, PacketShape DEF AnswersInOrder, Typed
<1>5. /\ \A i \in 1..m : u[i] # item
      /\ \A n \in 1..(item.n - 1) : \E i \in 1..m : u[i] = PacketOf(item.job, n)
  <2>1. ~OnWire(item) /\ \A n \in 1..(item.n - 1) : OnWire(PacketOf(item.job, n))
    BY <1>1 DEF InOrder, NextInHand
  <2>2. \A n : PacketOf(item.job, n).to = item.to
    BY <1>1 DEF PacketOf
  <2> QED
    BY <1>3, <2>1, <2>2 DEF OnWire
<1> DEFINE before == {i \in 1..m : u[i].job = item.job}
<1>6. ASSUME NEW i \in before PROVE u[i].n \in 1..(item.n - 1)
  <2>1. u[i].n # item.n
    BY <1>1, <1>4, <1>5, <1>6
  <2>2. ASSUME item.n < u[i].n PROVE FALSE
    <3>1. item.n \in 1..(u[i].n - 1)
      BY <1>1, <1>4, <2>2, PacketShape DEF Typed
    <3>2. {u[j].n : j \in {l \in 1..(i - 1) : u[l].job = u[i].job}} = 1..(u[i].n - 1)
      BY <1>1, <1>3, <1>6 DEF AnswersInOrder
    <3>3. PICK j \in 1..(i - 1) : u[j].job = item.job /\ u[j].n = item.n
      BY <1>6, <3>1, <3>2
    <3>4. j \in 1..m
      BY <1>3, <1>6, <3>3
    <3> QED
      BY <1>1, <1>4, <1>5, <3>3, <3>4
  <2> QED
    BY <1>1, <1>4, <1>6, <2>1, <2>2
<1>7. ASSUME NEW n \in 1..(item.n - 1) PROVE \E i \in before : u[i].n = n
  <2>1. PICK i \in 1..m : u[i] = PacketOf(item.job, n)
    BY <1>5, <1>7
  <2> QED
    BY <2>1 DEF PacketOf
<1>8. {u[i].n : i \in before} = 1..(item.n - 1)
  BY <1>6, <1>7
<1> DEFINE v == wire'[item.to]
<1>9. ASSUME NEW k \in 1..(m + 1)
      PROVE  v[k].to = item.to
             /\ {v[i].n : i \in {l \in 1..(k - 1) : v[l].job = v[k].job}} = 1..(v[k].n - 1)
  <2> DEFINE p == v[k]
  <2>1. CASE k = m + 1
    <3>1. p = item /\ k - 1 = m
      BY <1>3, <1>9, <2>1
    <3>2. {l \in 1..(k - 1) : v[l].job = p.job} = before
      BY <1>3, <1>9, <3>1
    <3>3. \A i \in before : v[i].n = u[i].n
      BY <1>3, <1>9
    <3>4. {v[i].n : i \in before} = {u[i].n : i \in before}
      BY <3>3
    <3> QED
      BY <1>8, <3>1, <3>2, <3>4
  <2>2. CASE k \in 1..m
    <3> DEFINE earlier == {l \in 1..(k - 1) : u[l].job = u[k].job}
    <3>1. p = u[k] /\ 1..(k - 1) \subseteq 1..m
      BY <1>3, <1>9, <2>2
    <3>2. u[k].to = item.to /\ {u[i].n : i \in earlier} = 1..(u[k].n - 1)
      BY <1>1, <1>3, <2>2 DEF AnswersInOrder
    <3>3. {l \in 1..(k - 1) : v[l].job = p.job} = earlier
      BY <1>3, <1>9, <3>1
    <3>4. \A i \in earlier : v[i].n = u[i].n
      BY <1>3, <1>9, <3>1
    <3>5. {v[i].n : i \in earlier} = {u[i].n : i \in earlier}
      BY <3>4
    <3> QED
      BY <3>1, <3>2, <3>3, <3>5
  <2> QED
    BY <1>3, <1>9, <2>1, <2>2
<1> DEFINE InOrderOn(s) ==
      \A k \in DOMAIN wire'[s] :
        /\ wire'[s][k].to = s
        /\ {wire'[s][i].n : i \in {l \in 1..(k - 1) : wire'[s][l].job = wire'[s][k].job}}
             = 1..(wire'[s][k].n - 1)
<1>10. \A s \in Conns \ {item.to} : InOrderOn(s)
  BY <1>2 DEF AnswersInOrder
<1>11. InOrderOn(item.to)
  BY <1>3, <1>9, Zenon
<1>12. \A s \in Conns : InOrderOn(s)
  BY <1>10, <1>11
<1> QED
  BY <1>12 DEF AnswersInOrder

\* Each packet a peer is sent is its own, and it has been sent exactly the
\* packets the handler made before it.
THEOREM PeersGetAnswersInOrder == SafeSpec => []AnswersInOrder
<1>1. Init => AnswersInOrder
  BY DEF Init, AnswersInOrder
<1>2. Typed /\ InOrder /\ AnswersInOrder /\ [Next]_vars => AnswersInOrder'
  <2> SUFFICES ASSUME Typed, InOrder, AnswersInOrder, [Next]_vars, ~SendPost
               PROVE  AnswersInOrder'
    BY SentInOrder
  <2>1. wire' = wire
    BY StreamSet DEF WorkIOEvent
  <2> QED
    BY <2>1 DEF AnswersInOrder
<1> QED
  BY <1>1, <1>2, TypedInvariant, InOrderInvariant, PTL DEF SafeSpec

-----------------------------------------------------------------------------
(* Completions meet the right branch until a client is sent something. *)

\* WSASend leaves something to complete, and something sent.
LEMMA SendPosts ==
  ASSUME Typed, SendPost
  PROVE  /\ item.to \in Conns
         /\ sends'[item.to] # <<>> /\ wire'[item.to] # <<>>
         /\ \A s \in Conns \ {item.to} : sends'[s] = sends[s] /\ wire'[s] = wire[s]
         /\ UNCHANGED <<recvs, port>>
<1>1. item \in Packets /\ item.to \in Conns
  BY PacketShape DEF SendPost, Typed, InHand
<1>2. /\ sends[item.to] \in Seq(Packets) /\ wire[item.to] \in Seq(Packets)
      /\ sends' = [sends EXCEPT ![item.to] = Append(@, item)]
      /\ wire' = [wire EXCEPT ![item.to] = Append(@, item)]
  BY <1>1 DEF SendPost, WSASend, Typed, TypeOK
<1>3. ASSUME NEW u \in Seq(Packets) PROVE Append(u, item) # <<>>
  <2>1. Len(Append(u, item)) = Len(u) + 1 /\ Len(u) \in Nat
    BY <1>1
  <2>2. Len(<<>>) = 0
    OBVIOUS
  <2> QED
    BY <2>1, <2>2
<1>4. UNCHANGED <<recvs, port>>
  BY DEF SendPost, WSASend
<1>5. /\ sends'[item.to] = Append(sends[item.to], item)
      /\ wire'[item.to] = Append(wire[item.to], item)
  BY <1>1, <1>2 DEF Typed, TypeOK
<1>6. \A s \in Conns \ {item.to} : sends'[s] = sends[s] /\ wire'[s] = wire[s]
  BY <1>2 DEF Typed, TypeOK
<1> QED
  BY <1>1, <1>2, <1>3, <1>4, <1>5, <1>6

\* A client that was sent something stays so.
LEMMA SentStays ==
  ASSUME Typed, [Next]_vars, NEW s \in Conns, wire[s] # <<>>
  PROVE  wire'[s] # <<>>
<1>1. CASE SendPost
  BY <1>1, SendPosts
<1> QED
  BY <1>1, StreamSet DEF WorkIOEvent

\* Once a client is marked it stays so, or is being sent something.
LEMMA MarkedStays ==
  ASSUME Typed, [Next]_vars, NEW s \in Conns, Marked(s)
  PROVE  Marked(s)'
<1> USE DEF Marked, SendBegun, Typed, TypeOK
<1>1. wire[s] # <<>> => wire'[s] # <<>>
  BY SentStays
<1>2. CASE SendMark
  <2>1. mState[s] = "READ" => mState'[s] = "READ" \/ item.to = s
    BY <1>2 DEF SendMark, MarkSend
  <2> QED
    BY <1>1, <1>2, <2>1 DEF SendMark
<1>3. CASE SendPost
  BY <1>1, <1>3, SendPosts DEF SendPost, clientVars
<1>4. CASE ~SendMark /\ ~SendPost
  <2>1. mState[s] = "READ" => mState'[s] = "READ"
    BY <1>4 DEF MarkRead, Construct, SetReceivedHandler, FillBuffer,
       Next, AcceptStep, AcceptLock, AcceptInsert, AcceptHandlers, AcceptMark, AcceptPost,
       Accept, SendStep, SendTake, SendSleep, SendDelete, SendWakesUnasked,
       Environment, Stop, StopsFor, Deliver, SendDone, Hangup, Leave, WorkStep, WorkDequeue,
       WorkCheck, WorkLookup, WorkLookupFails, WorkRemoveLock, WorkErase, WorkIOEvent,
       WorkQueue, WorkMark, WorkPost, WorkNotify, clientVars, vars
  <2>2. sendPc = "post" => sendPc' = "post" /\ item' = item
    BY <1>4 DEF
       Next, AcceptStep, AcceptLock, AcceptInsert, AcceptHandlers, AcceptMark, AcceptPost,
       Accept, SendStep, SendTake, SendSleep, SendDelete, SendWakesUnasked,
       Environment, Stop, StopsFor, Deliver, SendDone, Hangup, Leave, WorkStep, WorkDequeue,
       WorkCheck, WorkLookup, WorkLookupFails, WorkRemoveLock, WorkErase, WorkIOEvent,
       WorkQueue, WorkMark, WorkPost, WorkNotify, sendVars, vars
  <2> QED
    BY <1>1, <2>1, <2>2
<1> QED
  BY <1>2, <1>3, <1>4

\* A completion that fits keeps fitting.
LEMMA FitsStays ==
  ASSUME Typed, [Next]_vars, NEW d \in Completion, Fits(d)
  PROVE  Fits(d)'
<1>1. d.conn \in Conns
  BY DEF Completion
<1> QED
  BY <1>1, MarkedStays, SentStays DEF Fits

\* Whatever was posted, completed, or is about to be posted fits, in every
\* reachable state.
LEMMA MarkedInvariant == SafeSpec => []ReadsMarked
<1> USE DEF Typed, TypeOK
<1>1. Init => ReadsMarked
  BY DEF Init, KernelInit, ReadsMarked
<1>2. Typed /\ ReadsMarked /\ [Next]_vars => ReadsMarked'
  <2> SUFFICES ASSUME Typed, ReadsMarked, [Next]_vars PROVE ReadsMarked'
    OBVIOUS
  <2>1. ASSUME NEW s \in Conns, recvs'[s] > 0 PROVE Marked(s)'
    <3>1. CASE recvs[s] > 0
      BY <3>1, MarkedStays DEF ReadsMarked
    <3>2. CASE AcceptPost /\ accepting = s
      BY <3>2, MarkedStays DEF AcceptPost, ReadsMarked
    <3>3. ASSUME NEW w \in Workers, WorkPost(w), client[w] = s PROVE Marked(s)'
      BY <3>3, MarkedStays DEF WorkPost, WorkGoto, ReadsMarked
    <3>4. \/ recvs'[s] > 0 => recvs[s] > 0
          \/ AcceptPost /\ accepting = s
          \/ \E w \in Workers : WorkPost(w) /\ client[w] = s
      BY DEF AcceptSocket, WSARecv, WSASend, Dequeue, CompleteRecv, CompleteHangup,
         CompleteSendOp, PeerLeaves, AcceptPost, WorkPost,
         Next, AcceptStep, AcceptLock, AcceptInsert, AcceptHandlers, AcceptMark,
         Accept, SendStep, SendTake, SendMark, SendPost, SendSleep, SendDelete,
         SendWakesUnasked, Environment, Stop, StopsFor, Deliver, SendDone, Hangup, Leave,
         WorkStep, WorkDequeue, WorkCheck, WorkLookup, WorkLookupFails, WorkRemoveLock,
         WorkErase, WorkIOEvent, WorkQueue, WorkMark, WorkNotify, kernelVars, vars
    <3> QED
      BY <2>1, <3>1, <3>2, <3>3, <3>4
  <2>2. ASSUME NEW s \in Conns, sends'[s] # <<>> PROVE wire'[s] # <<>>
    <3>1. CASE sends[s] # <<>>
      BY <3>1, SentStays DEF ReadsMarked
    <3>2. CASE SendPost
      BY <2>2, <3>1, <3>2, SendPosts
    <3>3. CASE \E t \in Conns : SendDone(t)
      BY <2>2, <3>1, <3>3 DEF SendDone, CompleteSendOp
    <3>4. CASE ~SendPost /\ ~ \E t \in Conns : SendDone(t)
      <4>1. sends' = sends
        BY <3>4 DEF AcceptSocket, WSARecv, Dequeue, CompleteRecv, CompleteHangup,
           PeerLeaves, AcceptPost, WorkPost,
           Next, AcceptStep, AcceptLock, AcceptInsert, AcceptHandlers, AcceptMark,
           Accept, SendStep, SendTake, SendMark, SendSleep, SendDelete,
           SendWakesUnasked, Environment, Stop, StopsFor, Deliver, Hangup, Leave,
           WorkStep, WorkDequeue, WorkCheck, WorkLookup, WorkLookupFails, WorkRemoveLock,
           WorkErase, WorkIOEvent, WorkQueue, WorkMark, WorkNotify, kernelVars, vars
      <4> QED
        BY <2>2, <3>1, <4>1
    <3> QED
      BY <3>2, <3>3, <3>4
  <2>3. ASSUME NEW i \in DOMAIN port', NEW d, d = port'[i] PROVE Fits(d)'
    <3>1. ASSUME NEW j \in DOMAIN port, d = port[j] PROVE Fits(d)'
      BY <3>1, FitsStays DEF ReadsMarked
    <3>2. ASSUME NEW t \in Conns, NEW e, port' = Append(port, e), e.conn = t,
                 Marked(t)', e.op = "send" => wire'[t] # <<>>
          PROVE  Fits(d)'
      <4>1. (i \in DOMAIN port /\ d = port[i]) \/ d = e
        BY <2>3, <3>2
      <4> QED
        BY <3>1, <3>2, <4>1 DEF Fits
    <3>3. ASSUME NEW t \in Conns, Deliver(t) \/ Hangup(t) PROVE Fits(d)'
      <4>1. PICK b \in Bytes :
              port' = Append(port, [key |-> addr[t], bytes |-> b, op |-> "recv", conn |-> t])
        BY <3>3 DEF Deliver, CompleteRecv, Hangup, CompleteHangup, Complete, Bytes
      <4>2. Marked(t)'
        <5>1. recvs[t] > 0
          BY <3>3 DEF Deliver, CompleteRecv, Hangup, CompleteHangup
        <5> QED
          BY <5>1, MarkedStays DEF ReadsMarked
      <4> QED
        BY <3>2, <4>1, <4>2
    <3>4. ASSUME NEW t \in Conns, SendDone(t) PROVE Fits(d)'
      <4>1. PICK b :
              port' = Append(port, [key |-> addr[t], bytes |-> b, op |-> "send", conn |-> t])
        BY <3>4 DEF SendDone, CompleteSendOp, Complete
      <4>2. wire[t] # <<>>
        BY <3>4 DEF SendDone, CompleteSendOp, ReadsMarked
      <4>3. Marked(t)' /\ wire'[t] # <<>>
        BY <4>2, MarkedStays, SentStays DEF Marked, SendBegun
      <4> QED
        BY <3>2, <4>1, <4>3
    <3>5. CASE \E w \in Workers : WorkDequeue(w)
      <4>1. port # <<>> /\ port' = Tail(port)
        BY <3>5 DEF WorkDequeue, Dequeue
      <4>2. i + 1 \in DOMAIN port /\ d = port[i + 1]
        BY <2>3, <4>1
      <4> QED
        BY <3>1, <4>2
    <3>6. CASE /\ ~ \E t \in Conns : Deliver(t) \/ Hangup(t) \/ SendDone(t)
               /\ ~ \E w \in Workers : WorkDequeue(w)
      <4>1. port' = port
        BY <3>6 DEF AcceptSocket, WSARecv, WSASend, PeerLeaves, AcceptPost, WorkPost,
           Next, AcceptStep, AcceptLock, AcceptInsert, AcceptHandlers, AcceptMark,
           Accept, SendStep, SendTake, SendMark, SendPost, SendSleep, SendDelete,
           SendWakesUnasked, Environment, Stop, StopsFor, Leave,
           WorkStep, WorkCheck, WorkLookup, WorkLookupFails, WorkRemoveLock,
           WorkErase, WorkIOEvent, WorkQueue, WorkMark, WorkNotify, kernelVars, vars
      <4> QED
        BY <2>3, <3>1, <4>1
    <3> QED
      BY <3>3, <3>4, <3>5, <3>6
  <2>4. ASSUME acceptPc' = "post" PROVE Marked(accepting)'
    <3>1. CASE AcceptMark
      BY <3>1 DEF AcceptMark, MarkRead, InHand, Marked
    <3>2. CASE ~AcceptMark
      <4>1. acceptPc = "post" /\ accepting' = accepting
        BY <2>4, <3>2 DEF
           Next, AcceptStep, AcceptLock, AcceptInsert, AcceptHandlers, AcceptPost,
           Accept, SendStep, SendTake, SendMark, SendPost, SendSleep, SendDelete,
           SendWakesUnasked, Environment, Stop, StopsFor, Deliver, SendDone, Hangup, Leave,
           WorkStep, WorkDequeue, WorkCheck, WorkLookup, WorkLookupFails, WorkRemoveLock,
           WorkErase, WorkIOEvent, WorkQueue, WorkMark, WorkPost, WorkNotify, acceptVars, vars
      <4>2. accepting \in Conns /\ Marked(accepting)
        BY <4>1 DEF InHand, ReadsMarked
      <4> QED
        BY <4>1, <4>2, MarkedStays DEF Marked, SendBegun
    <3> QED
      BY <3>1, <3>2
  <2>5. ASSUME NEW w \in Workers, workPc'[w] # "wait", NEW d, d = completion'[w]
        PROVE  Fits(d)'
    <3>1. CASE WorkDequeue(w)
      <4>1. port # <<>> /\ d = port[1]
        BY <2>5, <3>1 DEF WorkDequeue, Dequeue
      <4>2. 1 \in DOMAIN port /\ port[1] \in Completion
        BY <4>1
      <4> QED
        BY <4>1, <4>2, FitsStays DEF ReadsMarked
    <3>2. CASE ~WorkDequeue(w)
      <4>1. CASE \E v \in Workers : WorkStep(v)
        <5>1. workPc[w] # "wait" /\ d = completion[w]
          BY <2>5, <3>2, <4>1 DEF WorkGoto, WorkStep, WorkDequeue, WorkCheck, WorkLookup,
             WorkLookupFails, WorkRemoveLock, WorkErase, WorkIOEvent, WorkQueue, WorkMark,
             WorkPost, WorkNotify, workVars
        <5> QED
          BY <5>1, FitsStays DEF InHand, ReadsMarked
      <4>2. CASE ~ \E v \in Workers : WorkStep(v)
        <5>1. UNCHANGED workVars
          BY <4>2 DEF Next, AcceptStep, AcceptLock, AcceptInsert, AcceptHandlers, AcceptMark,
             AcceptPost, Accept, SendStep, SendTake, SendMark, SendPost, SendSleep,
             SendDelete, SendWakesUnasked, Environment, Stop, StopsFor, Deliver, SendDone,
             Hangup, Leave, vars
        <5>2. workPc[w] # "wait" /\ d = completion[w]
          BY <2>5, <5>1 DEF workVars
        <5> QED
          BY <5>2, FitsStays DEF InHand, ReadsMarked
      <4> QED
        BY <4>1, <4>2
    <3> QED
      BY <3>1, <3>2
  <2>6. ASSUME NEW w \in Workers, workPc'[w] \in {"post1", "post2"},
               NEW s, s = client'[w]
        PROVE  Marked(s)'
    <3>1. CASE WorkMark(w)
      BY <2>6, <3>1 DEF WorkMark, WorkGoto, MarkRead, InHand, Marked, workVars
    <3>2. CASE ~WorkMark(w)
      <4>1. workPc[w] \in {"post1", "post2"} /\ s = client[w]
        <5>1. CASE \E v \in Workers : WorkStep(v)
          BY <2>6, <3>2, <5>1 DEF WorkGoto, WorkStep, WorkDequeue, WorkCheck, WorkLookup,
             WorkLookupFails, WorkRemoveLock, WorkErase, WorkIOEvent, WorkQueue, WorkMark,
             WorkPost, WorkNotify, workVars
        <5>2. CASE UNCHANGED workVars
          BY <2>6, <5>2 DEF workVars
        <5>3. (\E v \in Workers : WorkStep(v)) \/ UNCHANGED workVars
          BY DEF Next, AcceptStep, AcceptLock, AcceptInsert, AcceptHandlers, AcceptMark,
             AcceptPost, Accept, SendStep, SendTake, SendMark, SendPost, SendSleep,
             SendDelete, SendWakesUnasked, Environment, Stop, StopsFor, Deliver, SendDone,
             Hangup, Leave, vars
        <5> QED
          BY <5>1, <5>2, <5>3
      <4> QED
        BY <4>1, MarkedStays DEF InHand, ReadsMarked
    <3> QED
      BY <3>1, <3>2
  <2> QED
    BY <2>1, <2>2, <2>3, <2>4, <2>5, <2>6 DEF ReadsMarked
<1> QED
  BY <1>1, <1>2, TypedInvariant, PTL DEF SafeSpec

\* Until a client is sent something, BeginIOEvent takes the branch of the
\* operation that completed whenever the completion is the client's own.
THEOREM BranchesMatch == SafeSpec => RightBranch
<1> DEFINE Right(w) ==
      WorkIOEvent(w) /\ completion[w].conn = client[w] /\ ~SendBegun(client[w])
        => (TakenForRead(client[w]) <=> completion[w].op = "recv")
<1>1. Typed /\ ReadsMarked => \A w \in Workers : Right(w)
  <2> SUFFICES ASSUME Typed, ReadsMarked, NEW w \in Workers, WorkIOEvent(w),
                      completion[w].conn = client[w], ~SendBegun(client[w])
               PROVE  TakenForRead(client[w]) <=> completion[w].op = "recv"
    OBVIOUS
  <2>1. workPc[w] = "io"
    BY DEF WorkIOEvent, WorkGoto
  <2>2. completion[w] \in Completion /\ Fits(completion[w])
    BY <2>1 DEF Typed, InHand, ReadsMarked
  <2>3. completion[w].op = "recv"
    BY <2>2 DEF Completion, Fits, SendBegun
  <2>4. mState[client[w]] = "READ"
    BY <2>2 DEF Fits, Marked
  <2> QED
    BY <2>3, <2>4 DEF TakenForRead
<1>2. Typed /\ ReadsMarked => [\A w \in Workers : Right(w)]_vars
  BY <1>1
<1> QED
  BY <1>2, TypedInvariant, MarkedInvariant, PTL DEF RightBranch

=============================================================================

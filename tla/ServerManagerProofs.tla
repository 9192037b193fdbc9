------------------------- MODULE ServerManagerProofs -------------------------
(***************************************************************************)
(* Theorems about ServerManager for any sets of connections, addresses and *)
(* workers, any answers, and any number of deliveries and completed sends. *)
(***************************************************************************)
EXTENDS ServerManager, TLAPS

\* What each thread has in hand where it is.
InHand ==
  /\ IF acceptPc = "listen" THEN accepting = None ELSE accepting \in Conns
  /\ \A w \in Workers :
       /\ workPc[w] # "wait" => completion[w] \in Completion
       /\ workPc[w] \notin {"wait", "check", "lookup"} => client[w] \in Conns
       /\ workPc[w] = "queue" => /\ job[w] \in DOMAIN jobs
                                 /\ next[w] \in DOMAIN jobs[job[w]].response
  /\ sendPc # "take" => item \in Packets

\* A connection that any part of the server works on has a Client with an
\* address, and a registered Client has the address it is registered under.
Addressed ==
  /\ \A s \in Conns : peer[s] # "absent" => addr[s] # None
  /\ \A s \in Conns : peer[s] = "absent" => addr[s] = None
  /\ \A s \in Conns : recvs[s] > 0 => addr[s] # None
  /\ \A s \in Conns : sends[s] # <<>> => addr[s] # None
  /\ accepting # None => addr[accepting] # None
  /\ \A w \in Workers : client[w] # None => addr[client[w]] # None
  /\ \A j \in DOMAIN jobs : addr[jobs[j].to] # None
  /\ \A a \in Addrs : mSockets[a] # None => addr[mSockets[a]] = a

Typed == TypeOK /\ InHand /\ Addressed

-----------------------------------------------------------------------------
(* Packets and answers *)

\* A handler answers a message with a response.
LEMMA AnswerType ==
  ASSUME TypeOK, NEW s \in Conns, NEW bytes
  PROVE  Answer(s, bytes) \in Responses
BY EnvironmentAssumption DEF TypeOK, Answer

\* A response is for a connection.
LEMMA JobTo ==
  ASSUME TypeOK, NEW j \in DOMAIN jobs
  PROVE  jobs[j].to \in Conns
<1>1. jobs[j] \in Job
  BY DEF TypeOK
<1> QED
  BY <1>1 DEF Job

\* A response is a sequence of packets.
LEMMA ResponseType ==
  ASSUME TypeOK, NEW j \in DOMAIN jobs
  PROVE  jobs[j].response \in Seq({"whole", "part"})
<1>1. jobs[j] \in Job
  BY DEF TypeOK
<1> QED
  BY <1>1, EnvironmentAssumption DEF Job

\* A packet is short or full, never empty.
LEMMA PacketSize ==
  ASSUME TypeOK, NEW p \in Packets
  PROVE  PacketBytes(p) \in {"whole", "part"}
<1>1. p.job \in DOMAIN jobs /\ p.n \in DOMAIN jobs[p.job].response
  BY DEF Packets
<1>2. jobs[p.job].response \in Seq({"whole", "part"})
  BY <1>1, ResponseType
<1> QED
  BY <1>1, <1>2 DEF PacketBytes

\* A packet stays one when a response is started.
LEMMA PacketsGrow ==
  ASSUME TypeOK, NEW j \in Job, jobs' = Append(jobs, j)
  PROVE  Packets \subseteq Packets'
BY DEF TypeOK, Packets, Packet

\* What the lists of packets are made of changes with jobs only.
LEMMA PacketsKept ==
  ASSUME UNCHANGED jobs
  PROVE  Packets' = Packets
BY DEF Packets, Packet

-----------------------------------------------------------------------------
(* Typed is inductive. *)

\* The steps of getConnections.
LEMMA AcceptorTyped ==
  ASSUME Typed, AcceptStep \/ \E s \in Conns, a \in Addrs : Accept(s, a)
  PROVE  Typed'
<1> USE ThreadsAssumption
    DEF Typed, kernelVars, clientVars, managerVars, acceptVars, workVars,
        sendVars, historyVars, Runs, AcceptPc
<1>1. CASE \E s \in Conns, a \in Addrs : Accept(s, a)
  <2>1. PICK s \in Conns, a \in Addrs : Accept(s, a)
    BY <1>1
  <2>2. Packets' = Packets
    BY <2>1, PacketsKept DEF Accept
  <2>3. addr[s] = None /\ addr' = [addr EXCEPT ![s] = a] /\ a # None
    BY <2>1 DEF Accept, AcceptSocket, Construct, Addressed
  <2>4. TypeOK'
    BY <2>1, <2>2, <2>3 DEF Accept, AcceptSocket, Construct, TypeOK, PeerStates
  <2>5. InHand'
    BY <2>1, <2>2 DEF Accept, AcceptSocket, Construct, TypeOK, InHand
  <2>6. Addressed'
    <3>1. \A t \in Conns : addr[t] # None => addr'[t] = addr[t]
      BY <2>3 DEF TypeOK
    <3>2. \A t \in Conns : t # s => peer'[t] = peer[t] /\ addr'[t] = addr[t]
      BY <2>1, <2>3 DEF Accept, AcceptSocket, TypeOK
    <3>3. addr'[s] # None /\ peer'[s] # "absent"
      BY <2>1, <2>3 DEF Accept, AcceptSocket, TypeOK
    <3>4. \A j \in DOMAIN jobs : addr'[jobs[j].to] # None
      <4> SUFFICES ASSUME NEW j \in DOMAIN jobs PROVE addr'[jobs[j].to] # None
        OBVIOUS
      <4>1. jobs[j].to \in Conns
        BY JobTo
      <4> QED
        BY <4>1, <3>1 DEF Addressed
    <3>5. \A b \in Addrs : mSockets[b] # None => addr'[mSockets[b]] = b
      BY <3>1 DEF TypeOK, Addressed
    <3>6. UNCHANGED <<recvs, sends, client, jobs, mSockets>> /\ accepting' \in {accepting, s}
      BY <2>1 DEF Accept, AcceptSocket
    <3>7. accepting' # None => addr'[accepting'] # None
      BY <3>1, <3>3, <3>6 DEF TypeOK, Addressed
    <3>8. \A w \in Workers : client[w] # None => addr'[client[w]] # None
      BY <3>1 DEF TypeOK, Addressed
    <3>9. \A t \in Conns : /\ (peer'[t] = "absent") <=> (addr'[t] = None)
                           /\ recvs[t] > 0 => addr'[t] # None
                           /\ sends[t] # <<>> => addr'[t] # None
      BY <3>2, <3>3 DEF Addressed
    <3> QED
      BY <3>4, <3>5, <3>6, <3>7, <3>8, <3>9 DEF Addressed
  <2> QED
    BY <2>4, <2>5, <2>6
<1>2. CASE AcceptStep
  <2>1. Packets' = Packets
    BY <1>2, PacketsKept
       DEF AcceptStep, AcceptLock, AcceptInsert, AcceptHandlers, AcceptMark, AcceptPost
  <2>2. accepting \in Conns /\ addr[accepting] \in Addrs
    BY <1>2 DEF TypeOK, InHand, Addressed,
                AcceptStep, AcceptLock, AcceptInsert, AcceptHandlers, AcceptMark, AcceptPost
  <2>3. CASE AcceptLock
    BY <2>1, <2>3 DEF AcceptLock, TypeOK, InHand, Addressed
  <2>4. CASE AcceptInsert
    BY <2>1, <2>2, <2>4 DEF AcceptInsert, TypeOK, InHand, Addressed
  <2>5. CASE AcceptHandlers
    BY <2>1, <2>2, <2>5 DEF AcceptHandlers, SetReceivedHandler, TypeOK, InHand, Addressed
  <2>6. CASE AcceptMark
    BY <2>1, <2>2, <2>6 DEF AcceptMark, MarkRead, ClientState, TypeOK, InHand, Addressed
  <2>7. CASE AcceptPost
    BY <2>1, <2>2, <2>7 DEF AcceptPost, WSARecv, TypeOK, InHand, Addressed
  <2> QED
    BY <1>2, <2>3, <2>4, <2>5, <2>6, <2>7 DEF AcceptStep
<1> QED
  BY <1>1, <1>2

\* The steps of sendTask.
LEMMA SenderTyped ==
  ASSUME Typed, SendStep \/ SendWakesUnasked
  PROVE  Typed'
<1> USE ThreadsAssumption
    DEF Typed, kernelVars, clientVars, managerVars, acceptVars, workVars,
        sendVars, historyVars, Runs, SendPc
<1>1. Packets' = Packets
  BY PacketsKept DEF SendStep, SendTake, SendMark, SendPost, SendSleep, SendDelete,
                     SendWakesUnasked
<1>2. CASE SendTake
  BY <1>1, <1>2 DEF SendTake, TypeOK, InHand, Addressed
<1>3. CASE SendMark
  <2>1. item.to \in Conns
    BY <1>3 DEF SendMark, InHand, Packets, Packet
  <2> QED
    BY <1>1, <1>3, <2>1 DEF SendMark, MarkSend, ClientState, TypeOK, InHand, Addressed
<1>4. CASE SendPost
  <2>1. item \in Packets /\ item.to \in Conns /\ addr[item.to] # None
    BY <1>4 DEF SendPost, InHand, Packets, Packet, Addressed
  <2>2. TypeOK'
    <3>1. sends' \in [Conns -> Seq(Packets)] /\ wire' \in [Conns -> Seq(Packets)]
      BY <1>4, <2>1 DEF SendPost, WSASend, TypeOK
    <3> QED
      BY <1>1, <1>4, <3>1 DEF SendPost, WSASend, TypeOK
  <2>3. InHand'
    BY <1>1, <1>4 DEF SendPost, WSASend, InHand
  <2>4. UNCHANGED <<peer, recvs, accepting, client, addr, jobs, mSockets>>
    BY <1>4 DEF SendPost, WSASend
  <2>5. \A s \in Conns : sends'[s] = sends[s] \/ s = item.to
    BY <1>4, <2>1 DEF SendPost, WSASend, TypeOK
  <2>6. Addressed'
    BY <2>1, <2>4, <2>5 DEF TypeOK, Addressed
  <2> QED
    BY <2>2, <2>3, <2>6
<1>5. CASE SendSleep
  BY <1>1, <1>5 DEF SendSleep, TypeOK, InHand, Addressed
<1>6. CASE SendDelete
  BY <1>1, <1>6 DEF SendDelete, TypeOK, InHand, Addressed
<1>7. CASE SendWakesUnasked
  BY <1>1, <1>7 DEF SendWakesUnasked, TypeOK, InHand, Addressed
<1> QED
  BY <1>2, <1>3, <1>4, <1>5, <1>6, <1>7 DEF SendStep

\* The steps of workerThread that start no response.
LEMMA WorkerTyped ==
  ASSUME Typed, NEW w \in Workers, WorkStep(w), ~WorkIOEvent(w)
  PROVE  Typed'
<1> USE ThreadsAssumption
    DEF Typed, kernelVars, clientVars, managerVars, acceptVars, workVars,
        sendVars, historyVars, Runs, Ends, WorkGoto, Key, WorkPc, SendPc
<1>1. UNCHANGED jobs
  BY DEF WorkStep, WorkDequeue, WorkCheck, WorkLookup, WorkLookupFails, WorkRemoveLock,
         WorkErase, WorkQueue, WorkMark, WorkPost, WorkNotify
<1>2. Packets' = Packets
  BY <1>1, PacketsKept
<1>3. CASE WorkDequeue(w)
  <2>1. PICK d \in Completion : Dequeue(d) /\ completion' = [completion EXCEPT ![w] = d]
    BY <1>3 DEF WorkDequeue
  <2> QED
    BY <1>2, <1>3, <2>1 DEF WorkDequeue, Dequeue, TypeOK, InHand, Addressed
<1>4. CASE WorkCheck(w)
  BY <1>2, <1>4 DEF WorkCheck, TypeOK, InHand, Addressed
<1>5. CASE WorkLookup(w)
  <2>1. Key(w) \in Addrs /\ mSockets[Key(w)] \in Conns /\ addr[mSockets[Key(w)]] # None
    BY <1>5 DEF WorkLookup, TypeOK, InHand, Addressed, Completion
  <2>2. client' = [client EXCEPT ![w] = mSockets[Key(w)]]
    BY <1>5 DEF WorkLookup
  <2>3. TypeOK'
    BY <1>2, <1>5, <2>1, <2>2 DEF WorkLookup, TypeOK
  <2>4. InHand'
    BY <1>2, <1>5, <2>1, <2>2 DEF WorkLookup, TypeOK, InHand
  <2>5. Addressed'
    BY <1>5, <2>1, <2>2 DEF WorkLookup, TypeOK, Addressed
  <2> QED
    BY <2>3, <2>4, <2>5
<1>6. CASE WorkLookupFails(w)
  BY <1>2, <1>6 DEF WorkLookupFails, CrashReasons, TypeOK, InHand, Addressed
<1>7. CASE WorkRemoveLock(w)
  BY <1>2, <1>7 DEF WorkRemoveLock, TypeOK, InHand, Addressed
<1>8. CASE WorkErase(w)
  BY <1>2, <1>8 DEF WorkErase, TypeOK, InHand, Addressed
<1>9. CASE WorkQueue(w)
  <2> DEFINE p == [to |-> jobs[job[w]].to, job |-> job[w], n |-> next[w]]
  <2>1. job[w] \in DOMAIN jobs /\ next[w] \in DOMAIN jobs[job[w]].response
    BY <1>9 DEF WorkQueue, InHand
  <2>2. jobs[job[w]].response \in Seq({"whole", "part"})
    BY <2>1, ResponseType
  <2>3. p \in Packets
    BY <2>1, JobTo DEF TypeOK, Packets, Packet
  <2>4. mSendQueue' \in Seq(Packets)
    BY <1>9, <2>3 DEF WorkQueue, TypeOK
  <2>5. TypeOK'
    BY <1>2, <1>9, <2>4, SMTT(30) DEF WorkQueue, TypeOK
  <2>6. next[w] # Len(jobs[job[w]].response)
          => next[w] + 1 \in DOMAIN jobs[job[w]].response
    BY <2>1, <2>2
  <2>7. InHand'
    BY <1>2, <1>9, <2>1, <2>6 DEF WorkQueue, TypeOK, InHand
  <2>8. Addressed'
    BY <1>9 DEF WorkQueue, Addressed
  <2> QED
    BY <2>5, <2>7, <2>8
<1>10. CASE WorkMark(w)
  <2>1. client[w] \in Conns /\ client' = client
    BY <1>10 DEF WorkMark, InHand
  <2>2. /\ workPc' \in [Workers -> WorkPc]
        /\ workPc[w] \notin {"wait", "check", "lookup"} /\ workPc'[w] # "queue"
        /\ \A v \in Workers : v # w => workPc'[v] = workPc[v]
    BY <1>10 DEF WorkMark, TypeOK
  <2>3. mState' \in [Conns -> ClientState]
    BY <1>10, <2>1 DEF WorkMark, MarkRead, ClientState, TypeOK
  <2>4. TypeOK'
    BY <1>2, <1>10, <2>2, <2>3 DEF WorkMark, MarkRead, TypeOK
  <2>5. InHand'
    BY <1>2, <1>10, <2>2 DEF WorkMark, MarkRead, InHand
  <2>6. Addressed'
    BY <1>10 DEF WorkMark, MarkRead, Addressed
  <2> QED
    BY <2>4, <2>5, <2>6
<1>11. CASE WorkPost(w)
  <2>1. client[w] \in Conns /\ addr[client[w]] # None
    BY <1>11 DEF WorkPost, InHand, Addressed
  <2>2. recvs' = [recvs EXCEPT ![client[w]] = @ + 1]
    BY <1>11 DEF WorkPost, WSARecv
  <2>3. TypeOK'
    <3>1. workPc' \in [Workers -> WorkPc]
      BY <1>11 DEF WorkPost, TypeOK
    <3>2. recvs' \in [Conns -> Nat]
      BY <2>1, <2>2 DEF TypeOK
    <3> QED
      BY <1>2, <1>11, <3>1, <3>2 DEF WorkPost, WSARecv, TypeOK
  <2>4. InHand'
    BY <1>2, <1>11 DEF WorkPost, WSARecv, TypeOK, InHand
  <2>5. Addressed'
    BY <1>11, <2>1, <2>2 DEF WorkPost, WSARecv, TypeOK, Addressed
  <2> QED
    BY <2>3, <2>4, <2>5
<1>12. CASE WorkNotify(w)
  BY <1>2, <1>12 DEF WorkNotify, TypeOK, InHand, Addressed
<1> QED
  BY <1>3, <1>4, <1>5, <1>6, <1>7, <1>8, <1>9, <1>10, <1>11, <1>12 DEF WorkStep

\* BeginIOEvent starts at most one response, for the worker's own client.
LEMMA IOEventTyped ==
  ASSUME Typed, NEW w \in Workers, WorkIOEvent(w)
  PROVE  Typed'
<1> USE DEF Typed, kernelVars, clientVars, managerVars, acceptVars,
            sendVars, Runs, WorkGoto, WorkPc
<1> DEFINE s == client[w]
           answer == Answer(s, completion[w].bytes)
<1>1. s \in Conns /\ addr[s] # None
  BY ThreadsAssumption DEF WorkIOEvent, InHand, Addressed
<1>2. answer \in Responses
  BY <1>1, AnswerType
<1>3. CASE answer = <<>>
  <2>1. UNCHANGED jobs /\ Packets' = Packets
    BY <1>3, PacketsKept DEF WorkIOEvent
  <2>2. workPc' \in [Workers -> WorkPc] /\ workPc'[w] # "queue"
    BY <1>3 DEF WorkIOEvent, TypeOK
  <2>3. TypeOK'
    BY <1>3, <2>1, <2>2 DEF WorkIOEvent, TypeOK
  <2>4. InHand'
    BY <1>1, <1>3, <2>1, <2>2 DEF WorkIOEvent, TypeOK, InHand
  <2> QED
    BY <1>3, <2>1, <2>3, <2>4 DEF WorkIOEvent, Addressed
<1>4. CASE answer # <<>>
  <2> DEFINE r == [to |-> s, response |-> answer]
  <2>1. /\ jobs' = Append(jobs, r)
        /\ job' = [job EXCEPT ![w] = Len(jobs) + 1]
        /\ next' = [next EXCEPT ![w] = 1]
        /\ workPc' = [workPc EXCEPT ![w] = "queue"]
    BY <1>4 DEF WorkIOEvent
  <2>2. r \in Job
    BY <1>1, <1>2 DEF Job
  <2>3. Packets \subseteq Packets'
    BY <2>1, <2>2, PacketsGrow
  <2>4. /\ jobs' \in Seq(Job) /\ Len(jobs) \in Nat
        /\ DOMAIN jobs' = DOMAIN jobs \cup {Len(jobs) + 1}
        /\ jobs'[Len(jobs) + 1] = r
        /\ \A j \in DOMAIN jobs : jobs'[j] = jobs[j]
    BY <2>1, <2>2 DEF TypeOK
  <2>5. 1 \in DOMAIN answer
    BY <1>2, <1>4, EnvironmentAssumption
  <2>6. TypeOK'
    <3>1. /\ sends' \in [Conns -> Seq(Packets')] /\ wire' \in [Conns -> Seq(Packets')]
          /\ mSendQueue' \in Seq(Packets') /\ item' \in Packets' \cup {None}
      BY <2>3 DEF WorkIOEvent, TypeOK
    <3> QED
      BY <2>1, <2>4, <3>1 DEF WorkIOEvent, TypeOK
  <2>7. InHand'
    <3>1. /\ IF acceptPc' = "listen" THEN accepting' = None ELSE accepting' \in Conns
          /\ sendPc' # "take" => item' \in Packets'
      BY <2>3 DEF WorkIOEvent, InHand
    <3>2. ASSUME NEW v \in Workers
          PROVE  /\ workPc'[v] # "wait" => completion'[v] \in Completion
                 /\ workPc'[v] \notin {"wait", "check", "lookup"} => client'[v] \in Conns
      BY <1>1, <2>1 DEF WorkIOEvent, TypeOK, InHand
    <3>3. ASSUME NEW v \in Workers, workPc'[v] = "queue"
          PROVE  job'[v] \in DOMAIN jobs' /\ next'[v] \in DOMAIN jobs'[job'[v]].response
      <4>1. CASE v = w
        BY <2>1, <2>4, <2>5, <4>1 DEF TypeOK
      <4>2. CASE v # w
        BY <2>1, <2>4, <3>3, <4>2 DEF TypeOK, InHand
      <4> QED
        BY <4>1, <4>2
    <3> QED
      BY <3>1, <3>2, <3>3 DEF InHand
  <2>8. Addressed'
    <3>1. \A j \in DOMAIN jobs' : addr[jobs'[j].to] # None
      BY <1>1, <2>4 DEF Addressed
    <3> QED
      BY <3>1 DEF WorkIOEvent, Addressed
  <2> QED
    BY <2>6, <2>7, <2>8
<1> QED
  BY <1>3, <1>4

\* Peers and the kernel.
LEMMA EnvironmentTyped ==
  ASSUME Typed,
         Stop \/ \E s \in Conns : Deliver(s) \/ SendDone(s) \/ Hangup(s) \/ Leave(s)
  PROVE  Typed'
<1> USE DEF Typed, kernelVars, clientVars, managerVars, acceptVars, workVars,
            sendVars, historyVars, Runs, Ends
<1>1. UNCHANGED <<acceptVars, workVars, sendVars, jobs, addr>>
  BY DEF Stop, StopsFor, Deliver, SendDone, Hangup, Leave, FillBuffer
<1>2. Packets' = Packets
  BY <1>1, PacketsKept
<1>3. InHand'
  BY <1>1, <1>2 DEF InHand
<1>4. CASE Stop
  <2>1. UNCHANGED <<kernelVars, clientVars, managerVars, historyVars>>
    BY <1>4 DEF Stop, StopsFor
  <2>2. crash' \in CrashReasons
    BY <1>4 DEF Stop, StopsFor, CrashReasons
  <2>3. TypeOK'
    BY <1>1, <1>2, <2>1, <2>2 DEF TypeOK
  <2> QED
    BY <1>1, <1>3, <2>1, <2>3 DEF Addressed
<1>5. ASSUME NEW s \in Conns, Deliver(s) PROVE Typed'
  <2>1. PICK m \in Responses, bytes \in {"whole", "part"} :
          CompleteRecv(s, addr[s], bytes) /\ FillBuffer(s, m)
    BY <1>5 DEF Deliver
  <2>2. addr[s] \in Addrs
    BY <2>1 DEF CompleteRecv, TypeOK, Addressed
  <2>3. port' \in Seq(Completion)
    BY <2>1, <2>2 DEF CompleteRecv, Complete, Completion, Bytes, TypeOK
  <2>4. TypeOK'
    BY <1>2, <1>5, <2>1, <2>3, SMTT(30) DEF Deliver, CompleteRecv, FillBuffer, TypeOK
  <2>5. Addressed'
    BY <1>5, <2>1, <2>2 DEF Deliver, CompleteRecv, FillBuffer, TypeOK, Addressed
  <2> QED
    BY <1>3, <2>4, <2>5
<1>6. ASSUME NEW s \in Conns, SendDone(s) PROVE Typed'
  <2>1. sends[s] # <<>> /\ Head(sends[s]) \in Packets /\ Tail(sends[s]) \in Seq(Packets)
    BY <1>6 DEF SendDone, CompleteSendOp, TypeOK
  <2>2. addr[s] \in Addrs
    BY <2>1 DEF TypeOK, Addressed
  <2>3. port' \in Seq(Completion)
    <3> DEFINE b == IF peer[s] = "reset" THEN "none" ELSE PacketBytes(Head(sends[s]))
               d == [key |-> addr[s], bytes |-> b, op |-> "send", conn |-> s]
    <3>1. b \in Bytes
      BY <2>1, PacketSize DEF Bytes
    <3>2. d \in Completion
      BY <2>2, <3>1 DEF Completion
    <3>3. port' = Append(port, d)
      BY <1>6 DEF SendDone, CompleteSendOp, Complete
    <3> HIDE DEF d
    <3> QED
      BY <3>2, <3>3 DEF TypeOK
  <2>4. TypeOK'
    BY <1>2, <1>6, <2>1, <2>3, SMTT(30) DEF SendDone, CompleteSendOp, TypeOK
  <2>5. Addressed'
    BY <1>6, <2>2 DEF SendDone, CompleteSendOp, TypeOK, Addressed
  <2> QED
    BY <1>3, <2>4, <2>5
<1>7. ASSUME NEW s \in Conns, Hangup(s) PROVE Typed'
  <2>1. addr[s] \in Addrs
    BY <1>7 DEF Hangup, CompleteHangup, TypeOK, Addressed
  <2>2. port' \in Seq(Completion)
    BY <1>7, <2>1 DEF Hangup, CompleteHangup, Complete, Completion, Bytes, TypeOK
  <2>3. TypeOK'
    BY <1>2, <1>7, <2>2, SMTT(30) DEF Hangup, CompleteHangup, TypeOK
  <2>4. Addressed'
    BY <1>7, <2>1 DEF Hangup, CompleteHangup, TypeOK, Addressed
  <2> QED
    BY <1>3, <2>3, <2>4
<1>8. ASSUME NEW s \in Conns, Leave(s) PROVE Typed'
  <2>1. peer' \in [Conns -> PeerStates] /\ peer[s] # "absent"
    BY <1>8, EnvironmentAssumption DEF Leave, PeerLeaves, TypeOK, PeerStates
  <2>2. \A t \in Conns : (peer'[t] = "absent") <=> (peer[t] = "absent")
    BY <1>8, EnvironmentAssumption DEF Leave, PeerLeaves, TypeOK
  <2>3. UNCHANGED <<recvs, sends, port, delivered, sendsDone, clientVars, managerVars,
                    historyVars, crash>>
    BY <1>8 DEF Leave, PeerLeaves
  <2>4. TypeOK'
    BY <1>1, <1>2, <2>1, <2>3 DEF TypeOK
  <2>5. Addressed'
    BY <1>1, <2>2, <2>3 DEF Addressed
  <2> QED
    BY <1>3, <2>4, <2>5
<1> QED
  BY <1>4, <1>5, <1>6, <1>7, <1>8

\* Types, what threads have in hand, and addresses: true in every reachable state.
LEMMA TypedInvariant == SafeSpec => []Typed
<1>1. Init => Typed
  BY ThreadsAssumption, EnvironmentAssumption
     DEF Init, KernelInit, ClientInit, Typed, TypeOK, InHand, Addressed, PeerStates,
         ClientState, AcceptPc, WorkPc, SendPc, CrashReasons
<1>2. Typed /\ [Next]_vars => Typed'
  <2> SUFFICES ASSUME Typed, [Next]_vars PROVE Typed'
    OBVIOUS
  <2>1. ASSUME NEW w \in Workers, WorkStep(w) PROVE Typed'
    BY <2>1, WorkerTyped, IOEventTyped
  <2>2. CASE UNCHANGED vars
    <3>1. Packets' = Packets
      BY <2>2, PacketsKept DEF vars, historyVars
    <3> QED
      BY <2>2, <3>1 DEF vars, kernelVars, clientVars, managerVars, acceptVars, workVars,
                        sendVars, historyVars, Typed, TypeOK, InHand, Addressed
  <2> QED
    BY <2>1, <2>2, AcceptorTyped, SenderTyped, EnvironmentTyped DEF Next, Environment
<1> QED
  BY <1>1, <1>2, PTL DEF SafeSpec

\* Every reachable state of the server is well typed: in particular every packet
\* that is queued, in flight or on the wire is one of a response that was
\* started, and goes to the connection that asked.
THEOREM TypeCorrect == SafeSpec => []TypeOK
<1>1. Typed => TypeOK
  BY DEF Typed
<1> QED
  BY <1>1, TypedInvariant, PTL

-----------------------------------------------------------------------------
(* Where completions come from *)

\* A completion carries the address of its connection's Client as its key, and
\* one without bytes comes from a peer that left.
Origin(d) == addr[d.conn] = d.key /\ (d.bytes = "none" => Gone(d.conn))

\* That holds for the completions queued and in hand.  A worker that removes a
\* client has one without bytes in hand, with that client's address as key.
Origins ==
  /\ \A i \in DOMAIN port : Origin(port[i])
  /\ \A w \in Workers : workPc[w] # "wait" => Origin(completion[w])
  /\ \A w \in Workers : workPc[w] \in {"remove", "erase"} =>
       completion[w].bytes = "none" /\ addr[client[w]] = Key(w)

\* Only Accept gives a Client its address.
LEMMA AddrSet ==
  ASSUME [Next]_vars, ~ \E s \in Conns, a \in Addrs : Accept(s, a)
  PROVE  UNCHANGED addr
<1> USE DEF clientVars
<1>1. CASE AcceptStep
  BY <1>1 DEF AcceptStep, AcceptLock, AcceptInsert, AcceptHandlers, AcceptMark, AcceptPost,
              SetReceivedHandler, MarkRead
<1>2. CASE SendStep \/ SendWakesUnasked
  BY <1>2 DEF SendStep, SendTake, SendMark, SendPost, SendSleep, SendDelete,
              SendWakesUnasked, MarkSend
<1>3. ASSUME NEW w \in Workers, WorkStep(w) PROVE UNCHANGED addr
  BY <1>3 DEF WorkStep, WorkDequeue, WorkCheck, WorkLookup, WorkLookupFails, WorkRemoveLock,
              WorkErase, WorkIOEvent, WorkQueue, WorkMark, WorkPost, WorkNotify, MarkRead
<1>4. CASE Stop \/ \E s \in Conns : Deliver(s) \/ SendDone(s) \/ Hangup(s) \/ Leave(s)
  BY <1>4 DEF Stop, StopsFor, Deliver, FillBuffer, SendDone, Hangup, Leave
<1>5. CASE UNCHANGED vars
  BY <1>5 DEF vars
<1> QED
  BY <1>1, <1>2, <1>3, <1>4, <1>5 DEF Next, Environment

\* The address of a Client does not change.
LEMMA AddrStays ==
  ASSUME Typed, [Next]_vars, NEW s \in Conns, addr[s] # None
  PROVE  addr'[s] = addr[s]
<1>1. CASE \E t \in Conns, a \in Addrs : Accept(t, a)
  BY <1>1 DEF Accept, AcceptSocket, Construct, Typed, TypeOK, Addressed
<1> QED
  BY <1>1, AddrSet

\* Peers come and go only through Accept and Leave.
LEMMA PeerSet ==
  ASSUME [Next]_vars, ~ \E s \in Conns : Leave(s) \/ \E a \in Addrs : Accept(s, a)
  PROVE  UNCHANGED peer
<1> USE DEF kernelVars
<1>1. CASE AcceptStep
  BY <1>1 DEF AcceptStep, AcceptLock, AcceptInsert, AcceptHandlers, AcceptMark, AcceptPost,
              WSARecv
<1>2. CASE SendStep \/ SendWakesUnasked
  BY <1>2 DEF SendStep, SendTake, SendMark, SendPost, SendSleep, SendDelete,
              SendWakesUnasked, WSASend
<1>3. ASSUME NEW w \in Workers, WorkStep(w) PROVE UNCHANGED peer
  BY <1>3 DEF WorkStep, WorkDequeue, WorkCheck, WorkLookup, WorkLookupFails, WorkRemoveLock,
              WorkErase, WorkIOEvent, WorkQueue, WorkMark, WorkPost, WorkNotify, Dequeue,
              WSARecv
<1>4. CASE Stop \/ \E s \in Conns : Deliver(s) \/ SendDone(s) \/ Hangup(s)
  BY <1>4 DEF Stop, StopsFor, Deliver, CompleteRecv, SendDone, CompleteSendOp, Hangup,
              CompleteHangup
<1>5. CASE UNCHANGED vars
  BY <1>5 DEF vars
<1> QED
  BY <1>1, <1>2, <1>3, <1>4, <1>5 DEF Next, Environment

\* A peer that left or reset its connection stays gone or reset.
LEMMA GoneStays ==
  ASSUME Typed, [Next]_vars, NEW s \in Conns
  PROVE  (Gone(s) => Gone(s)') /\ (peer[s] = "reset" => peer'[s] = "reset")
<1>1. CASE \E t \in Conns, a \in Addrs : Accept(t, a)
  BY <1>1 DEF Accept, AcceptSocket, Typed, TypeOK, Gone
<1>2. CASE \E t \in Conns : Leave(t)
  BY <1>2, EnvironmentAssumption DEF Leave, PeerLeaves, Typed, TypeOK, Gone
<1> QED
  BY <1>1, <1>2, PeerSet DEF Gone

\* A completion keeps its origin.
LEMMA OriginStays ==
  ASSUME Typed, [Next]_vars, NEW d \in Completion, Origin(d)
  PROVE  addr'[d.conn] = d.key /\ (d.bytes = "none" => Gone(d.conn)')
<1>1. d.conn \in Conns /\ d.key \in Addrs
  BY DEF Completion
<1> QED
  BY <1>1, AddrStays, GoneStays, ThreadsAssumption DEF Origin

\* Origins survives a step that moves no completion and no worker.
LEMMA OriginsFrame ==
  ASSUME Typed, [Next]_vars, Origins, UNCHANGED <<port, completion, client, workPc>>
  PROVE  Origins'
<1>1. ASSUME NEW i \in DOMAIN port PROVE Origin(port[i])'
  <2>1. port[i] \in Completion
    BY DEF Typed, TypeOK
  <2> QED
    BY <2>1, OriginStays DEF Origin, Gone, Origins
<1>2. ASSUME NEW w \in Workers, workPc[w] # "wait" PROVE Origin(completion[w])'
  BY <1>2, OriginStays DEF Origin, Gone, Origins, Typed, InHand
<1>3. ASSUME NEW w \in Workers, workPc[w] \in {"remove", "erase"}
      PROVE  addr'[client[w]] = addr[client[w]]
  <2>1. client[w] \in Conns /\ client[w] # None
    BY <1>3, ThreadsAssumption DEF Typed, InHand
  <2> QED
    BY <2>1, AddrStays DEF Typed, Addressed
<1> QED
  BY <1>1, <1>2, <1>3 DEF Origins, Key, Origin, Gone

\* Origins survives a step of the kernel that queues a completion.
LEMMA OriginsQueued ==
  ASSUME Typed, Origins, NEW d \in Completion, Origin(d), port' = Append(port, d),
         UNCHANGED <<addr, peer, completion, client, workPc>>
  PROVE  Origins'
<1>1. \A i \in DOMAIN port' : port'[i] = d \/ (i \in DOMAIN port /\ port'[i] = port[i])
  BY DEF Typed, TypeOK
<1> QED
  BY <1>1 DEF Origins, Origin, Gone, Key

\* Origins survives the steps of workerThread.
LEMMA OriginsWork ==
  ASSUME Typed, Origins, NEW w \in Workers, WorkStep(w)
  PROVE  Origins'
<1> USE DEF Typed, TypeOK, WorkGoto, Key, kernelVars, clientVars, managerVars, workVars
<1>1. UNCHANGED <<addr, peer>>
  BY DEF WorkStep, WorkDequeue, WorkCheck, WorkLookup, WorkLookupFails, WorkRemoveLock,
         WorkErase, WorkIOEvent, WorkQueue, WorkMark, WorkPost, WorkNotify, MarkRead, WSARecv,
         Dequeue
<1>2. CASE WorkDequeue(w)
  <2>1. PICK d \in Completion : Dequeue(d) /\ completion' = [completion EXCEPT ![w] = d]
    BY <1>2 DEF WorkDequeue
  <2>2. port # <<>> /\ d = port[1] /\ port' = Tail(port)
    BY <2>1 DEF Dequeue
  <2>3. \A i \in DOMAIN port' : i + 1 \in DOMAIN port /\ port'[i] = port[i + 1]
    BY <2>2
  <2>4. Origin(d)
    BY <2>2 DEF Origins
  <2>5. \A i \in DOMAIN port' : Origin(port'[i])
    BY <2>3 DEF Origins
  <2>6. \A v \in Workers : workPc'[v] # "wait" => Origin(completion'[v])
    BY <1>2, <2>1, <2>4 DEF WorkDequeue, Origins
  <2>7. \A v \in Workers : workPc'[v] \in {"remove", "erase"} =>
          /\ workPc'[v] = workPc[v] /\ completion'[v] = completion[v]
          /\ client'[v] = client[v]
    BY <1>2, <2>1 DEF WorkDequeue
  <2> QED
    BY <1>1, <2>5, <2>6, <2>7 DEF Origins, Origin, Gone
<1>3. CASE ~WorkDequeue(w)
  <2>1. UNCHANGED <<port, completion>> /\ workPc[w] # "wait"
    BY <1>3 DEF WorkStep, WorkCheck, WorkLookup, WorkLookupFails, WorkRemoveLock,
                WorkErase, WorkIOEvent, WorkQueue, WorkMark, WorkPost, WorkNotify, WSARecv
  <2>2. \A v \in Workers : v # w => workPc'[v] = workPc[v] /\ client'[v] = client[v]
    BY <1>3 DEF WorkStep, WorkCheck, WorkLookup, WorkLookupFails, WorkRemoveLock,
                WorkErase, WorkIOEvent, WorkQueue, WorkMark, WorkPost, WorkNotify
  <2>3. workPc'[w] \in {"remove", "erase"} =>
          completion[w].bytes = "none" /\ addr[client'[w]] = Key(w)
    <3>1. CASE WorkLookup(w)
      BY <3>1, ThreadsAssumption DEF WorkLookup, InHand, Addressed, Completion
    <3>2. CASE WorkRemoveLock(w)
      BY <3>2 DEF WorkRemoveLock, Origins
    <3>3. CASE ~WorkLookup(w) /\ ~WorkRemoveLock(w)
      BY <1>3, <3>3 DEF WorkStep, WorkCheck, WorkLookupFails, WorkErase, WorkIOEvent,
                        WorkQueue, WorkMark, WorkPost, WorkNotify
    <3> QED
      BY <3>1, <3>2, <3>3
  <2>4. ASSUME NEW d, Origin(d)
        PROVE  addr'[d.conn] = d.key /\ (d.bytes = "none" => peer'[d.conn] \in {"closed", "reset"})
    BY <1>1, <2>4 DEF Origin, Gone
  <2>5. \A v \in Workers : workPc'[v] # "wait" => workPc[v] # "wait"
    BY <2>1, <2>2
  <2>6. ASSUME NEW v \in Workers, workPc'[v] \in {"remove", "erase"}
        PROVE  completion'[v].bytes = "none" /\ addr'[client'[v]] = completion'[v].key
    BY <1>1, <2>1, <2>2, <2>3, <2>6 DEF Origins
  <2>7. \A i \in DOMAIN port :
          /\ addr'[port[i].conn] = port[i].key
          /\ (port[i].bytes = "none" => peer'[port[i].conn] \in {"closed", "reset"})
    BY <2>4, Zenon DEF Origins
  <2>8. \A v \in Workers : workPc[v] # "wait" =>
          /\ addr'[completion[v].conn] = completion[v].key
          /\ (completion[v].bytes = "none" => peer'[completion[v].conn] \in {"closed", "reset"})
    BY <2>4, Zenon DEF Origins
  <2> QED
    BY <2>1, <2>5, <2>6, <2>7, <2>8 DEF Origins, Origin, Gone
<1> QED
  BY <1>2, <1>3

\* Every completion has its origin in every reachable state.
LEMMA OriginsInvariant == SafeSpec => []Origins
<1>1. Init => Origins
  BY DEF Init, KernelInit, Origins
<1>2. Typed /\ Origins /\ [Next]_vars => Origins'
  <2> SUFFICES ASSUME Typed, Origins, [Next]_vars PROVE Origins'
    OBVIOUS
  <2> USE DEF Typed, TypeOK
  <2>1. ASSUME NEW s \in Conns, Deliver(s) PROVE Origins'
    <3>1. PICK m \in Responses, bytes \in {"whole", "part"} :
            CompleteRecv(s, addr[s], bytes) /\ FillBuffer(s, m)
      BY <2>1 DEF Deliver
    <3> DEFINE d == [key |-> addr[s], bytes |-> bytes, op |-> "recv", conn |-> s]
    <3>2. d \in Completion /\ Origin(d)
      BY <3>1 DEF CompleteRecv, Addressed, Completion, Bytes, Origin
    <3>3. port' = Append(port, d)
      BY <3>1 DEF CompleteRecv, Complete
    <3>4. UNCHANGED <<addr, peer, completion, client, workPc>>
      BY <2>1, <3>1 DEF Deliver, CompleteRecv, FillBuffer, workVars
    <3> HIDE DEF d
    <3> QED
      BY <3>2, <3>3, <3>4, OriginsQueued
  <2>2. ASSUME NEW s \in Conns, SendDone(s) PROVE Origins'
    <3> DEFINE b == IF peer[s] = "reset" THEN "none" ELSE PacketBytes(Head(sends[s]))
               d == [key |-> addr[s], bytes |-> b, op |-> "send", conn |-> s]
    <3>1. sends[s] # <<>> /\ Head(sends[s]) \in Packets
      BY <2>2 DEF SendDone, CompleteSendOp
    <3>2. b \in Bytes /\ (b = "none" => Gone(s))
      BY <3>1, PacketSize DEF Bytes, Gone
    <3>3. addr[s] \in Addrs
      BY <3>1 DEF Addressed
    <3>4. d \in Completion /\ Origin(d)
      BY <3>2, <3>3 DEF Completion, Origin
    <3>5. port' = Append(port, d)
      BY <2>2 DEF SendDone, CompleteSendOp, Complete
    <3>6. UNCHANGED <<addr, peer, completion, client, workPc>>
      BY <2>2 DEF SendDone, CompleteSendOp, clientVars, workVars
    <3> HIDE DEF d
    <3> QED
      BY <3>4, <3>5, <3>6, OriginsQueued
  <2>3. ASSUME NEW s \in Conns, Hangup(s) PROVE Origins'
    <3> DEFINE d == [key |-> addr[s], bytes |-> "none", op |-> "recv", conn |-> s]
    <3>1. d \in Completion /\ Origin(d)
      BY <2>3 DEF Hangup, CompleteHangup, Addressed, Completion, Bytes, Origin
    <3>2. port' = Append(port, d)
      BY <2>3 DEF Hangup, CompleteHangup, Complete
    <3>3. UNCHANGED <<addr, peer, completion, client, workPc>>
      BY <2>3 DEF Hangup, CompleteHangup, clientVars, workVars
    <3> HIDE DEF d
    <3> QED
      BY <3>1, <3>2, <3>3, OriginsQueued
  <2>4. CASE AcceptStep \/ \E s \in Conns, a \in Addrs : Accept(s, a)
    BY <2>4, OriginsFrame
       DEF AcceptStep, AcceptLock, AcceptInsert, AcceptHandlers, AcceptMark, AcceptPost,
           Accept, AcceptSocket, WSARecv, kernelVars, workVars
  <2>5. CASE SendStep \/ SendWakesUnasked
    BY <2>5, OriginsFrame
       DEF SendStep, SendTake, SendMark, SendPost, SendSleep, SendDelete, SendWakesUnasked,
           WSASend, kernelVars, workVars
  <2>6. CASE Stop \/ (\E s \in Conns : Leave(s)) \/ UNCHANGED vars
    BY <2>6, OriginsFrame
       DEF Stop, StopsFor, Leave, PeerLeaves, kernelVars, workVars, vars
  <2> QED
    BY <2>1, <2>2, <2>3, <2>4, <2>5, <2>6, OriginsWork DEF Next, Environment
<1> QED
  BY <1>1, <1>2, TypedInvariant, PTL DEF SafeSpec

-----------------------------------------------------------------------------
(* The map of clients *)

\* mClientQueue guards the changes of the map; the address of a client that is
\* about to be registered is free, one that gets its handlers is registered,
\* and only a client that was constructed has them.
MapGuarded ==
  /\ acceptPc \in {"insert", "handlers"} => mClientQueue = Acceptor
  /\ \A w \in Workers : workPc[w] = "erase" => mClientQueue = w
  /\ acceptPc \in {"lock", "insert"} => mSockets[addr[accepting]] = None
  /\ acceptPc = "handlers" => mSockets[addr[accepting]] = accepting
  /\ \A s \in Conns : handlerSet[s] => addr[s] # None

\* Only AcceptInsert and WorkErase change the map.
LEMMA MapSet ==
  ASSUME [Next]_vars, ~AcceptInsert, ~ \E w \in Workers : WorkErase(w)
  PROVE  UNCHANGED mSockets
<1> USE DEF managerVars
<1>1. CASE AcceptStep \/ \E s \in Conns, a \in Addrs : Accept(s, a)
  BY <1>1 DEF AcceptStep, AcceptLock, AcceptHandlers, AcceptMark, AcceptPost, Accept
<1>2. CASE SendStep \/ SendWakesUnasked
  BY <1>2 DEF SendStep, SendTake, SendMark, SendPost, SendSleep, SendDelete,
              SendWakesUnasked
<1>3. ASSUME NEW w \in Workers, WorkStep(w) PROVE UNCHANGED mSockets
  BY <1>3 DEF WorkStep, WorkDequeue, WorkCheck, WorkLookup, WorkLookupFails, WorkRemoveLock,
              WorkIOEvent, WorkQueue, WorkMark, WorkPost, WorkNotify
<1>4. CASE Stop \/ \E s \in Conns : Deliver(s) \/ SendDone(s) \/ Hangup(s) \/ Leave(s)
  BY <1>4 DEF Stop, StopsFor, Deliver, SendDone, Hangup, Leave
<1>5. CASE UNCHANGED vars
  BY <1>5 DEF vars
<1> QED
  BY <1>1, <1>2, <1>3, <1>4, <1>5 DEF Next, Environment

\* Only AcceptHandlers installs handlers.
LEMMA HandlerSet ==
  ASSUME [Next]_vars, ~AcceptHandlers
  PROVE  UNCHANGED handlerSet
<1> USE DEF clientVars
<1>1. CASE AcceptStep \/ \E s \in Conns, a \in Addrs : Accept(s, a)
  BY <1>1 DEF AcceptStep, AcceptLock, AcceptInsert, AcceptMark, AcceptPost, Accept,
              Construct, MarkRead
<1>2. CASE SendStep \/ SendWakesUnasked
  BY <1>2 DEF SendStep, SendTake, SendMark, SendPost, SendSleep, SendDelete,
              SendWakesUnasked, MarkSend
<1>3. ASSUME NEW w \in Workers, WorkStep(w) PROVE UNCHANGED handlerSet
  BY <1>3 DEF WorkStep, WorkDequeue, WorkCheck, WorkLookup, WorkLookupFails, WorkRemoveLock,
              WorkErase, WorkIOEvent, WorkQueue, WorkMark, WorkPost, WorkNotify, MarkRead
<1>4. CASE Stop \/ \E s \in Conns : Deliver(s) \/ SendDone(s) \/ Hangup(s) \/ Leave(s)
  BY <1>4 DEF Stop, StopsFor, Deliver, FillBuffer, SendDone, Hangup, Leave
<1>5. CASE UNCHANGED vars
  BY <1>5 DEF vars
<1> QED
  BY <1>1, <1>2, <1>3, <1>4, <1>5 DEF Next, Environment

\* The map is guarded in every reachable state.
LEMMA MapInvariant == SafeSpec => []MapGuarded
<1>1. Init => MapGuarded
  BY DEF Init, ClientInit, MapGuarded
<1>2. Typed /\ MapGuarded /\ [Next]_vars => MapGuarded'
  <2> SUFFICES ASSUME Typed, MapGuarded, [Next]_vars PROVE MapGuarded'
    OBVIOUS
  <2> USE ThreadsAssumption DEF Typed, TypeOK, MapGuarded, acceptVars, managerVars,
      clientVars, workVars, WorkGoto
  <2>1. CASE \E s \in Conns, a \in Addrs : Accept(s, a)
    <3>1. PICK s \in Conns, a \in Addrs : Accept(s, a)
      BY <2>1
    <3>2. addr[s] = None /\ addr' = [addr EXCEPT ![s] = a]
      BY <3>1 DEF Accept, AcceptSocket, Construct, Addressed
    <3>3. mSockets[a] = None
      BY <3>1 DEF Accept, FreeAddr, Alive, Registered, Addressed
    <3>4. addr'[s] = a /\ mSockets' = mSockets /\ handlerSet' = handlerSet
      BY <3>1, <3>2 DEF Accept, Construct
    <3>5. acceptPc' \in {"lock", "insert"} => mSockets'[addr'[accepting']] = None
      BY <3>1, <3>3, <3>4 DEF Accept
    <3>6. acceptPc' # "handlers" /\ acceptPc' # "insert"
      BY <3>1 DEF Accept
    <3>7. \A t \in Conns : handlerSet'[t] => addr'[t] # None
      BY <3>2, <3>4
    <3>8. UNCHANGED <<workPc, mClientQueue>>
      BY <3>1 DEF Accept
    <3> QED
      BY <3>5, <3>6, <3>7, <3>8
  <2>2. CASE AcceptStep
    <3>1. accepting \in Conns /\ addr[accepting] \in Addrs
      BY <2>2 DEF InHand, Addressed, AcceptStep, AcceptLock, AcceptInsert, AcceptHandlers,
                  AcceptMark, AcceptPost
    <3>2. CASE AcceptLock
      BY <3>2 DEF AcceptLock
    <3>3. CASE AcceptInsert
      BY <3>1, <3>3 DEF AcceptInsert
    <3>4. CASE AcceptHandlers
      BY <3>1, <3>4 DEF AcceptHandlers, SetReceivedHandler
    <3>5. CASE AcceptMark \/ AcceptPost
      BY <3>5 DEF AcceptMark, MarkRead, AcceptPost
    <3> QED
      BY <2>2, <3>2, <3>3, <3>4, <3>5 DEF AcceptStep
  <2>3. ASSUME NEW w \in Workers, WorkStep(w) PROVE MapGuarded'
    <3>1. UNCHANGED <<acceptPc, accepting, addr, handlerSet>>
      BY <2>3 DEF WorkStep, WorkDequeue, WorkCheck, WorkLookup, WorkLookupFails,
          WorkRemoveLock, WorkErase, WorkIOEvent, WorkQueue, WorkMark, WorkPost, WorkNotify,
          MarkRead
    <3>2. CASE WorkRemoveLock(w)
      BY <3>1, <3>2 DEF WorkRemoveLock
    <3>3. CASE WorkErase(w)
      <4>1. mClientQueue = w /\ acceptPc \notin {"insert", "handlers"}
        BY <3>3 DEF WorkErase
      <4>2. \A v \in Workers : workPc'[v] # "erase"
        BY <3>3, <4>1 DEF WorkErase
      <4>3. acceptPc = "lock" => mSockets'[addr[accepting]] = None
        BY <3>3 DEF WorkErase, InHand, Addressed
      <4> QED
        BY <3>1, <4>1, <4>2, <4>3
    <3>4. CASE ~WorkRemoveLock(w) /\ ~WorkErase(w)
      <4>1. UNCHANGED <<mSockets, mClientQueue>>
        BY <2>3, <3>4 DEF WorkStep, WorkDequeue, WorkCheck, WorkLookup, WorkLookupFails,
           WorkIOEvent, WorkQueue, WorkMark, WorkPost, WorkNotify
      <4>2. \A v \in Workers : workPc'[v] = "erase" => workPc[v] = "erase"
        BY <2>3, <3>4 DEF WorkStep, WorkDequeue, WorkCheck, WorkLookup, WorkLookupFails,
           WorkIOEvent, WorkQueue, WorkMark, WorkPost, WorkNotify
      <4> QED
        BY <3>1, <4>1, <4>2
    <3> QED
      BY <3>2, <3>3, <3>4
  <2>4. CASE SendStep \/ SendWakesUnasked
    BY <2>4 DEF SendStep, SendTake, SendMark, SendPost, SendSleep, SendDelete,
                SendWakesUnasked, MarkSend
  <2>5. CASE Stop \/ \E s \in Conns : Deliver(s) \/ SendDone(s) \/ Hangup(s) \/ Leave(s)
    BY <2>5 DEF Stop, StopsFor, Deliver, FillBuffer, SendDone, Hangup, Leave
  <2>6. CASE UNCHANGED vars
    BY <2>6 DEF vars
  <2> QED
    BY <2>1, <2>2, <2>3, <2>4, <2>5, <2>6 DEF Next, Environment
<1> QED
  BY <1>1, <1>2, TypedInvariant, PTL DEF SafeSpec

-----------------------------------------------------------------------------
(* What ends the process, and what ends a connection *)

\* Without a departed peer, a key that was found in the map is still there when
\* it is looked up again.
Lookups ==
  (\E s \in Conns : Gone(s)) \/
  \A w \in Workers : workPc[w] = "lookup" => mSockets[Key(w)] # None

\* A key leaves the map only when a peer has left.
LEMMA ErasedAfterGone ==
  ASSUME Typed, Origins, NEW w \in Workers, WorkErase(w)
  PROVE  \E s \in Conns : Gone(s) /\ addr[s] = addr[client[w]]
<1>1. Origin(completion[w]) /\ completion[w].bytes = "none" /\ addr[client[w]] = Key(w)
  BY DEF WorkErase, WorkGoto, Origins
<1>2. completion[w].conn \in Conns
  BY DEF WorkErase, WorkGoto, Typed, InHand, Completion
<1> QED
  BY <1>1, <1>2 DEF Origin, Key

\* A lookup in the map finds its key as long as no peer has left.
LEMMA LookupsInvariant == SafeSpec => []Lookups
<1>1. Init => Lookups
  BY DEF Init, Lookups
<1>2. Typed /\ Origins /\ Lookups /\ [Next]_vars => Lookups'
  <2> SUFFICES ASSUME Typed, Origins, Lookups, [Next]_vars,
                      ~ \E s \in Conns : Gone(s)'
               PROVE  \A w \in Workers : workPc'[w] = "lookup" => Key(w)' \in Addrs
                                                               /\ mSockets'[Key(w)'] # None
    BY DEF Lookups
  <2> USE DEF Typed, TypeOK, Key, WorkGoto, Completion
  <2>1. \A s \in Conns : ~Gone(s)
    BY GoneStays
  <2>2. \A w \in Workers : workPc[w] = "lookup" => Key(w) \in Addrs /\ mSockets[Key(w)] # None
    BY <2>1 DEF Lookups, InHand
  <2>3. \A w \in Workers : ~WorkErase(w)
    BY <2>1, ErasedAfterGone
  <2>4. \A a \in Addrs : mSockets[a] # None => mSockets'[a] # None
    <3>1. CASE AcceptInsert
      BY <3>1 DEF AcceptInsert
    <3> QED
      BY <2>3, <3>1, MapSet
  <2>5. ASSUME NEW w \in Workers, WorkStep(w)
        PROVE  \A v \in Workers : workPc'[v] = "lookup" => Key(v)' \in Addrs
                                                        /\ mSockets'[Key(v)'] # None
    <3>1. CASE WorkDequeue(w)
      <4>1. PICK d \in Completion : completion' = [completion EXCEPT ![w] = d]
        BY <3>1 DEF WorkDequeue
      <4>2. \A v \in Workers :
              workPc'[v] = "lookup" => workPc[v] = "lookup" /\ completion'[v] = completion[v]
        BY <3>1, <4>1 DEF WorkDequeue
      <4> QED
        BY <2>2, <2>4, <4>2
    <3>2. CASE WorkCheck(w)
      <4>1. completion' = completion /\ mSockets' = mSockets
        BY <3>2 DEF WorkCheck, managerVars
      <4>2. completion[w].key \in Addrs /\ (workPc'[w] = "lookup" => mSockets[Key(w)] # None)
        BY <3>2 DEF WorkCheck, InHand
      <4>3. \A v \in Workers : v # w => workPc'[v] = workPc[v]
        BY <3>2 DEF WorkCheck
      <4> QED
        BY <2>2, <4>1, <4>2, <4>3
    <3>3. CASE ~WorkDequeue(w) /\ ~WorkCheck(w)
      <4>1. completion' = completion
        BY <2>5, <3>3 DEF WorkStep, WorkLookup, WorkLookupFails, WorkRemoveLock, WorkErase,
           WorkIOEvent, WorkQueue, WorkMark, WorkPost, WorkNotify, workVars
      <4>2. \A v \in Workers : workPc'[v] = "lookup" => workPc[v] = "lookup"
        BY <2>5, <3>3 DEF WorkStep, WorkLookup, WorkLookupFails, WorkRemoveLock, WorkErase,
           WorkIOEvent, WorkQueue, WorkMark, WorkPost, WorkNotify, workVars
      <4> QED
        BY <2>2, <2>4, <4>1, <4>2
    <3> QED
      BY <3>1, <3>2, <3>3
  <2>6. CASE UNCHANGED workVars
    BY <2>2, <2>4, <2>6 DEF workVars
  <2>7. (\E w \in Workers : WorkStep(w)) \/ UNCHANGED workVars
    BY DEF Next, AcceptStep, AcceptLock, AcceptInsert, AcceptHandlers, AcceptMark,
       AcceptPost, Accept, SendStep, SendTake, SendMark, SendPost, SendSleep, SendDelete,
       SendWakesUnasked, Environment, Stop, StopsFor, Deliver, SendDone, Hangup, Leave, vars
  <2> QED
    BY <2>5, <2>6, <2>7
<1> QED
  BY <1>1, <1>2, TypedInvariant, OriginsInvariant, PTL DEF SafeSpec

\* Nothing is under way: no operation, no completion, no packet.
Idle ==
  /\ \A s \in Conns : recvs[s] = 0 /\ sends[s] = <<>>
  /\ port = <<>> /\ mSendQueue = <<>>
  /\ \A w \in Workers : workPc[w] = "wait"
  /\ sendPc = "take"

\* Until the only connection has been accepted, nothing is.
Fresh ==
  OneStays /\ (acceptPc = "listen" => \A s \in Conns : addr[s] = None) => Idle

\* Before the first BeginRead of the only client there is nothing for a worker.
LEMMA FreshInvariant == SafeSpec => []Fresh
<1>1. Init => Fresh
  BY DEF Init, KernelInit, Fresh, Idle
<1>2. Typed /\ Fresh /\ [Next]_vars => Fresh'
  <2> SUFFICES ASSUME Typed, Fresh, [Next]_vars, OneStays',
                      acceptPc' = "listen" => \A s \in Conns : addr'[s] = None
               PROVE  Idle'
    BY DEF Fresh
  <2> USE DEF kernelVars, clientVars, managerVars, acceptVars, workVars, sendVars, historyVars
  <2>1. \A s \in Conns : addr[s] # None => addr'[s] = addr[s]
    BY AddrStays
  <2>2. OneStays
    BY <2>1, GoneStays DEF OneStays
  <2>3. CASE \E s \in Conns, a \in Addrs : Accept(s, a)
    <3>1. PICK s \in Conns, a \in Addrs : Accept(s, a)
      BY <2>3
    <3>2. addr[s] = None /\ addr'[s] # None
      BY <3>1, ThreadsAssumption DEF Accept, AcceptSocket, Construct, Typed, TypeOK, Addressed
    <3>3. \A t \in Conns : addr[t] = None
      BY <2>1, <3>2 DEF OneStays
    <3>4. Idle
      BY <2>2, <3>3 DEF Fresh
    <3> QED
      BY <3>1, <3>4 DEF Accept, AcceptSocket, Idle
  <2>4. CASE ~ \E s \in Conns, a \in Addrs : Accept(s, a)
    <3>1. acceptPc = "listen" => acceptPc' = "listen"
      BY <2>4 DEF Next, AcceptStep, AcceptLock, AcceptInsert, AcceptHandlers, AcceptMark,
         AcceptPost, SendStep, SendTake, SendMark, SendPost, SendSleep, SendDelete, SendWakesUnasked,
         Environment, Stop, StopsFor, Deliver, SendDone, Hangup, Leave, WorkStep, WorkDequeue,
         WorkCheck, WorkLookup, WorkLookupFails, WorkRemoveLock, WorkErase, WorkIOEvent,
         WorkQueue, WorkMark, WorkPost, WorkNotify, vars
    <3>2. UNCHANGED addr
      BY <2>4, AddrSet
    <3>3. ~AcceptPost
      BY <3>2, ThreadsAssumption DEF AcceptPost, Typed, InHand, Addressed
    <3>4. Idle
      BY <2>2, <3>1, <3>2, <3>3 DEF Fresh
    <3>5. \A w \in Workers : ~WorkStep(w)
      BY <3>4 DEF Idle, WorkStep, WorkDequeue, Dequeue, WorkCheck, WorkLookup, WorkLookupFails,
         WorkRemoveLock, WorkErase, WorkIOEvent, WorkQueue, WorkMark, WorkPost, WorkNotify,
         WorkGoto
    <3>6. ~SendStep /\ ~SendWakesUnasked
      BY <3>4 DEF Idle, SendStep, SendTake, SendMark, SendPost, SendSleep, SendDelete,
         SendWakesUnasked
    <3>7. \A s \in Conns : ~Deliver(s) /\ ~SendDone(s) /\ ~Hangup(s)
      BY <3>4 DEF Idle, Deliver, CompleteRecv, SendDone, CompleteSendOp, Hangup, CompleteHangup
    <3>8. UNCHANGED <<recvs, sends, port, mSendQueue, workPc, sendPc>>
      BY <2>4, <3>3, <3>5, <3>6, <3>7 DEF Next, AcceptStep, AcceptLock, AcceptInsert,
         AcceptHandlers, AcceptMark, Environment, Stop, StopsFor, Leave, PeerLeaves, vars
    <3> QED
      BY <3>4, <3>8 DEF Idle
  <2> QED
    BY <2>3, <2>4
<1> QED
  BY <1>1, <1>2, TypedInvariant, PTL DEF SafeSpec

\* The unguarded lookup throws only when a peer has left, and meets another thread
\* in the map only when one has left or a second one was accepted: a server with
\* one client that stays is safe from it.
THEOREM CrashesHaveCauses == SafeSpec => []CrashCause
<1>1. Init => CrashCause
  BY DEF Init, CrashCause
<1>2. Typed /\ Origins /\ Lookups /\ Fresh /\ CrashCause /\ [Next]_vars => CrashCause'
  <2> SUFFICES ASSUME Typed, Origins, Lookups, Fresh, CrashCause, [Next]_vars
               PROVE  CrashCause'
    OBVIOUS
  <2>1. OneStays' => OneStays
    BY AddrStays, GoneStays DEF OneStays
  <2>2. CASE crash' = crash
    BY <2>1, <2>2, GoneStays DEF CrashCause
  <2>3. ASSUME NEW w \in Workers, WorkLookupFails(w) PROVE CrashCause'
    <3>1. CASE crash' = "missing"
      BY <2>3, <3>1, GoneStays DEF WorkLookupFails, Ends, Lookups, CrashCause
    <3>2. ASSUME MapInFlux PROVE ~OneStays
      <4>1. CASE acceptPc = "insert"
        BY <2>3, <4>1 DEF Fresh, Idle, WorkLookupFails
      <4>2. ASSUME NEW v \in Workers, workPc[v] = "erase" PROVE ~OneStays
        <5>1. Origin(completion[v]) /\ completion[v].bytes = "none"
          BY <4>2 DEF Origins
        <5>2. completion[v].conn \in Conns
          BY <4>2 DEF Typed, InHand, Completion
        <5> QED
          BY <5>1, <5>2 DEF Origin, OneStays
      <4> QED
        BY <3>2, <4>1, <4>2 DEF MapInFlux
    <3>3. CASE crash' = "race"
      BY <2>1, <2>3, <3>2, <3>3 DEF WorkLookupFails, Ends, CrashCause
    <3> QED
      BY <2>3, <3>1, <3>3 DEF WorkLookupFails, Ends
  <2>4. CASE Stop
    BY <2>4 DEF Stop, StopsFor, Ends, CrashCause
  <2>5. crash' = crash \/ Stop \/ \E w \in Workers : WorkLookupFails(w)
    BY DEF Next, AcceptStep, AcceptLock, AcceptInsert, AcceptHandlers, AcceptMark,
       AcceptPost, Accept, SendStep, SendTake, SendMark, SendPost, SendSleep, SendDelete,
       SendWakesUnasked, Environment, Deliver, SendDone, Hangup, Leave, WorkStep,
       WorkDequeue, WorkCheck, WorkLookup, WorkRemoveLock, WorkErase, WorkIOEvent, WorkQueue,
       WorkMark, WorkPost, WorkNotify, Runs, vars
  <2> QED
    BY <2>2, <2>3, <2>4, <2>5
<1> QED
  BY <1>1, <1>2, TypedInvariant, OriginsInvariant, LookupsInvariant, FreshInvariant, PTL
     DEF SafeSpec

\* A client that is registered stays so, unless a worker erases its key.
LEMMA RegisteredStays ==
  ASSUME Typed, MapGuarded, [Next]_vars, NEW s \in Conns, Registered(s), ~Registered(s)'
  PROVE  \E w \in Workers : WorkErase(w) /\ addr[client[w]] = addr[s]
<1> USE DEF Typed, TypeOK
<1>1. PICK a \in Addrs : mSockets[a] = s
  BY DEF Registered
<1>2. addr[s] = a
  BY <1>1, ThreadsAssumption DEF Addressed
<1>3. mSockets'[a] # s
  BY DEF Registered
<1>4. ~AcceptInsert
  BY <1>1, <1>3, ThreadsAssumption DEF AcceptInsert
<1>5. PICK w \in Workers : WorkErase(w)
  BY <1>1, <1>3, <1>4, MapSet
<1>6. addr[client[w]] = a
  BY <1>1, <1>3, <1>5 DEF WorkErase
<1> QED
  BY <1>2, <1>5, <1>6

\* A client whose peer is still connected is removed only through a stale
\* completion, one for a departed peer whose Client had the same address.
THEOREM RemovalsHaveCauses == SafeSpec => []RemovalCause
<1>1. Init => RemovalCause
  BY DEF Init, ClientInit, RemovalCause
<1>2. Typed /\ Origins /\ MapGuarded /\ RemovalCause /\ [Next]_vars => RemovalCause'
  <2> SUFFICES ASSUME Typed, Origins, MapGuarded, RemovalCause, [Next]_vars,
                      NEW s \in Conns, handlerSet'[s], ~Registered(s)', peer'[s] = "open"
               PROVE  \E t \in Conns \ {s} : addr'[t] = addr'[s] /\ Gone(t)'
    BY DEF RemovalCause
  <2> USE DEF Typed, TypeOK
  <2>1. CASE handlerSet[s] /\ ~Registered(s)
    <3>1. addr[s] # None /\ addr'[s] = addr[s]
      BY <2>1, AddrStays DEF MapGuarded
    <3>2. peer[s] = "open"
      <4>1. peer[s] # "absent" /\ ~Gone(s)
        BY <3>1, GoneStays DEF Addressed, Gone
      <4> QED
        BY <4>1 DEF Gone, PeerStates
    <3>3. PICK t \in Conns \ {s} : addr[t] = addr[s] /\ Gone(t)
      BY <2>1, <3>2 DEF RemovalCause
    <3> QED
      BY <3>1, <3>3, AddrStays, GoneStays
  <2>2. CASE Registered(s)
    <3>1. PICK w \in Workers : WorkErase(w) /\ addr[client[w]] = addr[s]
      BY <2>2, RegisteredStays
    <3>2. PICK t \in Conns : Gone(t) /\ addr[t] = addr[client[w]]
      BY <3>1, ErasedAfterGone
    <3>3. addr' = addr /\ peer' = peer
      BY <3>1 DEF WorkErase, clientVars, kernelVars
    <3> QED
      BY <3>1, <3>2, <3>3 DEF Gone
  <2>3. CASE ~handlerSet[s] /\ ~Registered(s)
    <3>1. AcceptHandlers
      BY <2>3, HandlerSet
    <3>2. s = accepting /\ mSockets[addr[s]] = s /\ addr[s] \in Addrs
      BY <2>3, <3>1, ThreadsAssumption
         DEF AcceptHandlers, SetReceivedHandler, MapGuarded, InHand, Addressed
    <3> QED
      BY <2>3, <3>2 DEF Registered
  <2> QED
    BY <2>1, <2>2, <2>3
<1> QED
  BY <1>1, <1>2, TypedInvariant, OriginsInvariant, MapInvariant, PTL DEF SafeSpec

-----------------------------------------------------------------------------
(* No client goes deaf. *)

\* A client stays attended in a step of the acceptor or of sendTask.
LEMMA AttendedFrame ==
  ASSUME Typed, [Next]_vars, NEW s \in Conns, addr[s] # None, Attended(s),
         UNCHANGED <<port, workPc, completion, client>>,
         recvs[s] > 0 => recvs'[s] > 0
  PROVE  Attended(s)'
BY AddrStays DEF Attended, Key

\* A client stays attended in a step of a worker, as long as it is registered.
LEMMA AttendedWork ==
  ASSUME Typed, NEW w \in Workers, WorkStep(w), NEW s \in Conns,
         Registered(s), Registered(s)', Attended(s)
  PROVE  Attended(s)'
<1> USE DEF Typed, TypeOK, WorkGoto, Key, kernelVars, clientVars, managerVars, workVars
<1>1. addr' = addr
  BY DEF WorkStep, WorkDequeue, WorkCheck, WorkLookup, WorkLookupFails, WorkRemoveLock,
         WorkErase, WorkIOEvent, WorkQueue, WorkMark, WorkPost, WorkNotify, MarkRead
<1>2. mSockets[addr[s]] = s /\ addr[s] \in Addrs
  <2>1. PICK a \in Addrs : mSockets[a] = s
    BY DEF Registered
  <2> QED
    BY <2>1, ThreadsAssumption DEF Addressed
<1>3. recvs[s] > 0 => recvs'[s] > 0
  <2>1. CASE WorkPost(w)
    BY <2>1 DEF WorkPost, WSARecv
  <2>2. CASE ~WorkPost(w)
    BY <2>2 DEF WorkStep, WorkDequeue, WorkCheck, WorkLookup, WorkLookupFails,
       WorkRemoveLock, WorkErase, WorkIOEvent, WorkQueue, WorkMark, WorkNotify, Dequeue
  <2> QED
    BY <2>1, <2>2
<1>4. CASE recvs[s] > 0
  BY <1>3, <1>4 DEF Attended
<1>5. ASSUME NEW i \in DOMAIN port, port[i].key = addr[s] PROVE Attended(s)'
  <2>1. CASE WorkDequeue(w)
    <3>1. PICK d \in Completion : Dequeue(d) /\ completion' = [completion EXCEPT ![w] = d]
      BY <2>1 DEF WorkDequeue
    <3>2. d = port[1] /\ port' = Tail(port)
      BY <3>1 DEF Dequeue
    <3>3. CASE i = 1
      BY <1>1, <1>5, <2>1, <3>1, <3>2, <3>3 DEF WorkDequeue, Attended
    <3>4. CASE i # 1
      <4>1. i - 1 \in DOMAIN port' /\ port'[i - 1] = port[i]
        BY <3>2, <3>4, SMTT(30)
      <4> QED
        BY <1>1, <1>5, <4>1 DEF Attended
    <3> QED
      BY <3>3, <3>4
  <2>2. CASE ~WorkDequeue(w)
    <3>1. port' = port
      BY <2>2 DEF WorkStep, WorkCheck, WorkLookup, WorkLookupFails, WorkRemoveLock,
         WorkErase, WorkIOEvent, WorkQueue, WorkMark, WorkPost, WorkNotify, WSARecv
    <3> QED
      BY <1>1, <1>5, <3>1 DEF Attended
  <2> QED
    BY <2>1, <2>2
<1>6. ASSUME NEW v \in Workers, v # w,
             \/ workPc[v] \in {"check", "lookup"} /\ Key(v) = addr[s]
             \/ workPc[v] \notin {"wait", "check", "lookup", "notify"} /\ client[v] = s
      PROVE  Attended(s)'
  <2>1. workPc'[v] = workPc[v] /\ completion'[v] = completion[v] /\ client'[v] = client[v]
    BY <1>6 DEF WorkStep, WorkDequeue, WorkCheck, WorkLookup, WorkLookupFails,
       WorkRemoveLock, WorkErase, WorkIOEvent, WorkQueue, WorkMark, WorkPost, WorkNotify
  <2> QED
    BY <1>1, <1>6, <2>1 DEF Attended
<1>7. CASE workPc[w] \in {"check", "lookup"} /\ Key(w) = addr[s]
  <2>1. completion' = completion
    BY <1>7 DEF WorkStep, WorkDequeue, WorkCheck, WorkLookup, WorkLookupFails,
       WorkRemoveLock, WorkErase, WorkIOEvent, WorkQueue, WorkMark, WorkPost, WorkNotify
  <2>2. CASE WorkCheck(w)
    BY <1>1, <1>2, <1>7, <2>1, <2>2, ThreadsAssumption DEF WorkCheck, Attended
  <2>3. CASE WorkLookup(w)
    BY <1>1, <1>2, <1>7, <2>3 DEF WorkLookup, Attended
  <2>4. CASE WorkLookupFails(w)
    BY <1>1, <1>7, <2>4 DEF WorkLookupFails, Attended
  <2> QED
    BY <1>7, <2>2, <2>3, <2>4
       DEF WorkStep, WorkDequeue, WorkRemoveLock, WorkErase, WorkIOEvent, WorkQueue,
           WorkMark, WorkPost, WorkNotify
<1>8. CASE workPc[w] \notin {"wait", "check", "lookup", "notify"} /\ client[w] = s
  <2>1. CASE WorkErase(w)
    BY <1>2, <1>8, <2>1, ThreadsAssumption DEF WorkErase, Registered, Addressed
  <2>2. CASE WorkPost(w)
    BY <1>8, <2>2 DEF WorkPost, WSARecv, Attended
  <2>3. CASE ~WorkErase(w) /\ ~WorkPost(w)
    <3>1. client'[w] = s /\ workPc'[w] \notin {"wait", "check", "lookup", "notify"}
      BY <1>8, <2>3 DEF WorkStep, WorkDequeue, WorkCheck, WorkLookup, WorkLookupFails,
         WorkRemoveLock, WorkIOEvent, WorkQueue, WorkMark, WorkNotify
    <3> QED
      BY <3>1 DEF Attended
  <2> QED
    BY <2>1, <2>2, <2>3
<1> QED
  BY <1>4, <1>5, <1>6, <1>7, <1>8 DEF Attended

\* A client stays attended when a completion is queued, which may use up its
\* receive if it has its key.
LEMMA AttendedQueued ==
  ASSUME Typed, NEW s \in Conns, Attended(s), NEW d \in Completion, port' = Append(port, d),
         UNCHANGED <<addr, workPc, completion, client>>,
         d.key = addr[s] \/ recvs'[s] = recvs[s]
  PROVE  Attended(s)'
<1>1. /\ \A i \in DOMAIN port : i \in DOMAIN port' /\ port'[i] = port[i]
      /\ Len(port) + 1 \in DOMAIN port' /\ port'[Len(port) + 1] = d
  BY DEF Typed, TypeOK
<1> QED
  BY <1>1 DEF Attended, Key

\* A client that is registered and done with by the acceptor never loses the
\* server's attention: a receive is posted for it, or a completion is queued, or
\* a worker is on its way to post one or to remove it.
THEOREM NoClientGoesDeaf == SafeSpec => []NeverDeaf
<1>1. Init => NeverDeaf
  BY ThreadsAssumption DEF Init, NeverDeaf, Registered
<1>2. Typed /\ Origins /\ MapGuarded /\ NeverDeaf /\ [Next]_vars => NeverDeaf'
  <2> SUFFICES ASSUME Typed, Origins, MapGuarded, NeverDeaf, [Next]_vars,
                      NEW s \in Conns, Registered(s)', accepting' # s
               PROVE  Attended(s)'
    BY DEF NeverDeaf
  <2> USE DEF Typed, TypeOK
  <2>1. Registered(s)
    <3> SUFFICES ASSUME ~Registered(s) PROVE FALSE
      OBVIOUS
    <3>1. PICK a \in Addrs : mSockets'[a] = s /\ mSockets[a] # s
      BY DEF Registered
    <3>2. ASSUME NEW w \in Workers, WorkErase(w) PROVE FALSE
      BY <3>1, <3>2, ThreadsAssumption DEF WorkErase
    <3>3. AcceptInsert
      BY <3>1, <3>2, MapSet
    <3> QED
      BY <3>1, <3>3 DEF AcceptInsert
  <2>2. addr[s] # None
    <3>1. PICK a \in Addrs : mSockets[a] = s
      BY <2>1 DEF Registered
    <3>2. s # None /\ a # None
      BY ThreadsAssumption
    <3> QED
      BY <3>1, <3>2 DEF Addressed
  <2>3. ASSUME NEW w \in Workers, WorkStep(w) PROVE Attended(s)'
    <3>1. accepting' = accepting
      BY <2>3 DEF WorkStep, WorkDequeue, WorkCheck, WorkLookup, WorkLookupFails,
         WorkRemoveLock, WorkErase, WorkIOEvent, WorkQueue, WorkMark, WorkPost, WorkNotify,
         acceptVars
    <3> QED
      BY <2>1, <2>3, <3>1, AttendedWork DEF NeverDeaf
  <2>4. CASE AcceptPost
    <3>1. CASE accepting = s
      BY <2>4, <3>1 DEF AcceptPost, WSARecv, Attended
    <3>2. CASE accepting # s
      <4>1. recvs[s] > 0 => recvs'[s] > 0
        BY <2>4, <3>2 DEF AcceptPost, WSARecv
      <4>2. UNCHANGED <<port, workPc, completion, client>>
        BY <2>4 DEF AcceptPost, WSARecv, workVars
      <4> QED
        BY <2>1, <2>2, <3>2, <4>1, <4>2, AttendedFrame DEF NeverDeaf
    <3> QED
      BY <3>1, <3>2
  <2>5. ASSUME ~AcceptPost, ~ \E w \in Workers : WorkStep(w) PROVE accepting # s
    <3>1. CASE \E t \in Conns, a \in Addrs : Accept(t, a)
      BY <3>1, ThreadsAssumption DEF Accept, InHand
    <3>2. CASE ~ \E t \in Conns, a \in Addrs : Accept(t, a)
      <4>1. accepting' = accepting
        BY <2>5, <3>2 DEF Next, AcceptStep, AcceptLock, AcceptInsert, AcceptHandlers,
           AcceptMark, SendStep, SendTake, SendMark, SendPost, SendSleep, SendDelete,
           SendWakesUnasked, Environment, Stop, StopsFor, Deliver, SendDone, Hangup, Leave,
           acceptVars, vars
      <4> QED
        BY <4>1
    <3> QED
      BY <3>1, <3>2
  <2>6. ASSUME accepting # s, NEW t \in Conns, Deliver(t) \/ SendDone(t) \/ Hangup(t)
        PROVE  Attended(s)'
    <3>1. PICK d \in Completion : port' = Append(port, d) /\ d.key = addr[t]
      <4>1. CASE Deliver(t)
        <5>1. PICK b \in {"whole", "part"} : CompleteRecv(t, addr[t], b)
          BY <4>1 DEF Deliver
        <5>2. [key |-> addr[t], bytes |-> b, op |-> "recv", conn |-> t] \in Completion
          BY <5>1 DEF CompleteRecv, Addressed, Completion, Bytes
        <5> QED
          BY <5>1, <5>2 DEF CompleteRecv, Complete
      <4>2. CASE SendDone(t)
        <5> DEFINE b == IF peer[t] = "reset" THEN "none" ELSE PacketBytes(Head(sends[t]))
        <5>1. sends[t] # <<>> /\ Head(sends[t]) \in Packets
          BY <4>2 DEF SendDone, CompleteSendOp
        <5>2. b \in Bytes /\ addr[t] \in Addrs
          BY <5>1, PacketSize DEF Bytes, Addressed
        <5>3. [key |-> addr[t], bytes |-> b, op |-> "send", conn |-> t] \in Completion
          BY <5>2 DEF Completion
        <5> QED
          BY <4>2, <5>3 DEF SendDone, CompleteSendOp, Complete
      <4>3. CASE Hangup(t)
        <5>1. [key |-> addr[t], bytes |-> "none", op |-> "recv", conn |-> t] \in Completion
          BY <4>3 DEF Hangup, CompleteHangup, Addressed, Completion, Bytes
        <5> QED
          BY <4>3, <5>1 DEF Hangup, CompleteHangup, Complete
      <4> QED
        BY <2>6, <4>1, <4>2, <4>3
    <3>2. UNCHANGED <<addr, workPc, completion, client>>
      BY <2>6 DEF Deliver, FillBuffer, SendDone, Hangup, clientVars, workVars
    <3>3. t = s \/ recvs'[s] = recvs[s]
      BY <2>6 DEF Deliver, CompleteRecv, SendDone, CompleteSendOp, Hangup, CompleteHangup
    <3> QED
      BY <2>1, <2>6, <3>1, <3>2, <3>3, AttendedQueued DEF NeverDeaf
  <2>7. ASSUME accepting # s, ~AcceptPost, ~ \E w \in Workers : WorkStep(w),
               ~ \E t \in Conns : Deliver(t) \/ SendDone(t) \/ Hangup(t)
        PROVE  Attended(s)'
    <3>1. UNCHANGED <<recvs, port, workPc, completion, client>>
      BY <2>7 DEF Next, AcceptStep, AcceptLock, AcceptInsert, AcceptHandlers, AcceptMark,
         Accept, AcceptSocket, SendStep, SendTake, SendMark, SendPost, SendSleep, SendDelete,
         SendWakesUnasked, WSASend, Environment, Stop, StopsFor, Leave, PeerLeaves,
         kernelVars, workVars, vars
    <3> QED
      BY <2>1, <2>2, <2>7, <3>1, AttendedFrame DEF NeverDeaf
  <2> QED
    BY <2>3, <2>4, <2>5, <2>6, <2>7
<1> QED
  BY <1>1, <1>2, TypedInvariant, OriginsInvariant, MapInvariant, PTL DEF SafeSpec

=============================================================================

---------------------------- MODULE ServerManager ----------------------------
(***************************************************************************)
(* src/Server/ServerManager.cpp with Client.cpp and the handler that       *)
(* AudioClientHandlerFactory installs: the acceptor thread                 *)
(* (getConnections), the worker threads on the completion port             *)
(* (workerThread), the one send thread (sendTask), and what they share:    *)
(* the map of clients and its mutex, the send queue, the condition         *)
(* variable that paces the send thread, and the Client objects.            *)
(*                                                                         *)
(* A step is what a thread does between two points where another thread    *)
(* can tell the difference.  mSendQueue is the atomic queue that           *)
(* ConcurrentQueue implements.                                             *)
(***************************************************************************)
EXTENDS Client, FiniteSets

CONSTANTS
  Workers,   \* the threads that run workerThread
  Spurious   \* whether condition_variable::wait may return unasked

Acceptor == "acceptor"

ASSUME ThreadsAssumption ==
  /\ Acceptor \notin Workers /\ None \notin Workers \cup {Acceptor}
  /\ None \notin Conns /\ None \notin Addrs
  /\ Spurious \in BOOLEAN

VARIABLES
  mSockets,      \* the client registered under each key, or None
  mClientQueue,  \* the thread that holds this mutex, or None
  mSendQueue,    \* the packets waiting for sendTask, oldest first
  acceptPc, accepting,          \* getConnections: where it is, its client
  workPc, completion, client,   \* workerThread: where it is, what it dequeued,
                                \*   the shared_ptr it holds
  job, next,     \* the response a worker is queueing, and its next packet
  sendPc, item,  \* sendTask: where it is, its packet
  jobs,          \* every response started so far (history)
  wire,          \* wire[s]: the packets WSASend was given, in order (history)
  crash          \* why the process ended, or "none"

managerVars == <<mSockets, mClientQueue, mSendQueue>>
acceptVars == <<acceptPc, accepting>>
workVars == <<workPc, completion, client, job, next>>
sendVars == <<sendPc, item>>
historyVars == <<jobs, wire>>

vars == <<kernelVars, clientVars, managerVars, acceptVars, workVars,
          sendVars, historyVars, crash>>

Packet == [to: Conns, job: Nat, n: Nat]
Job == [to: Conns, response: Responses]

PacketBytes(p) == jobs[p.job].response[p.n]

\* "race" is undefined behaviour of the unguarded lookup in the map, "missing"
\* its out_of_range exception that nobody catches, "break" a DebugBreak(), "abort"
\* a division by zero or a failed strncpy_s in the handlers, "freed" a read of
\* memory that sendTask has deleted.
CrashReasons == {"none", "race", "missing", "break", "abort", "freed"}

-----------------------------------------------------------------------------
(* Who keeps a Client alive: the shared_ptrs to it.                         *)

Registered(s) == \E a \in Addrs : mSockets[a] = s

SenderHolds(s) == sendPc # "take" /\ item.to = s

Alive(s) ==
  \/ Registered(s)
  \/ accepting = s
  \/ \E w \in Workers : client[w] = s
  \/ SenderHolds(s)

\* ~Client has run.
Destroyed(s) == addr[s] # None /\ ~Alive(s)

\* The allocator may hand out the address of a Client that was destroyed.
FreeAddr(a) == \A s \in Conns : addr[s] = a => ~Alive(s)

-----------------------------------------------------------------------------
(* A step leaves the process running or ends it; when it has ended no thread *)
(* takes another step.                                                       *)

Runs == crash = "none" /\ UNCHANGED crash

Ends(why) == crash = "none" /\ crash' = why

-----------------------------------------------------------------------------
(* getConnections and acceptConnection *)

\* acceptSocket, make_shared<Client>, CreateIoCompletionPort.  When the
\* association fails the client is dropped, its socket stays open.
Accept(s, a) ==
  /\ Runs
  /\ acceptPc = "listen"
  /\ FreeAddr(a)
  /\ AcceptSocket(s)
  /\ Construct(s, a)
  /\ \/ acceptPc' = "lock" /\ accepting' = s
     \/ UNCHANGED acceptVars
  /\ UNCHANGED <<managerVars, workVars, sendVars, historyVars>>

\* unique_lock<mutex> lk(mClientQueue), then insert has begun
AcceptLock ==
  /\ Runs
  /\ acceptPc = "lock" /\ acceptPc' = "insert"
  /\ mClientQueue = None /\ mClientQueue' = Acceptor
  /\ UNCHANGED <<kernelVars, clientVars, mSockets, mSendQueue, accepting,
                 workVars, sendVars, historyVars>>

\* mSockets.insert leaves an entry alone that is already there
AcceptInsert ==
  /\ Runs
  /\ acceptPc = "insert" /\ acceptPc' = "handlers"
  /\ mSockets' = [mSockets EXCEPT ![addr[accepting]] =
                    IF @ = None THEN accepting ELSE @]
  /\ UNCHANGED <<kernelVars, clientVars, mClientQueue, mSendQueue, accepting,
                 workVars, sendVars, historyVars>>

\* mClientFactory->addHandlerToClient(client); lk.unlock().  The folder that the
\* handler lists may end the process instead, see Stop.
AcceptHandlers ==
  /\ Runs
  /\ acceptPc = "handlers" /\ acceptPc' = "mark"
  /\ SetReceivedHandler(accepting)
  /\ mClientQueue' = None
  /\ UNCHANGED <<kernelVars, mSockets, mSendQueue, accepting,
                 workVars, sendVars, historyVars>>

\* client->BeginRead(), its two steps
AcceptMark ==
  /\ Runs
  /\ acceptPc = "mark" /\ acceptPc' = "post"
  /\ MarkRead(accepting)
  /\ UNCHANGED <<kernelVars, managerVars, accepting, workVars, sendVars,
                 historyVars>>

AcceptPost ==
  /\ Runs
  /\ acceptPc = "post" /\ acceptPc' = "listen"
  /\ WSARecv(accepting)
  /\ accepting' = None
  /\ UNCHANGED <<clientVars, managerVars, workVars, sendVars, historyVars>>

-----------------------------------------------------------------------------
(* workerThread *)

WorkGoto(w, from, to) == workPc[w] = from /\ workPc' = [workPc EXCEPT ![w] = to]

Key(w) == completion[w].key

(* Faulty variants of the steps below, one slip each; no specification here *)
(* uses them.  They show which slip each property would catch.              *)

\* a completion with some other number of bytes counts as a hangup
WorkLookupShort(w) ==
  /\ Runs
  /\ WorkGoto(w, "lookup", IF completion[w].bytes # "whole" THEN "remove" ELSE "io")
  /\ mSockets[Key(w)] # None
  /\ client' = [client EXCEPT ![w] = mSockets[Key(w)]]
  /\ UNCHANGED <<kernelVars, clientVars, managerVars, acceptVars, completion,
                 job, next, sendVars, historyVars>>

\* the loop in requestFile runs once too often
WorkQueueOneMore(w) ==
  /\ Runs
  /\ WorkGoto(w, "queue",
       IF next[w] > Len(jobs[job[w]].response) THEN "mark1" ELSE "queue")
  /\ mSendQueue' = Append(mSendQueue,
       [to |-> jobs[job[w]].to, job |-> job[w], n |-> next[w]])
  /\ next' = [next EXCEPT ![w] = @ + 1]
  /\ UNCHANGED <<kernelVars, clientVars, mSockets, mClientQueue, acceptVars,
                 completion, client, job, sendVars, historyVars>>

\* a message without an answer throws past both calls of BeginRead
WorkIOEventThrows(w) ==
  LET s == client[w]
      answer == Answer(s, completion[w].bytes)
  IN /\ Runs
     /\ WorkGoto(w, "io", IF answer # <<>> THEN "queue"
                          ELSE IF TakenForRead(s) THEN "notify" ELSE "mark2")
     /\ IF answer # <<>>
          THEN /\ jobs' = Append(jobs, [to |-> s, response |-> answer])
               /\ job' = [job EXCEPT ![w] = Len(jobs) + 1]
               /\ next' = [next EXCEPT ![w] = 1]
          ELSE UNCHANGED <<jobs, job, next>>
     /\ UNCHANGED <<kernelVars, clientVars, managerVars, acceptVars, completion,
                    client, sendVars, wire>>

\* the connection is removed after every event, not after an exception only
WorkNotifyRemoves(w) ==
  /\ Runs
  /\ WorkGoto(w, "notify", "remove")
  /\ sendPc' = IF sendPc = "sleep" THEN "woken" ELSE sendPc
  /\ UNCHANGED <<kernelVars, clientVars, managerVars, acceptVars, completion,
                 client, job, next, item, historyVars>>

\* workerThread does not notify
WorkNotifyNobody(w) ==
  /\ Runs
  /\ WorkGoto(w, "notify", "wait")
  /\ client' = [client EXCEPT ![w] = None]
  /\ UNCHANGED <<kernelVars, clientVars, managerVars, acceptVars, completion,
                 job, next, sendVars, historyVars>>

-----------------------------------------------------------------------------

\* GetQueuedCompletionStatus
WorkDequeue(w) ==
  /\ Runs
  /\ WorkGoto(w, "wait", "check")
  /\ \E d \in Completion :
       Dequeue(d) /\ completion' = [completion EXCEPT ![w] = d]
  /\ UNCHANGED <<clientVars, managerVars, acceptVars, client, job, next,
                 sendVars, historyVars>>

\* isPtrToClientValid, under mClientQueue
WorkCheck(w) ==
  /\ Runs
  /\ mClientQueue = None
  /\ WorkGoto(w, "check", IF mSockets[Key(w)] = None THEN "wait" ELSE "lookup")
  /\ UNCHANGED <<kernelVars, clientVars, managerVars, acceptVars, completion,
                 client, job, next, sendVars, historyVars>>

\* mSockets.at(ptrClient), with the mutex released again
WorkLookup(w) ==
  /\ Runs
  /\ WorkGoto(w, "lookup", IF completion[w].bytes = "none" THEN "remove" ELSE "io")
  /\ mSockets[Key(w)] # None
  /\ client' = [client EXCEPT ![w] = mSockets[Key(w)]]
  /\ UNCHANGED <<kernelVars, clientVars, managerVars, acceptVars, completion,
                 job, next, sendVars, historyVars>>

\* Some thread is inside mSockets.insert or mSockets.erase.
MapInFlux == acceptPc = "insert" \/ \E w \in Workers : workPc[w] = "erase"

\* ... and the ways that lookup ends the process.
WorkLookupFails(w) ==
  /\ workPc[w] = "lookup"
  /\ \/ mSockets[Key(w)] = None /\ Ends("missing")
     \/ MapInFlux /\ Ends("race")
  /\ UNCHANGED <<kernelVars, clientVars, managerVars, acceptVars, workVars,
                 sendVars, historyVars>>

\* removeConnection: lock, then find and erase the key, then unlock
WorkRemoveLock(w) ==
  /\ Runs
  /\ WorkGoto(w, "remove", "erase")
  /\ mClientQueue = None /\ mClientQueue' = w
  /\ UNCHANGED <<kernelVars, clientVars, mSockets, mSendQueue, acceptVars,
                 completion, client, job, next, sendVars, historyVars>>

WorkErase(w) ==
  /\ Runs
  /\ WorkGoto(w, "erase", "wait")
  /\ mSockets' = [mSockets EXCEPT ![addr[client[w]]] = None]
  /\ mClientQueue' = None
  /\ client' = [client EXCEPT ![w] = None]
  /\ UNCHANGED <<kernelVars, clientVars, mSendQueue, acceptVars, completion,
                 job, next, sendVars, historyVars>>

\* BeginIOEvent: the switch on mState.  CompleteRead copies the buffer and runs
\* the handlers, which queue the answer packet by packet; CompleteSend copies the
\* data of the last send and drops the copy, nobody sets a SentHandler.  Either
\* may end the process instead, see Stop.  After CompleteRead comes a BeginRead
\* of its own, before the one of workerThread.
WorkIOEvent(w) ==
  LET s == client[w]
      answer == Answer(s, completion[w].bytes)
  IN /\ Runs
     /\ WorkGoto(w, "io", IF answer # <<>> THEN "queue"
                          ELSE IF TakenForRead(s) THEN "mark1" ELSE "mark2")
     /\ IF answer # <<>>
          THEN /\ jobs' = Append(jobs, [to |-> s, response |-> answer])
               /\ job' = [job EXCEPT ![w] = Len(jobs) + 1]
               /\ next' = [next EXCEPT ![w] = 1]
          ELSE UNCHANGED <<jobs, job, next>>
     /\ UNCHANGED <<kernelVars, clientVars, managerVars, acceptVars, completion,
                    client, sendVars, wire>>

\* queue->push(ClientPacket(mClient, packet)) in requestFile, requestFileList
WorkQueue(w) ==
  /\ Runs
  /\ WorkGoto(w, "queue",
       IF next[w] = Len(jobs[job[w]].response) THEN "mark1" ELSE "queue")
  /\ mSendQueue' = Append(mSendQueue,
       [to |-> jobs[job[w]].to, job |-> job[w], n |-> next[w]])
  /\ next' = [next EXCEPT ![w] = @ + 1]
  /\ UNCHANGED <<kernelVars, clientVars, mSockets, mClientQueue, acceptVars,
                 completion, client, job, sendVars, historyVars>>

\* BeginRead of BeginIOEvent, then BeginRead of workerThread
WorkMark(w) ==
  /\ Runs
  /\ WorkGoto(w, "mark1", "post1") \/ WorkGoto(w, "mark2", "post2")
  /\ MarkRead(client[w])
  /\ UNCHANGED <<kernelVars, managerVars, acceptVars, completion, client, job,
                 next, sendVars, historyVars>>

WorkPost(w) ==
  /\ Runs
  /\ WorkGoto(w, "post1", "mark2") \/ WorkGoto(w, "post2", "notify")
  /\ WSARecv(client[w])
  /\ UNCHANGED <<clientVars, managerVars, acceptVars, completion, client, job,
                 next, sendVars, historyVars>>

\* mSendCondition.notify_all(), without mSendMutex; client goes out of scope
WorkNotify(w) ==
  /\ Runs
  /\ WorkGoto(w, "notify", "wait")
  /\ sendPc' = IF sendPc = "sleep" THEN "woken" ELSE sendPc
  /\ client' = [client EXCEPT ![w] = None]
  /\ UNCHANGED <<kernelVars, clientVars, managerVars, acceptVars, completion,
                 job, next, item, historyVars>>

-----------------------------------------------------------------------------
(* sendTask *)

\* Faulty variant: the queue is drained newest first
SendTakeNewest ==
  /\ Runs
  /\ sendPc = "take"
  /\ mSendQueue # <<>>
  /\ mSendQueue' = SubSeq(mSendQueue, 1, Len(mSendQueue) - 1)
  /\ IF Alive(mSendQueue[Len(mSendQueue)].to)
       THEN sendPc' = "mark" /\ item' = mSendQueue[Len(mSendQueue)]
       ELSE UNCHANGED sendVars
  /\ UNCHANGED <<kernelVars, clientVars, mSockets, mClientQueue, acceptVars,
                 workVars, historyVars>>

\* Faulty variant: client.lock() is not tested
SendTakeDead ==
  /\ Runs
  /\ sendPc = "take" /\ sendPc' = "mark"
  /\ mSendQueue # <<>>
  /\ mSendQueue' = Tail(mSendQueue)
  /\ item' = Head(mSendQueue)
  /\ UNCHANGED <<kernelVars, clientVars, mSockets, mClientQueue, acceptVars,
                 workVars, historyVars>>

\* mSendQueue->pop(), client.lock(): a packet for a destroyed client is dropped
SendTake ==
  /\ Runs
  /\ sendPc = "take"
  /\ mSendQueue # <<>>
  /\ mSendQueue' = Tail(mSendQueue)
  /\ IF Alive(Head(mSendQueue).to)
       THEN sendPc' = "mark" /\ item' = Head(mSendQueue)
       ELSE UNCHANGED sendVars
  /\ UNCHANGED <<kernelVars, clientVars, mSockets, mClientQueue, acceptVars,
                 workVars, historyVars>>

\* BeginSend, its two steps
SendMark ==
  /\ Runs
  /\ sendPc = "mark" /\ sendPc' = "post"
  /\ MarkSend(item.to)
  /\ UNCHANGED <<kernelVars, managerVars, acceptVars, workVars, item,
                 historyVars>>

SendPost ==
  /\ Runs
  /\ sendPc = "post" /\ sendPc' = "posted"
  /\ WSASend(item.to, item)
  /\ wire' = [wire EXCEPT ![item.to] = Append(@, item)]
  /\ UNCHANGED <<clientVars, managerVars, acceptVars, workVars, item, jobs>>

\* mSendCondition.wait(drainLock): no predicate, and notify_all may already
\* have happened
SendSleep ==
  /\ Runs
  /\ sendPc = "posted" /\ sendPc' = "sleep"
  /\ UNCHANGED <<kernelVars, clientVars, managerVars, acceptVars, workVars,
                 item, historyVars>>

SendWakesUnasked ==
  /\ Runs
  /\ Spurious
  /\ sendPc = "sleep" /\ sendPc' = "woken"
  /\ UNCHANGED <<kernelVars, clientVars, managerVars, acceptVars, workVars,
                 item, historyVars>>

\* the clientPtr goes out of scope, delete[] data
SendDelete ==
  /\ Runs
  /\ sendPc = "woken" /\ sendPc' = "take"
  /\ item' = None
  /\ UNCHANGED <<kernelVars, clientVars, managerVars, acceptVars, workVars,
                 historyVars>>

-----------------------------------------------------------------------------
(* The environment *)

\* Some thread is about to call WSARecv or WSASend, which may fail at once:
\* DebugBreak() without a debugger.
Posting ==
  \/ acceptPc = "post" \/ sendPc = "post"
  \/ \E w \in Workers : workPc[w] \in {"post1", "post2"}

\* Some thread runs the handlers: the acceptor, whose new handler lists the music
\* folder, or a worker with a message (FileList and MessageHandling detail what
\* ends them).
Handling ==
  \/ acceptPc = "handlers"
  \/ \E w \in Workers : /\ workPc[w] = "io" /\ TakenForRead(client[w])
                        /\ completion[w].bytes = "whole" /\ handlerSet[client[w]]

\* The data that CompleteSend would copy for w: mWSASendBuffer still points to it
\* when sendTask has deleted it.
ReadsFreed(w) ==
  /\ workPc[w] = "io" /\ mState[client[w]] = "SEND"
  /\ ~(sendPc \in {"post", "posted", "sleep", "woken"} /\ item.to = client[w])

\* One of them ends the process.
StopsFor(why) ==
  /\ Ends(why)
  /\ UNCHANGED <<kernelVars, clientVars, managerVars, acceptVars, workVars,
                 sendVars, historyVars>>

Stop ==
  \/ Posting /\ StopsFor("break")
  \/ Handling /\ StopsFor("abort")
  \/ (\E w \in Workers : ReadsFreed(w)) /\ StopsFor("freed")

Deliver(s) ==
  /\ Runs
  /\ \E m \in Responses, bytes \in {"whole", "part"} :
       CompleteRecv(s, addr[s], bytes) /\ FillBuffer(s, m)
  /\ UNCHANGED <<managerVars, acceptVars, workVars, sendVars, historyVars>>

SendDone(s) ==
  /\ Runs
  /\ CompleteSendOp(s, addr[s], PacketBytes(Head(sends[s])))
  /\ UNCHANGED <<clientVars, managerVars, acceptVars, workVars, sendVars,
                 historyVars>>

Hangup(s) ==
  /\ Runs
  /\ CompleteHangup(s, addr[s])
  /\ UNCHANGED <<clientVars, managerVars, acceptVars, workVars, sendVars,
                 historyVars>>

Leave(s) ==
  /\ Runs
  /\ PeerLeaves(s)
  /\ UNCHANGED <<clientVars, managerVars, acceptVars, workVars, sendVars,
                 historyVars>>

-----------------------------------------------------------------------------

Init ==
  /\ KernelInit
  /\ ClientInit
  /\ mSockets = [a \in Addrs |-> None]
  /\ mClientQueue = None
  /\ mSendQueue = <<>>
  /\ acceptPc = "listen" /\ accepting = None
  /\ workPc = [w \in Workers |-> "wait"]
  /\ completion = [w \in Workers |-> None]
  /\ client = [w \in Workers |-> None]
  /\ job = [w \in Workers |-> 0]
  /\ next = [w \in Workers |-> 0]
  /\ sendPc = "take" /\ item = None
  /\ jobs = <<>>
  /\ wire = [s \in Conns |-> <<>>]
  /\ crash = "none"

AcceptStep ==
  AcceptLock \/ AcceptInsert \/ AcceptHandlers \/ AcceptMark \/ AcceptPost

WorkStep(w) ==
  \/ WorkDequeue(w) \/ WorkCheck(w) \/ WorkLookup(w) \/ WorkLookupFails(w)
  \/ WorkRemoveLock(w) \/ WorkErase(w)
  \/ WorkIOEvent(w) \/ WorkQueue(w) \/ WorkMark(w) \/ WorkPost(w) \/ WorkNotify(w)

SendStep == SendTake \/ SendMark \/ SendPost \/ SendSleep \/ SendDelete

Environment ==
  \/ \E s \in Conns : Deliver(s) \/ SendDone(s) \/ Hangup(s) \/ Leave(s)
  \/ \E s \in Conns, a \in Addrs : Accept(s, a)
  \/ SendWakesUnasked
  \/ Stop

Next ==
  \/ AcceptStep \/ SendStep \/ Environment
  \/ \E w \in Workers : WorkStep(w)

SafeSpec == Init /\ [][Next]_vars

(***************************************************************************)
(* Every thread that can run does, and one that asks for mClientQueue gets *)
(* it in the end (the runtime's mutex queues its waiters).  A send that    *)
(* was posted completes.  Peers owe nothing: they may never send, close or *)
(* reset, and no wait has to return spuriously.                            *)
(***************************************************************************)
Fairness ==
  /\ WF_vars(AcceptInsert \/ AcceptHandlers \/ AcceptMark \/ AcceptPost)
  /\ SF_vars(AcceptLock)
  /\ WF_vars(SendStep)
  /\ \A w \in Workers :
       /\ WF_vars(WorkStep(w))
       /\ SF_vars(WorkCheck(w) \/ WorkRemoveLock(w))
  /\ \A s \in Conns : WF_vars(SendDone(s))

Spec == SafeSpec /\ Fairness

-----------------------------------------------------------------------------
(* Properties *)

AcceptPc == {"listen", "lock", "insert", "handlers", "mark", "post"}
WorkPc == {"wait", "check", "lookup", "remove", "erase", "io", "queue",
           "mark1", "post1", "mark2", "post2", "notify"}
SendPc == {"take", "mark", "post", "posted", "sleep", "woken"}

\* The packets the handlers have made or are making.
Packets ==
  {p \in Packet : /\ p.job \in DOMAIN jobs
                  /\ p.n \in DOMAIN jobs[p.job].response
                  /\ p.to = jobs[p.job].to}

\* Every variable has its type; in particular every packet queued, in flight or
\* on the wire is a packet of a response that was started.
TypeOK ==
  /\ peer \in [Conns -> PeerStates]
  /\ recvs \in [Conns -> Nat]
  /\ sends \in [Conns -> Seq(Packets)]
  /\ port \in Seq(Completion)
  /\ delivered \in Nat /\ sendsDone \in Nat
  /\ addr \in [Conns -> Addrs \cup {None}]
  /\ mState \in [Conns -> ClientState]
  /\ mBuffer \in [Conns -> Responses]
  /\ handlerSet \in [Conns -> BOOLEAN]
  /\ mSockets \in [Addrs -> Conns \cup {None}]
  /\ mClientQueue \in Workers \cup {Acceptor, None}
  /\ mSendQueue \in Seq(Packets)
  /\ acceptPc \in AcceptPc /\ accepting \in Conns \cup {None}
  /\ workPc \in [Workers -> WorkPc]
  /\ completion \in [Workers -> Completion \cup {None}]
  /\ client \in [Workers -> Conns \cup {None}]
  /\ job \in [Workers -> Nat] /\ next \in [Workers -> Nat]
  /\ sendPc \in SendPc /\ item \in Packets \cup {None}
  /\ jobs \in Seq(Job)
  /\ wire \in [Conns -> Seq(Packets)]
  /\ crash \in CrashReasons

\* No client goes deaf: while it is registered and its acceptor is done with
\* it, a receive is posted for it, or a completion that will lead a worker to
\* post one is queued, or a worker is on its way to do so or to remove it.
Attended(s) ==
  \/ recvs[s] > 0
  \/ \E i \in DOMAIN port : port[i].key = addr[s]
  \/ \E w \in Workers :
       \/ workPc[w] \in {"check", "lookup"} /\ Key(w) = addr[s]
       \/ workPc[w] \notin {"wait", "check", "lookup", "notify"} /\ client[w] = s

NeverDeaf == \A s \in Conns : Registered(s) /\ accepting # s => Attended(s)

\* The lookup outside of mClientQueue goes wrong in two ways, and each takes more
\* than one peer that stays: the key that was found is gone again, and at throws
\* what nobody catches, only when a peer has left; and another thread is inside
\* the map only when one has left, or a second one was accepted.
OneStays ==
  /\ \A s \in Conns : ~Gone(s)
  /\ \A s, t \in Conns : addr[s] # None /\ addr[t] # None => s = t

CrashCause ==
  /\ crash = "missing" => \E s \in Conns : Gone(s)
  /\ crash = "race" => ~OneStays

\* A client whose peer is still there is taken out of the map only when a stale
\* completion reaches it: one for another, departed peer whose Client had been
\* at the same address.
RemovalCause ==
  \A s \in Conns :
    handlerSet[s] /\ ~Registered(s) /\ peer[s] = "open" =>
      \E t \in Conns \ {s} : addr[t] = addr[s] /\ Gone(t)

\* As long as a client has not been sent anything, each of its completions meets
\* the branch of BeginIOEvent for the operation that completed.  (Afterwards it
\* may not: receives and sends pend together and mState has room for one.)
SendBegun(s) == wire[s] # <<>> \/ (sendPc = "post" /\ item.to = s)

RightBranch ==
  [][\A w \in Workers :
       WorkIOEvent(w) /\ completion[w].conn = client[w] /\ ~SendBegun(client[w])
         => (TakenForRead(client[w]) <=> completion[w].op = "recv")]_vars

\* The responses reach each connection as ResponseStreams promises.
Streams == INSTANCE ResponseStreams
             WITH dead <- {s \in Conns : Destroyed(s)}

ImplementsStreams == Streams!Spec

\* What that means for a peer: each packet on its wire is its own, and when it
\* went out, exactly the packets the handler made before it had gone out of the
\* same response.
AnswersInOrder ==
  \A s \in Conns : \A k \in DOMAIN wire[s] :
    LET p == wire[s][k]
        before == {i \in 1..(k - 1) : wire[s][i].job = p.job}
    IN p.to = s /\ {wire[s][i].n : i \in before} = 1..(p.n - 1)

\* A send thread that sleeps while some worker handles an event is woken.
SenderWoken ==
  (sendPc = "sleep" /\ \E w \in Workers : workPc[w] \in {"io", "notify"})
    ~> (sendPc # "sleep" \/ crash # "none")

-----------------------------------------------------------------------------
(* What the comments claim and the code does not do *)

\* ServerManager.cpp:48, "Wait for notification that the i/o even has been
\* correctly processed": when sendTask frees the data its send has completed.
SentBeforeDelete ==
  sendPc = "woken" =>
    \A i \in DOMAIN sends[item.to] : sends[item.to][i] # item

\* ServerManager.h:78, "We drain this queue and send back": packets do not stay
\* queued for ever.
QueueDrained == []<>(mSendQueue = <<>> \/ crash # "none")

=============================================================================

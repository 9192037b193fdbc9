------------------------------- MODULE Startup -------------------------------
(***************************************************************************)
(* How the server comes to serve: main in src/Server/main.cpp makes the    *)
(* ServerSocket and a ServerManager, whose constructor makes a ThreadPool  *)
(* of twice the number of cores, and calls listen, which sets the socket   *)
(* up and enqueues the tasks that never return.  Task 0 is getConnections, *)
(* which is here step by step, task 1 sendTask, and the tasks from 2 on    *)
(* are workerThread, numbered by the loop variable of listen.              *)
(***************************************************************************)
EXTENDS ThreadPool, ServerSocket

VARIABLES
  mainPc,    \* main: "socket", "begin", "event", "select", "port", "enqueue",
             \* then "spin", or "returned"
  nextTask,  \* the task it enqueues next
  mCompletionPort,  \* CreateIoCompletionPort returned one
  acceptPc, accepting  \* getConnections: where it is, the peer it accepted

mainVars == <<mainPc, nextTask, mCompletionPort>>
acceptVars == <<acceptPc, accepting>>

startupVars == <<vars, socketVars, mainVars, acceptVars>>

\* Faulty variant: one thread per core; no specification here uses it.
PoolArgumentHalf == Cores

\* the argument of ServerManager's pool
PoolArgument == Cores * 2

\* for (size_t i = 2; i < hardware_concurrency() * 2 - 2; i++); with one
\* core or two there is no worker
LastTask == IF Cores * 2 - 2 > 2 THEN Cores * 2 - 3 ELSE 1

\* hardware_concurrency of Microsoft's library asks the system for the processors
\* there are: it never answers 0, and the project builds with nothing else.
ASSUME StartupAssumption ==
  /\ Cores > 0
  /\ Tasks = 0..(Cores * 2) /\ Endless = Tasks
  /\ Sizes = {Cores, Cores * 2}
  /\ None \notin Peers

StartupInit ==
  /\ Init
  /\ numThreads = PoolSize(PoolArgument)
  /\ SocketInit
  /\ mainPc = "socket" /\ nextTask = 0 /\ mCompletionPort = FALSE
  /\ acceptPc = "wait" /\ accepting = None

-----------------------------------------------------------------------------
(* main and the constructor of ServerManager *)

\* make_unique<ServerSocket>, outside of the try
MakeSocket ==
  /\ ~terminated
  /\ mainPc = "socket" /\ mainPc' = "begin"
  /\ \/ Construct /\ UNCHANGED terminated
     \/ ConstructThrows /\ terminated' = TRUE
  /\ UNCHANGED <<poolVars, ownerVars, threadVars, taskVars, nextTask,
                 mCompletionPort, acceptVars>>

MakeThread ==
  /\ mainPc = "begin"
  /\ StartThread \/ Constructed
  /\ UNCHANGED <<socketVars, mainVars, acceptVars>>

\* The constructor of a thread throws.  Unwinding destroys the threads made so
\* far, and a joinable one ends the process; when there is none, the
\* ServerSocket is destroyed and main reports the exception and returns.
MakeThreadThrows ==
  /\ ~terminated
  /\ mainPc = "begin" /\ owner = "construct" /\ at <= numThreads
  /\ Fails("thread")
  /\ IF at = 1
       THEN close /\ mainPc' = "returned" /\ UNCHANGED terminated
       ELSE /\ terminated' = TRUE
            /\ UNCHANGED <<mSocketFileDesc, wsa, eventVars, peer, mainPc>>
  /\ UNCHANGED <<poolVars, ownerVars, threadVars, taskVars, nextTask,
                 mCompletionPort, acceptVars>>

-----------------------------------------------------------------------------
(* listen: when one of its calls fails it returns without a word, and main *)
(* spins                                                                   *)

\* Faulty variant: the result of begin is not tested; no specification uses it.
BeginUntested ==
  /\ owner = "own"
  /\ mainPc = "begin" /\ mainPc' = "event"
  /\ BeginOk \/ BeginFails
  /\ UNCHANGED <<vars, nextTask, mCompletionPort, acceptVars>>

Begin ==
  /\ owner = "own"
  /\ mainPc = "begin"
  /\ \/ BeginOk /\ mainPc' = "event"
     \/ BeginFails /\ mainPc' = "spin"
  /\ UNCHANGED <<vars, nextTask, mCompletionPort, acceptVars>>

CreateEvent ==
  /\ mainPc = "event"
  /\ \/ mainPc' = "select" /\ UNCHANGED failed
     \/ Fails("WSACreateEvent") /\ mainPc' = "spin"
  /\ UNCHANGED <<vars, mSocketFileDesc, wsa, eventVars, peer, nextTask,
                 mCompletionPort, acceptVars>>

EventSelect ==
  /\ mainPc = "select"
  /\ \/ WSAEventSelect /\ mainPc' = "port" /\ UNCHANGED failed
     \/ /\ Fails("WSAEventSelect") /\ mainPc' = "spin"
        /\ UNCHANGED <<mSocketFileDesc, wsa, eventVars, peer>>
  /\ UNCHANGED <<vars, nextTask, mCompletionPort, acceptVars>>

\* The result of CreateIoCompletionPort is not tested.
CreatePort ==
  /\ mainPc = "port" /\ mainPc' = "enqueue"
  /\ \/ mCompletionPort' = TRUE /\ UNCHANGED failed
     \/ Fails("port") /\ UNCHANGED mCompletionPort
  /\ UNCHANGED <<vars, mSocketFileDesc, wsa, eventVars, peer, nextTask,
                 acceptVars>>

\* pool.EnqueueTask
EnqueueNext ==
  /\ mainPc = "enqueue"
  /\ EnqueueTask(nextTask)
  /\ nextTask' = nextTask + 1
  /\ mainPc' = IF nextTask = LastTask THEN "spin" ELSE "enqueue"
  /\ UNCHANGED <<socketVars, mCompletionPort, acceptVars>>

-----------------------------------------------------------------------------
(* getConnections, on the thread that took task 0 *)

Serves(t, k) == pc[t] = "run" /\ task[t] = k

Acts == ~terminated /\ \E t \in Threads : Serves(t, 0)

AcceptGoto(from, to) == acceptPc = from /\ acceptPc' = to

\* WSAWaitForMultipleEvents; its timeout leads back to it
WaitForEvent ==
  /\ Acts
  /\ AcceptGoto("wait", "fetch")
  /\ signaled
  /\ UNCHANGED <<vars, socketVars, mainVars, accepting>>

\* an event with an error code is dropped
FetchEvents ==
  /\ Acts
  /\ AcceptGoto("fetch", IF recorded = "accept" THEN "accept" ELSE "wait")
  /\ WSAEnumNetworkEvents
  /\ UNCHANGED <<vars, mainVars, accepting>>

\* Faulty variants: the event is reset once more after accept; the exception is
\* not caught.  No specification uses them.
AcceptPeerResets ==
  /\ Acts
  /\ \E p \in Peers : PeerGoes(p, "waiting", "accepted") /\ accepting' = p
  /\ AcceptGoto("accept", "connect")
  /\ enabled' = (Waiting = {accepting'})
  /\ recorded' = "nothing" /\ signaled' = FALSE
  /\ UNCHANGED <<vars, mSocketFileDesc, wsa, failed, mainVars>>

AcceptPeerUncaught ==
  /\ Acts
  /\ \/ /\ \E p \in Peers :
             acceptSocket(p) /\ accepting' = p /\ AcceptGoto("accept", "connect")
        /\ UNCHANGED terminated
     \/ acceptSocketThrows /\ UNCHANGED acceptVars /\ terminated' = TRUE
  /\ UNCHANGED <<poolVars, ownerVars, threadVars, taskVars, mainVars>>

\* mServerSocket->acceptSocket(), whose exception is caught
AcceptPeer ==
  /\ Acts
  /\ \/ \E p \in Peers :
          acceptSocket(p) /\ accepting' = p /\ AcceptGoto("accept", "connect")
     \/ acceptSocketThrows /\ AcceptGoto("accept", "wait") /\ UNCHANGED accepting
  /\ UNCHANGED <<vars, mainVars>>

\* Without mCompletionPort the association makes a port for this client alone.
OnPort == IF mCompletionPort THEN "registered" ELSE "alone"

\* Faulty variant: when the association fails the client is forgotten, and the
\* acceptor goes on; no specification uses it.
acceptConnectionForgets ==
  /\ Acts
  /\ AcceptGoto("connect", "wait")
  /\ accepting' = None
  /\ \/ PeerGoes(accepting, "accepted", OnPort) /\ UNCHANGED failed
     \/ Fails("associate") /\ UNCHANGED peer
  /\ UNCHANGED <<vars, mSocketFileDesc, wsa, eventVars, mainVars>>

\* acceptConnection, which ServerManager details.  When the association fails the
\* client is dropped, and nothing closes its socket.
acceptConnection ==
  /\ Acts
  /\ AcceptGoto("connect", "wait")
  /\ accepting' = None
  /\ \/ PeerGoes(accepting, "accepted", OnPort) /\ UNCHANGED failed
     \/ Fails("associate") /\ PeerGoes(accepting, "accepted", "dropped")
  /\ UNCHANGED <<vars, mSocketFileDesc, wsa, eventVars, mainVars>>

\* acceptConnection does not come back: addHandlerToClient reads the folder, whose
\* files may end the process (FileList), and so does BeginRead when WSARecv fails,
\* as it does for a peer that has reset already.  getConnections catches neither:
\* they are no C++ exceptions.
acceptConnectionEnds ==
  /\ Acts
  /\ acceptPc = "connect"
  /\ Fails("folder") \/ Fails("WSARecv")
  /\ terminated' = TRUE
  /\ UNCHANGED <<poolVars, ownerVars, threadVars, taskVars, mSocketFileDesc, wsa,
                 eventVars, peer, mainVars, acceptVars>>

\* Who serves a client may end the process as well.
ServingEnds ==
  /\ ~terminated
  /\ \E t \in Threads, k \in 1..LastTask : Serves(t, k)
  /\ \E p \in Peers : peer[p] = "registered"
  /\ Fails("serving")
  /\ terminated' = TRUE
  /\ UNCHANGED <<poolVars, ownerVars, threadVars, taskVars, mSocketFileDesc, wsa,
                 eventVars, peer, mainVars, acceptVars>>

-----------------------------------------------------------------------------

\* The threads of the pool are alike, and what they do before they have a task
\* is noticed by nobody else (ThreadPool has every interleaving of it): here
\* the first of those that can move does.
CanMove(t) == pc[t] \in {"loop", "next"} \/ (pc[t] = "pop" /\ mTasks # <<>>)

ThreadRuns ==
  /\ \E t \in Threads : ThreadStep(t) /\ \A u \in 1..(t - 1) : ~CanMove(u)
  /\ UNCHANGED <<socketVars, mainVars, acceptVars>>

Environment ==
  /\ ~terminated
  /\ NetworkError \/ \E p \in Peers : Connect(p) \/ GiveUp(p)
  /\ UNCHANGED <<vars, mainVars, acceptVars>>

MainStep ==
  \/ MakeSocket \/ MakeThread \/ MakeThreadThrows
  \/ Begin \/ CreateEvent \/ EventSelect \/ CreatePort \/ EnqueueNext

AcceptStep ==
  \/ WaitForEvent \/ FetchEvents \/ AcceptPeer
  \/ acceptConnection \/ acceptConnectionEnds

StartupNext ==
  MainStep \/ AcceptStep \/ ServingEnds \/ Environment \/ ThreadRuns

\* main and the threads keep running; a peer need not connect or give up.
StartupFairness ==
  /\ WF_startupVars(MainStep)
  /\ WF_startupVars(AcceptStep)
  /\ WF_startupVars(ThreadRuns)

StartupSpec == StartupInit /\ [][StartupNext]_startupVars /\ StartupFairness

-----------------------------------------------------------------------------
(* Properties *)

\* Every variable has its type; main sets the socket up before it enqueues.
StartupTypeOK ==
  /\ TypeOK
  /\ mSocketFileDesc \in {"zero", "invalid", "open", "bound", "listening"}
  /\ wsa \in BOOLEAN /\ enabled \in BOOLEAN /\ signaled \in BOOLEAN
  /\ recorded \in {"nothing", "accept", "error"}
  /\ peer \in [Peers -> PeerStates] /\ failed \subseteq MayFail
  /\ mainPc \in {"socket", "begin", "event", "select", "port", "enqueue",
                 "spin", "returned"}
  /\ nextTask \in 0..(LastTask + 1) /\ mCompletionPort \in BOOLEAN
  /\ acceptPc \in {"wait", "fetch", "accept", "connect"}
  /\ accepting \in Peers \cup {None}
  /\ nextTask > 0 => mSocketFileDesc = "listening"

\* The calls after whose failure the server does not come to serve.
Fatal == Calls \ {"port", "accept", "associate", "network"}

\* Unless one of those fails, a server whose pool finds mFinished to be false
\* gets every role on a thread of its own, although no role ever returns.  (With
\* one core or two listen starts no worker, although ServerManager.cpp:23 says
\* "the rest to do IO Completion port"; in general two threads never get a task.)
RolesFilled ==
  ~mFinished
    ~> \/ failed \cap Fatal # {}
       \/ \A k \in 0..LastTask : \E t \in Threads : Serves(t, k)

\* listen has got past WSAEventSelect.
Selected == mainPc \in {"port", "enqueue"} \/ nextTask > 0

\* While a peer waits on a socket whose event was selected, the event is
\* signaled, or the acceptor is on its way from it to accept; only an FD_ACCEPT
\* with an error code stops this for good.
WaitingAnnounced ==
  Selected /\ Waiting # {}
    => \/ signaled /\ recorded = "accept"
       \/ acceptPc = "accept"
       \/ "network" \in failed

\* p was accepted.
Came(p) == peer[p] \notin {"away", "waiting", "gone"}

\* The server ends in main when WSAStartup fails or a thread of the pool cannot be
\* made.  Once it is there it needs a client to end: one that was accepted, whose
\* list or first read ends it, or that is served.  No exception of accept gets out
\* of its thread, and no thread calls an empty Task.
EndsHaveCauses ==
  terminated
    => \/ failed \cap {"WSAStartup", "thread"} # {}
       \/ /\ failed \cap {"folder", "WSARecv", "serving"} # {}
          /\ \E p \in Peers : Came(p)

\* A peer that was accepted is in the acceptor's hands until it is registered
\* with the server's port, or one of its own when there is none, or is dropped
\* because the association failed.
AcceptedKept ==
  \A p \in Peers :
    /\ peer[p] = "accepted" <=> acceptPc = "connect" /\ accepting = p
    /\ peer[p] = "registered" => mCompletionPort
    /\ peer[p] = "alone" => "port" \in failed
    /\ peer[p] = "dropped" => "associate" \in failed

\* No peer is forgotten on its way from connect to the port: neither by the event
\* while it waits, nor by the acceptor that has accepted it.
NoPeerForgotten == WaitingAnnounced /\ AcceptedKept

\* What keeps the acceptor from the peers that wait: one of the calls without which
\* there is no acceptor, no port, or no FD_ACCEPT; or the end of the process.
Stops ==
  {"WSACreateEvent", "WSAEventSelect", "port", "network", "folder", "WSARecv", "serving"}

\* Who has connected comes to be served by a worker, unless it gives up, or the
\* association of its socket fails, or one of those happened.  (The port is never
\* tested: without it clients are accepted whose requests nobody ever reads.)
PeersServed ==
  \A p \in Peers :
    peer[p] = "waiting" /\ ~mFinished
      ~> \/ peer[p] = "gone" \/ failed \cap Stops # {}
         \/ peer[p] = "dropped" /\ "associate" \in failed
         \/ /\ peer[p] = "registered"
            /\ LastTask > 1 => \E t \in Threads, k \in 2..LastTask : Serves(t, k)

=============================================================================

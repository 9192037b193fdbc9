---------------------------- MODULE StartupProofs ----------------------------
(***************************************************************************)
(* Theorems about Startup for any number of cores, any peers and any calls *)
(* that may fail.                                                          *)
(***************************************************************************)
EXTENDS Startup, ThreadPoolProofs

\* What main has done when it is at each call; what getConnections has in hand.
Prepared ==
  /\ mainPc \in {"event", "select", "port", "enqueue"} => mSocketFileDesc = "listening"
  /\ mainPc \notin {"enqueue", "spin"} => nextTask = 0
  /\ mainPc = "enqueue" => nextTask <= LastTask
  /\ acceptPc = "connect" => accepting \in Peers

Started == StartupTypeOK /\ Placed /\ Prepared

\* Nobody accepts before main has enqueued task 0.
Begun ==
  /\ \A k \in enqueued : k < nextTask
  /\ nextTask = 0 => acceptPc = "wait"

\* Main tries to make the port before it enqueues anything.
PortTried ==
  mainPc = "enqueue" \/ nextTask > 0 => mCompletionPort \/ "port" \in failed

\* Whoever waits will be noticed.  Until an FD_ACCEPT comes with an error code
\* the event is signaled exactly when an FD_ACCEPT is recorded, it stays so
\* until it is fetched, and once the event was selected the socket is about to
\* record one, or has, or the acceptor is about to call accept.
Watched ==
  /\ enabled \/ signaled => Selected
  /\ "network" \notin failed =>
       /\ signaled <=> recorded = "accept"
       /\ acceptPc = "fetch" => signaled
       /\ Selected => \/ enabled /\ Waiting = {}
                      \/ signaled
                      \/ acceptPc = "accept"

-----------------------------------------------------------------------------

\* The tasks of listen are tasks of the pool.
LEMMA TaskNumbers ==
  /\ Cores \in Nat /\ LastTask \in Nat /\ LastTask > 0
  /\ \A k \in 0..LastTask : k \in Tasks
BY PoolAssumption, StartupAssumption DEF LastTask

\* What main, the acceptor and the peers do to the pool is a step of it.
LEMMA PoolsOwnStep ==
  ASSUME Started, [StartupNext]_startupVars
  PROVE  PoolStep
<1> USE DEF PoolStep, vars, Started, StartupTypeOK, TypeOK
<1>1. CASE UNCHANGED vars
  BY <1>1
<1>2. CASE MakeSocket \/ MakeThreadThrows \/ acceptConnectionEnds \/ ServingEnds
  BY <1>2 DEF MakeSocket, MakeThreadThrows, acceptConnectionEnds, ServingEnds
<1>3. CASE MakeThread
  BY <1>3 DEF MakeThread, Next, OwnerStep
<1>4. CASE EnqueueNext
  <2>1. nextTask \in Tasks
    BY <1>4, TaskNumbers DEF EnqueueNext, Prepared
  <2> QED
    BY <1>4, <2>1 DEF EnqueueNext, Next
<1>5. CASE ThreadRuns
  BY <1>5 DEF ThreadRuns, Next
<1>6. \/ UNCHANGED vars \/ MakeSocket \/ MakeThreadThrows \/ MakeThread \/ EnqueueNext
      \/ ThreadRuns \/ acceptConnectionEnds \/ ServingEnds
  BY DEF startupVars, StartupNext, MainStep, AcceptStep, Environment, Begin, CreateEvent,
         EventSelect, CreatePort, WaitForEvent, FetchEvents, AcceptPeer, acceptConnection
<1> QED
  BY <1>1, <1>2, <1>3, <1>4, <1>5, <1>6

\* Who fails is who may.
LEMMA FailsType ==
  ASSUME failed \subseteq MayFail, NEW call, Fails(call)
  PROVE  failed' \subseteq MayFail
BY DEF Fails

\* The steps of main.
LEMMA MainStarted ==
  ASSUME Started, MainStep
  PROVE  Started'
<1> USE DEF socketVars, eventVars, acceptVars, mainVars
<1>1. PoolStep
  BY PoolsOwnStep DEF StartupNext
<1>2. Placed'
  BY <1>1, PlacedStep DEF Started
<1> USE DEF Started, StartupTypeOK, Prepared, PeerStates
<1>3. /\ LastTask \in Nat /\ LastTask > 0 /\ nextTask \in Nat
  BY TaskNumbers
<1>4. CASE MakeSocket
  <2>1. /\ failed' \subseteq MayFail /\ wsa' \in BOOLEAN
        /\ mainPc = "socket" /\ mainPc' = "begin"
        /\ UNCHANGED <<nextTask, mCompletionPort, acceptPc, accepting, eventVars, peer,
                       mSocketFileDesc>>
    BY <1>4, FailsType DEF MakeSocket, Construct, ConstructThrows
  <2> QED
    BY <1>2, <1>3, <2>1 DEF Placed
<1>5. CASE MakeThread
  BY <1>2, <1>3, <1>5 DEF MakeThread, Placed
<1>6. CASE MakeThreadThrows
  <2>1. /\ failed' \subseteq MayFail
        /\ mainPc = "begin" /\ mainPc' \in {"begin", "returned"}
        /\ UNCHANGED <<nextTask, mCompletionPort, acceptPc, accepting, eventVars, peer>>
        /\ mSocketFileDesc' \in {"zero", mSocketFileDesc} /\ wsa' \in BOOLEAN
    BY <1>6, FailsType DEF MakeThreadThrows, close
  <2> QED
    BY <1>2, <1>3, <2>1 DEF Placed
<1>7. CASE Begin
  BY <1>2, <1>3, <1>7, FailsType DEF Begin, BeginOk, BeginFails, Placed
<1>8. CASE CreateEvent
  BY <1>2, <1>3, <1>8, FailsType DEF CreateEvent, Placed
<1>9. CASE EventSelect
  BY <1>2, <1>3, <1>9, FailsType DEF EventSelect, WSAEventSelect, Enable, Placed
<1>10. CASE CreatePort
  <2>1. /\ failed' \subseteq MayFail /\ mCompletionPort' \in BOOLEAN
        /\ mainPc = "port" /\ mainPc' = "enqueue"
        /\ UNCHANGED <<nextTask, acceptPc, accepting, eventVars, peer, mSocketFileDesc, wsa>>
    BY <1>10, FailsType DEF CreatePort
  <2> QED
    BY <1>2, <1>3, <2>1 DEF Placed
<1>11. CASE EnqueueNext
  BY <1>2, <1>3, <1>11 DEF EnqueueNext, Placed
<1> QED
  BY <1>4, <1>5, <1>6, <1>7, <1>8, <1>9, <1>10, <1>11 DEF MainStep

\* The steps of getConnections, of the peers and of the other threads.
LEMMA OthersStarted ==
  ASSUME Started,
         AcceptStep \/ ServingEnds \/ Environment \/ ThreadRuns \/ UNCHANGED startupVars
  PROVE  Started'
<1> USE DEF socketVars, eventVars, acceptVars, mainVars, startupVars
<1>1. PoolStep
  BY PoolsOwnStep DEF StartupNext
<1>2. Placed'
  BY <1>1, PlacedStep DEF Started
<1> USE DEF Started, StartupTypeOK, Prepared, PeerStates, PeerGoes, AcceptGoto
<1>3. CASE WaitForEvent
  BY <1>2, <1>3 DEF WaitForEvent, Placed
<1>4. CASE FetchEvents
  <2>1. /\ recorded' = "nothing" /\ signaled' = FALSE
        /\ UNCHANGED <<mSocketFileDesc, wsa, enabled, peer, failed, mainVars, accepting>>
    BY <1>4 DEF FetchEvents, WSAEnumNetworkEvents
  <2>2. acceptPc' \in {"wait", "accept"}
    BY <1>4 DEF FetchEvents
  <2> QED
    BY <1>2, <2>1, <2>2, ZenonT(30) DEF Placed
<1>5. CASE AcceptPeer
  <2>1. enabled' \in BOOLEAN /\ signaled' \in BOOLEAN
        /\ recorded' \in {"nothing", "accept", "error"}
    BY <1>5 DEF AcceptPeer, acceptSocket, acceptSocketThrows, Enable
  <2>2. failed' \subseteq MayFail /\ UNCHANGED <<mainVars, mSocketFileDesc, wsa>>
    BY <1>5, FailsType DEF AcceptPeer, acceptSocket, acceptSocketThrows
  <2>3. CASE \E p \in Peers :
               acceptSocket(p) /\ accepting' = p /\ AcceptGoto("accept", "connect")
    <3>1. PICK p \in Peers :
            acceptSocket(p) /\ accepting' = p /\ AcceptGoto("accept", "connect")
      BY <2>3
    <3>2. acceptPc' = "connect" /\ accepting' = p
          /\ peer' = [peer EXCEPT ![p] = "accepted"]
      BY <3>1 DEF acceptSocket
    <3> QED
      BY <1>2, <2>1, <2>2, <3>2 DEF Placed
  <2>4. CASE acceptSocketThrows /\ AcceptGoto("accept", "wait") /\ UNCHANGED accepting
    BY <1>2, <2>1, <2>2, <2>4 DEF acceptSocketThrows, Placed
  <2> QED
    BY <1>5, <2>3, <2>4 DEF AcceptPeer
<1>6. CASE acceptConnection
  BY <1>2, <1>6, FailsType DEF acceptConnection, OnPort, Placed
<1>7. CASE Environment
  <2>1. /\ failed' \subseteq MayFail
        /\ UNCHANGED <<mainVars, acceptVars, mSocketFileDesc, wsa>>
    BY <1>7, FailsType DEF Environment, NetworkError, Connect, GiveUp
  <2>2. /\ enabled' \in BOOLEAN /\ signaled' \in BOOLEAN
        /\ recorded' \in {"nothing", "accept", "error"}
    BY <1>7 DEF Environment, NetworkError, Connect, GiveUp, Record
  <2>3. peer' \in [Peers -> PeerStates]
    BY <1>7 DEF Environment, NetworkError, Connect, GiveUp
  <2> QED
    BY <1>2, <2>1, <2>2, <2>3 DEF Placed
<1>8. CASE ThreadRuns \/ UNCHANGED startupVars
  BY <1>2, <1>8 DEF ThreadRuns, Placed
<1>9. CASE acceptConnectionEnds \/ ServingEnds
  <2>1. /\ failed' \subseteq MayFail
        /\ UNCHANGED <<mSocketFileDesc, wsa, eventVars, peer, mainVars, acceptVars>>
    BY <1>9, FailsType DEF acceptConnectionEnds, ServingEnds
  <2> QED
    BY <1>2, <2>1 DEF Placed
<1> QED
  BY <1>3, <1>4, <1>5, <1>6, <1>7, <1>8, <1>9 DEF AcceptStep

\* Types in every reachable state.
LEMMA StartedInvariant == StartupSpec => []Started
<1>1. StartupInit => Started
  <2> SUFFICES ASSUME StartupInit PROVE Started
    OBVIOUS
  <2>1. Placed
    BY PlacedInit DEF StartupInit
  <2>2. TypeOK
    BY <2>1 DEF Placed
  <2>3. /\ peer \in [Peers -> PeerStates]
        /\ failed = {} /\ nextTask = 0 /\ mainPc = "socket" /\ acceptPc = "wait"
        /\ accepting = None /\ mCompletionPort = FALSE
        /\ mSocketFileDesc = "zero" /\ wsa = FALSE
        /\ enabled = FALSE /\ recorded = "nothing" /\ signaled = FALSE
    BY DEF StartupInit, SocketInit, PeerStates
  <2>4. nextTask \in 0..(LastTask + 1) /\ nextTask <= LastTask /\ ~(nextTask > 0)
    BY <2>3, TaskNumbers
  <2>5. /\ wsa \in BOOLEAN /\ enabled \in BOOLEAN /\ signaled \in BOOLEAN
        /\ mCompletionPort \in BOOLEAN
    BY <2>3
  <2>6. StartupTypeOK
    BY <2>2, <2>3, <2>4, <2>5 DEF StartupTypeOK
  <2>7. Prepared
    BY <2>3, <2>4 DEF Prepared
  <2> QED
    BY <2>1, <2>6, <2>7 DEF Started
<1>2. Started /\ [StartupNext]_startupVars => Started'
  BY MainStarted, OthersStarted DEF StartupNext
<1> QED
  BY <1>1, <1>2, PTL DEF StartupSpec

\* Every reachable state of the starting server is well typed: in particular
\* main enqueues nothing before the socket listens.
THEOREM StartupTypeCorrect == StartupSpec => []StartupTypeOK
<1>1. Started => StartupTypeOK
  BY DEF Started
<1> QED
  BY <1>1, StartedInvariant, PTL

-----------------------------------------------------------------------------
(* The pool that main uses keeps its promises. *)

\* However the threads interleave with main and the acceptor, each role that
\* listen enqueued waits in the queue or is played by one thread: the server
\* never has two acceptors, or two senders.
THEOREM RolesArePlayedOnce == StartupSpec => []RunOnce
<1>1. Started => RunOnce
  BY PlacedRunsOnce DEF Started
<1> QED
  BY <1>1, StartedInvariant, PTL

\* mFinished changes under no thread of the server.
LEMMA StartupFlagged == StartupSpec => []Flagged
<1>1. StartupInit => Flagged
  BY DEF StartupInit, Init, Flagged
<1>2. Started /\ Flagged /\ [StartupNext]_startupVars => Flagged'
  BY PoolsOwnStep, FlaggedStep DEF Started
<1> QED
  BY <1>1, <1>2, StartedInvariant, PTL DEF StartupSpec

-----------------------------------------------------------------------------
(* Nobody is forgotten. *)

\* Only a thread that took task 0 accepts, and only main enqueues it.
LEMMA BegunInvariant == StartupSpec => []Begun
<1>1. StartupInit => Begun
  BY DEF StartupInit, Init, Begun
<1>2. Started /\ Begun /\ [StartupNext]_startupVars => Begun'
  <2> SUFFICES ASSUME Started, Begun, [StartupNext]_startupVars PROVE Begun'
    OBVIOUS
  <2>1. nextTask \in Nat
    BY TaskNumbers DEF Started, StartupTypeOK
  <2>2. CASE EnqueueNext
    <3>1. /\ enqueued' = enqueued \cup {nextTask} /\ nextTask' = nextTask + 1
          /\ UNCHANGED acceptPc
      BY <2>2 DEF EnqueueNext, EnqueueTask, acceptVars
    <3>2. enqueued \subseteq Int
      BY StartupAssumption, TaskNumbers DEF Started, StartupTypeOK, TypeOK
    <3>3. \A k \in enqueued' : k < nextTask'
      BY <2>1, <3>1, <3>2 DEF Begun
    <3>4. nextTask' # 0
      BY <2>1, <3>1
    <3> QED
      BY <3>3, <3>4 DEF Begun
  <2>3. CASE AcceptStep
    <3>1. PICK t \in Threads : Held(t, 0)
      BY <2>3 DEF AcceptStep, WaitForEvent, FetchEvents, AcceptPeer, acceptConnection,
                  acceptConnectionEnds, Acts, Serves, Held
    <3>2. 0 \in Tasks
      BY TaskNumbers
    <3>3. 0 < nextTask
      BY <3>1, <3>2 DEF Begun, Started, Placed, OnePlace
    <3> QED
      BY <2>3, <3>3 DEF AcceptStep, WaitForEvent, FetchEvents, AcceptPeer, acceptConnection,
         acceptConnectionEnds, Begun, mainVars, vars, taskVars
  <2>4. CASE ~EnqueueNext /\ ~AcceptStep
    <3>1. UNCHANGED <<enqueued, nextTask, acceptPc>>
      BY <2>4 DEF StartupNext, MainStep, MakeSocket, MakeThread, MakeThreadThrows, Begin,
         CreateEvent, EventSelect, CreatePort, StartThread, Constructed, Environment,
         ServingEnds, ThreadRuns, ThreadStep, TestFinished, NextTask, Pop, RunTask, TaskDone, taskVars,
         mainVars, acceptVars, vars, startupVars
    <3> QED
      BY <3>1 DEF Begun
  <2> QED
    BY <2>2, <2>3, <2>4
<1> QED
  BY <1>1, <1>2, StartedInvariant, PTL DEF StartupSpec

\* What changes neither the event nor who waits, where main has come to or the
\* acceptor, leaves the watch as it is.
LEMMA WatchedFrame ==
  ASSUME Watched, UNCHANGED eventVars, Waiting' \subseteq Waiting, Selected' <=> Selected,
         acceptPc' = acceptPc \/ {acceptPc, acceptPc'} \subseteq {"wait", "connect"},
         "network" \in failed => "network" \in failed'
  PROVE  Watched'
BY DEF Watched, eventVars

\* What enabling FD_ACCEPT records keeps the watch, once main has selected it.
LEMMA EnableWatches ==
  ASSUME Watched, Selected', Enable(Waiting'), acceptPc' # "fetch",
         "network" \in failed => "network" \in failed'
  PROVE  Watched'
BY DEF Watched, Enable

\* Fails forgets no other failure.
LEMMA FailsOnly ==
  ASSUME NEW call, Fails(call)
  PROVE  "network" \in failed => "network" \in failed'
BY DEF Fails

\* The steps of main.
LEMMA MainWatches ==
  ASSUME Started, Begun, Watched, MainStep
  PROVE  Watched'
<1> USE DEF socketVars, mainVars, acceptVars
<1>1. nextTask \in Nat
  BY TaskNumbers DEF Started, StartupTypeOK
<1>2. CASE EventSelect /\ mainPc' = "port"
  <2>1. Selected' /\ Enable(Waiting') /\ UNCHANGED failed
    BY <1>2 DEF EventSelect, WSAEventSelect, Waiting, Selected
  <2>2. acceptPc' # "fetch"
    BY <1>2 DEF EventSelect, Started, Prepared, Begun
  <2> QED
    BY <2>1, <2>2, EnableWatches
<1>3. CASE EventSelect /\ mainPc' # "port"
  <2>1. UNCHANGED <<eventVars, peer, nextTask, acceptPc>> /\ Fails("WSAEventSelect")
        /\ mainPc = "select" /\ mainPc' = "spin"
    BY <1>3 DEF EventSelect
  <2> QED
    BY <2>1, FailsOnly, WatchedFrame DEF Waiting, Selected
<1>4. CASE CreatePort
  <2>1. UNCHANGED <<eventVars, peer, nextTask, acceptPc>> /\ mainPc = "port" /\ mainPc' = "enqueue"
        /\ (UNCHANGED failed \/ Fails("port"))
    BY <1>4 DEF CreatePort
  <2> QED
    BY <2>1, FailsOnly, WatchedFrame DEF Waiting, Selected
<1>5. CASE EnqueueNext
  <2>1. UNCHANGED <<eventVars, peer, failed, acceptPc>> /\ mainPc = "enqueue"
        /\ nextTask' = nextTask + 1
    BY <1>5 DEF EnqueueNext
  <2> QED
    BY <1>1, <2>1, WatchedFrame DEF Waiting, Selected
<1>6. CASE MakeSocket \/ MakeThread
  <2>1. UNCHANGED <<eventVars, peer, nextTask, acceptPc>>
        /\ {mainPc, mainPc'} \subseteq {"socket", "begin"}
        /\ (UNCHANGED failed \/ Fails("WSAStartup"))
    BY <1>6 DEF MakeSocket, Construct, ConstructThrows, MakeThread
  <2> QED
    BY <2>1, FailsOnly, WatchedFrame DEF Waiting, Selected
<1>7. CASE MakeThreadThrows
  <2>1. UNCHANGED <<eventVars, peer, nextTask, acceptPc>> /\ Fails("thread")
        /\ {mainPc, mainPc'} \subseteq {"begin", "returned"}
    BY <1>7 DEF MakeThreadThrows, close
  <2> QED
    BY <2>1, FailsOnly, WatchedFrame DEF Waiting, Selected
<1>8. CASE Begin
  <2>1. UNCHANGED <<eventVars, peer, nextTask, acceptPc>>
        /\ {mainPc, mainPc'} \subseteq {"begin", "event", "spin"}
        /\ (UNCHANGED failed \/ \E k \in 1..4 : Fails(BeginCalls[k]))
    BY <1>8 DEF Begin, BeginOk, BeginFails
  <2> QED
    BY <2>1, FailsOnly, WatchedFrame DEF Waiting, Selected
<1>9. CASE CreateEvent
  <2>1. UNCHANGED <<eventVars, peer, nextTask, acceptPc>>
        /\ {mainPc, mainPc'} \subseteq {"event", "select", "spin"}
        /\ (UNCHANGED failed \/ Fails("WSACreateEvent"))
    BY <1>9 DEF CreateEvent
  <2> QED
    BY <2>1, FailsOnly, WatchedFrame DEF Waiting, Selected
<1> QED
  BY <1>2, <1>3, <1>4, <1>5, <1>6, <1>7, <1>8, <1>9 DEF MainStep

\* The steps of getConnections.
LEMMA AcceptorWatches ==
  ASSUME Started, Begun, Watched, AcceptStep
  PROVE  Watched'
<1> USE DEF socketVars, mainVars, acceptVars, AcceptGoto
<1>1. UNCHANGED <<mainPc, nextTask>> /\ (Selected' <=> Selected)
  BY DEF AcceptStep, WaitForEvent, FetchEvents, AcceptPeer, acceptConnection,
         acceptConnectionEnds, Selected
<1>2. CASE WaitForEvent
  BY <1>1, <1>2 DEF WaitForEvent, Watched, Waiting, eventVars
<1>3. CASE FetchEvents
  BY <1>1, <1>3 DEF FetchEvents, WSAEnumNetworkEvents, Watched, Waiting
<1>4. CASE AcceptPeer
  <2>1. Selected'
    <3>1. nextTask # 0
      BY <1>4 DEF AcceptPeer, Begun
    <3> QED
      BY <1>1, <3>1, TaskNumbers DEF Selected, Started, StartupTypeOK
  <2>2. ASSUME NEW p \in Peers, acceptSocket(p), acceptPc' = "connect"
        PROVE  Watched'
    <3>1. Waiting' = Waiting \ {p}
      BY <2>2 DEF acceptSocket, PeerGoes, Waiting, Started, StartupTypeOK, PeerStates
    <3> QED
      BY <2>1, <2>2, <3>1, EnableWatches DEF acceptSocket
  <2>3. CASE acceptSocketThrows /\ acceptPc' = "wait"
    <3>1. Waiting' = Waiting /\ ("network" \in failed => "network" \in failed')
      BY <2>3, FailsOnly DEF acceptSocketThrows, Waiting
    <3> QED
      BY <2>1, <2>3, <3>1, EnableWatches DEF acceptSocketThrows
  <2> QED
    BY <1>4, <2>2, <2>3 DEF AcceptPeer
<1>5. CASE acceptConnection
  <2>1. UNCHANGED eventVars /\ acceptPc = "connect" /\ acceptPc' = "wait"
        /\ (UNCHANGED failed \/ Fails("associate"))
    BY <1>5 DEF acceptConnection
  <2>2. Waiting' \subseteq Waiting
    BY <1>5 DEF acceptConnection, OnPort, PeerGoes, Waiting, Started, StartupTypeOK, PeerStates
  <2> QED
    BY <1>1, <2>1, <2>2, FailsOnly, WatchedFrame
<1>6. CASE acceptConnectionEnds
  <2>1. UNCHANGED <<eventVars, peer, acceptPc>> /\ (Fails("folder") \/ Fails("WSARecv"))
    BY <1>6 DEF acceptConnectionEnds
  <2> QED
    BY <1>1, <2>1, FailsOnly, WatchedFrame DEF Waiting
<1> QED
  BY <1>2, <1>3, <1>4, <1>5, <1>6 DEF AcceptStep

\* The peers and the network.
LEMMA NetworkIsWatched ==
  ASSUME Started, Watched, Environment
  PROVE  Watched'
<1> USE DEF socketVars, mainVars, acceptVars, eventVars
<1>1. UNCHANGED acceptPc /\ (Selected' <=> Selected)
  BY DEF Environment, Selected
<1>2. CASE NetworkError
  <2>1. enabled /\ "network" \in failed'
    BY <1>2 DEF NetworkError, Fails
  <2> QED
    BY <1>1, <2>1 DEF Watched
<1>3. ASSUME NEW p \in Peers, Connect(p)
      PROVE  Watched'
  <2>1. CASE enabled
    BY <1>1, <1>3, <2>1 DEF Connect, Record, Watched
  <2>2. CASE ~enabled
    BY <1>1, <1>3, <2>2 DEF Connect, Record, Watched
  <2> QED
    BY <2>1, <2>2
<1>4. ASSUME NEW p \in Peers, GiveUp(p)
      PROVE  Watched'
  <2>1. Waiting' \subseteq Waiting
    BY <1>4 DEF GiveUp, PeerGoes, Waiting, Started, StartupTypeOK, PeerStates
  <2> QED
    BY <1>1, <1>4, <2>1, WatchedFrame DEF GiveUp
<1> QED
  BY <1>2, <1>3, <1>4 DEF Environment

\* The event keeps watch in every reachable state.
LEMMA WatchedInvariant == StartupSpec => []Watched
<1>1. StartupInit => Watched
  BY DEF StartupInit, SocketInit, Watched, Selected
<1>2. Started /\ Begun /\ Watched /\ [StartupNext]_startupVars => Watched'
  <2> SUFFICES ASSUME Started, Begun, Watched, [StartupNext]_startupVars PROVE Watched'
    OBVIOUS
  <2>1. CASE ThreadRuns \/ UNCHANGED startupVars
    <3>1. UNCHANGED <<eventVars, peer, failed, mainPc, nextTask, acceptPc>>
      BY <2>1 DEF ThreadRuns, startupVars, socketVars, mainVars, acceptVars
    <3> QED
      BY <3>1, WatchedFrame DEF Waiting, Selected
  <2>2. CASE ServingEnds
    <3>1. UNCHANGED <<eventVars, peer, mainPc, nextTask, acceptPc>> /\ Fails("serving")
      BY <2>2 DEF ServingEnds, mainVars, acceptVars
    <3> QED
      BY <3>1, FailsOnly, WatchedFrame DEF Waiting, Selected
  <2> QED
    BY <2>1, <2>2, MainWatches, AcceptorWatches, NetworkIsWatched DEF StartupNext
<1> QED
  BY <1>1, <1>2, StartedInvariant, BegunInvariant, PTL DEF StartupSpec

\* However main, the acceptor, the threads and the peers interleave, a peer that
\* waits on a selected socket is announced by the event, or the acceptor is about
\* to call accept, unless an FD_ACCEPT came with an error code.
LEMMA WaitingIsAnnounced == StartupSpec => []WaitingAnnounced
<1>1. Watched => WaitingAnnounced
  BY DEF Watched, WaitingAnnounced
<1> QED
  BY <1>1, WatchedInvariant, PTL

-----------------------------------------------------------------------------
(* Nobody who was accepted is lost. *)

\* No failure is forgotten, and neither is the port.
LEMMA FailuresStay ==
  ASSUME [StartupNext]_startupVars
  PROVE  failed \subseteq failed' /\ (mCompletionPort = TRUE => mCompletionPort' = TRUE)
<1>1. failed \subseteq failed'
  BY DEF StartupNext, MainStep, MakeSocket, Construct, ConstructThrows, MakeThread,
     MakeThreadThrows, Begin, BeginOk, BeginFails, CreateEvent, EventSelect, WSAEventSelect,
     CreatePort, EnqueueNext, AcceptStep, WaitForEvent, FetchEvents, WSAEnumNetworkEvents,
     AcceptPeer, acceptSocket, acceptSocketThrows, acceptConnection, acceptConnectionEnds,
     ServingEnds, Environment, NetworkError, Connect, GiveUp, ThreadRuns, Fails, socketVars, startupVars
<1>2. mCompletionPort = TRUE => mCompletionPort' = TRUE
  BY DEF StartupNext, MainStep, MakeSocket, MakeThread, MakeThreadThrows, Begin, CreateEvent,
     EventSelect, CreatePort, EnqueueNext, AcceptStep, WaitForEvent, FetchEvents, AcceptPeer,
     acceptConnection, acceptConnectionEnds, ServingEnds, Environment, ThreadRuns, mainVars,
     startupVars
<1> QED
  BY <1>1, <1>2

\* The port was tried by the time that anybody is accepted.
LEMMA PortInvariant == StartupSpec => []PortTried
<1>1. StartupInit => PortTried
  BY DEF StartupInit, PortTried
<1>2. Started /\ PortTried /\ [StartupNext]_startupVars => PortTried'
  <2> SUFFICES ASSUME Started, PortTried, [StartupNext]_startupVars
               PROVE  PortTried'
    OBVIOUS
  <2>1. mCompletionPort \in BOOLEAN
    BY DEF Started, StartupTypeOK
  <2>2. CASE CreatePort
    BY <2>2 DEF CreatePort, Fails, PortTried
  <2>3. CASE ~CreatePort
    <3>1. mainPc' = "enqueue" \/ nextTask' > 0 => mainPc = "enqueue" \/ nextTask > 0
      BY <2>3 DEF StartupNext, MainStep, MakeSocket, MakeThread, MakeThreadThrows, Begin,
         CreateEvent, EventSelect, EnqueueNext, AcceptStep, WaitForEvent, FetchEvents,
         AcceptPeer, acceptConnection, acceptConnectionEnds, ServingEnds, Environment,
         ThreadRuns, mainVars, startupVars
    <3> QED
      BY <2>1, <3>1, FailuresStay DEF PortTried
  <2> QED
    BY <2>2, <2>3
<1> QED
  BY <1>1, <1>2, StartedInvariant, PTL DEF StartupSpec

\* The acceptor has in hand whom it accepted, and nobody else.
LEMMA AcceptorKeeps ==
  ASSUME Started, Begun, PortTried, AcceptedKept, AcceptStep
  PROVE  AcceptedKept'
<1> USE DEF socketVars, mainVars, acceptVars, AcceptGoto
<1>1. failed \subseteq failed' /\ UNCHANGED mCompletionPort
  BY FailuresStay DEF StartupNext, AcceptStep, WaitForEvent, FetchEvents, AcceptPeer,
     acceptConnection, acceptConnectionEnds
<1>2. peer \in [Peers -> PeerStates] /\ accepting \in Peers \cup {None}
  BY DEF Started, StartupTypeOK
<1>3. CASE UNCHANGED peer /\ acceptPc # "connect" /\ acceptPc' # "connect"
  BY <1>1, <1>3 DEF AcceptedKept
<1>4. ASSUME NEW p \in Peers, acceptSocket(p), accepting' = p, AcceptGoto("accept", "connect")
      PROVE  AcceptedKept'
  <2>1. peer[p] = "waiting" /\ peer' = [peer EXCEPT ![p] = "accepted"]
    BY <1>4 DEF acceptSocket, PeerGoes
  <2>2. \A q \in Peers \ {p} : peer'[q] = peer[q] /\ peer[q] # "accepted"
    BY <1>2, <1>4, <2>1 DEF AcceptedKept
  <2>3. peer'[p] = "accepted"
    BY <1>2, <2>1
  <2> QED
    BY <1>1, <1>4, <2>2, <2>3 DEF AcceptedKept
<1>5. CASE acceptConnection
  <2>1. PICK p \in Peers : p = accepting
    BY <1>5 DEF acceptConnection, Started, Prepared
  <2>2. /\ acceptPc = "connect" /\ acceptPc' = "wait"
        /\ peer' = [peer EXCEPT ![p] = peer'[p]]
        /\ \/ peer'[p] = IF mCompletionPort THEN "registered" ELSE "alone"
           \/ peer'[p] = "dropped" /\ "associate" \in failed'
    BY <1>2, <1>5, <2>1 DEF acceptConnection, OnPort, PeerGoes, Fails
  <2>3. mCompletionPort \/ "port" \in failed
    <3>1. nextTask # 0
      BY <2>2 DEF Begun
    <3> QED
      BY <3>1, TaskNumbers DEF PortTried, Started, StartupTypeOK
  <2>4. \A q \in Peers \ {p} : peer'[q] = peer[q] /\ peer[q] # "accepted"
    BY <1>2, <2>1, <2>2 DEF AcceptedKept
  <2> QED
    BY <1>1, <2>2, <2>3, <2>4 DEF AcceptedKept
<1>6. CASE WaitForEvent \/ FetchEvents
  BY <1>3, <1>6 DEF WaitForEvent, FetchEvents, WSAEnumNetworkEvents
<1>7. CASE AcceptPeer
  BY <1>3, <1>4, <1>7 DEF AcceptPeer, acceptSocketThrows
<1>8. CASE acceptConnectionEnds
  BY <1>1, <1>8 DEF acceptConnectionEnds, AcceptedKept
<1> QED
  BY <1>5, <1>6, <1>7, <1>8 DEF AcceptStep

\* A peer that was accepted is in the acceptor's hands until it is served, on the
\* server's port or, if that could not be made, on one that nobody reads; it is
\* dropped only when its own association failed.
LEMMA AcceptedAreServed == StartupSpec => []AcceptedKept
<1>1. StartupInit => AcceptedKept
  BY DEF StartupInit, SocketInit, AcceptedKept
<1>2. Started /\ Begun /\ PortTried /\ AcceptedKept /\ [StartupNext]_startupVars => AcceptedKept'
  <2> SUFFICES ASSUME Started, Begun, PortTried, AcceptedKept, [StartupNext]_startupVars
               PROVE  AcceptedKept'
    OBVIOUS
  <2>1. CASE AcceptStep
    BY <2>1, AcceptorKeeps
  <2>2. CASE ~AcceptStep
    <3>1. UNCHANGED acceptVars
      BY <2>2 DEF StartupNext, MainStep, MakeSocket, MakeThread, MakeThreadThrows, Begin,
         CreateEvent, EventSelect, CreatePort, EnqueueNext, ServingEnds, Environment,
         ThreadRuns, startupVars
    <3>2. ASSUME NEW p \in Peers
          PROVE  \/ peer'[p] = peer[p]
                 \/ peer[p] # "accepted" /\ peer'[p] \in {"waiting", "gone"}
      BY <2>2 DEF StartupNext, MainStep, MakeSocket, Construct, ConstructThrows, MakeThread,
         MakeThreadThrows, close, Begin, BeginOk, BeginFails, CreateEvent, EventSelect,
         WSAEventSelect, CreatePort, EnqueueNext, ServingEnds, Environment, NetworkError,
         Connect, GiveUp, PeerGoes, ThreadRuns, Started, StartupTypeOK, socketVars, startupVars
    <3>3. mCompletionPort \in BOOLEAN
      BY DEF Started, StartupTypeOK
    <3> QED
      BY <3>1, <3>2, <3>3, FailuresStay DEF AcceptedKept, acceptVars
  <2> QED
    BY <2>1, <2>2
<1> QED
  BY <1>1, <1>2, StartedInvariant, BegunInvariant, PortInvariant, PTL DEF StartupSpec

\* From its connect to its registration a peer is in somebody's hands: announced
\* by the event, about to be accepted, or held by the acceptor.
THEOREM NobodyIsForgotten == StartupSpec => []NoPeerForgotten
BY WaitingIsAnnounced, AcceptedAreServed, PTL DEF NoPeerForgotten

-----------------------------------------------------------------------------
(* How the server ends *)

\* Who was accepted stays so, or goes on.
LEMMA WhoCameCame ==
  ASSUME Started, [StartupNext]_startupVars, NEW p \in Peers, Came(p)
  PROVE  Came(p)'
<1>1. peer \in [Peers -> PeerStates]
  BY DEF Started, StartupTypeOK
<1>2. CASE UNCHANGED peer
  BY <1>2 DEF Came
<1>3. ASSUME NEW q \in Peers, PeerGoes(q, "away", "waiting") \/ PeerGoes(q, "waiting", "gone")
                             \/ PeerGoes(q, "waiting", "accepted")
      PROVE  Came(p)'
  BY <1>1, <1>3 DEF Came, PeerGoes
<1>4. CASE acceptConnection
  BY <1>1, <1>4 DEF acceptConnection, OnPort, PeerGoes, Came
<1>5. CASE MainStep \/ ServingEnds \/ ThreadRuns \/ UNCHANGED startupVars
  BY <1>2, <1>5 DEF MainStep, MakeSocket, Construct, ConstructThrows, MakeThread,
     MakeThreadThrows, close, Begin, BeginOk, BeginFails, CreateEvent, EventSelect,
     WSAEventSelect, CreatePort, EnqueueNext, ServingEnds, ThreadRuns, socketVars, startupVars
<1>6. CASE Environment
  BY <1>2, <1>3, <1>6 DEF Environment, NetworkError, Connect, GiveUp
<1>7. CASE WaitForEvent \/ FetchEvents \/ AcceptPeer \/ acceptConnectionEnds
  BY <1>2, <1>3, <1>7 DEF WaitForEvent, FetchEvents, WSAEnumNetworkEvents, AcceptPeer,
     acceptSocket, acceptSocketThrows, acceptConnectionEnds, socketVars
<1> QED
  BY <1>4, <1>5, <1>6, <1>7 DEF StartupNext, AcceptStep

\* The server is ended by an exception of the ServerSocket's constructor, or of a
\* thread's; or by a client that was accepted, in the acceptor or in a thread that
\* serves it.  Nothing else ends it: getConnections catches what accept throws, and
\* no thread calls an empty Task.
THEOREM EndsAreCaused == StartupSpec => []EndsHaveCauses
<1>1. StartupInit => EndsHaveCauses
  BY DEF StartupInit, Init, EndsHaveCauses
<1>2. Started /\ Flagged /\ AcceptedKept /\ EndsHaveCauses /\ [StartupNext]_startupVars
        => EndsHaveCauses'
  <2> SUFFICES ASSUME Started, Flagged, AcceptedKept, EndsHaveCauses,
                      [StartupNext]_startupVars
               PROVE  EndsHaveCauses'
    OBVIOUS
  <2>1. CASE MakeSocket
    BY <2>1, FailuresStay, WhoCameCame DEF MakeSocket, ConstructThrows, Fails, EndsHaveCauses
  <2>2. CASE MakeThreadThrows
    BY <2>2, FailuresStay, WhoCameCame DEF MakeThreadThrows, Fails, EndsHaveCauses
  <2>3. CASE acceptConnectionEnds
    <3>1. PICK p \in Peers : peer[p] = "accepted"
      BY <2>3 DEF acceptConnectionEnds, Started, Prepared, AcceptedKept
    <3>2. Came(p)'
      BY <3>1, WhoCameCame DEF Came
    <3> QED
      BY <2>3, <3>2 DEF acceptConnectionEnds, Fails, EndsHaveCauses
  <2>4. CASE ServingEnds
    <3>1. PICK p \in Peers : peer[p] = "registered"
      BY <2>4 DEF ServingEnds
    <3>2. Came(p)'
      BY <3>1, WhoCameCame DEF Came
    <3> QED
      BY <2>4, <3>2 DEF ServingEnds, Fails, EndsHaveCauses
  <2>5. CASE ~MakeSocket /\ ~MakeThreadThrows /\ ~acceptConnectionEnds /\ ~ServingEnds
    <3>1. terminated' => terminated
      <4>1. CASE ThreadRuns
        BY <4>1 DEF ThreadRuns, Flagged, ThreadStep, TestFinished, NextTask, Pop, RunTask,
           TaskDone, Runs
      <4>2. CASE ~ThreadRuns
        BY <2>5, <4>2 DEF StartupNext, MainStep, MakeThread, Begin, CreateEvent, EventSelect,
           CreatePort, EnqueueNext, StartThread, Constructed, EnqueueTask, Runs, AcceptStep,
           WaitForEvent, FetchEvents, AcceptPeer, acceptConnection, Environment, vars,
           startupVars
      <4> QED
        BY <4>1, <4>2
    <3> QED
      BY <3>1, FailuresStay, WhoCameCame DEF EndsHaveCauses
  <2> QED
    BY <2>1, <2>2, <2>3, <2>4, <2>5
<1> QED
  BY <1>1, <1>2, StartedInvariant, StartupFlagged, AcceptedAreServed, PTL DEF StartupSpec

=============================================================================

# Verification of IOCP_Audio_Server

TLA+ models of the audio server under `src/Server`, the TLC runs that check
them, and proofs that TLAPS checks. The program is a Windows server that
streams WAV files: one thread accepts connections, some threads serve an I/O
completion port, and one thread sends. It is small (about 1900 lines that are
compiled), but nearly every state in it is shared by threads that are not
synchronised, and that is what the models are about.

## The system

| component | state | operations | talks to |
|---|---|---|---|
| `ConcurrentQueue` | `mQueue`, `mMutex`, `mCondVar` | `push`, `pop` (blocking), `size`, `clear` | used by `ThreadPool` (tasks) and by all clients for `mSendQueue` |
| `ThreadPool` | `mTasks`, `mFinished`, `mJobsRemaining`, threads | constructor, `EnqueueTask`, `JoinAll`, the loop `DoTask` | runs the three roles of `ServerManager` |
| `ServerManager` | `mSockets` (key to client), `mClientQueue`, `mSendQueue`, `mSendMutex`, `mSendCondition` | `listen`, `getConnections`/`acceptConnection`, `workerThread`, `removeConnection`, `sendTask` | Winsock, `Client`, the factory |
| `Client` | `mState`, one `OVERLAPPED`, one receive buffer, one send buffer, handlers | `BeginRead`, `BeginSend`, `BeginIOEvent`, `CompleteRead`, `CompleteSend` | kept alive by `shared_ptr`: map, workers, acceptor, sender; queued packets hold a `weak_ptr` |
| `AudioClientHandlerFactory`, `InputHandler`, `Packet` | the handlers of a client | `addHandlerToClient`, the `ReceivedHandler`, `Deserialize`, `listensFor` | called by `CompleteRead`, on a worker thread |
| `AudioServerHandler` | its `FileList` | `requestFile`, `requestFileList` | pushes packets to `mSendQueue` |
| `FileList`, `SongFileConverter`, `Song` | `mFileMap` | `populate`, `indexOf`, `get` | made when a client is accepted, under `mClientQueue` |
| `WavFilePackager` | `mOpenFile`, `mHeader`, `mTotalSize`, `mExtracted` | `openFile`, `getHeader`, `getNextChunk`, `isFileComplete`, `closeFile` | one per request |
| `SettingsHandler`, `Settings` | the `Settings` of a client | `handlePacket` | called by the `ReceivedHandler` |
| `ServerSocket`, `main` | the listening socket, what Winsock has recorded for it | constructor, `begin`, `acceptSocket`, `close` | `main` makes the socket and the manager, calls `listen`, and spins |
| `ClientManager`, `Socket.cpp`, `PacketExtracter` | `mSendQueue` (own or shared), `mIsRunning`, two threads, a descriptor | `start`, `recvTask`, `sendTask`, `closeClient`, the destructors | the earlier design, not in the project file: nothing starts it |
| `Socket.h`, `EventHandler`, `Event`, `ClosingServerHandler`, `AudioClientManagerFactory` | | empty, commented out, without a definition, or unused | |

What is hard in it:

* **The completion port is served by several threads**, and each client has one
  `OVERLAPPED`, one buffer and one `mState` for all of its operations. After its
  first message a client has several receives and perhaps a send pending.
* **Keys are addresses.** A completion outlives its client, and meets whatever
  client was allocated at that address since.
* **`mSockets` is read without its mutex** right after a check that had it.
* **The sender is paced by a condition variable** that any worker notifies, at
  any time, without the mutex, and that is waited for without a predicate.
* **`push` notifies after it unlocks**; `wait` may return spuriously.
* **The pool** starts its threads before anything has initialised the flag they
  read, and its tasks never end.
* **The way to the first client** is a chain of calls each of which may fail, some
  of them untested, and an event that Winsock records once until `accept`.
* **Two counts of one progress** in `WavFilePackager`: the position of the stream
  and `mExtracted`. File contents are arbitrary.
* **Packets come from anybody**: any size, any flags, any split; and they are written
  into a buffer that is being copied.
* **The process ends in many places** for all clients at once, see below.
* **A thread that is blocked has to be woken to end** in the earlier design: one in
  `pop` by an INVALID packet, one in `recv` by its peer.

What makes each component correct: a queue that is a FIFO and loses no wakeup;
a pool that runs each task once and gives each role a thread; an acceptor that
forgets no peer that waits; a manager that
never leaves a registered client without a receive, sends each answer in order
and to nobody else, and ends only for the causes that are known; an audio handler
whose answers are bounded, in order, and end; a dispatcher that handles nothing
stale, stores what was sent, and stays readable; and, in
the earlier design, a manager that ends when its peer leaves.

## The modules

```
FifoQueue  <-- implemented by --  ConcurrentQueue  <-- ConcurrentQueueProofs
CompletionPort <-- Client <-- ServerManager <-- MCServerManager
                                 |  implements ResponseStreams
                                 +-- ServerManagerProofs <-- ServerManagerStreamProofs
ThreadPool <-- MCThreadPool,  ThreadPool <-- ThreadPoolProofs
ThreadPool, ServerSocket <-- Startup,  Startup, ThreadPoolProofs <-- StartupProofs
WavFilePackager <-- FileList <-- AudioServerHandler <-- MCAudioServerHandler
                                    |  implements AnswerSizes
                                    +-- AudioServerHandlerProofs
MessageHandling <-- MCMessageHandling, MessageHandlingProofs
ClientManager <-- ClientManagerProofs
```
(`A <-- B`: B extends A.)

**FifoQueue** is the abstract queue. **ConcurrentQueue** is `ConcurrentQueue.h` one
lock operation per step: `PushLock`, `PushItem`, `PushUnlock`, `PushNotify` and
`PopLock`, `PopWait`, `PopResume`, `PopTake`, `PopReturn`, and `SpuriousWakeup`.
Producers push `MaxPushes` items, consumers pop for ever. `ThreadPool` and
`ServerManager` use the queue as atomic, which is what the refinement justifies.

**CompletionPort** is external: Winsock, the port and the peers, from how the code
calls them. Receives complete with data in any number of bytes, with nothing
when the peer is gone; sends complete in order; peers close or reset.
`Bytes` keeps what the server tells apart: `sizeof(Packet)`, another number, none.
**Client** is the object of `Client.cpp`: `addr` is its address, and so its key;
`mState`, the content of the receive buffer, and whether its handler is set.
**ServerManager** composes both with the three roles of threads. A step is what a
thread does between two points where another can tell the difference:
`acceptConnection` is `Accept`, `AcceptLock`, `AcceptInsert`, `AcceptHandlers`,
`AcceptMark`, `AcceptPost`; `workerThread` is `WorkDequeue`, `WorkCheck`
(`isPtrToClientValid`), `WorkLookup` or `WorkLookupFails` (`mSockets.at`),
`WorkRemoveLock`, `WorkErase`, or `WorkIOEvent`, `WorkQueue` (one packet each),
`WorkMark`, `WorkPost` (twice), `WorkNotify`; `sendTask` is `SendTake`, `SendMark`,
`SendPost`, `SendSleep`, `SendDelete`. A `Client` exists while something holds it
(`Alive`), and its address is free again afterwards (`FreeAddr`). How the process
ended is kept in `crash`, and no step follows. What a request is
answered with is an element of `Responses`. `jobs` and `wire` are history.
**ResponseStreams** is what the manager promises about answers.

**ThreadPool** is `ThreadPool.h`; the uninitialised `mFinished` is any of
`StackGarbage`. **ServerSocket** is `ServerSocket.cpp`, with the event that
`WSAEventSelect` ties to the socket: an FD_ACCEPT is recorded when a peer waits
(`Record`), and not again before `accept` has been called (`Enable`). **Startup**
composes the two with `main` (`MakeSocket`, `MakeThread`, `MakeThreadThrows`), `listen`
(`Begin`, `CreateEvent`, `EventSelect`, `CreatePort`, `EnqueueNext`) and
`getConnections` (`WaitForEvent`, `FetchEvents`, `AcceptPeer`, `acceptConnection`) on
the thread that got its task. Every call may fail once (`MayFail`); `failed` says
which have. Peers connect, wait in the backlog, and may give up before they are
accepted. `acceptConnection` may not come back (`acceptConnectionEnds`: the handler's list
of the folder, or `BeginRead`), and the sender and the workers may end the process
while they have a client (`ServingEnds`): these count as calls that fail, named
`"folder"`, `"WSARecv"` and `"serving"`. That there is a core (`Cores > 0`) is what Microsoft's
`hardware_concurrency` gives: it asks the system for its processors, and does not
return the 0 that the standard allows. With 0 the pool would have no thread.

**WavFilePackager** models the stream and the two counts, with `size_t` modulo
`SizeMod`; a byte is its offset. **FileList** is what `populate` makes of an entry of
the folder, with `SongFileConverter`, and `indexOf`; a file name is the sequence of
its words between underscores, some of which are too long for a name (`LongNames`).
**AudioServerHandler** is the constructor, one entry per step (`Populate`), which may end
the process (`EndsProcess`), and `handlePacket` with both requests, one packet per
step; the song of a TRACK request is copied first, which may end it too. It is sequential: one worker runs it to
its end, and each request has its own packager. **AnswerSizes** is what it
promises: the packets of an answer, their number and their sizes, are fixed when
the request is taken up. The `Responses` of `ServerManager` are such answers, each
packet `"whole"` or `"part"`. **MessageHandling** is the way of a message from the
receive buffer to the handlers of one client, by several workers. A message is a
sequence of bytes, whole or cut off: two of its size, two of its type, and the data
(a `Type` is the set of its bits). Receives that pend together write into the one
buffer (`FillBegin`, `FillEnd`), each from the front and as far as its message goes, while
workers copy it (`CopyBegin`, `CopyEnd`). In what order the kernel writes and `memcpy`
reads is not known, so that a byte of the buffer, or of a copy, is the *set* of the
values that a look at it may give: while the kernel writes, the old and the new one;
in a copy, all that were there between its begin and its end. A value is chosen where
the code looks: at size and type in `DeserializePacket`, at each character in `AssignChar`.
That covers every order of single bytes, at two steps for each of the two. Then come
the audio handler (`AudioHandler`; `SongRunsOn` when the copy of the Song finds no NUL),
and `Settings::operator=` (`AssignChar`, `FillChar` for the filling of a debug build behind
the NUL, `AssignFlag`), character by character, so that two workers can mix two names.

**ClientManager** is the earlier design, which is in the repository and not in the project
file, so that no build contains it; what is shown of it is of use to who takes it up
again. It is `ClientManager.cpp` with the `Socket` of
`Socket.cpp`, which it was written for (`Socket.h` has been rewritten since). Each
connection has a manager with two threads: `start` is `Start`, `JoinReceive` (which
pushes the INVALID packet), `JoinSend` (with `closeClient`); `recvTask` is
`TestReceive` and `ReadMessage`, `ReadEnd` or `ReadThrows`; `sendTask` is `TestSend`,
`Pop`, and `Send` or `SendThrows`. `table` is what the system has behind each
descriptor, so that `closesocket` closes whatever is there. The managers' queues
are their own or shared, as the two constructors allow. That a manager is made
for an accepted connection, and destroyed some time after `start` returned, is how
its comments describe its use. `Socket::read` returns nothing when `recv` returns 0, and
`recvTask` takes as `msgSize` what is left in the register: `Garbage`, 0 or not, anew in
each round.

### How the process ends

| where | when | in the models |
|---|---|---|
| `main` | `WSAStartup` fails; a thread of the pool cannot be made after another was | `MakeSocket`, `MakeThreadThrows` |
| `ServerManager.cpp:184` | `mSockets.at` misses a key that was found before | `WorkLookupFails`, `"missing"` |
| `ServerManager.cpp:184` | another thread is inside the map (undefined behaviour, taken as a possible end) | `WorkLookupFails`, `"race"` |
| `Client.cpp:48`, `78` | `DebugBreak`: `WSARecv` or `WSASend` fails at once, for a connection that was reset or for want of resources | `"break"`: wherever a thread posts (`Posting`); `"WSARecv"` and `"serving"` in Startup |
| `Client.cpp:86` | `CompleteSend` copies the data of a send that `sendTask` has freed | `"freed"` (`ReadsFreed`) |
| `SongFileConverter.h:28` | the rates of a file multiply to less than 8, or wrap to it: a division by zero, while a client is accepted | `EndsProcess`; `"abort"`, `"folder"` |
| `Song.h:39`, at `FileList.h:107` | a file name of 64 or more characters: `strcpy_s` gets the length of its source, and `strncpy_s` finds no NUL in the 64 characters of the copy | `EndsProcess`; `"abort"`, `"folder"` |
| `Song.h:39`, at `AudioServerHandler.cpp:29` | a TRACK request with a name without NUL | `HandleTrack`, `SongRunsOn`; `"abort"`, `"serving"` |
| `Settings.h:22` | a SETTINGS message whose ShareName has no NUL | `AssignChar`; `"abort"`, `"serving"` |

`catch` does not help in any of them: the last four and `DebugBreak` raise no C++
exception, and those of `main` and `mSockets.at` pass no handler. An empty `Task`, which
would throw, is never called (`NoEmptyTask`).

Definitions called "faulty variant" are slips a programmer could make; no
specification uses them. Substituted for the definition they follow, each makes
the property fail that is meant to catch it.

## The runs

| run | what it shows | bounds, and why they are enough |
|---|---|---|
| `ConcurrentQueue` | types; `LockDiscipline`; `NoLostWakeup`; `ImplementsFifo` (with liveness) | 2 producers with 2 pushes, 2 consumers: both consumers asleep while two pushes are between unlock and notify. Deadlock is allowed: consumers wait when no more is pushed |
| `ServerManagerReuse` | types; `NeverDeaf`; `CrashCause`; `RemovalCause`; `RightBranch`; `ImplementsStreams` | 2 connections, 2 addresses, 2 workers, one request, one completed send, close and reset: both clients at once, or the second at the address of the first with stale completions queued |
| `ServerManagerLoad` | `AnswersInOrder` with two answers interleaved; `SenderWoken` | 1 connection, 2 workers, 2 requests, 1 completed send, spurious wakeups |
| `ThreadPool` | types; `RunOnce`; `NoEmptyTask`; `TasksComplete` | pools of 0, 1 and 2 threads, 2 tasks that return and one that does not, both values of `mFinished`, `JoinAll` at any time |
| `Startup` | types; `EndsHaveCauses`; `NoPeerForgotten` (`WaitingAnnounced` and `AcceptedKept`); `RolesFilled`; `PeersServed` | 3 cores, the fewest with two workers; 2 peers, so that one waits while the other is accepted; each of the 15 calls (`MayFail`) may fail once, in any combination. Threads of the pool without a task move in order, as what they do is seen by nobody (`ThreadRuns`; the run `ThreadPool` has every order). The server waits when every thread serves or pops |
| `AudioServerHandler` | types; `ListIsWhole`; `StreamMatchesCount`; `PacketSizes`; `DataInOrder`; `SongsInOrder`; `SongsAreDistinct`; `EachStepCounts`; `AnswerEnds`; `ImplementsAnswers` (with liveness) | header 2, packet 5, song 2, `size_t` modulo 20 (a multiple of the packet, as 2^32 is): files of 0 to 19 declared bytes meet every case below, at and above a packet boundary and those whose count wraps (18 and 19), of which `MaxPackets` = 8 packets are followed; folders of up to 5 songs fill more than two packets; rates below, at and above 8 and `DwordMod`; a song name, an artist and a request with a name that is too long. The process really ends there |
| `ClientManager` | types; `PillWakesSender`; `StaysConnected`; `OrderedOnWire`; `StartReturns` | 2 connections and 2 descriptors: both at once, or the second with the descriptor of the first before that is destroyed; queues shared or not; 2 packets to any two queues together; 1 message waiting. The case that `Crossed` names needs 3 connections; with 3 and one descriptor (22 million states) the invariants, and the inductive invariant of the proofs, hold as well |
| `MessageHandling` | types; `NothingStale`; `SettingsWereSent`; `StaysReadable` | 2 workers, 3 messages out of 9 kinds: a first one, after which two receives pend, and two that race. Names of 2 characters (one that can be the NUL, one that can be missing), a Settings of 4 bytes, a Song of 5; whole messages with and without a NUL, with two flags, a negative size, size 0, and the first 1 and 5 bytes of one. Messages stop, and the process may end |

Four runs show where the code does not do what its comments say
(each ends with the violation of its one property):

| run | property | what happens |
|---|---|---|
| `LostNotify` | `QueueDrained` (`ServerManager.h:78`) | the worker's notification comes between `WSASend` and `wait`; with no further completion the sender sleeps for ever with packets queued |
| `EarlyDelete` | `SentBeforeDelete` (`ServerManager.cpp:48`) | a notification for something else makes `sendTask` free the data of a pending send |
| `FirstBytesLost` | `CompleteFileWasRead` (`WavFilePackager.cpp:19`, `89`) | `getHeader` reads the header from the stream once more, so that the first 44 bytes of data are in no chunk when the file counts as completely read; the header covers them in the buffer |
| `JoinNeverReturns` | `JoinAllReturns` (`ThreadPool.h:82`) | every task has completed, and `JoinAll` waits for threads that wait in `pop`, or for the flag that it sets after them; the pool of the run has no endless task |

### Other disagreements

The models do what the code does; where that is not what a reader of the code would
expect, the cause is in the conclusion of a property that holds, or is only listed
here:

* `mSockets.at` outside of the mutex (`CrashCause`): a missing key needs a peer that
  left; the data race needs that, or a second client that is being registered.
* A stale completion removes the connected client that got the address
  (`RemovalCause`; `ServerManagerReuse` reaches it).
* A client that was sent something may have its completions taken for the wrong
  operation (`RightBranch` ends where that begins).
* No worker on one or two cores, although `ServerManager.cpp:23` gives "the rest" to I/O
  (`RolesFilled`).
* An untested `CreateIoCompletionPort` leaves every client without a worker, and an
  FD_ACCEPT with an error code leaves the acceptor deaf (`NoPeerForgotten`, `PeersServed`).
* `FileList.h:107` forgets the separator: the stored path is `mFileLoc + fileName`, beside the
  folder (`Path`), although the converter opened `mFileLoc + '\\' + fileName`. A listed song is
  answered only if there is a file of that name; else nothing is sent.
* `FileList.h:70` leaves `res` uninitialised: for a song that is not listed `indexOf` returns
  any value, and `requestFile` may send another file (`AudioServerHandler.cpp:49` says "If
  we've found the file."). The answer still has its size and its end.
* `getNextChunk` returns "The size of the written buffer" (`WavFilePackager.cpp:95`), but
  counts what it meant to read: a file shorter than it declares is padded with whatever
  was in the buffer (`valid` is what was read; `ImplementsAnswers` fixes the sizes).
* `AudioServerHandler.cpp:43` calls Song trivially copyable; its copy constructor is what
  ends the process.
* `Deserialize` tests the member `type` in place of `datatype` (`Packet.h:84`), so that any
  positive type passes; only the `switch` of the audio handler keeps it from being
  answered, and a settings handler takes a type with any other flag beside its own.
* A receive of some bytes overwrites only the front of the buffer: a packet may have the
  size of one message, the type of another, and data of both. `NothingStale` is what
  remains true: none of it is older than the message that woke the worker.
* A ShareName may be stored that nobody sent, from the characters of two
  (`SettingsWereSent` speaks of each).
* On Win32 the answer for a file that declares more than 2^32 - 980 bytes does not end
  (`Wraps`); on x64 no header can declare that much.
* In `ClientManager` the INVALID packet may be taken by another manager with the same
  queue, and for this one nothing is promised (`Shared`, in `PillWakesSender` and
  `StartReturns`); `start` may not return when `read` gives garbage other than 0 for a
  closed connection again and again, as nothing stops `recvTask` then (`[]<>Misreads`; once
  is not enough, since `msgSize` begins at 0 in each round); and the destructor closes a
  descriptor for the second time (`StaysConnected`).

**Fairness.** A thread that can run does (WF per thread), and a thread that asks
for a mutex again and again gets it (SF on the locking steps; the runtime's mutex
queues its waiters). In `ServerManager` a posted send completes. In `ClientManager` a `send` returns; it
could block for a peer that does not read, but its one liveness property is about
peers that have left. Peers owe
nothing: they need not connect, send, read, close. No push, `EnqueueTask`, `JoinAll` or
request has to happen, and no wakeup has to be spurious.

## Proofs

**ConcurrentQueueProofs** (all sets of threads, all numbers of pushes).
`TypeCorrect`: `TypeOK` with `PushInProgress`, which bounds `pushed` where an item is
named. `MutexProtectsQueue`: `LockDiscipline` is inductive with `TypeOK`: a thread in a
critical section holds `mMutex`, so at most one is. `WakeupsAreNotLost`: a
consumer enters `waiting` only with an empty queue under the mutex; the queue
becomes non-empty in `PushItem` only, which leaves its producer on the way to
`notify_all`; a second producer's `PushNotify` empties `waiting`. `FifoRefinement`: by
the invariant `PushItem` is the abstract `Push` (a push is left), `PopTake` the
abstract `Pop`, every other step a stutter.

**ServerManagerProofs** (all sets of connections, addresses and workers, all
answers, any number of deliveries and completed sends). Everything rests on two
facts that `TypeOK` needs to be inductive: `InHand`, what each thread holds where
it is, and `Addressed`, that whatever is worked on has a `Client` with an address
and is registered under no other. `TypeCorrect` follows from the conjunction of the
three, `Typed`. Three more invariants build on it. `Origins`: a completion's key is the address of
its connection's client, one without bytes comes from a departed peer, and a
worker that removes a client holds one of those with that client's address.
`MapGuarded`: the map changes only under `mClientQueue`, and the slot of a client
about to be registered is free, because the allocator gave out the address only
after the last client there, and with it the map's reference, was gone. `Lookups`:
while no peer has left, a key found is found again. Then:

* `CrashesHaveCauses`: `mSockets.at` can miss only after a `WorkErase`, which by
  `Origins` needs a departed peer. The data race needs somebody inside the map while
  a worker has found a key: the acceptor, which registers a second client, because
  before the first `BeginRead` of the only one there is nothing for a worker
  (`FreshInvariant`); or a worker that erases.
* `RemovalsHaveCauses`: a client leaves the map in `WorkErase` alone
  (`RegisteredStays`); the completion that led there comes from a departed
  connection at the same address, which is another one if this peer is open.
* `NoClientGoesDeaf`: each step that takes away one form of attention (a posted
  receive, a queued completion, a worker) puts the next one in its place, or
  erases the client; `AttendedWork` goes through the steps of a worker.

They say nothing of liveness, nor of the ends that no interleaving is needed for
(`"break"`, `"abort"`, `"freed"`), which are possible wherever their step is.

**ServerManagerStreamProofs** (under the same assumptions). `AnswersReachTheWire`: the
manager implements `ResponseStreams`, which has no fairness, so that this is the
whole of `ImplementsStreams`. A step has to be one abstract step, so at most one
`Client` may die in it: by `Lives`, two living clients have two addresses, and what
dies in a step is what the acceptor, `sendTask` or a worker had in hand. A `Send` is
allowed only when the packets before it were sent; that is where `InOrder` is
needed, which says of each packet where the ones before it are: `QueueInOrder` (on
the wire, with `sendTask`, or ahead in the queue), `NextInHand` (for the one
`sendTask` holds, on the wire) and `OwnJob` (a worker's answer is its own; what it
has queued is somewhere, the rest nowhere). The exception in `QueueInOrder` is a
destroyed client, whose packets `sendTask` drops, and never revives.
`PeersGetAnswersInOrder` is what a peer sees of it, `AnswersInOrder`: by `NextInHand` the
numbers before the new packet's are on the wire, and no higher one is, because that
one could only have followed it.
`BranchesMatch`: by `ReadsMarked` every receive of a client that was not sent
anything, wherever it is, finds `mState` at `READ`, and no send of it pends.

**ThreadPoolProofs** (any `Sizes`, `Tasks`, `Endless`, `MaxThreads`). `TasksRunOnce` counts
in `Cardinality`; what is inductive is `OnePlace`, which says the same place by
place, with `Handed`: a thread has no task but while it runs it.
`NoEmptyTaskIsCalled` and `JoinBlocks` both rest on `Flagged`: a thread that is between the two tests has seen `mFinished` FALSE,
one that has exited has seen it TRUE, and the only writer, `JoinAll`, writes after all
have exited. So it waits for what it
alone could bring about: `JoinBlocks` says, for pools of every size, what the run
`JoinNeverReturns` finds in one.

**StartupProofs** (any number of cores, any peers, any set of calls that may fail).
`Prepared` orders the calls of `main`, and `Begun` says that nobody accepts before task
0 was enqueued, from `OnePlace` of the pool: every step of `Startup` is one of the
pool. `NobodyIsForgotten` has two halves. `WaitingIsAnnounced`: an FD_ACCEPT is
recorded once and not again until `accept`, so a peer that comes meanwhile leaves no trace of its own. `Watched` says
what stands for it: `enabled` with nobody waiting, `signaled`, or the acceptor at
`accept`, and that `signaled` and `recorded` agree until an error code comes.
`AcceptedAreServed`: the port is made or has failed before the acceptor's task is in
the queue (`PortTried`), and a call that has failed stays so (`FailuresStay`).
`RolesArePlayedOnce` is `RunOnce` of the composition: `Startup` enqueues its roles one by
one while the threads pop, and `Placed` of the pool is an invariant of it too
(`PlacedRunsOnce`). `EndsAreCaused` needs `Flagged` again: the exceptions of
`accept` are caught, and no thread calls an empty task (`StartupFlagged`); so before a
peer was accepted only `main`'s own call or a constructor of a thread ends the
process. Afterwards it can end through the acceptor, which holds such a peer, or
through who serves one that is registered.

**AudioServerHandlerProofs** (any folders, files, songs and sizes). The invariant
`HandlerInv` has, next to the properties, `Listing` (the first entries of the folder
have become the first songs of the list, one by one: `ListMade`), `Packing`, and
`Sending`. The last relates the four numbers that a file's answer has: the packets in
`out`, `mExtracted`, `mTotalSize` and the position of the stream. `mExtracted` is the
header and a full packet for each data packet, or `mTotalSize` after the last one
(`Counted`); the stream is where the last packet's bytes end. `Sending` also covers
the files whose count starts again: there `mExtracted` keeps its remainder modulo
the packet (`size_t` is a multiple of it), so that it never gets past `LastCount`, and
each packet is full. Without that the difference of `mTotalSize` and `mExtracted`
might wrap, and `PacketSizes` would not be inductive. `AnswersAreAsPlanned` is the safety part of
`ImplementsAnswers`, step by step, from `Plans` and the closed form of `FileAnswer`
(`FileAnswerShape`). `NoLoopIsIdle` is the safety half of `AnswerEnds`: each step takes at
least one off `StepsLeft`, which is a natural number before and after it. `Sending`
gives what is needed: while a file is not complete a chunk is not empty and not
more than what is left (`ChunkCounts`). What TLC adds is that the worker takes its
steps. Assumed of the constants: a song and a header fit in a packet,
which the code's sizes do (44 of 1024 bytes); a packet divides `SizeMod`, as 1024
does 2^32 and 2^64; and `NoFile` is no file.

**MessageHandlingProofs** (any workers, any messages and parts of them, names and packets
of any size). `FreshSince` says of the buffer, or of a copy, that no value that a look at
it may give is older than a message that came whole. It holds of the buffer for
every completed receive (`OfKernel`), because a receive writes all of a whole message,
and what comes later is newer; and of a copy for the receive its worker was woken
for, while the kernel goes on writing (`OfWorker`). `NoHandlerSeesStaleBytes` is what is left
of that when the Packet is made, where `DeserializedFacts` says which bytes it has.
`OnlySentSettingsAreKept` follows byte by byte, once it is known that the Packet of who
assigns has all the bytes of a Settings; for the NUL at the end it needs where in
the name each worker is (`at`).

**ClientManagerProofs** (any number of connections, descriptors and packets, queues
shared in any way). `ManagerInv` has five parts. `Types`; `Stages`, where the threads of
a manager can be together; with them `PillWakesSender` is inductive: the receiver
has seen `mIsRunning` FALSE, nobody sets it again, and the one `Pop` that empties the
queue after JoinReceive is the sender's own, or that of another manager with the
queue. `Owned`: what is behind a descriptor has it, and a manager lost what was
behind its own only if one that had it before was destroyed; a descriptor that two
hold was closed twice (`TwoAtOne`). For `PacketsLeaveInOrder`: `Numbered` (a queue is in
the order of its pushes), `TakenEarlier` (what has left a queue was pushed before what
is in it), and from them `Once`, `InOrder` and `NoneSkipped`. The last says where each
packet is that was pushed: on the wire, held, or queued, as long as the sender
`GoesOn`; a sender that stops may lose what it holds, and what is queued. That a
packet goes to another connection needs three managers with one descriptor
(`Misdirected`), and this is what `Crossed` excludes.

All of them start from `SafeSpec` (`StartupSpec`), without fairness. The invariants were
checked with TLC on the instances of the runs before they were proved.

Only model-checked: every property under fairness (`ImplementsFifo`'s and
`ImplementsAnswers`' liveness parts, `SenderWoken`, `TasksComplete`, `RolesFilled`,
`PeersServed`, `AnswerEnds`, `StartReturns`, `StaysReadable`), which is out of the
prover's reach. Every invariant, every action property and every refinement that a
passing run checks is proved.

## Not modelled

* What the kernel writes to the memory of a freed `Client` or to freed data: the
  models follow keys, counts and order, not the heap. That `CompleteSend` reads freed
  data is modelled as a possible end of the process (`ReadsFreed`).
* What else an overflow of `strcpy_s` may do before the copy of the Song ends the process.
* The contents of WAV headers and songs beyond what the code compares.
* `ConcurrentQueue::size`, `FileList::clear` (never called), and
  `ConcurrentQueue::clear`, `FileList::getFileName`, `getFullFilePath` (do not compile
  when instantiated).
* The text of an error: `"..." + WSAGetLastError()` moves a pointer, and what is
  read behind the literal is taken to be text; so a failing Winsock call ends in
  the exception it is meant to end in.
* `ServerSocket` and `Socket` count their WSAStartup and WSACleanup in pairs; only
  the one of `ServerSocket` is modelled.
* A send queue that is gone (`mConQueue.lock()` in the handler): the manager that
  owns it lives as long as the process.
* The bytes of a packet in `ClientManager`: its `sendTask` does not count `id` in
  `packetSize`, so that the last four bytes are cut off; what `extractPacket` makes
  of a message is dropped. `mInputHandlers` is only read there, and the constructor of
  a thread is taken to succeed (in `Startup` it is not).
* The layout on the wire: `sendTask` sends a `Packet` as it lies in memory, with
  `type` before `id`, and `Deserialize` reads `id` before `type`. The peer that is meant
  to know this is not in the repository.
* `Socket.h` (its `send` and `close` are empty, and `read` is gone), `EventHandler` and
  `Event` (commented out); `ClosingServerHandler` (declared only);
  `AudioClientManagerFactory` (used nowhere, and `AudioServerHandler` no longer has the
  constructor it calls).

## Plan

Done: the queue and its proofs; the manager with its kernel and clients, and the
proofs of its invariants; the pool; the way from `main` to the first client; the
audio handler with list and packager, from its construction on; the dispatch; the
earlier design. What is left of the code is listed above.

A composition of `MessageHandling` with `AudioServerHandler` was considered and left
out: a handler's list does not change after construction and each request has its
own packager, so requests meet in the send queue only, where `ServerManager` has
them (`ImplementsStreams`), with answers of the shape `ImplementsAnswers` gives.

Done as well: the theorems about what the runs check, with what the abstract
specifications give a peer (`AnswersInOrder`) and a worker (`EachStepCounts`). When
`sendTask` comes to wait for its own send, `SentBeforeDelete` and `QueueDrained` are to
be moved from the runs that find them violated to `ServerManagerLoad`.

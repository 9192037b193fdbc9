------------------------- MODULE AudioServerHandler -------------------------
(***************************************************************************)
(* src/Server/AudioServerHandler.cpp: how a request becomes the packets of *)
(* an answer.  One worker thread runs handlePacket to its end; a handler   *)
(* belongs to one client and makes its own packager for each request.      *)
(* Its list of songs is the one FileList makes when it is constructed,     *)
(* which the acceptor does for every client it accepts.                    *)
(***************************************************************************)
EXTENDS FileList, FiniteSets

CONSTANTS
  Songs,           \* the songs peers may ask for, listed or not
  NoSong,          \* none has been asked for
  Disks,           \* the music folders a handler may find, see IsDisk
  IndexGarbage,    \* what indexOf's uninitialised res may hold
  SongSize,        \* sizeof(Song), 132
  MaxPacketSize,   \* Packet::maxPacketSize, 1024
  MaxPackets       \* bound: the packets of an answer that does not end

(***************************************************************************)
(* The entries of the music folder, and what a path beside it leads to:    *)
(* usually nothing.                                                        *)
(***************************************************************************)
IsDisk(d) ==
  /\ d.folder \in Seq(FolderEntry)
  /\ \A k \in DOMAIN d.folder :
       /\ d.beside[d.folder[k].name] \in File(0..(SizeMod - 1))
       /\ \A j \in DOMAIN d.folder : d.folder[j].name = d.folder[k].name => j = k

ASSUME HandlerAssumption ==
  /\ \A d \in Disks : IsDisk(d)
  /\ Songs \subseteq Song /\ NoSong \notin Song
  /\ IndexGarbage \subseteq Int
  /\ SongSize \in Nat \ {0} /\ MaxPacketSize \in Nat \ {0}
  /\ SongSize <= MaxPacketSize /\ HeaderSize <= MaxPacketSize
  /\ MaxPacketSize < SizeMod /\ SizeMod % MaxPacketSize = 0
  /\ MaxPackets \in Nat

VARIABLES
  disk,      \* the music folder
  fileList,  \* the handler's list
  pc,
  asked,     \* the song of the last TRACK request
  index,     \* what indexOf returned
  i, held,   \* populate, requestFileList: the loop's position, the songs in
             \* byteArray
  out        \* the packets queued for the request at work, in order

handlerVars == <<disk, fileList, pc, asked, index, i, held, out>>

vars == <<packagerVars, handlerVars>>

Packets ==
  [kind: {"header"}, size: {HeaderSize}]
    \cup [kind: {"data"}, size: Nat, from: Nat, valid: Nat]
    \cup [kind: {"list"}, size: Nat, songs: Seq(Song)]

push(p) == out' = Append(out, p)

Used == SongSize * Len(held)

\* What is found at a path.
Behind(path) == disk.beside[path.name]

\* Faulty variants of the steps below, one slip each; no specification here
\* uses them.

\* the song that does not fit in the packet is forgotten
PackSongSkips ==
  /\ pc = "pack" /\ i <= Len(fileList)
  /\ i' = i + 1
  /\ IF Used + SongSize > MaxPacketSize
       THEN held' = <<>> /\ push([kind |-> "list", size |-> Used, songs |-> held])
       ELSE held' = Append(held, fileList[i].song) /\ UNCHANGED out
  /\ UNCHANGED <<packagerVars, disk, fileList, pc, asked, index>>

\* the test for room forgets the song to come
PackSongLate ==
  /\ pc = "pack" /\ i <= Len(fileList)
  /\ i' = i + 1
  /\ IF Used > MaxPacketSize
       THEN /\ held' = <<fileList[i].song>>
            /\ push([kind |-> "list", size |-> Used, songs |-> held])
       ELSE held' = Append(held, fileList[i].song) /\ UNCHANGED out
  /\ UNCHANGED <<packagerVars, disk, fileList, pc, asked, index>>

\* requestFile does not ask isFileOpen
OpenUnchecked ==
  /\ pc = "open" /\ pc' = "header"
  /\ index \in 0..(Len(fileList) - 1)
  /\ openFile(Behind(fileList[index + 1].path))
  /\ UNCHANGED <<disk, fileList, asked, index, i, held, out>>

\* indexOf is asked again until it finds the song
IndexOfAgain ==
  /\ pc = "find"
  /\ pc' = IF \E e \in Range(fileList) : e.song = asked THEN "open" ELSE "find"
  /\ index' \in indexOf(fileList, asked, IndexGarbage)
  /\ UNCHANGED <<packagerVars, disk, fileList, asked, i, held, out>>

\* the folder is read up to the first entry that is no song
PopulateStops ==
  /\ pc = "populate" /\ i <= Len(disk.folder)
  /\ LET e == disk.folder[i]
     IN /\ pc' = IF EndsProcess(e) THEN "ended" ELSE "populate"
        /\ i' = IF Listed(e) THEN i + 1 ELSE Len(disk.folder) + 1
        /\ fileList' = IF Listed(e) /\ pc' = "populate"
                         THEN Append(fileList, EntryOf(e)) ELSE fileList
  /\ UNCHANGED <<packagerVars, disk, asked, index, held, out>>

-----------------------------------------------------------------------------
(* The constructor: populate of FileList *)

\* one round of its loop: getClassFromFile may end the process, and so may the
\* copy of the Song it has made
Populate ==
  /\ pc = "populate" /\ i <= Len(disk.folder)
  /\ LET e == disk.folder[i]
     IN /\ pc' = IF EndsProcess(e) THEN "ended" ELSE "populate"
        /\ fileList' = IF Listed(e) /\ pc' = "populate"
                         THEN Append(fileList, EntryOf(e)) ELSE fileList
  /\ i' = i + 1
  /\ UNCHANGED <<packagerVars, disk, asked, index, held, out>>

Constructed ==
  /\ pc = "populate" /\ pc' = "idle"
  /\ i > Len(disk.folder)
  /\ UNCHANGED <<packagerVars, disk, fileList, asked, index, i, held, out>>

-----------------------------------------------------------------------------
(* handlePacket *)

\* A TRACK packet whose size is not sizeof(Song) is ignored, and so is any
\* type but TRACK and FILELIST: nothing happens.  The Song is passed to
\* requestFile by value.
HandleTrack(song) ==
  /\ pc = "idle" /\ pc' = IF Terminated(song) THEN "find" ELSE "ended"
  /\ asked' = song
  /\ out' = <<>>
  /\ UNCHANGED <<packagerVars, disk, fileList, index, i, held>>

HandleFileList ==
  /\ pc = "idle" /\ pc' = "pack"
  /\ out' = <<>>
  /\ i' = 1 /\ held' = <<>>
  /\ UNCHANGED <<packagerVars, disk, fileList, asked, index>>

-----------------------------------------------------------------------------
(* requestFile *)

\* FileList::indexOf
IndexOf ==
  /\ pc = "find" /\ pc' = "open"
  /\ index' \in indexOf(fileList, asked, IndexGarbage)
  /\ UNCHANGED <<packagerVars, disk, fileList, asked, i, held, out>>

\* if (index > -1) ... get().at(index), whose exception ends the handler
NotFound ==
  /\ pc = "open" /\ pc' = "idle"
  /\ index < 0 \/ index >= Len(fileList)
  /\ UNCHANGED <<packagerVars, disk, fileList, asked, index, i, held, out>>

\* packager.openFile, and isFileOpen in place of its result
Open ==
  /\ pc = "open"
  /\ index \in 0..(Len(fileList) - 1)
  /\ openFile(Behind(fileList[index + 1].path))
  /\ pc' = IF Behind(fileList[index + 1].path).opens THEN "header" ELSE "idle"
  /\ UNCHANGED <<disk, fileList, asked, index, i, held, out>>

SendHeader ==
  /\ pc = "header" /\ pc' = "chunk"
  /\ getHeader
  /\ push([kind |-> "header", size |-> HeaderSize])
  /\ UNCHANGED <<disk, fileList, asked, index, i, held>>

\* one round of while (!packager.isFileComplete())
SendChunk ==
  LET n == CalculatedRead(MaxPacketSize)
  IN /\ pc = "chunk" /\ ~isFileComplete
     /\ Len(out) < MaxPackets
     /\ getNextChunk(MaxPacketSize)
     /\ push([kind |-> "data", size |-> n, from |-> mOpenFile.pos,
              valid |-> Taken(mOpenFile, n)])
     /\ UNCHANGED <<disk, fileList, pc, asked, index, i, held>>

CloseFile ==
  /\ pc = "chunk" /\ isFileComplete
  /\ pc' = "idle"
  /\ closeFile
  /\ UNCHANGED <<disk, fileList, asked, index, i, held, out>>

-----------------------------------------------------------------------------
(* requestFileList *)

\* one round of the loop: the packet goes when the next song does not fit
PackSong ==
  /\ pc = "pack" /\ i <= Len(fileList)
  /\ i' = i + 1
  /\ IF Used + SongSize > MaxPacketSize
       THEN /\ held' = <<fileList[i].song>>
            /\ push([kind |-> "list", size |-> Used, songs |-> held])
       ELSE held' = Append(held, fileList[i].song) /\ UNCHANGED out
  /\ UNCHANGED <<packagerVars, disk, fileList, pc, asked, index>>

PackLast ==
  /\ pc = "pack" /\ i > Len(fileList)
  /\ pc' = "idle"
  /\ push([kind |-> "list", size |-> Used, songs |-> held])
  /\ UNCHANGED <<packagerVars, disk, fileList, asked, index, i, held>>

-----------------------------------------------------------------------------

Init ==
  /\ PackagerInit
  /\ disk \in Disks
  /\ fileList = <<>>
  /\ pc = "populate"
  /\ asked = NoSong
  /\ index = -1
  /\ i = 1 /\ held = <<>>
  /\ out = <<>>

Work ==
  \/ Populate \/ Constructed
  \/ IndexOf \/ NotFound \/ Open \/ SendHeader \/ SendChunk \/ CloseFile
  \/ PackSong \/ PackLast

Next == Work \/ HandleFileList \/ \E song \in Songs : HandleTrack(song)

SafeSpec == Init /\ [][Next]_vars

\* The worker thread keeps running; nobody has to send a request.
Spec == SafeSpec /\ WF_vars(Work)

-----------------------------------------------------------------------------
(* Properties *)

\* Every variable has its type, and a handler that sends a file has one open.
TypeOK ==
  /\ mOpenFile \in [file: {NoFile} \cup File(0..(SizeMod - 1)), pos: Nat,
                    good: BOOLEAN]
  /\ mHeader \in {"zero", "read"}
  /\ mTotalSize \in 0..(SizeMod - 1) /\ mExtracted \in 0..(SizeMod - 1)
  /\ disk \in Disks /\ fileList \in Seq(ListEntry)
  /\ pc \in {"populate", "ended", "idle", "find", "open", "header", "chunk", "pack"}
  /\ pc \in {"header", "chunk"} => isFileOpen
  /\ asked \in Songs \cup {NoSong} /\ (pc \in {"find", "open"} => asked # NoSong)
  /\ index \in Int
  /\ i \in Nat /\ held \in Seq(Song)
  /\ out \in Seq(Packets)

\* how many songs are among the first n entries of the folder
SongsUpTo(n) == Cardinality({k \in 1..n : Listed(disk.folder[k])})

\* The list is whole when its constructor returns: it has every song of the
\* folder, in the folder's order, and no entry that is not a song.  The process
\* ends in it only because of a song whose rates divide by zero or whose names
\* do not fit, and later because of a request for such names.
ListIsWhole ==
  /\ pc = "ended" /\ asked = NoSong => \E e \in Range(disk.folder) : EndsProcess(e)
  /\ pc = "ended" /\ asked # NoSong => ~Terminated(asked)
  /\ pc \notin {"populate", "ended"} =>
       /\ Len(fileList) = SongsUpTo(Len(disk.folder))
       /\ \A k \in DOMAIN disk.folder :
            Listed(disk.folder[k]) => fileList[SongsUpTo(k)] = EntryOf(disk.folder[k])

\* The greatest value of mExtracted that one more packet does not take past
\* what a size_t counts; a file that declares more than this has its count
\* start again, and its answer need not end.
LastCount ==
  HeaderSize + MaxPacketSize * ((SizeMod - 1 - HeaderSize) \div MaxPacketSize)

Wraps == pc \in {"header", "chunk"} /\ mTotalSize > LastCount

\* The stream and the counter agree: while no read has fallen short, a worker
\* that sends chunks has mOpenFile HeaderSize bytes ahead of mExtracted, for
\* the header it reads twice.
StreamMatchesCount ==
  pc = "chunk" /\ mHeader = "read" /\ mOpenFile.good /\ ~Wraps =>
    mOpenFile.pos = mExtracted + HeaderSize

\* No packet is larger than packetData, and no packet is empty but the one
\* that ends the list of no songs.
PacketSizes ==
  \A k \in DOMAIN out :
    /\ out[k].size <= MaxPacketSize
    /\ out[k].size = 0 => k = 1 /\ fileList = <<>>

\* The data packets of an answer follow the header and are one stretch of the
\* file: each begins where the one before ended, and none has bytes from before
\* the data section or from behind it, unless the count starts again.
DataInOrder ==
  \A k \in DOMAIN out : out[k].kind = "data" =>
    /\ k > 1
    /\ out[k].valid > 0 => out[k].from >= HeaderSize
    /\ k > 2 => out[k].from = out[k-1].from + out[k-1].valid
    /\ out[k].from + out[k].valid <= mTotalSize + HeaderSize \/ Wraps

\* as many songs as fit in a packet
FullPacket == MaxPacketSize \div SongSize

\* n songs of the list, behind the first of them
Stretch(first, n) == [j \in 1..n |-> fileList[first + j].song]

\* The songs of the list packets and of byteArray are, in order, the songs
\* the loop has seen, and in the end all of them: none is lost or repeated where
\* a packet ends, and no packet goes before it is full but the last.
SongsInOrder ==
  /\ pc = "pack" =>
       LET sent == FullPacket * Len(out)
       IN held = Stretch(sent, i - 1 - sent)
  /\ \A k \in DOMAIN out : out[k].kind = "list" =>
       LET sent == FullPacket * (k - 1)
       IN out[k].songs = Stretch(sent, IF k < Len(out) \/ pc = "pack" THEN FullPacket
                                       ELSE Len(fileList) - sent)

\* A song stands for one file of the folder: indexOf finds the one the song was
\* made from, and never another with the same name and artist.
SongsAreDistinct ==
  pc = "open" =>
    \A k \in Matches(fileList, asked) :
      /\ index = k - 1
      /\ \E e \in Range(disk.folder) :
           Listed(e) /\ SongOf(e) = asked /\ e.name = fileList[k].path.name

\* The constructor and every request come to an end, be it that of the process,
\* but for a file whose count wraps.
AnswerEnds == pc # "idle" ~> pc \in {"idle", "ended"} \/ Wraps

\* At most how many steps of the worker are left.  A list has a round of its
\* loop for each entry.  Of a file the chunks are only known once it is open, but
\* not one of them can be empty; until then there are at most SizeMod.
StepsLeft ==
  CASE pc = "populate" -> Len(disk.folder) + 2 - i
    [] pc = "pack"     -> Len(fileList) + 2 - i
    [] pc = "find"     -> SizeMod + 3
    [] pc = "open"     -> SizeMod + 2
    [] pc = "header"   -> SizeMod + 1
    [] pc = "chunk"    -> 1 + IF isFileComplete THEN 0 ELSE mTotalSize - mExtracted
    [] OTHER           -> 0

\* Every step of the constructor and of a request brings it nearer to its end,
\* however short the file turns out to be, unless the count of its bytes wraps:
\* no loop goes round for nothing.
EachStepCounts == [][Work => StepsLeft' \in 0..(StepsLeft - 1) \/ Wraps]_vars

\* n bytes in packets of at most m, where n > 0
Cut(n, m) ==
  [k \in 1..((n + m - 1) \div m) |-> IF k * m <= n THEN m ELSE n - (k - 1) * m]

\* A file that declares n bytes: its header, and what n is more than the header.
FileAnswer(n) ==
  <<HeaderSize>> \o (IF n > HeaderSize THEN Cut(n - HeaderSize, MaxPacketSize) ELSE <<>>)

\* A list of n songs
ListAnswer(n) ==
  IF n = 0 THEN <<0>>
  ELSE Cut(n * SongSize, SongSize * FullPacket)

PlannedAnswer ==
  CASE pc \in {"header", "chunk"} -> IF Wraps THEN <<>> ELSE FileAnswer(mTotalSize)
    [] pc = "pack" -> ListAnswer(Len(fileList))
    [] OTHER -> [k \in DOMAIN out |-> out[k].size]

AnswerSpec ==
  INSTANCE AnswerSizes WITH
    Answers <- {<<>>} \cup {FileAnswer(n) : n \in 0..LastCount}
                 \cup {ListAnswer(n) : n \in UNION {0..Len(d.folder) : d \in Disks}},
    answer <- PlannedAnswer,
    sent <- IF Wraps THEN 0 ELSE Len(out)

\* The sizes of an answer are those the size of the file, or of the list, fix
\* when the request is taken up: also for a file that is shorter than it
\* declares, and also when the last packet is full or the first one is.
ImplementsAnswers == AnswerSpec!Spec

-----------------------------------------------------------------------------
(* What the comments claim and the code does not do *)

\* WavFilePackager.cpp:18, "Is the file completely read", and 88, "Get the next
\* chunk of <bufferSize> of this file": when a file is complete, the chunks
\* together are its data, for a file that has all it declares.
CompleteFileWasRead ==
  pc = "chunk" /\ isFileComplete /\ mOpenFile.file.len >= mTotalSize + HeaderSize =>
    \A byte \in HeaderSize..(HeaderSize + mTotalSize - 1) :
      \E k \in DOMAIN out :
        out[k].kind = "data" /\ byte \in out[k].from..(out[k].from + out[k].valid - 1)

=============================================================================

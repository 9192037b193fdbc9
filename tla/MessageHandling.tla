--------------------------- MODULE MessageHandling ---------------------------
(***************************************************************************)
(* What happens to a received message: Client::CompleteRead copies the     *)
(* receive buffer, the ReceivedHandler of AudioClientHandlerFactory.cpp    *)
(* turns it into a Packet (Packet.h) and offers it to the handlers         *)
(* (InputHandler.h): the audio handler, whose answer AudioServerHandler    *)
(* details, then the settings handler (SettingsHandler.cpp).               *)
(*                                                                         *)
(* All of it is per client, and none of it is locked.  From its first      *)
(* message on a client has several receives pending into its one buffer,   *)
(* which the kernel fills while workers copy it, and several workers may   *)
(* be here for the same client at once.                                    *)
(***************************************************************************)
EXTENDS Integers, Sequences, FiniteSets

CONSTANTS
  Workers,
  Messages,       \* what one receive may bring, see IsMessage
  Bytes, NUL,     \* what a byte of the data may be, and the one that ends a name
  Fill,           \* what a debug build's strncpy_s writes behind a name
  DefaultSettings,
  NameSize,       \* the characters of a name, 64
  SongSize,       \* sizeof(Song), 132: two names and a length
  MaxPacketSize,  \* Packet::maxPacketSize, 1024
  Base,           \* the bytes of an int are its digits in this base
  MaxReceives     \* bound: messages received

(***************************************************************************)
(* A Type is the set of its bits: bit 31 is the sign.                      *)
(***************************************************************************)
Bits == 0..31
TRACK == 1
FILELIST == 3
SETTINGS == 5
END == 6

INVALID == {}

\* type > INVALID, type <= Last and !(type & (type - 1)), as an int
Positive(type) == type # {} /\ 31 \notin type
AtMostLast(type) == 31 \in type \/ type \subseteq 0..(END - 1) \/ type = {END}
NoTwoBits(type) == Cardinality(type) <= 1

(***************************************************************************)
(* The places of a message, front to back: two bytes for those of size,    *)
(* two for those of type (id, between them, is never looked at), and the   *)
(* data.  A Settings is a name and two flags, a Song begins with two names.*)
(***************************************************************************)
Size0 == 1
Size1 == 2
Type0 == 3
Type1 == 4
Head4 == Size0..Type1
Data(k) == Type1 + k

Last == Data(MaxPacketSize)
Places == Size0..Last

SettingsSize == NameSize + 2
SongName == 1..NameSize
ArtistName == (NameSize + 1)..(2 * NameSize)

Byte(c) ==
  CASE c = Size0 -> 0..(Base - 1)
    [] c = Size1 -> Int
    [] c = Type0 -> SUBSET (0..7)
    [] c = Type1 -> SUBSET (8..31)
    [] OTHER     -> Bytes

Settings == [1..SettingsSize -> Bytes \cup {Fill}]

\* A receive brings a packet, or only the first bytes of one.
IsMessage(m) ==
  /\ \E n \in Places : DOMAIN m = 1..n
  /\ \A c \in DOMAIN m : m[c] \in Byte(c)

Whole(m) == DOMAIN m = Places

ASSUME MessageAssumption ==
  /\ NameSize \in Nat \ {0} /\ SongSize \in Nat /\ SongSize >= 2 * NameSize
  /\ MaxPacketSize \in Nat /\ SongSize <= MaxPacketSize /\ SettingsSize <= MaxPacketSize
  /\ Base \in Nat \ {0} /\ MaxReceives \in Nat
  /\ NUL \in Bytes
  /\ \A m \in Messages : IsMessage(m)
  /\ DefaultSettings \in Settings /\ DefaultSettings[NameSize] = NUL

VARIABLES
  mBuffer,     \* the receive buffer: what a look at each of its bytes may give
  pending,     \* how many receives are posted into it that the kernel has not
               \* begun
  filling,     \* the message the kernel is writing into it, or <<>>
  arrived,     \* the completed receives no worker has taken, oldest first, by
               \* their number
  pc, source,  \* where each worker is, and the receive it was woken for
  packet,      \* its copy of the buffer, then its Packet: what each byte may be
  at,          \* the character it copies
  mSettings,   \* the client's Settings, which its handlers share
  received,    \* the messages received so far, in order (history)
  ended        \* the process has ended

workerVars == <<pc, source, packet, at>>
kernelVars == <<mBuffer, pending, filling, arrived, received>>

vars == <<kernelVars, workerVars, mSettings, ended>>

\* A step of a worker: no thread runs any more when the process has ended.
Goto(w, from, to) == ~ended /\ pc[w] = from /\ pc' = [pc EXCEPT ![w] = to]

\* b, where m may have overwritten it or not yet
MayHold(b, m) ==
  [c \in Places |-> IF c \in DOMAIN m THEN b[c] \cup {m[c]} ELSE b[c]]

Zeroes == [c \in Places |-> IF c <= Size1 THEN {0} ELSE IF c <= Type1 THEN {{}} ELSE {NUL}]

\* Of a deserialized packet there is one of each.
Sizes(p) == {low + Base * high : low \in p[Size0], high \in p[Size1]}
Types(p) == {low \cup high : low \in p[Type0], high \in p[Type1]}

\* Faulty variant: the size is not compared with 0; no specification uses it.
DeserializesNegative(size, datatype, type) ==
  /\ size <= MaxPacketSize
  /\ Positive(datatype) /\ AtMostLast(type) /\ NoTwoBits(type)

\* Packet::Deserialize.  The last two tests are of the member type, and not of
\* the datatype just read.
Deserializes(size, datatype, type) ==
  /\ size <= MaxPacketSize /\ size >= 0
  /\ Positive(datatype) /\ AtMostLast(type) /\ NoTwoBits(type)

\* InputHandler::listensFor for the handler with the given flags
AudioFlags == {TRACK, FILELIST}
SettingsFlags == {SETTINGS}

listensFor(flags, p) == \E type \in Types(p) : type \cap flags # {}

-----------------------------------------------------------------------------
(* The kernel, through the receives WSARecv has posted *)

\* A receive overwrites the buffer from the front, and no more of it than the
\* message is long.
FillBegin(m) ==
  /\ ~ended /\ filling = <<>> /\ Len(received) < MaxReceives
  /\ pending > 0 /\ pending' = pending - 1
  /\ filling' = m
  /\ received' = Append(received, m)
  /\ mBuffer' = MayHold(mBuffer, m)
  /\ packet' = [w \in Workers |-> IF pc[w] = "copy" THEN MayHold(packet[w], m)
                                  ELSE packet[w]]
  /\ UNCHANGED <<arrived, pc, source, at, mSettings, ended>>

FillEnd ==
  /\ ~ended /\ filling # <<>>
  /\ filling' = <<>>
  /\ mBuffer' = [c \in Places |-> IF c \in DOMAIN filling THEN {filling[c]}
                                  ELSE mBuffer[c]]
  /\ arrived' = Append(arrived, Len(received))
  /\ UNCHANGED <<pending, workerVars, mSettings, received, ended>>

-----------------------------------------------------------------------------
(* The workers *)

\* CompleteRead: getMessage copies the buffer, in whatever order; each byte is
\* one that was there between the two steps.
CopyBegin(w) ==
  /\ Goto(w, "idle", "copy")
  /\ arrived # <<>> /\ arrived' = Tail(arrived)
  /\ source' = [source EXCEPT ![w] = Head(arrived)]
  /\ packet' = [packet EXCEPT ![w] = mBuffer]
  /\ UNCHANGED <<mBuffer, pending, filling, at, mSettings, received, ended>>

CopyEnd(w) ==
  /\ Goto(w, "copy", "deserialize")
  /\ UNCHANGED <<kernelVars, source, packet, at, mSettings, ended>>

\* The Packet made of the bytes p: of its data as much as it says there is.
Deserialized(p, size0, size1, type0, type1) ==
  [c \in Places |->
     CASE c = Size0 -> {size0} [] c = Size1 -> {size1}
       [] c = Type0 -> {type0} [] c = Type1 -> {type1}
       [] OTHER     -> IF c <= Data(size0 + Base * size1) THEN p[c] ELSE {NUL}]

\* packet.Deserialize of copy w, as a whole packet or not, with the ways on
DeserializeAs(w, whole, otherwise) ==
  \E size0 \in packet[w][Size0], size1 \in packet[w][Size1],
     type0 \in packet[w][Type0], type1 \in packet[w][Type1] :
    /\ Goto(w, "deserialize",
         IF ~whole THEN "rearm"
         ELSE IF Deserializes(size0 + Base * size1, type0 \cup type1, INVALID)
           THEN "audio" ELSE otherwise)
    /\ packet' = [packet EXCEPT ![w] = Deserialized(@, size0, size1, type0, type1)]
    /\ UNCHANGED <<kernelVars, source, at, mSettings, ended>>

\* Faulty variants: Deserialize does not compare the size of the transfer; its
\* exception passes over both calls of BeginRead.  No specification uses them.
DeserializePacketParts(w) == DeserializeAs(w, TRUE, "rearm")

DeserializePacketThrows(w) == DeserializeAs(w, Whole(received[source[w]]), "idle")

\* Deserialize throws for a whole message that is no packet; a message in parts
\* leaves the Packet INVALID, which no handler listens for.
DeserializePacket(w) == DeserializeAs(w, Whole(received[source[w]]), "rearm")

\* a name in the data of p may end in its 64 characters; it may not
MayEnd(p, name) == \E k \in name : NUL \in p[Data(k)]
MayRunOn(p, name) == \A k \in name : p[Data(k)] # {NUL}

\* handlePacket of the audio handler, which details what it answers: the Song it
\* takes from a TRACK is passed on by value
AsksTrack(p) == Types(p) = {{TRACK}} /\ Sizes(p) = {SongSize}

AudioHandler(w) ==
  /\ AsksTrack(packet[w]) =>
       MayEnd(packet[w], SongName) /\ MayEnd(packet[w], ArtistName)
  /\ Goto(w, "audio", "settings")
  /\ UNCHANGED <<kernelVars, source, packet, at, mSettings, ended>>

\* strncpy_s, in the copy constructor of Song, ends the process.
SongRunsOn(w) ==
  /\ pc[w] = "audio" /\ AsksTrack(packet[w])
  /\ MayRunOn(packet[w], SongName) \/ MayRunOn(packet[w], ArtistName)
  /\ ~ended /\ ended' = TRUE
  /\ UNCHANGED <<kernelVars, workerVars, mSettings>>

\* Faulty variant: the size is not compared; no specification uses it.
ChangesSettingsAnySize(p) == listensFor(SettingsFlags, p)

\* SettingsHandler::handlePacket does not look at the type again
ChangesSettings(p) == listensFor(SettingsFlags, p) /\ Sizes(p) = {SettingsSize}

SettingsHandler(w) ==
  /\ Goto(w, "settings", IF ChangesSettings(packet[w]) THEN "ShareName" ELSE "rearm")
  /\ at' = [at EXCEPT ![w] = 1]
  /\ UNCHANGED <<kernelVars, source, packet, mSettings, ended>>

\* *mSettings = settings: byte k becomes v
Assign(w, k, v) ==
  /\ mSettings' = [mSettings EXCEPT ![k] = v]
  /\ at' = [at EXCEPT ![w] = k + 1]
  /\ UNCHANGED <<kernelVars, source, packet>>

\* One round of strncpy_s.  It stops behind the NUL, or, in a debug build, fills
\* what is left; it ends the process when it has copied all of the name and no
\* NUL.
AssignChar(w) ==
  /\ pc[w] = "ShareName"
  /\ \E v \in packet[w][Data(at[w])] :
       /\ \/ v # NUL /\ Goto(w, "ShareName", "ShareName")
          \/ v = NUL /\ Goto(w, "ShareName", "flags")
          \/ v = NUL /\ at[w] < NameSize /\ Goto(w, "ShareName", "fill")
       /\ Assign(w, at[w], v)
       /\ ended' = (v # NUL /\ at[w] = NameSize)

FillChar(w) ==
  /\ Goto(w, "fill", IF at[w] < NameSize THEN "fill" ELSE "flags")
  /\ Assign(w, at[w], Fill)
  /\ UNCHANGED ended

\* ShareActivity, then AlbumArt
AssignFlag(w) ==
  LET k == IF at[w] <= NameSize THEN NameSize + 1 ELSE at[w]
  IN /\ Goto(w, "flags", IF k < SettingsSize THEN "flags" ELSE "rearm")
     /\ \E v \in packet[w][Data(k)] : Assign(w, k, v)
     /\ UNCHANGED ended

\* BeginRead of BeginIOEvent and BeginRead of workerThread, which ServerManager
\* details
BeginReads(w) ==
  /\ Goto(w, "rearm", "idle")
  /\ pending' = pending + 2
  /\ packet' = [packet EXCEPT ![w] = Zeroes]
  /\ at' = [at EXCEPT ![w] = 1] /\ source' = [source EXCEPT ![w] = 0]
  /\ UNCHANGED <<mBuffer, filling, arrived, mSettings, received, ended>>

-----------------------------------------------------------------------------

\* new char[size] is not cleared, but nothing is read of it before the first
\* receive has completed.
Init ==
  /\ mBuffer = Zeroes
  /\ pending = 1 /\ filling = <<>>
  /\ arrived = <<>>
  /\ pc = [w \in Workers |-> "idle"] /\ source = [w \in Workers |-> 0]
  /\ packet = [w \in Workers |-> Zeroes] /\ at = [w \in Workers |-> 1]
  /\ mSettings = DefaultSettings
  /\ received = <<>>
  /\ ended = FALSE

Handle(w) ==
  \/ CopyBegin(w) \/ CopyEnd(w) \/ DeserializePacket(w)
  \/ AudioHandler(w) \/ SongRunsOn(w)
  \/ SettingsHandler(w) \/ AssignChar(w) \/ FillChar(w) \/ AssignFlag(w)
  \/ BeginReads(w)

Next ==
  FillEnd \/ (\E m \in Messages : FillBegin(m)) \/ \E w \in Workers : Handle(w)

SafeSpec == Init /\ [][Next]_vars

\* Workers keep running and the kernel ends what it has begun; no peer has to
\* send anything.
Spec == SafeSpec /\ WF_vars(FillEnd) /\ \A w \in Workers : WF_vars(Handle(w))

-----------------------------------------------------------------------------
(* Properties *)

\* Where a worker has a Packet that is to be handled
Handling == {"audio", "settings", "ShareName", "fill", "flags"}

\* Every variable has its type, and the handlers see packets only that came
\* whole and whose size is in range.
TypeOK ==
  /\ DOMAIN mBuffer = Places /\ \A c \in Places : mBuffer[c] \subseteq Byte(c)
  /\ pending \in Nat
  /\ filling \in Messages \cup {<<>>}
  /\ received \in Seq(Messages)
  /\ arrived \in Seq(Nat)
  /\ \A k \in DOMAIN arrived : arrived[k] \in DOMAIN received
  /\ pc \in [Workers -> {"idle", "copy", "deserialize", "rearm"} \cup Handling]
  /\ source \in [Workers -> 0..Len(received)]
  /\ at \in [Workers -> 1..(SettingsSize + 1)]
  /\ DOMAIN packet = Workers
  /\ \A w \in Workers :
       /\ DOMAIN packet[w] = Places
       /\ \A c \in Places : packet[w][c] \subseteq Byte(c)
       /\ pc[w] # "idle" => source[w] # 0
       /\ pc[w] \in Handling => /\ Whole(received[source[w]])
                                /\ Sizes(packet[w]) \subseteq 0..MaxPacketSize
  /\ mSettings \in Settings
  /\ ended \in BOOLEAN

\* v has been received as byte c of the j-th message, or of a later one.
Since(j, c, v) ==
  \E i \in j..Len(received) : c \in DOMAIN received[i] /\ received[i][c] = v

\* What handlers may read of a packet
Readable(p) == Head4 \cup {Data(k) : k \in UNION {1..size : size \in Sizes(p)}}

\* Receives overwrite a packet before and while it is copied, in parts of any
\* length, so that its bytes may be of several messages; but none of them is
\* older than the message that woke the worker, nor one that nobody sent.
NothingStale ==
  \A w \in Workers : pc[w] \in Handling =>
    \A c \in Readable(packet[w]) : \A v \in packet[w][c] : Since(source[w], c, v)

\* Whatever workers assign the settings at once, each byte of them is the
\* default or what the peer sent in its place, after a message that came whole;
\* and the peer's characters never are all of ShareName, which has a NUL left
\* (or a debug build's filling) unless the process ends.
SettingsWereSent ==
  /\ \A k \in 1..SettingsSize :
       \/ mSettings[k] = DefaultSettings[k]
       \/ k \in 2..NameSize /\ mSettings[k] = Fill
       \/ Since(1, Data(k), mSettings[k])
  /\ mSettings # DefaultSettings => \E j \in DOMAIN received : Whole(received[j])
  /\ ~ended => mSettings[NameSize] \in {NUL, Fill}

\* The client stays readable, whatever bytes its peer sends, unless they end the
\* process: again and again a receive is posted for it.
StaysReadable == []<>(pending > 0 \/ ended)

=============================================================================

------------------------------ MODULE FileList ------------------------------
(***************************************************************************)
(* src/Server/FileList.h and SongFileConverter.h: the list of the songs of *)
(* a music folder, which the constructor of an AudioServerHandler makes.   *)
(* A song stands for a file by its name and length only (Song.h), and the  *)
(* list keeps for each song a path.                                        *)
(*                                                                         *)
(* A file name is the sequence of its words, which underscores separate.   *)
(***************************************************************************)
EXTENDS WavFilePackager, SequencesExt

CONSTANTS
  Words,     \* what is between the underscores of a file name
  LongNames, \* the sequences of words that make 64 characters or more
  DwordMod   \* a DWORD counts modulo this, 2^32

ASSUME ListAssumption == DwordMod \in Nat \ {0}

FileName == Seq(Words) \ {<<>>}

\* SongName is the first word, ArtistName all of the rest and the underscore
\* before it.
Song == [SongName: Words, ArtistName: Seq(Words \cup {"", "Unknown"}),
         SongLength: Nat]

\* Both names have a NUL in their 64 characters.  To copy a Song that has not
\* ends the process, in strncpy_s.
Terminated(song) == <<song.SongName>> \notin LongNames /\ song.ArtistName \notin LongNames

(***************************************************************************)
(* A folder as FindFirstFile and FindNextFile give it: a sequence of the   *)
(* entries that match its pattern.  sized says whether chunk_size is more  *)
(* than 0, product is sample_rate * num_channels * bits_per_sample.        *)
(***************************************************************************)
FolderEntry ==
  [name: FileName, directory: BOOLEAN, file: File(0..(SizeMod - 1)),
   sized: BOOLEAN, product: Nat]

\* what the size is divided by; the product is a DWORD
rate(e) == (e.product % DwordMod) \div 8

\* Faulty variant: the artist is dropped; no specification uses it.
SongOfNameOnly(e) ==
  [SongName   |-> Head(e.name),
   ArtistName |-> <<"Unknown">>,
   SongLength |-> e.file.declared \div rate(e)]

\* getClassFromFile: the song it makes of a file ...
SongOf(e) ==
  [SongName   |-> Head(e.name),
   ArtistName |-> IF Len(e.name) = 1 THEN <<"Unknown">> ELSE <<"">> \o Tail(e.name),
   SongLength |-> e.file.declared \div rate(e)]

\* ... when it succeeds
Converts(e) == processWavFile(e.file) /\ e.sized

Listed(e) == ~e.directory /\ Converts(e)

\* What no handler catches: the hardware's exception for a division by zero, and
\* the end of the process when populate copies the Song it has made.
EndsProcess(e) == Listed(e) /\ (rate(e) = 0 \/ ~Terminated(SongOf(e)))

(***************************************************************************)
(* The converter has opened mFileLoc + '\\' + fileName; populate stores    *)
(* mFileLoc + fileName, which is beside the folder and not in it.          *)
(***************************************************************************)
Path == [where: {"inside", "beside"}, name: FileName]

ListEntry == [song: Song, path: Path]

EntryOf(e) ==
  [song |-> SongOf(e), path |-> [where |-> "beside", name |-> e.name]]

\* Where operator== of Song says that obj is in the list.
Matches(list, obj) == {k \in DOMAIN list : list[k].song = obj}

\* indexOf: the first match, or res as it was left
indexOf(list, obj, garbage) ==
  IF Matches(list, obj) = {}
    THEN garbage
    ELSE {k - 1 : k \in {m \in Matches(list, obj) :
                           \A n \in Matches(list, obj) : m <= n}}

=============================================================================

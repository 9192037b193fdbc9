--------------------------- MODULE WavFilePackager ---------------------------
(***************************************************************************)
(* src/Server/WavFilePackager.cpp: cuts a WAV file in chunks.  It reads an *)
(* ifstream from front to back and counts in mExtracted how far it is; the *)
(* two are never compared with each other, so their relation is what this  *)
(* module is about.  A byte is its offset in the file.                     *)
(***************************************************************************)
EXTENDS Integers, Sequences

CONSTANTS
  NoFile,      \* no file is open
  HeaderSize,  \* sizeof(waveHeader), 44
  SizeMod      \* size_t counts modulo this: 2^32 on Win32, 2^64 on x64

(***************************************************************************)
(* A file as the packager meets it: whether it opens, whether it starts    *)
(* with RIFF and WAVE, its length, and the subchunk2_size its header has   *)
(* (for a file that ends inside its header, what the short reads leave).   *)
(***************************************************************************)
File(Declared) ==
  [opens: BOOLEAN, wave: BOOLEAN, len: Nat, declared: Declared]

ASSUME PackagerAssumption ==
  /\ HeaderSize \in Nat \ {0} /\ SizeMod \in Nat \ {0} /\ HeaderSize < SizeMod
  /\ NoFile \notin File(0..(SizeMod - 1))

VARIABLES
  mOpenFile,  \* the ifstream: file, position, and whether it is good(); the
              \* file is NoFile when nothing is open
  mHeader,    \* "zero" or, after a WAV file was processed, "read"
  mTotalSize, mExtracted

packagerVars == <<mOpenFile, mHeader, mTotalSize, mExtracted>>

isFileOpen == mOpenFile.file # NoFile

PackagerInit ==
  /\ mOpenFile = [file |-> NoFile, pos |-> 0, good |-> TRUE]
  /\ mHeader = "zero"
  /\ mTotalSize = 0 /\ mExtracted = 0

\* ifstream::read of n bytes: a short read takes what is there and sets failbit,
\* after which reads take nothing.
Available(s) == IF s.good /\ s.file.len > s.pos THEN s.file.len - s.pos ELSE 0

Taken(s, n) == IF n <= Available(s) THEN n ELSE Available(s)

AfterRead(s, n) ==
  [s EXCEPT !.pos = @ + Taken(s, n), !.good = @ /\ n <= Available(s)]

(***************************************************************************)
(* processWavFile: whether f begins as a WAV file does.  The fields of the *)
(* header are read one after the other; of a file that is no WAV file only *)
(* the first ones are read, the position is then left where it was, as     *)
(* nothing is extracted from it.                                           *)
(***************************************************************************)
processWavFile(f) == f.opens /\ f.wave

\* Faulty variants of the definitions below; no specification here uses them.

\* openFile does not count the header as extracted
openFileUncounted(f) ==
  LET s == [file |-> IF f.opens THEN f ELSE NoFile, pos |-> 0, good |-> f.opens]
      ok == processWavFile(f)
  IN /\ mOpenFile' = IF ok THEN AfterRead(s, HeaderSize) ELSE s
     /\ mHeader' = IF ok THEN "read" ELSE "zero"
     /\ mTotalSize' = IF ok THEN f.declared ELSE 0
     /\ mExtracted' = 0

\* every chunk is a full buffer
CalculatedReadFull(bufferSize) == bufferSize

\* openFile: the header of a WAV file has been read and counts as extracted
openFile(f) ==
  LET s == [file |-> IF f.opens THEN f ELSE NoFile, pos |-> 0, good |-> f.opens]
      ok == processWavFile(f)
  IN /\ mOpenFile' = IF ok THEN AfterRead(s, HeaderSize) ELSE s
     /\ mHeader' = IF ok THEN "read" ELSE "zero"
     /\ mTotalSize' = IF ok THEN f.declared ELSE 0
     /\ mExtracted' = HeaderSize

\* getHeader: copies mHeader, and reads as many bytes from the file once more
getHeader ==
  /\ mOpenFile' = AfterRead(mOpenFile, HeaderSize)
  /\ UNCHANGED <<mHeader, mTotalSize, mExtracted>>

isFileComplete == mExtracted >= mTotalSize

\* getNextChunk: how much it means to read ...
CalculatedRead(bufferSize) ==
  IF (mExtracted + bufferSize) % SizeMod > mTotalSize
    THEN (mTotalSize - mExtracted) % SizeMod
    ELSE bufferSize

\* Faulty variant: only the bytes that were there count as extracted; no
\* specification uses it.
getNextChunkTaken(bufferSize) ==
  LET n == CalculatedRead(bufferSize)
  IN /\ mOpenFile' = AfterRead(mOpenFile, n)
     /\ mExtracted' = (mExtracted + Taken(mOpenFile, n)) % SizeMod
     /\ UNCHANGED <<mHeader, mTotalSize>>

\* ... which it counts and returns whatever the read does
getNextChunk(bufferSize) ==
  LET n == CalculatedRead(bufferSize)
  IN /\ mOpenFile' = AfterRead(mOpenFile, n)
     /\ mExtracted' = (mExtracted + n) % SizeMod
     /\ UNCHANGED <<mHeader, mTotalSize>>

closeFile ==
  /\ mOpenFile' = [mOpenFile EXCEPT !.file = NoFile]
  /\ UNCHANGED <<mHeader, mTotalSize, mExtracted>>

=============================================================================

\* Headers of 2 bytes, packets of 5 (so two songs of 2 fit in one), and files
\* that declare 0 to 19 bytes of data; a size_t counts to 19, so that the count
\* of the largest ones wraps.
CONSTANTS
  NoFile = NoFile
  NoSong = NoSong
  MaxDeclared = 19
  HeaderSize = 2
  SizeMod = 20
  DwordMod = 64
  MaxPackets = 8
  MaxPacketSize = 5
  SongSize = 2
  Songs <- MCSongs
  Words <- MCWords
  LongNames <- MCLongNames
  Disks <- MCDisks
  IndexGarbage <- MCIndexGarbage

SPECIFICATION Spec

INVARIANTS
  TypeOK
  ListIsWhole
  StreamMatchesCount
  PacketSizes
  DataInOrder
  SongsInOrder
  SongsAreDistinct

PROPERTIES
  AnswerEnds
  EachStepCounts
  ImplementsAnswers

CHECK_DEADLOCK FALSE

\* A file is complete when the first bytes of its data have not been sent.
CONSTANTS
  NoFile = NoFile
  NoSong = NoSong
  MaxDeclared = 9
  HeaderSize = 2
  SizeMod = 20
  DwordMod = 64
  MaxPackets = 8
  MaxPacketSize = 5
  SongSize = 2
  Songs <- MCSongs
  Words <- MCWords
  LongNames <- MCLongNames
  Disks <- MCSongDisks
  IndexGarbage <- MCIndexGarbage

SPECIFICATION SafeSpec

INVARIANT CompleteFileWasRead

CHECK_DEADLOCK FALSE

\* Any three messages of a peer, or parts of them, handled by two workers.
CONSTANTS
  Workers = {w1, w2}
  u = u
  v = v
  NUL = NUL
  Fill = Fill
  Bytes <- MCBytes
  Messages <- MCMessages
  DefaultSettings <- MCDefault
  NameSize = 2
  SongSize = 5
  MaxPacketSize = 5
  Base = 4
  MaxReceives = 3

SPECIFICATION Spec

INVARIANTS
  TypeOK
  
  SettingsWereSent

PROPERTY StaysReadable

\* Without messages the workers wait, and the process may end.
CHECK_DEADLOCK FALSE

-------------------------- MODULE MCMessageHandling --------------------------
(***************************************************************************)
(* MessageHandling for TLC: requests, settings, packets with several flags *)
(* or an undefined one, sizes out of range, names without an end, and the  *)
(* first bytes of packets.  Names have two characters, so that a Settings  *)
(* has four bytes and a Song five.                                         *)
(***************************************************************************)
EXTENDS MessageHandling

CONSTANTS u, v  \* two bytes that are not NUL

MCBytes == {NUL, u, v}

MCDefault == <<u, NUL, u, u>>

\* A packet with this size, type and data
P(size, type, data) ==
  <<size % Base, size \div Base, type \cap 0..7, type \ 0..7>> \o data

Named(x) == <<x, NUL, x, NUL, x>>

MCMessages ==
  {P(SongSize, {TRACK}, Named(u)),
   P(SongSize, {TRACK}, <<u, NUL, u, v, u>>),
   P(SettingsSize, {SETTINGS}, Named(v)),
   P(SettingsSize, {SETTINGS, 9}, <<NUL, u, v, v, v>>),
   P(SettingsSize, {SETTINGS}, <<u, v, NUL, u, v>>),
   P(-1, {FILELIST}, Named(u)),
   P(0, {TRACK, SETTINGS}, Named(u)),
   <<3>>, SubSeq(P(SettingsSize, {FILELIST}, Named(u)), 1, 5)}

=============================================================================

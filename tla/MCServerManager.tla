-------------------------- MODULE MCServerManager --------------------------
(***************************************************************************)
(* ServerManager for TLC: what a request may be answered with.  A file     *)
(* list is one or more short packets; a file is a short packet (its        *)
(* header), full ones, and a short one.                                    *)
(***************************************************************************)
EXTENDS ServerManager, TLC

MCFileList == {<<>>, <<"part", "part">>}
MCFile == {<<>>, <<"part", "whole">>}

MCSymmetry ==
  Permutations(Conns) \cup Permutations(Addrs) \cup Permutations(Workers)

=============================================================================

------------------------ MODULE MCAudioServerHandler ------------------------
(***************************************************************************)
(* AudioServerHandler for TLC.  Folders of one song, beside which its path *)
(* leads to a file of every declared size around the boundaries, cut       *)
(* short, no WAV file any more, or missing; folders of up to five songs    *)
(* that share words of their names, with entries that are not songs; and   *)
(* folders with a file whose rates are too small or wrap to zero, or with  *)
(* a word that is too long for a name.                                     *)
(***************************************************************************)
EXTENDS AudioServerHandler

CONSTANT MaxDeclared

MCWords == {"a", "b", "c", "long"}

MCLongNames == {<<"long">>, <<"", "long">>}

MCIndexGarbage == {-1, 0, 7}

WavFile(n, len) == [opens |-> TRUE, wave |-> TRUE, len |-> len, declared |-> n]

Missing == [opens |-> FALSE, wave |-> FALSE, len |-> 0, declared |-> 0]

NoWav == [opens |-> TRUE, wave |-> FALSE, len |-> 9, declared |-> 0]

MCIntactFiles ==
  {WavFile(n, HeaderSize + n + more) : n \in 0..MaxDeclared, more \in {0, 3}}
    \cup {Missing, NoWav}

MCShortFiles == {WavFile(n, n) : n \in 0..MaxDeclared}

E(name) ==
  [name |-> name, directory |-> FALSE, file |-> WavFile(6, 6 + HeaderSize),
   sized |-> TRUE, product |-> 16]

OneSong(f) == [folder |-> <<E(<<"a", "b">>)>>, beside |-> (<<"a", "b">> :> f)]

FolderOf(entries) ==
  [folder |-> entries,
   beside |-> [name \in {entries[k].name : k \in DOMAIN entries} |-> Missing]]

MCFolders ==
  {FolderOf(<<>>),
   FolderOf(<<E(<<"a">>), E(<<"a", "a">>), E(<<"a", "b">>), E(<<"a", "b", "c">>)>>),
   FolderOf(<<E(<<"a", "b">>), [E(<<"a">>) EXCEPT !.directory = TRUE],
              E(<<"b", "a">>), [E(<<"b">>) EXCEPT !.file = NoWav],
              E(<<"b", "b">>), [E(<<"c">>) EXCEPT !.sized = FALSE, !.product = 0],
              E(<<"c", "c">>), E(<<"c", "b", "c">>)>>)}
    \cup {FolderOf(<<E(<<"a">>), [E(<<"b">>) EXCEPT !.product = p], E(<<"c">>)>>) :
            p \in {7, 8, DwordMod, DwordMod + 8}}
    \cup {FolderOf(<<E(<<"a">>), E(name), E(<<"c">>)>>) :
            name \in {<<"long">>, <<"long", "b">>, <<"b", "long">>}}

MCDisks == {OneSong(f) : f \in MCIntactFiles \cup MCShortFiles} \cup MCFolders

\* A song of nine bytes of data, and its path leads to it.
MCSongDisks == {OneSong(WavFile(9, HeaderSize + 9))}

MCSongs ==
  {SongOf(E(name)) : name \in {<<"a">>, <<"a", "b">>, <<"b", "b">>, <<"b">>,
                               <<"a", "long">>}}

=============================================================================

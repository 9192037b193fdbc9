----------------------- MODULE AudioServerHandlerProofs -----------------------
(***************************************************************************)
(* Theorems about AudioServerHandler for any music folder, any files and   *)
(* songs, any sizes of packets, songs and headers, and any width of size_t *)
(* that is a multiple of a packet.                                         *)
(***************************************************************************)
EXTENDS AudioServerHandler, FiniteSetTheorems, TLAPS

(* Arithmetic *)

\* Division with remainder.
LEMMA DivMod ==
  ASSUME NEW a \in Nat, NEW b \in Nat \ {0}
  PROVE  /\ a \div b \in Nat /\ a % b \in 0..(b - 1)
         /\ a = b * (a \div b) + (a % b)
OBVIOUS

\* There is only one quotient, and one remainder.
LEMMA DivUnique ==
  ASSUME NEW a \in Nat, NEW b \in Nat \ {0}, NEW q \in Int, NEW r \in 0..(b - 1),
         a = b * q + r
  PROVE  a \div b = q /\ a % b = r
OBVIOUS

\* Multiples are in the order of what they are multiples of.
LEMMA Multiples ==
  ASSUME NEW a \in Int, NEW b \in Int, NEW m \in Nat \ {0}
  PROVE  /\ a * m \in Int
         /\ a * m <= b * m <=> a <= b
         /\ a * m < b * m <=> a < b
OBVIOUS

\* n bytes fill as many packets of m as it takes to hold them.
LEMMA CeilDiv ==
  ASSUME NEW c \in Nat, NEW n \in Nat, NEW m \in Nat \ {0}
  PROVE  c >= (n + m - 1) \div m <=> c * m >= n
<1> DEFINE q == (n + m - 1) \div m  r == (n + m - 1) % m
<1>0. n + m - 1 \in Nat
  OBVIOUS
<1>1. q \in Nat /\ r \in 0..(m - 1) /\ n + m - 1 = m * q + r
  BY <1>0, DivMod
<1> HIDE DEF q, r
<1>2. c >= q => c * m >= q * m
  BY <1>1
<1>3. c < q => (c + 1) * m <= q * m
  BY <1>1
<1>4. c >= q <=> c * m >= n
  BY <1>1, <1>2, <1>3
<1> QED
  BY <1>4 DEF q

-----------------------------------------------------------------------------
(* The sizes *)

\* What the sizes are to each other.
LEMMA SizeFacts ==
  /\ HeaderSize \in Nat \ {0} /\ MaxPacketSize \in Nat \ {0} /\ SongSize \in Nat \ {0}
  /\ SizeMod \in Nat \ {0} /\ FullPacket \in Nat \ {0}
  /\ SongSize * FullPacket <= MaxPacketSize
  /\ MaxPacketSize < SongSize * FullPacket + SongSize
  /\ HeaderSize <= MaxPacketSize /\ HeaderSize < SizeMod /\ 2 * MaxPacketSize <= SizeMod
<1>1. /\ HeaderSize \in Nat \ {0} /\ MaxPacketSize \in Nat \ {0} /\ SongSize \in Nat \ {0}
      /\ SizeMod \in Nat \ {0} /\ SongSize <= MaxPacketSize /\ HeaderSize <= MaxPacketSize
      /\ MaxPacketSize < SizeMod /\ SizeMod % MaxPacketSize = 0 /\ HeaderSize < SizeMod
  BY PackagerAssumption, HandlerAssumption
<1>2. /\ FullPacket \in Nat
      /\ SongSize * FullPacket <= MaxPacketSize
      /\ MaxPacketSize < SongSize * FullPacket + SongSize
  BY <1>1, DivMod DEF FullPacket
<1>3. FullPacket # 0
  BY <1>1, <1>2
<1>4. 2 * MaxPacketSize <= SizeMod
  <2> DEFINE q == SizeMod \div MaxPacketSize
  <2>1. q \in Nat /\ SizeMod = MaxPacketSize * q
    BY <1>1, DivMod
  <2> HIDE DEF q
  <2>2. q > 1
    BY <1>1, <2>1
  <2>3. 2 * MaxPacketSize <= q * MaxPacketSize
    BY <1>1, <2>1, <2>2, Multiples
  <2> QED
    BY <1>1, <2>1, <2>3
<1> QED
  BY <1>1, <1>2, <1>3, <1>4

\* One more song does not fit when the packet has FullPacket of them.
LEMMA FullWhenFull ==
  ASSUME NEW n \in Nat
  PROVE  SongSize * n + SongSize > MaxPacketSize <=> n >= FullPacket
<1>1. n >= FullPacket => SongSize * n >= SongSize * FullPacket
  BY SizeFacts
<1>2. n < FullPacket => SongSize * (n + 1) <= SongSize * FullPacket
  BY SizeFacts
<1> QED
  BY <1>1, <1>2, SizeFacts

\* LastCount is the greatest sum of the header and full packets below SizeMod.
LEMMA LastCountIsLast ==
  /\ LastCount \in Nat /\ HeaderSize <= LastCount /\ LastCount < SizeMod
  /\ LastCount + MaxPacketSize >= SizeMod
  /\ \A c \in Nat : HeaderSize + c * MaxPacketSize < SizeMod
                      => HeaderSize + c * MaxPacketSize <= LastCount
  /\ \A c \in Nat : HeaderSize + c * MaxPacketSize < LastCount
                      => HeaderSize + (c + 1) * MaxPacketSize <= LastCount
<1> DEFINE q == (SizeMod - 1 - HeaderSize) \div MaxPacketSize
           r == (SizeMod - 1 - HeaderSize) % MaxPacketSize
<1>0. SizeMod - 1 - HeaderSize \in Nat /\ MaxPacketSize \in Nat \ {0}
  BY SizeFacts
<1>1. /\ q \in Nat /\ r \in 0..(MaxPacketSize - 1)
      /\ SizeMod - 1 - HeaderSize = MaxPacketSize * q + r
  BY <1>0, DivMod
<1>2. LastCount = HeaderSize + MaxPacketSize * q
  BY DEF LastCount
<1> HIDE DEF q, r
<1>3. /\ MaxPacketSize * q \in Nat
      /\ \A c \in Nat : c * MaxPacketSize \in Nat
  BY <1>1, SizeFacts
<1>4. \A c \in Nat : c <= q => c * MaxPacketSize <= MaxPacketSize * q
  BY <1>1, SizeFacts
<1>5. \A c \in Nat : c > q => c * MaxPacketSize >= MaxPacketSize * q + MaxPacketSize
  <2> SUFFICES ASSUME NEW c \in Nat, c >= q + 1
               PROVE  c * MaxPacketSize >= MaxPacketSize * q + MaxPacketSize
    BY <1>1
  <2>1. (q + 1) * MaxPacketSize <= c * MaxPacketSize
    BY <1>1, SizeFacts, Multiples
  <2> QED
    BY <1>1, <2>1, SizeFacts
<1>6. \A c \in Nat : HeaderSize + c * MaxPacketSize < SizeMod
                       => HeaderSize + c * MaxPacketSize <= LastCount
  BY <1>1, <1>2, <1>3, <1>4, <1>5, SizeFacts
<1>7. \A c \in Nat : HeaderSize + c * MaxPacketSize < LastCount
                       => HeaderSize + (c + 1) * MaxPacketSize <= LastCount
  <2> SUFFICES ASSUME NEW c \in Nat, HeaderSize + c * MaxPacketSize < LastCount
               PROVE  HeaderSize + (c + 1) * MaxPacketSize <= LastCount
    OBVIOUS
  <2>1. c < q
    BY <1>1, <1>2, <1>3, <1>5, SizeFacts
  <2> QED
    BY <1>1, <1>2, <1>4, <2>1, SizeFacts
<1> QED
  BY <1>1, <1>2, <1>3, <1>6, <1>7, SizeFacts

\* A count that differs from the header's size by full packets is not above it.
LEMMA CountsBelowLast ==
  ASSUME NEW n \in 0..(SizeMod - 1), n % MaxPacketSize = HeaderSize % MaxPacketSize
  PROVE  n <= LastCount
<1> DEFINE a == n \div MaxPacketSize  b == HeaderSize \div MaxPacketSize
           r == HeaderSize % MaxPacketSize
<1>0. n \in Nat /\ HeaderSize \in Nat /\ MaxPacketSize \in Nat \ {0}
  BY SizeFacts
<1>1. /\ a \in Nat /\ b \in Nat /\ r \in 0..(MaxPacketSize - 1)
      /\ n = MaxPacketSize * a + r /\ HeaderSize = MaxPacketSize * b + r
  BY <1>0, DivMod
<1> HIDE DEF a, b, r
<1>2. CASE a <= b
  <2>1. MaxPacketSize * a <= MaxPacketSize * b
    BY <1>1, <1>2, SizeFacts
  <2> QED
    BY <1>1, <2>1, LastCountIsLast, SizeFacts
<1>3. CASE a > b
  <2>1. PICK c \in Nat : c = a - b
    BY <1>1, <1>3
  <2>2. n = HeaderSize + c * MaxPacketSize /\ n < SizeMod
    BY <1>1, <2>1, SizeFacts
  <2> QED
    BY <2>2, LastCountIsLast
<1> QED
  BY <1>1, <1>2, <1>3

-----------------------------------------------------------------------------
(* Reads *)

Streams == [file: {NoFile} \cup File(0..(SizeMod - 1)), pos: Nat, good: BOOLEAN]

\* A read leaves the stream behind what it took; it takes all it was asked for or
\* the stream is not good any more, and what is not good gives nothing.
LEMMA Reading ==
  ASSUME NEW s \in Streams, s.file # NoFile, NEW n \in Nat
  PROVE  /\ Taken(s, n) \in 0..n
         /\ AfterRead(s, n) \in Streams
         /\ AfterRead(s, n).file = s.file
         /\ AfterRead(s, n).pos = s.pos + Taken(s, n)
         /\ AfterRead(s, n).good => s.good /\ Taken(s, n) = n
         /\ Taken(s, n) > 0 => s.good
<1>1. s.file.len \in Nat /\ s.pos \in Nat /\ s.good \in BOOLEAN
  BY DEF Streams, File
<1>2. Available(s) \in Nat /\ (Available(s) > 0 => s.good)
  BY <1>1 DEF Available
<1>3. Taken(s, n) \in 0..n /\ (Taken(s, n) > 0 => s.good) /\ (n <= Available(s) => Taken(s, n) = n)
  BY <1>2 DEF Taken
<1>4. /\ AfterRead(s, n) = [s EXCEPT !.pos = s.pos + Taken(s, n),
                                     !.good = s.good /\ n <= Available(s)]
      /\ s.pos + Taken(s, n) \in Nat /\ (s.good /\ n <= Available(s)) \in BOOLEAN
  BY <1>1, <1>3 DEF AfterRead
<1> HIDE DEF AfterRead
<1> QED
  BY <1>3, <1>4 DEF Streams

\* A worker whose file declares no more than LastCount counts every byte once: a
\* full packet, or what is left.
LEMMA ReadsWithoutWrap ==
  ASSUME NEW c \in Nat, mTotalSize \in 0..LastCount,
         mExtracted = HeaderSize + c * MaxPacketSize, mExtracted < mTotalSize
  PROVE  LET n == CalculatedRead(MaxPacketSize)
         IN /\ n = IF mExtracted + MaxPacketSize <= mTotalSize THEN MaxPacketSize
                   ELSE mTotalSize - mExtracted
            /\ (mExtracted + n) % SizeMod = mExtracted + n
<1>1. c * MaxPacketSize \in Nat
  BY SizeFacts
<1>2. HeaderSize + (c + 1) * MaxPacketSize <= LastCount
  BY <1>1, LastCountIsLast, SizeFacts
<1>3. mExtracted \in Nat /\ mExtracted + MaxPacketSize < SizeMod
  BY <1>1, <1>2, LastCountIsLast, SizeFacts
<1>4. \A n \in Nat : n < SizeMod => n % SizeMod = n
  BY SizeFacts
<1>5. mTotalSize - mExtracted \in Nat /\ mTotalSize - mExtracted < SizeMod
      /\ mTotalSize < SizeMod /\ mExtracted + MaxPacketSize \in Nat /\ mTotalSize \in Nat
  BY <1>3, LastCountIsLast, SizeFacts
<1>6. CalculatedRead(MaxPacketSize) =
        IF mExtracted + MaxPacketSize <= mTotalSize THEN MaxPacketSize ELSE mTotalSize - mExtracted
  BY <1>3, <1>4, <1>5, SizeFacts DEF CalculatedRead
<1>7. mExtracted + CalculatedRead(MaxPacketSize) \in Nat
      /\ mExtracted + CalculatedRead(MaxPacketSize) < SizeMod
  BY <1>3, <1>5, <1>6, SizeFacts
<1> QED
  BY <1>4, <1>6, <1>7

\* A worker whose file declares more reads full packets only, and its count keeps
\* its distance to the header's size.
LEMMA ReadsWithWrap ==
  ASSUME mTotalSize \in 0..(SizeMod - 1), mTotalSize > LastCount,
         mExtracted \in 0..(SizeMod - 1),
         mExtracted % MaxPacketSize = HeaderSize % MaxPacketSize
  PROVE  /\ mExtracted < mTotalSize
         /\ CalculatedRead(MaxPacketSize) = MaxPacketSize
         /\ ((mExtracted + MaxPacketSize) % SizeMod) % MaxPacketSize
              = HeaderSize % MaxPacketSize
<1> DEFINE a == mExtracted \div MaxPacketSize  r == mExtracted % MaxPacketSize
           m == SizeMod \div MaxPacketSize
<1>1. mExtracted \in Nat /\ SizeMod \in Nat /\ MaxPacketSize \in Nat \ {0}
  BY SizeFacts
<1>2. /\ a \in Nat /\ m \in Nat /\ r \in 0..(MaxPacketSize - 1)
      /\ mExtracted = MaxPacketSize * a + r /\ SizeMod = MaxPacketSize * m
  <2>1. a \in Nat /\ r \in 0..(MaxPacketSize - 1) /\ mExtracted = MaxPacketSize * a + r
    BY <1>1, DivMod
  <2>2. m \in Nat /\ SizeMod = MaxPacketSize * m + (SizeMod % MaxPacketSize)
    BY <1>1, DivMod
  <2>3. SizeMod % MaxPacketSize = 0
    BY HandlerAssumption
  <2> HIDE DEF a, m, r
  <2> QED
    BY <1>1, <2>1, <2>2, <2>3
<1> HIDE DEF a, m, r
<1>3. r = HeaderSize % MaxPacketSize
  BY DEF r
<1>4. mExtracted <= LastCount
  BY CountsBelowLast
<1>5. CASE mExtracted + MaxPacketSize < SizeMod
  <2>1. mExtracted + MaxPacketSize = MaxPacketSize * (a + 1) + r
    BY <1>1, <1>2
  <2>2. (mExtracted + MaxPacketSize) % MaxPacketSize = r
    BY <1>1, <1>2, <2>1, DivUnique
  <2>3. (mExtracted + MaxPacketSize) % SizeMod = mExtracted + MaxPacketSize
    BY <1>1, <1>5
  <2>4. mExtracted + MaxPacketSize <= LastCount
    BY <1>1, <1>3, <1>5, <2>2, CountsBelowLast
  <2> QED
    BY <1>1, <1>3, <1>4, <2>2, <2>3, <2>4, LastCountIsLast DEF CalculatedRead
<1>6. CASE mExtracted + MaxPacketSize >= SizeMod
  <2>1. PICK n \in Nat : n = mExtracted + MaxPacketSize - SizeMod
    BY <1>1, <1>6
  <2>2. n < MaxPacketSize /\ n < SizeMod
    BY <1>1, <2>1, SizeFacts
  <2>3. mExtracted + MaxPacketSize = SizeMod * 1 + n /\ n \in 0..(SizeMod - 1)
    BY <1>1, <2>1, <2>2
  <2>4. (mExtracted + MaxPacketSize) % SizeMod = n
    BY <1>1, <2>3, DivUnique, SizeFacts
  <2>5. n = MaxPacketSize * (a + 1 - m) + r
    BY <1>1, <1>2, <2>1
  <2>6. n % MaxPacketSize = r
    BY <1>1, <1>2, <2>5, DivUnique
  <2>7. n <= mTotalSize
    BY <1>1, <2>2, LastCountIsLast, SizeFacts
  <2> QED
    BY <1>1, <1>3, <1>4, <2>4, <2>6, <2>7, LastCountIsLast DEF CalculatedRead
<1> QED
  BY <1>1, <1>5, <1>6

-----------------------------------------------------------------------------
(* The folder *)

\* A sequence over a set is one over a larger set.
LEMMA Widened ==
  ASSUME NEW V, NEW W, V \subseteq W, NEW s \in Seq(V)
  PROVE  s \in Seq(W)
<1>1. Len(s) \in Nat /\ DOMAIN s = 1..Len(s) /\ s = [k \in 1..Len(s) |-> s[k]]
      /\ \A k \in 1..Len(s) : s[k] \in V
  OBVIOUS
<1> QED
  BY <1>1

\* A sequence that is put behind one element.
LEMMA Prepended ==
  ASSUME NEW W, NEW x \in W, NEW s \in Seq(W)
  PROVE  /\ <<x>> \o s \in Seq(W) /\ Len(<<x>> \o s) = Len(s) + 1
         /\ (<<x>> \o s)[1] = x
         /\ \A k \in 2..(Len(s) + 1) : (<<x>> \o s)[k] = s[k - 1]
<1>1. <<x>> \in Seq(W) /\ Len(<<x>>) = 1 /\ <<x>>[1] = x /\ Len(s) \in Nat
  OBVIOUS
<1> QED
  BY <1>1

\* The songs made of entries are songs.
LEMMA EntryTypes ==
  ASSUME NEW e \in FolderEntry, rate(e) # 0
  PROVE  EntryOf(e) \in ListEntry /\ EntryOf(e).song = SongOf(e) /\ EntryOf(e).path.name = e.name
<1>1. /\ e.name \in Seq(Words) /\ e.name # <<>> /\ e.product \in Nat /\ e.file.declared \in Nat
      /\ e.name \in FileName
  BY SizeFacts DEF FolderEntry, FileName, File
<1>2. rate(e) \in Nat \ {0}
  <2>1. e.product % DwordMod \in Nat
    BY <1>1, ListAssumption
  <2>2. (e.product % DwordMod) \div 8 \in Nat
    BY <2>1
  <2> QED
    BY <2>2 DEF rate
<1>3. e.file.declared \div rate(e) \in Nat
  BY <1>1, <1>2, DivMod
<1>4. Head(e.name) \in Words /\ Tail(e.name) \in Seq(Words)
  BY <1>1
<1>5. <<"">> \o Tail(e.name) \in Seq(Words \cup {"", "Unknown"})
  <2> DEFINE W == Words \cup {"", "Unknown"}
  <2>1. Words \subseteq W /\ "" \in W
    OBVIOUS
  <2> HIDE DEF W
  <2>2. Tail(e.name) \in Seq(W)
    BY <1>4, <2>1, Widened
  <2>3. <<"">> \o Tail(e.name) \in Seq(W)
    BY <2>1, <2>2, Prepended
  <2> QED
    BY <2>3 DEF W
<1>6. SongOf(e) \in Song
  <2>1. <<"Unknown">> \in Seq(Words \cup {"", "Unknown"})
    OBVIOUS
  <2>2. (IF Len(e.name) = 1 THEN <<"Unknown">> ELSE <<"">> \o Tail(e.name))
          \in Seq(Words \cup {"", "Unknown"})
    BY <1>5, <2>1
  <2> QED
    BY <1>3, <1>4, <2>2 DEF SongOf, Song
<1> QED
  BY <1>1, <1>6 DEF EntryOf, ListEntry, Path

\* Two entries of the same song have the same name.
LEMMA SongsDiffer ==
  ASSUME NEW d \in FolderEntry, NEW e \in FolderEntry, SongOf(d) = SongOf(e)
  PROVE  d.name = e.name
<1> DEFINE artist(n) == IF Len(n) = 1 THEN <<"Unknown">> ELSE <<"">> \o Tail(n)
<1>1. /\ d.name \in Seq(Words) /\ d.name # <<>>
      /\ e.name \in Seq(Words) /\ e.name # <<>>
  BY DEF FolderEntry, FileName
<1>2. Head(d.name) = Head(e.name) /\ artist(d.name) = artist(e.name)
  BY DEF SongOf
<1>3. ASSUME NEW n \in Seq(Words), n # <<>>
      PROVE  /\ Len(n) \in Nat \ {0}
             /\ Head(n) = n[1] /\ Tail(n) \in Seq(Words) /\ Len(Tail(n)) = Len(n) - 1
             /\ \A k \in 1..(Len(n) - 1) : Tail(n)[k] = n[k + 1]
  BY <1>3
<1>4. ASSUME NEW n \in Seq(Words), n # <<>>, Len(n) # 1
      PROVE  /\ Len(artist(n)) = Len(n) /\ artist(n)[1] = ""
             /\ \A k \in 2..Len(n) : artist(n)[k] = n[k]
  <2>1. Tail(n) \in Seq(Words) /\ Len(Tail(n)) = Len(n) - 1 /\ Len(n) \in Nat
        /\ \A k \in 1..(Len(n) - 1) : Tail(n)[k] = n[k + 1]
    BY <1>3, <1>4
  <2>2. artist(n) = <<"">> \o Tail(n)
    BY <1>4
  <2> HIDE DEF artist
  <2> DEFINE W == Words \cup {""}
  <2>3. Words \subseteq W /\ "" \in W
    OBVIOUS
  <2> HIDE DEF W
  <2>4. Tail(n) \in Seq(W)
    BY <2>1, <2>3, Widened
  <2>5. /\ Len(<<"">> \o Tail(n)) = Len(Tail(n)) + 1 /\ (<<"">> \o Tail(n))[1] = ""
        /\ \A k \in 2..(Len(Tail(n)) + 1) : (<<"">> \o Tail(n))[k] = Tail(n)[k - 1]
    <3>1. PICK x \in W : x = ""
      BY <2>3
    <3>2. /\ Len(<<x>> \o Tail(n)) = Len(Tail(n)) + 1 /\ (<<x>> \o Tail(n))[1] = x
          /\ \A k \in 2..(Len(Tail(n)) + 1) : (<<x>> \o Tail(n))[k] = Tail(n)[k - 1]
      BY <2>4, Prepended
    <3> QED
      BY <3>1, <3>2
  <2>6. Len(Tail(n)) + 1 = Len(n)
        /\ \A k \in 2..Len(n) : k - 1 \in 1..(Len(n) - 1) /\ (k - 1) + 1 = k
    BY <2>1
  <2>7. Len(artist(n)) = Len(n) /\ artist(n)[1] = ""
    BY <2>2, <2>5, <2>6
  <2>8. ASSUME NEW k \in 2..Len(n)
        PROVE  artist(n)[k] = n[k]
    <3>1. artist(n)[k] = Tail(n)[k - 1]
      BY <2>2, <2>5, <2>6
    <3>2. Tail(n)[k - 1] = n[k]
      BY <2>1, <2>6
    <3> QED
      BY <3>1, <3>2
  <2> QED
    BY <2>7, <2>8
<1>5. CASE Len(d.name) = 1
  <2>1. Len(e.name) = 1
    BY <1>1, <1>2, <1>4, <1>5
  <2> QED
    BY <1>1, <1>2, <1>3, <1>5, <2>1
<1>6. CASE Len(d.name) # 1
  <2>1. Len(e.name) # 1
    BY <1>1, <1>2, <1>4, <1>6
  <2>2. Len(d.name) = Len(e.name)
    BY <1>1, <1>2, <1>4, <1>6, <2>1
  <2>3. d.name[1] = e.name[1]
    BY <1>1, <1>2, <1>3
  <2>4. \A k \in 2..Len(d.name) : d.name[k] = artist(d.name)[k]
    BY <1>1, <1>4, <1>6
  <2>5. \A k \in 2..Len(d.name) : e.name[k] = artist(e.name)[k]
    BY <1>1, <1>4, <2>1, <2>2
  <2>6. Len(d.name) \in Nat
    BY <1>1
  <2> HIDE DEF artist
  <2>7. \A k \in 1..Len(d.name) : d.name[k] = e.name[k]
    BY <1>2, <2>3, <2>4, <2>5, <2>6
  <2> QED
    BY <1>1, <2>2, <2>7
<1> QED
  BY <1>5, <1>6

\* Every further entry is one song more or none.
LEMMA SongsCount ==
  ASSUME NEW n \in Nat
  PROVE  /\ SongsUpTo(0) = 0 /\ SongsUpTo(n) \in 0..n
         /\ SongsUpTo(n + 1) = SongsUpTo(n) + IF Listed(disk.folder[n + 1]) THEN 1 ELSE 0
<1> DEFINE S(m) == {k \in 1..m : Listed(disk.folder[k])}
<1>1. S(0) = {} /\ Cardinality({}) = 0
  BY FS_EmptySet
<1>2. /\ IsFiniteSet(1..n) /\ Cardinality(1..n) = n
  BY FS_Interval
<1>3. IsFiniteSet(S(n)) /\ Cardinality(S(n)) \in Nat /\ Cardinality(S(n)) <= n
  BY <1>2, FS_Subset, FS_CardinalityType
<1>4. n + 1 \notin S(n)
  OBVIOUS
<1>5. S(n + 1) = IF Listed(disk.folder[n + 1]) THEN S(n) \cup {n + 1} ELSE S(n)
  OBVIOUS
<1>6. Cardinality(S(n) \cup {n + 1}) = Cardinality(S(n)) + 1
  BY <1>3, <1>4, FS_AddElement
<1> HIDE DEF S
<1>7. Cardinality(S(n + 1)) = Cardinality(S(n)) + IF Listed(disk.folder[n + 1]) THEN 1 ELSE 0
  BY <1>3, <1>5, <1>6
<1> QED
  BY <1>1, <1>3, <1>7 DEF SongsUpTo, S

-----------------------------------------------------------------------------
(* The invariant *)

\* The list when the first n entries of the folder have been read: each song has
\* its place, and each place its song.
ListMade(n) ==
  /\ n \in 0..Len(disk.folder)
  /\ Len(fileList) = SongsUpTo(n)
  /\ \A k \in 1..n : Listed(disk.folder[k]) =>
       SongsUpTo(k) \in DOMAIN fileList /\ fileList[SongsUpTo(k)] = EntryOf(disk.folder[k])
  /\ \A j \in DOMAIN fileList : \E k \in 1..n :
       /\ Listed(disk.folder[k]) /\ rate(disk.folder[k]) # 0 /\ SongsUpTo(k) = j
       /\ fileList[j] = EntryOf(disk.folder[k])

Listing ==
  /\ pc = "populate" => asked = NoSong /\ \E n \in Nat : i = n + 1 /\ ListMade(n)
  /\ pc = "ended" /\ asked = NoSong => \E e \in Range(disk.folder) : EndsProcess(e)
  /\ pc = "ended" /\ asked # NoSong => ~Terminated(asked)
  /\ pc \notin {"populate", "ended"} => \E n \in Nat : n = Len(disk.folder) /\ ListMade(n)
  /\ pc \in {"populate", "ended", "find", "open", "header"} => out = <<>>
  /\ pc = "open" => index \in indexOf(fileList, asked, IndexGarbage)

\* c data packets have been queued.  They were full, or the last of them took
\* what was left of the file.
Counted(c) ==
  /\ Len(out) = c + 1
  /\ \/ /\ mExtracted = HeaderSize + c * MaxPacketSize
        /\ c = 0 \/ mExtracted <= mTotalSize
     \/ /\ c > 0 /\ mExtracted = mTotalSize
        /\ HeaderSize + (c - 1) * MaxPacketSize < mTotalSize
        /\ mTotalSize < HeaderSize + c * MaxPacketSize

\* What the worker that sends a file has counted, and where its stream is.
Sending ==
  /\ pc \in {"header", "chunk"} /\ mHeader = "zero" => mTotalSize = 0
  /\ pc = "header" =>
       /\ mExtracted = HeaderSize /\ mOpenFile.pos <= HeaderSize
       /\ mOpenFile.good /\ mHeader = "read" => mOpenFile.pos = HeaderSize
  /\ pc = "chunk" =>
       /\ out # <<>>
       /\ mOpenFile.good /\ mHeader = "read" => mOpenFile.pos >= HeaderSize
       /\ \A k \in DOMAIN out : out[k].kind = IF k = 1 THEN "header" ELSE "data"
       /\ IF Len(out) = 1
            THEN mOpenFile.good /\ mHeader = "read" => mOpenFile.pos = 2 * HeaderSize
            ELSE mOpenFile.pos = out[Len(out)].from + out[Len(out)].valid
       /\ IF mTotalSize > LastCount
            THEN mExtracted % MaxPacketSize = HeaderSize % MaxPacketSize
            ELSE /\ \E c \in Nat : Counted(c)
                 /\ mOpenFile.pos <= mExtracted + HeaderSize
                 /\ mOpenFile.good /\ mHeader = "read" => mOpenFile.pos = mExtracted + HeaderSize
                 /\ \A k \in DOMAIN out : /\ k \in DOMAIN FileAnswer(mTotalSize)
                                          /\ out[k].size = FileAnswer(mTotalSize)[k]

\* What the worker that packs the list has packed: full packets, and byteArray.
Packing ==
  pc = "pack" =>
    /\ i \in 1..(Len(fileList) + 1)
    /\ i - 1 = FullPacket * Len(out) + Len(held)
    /\ Len(held) <= FullPacket /\ (Len(held) = 0 => i = 1)
    /\ \A k \in DOMAIN out : out[k].kind = "list" /\ out[k].size = SongSize * FullPacket

HandlerInv ==
  /\ TypeOK /\ Listing /\ Sending /\ Packing
  /\ PacketSizes /\ DataInOrder /\ SongsInOrder

\* What is known of the handler's disk.
LEMMA DiskFacts ==
  ASSUME TypeOK
  PROVE  /\ disk.folder \in Seq(FolderEntry) /\ Len(disk.folder) \in Nat
         /\ DOMAIN disk.folder = 1..Len(disk.folder)
         /\ \A k \in 1..Len(disk.folder) :
              /\ disk.folder[k] \in FolderEntry
              /\ Behind([where |-> "beside", name |-> disk.folder[k].name])
                   \in File(0..(SizeMod - 1))
              /\ \A j \in 1..Len(disk.folder) :
                   disk.folder[j].name = disk.folder[k].name => j = k
<1>1. IsDisk(disk)
  BY HandlerAssumption DEF TypeOK
<1> QED
  BY <1>1 DEF IsDisk, Behind

-----------------------------------------------------------------------------
(* The list *)

\* One more entry of the folder.
LEMMA EntryRead ==
  ASSUME TypeOK, NEW n \in Nat, i = n + 1, ListMade(n), Populate, pc' = "populate"
  PROVE  ListMade(n + 1)' /\ fileList' \in Seq(ListEntry)
<1> DEFINE e == disk.folder[n + 1]
<1>1. /\ n + 1 \in 1..Len(disk.folder) /\ e \in FolderEntry /\ disk' = disk
      /\ Listed(e) => rate(e) # 0
      /\ fileList' = IF Listed(e) THEN Append(fileList, EntryOf(e)) ELSE fileList
  BY DiskFacts DEF Populate, EndsProcess
<1>2. /\ SongsUpTo(n + 1) = SongsUpTo(n) + IF Listed(e) THEN 1 ELSE 0
      /\ SongsUpTo(n) \in Nat
  BY SongsCount DEF e
<1>3. \A k : SongsUpTo(k)' = SongsUpTo(k)
  BY <1>1 DEF SongsUpTo
<1>4. fileList \in Seq(ListEntry) /\ Len(fileList) = SongsUpTo(n)
  BY DEF TypeOK, ListMade
<1> HIDE DEF e
<1>5. CASE ~Listed(e)
  <2>1. fileList' = fileList
    BY <1>1, <1>5
  <2>2. \A k \in 1..(n + 1) : Listed(disk.folder[k]) => k \in 1..n
    BY <1>5 DEF e
  <2>3. \A k \in 1..n : k \in 1..(n + 1)
    OBVIOUS
  <2> QED
    BY <1>1, <1>2, <1>4, <1>5, <1>3, <2>1, <2>2, <2>3 DEF ListMade
<1>6. CASE Listed(e)
  <2>1. EntryOf(e) \in ListEntry
    BY <1>1, <1>6, EntryTypes
  <2>2. /\ fileList' = Append(fileList, EntryOf(e)) /\ fileList' \in Seq(ListEntry)
        /\ Len(fileList') = Len(fileList) + 1
        /\ SongsUpTo(n + 1) = Len(fileList')
        /\ Len(fileList') \in DOMAIN fileList' /\ fileList'[Len(fileList')] = EntryOf(e)
        /\ \A j \in DOMAIN fileList : j \in DOMAIN fileList' /\ fileList'[j] = fileList[j]
        /\ \A j \in DOMAIN fileList' : j \in DOMAIN fileList \/ j = Len(fileList')
    BY <1>1, <1>2, <1>4, <1>6, <2>1
  <2>3. \A k \in 1..(n + 1) : Listed(disk.folder[k]) =>
          SongsUpTo(k) \in DOMAIN fileList' /\ fileList'[SongsUpTo(k)] = EntryOf(disk.folder[k])
    <3> SUFFICES ASSUME NEW k \in 1..(n + 1), Listed(disk.folder[k])
                 PROVE  /\ SongsUpTo(k) \in DOMAIN fileList'
                        /\ fileList'[SongsUpTo(k)] = EntryOf(disk.folder[k])
      OBVIOUS
    <3>1. CASE k = n + 1
      BY <2>2, <3>1 DEF e
    <3>2. CASE k \in 1..n
      BY <2>2, <3>2 DEF ListMade
    <3> QED
      BY <3>1, <3>2
  <2>4. ASSUME NEW j \in DOMAIN fileList'
        PROVE  \E k \in 1..(n + 1) :
                 /\ Listed(disk.folder[k]) /\ rate(disk.folder[k]) # 0 /\ SongsUpTo(k) = j
                 /\ fileList'[j] = EntryOf(disk.folder[k])
    <3>1. CASE j = Len(fileList')
      BY <1>1, <1>6, <2>2, <3>1 DEF e
    <3>2. CASE j \in DOMAIN fileList
      <4>1. PICK k \in 1..n : /\ Listed(disk.folder[k]) /\ rate(disk.folder[k]) # 0
                              /\ SongsUpTo(k) = j /\ fileList[j] = EntryOf(disk.folder[k])
        BY <3>2 DEF ListMade
      <4> QED
        BY <2>2, <3>2, <4>1
    <3> QED
      BY <2>2, <3>1, <3>2
  <2> QED
    <3>1. n + 1 \in 0..Len(disk'.folder) /\ Len(fileList') = SongsUpTo(n + 1)'
      BY <1>1, <1>2, <1>3, <2>2
    <3>2. \A k \in 1..(n + 1) : Listed(disk'.folder[k]) =>
            SongsUpTo(k)' \in DOMAIN fileList' /\ fileList'[SongsUpTo(k)'] = EntryOf(disk'.folder[k])
      BY <1>1, <1>3, <2>3
    <3>3. \A j \in DOMAIN fileList' : \E k \in 1..(n + 1) :
            /\ Listed(disk'.folder[k]) /\ rate(disk'.folder[k]) # 0 /\ SongsUpTo(k)' = j
            /\ fileList'[j] = EntryOf(disk'.folder[k])
      BY <1>1, <1>3, <2>4
    <3> QED
      BY <2>2, <3>1, <3>2, <3>3 DEF ListMade
<1> QED
  BY <1>5, <1>6

\* Every step keeps what is known of the list.
LEMMA ListingStep ==
  ASSUME TypeOK, Listing, [Next]_vars
  PROVE  Listing'
<1>1. CASE Populate
  <2>1. PICK n \in Nat : i = n + 1 /\ ListMade(n)
    BY <1>1 DEF Populate, Listing
  <2>2. /\ out' = <<>> /\ i' = (n + 1) + 1 /\ n + 1 \in Nat
        /\ pc' \in {"populate", "ended"} /\ asked' = NoSong
    BY <1>1, <2>1 DEF Populate, Listing
  <2>3. CASE pc' = "populate"
    BY <1>1, <2>1, <2>2, <2>3, EntryRead DEF Listing
  <2>4. CASE pc' = "ended"
    <3>1. disk' = disk /\ i \in DOMAIN disk.folder /\ EndsProcess(disk.folder[i])
      BY <1>1, <2>1, <2>4, DiskFacts DEF Populate
    <3> QED
      BY <2>2, <2>4, <3>1 DEF Listing, Range
  <2> QED
    BY <2>2, <2>3, <2>4
<1>2. CASE Constructed
  <2>1. PICK n \in Nat : i = n + 1 /\ ListMade(n)
    BY <1>2 DEF Constructed, Listing
  <2>2. n = Len(disk.folder)
    BY <1>2, <2>1, DiskFacts DEF Constructed, ListMade
  <2>3. ListMade(n)'
    BY <1>2, <2>1, ZenonT(30) DEF Constructed, ListMade, SongsUpTo
  <2> QED
    BY <1>2, <2>2, <2>3 DEF Constructed, Listing
<1>3. CASE ~Populate /\ ~Constructed
  <2>1. UNCHANGED <<disk, fileList>>
    BY <1>3 DEF Next, Work, HandleFileList, HandleTrack, IndexOf, NotFound, Open, SendHeader,
       SendChunk, CloseFile, PackSong, PackLast, vars, handlerVars
  <2>2. \A n : ListMade(n) => ListMade(n)'
    BY <2>1, ZenonT(30) DEF ListMade, SongsUpTo
  <2>3. \/ pc \in {"populate", "ended"} /\ UNCHANGED <<pc, i, out>>
           /\ asked' = asked
        \/ pc \notin {"populate", "ended"} /\ pc' \notin {"populate", "ended"}
        \/ pc' = "ended" /\ out' = <<>> /\ asked' \in Songs /\ ~Terminated(asked')
    BY <1>3 DEF Next, Work, HandleFileList, HandleTrack, IndexOf, NotFound, Open, SendHeader,
       SendChunk, CloseFile, PackSong, PackLast, vars, handlerVars
  <2>4. pc' \in {"find", "open", "header"} => out' = <<>>
    BY <1>3 DEF Next, Work, HandleFileList, HandleTrack, IndexOf, NotFound, Open, SendHeader,
       SendChunk, CloseFile, PackSong, PackLast, vars, handlerVars, Listing
  <2>5. pc' = "open" => index' \in indexOf(fileList, asked', IndexGarbage)
    BY <1>3 DEF Next, Work, HandleFileList, HandleTrack, IndexOf, NotFound, Open, SendHeader,
       SendChunk, CloseFile, PackSong, PackLast, vars, handlerVars, Listing
  <2>6. pc' = "open" => (index \in indexOf(fileList, asked, IndexGarbage))'
    BY <2>1, <2>5 DEF indexOf, Matches
  <2>7. NoSong \notin Songs
    BY HandlerAssumption
  <2> QED
    BY <2>1, <2>2, <2>3, <2>4, <2>6, <2>7 DEF Listing
<1> QED
  BY <1>1, <1>2, <1>3

-----------------------------------------------------------------------------
(* Sending a file *)

\* How many data packets a file that declares n bytes takes.
Chunks(n) ==
  IF n > HeaderSize THEN ((n - HeaderSize) + MaxPacketSize - 1) \div MaxPacketSize ELSE 0

\* The sizes that are planned for a file.
LEMMA FileAnswerShape ==
  ASSUME NEW n \in Nat
  PROVE  /\ Chunks(n) \in Nat
         /\ FileAnswer(n) \in Seq(Int) /\ Len(FileAnswer(n)) = Chunks(n) + 1
         /\ DOMAIN FileAnswer(n) = 1..(Chunks(n) + 1)
         /\ FileAnswer(n)[1] = HeaderSize
         /\ \A c \in 1..Chunks(n) :
              FileAnswer(n)[c + 1] = IF c * MaxPacketSize <= n - HeaderSize THEN MaxPacketSize
                                     ELSE n - HeaderSize - (c - 1) * MaxPacketSize
         /\ \A c \in Nat : c >= Chunks(n) <=> HeaderSize + c * MaxPacketSize >= n
<1>1. \A c \in Int : c * MaxPacketSize \in Int
  BY SizeFacts
<1>2. CASE n > HeaderSize
  <2> DEFINE m == n - HeaderSize
             L == (m + MaxPacketSize - 1) \div MaxPacketSize
             C == Cut(m, MaxPacketSize)
  <2>1. m \in Nat /\ m + MaxPacketSize - 1 \in Nat /\ Chunks(n) = L
    BY <1>2, SizeFacts DEF Chunks
  <2>2. L \in Nat
    BY <2>1, DivMod, SizeFacts
  <2>3. C = [k \in 1..L |-> IF k * MaxPacketSize <= m THEN MaxPacketSize
                            ELSE m - (k - 1) * MaxPacketSize]
    BY DEF Cut
  <2>4. \A c \in Nat : c >= L <=> c * MaxPacketSize >= m
    BY <2>1, CeilDiv, SizeFacts
  <2>5. FileAnswer(n) = <<HeaderSize>> \o C
    BY <1>2 DEF FileAnswer
  <2>6. m = n - HeaderSize
    OBVIOUS
  <2> HIDE DEF m, L, C
  <2>7. C \in Seq(Int) /\ Len(C) = L /\ \A k \in 1..L : C[k] =
          IF k * MaxPacketSize <= m THEN MaxPacketSize ELSE m - (k - 1) * MaxPacketSize
    BY <1>1, <2>1, <2>2, <2>3, SizeFacts
  <2>8. /\ FileAnswer(n) \in Seq(Int) /\ Len(FileAnswer(n)) = L + 1
        /\ FileAnswer(n)[1] = HeaderSize
        /\ \A k \in 2..(L + 1) : FileAnswer(n)[k] = C[k - 1]
    BY <2>5, <2>7, Prepended, SizeFacts
  <2>9. \A c \in 1..L : c + 1 \in 2..(L + 1) /\ (c + 1) - 1 = c
    BY <2>2
  <2>10. \A c \in Nat : c * MaxPacketSize >= m <=> HeaderSize + c * MaxPacketSize >= n
    BY <1>1, <2>1, <2>6, SizeFacts
  <2>11. \A c \in 1..L : FileAnswer(n)[c + 1] = C[c]
    BY <2>8, <2>9
  <2> QED
    BY <2>1, <2>2, <2>4, <2>6, <2>7, <2>8, <2>10, <2>11
<1>3. CASE n <= HeaderSize
  <2>0. ~(n > HeaderSize)
    BY <1>3, SizeFacts
  <2>1. Chunks(n) = 0 /\ FileAnswer(n) = <<HeaderSize>> \o <<>>
    BY <2>0, Zenon DEF Chunks, FileAnswer
  <2>2. <<>> \in Seq(Int) /\ Len(<<>>) = 0
    OBVIOUS
  <2>3. FileAnswer(n) \in Seq(Int) /\ Len(FileAnswer(n)) = 1 /\ FileAnswer(n)[1] = HeaderSize
    BY <2>1, <2>2, Prepended, SizeFacts
  <2>4. \A c \in Nat : c * MaxPacketSize >= 0
    BY SizeFacts
  <2> QED
    BY <1>1, <1>3, <2>1, <2>3, <2>4, SizeFacts
<1> QED
  BY <1>2, <1>3, SizeFacts

\* What openFile leaves behind.
LEMMA Opening ==
  ASSUME NEW f \in File(0..(SizeMod - 1)), openFile(f)
  PROVE  /\ mOpenFile' \in Streams /\ (f.opens => mOpenFile'.file # NoFile)
         /\ mOpenFile'.pos <= HeaderSize
         /\ mOpenFile'.good /\ mHeader' = "read" => mOpenFile'.pos = HeaderSize
         /\ mHeader' \in {"zero", "read"} /\ (mHeader' = "zero" => mTotalSize' = 0)
         /\ mTotalSize' \in 0..(SizeMod - 1) /\ mExtracted' = HeaderSize
<1> DEFINE s == [file |-> IF f.opens THEN f ELSE NoFile, pos |-> 0, good |-> f.opens]
<1>1. f # NoFile /\ f.opens \in BOOLEAN /\ f.declared \in 0..(SizeMod - 1)
  BY PackagerAssumption DEF File
<1>2. s \in Streams /\ (f.opens => s.file = f) /\ s.pos = 0
  BY <1>1 DEF Streams
<1>3. /\ mOpenFile' = IF processWavFile(f) THEN AfterRead(s, HeaderSize) ELSE s
      /\ mHeader' = IF processWavFile(f) THEN "read" ELSE "zero"
      /\ mTotalSize' = IF processWavFile(f) THEN f.declared ELSE 0
      /\ mExtracted' = HeaderSize
  BY DEF openFile
<1> HIDE DEF s
<1>4. CASE processWavFile(f)
  <2>1. f.opens /\ s.file # NoFile
    BY <1>1, <1>2, <1>4 DEF processWavFile
  <2>2. /\ Taken(s, HeaderSize) \in 0..HeaderSize
        /\ AfterRead(s, HeaderSize) \in Streams /\ AfterRead(s, HeaderSize).file = s.file
        /\ AfterRead(s, HeaderSize).pos = s.pos + Taken(s, HeaderSize)
        /\ AfterRead(s, HeaderSize).good => Taken(s, HeaderSize) = HeaderSize
    BY <1>2, <2>1, Reading, SizeFacts
  <2> QED
    BY <1>1, <1>2, <1>3, <1>4, <2>1, <2>2, SizeFacts
<1>5. CASE ~processWavFile(f)
  BY <1>1, <1>2, <1>3, <1>5, SizeFacts
<1> QED
  BY <1>4, <1>5

\* What the song that index is about opens is a file, or nothing.
LEMMA ListedFile ==
  ASSUME TypeOK, Listing, pc = "open", index \in 0..(Len(fileList) - 1)
  PROVE  Behind(fileList[index + 1].path) \in File(0..(SizeMod - 1))
<1>1. PICK n \in Nat : n = Len(disk.folder) /\ ListMade(n)
  BY DEF Listing
<1>2. index + 1 \in DOMAIN fileList
  BY DEF TypeOK
<1>3. PICK k \in 1..n : fileList[index + 1] = EntryOf(disk.folder[k])
  BY <1>1, <1>2 DEF ListMade
<1> QED
  BY <1>1, <1>3, DiskFacts DEF EntryOf

\* What getNextChunk does.
LEMMA ChunkRead ==
  ASSUME TypeOK, Sending, SendChunk,
         NEW n, n = CalculatedRead(MaxPacketSize)
  PROVE  /\ n \in 1..MaxPacketSize
         /\ Taken(mOpenFile, n) \in 0..n /\ (Taken(mOpenFile, n) > 0 => mOpenFile.good)
         /\ mOpenFile' \in Streams /\ mOpenFile'.file = mOpenFile.file
         /\ mOpenFile'.pos = mOpenFile.pos + Taken(mOpenFile, n)
         /\ mOpenFile'.good => mOpenFile.good /\ Taken(mOpenFile, n) = n
         /\ mExtracted' \in 0..(SizeMod - 1)
         /\ mTotalSize > LastCount => mExtracted' % MaxPacketSize = HeaderSize % MaxPacketSize
         /\ mTotalSize <= LastCount =>
              /\ mExtracted' = mExtracted + n
              /\ n = IF mExtracted + MaxPacketSize <= mTotalSize THEN MaxPacketSize
                     ELSE mTotalSize - mExtracted
              /\ \E c \in Nat : Len(out) = c + 1 /\ mExtracted = HeaderSize + c * MaxPacketSize
<1>1. /\ mTotalSize \in 0..(SizeMod - 1) /\ mExtracted \in 0..(SizeMod - 1)
      /\ mExtracted < mTotalSize /\ mExtracted' = (mExtracted + n) % SizeMod
      /\ mOpenFile' = AfterRead(mOpenFile, n) /\ mOpenFile \in Streams
      /\ mOpenFile.file # NoFile
  BY SizeFacts DEF SendChunk, getNextChunk, isFileComplete, TypeOK, isFileOpen, Streams
<1>2. CASE mTotalSize > LastCount
  <2>1. mExtracted % MaxPacketSize = HeaderSize % MaxPacketSize
    BY <1>2 DEF Sending, SendChunk
  <2>2. n = MaxPacketSize /\ mExtracted' % MaxPacketSize = HeaderSize % MaxPacketSize
    BY <1>1, <1>2, <2>1, ReadsWithWrap
  <2>3. n \in Nat /\ mExtracted + n \in Nat
    BY <1>1, <2>2, SizeFacts
  <2>4. mExtracted' \in 0..(SizeMod - 1)
    BY <1>1, <2>3, DivMod, SizeFacts
  <2>5. n \in Nat
    BY <2>3
  <2>7. /\ Taken(mOpenFile, n) \in 0..n /\ (Taken(mOpenFile, n) > 0 => mOpenFile.good)
        /\ mOpenFile' \in Streams /\ mOpenFile'.file = mOpenFile.file
        /\ mOpenFile'.pos = mOpenFile.pos + Taken(mOpenFile, n)
        /\ mOpenFile'.good => mOpenFile.good /\ Taken(mOpenFile, n) = n
    BY <1>1, <2>5, Reading
  <2> QED
    BY <1>1, <1>2, <2>2, <2>3, <2>4, <2>7, LastCountIsLast, SizeFacts
<1>3. CASE mTotalSize <= LastCount
  <2>1. PICK c \in Nat : Counted(c)
    BY <1>3, <1>1, LastCountIsLast DEF Sending, SendChunk
  <2>2. Len(out) = c + 1 /\ mExtracted = HeaderSize + c * MaxPacketSize
    BY <1>1, <2>1 DEF Counted
  <2>3. mTotalSize \in 0..LastCount
    BY <1>1, <1>3, LastCountIsLast
  <2>4. /\ n = IF mExtracted + MaxPacketSize <= mTotalSize THEN MaxPacketSize
               ELSE mTotalSize - mExtracted
        /\ mExtracted' = mExtracted + n
    BY <1>1, <2>2, <2>3, ReadsWithoutWrap
  <2>5. n \in 1..MaxPacketSize /\ mExtracted' \in 0..(SizeMod - 1)
    BY <1>1, <2>4, SizeFacts
  <2>6. n \in Nat
    BY <2>5
  <2>7. /\ Taken(mOpenFile, n) \in 0..n /\ (Taken(mOpenFile, n) > 0 => mOpenFile.good)
        /\ mOpenFile' \in Streams /\ mOpenFile'.file = mOpenFile.file
        /\ mOpenFile'.pos = mOpenFile.pos + Taken(mOpenFile, n)
        /\ mOpenFile'.good => mOpenFile.good /\ Taken(mOpenFile, n) = n
    BY <1>1, <2>6, Reading
  <2> QED
    BY <1>1, <1>3, <2>2, <2>4, <2>5, <2>7, LastCountIsLast, SizeFacts
<1> QED
  BY <1>1, <1>2, <1>3, LastCountIsLast

\* The steps keep the types.
LEMMA TypeStep ==
  ASSUME TypeOK, Listing, Sending, Packing, [Next]_vars
  PROVE  TypeOK'
<1> USE DEF packagerVars, push
<1>1. CASE Populate
  <2>1. UNCHANGED <<packagerVars, disk, asked, index, held, out>> /\ i' = i + 1
        /\ pc' \in {"populate", "ended"}
    BY <1>1 DEF Populate
  <2>2. fileList' \in Seq(ListEntry)
    <3>1. CASE pc' = "populate"
      BY <1>1, <3>1, EntryRead DEF Populate, Listing
    <3>2. CASE pc' # "populate"
      BY <1>1, <3>2 DEF Populate, TypeOK
    <3> QED
      BY <3>1, <3>2
  <2> QED
    BY <2>1, <2>2 DEF TypeOK
<1>2. CASE Constructed \/ NotFound \/ HandleFileList \/ \E song \in Songs : HandleTrack(song)
  <2>1. /\ UNCHANGED <<packagerVars, disk, fileList, index>>
        /\ asked' \in Songs \cup {NoSong} /\ i' \in Nat
        /\ pc' \in {"idle", "pack", "find", "ended"} /\ (pc' = "find" => asked' # NoSong)
    BY <1>2, HandlerAssumption DEF Constructed, NotFound, HandleFileList, HandleTrack, TypeOK
  <2>2. held' \in Seq(Song) /\ out' \in Seq(Packets)
    <3>1. (held' = held \/ held' = <<>>) /\ (out' = out \/ out' = <<>>)
      BY <1>2 DEF Constructed, NotFound, HandleFileList, HandleTrack
    <3>2. <<>> \in Seq(Song) /\ <<>> \in Seq(Packets)
      OBVIOUS
    <3> QED
      BY <3>1, <3>2 DEF TypeOK
  <2> QED
    BY <2>1, <2>2 DEF TypeOK
<1>3. CASE IndexOf
  <2>1. index' \in Int
    BY <1>3, HandlerAssumption DEF IndexOf, indexOf, Matches, TypeOK
  <2> QED
    BY <1>3, <2>1 DEF IndexOf, TypeOK
<1>4. CASE Open
  <2>1. PICK f \in File(0..(SizeMod - 1)) : f = Behind(fileList[index + 1].path)
    BY <1>4, ListedFile DEF Open
  <2>2. openFile(f) /\ pc' = (IF f.opens THEN "header" ELSE "idle")
        /\ UNCHANGED <<disk, fileList, asked, index, i, held, out>>
    BY <1>4, <2>1 DEF Open
  <2>3. /\ mOpenFile' \in Streams /\ (f.opens => mOpenFile'.file # NoFile)
        /\ mHeader' \in {"zero", "read"} /\ mTotalSize' \in 0..(SizeMod - 1)
        /\ mExtracted' = HeaderSize
    BY <2>2, Opening
  <2>4. mExtracted' \in 0..(SizeMod - 1) /\ pc' \in {"header", "idle"}
        /\ (pc' = "header" => mOpenFile'.file # NoFile)
    BY <2>2, <2>3, SizeFacts
  <2> QED
    BY <2>2, <2>3, <2>4 DEF TypeOK, Streams, isFileOpen
<1>5. CASE SendHeader
  <2>1. mOpenFile' \in Streams /\ mOpenFile'.file # NoFile
    BY <1>5, Reading, SizeFacts DEF SendHeader, getHeader, TypeOK, Streams, isFileOpen
  <2>2. out' \in Seq(Packets)
    BY <1>5 DEF SendHeader, TypeOK, Packets
  <2> QED
    BY <1>5, <2>1, <2>2 DEF SendHeader, getHeader, TypeOK, Streams, isFileOpen
<1>6. CASE SendChunk
  <2>1. PICK n : n = CalculatedRead(MaxPacketSize)
    OBVIOUS
  <2>2. /\ n \in 1..MaxPacketSize /\ Taken(mOpenFile, n) \in 0..n
        /\ mOpenFile' \in Streams /\ mOpenFile'.file = mOpenFile.file
        /\ mExtracted' \in 0..(SizeMod - 1)
    BY <1>6, <2>1, ChunkRead
  <2>3. out' = Append(out, [kind |-> "data", size |-> n, from |-> mOpenFile.pos,
                            valid |-> Taken(mOpenFile, n)])
    BY <1>6, <2>1 DEF SendChunk
  <2>4. n \in Nat /\ mOpenFile.pos \in Nat /\ Taken(mOpenFile, n) \in Nat
    BY <2>2, SizeFacts DEF TypeOK
  <2>5. [kind |-> "data", size |-> n, from |-> mOpenFile.pos, valid |-> Taken(mOpenFile, n)]
          \in Packets
    BY <2>4 DEF Packets
  <2>6. out' \in Seq(Packets)
    BY <2>3, <2>5 DEF TypeOK
  <2> QED
    BY <1>6, <2>2, <2>6 DEF SendChunk, getNextChunk, TypeOK, Streams, isFileOpen
<1>7. CASE CloseFile
  <2>1. mOpenFile' \in Streams
    BY <1>7 DEF CloseFile, closeFile, TypeOK, Streams
  <2> QED
    BY <1>7, <2>1 DEF CloseFile, closeFile, TypeOK, Streams
<1>8. CASE PackSong \/ PackLast
  <2>1. Used \in Nat
    BY SizeFacts DEF Used, TypeOK
  <2>2. [kind |-> "list", size |-> Used, songs |-> held] \in Packets
    BY <2>1 DEF Packets, TypeOK
  <2>3. Append(out, [kind |-> "list", size |-> Used, songs |-> held]) \in Seq(Packets)
    BY <2>2 DEF TypeOK
  <2>4. ASSUME PackSong
        PROVE  /\ fileList[i].song \in Song
               /\ <<fileList[i].song>> \in Seq(Song) /\ Append(held, fileList[i].song) \in Seq(Song)
    <3>1. i \in 1..Len(fileList)
      BY <2>4 DEF PackSong, TypeOK, Packing
    <3>2. fileList[i] \in ListEntry
      BY <3>1 DEF TypeOK
    <3>3. fileList[i].song \in Song
      BY <3>2 DEF ListEntry
    <3> QED
      BY <3>3 DEF TypeOK
  <2>5. held' \in Seq(Song) /\ out' \in Seq(Packets) /\ i' \in Nat
    <3>1. CASE PackLast
      BY <2>3, <3>1 DEF PackLast, TypeOK
    <3>2. CASE PackSong
      <4>1. i' = i + 1 /\ held' \in {<<fileList[i].song>>, Append(held, fileList[i].song)}
            /\ out' \in {out, Append(out, [kind |-> "list", size |-> Used, songs |-> held])}
        BY <3>2 DEF PackSong
      <4> QED
        <5>1. held' \in Seq(Song)
          BY <2>4, <3>2, <4>1
        <5>2. out' \in Seq(Packets)
          BY <2>3, <4>1 DEF TypeOK
        <5>3. i' \in Nat
          BY <4>1 DEF TypeOK
        <5> QED
          BY <5>1, <5>2, <5>3
    <3> QED
      BY <1>8, <3>1, <3>2
  <2> QED
    BY <1>8, <2>5 DEF PackSong, PackLast, TypeOK, isFileOpen
<1>9. CASE UNCHANGED vars
  BY <1>9 DEF vars, handlerVars, TypeOK, isFileOpen
<1> QED
  BY <1>1, <1>2, <1>3, <1>4, <1>5, <1>6, <1>7, <1>8, <1>9 DEF Next, Work

-----------------------------------------------------------------------------
(* The steps *)

Steady == PacketSizes /\ DataInOrder /\ SongsInOrder

\* Steps that begin, or that send nothing.
LEMMA NothingSent ==
  ASSUME out' = <<>>, pc' \notin {"header", "chunk", "pack"}
  PROVE  Sending' /\ Packing' /\ Steady'
<1>1. DOMAIN out' = {}
  OBVIOUS
<1> QED
  BY <1>1 DEF Sending, Packing, Steady, PacketSizes, DataInOrder, SongsInOrder

\* A file is opened, or not.
LEMMA OpenStep ==
  ASSUME HandlerInv, Open
  PROVE  Sending' /\ Packing' /\ Steady'
<1>1. out' = <<>> /\ DOMAIN out' = {} /\ pc' \in {"header", "idle"}
  BY DEF HandlerInv, Listing, Open
<1>2. PICK f \in File(0..(SizeMod - 1)) : openFile(f)
  BY ListedFile DEF Open, HandlerInv
<1>3. /\ mOpenFile'.pos <= HeaderSize
      /\ mOpenFile'.good /\ mHeader' = "read" => mOpenFile'.pos = HeaderSize
      /\ mHeader' = "zero" => mTotalSize' = 0
      /\ mExtracted' = HeaderSize
  BY <1>2, Opening
<1>4. Sending'
  BY <1>1, <1>3 DEF Sending
<1> QED
  BY <1>1, <1>4 DEF Packing, Steady, PacketSizes, DataInOrder, SongsInOrder

\* The header goes.
LEMMA HeaderStep ==
  ASSUME HandlerInv, SendHeader
  PROVE  Sending' /\ Packing' /\ Steady'
<1>1. /\ out = <<>> /\ out' = <<[kind |-> "header", size |-> HeaderSize]>>
      /\ pc = "header" /\ pc' = "chunk"
      /\ UNCHANGED <<mHeader, mTotalSize, mExtracted, fileList>>
  BY DEF HandlerInv, Listing, SendHeader, getHeader, push
<1>2. /\ Len(out') = 1 /\ DOMAIN out' = {1}
      /\ out'[1].kind = "header" /\ out'[1].size = HeaderSize
  BY <1>1
<1>3. /\ mHeader = "zero" => mTotalSize = 0
      /\ mExtracted = HeaderSize /\ mOpenFile.pos <= HeaderSize /\ mOpenFile.pos \in Nat
      /\ mOpenFile.good /\ mHeader = "read" => mOpenFile.pos = HeaderSize
      /\ mTotalSize \in Nat
  BY <1>1, SizeFacts DEF HandlerInv, Sending, TypeOK
<1>4. /\ mOpenFile'.pos = mOpenFile.pos + Taken(mOpenFile, HeaderSize)
      /\ Taken(mOpenFile, HeaderSize) \in 0..HeaderSize
      /\ mOpenFile'.good => mOpenFile.good /\ Taken(mOpenFile, HeaderSize) = HeaderSize
  BY <1>1, Reading, SizeFacts DEF SendHeader, getHeader, HandlerInv, TypeOK, Streams, isFileOpen
<1>5. /\ 1 \in DOMAIN FileAnswer(mTotalSize) /\ FileAnswer(mTotalSize)[1] = HeaderSize
  <2>1. /\ Chunks(mTotalSize) \in Nat
        /\ DOMAIN FileAnswer(mTotalSize) = 1..(Chunks(mTotalSize) + 1)
        /\ FileAnswer(mTotalSize)[1] = HeaderSize
    BY <1>3, FileAnswerShape, Zenon
  <2>2. 1 \in 1..(Chunks(mTotalSize) + 1)
    BY <2>1
  <2> QED
    BY <2>1, <2>2
<1>6. Counted(0)'
  BY <1>1, <1>2, <1>3, SizeFacts DEF Counted
<1>7. /\ mOpenFile'.pos <= mExtracted + HeaderSize
      /\ mOpenFile'.good /\ mHeader = "read" => mOpenFile'.pos = 2 * HeaderSize
      /\ mOpenFile'.good /\ mHeader = "read" => mOpenFile'.pos >= HeaderSize
  BY <1>3, <1>4, SizeFacts
<1>8. FileAnswer(mTotalSize)' = FileAnswer(mTotalSize)
  BY <1>1 DEF FileAnswer
<1>9. Sending'
  BY <1>1, <1>2, <1>3, <1>5, <1>6, <1>7, <1>8, SizeFacts DEF Sending
<1>10. Packing' /\ SongsInOrder' /\ DataInOrder'
  BY <1>1, <1>2 DEF Packing, SongsInOrder, DataInOrder
<1>11. PacketSizes'
  BY <1>2, SizeFacts DEF PacketSizes
<1> QED
  BY <1>9, <1>10, <1>11 DEF Steady

\* A chunk goes.
LEMMA ChunkStep ==
  ASSUME HandlerInv, SendChunk
  PROVE  Sending' /\ Packing' /\ Steady'
<1> DEFINE L == Len(out)  T == mTotalSize
<1>1. PICK n : n = CalculatedRead(MaxPacketSize)
  OBVIOUS
<1>2. PICK t : t = Taken(mOpenFile, n)
  OBVIOUS
<1>3. /\ n \in 1..MaxPacketSize /\ t \in 0..n /\ (t > 0 => mOpenFile.good)
      /\ mOpenFile'.pos = mOpenFile.pos + t
      /\ mOpenFile'.good => mOpenFile.good /\ t = n
      /\ T > LastCount => mExtracted' % MaxPacketSize = HeaderSize % MaxPacketSize
      /\ T <= LastCount =>
           /\ mExtracted' = mExtracted + n
           /\ n = IF mExtracted + MaxPacketSize <= T THEN MaxPacketSize ELSE T - mExtracted
           /\ \E c \in Nat : L = c + 1 /\ mExtracted = HeaderSize + c * MaxPacketSize
  BY <1>1, <1>2, ChunkRead DEF HandlerInv
<1>4. /\ out' = Append(out, [kind |-> "data", size |-> n, from |-> mOpenFile.pos, valid |-> t])
      /\ pc = "chunk" /\ pc' = "chunk" /\ mExtracted < T
      /\ UNCHANGED <<mHeader, mTotalSize, fileList>>
  <2>1. mExtracted \in Int /\ T \in Int
    BY SizeFacts DEF HandlerInv, TypeOK
  <2> QED
    BY <1>1, <1>2, <2>1 DEF SendChunk, getNextChunk, push, isFileComplete
<1>5. /\ L \in Nat /\ Len(out') = L + 1 /\ DOMAIN out' = DOMAIN out \cup {L + 1}
      /\ DOMAIN out = 1..L
      /\ out'[L + 1] = [kind |-> "data", size |-> n, from |-> mOpenFile.pos, valid |-> t]
      /\ \A k \in DOMAIN out : out'[k] = out[k]
  BY <1>4 DEF HandlerInv, TypeOK
<1>6. /\ out'[L + 1].kind = "data" /\ out'[L + 1].size = n
      /\ out'[L + 1].from = mOpenFile.pos /\ out'[L + 1].valid = t
  BY <1>5
<1>7. /\ T \in Nat /\ mExtracted \in Nat /\ mOpenFile.pos \in Nat
      /\ n \in Nat /\ t \in Nat /\ L > 0
      /\ mHeader = "read"
  <2>1. /\ T \in Nat /\ mExtracted \in Nat /\ mOpenFile.pos \in Nat /\ mHeader \in {"zero", "read"}
        /\ n \in Nat /\ t \in Nat
    BY <1>3, SizeFacts DEF HandlerInv, TypeOK
  <2>2. out # <<>> /\ (mHeader = "zero" => T = 0)
    BY <1>4 DEF HandlerInv, Sending
  <2>3. L # 0
    BY <1>5, <2>2 DEF HandlerInv, TypeOK
  <2> HIDE DEF L
  <2> QED
    BY <1>4, <1>5, <2>1, <2>2, <2>3
<1>8. /\ \A k \in DOMAIN out : out[k].kind = IF k = 1 THEN "header" ELSE "data"
      /\ L = 1 /\ mOpenFile.good => mOpenFile.pos = 2 * HeaderSize
      /\ L # 1 => mOpenFile.pos = out[L].from + out[L].valid
      /\ mOpenFile.good => mOpenFile.pos >= HeaderSize
  BY <1>4, <1>7 DEF HandlerInv, Sending
<1>9. T <= LastCount =>
        /\ mOpenFile.pos <= mExtracted + HeaderSize
        /\ mOpenFile.good => mOpenFile.pos = mExtracted + HeaderSize
        /\ \A k \in DOMAIN out : k \in DOMAIN FileAnswer(T) /\ out[k].size = FileAnswer(T)[k]
  BY <1>4, <1>7, LastCountIsLast DEF HandlerInv, Sending
<1>10. ASSUME T <= LastCount
       PROVE  /\ \E c \in Nat : Counted(c)'
              /\ mOpenFile'.pos <= mExtracted' + HeaderSize
              /\ mExtracted' <= T
              /\ mOpenFile'.good => mOpenFile'.pos = mExtracted' + HeaderSize
              /\ L + 1 \in DOMAIN FileAnswer(T) /\ n = FileAnswer(T)[L + 1]
  <2>1. PICK c \in Nat : L = c + 1 /\ mExtracted = HeaderSize + c * MaxPacketSize
    BY <1>3, <1>10
  <2>2. c * MaxPacketSize \in Nat /\ (c + 1) * MaxPacketSize = c * MaxPacketSize + MaxPacketSize
    BY SizeFacts
  <2>3. mExtracted' = mExtracted + n
        /\ n = IF mExtracted + MaxPacketSize <= T THEN MaxPacketSize ELSE T - mExtracted
    BY <1>3, <1>10
  <2>4. Counted(c + 1)'
    <3>1. Len(out') = (c + 1) + 1
      BY <1>5, <2>1
    <3>2. CASE mExtracted + MaxPacketSize <= T
      BY <1>4, <2>1, <2>2, <2>3, <3>1, <3>2, SizeFacts DEF Counted
    <3>3. CASE mExtracted + MaxPacketSize > T
      <4>1. mExtracted' = T /\ n = T - mExtracted
        BY <1>7, <2>3, <3>3, SizeFacts
      <4>2. /\ HeaderSize + ((c + 1) - 1) * MaxPacketSize < T
            /\ T < HeaderSize + (c + 1) * MaxPacketSize
        BY <1>4, <1>7, <2>1, <2>2, <3>3, SizeFacts
      <4> QED
        BY <1>4, <3>1, <4>1, <4>2 DEF Counted
    <3> QED
      BY <1>7, <3>2, <3>3, SizeFacts
  <2>5. mExtracted' <= T /\ mExtracted' \in Nat
    BY <1>3, <1>4, <1>7, <2>3, SizeFacts
  <2>6. ~(c >= Chunks(T)) /\ Chunks(T) \in Nat
    BY <1>4, <1>7, <2>1, FileAnswerShape
  <2>7. c + 1 \in 1..Chunks(T)
    BY <2>6
  <2>8. FileAnswer(T)[(c + 1) + 1] = IF (c + 1) * MaxPacketSize <= T - HeaderSize THEN MaxPacketSize
                                     ELSE T - HeaderSize - ((c + 1) - 1) * MaxPacketSize
    BY <1>7, <2>7, FileAnswerShape
  <2>9. n = FileAnswer(T)[L + 1]
    BY <1>7, <2>1, <2>2, <2>3, <2>8, SizeFacts
  <2>10. L + 1 \in DOMAIN FileAnswer(T)
    <3>1. DOMAIN FileAnswer(T) = 1..(Chunks(T) + 1)
      BY <1>7, FileAnswerShape, Zenon
    <3>2. L + 1 \in 1..(Chunks(T) + 1)
      BY <2>1, <2>6, <2>7
    <3> QED
      BY <3>1, <3>2
  <2>11. mOpenFile'.pos <= mExtracted' + HeaderSize
         /\ (mOpenFile'.good => mOpenFile'.pos = mExtracted' + HeaderSize)
    BY <1>3, <1>7, <1>9, <1>10, <2>3, SizeFacts, SMTT(30)
  <2> QED
    BY <2>4, <2>5, <2>9, <2>10, <2>11
<1>11. FileAnswer(T)' = FileAnswer(T)
  BY <1>4 DEF FileAnswer
<1> HIDE DEF L
<1>12. Sending'
  <2>1. \A k \in DOMAIN out' : out'[k].kind = IF k = 1 THEN "header" ELSE "data"
    BY <1>5, <1>6, <1>7, <1>8
  <2>2. Len(out') # 1 /\ mOpenFile'.pos = out'[Len(out')].from + out'[Len(out')].valid
    BY <1>3, <1>5, <1>6, <1>7
  <2>3. out' # <<>>
    BY <1>5, <1>7
  <2>4. T <= LastCount =>
          \A k \in DOMAIN out' : k \in DOMAIN FileAnswer(T) /\ out'[k].size = FileAnswer(T)[k]
    BY <1>5, <1>6, <1>9, <1>10
  <2>5. T > LastCount \/ T <= LastCount
    BY <1>7, LastCountIsLast
  <2>6. mOpenFile'.good => mOpenFile'.pos >= HeaderSize
    BY <1>3, <1>7, <1>8, SizeFacts
  <2> QED
    BY <1>3, <1>4, <1>7, <1>10, <1>11, <2>1, <2>2, <2>3, <2>4, <2>5, <2>6 DEF Sending
<1>13. PacketSizes'
  BY <1>3, <1>4, <1>5, <1>6 DEF PacketSizes, HandlerInv
<1>14. DataInOrder'
  <2>1. Wraps' <=> T > LastCount
    BY <1>4 DEF Wraps
  <2>2. Wraps <=> T > LastCount
    BY <1>4 DEF Wraps
  <2>3. ASSUME NEW k \in DOMAIN out, out'[k].kind = "data"
        PROVE  /\ k > 1 /\ (out'[k].valid > 0 => out'[k].from >= HeaderSize)
               /\ k > 2 => out'[k].from = out'[k-1].from + out'[k-1].valid
               /\ out'[k].from + out'[k].valid <= mTotalSize' + HeaderSize \/ Wraps'
    <3>1. out'[k] = out[k] /\ (k > 2 => k - 1 \in DOMAIN out /\ out'[k-1] = out[k-1])
      BY <1>5
    <3> QED
      BY <1>4, <2>1, <2>2, <2>3, <3>1 DEF HandlerInv, DataInOrder
  <2>4. /\ L + 1 > 1 /\ (t > 0 => mOpenFile.pos >= HeaderSize)
        /\ L + 1 > 2 => mOpenFile.pos = out'[(L + 1)-1].from + out'[(L + 1)-1].valid
    <3>1. (L + 1) - 1 = L /\ L \in DOMAIN out /\ out'[L] = out[L]
      BY <1>5, <1>7
    <3> QED
      BY <1>3, <1>5, <1>7, <1>8, <3>1
  <2>5. mOpenFile.pos + t <= T + HeaderSize \/ Wraps'
    <3>1. CASE T <= LastCount
      <4>1. mOpenFile'.pos <= mExtracted' + HeaderSize /\ mExtracted' <= T
            /\ mExtracted' = mExtracted + n /\ mOpenFile'.pos = mOpenFile.pos + t
        BY <1>3, <1>10, <3>1
      <4> QED
        BY <1>7, <4>1, SizeFacts
    <3> QED
      BY <1>7, <2>1, <3>1, LastCountIsLast
  <2>6. \A k \in DOMAIN out' : k \in DOMAIN out \/ k = L + 1
    BY <1>5
  <2> QED
    BY <1>4, <1>6, <2>3, <2>4, <2>5, <2>6 DEF DataInOrder
<1>15. SongsInOrder' /\ Packing'
  BY <1>4, <1>5, <1>6, <1>8 DEF SongsInOrder, Packing
<1> QED
  BY <1>12, <1>13, <1>14, <1>15 DEF Steady

\* A file whose count starts again is never complete.
LEMMA ClosedInTime ==
  ASSUME HandlerInv, CloseFile
  PROVE  ~(mTotalSize > LastCount)
<1> SUFFICES ASSUME mTotalSize > LastCount PROVE FALSE
  OBVIOUS
<1>1. /\ mExtracted >= mTotalSize
      /\ mExtracted % MaxPacketSize = HeaderSize % MaxPacketSize
      /\ mExtracted \in 0..(SizeMod - 1) /\ mTotalSize \in 0..(SizeMod - 1)
  BY DEF CloseFile, isFileComplete, HandlerInv, Sending, TypeOK
<1>2. mExtracted <= LastCount
  BY <1>1, CountsBelowLast
<1> QED
  BY <1>1, <1>2, LastCountIsLast, SizeFacts

\* The file is closed.
LEMMA CloseStep ==
  ASSUME HandlerInv, CloseFile
  PROVE  Sending' /\ Packing' /\ Steady'
<1>1. /\ pc = "chunk" /\ pc' = "idle"
      /\ UNCHANGED <<mTotalSize, fileList, out>>
  BY DEF CloseFile, closeFile
<1>2. ~(mTotalSize > LastCount)
  BY ClosedInTime
<1>3. ~Wraps /\ ~Wraps'
  BY <1>1, <1>2 DEF Wraps
<1>4. \A k \in DOMAIN out : out[k].kind # "list"
  BY <1>1 DEF HandlerInv, Sending
<1> QED
  BY <1>1, <1>3, <1>4 DEF HandlerInv, Sending, Packing, Steady, PacketSizes, DataInOrder,
     SongsInOrder

-----------------------------------------------------------------------------
(* Packing the list *)

\* A stretch of the list and the song behind it.
LEMMA StretchGrows ==
  ASSUME NEW a \in Nat, NEW n \in Nat
  PROVE  /\ Stretch(a, 0) = <<>>
         /\ Append(Stretch(a, n), fileList[a + n + 1].song) = Stretch(a, n + 1)
         /\ <<fileList[a + 1].song>> = Stretch(a, 1)
         /\ Len(Stretch(a, n)) = n
<1>1. Stretch(a, 0) = <<>>
  BY DEF Stretch
<1>2. Len(Stretch(a, n)) = n
  BY DEF Stretch
<1>3. Append(Stretch(a, n), fileList[a + n + 1].song) = Stretch(a, n + 1)
  <2> DEFINE s == [j \in 1..n |-> fileList[a + j].song]
  <2>1. s = [j \in 1..Len(s) |-> s[j]] /\ Len(s) = n
    OBVIOUS
  <2>2. Append(s, fileList[a + n + 1].song)
          = [j \in 1..(n + 1) |-> IF j \in 1..n THEN s[j] ELSE fileList[a + n + 1].song]
    BY <2>1
  <2>3. \A j \in 1..(n + 1) : j \in 1..n \/ j = n + 1
    OBVIOUS
  <2> QED
    BY <2>2, <2>3 DEF Stretch
<1>4. <<fileList[a + 1].song>> = Stretch(a, 1)
  BY DEF Stretch
<1> QED
  BY <1>1, <1>2, <1>3, <1>4

\* Where the loop is, in whole packets.
LEMMA PackedFacts ==
  ASSUME HandlerInv, pc = "pack"
  PROVE  /\ Len(out) \in Nat /\ Len(held) \in Nat /\ FullPacket * Len(out) \in Nat
         /\ FullPacket * (Len(out) + 1) = FullPacket * Len(out) + FullPacket
         /\ held = Stretch(FullPacket * Len(out), Len(held))
         /\ Used = SongSize * Len(held)
         /\ \A k \in 1..Len(out) :
              out[k].songs = Stretch(FullPacket * (k - 1), FullPacket)
<1>1. Len(out) \in Nat /\ Len(held) \in Nat /\ DOMAIN out = 1..Len(out)
  BY DEF HandlerInv, TypeOK
<1>2. FullPacket * Len(out) \in Nat
      /\ FullPacket * (Len(out) + 1) = FullPacket * Len(out) + FullPacket
  BY <1>1, SizeFacts
<1>3. i - 1 - FullPacket * Len(out) = Len(held)
  BY <1>1, <1>2 DEF HandlerInv, Packing
<1>4. \A k \in 1..Len(out) : out[k].songs = Stretch(FullPacket * (k - 1), FullPacket)
  BY <1>1 DEF HandlerInv, Packing, SongsInOrder
<1> QED
  BY <1>1, <1>2, <1>3, <1>4 DEF HandlerInv, SongsInOrder, Used

\* The request for the list is taken up.
LEMMA BeginPackStep ==
  ASSUME HandlerInv, HandleFileList
  PROVE  Sending' /\ Packing' /\ Steady'
<1>1. /\ out' = <<>> /\ held' = <<>> /\ i' = 1 /\ pc' = "pack" /\ UNCHANGED fileList
      /\ DOMAIN out' = {} /\ Len(out') = 0 /\ Len(held') = 0
  BY DEF HandleFileList
<1>2. Len(fileList) \in Nat /\ FullPacket * 0 = 0
  BY SizeFacts DEF HandlerInv, TypeOK
<1>3. Packing'
  <2>1. FullPacket * Len(out') = 0 /\ i' - 1 = 0 /\ i' \in 1..(Len(fileList') + 1)
    BY <1>1, <1>2
  <2>2. i' - 1 = FullPacket * Len(out') + Len(held') /\ Len(held') <= FullPacket
    BY <1>1, <2>1, SizeFacts
  <2> QED
    BY <1>1, <2>1, <2>2 DEF Packing
<1>4. held' = [j \in 1..(i' - 1 - FullPacket * Len(out')) |->
                 fileList'[FullPacket * Len(out') + j].song]
  <2>1. i' - 1 - FullPacket * Len(out') = 0
    BY <1>1, <1>2
  <2> QED
    BY <1>1, <2>1
<1>5. SongsInOrder'
  BY <1>1, <1>4 DEF SongsInOrder, Stretch
<1> QED
  BY <1>1, <1>3, <1>5 DEF Sending, Steady, PacketSizes, DataInOrder

\* A song is packed.
LEMMA PackStep ==
  ASSUME HandlerInv, PackSong
  PROVE  Sending' /\ Packing' /\ Steady'
<1> DEFINE L == Len(out)  h == Len(held)  sent == FullPacket * L  s == fileList[i].song
<1>1. /\ pc = "pack" /\ pc' = "pack" /\ i' = i + 1 /\ i <= Len(fileList) /\ UNCHANGED fileList
  BY DEF PackSong
<1>2. /\ L \in Nat /\ h \in Nat /\ sent \in Nat
      /\ FullPacket * (L + 1) = sent + FullPacket
      /\ held = Stretch(sent, h) /\ Used = SongSize * h
      /\ \A k \in 1..L : out[k].songs = Stretch(FullPacket * (k - 1), FullPacket)
  BY <1>1, PackedFacts
<1>3. /\ i \in 1..(Len(fileList) + 1) /\ i - 1 = sent + h /\ h <= FullPacket
      /\ (h = 0 => i = 1) /\ Len(fileList) \in Nat
      /\ \A k \in DOMAIN out : out[k].kind = "list" /\ out[k].size = SongSize * FullPacket
  BY <1>1 DEF HandlerInv, Packing, TypeOK
<1>4. Used + SongSize > MaxPacketSize <=> h = FullPacket
  <2>1. h \in Nat
    BY <1>2
  <2> HIDE DEF h
  <2>2. SongSize * h + SongSize > MaxPacketSize <=> h >= FullPacket
    BY <2>1, FullWhenFull
  <2>3. h >= FullPacket <=> h = FullPacket
    <3>1. FullPacket \in Nat /\ h <= FullPacket
      BY <1>3, SizeFacts
    <3> QED
      BY <2>1, <3>1
  <2>4. Used = SongSize * h
    BY <1>2
  <2> QED
    BY <2>2, <2>3, <2>4
<1>5. DOMAIN out = 1..L
  BY DEF HandlerInv, TypeOK
<1>6. held \in Seq(Song) /\ out \in Seq(Packets)
  BY DEF HandlerInv, TypeOK
<1>7. i = sent + h + 1
  BY <1>2, <1>3
<1>8. \A a, n : Stretch(a, n)' = Stretch(a, n)
  BY <1>1 DEF Stretch
<1> HIDE DEF L, h, sent
<1>9. CASE h = FullPacket
  <2>1. /\ held' = <<s>> /\ out' = Append(out, [kind |-> "list", size |-> Used, songs |-> held])
    BY <1>4, <1>9 DEF PackSong, push
  <2>2. /\ Len(held') = 1 /\ Len(out') = L + 1 /\ DOMAIN out' = 1..(L + 1)
        /\ out'[L + 1].kind = "list" /\ out'[L + 1].size = Used /\ out'[L + 1].songs = held
        /\ \A k \in 1..L : out'[k] = out[k]
    BY <1>2, <1>5, <1>6, <2>1 DEF L
  <2>3. i' - 1 = FullPacket * Len(out') + Len(held')
    BY <1>1, <1>2, <1>3, <1>9, <2>2, SizeFacts
  <2>4. Used = SongSize * FullPacket
    BY <1>2, <1>9
  <2>5. \A k \in DOMAIN out' : out'[k].kind = "list" /\ out'[k].size = SongSize * FullPacket
    BY <1>2, <1>3, <1>5, <2>2, <2>4
  <2>6. Packing'
    BY <1>1, <1>3, <2>2, <2>3, <2>5, SizeFacts DEF Packing
  <2>7. held' = Stretch(FullPacket * (L + 1), 1)
    <3>1. i = FullPacket * (L + 1) + 1 /\ FullPacket * (L + 1) \in Nat
      BY <1>2, <1>7, <1>9, SizeFacts
    <3> QED
      BY <2>1, <3>1, StretchGrows
  <2>8. \A k \in 1..(L + 1) : out'[k].songs = Stretch(FullPacket * (k - 1), FullPacket)
    <3>1. (L + 1) - 1 = L
      BY <1>2
    <3>2. out'[L + 1].songs = Stretch(FullPacket * ((L + 1) - 1), FullPacket)
      BY <1>2, <1>9, <2>2, <3>1 DEF sent
    <3>3. \A k \in 1..(L + 1) : k \in 1..L \/ k = L + 1
      BY <1>2
    <3> QED
      BY <1>2, <2>2, <3>2, <3>3
  <2>9. SongsInOrder'
    <3>1. i' - 1 - FullPacket * Len(out') = 1
      BY <1>1, <1>2, <1>3, <1>9, <2>2, SizeFacts
    <3>2. held' = [j \in 1..(i' - 1 - FullPacket * Len(out')) |->
                     fileList'[FullPacket * Len(out') + j].song]
      BY <1>1, <2>2, <2>7, <3>1 DEF Stretch
    <3>3. \A k \in DOMAIN out' : out'[k].songs =
            [j \in 1..FullPacket |-> fileList'[FullPacket * (k - 1) + j].song]
      BY <1>1, <2>2, <2>8 DEF Stretch
    <3> QED
      BY <1>1, <3>2, <3>3 DEF SongsInOrder, Stretch
  <2>10. PacketSizes' /\ DataInOrder' /\ Sending'
    BY <1>1, <2>5, SizeFacts DEF PacketSizes, DataInOrder, Sending
  <2> QED
    BY <2>6, <2>9, <2>10 DEF Steady
<1>10. CASE h # FullPacket
  <2>1. held' = Append(held, s) /\ out' = out
    BY <1>4, <1>10 DEF PackSong
  <2>2. Len(held') = h + 1 /\ Len(out') = L
    BY <1>6, <2>1 DEF h, L
  <2>3. /\ i' - 1 = sent + (h + 1) /\ h + 1 <= FullPacket /\ h + 1 # 0
    <3>1. i' = i + 1 /\ i \in Int /\ h \in Nat /\ sent \in Nat /\ i - 1 = sent + h
      BY <1>1, <1>2, <1>3
    <3>2. h <= FullPacket /\ h # FullPacket /\ FullPacket \in Nat
      BY <1>3, <1>10, SizeFacts
    <3> QED
      BY <3>1, <3>2
  <2>4. Packing'
    BY <1>1, <1>3, <2>1, <2>2, <2>3 DEF Packing, sent, L
  <2>5. held' = Stretch(sent, h + 1)
    BY <1>2, <1>7, <2>1, StretchGrows
  <2>6. SongsInOrder'
    <3>1. i' - 1 - sent = h + 1
      BY <1>2, <2>3
    <3>2. held' = [j \in 1..(i' - 1 - FullPacket * Len(out')) |->
                     fileList'[FullPacket * Len(out') + j].song]
      BY <1>1, <2>2, <2>5, <3>1 DEF Stretch, sent
    <3>3. \A k \in DOMAIN out' : out'[k].songs =
            [j \in 1..FullPacket |-> fileList'[FullPacket * (k - 1) + j].song]
      <4>1. ASSUME NEW k \in DOMAIN out'
            PROVE  out'[k].songs = Stretch(FullPacket * (k - 1), FullPacket)
        BY <1>2, <1>5, <2>1
      <4> QED
        BY <1>1, <4>1 DEF Stretch
    <3> QED
      BY <1>1, <3>2, <3>3 DEF SongsInOrder, Stretch
  <2>7. PacketSizes' /\ DataInOrder' /\ Sending'
    BY <1>1, <1>3, <2>1, SizeFacts DEF PacketSizes, DataInOrder, Sending
  <2> QED
    BY <2>4, <2>6, <2>7 DEF Steady
<1> QED
  BY <1>9, <1>10

\* The last packet of the list goes.
LEMMA LastStep ==
  ASSUME HandlerInv, PackLast
  PROVE  Sending' /\ Packing' /\ Steady'
<1> DEFINE L == Len(out)  h == Len(held)  sent == FullPacket * L
<1>1. /\ pc = "pack" /\ pc' = "idle" /\ UNCHANGED fileList
      /\ i > Len(fileList)
      /\ out' = Append(out, [kind |-> "list", size |-> Used, songs |-> held])
  BY DEF PackLast, push
<1>2. /\ L \in Nat /\ h \in Nat /\ sent \in Nat
      /\ held = Stretch(sent, h) /\ Used = SongSize * h
      /\ \A k \in 1..L : out[k].songs = Stretch(FullPacket * (k - 1), FullPacket)
  BY <1>1, PackedFacts
<1>3. /\ i \in 1..(Len(fileList) + 1) /\ i - 1 = sent + h /\ h <= FullPacket
      /\ (h = 0 => i = 1) /\ Len(fileList) \in Nat
      /\ \A k \in DOMAIN out : out[k].kind = "list" /\ out[k].size = SongSize * FullPacket
  BY <1>1 DEF HandlerInv, Packing, TypeOK
<1>4. DOMAIN out = 1..L /\ out \in Seq(Packets) /\ fileList \in Seq(ListEntry)
  BY DEF HandlerInv, TypeOK
<1>5. /\ Len(out') = L + 1 /\ DOMAIN out' = 1..(L + 1)
      /\ out'[L + 1].kind = "list" /\ out'[L + 1].size = Used /\ out'[L + 1].songs = held
      /\ \A k \in 1..L : out'[k] = out[k]
      /\ \A k \in 1..(L + 1) : k \in 1..L \/ k = L + 1
  BY <1>1, <1>2, <1>4
<1> HIDE DEF L, h
<1>6. Len(fileList) = sent + h
  BY <1>1, <1>2, <1>3
<1>7. PacketSizes'
  <2>1. Used <= MaxPacketSize
    <3>1. SongSize * h <= SongSize * FullPacket
      BY <1>2, <1>3, SizeFacts
    <3> QED
      BY <1>2, <3>1, SizeFacts
  <2>2. Used = 0 => h = 0
    BY <1>2, SizeFacts
  <2>3. h = 0 => L = 0 /\ fileList = <<>>
    <3> SUFFICES ASSUME h = 0 PROVE L = 0 /\ fileList = <<>>
      OBVIOUS
    <3>1. sent = 0 /\ Len(fileList) = 0
      BY <1>2, <1>3, <1>6
    <3> QED
      BY <1>2, <1>4, <3>1, SizeFacts
  <2> QED
    BY <1>1, <1>3, <1>4, <1>5, <2>1, <2>2, <2>3, SizeFacts DEF PacketSizes
<1>8. SongsInOrder'
  <2>1. ASSUME NEW k \in DOMAIN out'
        PROVE  out'[k].songs =
                 [j \in 1..(IF k < Len(out') THEN FullPacket
                            ELSE Len(fileList) - FullPacket * (k - 1)) |->
                    fileList'[FullPacket * (k - 1) + j].song]
    <3>1. CASE k \in 1..L
      <4>1. k < Len(out')
        BY <1>2, <1>5, <3>1
      <4> QED
        BY <1>1, <1>2, <1>5, <3>1, <4>1 DEF Stretch
    <3>2. CASE k = L + 1
      <4>1. ~(k < Len(out')) /\ k - 1 = L
        BY <1>2, <1>5, <3>2
      <4>2. FullPacket * (k - 1) = sent
        BY <4>1 DEF sent
      <4>3. Len(fileList) - sent = h
        BY <1>2, <1>6
      <4> QED
        BY <1>1, <1>2, <1>5, <3>2, <4>1, <4>2, <4>3 DEF Stretch
    <3> QED
      BY <1>5, <3>1, <3>2
  <2> QED
    BY <1>1, <2>1 DEF SongsInOrder, Stretch
<1>9. Sending' /\ Packing' /\ DataInOrder'
  <2>1. \A k \in DOMAIN out' : out'[k].kind = "list"
    BY <1>3, <1>4, <1>5
  <2> QED
    BY <1>1, <2>1 DEF Sending, Packing, DataInOrder
<1> QED
  BY <1>7, <1>8, <1>9 DEF Steady

\* The inductive invariant.
LEMMA HandlerInvariant == SafeSpec => []HandlerInv
<1>1. Init => HandlerInv
  <2> SUFFICES ASSUME Init PROVE HandlerInv
    OBVIOUS
  <2>1. disk \in Disks /\ IsDisk(disk)
    BY HandlerAssumption DEF Init
  <2>2. TypeOK
    <3>1. /\ mOpenFile \in [file: {NoFile} \cup File(0..(SizeMod - 1)), pos: Nat, good: BOOLEAN]
          /\ mHeader \in {"zero", "read"} /\ mTotalSize \in 0..(SizeMod - 1)
          /\ mExtracted \in 0..(SizeMod - 1)
      BY SizeFacts DEF Init, PackagerInit
    <3>2. fileList \in Seq(ListEntry) /\ held \in Seq(Song) /\ out \in Seq(Packets)
      BY DEF Init
    <3>3. asked = NoSong /\ index \in Int /\ i \in Nat /\ pc = "populate"
      BY DEF Init
    <3> QED
      BY <2>1, <3>1, <3>2, <3>3 DEF TypeOK
  <2>3. ListMade(0)
    <3>1. 0 \in 0..Len(disk.folder)
      BY <2>1 DEF IsDisk
    <3>2. Len(fileList) = 0 /\ DOMAIN fileList = {}
      BY DEF Init
    <3> QED
      BY <3>1, <3>2, SongsCount DEF ListMade
  <2>4. Listing
    BY <2>3 DEF Init, Listing
  <2>5. DOMAIN out = {} /\ pc = "populate"
    BY DEF Init
  <2> QED
    BY <2>2, <2>4, <2>5 DEF HandlerInv, Sending, Packing, PacketSizes, DataInOrder, SongsInOrder
<1>2. HandlerInv /\ [Next]_vars => HandlerInv'
  <2> SUFFICES ASSUME HandlerInv, [Next]_vars PROVE HandlerInv'
    OBVIOUS
  <2>1. TypeOK' /\ Listing'
    BY TypeStep, ListingStep DEF HandlerInv
  <2>2. CASE Populate \/ Constructed \/ IndexOf \/ NotFound \/ \E song \in Songs : HandleTrack(song)
    <3>1. out' = <<>> /\ pc' \notin {"header", "chunk", "pack"}
      BY <2>2 DEF Populate, Constructed, IndexOf, NotFound, HandleTrack, HandlerInv, Listing
    <3> QED
      BY <2>1, <3>1, NothingSent DEF HandlerInv, Steady
  <2>3. CASE UNCHANGED vars
    BY <2>1, <2>3 DEF vars, packagerVars, handlerVars, HandlerInv, Sending, Packing, PacketSizes,
       DataInOrder, SongsInOrder, Counted, FileAnswer, Wraps, Stretch
  <2>4. CASE Open \/ SendHeader \/ SendChunk \/ CloseFile \/ PackSong \/ PackLast \/ HandleFileList
    BY <2>1, <2>4, OpenStep, HeaderStep, ChunkStep, CloseStep, PackStep, LastStep, BeginPackStep
       DEF HandlerInv, Steady
  <2> QED
    BY <2>2, <2>3, <2>4 DEF Next, Work
<1> QED
  BY <1>1, <1>2, PTL DEF SafeSpec

-----------------------------------------------------------------------------
(* Theorems *)

\* Every variable keeps its type in whatever order requests come, and the worker
\* that sends a file has one open.
THEOREM HandlerTypeCorrect == SafeSpec => []TypeOK
<1>1. HandlerInv => TypeOK
  BY DEF HandlerInv
<1> QED
  BY <1>1, HandlerInvariant, PTL

\* The constructor returns with every song of the folder, in its order, and with
\* nothing else, or ends the process because of a division by zero or a name that
\* is too long; a request ends it only by such a name.
THEOREM ListsAreWhole == SafeSpec => []ListIsWhole
<1>1. HandlerInv => ListIsWhole
  <2> SUFFICES ASSUME HandlerInv PROVE ListIsWhole
    OBVIOUS
  <2>1. /\ pc = "ended" /\ asked = NoSong => \E e \in Range(disk.folder) : EndsProcess(e)
        /\ pc = "ended" /\ asked # NoSong => ~Terminated(asked)
    BY DEF HandlerInv, Listing
  <2>2. ASSUME pc \notin {"populate", "ended"}
        PROVE  /\ Len(fileList) = SongsUpTo(Len(disk.folder))
               /\ \A k \in DOMAIN disk.folder :
                    Listed(disk.folder[k]) => fileList[SongsUpTo(k)] = EntryOf(disk.folder[k])
    <3>1. PICK n \in Nat : n = Len(disk.folder) /\ ListMade(n)
      BY <2>2 DEF HandlerInv, Listing
    <3>2. DOMAIN disk.folder = 1..n
      BY <3>1, DiskFacts DEF HandlerInv
    <3> QED
      BY <3>1, <3>2 DEF ListMade
  <2> QED
    BY <2>1, <2>2 DEF ListIsWhole
<1> QED
  BY <1>1, HandlerInvariant, PTL

\* While no read has fallen short the stream is HeaderSize bytes ahead of what the
\* packager has counted, however long the file is said to be.
THEOREM StreamKeepsUp == SafeSpec => []StreamMatchesCount
<1>1. HandlerInv => StreamMatchesCount
  <2> SUFFICES ASSUME HandlerInv, pc = "chunk", mHeader = "read", mOpenFile.good, ~Wraps
               PROVE  mOpenFile.pos = mExtracted + HeaderSize
    BY DEF StreamMatchesCount
  <2>1. ~(mTotalSize > LastCount)
    BY DEF Wraps
  <2> QED
    BY <2>1 DEF HandlerInv, Sending
<1> QED
  BY <1>1, HandlerInvariant, PTL

\* No packet holds more than packetData does, and none is empty but the list of no
\* songs.
THEOREM PacketsFit == SafeSpec => []PacketSizes
<1>1. HandlerInv => PacketSizes
  BY DEF HandlerInv
<1> QED
  BY <1>1, HandlerInvariant, PTL

\* The data packets of an answer follow each other in the file.
THEOREM DataIsOneStretch == SafeSpec => []DataInOrder
<1>1. HandlerInv => DataInOrder
  BY DEF HandlerInv
<1> QED
  BY <1>1, HandlerInvariant, PTL

\* No song is lost or repeated where a packet of the list ends.
THEOREM NoSongIsLost == SafeSpec => []SongsInOrder
<1>1. HandlerInv => SongsInOrder
  BY DEF HandlerInv
<1> QED
  BY <1>1, HandlerInvariant, PTL

\* A chunk is never empty, and one that counts no byte twice brings the count
\* nearer to the size that the file declares.
LEMMA ChunkCounts ==
  ASSUME HandlerInv, SendChunk, ~Wraps
  PROVE  StepsLeft' \in 0..(StepsLeft - 1)
<1>1. PICK n : n = CalculatedRead(MaxPacketSize)
  OBVIOUS
<1>2. /\ mExtracted \in Nat /\ mTotalSize \in Nat /\ mExtracted < mTotalSize
      /\ pc = "chunk" /\ pc' = "chunk" /\ UNCHANGED mTotalSize
  <2>1. mExtracted \in Nat /\ mTotalSize \in Nat
    BY SizeFacts DEF HandlerInv, TypeOK
  <2> QED
    BY <2>1 DEF SendChunk, getNextChunk, isFileComplete
<1>3. ~(mTotalSize > LastCount) /\ LastCount \in Nat
  BY <1>2, LastCountIsLast DEF Wraps
<1>4. /\ n \in 1..MaxPacketSize /\ mExtracted' = mExtracted + n
      /\ n = IF mExtracted + MaxPacketSize <= mTotalSize THEN MaxPacketSize
              ELSE mTotalSize - mExtracted
  BY <1>1, <1>2, <1>3, ChunkRead DEF HandlerInv
<1>5. mExtracted' <= mTotalSize /\ mExtracted' \in Nat /\ mExtracted' > mExtracted
  BY <1>2, <1>4, SizeFacts
<1>6. StepsLeft = 1 + (mTotalSize - mExtracted)
  BY <1>2 DEF StepsLeft, isFileComplete
<1>7. CASE mExtracted' >= mTotalSize
  <2>1. StepsLeft' = 1
    BY <1>2, <1>7 DEF StepsLeft, isFileComplete
  <2> QED
    BY <1>2, <1>6, <2>1
<1>8. CASE ~(mExtracted' >= mTotalSize)
  <2>1. StepsLeft' = 1 + (mTotalSize - mExtracted')
    BY <1>2, <1>8 DEF StepsLeft, isFileComplete
  <2>2. ASSUME NEW T \in Nat, NEW a \in Nat, NEW b \in Nat, a < b, ~(b >= T)
        PROVE  1 + (T - b) \in 0..((1 + (T - a)) - 1)
    BY <2>2
  <2>3. 1 + (mTotalSize - mExtracted') \in 0..((1 + (mTotalSize - mExtracted)) - 1)
    BY <1>2, <1>5, <1>8, <2>2
  <2> QED
    BY <1>6, <2>1, <2>3
<1> QED
  BY <1>7, <1>8

\* The constructor and the handlers of requests come nearer to their end with every
\* step, whatever the folder and its files are like, unless a count wraps.  (That
\* a step is taken is the fairness of the worker thread: with it, AnswerEnds.)
THEOREM NoLoopIsIdle == SafeSpec => EachStepCounts
<1>1. HandlerInv /\ [Next]_vars => [Work => StepsLeft' \in 0..(StepsLeft - 1) \/ Wraps]_vars
  <2> SUFFICES ASSUME HandlerInv, Work, ~Wraps
               PROVE  StepsLeft' \in 0..(StepsLeft - 1)
    OBVIOUS
  <2>1. SizeMod \in Nat \ {0}
    BY SizeFacts
  <2>2. CASE Populate \/ Constructed
    <3>1. PICK n \in Nat : i = n + 1 /\ ListMade(n)
      BY <2>2 DEF Populate, Constructed, HandlerInv, Listing
    <3>2. Len(disk.folder) \in Nat /\ i \in 1..(Len(disk.folder) + 1)
      BY <3>1, DiskFacts DEF ListMade, HandlerInv
    <3>3. pc = "populate" /\ StepsLeft = Len(disk.folder) + 2 - i
      BY <2>2 DEF Populate, Constructed, StepsLeft
    <3>4. CASE Populate
      <4>1. /\ i <= Len(disk.folder) /\ i' = i + 1 /\ pc' \in {"populate", "ended"}
            /\ UNCHANGED disk
        BY <3>4 DEF Populate
      <4>2. StepsLeft' \in {Len(disk.folder) + 2 - (i + 1), 0}
        BY <4>1 DEF StepsLeft
      <4> QED
        BY <3>2, <3>3, <4>1, <4>2
    <3>5. CASE Constructed
      <4>1. StepsLeft' = 0 /\ i = Len(disk.folder) + 1
        BY <3>2, <3>5 DEF Constructed, StepsLeft
      <4> QED
        BY <3>2, <3>3, <4>1
    <3> QED
      BY <2>2, <3>4, <3>5
  <2>3. CASE PackSong \/ PackLast
    <3>1. Len(fileList) \in Nat /\ i \in 1..(Len(fileList) + 1)
      BY <2>3 DEF PackSong, PackLast, HandlerInv, TypeOK, Packing
    <3>2. pc = "pack" /\ StepsLeft = Len(fileList) + 2 - i
      BY <2>3 DEF PackSong, PackLast, StepsLeft
    <3>3. CASE PackSong
      <4>1. i <= Len(fileList) /\ i' = i + 1 /\ pc' = "pack" /\ UNCHANGED fileList
        BY <3>2, <3>3 DEF PackSong
      <4>2. StepsLeft' = Len(fileList) + 2 - (i + 1)
        BY <4>1 DEF StepsLeft
      <4> QED
        BY <3>1, <3>2, <4>1, <4>2
    <3>4. CASE PackLast
      <4>1. StepsLeft' = 0
        BY <3>4 DEF PackLast, StepsLeft
      <4> QED
        BY <3>1, <3>2, <4>1
    <3> QED
      BY <2>3, <3>3, <3>4
  <2>4. CASE IndexOf
    <3>1. StepsLeft = SizeMod + 3 /\ StepsLeft' = SizeMod + 2
      BY <2>4 DEF IndexOf, StepsLeft
    <3> QED
      BY <2>1, <3>1
  <2>5. CASE NotFound \/ Open
    <3>1. StepsLeft = SizeMod + 2 /\ StepsLeft' \in {SizeMod + 1, 0}
      BY <2>5 DEF NotFound, Open, StepsLeft
    <3> QED
      BY <2>1, <3>1
  <2>6. CASE SendHeader
    <3>1. mTotalSize \in 0..(SizeMod - 1) /\ mExtracted \in 0..(SizeMod - 1)
      BY DEF HandlerInv, TypeOK
    <3>2. /\ StepsLeft = SizeMod + 1
          /\ StepsLeft' = 1 + IF mExtracted >= mTotalSize THEN 0 ELSE mTotalSize - mExtracted
      BY <2>6 DEF SendHeader, getHeader, StepsLeft, isFileComplete
    <3> QED
      BY <2>1, <3>1, <3>2
  <2>7. CASE CloseFile
    <3>1. StepsLeft = 1 /\ StepsLeft' = 0
      BY <2>7 DEF CloseFile, StepsLeft
    <3> QED
      BY <3>1
  <2> QED
    BY <2>2, <2>3, <2>4, <2>5, <2>6, <2>7, ChunkCounts DEF Work
<1> QED
  BY <1>1, HandlerInvariant, PTL DEF SafeSpec, EachStepCounts

\* The file that indexOf finds is the one the song was made from: a song has only
\* one place in the list.
THEOREM FoundIsWhatWasListed == SafeSpec => []SongsAreDistinct
<1>1. HandlerInv => SongsAreDistinct
  <2> SUFFICES ASSUME HandlerInv, pc = "open", NEW k \in Matches(fileList, asked)
               PROVE  /\ index = k - 1
                      /\ \E e \in Range(disk.folder) :
                           Listed(e) /\ SongOf(e) = asked /\ e.name = fileList[k].path.name
    BY DEF SongsAreDistinct
  <2>1. PICK n \in Nat : n = Len(disk.folder) /\ ListMade(n)
    BY DEF HandlerInv, Listing
  <2>2. ASSUME NEW j \in Matches(fileList, asked)
        PROVE  \E a \in 1..n :
                 /\ Listed(disk.folder[a]) /\ SongsUpTo(a) = j
                 /\ SongOf(disk.folder[a]) = asked
                 /\ disk.folder[a].name = fileList[j].path.name
    <3>1. j \in DOMAIN fileList /\ fileList[j].song = asked
      BY <2>2 DEF Matches
    <3>2. PICK a \in 1..n : /\ Listed(disk.folder[a]) /\ rate(disk.folder[a]) # 0
                            /\ SongsUpTo(a) = j /\ fileList[j] = EntryOf(disk.folder[a])
      BY <2>1, <3>1 DEF ListMade
    <3> QED
      BY <3>1, <3>2 DEF EntryOf
  <2>3. PICK a \in 1..n : /\ Listed(disk.folder[a]) /\ SongsUpTo(a) = k
                          /\ SongOf(disk.folder[a]) = asked
                          /\ disk.folder[a].name = fileList[k].path.name
    BY <2>2
  <2>4. ASSUME NEW m \in Matches(fileList, asked) PROVE m = k
    <3>1. PICK b \in 1..n : SongsUpTo(b) = m /\ SongOf(disk.folder[b]) = asked
      BY <2>2, <2>4
    <3>2. disk.folder[a] \in FolderEntry /\ disk.folder[b] \in FolderEntry
      BY <2>1, DiskFacts DEF HandlerInv
    <3>3. disk.folder[b].name = disk.folder[a].name
      BY <2>3, <3>1, <3>2, SongsDiffer
    <3>4. b = a
      BY <2>1, <3>3, DiskFacts DEF HandlerInv
    <3> QED
      BY <2>3, <3>1, <3>4
  <2>5. index = k - 1
    BY <2>4 DEF HandlerInv, Listing, indexOf
  <2>6. disk.folder[a] \in Range(disk.folder)
    BY <2>1, DiskFacts DEF HandlerInv, Range
  <2> QED
    BY <2>3, <2>5, <2>6
<1> QED
  BY <1>1, HandlerInvariant, PTL

-----------------------------------------------------------------------------
(* The answers *)

\* What is planned, by where the worker is.
Plans ==
  /\ Wraps => PlannedAnswer = <<>>
  /\ pc \in {"header", "chunk"} /\ ~Wraps => PlannedAnswer = FileAnswer(mTotalSize)
  /\ pc = "pack" => ~Wraps /\ PlannedAnswer = ListAnswer(Len(fileList))
  /\ pc \notin {"header", "chunk", "pack"} =>
       ~Wraps /\ PlannedAnswer = [k \in DOMAIN out |-> out[k].size]

\* That is what PlannedAnswer says, before a step and after it.
LEMMA PlansHold == Plans /\ Plans'
<1>1. Plans
  BY DEF Plans, PlannedAnswer, Wraps
<1>2. Plans'
  BY DEF Plans, PlannedAnswer, Wraps
<1> QED
  BY <1>1, <1>2

\* The sizes that are planned for a list of n songs, of which L full packets and h
\* songs more have been seen.
LEMMA ListAnswerShape ==
  ASSUME NEW n \in Nat, NEW L \in Nat, NEW h \in 0..FullPacket
  PROVE  /\ n > FullPacket * L => L < Len(ListAnswer(n))
         /\ n = FullPacket * L + h /\ (h = 0 => L = 0) =>
              ListAnswer(n) = [k \in 1..(L + 1) |-> IF k <= L THEN SongSize * FullPacket
                                                    ELSE SongSize * h]
<1> DEFINE m == SongSize * FullPacket  b == n * SongSize
           len == (b + m - 1) \div m
<1>1. m \in Nat \ {0} /\ b \in Nat /\ FullPacket * L \in Nat /\ h \in Nat
  BY SizeFacts
<1>2. b + m - 1 \in Nat
  BY <1>1
<1>3. len \in Nat
  BY <1>1, <1>2, DivMod
<1>4. \A c \in Nat : c >= len <=> c * m >= b
  BY <1>1, CeilDiv
<1>5. n # 0 => ListAnswer(n) = [k \in 1..len |-> IF k * m <= b THEN m ELSE b - (k - 1) * m]
  BY DEF ListAnswer, Cut
<1>6. \A c \in Nat : c * m = SongSize * (FullPacket * c) /\ FullPacket * c \in Nat
  BY SizeFacts
<1> HIDE DEF len
<1>7. ASSUME n > FullPacket * L PROVE L < Len(ListAnswer(n))
  <2>1. SongSize * (FullPacket * L) < n * SongSize
    BY <1>1, <1>7, SizeFacts
  <2>2. ~(L >= len)
    <3>1. L * m < b /\ L * m \in Nat
      BY <1>6, <2>1, SizeFacts
    <3> HIDE DEF m, b
    <3> QED
      BY <1>1, <1>4, <3>1
  <2>3. Len(ListAnswer(n)) = len
    BY <1>1, <1>3, <1>5, <1>7
  <2> QED
    BY <1>3, <2>2, <2>3
<1>8. ASSUME n = FullPacket * L + h, h = 0 => L = 0
      PROVE  ListAnswer(n) = [k \in 1..(L + 1) |-> IF k <= L THEN m ELSE SongSize * h]
  <2>1. CASE h = 0
    <3>1. n = 0 /\ L = 0 /\ SongSize * h = 0
      BY <1>8, <2>1, SizeFacts
    <3>2. ListAnswer(n) = <<0>>
      BY <3>1 DEF ListAnswer
    <3>3. <<0>> = [k \in 1..1 |-> 0]
      OBVIOUS
    <3>4. \A k \in 1..1 : ~(k <= 0)
      OBVIOUS
    <3> QED
      BY <3>1, <3>2, <3>3, <3>4
  <2>2. CASE h # 0
    <3>1. /\ n # 0 /\ b = SongSize * (FullPacket * L) + SongSize * h
          /\ SongSize * h > 0 /\ SongSize * h <= m /\ SongSize * h \in Nat
          /\ h = FullPacket \/ SongSize * h < m
      BY <1>1, <1>8, <2>2, SizeFacts
    <3>2. /\ b = L * m + SongSize * h /\ L * m \in Nat /\ (L + 1) * m = L * m + m
          /\ \A k \in Nat : k * m \in Nat
      BY <1>1, <1>6, <3>1
    <3> HIDE DEF m, b
    <3>3. ~(L >= len) /\ L + 1 >= len
      BY <1>1, <1>4, <3>1, <3>2
    <3>4. len = L + 1
      BY <1>3, <3>3
    <3>5. ASSUME NEW k \in 1..(L + 1)
          PROVE  (IF k * m <= b THEN m ELSE b - (k - 1) * m)
                   = IF k <= L THEN m ELSE SongSize * h
      <4>1. CASE k <= L
        <5>1. k * m <= L * m
          BY <1>1, <4>1, Multiples
        <5> QED
          BY <1>1, <3>1, <3>2, <4>1, <5>1
      <4>2. CASE ~(k <= L)
        <5>1. k = L + 1 /\ k - 1 = L
          BY <4>2
        <5> QED
          BY <1>1, <3>1, <3>2, <4>2, <5>1 DEF m
      <4> QED
        BY <4>1, <4>2
    <3> QED
      BY <1>5, <3>1, <3>4, <3>5
  <2> QED
    BY <2>1, <2>2
<1> QED
  BY <1>7, <1>8

\* The answers that may be begun.
Begun == {<<>>} \cup {FileAnswer(n) : n \in 0..LastCount}
           \cup {ListAnswer(n) : n \in UNION {0..Len(d.folder) : d \in Disks}}

\* The answers to the requests are among them.
LEMMA BegunAnswers ==
  ASSUME HandlerInv
  PROVE  /\ <<>> \in Begun
         /\ \A n \in 0..LastCount : FileAnswer(n) \in Begun
         /\ pc \notin {"populate", "ended"} => ListAnswer(Len(fileList)) \in Begun
<1>1. ASSUME pc \notin {"populate", "ended"}
      PROVE  Len(fileList) \in UNION {0..Len(d.folder) : d \in Disks}
  <2>1. PICK n \in Nat : n = Len(disk.folder) /\ ListMade(n)
    BY <1>1 DEF HandlerInv, Listing
  <2>2. Len(fileList) \in 0..n
    BY <2>1, SongsCount DEF ListMade
  <2> QED
    BY <2>1, <2>2 DEF HandlerInv, TypeOK
<1> QED
  BY <1>1 DEF Begun

\* A request is taken up: the one before is answered, and what the new one will be
\* answered with is fixed, or it will not be answered.
LEMMA BeginImplemented ==
  ASSUME HandlerInv,
         HandleFileList \/ Open \/ \E song \in Songs : HandleTrack(song)
  PROVE  [AnswerSpec!Next]_(AnswerSpec!vars)
<1> DEFINE n0 == IF Wraps THEN 0 ELSE Len(out)
<1>1. Plans /\ Plans'
  BY PlansHold
<1>2. pc \in {"idle", "open"} /\ ~Wraps /\ PlannedAnswer = [k \in DOMAIN out |-> out[k].size]
  BY <1>1 DEF Plans, HandleFileList, Open, HandleTrack
<1>3. n0 = Len(out) /\ Len(PlannedAnswer) = Len(out)
  BY <1>2 DEF HandlerInv, TypeOK
<1>4. SUFFICES \/ PlannedAnswer' = PlannedAnswer /\ n0' = n0
               \/ PlannedAnswer' \in Begun /\ n0' = 0
  BY <1>3 DEF AnswerSpec!Next, AnswerSpec!Begin, AnswerSpec!vars, Begun
<1>5. CASE HandleFileList
  <2>1. pc' = "pack" /\ out' = <<>> /\ fileList' = fileList /\ pc = "idle"
    BY <1>5 DEF HandleFileList
  <2>2. PlannedAnswer' = ListAnswer(Len(fileList)) /\ n0' = 0
    BY <1>1, <2>1 DEF Plans, ListAnswer
  <2> QED
    BY <2>1, <2>2, BegunAnswers
<1>6. CASE Open
  <2>1. out = <<>> /\ out' = <<>> /\ pc = "open" /\ pc' \in {"header", "idle"} /\ n0' = 0
    BY <1>6 DEF Open, HandlerInv, Listing
  <2>2. PICK f \in File(0..(SizeMod - 1)) : openFile(f)
    BY <1>6, ListedFile DEF Open, HandlerInv
  <2>3. mTotalSize' \in 0..(SizeMod - 1)
    BY <2>2, Opening
  <2>4. CASE Wraps'
    BY <1>1, <2>1, <2>4, BegunAnswers DEF Plans
  <2>5. CASE ~Wraps' /\ pc' = "header"
    <3>1. PlannedAnswer' = FileAnswer(mTotalSize')
      BY <1>1, <2>5 DEF Plans, FileAnswer
    <3>2. mTotalSize' \in 0..LastCount
      BY <2>3, <2>5, LastCountIsLast, SizeFacts DEF Wraps
    <3> QED
      BY <2>1, <3>1, <3>2, BegunAnswers
  <2>6. CASE pc' = "idle"
    <3>1. PlannedAnswer' = [k \in DOMAIN out |-> out[k].size]
      BY <1>1, <2>1, <2>6 DEF Plans
    <3> QED
      BY <1>2, <1>3, <2>1, <3>1
  <2> QED
    BY <2>1, <2>4, <2>5, <2>6
<1>7. CASE \E song \in Songs : HandleTrack(song)
  <2>1. pc' \in {"find", "ended"} /\ out' = <<>>
    BY <1>7 DEF HandleTrack
  <2>2. PlannedAnswer' = <<>> /\ n0' = 0
    BY <1>1, <2>1 DEF Plans
  <2> QED
    BY <2>2, BegunAnswers
<1> QED
  BY <1>5, <1>6, <1>7

\* One more packet of the file.
LEMMA FileImplemented ==
  ASSUME HandlerInv, SendHeader \/ SendChunk \/ CloseFile
  PROVE  [AnswerSpec!Next]_(AnswerSpec!vars)
<1> DEFINE n0 == IF Wraps THEN 0 ELSE Len(out)
<1>1. Plans /\ Plans'
  BY PlansHold
<1>2. pc \in {"header", "chunk"} /\ mTotalSize' = mTotalSize
      /\ FileAnswer(mTotalSize)' = FileAnswer(mTotalSize)
  BY DEF SendHeader, SendChunk, CloseFile, getHeader, getNextChunk, closeFile, FileAnswer
<1>3. SUFFICES \/ PlannedAnswer' = PlannedAnswer /\ n0' = n0
               \/ PlannedAnswer' = PlannedAnswer /\ n0 < Len(PlannedAnswer) /\ n0' = n0 + 1
  BY DEF AnswerSpec!Next, AnswerSpec!Send, AnswerSpec!vars
<1>4. /\ mTotalSize \in Nat /\ mExtracted \in Nat /\ Len(out) \in Nat /\ DOMAIN out = 1..Len(out)
  BY SizeFacts DEF HandlerInv, TypeOK
<1>5. /\ Chunks(mTotalSize) \in Nat
      /\ Len(FileAnswer(mTotalSize)) = Chunks(mTotalSize) + 1
      /\ DOMAIN FileAnswer(mTotalSize) = 1..(Chunks(mTotalSize) + 1)
      /\ FileAnswer(mTotalSize) \in Seq(Int)
      /\ \A c \in Nat : c >= Chunks(mTotalSize) <=> HeaderSize + c * MaxPacketSize >= mTotalSize
  BY <1>4, FileAnswerShape, Zenon
<1>6. CASE SendHeader
  <2>1. pc = "header" /\ pc' = "chunk" /\ out = <<>> /\ Len(out) = 0 /\ Len(out') = 1
    BY <1>6 DEF SendHeader, push, HandlerInv, Listing
  <2>2. Wraps' <=> Wraps
    BY <1>2, <2>1 DEF Wraps
  <2>3. PlannedAnswer' = PlannedAnswer
    BY <1>1, <1>2, <2>1, <2>2 DEF Plans
  <2>4. ~Wraps => 0 < Len(PlannedAnswer)
    BY <1>1, <1>5, <2>1 DEF Plans
  <2> QED
    BY <2>1, <2>2, <2>3, <2>4
<1>7. CASE SendChunk
  <2>1. pc = "chunk" /\ pc' = "chunk" /\ Len(out') = Len(out) + 1 /\ mExtracted < mTotalSize
    BY <1>4, <1>7 DEF SendChunk, push, HandlerInv, TypeOK, isFileComplete
  <2>2. Wraps' <=> Wraps
    BY <1>2, <2>1 DEF Wraps
  <2>3. PlannedAnswer' = PlannedAnswer
    BY <1>1, <1>2, <2>1, <2>2 DEF Plans
  <2>4. ASSUME ~Wraps PROVE Len(out) < Len(PlannedAnswer)
    <3>1. PICK c \in Nat : Counted(c)
      BY <2>1, <2>4 DEF Wraps, HandlerInv, Sending
    <3>2. Len(out) = c + 1 /\ mExtracted = HeaderSize + c * MaxPacketSize
      BY <2>1, <3>1, <1>4 DEF Counted
    <3>3. ~(HeaderSize + c * MaxPacketSize >= mTotalSize)
      BY <1>4, <2>1, <3>2
    <3>4. ~(c >= Chunks(mTotalSize))
      BY <1>5, <3>3
    <3>5. PlannedAnswer = FileAnswer(mTotalSize)
      BY <1>1, <2>1, <2>4 DEF Plans
    <3> QED
      BY <1>5, <3>2, <3>4, <3>5
  <2> QED
    BY <2>1, <2>2, <2>3, <2>4
<1>8. CASE CloseFile
  <2>1. /\ pc = "chunk" /\ pc' = "idle" /\ out' = out /\ mExtracted >= mTotalSize
    BY <1>8 DEF CloseFile, isFileComplete
  <2>2. ~(mTotalSize > LastCount)
    BY <1>8, ClosedInTime
  <2>3. ~Wraps /\ ~Wraps'
    BY <2>1, <2>2 DEF Wraps
  <2>4. PlannedAnswer = FileAnswer(mTotalSize)
        /\ PlannedAnswer' = [k \in DOMAIN out |-> out[k].size]
    BY <1>1, <2>1, <2>3 DEF Plans
  <2>5. \A k \in DOMAIN out : /\ k \in DOMAIN FileAnswer(mTotalSize)
                              /\ out[k].size = FileAnswer(mTotalSize)[k]
    BY <2>1, <2>2 DEF HandlerInv, Sending
  <2>6. PICK c \in Nat : Counted(c)
    BY <2>1, <2>2 DEF HandlerInv, Sending
  <2>7. Len(out) = c + 1 /\ HeaderSize + c * MaxPacketSize >= mTotalSize
    <3>1. c * MaxPacketSize \in Nat
      BY SizeFacts
    <3> QED
      BY <1>4, <2>1, <2>6, <3>1, SizeFacts DEF Counted
  <2>8. c >= Chunks(mTotalSize)
    BY <1>5, <2>7
  <2>9. Len(out) \in DOMAIN out
    BY <1>4, <2>7
  <2>10. Len(out) = Chunks(mTotalSize) + 1
    BY <1>4, <1>5, <2>5, <2>7, <2>8, <2>9
  <2>11. FileAnswer(mTotalSize) = [k \in DOMAIN out |-> out[k].size]
    BY <1>4, <1>5, <2>5, <2>10
  <2> QED
    BY <2>1, <2>3, <2>4, <2>11
<1> QED
  BY <1>6, <1>7, <1>8

\* One more packet of the list, or one more song of a packet.
LEMMA ListImplemented ==
  ASSUME HandlerInv, PackSong \/ PackLast
  PROVE  [AnswerSpec!Next]_(AnswerSpec!vars)
<1> DEFINE n0 == IF Wraps THEN 0 ELSE Len(out)  L == Len(out)  h == Len(held)
<1>1. Plans /\ Plans'
  BY PlansHold
<1>2. /\ pc = "pack" /\ fileList' = fileList /\ ~Wraps
      /\ PlannedAnswer = ListAnswer(Len(fileList))
      /\ ListAnswer(Len(fileList))' = ListAnswer(Len(fileList))
  BY <1>1 DEF Plans, PackSong, PackLast, ListAnswer
<1>3. SUFFICES \/ PlannedAnswer' = PlannedAnswer /\ n0' = n0
               \/ PlannedAnswer' = PlannedAnswer /\ n0 < Len(PlannedAnswer) /\ n0' = n0 + 1
  BY DEF AnswerSpec!Next, AnswerSpec!Send, AnswerSpec!vars
<1>4. /\ L \in Nat /\ h \in Nat /\ FullPacket * L \in Nat /\ Used = SongSize * h
      /\ out \in Seq(Packets) /\ DOMAIN out = 1..L
  BY <1>2, PackedFacts DEF HandlerInv, TypeOK
<1>5. /\ i \in 1..(Len(fileList) + 1) /\ i - 1 = FullPacket * L + h /\ h <= FullPacket
      /\ (h = 0 => i = 1) /\ Len(fileList) \in Nat
      /\ \A k \in DOMAIN out : out[k].size = SongSize * FullPacket
  BY <1>2 DEF HandlerInv, Packing, TypeOK
<1>6. CASE PackSong
  <2>1. pc' = "pack" /\ i <= Len(fileList) /\ (out' = out \/ Len(out') = L + 1)
    BY <1>4, <1>6 DEF PackSong, push
  <2>2. PlannedAnswer' = PlannedAnswer /\ ~Wraps'
    BY <1>1, <1>2, <2>1 DEF Plans
  <2>3. Len(fileList) > FullPacket * L
    BY <1>4, <1>5, <2>1
  <2>4. L < Len(PlannedAnswer)
    BY <1>2, <1>4, <1>5, <2>3, ListAnswerShape
  <2> QED
    BY <1>2, <2>1, <2>2, <2>4
<1>7. CASE PackLast
  <2>1. /\ pc' = "idle" /\ i > Len(fileList)
        /\ out' = Append(out, [kind |-> "list", size |-> Used, songs |-> held])
    BY <1>7 DEF PackLast, push
  <2>2. /\ Len(out') = L + 1 /\ DOMAIN out' = 1..(L + 1) /\ out'[L + 1].size = Used
        /\ \A k \in 1..L : out'[k] = out[k]
    BY <1>4, <2>1
  <2>3. PlannedAnswer' = [k \in DOMAIN out' |-> out'[k].size] /\ ~Wraps'
    BY <1>1, <2>1 DEF Plans
  <2> HIDE DEF L, h
  <2>4. Len(fileList) = FullPacket * L + h
    BY <1>4, <1>5, <2>1
  <2>5. h = 0 => L = 0
    BY <1>4, <1>5, SizeFacts
  <2>6. ListAnswer(Len(fileList)) = [k \in 1..(L + 1) |-> IF k <= L THEN SongSize * FullPacket
                                                          ELSE SongSize * h]
    BY <1>4, <1>5, <2>4, <2>5, ListAnswerShape
  <2>7. ASSUME NEW k \in 1..(L + 1)
        PROVE  out'[k].size = IF k <= L THEN SongSize * FullPacket ELSE SongSize * h
    <3>1. CASE k <= L
      BY <1>4, <1>5, <2>2, <3>1
    <3>2. CASE ~(k <= L)
      <4>1. k = L + 1
        BY <1>4, <3>2
      <4> QED
        BY <1>4, <2>2, <3>2, <4>1
    <3> QED
      BY <3>1, <3>2
  <2>8. PlannedAnswer' = PlannedAnswer
    BY <1>2, <2>2, <2>3, <2>6, <2>7
  <2>9. Len(PlannedAnswer) = L + 1
    BY <1>2, <1>4, <2>6
  <2>10. n0 = L /\ n0' = L + 1
    BY <1>2, <2>2, <2>3 DEF L
  <2> QED
    BY <1>4, <2>8, <2>9, <2>10
<1> QED
  BY <1>6, <1>7

\* The packets of an answer are as many and as large as the size of the file, or of
\* the list, says when the request is taken up, and the next request waits for the
\* last of them.
THEOREM AnswersAreAsPlanned == SafeSpec => AnswerSpec!SafeSpec
<1>1. Init => AnswerSpec!Init
  <2> SUFFICES ASSUME Init PROVE AnswerSpec!Init
    OBVIOUS
  <2>1. pc = "populate" /\ out = <<>>
    BY DEF Init
  <2>2. PlannedAnswer = <<>> /\ ~Wraps
    BY <2>1, PlansHold DEF Plans
  <2> QED
    BY <2>1, <2>2 DEF AnswerSpec!Init
<1>2. HandlerInv /\ [Next]_vars => [AnswerSpec!Next]_(AnswerSpec!vars)
  <2> SUFFICES ASSUME HandlerInv, [Next]_vars
               PROVE  [AnswerSpec!Next]_(AnswerSpec!vars)
    OBVIOUS
  <2>1. CASE Populate \/ Constructed \/ IndexOf \/ NotFound
    <3>1. /\ out' = out /\ pc \notin {"header", "chunk", "pack"}
          /\ pc' \notin {"header", "chunk", "pack"}
      BY <2>1 DEF Populate, Constructed, IndexOf, NotFound
    <3>2. PlannedAnswer' = PlannedAnswer /\ ~Wraps /\ ~Wraps'
      BY <3>1, PlansHold DEF Plans
    <3> QED
      BY <3>1, <3>2 DEF AnswerSpec!vars
  <2>2. CASE UNCHANGED vars
    BY <2>2 DEF vars, packagerVars, handlerVars, AnswerSpec!vars, PlannedAnswer, Wraps,
       FileAnswer, ListAnswer
  <2>3. CASE HandleFileList \/ Open \/ \E song \in Songs : HandleTrack(song)
    BY <2>3, BeginImplemented
  <2>4. CASE SendHeader \/ SendChunk \/ CloseFile
    BY <2>4, FileImplemented
  <2>5. CASE PackSong \/ PackLast
    BY <2>5, ListImplemented
  <2> QED
    BY <2>1, <2>2, <2>3, <2>4, <2>5 DEF Next, Work
<1> QED
  BY <1>1, <1>2, HandlerInvariant, PTL DEF SafeSpec, AnswerSpec!SafeSpec

=============================================================================

------------------------ MODULE MessageHandlingProofs ------------------------
(***************************************************************************)
(* Theorems about MessageHandling for any number of workers at once, names *)
(* and packets of any size, and any messages of the peer or parts of them. *)
(***************************************************************************)
EXTENDS MessageHandling, TLAPS

\* The j-th receive has completed.
Complete(j) == j < Len(received) \/ filling = <<>>

\* What the buffer, or a copy b of it, may hold has been received since the
\* j-th message, if that was whole.
FreshSince(b, j) ==
  Whole(received[j]) => \A c \in Places : \A v \in b[c] : Since(j, c, v)

\* The kernel writes the last of the messages; what a completed receive has left
\* in the buffer can only be overwritten by later ones.
OfKernel ==
  /\ filling # <<>> => received # <<>> /\ filling = received[Len(received)]
  /\ \A j \in DOMAIN received : Complete(j) => FreshSince(mBuffer, j)
  /\ \A k \in DOMAIN arrived : Complete(arrived[k])

\* So it is of a copy that the kernel may change while it is made, and of the
\* Packet made of the copy; the settings are assigned of a Packet that holds all
\* of their bytes.
OfWorker(w) ==
  /\ pc[w] \in {"copy", "deserialize"} => FreshSince(packet[w], source[w])
  /\ pc[w] \in Handling =>
       \A c \in Readable(packet[w]) : \A v \in packet[w][c] : Since(source[w], c, v)
  /\ pc[w] \in {"ShareName", "fill", "flags"} => Sizes(packet[w]) = {SettingsSize}
  /\ pc[w] = "ShareName" /\ ~ended => at[w] \in 1..NameSize
  /\ pc[w] = "fill" => at[w] \in 2..NameSize
  /\ pc[w] = "flags" => at[w] <= SettingsSize

HandlingInv ==
  TypeOK /\ OfKernel /\ (\A w \in Workers : OfWorker(w)) /\ SettingsWereSent

-----------------------------------------------------------------------------

\* The places of a message are numbers, the data behind the head.
LEMMA PlaceFacts ==
  /\ Size0 \in Places /\ Size1 \in Places /\ Type0 \in Places /\ Type1 \in Places
  /\ Places \subseteq Nat /\ NameSize \in Nat /\ SettingsSize \in Nat /\ Last \in Nat
  /\ \A k \in 1..MaxPacketSize : Data(k) \in Places /\ Byte(Data(k)) = Bytes
  /\ \A k \in 1..SettingsSize : Data(k) \in Places /\ Byte(Data(k)) = Bytes
  /\ Head4 = {Size0, Size1, Type0, Type1}
<1> USE DEF Size0, Size1, Type0, Type1
<1>1. MaxPacketSize \in Nat /\ NameSize \in Nat /\ SettingsSize \in Nat
      /\ SettingsSize <= MaxPacketSize
  BY MessageAssumption DEF SettingsSize
<1>2. Last = 4 + MaxPacketSize /\ Places = 1..Last
  BY DEF Last, Data, Places
<1>3. \A k \in 1..MaxPacketSize : Data(k) \in Places /\ Data(k) > 4
  BY <1>1, <1>2 DEF Data
<1>4. \A k \in 1..MaxPacketSize : Byte(Data(k)) = Bytes
  BY <1>3 DEF Byte
<1>5. Head4 = {1, 2, 3, 4}
  BY DEF Head4
<1> QED
  BY <1>1, <1>2, <1>3, <1>4, <1>5

\* What the types say of the first four bytes, and of the others.
LEMMA ByteFacts ==
  /\ Byte(Size0) = 0..(Base - 1) /\ Byte(Size1) = Int
  /\ Byte(Type0) = SUBSET (0..7) /\ Byte(Type1) = SUBSET (8..31)
  /\ \A c \in Places \ {Size0, Size1, Type0, Type1} : Byte(c) = Bytes
BY DEF Byte, Size0, Size1, Type0, Type1

\* A message is some of the places from the front.
LEMMA MessageFacts ==
  ASSUME NEW m \in Messages
  PROVE  /\ DOMAIN m \subseteq Places /\ 1 \in DOMAIN m /\ m # <<>>
         /\ \A c \in DOMAIN m : m[c] \in Byte(c)
<1>1. IsMessage(m)
  BY MessageAssumption
<1>2. PICK n \in Places : DOMAIN m = 1..n
  BY <1>1 DEF IsMessage
<1>3. n \in Nat /\ n >= 1 /\ n <= Last /\ Places = 1..Last /\ Last \in Nat
  BY PlaceFacts DEF Places, Size0
<1> QED
  BY <1>1, <1>2, <1>3 DEF IsMessage

\* What Append does to a sequence.
LEMMA Appended ==
  ASSUME NEW W, NEW s \in Seq(W), NEW x \in W, NEW t, t = Append(s, x)
  PROVE  /\ t \in Seq(W) /\ t # <<>>
         /\ Len(s) \in Nat /\ DOMAIN s = 1..Len(s)
         /\ Len(t) = Len(s) + 1 /\ DOMAIN t = 1..(Len(s) + 1) /\ t[Len(t)] = x
         /\ \A j \in DOMAIN s : j \in DOMAIN t /\ t[j] = s[j]
OBVIOUS

\* The oldest receive, and those that are left.
LEMMA ArrivedParts ==
  ASSUME TypeOK, arrived # <<>>
  PROVE  /\ Head(arrived) \in DOMAIN received /\ Tail(arrived) \in Seq(Nat)
         /\ \E k \in DOMAIN arrived : Head(arrived) = arrived[k]
         /\ \A i \in DOMAIN Tail(arrived) :
              \E k \in DOMAIN arrived : Tail(arrived)[i] = arrived[k]
<1>1. Len(arrived) \in Nat /\ Len(arrived) > 0 /\ DOMAIN arrived = 1..Len(arrived)
  BY DEF TypeOK
<1>2. DOMAIN Tail(arrived) = 1..(Len(arrived) - 1) /\ Head(arrived) = arrived[1]
  BY <1>1 DEF TypeOK
<1>3. \A i \in DOMAIN Tail(arrived) : i + 1 \in DOMAIN arrived /\ Tail(arrived)[i] = arrived[i + 1]
  BY <1>1, <1>2 DEF TypeOK
<1>4. 1 \in DOMAIN arrived
  BY <1>1
<1>5. Tail(arrived) \in Seq(Nat)
  BY <1>1 DEF TypeOK
<1> QED
  BY <1>2, <1>3, <1>4, <1>5 DEF TypeOK

\* What a byte may be stays in its type when a message may overwrite it.
LEMMA MayHoldTyped ==
  ASSUME NEW b, NEW m \in Messages, DOMAIN b = Places,
         \A c \in Places : b[c] \subseteq Byte(c)
  PROVE  /\ DOMAIN MayHold(b, m) = Places
         /\ \A c \in Places : MayHold(b, m)[c] \subseteq Byte(c)
         /\ \A c \in Places : \A v \in MayHold(b, m)[c] :
              v \in b[c] \/ (c \in DOMAIN m /\ v = m[c])
BY MessageFacts DEF MayHold

\* A new buffer has bytes.
LEMMA ZeroesTyped ==
  DOMAIN Zeroes = Places /\ \A c \in Places : Zeroes[c] \subseteq Byte(c)
<1>1. \A c \in Places : c \in Nat /\ c >= 1
  BY PlaceFacts DEF Places, Size0
<1>2. 0 \in 0..(Base - 1) /\ NUL \in Bytes
  BY MessageAssumption
<1> QED
  BY <1>1, <1>2 DEF Zeroes, Byte, Size0, Size1, Type0, Type1

\* What a packet of single bytes says.
LEMMA DeserializedFacts ==
  ASSUME NEW p, DOMAIN p = Places, \A c \in Places : p[c] \subseteq Byte(c),
         NEW size0 \in p[Size0], NEW size1 \in p[Size1],
         NEW type0 \in p[Type0], NEW type1 \in p[Type1],
         NEW q, q = Deserialized(p, size0, size1, type0, type1)
  PROVE  /\ DOMAIN q = Places /\ \A c \in Places : q[c] \subseteq Byte(c)
         /\ Sizes(q) = {size0 + Base * size1}
         /\ size0 + Base * size1 \in Int
         /\ size0 + Base * size1 \in 0..MaxPacketSize =>
              \A c \in Readable(q) : c \in Places /\ q[c] \subseteq p[c]
<1> DEFINE size == size0 + Base * size1
<1>1. size0 \in Int /\ size1 \in Int /\ size \in Int
  <2>1. size0 \in Byte(Size0) /\ size1 \in Byte(Size1)
    BY PlaceFacts
  <2> QED
    BY <2>1, ByteFacts, MessageAssumption
<1>2. /\ q[Size0] = {size0} /\ q[Size1] = {size1}
      /\ q[Type0] = {type0} /\ q[Type1] = {type1}
      /\ DOMAIN q = Places
      /\ \A c \in Places \ {Size0, Size1, Type0, Type1} :
           q[c] = IF c <= Data(size) THEN p[c] ELSE {NUL}
  BY PlaceFacts DEF Deserialized, Size0, Size1, Type0, Type1
<1>3. Sizes(q) = {size}
  BY <1>2 DEF Sizes
<1>4. ASSUME NEW c \in Places
      PROVE  q[c] \subseteq Byte(c)
  <2>1. CASE c \in {Size0, Size1, Type0, Type1}
    BY <1>2, <2>1
  <2>2. CASE c \notin {Size0, Size1, Type0, Type1}
    BY <1>2, <2>2, ByteFacts, MessageAssumption
  <2> QED
    BY <2>1, <2>2
<1>5. ASSUME size \in 0..MaxPacketSize, NEW c \in Readable(q)
      PROVE  c \in Places /\ q[c] \subseteq p[c]
  <2>1. CASE c \in Head4
    BY <1>2, <2>1, PlaceFacts
  <2>2. CASE c \notin Head4
    <3>1. PICK k \in 1..size : c = Data(k)
      BY <1>3, <1>5, <2>2 DEF Readable
    <3>2. k \in 1..MaxPacketSize /\ c \in Places
      BY <1>5, <3>1, MessageAssumption, PlaceFacts
    <3>3. c <= Data(size)
      BY <1>1, <3>1 DEF Data, Type1
    <3>4. c \notin {Size0, Size1, Type0, Type1}
      BY <2>2, PlaceFacts
    <3> QED
      BY <1>2, <3>2, <3>3, <3>4
  <2> QED
    BY <2>1, <2>2
<1> QED
  BY <1>1, <1>2, <1>3, <1>4, <1>5

-----------------------------------------------------------------------------

\* How the messages so far relate to those after one more.
LEMMA SinceGrows ==
  ASSUME TypeOK, NEW m \in Messages, received' = Append(received, m)
  PROVE  /\ received' \in Seq(Messages) /\ received' # <<>>
         /\ Len(received) \in Nat /\ DOMAIN received = 1..Len(received)
         /\ Len(received') = Len(received) + 1
         /\ DOMAIN received' = 1..(Len(received) + 1)
         /\ received'[Len(received')] = m
         /\ \A j \in DOMAIN received : j \in DOMAIN received' /\ received'[j] = received[j]
         /\ \A j \in Nat \ {0} : \A c, v : Since(j, c, v) =>
              \E i \in j..Len(received') : c \in DOMAIN received'[i] /\ received'[i][c] = v
         /\ \A j \in 1..Len(received'), c \in DOMAIN m :
              \E i \in j..Len(received') : c \in DOMAIN received'[i] /\ received'[i][c] = m[c]
<1>1. received \in Seq(Messages)
  BY DEF TypeOK
<1>2. /\ received' \in Seq(Messages) /\ received' # <<>>
      /\ Len(received) \in Nat /\ DOMAIN received = 1..Len(received)
      /\ Len(received') = Len(received) + 1
      /\ DOMAIN received' = 1..(Len(received) + 1)
      /\ received'[Len(received')] = m
      /\ \A j \in DOMAIN received : j \in DOMAIN received' /\ received'[j] = received[j]
  BY <1>1, Appended
<1>3. ASSUME NEW j \in Nat \ {0}, NEW c, NEW v, Since(j, c, v)
      PROVE  \E i \in j..Len(received') : c \in DOMAIN received'[i] /\ received'[i][c] = v
  <2>1. PICK i \in j..Len(received) : c \in DOMAIN received[i] /\ received[i][c] = v
    BY <1>3 DEF Since
  <2>2. i \in DOMAIN received /\ i \in j..Len(received')
    BY <1>2
  <2> QED
    BY <1>2, <2>1, <2>2
<1> QED
  BY <1>2, <1>3

\* The types are kept when a receive begins ...
LEMMA FillBeginInv ==
  ASSUME HandlingInv, NEW m \in Messages, FillBegin(m)
  PROVE  HandlingInv'
<1> USE DEF HandlingInv
<1>1. /\ ~ended /\ filling = <<>> /\ filling' = m /\ received' = Append(received, m)
      /\ pending \in Nat /\ pending > 0 /\ pending' = pending - 1
      /\ mBuffer' = MayHold(mBuffer, m)
      /\ packet' = [w \in Workers |-> IF pc[w] = "copy" THEN MayHold(packet[w], m)
                                      ELSE packet[w]]
      /\ UNCHANGED <<arrived, pc, source, at, mSettings, ended>>
  BY DEF FillBegin, TypeOK
<1>2. /\ received' \in Seq(Messages) /\ received' # <<>>
      /\ Len(received) \in Nat /\ DOMAIN received = 1..Len(received)
      /\ Len(received') = Len(received) + 1
      /\ DOMAIN received' = 1..(Len(received) + 1)
      /\ received'[Len(received')] = m
      /\ \A j \in DOMAIN received : j \in DOMAIN received' /\ received'[j] = received[j]
  BY <1>1, SinceGrows
<1>3. /\ \A j \in Nat \ {0} : \A c, v : Since(j, c, v) => Since(j, c, v)'
      /\ \A j \in 1..Len(received'), c \in DOMAIN m : Since(j, c, m[c])'
  <2>1. /\ \A j \in Nat \ {0} : \A c, v : Since(j, c, v) =>
             \E i \in j..Len(received') : c \in DOMAIN received'[i] /\ received'[i][c] = v
        /\ \A j \in 1..Len(received'), c \in DOMAIN m :
             \E i \in j..Len(received') : c \in DOMAIN received'[i] /\ received'[i][c] = m[c]
    BY <1>1, SinceGrows
  <2> QED
    BY <1>1, <2>1 DEF Since
<1>4. m # <<>>
  BY MessageFacts
<1>5. /\ DOMAIN mBuffer' = Places /\ \A c \in Places : mBuffer'[c] \subseteq Byte(c)
      /\ \A c \in Places : \A v \in mBuffer'[c] :
           v \in mBuffer[c] \/ (c \in DOMAIN m /\ v = m[c])
  BY <1>1, MayHoldTyped DEF TypeOK
<1>6. ASSUME NEW w \in Workers
      PROVE  /\ DOMAIN packet'[w] = Places
             /\ \A c \in Places : packet'[w][c] \subseteq Byte(c)
             /\ pc[w] # "copy" => packet'[w] = packet[w]
             /\ \A c \in Places : \A v \in packet'[w][c] :
                  v \in packet[w][c] \/ (c \in DOMAIN m /\ v = m[c])
  <2>1. DOMAIN packet[w] = Places /\ \A c \in Places : packet[w][c] \subseteq Byte(c)
    BY DEF TypeOK
  <2>2. CASE pc[w] = "copy"
    BY <1>1, <2>1, <2>2, MayHoldTyped
  <2>3. CASE pc[w] # "copy"
    BY <1>1, <2>1, <2>3
  <2> QED
    BY <2>2, <2>3
<1>7. ASSUME NEW w \in Workers
      PROVE  /\ source[w] \in 0..Len(received') /\ (pc[w] # "idle" => source[w] \in DOMAIN received)
             /\ pc[w] # "idle" => received'[source[w]] = received[source[w]]
  <2>1. source[w] \in 0..Len(received) /\ (pc[w] # "idle" => source[w] # 0)
    BY DEF TypeOK
  <2> QED
    BY <1>2, <2>1
<1>8. TypeOK'
  <2>1. \A w \in Workers : pc[w] \in Handling =>
          Whole(received'[source[w]]) /\ Sizes(packet'[w]) \subseteq 0..MaxPacketSize
    BY <1>6, <1>7 DEF TypeOK, Handling
  <2>2. source \in [Workers -> 0..Len(received')] /\ DOMAIN packet' = Workers
    BY <1>1, <1>7 DEF TypeOK
  <2>3. pending' \in Nat /\ filling' \in Messages \cup {<<>>}
    BY <1>1
  <2>4. arrived' \in Seq(Nat) /\ \A k \in DOMAIN arrived' : arrived'[k] \in DOMAIN received'
    BY <1>1, <1>2 DEF TypeOK
  <2> QED
    BY <1>1, <1>2, <1>5, <1>6, <1>7, <2>1, <2>2, <2>3, <2>4 DEF TypeOK
<1>9. OfKernel'
  <2>1. ASSUME NEW j \in DOMAIN received', j < Len(received')
        PROVE  FreshSince(mBuffer, j)'
    <3>1. j \in DOMAIN received /\ FreshSince(mBuffer, j) /\ received'[j] = received[j] /\ j \in Nat \ {0}
      BY <1>1, <1>2, <2>1 DEF OfKernel, Complete
    <3> QED
      BY <1>2, <1>3, <1>5, <3>1 DEF FreshSince
  <2>2. \A k \in DOMAIN arrived : arrived[k] < Len(received')
    BY <1>2 DEF TypeOK
  <2> QED
    BY <1>1, <1>2, <1>4, <2>1, <2>2 DEF OfKernel, Complete
<1>10. ASSUME NEW w \in Workers
       PROVE  OfWorker(w)'
  <2>1. OfWorker(w)
    OBVIOUS
  <2>2. ASSUME pc[w] \in {"copy", "deserialize"}
        PROVE  FreshSince(packet[w], source[w])'
    <3>1. FreshSince(packet[w], source[w])
      BY <2>1, <2>2 DEF OfWorker
    <3>2. source[w] \in Nat \ {0} /\ source[w] \in 1..Len(received')
      BY <1>2, <1>7, <2>2
    <3> QED
      BY <1>1, <1>3, <1>6, <1>7, <2>2, <3>1, <3>2 DEF FreshSince
  <2>3. ASSUME pc[w] \in Handling, NEW c \in Readable(packet[w]), NEW v \in packet[w][c]
        PROVE  Since(source[w], c, v)'
    <3>1. source[w] \in Nat \ {0} /\ Since(source[w], c, v)
      BY <1>2, <1>7, <2>1, <2>3 DEF OfWorker, Handling
    <3> QED
      BY <1>1, <1>3, <3>1
  <2>4. pc[w] \in Handling => packet'[w] = packet[w]
    BY <1>6 DEF Handling
  <2> QED
    BY <1>1, <1>6, <2>1, <2>2, <2>3, <2>4 DEF OfWorker, Handling
<1>11. SettingsWereSent'
  <2>1. \A j \in DOMAIN received : Whole(received[j]) => j \in DOMAIN received' /\ Whole(received'[j])
    BY <1>2
  <2>2. \A k \in 1..SettingsSize :
          Since(1, Data(k), mSettings[k]) => Since(1, Data(k), mSettings[k])'
    <3>1. 1 \in Nat \ {0}
      OBVIOUS
    <3> QED
      BY <1>1, <1>3, <3>1
  <2> QED
    BY <1>1, <2>1, <2>2 DEF SettingsWereSent
<1> QED
  BY <1>8, <1>9, <1>10, <1>11

\* ... and when it completes: a whole message leaves nothing of those before.
LEMMA FillEndInv ==
  ASSUME HandlingInv, FillEnd
  PROVE  HandlingInv'
<1> USE DEF HandlingInv
<1>1. /\ ~ended /\ filling # <<>> /\ filling' = <<>>
      /\ mBuffer' = [c \in Places |-> IF c \in DOMAIN filling THEN {filling[c]}
                                      ELSE mBuffer[c]]
      /\ arrived' = Append(arrived, Len(received))
      /\ UNCHANGED <<pending, pc, source, packet, at, mSettings, received, ended>>
  BY DEF FillEnd, workerVars
<1>2. /\ filling \in Messages /\ filling = received[Len(received)] /\ received # <<>>
      /\ received \in Seq(Messages)
  BY <1>1 DEF OfKernel, TypeOK
<1>3. Len(received) \in Nat /\ DOMAIN received = 1..Len(received) /\ Len(received) \in DOMAIN received
  BY <1>2
<1>4. \A k \in DOMAIN arrived' : \/ k \in DOMAIN arrived /\ arrived'[k] = arrived[k]
                                \/ arrived'[k] = Len(received)
  BY <1>1, <1>3 DEF TypeOK
<1>5. TypeOK'
  <2>1. arrived' \in Seq(Nat)
    BY <1>1, <1>3 DEF TypeOK
  <2>2. \A c \in Places : mBuffer'[c] \subseteq Byte(c)
    BY <1>1, <1>2, MessageFacts DEF TypeOK
  <2> QED
    BY <1>1, <1>3, <1>4, <2>1, <2>2 DEF TypeOK, Handling
<1>6. /\ received' = received
      /\ \A j, c, v : Since(j, c, v)' <=> Since(j, c, v)
  BY <1>1 DEF Since
<1>7. ASSUME NEW j \in DOMAIN received
      PROVE  FreshSince(mBuffer, j)'
  <2>1. CASE j = Len(received)
    <3>1. ASSUME Whole(received[j]), NEW c \in Places, NEW v \in mBuffer'[c]
          PROVE  Since(j, c, v)
      <4>1. c \in DOMAIN received[j] /\ v = received[j][c]
        <5>1. received[j] = filling /\ c \in DOMAIN filling
          BY <1>2, <2>1, <3>1 DEF Whole
        <5>2. mBuffer'[c] = {filling[c]}
          BY <1>1, <3>1, <5>1
        <5> QED
          BY <3>1, <5>1, <5>2
      <4>2. j \in j..Len(received)
        BY <1>3, <2>1
      <4> QED
        BY <4>1, <4>2 DEF Since
    <3> QED
      BY <1>6, <3>1 DEF FreshSince
  <2>2. CASE j # Len(received)
    <3>1. FreshSince(mBuffer, j)
      BY <1>3, <2>2 DEF OfKernel, Complete
    <3>2. \A c \in Places : \A v \in mBuffer'[c] :
            v \in mBuffer[c] \/ (c \in DOMAIN filling /\ v = filling[c])
      BY <1>1
    <3>3. \A c \in DOMAIN filling : Since(j, c, filling[c])
      <4>1. Len(received) \in j..Len(received)
        BY <1>3
      <4> QED
        BY <1>2, <4>1 DEF Since
    <3> QED
      BY <1>6, <3>1, <3>2, <3>3 DEF FreshSince
  <2> QED
    BY <2>1, <2>2
<1>8. OfKernel'
  BY <1>1, <1>7 DEF OfKernel, Complete
<1>9. ASSUME NEW w \in Workers
      PROVE  OfWorker(w)'
  <2>1. OfWorker(w)
    BY <1>1
  <2>2. FreshSince(packet[w], source[w])' <=> FreshSince(packet[w], source[w])
    BY <1>1, <1>6 DEF FreshSince
  <2> QED
    BY <1>1, <1>6, <2>1, <2>2 DEF OfWorker
<1>10. SettingsWereSent'
  BY <1>1 DEF Since, SettingsWereSent
<1> QED
  BY <1>5, <1>8, <1>9, <1>10

-----------------------------------------------------------------------------

\* Only worker w, and what is said, changes.
Step(w, to) ==
  /\ ~ended
  /\ pc' = [pc EXCEPT ![w] = to]
  /\ \A x \in Workers \ {w} :
       packet'[x] = packet[x] /\ source'[x] = source[x] /\ at'[x] = at[x]
  /\ UNCHANGED <<mBuffer, filling, received>>

\* What the other workers, and the kernel, keep.
LEMMA OthersKeep ==
  ASSUME HandlingInv, NEW w \in Workers, NEW to, Step(w, to)
  PROVE  /\ \A x \in Workers \ {w} : pc'[x] = pc[x]
         /\ \A x \in Workers \ {w} : OfWorker(x)'
         /\ \A j \in DOMAIN received : Complete(j) => FreshSince(mBuffer, j)'
         /\ pc'[w] = to
<1> USE DEF HandlingInv, Step
<1>1. \A x \in Workers \ {w} : pc'[x] = pc[x]
  BY DEF TypeOK
<1>2. \A x \in Workers \ {w} : OfWorker(x)'
  BY <1>1 DEF OfWorker, FreshSince, Since
<1>3. \A j \in DOMAIN received : Complete(j) => FreshSince(mBuffer, j)'
  BY DEF OfKernel, FreshSince, Since
<1> QED
  BY <1>1, <1>2, <1>3 DEF TypeOK

\* A worker takes the oldest receive and begins to copy.
LEMMA CopyBeginInv ==
  ASSUME HandlingInv, NEW w \in Workers, CopyBegin(w)
  PROVE  HandlingInv'
<1> USE DEF HandlingInv
<1>1. /\ pc[w] = "idle" /\ Step(w, "copy")
      /\ arrived # <<>> /\ arrived' = Tail(arrived)
      /\ source' = [source EXCEPT ![w] = Head(arrived)]
      /\ packet' = [packet EXCEPT ![w] = mBuffer]
      /\ UNCHANGED <<mBuffer, pending, filling, at, mSettings, received, ended>>
  BY DEF CopyBegin, Goto, Step, TypeOK
<1>2. /\ Head(arrived) \in DOMAIN received /\ Tail(arrived) \in Seq(Nat)
      /\ Complete(Head(arrived))
      /\ \A i \in DOMAIN Tail(arrived) :
           Tail(arrived)[i] \in DOMAIN received /\ Complete(Tail(arrived)[i])
  BY <1>1, ArrivedParts DEF OfKernel, TypeOK
<1>3. source'[w] = Head(arrived) /\ packet'[w] = mBuffer
  BY <1>1 DEF TypeOK
<1>4. TypeOK'
  <2>1. DOMAIN received = 1..Len(received) /\ Len(received) \in Nat
    BY DEF TypeOK
  <2>2. source' \in [Workers -> 0..Len(received)] /\ source'[w] # 0
    BY <1>1, <1>2, <1>3, <2>1 DEF TypeOK
  <2>3. pc' \in [Workers -> {"idle", "copy", "deserialize", "rearm"} \cup Handling]
        /\ pc'[w] = "copy" /\ \A x \in Workers \ {w} : pc'[x] = pc[x]
    BY <1>1 DEF TypeOK, Step
  <2>4. DOMAIN packet' = Workers
    BY <1>1 DEF TypeOK
  <2> QED
    BY <1>1, <1>2, <1>3, <2>2, <2>3, <2>4 DEF TypeOK, Handling, Step
<1>5. OfKernel'
  BY <1>1, <1>2, OthersKeep DEF OfKernel, Complete
<1>6. OfWorker(w)'
  <2>1. FreshSince(packet[w], source[w])'
    BY <1>1, <1>2, <1>3 DEF OfKernel, FreshSince, Since
  <2> QED
    BY <1>1, <2>1, OthersKeep DEF OfWorker, Handling
<1>7. SettingsWereSent'
  BY <1>1 DEF SettingsWereSent, Since
<1> QED
  BY <1>1, <1>4, <1>5, <1>6, <1>7, OthersKeep

\* The Packet made of a copy has bytes of the copy only.
LEMMA DeserializeInv ==
  ASSUME HandlingInv, NEW w \in Workers, DeserializePacket(w)
  PROVE  HandlingInv'
<1> USE DEF HandlingInv
<1> DEFINE whole == Whole(received[source[w]])
<1>1. PICK size0 \in packet[w][Size0], size1 \in packet[w][Size1],
           type0 \in packet[w][Type0], type1 \in packet[w][Type1] :
        /\ Goto(w, "deserialize",
             IF ~whole THEN "rearm"
             ELSE IF Deserializes(size0 + Base * size1, type0 \cup type1, INVALID)
               THEN "audio" ELSE "rearm")
        /\ packet' = [packet EXCEPT ![w] = Deserialized(@, size0, size1, type0, type1)]
        /\ UNCHANGED <<kernelVars, source, at, mSettings, ended>>
  BY DEF DeserializePacket, DeserializeAs
<1> DEFINE p == packet[w]
           q == Deserialized(p, size0, size1, type0, type1)
           size == size0 + Base * size1
<1>2. DOMAIN p = Places /\ \A c \in Places : p[c] \subseteq Byte(c)
  BY DEF TypeOK
<1>3. /\ DOMAIN q = Places /\ \A c \in Places : q[c] \subseteq Byte(c)
      /\ Sizes(q) = {size} /\ size \in Int
      /\ size \in 0..MaxPacketSize => \A c \in Readable(q) : c \in Places /\ q[c] \subseteq p[c]
  BY <1>2, DeserializedFacts
<1>4. packet'[w] = q
  BY <1>1 DEF TypeOK
<1>5. PICK to \in {"rearm", "audio"} :
        /\ Step(w, to) /\ pc[w] = "deserialize"
        /\ to = "audio" => whole /\ size \in 0..MaxPacketSize
  <2>1. Deserializes(size, type0 \cup type1, INVALID) => size \in 0..MaxPacketSize
    BY <1>3, MessageAssumption DEF Deserializes
  <2>2. \A to : Goto(w, "deserialize", to) => Step(w, to)
    BY <1>1 DEF Goto, Step, kernelVars, TypeOK
  <2> QED
    BY <1>1, <2>1, <2>2 DEF Goto
<1>6. UNCHANGED <<mBuffer, pending, filling, arrived, received, source, at, mSettings, ended>>
  BY <1>1 DEF kernelVars
<1>7. pc'[w] = to /\ \A x \in Workers \ {w} : pc'[x] = pc[x] /\ packet'[x] = packet[x]
  BY <1>5, OthersKeep DEF Step
<1>8. TypeOK'
  <2>1. pc' \in [Workers -> {"idle", "copy", "deserialize", "rearm"} \cup Handling]
    BY <1>5 DEF TypeOK, Step, Handling
  <2>2. DOMAIN packet' = Workers
    BY <1>1 DEF TypeOK
  <2>3. to = "audio" => Sizes(packet'[w]) \subseteq 0..MaxPacketSize
    BY <1>3, <1>4, <1>5
  <2> QED
    BY <1>3, <1>4, <1>5, <1>6, <1>7, <2>1, <2>2, <2>3 DEF TypeOK, Handling
<1>9. OfWorker(w)'
  <2>1. ASSUME to = "audio", NEW c \in Readable(q), NEW v \in q[c]
        PROVE  Since(source[w], c, v)
    <3>1. FreshSince(p, source[w]) /\ whole
      BY <1>5, <2>1 DEF OfWorker
    <3> QED
      BY <1>3, <1>5, <2>1, <3>1 DEF FreshSince
  <2> QED
    BY <1>4, <1>6, <1>7, <2>1 DEF OfWorker, Handling, Since
<1>10. OfKernel' /\ SettingsWereSent'
  BY <1>5, <1>6, OthersKeep DEF OfKernel, Complete, SettingsWereSent, Since
<1> QED
  BY <1>5, <1>8, <1>9, <1>10, OthersKeep

\* The steps that change no packet and no setting.
LEMMA QuietInv ==
  ASSUME HandlingInv, NEW w \in Workers,
         CopyEnd(w) \/ AudioHandler(w) \/ SongRunsOn(w) \/ SettingsHandler(w)
  PROVE  HandlingInv'
<1> USE DEF HandlingInv
<1>1. CASE SongRunsOn(w)
  BY <1>1 DEF SongRunsOn, kernelVars, workerVars, TypeOK, OfKernel, Complete, OfWorker,
              FreshSince, Since, SettingsWereSent, Handling
<1>2. CASE CopyEnd(w) \/ AudioHandler(w) \/ SettingsHandler(w)
  <2>1. UNCHANGED <<kernelVars, source, packet, mSettings, ended>>
    BY <1>2 DEF CopyEnd, AudioHandler, SettingsHandler
  <2>2. PICK to \in {"deserialize", "settings", "ShareName", "rearm"} :
          /\ Step(w, to)
          /\ to = "deserialize" => pc[w] = "copy"
          /\ to # "deserialize" => pc[w] \in Handling
          /\ to = "ShareName" => ChangesSettings(packet[w]) /\ at'[w] = 1
    BY <1>2, <2>1 DEF CopyEnd, AudioHandler, SettingsHandler, Goto, Step, kernelVars, TypeOK, Handling
  <2>3. at' \in [Workers -> 1..(SettingsSize + 1)]
    <3>1. 1 \in 1..(SettingsSize + 1)
      BY PlaceFacts
    <3> QED
      BY <1>2, <3>1 DEF CopyEnd, AudioHandler, SettingsHandler, TypeOK
  <2>4. pc'[w] = to /\ \A x \in Workers \ {w} : pc'[x] = pc[x]
    BY <2>2, OthersKeep
  <2>5. pc' \in [Workers -> {"idle", "copy", "deserialize", "rearm"} \cup Handling]
    BY <2>2 DEF TypeOK, Step, Handling
  <2>6. TypeOK'
    BY <2>1, <2>2, <2>3, <2>4, <2>5 DEF TypeOK, Handling, kernelVars
  <2>7. OfWorker(w)'
    <3>1. to = "ShareName" => Sizes(packet[w]) = {SettingsSize} /\ at'[w] \in 1..NameSize
      BY <2>2, MessageAssumption DEF ChangesSettings
    <3> QED
      BY <2>1, <2>2, <2>4, <3>1 DEF OfWorker, Handling, FreshSince, Since, kernelVars
  <2>8. OfKernel' /\ SettingsWereSent'
    BY <2>1, <2>2, OthersKeep DEF OfKernel, Complete, SettingsWereSent, Since, kernelVars
  <2> QED
    BY <2>2, <2>6, <2>7, <2>8, OthersKeep
<1> QED
  BY <1>1, <1>2

\* The worker forgets its packet.
LEMMA BeginReadsInv ==
  ASSUME HandlingInv, NEW w \in Workers, BeginReads(w)
  PROVE  HandlingInv'
<1> USE DEF HandlingInv
<1>1. /\ Step(w, "idle") /\ pending' = pending + 2
      /\ packet' = [packet EXCEPT ![w] = Zeroes]
      /\ at' = [at EXCEPT ![w] = 1] /\ source' = [source EXCEPT ![w] = 0]
      /\ UNCHANGED <<mBuffer, filling, arrived, mSettings, received, ended>>
  BY DEF BeginReads, Goto, Step, TypeOK
<1>2. pc'[w] = "idle" /\ packet'[w] = Zeroes
      /\ \A x \in Workers \ {w} : pc'[x] = pc[x] /\ packet'[x] = packet[x] /\ source'[x] = source[x]
  BY <1>1, OthersKeep DEF Step, TypeOK
<1>3. TypeOK'
  <2>1. pending' \in Nat /\ at' \in [Workers -> 1..(SettingsSize + 1)]
        /\ source' \in [Workers -> 0..Len(received)]
    <3>1. 1 \in 1..(SettingsSize + 1)
      BY PlaceFacts
    <3>2. Len(received) \in Nat
      BY DEF TypeOK
    <3> QED
      BY <1>1, <3>1, <3>2 DEF TypeOK
  <2>2. pc' \in [Workers -> {"idle", "copy", "deserialize", "rearm"} \cup Handling]
        /\ DOMAIN packet' = Workers
    BY <1>1 DEF TypeOK, Step
  <2> QED
    BY <1>1, <1>2, <2>1, <2>2, ZeroesTyped DEF TypeOK, Handling
<1>4. OfWorker(w)' /\ OfKernel' /\ SettingsWereSent'
  BY <1>1, <1>2, OthersKeep DEF OfWorker, Handling, OfKernel, Complete, SettingsWereSent, Since
<1> QED
  BY <1>1, <1>3, <1>4, OthersKeep

\* A byte of the settings that is assigned was received in its place.
LEMMA AssignInv ==
  ASSUME HandlingInv, NEW w \in Workers, AssignChar(w) \/ FillChar(w) \/ AssignFlag(w)
  PROVE  HandlingInv'
<1> USE DEF HandlingInv
<1>1. /\ pc[w] \in {"ShareName", "fill", "flags"} /\ ~ended
      /\ Sizes(packet[w]) = {SettingsSize} /\ ended' \in BOOLEAN
  BY DEF AssignChar, FillChar, AssignFlag, Goto, OfWorker, TypeOK
<1> DEFINE Assigns(k, v, to) ==
             /\ Goto(w, pc[w], to) /\ Assign(w, k, v)
             /\ v \in packet[w][Data(k)] \/ (v = Fill /\ k \in 2..NameSize)
             /\ to = "ShareName" => (k < NameSize \/ ended')
             /\ to = "fill" => k < NameSize
             /\ to = "flags" => k < SettingsSize
             /\ k = NameSize => v \in {NUL, Fill} \/ ended'
<1>2. \E k \in 1..SettingsSize, to \in {"ShareName", "fill", "flags", "rearm"} :
        \E v : Assigns(k, v, to)
  <2>1. NameSize \in Nat \ {0} /\ SettingsSize = NameSize + 2 /\ at[w] \in Nat
    BY MessageAssumption DEF SettingsSize, TypeOK
  <2>2. CASE AssignChar(w)
    <3>1. at[w] \in 1..NameSize
      BY <1>1, <2>2 DEF OfWorker, AssignChar
    <3>2. PICK v \in packet[w][Data(at[w])] :
            /\ \/ v # NUL /\ Goto(w, "ShareName", "ShareName")
               \/ v = NUL /\ Goto(w, "ShareName", "flags")
               \/ v = NUL /\ at[w] < NameSize /\ Goto(w, "ShareName", "fill")
            /\ Assign(w, at[w], v)
            /\ ended' = (v # NUL /\ at[w] = NameSize)
      BY <2>2 DEF AssignChar
    <3>3. PICK to \in {"ShareName", "fill", "flags"} :
            /\ Goto(w, "ShareName", to)
            /\ to = "ShareName" => v # NUL
            /\ to = "fill" => at[w] < NameSize
      BY <3>2
    <3>4. pc[w] = "ShareName" /\ at[w] \in 1..SettingsSize /\ at[w] < SettingsSize
      BY <2>1, <3>1, <3>3 DEF Goto
    <3>5. Assigns(at[w], v, to)
      <4>1. Goto(w, pc[w], to) /\ Assign(w, at[w], v) /\ v \in packet[w][Data(at[w])]
        BY <3>2, <3>3, <3>4
      <4>2. v = NUL \/ at[w] < NameSize \/ ended'
        <5>1. at[w] < NameSize \/ at[w] = NameSize
          BY <2>1, <3>1
        <5>2. v # NUL /\ at[w] = NameSize => ended' = TRUE
          BY <3>2, Zenon
        <5> QED
          BY <5>1, <5>2
      <4>3. to = "ShareName" => at[w] < NameSize \/ ended'
        BY <3>3, <4>2
      <4> QED
        BY <3>3, <3>4, <4>1, <4>2, <4>3
    <3> QED
      BY <3>4, <3>5
  <2>3. CASE FillChar(w)
    <3>1. pc[w] = "fill" /\ at[w] \in 2..NameSize
      BY <2>3 DEF OfWorker, FillChar, Goto
    <3>2. \E to \in {"fill", "flags"} :
            /\ Goto(w, "fill", to) /\ (to = "fill" => at[w] < NameSize)
      BY <2>3 DEF FillChar
    <3>3. PICK to \in {"fill", "flags"} :
            /\ Goto(w, "fill", to) /\ (to = "fill" => at[w] < NameSize)
      BY <3>2
    <3>4. at[w] \in 1..SettingsSize /\ at[w] < SettingsSize /\ Assign(w, at[w], Fill)
      BY <2>1, <2>3, <3>1 DEF FillChar
    <3>5. Assigns(at[w], Fill, to)
      BY <2>1, <3>1, <3>3, <3>4
    <3> QED
      BY <3>4, <3>5
  <2>4. CASE AssignFlag(w)
    <3> DEFINE k == IF at[w] <= NameSize THEN NameSize + 1 ELSE at[w]
    <3>1. pc[w] = "flags" /\ at[w] <= SettingsSize
      BY <2>4 DEF OfWorker, AssignFlag, Goto
    <3>2. k \in 1..SettingsSize /\ k # NameSize
      BY <2>1, <3>1
    <3>3. /\ Goto(w, "flags", IF k < SettingsSize THEN "flags" ELSE "rearm")
          /\ \E v \in packet[w][Data(k)] : Assign(w, k, v)
      BY <2>4 DEF AssignFlag
    <3>4. PICK v \in packet[w][Data(k)] : Assign(w, k, v)
      BY <3>3
    <3>5. PICK to \in {"flags", "rearm"} :
            Goto(w, "flags", to) /\ (to = "flags" => k < SettingsSize)
      BY <3>3
    <3>6. Assigns(k, v, to)
      BY <3>1, <3>2, <3>4, <3>5
    <3> QED
      BY <3>2, <3>6
  <2> QED
    BY <2>2, <2>3, <2>4
<1> PICK k \in 1..SettingsSize, to \in {"ShareName", "fill", "flags", "rearm"} :
      \E v : Assigns(k, v, to)
  BY <1>2
<1>2a. PICK v : Assigns(k, v, to)
  OBVIOUS
<1>3. /\ Step(w, to) /\ UNCHANGED <<kernelVars, source, packet>>
      /\ mSettings' = [mSettings EXCEPT ![k] = v] /\ at' = [at EXCEPT ![w] = k + 1]
  BY <1>2a DEF Goto, Assign, Step, kernelVars, TypeOK
<1>4. pc'[w] = to /\ at'[w] = k + 1 /\ \A x \in Workers \ {w} : pc'[x] = pc[x]
  BY <1>3, OthersKeep DEF TypeOK
<1>5. NameSize \in Nat \ {0} /\ SettingsSize = NameSize + 2
  BY MessageAssumption DEF SettingsSize
<1>6. v \in packet[w][Data(k)] => v \in Bytes /\ Since(1, Data(k), v)
  <2>1. ASSUME v \in packet[w][Data(k)]
        PROVE  v \in Bytes /\ Since(1, Data(k), v)
    <3>1. Data(k) \in Places /\ Byte(Data(k)) = Bytes
      BY PlaceFacts
    <3>2. Data(k) \in Readable(packet[w])
      BY <1>1 DEF Readable
    <3>3. Since(source[w], Data(k), v)
      BY <1>1, <2>1, <3>2 DEF OfWorker, Handling
    <3>4. source[w] \in Nat /\ source[w] >= 1 /\ Len(received) \in Nat
      BY <1>1 DEF TypeOK
    <3>5. PICK i \in source[w]..Len(received) :
            Data(k) \in DOMAIN received[i] /\ received[i][Data(k)] = v
      BY <3>3 DEF Since
    <3>6. i \in 1..Len(received)
      BY <3>4
    <3> QED
      BY <2>1, <3>1, <3>5, <3>6 DEF Since, TypeOK
  <2> QED
    BY <2>1
<1>7. TypeOK'
  <2>1. mSettings' \in Settings
    BY <1>2a, <1>3, <1>6 DEF TypeOK, Settings
  <2>2. at' \in [Workers -> 1..(SettingsSize + 1)]
    BY <1>3, <1>5 DEF TypeOK
  <2>3. pc' \in [Workers -> {"idle", "copy", "deserialize", "rearm"} \cup Handling]
    BY <1>3 DEF TypeOK, Step, Handling
  <2> QED
    BY <1>1, <1>3, <1>4, <2>1, <2>2, <2>3 DEF TypeOK, Handling, kernelVars
<1>8. OfWorker(w)'
  <2>1. /\ to = "ShareName" /\ ~ended' => k + 1 \in 1..NameSize
        /\ to = "fill" => k + 1 \in 2..NameSize
        /\ to = "flags" => k + 1 <= SettingsSize
    BY <1>2a, <1>5
  <2> QED
    BY <1>1, <1>3, <1>4, <2>1 DEF OfWorker, Handling, FreshSince, Since, kernelVars
<1>9. OfKernel'
  BY <1>3, OthersKeep DEF OfKernel, Complete, kernelVars
<1>10. SettingsWereSent'
  <2>1. \A i \in 1..SettingsSize : mSettings'[i] = IF i = k THEN v ELSE mSettings[i]
    BY <1>3 DEF TypeOK, Settings
  <2>2. \E j \in DOMAIN received : Whole(received[j])
    <3>1. source[w] \in DOMAIN received /\ Whole(received[source[w]])
      <4>1. source[w] \in 0..Len(received) /\ source[w] # 0 /\ Whole(received[source[w]])
        BY <1>1 DEF TypeOK, Handling
      <4>2. DOMAIN received = 1..Len(received) /\ Len(received) \in Nat
        BY DEF TypeOK
      <4> QED
        BY <4>1, <4>2
    <3> QED
      BY <3>1
  <2>3. ~ended' => mSettings'[NameSize] \in {NUL, Fill}
    BY <1>1, <1>2a, <1>5, <2>1 DEF SettingsWereSent
  <2>4. ASSUME NEW i \in 1..SettingsSize
        PROVE  \/ mSettings'[i] = DefaultSettings[i]
               \/ i \in 2..NameSize /\ mSettings'[i] = Fill
               \/ Since(1, Data(i), mSettings'[i])
    BY <1>2a, <1>6, <2>1 DEF SettingsWereSent
  <2> QED
    BY <1>3, <2>2, <2>3, <2>4 DEF SettingsWereSent, Since, kernelVars
<1> QED
  BY <1>3, <1>7, <1>8, <1>9, <1>10, OthersKeep

-----------------------------------------------------------------------------

\* The inductive invariant.
LEMMA HandlingInvariant == SafeSpec => []HandlingInv
<1>1. Init => HandlingInv
  <2> SUFFICES ASSUME Init PROVE HandlingInv
    OBVIOUS
  <2>1. Len(received) = 0 /\ DOMAIN received = {} /\ received \in Seq(Messages)
        /\ arrived \in Seq(Nat) /\ DOMAIN arrived = {}
    BY DEF Init
  <2>2. TypeOK
    <3>1. 1 \in 1..(SettingsSize + 1)
      BY PlaceFacts
    <3>2. pc \in [Workers -> {"idle", "copy", "deserialize", "rearm"} \cup Handling]
      BY DEF Init
    <3>3. DOMAIN mBuffer = Places /\ \A c \in Places : mBuffer[c] \subseteq Byte(c)
      BY ZeroesTyped DEF Init
    <3>4. ASSUME NEW w \in Workers
          PROVE  packet[w] = Zeroes /\ pc[w] = "idle"
      BY DEF Init
    <3>5. \A w \in Workers : /\ DOMAIN packet[w] = Places
                             /\ \A c \in Places : packet[w][c] \subseteq Byte(c)
      BY <3>4, ZeroesTyped
    <3>6. /\ pending \in Nat /\ filling \in Messages \cup {<<>>}
      BY DEF Init
    <3>7. 0 \in 0..Len(received)
      BY <2>1
    <3>8. source \in [Workers -> 0..Len(received)] /\ at \in [Workers -> 1..(SettingsSize + 1)]
      BY <3>1, <3>7 DEF Init
    <3>9. DOMAIN packet = Workers /\ mSettings \in Settings /\ ended \in BOOLEAN
      BY MessageAssumption DEF Init
    <3> QED
      BY <2>1, <3>2, <3>3, <3>4, <3>5, <3>6, <3>8, <3>9 DEF TypeOK, Handling
  <2>3. OfKernel /\ \A w \in Workers : OfWorker(w)
    BY <2>1 DEF Init, OfKernel, OfWorker, Handling
  <2>4. SettingsWereSent
    BY MessageAssumption DEF Init, SettingsWereSent
  <2> QED
    BY <2>2, <2>3, <2>4 DEF HandlingInv
<1>2. HandlingInv /\ [Next]_vars => HandlingInv'
  <2> SUFFICES ASSUME HandlingInv, [Next]_vars PROVE HandlingInv'
    OBVIOUS
  <2>1. CASE UNCHANGED vars
    BY <2>1 DEF vars, kernelVars, workerVars, HandlingInv, TypeOK, OfKernel, Complete,
                OfWorker, FreshSince, Since, SettingsWereSent
  <2>2. CASE Next
    BY <2>2, FillBeginInv, FillEndInv, CopyBeginInv, DeserializeInv, QuietInv,
       BeginReadsInv, AssignInv DEF Next, Handle
  <2> QED
    BY <2>1, <2>2
<1> QED
  BY <1>1, <1>2, PTL DEF SafeSpec

\* Every reachable state is well typed, and no handler sees a part of a packet
\* or a size out of range.
THEOREM HandlingTypeCorrect == SafeSpec => []TypeOK
<1>1. HandlingInv => TypeOK
  BY DEF HandlingInv
<1> QED
  BY <1>1, HandlingInvariant, PTL

\* However the kernel overwrites the buffer while workers copy it, no handler
\* acts on a byte older than the message its worker was woken for.
THEOREM NoHandlerSeesStaleBytes == SafeSpec => []NothingStale
<1>1. HandlingInv => NothingStale
  BY DEF HandlingInv, OfWorker, NothingStale
<1> QED
  BY <1>1, HandlingInvariant, PTL

\* However the workers interleave byte by byte, a client's settings hold bytes
\* it sent for that place, and its name has an end.
THEOREM OnlySentSettingsAreKept == SafeSpec => []SettingsWereSent
<1>1. HandlingInv => SettingsWereSent
  BY DEF HandlingInv
<1> QED
  BY <1>1, HandlingInvariant, PTL

=============================================================================

----------------------- MODULE SocketConnectionProofs -----------------------
(***************************************************************************)
(* Theorems about SocketConnection: its queue is counted and bounded for   *)
(* every limit, and when the kernel takes writes whole the connection is   *)
(* the pipe of BytePipe.                                                   *)
(***************************************************************************)
EXTENDS SocketConnection, SequenceTheorems, TLAPS

-----------------------------------------------------------------------------
(* The inductive invariant.                                                *)

\* What is in the loop or in the queue are the last bytes taken, in order, and
\* never in both.
InOrder ==
    /\ pc = "send" => queued = <<>> /\ buffer.from + buffer.len = taken
    /\ \A i \in 1..Len(queued) :
          /\ queued[i].from + queued[i].len <= taken
          /\ i < Len(queued) => queued[i + 1].from = queued[i].from + queued[i].len
          /\ i = Len(queued) => taken = queued[i].from + queued[i].len
    /\ byteCount = (IF queued = <<>> THEN 0 ELSE taken - queued[1].from)

\* Bytes are refused only after a Stop.
Admitted == taken <= arrived /\ (stop = "none" => taken = arrived)

\* Whole is the kernel's taking every write whole.  What is written is then
\* always a beginning of what was taken, and misses nothing but what is in the
\* connection until a write failed.
Whole == "partial" \notin MayFail
WrittenInOrder ==
    Whole => /\ written = Bytes(0, Len(written)) /\ Len(written) <= taken
             /\ stop = "none" \/ ~broken => written = Bytes(0, Before)

Inductive == TypeOK /\ InOrder /\ QueueBounded /\ Admitted /\ WrittenInOrder
-----------------------------------------------------------------------------
(* Sequences of bytes.                                                     *)

LEMMA BytesType ==
    ASSUME NEW n \in Nat, NEW k \in Nat
    PROVE  /\ Bytes(n, k) \in Seq(Nat) /\ Len(Bytes(n, k)) = k
           /\ \A i \in 1..k : Bytes(n, k)[i] = n + i
           /\ n + k <= MaxByte => Bytes(n, k) \in Seq(Byte)
<1>1. Bytes(n, k) \in [1..k -> Nat] BY DEF Bytes
<1>2. ASSUME n + k <= MaxByte PROVE Bytes(n, k) \in Seq(Byte)
  <2>1. \A i \in 1..k : n + i \in 1..MaxByte BY <1>2, SizeAssumption
  <2>2. Bytes(n, k) \in [1..k -> Byte] BY <2>1 DEF Bytes, Byte
  <2> QED BY <2>2
<1>3. \A i \in 1..k : Bytes(n, k)[i] = n + i BY DEF Bytes
<1>4. Bytes(n, k) \in Seq(Nat) /\ Len(Bytes(n, k)) = k BY <1>1
<1> QED BY <1>2, <1>3, <1>4

LEMMA NoBytes == ASSUME NEW n \in Nat PROVE Bytes(n, 0) = <<>>
<1>1. Bytes(n, 0) \in Seq(Nat) /\ Len(Bytes(n, 0)) = 0 BY BytesType
<1> QED BY <1>1, EmptySeq

\* The bytes up to the n-th and the k bytes that follow.
LEMMA BytesFollow ==
    ASSUME NEW n \in Nat, NEW k \in Nat
    PROVE  Bytes(0, n) \o Bytes(n, k) = Bytes(0, n + k)
<1> DEFINE s == Bytes(0, n)
           t == Bytes(n, k)
           u == Bytes(0, n + k)
<1>1. s \in Seq(Nat) /\ Len(s) = n /\ \A i \in 1..n : s[i] = 0 + i BY BytesType
<1>2. t \in Seq(Nat) /\ Len(t) = k /\ \A i \in 1..k : t[i] = n + i BY BytesType
<1>3. u \in Seq(Nat) /\ Len(u) = n + k /\ \A i \in 1..(n + k) : u[i] = 0 + i
  <2>1. 0 \in Nat /\ n + k \in Nat OBVIOUS
  <2> QED BY <2>1, BytesType
<1> HIDE DEF s, t, u
<1>4. /\ s \o t \in Seq(Nat) /\ Len(s \o t) = n + k
      /\ \A i \in 1..(n + k) : (s \o t)[i] = IF i <= n THEN s[i] ELSE t[i - n]
  <2>1. /\ s \o t \in Seq(Nat) /\ Len(s \o t) = Len(s) + Len(t)
        /\ \A i \in 1..Len(s) + Len(t) :
              (s \o t)[i] = IF i <= Len(s) THEN s[i] ELSE t[i - Len(s)]
    <3>1. s \in Seq(Nat) /\ t \in Seq(Nat) BY <1>1, <1>2
    <3> QED BY ONLY <3>1, ConcatProperties
  <2> QED BY <1>1, <1>2, <2>1
<1>5. ASSUME NEW i \in 1..(n + k) PROVE (s \o t)[i] = u[i]
  <2>1. CASE i <= n
    <3>1. i \in 1..n BY <2>1
    <3> QED BY <1>1, <1>3, <1>4, <2>1, <3>1
  <2>2. CASE ~(i <= n)
    <3>1. i - n \in 1..k /\ n + (i - n) = 0 + i BY <2>2
    <3>2. (s \o t)[i] = t[i - n] BY <1>4, <2>2
    <3>3. t[i - n] = n + (i - n) BY <1>2, <3>1
    <3>4. u[i] = 0 + i BY <1>3
    <3> QED BY <3>1, <3>2, <3>3, <3>4
  <2> QED BY <2>1, <2>2
<1>6. s \o t = u BY <1>3, <1>4, <1>5, SeqEqual
<1> QED BY <1>6 DEF s, t, u

\* The bytes up to the n-th begin those up to a later one.
LEMMA BytesBegin ==
    ASSUME NEW m \in Nat, NEW n \in 0..m
    PROVE  SubSeq(Bytes(0, m), 1, n) = Bytes(0, n)
<1> DEFINE s == Bytes(0, m)
           u == Bytes(0, n)
           v == SubSeq(s, 1, n)
<1>1. s \in Seq(Nat) /\ Len(s) = m /\ \A i \in 1..m : s[i] = 0 + i BY BytesType
<1>2. u \in Seq(Nat) /\ Len(u) = n /\ \A i \in 1..n : u[i] = 0 + i BY BytesType
<1> HIDE DEF s, u
<1>3. v \in Seq(Nat) /\ Len(v) = n /\ \A i \in 1..n : v[i] = s[i]
  <2>1. \A i \in 1..n : i \in 1..m OBVIOUS
  <2>2. 1 \in Int /\ n \in Int /\ \A i \in 1..n : s[i] \in Nat BY <1>1, <2>1
  <2>3. /\ v \in Seq(Nat) /\ Len(v) = (IF 1 <= n THEN n - 1 + 1 ELSE 0)
        /\ \A i \in 1..(n - 1 + 1) : v[i] = s[1 + i - 1]
    BY <2>2, SubSeqProperties
  <2>4. n - 1 + 1 = n /\ \A i \in 1..n : 1 + i - 1 = i OBVIOUS
  <2> HIDE DEF v
  <2> QED BY <2>3, <2>4
<1> HIDE DEF v
<1>4. \A i \in 1..n : v[i] = u[i]
  <2> TAKE i \in 1..n
  <2>1. i \in 1..m OBVIOUS
  <2> QED BY <1>1, <1>2, <1>3, <2>1
<1>5. v = u BY <1>2, <1>3, <1>4, SeqEqual
<1> QED BY <1>5 DEF s, u, v
-----------------------------------------------------------------------------
(* The steps.                                                              *)

\* A write puts bytes behind those written, all of the packet's when the
\* kernel takes writes whole.
LEMMA WroteBytes ==
    ASSUME NEW packet \in Packet, NEW k \in 0..packet.len, Wrote(packet, k),
           room \in 0..Room, written \in Seq(Byte), taken \in 0..MaxByte,
           packet.from + packet.len <= taken
    PROVE  /\ room' \in 0..Room /\ written' \in Seq(Byte) /\ ~broken
           /\ Whole /\ written = Bytes(0, packet.from)
                 => written' = Bytes(0, packet.from + packet.len)
<1>1. packet.from \in Nat /\ packet.len \in Nat /\ k \in Nat /\ packet.from + k <= MaxByte
  BY SizeAssumption DEF Packet
<1>2. room' \in 0..Room BY SizeAssumption DEF Wrote
<1>3. Bytes(packet.from, k) \in Seq(Byte) BY <1>1, BytesType
<1>4. written' = written \o Bytes(packet.from, k) /\ ~broken BY DEF Wrote
<1>5. written' \in Seq(Byte) BY <1>3, <1>4, ConcatProperties
<1>6. ASSUME Whole, written = Bytes(0, packet.from)
      PROVE  written' = Bytes(0, packet.from + packet.len)
  <2>1. k = packet.len BY <1>6 DEF Wrote, Whole
  <2> QED BY <1>1, <1>4, <1>6, <2>1, BytesFollow
<1> QED BY <1>2, <1>4, <1>5, <1>6

\* The packet that follows the bytes taken goes behind the queue.
LEMMA PushInOrder ==
    ASSUME TypeOK, InOrder, pc # "send", NEW k \in 0..MaxPacket,
           LET packet == [from |-> taken, len |-> k] IN Push(packet) /\ taken' = taken + packet.len,
           taken + k <= MaxByte, UNCHANGED <<pc, buffer>>
    PROVE  /\ queued' \in Seq(Packet) /\ byteCount' = byteCount + k /\ byteCount' \in Nat
           /\ InOrder'
           /\ Before' = Before
<1> DEFINE p == [from |-> taken, len |-> k]
<1>1. /\ taken \in Nat /\ k \in Nat /\ queued \in Seq(Packet) /\ Len(queued) \in Nat
      /\ byteCount \in Nat /\ MaxByte \in Nat /\ MaxPacket \in Nat
  BY SizeAssumption DEF TypeOK
<1>2. p \in Packet /\ p.from = taken /\ p.len = k BY <1>1 DEF Packet
<1>3. queued' = Append(queued, p) /\ byteCount' = byteCount + k /\ taken' = taken + k
  BY DEF Push
<1> HIDE DEF p
<1>4. /\ queued' \in Seq(Packet) /\ Len(queued') = Len(queued) + 1
      /\ queued'[Len(queued) + 1] = p
      /\ \A i \in 1..Len(queued) : queued'[i] = queued[i]
  BY <1>1, <1>2, <1>3, AppendProperties
<1>5. \A i \in 1..Len(queued) : queued[i].from \in Nat /\ queued[i].len \in Nat
  <2>1. \A i \in 1..Len(queued) : queued[i] \in Packet BY <1>1
  <2> QED BY <2>1, <1>1 DEF Packet
<1>6. ASSUME NEW i \in 1..Len(queued')
      PROVE  /\ queued'[i].from + queued'[i].len <= taken'
             /\ i < Len(queued') => queued'[i + 1].from = queued'[i].from + queued'[i].len
             /\ i = Len(queued') => taken' = queued'[i].from + queued'[i].len
  <2>1. CASE i = Len(queued) + 1 BY <1>1, <1>2, <1>3, <1>4, <2>1
  <2>2. CASE i \in 1..Len(queued)
    <3>1. /\ queued[i].from + queued[i].len <= taken
          /\ i < Len(queued) => queued[i + 1].from = queued[i].from + queued[i].len
          /\ i = Len(queued) => taken = queued[i].from + queued[i].len
      BY <2>2 DEF InOrder
    <3>2. queued'[i] = queued[i] BY <1>4, <2>2
    <3>3. i < Len(queued) => i + 1 \in 1..Len(queued) /\ queued'[i + 1] = queued[i + 1]
      BY <1>1, <1>4, <2>2
    <3>4. i = Len(queued) => queued'[i + 1] = p BY <1>4
    <3>5. i # Len(queued') /\ (i < Len(queued) \/ i = Len(queued)) BY <1>1, <1>4, <2>2
    <3>6. queued'[i].from + queued'[i].len <= taken'
      BY <1>1, <1>3, <1>5, <2>2, <3>1, <3>2
    <3>7. queued'[i + 1].from = queued'[i].from + queued'[i].len
      BY <1>2, <3>1, <3>2, <3>3, <3>4, <3>5
    <3> QED BY <3>5, <3>6, <3>7
  <2>3. i = Len(queued) + 1 \/ i \in 1..Len(queued) BY <1>1, <1>4
  <2> QED BY <2>1, <2>2, <2>3
<1>7. byteCount' = (IF queued' = <<>> THEN 0 ELSE taken' - queued'[1].from)
  <2>1. queued' # <<>> BY <1>1, <1>4
  <2>2. CASE queued = <<>>
    <3>1. queued'[1] = p /\ byteCount = 0 BY <1>4, <2>2 DEF InOrder
    <3> QED BY <1>1, <1>2, <1>3, <2>1, <3>1
  <2>3. CASE queued # <<>>
    <3>1. 1 \in 1..Len(queued) BY <1>1, <2>3
    <3> DEFINE a == queued[1].from
    <3>2. queued'[1].from = a /\ byteCount = taken - a BY <1>4, <2>3, <3>1 DEF InOrder
    <3>3. a \in Nat BY <1>5, <3>1
    <3> HIDE DEF a
    <3>4. byteCount + k = (taken + k) - a BY <1>1, <3>2, <3>3
    <3> QED BY <1>3, <2>1, <3>2, <3>4
  <2> QED BY <2>2, <2>3
<1>8. InOrder' BY <1>6, <1>7 DEF InOrder
<1>9. Before' = Before
  <2>1. queued' # <<>> BY <1>1, <1>4
  <2>2. CASE queued = <<>>
    <3>1. queued'[1] = p BY <1>4, <2>2
    <3> QED BY <1>2, <2>1, <2>2, <3>1 DEF Before
  <2>3. CASE queued # <<>>
    <3>1. queued'[1] = queued[1] BY <1>1, <1>4, <2>3
    <3> QED BY <2>1, <2>3, <3>1 DEF Before
  <2> QED BY <2>2, <2>3
<1>10. byteCount' \in Nat BY <1>1, <1>3
<1> QED BY <1>3, <1>4, <1>8, <1>9, <1>10

\* The first packet leaves and the second takes its place.
LEMMA PopInOrder ==
    ASSUME TypeOK, InOrder, pc # "send", queued # <<>>, Pop, UNCHANGED <<pc, taken>>
    PROVE  /\ queued' \in Seq(Packet) /\ byteCount' \in Nat /\ byteCount' <= byteCount
           /\ InOrder'
           /\ Before' = queued[1].from + queued[1].len
<1>1. /\ taken \in Nat /\ queued \in Seq(Packet) /\ Len(queued) \in Nat /\ Len(queued) > 0
      /\ byteCount \in Nat /\ 1 \in 1..Len(queued)
  BY DEF TypeOK
<1>2. /\ queued' \in Seq(Packet) /\ Len(queued') = Len(queued) - 1
      /\ \A i \in 1..Len(queued') : queued'[i] = queued[i + 1]
      /\ Head(queued) = queued[1]
  BY <1>1 DEF Pop
<1>3. \A i \in 1..Len(queued) : queued[i].from \in Nat /\ queued[i].len \in Nat
  <2>1. \A i \in 1..Len(queued) : queued[i] \in Packet BY <1>1
  <2> QED BY <2>1, SizeAssumption DEF Packet
<1>4. ASSUME NEW i \in 1..Len(queued')
      PROVE  /\ queued'[i].from + queued'[i].len <= taken'
             /\ i < Len(queued') => queued'[i + 1].from = queued'[i].from + queued'[i].len
             /\ i = Len(queued') => taken' = queued'[i].from + queued'[i].len
  <2>1. i + 1 \in 1..Len(queued) /\ (i < Len(queued') => i + 1 \in 1..Len(queued')
          /\ i + 1 < Len(queued)) /\ (i = Len(queued') => i + 1 = Len(queued))
    BY <1>1, <1>2
  <2>2. /\ queued[i + 1].from + queued[i + 1].len <= taken
        /\ i + 1 < Len(queued) => queued[i + 1 + 1].from = queued[i + 1].from + queued[i + 1].len
        /\ i + 1 = Len(queued) => taken = queued[i + 1].from + queued[i + 1].len
    BY <2>1 DEF InOrder
  <2> QED BY <1>2, <2>1, <2>2
<1>5. /\ byteCount = taken - queued[1].from
      /\ queued[1].from + queued[1].len <= taken
      /\ 1 < Len(queued) => queued[1 + 1].from = queued[1].from + queued[1].len
      /\ 1 = Len(queued) => taken = queued[1].from + queued[1].len
  BY <1>1 DEF InOrder
<1>6. /\ queued' = <<>> => 1 = Len(queued)
      /\ queued' # <<>> => 1 < Len(queued) /\ queued'[1] = queued[1 + 1]
  BY <1>1, <1>2
<1>7. byteCount' = byteCount - queued[1].len BY <1>2 DEF Pop
<1>8. byteCount' = (IF queued' = <<>> THEN 0 ELSE taken' - queued'[1].from)
  <2> DEFINE a == queued[1].from
             b == queued[1].len
  <2>1. a \in Nat /\ b \in Nat BY <1>1, <1>3
  <2>2. byteCount' = taken - a - b BY <1>5, <1>7
  <2>3. queued' = <<>> => taken = a + b BY <1>5, <1>6
  <2>4. queued' # <<>> => queued'[1].from = a + b BY <1>5, <1>6
  <2> HIDE DEF a, b
  <2>5. CASE queued' = <<>> BY <1>1, <2>1, <2>2, <2>3, <2>5
  <2>6. CASE queued' # <<>>
    <3>1. taken' - queued'[1].from = taken - (a + b) BY <2>4, <2>6
    <3>2. taken - (a + b) = taken - a - b BY <1>1, <2>1
    <3> QED BY <2>2, <2>6, <3>1, <3>2
  <2> QED BY <2>5, <2>6
<1>9. byteCount' \in Nat /\ byteCount' <= byteCount
  <2> DEFINE a == queued[1].from
             b == queued[1].len
  <2>1. a \in Nat /\ b \in Nat BY <1>1, <1>3
  <2>2. byteCount = taken - a /\ a + b <= taken /\ byteCount' = byteCount - b BY <1>5, <1>7
  <2> HIDE DEF a, b
  <2> QED BY <1>1, <2>1, <2>2
<1>10. InOrder' BY <1>4, <1>8 DEF InOrder
<1>11. Before' = queued[1].from + queued[1].len BY <1>5, <1>6 DEF Before
<1> QED BY <1>2, <1>9, <1>10, <1>11

LEMMA InitInductive == Init => Inductive
<1> SUFFICES ASSUME Init PROVE Inductive OBVIOUS
<1> USE DEF Init
<1>1. TypeOK
  <2>1. Nothing \in Packet BY SizeAssumption DEF Nothing, Packet
  <2>2. <<>> \in Seq(Packet) /\ <<>> \in Seq(Byte) OBVIOUS
  <2>3. queued \in Seq(Packet) /\ written \in Seq(Byte) BY <2>2
  <2>4. room \in 0..Room /\ 0 \in 0..MaxByte BY SizeAssumption
  <2>5. arrived \in 0..MaxByte /\ taken \in 0..MaxByte BY <2>4
  <2> HIDE DEF Init
  <2>6. stream \in {"opening", "open"} /\ broken = FALSE /\ pc = "idle" /\ buffer = Nothing
        /\ byteCount = 0 /\ stop = "none"
    BY DEF Init
  <2> QED BY <2>1, <2>3, <2>4, <2>5, <2>6 DEF TypeOK
<1>2. InOrder BY DEF InOrder
<1>3. QueueBounded /\ Admitted BY DEF QueueBounded, Admitted
<1>4. WrittenInOrder
  <2>1. written = Bytes(0, 0) BY NoBytes
  <2>2. Len(written) = 0 /\ Before = 0 BY DEF Before
  <2> QED BY <2>1, <2>2 DEF WrittenInOrder
<1> QED BY <1>1, <1>2, <1>3, <1>4 DEF Inductive

\* A message: queued, refused, nothing to write, or on its way to the loop.
LEMMA SendStep == ASSUME Inductive, NEW k \in 0..MaxPacket, Send(k) PROVE Inductive'
<1> DEFINE p == [from |-> taken, len |-> k]
<1>0. TypeOK /\ InOrder /\ QueueBounded /\ Admitted /\ WrittenInOrder BY DEF Inductive
<1>1. /\ taken \in Nat /\ arrived \in Nat /\ k \in Nat /\ MaxByte \in Nat /\ MaxPacket \in Nat
      /\ Limit \in Nat /\ byteCount \in Nat
  BY <1>0, SizeAssumption DEF TypeOK
<1>2. /\ pc = "idle" /\ arrived + k <= MaxByte /\ arrived' = arrived + k
      /\ UNCHANGED <<stream, room, broken, written>>
  BY DEF Send, Idle
<1>3. taken <= arrived /\ taken + k <= MaxByte BY <1>0, <1>1, <1>2 DEF Admitted
<1>4. p \in Packet BY <1>1, <1>3 DEF Packet
<1>5. CASE byteCount < Limit /\ Push(p) /\ taken' = taken + k /\ UNCHANGED <<pc, buffer, stop>>
  <2>1. /\ queued' \in Seq(Packet) /\ byteCount' = byteCount + k /\ byteCount' \in Nat
        /\ InOrder' /\ Before' = Before
    BY <1>0, <1>2, <1>3, <1>5, PushInOrder
  <2>2. TypeOK' BY <1>0, <1>1, <1>2, <1>3, <1>5, <2>1 DEF TypeOK
  <2>3. QueueBounded' BY <1>1, <1>5, <2>1 DEF QueueBounded
  <2>4. Admitted' BY <1>0, <1>1, <1>2, <1>5 DEF Admitted
  <2>5. WrittenInOrder'
    <3>1. Len(written) \in Nat /\ taken <= taken' BY <1>0, <1>1, <1>5 DEF TypeOK
    <3> QED BY <1>0, <1>1, <1>2, <1>5, <2>1, <3>1 DEF WrittenInOrder
  <2> QED BY <2>1, <2>2, <2>3, <2>4, <2>5 DEF Inductive
<1>6. CASE UNCHANGED <<pc, buffer, queued, byteCount, taken>> /\ (Stop \/ (k = 0 /\ UNCHANGED stop))
  <2>1. TypeOK' BY <1>0, <1>1, <1>2, <1>6 DEF TypeOK, Stop
  <2>2. InOrder' /\ QueueBounded' BY <1>0, <1>6 DEF InOrder, QueueBounded
  <2>3. Before' = Before BY <1>6 DEF Before
  <2>4. Admitted' BY <1>0, <1>1, <1>2, <1>6 DEF Admitted, Stop
  <2>5. WrittenInOrder'
    <3>1. stop' = "none" => stop = "none" BY <1>6 DEF Stop
    <3> QED BY <1>0, <1>2, <1>6, <2>3, <3>1 DEF WrittenInOrder
  <2> QED BY <2>1, <2>2, <2>4, <2>5 DEF Inductive
<1>7. CASE /\ ~MustQueue(p) /\ k > 0 /\ pc' = "send" /\ buffer' = p /\ taken' = taken + k
           /\ UNCHANGED <<queued, byteCount, stop>>
  <2>1. queued = <<>> BY <1>7 DEF MustQueue
  <2>2. TypeOK' BY <1>0, <1>1, <1>2, <1>3, <1>4, <1>7 DEF TypeOK
  <2>3. InOrder'
    <3>1. byteCount = 0 BY <1>0, <2>1 DEF InOrder
    <3>2. buffer'.from + buffer'.len = taken' BY <1>7
    <3>3. 1..Len(queued') = {} BY <1>7, <2>1
    <3> QED BY <1>7, <2>1, <3>1, <3>2, <3>3 DEF InOrder
  <2>4. QueueBounded' BY <1>0, <1>7 DEF QueueBounded
  <2>5. Before = taken /\ Before' = taken BY <1>2, <1>7, <2>1 DEF Before
  <2>6. Admitted' BY <1>0, <1>1, <1>2, <1>7 DEF Admitted
  <2>7. WrittenInOrder'
    <3>1. Len(written) \in Nat /\ taken <= taken' BY <1>0, <1>1, <1>7 DEF TypeOK
    <3> HIDE DEF p
    <3> QED BY <1>0, <1>1, <1>2, <1>7, <2>5, <3>1 DEF WrittenInOrder
  <2> QED BY <2>2, <2>3, <2>4, <2>6, <2>7 DEF Inductive
<1> QED BY <1>5, <1>6, <1>7 DEF Send, QueueSendDataMessage

LEMMA SendLoopStep == Inductive /\ SendLoop => Inductive'
<1> SUFFICES ASSUME Inductive, SendLoop PROVE Inductive' OBVIOUS
<1>0. TypeOK /\ InOrder /\ QueueBounded /\ Admitted /\ WrittenInOrder BY DEF Inductive
<1>1. /\ pc = "send" /\ pc' = "idle" /\ buffer' = Nothing
      /\ UNCHANGED <<stream, broken, queued, byteCount, arrived, taken>>
  BY DEF SendLoop
<1>2. queued = <<>> /\ buffer.from + buffer.len = taken BY <1>0, <1>1 DEF InOrder
<1>3. Nothing \in Packet BY SizeAssumption DEF Nothing, Packet
<1>4. InOrder' BY <1>0, <1>1, <1>2 DEF InOrder
<1>5. QueueBounded' BY <1>0, <1>1 DEF QueueBounded
<1>6. Before = buffer.from /\ Before' = taken BY <1>1, <1>2 DEF Before
<1>7. CASE UNCHANGED stop /\ \E k \in 0..buffer.len : Wrote(buffer, k)
  <2>0. PICK k \in 0..buffer.len : Wrote(buffer, k) BY <1>7
  <2>1. taken \in Nat /\ buffer \in Packet /\ taken <= taken /\ buffer.from + buffer.len <= taken
    BY <1>0, <1>2 DEF TypeOK
  <2>2. /\ room' \in 0..Room /\ written' \in Seq(Byte) /\ ~broken
        /\ Whole /\ written = Bytes(0, buffer.from) => written' = Bytes(0, taken)
    BY <1>0, <1>2, <2>0, <2>1, WroteBytes DEF TypeOK
  <2>3. TypeOK' BY <1>0, <1>1, <1>3, <1>7, <2>2 DEF TypeOK
  <2>4. Admitted' BY <1>0, <1>1, <1>7 DEF Admitted
  <2>5. WrittenInOrder'
    <3>1. ASSUME Whole PROVE written' = Bytes(0, taken)
      BY <1>0, <1>6, <2>2, <3>1 DEF WrittenInOrder
    <3>2. Len(Bytes(0, taken)) = taken BY <2>1, BytesType
    <3> QED BY <1>1, <1>6, <2>1, <3>1, <3>2 DEF WrittenInOrder
  <2> QED BY <1>4, <1>5, <2>3, <2>4, <2>5 DEF Inductive
<1>8. CASE broken /\ Stop /\ UNCHANGED <<room, written>>
  <2>1. TypeOK' BY <1>0, <1>1, <1>3, <1>8 DEF TypeOK, Stop
  <2>2. Admitted' BY <1>0, <1>1, <1>8 DEF Admitted, Stop
  <2>3. WrittenInOrder' BY <1>0, <1>1, <1>8 DEF WrittenInOrder, Stop
  <2> QED BY <1>4, <1>5, <2>1, <2>2, <2>3 DEF Inductive
<1> QED BY <1>7, <1>8 DEF SendLoop

LEMMA FlushStep == Inductive /\ SendQueuedDataMessages => Inductive'
<1> SUFFICES ASSUME Inductive, SendQueuedDataMessages PROVE Inductive' OBVIOUS
<1>0. TypeOK /\ InOrder /\ QueueBounded /\ Admitted /\ WrittenInOrder BY DEF Inductive
<1>1. pc = "flush" /\ UNCHANGED <<stream, broken, buffer, arrived, taken>>
  BY DEF SendQueuedDataMessages
<1>2. CASE /\ queued # <<>> /\ Pop /\ UNCHANGED <<pc, stop>>
           /\ \E k \in 0..Head(queued).len : Wrote(Head(queued), k)
  <2> DEFINE p == queued[1]
  <2>1. Head(queued) = p /\ p \in Packet /\ p.from + p.len <= taken
        /\ p.from \in Nat /\ p.len \in Nat /\ taken \in Nat
    <3>1. queued \in Seq(Packet) /\ 1 \in 1..Len(queued) BY <1>0, <1>2 DEF TypeOK
    <3>2. Head(queued) = p /\ p \in Packet BY <3>1
    <3>3. p.from + p.len <= taken BY <1>0, <3>1 DEF InOrder
    <3> QED BY <1>0, <3>2, <3>3, SizeAssumption DEF TypeOK, Packet
  <2>2. PICK k \in 0..p.len : Wrote(p, k) BY <1>2, <2>1
  <2>3. /\ queued' \in Seq(Packet) /\ byteCount' \in Nat /\ byteCount' <= byteCount
        /\ InOrder' /\ Before' = p.from + p.len
    BY <1>0, <1>1, <1>2, PopInOrder
  <2>4. Before = p.from BY <1>1, <1>2 DEF Before
  <2> HIDE DEF p
  <2>5. /\ room' \in 0..Room /\ written' \in Seq(Byte) /\ ~broken
        /\ Whole /\ written = Bytes(0, p.from) => written' = Bytes(0, p.from + p.len)
    BY <1>0, <2>1, <2>2, WroteBytes DEF TypeOK
  <2>6. TypeOK' BY <1>0, <1>1, <1>2, <2>3, <2>5 DEF TypeOK
  <2>7. QueueBounded'
    <3>1. byteCount \in Nat /\ Limit + MaxPacket \in Nat BY <1>0, SizeAssumption DEF TypeOK
    <3> QED BY <1>0, <2>3, <3>1 DEF QueueBounded
  <2>8. Admitted' BY <1>0, <1>1, <1>2 DEF Admitted
  <2>9. WrittenInOrder'
    <3>1. ASSUME Whole PROVE written' = Bytes(0, p.from + p.len)
      BY <1>0, <2>4, <2>5, <3>1 DEF WrittenInOrder
    <3>2. Len(Bytes(0, p.from + p.len)) = p.from + p.len
      <4>1. p.from + p.len \in Nat BY <2>1
      <4> QED BY <4>1, BytesType
    <3> QED BY <1>1, <2>1, <2>3, <3>1, <3>2 DEF WrittenInOrder
  <2> QED BY <2>3, <2>6, <2>7, <2>8, <2>9 DEF Inductive
<1>3. CASE pc' = "idle" /\ UNCHANGED <<room, queued, byteCount, written>>
           /\ (Stop \/ UNCHANGED stop)
  <2>1. TypeOK' BY <1>0, <1>1, <1>3 DEF TypeOK, Stop
  <2>2. InOrder' /\ QueueBounded' BY <1>0, <1>1, <1>3 DEF InOrder, QueueBounded
  <2>3. Admitted' BY <1>0, <1>1, <1>3 DEF Admitted, Stop
  <2>4. Before' = Before BY <1>1, <1>3 DEF Before
  <2>5. stop' = "none" => stop = "none" BY <1>3 DEF Stop
  <2>6. WrittenInOrder' BY <1>0, <1>1, <1>3, <2>4, <2>5 DEF WrittenInOrder
  <2> QED BY <2>1, <2>2, <2>3, <2>6 DEF Inductive
<1> QED BY <1>2, <1>3 DEF SendQueuedDataMessages

\* The steps that leave the bytes where they are.
LEMMA EventStep ==
    Inductive /\ (WriteEvent \/ CloseEvent \/ Close \/ Drain \/ Reset \/ UNCHANGED vars) => Inductive'
<1> SUFFICES ASSUME Inductive,
                    WriteEvent \/ CloseEvent \/ Close \/ Drain \/ Reset \/ UNCHANGED vars
             PROVE  Inductive'
  OBVIOUS
<1>0. TypeOK /\ InOrder /\ QueueBounded /\ Admitted /\ WrittenInOrder BY DEF Inductive
<1>1. /\ UNCHANGED <<buffer, queued, byteCount, arrived, taken, written>>
      /\ pc' = pc \/ (pc = "idle" /\ pc' = "flush")
      /\ stop' = "none" => stop = "none"
      /\ broken => broken'
  <2>1. CASE WriteEvent BY <2>1 DEF WriteEvent, Idle
  <2>2. CASE CloseEvent BY <2>2 DEF CloseEvent, Stop
  <2>3. CASE Close BY <2>3 DEF Close
  <2>4. CASE Drain BY <2>4 DEF Drain
  <2>5. CASE Reset BY <2>5 DEF Reset
  <2>6. CASE UNCHANGED vars BY <2>6 DEF vars
  <2> QED BY <2>1, <2>2, <2>3, <2>4, <2>5, <2>6
<1>2. TypeOK'
  <2>1. CASE WriteEvent BY <1>0, <2>1 DEF WriteEvent, TypeOK
  <2>2. CASE CloseEvent BY <1>0, <2>2 DEF CloseEvent, Stop, TypeOK
  <2>3. CASE Close BY <1>0, <2>3 DEF Close, TypeOK
  <2>4. CASE Drain BY <1>0, <2>4, SizeAssumption DEF Drain, TypeOK
  <2>5. CASE Reset BY <1>0, <2>5 DEF Reset, TypeOK
  <2>6. CASE UNCHANGED vars BY <1>0, <2>6 DEF vars, TypeOK
  <2> QED BY <2>1, <2>2, <2>3, <2>4, <2>5, <2>6
<1>3. InOrder' /\ QueueBounded' BY <1>0, <1>1 DEF InOrder, QueueBounded
<1>4. Admitted' BY <1>0, <1>1 DEF Admitted
<1>5. Before' = Before BY <1>1 DEF Before
<1>6. WrittenInOrder' BY <1>0, <1>1, <1>5 DEF WrittenInOrder
<1> QED BY <1>2, <1>3, <1>4, <1>6 DEF Inductive

LEMMA NextInductive == Inductive /\ [Next]_vars => Inductive'
BY SendStep, SendLoopStep, FlushStep, EventStep DEF Next

\* The inductive invariant holds in every state: the loop and the queue hold
\* the last bytes taken, the count is theirs, and only a failed write breaks
\* the row of the bytes written.
THEOREM InductiveInvariant == Spec => []Inductive
<1> QED BY InitInductive, NextInductive, PTL DEF Spec

\* The variables keep their types, whatever the kernel takes of a write.
THEOREM TypeCorrect == Spec => []TypeOK
<1>1. Inductive => TypeOK BY DEF Inductive
<1> QED BY <1>1, InductiveInvariant, PTL

\* byte_count_ is exact after every sequence of Push and Pop.
THEOREM CountIsExact == Spec => []ByteCountExact
<1>1. Inductive => ByteCountExact
  <2> SUFFICES ASSUME Inductive PROVE ByteCountExact OBVIOUS
  <2>0. TypeOK /\ InOrder BY DEF Inductive
  <2>1. Len(queued) \in Nat /\ queued \in Seq(Packet) BY <2>0 DEF TypeOK
  <2>2. \A i \in 1..(Len(queued) - 1) : i \in 1..Len(queued) /\ i < Len(queued) BY <2>1
  <2>3. \A i \in 1..(Len(queued) - 1) : queued[i + 1].from = queued[i].from + queued[i].len
    BY <2>0, <2>2 DEF InOrder
  <2>4. CASE queued = <<>> BY <2>0, <2>3, <2>4 DEF ByteCountExact, InOrder
  <2>5. CASE queued # <<>>
    <3> DEFINE end == queued[Len(queued)].from + queued[Len(queued)].len
    <3>1. Len(queued) \in 1..Len(queued) BY <2>1, <2>5
    <3>2. taken = end BY <2>0, <3>1 DEF InOrder
    <3>3. byteCount = taken - queued[1].from BY <2>0, <2>5 DEF InOrder
    <3> HIDE DEF end
    <3>4. byteCount = end - queued[1].from BY <3>2, <3>3
    <3> QED BY <2>3, <2>5, <3>4 DEF ByteCountExact, end
  <2> QED BY <2>4, <2>5
<1> QED BY <1>1, InductiveInvariant, PTL

\* The queue is bounded by kMaxQueuedSendDataBytes and one message, for every
\* limit and every size of messages.
THEOREM QueueIsBounded == Spec => []QueueBounded
<1>1. Inductive => QueueBounded BY DEF Inductive
<1> QED BY <1>1, InductiveInvariant, PTL

\* When writes are taken whole, nothing is refused or missing before a Stop.
THEOREM NothingRefused ==
    ASSUME "partial" \notin MayFail
    PROVE  Spec => []NoneRefusedUnstopped
<1>1. Inductive => NoneRefusedUnstopped
  BY DEF Inductive, Admitted, WrittenInOrder, Whole, NoneRefusedUnstopped
<1> QED BY <1>1, InductiveInvariant, PTL

\* What a step does to the two ends of the connection.
LEMMA StepOfBytes ==
    TypeOK /\ Next =>
        \/ UNCHANGED written /\ taken' = taken
        \/ UNCHANGED written /\ \E k \in 0..MaxPacket : taken' = taken + k
        \/ taken' = taken /\ \E packet \in Packet : \E k \in 0..packet.len : Wrote(packet, k)
<1> SUFFICES ASSUME TypeOK, Next
             PROVE  \/ UNCHANGED written /\ taken' = taken
                    \/ UNCHANGED written /\ \E k \in 0..MaxPacket : taken' = taken + k
                    \/ /\ taken' = taken
                       /\ \E packet \in Packet : \E k \in 0..packet.len : Wrote(packet, k)
  OBVIOUS
<1>1. ASSUME NEW k \in 0..MaxPacket, Send(k)
      PROVE  UNCHANGED written /\ (taken' = taken \/ taken' = taken + k)
  BY <1>1 DEF Send, QueueSendDataMessage
<1>2. CASE SendLoop
  <2>1. buffer \in Packet BY DEF TypeOK
  <2> QED BY <1>2, <2>1 DEF SendLoop
<1>3. CASE SendQueuedDataMessages
  <2>1. queued # <<>> => Head(queued) \in Packet BY DEF TypeOK
  <2> QED BY <1>3, <2>1 DEF SendQueuedDataMessages
<1>4. CASE WriteEvent \/ CloseEvent \/ Close \/ Drain \/ Reset
  BY <1>4 DEF WriteEvent, CloseEvent, Close, Drain, Reset
<1> QED BY <1>1, <1>2, <1>3, <1>4 DEF Next

\* When writes are taken whole, a SocketConnection implements BytePipe: what
\* Send takes goes in behind the rest, and what the kernel takes comes out in
\* that order, each byte once, through the queue, the loop and the flush.
THEOREM ConnectionIsPipe ==
    ASSUME "partial" \notin MayFail
    PROVE  Spec => ImplementsPipe
<1>1. Init => Pipe!Init
  <2> SUFFICES ASSUME Init PROVE Pipe!Init OBVIOUS
  <2>1. taken = 0 /\ written = <<>> BY DEF Init
  <2>2. Bytes(0, 0) = <<>> BY NoBytes
  <2> QED BY <2>1, <2>2 DEF Pipe!Init
<1>2. Inductive /\ Inductive' /\ [Next]_vars => [Pipe!Next]_(Pipe!vars)
  <2> SUFFICES ASSUME Inductive, Inductive', [Next]_vars PROVE [Pipe!Next]_(Pipe!vars)
    OBVIOUS
  <2>1. /\ taken \in Nat /\ taken' \in Nat /\ taken <= MaxByte /\ taken' <= MaxByte
        /\ written \in Seq(Byte) /\ written' \in Seq(Byte)
        /\ Len(written) \in Nat /\ Len(written') \in Nat
    BY SizeAssumption DEF Inductive, TypeOK
  <2>2. /\ Len(written) <= taken /\ written = Bytes(0, Len(written))
        /\ Len(written') <= taken' /\ written' = Bytes(0, Len(written'))
    BY DEF Inductive, WrittenInOrder, Whole
  <2>3. CASE UNCHANGED written /\ taken' = taken BY <2>3 DEF Pipe!vars
  <2>4. CASE UNCHANGED written /\ \E k \in 0..MaxPacket : taken' = taken + k
    <3>1. taken <= taken' /\ taken \in 0..taken' BY <2>1, <2>4, SizeAssumption
    <3>2. Bytes(0, taken') \in Seq(Byte) /\ Len(Bytes(0, taken')) = taken'
          /\ Len(Bytes(0, taken)) = taken
      BY <2>1, BytesType
    <3>3. SubSeq(Bytes(0, taken'), 1, taken) = Bytes(0, taken) BY <2>1, <3>1, BytesBegin
    <3>4. Bytes(0, taken)' = Bytes(0, taken') BY DEF Bytes
    <3> QED BY <2>4, <3>1, <3>2, <3>3, <3>4 DEF Pipe!Next, Pipe!Accept
  <2>5. CASE /\ taken' = taken
             /\ \E packet \in Packet : \E k \in 0..packet.len : Wrote(packet, k)
    <3>1. PICK packet \in Packet : \E k \in 0..packet.len : Wrote(packet, k) BY <2>5
    <3>2. PICK k \in 0..packet.len : Wrote(packet, k) BY <3>1
    <3>3. packet.from \in Nat /\ packet.len \in Nat /\ k \in Nat
      BY <3>2, SizeAssumption DEF Packet
    <3>4. Bytes(packet.from, k) \in Seq(Nat) /\ Len(Bytes(packet.from, k)) = k
      BY <3>3, BytesType
    <3>5. written \in Seq(Nat)
      <4>1. Byte \subseteq Nat BY SizeAssumption DEF Byte
      <4> QED BY <2>1, <4>1, SeqMonotonic
    <3>6. Len(written') = Len(written) + k
      <4>1. written' = written \o Bytes(packet.from, k) BY <3>2 DEF Wrote
      <4> QED BY <3>4, <3>5, <4>1, ConcatProperties
    <3>7. Len(written') \in 0..taken /\ Len(written) <= Len(written')
      BY <2>1, <2>2, <2>5, <3>3, <3>6
    <3>8. written' = SubSeq(Bytes(0, taken), 1, Len(written'))
      BY <2>1, <2>2, <3>7, BytesBegin
    <3>9. Len(Bytes(0, taken)) = taken BY <2>1, BytesType
    <3>10. Bytes(0, taken)' = Bytes(0, taken) BY <2>5 DEF Bytes
    <3> QED BY <2>2, <2>5, <3>7, <3>8, <3>9, <3>10 DEF Pipe!Next, Pipe!Emit
  <2>6. CASE UNCHANGED vars BY <2>3, <2>6 DEF vars
  <2>7. CASE Next
    <3>1. TypeOK BY DEF Inductive
    <3> QED BY <2>3, <2>4, <2>5, <2>7, <3>1, StepOfBytes
  <2> QED BY <2>6, <2>7
<1> QED BY <1>1, <1>2, InductiveInvariant, PTL DEF Spec, ImplementsPipe, Pipe!Spec
=============================================================================

-------------------------- MODULE WebSocketProofs ---------------------------
(***************************************************************************)
(* Theorems about WebSocket: what both threads write and read is in order, *)
(* whatever they do to _readyState in between, and after the close event   *)
(* there is nothing but, maybe, another one.                               *)
(***************************************************************************)
EXTENDS WebSocket, FiniteSetTheorems, SequenceTheorems, TLAPS

-----------------------------------------------------------------------------
(* The inductive invariant.                                                *)

\* The messages in the queue are the last ones pushed, and only the first may
\* have been begun.
QueueInOrder ==
    /\ Len(queue) <= pushed
    /\ \A i \in 1..Len(queue) :
          /\ queue[i].id = pushed - Len(queue) + i
          /\ queue[i].issued < queue[i].len
          /\ i > 1 => queue[i].issued = 0

\* The last frame written is the final one of the message before the queue, or
\* the last one issued of the first message in it.
FramesMeetQueue ==
    IF frames = <<>> \/ (frames # <<>> /\ frames[Len(frames)].fin)
    THEN /\ pushed - Len(queue) = (IF frames = <<>> THEN 0 ELSE frames[Len(frames)].id)
         /\ queue # <<>> => queue[1].issued = 0
    ELSE /\ queue # <<>>
         /\ frames[Len(frames)].id = queue[1].id
         /\ frames[Len(frames)].part = queue[1].issued
         /\ queue[1].issued > 0

\* The frame under way is the last one begun.
PendingFits ==
    /\ Len(sizes) <= MaxFrame
    /\ pending > 0 => sizes # <<>> /\ pending < sizes[Len(sizes)]

Signalled(kinds) == \E i \in 1..Len(events) : events[i] \in kinds

\* The close event comes when nothing more can be received or written.
ClosedIsQuiet ==
    /\ sub \in {"start", "connect"} => link = "none" /\ events = <<>>
    /\ sub \in {"lost", "losing"} => link = "gone"
    /\ sub \in {"opened", "writeable"} => link = "established"
    /\ sub \in {"failed", "again"} => ~Signalled({"close"})
    /\ Signalled({"close"}) => sub = "ended" \/ link = "gone"

\* The owner has begun to destroy the WebSocket, knows the worst, or there is
\* no context to know of.
Excused == owner \notin {"running", "sending"} \/ context = "none" \/ Signalled({"error", "close"})

\* Whatever makes the sub-thread end has been signalled before or is about to be.
EndIsTold ==
    /\ readyState = "CLOSING" \/ sub \in {"failed", "again"} => Excused
    /\ readyState = "CLOSED" => sub = "start" \/ Excused
    /\ needQuit => sub \in {"lost", "losing"} \/ Excused
    /\ sub \in {"destroy", "ended"} => Excused
    /\ sub = "start" => context = "none" /\ ~needQuit

\* The parts of TypeOK.
SendTypes == queue \in Seq(Message) /\ pushed \in 0..MaxMessage /\ frames \in Seq(Frame)
ReadTypes ==
    /\ current \in Seq(Piece)
    /\ pending \in Nat
    /\ sizes \in Seq(1..MaxPiece)
    /\ reads \in Seq(Seq(Piece))
ThreadTypes ==
    /\ readyState \in State
    /\ needQuit \in BOOLEAN
    /\ context \in {"none", "live", "destroyed"}
    /\ link \in {"none", "connecting", "established", "gone"}
    /\ armed \in BOOLEAN
    /\ sub \in {"start", "connect", "loop", "check", "service", "opened", "failed",
                "again", "writeable", "lost", "losing", "destroy", "ended"}
    /\ owner \in {"running", "sending", "closing", "joining", "deleting", "done"}
    /\ events \in Seq(Event)

\* What each side of the WebSocket keeps to itself.
Sending == SendTypes /\ QueueInOrder /\ FramesMeetQueue /\ FramesFormMessages /\ NoMessageLost
Receiving == ReadTypes /\ PendingFits /\ ReadsAreFrames
Threads == ThreadTypes /\ ClosedIsQuiet /\ EndIsTold

Inductive == Sending /\ Receiving /\ Threads
-----------------------------------------------------------------------------
(* Sending.                                                                *)

\* The final fragments among those written.
Final(s) == {i \in 1..Len(s) : s[i].fin}

LEMMA FinalFinite == ASSUME NEW s \in Seq(Frame) PROVE IsFiniteSet(Final(s))
<1>1. Final(s) \subseteq 1..Len(s) BY DEF Final
<1>2. IsFiniteSet(1..Len(s)) BY FS_Interval
<1> QED BY <1>1, <1>2, FS_Subset

LEMMA FinalGrows ==
    ASSUME NEW s \in Seq(Frame), NEW f \in Frame
    PROVE  Cardinality(Final(Append(s, f))) = Cardinality(Final(s)) + (IF f.fin THEN 1 ELSE 0)
<1> DEFINE t == Append(s, f)
<1>1. Len(t) = Len(s) + 1 /\ t[Len(s) + 1] = f /\ \A i \in 1..Len(s) : t[i] = s[i]
  OBVIOUS
<1>2. Len(s) \in Nat OBVIOUS
<1>3. CASE f.fin
  <2>1. Final(t) = Final(s) \cup {Len(s) + 1} BY <1>1, <1>2, <1>3 DEF Final
  <2>2. Len(s) + 1 \notin Final(s) BY <1>2 DEF Final
  <2> QED BY <1>3, <2>1, <2>2, FinalFinite, FS_AddElement
<1>4. CASE ~f.fin
  <2>1. Final(t) = Final(s) BY <1>1, <1>2, <1>4 DEF Final
  <2>2. Cardinality(Final(s)) \in Nat BY FinalFinite, FS_CardinalityType
  <2> QED BY <1>4, <2>1, <2>2
<1> QED BY <1>3, <1>4

LEMMA SendingSame == Sending /\ UNCHANGED <<queue, pushed, frames>> => Sending'
BY DEF Sending, SendTypes, QueueInOrder, FramesMeetQueue, FramesFormMessages, NoMessageLost

\* A new message goes behind the others.
LEMMA PushKeepsOrder ==
    ASSUME Sending, NEW what \in Kind, NEW len \in 1..MaxFragment,
           Push(what, len), UNCHANGED frames
    PROVE  Sending'
<1> DEFINE m == [id |-> pushed + 1, what |-> what, len |-> len, issued |-> 0]
<1>0. /\ SendTypes /\ QueueInOrder /\ FramesMeetQueue /\ FramesFormMessages /\ NoMessageLost
      /\ pushed < MaxMessage /\ pushed' = pushed + 1 /\ queue' = Append(queue, m)
      /\ frames' = frames /\ MaxMessage \in Nat /\ MaxFragment \in Nat
  BY BoundAssumption DEF Sending, Push
<1>1. m \in Message BY <1>0 DEF Message, SendTypes
<1>2. SendTypes' BY <1>0, <1>1 DEF SendTypes
<1>3. /\ Len(queue') = Len(queue) + 1
      /\ queue'[Len(queue) + 1] = m
      /\ \A i \in 1..Len(queue) : queue'[i] = queue[i]
      /\ Len(queue) \in Nat /\ pushed \in Nat
  BY <1>0, <1>1 DEF SendTypes
<1>4. QueueInOrder'
  <2>1. m.id = pushed + 1 /\ m.issued < m.len /\ m.issued = 0 BY <1>0
  <2> HIDE DEF m
  <2>2. Len(queue') <= pushed' BY <1>0, <1>3 DEF QueueInOrder
  <2>3. ASSUME NEW i \in 1..Len(queue')
        PROVE  /\ queue'[i].id = pushed' - Len(queue') + i
               /\ queue'[i].issued < queue'[i].len
               /\ i > 1 => queue'[i].issued = 0
    <3>1. pushed' - Len(queue') = pushed - Len(queue) BY <1>0, <1>3
    <3>2. CASE i = Len(queue) + 1 BY <1>0, <1>3, <2>1, <3>2
    <3>3. CASE i \in 1..Len(queue)
      <4>1. queue'[i] = queue[i] BY <1>3, <3>3
      <4> QED BY <1>0, <3>1, <3>3, <4>1 DEF QueueInOrder
    <3> QED BY <1>3, <3>2, <3>3
  <2> QED BY <2>2, <2>3 DEF QueueInOrder
<1>5. FramesMeetQueue'
  <2>1. queue' # <<>> BY <1>0, <1>3
  <2>2. pushed' - Len(queue') = pushed - Len(queue) BY <1>0, <1>3
  <2>3. CASE queue = <<>>
    <3>1. queue'[1] = m BY <1>3, <2>3
    <3> QED BY <1>0, <2>1, <2>2, <2>3, <3>1 DEF FramesMeetQueue
  <2>4. CASE queue # <<>>
    <3>1. queue'[1] = queue[1] BY <1>0, <1>3, <2>4 DEF SendTypes
    <3> QED BY <1>0, <2>1, <2>2, <2>4, <3>1 DEF FramesMeetQueue
  <2> QED BY <2>3, <2>4
<1>6. FramesFormMessages' BY <1>0 DEF FramesFormMessages
<1>7. NoMessageLost'
  <2>1. Cardinality(Final(frames)) \in Nat
    BY <1>0, FinalFinite, FS_CardinalityType DEF SendTypes
  <2>2. Cardinality(Final(frames)) + Len(queue) = pushed BY <1>0 DEF NoMessageLost, Final
  <2>3. Cardinality(Final(frames)) + Len(queue') = pushed' BY <1>0, <1>3, <2>1, <2>2
  <2>4. \A i \in 2..Len(queue') : queue'[i].issued = 0 BY <1>4 DEF QueueInOrder
  <2> QED BY <1>0, <2>3, <2>4 DEF NoMessageLost, Final
<1> QED BY <1>2, <1>4, <1>5, <1>6, <1>7 DEF Sending

\* A fragment goes behind the frames, and its message makes way or stays.
LEMMA WriteKeepsOrder == Sending /\ WriteFragment => Sending'
<1> SUFFICES ASSUME Sending, WriteFragment PROVE Sending' OBVIOUS
<1>0. /\ SendTypes /\ QueueInOrder /\ FramesMeetQueue /\ FramesFormMessages /\ NoMessageLost
      /\ pushed' = pushed /\ MaxMessage \in Nat /\ MaxFragment \in Nat
  BY BoundAssumption DEF Sending, WriteFragment
<1>1. CASE UNCHANGED <<queue, frames>> BY <1>0, <1>1, SendingSame
<1>2. CASE /\ queue # <<>>
           /\ frames' = Append(frames, Fragment(Head(queue)))
           /\ IF Head(queue).issued + 1 = Head(queue).len
              THEN queue' = Tail(queue)
              ELSE queue' = [queue EXCEPT ![1].issued = @ + 1]
  <2> DEFINE m == queue[1]
             f == Fragment(m)
             n == Len(frames)
  <2>1. /\ Head(queue) = m /\ m \in Message /\ Len(queue) \in Nat /\ Len(queue) > 0
        /\ n \in Nat /\ frames \in Seq(Frame) /\ pushed \in Nat /\ queue \in Seq(Message)
    BY <1>0, <1>2 DEF SendTypes
  <2>2. /\ m.id \in 1..MaxMessage /\ m.len \in 1..MaxFragment /\ m.issued \in 0..MaxFragment
        /\ m.what \in Kind
    BY <2>1 DEF Message
  <2>3. m.issued < m.len /\ m.id = pushed - Len(queue) + 1
    BY <1>0, <2>1 DEF QueueInOrder
  <2>4. /\ f.id = m.id /\ f.part = m.issued + 1
        /\ f.op = (IF m.issued = 0 THEN m.what ELSE "CONTINUATION")
        /\ f.fin <=> (m.issued + 1 = m.len)
    BY DEF Fragment
  <2>5. f \in Frame
    <3>1. m.issued + 1 \in 1..MaxFragment BY <1>0, <2>2, <2>3
    <3>2. (IF m.issued = 0 THEN m.what ELSE "CONTINUATION") \in Kind \cup {"CONTINUATION"}
      BY <2>2
    <3>3. (m.issued + 1 = m.len) \in BOOLEAN OBVIOUS
    <3> QED BY <2>2, <3>1, <3>2, <3>3 DEF Fragment, Frame
  <2>6. /\ frames' = Append(frames, f) /\ frames' \in Seq(Frame) /\ Len(frames') = n + 1
        /\ frames'[n + 1] = f /\ \A i \in 1..n : frames'[i] = frames[i]
    BY <1>2, <2>1, <2>5
  <2>7. FramesFormMessages'
    <3>1. \A i \in 1..n : LET g == frames'[i]
                             starts == i = 1 \/ frames'[i - 1].fin
                         IN  /\ (g.op = "CONTINUATION") = ~starts
                             /\ g.part = (IF starts THEN 1 ELSE frames'[i - 1].part + 1)
                             /\ g.id = (IF i = 1 THEN 1
                                        ELSE IF starts THEN frames'[i - 1].id + 1
                                        ELSE frames'[i - 1].id)
      BY <1>0, <2>1, <2>6 DEF FramesFormMessages
    <3>2. n > 0 => frames'[n] = frames[n] /\ frames # <<>> BY <2>1, <2>6
    <3>3. n = 0 => frames = <<>> BY <2>1
    <3> DEFINE starts == n = 0 \/ frames[n].fin
    <3>4. starts => m.issued = 0 /\ m.id = (IF n = 0 THEN 1 ELSE frames[n].id + 1)
      BY <1>0, <2>1, <2>2, <2>3, <3>2, <3>3 DEF FramesMeetQueue, SendTypes, Frame
    <3>5. ~starts => m.issued > 0 /\ m.id = frames[n].id /\ m.issued = frames[n].part
      BY <1>0, <2>1, <2>2, <3>2, <3>3 DEF FramesMeetQueue
    <3>6. (f.op = "CONTINUATION") = ~starts BY <2>2, <2>4, <3>4, <3>5 DEF Kind
    <3>7. /\ f.part = (IF starts THEN 1 ELSE frames[n].part + 1)
          /\ f.id = (IF n = 0 THEN 1 ELSE IF starts THEN frames[n].id + 1 ELSE frames[n].id)
      BY <2>4, <3>4, <3>5
    <3>8. /\ (f.op = "CONTINUATION") = ~(n + 1 = 1 \/ frames'[n + 1 - 1].fin)
          /\ f.part = (IF n + 1 = 1 \/ frames'[n + 1 - 1].fin THEN 1
                       ELSE frames'[n + 1 - 1].part + 1)
          /\ f.id = (IF n + 1 = 1 THEN 1
                     ELSE IF n + 1 = 1 \/ frames'[n + 1 - 1].fin
                          THEN frames'[n + 1 - 1].id + 1 ELSE frames'[n + 1 - 1].id)
      <4>1. CASE n = 0 BY <3>6, <3>7, <4>1
      <4>2. CASE n # 0
        <5>1. n + 1 - 1 = n /\ n + 1 # 1 /\ frames'[n] = frames[n] BY <2>1, <3>2, <4>2
        <5> QED BY <3>6, <3>7, <4>2, <5>1
      <4> QED BY <4>1, <4>2
    <3>9. \A i \in 1..(n + 1) : i \in 1..n \/ i = n + 1 BY <2>1
    <3> HIDE DEF f, starts
    <3> QED BY <2>6, <3>1, <3>8, <3>9 DEF FramesFormMessages
  <2>8. /\ Cardinality(Final(frames)) \in Nat
        /\ Cardinality(Final(frames)) + Len(queue) = pushed
        /\ Cardinality(Final(frames')) = Cardinality(Final(frames)) + (IF f.fin THEN 1 ELSE 0)
    <3>1. Cardinality(Final(frames)) \in Nat BY <2>1, FinalFinite, FS_CardinalityType
    <3>2. Cardinality(Final(frames)) + Len(queue) = pushed BY <1>0 DEF NoMessageLost, Final
    <3>3. Cardinality(Final(frames')) = Cardinality(Final(frames)) + (IF f.fin THEN 1 ELSE 0)
      BY <2>1, <2>5, <2>6, FinalGrows
    <3> QED BY <3>1, <3>2, <3>3
  <2>9. CASE m.issued + 1 = m.len
    <3>1. queue' = Tail(queue) BY <1>2, <2>1, <2>9
    <3>2. /\ queue' \in Seq(Message) /\ Len(queue') = Len(queue) - 1
          /\ \A i \in 1..Len(queue') : queue'[i] = queue[i + 1]
      BY <2>1, <3>1
    <3>3. QueueInOrder'
      <4>1. \A i \in 1..Len(queue') : i + 1 \in 1..Len(queue) /\ i + 1 > 1 BY <2>1, <3>2
      <4>2. ASSUME NEW i \in 1..Len(queue')
            PROVE  /\ queue'[i].id = pushed' - Len(queue') + i
                   /\ queue'[i].issued < queue'[i].len
                   /\ i > 1 => queue'[i].issued = 0
        <5>1. /\ queue[i + 1].id = pushed - Len(queue) + (i + 1)
              /\ queue[i + 1].issued < queue[i + 1].len
              /\ queue[i + 1].issued = 0
          BY <1>0, <4>1 DEF QueueInOrder
        <5>2. pushed - Len(queue) + (i + 1) = pushed' - Len(queue') + i
          BY <1>0, <2>1, <3>2
        <5> QED BY <3>2, <5>1, <5>2
      <4>3. Len(queue') <= pushed' BY <1>0, <2>1, <3>2 DEF QueueInOrder
      <4> QED BY <4>2, <4>3 DEF QueueInOrder
    <3>4. f.fin BY <2>4, <2>9
    <3>5. FramesMeetQueue'
      <4>1. pushed' - Len(queue') = f.id BY <1>0, <2>1, <2>3, <2>4, <3>2
      <4>2. queue' # <<>> => 1 \in 1..Len(queue') /\ 2 \in 1..Len(queue) BY <2>1, <3>2
      <4>3. queue' # <<>> => queue'[1].issued = 0 BY <1>0, <3>2, <4>2 DEF QueueInOrder
      <4>4. frames' # <<>> /\ frames'[Len(frames')] = f BY <2>1, <2>6
      <4> HIDE DEF f
      <4> QED BY <3>4, <4>1, <4>3, <4>4 DEF FramesMeetQueue
    <3>6. NoMessageLost'
      <4>1. Cardinality(Final(frames')) + Len(queue') = pushed'
        BY <1>0, <2>1, <2>8, <3>2, <3>4
      <4>2. \A i \in 2..Len(queue') : queue'[i].issued = 0 BY <3>3 DEF QueueInOrder
      <4> QED BY <4>1, <4>2 DEF NoMessageLost, Final
    <3>7. SendTypes' BY <1>0, <2>6, <3>2 DEF SendTypes
    <3> QED BY <2>7, <3>3, <3>5, <3>6, <3>7 DEF Sending
  <2>10. CASE m.issued + 1 # m.len
    <3> DEFINE r == [m EXCEPT !.issued = @ + 1]
    <3>1. queue' = [queue EXCEPT ![1] = r] BY <1>2, <2>1, <2>10
    <3>2. r \in Message
      <4>1. m.issued + 1 \in 0..MaxFragment BY <1>0, <2>2, <2>3
      <4> QED BY <2>1, <4>1 DEF Message
    <3>3. /\ queue' \in Seq(Message) /\ Len(queue') = Len(queue) /\ queue'[1] = r
          /\ \A i \in 2..Len(queue') : queue'[i] = queue[i]
      BY <2>1, <3>1, <3>2
    <3>4. r.id = m.id /\ r.len = m.len /\ r.issued = m.issued + 1
      BY <2>1 DEF Message
    <3>5. QueueInOrder'
      <4>1. r.issued < r.len BY <2>2, <2>3, <2>10, <3>4
      <4>2. /\ queue'[1].id = pushed' - Len(queue') + 1
            /\ queue'[1].issued < queue'[1].len
        BY <1>0, <2>1, <2>3, <3>3, <3>4, <4>1
      <4>3. \A i \in 2..Len(queue') : /\ queue'[i].id = pushed' - Len(queue') + i
                                      /\ queue'[i].issued < queue'[i].len
                                      /\ queue'[i].issued = 0
        BY <1>0, <2>1, <3>3 DEF QueueInOrder
      <4>4. \A i \in 1..Len(queue') : i = 1 \/ (i \in 2..Len(queue') /\ i > 1) BY <2>1, <3>3
      <4>5. Len(queue') <= pushed' BY <1>0, <3>3 DEF QueueInOrder
      <4> QED BY <4>2, <4>3, <4>4, <4>5 DEF QueueInOrder
    <3>6. ~f.fin BY <2>4, <2>10
    <3>7. FramesMeetQueue'
      <4>1. frames' # <<>> /\ frames'[Len(frames')] = f BY <2>1, <2>6
      <4>2. f.id = r.id /\ f.part = r.issued /\ r.issued > 0 BY <2>2, <2>4, <3>4
      <4>3. queue' # <<>> BY <2>1, <3>3
      <4> HIDE DEF f, r
      <4> QED BY <3>3, <3>6, <4>1, <4>2, <4>3 DEF FramesMeetQueue
    <3>8. NoMessageLost'
      <4>1. Cardinality(Final(frames')) + Len(queue') = pushed'
        BY <1>0, <2>1, <2>8, <3>3, <3>6
      <4>2. \A i \in 2..Len(queue') : queue'[i].issued = 0 BY <3>5 DEF QueueInOrder
      <4> QED BY <4>1, <4>2 DEF NoMessageLost, Final
    <3>9. SendTypes' BY <1>0, <2>6, <3>3 DEF SendTypes
    <3> QED BY <2>7, <3>5, <3>7, <3>8, <3>9 DEF Sending
  <2> QED BY <2>9, <2>10
<1> QED BY <1>1, <1>2 DEF WriteFragment, Leave
-----------------------------------------------------------------------------
(* Receiving.                                                              *)

LEMMA ReceivingSame == Receiving /\ UNCHANGED received => Receiving'
BY DEF Receiving, ReadTypes, PendingFits, ReadsAreFrames, Pieces, received

\* The pieces of a frame up to the next one.
LEMMA PiecesGrow ==
    ASSUME NEW n \in 1..MaxFrame, NEW k \in Nat, k + 1 <= MaxPiece
    PROVE  /\ Pieces(n, k) \in Seq(Piece)
           /\ Pieces(n, k + 1) = Append(Pieces(n, k), [frame |-> n, part |-> k + 1])
           /\ Pieces(n, k + 1) \in Seq(Piece)
<1>1. MaxFrame \in Nat /\ MaxPiece \in Nat BY BoundAssumption
<1>2. \A i \in 1..(k + 1) : [frame |-> n, part |-> i] \in Piece BY <1>1 DEF Piece
<1>3. Pieces(n, k + 1) \in [1..(k + 1) -> Piece] BY <1>2 DEF Pieces
<1>4. Pieces(n, k) \in [1..k -> Piece] BY <1>2 DEF Pieces
<1>5. Pieces(n, k + 1) \in Seq(Piece) /\ Len(Pieces(n, k + 1)) = k + 1 BY <1>3
<1>6. Pieces(n, k) \in Seq(Piece) /\ Len(Pieces(n, k)) = k BY <1>4
<1> DEFINE a == Append(Pieces(n, k), [frame |-> n, part |-> k + 1])
<1>7. a \in Seq(Piece) /\ Len(a) = k + 1 BY <1>2, <1>6
<1>8. \A i \in 1..(k + 1) : a[i] = Pieces(n, k + 1)[i]
  <2>1. a[k + 1] = [frame |-> n, part |-> k + 1] BY <1>6
  <2>2. \A i \in 1..k : a[i] = Pieces(n, k)[i] BY <1>6
  <2>3. \A i \in 1..k : Pieces(n, k)[i] = [frame |-> n, part |-> i] BY DEF Pieces
  <2>4. \A i \in 1..(k + 1) : Pieces(n, k + 1)[i] = [frame |-> n, part |-> i] BY DEF Pieces
  <2>5. \A i \in 1..(k + 1) : i \in 1..k \/ i = k + 1 OBVIOUS
  <2>6. \A i \in 1..k : i \in 1..(k + 1) OBVIOUS
  <2> HIDE DEF a
  <2>7. ASSUME NEW i \in 1..k PROVE a[i] = Pieces(n, k + 1)[i] BY <2>2, <2>3, <2>4, <2>6
  <2>8. a[k + 1] = Pieces(n, k + 1)[k + 1] BY <2>1, <2>4
  <2> QED BY <2>5, <2>7, <2>8
<1> HIDE DEF a
<1>9. a = Pieces(n, k + 1) BY <1>5, <1>7, <1>8, SeqEqual
<1> QED BY <1>5, <1>6, <1>9 DEF a

\* The next piece is put behind those of its frame, and the last one makes the
\* frame a read.
LEMMA ReceiveKeepsFrames == Receiving /\ Receive => Receiving'
<1> SUFFICES ASSUME Receiving, Receive PROVE Receiving' OBVIOUS
<1> DEFINE n == Len(sizes')
           c == sizes'[n] - pending' - 1
           data == Append(current, [frame |-> n, part |-> sizes'[n] - pending'])
<1>0. /\ ReadTypes /\ PendingFits /\ ReadsAreFrames
      /\ MaxFrame \in Nat /\ MaxPiece \in Nat
  BY BoundAssumption DEF Receiving
<1>1. /\ current \in Seq(Piece) /\ pending \in Nat /\ sizes \in Seq(1..MaxPiece)
      /\ reads \in Seq(Seq(Piece)) /\ Len(sizes) \in Nat /\ Len(sizes) <= MaxFrame
  BY <1>0 DEF ReadTypes, PendingFits
<1>2. /\ sizes' \in Seq(1..MaxPiece) /\ n \in 1..MaxFrame /\ pending' \in Nat
      /\ c \in Nat /\ c + 1 <= MaxPiece /\ sizes'[n] \in 1..MaxPiece
      /\ current = Pieces(n, c)
      /\ Len(reads) = n - 1
      /\ \A i \in 1..(n - 1) : reads[i] = Pieces(i, sizes'[i])
  <2>1. CASE pending = 0 /\ Len(sizes) < MaxFrame
    <3>1. PICK k \in 1..MaxPiece : sizes' = Append(sizes, k) /\ pending' = k - 1
      BY <2>1 DEF Receive
    <3>2. /\ sizes' \in Seq(1..MaxPiece) /\ n = Len(sizes) + 1 /\ sizes'[n] = k
          /\ \A i \in 1..Len(sizes) : sizes'[i] = sizes[i]
      BY <1>1, <3>1
    <3>3. c = 0 /\ pending' \in Nat BY <1>0, <3>1, <3>2
    <3>4. current = <<>> /\ Len(reads) = Len(sizes)
          /\ \A i \in 1..Len(sizes) : reads[i] = Pieces(i, sizes[i])
      BY <1>0, <2>1 DEF ReadsAreFrames
    <3>5. Pieces(n, 0) = <<>>
      <4>1. Pieces(n, 0) \in [1..0 -> Piece] BY DEF Pieces
      <4>2. Pieces(n, 0) \in Seq(Piece) /\ Len(Pieces(n, 0)) = 0 BY <4>1
      <4> QED BY <4>2, EmptySeq
    <3>6. n \in 1..MaxFrame /\ n - 1 = Len(sizes)
      <4> HIDE DEF n
      <4> QED BY <1>0, <1>1, <2>1, <3>2
    <3>7. c + 1 <= MaxPiece
      <4> HIDE DEF c
      <4> QED BY <1>0, <3>1, <3>3
    <3> HIDE DEF c, n
    <3> QED BY <3>1, <3>2, <3>3, <3>4, <3>5, <3>6, <3>7
  <2>2. CASE pending > 0
    <3>1. sizes' = sizes /\ pending' = pending - 1 BY <1>1, <2>2 DEF Receive
    <3>2. sizes # <<>> /\ pending < sizes[Len(sizes)] BY <1>0, <2>2 DEF PendingFits
    <3>3. n = Len(sizes) /\ n \in 1..MaxFrame /\ sizes'[n] \in 1..MaxPiece BY <1>0, <1>1, <3>1, <3>2
    <3>4. /\ c = sizes[n] - pending /\ c \in Nat /\ c + 1 <= MaxPiece /\ pending' \in Nat
      BY <1>0, <1>1, <2>2, <3>1, <3>2, <3>3
    <3>5. /\ current = Pieces(n, sizes[n] - pending) /\ Len(reads) = n - 1
          /\ \A i \in 1..(n - 1) : reads[i] = Pieces(i, sizes[i])
      <4>1. pending # 0 /\ n = Len(sizes) BY <1>1, <2>2, <3>3
      <4> HIDE DEF n
      <4> QED BY <1>0, <4>1 DEF ReadsAreFrames
    <3> QED BY <1>1, <3>1, <3>3, <3>4, <3>5
  <2> QED BY <2>1, <2>2 DEF Receive
<1>3. data = Pieces(n, c + 1) /\ data \in Seq(Piece)
  <2>1. sizes'[n] - pending' = c + 1 BY <1>2
  <2> HIDE DEF n, c
  <2> QED BY <1>2, <2>1, PiecesGrow
<1>4. /\ \/ pending' = 0 /\ reads' = Append(reads, data) /\ current' = <<>>
         \/ pending' # 0 /\ reads' = reads /\ current' = data
  BY DEF Receive, SignalRead
<1>5. c + 1 = sizes'[n] - pending' BY <1>2
<1> HIDE DEF data, c, n
<1>6. ReadTypes'
  <2>1. Append(reads, data) \in Seq(Seq(Piece)) BY <1>1, <1>3, AppendProperties
  <2>2. reads' \in Seq(Seq(Piece)) BY <1>1, <1>4, <2>1
  <2>3. <<>> \in Seq(Piece) BY EmptySeq
  <2>4. current' \in Seq(Piece) BY <1>3, <1>4, <2>3
  <2> QED BY <1>2, <2>2, <2>4 DEF ReadTypes
<1>7. PendingFits'
  <2>1. n = Len(sizes') BY DEF n
  <2>2. sizes' # <<>> BY <1>2, <2>1
  <2>3. pending' < sizes'[n] BY <1>0, <1>2, <1>5
  <2> QED BY <1>0, <1>2, <2>1, <2>2, <2>3 DEF PendingFits
<1>8. ReadsAreFrames'
  <2>1. n = Len(sizes') BY DEF n
  <2>2. CASE pending' = 0
    <3>1. c + 1 = sizes'[n] /\ n \in Nat /\ n - 1 \in Nat BY <1>0, <1>2, <1>5, <2>2
    <3>2. Len(reads') = n /\ reads'[n] = Pieces(n, sizes'[n])
          /\ \A i \in 1..(n - 1) : reads'[i] = reads[i]
      <4> DEFINE r == Append(reads, data)
      <4>1. /\ Len(r) = Len(reads) + 1
            /\ \A i \in 1..Len(reads) : r[i] = reads[i]
            /\ r[Len(reads) + 1] = data
        BY <1>1, <1>3, AppendProperties
      <4>2. Len(reads) + 1 = n /\ reads' = r BY <1>2, <1>4, <2>2, <3>1
      <4> HIDE DEF r
      <4> QED BY <1>2, <1>3, <3>1, <4>1, <4>2
    <3>3. \A i \in 1..n : i = n \/ i \in 1..(n - 1) BY <3>1
    <3>4. \A i \in 1..n : reads'[i] = Pieces(i, sizes'[i]) BY <1>2, <3>2, <3>3
    <3> QED BY <1>4, <2>1, <2>2, <3>2, <3>4 DEF ReadsAreFrames, Pieces
  <2>3. CASE pending' # 0
    <3>1. current' = Pieces(n, sizes'[n] - pending') BY <1>3, <1>4, <1>5, <2>3
    <3>2. Len(reads') = n - 1 /\ \A i \in 1..(n - 1) : reads'[i] = Pieces(i, sizes'[i])
      BY <1>2, <1>4, <2>3
    <3> QED BY <2>1, <2>3, <3>1, <3>2 DEF ReadsAreFrames, Pieces
  <2> QED BY <2>2, <2>3
<1> QED BY <1>6, <1>7, <1>8 DEF Receiving
-----------------------------------------------------------------------------
(* The two threads.                                                        *)

LEMMA SignalGrows ==
    ASSUME events \in Seq(Event), NEW e \in Event, Signal(e)
    PROVE  /\ events' \in Seq(Event)
           /\ \A kinds : Signalled(kinds)' <=> (Signalled(kinds) \/ e \in kinds)
           /\ events' # <<>>
<1>1. /\ Len(events') = Len(events) + 1 /\ events'[Len(events) + 1] = e
      /\ \A i \in 1..Len(events) : events'[i] = events[i]
      /\ events' \in Seq(Event) /\ Len(events) \in Nat
  BY DEF Signal
<1>2. \A i \in 1..(Len(events) + 1) : i \in 1..Len(events) \/ i = Len(events) + 1 BY <1>1
<1>3. \A i \in 1..Len(events) : i \in 1..(Len(events) + 1) BY <1>1
<1>4. Len(events) + 1 \in 1..(Len(events) + 1) BY <1>1
<1>5. \A kinds : Signalled(kinds)' <=> (Signalled(kinds) \/ e \in kinds)
  BY <1>1, <1>2, <1>3, <1>4 DEF Signalled
<1> QED BY <1>1, <1>5

LEMMA SignalledSame == events' = events => \A kinds : Signalled(kinds)' <=> Signalled(kinds)
BY DEF Signalled

LEMMA NothingSignalled == events = <<>> => \A kinds : ~Signalled(kinds)
BY DEF Signalled

\* No step of either thread spoils what they know of each other.
LEMMA ThreadsStep == Threads /\ Next => Threads'
<1> SUFFICES ASSUME Threads, Next PROVE Threads' OBVIOUS
<1>0. ThreadTypes /\ ClosedIsQuiet /\ EndIsTold BY DEF Threads
<1> USE DEF Threads
<1>1. CASE SendTest
  <2>1. events' = events BY <1>1 DEF SendTest
  <2>2. \A kinds : Signalled(kinds)' <=> Signalled(kinds) BY <2>1, SignalledSame
  <2>3. ThreadTypes' BY <1>0, <1>1, <2>1, <2>2 DEF SendTest, ThreadTypes, State
  <2>4. ClosedIsQuiet' BY <1>0, <1>1, <2>1, <2>2, NothingSignalled DEF SendTest, ThreadTypes, ClosedIsQuiet
  <2>5. EndIsTold' BY <1>0, <1>1, <2>1, <2>2 DEF SendTest, ThreadTypes, EndIsTold, Excused, Ending
  <2> QED BY <2>3, <2>4, <2>5
<1>2. CASE SendPush
  <2>1. events' = events BY <1>2 DEF SendPush
  <2>2. \A kinds : Signalled(kinds)' <=> Signalled(kinds) BY <2>1, SignalledSame
  <2>3. ThreadTypes' BY <1>0, <1>2, <2>1, <2>2 DEF SendPush, ThreadTypes, State
  <2>4. ClosedIsQuiet' BY <1>0, <1>2, <2>1, <2>2, NothingSignalled DEF SendPush, ThreadTypes, ClosedIsQuiet
  <2>5. EndIsTold' BY <1>0, <1>2, <2>1, <2>2 DEF SendPush, ThreadTypes, EndIsTold, Excused, Ending
  <2> QED BY <2>3, <2>4, <2>5
<1>3. CASE CloseTest
  <2>1. events' = events BY <1>3 DEF CloseTest
  <2>2. \A kinds : Signalled(kinds)' <=> Signalled(kinds) BY <2>1, SignalledSame
  <2>3. ThreadTypes' BY <1>0, <1>3, <2>1, <2>2 DEF CloseTest, ThreadTypes, State
  <2>4. ClosedIsQuiet' BY <1>0, <1>3, <2>1, <2>2, NothingSignalled DEF CloseTest, ThreadTypes, ClosedIsQuiet
  <2>5. EndIsTold' BY <1>0, <1>3, <2>1, <2>2 DEF CloseTest, ThreadTypes, EndIsTold, Excused, Ending
  <2> QED BY <2>3, <2>4, <2>5
<1>4. CASE CloseMark
  <2>1. events' = events BY <1>4 DEF CloseMark
  <2>2. \A kinds : Signalled(kinds)' <=> Signalled(kinds) BY <2>1, SignalledSame
  <2>3. ThreadTypes' BY <1>0, <1>4, <2>1, <2>2 DEF CloseMark, ThreadTypes, State
  <2>4. ClosedIsQuiet' BY <1>0, <1>4, <2>1, <2>2, NothingSignalled DEF CloseMark, ThreadTypes, ClosedIsQuiet
  <2>5. EndIsTold' BY <1>0, <1>4, <2>1, <2>2 DEF CloseMark, ThreadTypes, EndIsTold, Excused, Ending
  <2> QED BY <2>3, <2>4, <2>5
<1>5. CASE Join
  <2>1. Signal("close") \/ events' = events BY <1>5 DEF Join
  <2>2. /\ Signal("close") => /\ events' \in Seq(Event)
                            /\ \A kinds : Signalled(kinds)' <=> (Signalled(kinds) \/ "close" \in kinds)
        /\ events' = events => \A kinds : Signalled(kinds)' <=> Signalled(kinds)
    BY <1>0, <2>1, SignalGrows, SignalledSame DEF ThreadTypes, Event
  <2>3. ThreadTypes' BY <1>0, <1>5, <2>1, <2>2 DEF Join, ThreadTypes, State
  <2>4. ClosedIsQuiet' BY <1>0, <1>5, <2>1, <2>2, NothingSignalled DEF Join, ThreadTypes, ClosedIsQuiet
  <2>5. EndIsTold' BY <1>0, <1>5, <2>1, <2>2 DEF Join, ThreadTypes, EndIsTold, Excused, Ending
  <2> QED BY <2>3, <2>4, <2>5
<1>6. CASE CreateContext
  <2>1. events' = events BY <1>6 DEF CreateContext
  <2>2. \A kinds : Signalled(kinds)' <=> Signalled(kinds) BY <2>1, SignalledSame
  <2>3. ThreadTypes' BY <1>0, <1>6, <2>1, <2>2 DEF CreateContext, ThreadTypes, State
  <2>4. ClosedIsQuiet' BY <1>0, <1>6, <2>1, <2>2, NothingSignalled DEF CreateContext, ThreadTypes, ClosedIsQuiet
  <2>5. EndIsTold' BY <1>0, <1>6, <2>1, <2>2 DEF CreateContext, ThreadTypes, EndIsTold, Excused, Ending
  <2> QED BY <2>3, <2>4, <2>5
<1>7. CASE ClientConnect
  <2>1. Signal("error") \/ events' = events BY <1>7 DEF ClientConnect
  <2>2. /\ Signal("error") => /\ events' \in Seq(Event)
                            /\ \A kinds : Signalled(kinds)' <=> (Signalled(kinds) \/ "error" \in kinds)
        /\ events' = events => \A kinds : Signalled(kinds)' <=> Signalled(kinds)
    BY <1>0, <2>1, SignalGrows, SignalledSame DEF ThreadTypes, Event
  <2>3. ThreadTypes' BY <1>0, <1>7, <2>1, <2>2 DEF ClientConnect, ThreadTypes, State
  <2>4. ClosedIsQuiet' BY <1>0, <1>7, <2>1, <2>2, NothingSignalled DEF ClientConnect, ThreadTypes, ClosedIsQuiet
  <2>5. EndIsTold' BY <1>0, <1>7, <2>1, <2>2 DEF ClientConnect, ThreadTypes, EndIsTold, Excused, Ending
  <2> QED BY <2>3, <2>4, <2>5
<1>8. CASE Failed
  <2>1. events' = events BY <1>8 DEF Failed
  <2>2. \A kinds : Signalled(kinds)' <=> Signalled(kinds) BY <2>1, SignalledSame
  <2>3. ThreadTypes' BY <1>0, <1>8, <2>1, <2>2 DEF Failed, ThreadTypes, State
  <2>4. ClosedIsQuiet' BY <1>0, <1>8, <2>1, <2>2, NothingSignalled DEF Failed, ThreadTypes, ClosedIsQuiet
  <2>5. EndIsTold' BY <1>0, <1>8, <2>1, <2>2 DEF Failed, ThreadTypes, EndIsTold, Excused, Ending
  <2> QED BY <2>3, <2>4, <2>5
<1>9. CASE Loop
  <2>1. events' = events BY <1>9 DEF Loop
  <2>2. \A kinds : Signalled(kinds)' <=> Signalled(kinds) BY <2>1, SignalledSame
  <2>3. ThreadTypes' BY <1>0, <1>9, <2>1, <2>2 DEF Loop, ThreadTypes, State
  <2>4. ClosedIsQuiet' BY <1>0, <1>9, <2>1, <2>2, NothingSignalled DEF Loop, ThreadTypes, ClosedIsQuiet
  <2>5. EndIsTold' BY <1>0, <1>9, <2>1, <2>2 DEF Loop, ThreadTypes, EndIsTold, Excused, Ending
  <2> QED BY <2>3, <2>4, <2>5
<1>10. CASE Check
  <2>1. events' = events BY <1>10 DEF Check
  <2>2. \A kinds : Signalled(kinds)' <=> Signalled(kinds) BY <2>1, SignalledSame
  <2>3. ThreadTypes' BY <1>0, <1>10, <2>1, <2>2 DEF Check, ThreadTypes, State
  <2>4. ClosedIsQuiet' BY <1>0, <1>10, <2>1, <2>2, NothingSignalled DEF Check, ThreadTypes, ClosedIsQuiet
  <2>5. EndIsTold' BY <1>0, <1>10, <2>1, <2>2 DEF Check, ThreadTypes, EndIsTold, Excused, Ending
  <2> QED BY <2>3, <2>4, <2>5
<1>11. CASE Quiet
  <2>1. events' = events BY <1>11 DEF Quiet
  <2>2. \A kinds : Signalled(kinds)' <=> Signalled(kinds) BY <2>1, SignalledSame
  <2>3. ThreadTypes' BY <1>0, <1>11, <2>1, <2>2 DEF Quiet, ThreadTypes, State
  <2>4. ClosedIsQuiet' BY <1>0, <1>11, <2>1, <2>2, NothingSignalled DEF Quiet, ThreadTypes, ClosedIsQuiet
  <2>5. EndIsTold' BY <1>0, <1>11, <2>1, <2>2 DEF Quiet, ThreadTypes, EndIsTold, Excused, Ending
  <2> QED BY <2>3, <2>4, <2>5
<1>12. CASE Established
  <2>1. events' = events BY <1>12 DEF Established
  <2>2. \A kinds : Signalled(kinds)' <=> Signalled(kinds) BY <2>1, SignalledSame
  <2>3. ThreadTypes' BY <1>0, <1>12, <2>1, <2>2 DEF Established, ThreadTypes, State
  <2>4. ClosedIsQuiet' BY <1>0, <1>12, <2>1, <2>2, NothingSignalled DEF Established, ThreadTypes, ClosedIsQuiet
  <2>5. EndIsTold' BY <1>0, <1>12, <2>1, <2>2 DEF Established, ThreadTypes, EndIsTold, Excused, Ending
  <2> QED BY <2>3, <2>4, <2>5
<1>13. CASE Opened
  <2>1. Signal("connect") BY <1>13 DEF Opened
  <2>2. /\ events' \in Seq(Event)
        /\ \A kinds : Signalled(kinds)' <=> (Signalled(kinds) \/ "connect" \in kinds)
    BY <1>0, <2>1, SignalGrows DEF ThreadTypes, Event
  <2>3. ThreadTypes' BY <1>0, <1>13, <2>1, <2>2 DEF Opened, ThreadTypes, State
  <2>4. ClosedIsQuiet' BY <1>0, <1>13, <2>1, <2>2, NothingSignalled DEF Opened, ThreadTypes, ClosedIsQuiet
  <2>5. EndIsTold' BY <1>0, <1>13, <2>1, <2>2 DEF Opened, ThreadTypes, EndIsTold, Excused, Ending
  <2> QED BY <2>3, <2>4, <2>5
<1>14. CASE ConnectionError
  <2>1. Signal("error") BY <1>14 DEF ConnectionError
  <2>2. /\ events' \in Seq(Event)
        /\ \A kinds : Signalled(kinds)' <=> (Signalled(kinds) \/ "error" \in kinds)
    BY <1>0, <2>1, SignalGrows DEF ThreadTypes, Event
  <2>3. ThreadTypes' BY <1>0, <1>14, <2>1, <2>2 DEF ConnectionError, ThreadTypes, State
  <2>4. ClosedIsQuiet' BY <1>0, <1>14, <2>1, <2>2, NothingSignalled DEF ConnectionError, ThreadTypes, ClosedIsQuiet
  <2>5. EndIsTold' BY <1>0, <1>14, <2>1, <2>2 DEF ConnectionError, ThreadTypes, EndIsTold, Excused, Ending
  <2> QED BY <2>3, <2>4, <2>5
<1>15. CASE Writeable
  <2>1. events' = events BY <1>15 DEF Writeable
  <2>2. \A kinds : Signalled(kinds)' <=> Signalled(kinds) BY <2>1, SignalledSame
  <2>3. ThreadTypes' BY <1>0, <1>15, <2>1, <2>2 DEF Writeable, ThreadTypes, State
  <2>4. ClosedIsQuiet' BY <1>0, <1>15, <2>1, <2>2, NothingSignalled DEF Writeable, ThreadTypes, ClosedIsQuiet
  <2>5. EndIsTold' BY <1>0, <1>15, <2>1, <2>2 DEF Writeable, ThreadTypes, EndIsTold, Excused, Ending
  <2> QED BY <2>3, <2>4, <2>5
<1>16. CASE WriteFragment
  <2>1. events' = events BY <1>16 DEF WriteFragment
  <2>2. \A kinds : Signalled(kinds)' <=> Signalled(kinds) BY <2>1, SignalledSame
  <2>3. ThreadTypes'
    <3>1. UNCHANGED <<readyState, needQuit, context, link, owner, events>>
          /\ (UNCHANGED <<sub, armed>> \/ (sub' = "loop" /\ armed' = TRUE))
      BY <1>16 DEF WriteFragment, Leave
    <3> QED BY <1>0, <3>1 DEF ThreadTypes
  <2>4. ClosedIsQuiet' BY <1>0, <1>16, <2>1, <2>2, NothingSignalled DEF WriteFragment, Leave, ThreadTypes, ClosedIsQuiet
  <2>5. EndIsTold' BY <1>0, <1>16, <2>1, <2>2 DEF WriteFragment, Leave, ThreadTypes, EndIsTold, Excused, Ending
  <2> QED BY <2>3, <2>4, <2>5
<1>17. CASE Receive
  <2>1. events' = events BY <1>17 DEF Receive
  <2>2. \A kinds : Signalled(kinds)' <=> Signalled(kinds) BY <2>1, SignalledSame
  <2>3. ThreadTypes' BY <1>0, <1>17, <2>1, <2>2 DEF Receive, ThreadTypes, State
  <2>4. ClosedIsQuiet' BY <1>0, <1>17, <2>1, <2>2, NothingSignalled DEF Receive, ThreadTypes, ClosedIsQuiet
  <2>5. EndIsTold' BY <1>0, <1>17, <2>1, <2>2 DEF Receive, ThreadTypes, EndIsTold, Excused, Ending
  <2> QED BY <2>3, <2>4, <2>5
<1>18. CASE Closed
  <2>1. events' = events BY <1>18 DEF Closed
  <2>2. \A kinds : Signalled(kinds)' <=> Signalled(kinds) BY <2>1, SignalledSame
  <2>3. ThreadTypes' BY <1>0, <1>18, <2>1, <2>2 DEF Closed, ThreadTypes, State
  <2>4. ClosedIsQuiet' BY <1>0, <1>18, <2>1, <2>2, NothingSignalled DEF Closed, ThreadTypes, ClosedIsQuiet
  <2>5. EndIsTold' BY <1>0, <1>18, <2>1, <2>2 DEF Closed, ThreadTypes, EndIsTold, Excused, Ending
  <2> QED BY <2>3, <2>4, <2>5
<1>19. CASE SignalClosed
  <2>1. Signal("close") BY <1>19 DEF SignalClosed
  <2>2. /\ events' \in Seq(Event)
        /\ \A kinds : Signalled(kinds)' <=> (Signalled(kinds) \/ "close" \in kinds)
    BY <1>0, <2>1, SignalGrows DEF ThreadTypes, Event
  <2>3. ThreadTypes' BY <1>0, <1>19, <2>1, <2>2 DEF SignalClosed, ThreadTypes, State
  <2>4. ClosedIsQuiet' BY <1>0, <1>19, <2>1, <2>2, NothingSignalled DEF SignalClosed, ThreadTypes, ClosedIsQuiet
  <2>5. EndIsTold' BY <1>0, <1>19, <2>1, <2>2 DEF SignalClosed, ThreadTypes, EndIsTold, Excused, Ending
  <2> QED BY <2>3, <2>4, <2>5
<1>20. CASE Destroy
  <2>1. Signal("close") \/ events' = events BY <1>20 DEF Destroy
  <2>2. /\ Signal("close") => /\ events' \in Seq(Event)
                            /\ \A kinds : Signalled(kinds)' <=> (Signalled(kinds) \/ "close" \in kinds)
        /\ events' = events => \A kinds : Signalled(kinds)' <=> Signalled(kinds)
    BY <1>0, <2>1, SignalGrows, SignalledSame DEF ThreadTypes, Event
  <2>3. ThreadTypes' BY <1>0, <1>20, <2>1, <2>2 DEF Destroy, ThreadTypes, State
  <2>4. ClosedIsQuiet' BY <1>0, <1>20, <2>1, <2>2, NothingSignalled DEF Destroy, ThreadTypes, ClosedIsQuiet
  <2>5. EndIsTold' BY <1>0, <1>20, <2>1, <2>2 DEF Destroy, ThreadTypes, EndIsTold, Excused, Ending
  <2> QED BY <2>3, <2>4, <2>5
<1>21. CASE ErrorAgain
  <2>1. Signal("error") BY <1>21 DEF ErrorAgain
  <2>2. /\ events' \in Seq(Event)
        /\ \A kinds : Signalled(kinds)' <=> (Signalled(kinds) \/ "error" \in kinds)
    BY <1>0, <2>1, SignalGrows DEF ThreadTypes, Event
  <2>3. ThreadTypes' BY <1>0, <1>21, <2>1, <2>2 DEF ErrorAgain, ThreadTypes, State
  <2>4. ClosedIsQuiet' BY <1>0, <1>21, <2>1, <2>2, NothingSignalled DEF ErrorAgain, ThreadTypes, ClosedIsQuiet
  <2>5. EndIsTold' BY <1>0, <1>21, <2>1, <2>2 DEF ErrorAgain, ThreadTypes, EndIsTold, Excused, Ending
  <2> QED BY <2>3, <2>4, <2>5
<1> QED BY <1>1, <1>2, <1>3, <1>4, <1>5, <1>6, <1>7, <1>8, <1>9, <1>10, <1>11, <1>12, <1>13, <1>14, <1>15, <1>16, <1>17, <1>18, <1>19, <1>20, <1>21 DEF Next

LEMMA ThreadsSame == Threads /\ UNCHANGED vars => Threads'
BY DEF Threads, ThreadTypes, ClosedIsQuiet, EndIsTold, Excused, Signalled, vars
-----------------------------------------------------------------------------
(* The invariant and what follows from it.                                 *)

LEMMA InitInductive == Init => Inductive
<1> SUFFICES ASSUME Init PROVE Inductive OBVIOUS
<1> USE DEF Init
<1>1. Sending
  <2>1. SendTypes BY BoundAssumption DEF SendTypes
  <2>2. Final(frames) = {} BY DEF Final
  <2>3. Cardinality(Final(frames)) = 0 BY <2>2, FS_EmptySet
  <2>4. NoMessageLost BY <2>3 DEF NoMessageLost, Final
  <2>5. QueueInOrder BY DEF QueueInOrder
  <2>6. FramesMeetQueue
    <3>1. Len(queue) = 0 /\ frames = <<>> /\ queue = <<>> /\ pushed = 0 OBVIOUS
    <3>2. \A i, j \in Nat : i = 0 /\ j = 0 => i - j = 0 OBVIOUS
    <3>3. 0 \in Nat /\ pushed - Len(queue) = 0 BY <3>1, <3>2
    <3> QED BY <3>1, <3>3 DEF FramesMeetQueue
  <2>7. FramesFormMessages BY DEF FramesFormMessages
  <2> QED BY <2>1, <2>4, <2>5, <2>6, <2>7 DEF Sending
<1>2. Receiving
  <2>1. ReadTypes BY DEF ReadTypes
  <2> QED BY <2>1, BoundAssumption DEF Receiving, PendingFits, ReadsAreFrames
<1>3. Threads
  <2>1. ThreadTypes
    <3>1. <<>> \in Seq(Event) OBVIOUS
    <3>2. events \in Seq(Event) BY <3>1
    <3> QED BY <3>2 DEF ThreadTypes, State
  <2>2. ClosedIsQuiet BY NothingSignalled DEF ClosedIsQuiet
  <2>3. EndIsTold BY DEF EndIsTold, Excused
  <2> QED BY <2>1, <2>2, <2>3 DEF Threads
<1> QED BY <1>1, <1>2, <1>3 DEF Inductive

LEMMA SendingStep == Sending /\ Next => Sending'
<1> SUFFICES ASSUME Sending, Next PROVE Sending' OBVIOUS
<1>1. CASE UNCHANGED <<queue, pushed, frames>> BY <1>1, SendingSame
<1>2. CASE WriteFragment BY <1>2, WriteKeepsOrder
<1>3. CASE SendPush
  <2>1. UNCHANGED frames BY <1>3 DEF SendPush
  <2>2. CASE \E what \in Kind, len \in 1..MaxFragment : Push(what, len)
    BY <2>1, <2>2, PushKeepsOrder
  <2>3. CASE UNCHANGED <<pushed, queue>> BY <2>1, <2>3, SendingSame
  <2> QED BY <1>3, <2>2, <2>3 DEF SendPush
<1>4. CASE Opened
  <2>1. UNCHANGED frames BY <1>4 DEF Opened
  <2>2. CASE Push("TEXT", 1)
    <3>1. 1 \in 1..MaxFragment BY BoundAssumption
    <3> QED BY <2>1, <2>2, <3>1, PushKeepsOrder DEF Kind
  <2>3. CASE UNCHANGED <<pushed, queue>> BY <2>1, <2>3, SendingSame
  <2> QED BY <1>4, <2>2, <2>3 DEF Opened
<1>5. \/ UNCHANGED <<queue, pushed, frames>> \/ WriteFragment \/ SendPush \/ Opened
  BY DEF Next, SendTest, CloseTest, CloseMark, Join, CreateContext, ClientConnect, Failed,
         ErrorAgain, Loop, Check, Quiet, Established, ConnectionError, Writeable, Receive, Closed,
         SignalClosed, Destroy
<1> QED BY <1>1, <1>2, <1>3, <1>4, <1>5

LEMMA ReceivingStep == Receiving /\ Next => Receiving'
<1> SUFFICES ASSUME Receiving, Next PROVE Receiving' OBVIOUS
<1>1. UNCHANGED received \/ Receive
  BY DEF Next, SendTest, SendPush, CloseTest, CloseMark, Join, CreateContext, ClientConnect,
         Failed, ErrorAgain, Loop, Check, Quiet, Established, Opened, ConnectionError,
         Writeable, WriteFragment, Closed, SignalClosed, Destroy
<1> QED BY <1>1, ReceivingSame, ReceiveKeepsFrames

\* The inductive invariant holds in every state: the queue is in order and the
\* frames lead up to it, what _currentData holds belongs to the frame under
\* way, and close is signalled when nothing more can be received or written.
THEOREM InductiveInvariant == Spec => []Inductive
<1>1. Inductive /\ [Next]_vars => Inductive'
  <2> SUFFICES ASSUME Inductive, [Next]_vars PROVE Inductive' OBVIOUS
  <2>1. CASE Next BY <2>1, SendingStep, ReceivingStep, ThreadsStep DEF Inductive
  <2>2. CASE UNCHANGED vars
    <3>1. UNCHANGED <<queue, pushed, frames>> /\ UNCHANGED received BY <2>2 DEF vars
    <3> QED BY <2>2, <3>1, SendingSame, ReceivingSame, ThreadsSame DEF Inductive
  <2> QED BY <2>1, <2>2
<1> QED BY <1>1, InitInductive, PTL DEF Spec

\* The variables keep their types: _readyState, the queue of messages, the
\* frames and the threads' places.
THEOREM TypeCorrect == Spec => []TypeOK
<1>1. Inductive => TypeOK
  BY DEF Inductive, Sending, Receiving, Threads, SendTypes, ReadTypes, ThreadTypes, TypeOK
<1> QED BY <1>1, InductiveInvariant, PTL

\* The frames the server receives are whole messages in the order of send,
\* for every number and length of messages and whatever writes are refused.
THEOREM FramesInOrder == Spec => []FramesFormMessages
<1>1. Inductive => FramesFormMessages BY DEF Inductive, Sending
<1> QED BY <1>1, InductiveInvariant, PTL

\* No message that sendMessageToSubThread took is lost or written twice.
THEOREM MessagesKept == Spec => []NoMessageLost
<1>1. Inductive => NoMessageLost BY DEF Inductive, Sending
<1> QED BY <1>1, InductiveInvariant, PTL

\* What SignalReadEvent hands over are whole frames, once and in order,
\* however libwebsockets cuts them.
THEOREM ReadsInOrder == Spec => []ReadsAreFrames
<1>1. Inductive => ReadsAreFrames BY DEF Inductive, Receiving
<1> QED BY <1>1, InductiveInvariant, PTL

\* The sub-thread does not end of itself without an error or a close event,
\* unless there is no context.
THEOREM EndsAreTold == Spec => []SilentOnlyWithoutContext
<1>1. Inductive => SilentOnlyWithoutContext
  BY DEF Inductive, Threads, EndIsTold, Excused, Signalled, SilentOnlyWithoutContext
<1> QED BY <1>1, InductiveInvariant, PTL

\* After the close event, whichever thread signals it, no frame is written and
\* no data signalled, and the only event that may follow is the other thread's
\* close: no late connect, no second error of a failed connection.
THEOREM ClosedStaysQuiet == Spec => QuietAfterClose
<1>1. Inductive /\ [Next]_vars =>
        [(\E i \in 1..Len(events) : events[i] = "close")
            => /\ UNCHANGED <<frames, reads>>
               /\ events' = events \/ events' = Append(events, "close")]_vars
  <2> SUFFICES ASSUME Inductive, Next, \E i \in 1..Len(events) : events[i] = "close"
               PROVE  /\ UNCHANGED <<frames, reads>>
                      /\ events' = events \/ events' = Append(events, "close")
    BY DEF vars
  <2>1. Signalled({"close"}) BY DEF Signalled
  <2>2. ClosedIsQuiet BY DEF Inductive, Threads
  <2>3. sub = "ended" \/ link = "gone" BY <2>1, <2>2 DEF ClosedIsQuiet
  <2>4. ~WriteFragment /\ ~Opened BY <2>2, <2>3 DEF WriteFragment, Opened, ClosedIsQuiet
  <2>5. ~Receive /\ ~ConnectionError BY <2>3 DEF Receive, ConnectionError
  <2>6. ~ClientConnect BY <2>1, <2>2, NothingSignalled DEF ClientConnect, ClosedIsQuiet
  <2>7. ~ErrorAgain BY <2>1, <2>2 DEF ErrorAgain, ClosedIsQuiet
  <2>8. UNCHANGED <<frames, reads>>
    BY <2>4, <2>5, <2>6, <2>7
    DEF Next, SendTest, SendPush, CloseTest, CloseMark, Join, CreateContext,
        Failed, Loop, Check, Quiet, Established, Writeable,
        Closed, SignalClosed, Destroy, received
  <2>9. events' = events \/ events' = Append(events, "close")
    BY <2>4, <2>5, <2>6, <2>7
    DEF Next, SendTest, SendPush, CloseTest, CloseMark, Join, CreateContext,
        Failed, Loop, Check, Quiet, Established, Writeable,
        Closed, SignalClosed, Destroy, Signal
  <2> QED BY <2>8, <2>9
<1> QED BY <1>1, InductiveInvariant, PTL DEF Spec, QuietAfterClose
=============================================================================

-------------------------- MODULE SocketConnection --------------------------
(***************************************************************************)
(* The way of the bytes from a data channel to a TCP stream, in one        *)
(* SocketConnection (socket.cc): Send, the queue of a stream that is not   *)
(* open yet, flush_data, and the kernel's send buffer behind the stream.   *)
(* Writing is a loop that sleeps while the stream blocks, so one Send or   *)
(* flush is several steps, during which the thread does nothing else.      *)
(* Reading from the stream is part of ConnectionLane.                      *)
(***************************************************************************)
EXTENDS Naturals, Sequences

CONSTANTS
    MaxByte,    \* bound: the bytes that arrive on the channel
    MaxPacket,  \* bound: the bytes of one message
    MaxQueue,   \* bound: the packets queued when an empty message arrives
    Limit,      \* kMaxQueuedSendDataBytes
    Room,       \* the size of the kernel's send buffer
    MayFail     \* "partial": the kernel takes a part of a write;
                \* "reset": the stream breaks

ASSUME SizeAssumption ==
    /\ MaxByte \in Nat /\ MaxPacket \in Nat /\ MaxQueue \in Nat
    /\ Limit \in Nat
    /\ Room \in Nat \ {0}
ASSUME MayFailAssumption == MayFail \subseteq {"partial", "reset"}

\* The bytes are numbered in the order in which Send takes charge of them, and
\* a packet is the len bytes that follow the first from.
Byte == 1..MaxByte
Packet == [from : 0..MaxByte, len : 0..MaxPacket]
Nothing == [from |-> 0, len |-> 0]

\* The k bytes that follow the first n.
Bytes(n, k) == [i \in 1..k |-> n + i]

VARIABLES
    stream,     \* stream_->GetState()
    room,       \* free bytes in the kernel's send buffer
    broken,     \* the stream's next write fails
    pc,         \* what the signal thread does in this connection
    buffer,     \* Send's argument while it is written
    queued,     \* packets_ of queued_send_data_
    byteCount,  \* byte_count_ of queued_send_data_
    arrived,    \* history: the number of bytes that arrived on the channel
    taken,      \* history: the number of bytes Send took charge of
    written,    \* history: the bytes the kernel took
    stop        \* Stop's MsgStopLane: "none", "posted", "handled"

vars == <<stream, room, broken, pc, buffer, queued, byteCount, arrived, taken,
          written, stop>>

TypeOK ==
    /\ stream \in {"opening", "open", "closed"}
    /\ room \in 0..Room
    /\ broken \in BOOLEAN
    /\ pc \in {"idle", "send", "flush"}
    /\ buffer \in Packet
    /\ queued \in Seq(Packet)
    /\ byteCount \in Nat
    /\ arrived \in 0..MaxByte
    /\ taken \in 0..MaxByte
    /\ written \in Seq(Byte)
    /\ stop \in {"none", "posted", "handled"}

Init ==
    /\ stream \in {"opening", "open"}   \* made by Connect, or accepted
    /\ room = Room
    /\ broken = FALSE
    /\ pc = "idle"
    /\ buffer = Nothing
    /\ queued = <<>>
    /\ byteCount = 0
    /\ arrived = 0
    /\ taken = 0
    /\ written = <<>>
    /\ stop = "none"
-----------------------------------------------------------------------------
(* PacketQueue.                                                            *)

\* Variant: the new packet goes to the front.
PushFront(packet) ==
    /\ queued' = <<packet>> \o queued
    /\ byteCount' = byteCount + packet.len

Push(packet) ==
    /\ queued' = Append(queued, packet)
    /\ byteCount' = byteCount + packet.len

\* Variant: byte_count_ is not reduced.
PopUncounted == queued' = Tail(queued) /\ UNCHANGED byteCount

\* Variant: byte_count_ is reduced both for the write and for the packet.
PopTwice ==
    /\ queued' = Tail(queued)
    /\ byteCount' = byteCount - 2 * Head(queued).len

Pop ==
    /\ queued' = Tail(queued)
    /\ byteCount' = byteCount - Head(queued).len
-----------------------------------------------------------------------------
(* The stream (rtc::SocketStream over a TCP socket).                       *)

\* Write took k bytes of the packet: all of them, or as many as there is room.
Wrote(packet, k) ==
    /\ ~broken
    /\ packet.len = 0 \/ room > 0
    /\ \/ k = packet.len
       \/ "partial" \in MayFail /\ k \in 1..packet.len /\ k <= room
    /\ room' = IF k < room THEN room - k ELSE 0
    /\ written' = written \o Bytes(packet.from, k)

\* The other end of the stream reads.
Drain ==
    /\ room < Room
    /\ room' = Room
    /\ UNCHANGED <<stream, broken, pc, buffer, queued, byteCount, arrived,
                   taken, written, stop>>

\* The stream breaks: the thread learns it from a write or from SE_CLOSE.
Reset ==
    /\ "reset" \in MayFail
    /\ ~broken
    /\ broken' = TRUE
    /\ UNCHANGED <<stream, room, pc, buffer, queued, byteCount, arrived, taken,
                   written, stop>>
-----------------------------------------------------------------------------
(* Send and the stream events.                                             *)

Idle == pc = "idle" /\ stop # "handled"

Stop == stop' = "posted"

\* Variant: the limit is not looked at.
QueueUnlimited(packet) ==
    /\ Push(packet)
    /\ taken' = taken + packet.len
    /\ UNCHANGED stop

\* QueueSendDataMessage, and what Send does with its result.
QueueSendDataMessage(packet) ==
    \/ /\ byteCount < Limit
       /\ Push(packet)
       /\ taken' = taken + packet.len
       /\ UNCHANGED stop
    \/ /\ byteCount >= Limit
       /\ Stop
       /\ UNCHANGED <<queued, byteCount, taken>>

\* The packet waits for a stream that opens or behind other packets.
MustQueue(packet) == stream # "open" \/ (packet.len > 0 /\ queued # <<>>)

\* A message of k bytes arrives: Send up to its loop.
Send(k) ==
    LET packet == [from |-> taken, len |-> k] IN
    /\ Idle
    /\ arrived + k <= MaxByte
    /\ k = 0 => Len(queued) < MaxQueue
    /\ arrived' = arrived + k
    /\ \/ /\ MustQueue(packet)
          /\ QueueSendDataMessage(packet)
          /\ UNCHANGED <<pc, buffer>>
       \/ /\ ~MustQueue(packet) /\ k = 0
          /\ UNCHANGED <<pc, buffer, queued, byteCount, taken, stop>>
       \/ /\ ~MustQueue(packet) /\ k > 0
          /\ pc' = "send"
          /\ buffer' = packet
          /\ taken' = taken + packet.len
          /\ UNCHANGED <<queued, byteCount, stop>>
    /\ UNCHANGED <<stream, room, broken, written>>

\* Variant: a write that fails is tried again like one that blocks.
SendLoopUntilWritten ==
    /\ pc = "send"
    /\ pc' = "idle"
    /\ buffer' = Nothing
    /\ \E k \in 0..buffer.len : Wrote(buffer, k)
    /\ UNCHANGED <<stream, broken, queued, byteCount, arrived, taken, stop>>

\* One pass of Send's loop that leaves it.  After SR_SUCCESS the test for a
\* rest, size() < pos + written, never holds, so a rest is not written.  While
\* the stream blocks (SR_BLOCK) the thread sleeps and tries again.
SendLoop ==
    /\ pc = "send"
    /\ pc' = "idle"
    /\ buffer' = Nothing
    /\ \/ /\ \E k \in 0..buffer.len : Wrote(buffer, k)
          /\ UNCHANGED stop
       \/ /\ broken
          /\ Stop
          /\ UNCHANGED <<room, written>>
    /\ UNCHANGED <<stream, broken, queued, byteCount, arrived, taken>>

\* One packet of SendQueuedDataMessages; the same test, so again no rest.
SendQueuedDataMessages ==
    /\ pc = "flush"
    /\ \/ /\ queued = <<>>
          /\ pc' = "idle"
          /\ UNCHANGED <<room, queued, byteCount, written, stop>>
       \/ /\ queued # <<>>
          /\ \E k \in 0..Head(queued).len : Wrote(Head(queued), k)
          /\ Pop
          /\ UNCHANGED <<pc, stop>>
       \/ /\ queued # <<>> /\ broken
          /\ Stop
          /\ pc' = "idle"
          /\ UNCHANGED <<room, queued, byteCount, written>>
    /\ UNCHANGED <<stream, broken, buffer, arrived, taken>>

\* Variant: the stream opens and nothing is flushed.
WriteEventIgnored ==
    /\ Idle
    /\ stream = "opening" /\ ~broken
    /\ stream' = "open"
    /\ UNCHANGED <<room, broken, pc, buffer, queued, byteCount, arrived, taken,
                   written, stop>>

\* OnStreamEvent, SE_OPEN | SE_WRITE of a stream that gets connected, or a
\* later SE_WRITE: flush_data.
WriteEvent ==
    /\ Idle
    /\ \/ stream = "opening" /\ ~broken
       \/ stream = "open" /\ queued # <<>>
    /\ stream' = "open"
    /\ pc' = "flush"
    /\ UNCHANGED <<room, broken, buffer, queued, byteCount, arrived, taken,
                   written, stop>>

\* OnStreamEvent, SE_CLOSE.
CloseEvent ==
    /\ Idle
    /\ broken /\ stream # "closed"
    /\ stream' = "closed"
    /\ Stop
    /\ UNCHANGED <<room, broken, pc, buffer, queued, byteCount, arrived, taken,
                   written>>

\* The posted MsgStopLane deletes the connection.
Close ==
    /\ Idle
    /\ stop = "posted"
    /\ stop' = "handled"
    /\ UNCHANGED <<stream, room, broken, pc, buffer, queued, byteCount,
                   arrived, taken, written>>

Next ==
    \/ \E k \in 0..MaxPacket : Send(k)
    \/ SendLoop
    \/ SendQueuedDataMessages
    \/ WriteEvent
    \/ CloseEvent
    \/ Close
    \/ Drain
    \/ Reset

Spec == Init /\ [][Next]_vars

\* The thread runs, the stream opens or breaks, and its other end reads; no
\* message need arrive and nothing need fail.  Posted messages go before
\* stream events, so the thread gets to a posted one between any two events.
Fairness ==
    /\ WF_vars(SendLoop)
    /\ WF_vars(SendQueuedDataMessages)
    /\ WF_vars(WriteEvent)
    /\ WF_vars(CloseEvent)
    /\ SF_vars(Close)
    /\ WF_vars(Drain)

FairSpec == Spec /\ Fairness
-----------------------------------------------------------------------------
(* Properties.                                                             *)

\* byte_count_, which bounds the queue, is the number of bytes queued after
\* every sequence of Push and Pop: those from the first packet's first to the
\* last one's last, the packets following each other.
ByteCountExact ==
    /\ \A i \in 1..(Len(queued) - 1) :
          queued[i + 1].from = queued[i].from + queued[i].len
    /\ byteCount = (IF queued = <<>> THEN 0
                    ELSE (queued[Len(queued)].from + queued[Len(queued)].len)
                            - queued[1].from)

\* The queue never outgrows kMaxQueuedSendDataBytes by more than the message
\* that passed the test.
QueueBounded == byteCount = 0 \/ byteCount < Limit + MaxPacket

\* The number of bytes taken before the first that is in the connection.
Before ==
    IF pc = "send" THEN buffer.from
    ELSE IF queued # <<>> THEN queued[1].from
    ELSE taken

\* Until a Stop is posted no message has been refused: the bytes taken are all
\* that arrived, and those that are not in the loop or queued are written.
NoneRefusedUnstopped ==
    stop = "none" => taken = arrived /\ written = Bytes(0, Before)

\* When the kernel takes writes whole, the connection is a pipe.
Pipe == INSTANCE BytePipe WITH in <- Bytes(0, taken), out <- written
ImplementsPipe == Pipe!Spec

\* The thread leaves every write loop, so the other handlers run again, and a
\* queue that waited for the stream is written or given up.
EveryLoopEnds == (pc # "idle") ~> (pc = "idle")
QueueIsFlushed == (queued # <<>>) ~> (queued = <<>> \/ stop = "handled")

\* What Send has returned TRUE for is written or still in the connection.
NoByteLost ==
    broken \/ written = Bytes(0, Before)
=============================================================================

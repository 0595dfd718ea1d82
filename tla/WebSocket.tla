----------------------------- MODULE WebSocket ------------------------------
(***************************************************************************)
(* The connection to the signal server (websocket.cc): the WebSocket       *)
(* object, its owner on the main thread (send, and close from the          *)
(* destructor) and its sub-thread, which runs libwebsockets.  The threads  *)
(* share _readyState, which nothing protects, so each access to it is a    *)
(* step, and the queue of messages, which a mutex protects.  What comes in *)
(* is seen by the sub-thread only, in pieces of the receive buffer's size. *)
(***************************************************************************)
EXTENDS Naturals, Sequences, FiniteSets

CONSTANTS
    MaxMessage,     \* bound: the messages sent
    MaxFragment,    \* bound: the fragments of WS_WRITE_BUFFER_SIZE in one
    MaxFrame,       \* bound: the frames with a payload that the server sends
    MaxPiece,       \* bound: the pieces libwebsockets hands one over in
    MayFail         \* "context", "connect", "write": the calls to
                    \* libwebsockets that may fail; "peer": the server may close

ASSUME BoundAssumption ==
    /\ MaxMessage \in Nat /\ MaxFragment \in Nat \ {0}
    /\ MaxFrame \in Nat /\ MaxPiece \in Nat
ASSUME MayFailAssumption == MayFail \subseteq {"context", "connect", "write", "peer"}

State == {"CONNECTING", "OPEN", "CLOSING", "CLOSED"}
Kind == {"TEXT", "BINARY"}
Message == [id : 1..MaxMessage, what : Kind, len : 1..MaxFragment, issued : 0..MaxFragment]
Frame == [id : 1..MaxMessage, part : 1..MaxFragment,
          op : Kind \cup {"CONTINUATION"}, fin : BOOLEAN]
Piece == [frame : 1..MaxFrame, part : 1..MaxPiece]
Event == {"connect", "error", "close"}

VARIABLES
    readyState,     \* _readyState
    needQuit,       \* _needQuit
    queue,          \* _subThreadWsMessageQueue
    context,        \* _wsContext: "none", "live", "destroyed"
    link,           \* libwebsockets' connection
    armed,          \* a WRITEABLE callback has been asked for
    sub,            \* where the sub-thread is
    owner,          \* where the owner is
    current,        \* _currentData
    pending,        \* _pendingFrameDataLen, in pieces
    pushed,         \* history: the number of messages pushed to the queue
    frames,         \* history: the frames written
    sizes,          \* history: the pieces of each frame received
    reads,          \* history: the data signalled
    events          \* history: the other events signalled

received == <<current, pending, sizes, reads>>

vars == <<readyState, needQuit, queue, context, link, armed, sub, owner,
          pushed, frames, events, received>>

TypeOK ==
    /\ readyState \in State
    /\ needQuit \in BOOLEAN
    /\ queue \in Seq(Message)
    /\ context \in {"none", "live", "destroyed"}
    /\ link \in {"none", "connecting", "established", "gone"}
    /\ armed \in BOOLEAN
    /\ sub \in {"start", "connect", "loop", "check", "service", "opened", "failed",
                "again", "writeable", "lost", "losing", "destroy", "ended"}
    /\ owner \in {"running", "sending", "closing", "joining", "deleting", "done"}
    /\ current \in Seq(Piece)
    /\ pending \in Nat
    /\ pushed \in 0..MaxMessage
    /\ frames \in Seq(Frame)
    /\ sizes \in Seq(1..MaxPiece)
    /\ reads \in Seq(Seq(Piece))
    /\ events \in Seq(Event)

\* init has started the sub-thread.
Init ==
    /\ readyState = "CLOSED"
    /\ needQuit = FALSE
    /\ queue = <<>>
    /\ context = "none"
    /\ link = "none"
    /\ armed = FALSE
    /\ sub = "start"
    /\ owner = "running"
    /\ current = <<>>
    /\ pending = 0
    /\ pushed = 0
    /\ frames = <<>>
    /\ sizes = <<>>
    /\ reads = <<>>
    /\ events = <<>>

Signal(event) == events' = Append(events, event)

\* Variant: CLOSING does not end the loop.
EndingWhenClosed == readyState = "CLOSED"

\* What makes close and the sub-thread's loop give up.
Ending == readyState \in {"CLOSED", "CLOSING"}

\* Variant: the message is put before those that wait.
PushFront(what, len) ==
    /\ pushed < MaxMessage
    /\ pushed' = pushed + 1
    /\ queue' = <<[id |-> pushed + 1, what |-> what, len |-> len, issued |-> 0]>> \o queue

\* sendMessageToSubThread, under the mutex the WRITEABLE callback holds.
Push(what, len) ==
    /\ pushed < MaxMessage
    /\ pushed' = pushed + 1
    /\ queue' = Append(queue, [id |-> pushed + 1, what |-> what, len |-> len, issued |-> 0])
-----------------------------------------------------------------------------
(* The owner, on the main thread.                                          *)

\* send, of a string or of bytes, tests _readyState before it pushes.
SendTest ==
    /\ owner = "running"
    /\ readyState = "OPEN" /\ pushed < MaxMessage
    /\ owner' = "sending"
    /\ UNCHANGED <<readyState, needQuit, queue, context, link, armed, sub,
                   pushed, frames, events, received>>

SendPush ==
    /\ owner = "sending" /\ sub # "writeable"
    /\ \/ \E what \in Kind, len \in 1..MaxFragment : Push(what, len)
       \/ pushed = MaxMessage /\ UNCHANGED <<pushed, queue>>
    /\ owner' = "running"
    /\ UNCHANGED <<readyState, needQuit, context, link, armed, sub, frames,
                   events, received>>

\* ~WebSocket to close: the program exits, which an event or a message made it
\* do.  A WebSocket that closes itself is only joined, by ~WsThreadHelper.
CloseTest ==
    /\ owner = "running"
    /\ events # <<>>
    /\ owner' = IF Ending THEN "deleting" ELSE "closing"
    /\ UNCHANGED <<readyState, needQuit, queue, context, link, armed, sub,
                   pushed, frames, events, received>>

\* Variant: the event is signalled before the sub-thread is joined.
CloseMarkSignals ==
    /\ owner = "closing"
    /\ readyState' = "CLOSED"
    /\ owner' = "deleting"
    /\ Signal("close")
    /\ UNCHANGED <<needQuit, queue, context, link, armed, sub, pushed, frames,
                   received>>

CloseMark ==
    /\ owner = "closing"
    /\ readyState' = "CLOSED"
    /\ owner' = "joining"
    /\ UNCHANGED <<needQuit, queue, context, link, armed, sub, pushed, frames,
                   events, received>>

\* joinSubThread returns; close signals, the destructor goes on.
Join ==
    /\ owner \in {"joining", "deleting"}
    /\ sub = "ended"
    /\ IF owner = "joining" THEN Signal("close") ELSE UNCHANGED events
    /\ owner' = "done"
    /\ UNCHANGED <<readyState, needQuit, queue, context, link, armed, sub,
                   pushed, frames, received>>
-----------------------------------------------------------------------------
(* The sub-thread.                                                         *)

\* onSubThreadStarted: without a context nothing more is done.
CreateContext ==
    /\ sub = "start"
    /\ \/ /\ context' = "live"
          /\ readyState' = "CONNECTING"
          /\ sub' = "connect"
       \/ /\ "context" \in MayFail
          /\ sub' = "loop"
          /\ UNCHANGED <<context, readyState>>
    /\ UNCHANGED <<needQuit, queue, link, armed, owner, pushed, frames, events,
                   received>>

\* libwebsocket_client_connect begins to connect or fails at once.
ClientConnect ==
    /\ sub = "connect"
    /\ \/ /\ link' = "connecting"
          /\ sub' = "loop"
          /\ UNCHANGED events
       \/ /\ "connect" \in MayFail
          /\ Signal("error")
          /\ sub' = "failed"
          /\ UNCHANGED link
    /\ UNCHANGED <<readyState, needQuit, queue, context, armed, owner, pushed,
                   frames, received>>

\* The error has been signalled before _readyState says so.  libwebsockets may
\* report one failure twice, as DEL_POLL_FD while CONNECTING and as
\* CLIENT_CONNECTION_ERROR, and when it fails within
\* libwebsocket_client_connect the NULL returned is one more.
Failed ==
    /\ sub = "failed"
    /\ readyState' = "CLOSING"
    /\ \/ sub' = "loop"
       \/ Len(events) < (IF link = "none" THEN 3 ELSE 2) /\ sub' = "again"
    /\ UNCHANGED <<needQuit, queue, context, link, armed, owner, pushed,
                   frames, events, received>>

\* The same failure is signalled again.
ErrorAgain ==
    /\ sub = "again"
    /\ Signal("error")
    /\ sub' = "failed"
    /\ UNCHANGED <<readyState, needQuit, queue, context, link, armed, owner,
                   pushed, frames, received>>

\* wsThreadEntryFunc and onSubThreadLoop, which reads _readyState twice.
Loop ==
    /\ sub = "loop"
    /\ sub' = (IF needQuit THEN "ended" ELSE IF Ending THEN "destroy" ELSE "check")
    /\ UNCHANGED <<readyState, needQuit, queue, context, link, armed, owner,
                   pushed, frames, events, received>>

Check ==
    /\ sub = "check"
    /\ sub' = (IF context = "live" /\ ~Ending THEN "service" ELSE "loop")
    /\ UNCHANGED <<readyState, needQuit, queue, context, link, armed, owner,
                   pushed, frames, events, received>>

\* libwebsocket_service returns with nothing to report.
Quiet ==
    /\ sub = "service"
    /\ sub' = "loop"
    /\ UNCHANGED <<readyState, needQuit, queue, context, link, armed, owner,
                   pushed, frames, events, received>>

\* Variant: the connection is up and nobody is told.
OpenedSilently ==
    /\ sub = "opened"
    /\ sub' = "loop"
    /\ UNCHANGED <<readyState, needQuit, queue, context, link, armed, owner,
                   pushed, frames, events, received>>

\* LWS_CALLBACK_CLIENT_ESTABLISHED: _readyState, then the event, in which
\* Conductors sends its first message.
Established ==
    /\ sub = "service" /\ link = "connecting"
    /\ link' = "established"
    /\ readyState' = "OPEN"
    /\ armed' = TRUE
    /\ sub' = "opened"
    /\ UNCHANGED <<needQuit, queue, context, owner, pushed, frames, events,
                   received>>

Opened ==
    /\ sub = "opened"
    /\ Signal("connect")
    /\ \/ readyState = "OPEN" /\ Push("TEXT", 1)
       \/ (readyState # "OPEN" \/ pushed = MaxMessage) /\ UNCHANGED <<pushed, queue>>
    /\ sub' = "loop"
    /\ UNCHANGED <<readyState, needQuit, context, link, armed, owner, frames,
                   received>>

\* LWS_CALLBACK_CLIENT_CONNECTION_ERROR, or DEL_POLL_FD of a connection that
\* is still CONNECTING, whichever comes first.
ConnectionError ==
    /\ sub = "service" /\ link = "connecting"
    /\ "connect" \in MayFail
    /\ link' = "gone"
    /\ Signal("error")
    /\ sub' = "failed"
    /\ UNCHANGED <<readyState, needQuit, queue, context, armed, owner, pushed,
                   frames, received>>

\* LWS_CALLBACK_CLIENT_WRITEABLE takes the mutex.
Writeable ==
    /\ sub = "service" /\ link = "established" /\ armed
    /\ armed' = FALSE
    /\ sub' = "writeable"
    /\ UNCHANGED <<readyState, needQuit, queue, context, link, owner, pushed,
                   frames, events, received>>

\* Variant: the last fragment of a message does not say so.
FragmentWithoutFin(m) ==
    [id |-> m.id, part |-> m.issued + 1,
     op |-> IF m.issued = 0 THEN m.what ELSE "CONTINUATION",
     fin |-> m.len = 1]

\* Variant: the fragment is numbered before it is issued.
FragmentFromZero(m) ==
    [id |-> m.id, part |-> m.issued,
     op |-> IF m.issued = 0 THEN m.what ELSE "CONTINUATION",
     fin |-> m.issued + 1 = m.len]

\* The next fragment of m and its write protocol.
Fragment(m) ==
    [id |-> m.id, part |-> m.issued + 1,
     op |-> IF m.issued = 0 THEN m.what ELSE "CONTINUATION",
     fin |-> m.issued + 1 = m.len]

\* Variant: the callback does not ask for the next one.
LeaveUnarmed == sub' = "loop" /\ UNCHANGED armed

\* The callback ends and asks for the next one.
Leave == sub' = "loop" /\ armed' = TRUE

\* One pass of the callback's loop: a fragment that is not the last ends the
\* callback, a message that is done makes way for the next.
WriteFragment ==
    /\ sub = "writeable"
    /\ \/ /\ queue = <<>>
          /\ Leave
          /\ UNCHANGED <<queue, frames>>
       \/ /\ queue # <<>> /\ "write" \in MayFail
          /\ Leave
          /\ UNCHANGED <<queue, frames>>
       \/ /\ queue # <<>>
          /\ frames' = Append(frames, Fragment(Head(queue)))
          /\ IF Head(queue).issued + 1 = Head(queue).len
             THEN queue' = Tail(queue) /\ UNCHANGED <<sub, armed>>
             ELSE queue' = [queue EXCEPT ![1].issued = @ + 1] /\ Leave
    /\ UNCHANGED <<readyState, needQuit, context, link, owner, pushed, events,
                   received>>

\* Variant: _currentDataLen is not reset, so the next frame is appended.
SignalReadUncleared(data) ==
    /\ reads' = Append(reads, data)
    /\ current' = data

\* SignalReadEvent, and _currentData empty again.
SignalRead(data) ==
    /\ reads' = Append(reads, data)
    /\ current' = <<>>

\* LWS_CALLBACK_CLIENT_RECEIVE: the next piece of the frame under way or of a
\* new one of k pieces is put behind the data there is; the frame's last piece
\* makes it a read.  That more frames may belong to one message is not looked
\* at, and an empty frame passes unnoticed.
Receive ==
    /\ sub = "service" /\ link = "established"
    /\ \/ /\ pending = 0 /\ Len(sizes) < MaxFrame
          /\ \E k \in 1..MaxPiece : sizes' = Append(sizes, k) /\ pending' = k - 1
       \/ /\ pending > 0
          /\ pending' = pending - 1
          /\ UNCHANGED sizes
    /\ LET frame == Len(sizes')
           data == Append(current, [frame |-> frame, part |-> sizes'[frame] - pending'])
       IN  IF pending' = 0 THEN SignalRead(data)
           ELSE current' = data /\ UNCHANGED reads
    /\ sub' = "loop"
    /\ UNCHANGED <<readyState, needQuit, queue, context, link, armed, owner,
                   pushed, frames, events>>

\* Variant: the event is taken to be the owner's business.
ClosedUntold ==
    /\ \/ sub = "service" /\ "peer" \in MayFail
       \/ sub = "destroy"
    /\ link = "established"
    /\ link' = "gone"
    /\ needQuit' = TRUE
    /\ sub' = (IF sub = "service" THEN "loop" ELSE "destroy")
    /\ UNCHANGED <<readyState, queue, context, armed, owner, pushed, frames, events,
                   received>>

\* LWS_CALLBACK_CLOSED: quitSubThread and the test, then _readyState and the
\* event.  It comes from the service or from destroying the context.
Closed ==
    /\ \/ sub = "service" /\ "peer" \in MayFail
       \/ sub = "destroy"
    /\ link = "established"
    /\ link' = "gone"
    /\ needQuit' = TRUE
    /\ sub' = (IF readyState = "CLOSED"
               THEN IF sub = "service" THEN "loop" ELSE "destroy"
               ELSE IF sub = "service" THEN "lost" ELSE "losing")
    /\ UNCHANGED <<readyState, queue, context, armed, owner, pushed, frames,
                   events, received>>

SignalClosed ==
    /\ sub \in {"lost", "losing"}
    /\ readyState' = "CLOSED"
    /\ Signal("close")
    /\ sub' = IF sub = "lost" THEN "loop" ELSE "destroy"
    /\ UNCHANGED <<needQuit, queue, context, link, armed, owner, pushed,
                   frames, received>>

\* libwebsocket_context_destroy: its last callback is PROTOCOL_DESTROY.
Destroy ==
    /\ sub = "destroy" /\ link # "established"
    /\ \/ context = "live" /\ readyState = "CLOSING" /\ Signal("close")
       \/ ~(context = "live" /\ readyState = "CLOSING") /\ UNCHANGED events
    /\ context' = (IF context = "live" THEN "destroyed" ELSE context)
    /\ link' = "gone"
    /\ sub' = "ended"
    /\ UNCHANGED <<readyState, needQuit, queue, armed, owner, pushed, frames,
                   received>>

Next ==
    \/ SendTest \/ SendPush \/ CloseTest \/ CloseMark \/ Join
    \/ CreateContext \/ ClientConnect \/ Failed \/ ErrorAgain \/ Loop \/ Check \/ Quiet
    \/ Established \/ Opened \/ ConnectionError
    \/ Writeable \/ WriteFragment \/ Receive \/ Closed \/ SignalClosed \/ Destroy

Spec == Init /\ [][Next]_vars

\* The sub-thread and libwebsockets make progress: an attempt to connect is
\* answered, the service returns to a callback that was asked for while the
\* socket is writeable, not every write is refused, and a destructor that has
\* begun goes on.
Fairness ==
    /\ WF_vars(SendPush) /\ WF_vars(CloseMark) /\ WF_vars(Join)
    /\ WF_vars(CreateContext) /\ WF_vars(ClientConnect) /\ WF_vars(Failed)
    /\ WF_vars(ErrorAgain)
    /\ WF_vars(Loop) /\ WF_vars(Check) /\ WF_vars(Quiet)
    /\ SF_vars(Established \/ ConnectionError) /\ WF_vars(Opened)
    /\ SF_vars(Writeable) /\ WF_vars(WriteFragment)
    /\ SF_vars(WriteFragment /\ frames' # frames)
    /\ WF_vars(sub = "destroy" /\ Closed) /\ WF_vars(SignalClosed)
    /\ WF_vars(Destroy)

FairSpec == Spec /\ Fairness
-----------------------------------------------------------------------------
(* Properties.                                                             *)

\* The frames the server receives are whole messages in the order of the
\* sends: TEXT starts a message exactly where the one before had its final
\* fragment, and no fragment is repeated or left out, though the callback may
\* stop after any fragment and both threads push in between.
FramesFormMessages ==
    \A i \in 1..Len(frames) :
        LET f == frames[i]
            starts == i = 1 \/ frames[i - 1].fin
        IN  /\ (f.op = "CONTINUATION") = ~starts
            /\ f.part = (IF starts THEN 1 ELSE frames[i - 1].part + 1)
            /\ f.id = (IF i = 1 THEN 1
                       ELSE IF starts THEN frames[i - 1].id + 1
                       ELSE frames[i - 1].id)

\* Every message pushed is in the queue or was written to its final fragment,
\* and only the first in the queue is in the middle of its fragments.
NoMessageLost ==
    /\ Cardinality({i \in 1..Len(frames) : frames[i].fin}) + Len(queue) = pushed
    /\ \A i \in 2..Len(queue) : queue[i].issued = 0

\* The pieces of the n-th frame up to the k-th.
Pieces(n, k) == [i \in 1..k |-> [frame |-> n, part |-> i]]

\* Each SignalReadEvent hands over one whole frame, once and in order, however
\* the receive buffer cut it, and what _currentData holds in between is the
\* beginning of the frame that _pendingFrameDataLen says is under way.
ReadsAreFrames ==
    LET complete == IF pending = 0 THEN Len(sizes) ELSE Len(sizes) - 1
    IN  /\ Len(reads) = complete
        /\ \A n \in 1..complete : reads[n] = Pieces(n, sizes[n])
        /\ current = (IF pending = 0 THEN <<>>
                      ELSE Pieces(Len(sizes), sizes[Len(sizes)] - pending))

\* A sub-thread that ended of itself has told the owner so, as an error or a
\* close, unless libwebsockets could not even create a context: only then is
\* nobody told and does the program wait for ever.
SilentOnlyWithoutContext ==
    (sub = "ended" /\ owner = "running") =>
        \/ context = "none"
        \/ \E i \in 1..Len(events) : events[i] \in {"error", "close"}

\* Once either thread has signalled the close event, no frame is written, no
\* data is signalled, and no event follows except that the other thread may
\* signal the close as well.
QuietAfterClose ==
    [][(\E i \in 1..Len(events) : events[i] = "close")
          => /\ UNCHANGED <<frames, reads>>
             /\ events' = events \/ events' = Append(events, "close")]_vars

\* Destroying the WebSocket never hangs: whatever the sub-thread was doing to
\* _readyState, it sees that it must end.
JoinReturns == (owner \in {"joining", "deleting"}) ~> (owner = "done")

\* What is sent on an open connection is written or the connection ends.
MessagesAreSent == (queue # <<>>) ~> (queue = <<>> \/ Ending)

\* An attempt to connect is followed by an event that says how it went, so
\* that Conductors goes on or exits.
ConnectIsAnswered == (sub = "connect") ~> (events # <<>>)

\* close's comment has the onClose callback at the end, since the handler may
\* delete the instance: the close event comes once, after every other event.
CloseIsLast == \A i \in 1..Len(events) : events[i] = "close" => i = Len(events)
=============================================================================

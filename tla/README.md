# hotline-tunnel: a TLA+ model of its lanes, sockets and signalling connection

hotline-tunnel carries TCP (or UDP) connections over a WebRTC peer connection.
A *client* process listens on a local port; for every application that
connects there it opens a data channel to the *server* process, which connects
to the target; from then on bytes go both ways.  A signal server on a WebSocket
brings the two together.  This directory holds the model of the code under
`src/src`, the configurations that check it with TLC and the proofs checked by
TLAPS.

    tlc -workers 2 -config Lane_one.cfg MCConnectionLane.tla
    tlapm LaneStepProofs.tla

## Inventory

One *signalling thread* per process runs every handler of Conductors,
Conductor, the data channels and the sockets; one more thread belongs to the
WebSocket.  (Line numbers are of `src/src`.)

| Component | State | Operations | Talks to | What makes it correct |
|---|---|---|---|---|
| **Conductor** (`conductor.cc`) | `datachannels_`, the two control channels, `listener_` (`socket_server_`), `channel_` (the target), posted `MsgStopLane`s | `OnControlDataChannelOpen/Closed`, `OnCreateChannel`, `OnChannelCreated`, `OnServerSideReady`, `OnStopChannel`, `OnSocketOpen/Closed/Stop`, `CreateConnectionLane` (two), `DeleteConnectionLane`, `OnDataChannel`, `OnMessage`, offer/answer | calls sockets and channels, posts to its own thread | the handshake's order; a lane's two ends close together; no closing is echoed; no pointer outlives what it points to |
| **Data channels** (`data_channel.cc`) | WebRTC state, `socket_`, `closed_by_remote_` | `OnStateChange`, `OnMessage`, `AttachSocket`, `SetSocketReady`, `SocketReadEvent`, `Stop`; the control messages `MsgCreateChannel`, `MsgChannelCreated`, `MsgServerSideReady`, `MsgDeleteChannel` | signals Conductor; calls `socket_->Send` | nothing is dropped between channel and socket; a read event is not lost |
| **SocketConnection, SocketBase** (`socket.cc`) | `is_ready_`, `channel_`, `closing_`, `queued_send_data_`, the stream | `Send`, `Stop`, `Close`, `DoReceiveLoop`, `SendQueuedDataMessages`, stream events | calls `channel_->Send`, signals `OnSocketStop` | bytes keep their order and number; the queue is bounded; loops end |
| **SocketListenServer** (`socket_server.cc`) | the listening socket, its connections | `Listen`, `StopListening`, accept | signals `OnSocketOpen` | it stops when the peer is gone |
| **SocketClient** (`socket_client.cc`) | its connections | `Connect` | Conductor | a refused connection reaches the client |
| **WebSocket** (`websocket.cc`) | `_readyState`, `_needQuit`, the message queue, libwebsockets' context | `init`, `send`, `close`, the sub-thread's loop, the callback | signals open, error, message, close on its sub-thread | frames form whole messages in order; joining the thread returns; every attempt is answered |
| **SignalServerConnection** (`signalserver_connection.cc`) | `callback_`, messages posted to the signal thread | `Connect`, `CreateRoom`, `SignIn`, `Send`, `onOpen/onMessage/onClose/onError`, `OnMessage` | WebSocket below, Conductors above | calls of the two threads do not meet a reset `callback_`; exits are posted once |
| **Conductors** (`conductors.cc`) | `id_`, `room_id_`, `peers_offer_`, `peers_answer_` | `OnConnected`, `OnCreatedRoom`, `OnSignedIn`, `OnPeerConnected`, `OnReceivedOffer`, `OnPeerDisconnected`, `OnServerConnectionFailure`, `MsgExit` | creates and destroys Conductor | one Conductor per peer, as long as the peer is there; joining ends in a tunnel or an exit; one exit |
| **main, defaults, flags** | none of their own | start-up | all | argument checks |

What is hard here: handlers of two processes interleave through three kinds of
channel (control channels, one data channel per lane, posted messages) with no
order between them; objects are deleted by posted messages while others keep
raw pointers to them; calls fail half-way; two threads share `_readyState`
without a lock; a message is written by several callbacks.  The list
`hazards` of `PROJECT.json` names each at its line.

## Modules

| Module | Models |
|---|---|
| `ConnectionLane` | both Conductors of a peer pair with their control channels, data channels, socket connections and listener, TCP mode |
| `MCConnectionLane` | symmetry and the bound of the two-lane run |
| `AbstractLane` | what `ConnectionLane` promises: lanes that are accepted, connected, ready and deleted, and chunks that are not made up |
| `ConnectionLaneProofs` | the invariants of `ConnectionLane` |
| `LaneStepProofs` | what its steps do: the refinement of `AbstractLane`, and `NoEcho` |
| `SocketConnection` | `Send`, the send queue and the flush of one connection, byte by byte |
| `BytePipe` | what `SocketConnection` promises: a pipe |
| `SocketConnectionProofs` | the theorems about `SocketConnection`, and that it implements `BytePipe` |
| `WebSocket` | the WebSocket, its owner's thread and its sub-thread, sending and receiving |
| `WebSocketProofs` | the theorems about `WebSocket` |
| `Signaling` | SignalServerConnection, Conductors and the offer and answer of Conductor, in a server and its clients, with the signal server |
| `Rendezvous` | what `Signaling` promises: clients that call the server, are heard, answered and connected |
| `SignalingProofs` | the theorems about `Signaling`, but for the next three modules |
| `NegotiationSteps` | what each of its steps is to a pair of processes |
| `NegotiationProofs` | that descriptions and candidates fit |
| `RendezvousProofs` | that `Signaling` implements `Rendezvous` |

### ConnectionLane

A lane is named by the serial its data channel is named after; the client
counts serials up, so a lane is used once.  Per peer and lane the state is the
`datachannels_` entry `chan` (its WebRTC state, whether `socket_` is set,
`closed_by_remote_`), the connection `conn` (not made, live or deleted;
`channel_`, `is_ready_`, and the heap block it lives in), the stream and
application behind it `app`, the chunks in flight on the channel `data`; per
peer the control messages in flight `wire`, the posted `MsgStopLane`s `queue`
and the local control channel `ctl`; and `sent` and `got`, which only count.
A chunk is one read of `DoReceiveLoop`: the contents of chunks are left to
`SocketConnection`.

Every handler is one action, because it runs to its end on the signalling
thread; it includes everything the handler calls (`OnServerSideReady` sets
ready *and* reads; `OnCreateChannel` sets the target *and* answers;
`OnSocketDataChannelOpen` connects, attaches, sets ready and announces it, or
stops the channel).  Posted messages are handled by actions of their own, in
queue order.  The operators the handlers share are the functions they call:
`Listen`, `StopListening` and `Accepts` of the listener, `Connect` of the
client socket, `HandleConnection` of both, `SendChunks` and `StopChannel` of the
data channel, and one operator for each control message.

`AbstractLane` forgets everything but the life of the two ends of each lane, the
client's readiness and the two counters per direction.  Its steps are the
promise: a server's end is only made for a client's end, an end is made once and
deleted once, only live (and, at the client, ready) ends send, and what is
handed out was sent.  `ImplementsLanes` says that until the first fault each
step of the two Conductors is one such step or changes none of it.

Undefined behaviour is explicit.  A deleted connection whose block is free is a
crash or, where the old memory still decides harmlessly, a survived use; if its
block has been taken by a new connection of the same process, the dangling
pointer reaches that one (`Heirs`).  A read event of a connection without
channel crashes.  `fault` keeps the first such event, a crash takes the
Conductor with it (`Gone`), and most properties are stated for `Sane` states,
those before any fault: that a fault *can* occur is what the runs
`Lane_useafterfree` and `Lane_nochannel` show.

Assumptions about what is outside: data channels deliver reliably and in order
(their defaults in WebRTC); the remote side hears of a channel after its maker
opened it; messages stop when either end is gone.  `ASSERT` does nothing in the
release build, so a handler goes on after one that fails.

### SocketConnection and BytePipe

Bytes are numbered in the order in which `Send` takes charge of them, so order,
loss and duplication are visible; since a packet's bytes are consecutive, a
packet is its position and its length, and only what the kernel took, `written`,
is kept byte by byte.  Under the mapping `in <- Bytes(0, taken)` and `out <-
written` a connection implements `BytePipe`.  `Send` up to its loop is one action; each pass of the
loop that leaves it is one (while the stream blocks, the thread sleeps in the
loop and does nothing else, so blocking passes are stutters); so is each packet
of `SendQueuedDataMessages`.  `Drain` and `Reset` are the world beyond the
kernel's buffer.  `Wrote` takes the whole packet or, if `"partial"` may occur,
a part of it: then the code's test `buffer.size() < pos + written` never holds
and the rest is dropped.

### WebSocket

`_readyState` is shared by two threads without a lock.  Each access is a step
of its own, and every order of the steps is explored; that the accesses are
plain reads and writes of an `enum` is taken to make each of them indivisible.
The mutex-protected queue is held while the sub-thread is in the WRITEABLE
callback (`sub = "writeable"`).  Messages are numbered, are text or binary, and
have a length in fragments of `WS_WRITE_BUFFER_SIZE`.  A frame from the signal
server arrives in up to `MaxPiece` pieces of the receive buffer, each a callback
of its own; `current` is `_currentData`, `pending` what
`libwebsockets_remaining_packet_payload` says is left, `sizes` and `reads` the
frames begun and those handed to `SignalReadEvent`.

### Signaling

Where `ConnectionLane` begins with two connected peers, `Signaling` is how they
get there.  Per process: the state of the WebSocket (`readyState`, and `sub`,
the sub-thread's place in the closing), `callback` (`callback_` is set), the
messages posted to the signal thread (`queue`, with `MsgExit` among them),
`signedIn`, and the `Conductor` of each peer in `peers_offer_`.  The twin in
`peers_answer_` has the same key and does nothing, so it is not a variable.
`up` and `down` are the link to the signal server, which the repository does not
hold: `CreateRoom`, `SignIn`, `Relay` and `Leave` are what Conductors relies on.
It tells a server of its clients and a client of the server, and no one twice.

The sub-thread's actions and the signal thread's interleave freely.  `onClose`
is two steps, the test of `callback_` and its use, since nothing orders them
with `Conductors::OnClose`; if the pointer is NULL by then, the process may
crash or get away with the value it had read.  After MsgExit rtc::Thread takes
no new message but handles those it has.  A Conductor erased while `CreateOffer`
or `CreateAnswer` is under way lives on until `OnSuccess` (`kept` is FALSE).
A failed factory leaves a Conductor whose `remote_peer_id_` is 0; a failed
`CreatePeerConnection` crashes the process in `AddControlDataChannel`.
`CreateOffer` and `CreateAnswer` end in `OnSuccess` or in `OnFailure`, which only
logs (`failed` remembers that it was called).  One failed connect may be up to
three error events: libwebsockets reports DEL_POLL_FD while CONNECTING and
CLIENT_CONNECTION_ERROR, and a failure inside `libwebsocket_client_connect`
returns NULL as well.  `OnError` is the first, `OnErrorAgain` and
`OnServerConnectionFailure` (the test of `callback_` and its use) each further
one; in `WebSocket` they are `Failed` and `ErrorAgain`.
`Fits` is what WebRTC accepts in which state.

`Rendezvous` forgets the signal server, the rooms, the queues and the candidates.
Of each client it keeps how far it is with the server (`caller`) and the server
with it (`callee`): apart, begun, connected, each step being the setting of one of
the two descriptions; and which of offer and answer is still to be heard (`wire`).
Its steps are the promise: a client calls when both are apart and nothing of an
earlier attempt is on the wire, the server hears a call that is on the wire and
answers only then, an answer connects a client that called; what is heard leaves
the wire, and what is on it is never sent again.
Either side may fail at any time and loses what it had.  `ImplementsRendezvous`
says that each step of the processes and the signal server is one of these for
each client, or changes none of it; an offer is on the wire from `OnSuccess` to
`OnReceivedOffer`, in whichever of the three queues.

## Runs

| Run | Shows | Bounds |
|---|---|---|
| `Lane_one` | `TypeOK`, `Inductive`, `NothingDropped`, `HandshakeOrder`, `NoLostWakeup`, `NoEcho`, and that the handlers implement `AbstractLane` (`ImplementsLanes`) | one lane, one block, two chunks each way, every failure, both peers may leave at any moment; 929,126 states |
| `Lane_two` | `Inductive`, `HandshakeOrder`, `NoEcho` with two lanes that share control channel and queue and take over each other's blocks | `TwoLaneBound`: one chunk in all, connecting may fail; 358,237 states |
| `Lane_live` | `ClosePropagates`, `HangupFreesConnection`, `AcceptedIsServed`, `PeerLossEndsLanes` | one lane, one chunk each way; listening, channel sends and stream writes may fail; 67,324 states |
| `Lane_useafterfree`, `Lane_nochannel`, `Lane_remoteclose`, `Lane_refused` | findings 1 to 4 | one lane; one chunk in `Lane_useafterfree`, so that every later use is there |
| `Socket_pipe` | the connection implements `BytePipe`; `TypeOK`, `ByteCountExact`, `QueueBounded`, `NoneRefusedUnstopped`, `EveryLoopEnds`, `QueueIsFlushed` | six bytes, packets of up to three, a limit of three; 5,903 states |
| `Socket_lostbytes` | finding 5 | three bytes, a kernel buffer of two |
| `WebSocket_all` | `TypeOK`, `FramesFormMessages`, `NoMessageLost`, `ReadsAreFrames`, `SilentOnlyWithoutContext`, `QuietAfterClose`, `JoinReturns`, `MessagesAreSent`, `ConnectIsAnswered` | three messages of up to two fragments out, two frames of up to two pieces in, everything may fail; 125,210 states |
| `WebSocket_closetwice` | finding 6 | one message |
| `Signaling` | `TypeOK`, `NegotiationFits`, `ExitOnce`, `NoOrphanConductor`, `TunnelForms`, `SignedInOrEnded`, `ClientExits`, and that it implements `Rendezvous` (`ImplementsRendezvous`) | a server and a client, one candidate each, everything may fail at any time; 22,707 states |

A definition whose comment begins with "Variant" is a plausible mistake in the
definition after it; `mutants` in `PROJECT.json` says which property each must
break.

Deadlock is not checked: a tunnel that has been closed, a program that has
exited, and a model whose applications have nothing left to say, may stop.

Why the bounds are enough.  A lane's handlers touch their own lane, the control
channel, the message queue and the heap; two lanes make all three shared, and a
third adds no new kind of sharing.  Two chunks make "the first was read, the
second refused", "one in flight, one handed over" and a read event behind
another possible.  A `Limit` of three bytes with packets of up to three lets a
packet pass the test and overshoot the limit, be refused, and be queued behind
one another; a kernel buffer of three blocks while the queue is flushed.  Two
fragments make a first and a last fragment that differ, and three messages put
one behind another from both threads; two pieces make a frame that is cut, and two
frames one that follows it.  In `Signaling` a server's
Conductors of different clients share only the queues and the maps, and clients
do not hear of each other, so one client meets every order there is but that of
two joining at once; one candidate can be early, late or lost.

## Properties worth a word

* `NothingDropped`: `HotlineDataChannel::OnMessage` silently drops a chunk if
  `socket_` is NULL.  That it never does in a sane lane depends on the whole
  handshake: the client may only read after `MsgServerSideReady`, which the
  server sends after it attached its socket.
* `NoLostWakeup`: `DoReceiveLoop` swallows a read event when the connection is
  not ready.  Only `SocketReadEvent` in `OnServerSideReady` makes up for it.
* `NoEcho`: both ends may close at once, and `closed_by_remote_` is per
  channel, set by a message that may be handled before or after the local stop.
* `ClosePropagates`: the end that closes must tell the other through the posted
  message, the control channel and the peer's handler.  Nothing is promised once
  the closing peer itself is gone.
* `HangupFreesConnection`: a hang-up is only noticed where the stream's end is
  read.  If bytes written before it are unread when the channel closes,
  `DoReceiveLoop` no longer reads up to the end, and the connection stays; the
  property makes that exception explicit.
* `PeerLossEndsLanes`: what the code does about a lost peer is little:
  `OnControlDataChannelClosed` stops listening and `OnSocketDataChannelClosed`
  detaches a channel.  The property says that this is final, whatever
  `MsgChannelCreated` or half-made lane was on its way.  The sockets of the lanes
  are *not* released: that takes a hang-up of their application, or `~Conductor`,
  which only the signal server's PeerDisconnected brings about.
* `JoinReturns`: `close` writes CLOSED while the sub-thread may be anywhere in
  its loop or a callback, and may write CLOSING over it; the destructor still
  returns.  The program only destroys its WebSocket once an event or a message
  has made it exit, so a `close` racing with the first write of OPEN is no
  behaviour of it and not in the model.
* `ImplementsLanes`: nothing but the order of the handshake keeps a server from
  connecting a lane nobody asked for, or a late message from handing out chunks
  of an earlier lane; that serials are not reused is a part of it.
* `ReadsAreFrames`: the beginning of a frame waits in `_currentData` between two
  callbacks, while writes, other threads and errors go on.
* `SilentOnlyWithoutContext`: the sub-thread has five ways to end.  All but one
  come with an event; without a context the owner never hears anything.
* `QuietAfterClose`: the close event may be signalled while the sub-thread still
  runs, by either thread.  No frame, read, late connect or second error comes
  after it; a second close may (finding 6).  It does not follow that the handler
  could delete the WebSocket: on the sub-thread the callback goes on in the
  object's loop, and deleting it there would join the thread with itself.
* `NegotiationFits`: nothing in the code tests the order of descriptions and
  candidates; it follows from first-in first-out queues and from only clients
  making offers.
* `ImplementsRendezvous`: no message has a number and no handler asks whether it
  has had one before; that a description is not heard twice, nor one of an earlier
  attempt taken for an answer, rests on there being one attempt per pair and one
  sender per kind.
* `ExitOnce`: four handlers post MsgExit and `UnregisterObserver` asserts that
  only one ever does.  It holds for all but one of them: a failed connect, which
  leaves the WebSocket CLOSING, is excepted.  One that fails inside
  `libwebsocket_client_connect` is signalled by the callback
  (`websocket.cc:397`) and for the NULL returned (`websocket.cc:366`), MsgExit is
  posted twice, and the second `UnregisterObserver` finds no observer although
  it asserts one (`signalserver_connection.cc:75`); the release build goes on
  to end all the same.  The model contains this (`OnErrorAgain`); without the
  exception TLC finds it within five states.
* `TunnelForms`: a client and the server of one room get each other's
  descriptions and candidates, or one of them leaves, or has a Conductor without
  factory or one whose description could not be created (`Spoilt`).  In the last
  two cases nobody is told, and both wait.
* `NoOrphanConductor` and `ClientExits` say together that nobody waits for a
  peer that has gone, except a process that lost the signal server: it prints so
  and stays, since nothing else tells Conductors that the peer has left.

## Fairness

`ConnectionLane`: weak fairness of every handler whose event, message or
callback is there: the thread's message loop and select loop drop none.  WebRTC
reports the channels of a peer that is gone as closed.  Nothing makes a Conductor
go: `~Conductor` runs when the signal server says that the peer has disconnected,
which it need not do, so `Close` has no fairness.  An `SE_CLOSE` is only sure
after the bytes before it have been read.  Nothing is assumed of applications,
and no failure is assumed to happen or not to happen.

`SocketConnection`: the thread runs, the stream opens or breaks, the reader
behind the kernel's buffer reads.  A posted stop gets strong fairness, since
rtc::Thread handles posted messages before it waits for stream events.

`WebSocket`: both threads run; an attempt to connect is answered in the end
(strong, as `libwebsocket_service` returns in between with nothing to report);
a writeable callback that was asked for comes; not every write fails.

`Signaling`: both threads run, WebRTC calls `OnSuccess` or `OnFailure` and gathers candidates,
an attempt to connect succeeds or fails, and the signal server handles what it
is sent and notices who has gone.  Nothing has to fail.

## Proofs

The theorems hold for every value of the constants that satisfies the named
assumptions; the last column says what a theorem assumes beyond them.

| Module | Theorem | Statement | Needs |
|---|---|---|---|
| `ConnectionLaneProofs` | `TypeCorrect` | `Spec => []TypeOK` | |
| | `InductiveInvariant` | `Spec => []Inductive` | |
| | `NothingIsDropped` | `Spec => []NothingDropped` | |
| | `HandshakeInOrder` | `Spec => []HandshakeOrder` | |
| | `NoWakeupIsLost` | `Spec => []NoLostWakeup` | |
| `LaneStepProofs` | `HandlersImplementLanes` | `Spec => ImplementsLanes` | |
| | `DeletionIsNotEchoed` | `Spec => NoEcho` | |
| `SocketConnectionProofs` | `InductiveInvariant` | `Spec => []Inductive` | |
| | `TypeCorrect` | `Spec => []TypeOK` | |
| | `CountIsExact` | `Spec => []ByteCountExact` | |
| | `QueueIsBounded` | `Spec => []QueueBounded` | |
| | `NothingRefused` | `Spec => []NoneRefusedUnstopped` | whole writes |
| | `ConnectionIsPipe` | `Spec => ImplementsPipe` | whole writes |
| `WebSocketProofs` | `InductiveInvariant` | `Spec => []Inductive` | |
| | `TypeCorrect` | `Spec => []TypeOK` | |
| | `FramesInOrder` | `Spec => []FramesFormMessages` | |
| | `MessagesKept` | `Spec => []NoMessageLost` | |
| | `ReadsInOrder` | `Spec => []ReadsAreFrames` | |
| | `EndsAreTold` | `Spec => []SilentOnlyWithoutContext` | |
| | `ClosedStaysQuiet` | `Spec => QuietAfterClose` | |
| `SignalingProofs` | `TypeCorrect` | `Spec => []TypeOK` | |
| | `ExitIsPostedOnce` | `Spec => []ExitOnce` | |
| | `NoConductorIsOrphaned` | `Spec => []NoOrphanConductor` | |
| `NegotiationProofs` | `DescriptionsFit` | `Spec => []NegotiationFits` | |
| `RendezvousProofs` | `SignalingImplementsRendezvous` | `Spec => ImplementsRendezvous` | |

"Whole writes" is `"partial" \notin MayFail`: finding 5 shows that the code
keeps neither promise without it.

**Lanes.**  `NothingDropped` is not inductive.  That a chunk finds its `socket_`
needs that data in flight implies the server's connection exists
(`ServerFirst`); that needs the same of every ready client connection and every
`MsgServerSideReady` on the wire; that a connection exists only behind an
attached, open channel is `Attached`; that no lane is connected before its
channel opened is `ChannelFirst`; and that the target was set first is
`TargetFirst`.  `NoLostWakeup` needs `ChannelFirst` too: when the client's
channel opens, its connection cannot be ready, so no event has been swallowed
for good.  `Inductive` is their conjunction with the types; TLC checks it in
`Lane_one` and `Lane_two`.  The proof goes action by action; most actions leave
most of the state alone, which the lemmas `TargetSame` to `WakeupSame` exploit.
After a fault only the structural half of the invariant is claimed
(`FaultStep`), because a dangling pointer may make the wrong connection ready.

**Steps of lanes.**  The refinement of `AbstractLane` needs one more fact than
`Inductive` has: that chunks in flight and chunks handed over never exceed those
sent, also when an end has gone (`Flow`); without it `Deliver`'s guard cannot be
shown.  `NoEcho` needs `Echo`: an end is only announced once it is deleted
(`Announced`), so a handler that announces it adds a message that was not there;
a channel is marked `closed_by_remote_` only if the other end is deleted or the
server never connected (`Marked`); and between two living peers an end whose
other end is deleted has been told, by a message under way or a mark (`Owed`),
for which no message may get lost on a control channel that is not open
(`OpenControl`).

**Sockets.**  The byte count and the pipe both follow from `InOrder`: the packets
queued are consecutive, and the last ends at the last byte taken.  `byteCount`
is then a difference of two positions, so no sum over a queue is needed.
`WrittenInOrder` adds that what was written is a beginning of what was taken,
and that it misses nothing but what the connection holds (`Before`) until a
write failed.

**WebSocket.**  `Inductive` has three independent parts.  `Sending`: ids in the
queue are consecutive, only its head is half written, and the last frame ends
where the head begins.  `Receiving`: `pending` is smaller than the frame under
way.  `Threads`: after the close event the sub-thread has ended or the link has
gone, and whatever makes the loop end has been signalled, or is about to be,
unless the owner began to destroy the WebSocket.

**Signaling.**  `ExitOnce` says nothing of where a `MsgExit` comes from: a failed
connection, a refused `CreateRoom` or `SignIn`, or the server's leaving.  The
invariant `OneFate` treats all of them as one token per process: while the
WebSocket connects there is none; then at most one request to join is under way;
its answer takes its place, at most once in the two queues together; a member has
none, until the news that the server has left for good (`Away`, which is stable)
brings the last.  Each handler takes the token before it posts the next.  The
observer is there as long as the thread runs, so the last one is handled by a
process that still has it.  A failed connect is the exception: its events may
queue several `MsgExit` (`ReportedFates`), so of a process whose WebSocket is
CLOSING the invariant only says that it is no member, asks for nothing and has
no other token coming.

`NoOrphanConductor` needs `Knows`: for two processes, a `PeerConnected` still in
a queue comes from the room, and once the peer is no member any more a
`PeerDisconnected` comes behind it, in the same queue or in the one before
(`Followed`), and one comes for a Conductor already kept.  It is proved after
`OneFate`, which tells that who signs in was no member, and that a member's
WebSocket no longer connects.  Both were checked with TLC before they were proved, with two clients
as well.  The clients need only be finitely many (`ClientAssumption`): the signal
server's welcome lists them.

**Negotiation.**  What p hears of q passes q's requests (`up`), what the signal
server has sent p (`down`) and p's posted messages (`queue`).  The last two are
p's `News`: a message only ever moves from the one to the other, so the proof
counts and orders what is in both together (`Num`; `Led`: each candidate comes
after a description).  `NegotiationSteps` shows once and for all what a step of
any process is to the pair (`StepSeen`): `Calm` (something may get lost, a
Conductor may be closed), `Blank` (they remain strangers, or one is let into the
room), or one of `Greets`, `Hears`, `Describes`, `Gathers` and `Relays`, which
say what joins or leaves the requests and the news.  `NegotiationProofs` then
has seven kinds of step to consider rather than all handlers.

`NegotiationFits` only speaks of the message that is handled next.  The
invariant `Agree` speaks of all that are on their way, in four parts:

* `Met`: two processes that have anything of each other have met in the room;
  one is the server; a process is told of the other once, and has no Conductor
  of it before.  So there is one negotiation between them and no second offer.
* `Role`: the server only creates answers, and none before it has an offer; a
  client only creates offers.  What is on its way to p is what p does not create.
* `Still`: a process sends nothing until it has set its local description, and
  nothing while it is yet to be told of the other.
* `Heeds`, of a process that will hear the other: at most one description is on
  its way, none once p has one; the candidates applied, on their way and still to be
  gathered are at most `MaxCandidate`; while p has no remote description,
  each candidate in its news comes after a description, and so does each in the
  requests unless the news has one; to a client nothing comes before its own
  offer has gone out.

The parts about what is still on its way hold only between members that are
open (`Intact`): when one dies or leaves, requests are lost, but then none of
those that remain is passed on to p any more.  `Agree` needs the types and `OneFate`, which tells that who
signs in was no member and that a member's WebSocket never connects anew.  TLC
had checked it, with two candidates and with two clients, before it was proved.

**Rendezvous.**  The refinement of `Rendezvous` needs two more facts of a pair
than `Agree` has, for `Heeds` only speaks of processes that still listen.
`Single`: at most one description is on its way to a process and none once it
has one, so that a description that is heard has left the wire.  `Opening`: as
long as a client is yet to be told of the server or its offer is being created,
neither has said anything to the other, so that a call finds both apart and the
wire empty.  Then, by `StepSeen`, only `Describes` and `Hears` change what
`Rendezvous` shows other than by losing it (`IdleStep`): the `Describes` of a
client is `Call`, that of the server `Answer`; the `Hears` of the server is
`BeCalled`, that of a client `Connect`, or, if the message is ignored, a loss.

Only model-checked: every liveness property, since liveness under fairness is
out of the prover's reach.  Every safety property of a passing run is a theorem.

## Findings

1. `Lane_useafterfree`: `DeleteConnectionLane` deletes the connection but not
   the channel, whose `socket_` dangles; what comes next for the channel uses it:
   in the trace a `MsgServerSideReady` that was under way, else a chunk or a
   posted `MsgStopLane`.
2. `Lane_nochannel`: when the data channel cannot be created the accepted
   connection stays, and its first read event dereferences a NULL `channel_`.
3. `Lane_remoteclose`: a `MsgDeleteChannel` handled before the server's channel
   opens is forgotten; the socket connected afterwards stays.
4. `Lane_refused`: when `Connect` fails at once on the server the client is not
   told and its application waits for ever.  (A target that refuses later is an
   `SE_CLOSE`, which is passed on.)
5. `Socket_lostbytes`: the rest of a partly taken write is lost.
6. `WebSocket_closetwice`: the close event of one closing comes twice.

## Not modelled

* UDP mode.  `SocketListenServer::Listen` and `SocketClient::Connect` then wrap
  one datagram socket in an `rtc::SocketStream`.  When such a stream is open,
  blocks or closes is decided by a library that is not in the repository and
  that was written for connected streams, so a model would state guesses.  (The
  two hazards visible in this repository's own lines are listed.)
* The loopback re-initialisation, for which no peer of this program ever asks;
  ICE beyond the exchange of candidates.  `ConnectionLane` starts with both
  PeerConnections created, where `Signaling` ends.
* The *remote* control channel objects: a local control channel is taken to be
  open together with its remote end.
* The text of control messages (JSON), and what is in a WebSocket frame.
* Malformed messages of the signal server, a peer announced twice; `main.cc` but
  for the start and the end of a process: flags are read once, before any thread
  exists.
* Descriptions that WebRTC refuses although they fit the state: `SetLocalDescription`
  and `SetRemoteDescription` succeed whenever `Fits` holds; their observers only log.
* In the lanes, a `Send` refused because the send queue is full; the queue and its
  limit are in `SocketConnection`.
* Builds in which `ASSERT` stops the process.
* What happens after a dangling pointer has reached a new connection in the same
  memory: the constraint of `Lane_two` and most properties end at the first
  undefined behaviour.
* WebRTC's own buffering: that a channel refuses a chunk is a failure that may
  always happen.

## Plan

Done: `ConnectionLane` with its invariants, `AbstractLane` with the refinement
and its proof; `SocketConnection` against `BytePipe`, proved; `WebSocket` in
both directions, proved; `Signaling`, proved with the negotiation, and the
refinement of `Rendezvous`.

Left, in this order:

1. The composition of `Signaling` with the events `WebSocket` signals: `Signaling`
   models the connection to the signal server by its own `readyState` and `sub`.
2. The channel's end in `ConnectionLane`, once the commented-out
   `channel->Close()` of `DeleteConnectionLane` is back.

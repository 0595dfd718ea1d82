--------------------------- MODULE ConnectionLane ---------------------------
(***************************************************************************)
(* The lanes of a tunnel: the two Conductors of one peer pair              *)
(* (conductor.cc), their data channels (data_channel.cc) and their socket  *)
(* connections (socket.cc, socket_server.cc, socket_client.cc), TCP mode.  *)
(*                                                                         *)
(* A lane is one application connection: a socket accepted by the client,  *)
(* a data channel, and a socket the server opens to the target.  It is     *)
(* identified by the serial number that names its data channel, which the  *)
(* client never reuses.  Every handler runs on its process's signalling    *)
(* thread, so every handler is one action; the network, the event loop and *)
(* the message queue interleave them.                                      *)
(***************************************************************************)
EXTENDS Naturals, Sequences

CONSTANTS
    Lane,       \* the serials of the data channels
    Block,      \* the heap blocks a process's SocketConnections live in
    MaxChunk,   \* bound: the reads an application's stream splits into
    MayFail     \* the calls to the system that may fail

Failure == {"listen", "channel", "connect", "send", "write"}

ASSUME MaxChunkAssumption == MaxChunk \in Nat
ASSUME MayFailAssumption == MayFail \subseteq Failure

Peer == {"client", "server"}
Other(p) == IF p = "client" THEN "server" ELSE "client"

ChannelState == {"absent", "null", "connecting", "open", "closed"}
Life == {"none", "live", "freed"}

VARIABLES
    up,         \* [Peer -> BOOLEAN]: the Conductor exists
    fault,      \* the first undefined behaviour met, if any
    ctl,        \* [Peer -> state of the local control data channel]
    listening,  \* the client's listener_ accepts connections
    target,     \* the server's channel_ has been Set
    wire,       \* [Peer -> Seq(message)]: control messages sent by the peer
    opening,    \* the lanes whose data channel the server has yet to hear of
    chan,       \* [Peer -> [Lane -> datachannels_ entry]]
    conn,       \* [Peer -> [Lane -> SocketConnection]]
    app,        \* [Peer -> [Lane -> the TCP stream behind the connection]]
    data,       \* [Peer -> [Lane -> chunks sent by the peer and in flight]]
    sent,       \* history: chunks the peer put on the lane's data channel
    got,        \* history: chunks handed to the peer's socket connection
    queue       \* [Peer -> Seq(MsgStopLane)]: signal_thread_'s message queue

vars == <<up, fault, ctl, listening, target, wire, opening, chan, conn, app,
          data, sent, got, queue>>

\* A datachannels_ entry: sock is socket_ # NULL, cbr is closed_by_remote_.
Channel == [st: ChannelState, sock: BOOLEAN, cbr: BOOLEAN]

\* att is channel_ # NULL, ready is is_ready_; a freed connection keeps the
\* block it lived in, which the next allocation may take.
Connection == [life: Life, att: BOOLEAN, ready: BOOLEAN, block: Block \cup {"none"}]

\* unread are the chunks waiting in the kernel, rd a read event not yet
\* dispatched, hup a close event not yet dispatched, left the chunks the
\* application may still write.
Stream == [unread: 0..MaxChunk, left: 0..MaxChunk, rd: BOOLEAN,
           open: BOOLEAN, hup: BOOLEAN]

Control ==
    [id: {"MsgCreateChannel", "MsgChannelCreated"}]
        \cup [id: {"MsgServerSideReady", "MsgDeleteChannel"}, lane: Lane]

\* LaneMessageData: exactly one of its two pointers is set, by names it.
StopLaneMsg == [by: {"socket", "channel"}, lane: Lane]

TypeOK ==
    /\ up \in [Peer -> BOOLEAN]
    /\ fault \in {"none", "useAfterFree", "nullDereference"}
    /\ ctl \in [Peer -> {"connecting", "open", "closed"}]
    /\ listening \in BOOLEAN
    /\ target \in BOOLEAN
    /\ wire \in [Peer -> Seq(Control)]
    /\ opening \subseteq Lane
    /\ chan \in [Peer -> [Lane -> Channel]]
    /\ conn \in [Peer -> [Lane -> Connection]]
    /\ app \in [Peer -> [Lane -> Stream]]
    /\ data \in [Peer -> [Lane -> Nat]]
    /\ sent \in [Peer -> [Lane -> Nat]]
    /\ got \in [Peer -> [Lane -> Nat]]
    /\ queue \in [Peer -> Seq(StopLaneMsg)]

NoChannel == [st |-> "absent", sock |-> FALSE, cbr |-> FALSE]
NoConnection == [life |-> "none", att |-> FALSE, ready |-> FALSE, block |-> "none"]
NoStream == [unread |-> 0, left |-> 0, rd |-> FALSE, open |-> FALSE, hup |-> FALSE]
NewStream == [unread |-> 0, left |-> MaxChunk, rd |-> FALSE, open |-> TRUE, hup |-> FALSE]

\* Both Conductors have their PeerConnection; nothing is connected yet.
Init ==
    /\ up = [p \in Peer |-> TRUE]
    /\ fault = "none"
    /\ ctl = [p \in Peer |-> "connecting"]
    /\ listening = FALSE
    /\ target = FALSE
    /\ wire = [p \in Peer |-> <<>>]
    /\ opening = {}
    /\ chan = [p \in Peer |-> [n \in Lane |-> NoChannel]]
    /\ conn = [p \in Peer |-> [n \in Lane |-> NoConnection]]
    /\ app = [p \in Peer |-> [n \in Lane |-> NoStream]]
    /\ data = [p \in Peer |-> [n \in Lane |-> 0]]
    /\ sent = [p \in Peer |-> [n \in Lane |-> 0]]
    /\ got = [p \in Peer |-> [n \in Lane |-> 0]]
    /\ queue = [p \in Peer |-> <<>>]

-----------------------------------------------------------------------------
(* Pieces the handlers share.                                              *)

Live(p, n) == conn[p][n].life = "live"

\* The channel's socket_ points to a SocketConnection that was deleted.
Dangling(p, n) == chan[p][n].sock /\ conn[p][n].life = "freed"

\* What a dangling pointer to n's connection points to now, if anything.
Heirs(p, n) == {m \in Lane : Live(p, m) /\ conn[p][m].block = conn[p][n].block}

FreeBlocks(p) == {b \in Block : \A m \in Lane : Live(p, m) => conn[p][m].block # b}

\* Variant: the server's control messages are lost.
PutOfClient(p, msg) ==
    IF p = "client" THEN [wire EXCEPT ![p] = Append(@, msg)] ELSE wire

\* The result of a control Send is ignored: a channel that is not open drops.
Put(p, msg) ==
    IF ctl[p] = "open" THEN [wire EXCEPT ![p] = Append(@, msg)] ELSE wire

\* HotlineControlDataChannel::OnStateChange.
ControlState(p, st) == ctl' = [ctl EXCEPT ![p] = st]

\* CreateChannel, ChannelCreated, ServerSideReady and DeleteRemoteChannel: the
\* control messages.
CreateChannel == [id |-> "MsgCreateChannel"]
ChannelCreated == [id |-> "MsgChannelCreated"]
ServerSideReady(n) == [id |-> "MsgServerSideReady", lane |-> n]
DeleteRemoteChannel(n) == [id |-> "MsgDeleteChannel", lane |-> n]

\* The oldest control message sent to p.  The observer of the peer's control
\* channel handles it; p's own control channel, which closes with it, stands
\* for both.
Received(p, id) ==
    /\ up[p]
    /\ ctl[p] = "open"
    /\ wire[Other(p)] # <<>>
    /\ Head(wire[Other(p)]).id = id

Taken(p) == [wire EXCEPT ![Other(p)] = Tail(@)]

\* Variant: OnSocketStop posts nothing.
PostOfChannel(p, by, n) ==
    IF by = "channel" THEN [queue EXCEPT ![p] = Append(@, [by |-> by, lane |-> n])]
    ELSE queue

\* OnSocketStop and OnStopChannel post a MsgStopLane to the signal thread.
Post(p, by, n) == [queue EXCEPT ![p] = Append(@, [by |-> by, lane |-> n])]

\* Variant: is_ready_ starts out true.
NewConnectionReady(att, ready, b) ==
    [life |-> "live", att |-> att, ready |-> TRUE, block |-> b]

\* SocketConnection and CreateConnectionLane: a new connection, attached to its
\* channel or not, ready (SetReady) on the server only.
NewConnection(att, ready, b) ==
    [life |-> "live", att |-> att, ready |-> ready, block |-> b]

\* Variant: the channel is not given its connection.
AttachNothing(n) == [chan EXCEPT !["server"][n].st = "open"]

\* AttachSocket: the server's channel, now open, points to its connection.
AttachSocket(n) ==
    [chan EXCEPT !["server"][n] = [@ EXCEPT !.st = "open", !.sock = TRUE]]

\* SocketBase::Remove: OnSocketClosed detaches the connection from its
\* channel, not the channel from the connection, and it is deleted.
Freed(p, n) == [conn EXCEPT ![p][n] = [@ EXCEPT !.life = "freed", !.att = FALSE]]

\* The Conductor of p is gone with its channels, connections and messages.
Gone(p) ==
    /\ up' = [up EXCEPT ![p] = FALSE]
    /\ ctl' = [ctl EXCEPT ![p] = "closed"]
    /\ listening' = (listening /\ p # "client")
    /\ chan' = [chan EXCEPT ![p] = [n \in Lane |-> NoChannel]]
    /\ conn' = [conn EXCEPT ![p] = [n \in Lane |->
                   IF Live(p, n) THEN Freed(p, n)[p][n] ELSE conn[p][n]]]
    /\ queue' = [queue EXCEPT ![p] = <<>>]
    /\ UNCHANGED <<target, wire, opening, app, data, sent, got>>

\* Undefined behaviour that ends the process.
Crash(p, kind) ==
    /\ fault' = (IF fault = "none" THEN kind ELSE fault)
    /\ Gone(p)

\* Undefined behaviour that the process survives.
Used == fault' = (IF fault = "none" THEN "useAfterFree" ELSE fault)

\* The stream s after k reads; a stream with more to read signals again.
AfterRead(s, k) == [s EXCEPT !.unread = s.unread - k, !.rd = (k < s.unread)]

\* Variant: the read that finds nothing is counted as a chunk.
DoReceiveLoopTooFar(p, n, ready) ==
    /\ ready
    /\ app' = [app EXCEPT ![p][n] = AfterRead(@, @.unread + 1)]
    /\ UNCHANGED <<data, sent, queue>>

\* HotlineDataChannel::Send of k chunks.
SendChunks(p, n, k) ==
    /\ data' = [data EXCEPT ![p][n] = @ + k]
    /\ sent' = [sent EXCEPT ![p][n] = @ + k]

\* DoReceiveLoop of n's connection, whose is_ready_ is ready: nothing, or
\* every unread chunk goes to the channel until the stream blocks or ends, or
\* the channel refuses a chunk.
DoReceiveLoop(p, n, ready) ==
    LET s == app[p][n]
    IN  \/ /\ ~(chan[p][n].st = "open" /\ ready)
           /\ app' = [app EXCEPT ![p][n].rd = FALSE]
           /\ UNCHANGED <<data, sent, queue>>
        \/ /\ chan[p][n].st = "open" /\ ready
           /\ app' = [app EXCEPT ![p][n] = AfterRead(s, s.unread)]
           /\ SendChunks(p, n, s.unread)
           /\ \/ queue' = queue
              \/ ~s.open /\ queue' = Post(p, "socket", n)
        \/ /\ chan[p][n].st = "open" /\ ready
           /\ "send" \in MayFail
           /\ \E k \in 0..s.unread :
                 /\ k < s.unread
                 /\ app' = [app EXCEPT ![p][n] = AfterRead(s, k + 1)]
                 /\ SendChunks(p, n, k)
                 /\ queue' = Post(p, "socket", n)

\* Variant: SetSocketReady is not followed by a read.
NoReadEvent(p, n) == UNCHANGED <<app, data, sent, queue>>

\* SocketReadEvent to ReadEvent: an SE_READ nobody signalled.
SocketReadEvent(p, n) == DoReceiveLoop(p, n, TRUE)
-----------------------------------------------------------------------------
(* The control channel.                                                    *)

\* Listen opens the socket, binds it and listens, or fails on the way.
Listen ==
    \/ listening' = TRUE
    \/ "listen" \in MayFail /\ listening' = FALSE

\* Variant: the listener stays open.
StopListeningNot(p) == listening' = listening

\* The client's StopListening; the server's Disconnect is empty.
StopListening(p) == listening' = (listening /\ p # "client")

\* OnControlDataChannelOpen, local channel.
OnControlDataChannelOpen(p) ==
    /\ up["client"] /\ up["server"]
    /\ ctl[p] = "connecting"
    /\ ControlState(p, "open")
    /\ wire' = IF p = "client"
               THEN [wire EXCEPT ![p] = Append(@, CreateChannel)]
               ELSE wire
    /\ UNCHANGED <<up, fault, listening, target, opening, chan, conn, app,
                   data, sent, got, queue>>

\* OnControlDataChannelClosed, local channel: the other peer is gone.
OnControlDataChannelClosed(p) ==
    /\ up[p] /\ ~up[Other(p)]
    /\ ctl[p] # "closed"
    /\ ControlState(p, "closed")
    /\ StopListening(p)
    /\ UNCHANGED <<up, fault, target, wire, opening, chan, conn, app,
                   data, sent, got, queue>>

\* The server learns the target and answers on the same channel.
OnCreateChannel ==
    /\ Received("server", "MsgCreateChannel")
    /\ target' = TRUE
    /\ wire' = [wire EXCEPT !["client"] = Tail(@),
                            !["server"] = Append(@, ChannelCreated)]
    /\ UNCHANGED <<up, fault, ctl, listening, opening, chan, conn, app,
                   data, sent, got, queue>>

\* The client opens its listening socket, or fails to.
OnChannelCreated ==
    /\ Received("client", "MsgChannelCreated")
    /\ wire' = Taken("client")
    /\ Listen
    /\ UNCHANGED <<up, fault, ctl, target, opening, chan, conn, app,
                   data, sent, got, queue>>

\* SetSocketReady and SocketReadEvent of the lane's channel.  Through a
\* dangling socket_ they end the process, whose channel_ is NULL, or reach
\* the connection that now lives in the block.
OnServerSideReady(n) ==
    LET p == "client"
        begin(m) ==
            /\ conn' = [conn EXCEPT ![p][m].ready = TRUE]
            /\ SocketReadEvent(p, m)
            /\ wire' = Taken(p)
            /\ UNCHANGED <<up, ctl, listening, target, opening, chan, got>>
    IN  /\ Received(p, "MsgServerSideReady")
        /\ Head(wire["server"]).lane = n
        /\ \/ /\ chan[p][n].sock /\ Live(p, n)
              /\ begin(n)
              /\ UNCHANGED fault
           \/ /\ Dangling(p, n)
              /\ Crash(p, "useAfterFree")
           \/ /\ Dangling(p, n)
              /\ \E m \in Heirs(p, n) : conn[p][m].att /\ begin(m)
              /\ Used
           \/ /\ ~chan[p][n].sock
              /\ wire' = Taken(p)
              /\ UNCHANGED <<up, fault, ctl, listening, target, opening, chan,
                             conn, app, data, sent, got, queue>>

\* MsgDeleteChannel: mark the channel and post MsgStopLane(NULL, channel).
\* Looking an unknown channel up leaves a NULL entry in datachannels_.
OnStopChannel(p, n) ==
    /\ Received(p, "MsgDeleteChannel")
    /\ Head(wire[Other(p)]).lane = n
    /\ wire' = Taken(p)
    /\ \/ /\ chan[p][n].st \in {"absent", "null"}
          /\ chan' = [chan EXCEPT ![p][n].st = "null"]
          /\ UNCHANGED queue
       \/ /\ chan[p][n].st \in {"connecting", "open", "closed"}
          /\ chan' = [chan EXCEPT ![p][n].cbr = TRUE]
          /\ queue' = Post(p, "channel", n)
    /\ UNCHANGED <<up, fault, ctl, listening, target, opening, conn, app,
                   data, sent, got>>
-----------------------------------------------------------------------------
(* Opening a lane.                                                         *)

\* HandleConnection: a SocketConnection in block b with its stream, which the
\* Conductor has attached to its channel or not, and made ready or not.
HandleConnection(p, n, att, ready, b) ==
    /\ conn' = [conn EXCEPT ![p][n] = NewConnection(att, ready, b)]
    /\ app' = [app EXCEPT ![p][n] = NewStream]

\* Variant: the serial of a lane that was deleted is given out again.
AcceptsAgain(n) == listening /\ ~Live("client", n)

\* The listener's OnReadEvent accepts an application's socket, which gets a
\* serial that was not used before.
Accepts(n) == listening /\ conn["client"][n].life = "none"

\* SocketListenServer::OnReadEvent to CreateConnectionLane(connection): the
\* connection and its channel point to each other.  When the channel cannot
\* be created the result is ignored and the connection stays without one.
OnSocketOpen(n) ==
    LET p == "client" IN
    /\ up[p] /\ Accepts(n)
    /\ \E b \in FreeBlocks(p) :
          \/ /\ chan' = [chan EXCEPT ![p][n] =
                            [st |-> "connecting", sock |-> TRUE, cbr |-> FALSE]]
             /\ HandleConnection(p, n, TRUE, FALSE, b)
          \/ /\ "channel" \in MayFail
             /\ HandleConnection(p, n, FALSE, FALSE, b)
             /\ UNCHANGED chan
    /\ UNCHANGED <<up, fault, ctl, listening, target, wire, opening,
                   data, sent, got, queue>>

\* The client's channel opens: nothing to do, the server is being told.
ClientChannelOpen(n) ==
    /\ up["client"] /\ up["server"]
    /\ chan["client"][n].st = "connecting"
    /\ chan' = [chan EXCEPT !["client"][n].st = "open"]
    /\ opening' = opening \cup {n}
    /\ UNCHANGED <<up, fault, ctl, listening, target, wire, conn, app,
                   data, sent, got, queue>>

\* The server hears of the channel.  insert does not replace an entry, so an
\* observer that finds a NULL entry is dropped, which closes the channel.
OnDataChannel(n) ==
    /\ up["server"]
    /\ n \in opening
    /\ opening' = opening \ {n}
    /\ chan' = IF chan["server"][n].st = "absent"
               THEN [chan EXCEPT !["server"][n].st = "connecting"]
               ELSE chan
    /\ UNCHANGED <<up, fault, ctl, listening, target, wire, conn, app,
                   data, sent, got, queue>>

\* SocketClient::Connect makes a connection to the target, which is attached
\* and made ready at once.
Connect(n) == \E b \in FreeBlocks("server") : HandleConnection("server", n, TRUE, TRUE, b)

\* HotlineDataChannel::Stop of the server's channel, now open: OnStopChannel.
StopChannel(n) ==
    /\ chan' = [chan EXCEPT !["server"][n] = [@ EXCEPT !.st = "open", !.cbr = TRUE]]
    /\ queue' = Post("server", "channel", n)

\* OnSocketDataChannelOpen to CreateConnectionLane(channel): connect to the
\* target, attach, SetReady and tell the client; or Stop the channel.
OnSocketDataChannelOpen(n) ==
    LET p == "server" IN
    /\ up[p]
    /\ chan[p][n].st = "connecting"
    /\ \/ /\ Connect(n)
          /\ chan' = AttachSocket(n)
          /\ wire' = Put(p, ServerSideReady(n))
          /\ UNCHANGED queue
       \/ /\ "connect" \in MayFail
          /\ StopChannel(n)
          /\ UNCHANGED <<conn, app, wire>>
    /\ UNCHANGED <<up, fault, ctl, listening, target, opening, data, sent, got>>
-----------------------------------------------------------------------------
(* The applications at the two ends (external).                            *)

\* The stream s after the application wrote a chunk, which is signalled.
AfterWrite(s) ==
    [s EXCEPT !.left = s.left - 1, !.unread = s.unread + 1, !.rd = TRUE]

AppWrite(p, n) ==
    /\ Live(p, n)
    /\ app[p][n].open /\ app[p][n].left > 0
    /\ app' = [app EXCEPT ![p][n] = AfterWrite(app[p][n])]
    /\ UNCHANGED <<up, fault, ctl, listening, target, wire, opening, chan,
                   conn, data, sent, got, queue>>

AppClose(p, n) ==
    /\ Live(p, n)
    /\ app[p][n].open
    /\ app' = [app EXCEPT ![p][n] = [@ EXCEPT !.open = FALSE, !.hup = TRUE]]
    /\ UNCHANGED <<up, fault, ctl, listening, target, wire, opening, chan,
                   conn, data, sent, got, queue>>
-----------------------------------------------------------------------------
(* The events of a lane in use.                                            *)

\* OnStreamEvent, SE_READ.  channel_ is used without a test.
ReadEvent(p, n) ==
    /\ up[p] /\ Live(p, n)
    /\ app[p][n].rd
    /\ \/ /\ conn[p][n].att
          /\ DoReceiveLoop(p, n, conn[p][n].ready)
          /\ UNCHANGED <<up, fault, ctl, listening, target, wire, opening,
                         chan, conn, got>>
       \/ /\ ~conn[p][n].att
          /\ Crash(p, "nullDereference")

\* OnStreamEvent, SE_CLOSE: Stop posts MsgStopLane(connection, NULL).
CloseEvent(p, n) ==
    /\ up[p] /\ Live(p, n)
    /\ app[p][n].hup
    /\ app' = [app EXCEPT ![p][n].hup = FALSE]
    /\ queue' = Post(p, "socket", n)
    /\ UNCHANGED <<up, fault, ctl, listening, target, wire, opening, chan,
                   conn, data, sent, got>>

\* HotlineDataChannel::OnMessage: a chunk goes to socket_->Send if there is a
\* socket_, which fails and posts a Stop once the application is gone.  A Send
\* refused by a full send queue is left to SocketConnection.
OnMessage(p, n) ==
    LET q == Other(p)
        deliver(m) ==
            \/ /\ got' = [got EXCEPT ![p][m] = @ + 1]
               /\ UNCHANGED queue
            \/ /\ "write" \in MayFail /\ ~app[p][m].open
               /\ queue' = Post(p, "socket", m)
               /\ UNCHANGED got
        quiet == UNCHANGED <<up, ctl, listening, target, wire, opening, chan,
                             conn, app, sent>>
    IN  /\ up[p]
        /\ chan[p][n].st = "open"
        /\ data[q][n] > 0
        /\ \/ /\ ~chan[p][n].sock
              /\ data' = [data EXCEPT ![q][n] = @ - 1]
              /\ UNCHANGED <<fault, got, queue>>
              /\ quiet
           \/ /\ chan[p][n].sock /\ Live(p, n)
              /\ data' = [data EXCEPT ![q][n] = @ - 1]
              /\ deliver(n)
              /\ UNCHANGED fault
              /\ quiet
           \/ /\ Dangling(p, n)
              /\ Crash(p, "useAfterFree")
           \/ /\ Dangling(p, n)
              /\ data' = [data EXCEPT ![q][n] = @ - 1]
              /\ \E m \in Heirs(p, n) : deliver(m)
              /\ Used
              /\ quiet

\* OnSocketDataChannelClosed: the other peer is gone, or it dropped its
\* observer of the channel.  Only the channel lets go of the socket.
OnSocketDataChannelClosed(p, n) ==
    /\ up[p]
    /\ chan[p][n].st \in {"connecting", "open"}
    /\ \/ ~up[Other(p)]
       \/ /\ p = "client" /\ chan[p][n].st = "open"
          /\ n \notin opening /\ chan["server"][n].st = "null"
    /\ chan' = [chan EXCEPT ![p][n] = [@ EXCEPT !.st = "closed", !.sock = FALSE]]
    /\ UNCHANGED <<up, fault, ctl, listening, target, wire, opening, conn, app,
                   data, sent, got, queue>>
-----------------------------------------------------------------------------
(* Closing a lane: DeleteConnectionLane of the oldest MsgStopLane.         *)

\* Variant: closed_by_remote_ is not looked at.
CloseAndAnnounce(p, m, announce) ==
    /\ conn' = Freed(p, m)
    /\ wire' = Put(p, DeleteRemoteChannel(m))

\* Variant: the peer is never told.
CloseSilently(p, m, announce) ==
    /\ conn' = Freed(p, m)
    /\ wire' = wire

\* The connection is closed, which detaches and deletes it, and the peer is
\* told unless the message came from the peer.
CloseConnection(p, m, announce) ==
    /\ conn' = Freed(p, m)
    /\ wire' = IF announce
               THEN Put(p, DeleteRemoteChannel(m))
               ELSE wire

\* MsgStopLane(connection, NULL).
DeleteLaneOfSocket(p, n) ==
    \/ /\ Live(p, n) /\ conn[p][n].att
       /\ CloseConnection(p, n, ~chan[p][n].cbr)
       /\ UNCHANGED fault
    \/ /\ Live(p, n) /\ ~conn[p][n].att
       /\ UNCHANGED <<fault, conn, wire>>
    \/ /\ ~Live(p, n)
       /\ Heirs(p, n) = {}
       /\ Used
       /\ UNCHANGED <<conn, wire>>
    \/ /\ ~Live(p, n)
       /\ \E m \in Heirs(p, n) :
             IF conn[p][m].att
             THEN CloseConnection(p, m, ~chan[p][m].cbr)
             ELSE UNCHANGED <<conn, wire>>
       /\ Used

\* MsgStopLane(NULL, channel).  A connection deleted before has closing_ set,
\* so that closing it again does nothing while its block is unused.
DeleteLaneOfChannel(p, n) ==
    \/ /\ ~chan[p][n].sock
       /\ UNCHANGED <<fault, conn, wire>>
    \/ /\ chan[p][n].sock /\ Live(p, n)
       /\ CloseConnection(p, n, ~chan[p][n].cbr)
       /\ UNCHANGED fault
    \/ /\ Dangling(p, n)
       /\ \/ Heirs(p, n) = {} /\ UNCHANGED conn
          \/ \E m \in Heirs(p, n) : conn' = Freed(p, m)
       /\ Used
       /\ wire' = IF chan[p][n].cbr
                  THEN wire
                  ELSE Put(p, DeleteRemoteChannel(n))

DeleteConnectionLane(p) ==
    /\ up[p]
    /\ queue[p] # <<>>
    /\ LET n == Head(queue[p]).lane
       IN  \/ /\ \/ /\ Head(queue[p]).by = "socket"
                    /\ DeleteLaneOfSocket(p, n)
                 \/ /\ Head(queue[p]).by = "channel"
                    /\ DeleteLaneOfChannel(p, n)
              /\ queue' = [queue EXCEPT ![p] = Tail(@)]
              /\ UNCHANGED <<up, ctl, listening, target, opening, chan, app,
                             data, sent, got>>
           \/ /\ \/ Head(queue[p]).by = "socket" /\ ~Live(p, n)
                 \/ Head(queue[p]).by = "channel" /\ Dangling(p, n)
              /\ Crash(p, "useAfterFree")

\* ~Conductor: the peer disconnected, or the process exits.
Close(p) ==
    /\ up[p]
    /\ UNCHANGED fault
    /\ Gone(p)
-----------------------------------------------------------------------------

Next ==
    \/ OnCreateChannel
    \/ OnChannelCreated
    \/ \E p \in Peer :
          \/ OnControlDataChannelOpen(p)
          \/ OnControlDataChannelClosed(p)
          \/ DeleteConnectionLane(p)
          \/ Close(p)
    \/ \E n \in Lane :
          \/ OnServerSideReady(n)
          \/ OnSocketOpen(n)
          \/ ClientChannelOpen(n)
          \/ OnDataChannel(n)
          \/ OnSocketDataChannelOpen(n)
    \/ \E p \in Peer, n \in Lane :
          \/ OnStopChannel(p, n)
          \/ AppWrite(p, n)
          \/ AppClose(p, n)
          \/ ReadEvent(p, n)
          \/ CloseEvent(p, n)
          \/ OnMessage(p, n)
          \/ OnSocketDataChannelClosed(p, n)

Spec == Init /\ [][Next]_vars

\* Each handler runs once its event, message or callback is there: the signal
\* thread's loop drops none, and WebRTC reports the channels of a peer that is
\* gone as closed.  Nothing is assumed of applications, of failures, of
\* a close before the bytes ahead of it are read, or of Close: what destroys a
\* Conductor is a message of the signal server, which may never come.
Fairness ==
    /\ WF_vars(OnCreateChannel)
    /\ WF_vars(OnChannelCreated)
    /\ \A p \in Peer :
          /\ WF_vars(OnControlDataChannelOpen(p))
          /\ WF_vars(OnControlDataChannelClosed(p))
          /\ WF_vars(DeleteConnectionLane(p))
    /\ \A n \in Lane :
          /\ WF_vars(OnServerSideReady(n))
          /\ WF_vars(ClientChannelOpen(n))
          /\ WF_vars(OnDataChannel(n))
          /\ WF_vars(OnSocketDataChannelOpen(n))
    /\ \A p \in Peer, n \in Lane :
          /\ WF_vars(OnStopChannel(p, n))
          /\ WF_vars(ReadEvent(p, n))
          /\ WF_vars(app[p][n].unread = 0 /\ CloseEvent(p, n))
          /\ WF_vars(OnMessage(p, n))
          /\ WF_vars(OnSocketDataChannelClosed(p, n))

FairSpec == Spec /\ Fairness
-----------------------------------------------------------------------------
(* Safety.                                                                 *)

Sane == fault = "none"

InWire(p, id, n) ==
    \E i \in 1..Len(wire[p]) : wire[p][i].id = id /\ wire[p][i].lane = n

\* While an end of a lane has not been deleted and its application is there,
\* every chunk the other end put on the data channel is in flight or was
\* handed to this end's connection: HotlineDataChannel::OnMessage never finds
\* socket_ NULL in between, whatever the order in which the channel opens, the
\* target is connected and the control messages arrive.
NothingDropped ==
    Sane => \A p \in Peer, n \in Lane :
        LET q == Other(p) IN
        (conn[q][n].life = "none" \/ (Live(q, n) /\ app[q][n].open))
            => sent[p][n] = data[p][n] + got[q][n]

\* The client reads from its application (SetReady, DoReceiveLoop) only after
\* the server has connected this lane's socket (CreateConnectionLane), and the
\* server connects no socket before OnCreateChannel has told it the target.
HandshakeOrder ==
    /\ Sane => \A n \in Lane :
          conn["client"][n].ready => conn["server"][n].life # "none"
    /\ \A n \in Lane : conn["server"][n].life # "none" => target

\* Bytes waiting behind a connection that may forward them have a read event
\* coming: the event a not yet ready connection swallowed in DoReceiveLoop is
\* made up for by OnServerSideReady's SocketReadEvent.
NoLostWakeup ==
    Sane => \A p \in Peer, n \in Lane :
        (/\ Live(p, n) /\ conn[p][n].ready
         /\ chan[p][n].st = "open"
         /\ app[p][n].unread > 0)
            => app[p][n].rd

\* DeleteConnectionLane announces a closing only to a peer that has not
\* announced it itself, or whose announcement is still on its way: there is no
\* echo of MsgDeleteChannel, and none for a connection that was not closed.
NoEcho ==
    [][\A p \in Peer, n \in Lane :
         (Sane' /\ ~InWire(p, "MsgDeleteChannel", n)
                /\ InWire(p, "MsgDeleteChannel", n)')
            => /\ Live(p, n) /\ ~Live(p, n)'
               /\ \/ conn[Other(p)][n].life # "freed"
                  \/ InWire(Other(p), "MsgDeleteChannel", n)
                  \/ ~up[Other(p)]]_vars
\* Until the first undefined behaviour the handlers of the two Conductors
\* implement AbstractLane: whatever the order of events, each step is one
\* step of one lane, in the order of the handshake, or a peer's going.
Lanes == INSTANCE AbstractLane WITH
    life <- [p \in Peer |-> [n \in Lane |-> conn[p][n].life]],
    ready <- [n \in Lane |-> conn["client"][n].ready]
ImplementsLanes == Lanes!Init /\ [][Sane' => Lanes!Next]_(Lanes!vars)
-----------------------------------------------------------------------------
(* The inductive invariant behind NothingDropped, HandshakeOrder and       *)
(* NoLostWakeup.                                                           *)

\* What an application has written and the kernel holds stays in bounds.
StreamBounds ==
    \A p \in Peer, n \in Lane : app[p][n].unread + app[p][n].left <= MaxChunk

Known(p, n) == chan[p][n].st \in {"connecting", "open", "closed"}

\* Each step of the handshake presupposes the one before: the target is set,
\* ChannelCreated, listening, the client's connection and channel, the OPEN,
\* the server's channel, the server's connection, ServerSideReady.
TargetFirst ==
    /\ (\E i \in 1..Len(wire["server"]) : wire["server"][i].id = "MsgChannelCreated")
          => target
    /\ listening => target
    /\ \A n \in Lane :
          /\ conn["client"][n].life # "none" => target
          /\ Known("client", n) => conn["client"][n].life # "none"
          /\ n \in opening => conn["client"][n].life # "none"
          /\ Known("server", n) => conn["client"][n].life # "none"
          /\ conn["server"][n].life # "none" => target

\* While the client's channel is connecting the server has not heard of it.
ChannelFirst ==
    \A n \in Lane :
        /\ chan["client"][n].st \in {"absent", "null", "connecting"} /\ up["client"]
              => /\ n \notin opening
                 /\ ~Known("server", n)
                 /\ conn["server"][n].life = "none"
                 /\ Sane => ~conn["client"][n].ready
        /\ n \in opening => ~Known("server", n) /\ conn["server"][n].life = "none"

\* A channel in use has its socket_, on the server unless connecting failed,
\* and the server connects no lane twice.
Attached ==
    \A n \in Lane :
        /\ chan["client"][n].st \in {"connecting", "open"} => chan["client"][n].sock
        /\ chan["server"][n].st = "open" /\ ~chan["server"][n].sock
              => conn["server"][n].life = "none"
        /\ chan["server"][n].st = "connecting" => conn["server"][n].life = "none"
        /\ up["server"] /\ chan["server"][n].st \in {"absent", "null"}
              => conn["server"][n].life = "none"

\* ServerSideReady, the client's readiness and the client's data presuppose
\* the server's connection.
ServerFirst ==
    \A n \in Lane :
        /\ InWire("server", "MsgServerSideReady", n) => conn["server"][n].life # "none"
        /\ Sane /\ conn["client"][n].ready => conn["server"][n].life # "none"
        /\ Sane /\ data["client"][n] > 0 => conn["server"][n].life # "none"

Inductive ==
    /\ TypeOK
    /\ StreamBounds
    /\ TargetFirst
    /\ ChannelFirst
    /\ Attached
    /\ ServerFirst
    /\ NothingDropped
    /\ NoLostWakeup
-----------------------------------------------------------------------------
(* What the code's comments promise and the code does not keep.            *)

\* DeleteConnectionLane's comment lists the data channel among what it
\* deletes, but the channel and its socket_ outlive the SocketConnection: what
\* comes next for the channel, a control message naming it, a chunk or a
\* MsgStopLane, reaches the deleted connection.
NoUseAfterFree == fault # "useAfterFree"

\* CreateConnectionLane's comment says it creates socket, data channel and
\* server connection; without the channel the client's socket stays, and its
\* first read event dereferences channel_.
NoNullDereference == fault # "nullDereference"

\* A lane the peer announced as deleted (OnStopChannel) has no connection once
\* the MsgStopLane posted for it has been handled.
RemoteCloseIsObeyed ==
    Sane => \A p \in Peer, n \in Lane :
        (/\ chan[p][n].cbr
         /\ \A i \in 1..Len(queue[p]) : queue[p][i] # [by |-> "channel", lane |-> n])
            => ~Live(p, n)

\* When the server cannot connect to the target (CreateConnectionLane calls
\* channel->Stop), the client's socket of the lane is deleted.
ConnectFailureReachesClient ==
    \A n \in Lane :
        (/\ chan["server"][n].st = "open" /\ chan["server"][n].cbr
         /\ conn["server"][n].life = "none")
            ~> ~Live("client", n)
-----------------------------------------------------------------------------
(* Liveness, under FairSpec.                                               *)

\* The closing of one end of an established lane closes the other end, unless
\* the program runs into undefined behaviour or the closing peer goes away
\* before it has told the other one.
ClosePropagates ==
    \A p \in Peer, n \in Lane :
        (conn[p][n].life = "freed" /\ Live(Other(p), n) /\ conn["client"][n].ready)
            ~> (~Live(Other(p), n) \/ ~up[p] \/ ~Sane)

\* An application that hangs up on an attached connection gets it deleted,
\* unless bytes it wrote before are unread and the channel has closed, so that
\* DoReceiveLoop no longer reads up to the end of the stream.
HangupFreesConnection ==
    \A p \in Peer, n \in Lane :
        (Live(p, n) /\ conn[p][n].att /\ ~app[p][n].open
                   /\ (conn[p][n].ready \/ app[p][n].unread = 0))
            ~> \/ ~Live(p, n) \/ ~Sane
               \/ app[p][n].unread > 0 /\ chan[p][n].st = "closed"

\* When nothing fails and the server stays, an accepted connection becomes
\* ready or is deleted, so the handshake OPEN, Connect, ServerSideReady never
\* stalls.
AcceptedIsServed ==
    \A n \in Lane :
        Live("client", n)
            ~> (conn["client"][n].ready \/ ~Live("client", n) \/ ~up["server"] \/ ~Sane)

\* Once a peer is gone the other one comes to accept and to forward nothing any
\* more, for good, also when a ChannelCreated or a channel was on its way.
\* The lanes' sockets stay: only a hang-up of their application or the end of
\* the Conductor deletes them.
PeerLossEndsLanes ==
    \A p \in Peer :
        ~up[Other(p)] ~>
            [](\/ ~up[p]
               \/ /\ p = "client" => ~listening
                  /\ \A n \in Lane : chan[p][n].st \notin {"connecting", "open"})
=============================================================================

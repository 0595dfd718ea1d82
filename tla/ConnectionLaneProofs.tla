------------------------ MODULE ConnectionLaneProofs ------------------------
(***************************************************************************)
(* Proofs about ConnectionLane, for every value of its constants.          *)
(*                                                                         *)
(* Inductive is proved in two halves: TypeOK and StreamBounds (TypeStep),  *)
(* which need only themselves, and Rest, which needs the types.  Most      *)
(* steps leave most of Rest's state alone, so each of its conjuncts has a  *)
(* lemma (TargetSame, ..., WakeupSame) that says when it survives; the     *)
(* steps of the handshake, of DoReceiveLoop and of OnMessage are argued    *)
(* in full.                                                                *)
(***************************************************************************)
EXTENDS ConnectionLane, TLAPS

\* An update of one lane's field keeps the type and the other lanes.
LEMMA Update ==
  ASSUME NEW S, NEW f \in [Peer -> [Lane -> S]], NEW p \in Peer, NEW n \in Lane, NEW c \in S
  PROVE  /\ [f EXCEPT ![p][n] = c] \in [Peer -> [Lane -> S]]
         /\ [f EXCEPT ![p][n] = c][p][n] = c
         /\ \A q \in Peer, m \in Lane : (q # p \/ m # n) => [f EXCEPT ![p][n] = c][q][m] = f[q][m]
  OBVIOUS

\* There are two peers, and Other maps one to the other.
LEMMA PeerFacts ==
  /\ "client" \in Peer /\ "server" \in Peer
  /\ \A p \in Peer : Other(p) \in Peer /\ Other(p) # p /\ Other(Other(p)) = p
  /\ Other("client") = "server" /\ Other("server") = "client"
  BY DEF Peer, Other

\* AttachSocket keeps chan's type and changes one entry: it is open and attached.
LEMMA AttachType ==
  ASSUME TypeOK, NEW n \in Lane
  PROVE  /\ AttachSocket(n) \in [Peer -> [Lane -> Channel]]
         /\ AttachSocket(n)["server"][n] = [chan["server"][n] EXCEPT !.st = "open", !.sock = TRUE]
         /\ \A q \in Peer, m \in Lane : (q # "server" \/ m # n) => AttachSocket(n)[q][m] = chan[q][m]
<1> DEFINE c == [chan["server"][n] EXCEPT !.st = "open", !.sock = TRUE]
<1>1. chan["server"][n] \in Channel
  BY DEF TypeOK, Peer
<1>2. c \in Channel
  BY <1>1 DEF Channel, ChannelState
<1>3. AttachSocket(n) = [chan EXCEPT !["server"][n] = c]
  BY DEF AttachSocket
<1>4. "server" \in Peer /\ chan \in [Peer -> [Lane -> Channel]]
  BY DEF Peer, TypeOK
<1>5. /\ AttachSocket(n) \in [Peer -> [Lane -> Channel]] /\ AttachSocket(n)["server"][n] = c
      /\ \A q \in Peer, m \in Lane : (q # "server" \/ m # n) => AttachSocket(n)[q][m] = chan[q][m]
  <2> HIDE DEF c
  <2> QED BY <1>2, <1>3, <1>4, Update
<1> QED BY <1>5

\* A new st or a set cbr in one entry keeps chan's type.
LEMMA ChannelUpdate ==
  ASSUME TypeOK, NEW p \in Peer, NEW n \in Lane, NEW st \in ChannelState
  PROVE  /\ [chan EXCEPT ![p][n].st = st] \in [Peer -> [Lane -> Channel]]
         /\ [chan EXCEPT ![p][n].cbr = TRUE] \in [Peer -> [Lane -> Channel]]
<1> DEFINE c == [chan[p][n] EXCEPT !.st = st]
           d == [chan[p][n] EXCEPT !.cbr = TRUE]
<1>1. chan[p][n] \in Channel /\ chan \in [Peer -> [Lane -> Channel]]
  BY DEF TypeOK
<1>2. c \in Channel /\ d \in Channel
  BY <1>1 DEF Channel
<1>3. /\ [chan EXCEPT ![p][n].st = st] = [chan EXCEPT ![p][n] = c]
      /\ [chan EXCEPT ![p][n].cbr = TRUE] = [chan EXCEPT ![p][n] = d]
  OBVIOUS
<1>4. /\ [chan EXCEPT ![p][n] = c] \in [Peer -> [Lane -> Channel]]
      /\ [chan EXCEPT ![p][n] = d] \in [Peer -> [Lane -> Channel]]
  <2> HIDE DEF c, d
  <2> QED BY <1>1, <1>2
<1> QED BY <1>3, <1>4

\* SetReady keeps conn's type.
LEMMA ReadyUpdate ==
  ASSUME TypeOK, NEW p \in Peer, NEW n \in Lane
  PROVE  [conn EXCEPT ![p][n].ready = TRUE] \in [Peer -> [Lane -> Connection]]
<1> DEFINE c == [conn[p][n] EXCEPT !.ready = TRUE]
<1>1. conn[p][n] \in Connection /\ conn \in [Peer -> [Lane -> Connection]]
  BY DEF TypeOK
<1>2. c \in Connection
  BY <1>1 DEF Connection
<1>3. [conn EXCEPT ![p][n].ready = TRUE] = [conn EXCEPT ![p][n] = c]
  OBVIOUS
<1>4. [conn EXCEPT ![p][n] = c] \in [Peer -> [Lane -> Connection]]
  <2> HIDE DEF c
  <2> QED BY <1>1, <1>2
<1> QED BY <1>3, <1>4

\* A control Send keeps wire's type.
LEMMA WireType ==
  ASSUME TypeOK, NEW p \in Peer, NEW msg \in Control
  PROVE  /\ [wire EXCEPT ![p] = Append(@, msg)] \in [Peer -> Seq(Control)]
         /\ Put(p, msg) \in [Peer -> Seq(Control)]
  BY DEF TypeOK, Put

\* Receiving a control message keeps wire's type.
LEMMA TakenType ==
  ASSUME TypeOK, NEW p \in Peer, wire[Other(p)] # <<>>
  PROVE  Taken(p) \in [Peer -> Seq(Control)]
<1>1. wire[Other(p)] \in Seq(Control) /\ Other(p) \in Peer
  BY PeerFacts DEF TypeOK
<1>2. Tail(wire[Other(p)]) \in Seq(Control)
  BY <1>1
<1> QED BY <1>1, <1>2 DEF Taken, TypeOK

\* Posting a MsgStopLane keeps queue's type.
LEMMA PostType ==
  ASSUME TypeOK, NEW p \in Peer, NEW n \in Lane, NEW by \in {"socket", "channel"}
  PROVE  Post(p, by, n) \in [Peer -> Seq(StopLaneMsg)]
<1>1. [by |-> by, lane |-> n] \in StopLaneMsg
  BY DEF StopLaneMsg
<1> QED BY <1>1 DEF Post, TypeOK

\* AfterRead(s, k) is s with k chunks fewer and rd iff some are left.
LEMMA ReadType ==
  ASSUME NEW s \in Stream, NEW k \in 0..s.unread
  PROVE  /\ AfterRead(s, k) \in Stream
         /\ AfterRead(s, k).unread = s.unread - k
         /\ AfterRead(s, k).left = s.left
         /\ AfterRead(s, k).open = s.open
         /\ AfterRead(s, k).rd = (k < s.unread)
<1>1. s.unread - k \in 0..MaxChunk
  BY MaxChunkAssumption DEF Stream
<1>2. ASSUME NEW u \in 0..MaxChunk, NEW b \in BOOLEAN
      PROVE  LET t == [s EXCEPT !.unread = u, !.rd = b]
             IN  /\ t \in Stream
                 /\ t.unread = u /\ t.left = s.left /\ t.open = s.open /\ t.rd = b
  BY DEF Stream
<1>3. (k < s.unread) \in BOOLEAN
  OBVIOUS
<1> QED BY <1>1, <1>2, <1>3 DEF AfterRead

\* The streams the events leave: only the fields they name differ.
LEMMA StreamFields ==
  ASSUME NEW s \in Stream
  PROVE  /\ [s EXCEPT !.rd = FALSE] \in Stream
         /\ [s EXCEPT !.hup = FALSE] \in Stream
         /\ [s EXCEPT !.open = FALSE, !.hup = TRUE] \in Stream
         /\ [s EXCEPT !.rd = FALSE].unread = s.unread
         /\ [s EXCEPT !.rd = FALSE].left = s.left
         /\ [s EXCEPT !.rd = FALSE].open = s.open
         /\ [s EXCEPT !.hup = FALSE].unread = s.unread
         /\ [s EXCEPT !.hup = FALSE].left = s.left
         /\ [s EXCEPT !.hup = FALSE].open = s.open
         /\ [s EXCEPT !.hup = FALSE].rd = s.rd
         /\ [s EXCEPT !.open = FALSE, !.hup = TRUE].unread = s.unread
         /\ [s EXCEPT !.open = FALSE, !.hup = TRUE].left = s.left
         /\ [s EXCEPT !.open = FALSE, !.hup = TRUE].rd = s.rd
         /\ [s EXCEPT !.open = FALSE, !.hup = TRUE].open = FALSE
  BY DEF Stream

\* A new stream has nothing to read and MaxChunk chunks to come.
LEMMA NewStreamType ==
  /\ NoStream \in Stream /\ NewStream \in Stream
  /\ NoStream.unread = 0 /\ NoStream.left = 0
  /\ NewStream.unread = 0 /\ NewStream.left = MaxChunk /\ NewStream.open /\ ~NewStream.rd
<1>1. 0 \in 0..MaxChunk /\ MaxChunk \in 0..MaxChunk
  BY MaxChunkAssumption
<1>2. NoStream \in Stream
  BY <1>1 DEF NoStream, Stream
<1>3. NewStream \in Stream
  BY <1>1 DEF NewStream, Stream
<1> QED BY <1>2, <1>3 DEF NoStream, NewStream

\* A stream within the bounds in one lane keeps app's type and StreamBounds.
LEMMA AppUpdate ==
  ASSUME TypeOK, StreamBounds, NEW p \in Peer, NEW n \in Lane, NEW c \in Stream,
         c.unread + c.left <= MaxChunk, app' = [app EXCEPT ![p][n] = c]
  PROVE  /\ app' \in [Peer -> [Lane -> Stream]] /\ app'[p][n] = c
         /\ \A q \in Peer, m \in Lane : (q # p \/ m # n) => app'[q][m] = app[q][m]
         /\ StreamBounds'
<1>1. /\ app' \in [Peer -> [Lane -> Stream]] /\ app'[p][n] = c
      /\ \A q \in Peer, m \in Lane : (q # p \/ m # n) => app'[q][m] = app[q][m]
  <2>1. app \in [Peer -> [Lane -> Stream]]
    BY DEF TypeOK
  <2> QED BY <2>1, Update
<1>2. ASSUME NEW q \in Peer, NEW m \in Lane
      PROVE  app'[q][m].unread + app'[q][m].left <= MaxChunk
  <2>1. CASE q = p /\ m = n
    BY <1>1, <2>1
  <2>2. CASE q # p \/ m # n
    BY <1>1, <2>2 DEF StreamBounds
  <2> QED BY <2>1, <2>2
<1> QED BY <1>1, <1>2 DEF StreamBounds

\* DoReceiveLoop keeps the types of what it changes and StreamBounds.
LEMMA LoopType ==
  ASSUME TypeOK, StreamBounds, NEW p \in Peer, NEW n \in Lane, NEW r \in BOOLEAN,
         DoReceiveLoop(p, n, r)
  PROVE  /\ app' \in [Peer -> [Lane -> Stream]]
         /\ data' \in [Peer -> [Lane -> Nat]]
         /\ sent' \in [Peer -> [Lane -> Nat]]
         /\ queue' \in [Peer -> Seq(StopLaneMsg)]
         /\ StreamBounds'
<1> DEFINE s == app[p][n]
           passed(k) == /\ data' = [data EXCEPT ![p][n] = @ + k]
                        /\ sent' = [sent EXCEPT ![p][n] = @ + k]
<1>1. s \in Stream /\ s.unread \in Nat /\ s.left \in Nat /\ s.unread + s.left <= MaxChunk
  BY MaxChunkAssumption DEF TypeOK, Stream, StreamBounds
<1>2. Post(p, "socket", n) \in [Peer -> Seq(StopLaneMsg)]
  BY PostType
<1>3. ASSUME NEW k \in Nat, passed(k)
      PROVE  data' \in [Peer -> [Lane -> Nat]] /\ sent' \in [Peer -> [Lane -> Nat]]
  <2>1. data[p][n] + k \in Nat /\ sent[p][n] + k \in Nat
    BY DEF TypeOK
  <2> QED BY <1>3, <2>1 DEF TypeOK
<1>4. ASSUME NEW k \in 0..s.unread, app' = [app EXCEPT ![p][n] = AfterRead(s, k)]
      PROVE  app' \in [Peer -> [Lane -> Stream]] /\ StreamBounds'
  <2>1. /\ AfterRead(s, k) \in Stream
        /\ AfterRead(s, k).unread = s.unread - k
        /\ AfterRead(s, k).left = s.left
    BY <1>1, ReadType
  <2>2. AfterRead(s, k).unread + AfterRead(s, k).left <= MaxChunk
    BY <1>1, <2>1, MaxChunkAssumption
  <2> QED BY <1>4, <2>1, <2>2, AppUpdate
<1>5. CASE app' = [app EXCEPT ![p][n].rd = FALSE] /\ UNCHANGED <<data, sent, queue>>
  <2> DEFINE c == [s EXCEPT !.rd = FALSE]
  <2>1. c \in Stream /\ c.unread = s.unread /\ c.left = s.left
    BY <1>1, StreamFields
  <2>2. app' = [app EXCEPT ![p][n] = c]
    BY <1>5
  <2>3. app' \in [Peer -> [Lane -> Stream]] /\ StreamBounds'
    <3> HIDE DEF c
    <3> QED BY <1>1, <2>1, <2>2, AppUpdate
  <2> QED BY <1>5, <2>3 DEF TypeOK
<1>6. CASE /\ app' = [app EXCEPT ![p][n] = AfterRead(s, s.unread)] /\ passed(s.unread)
           /\ (queue' = queue \/ queue' = Post(p, "socket", n))
  <2>5. s.unread \in 0..s.unread
    BY <1>1
  <2>1. app' \in [Peer -> [Lane -> Stream]] /\ StreamBounds'
    BY <2>5, <1>4, <1>6
  <2>2. passed(s.unread) /\ s.unread \in Nat
    BY <1>1, <1>6
  <2>4. data' \in [Peer -> [Lane -> Nat]] /\ sent' \in [Peer -> [Lane -> Nat]]
    BY <2>2, <1>3
  <2>3. queue' \in [Peer -> Seq(StopLaneMsg)]
    BY <1>2, <1>6 DEF TypeOK
  <2> QED BY <2>1, <2>3, <2>4
<1>7. CASE \E k \in 0..s.unread :
             /\ k < s.unread /\ app' = [app EXCEPT ![p][n] = AfterRead(s, k + 1)]
             /\ passed(k) /\ queue' = Post(p, "socket", n)
  <2>1. PICK k \in 0..s.unread :
             /\ k < s.unread /\ app' = [app EXCEPT ![p][n] = AfterRead(s, k + 1)]
             /\ passed(k) /\ queue' = Post(p, "socket", n)
    BY <1>7
  <2>2. k + 1 \in 0..s.unread /\ k \in Nat
    BY <1>1, <2>1
  <2>3. app' \in [Peer -> [Lane -> Stream]] /\ StreamBounds'
    BY <1>4, <2>1, <2>2
  <2> QED BY <1>2, <1>3, <2>1, <2>2, <2>3
<1>8. QED
  BY <1>5, <1>6, <1>7 DEF DoReceiveLoop, SendChunks

\* Freed keeps conn's type, frees one connection and nothing else.
LEMMA FreedType ==
  ASSUME TypeOK, NEW p \in Peer, NEW n \in Lane
  PROVE  /\ Freed(p, n) \in [Peer -> [Lane -> Connection]]
         /\ Freed(p, n)[p][n].life = "freed"
         /\ \A q \in Peer, m \in Lane :
              /\ (q # p \/ m # n) => Freed(p,n)[q][m] = conn[q][m]
              /\ Freed(p,n)[q][m].ready = conn[q][m].ready
              /\ Freed(p,n)[q][m].block = conn[q][m].block
<1> DEFINE c == [conn[p][n] EXCEPT !.life = "freed", !.att = FALSE]
<1>1. conn[p][n] \in Connection
  BY DEF TypeOK
<1>2. c \in Connection /\ c.life = "freed" /\ c.ready = conn[p][n].ready /\ c.block = conn[p][n].block
  BY <1>1 DEF Connection, Life
<1>3. Freed(p, n) = [conn EXCEPT ![p][n] = c]
  BY DEF Freed
<1>4. conn \in [Peer -> [Lane -> Connection]]
  BY DEF TypeOK
<1>5. /\ Freed(p, n) \in [Peer -> [Lane -> Connection]] /\ Freed(p, n)[p][n] = c
      /\ \A q \in Peer, m \in Lane : (q # p \/ m # n) => Freed(p,n)[q][m] = conn[q][m]
  <2> HIDE DEF c
  <2> QED BY <1>2, <1>3, <1>4, Update
<1>6. QED
  <2> HIDE DEF c
  <2> QED BY <1>2, <1>5

\* Gone(p) keeps the types, clears p's side and leaves the other peer's alone.
LEMMA GoneType ==
  ASSUME TypeOK, NEW p \in Peer, Gone(p)
  PROVE  /\ up' \in [Peer -> BOOLEAN] /\ ~up'[p] /\ up'[Other(p)] = up[Other(p)]
         /\ ctl' \in [Peer -> {"connecting", "open", "closed"}]
         /\ listening' \in BOOLEAN /\ (listening' => listening)
         /\ chan' \in [Peer -> [Lane -> Channel]]
         /\ \A n \in Lane : chan'[p][n] = NoChannel /\ chan'[Other(p)][n] = chan[Other(p)][n]
         /\ conn' \in [Peer -> [Lane -> Connection]]
         /\ \A n \in Lane : conn'[Other(p)][n] = conn[Other(p)][n]
         /\ \A n \in Lane : /\ conn'[p][n].life = "none" <=> conn[p][n].life = "none"
                            /\ conn'[p][n].life # "live"
                            /\ conn'[p][n].ready = conn[p][n].ready
         /\ queue' \in [Peer -> Seq(StopLaneMsg)]
         /\ UNCHANGED <<target, wire, opening, app, data, sent, got>>
<1>1. NoChannel \in Channel
  BY DEF NoChannel, Channel, ChannelState
<1>2. /\ chan' \in [Peer -> [Lane -> Channel]]
      /\ \A n \in Lane : chan'[p][n] = NoChannel /\ chan'[Other(p)][n] = chan[Other(p)][n]
  BY <1>1, PeerFacts DEF TypeOK, Gone
<1> DEFINE r == [n \in Lane |-> IF Live(p, n) THEN Freed(p, n)[p][n] ELSE conn[p][n]]
<1>3. \A n \in Lane : /\ r[n] \in Connection
                      /\ r[n].life = "none" <=> conn[p][n].life = "none"
                      /\ r[n].life # "live"
                      /\ r[n].ready = conn[p][n].ready
  <2> SUFFICES ASSUME NEW n \in Lane
               PROVE  /\ r[n] \in Connection
                      /\ r[n].life = "none" <=> conn[p][n].life = "none"
                      /\ r[n].life # "live"
                      /\ r[n].ready = conn[p][n].ready
    OBVIOUS
  <2>1. CASE Live(p, n)
    <3>1. r[n] = Freed(p, n)[p][n]
      BY <2>1
    <3>2. r[n] \in Connection /\ r[n].life = "freed" /\ r[n].ready = conn[p][n].ready
      <4> HIDE DEF r
      <4> QED BY <3>1, FreedType
    <3> HIDE DEF r
    <3> QED BY <2>1, <3>2 DEF Live
  <2>2. CASE ~Live(p, n)
    <3>1. r[n] = conn[p][n]
      BY <2>2
    <3> HIDE DEF r
    <3> QED BY <2>2, <3>1 DEF Live, TypeOK
  <2> QED BY <2>1, <2>2
<1>4. conn' = [conn EXCEPT ![p] = r] /\ DOMAIN r = Lane /\ r = [n \in Lane |-> r[n]]
  BY DEF Gone
<1>5. conn' \in [Peer -> [Lane -> Connection]] /\ conn'[p] = r /\ conn'[Other(p)] = conn[Other(p)]
  <2> HIDE DEF r
  <2> QED BY <1>3, <1>4, PeerFacts DEF TypeOK
<1>6. queue' \in [Peer -> Seq(StopLaneMsg)]
  BY DEF Gone, TypeOK
<1>7. /\ up' \in [Peer -> BOOLEAN] /\ ~up'[p] /\ up'[Other(p)] = up[Other(p)]
      /\ ctl' \in [Peer -> {"connecting", "open", "closed"}]
      /\ listening' \in BOOLEAN /\ (listening' => listening)
  BY PeerFacts DEF Gone, TypeOK
<1> QED
  <2> HIDE DEF r
  <2> QED BY <1>2, <1>3, <1>5, <1>6, <1>7 DEF Gone

\* The records the handlers send are control messages.
LEMMA MessageTypes ==
  /\ [id |-> "MsgCreateChannel"] \in Control /\ [id |-> "MsgChannelCreated"] \in Control
  /\ \A n \in Lane : [id |-> "MsgServerSideReady", lane |-> n] \in Control
  /\ \A n \in Lane : [id |-> "MsgDeleteChannel", lane |-> n] \in Control
  BY DEF Control

\* NewConnection returns a Connection.
LEMMA NewConnectionType ==
  ASSUME NEW att \in BOOLEAN, NEW ready \in BOOLEAN, NEW b \in Block
  PROVE  NewConnection(att, ready, b) \in Connection
  BY DEF NewConnection, Connection, Life

\* CloseConnection keeps the types of conn and wire.
LEMMA CloseType ==
  ASSUME TypeOK, NEW p \in Peer, NEW m \in Lane, NEW a \in BOOLEAN, CloseConnection(p, m, a)
  PROVE  conn' \in [Peer -> [Lane -> Connection]] /\ wire' \in [Peer -> Seq(Control)]
<1>1. conn' \in [Peer -> [Lane -> Connection]]
  BY FreedType DEF CloseConnection
<1>2. Put(p, [id |-> "MsgDeleteChannel", lane |-> m]) \in [Peer -> Seq(Control)]
  BY WireType, MessageTypes
<1>3. wire \in [Peer -> Seq(Control)]
  BY DEF TypeOK
<1> QED BY <1>1, <1>2, <1>3 DEF CloseConnection, DeleteRemoteChannel

\* Every handler of either Conductor keeps the types and the stream bounds.
LEMMA TypeStep ==
  ASSUME TypeOK, StreamBounds, [Next]_vars
  PROVE  TypeOK' /\ StreamBounds'
<1> USE PeerFacts
<1>1. CASE OnCreateChannel
  <2>1. wire["client"] \in Seq(Control) /\ wire["client"] # <<>> /\ wire["server"] \in Seq(Control)
    BY <1>1 DEF OnCreateChannel, ChannelCreated, Received, TypeOK
  <2>2. /\ Tail(wire["client"]) \in Seq(Control)
        /\ Append(wire["server"], [id |-> "MsgChannelCreated"]) \in Seq(Control)
    BY <2>1, MessageTypes
  <2>3. wire' \in [Peer -> Seq(Control)]
    BY <1>1, <2>2 DEF OnCreateChannel, ChannelCreated, TypeOK
  <2> QED BY <1>1, <2>3 DEF OnCreateChannel, ChannelCreated, TypeOK, StreamBounds
<1>2. CASE OnChannelCreated
  <2>1. wire' \in [Peer -> Seq(Control)]
    BY <1>2, TakenType DEF OnChannelCreated, Listen, Received
  <2> QED BY <1>2, <2>1 DEF OnChannelCreated, Listen, TypeOK, StreamBounds
<1>3. ASSUME NEW p \in Peer, OnControlDataChannelOpen(p) PROVE TypeOK' /\ StreamBounds'
  <2>1. wire' \in [Peer -> Seq(Control)]
    BY <1>3, WireType, MessageTypes
        DEF OnControlDataChannelOpen, ControlState, CreateChannel, TypeOK
  <2> QED BY <1>3, <2>1
      DEF OnControlDataChannelOpen, ControlState, CreateChannel, TypeOK, StreamBounds
<1>4. ASSUME NEW p \in Peer, OnControlDataChannelClosed(p) PROVE TypeOK' /\ StreamBounds'
  BY <1>4 DEF OnControlDataChannelClosed, ControlState, StopListening, TypeOK, StreamBounds
<1>5. ASSUME NEW p \in Peer, Gone(p), fault' \in {"none", "useAfterFree", "nullDereference"}
      PROVE TypeOK' /\ StreamBounds'
  <2>1. UNCHANGED <<target, wire, opening, app, data, sent, got>>
    BY <1>5 DEF Gone
  <2> QED BY <1>5, <2>1, GoneType DEF TypeOK, StreamBounds
<1>6. ASSUME NEW p \in Peer, NEW kind \in {"none", "useAfterFree", "nullDereference"}, Crash(p, kind)
      PROVE  TypeOK' /\ StreamBounds'
  BY <1>5, <1>6 DEF Crash, TypeOK
<1>7. ASSUME NEW n \in Lane, OnServerSideReady(n) PROVE TypeOK' /\ StreamBounds'
  <2>1. wire["server"] # <<>>
    BY <1>7 DEF OnServerSideReady, Received
  <2>2. Taken("client") \in [Peer -> Seq(Control)]
    BY <2>1, TakenType
  <2>3. ASSUME NEW m \in Lane,
               conn' = [conn EXCEPT !["client"][m].ready = TRUE],
               SocketReadEvent("client", m), wire' = Taken("client"),
               fault' \in {"none", "useAfterFree", "nullDereference"},
               UNCHANGED <<up, ctl, listening, target, opening, chan, got>>
        PROVE  TypeOK' /\ StreamBounds'
    <3>1. conn' \in [Peer -> [Lane -> Connection]]
      BY <2>3, ReadyUpdate
    <3>2. /\ app' \in [Peer -> [Lane -> Stream]]
          /\ data' \in [Peer -> [Lane -> Nat]] /\ sent' \in [Peer -> [Lane -> Nat]]
          /\ queue' \in [Peer -> Seq(StopLaneMsg)] /\ StreamBounds'
      BY <2>3, LoopType DEF SocketReadEvent
    <3> QED BY <2>2, <2>3, <3>1, <3>2 DEF TypeOK
  <2>4. CASE UNCHANGED <<up, fault, ctl, listening, target, opening, chan,
                         conn, app, data, sent, got, queue>> /\ wire' = Taken("client")
    BY <2>2, <2>4 DEF TypeOK, StreamBounds
  <2>5. Used => fault' \in {"none", "useAfterFree", "nullDereference"}
    BY DEF Used, TypeOK
  <2>6. UNCHANGED fault => fault' \in {"none", "useAfterFree", "nullDereference"}
    BY DEF TypeOK
  <2> QED BY <1>6, <1>7, <2>3, <2>4, <2>5, <2>6 DEF OnServerSideReady, Heirs
<1>8. ASSUME NEW p \in Peer, NEW n \in Lane, OnStopChannel(p, n) PROVE TypeOK' /\ StreamBounds'
  <2>1. wire' \in [Peer -> Seq(Control)]
    BY <1>8, TakenType DEF OnStopChannel, Received
  <2>2. chan' \in [Peer -> [Lane -> Channel]]
    <3>1. /\ [chan EXCEPT ![p][n].st = "null"] \in [Peer -> [Lane -> Channel]]
          /\ [chan EXCEPT ![p][n].cbr = TRUE] \in [Peer -> [Lane -> Channel]]
      BY ChannelUpdate DEF ChannelState
    <3> QED BY <1>8, <3>1 DEF OnStopChannel
  <2>3. queue' \in [Peer -> Seq(StopLaneMsg)]
    <3>1. Post(p, "channel", n) \in [Peer -> Seq(StopLaneMsg)] /\ queue \in [Peer -> Seq(StopLaneMsg)]
      BY PostType DEF TypeOK
    <3> QED BY <1>8, <3>1 DEF OnStopChannel
  <2> QED BY <1>8, <2>1, <2>2, <2>3 DEF OnStopChannel, TypeOK, StreamBounds
<1>9. ASSUME NEW n \in Lane, OnSocketOpen(n) PROVE TypeOK' /\ StreamBounds'
  <2>1. app' \in [Peer -> [Lane -> Stream]] /\ StreamBounds'
    <3>1. NewStream \in Stream /\ NewStream.unread + NewStream.left <= MaxChunk
      BY NewStreamType, MaxChunkAssumption
    <3>2. app' = [app EXCEPT !["client"][n] = NewStream]
      BY <1>9 DEF OnSocketOpen, Accepts, HandleConnection
    <3> QED BY <3>1, <3>2, AppUpdate
  <2>2. [st |-> "connecting", sock |-> TRUE, cbr |-> FALSE] \in Channel
    BY DEF Channel, ChannelState
  <2>3. PICK b \in Block : 
          \/ /\ chan' = [chan EXCEPT !["client"][n] =
                            [st |-> "connecting", sock |-> TRUE, cbr |-> FALSE]]
             /\ conn' = [conn EXCEPT !["client"][n] = NewConnection(TRUE, FALSE, b)]
          \/ /\ conn' = [conn EXCEPT !["client"][n] = NewConnection(FALSE, FALSE, b)]
             /\ UNCHANGED chan
    BY <1>9 DEF OnSocketOpen, Accepts, HandleConnection, FreeBlocks
  <2>4. NewConnection(TRUE, FALSE, b) \in Connection /\ NewConnection(FALSE, FALSE, b) \in Connection
    BY NewConnectionType
  <2>5. chan' \in [Peer -> [Lane -> Channel]]
    <3>1. chan \in [Peer -> [Lane -> Channel]]
      BY DEF TypeOK
    <3> DEFINE c == [st |-> "connecting", sock |-> TRUE, cbr |-> FALSE]
    <3>2. chan' = [chan EXCEPT !["client"][n] = c] \/ chan' = chan
      BY <2>3
    <3>3. c \in Channel
      BY <2>2
    <3> HIDE DEF c
    <3> QED BY <3>1, <3>2, <3>3
  <2>6. conn' \in [Peer -> [Lane -> Connection]]
    <3>1. conn \in [Peer -> [Lane -> Connection]]
      BY DEF TypeOK
    <3>2. PICK c \in Connection : conn' = [conn EXCEPT !["client"][n] = c]
      BY <2>3, <2>4
    <3> QED BY <3>1, <3>2
  <2> QED BY <1>9, <2>1, <2>5, <2>6 DEF OnSocketOpen, Accepts, HandleConnection, TypeOK
<1>10. ASSUME NEW n \in Lane, ClientChannelOpen(n) PROVE TypeOK' /\ StreamBounds'
  <2>1. chan' \in [Peer -> [Lane -> Channel]]
    BY <1>10, ChannelUpdate DEF ClientChannelOpen, ChannelState
  <2> QED BY <1>10, <2>1 DEF ClientChannelOpen, TypeOK, StreamBounds
<1>11. ASSUME NEW n \in Lane, OnDataChannel(n) PROVE TypeOK' /\ StreamBounds'
  <2>1. chan' \in [Peer -> [Lane -> Channel]]
    BY <1>11, ChannelUpdate DEF OnDataChannel, ChannelState, TypeOK
  <2> QED BY <1>11, <2>1 DEF OnDataChannel, TypeOK, StreamBounds
<1>12. ASSUME NEW n \in Lane, OnSocketDataChannelOpen(n) PROVE TypeOK' /\ StreamBounds'
  <2>1. CASE \E b \in FreeBlocks("server") :
             /\ chan' = AttachSocket(n)
             /\ conn' = [conn EXCEPT !["server"][n] = NewConnection(TRUE, TRUE, b)]
             /\ app' = [app EXCEPT !["server"][n] = NewStream]
             /\ wire' = Put("server", [id |-> "MsgServerSideReady", lane |-> n])
             /\ UNCHANGED queue
    <3>1. PICK b \in Block : conn' = [conn EXCEPT !["server"][n] = NewConnection(TRUE, TRUE, b)]
      BY <2>1 DEF FreeBlocks
    <3>2. conn' \in [Peer -> [Lane -> Connection]]
      BY <3>1, NewConnectionType DEF TypeOK
    <3>3. app' \in [Peer -> [Lane -> Stream]] /\ StreamBounds'
      <4>1. NewStream \in Stream /\ NewStream.unread + NewStream.left <= MaxChunk
        BY NewStreamType, MaxChunkAssumption
      <4> QED BY <2>1, <4>1, AppUpdate
    <3>4. chan' \in [Peer -> [Lane -> Channel]]
      BY <2>1, AttachType
    <3>5. wire' \in [Peer -> Seq(Control)]
      BY <2>1, WireType, MessageTypes
    <3> QED BY <1>12, <2>1, <3>2, <3>3, <3>4, <3>5
        DEF OnSocketDataChannelOpen, Connect, HandleConnection, StopChannel, TypeOK
  <2>2. CASE /\ chan' = [chan EXCEPT !["server"][n] = [@ EXCEPT !.st = "open", !.cbr = TRUE]]
             /\ queue' = Post("server", "channel", n)
             /\ UNCHANGED <<conn, app, wire>>
    <3>1. chan["server"][n] \in Channel
      BY DEF TypeOK
    <3>2. [chan["server"][n] EXCEPT !.st = "open", !.cbr = TRUE] \in Channel
      BY <3>1 DEF Channel, ChannelState
    <3>3. chan' \in [Peer -> [Lane -> Channel]]
      BY <2>2, <3>2, Update DEF TypeOK
    <3>4. queue' \in [Peer -> Seq(StopLaneMsg)]
      BY <2>2, PostType
    <3> QED BY <1>12, <2>2, <3>3, <3>4
        DEF OnSocketDataChannelOpen, Connect, HandleConnection, StopChannel, TypeOK,
            StreamBounds
  <2> QED BY <1>12, <2>1, <2>2
      DEF OnSocketDataChannelOpen, Connect, HandleConnection, StopChannel, ServerSideReady
<1>13. ASSUME NEW p \in Peer, NEW n \in Lane, AppWrite(p, n) PROVE TypeOK' /\ StreamBounds'
  <2> DEFINE c == AfterWrite(app[p][n])
  <2>1. app[p][n] \in Stream /\ app[p][n].left > 0 /\ app[p][n].unread + app[p][n].left <= MaxChunk
    BY <1>13 DEF TypeOK, AppWrite, StreamBounds
  <2>2. /\ app[p][n].left - 1 \in 0..MaxChunk /\ app[p][n].unread + 1 \in 0..MaxChunk
        /\ (app[p][n].unread + 1) + (app[p][n].left - 1) <= MaxChunk
    BY <2>1, MaxChunkAssumption DEF Stream
  <2>3. c \in Stream /\ c.unread = app[p][n].unread + 1 /\ c.left = app[p][n].left - 1
    BY <2>1, <2>2 DEF Stream, AfterWrite
  <2>4. app' = [app EXCEPT ![p][n] = c]
    BY <1>13 DEF AppWrite
  <2>5. app' \in [Peer -> [Lane -> Stream]] /\ StreamBounds'
    <3> HIDE DEF c
    <3> QED BY <2>2, <2>3, <2>4, AppUpdate
  <2> QED BY <1>13, <2>5 DEF AppWrite, TypeOK
<1>14. ASSUME NEW p \in Peer, NEW n \in Lane, AppClose(p, n) PROVE TypeOK' /\ StreamBounds'
  <2> DEFINE c == [app[p][n] EXCEPT !.open = FALSE, !.hup = TRUE]
  <2>1. app[p][n] \in Stream /\ app[p][n].unread + app[p][n].left <= MaxChunk
    BY DEF TypeOK, StreamBounds
  <2>2. c \in Stream /\ c.unread = app[p][n].unread /\ c.left = app[p][n].left
    BY <2>1, StreamFields
  <2>3. app' = [app EXCEPT ![p][n] = c]
    BY <1>14 DEF AppClose
  <2>4. app' \in [Peer -> [Lane -> Stream]] /\ StreamBounds'
    <3> HIDE DEF c
    <3> QED BY <2>1, <2>2, <2>3, AppUpdate
  <2> QED BY <1>14, <2>4 DEF AppClose, TypeOK
<1>15. ASSUME NEW p \in Peer, NEW n \in Lane, ReadEvent(p, n) PROVE TypeOK' /\ StreamBounds'
  <2>1. CASE Crash(p, "nullDereference")
    BY <1>6, <2>1
  <2>2. CASE /\ DoReceiveLoop(p, n, conn[p][n].ready)
             /\ UNCHANGED <<up, fault, ctl, listening, target, wire, opening, chan, conn, got>>
    <3>1. conn[p][n].ready \in BOOLEAN
      BY DEF TypeOK, Connection
    <3>2. /\ app' \in [Peer -> [Lane -> Stream]]
          /\ data' \in [Peer -> [Lane -> Nat]] /\ sent' \in [Peer -> [Lane -> Nat]]
          /\ queue' \in [Peer -> Seq(StopLaneMsg)] /\ StreamBounds'
      BY <2>2, <3>1, LoopType
    <3> QED BY <2>2, <3>2 DEF TypeOK
  <2> QED BY <1>15, <2>1, <2>2 DEF ReadEvent
<1>16. ASSUME NEW p \in Peer, NEW n \in Lane, CloseEvent(p, n) PROVE TypeOK' /\ StreamBounds'
  <2> DEFINE c == [app[p][n] EXCEPT !.hup = FALSE]
  <2>1. app[p][n] \in Stream /\ app[p][n].unread + app[p][n].left <= MaxChunk
    BY DEF TypeOK, StreamBounds
  <2>2. c \in Stream /\ c.unread = app[p][n].unread /\ c.left = app[p][n].left
    BY <2>1, StreamFields
  <2>3. app' = [app EXCEPT ![p][n] = c]
    BY <1>16 DEF CloseEvent
  <2>4. app' \in [Peer -> [Lane -> Stream]] /\ StreamBounds'
    <3> HIDE DEF c
    <3> QED BY <2>1, <2>2, <2>3, AppUpdate
  <2>5. queue' \in [Peer -> Seq(StopLaneMsg)]
    BY <1>16, PostType DEF CloseEvent
  <2> QED BY <1>16, <2>4, <2>5 DEF CloseEvent, TypeOK
<1>17. ASSUME NEW p \in Peer, NEW n \in Lane, OnMessage(p, n) PROVE TypeOK' /\ StreamBounds'
  <2> DEFINE q == Other(p)
             deliver(m) == \/ got' = [got EXCEPT ![p][m] = @ + 1] /\ UNCHANGED queue
                           \/ queue' = Post(p, "socket", m) /\ UNCHANGED got
             quiet == UNCHANGED <<up, ctl, listening, target, wire, opening, chan,
                                  conn, app, sent>>
  <2>1. CASE Crash(p, "useAfterFree")
    BY <1>6, <2>1
  <2>2. ASSUME data' = [data EXCEPT ![q][n] = @ - 1],
               (\E m \in Lane : deliver(m)) \/ UNCHANGED <<got, queue>>,
               Used \/ UNCHANGED fault,
               quiet
        PROVE  TypeOK' /\ StreamBounds'
    <3>1. data[q][n] - 1 \in Nat
      <4>1. data[q][n] > 0
        BY <1>17 DEF OnMessage
      <4>2. data[q][n] \in Nat
        BY DEF TypeOK
      <4> HIDE DEF q
      <4> QED BY <4>1, <4>2
    <3>2. data' \in [Peer -> [Lane -> Nat]]
      BY <2>2, <3>1 DEF TypeOK
    <3>3. got' \in [Peer -> [Lane -> Nat]]
      <4>1. ASSUME NEW m \in Lane, deliver(m) PROVE got' \in [Peer -> [Lane -> Nat]]
        <5>0. got \in [Peer -> [Lane -> Nat]]
          BY DEF TypeOK
        <5>1. got[p][m] + 1 \in Nat /\ got \in [Peer -> [Lane -> Nat]]
          BY <5>0
        <5>2. got' = [got EXCEPT ![p][m] = got[p][m] + 1] \/ got' = got
          BY <4>1
        <5> QED BY <5>1, <5>2
      <4>2. CASE UNCHANGED <<got, queue>>
        BY <4>2 DEF TypeOK
      <4> QED BY <2>2, <4>1, <4>2
    <3>4. queue' \in [Peer -> Seq(StopLaneMsg)]
      <4>1. queue \in [Peer -> Seq(StopLaneMsg)]
        BY DEF TypeOK
      <4>2. \A m \in Lane : Post(p, "socket", m) \in [Peer -> Seq(StopLaneMsg)]
        BY PostType
      <4> QED BY <2>2, <4>1, <4>2
    <3>5. fault' \in {"none", "useAfterFree", "nullDereference"}
      BY <2>2 DEF Used, TypeOK
    <3> QED BY <2>2, <3>2, <3>3, <3>4, <3>5 DEF TypeOK, StreamBounds
  <2> QED BY <1>17, <2>1, <2>2 DEF OnMessage, Heirs
<1>18. ASSUME NEW p \in Peer, NEW n \in Lane, OnSocketDataChannelClosed(p, n) PROVE TypeOK' /\ StreamBounds'
  <2>1. chan[p][n] \in Channel
    BY DEF TypeOK
  <2>2. [chan[p][n] EXCEPT !.st = "closed", !.sock = FALSE] \in Channel
    BY <2>1 DEF Channel, ChannelState
  <2>3. chan' = [chan EXCEPT ![p][n] = [chan[p][n] EXCEPT !.st = "closed", !.sock = FALSE]]
    BY <1>18 DEF OnSocketDataChannelClosed
  <2>4. chan' \in [Peer -> [Lane -> Channel]]
    BY <2>2, <2>3, Update DEF TypeOK
  <2> QED BY <1>18, <2>4 DEF OnSocketDataChannelClosed, TypeOK, StreamBounds
<1>19. ASSUME NEW p \in Peer, DeleteConnectionLane(p) PROVE TypeOK' /\ StreamBounds'
  <2>1. queue[p] \in Seq(StopLaneMsg) /\ queue[p] # <<>>
    BY <1>19 DEF DeleteConnectionLane, TypeOK
  <2>2. Head(queue[p]) \in StopLaneMsg /\ Tail(queue[p]) \in Seq(StopLaneMsg)
    BY <2>1
  <2> DEFINE n == Head(queue[p]).lane
  <2>3. n \in Lane
    BY <2>2 DEF StopLaneMsg
  <2>4. CASE Crash(p, "useAfterFree")
    BY <1>6, <2>4
  <2>5. CASE /\ DeleteLaneOfSocket(p, n) \/ DeleteLaneOfChannel(p, n)
             /\ queue' = [queue EXCEPT ![p] = Tail(@)]
             /\ UNCHANGED <<up, ctl, listening, target, opening, chan, app, data, sent, got>>
    <3> HIDE DEF n
    <3>1. queue' \in [Peer -> Seq(StopLaneMsg)]
      BY <2>2, <2>5 DEF TypeOK
    <3>2. fault' \in {"none", "useAfterFree", "nullDereference"}
      BY <2>5 DEF DeleteLaneOfSocket, DeleteLaneOfChannel, Used, TypeOK
    <3>3. \A m \in Lane : chan[p][m].cbr \in BOOLEAN
      BY DEF TypeOK, Channel
    <3>4. conn \in [Peer -> [Lane -> Connection]] /\ wire \in [Peer -> Seq(Control)]
      BY DEF TypeOK
    <3>5. conn' \in [Peer -> [Lane -> Connection]] /\ wire' \in [Peer -> Seq(Control)]
      <4>1. CASE DeleteLaneOfSocket(p, n)
        BY <2>3, <3>3, <3>4, <4>1, CloseType DEF DeleteLaneOfSocket, Heirs
      <4>2. CASE DeleteLaneOfChannel(p, n)
        <5>1. CASE UNCHANGED <<conn, wire>>
          BY <3>4, <5>1
        <5>2. CASE CloseConnection(p, n, ~chan[p][n].cbr)
          BY <2>3, <3>3, <5>2, CloseType
        <5>3. CASE /\ UNCHANGED conn \/ \E m \in Heirs(p, n) : conn' = Freed(p, m)
                   /\ wire' = IF chan[p][n].cbr THEN wire
                              ELSE Put(p, [id |-> "MsgDeleteChannel", lane |-> n])
          <6>1. Put(p, [id |-> "MsgDeleteChannel", lane |-> n]) \in [Peer -> Seq(Control)]
            BY <2>3, WireType, MessageTypes
          <6>2. \A m \in Lane : Freed(p, m) \in [Peer -> [Lane -> Connection]]
            BY FreedType
          <6> QED BY <3>4, <5>3, <6>1, <6>2 DEF Heirs
        <5> QED BY <4>2, <5>1, <5>2, <5>3 DEF DeleteLaneOfChannel, DeleteRemoteChannel
      <4> QED BY <2>5, <4>1, <4>2
    <3> QED BY <2>5, <3>1, <3>2, <3>5 DEF TypeOK, StreamBounds
  <2> QED BY <1>19, <2>4, <2>5 DEF DeleteConnectionLane
<1>20. ASSUME NEW p \in Peer, Close(p) PROVE TypeOK' /\ StreamBounds'
  BY <1>5, <1>20 DEF Close, TypeOK
<1>21. CASE UNCHANGED vars
  BY <1>21 DEF vars, TypeOK, StreamBounds
<1> QED
  BY <1>1, <1>2, <1>3, <1>4, <1>7, <1>8, <1>9, <1>10, <1>11, <1>12, <1>13, <1>14, <1>15,
     <1>16, <1>17, <1>18, <1>19, <1>20, <1>21 DEF Next

-----------------------------------------------------------------------------
\* What Inductive says beyond the types and bounds.
Rest ==
    /\ TargetFirst
    /\ ChannelFirst
    /\ Attached
    /\ ServerFirst
    /\ NothingDropped
    /\ NoLostWakeup

\* No message is on its way that was not before, but msg of peer p.
OnlyNew(p, msg) ==
    \A q \in Peer : \A i \in 1..Len(wire'[q]) :
        \/ \E j \in 1..Len(wire[q]) : wire'[q][i] = wire[q][j]
        \/ q = p /\ wire'[q][i] = msg

\* Appending msg to p's wire brings only msg.
LEMMA AppendOnlyNew ==
  ASSUME TypeOK, NEW p \in Peer, NEW msg \in Control,
         wire' = [wire EXCEPT ![p] = Append(@, msg)]
  PROVE  OnlyNew(p, msg)
<1> SUFFICES ASSUME NEW q \in Peer, NEW i \in 1..Len(wire'[q])
             PROVE  \/ \E j \in 1..Len(wire[q]) : wire'[q][i] = wire[q][j]
                    \/ q = p /\ wire'[q][i] = msg
  BY DEF OnlyNew
<1>1. wire[q] \in Seq(Control) /\ wire[p] \in Seq(Control)
  BY DEF TypeOK
<1>2. CASE q = p
  <2>1. wire'[p] = Append(wire[p], msg)
    BY DEF TypeOK
  <2> QED BY <1>1, <1>2, <2>1
<1>3. CASE q # p
  <2>1. wire'[q] = wire[q]
    BY <1>3 DEF TypeOK
  <2> QED BY <2>1
<1> QED BY <1>2, <1>3

\* An unchanged wire brings nothing.
LEMMA SameOnlyNew ==
  ASSUME TypeOK, UNCHANGED wire, NEW p, NEW msg
  PROVE  OnlyNew(p, msg)
  BY DEF OnlyNew

\* A control Send brings at most its message.
LEMMA PutOnlyNew ==
  ASSUME TypeOK, NEW p \in Peer, NEW msg \in Control, wire' = Put(p, msg)
  PROVE  OnlyNew(p, msg)
  BY AppendOnlyNew, SameOnlyNew DEF Put

\* Receiving brings nothing.
LEMMA TakenOnlyNew ==
  ASSUME TypeOK, NEW p \in Peer, wire[Other(p)] # <<>>, wire' = Taken(p), NEW r, NEW msg
  PROVE  OnlyNew(r, msg)
<1> SUFFICES ASSUME NEW q \in Peer, NEW i \in 1..Len(wire'[q])
             PROVE  \E j \in 1..Len(wire[q]) : wire'[q][i] = wire[q][j]
  BY DEF OnlyNew
<1>1. wire[q] \in Seq(Control) /\ Other(p) \in Peer
  BY PeerFacts DEF TypeOK
<1>2. CASE q = Other(p)
  <2>1. wire'[q] = Tail(wire[q])
    BY <1>1, <1>2 DEF TypeOK, Taken
  <2>2. i + 1 \in 1..Len(wire[q]) /\ wire'[q][i] = wire[q][i + 1]
    BY <1>1, <1>2, <2>1
  <2> QED BY <2>2
<1>3. CASE q # Other(p)
  <2>1. wire'[q] = wire[q]
    BY <1>1, <1>3 DEF TypeOK, Taken
  <2> QED BY <2>1
<1> QED BY <1>2, <1>3

\* A received message is the first on its way.
LEMMA ReceivedFirst ==
  ASSUME TypeOK, NEW p \in Peer, NEW id, Received(p, id)
  PROVE  /\ wire[Other(p)] # <<>>
         /\ 1 \in 1..Len(wire[Other(p)])
         /\ wire[Other(p)][1] = Head(wire[Other(p)])
         /\ wire[Other(p)][1].id = id
<1>1. wire[Other(p)] \in Seq(Control) /\ wire[Other(p)] # <<>>
  BY PeerFacts DEF TypeOK, Received
<1> QED BY <1>1 DEF Received

-----------------------------------------------------------------------------
(* What the conjuncts of Rest say of steps that leave their state alone.   *)

\* TargetFirst survives a step that starts no lane and knows no new channel.
LEMMA TargetSame ==
  ASSUME Rest, NEW p, NEW msg, OnlyNew(p, msg),
         p = "server" /\ msg.id = "MsgChannelCreated" => target',
         target => target', listening' => listening \/ target',
         opening' \subseteq opening,
         \A n \in Lane : conn'["client"][n].life = "none" <=> conn["client"][n].life = "none",
         \A n \in Lane : conn'["server"][n].life = "none" <=> conn["server"][n].life = "none",
         \A q \in Peer, n \in Lane : Known(q, n)' => Known(q, n)
  PROVE  TargetFirst'
<1>1. TargetFirst
  BY DEF Rest
<1>2. (\E i \in 1..Len(wire'["server"]) : wire'["server"][i].id = "MsgChannelCreated") => target'
  <2> SUFFICES ASSUME NEW i \in 1..Len(wire'["server"]),
                      wire'["server"][i].id = "MsgChannelCreated"
               PROVE  target'
    OBVIOUS
  <2> QED BY <1>1, PeerFacts DEF OnlyNew, TargetFirst
<1>3. \A n \in Lane :
          /\ conn'["client"][n].life # "none" => target'
          /\ Known("client", n)' => conn'["client"][n].life # "none"
          /\ n \in opening' => conn'["client"][n].life # "none"
          /\ Known("server", n)' => conn'["client"][n].life # "none"
          /\ conn'["server"][n].life # "none" => target'
  BY <1>1, PeerFacts DEF TargetFirst
<1> QED BY <1>1, <1>2, <1>3 DEF TargetFirst

\* ChannelFirst survives a step that opens no channel and readies no client.
LEMMA ChannelSame ==
  ASSUME Rest,
         \A n \in Lane : conn'["server"][n].life = "none" <=> conn["server"][n].life = "none",
         \A n \in Lane : conn'["client"][n].ready => conn["client"][n].ready,
         \A n \in Lane : Known("server", n)' => Known("server", n),
         \A n \in Lane : chan'["client"][n].st \in {"absent", "null", "connecting"}
                            => chan["client"][n].st \in {"absent", "null", "connecting"}
                               \/ ~up'["client"],
         opening' \subseteq opening, up'["client"] => up["client"], Sane' => Sane
  PROVE  ChannelFirst'
  BY DEF Rest, ChannelFirst

\* Attached survives a step that closes, clears or leaves alone each channel.
LEMMA AttachedSame ==
  ASSUME Rest,
         \A n \in Lane : conn'["server"][n].life = "none" <=> conn["server"][n].life = "none",
         \A q \in Peer, n \in Lane :
            \/ chan'[q][n].st = chan[q][n].st /\ chan'[q][n].sock = chan[q][n].sock
            \/ chan'[q][n].st = "closed"
            \/ chan'[q][n].st = "absent" /\ ~up'[q]
            \/ chan'[q][n].st = "null" /\ chan[q][n].st = "absent",
         up'["server"] => up["server"]
  PROVE  Attached'
<1>1. Attached
  BY DEF Rest
<1> QED BY <1>1, PeerFacts DEF Attached

\* ServerFirst survives a step without ServerSideReady or new client data.
LEMMA ServerSame ==
  ASSUME Rest, NEW p, NEW msg, OnlyNew(p, msg),
         ~(p = "server" /\ msg.id = "MsgServerSideReady"),
         \A n \in Lane : conn'["server"][n].life = "none" => conn["server"][n].life = "none",
         \A n \in Lane : conn'["client"][n].ready => conn["client"][n].ready,
         Sane' => \A n \in Lane : data'["client"][n] > 0 =>
                      data["client"][n] > 0 \/ conn'["server"][n].life # "none",
         Sane' => Sane
  PROVE  ServerFirst'
<1>1. ServerFirst
  BY DEF Rest
<1>2. ASSUME NEW n \in Lane, InWire("server", "MsgServerSideReady", n)'
      PROVE  conn'["server"][n].life # "none"
  <2>1. PICK i \in 1..Len(wire'["server"]) :
           wire'["server"][i].id = "MsgServerSideReady" /\ wire'["server"][i].lane = n
    BY <1>2 DEF InWire
  <2>2. \E j \in 1..Len(wire["server"]) : wire'["server"][i] = wire["server"][j]
    BY <2>1, PeerFacts DEF OnlyNew
  <2>3. InWire("server", "MsgServerSideReady", n)
    BY <2>1, <2>2 DEF InWire
  <2> QED BY <1>1, <2>3 DEF ServerFirst
<1>3. ASSUME NEW n \in Lane, Sane'
      PROVE  /\ conn'["client"][n].ready => conn'["server"][n].life # "none"
             /\ data'["client"][n] > 0 => conn'["server"][n].life # "none"
  BY <1>1, <1>3 DEF ServerFirst
<1> QED BY <1>2, <1>3 DEF ServerFirst

\* NothingDropped survives a step that moves no chunk and brings up no end.
LEMMA DroppedSame ==
  ASSUME Rest,
         \A q \in Peer, n \in Lane :
            /\ conn'[q][n].life = "none" => conn[q][n].life = "none"
            /\ Live(q, n)' => Live(q, n)
            /\ app'[q][n].open => app[q][n].open,
         UNCHANGED <<sent, data, got>>, Sane' => Sane
  PROVE  NothingDropped'
<1> SUFFICES ASSUME Sane', NEW p \in Peer, NEW n \in Lane,
                    \/ conn'[Other(p)][n].life = "none"
                    \/ Live(Other(p), n)' /\ app'[Other(p)][n].open
             PROVE  sent'[p][n] = data'[p][n] + got'[Other(p)][n]
  BY DEF NothingDropped
<1>1. Sane /\ NothingDropped
  BY DEF Rest
<1> QED BY <1>1, PeerFacts DEF NothingDropped

\* NoLostWakeup survives a step that readies nothing and swallows no event.
LEMMA WakeupSame ==
  ASSUME Rest,
         \A q \in Peer, n \in Lane :
            /\ Live(q, n)' => Live(q, n)
            /\ conn'[q][n].ready => conn[q][n].ready
            /\ chan'[q][n].st = "open" => chan[q][n].st = "open"
            /\ app'[q][n].unread > 0 => (app[q][n].unread > 0 \/ app'[q][n].rd)
            /\ app[q][n].rd => app'[q][n].rd,
         Sane' => Sane
  PROVE  NoLostWakeup'
<1> SUFFICES ASSUME Sane', NEW p \in Peer, NEW n \in Lane,
                    Live(p, n)', conn'[p][n].ready, chan'[p][n].st = "open",
                    app'[p][n].unread > 0
             PROVE  app'[p][n].rd
  BY DEF NoLostWakeup
<1>1. Sane /\ NoLostWakeup
  BY DEF Rest
<1> QED BY <1>1 DEF NoLostWakeup

-----------------------------------------------------------------------------
(* The actions, one lemma each or a few alike.                             *)

\* Replacing one channel entry leaves the others.
LEMMA ChannelPoint ==
  ASSUME TypeOK, NEW p \in Peer, NEW n \in Lane, NEW c, chan' = [chan EXCEPT ![p][n] = c]
  PROVE  /\ chan'[p][n] = c
         /\ \A q \in Peer, m \in Lane : (q # p \/ m # n) => chan'[q][m] = chan[q][m]
  BY DEF TypeOK

\* Setting one channel's state leaves its socket_ and the other entries.
LEMMA StatePoint ==
  ASSUME TypeOK, NEW p \in Peer, NEW n \in Lane, NEW st \in ChannelState,
         chan' = [chan EXCEPT ![p][n].st = st]
  PROVE  /\ chan'[p][n].st = st /\ chan'[p][n].sock = chan[p][n].sock
         /\ \A q \in Peer, m \in Lane : (q # p \/ m # n) => chan'[q][m] = chan[q][m]
<1>1. chan[p][n] \in Channel
  BY DEF TypeOK
<1>2. /\ chan'[p][n] = [chan[p][n] EXCEPT !.st = st]
      /\ \A q \in Peer, m \in Lane : (q # p \/ m # n) => chan'[q][m] = chan[q][m]
  BY DEF TypeOK
<1> QED BY <1>1, <1>2 DEF Channel

\* Replacing one connection leaves the others.
LEMMA ConnectionPoint ==
  ASSUME TypeOK, NEW p \in Peer, NEW n \in Lane, NEW c, conn' = [conn EXCEPT ![p][n] = c]
  PROVE  /\ conn'[p][n] = c
         /\ \A q \in Peer, m \in Lane : (q # p \/ m # n) => conn'[q][m] = conn[q][m]
  BY DEF TypeOK

\* SetReady leaves every life and the other connections.
LEMMA ReadyPoint ==
  ASSUME TypeOK, NEW p \in Peer, NEW n \in Lane, conn' = [conn EXCEPT ![p][n].ready = TRUE]
  PROVE  /\ \A q \in Peer, m \in Lane : (q # p \/ m # n) => conn'[q][m] = conn[q][m]
         /\ \A q \in Peer, m \in Lane : conn'[q][m].life = conn[q][m].life
<1>1. conn[p][n] \in Connection
  BY DEF TypeOK
<1>2. /\ conn'[p][n] = [conn[p][n] EXCEPT !.ready = TRUE]
      /\ \A q \in Peer, m \in Lane : (q # p \/ m # n) => conn'[q][m] = conn[q][m]
  BY DEF TypeOK
<1>3. conn'[p][n].life = conn[p][n].life
  BY <1>1, <1>2 DEF Connection
<1> QED BY <1>2, <1>3

\* Steps after which nothing but the control channel is different.
LEMMA ControlStep ==
  ASSUME TypeOK, Rest, NEW p \in Peer, NEW msg, OnlyNew(p, msg),
         p = "server" /\ msg.id = "MsgChannelCreated" => target',
         ~(p = "server" /\ msg.id = "MsgServerSideReady"),
         target => target', listening' => listening \/ target',
         UNCHANGED <<up, fault, opening, chan, conn, app, data, sent, got>>
  PROVE  Rest'
<1>1. Sane' => Sane
  BY DEF Sane
<1>2. \A q \in Peer, n \in Lane : (Known(q, n)' => Known(q, n)) /\ (Live(q, n)' => Live(q, n))
  BY DEF Known, Live
<1>3. TargetFirst'
  BY <1>2, TargetSame
<1>4. ChannelFirst'
  BY <1>1, <1>2, PeerFacts, ChannelSame
<1>5. Attached'
  BY AttachedSame
<1>6. ServerFirst'
  BY <1>1, ServerSame
<1>7. NothingDropped'
  BY <1>1, <1>2, DroppedSame
<1>8. NoLostWakeup'
  BY <1>1, <1>2, WakeupSame
<1> QED BY <1>3, <1>4, <1>5, <1>6, <1>7, <1>8 DEF Rest

\* OnControlDataChannelOpen and Closed, OnCreateChannel and OnChannelCreated keep Rest.
LEMMA HandshakeSteps ==
  ASSUME TypeOK, Rest
  PROVE  /\ OnCreateChannel => Rest'
         /\ OnChannelCreated => Rest'
         /\ \A p \in Peer : OnControlDataChannelOpen(p) => Rest'
         /\ \A p \in Peer : OnControlDataChannelClosed(p) => Rest'
<1>1. ASSUME OnCreateChannel PROVE Rest'
  <2> DEFINE msg == [id |-> "MsgChannelCreated"]
  <2>1. wire["client"] \in Seq(Control) /\ wire["client"] # <<>> /\ wire["server"] \in Seq(Control)
    BY <1>1, PeerFacts DEF OnCreateChannel, ChannelCreated, Received, TypeOK
  <2>2. wire'["client"] = Tail(wire["client"]) /\ wire'["server"] = Append(wire["server"], msg)
    BY <1>1 DEF OnCreateChannel, ChannelCreated, TypeOK, Peer
  <2>3. \A i \in 1..Len(wire'["client"]) : \E j \in 1..Len(wire["client"]) : wire'["client"][i] = wire["client"][j]
    <3> SUFFICES ASSUME NEW i \in 1..Len(wire'["client"])
                 PROVE  \E j \in 1..Len(wire["client"]) : wire'["client"][i] = wire["client"][j]
      OBVIOUS
    <3>1. i + 1 \in 1..Len(wire["client"]) /\ wire'["client"][i] = wire["client"][i + 1]
      BY <2>1, <2>2
    <3> QED BY <3>1
  <2>4. \A i \in 1..Len(wire'["server"]) :
           \/ \E j \in 1..Len(wire["server"]) : wire'["server"][i] = wire["server"][j]
           \/ wire'["server"][i] = msg
    <3> HIDE DEF msg
    <3> QED BY <2>1, <2>2
  <2>5. OnlyNew("server", msg)
    <3> HIDE DEF msg
    <3> QED BY <2>3, <2>4 DEF OnlyNew, Peer
  <2>6. msg.id # "MsgServerSideReady"
    OBVIOUS
  <2>7. target' /\ UNCHANGED <<up, fault, opening, chan, conn, app, data, sent, got>>
    BY <1>1 DEF OnCreateChannel, ChannelCreated
  <2> HIDE DEF msg
  <2> QED BY <2>5, <2>6, <2>7, ControlStep, PeerFacts
<1>2. ASSUME OnChannelCreated PROVE Rest'
  <2>1. /\ wire["server"] # <<>> /\ 1 \in 1..Len(wire["server"])
        /\ wire["server"][1].id = "MsgChannelCreated"
    BY <1>2, ReceivedFirst, PeerFacts DEF OnChannelCreated, Listen
  <2>2. target
    BY <2>1 DEF Rest, TargetFirst
  <2>3. OnlyNew("client", 0)
    BY <1>2, <2>1, TakenOnlyNew, PeerFacts DEF OnChannelCreated, Listen
  <2>4. target' /\ UNCHANGED <<up, fault, opening, chan, conn, app, data, sent, got>>
    BY <1>2, <2>2 DEF OnChannelCreated, Listen
  <2> QED BY <2>3, <2>4, ControlStep, PeerFacts
<1>3. ASSUME NEW p \in Peer, OnControlDataChannelOpen(p) PROVE Rest'
  <2>1. OnlyNew("client", [id |-> "MsgCreateChannel"])
    BY <1>3, AppendOnlyNew, SameOnlyNew, MessageTypes, PeerFacts
        DEF OnControlDataChannelOpen, ControlState, CreateChannel
  <2>2. UNCHANGED <<target, listening, up, fault, opening, chan, conn, app, data, sent, got>>
    BY <1>3 DEF OnControlDataChannelOpen, ControlState, CreateChannel
  <2> QED BY <2>1, <2>2, ControlStep, PeerFacts
<1>4. ASSUME NEW p \in Peer, OnControlDataChannelClosed(p) PROVE Rest'
  <2>1. OnlyNew("client", 0)
    BY <1>4, SameOnlyNew DEF OnControlDataChannelClosed, ControlState, StopListening
  <2>2. /\ UNCHANGED <<target, up, fault, opening, chan, conn, app, data, sent, got>>
        /\ listening' => listening
    BY <1>4 DEF OnControlDataChannelClosed, ControlState, StopListening
  <2> QED BY <2>1, <2>2, ControlStep, PeerFacts
<1> QED BY <1>1, <1>2, <1>3, <1>4

\* OnStopChannel keeps Rest: it marks the channel and posts a message.
LEMMA StopChannelStep ==
  ASSUME TypeOK, Rest, NEW p \in Peer, NEW n \in Lane, OnStopChannel(p, n)
  PROVE  Rest'
<1>1. \/ chan[p][n].st \in {"absent", "null"} /\ chan' = [chan EXCEPT ![p][n].st = "null"]
      \/ chan' = [chan EXCEPT ![p][n].cbr = TRUE]
  BY DEF OnStopChannel
<1>2. chan \in [Peer -> [Lane -> Channel]] /\ chan[p][n] \in Channel
  BY DEF TypeOK
<1>3. \A q \in Peer, m \in Lane :
         \/ chan'[q][m].st = chan[q][m].st /\ chan'[q][m].sock = chan[q][m].sock
         \/ /\ chan'[q][m].st = "null" /\ chan[q][m].st \in {"absent", "null"}
            /\ chan'[q][m].sock = chan[q][m].sock
  <2>1. CASE chan[p][n].st \in {"absent", "null"} /\ chan' = [chan EXCEPT ![p][n].st = "null"]
    BY <2>1, StatePoint DEF ChannelState
  <2>2. CASE chan' = [chan EXCEPT ![p][n].cbr = TRUE]
    <3>1. /\ chan'[p][n] = [chan[p][n] EXCEPT !.cbr = TRUE]
          /\ \A q \in Peer, m \in Lane : (q # p \/ m # n) => chan'[q][m] = chan[q][m]
      BY <1>2, <2>2
    <3>2. chan'[p][n].st = chan[p][n].st /\ chan'[p][n].sock = chan[p][n].sock
      BY <1>2, <3>1 DEF Channel
    <3> QED BY <3>1, <3>2
  <2> QED BY <1>1, <2>1, <2>2
<1>4. UNCHANGED <<up, fault, listening, target, opening, conn, app, data, sent, got>>
  BY DEF OnStopChannel
<1>5. OnlyNew("client", 0)
  BY TakenOnlyNew, ReceivedFirst DEF OnStopChannel
<1>6. Sane' => Sane
  BY <1>4 DEF Sane
<1>7. \A q \in Peer, m \in Lane : (Known(q, m)' => Known(q, m)) /\ (Live(q, m)' => Live(q, m))
  BY <1>3, <1>4 DEF Known, Live
<1>8. TargetFirst'
  BY <1>4, <1>5, <1>7, TargetSame, PeerFacts
<1>9. ChannelFirst'
  BY <1>3, <1>4, <1>6, <1>7, ChannelSame, PeerFacts
<1>10. Attached'
  BY <1>3, <1>4, AttachedSame
<1>11. ServerFirst'
  BY <1>4, <1>5, <1>6, ServerSame, PeerFacts
<1>12. NothingDropped'
  BY <1>4, <1>6, <1>7, DroppedSame
<1>13. NoLostWakeup'
  BY <1>3, <1>4, <1>6, <1>7, WakeupSame
<1> QED BY <1>8, <1>9, <1>10, <1>11, <1>12, <1>13 DEF Rest

\* OnSocketOpen keeps Rest: the lane it starts is unknown to the server.
LEMMA SocketOpenStep ==
  ASSUME TypeOK, Rest, NEW n \in Lane, OnSocketOpen(n)
  PROVE  Rest'
<1> DEFINE p == "client"
           c == [st |-> "connecting", sock |-> TRUE, cbr |-> FALSE]
<1>1. PICK b \in Block :
        \/ chan' = [chan EXCEPT ![p][n] = c] /\ conn' = [conn EXCEPT ![p][n] = NewConnection(TRUE, FALSE, b)]
        \/ chan' = chan /\ conn' = [conn EXCEPT ![p][n] = NewConnection(FALSE, FALSE, b)]
  BY DEF OnSocketOpen, Accepts, HandleConnection, FreeBlocks
<1>2. /\ up[p] /\ listening /\ conn[p][n].life = "none"
      /\ app' = [app EXCEPT ![p][n] = NewStream]
      /\ UNCHANGED <<up, fault, ctl, listening, target, wire, opening, data, sent, got, queue>>
  BY DEF OnSocketOpen, Accepts, HandleConnection
<1>3. /\ conn'[p][n].life = "live" /\ ~conn'[p][n].ready
      /\ \A q \in Peer, m \in Lane : (q # p \/ m # n) => conn'[q][m] = conn[q][m]
  <2>1. PICK a \in BOOLEAN : conn' = [conn EXCEPT ![p][n] = NewConnection(a, FALSE, b)]
    BY <1>1
  <2>2. /\ conn'[p][n] = NewConnection(a, FALSE, b)
        /\ \A q \in Peer, m \in Lane : (q # p \/ m # n) => conn'[q][m] = conn[q][m]
    <3> DEFINE d == NewConnection(a, FALSE, b)
    <3>1. conn' = [conn EXCEPT !["client"][n] = d]
      BY <2>1
    <3> HIDE DEF d
    <3>2. /\ conn'["client"][n] = d
          /\ \A q \in Peer, m \in Lane : (q # "client" \/ m # n) => conn'[q][m] = conn[q][m]
      <4>1. conn \in [Peer -> [Lane -> Connection]] /\ "client" \in Peer
        BY PeerFacts DEF TypeOK
      <4> QED BY <3>1, <4>1
    <3> QED BY <3>2 DEF d
  <2> QED BY <2>2 DEF NewConnection
<1>4. /\ \/ chan'[p][n] = chan[p][n]
         \/ chan'[p][n].st = "connecting" /\ chan'[p][n].sock
      /\ \A q \in Peer, m \in Lane : (q # p \/ m # n) => chan'[q][m] = chan[q][m]
  <2>1. CASE chan' = chan
    BY <2>1
  <2>2. CASE chan' = [chan EXCEPT ![p][n] = c]
    BY <2>2, ChannelPoint, PeerFacts
  <2> QED BY <1>1, <2>1, <2>2
<1>5. /\ app'[p][n] = NewStream
      /\ \A q \in Peer, m \in Lane : (q # p \/ m # n) => app'[q][m] = app[q][m]
  BY <1>2, PeerFacts DEF TypeOK
<1>6. /\ target /\ ~Known(p, n) /\ n \notin opening /\ ~Known("server", n)
      /\ conn["server"][n].life = "none" /\ chan[p][n].st \in {"absent", "null"}
  <2>1. target /\ ~Known(p, n) /\ n \notin opening /\ ~Known("server", n)
    BY <1>2 DEF Rest, TargetFirst
  <2>2. chan[p][n].st \in {"absent", "null"}
    BY <2>1, PeerFacts DEF Known, TypeOK, Channel, ChannelState
  <2> QED BY <1>2, <2>1, <2>2 DEF Rest, ChannelFirst
<1> HIDE DEF c
<1>7. TargetFirst'
  BY <1>2, <1>3, <1>4, <1>6, PeerFacts DEF Rest, TargetFirst, Known
<1>8. ChannelFirst'
  BY <1>2, <1>3, <1>4, <1>6, PeerFacts DEF Rest, ChannelFirst, Known, Sane
<1>9. Attached'
  BY <1>2, <1>3, <1>4, <1>6, PeerFacts DEF Rest, Attached
<1>10. ServerFirst'
  BY <1>2, <1>3, <1>6, PeerFacts DEF Rest, ServerFirst, InWire, Sane
<1>11. NothingDropped'
  <2> SUFFICES ASSUME Sane', NEW q \in Peer, NEW m \in Lane,
                      \/ conn'[Other(q)][m].life = "none"
                      \/ Live(Other(q), m)' /\ app'[Other(q)][m].open
               PROVE  sent[q][m] = data[q][m] + got[Other(q)][m]
    BY <1>2 DEF NothingDropped
  <2>1. Sane /\ NothingDropped
    BY <1>2 DEF Rest, Sane
  <2>2. CASE Other(q) = p /\ m = n
    BY <1>2, <2>1, <2>2, PeerFacts DEF NothingDropped
  <2>3. CASE Other(q) # p \/ m # n
    BY <1>3, <1>5, <2>1, <2>3, PeerFacts DEF NothingDropped, Live
  <2> QED BY <2>2, <2>3
<1>12. NoLostWakeup'
  <2> SUFFICES ASSUME Sane', NEW q \in Peer, NEW m \in Lane,
                      Live(q, m)', conn'[q][m].ready, chan'[q][m].st = "open",
                      app'[q][m].unread > 0
               PROVE  app'[q][m].rd
    BY DEF NoLostWakeup
  <2>1. Sane /\ NoLostWakeup /\ (q # p \/ m # n)
    BY <1>2, <1>3 DEF Rest, Sane
  <2> QED BY <1>3, <1>4, <1>5, <2>1 DEF NoLostWakeup, Live
<1> QED BY <1>7, <1>8, <1>9, <1>10, <1>11, <1>12 DEF Rest

\* The client channel's opening keeps Rest: nothing was known of the lane before.
LEMMA ClientChannelOpenStep ==
  ASSUME TypeOK, Rest, NEW n \in Lane, ClientChannelOpen(n)
  PROVE  Rest'
<1>1. /\ up["client"] /\ chan["client"][n].st = "connecting" /\ opening' = opening \cup {n}
      /\ UNCHANGED <<up, fault, listening, target, wire, conn, app, data, sent, got>>
  BY DEF ClientChannelOpen
<1>2. /\ chan'["client"][n].st = "open" /\ chan'["client"][n].sock = chan["client"][n].sock
      /\ \A q \in Peer, m \in Lane : (q # "client" \/ m # n) => chan'[q][m] = chan[q][m]
  BY StatePoint, PeerFacts DEF ClientChannelOpen, ChannelState
<1>3. /\ n \notin opening /\ ~Known("server", n) /\ conn["server"][n].life = "none"
      /\ Sane => ~conn["client"][n].ready
      /\ conn["client"][n].life # "none" /\ chan["client"][n].sock
  BY <1>1 DEF Rest, ChannelFirst, TargetFirst, Attached, Known
<1>4. TargetFirst'
  BY <1>1, <1>2, <1>3, PeerFacts DEF Rest, TargetFirst, Known
<1>5. ChannelFirst'
  BY <1>1, <1>2, <1>3, PeerFacts DEF Rest, ChannelFirst, Known, Sane
<1>6. Attached'
  <2>1. /\ chan'["client"][n].sock
        /\ \A m \in Lane : m # n => chan'["client"][m] = chan["client"][m]
        /\ \A m \in Lane : chan'["server"][m] = chan["server"][m]
    BY <1>2, <1>3, PeerFacts
  <2>2. \A m \in Lane : chan'["client"][m].st \in {"connecting", "open"}
                              => chan'["client"][m].sock
    BY <2>1 DEF Rest, Attached
  <2> QED BY <1>1, <2>1, <2>2 DEF Rest, Attached
<1>7. ServerFirst'
  BY <1>1 DEF Rest, ServerFirst, InWire, Sane
<1>8. NothingDropped'
  BY <1>1 DEF Rest, NothingDropped, Live, Sane
<1>9. NoLostWakeup'
  <2> SUFFICES ASSUME Sane', NEW q \in Peer, NEW m \in Lane,
                      Live(q, m)', conn'[q][m].ready, chan'[q][m].st = "open",
                      app'[q][m].unread > 0
               PROVE  app'[q][m].rd
    BY DEF NoLostWakeup
  <2>1. Sane /\ NoLostWakeup
    BY <1>1 DEF Rest, Sane
  <2> QED BY <1>1, <1>2, <1>3, <2>1 DEF NoLostWakeup, Live
<1> QED BY <1>4, <1>5, <1>6, <1>7, <1>8, <1>9 DEF Rest

\* OnDataChannel keeps Rest: the server has no connection of the lane yet.
LEMMA DataChannelStep ==
  ASSUME TypeOK, Rest, NEW n \in Lane, OnDataChannel(n)
  PROVE  Rest'
<1>1. /\ n \in opening /\ opening' = opening \ {n}
      /\ UNCHANGED <<up, fault, listening, target, wire, conn, app, data, sent, got>>
  BY DEF OnDataChannel
<1>2. /\ \A q \in Peer, m \in Lane : (q # "server" \/ m # n) => chan'[q][m] = chan[q][m]
      /\ \/ chan'["server"][n] = chan["server"][n]
         \/ chan'["server"][n].st = "connecting"
  <2>1. CASE chan' = chan
    BY <2>1
  <2>2. CASE chan' = [chan EXCEPT !["server"][n].st = "connecting"]
    BY <2>2, StatePoint, PeerFacts DEF ChannelState
  <2> QED BY <2>1, <2>2 DEF OnDataChannel
<1>3. /\ conn["client"][n].life # "none" /\ conn["server"][n].life = "none"
      /\ ~(chan["client"][n].st \in {"absent", "null", "connecting"} /\ up["client"])
  BY <1>1 DEF Rest, ChannelFirst, TargetFirst
<1>4. TargetFirst'
  BY <1>1, <1>2, <1>3, PeerFacts DEF Rest, TargetFirst, Known
<1>5. ChannelFirst'
  BY <1>1, <1>2, <1>3, PeerFacts DEF Rest, ChannelFirst, Known, Sane
<1>6. Attached'
  BY <1>1, <1>2, <1>3, PeerFacts DEF Rest, Attached
<1>7. ServerFirst'
  BY <1>1 DEF Rest, ServerFirst, InWire, Sane
<1>8. NothingDropped'
  BY <1>1 DEF Rest, NothingDropped, Live, Sane
<1>9. NoLostWakeup'
  <2>1. \A q \in Peer, m \in Lane : chan'[q][m].st = "open" => chan[q][m].st = "open"
    BY <1>2
  <2> QED BY <1>1, <2>1 DEF Rest, NoLostWakeup, Live, Sane
<1> QED BY <1>4, <1>5, <1>6, <1>7, <1>8, <1>9 DEF Rest

\* OnSocketDataChannelOpen keeps Rest, whether connecting succeeds or fails.
LEMMA ServerConnectStep ==
  ASSUME TypeOK, Rest, NEW n \in Lane, OnSocketDataChannelOpen(n)
  PROVE  Rest'
<1> DEFINE p == "server"
           ready == [id |-> "MsgServerSideReady", lane |-> n]
<1>1. /\ up[p] /\ chan[p][n].st = "connecting"
      /\ UNCHANGED <<up, fault, ctl, listening, target, opening, data, sent, got>>
  BY DEF OnSocketDataChannelOpen, Connect, HandleConnection, StopChannel
<1>2. /\ Known(p, n) /\ target /\ conn["client"][n].life # "none" /\ n \notin opening
      /\ conn[p][n].life = "none"
      /\ ~(chan["client"][n].st \in {"absent", "null", "connecting"} /\ up["client"])
  <2>1. Known(p, n)
    BY <1>1 DEF Known
  <2> QED BY <1>1, <2>1 DEF Rest, TargetFirst, ChannelFirst, Attached
<1>3. CASE \E b \in FreeBlocks(p) :
             /\ chan' = AttachSocket(n)
             /\ conn' = [conn EXCEPT ![p][n] = NewConnection(TRUE, TRUE, b)]
             /\ app' = [app EXCEPT ![p][n] = NewStream]
             /\ wire' = Put(p, ready)
             /\ UNCHANGED queue
  <2>1. /\ conn'[p][n].life = "live"
        /\ \A q \in Peer, m \in Lane : (q # p \/ m # n) => conn'[q][m] = conn[q][m]
    <3>1. PICK b : conn' = [conn EXCEPT ![p][n] = NewConnection(TRUE, TRUE, b)]
      BY <1>3
    <3>2. /\ conn'[p][n] = NewConnection(TRUE, TRUE, b)
          /\ \A q \in Peer, m \in Lane : (q # p \/ m # n) => conn'[q][m] = conn[q][m]
      <4> DEFINE d == NewConnection(TRUE, TRUE, b)
      <4>1. conn' = [conn EXCEPT !["server"][n] = d]
        BY <3>1
      <4> HIDE DEF d
      <4>2. /\ conn'["server"][n] = d
            /\ \A q \in Peer, m \in Lane : (q # "server" \/ m # n) => conn'[q][m] = conn[q][m]
        <5>1. conn \in [Peer -> [Lane -> Connection]] /\ "server" \in Peer
          BY PeerFacts DEF TypeOK
        <5> QED BY <4>1, <5>1
      <4> QED BY <4>2 DEF d
    <3> QED BY <3>2 DEF NewConnection
  <2>2. /\ chan'[p][n].st = "open" /\ chan'[p][n].sock
        /\ \A q \in Peer, m \in Lane : (q # p \/ m # n) => chan'[q][m] = chan[q][m]
    <3>1. chan[p][n] \in Channel
      BY PeerFacts DEF TypeOK
    <3>2. chan' = AttachSocket(n)
      BY <1>3
    <3>3. /\ chan'[p][n] = [chan[p][n] EXCEPT !.st = "open", !.sock = TRUE]
          /\ \A q \in Peer, m \in Lane : (q # p \/ m # n) => chan'[q][m] = chan[q][m]
      <4>1. /\ AttachSocket(n)["server"][n] = [chan["server"][n] EXCEPT !.st = "open", !.sock = TRUE]
            /\ \A q \in Peer, m \in Lane : (q # "server" \/ m # n) => AttachSocket(n)[q][m] = chan[q][m]
        BY AttachType
      <4> QED BY <3>2, <4>1
    <3> QED BY <3>1, <3>3 DEF Channel
  <2>3. /\ app'[p][n] = NewStream
        /\ \A q \in Peer, m \in Lane : (q # p \/ m # n) => app'[q][m] = app[q][m]
    BY <1>3, PeerFacts DEF TypeOK
  <2>4. OnlyNew(p, ready) /\ ready.id = "MsgServerSideReady" /\ ready.lane = n
    BY <1>3, PutOnlyNew, MessageTypes, PeerFacts
  <2> HIDE DEF ready
  <2>5. TargetFirst'
    <3>1. (\E i \in 1..Len(wire'["server"]) : wire'["server"][i].id = "MsgChannelCreated") => target'
      BY <1>1, <1>2
    <3>2. \A m \in Lane :
            /\ conn'["client"][m].life # "none" => target'
            /\ Known("client", m)' => conn'["client"][m].life # "none"
            /\ m \in opening' => conn'["client"][m].life # "none"
            /\ Known("server", m)' => conn'["client"][m].life # "none"
            /\ conn'["server"][m].life # "none" => target'
      BY <1>1, <1>2, <2>1, <2>2, PeerFacts DEF Rest, TargetFirst, Known
    <3> QED BY <1>1, <1>2, <3>1, <3>2 DEF TargetFirst
  <2>6. ChannelFirst'
    BY <1>1, <1>2, <2>1, <2>2, PeerFacts DEF Rest, ChannelFirst, Known, Sane
  <2>7. Attached'
    BY <1>1, <2>1, <2>2, PeerFacts DEF Rest, Attached
  <2>8. ServerFirst'
    <3>1. ASSUME NEW m \in Lane, InWire("server", "MsgServerSideReady", m)'
          PROVE  conn'["server"][m].life # "none"
      <4>1. PICK i \in 1..Len(wire'["server"]) :
               wire'["server"][i].id = "MsgServerSideReady" /\ wire'["server"][i].lane = m
        BY <3>1 DEF InWire
      <4>2. CASE wire'["server"][i] = ready
        BY <2>1, <2>4, <4>1, <4>2
      <4>3. CASE \E j \in 1..Len(wire["server"]) : wire'["server"][i] = wire["server"][j]
        <5>1. InWire("server", "MsgServerSideReady", m)
          BY <4>1, <4>3 DEF InWire
        <5> QED BY <2>1, <5>1, PeerFacts DEF Rest, ServerFirst
      <4> QED BY <2>4, <4>2, <4>3, PeerFacts DEF OnlyNew
    <3>2. ASSUME NEW m \in Lane, Sane'
          PROVE  /\ conn'["client"][m].ready => conn'["server"][m].life # "none"
                 /\ data'["client"][m] > 0 => conn'["server"][m].life # "none"
      BY <1>1, <2>1, <3>2, PeerFacts DEF Rest, ServerFirst, Sane
    <3> QED BY <3>1, <3>2 DEF ServerFirst
  <2>9. NothingDropped'
    <3> SUFFICES ASSUME Sane', NEW q \in Peer, NEW m \in Lane,
                        \/ conn'[Other(q)][m].life = "none"
                        \/ Live(Other(q), m)' /\ app'[Other(q)][m].open
                 PROVE  sent[q][m] = data[q][m] + got[Other(q)][m]
      BY <1>1 DEF NothingDropped
    <3>1. Sane /\ NothingDropped
      BY <1>1 DEF Rest, Sane
    <3>2. CASE Other(q) = p /\ m = n
      BY <1>2, <3>1, <3>2, PeerFacts DEF NothingDropped
    <3>3. CASE Other(q) # p \/ m # n
      BY <2>1, <2>3, <3>1, <3>3, PeerFacts DEF NothingDropped, Live
    <3> QED BY <3>2, <3>3
  <2>10. NoLostWakeup'
    <3> SUFFICES ASSUME Sane', NEW q \in Peer, NEW m \in Lane,
                        Live(q, m)', conn'[q][m].ready, chan'[q][m].st = "open",
                        app'[q][m].unread > 0
                 PROVE  app'[q][m].rd
      BY DEF NoLostWakeup
    <3>1. Sane /\ NoLostWakeup /\ (q # p \/ m # n)
      BY <1>1, <2>3, NewStreamType DEF Rest, Sane
    <3> QED BY <2>1, <2>2, <2>3, <3>1 DEF NoLostWakeup, Live
  <2> QED BY <2>5, <2>6, <2>7, <2>8, <2>9, <2>10 DEF Rest
<1>4. CASE /\ chan' = [chan EXCEPT ![p][n] = [@ EXCEPT !.st = "open", !.cbr = TRUE]]
           /\ UNCHANGED <<conn, app, wire>>
  <2>1. /\ chan'[p][n].st = "open"
        /\ \A q \in Peer, m \in Lane : (q # p \/ m # n) => chan'[q][m] = chan[q][m]
    <3>1. chan[p][n] \in Channel
      BY PeerFacts DEF TypeOK
    <3>2. /\ chan'[p][n] = [chan[p][n] EXCEPT !.st = "open", !.cbr = TRUE]
          /\ \A q \in Peer, m \in Lane : (q # p \/ m # n) => chan'[q][m] = chan[q][m]
      BY <1>4, PeerFacts DEF TypeOK
    <3> QED BY <3>1, <3>2 DEF Channel
  <2>2. TargetFirst'
    BY <1>1, <1>2, <1>4, <2>1, PeerFacts DEF Rest, TargetFirst, Known
  <2>3. ChannelFirst'
    BY <1>1, <1>2, <1>4, <2>1, PeerFacts DEF Rest, ChannelFirst, Known, Sane
  <2>4. Attached'
    BY <1>1, <1>2, <1>4, <2>1, PeerFacts DEF Rest, Attached
  <2>5. ServerFirst'
    BY <1>1, <1>4 DEF Rest, ServerFirst, InWire, Sane
  <2>6. NothingDropped'
    BY <1>1, <1>4 DEF Rest, NothingDropped, Live, Sane
  <2>7. NoLostWakeup'
    <3> SUFFICES ASSUME Sane', NEW q \in Peer, NEW m \in Lane,
                        Live(q, m)', conn'[q][m].ready, chan'[q][m].st = "open",
                        app'[q][m].unread > 0
                 PROVE  app'[q][m].rd
      BY DEF NoLostWakeup
    <3>1. Sane /\ NoLostWakeup
      BY <1>1 DEF Rest, Sane
    <3> QED BY <1>2, <1>4, <2>1, <3>1 DEF NoLostWakeup, Live
  <2> QED BY <2>2, <2>3, <2>4, <2>5, <2>6, <2>7 DEF Rest
<1> QED BY <1>3, <1>4
    DEF OnSocketDataChannelOpen, Connect, HandleConnection, StopChannel, ServerSideReady

\* OnSocketDataChannelClosed keeps Rest.
LEMMA ChannelClosedStep ==
  ASSUME TypeOK, Rest, NEW p \in Peer, NEW n \in Lane, OnSocketDataChannelClosed(p, n)
  PROVE  Rest'
<1>1. /\ chan[p][n].st \in {"connecting", "open"}
      /\ UNCHANGED <<up, fault, listening, target, wire, opening, conn, app, data, sent, got>>
  BY DEF OnSocketDataChannelClosed
<1>2. /\ chan'[p][n].st = "closed"
      /\ \A q \in Peer, m \in Lane : (q # p \/ m # n) => chan'[q][m] = chan[q][m]
  <2>1. chan[p][n] \in Channel
    BY DEF TypeOK
  <2>2. /\ chan'[p][n] = [chan[p][n] EXCEPT !.st = "closed", !.sock = FALSE]
        /\ \A q \in Peer, m \in Lane : (q # p \/ m # n) => chan'[q][m] = chan[q][m]
    BY DEF OnSocketDataChannelClosed, TypeOK
  <2> QED BY <2>1, <2>2 DEF Channel
<1>3. \A q \in Peer, m \in Lane :
         /\ chan'[q][m].st = "closed" \/ chan'[q][m] = chan[q][m]
         /\ Known(q, m)' => Known(q, m)
  BY <1>1, <1>2 DEF Known
<1>4. TargetFirst'
  BY <1>1, <1>3, PeerFacts DEF Rest, TargetFirst
<1>5. ChannelFirst'
  BY <1>1, <1>3, PeerFacts DEF Rest, ChannelFirst, Sane
<1>6. Attached'
  BY <1>1, <1>3, AttachedSame
<1>7. ServerFirst'
  BY <1>1 DEF Rest, ServerFirst, InWire, Sane
<1>8. NothingDropped'
  BY <1>1 DEF Rest, NothingDropped, Live, Sane
<1>9. NoLostWakeup'
  <2>1. \A q \in Peer, m \in Lane : chan'[q][m].st = "open" => chan[q][m].st = "open"
    BY <1>3
  <2> QED BY <1>1, <2>1 DEF Rest, NoLostWakeup, Live, Sane
<1> QED BY <1>4, <1>5, <1>6, <1>7, <1>8, <1>9 DEF Rest

\* Rest survives a change of one stream that swallows no event and revives no application.
LEMMA AppStep ==
  ASSUME TypeOK, Rest, NEW p \in Peer, NEW n \in Lane, NEW c,
         app' = [app EXCEPT ![p][n] = c],
         c.open => app[p][n].open,
         c.unread > 0 => app[p][n].unread > 0 \/ c.rd,
         app[p][n].rd => c.rd,
         UNCHANGED <<up, fault, listening, target, wire, opening, chan, conn, data, sent, got>>
  PROVE  Rest'
<1>1. /\ app'[p][n] = c
      /\ \A q \in Peer, m \in Lane : (q # p \/ m # n) => app'[q][m] = app[q][m]
  <2>1. app \in [Peer -> [Lane -> Stream]]
    BY DEF TypeOK
  <2> QED BY <2>1
<1>2. \A q \in Peer, m \in Lane :
         /\ app'[q][m].open => app[q][m].open
         /\ app'[q][m].unread > 0 => (app[q][m].unread > 0 \/ app'[q][m].rd)
         /\ app[q][m].rd => app'[q][m].rd
  BY <1>1
<1>3. TargetFirst'
  BY DEF Rest, TargetFirst, Known
<1>4. ChannelFirst'
  BY DEF Rest, ChannelFirst, Known, Sane
<1>5. Attached'
  BY DEF Rest, Attached
<1>6. ServerFirst'
  BY DEF Rest, ServerFirst, InWire, Sane
<1>7. Sane' => Sane
  BY DEF Sane
<1>8. \A q \in Peer, m \in Lane : Live(q, m)' => Live(q, m)
  BY DEF Live
<1>9. NothingDropped'
  BY <1>2, <1>7, <1>8, DroppedSame
<1>10. NoLostWakeup'
  BY <1>2, <1>7, <1>8, WakeupSame
<1> QED BY <1>3, <1>4, <1>5, <1>6, <1>9, <1>10 DEF Rest

\* The applications' steps and the close event keep Rest.
LEMMA ApplicationSteps ==
  ASSUME TypeOK, Rest, NEW p \in Peer, NEW n \in Lane
  PROVE  /\ AppWrite(p, n) => Rest'
         /\ AppClose(p, n) => Rest'
         /\ CloseEvent(p, n) => Rest'
<1> DEFINE s == app[p][n]
<1>1. s \in Stream
  BY DEF TypeOK
<1>2. ASSUME AppWrite(p, n) PROVE Rest'
  <2> DEFINE c == AfterWrite(s)
  <2>1. c.open = s.open /\ c.rd
    BY <1>1 DEF AfterWrite, Stream
  <2>2. /\ app' = [app EXCEPT ![p][n] = c]
        /\ UNCHANGED <<up, fault, listening, target, wire, opening, chan, conn, data, sent, got>>
    BY <1>2 DEF AppWrite
  <2> HIDE DEF c
  <2> QED BY <2>1, <2>2, AppStep
<1>3. ASSUME AppClose(p, n) PROVE Rest'
  <2> DEFINE c == [s EXCEPT !.open = FALSE, !.hup = TRUE]
  <2>1. c.unread = s.unread /\ c.rd = s.rd /\ ~c.open
    BY <1>1 DEF Stream
  <2>2. /\ app' = [app EXCEPT ![p][n] = c]
        /\ UNCHANGED <<up, fault, listening, target, wire, opening, chan, conn, data, sent, got>>
    BY <1>3 DEF AppClose
  <2> HIDE DEF c
  <2> QED BY <2>1, <2>2, AppStep
<1>4. ASSUME CloseEvent(p, n) PROVE Rest'
  <2> DEFINE c == [s EXCEPT !.hup = FALSE]
  <2>1. c.unread = s.unread /\ c.rd = s.rd /\ c.open = s.open
    BY <1>1 DEF Stream
  <2>2. /\ app' = [app EXCEPT ![p][n] = c]
        /\ UNCHANGED <<up, fault, listening, target, wire, opening, chan, conn, data, sent, got>>
    BY <1>4 DEF CloseEvent
  <2> HIDE DEF c
  <2> QED BY <2>1, <2>2, AppStep
<1> QED BY <1>2, <1>3, <1>4

\* After undefined behaviour only the structural half of Rest is claimed.
LEMMA FaultStep ==
  ASSUME TypeOK, Rest, ~Sane', NEW msg, OnlyNew("client", msg),
         UNCHANGED <<target, opening>>, listening' => listening,
         \A q \in Peer, m \in Lane : conn'[q][m].life = "none" <=> conn[q][m].life = "none",
         \A q \in Peer : up'[q] => up[q],
         UNCHANGED chan
  PROVE  Rest'
<1>1. \A q \in Peer, m \in Lane : Known(q, m)' => Known(q, m)
  BY DEF Known
<1>2. TargetFirst'
  BY <1>1, TargetSame, PeerFacts DEF Rest, TargetFirst
<1>3. ChannelFirst'
  BY <1>1, PeerFacts DEF Rest, ChannelFirst
<1>4. Attached'
  BY AttachedSame, PeerFacts
<1>5. ServerFirst'
  <2>1. ASSUME NEW n \in Lane, InWire("server", "MsgServerSideReady", n)'
        PROVE  conn'["server"][n].life # "none"
    <3>1. PICK i \in 1..Len(wire'["server"]) :
             wire'["server"][i].id = "MsgServerSideReady" /\ wire'["server"][i].lane = n
      BY <2>1 DEF InWire
    <3>2. \E j \in 1..Len(wire["server"]) : wire'["server"][i] = wire["server"][j]
      BY <3>1, PeerFacts DEF OnlyNew
    <3>3. InWire("server", "MsgServerSideReady", n)
      BY <3>1, <3>2 DEF InWire
    <3> QED BY <3>3, PeerFacts DEF Rest, ServerFirst
  <2> QED BY <2>1 DEF ServerFirst
<1>6. NothingDropped' /\ NoLostWakeup'
  BY DEF NothingDropped, NoLostWakeup
<1> QED BY <1>2, <1>3, <1>4, <1>5, <1>6 DEF Rest

\* A Conductor that goes away, whatever the reason.
LEMMA GoneStep ==
  ASSUME TypeOK, Rest, NEW p \in Peer, Gone(p), Sane' => Sane
  PROVE  Rest'
<1>1. /\ ~up'[p] /\ up'[Other(p)] = up[Other(p)]
      /\ (listening' => listening)
      /\ \A n \in Lane : chan'[p][n] = NoChannel /\ chan'[Other(p)][n] = chan[Other(p)][n]
      /\ \A n \in Lane : conn'[Other(p)][n] = conn[Other(p)][n]
      /\ \A n \in Lane : /\ conn'[p][n].life = "none" <=> conn[p][n].life = "none"
                         /\ conn'[p][n].life # "live"
                         /\ conn'[p][n].ready = conn[p][n].ready
      /\ UNCHANGED <<target, wire, opening, app, data, sent, got>>
  BY GoneType
<1>2. \A q \in Peer : q = p \/ q = Other(p)
  BY DEF Peer, Other
<1>3. \A q \in Peer, n \in Lane :
         /\ conn'[q][n].life = "none" <=> conn[q][n].life = "none"
         /\ Live(q, n)' => Live(q, n)
         /\ conn'[q][n].ready = conn[q][n].ready
  BY <1>1, <1>2 DEF Live
<1>4. \A q \in Peer, n \in Lane :
         \/ chan'[q][n] = chan[q][n]
         \/ chan'[q][n].st = "absent" /\ ~up'[q]
  BY <1>1, <1>2 DEF NoChannel
<1>5. \A q \in Peer : up'[q] => up[q]
  BY <1>1, <1>2
<1>6. \A q \in Peer, n \in Lane : Known(q, n)' => Known(q, n)
  BY <1>4 DEF Known
<1>7. OnlyNew("client", 0)
  BY <1>1, SameOnlyNew
<1>8. TargetFirst'
  BY <1>1, <1>3, <1>6, <1>7, TargetSame, PeerFacts
<1>9. ChannelFirst'
  BY <1>1, <1>3, <1>4, <1>5, <1>6, ChannelSame, PeerFacts
<1>10. Attached'
  BY <1>3, <1>4, <1>5, AttachedSame, PeerFacts
<1>11. ServerFirst'
  BY <1>1, <1>3, <1>7, ServerSame, PeerFacts
<1>12. NothingDropped'
  BY <1>1, <1>3, DroppedSame
<1>13. NoLostWakeup'
  BY <1>1, <1>3, <1>4, WakeupSame
<1> QED BY <1>8, <1>9, <1>10, <1>11, <1>12, <1>13 DEF Rest

\* A crash keeps Rest: it is Gone with a fault.
LEMMA CrashStep ==
  ASSUME TypeOK, Rest, NEW p \in Peer, NEW kind, kind # "none", Crash(p, kind)
  PROVE  Rest'
<1>1. ~Sane'
  BY DEF Crash, Sane
<1> QED BY <1>1, GoneStep DEF Crash

\* ~Conductor keeps Rest.
LEMMA CloseStep ==
  ASSUME TypeOK, Rest, NEW p \in Peer, Close(p)
  PROVE  Rest'
  BY GoneStep DEF Close, Sane

\* Undefined behaviour the process survives is recorded all the same.
LEMMA UsedFaults ==
  ASSUME Used
  PROVE  ~Sane'
  BY DEF Used, Sane

-----------------------------------------------------------------------------
\* What DoReceiveLoop does to its lane.
LEMMA LoopEffect ==
  ASSUME TypeOK, NEW p \in Peer, NEW n \in Lane, NEW r \in BOOLEAN, DoReceiveLoop(p, n, r)
  PROVE  /\ \A q \in Peer, m \in Lane : (q # p \/ m # n) =>
               /\ app'[q][m] = app[q][m]
               /\ data'[q][m] = data[q][m]
               /\ sent'[q][m] = sent[q][m]
         /\ app'[p][n].open = app[p][n].open
         /\ \E k \in Nat : /\ data'[p][n] = data[p][n] + k
                           /\ sent'[p][n] = sent[p][n] + k
                           /\ k > 0 => r
         /\ (chan[p][n].st = "open" /\ r /\ app'[p][n].unread > 0) => app'[p][n].rd
<1> DEFINE s == app[p][n]
           passed(k) == /\ data' = [data EXCEPT ![p][n] = @ + k]
                        /\ sent' = [sent EXCEPT ![p][n] = @ + k]
<1>1. s \in Stream /\ s.unread \in Nat
  BY MaxChunkAssumption DEF TypeOK, Stream
<1>2. app \in [Peer -> [Lane -> Stream]]
  BY DEF TypeOK
<1>3. data \in [Peer -> [Lane -> Nat]] /\ sent \in [Peer -> [Lane -> Nat]]
  BY DEF TypeOK
<1>4. ASSUME NEW k \in Nat, passed(k)
      PROVE  /\ data'[p][n] = data[p][n] + k /\ sent'[p][n] = sent[p][n] + k
             /\ \A q \in Peer, m \in Lane : (q # p \/ m # n) =>
                   data'[q][m] = data[q][m] /\ sent'[q][m] = sent[q][m]
  BY <1>3, <1>4
<1>5. ASSUME NEW c, app' = [app EXCEPT ![p][n] = c]
      PROVE  /\ app'[p][n] = c
             /\ \A q \in Peer, m \in Lane : (q # p \/ m # n) => app'[q][m] = app[q][m]
  BY <1>2, <1>5
<1>6. CASE /\ ~(chan[p][n].st = "open" /\ r)
           /\ app' = [app EXCEPT ![p][n].rd = FALSE]
           /\ UNCHANGED <<data, sent, queue>>
  <2> DEFINE c == [s EXCEPT !.rd = FALSE]
  <2>1. c.open = s.open
    BY <1>1 DEF Stream
  <2>2. app' = [app EXCEPT ![p][n] = c]
    BY <1>6
  <2> HIDE DEF c
  <2>3. /\ app'[p][n] = c
        /\ \A q \in Peer, m \in Lane : (q # p \/ m # n) => app'[q][m] = app[q][m]
    BY <2>2, <1>5
  <2>4. data'[p][n] = data[p][n] + 0 /\ sent'[p][n] = sent[p][n] + 0
    <3>1. data[p][n] \in Nat /\ sent[p][n] \in Nat
      BY <1>3
    <3> QED BY <1>6, <3>1
  <2> QED BY <1>6, <2>1, <2>3, <2>4
<1>7. CASE /\ chan[p][n].st = "open" /\ r
           /\ \E k \in 0..s.unread, j \in 0..s.unread :
                 /\ app' = [app EXCEPT ![p][n] = AfterRead(s, j)]
                 /\ passed(k)
  <2>1. PICK k \in 0..s.unread, j \in 0..s.unread :
           app' = [app EXCEPT ![p][n] = AfterRead(s, j)] /\ passed(k)
    BY <1>7
  <2> DEFINE c == AfterRead(s, j)
  <2>2. c.open = s.open /\ c.unread = s.unread - j /\ c.rd = (j < s.unread)
    BY <1>1, ReadType
  <2>3. app' = [app EXCEPT ![p][n] = c]
    BY <2>1
  <2> HIDE DEF c
  <2>4. /\ app'[p][n] = c
        /\ \A q \in Peer, m \in Lane : (q # p \/ m # n) => app'[q][m] = app[q][m]
    BY <2>3, <1>5
  <2>5. k \in Nat
    BY <1>1
  <2>6. /\ data'[p][n] = data[p][n] + k /\ sent'[p][n] = sent[p][n] + k
        /\ \A q \in Peer, m \in Lane : (q # p \/ m # n) =>
              data'[q][m] = data[q][m] /\ sent'[q][m] = sent[q][m]
    BY <2>1, <2>5, <1>4
  <2>7. c.unread > 0 => c.rd
    <3>1. c.unread = s.unread - j
      BY <2>2
    <3>2. c.unread > 0 => j < s.unread
      BY <1>1, <3>1
    <3> QED BY <2>2, <3>2
  <2> QED BY <1>7, <2>2, <2>4, <2>5, <2>6, <2>7
<1>8. \/ /\ ~(chan[p][n].st = "open" /\ r)
         /\ app' = [app EXCEPT ![p][n].rd = FALSE]
         /\ UNCHANGED <<data, sent, queue>>
      \/ /\ chan[p][n].st = "open" /\ r
         /\ app' = [app EXCEPT ![p][n] = AfterRead(s, s.unread)]
         /\ passed(s.unread)
      \/ /\ chan[p][n].st = "open" /\ r
         /\ \E k \in 0..s.unread :
               /\ k < s.unread
               /\ app' = [app EXCEPT ![p][n] = AfterRead(s, k + 1)]
               /\ passed(k)
  BY DEF DoReceiveLoop, SendChunks
<1>9. CASE /\ chan[p][n].st = "open" /\ r
           /\ app' = [app EXCEPT ![p][n] = AfterRead(s, s.unread)]
           /\ passed(s.unread)
  <2>1. s.unread \in 0..s.unread
    BY <1>1
  <2> QED BY <1>7, <1>9, <2>1
<1>10. CASE /\ chan[p][n].st = "open" /\ r
            /\ \E k \in 0..s.unread :
                  /\ k < s.unread
                  /\ app' = [app EXCEPT ![p][n] = AfterRead(s, k + 1)]
                  /\ passed(k)
  <2>1. PICK k \in 0..s.unread :
           k < s.unread /\ app' = [app EXCEPT ![p][n] = AfterRead(s, k + 1)] /\ passed(k)
    BY <1>10
  <2>2. k + 1 \in 0..s.unread
    BY <1>1, <2>1
  <2> QED BY <1>7, <1>10, <2>1, <2>2
<1> QED BY <1>6, <1>8, <1>9, <1>10

\* The client forwards only once the server's connection is there.
LEMMA LoopStep ==
  ASSUME TypeOK, Rest, NEW p \in Peer, NEW n \in Lane, NEW r \in BOOLEAN,
         DoReceiveLoop(p, n, r),
         conn'[p][n].ready = r,
         \A q \in Peer, m \in Lane : /\ conn'[q][m].life = conn[q][m].life
                                     /\ (q # p \/ m # n) => conn'[q][m].ready = conn[q][m].ready,
         Sane' /\ p = "client" /\ r => conn["server"][n].life # "none",
         OnlyNew("client", 0),
         UNCHANGED <<up, listening, target, opening, chan, got>>, Sane' => Sane
  PROVE  Rest'
<1>1. /\ \A q \in Peer, m \in Lane : (q # p \/ m # n) =>
            /\ app'[q][m] = app[q][m]
            /\ data'[q][m] = data[q][m]
            /\ sent'[q][m] = sent[q][m]
      /\ app'[p][n].open = app[p][n].open
      /\ \E k \in Nat : /\ data'[p][n] = data[p][n] + k
                        /\ sent'[p][n] = sent[p][n] + k
                        /\ k > 0 => r
      /\ (chan[p][n].st = "open" /\ r /\ app'[p][n].unread > 0) => app'[p][n].rd
  BY LoopEffect
<1>2. \A q \in Peer, m \in Lane : data[q][m] \in Nat /\ sent[q][m] \in Nat /\ got[q][m] \in Nat
  BY DEF TypeOK
<1>3. \A q \in Peer, m \in Lane : (Known(q, m)' => Known(q, m)) /\ (Live(q, m)' => Live(q, m))
  BY DEF Known, Live
<1>4. TargetFirst'
  BY <1>3, TargetSame, PeerFacts
<1>5. ChannelFirst'
  <2>1. \A m \in Lane : Sane' /\ conn'["client"][m].ready =>
                             conn["client"][m].ready \/ conn["server"][m].life # "none"
    BY PeerFacts
  <2> QED BY <2>1, <1>3, PeerFacts DEF Rest, ChannelFirst
<1>6. Attached'
  BY AttachedSame, PeerFacts
<1>7. ServerFirst'
  <2>1. ASSUME NEW m \in Lane, InWire("server", "MsgServerSideReady", m)'
        PROVE  conn'["server"][m].life # "none"
    <3>1. PICK i \in 1..Len(wire'["server"]) :
             wire'["server"][i].id = "MsgServerSideReady" /\ wire'["server"][i].lane = m
      BY <2>1 DEF InWire
    <3>2. \E j \in 1..Len(wire["server"]) : wire'["server"][i] = wire["server"][j]
      BY <3>1, PeerFacts DEF OnlyNew
    <3>3. InWire("server", "MsgServerSideReady", m)
      BY <3>1, <3>2 DEF InWire
    <3> QED BY <3>3, PeerFacts DEF Rest, ServerFirst
  <2>2. ASSUME NEW m \in Lane, Sane'
        PROVE  /\ conn'["client"][m].ready => conn'["server"][m].life # "none"
               /\ data'["client"][m] > 0 => conn'["server"][m].life # "none"
    <3>1. /\ conn["client"][m].ready => conn["server"][m].life # "none"
          /\ data["client"][m] > 0 => conn["server"][m].life # "none"
      BY <2>2 DEF Rest, ServerFirst
    <3>2. CASE p = "client" /\ m = n
      <4>1. PICK k \in Nat : data'[p][n] = data[p][n] + k /\ (k > 0 => r)
        BY <1>1
      <4>2. data'["client"][m] > 0 => data["client"][m] > 0 \/ r
        BY <1>2, <3>2, <4>1, PeerFacts
      <4> QED BY <2>2, <3>1, <3>2, <4>2, PeerFacts
    <3>3. CASE p # "client" \/ m # n
      BY <1>1, <3>1, <3>3, PeerFacts
    <3> QED BY <3>2, <3>3
  <2> QED BY <2>1, <2>2 DEF ServerFirst
<1>8. NothingDropped'
  <2> SUFFICES ASSUME Sane', NEW q \in Peer, NEW m \in Lane,
                      \/ conn'[Other(q)][m].life = "none"
                      \/ Live(Other(q), m)' /\ app'[Other(q)][m].open
               PROVE  sent'[q][m] = data'[q][m] + got[Other(q)][m]
    BY DEF NothingDropped
  <2>1. app'[Other(q)][m].open = app[Other(q)][m].open
    BY <1>1, PeerFacts
  <2>2. sent[q][m] = data[q][m] + got[Other(q)][m]
    BY <1>3, <2>1, PeerFacts DEF Rest, NothingDropped
  <2>3. \E k \in Nat : sent'[q][m] = sent[q][m] + k /\ data'[q][m] = data[q][m] + k
    <3>1. CASE q = p /\ m = n
      BY <1>1, <3>1
    <3>2. CASE q # p \/ m # n
      <4>1. sent'[q][m] = sent[q][m] + 0 /\ data'[q][m] = data[q][m] + 0
        BY <1>1, <1>2, <3>2
      <4> QED BY <4>1
    <3> QED BY <3>1, <3>2
  <2> QED BY <1>2, <2>2, <2>3, PeerFacts
<1>9. NoLostWakeup'
  <2> SUFFICES ASSUME Sane', NEW q \in Peer, NEW m \in Lane,
                      Live(q, m)', conn'[q][m].ready, chan[q][m].st = "open",
                      app'[q][m].unread > 0
               PROVE  app'[q][m].rd
    BY DEF NoLostWakeup
  <2>1. CASE q = p /\ m = n
    BY <1>1, <2>1
  <2>2. CASE q # p \/ m # n
    BY <1>1, <1>3, <2>2 DEF Rest, NoLostWakeup
  <2> QED BY <2>1, <2>2
<1> QED BY <1>4, <1>5, <1>6, <1>7, <1>8, <1>9 DEF Rest

\* OnStreamEvent's SE_READ keeps Rest: a ready client's server is connected.
LEMMA ReadEventStep ==
  ASSUME TypeOK, Rest, NEW p \in Peer, NEW n \in Lane, ReadEvent(p, n)
  PROVE  Rest'
<1>1. CASE Crash(p, "nullDereference")
  BY <1>1, CrashStep
<1>2. CASE /\ DoReceiveLoop(p, n, conn[p][n].ready)
           /\ UNCHANGED <<up, fault, ctl, listening, target, wire, opening, chan, conn, got>>
  <2>1. conn[p][n].ready \in BOOLEAN
    BY DEF TypeOK, Connection
  <2>2. Sane' /\ p = "client" /\ conn[p][n].ready => conn["server"][n].life # "none"
    BY <1>2 DEF Rest, ServerFirst, Sane
  <2>3. OnlyNew("client", 0) /\ (Sane' => Sane)
    BY <1>2, SameOnlyNew DEF Sane
  <2> QED BY <1>2, <2>1, <2>2, <2>3, LoopStep
<1> QED BY <1>1, <1>2 DEF ReadEvent

\* OnServerSideReady keeps Rest: the message shows that the server is connected.
LEMMA ServerReadyStep ==
  ASSUME TypeOK, Rest, NEW n \in Lane, OnServerSideReady(n)
  PROVE  Rest'
<1> DEFINE p == "client"
<1>1. /\ p \in Peer /\ wire["server"] # <<>> /\ 1 \in 1..Len(wire["server"])
      /\ wire["server"][1].id = "MsgServerSideReady" /\ wire["server"][1].lane = n
  BY ReceivedFirst, PeerFacts DEF OnServerSideReady
<1>2. conn["server"][n].life # "none"
  <2>1. InWire("server", "MsgServerSideReady", n)
    BY <1>1 DEF InWire
  <2> QED BY <2>1 DEF Rest, ServerFirst
<1>3. wire' = Taken(p) => OnlyNew("client", 0)
  BY <1>1, TakenOnlyNew, PeerFacts
<1>4. ASSUME NEW m \in Lane, conn' = [conn EXCEPT ![p][m].ready = TRUE],
             SocketReadEvent(p, m), wire' = Taken(p),
             UNCHANGED <<up, ctl, listening, target, opening, chan, got>>,
             Sane' => Sane, Sane' => m = n
      PROVE  Rest'
  <2>1. /\ \A q \in Peer, j \in Lane : (q # p \/ j # m) => conn'[q][j] = conn[q][j]
        /\ \A q \in Peer, j \in Lane : conn'[q][j].life = conn[q][j].life
    BY <1>1, <1>4, ReadyPoint
  <2>2. conn'[p][m].ready = TRUE
    <3>1. conn \in [Peer -> [Lane -> Connection]] /\ conn[p][m] \in Connection
      BY <1>1 DEF TypeOK
    <3>2. conn'[p][m] = [conn[p][m] EXCEPT !.ready = TRUE]
      BY <1>1, <1>4, <3>1
    <3> QED BY <3>1, <3>2 DEF Connection
  <2>3. PICK r \in BOOLEAN : r = TRUE
    OBVIOUS
  <2>4. DoReceiveLoop(p, m, r) /\ conn'[p][m].ready = r
    BY <1>4, <2>2, <2>3 DEF SocketReadEvent
  <2>5. OnlyNew("client", 0) /\ UNCHANGED <<up, listening, target, opening, chan, got>>
    BY <1>3, <1>4
  <2>6. Sane' /\ p = "client" /\ r => conn["server"][m].life # "none"
    BY <1>2, <1>4
  <2>7. \A q \in Peer, j \in Lane :
           /\ conn'[q][j].life = conn[q][j].life
           /\ (q # p \/ j # m) => conn'[q][j].ready = conn[q][j].ready
    BY <2>1
  <2>8. Sane' => Sane
    BY <1>4
  <2> HIDE DEF p
  <2> QED BY <1>1, <2>4, <2>5, <2>6, <2>7, <2>8, LoopStep
<1>5. CASE Crash(p, "useAfterFree")
  BY <1>1, <1>5, CrashStep
<1>6. CASE /\ wire' = Taken(p)
           /\ UNCHANGED <<up, fault, ctl, listening, target, opening, chan,
                          conn, app, data, sent, got, queue>>
  BY <1>3, <1>6, ControlStep, PeerFacts
<1>7. CASE /\ conn' = [conn EXCEPT ![p][n].ready = TRUE]
           /\ SocketReadEvent(p, n)
           /\ wire' = Taken(p)
           /\ UNCHANGED <<up, ctl, listening, target, opening, chan, got>>
           /\ UNCHANGED fault
  BY <1>4, <1>7 DEF Sane
<1>8. CASE /\ \E m \in Lane :
                 /\ conn' = [conn EXCEPT ![p][m].ready = TRUE]
                 /\ SocketReadEvent(p, m)
                 /\ wire' = Taken(p)
                 /\ UNCHANGED <<up, ctl, listening, target, opening, chan, got>>
           /\ Used
  <2>1. ~Sane'
    BY <1>8, UsedFaults
  <2> QED BY <1>4, <1>8, <2>1
<1> QED BY <1>5, <1>6, <1>7, <1>8 DEF OnServerSideReady, Heirs

\* A chunk off the data channel: nothing of the lane's ends is different.
LEMMA ChunkStep ==
  ASSUME TypeOK, Rest, NEW q \in Peer, NEW n \in Lane,
         data[q][n] > 0, data' = [data EXCEPT ![q][n] = @ - 1],
         UNCHANGED <<up, fault, listening, target, wire, opening, chan, conn, app, sent>>,
         NothingDropped'
  PROVE  Rest'
<1>1. \A r \in Peer, m \in Lane : data'[r][m] > 0 => data[r][m] > 0
  <2>1. data \in [Peer -> [Lane -> Nat]]
    BY DEF TypeOK
  <2> QED BY <2>1
<1>2. TargetFirst'
  BY DEF Rest, TargetFirst, Known
<1>3. ChannelFirst'
  BY DEF Rest, ChannelFirst, Known, Sane
<1>4. Attached'
  BY DEF Rest, Attached
<1>5. ServerFirst'
  BY <1>1, PeerFacts DEF Rest, ServerFirst, InWire, Sane
<1>6. NoLostWakeup'
  BY DEF Rest, NoLostWakeup, Live, Sane
<1> QED BY <1>2, <1>3, <1>4, <1>5, <1>6 DEF Rest

\* OnMessage keeps Rest: a sane lane with chunks in flight has its socket_.
LEMMA MessageStep ==
  ASSUME TypeOK, Rest, NEW p \in Peer, NEW n \in Lane, OnMessage(p, n)
  PROVE  Rest'
<1> DEFINE q == Other(p)
<1>1. q \in Peer /\ q # p /\ Other(q) = p
  BY PeerFacts
<1>2. chan[p][n].st = "open" /\ data[q][n] > 0
  BY DEF OnMessage
<1>3. \A r \in Peer, m \in Lane : data[r][m] \in Nat /\ sent[r][m] \in Nat /\ got[r][m] \in Nat
  BY DEF TypeOK
<1>4. ASSUME data' = [data EXCEPT ![q][n] = @ - 1]
      PROVE  /\ data'[q][n] = data[q][n] - 1
             /\ \A r \in Peer, m \in Lane : (r # q \/ m # n) => data'[r][m] = data[r][m]
  <2>1. data \in [Peer -> [Lane -> Nat]]
    BY DEF TypeOK
  <2> QED BY <1>1, <1>4, <2>1
<1>5. CASE /\ ~chan[p][n].sock
           /\ data' = [data EXCEPT ![q][n] = @ - 1]
           /\ UNCHANGED <<fault, got, queue>>
           /\ UNCHANGED <<up, ctl, listening, target, opening, wire, chan, conn, app, sent>>
  <2>1. p = "server" /\ conn[p][n].life = "none"
    BY <1>2, <1>5, PeerFacts DEF Rest, Attached, Peer
  <2>2. ~Sane
    BY <1>1, <1>2, <2>1, PeerFacts DEF Rest, ServerFirst
  <2>3. NothingDropped'
    BY <1>5, <2>2 DEF NothingDropped, Sane
  <2> QED BY <1>1, <1>2, <1>5, <2>3, ChunkStep
<1>6. CASE /\ Live(p, n)
           /\ data' = [data EXCEPT ![q][n] = @ - 1]
           /\ \/ got' = [got EXCEPT ![p][n] = @ + 1]
              \/ got' = got /\ ~app[p][n].open
           /\ UNCHANGED fault
           /\ UNCHANGED <<up, ctl, listening, target, wire, opening, chan, conn, app, sent>>
  <2>1. /\ \A r \in Peer, m \in Lane : (r # p \/ m # n) => got'[r][m] = got[r][m]
        /\ got'[p][n] = got[p][n] + 1 \/ ~app[p][n].open
    <3>1. got \in [Peer -> [Lane -> Nat]]
      BY DEF TypeOK
    <3> QED BY <1>6, <3>1
  <2>2. NothingDropped'
    <3> SUFFICES ASSUME Sane', NEW r \in Peer, NEW m \in Lane,
                        \/ conn[Other(r)][m].life = "none"
                        \/ Live(Other(r), m) /\ app[Other(r)][m].open
                 PROVE  sent[r][m] = data'[r][m] + got'[Other(r)][m]
      BY <1>6 DEF NothingDropped, Live
    <3>1. sent[r][m] = data[r][m] + got[Other(r)][m]
      BY <1>6 DEF Rest, NothingDropped, Sane
    <3>2. CASE r = q /\ m = n
      <4>1. got'[p][n] = got[p][n] + 1
        BY <1>1, <1>6, <2>1, <3>2 DEF Live
      <4>2. data'[q][n] = data[q][n] - 1
        BY <1>4, <1>6
      <4> QED BY <1>1, <1>3, <3>1, <3>2, <4>1, <4>2
    <3>3. CASE r # q \/ m # n
      <4>1. Other(r) # p \/ m # n
        BY <1>1, <3>3, PeerFacts
      <4> QED BY <1>4, <1>6, <2>1, <3>1, <3>3, <4>1, PeerFacts
    <3> QED BY <3>2, <3>3
  <2> QED BY <1>1, <1>2, <1>6, <2>2, ChunkStep
<1>7. CASE Crash(p, "useAfterFree")
  BY <1>7, CrashStep
<1>8. CASE /\ Used
           /\ UNCHANGED <<up, ctl, listening, target, wire, opening, chan, conn, app, sent>>
  <2>1. ~Sane' /\ OnlyNew("client", 0)
    BY <1>8, UsedFaults, SameOnlyNew
  <2> QED BY <1>8, <2>1, FaultStep
<1> QED BY <1>5, <1>6, <1>7, <1>8 DEF OnMessage

\* What DeleteConnectionLane changes, when it does not crash.
LEMMA DeleteEffect ==
  ASSUME TypeOK, NEW p \in Peer, NEW n \in Lane,
         DeleteLaneOfSocket(p, n) \/ DeleteLaneOfChannel(p, n)
  PROVE  /\ \/ conn' = conn
            \/ \E m \in Lane : Live(p, m) /\ conn' = Freed(p, m)
         /\ \E m \in Lane : OnlyNew(p, [id |-> "MsgDeleteChannel", lane |-> m])
         /\ Sane' => Sane
<1>1. ASSUME NEW m \in Lane, wire' = Put(p, [id |-> "MsgDeleteChannel", lane |-> m])
      PROVE  OnlyNew(p, [id |-> "MsgDeleteChannel", lane |-> m])
  BY <1>1, PutOnlyNew, MessageTypes
<1>2. wire' = wire => OnlyNew(p, [id |-> "MsgDeleteChannel", lane |-> n])
  BY SameOnlyNew
<1>3. fault' = fault \/ Used => (Sane' => Sane)
  BY UsedFaults DEF Sane
<1>4. ASSUME NEW m \in Lane, NEW a, CloseConnection(p, m, a)
      PROVE  /\ conn' = Freed(p, m)
             /\ wire' = wire \/ wire' = Put(p, [id |-> "MsgDeleteChannel", lane |-> m])
  BY <1>4 DEF CloseConnection, DeleteRemoteChannel
<1>5. CASE DeleteLaneOfSocket(p, n)
  <2>1. CASE Live(p, n) /\ conn[p][n].att /\ CloseConnection(p, n, ~chan[p][n].cbr) /\ UNCHANGED fault
    BY <1>1, <1>2, <1>3, <1>4, <2>1
  <2>2. CASE UNCHANGED <<conn, wire>> /\ (fault' = fault \/ Used)
    BY <1>2, <1>3, <2>2
  <2>3. CASE Used /\ \E m \in Heirs(p, n) : CloseConnection(p, m, ~chan[p][m].cbr)
    <3>1. PICK m \in Lane : Live(p, m) /\ CloseConnection(p, m, ~chan[p][m].cbr)
      BY <2>3 DEF Heirs
    <3> QED BY <1>1, <1>2, <1>3, <1>4, <2>3, <3>1
  <2> QED BY <1>5, <2>1, <2>2, <2>3 DEF DeleteLaneOfSocket
<1>6. CASE DeleteLaneOfChannel(p, n)
  <2>1. CASE Live(p, n) /\ CloseConnection(p, n, ~chan[p][n].cbr) /\ UNCHANGED fault
    BY <1>1, <1>2, <1>3, <1>4, <2>1
  <2>2. CASE UNCHANGED <<fault, conn, wire>>
    BY <1>2, <1>3, <2>2
  <2>3. CASE /\ Used
             /\ UNCHANGED conn \/ \E m \in Heirs(p, n) : conn' = Freed(p, m)
             /\ wire' = wire \/ wire' = Put(p, [id |-> "MsgDeleteChannel", lane |-> n])
    <3>1. UNCHANGED conn \/ \E m \in Lane : Live(p, m) /\ conn' = Freed(p, m)
      BY <2>3 DEF Heirs
    <3> QED BY <1>1, <1>2, <1>3, <2>3, <3>1
  <2> QED BY <1>6, <2>1, <2>2, <2>3 DEF DeleteLaneOfChannel, DeleteRemoteChannel
<1> QED BY <1>5, <1>6

\* DeleteConnectionLane keeps Rest.
LEMMA DeleteStep ==
  ASSUME TypeOK, Rest, NEW p \in Peer, DeleteConnectionLane(p)
  PROVE  Rest'
<1> DEFINE n == Head(queue[p]).lane
<1>1. n \in Lane
  <2>1. queue[p] \in Seq(StopLaneMsg) /\ queue[p] # <<>>
    BY DEF TypeOK, DeleteConnectionLane
  <2>2. Head(queue[p]) \in StopLaneMsg
    BY <2>1
  <2> QED BY <2>2 DEF StopLaneMsg
<1>2. CASE Crash(p, "useAfterFree")
  BY <1>2, CrashStep
<1>3. CASE /\ DeleteLaneOfSocket(p, n) \/ DeleteLaneOfChannel(p, n)
           /\ UNCHANGED <<up, ctl, listening, target, opening, chan, app, data, sent, got>>
  <2> HIDE DEF n
  <2>1. /\ \/ conn' = conn
           \/ \E m \in Lane : Live(p, m) /\ conn' = Freed(p, m)
        /\ \E m \in Lane : OnlyNew(p, [id |-> "MsgDeleteChannel", lane |-> m])
        /\ Sane' => Sane
    BY <1>1, <1>3, DeleteEffect
  <2>2. \A q \in Peer, j \in Lane :
           /\ conn'[q][j].life = "none" <=> conn[q][j].life = "none"
           /\ Live(q, j)' => Live(q, j)
           /\ conn'[q][j].ready = conn[q][j].ready
    <3>1. CASE conn' = conn
      BY <3>1 DEF Live
    <3>2. CASE \E m \in Lane : Live(p, m) /\ conn' = Freed(p, m)
      <4>1. PICK m \in Lane : Live(p, m) /\ conn' = Freed(p, m)
        BY <3>2
      <4>2. /\ conn'[p][m].life = "freed"
            /\ \A q \in Peer, j \in Lane :
                  /\ (q # p \/ j # m) => conn'[q][j] = conn[q][j]
                  /\ conn'[q][j].ready = conn[q][j].ready
        BY <4>1, FreedType
      <4> QED BY <4>1, <4>2 DEF Live
    <3> QED BY <2>1, <3>1, <3>2
  <2>3. PICK m \in Lane : OnlyNew(p, [id |-> "MsgDeleteChannel", lane |-> m])
    BY <2>1
  <2> DEFINE msg == [id |-> "MsgDeleteChannel", lane |-> m]
  <2>4. OnlyNew(p, msg) /\ msg.id = "MsgDeleteChannel"
    BY <2>3
  <2> HIDE DEF msg
  <2>5. \A q \in Peer, j \in Lane : Known(q, j)' => Known(q, j)
    BY <1>3 DEF Known
  <2>6. TargetFirst'
    BY <1>3, <2>2, <2>4, <2>5, TargetSame, PeerFacts
  <2>7. ChannelFirst'
    BY <1>3, <2>1, <2>2, <2>5, ChannelSame, PeerFacts
  <2>8. Attached'
    BY <1>3, <2>2, AttachedSame, PeerFacts
  <2>9. ServerFirst'
    BY <1>3, <2>1, <2>2, <2>4, ServerSame, PeerFacts
  <2>10. NothingDropped'
    BY <1>3, <2>1, <2>2, DroppedSame
  <2>11. NoLostWakeup'
    BY <1>3, <2>1, <2>2, WakeupSame
  <2> QED BY <2>6, <2>7, <2>8, <2>9, <2>10, <2>11 DEF Rest
<1> QED BY <1>2, <1>3 DEF DeleteConnectionLane

\* Every handler of either Conductor keeps Rest.
LEMMA RestStep ==
  ASSUME TypeOK, Rest, [Next]_vars
  PROVE  Rest'
<1>1. CASE UNCHANGED vars
  <2>1. OnlyNew("client", 0)
    BY <1>1, SameOnlyNew DEF vars
  <2> QED BY <1>1, <2>1, ControlStep, PeerFacts DEF vars
<1>2. CASE OnCreateChannel \/ OnChannelCreated
  BY <1>2, HandshakeSteps
<1>3. ASSUME NEW p \in Peer,
             \/ OnControlDataChannelOpen(p) \/ OnControlDataChannelClosed(p)
             \/ DeleteConnectionLane(p) \/ Close(p)
      PROVE  Rest'
  BY <1>3, HandshakeSteps, DeleteStep, CloseStep
<1>4. ASSUME NEW n \in Lane,
             \/ OnServerSideReady(n) \/ OnSocketOpen(n) \/ ClientChannelOpen(n)
             \/ OnDataChannel(n) \/ OnSocketDataChannelOpen(n)
      PROVE  Rest'
  BY <1>4, ServerReadyStep, SocketOpenStep, ClientChannelOpenStep, DataChannelStep,
     ServerConnectStep
<1>5. ASSUME NEW p \in Peer, NEW n \in Lane,
             \/ OnStopChannel(p, n) \/ AppWrite(p, n) \/ AppClose(p, n)
             \/ ReadEvent(p, n) \/ CloseEvent(p, n) \/ OnMessage(p, n)
             \/ OnSocketDataChannelClosed(p, n)
      PROVE  Rest'
  BY <1>5, StopChannelStep, ApplicationSteps, ReadEventStep, MessageStep, ChannelClosedStep
<1> QED BY <1>1, <1>2, <1>3, <1>4, <1>5 DEF Next

-----------------------------------------------------------------------------
\* The initial state has the types and bounds.
LEMMA TypeInit ==
  ASSUME Init
  PROVE  TypeOK /\ StreamBounds
<1>1. /\ NoChannel \in Channel /\ NoConnection \in Connection /\ NoStream \in Stream
      /\ NoStream.unread + NoStream.left <= MaxChunk
  BY MaxChunkAssumption
  DEF NoChannel, Channel, ChannelState, NoConnection, Connection, Life, NoStream, Stream
<1>2. <<>> \in Seq(Control) /\ <<>> \in Seq(StopLaneMsg)
  OBVIOUS
<1>3. /\ chan \in [Peer -> [Lane -> Channel]]
      /\ conn \in [Peer -> [Lane -> Connection]]
      /\ app \in [Peer -> [Lane -> Stream]]
  <2> HIDE DEF NoChannel, NoConnection, NoStream
  <2> QED BY <1>1 DEF Init
<1>4. wire \in [Peer -> Seq(Control)] /\ queue \in [Peer -> Seq(StopLaneMsg)]
  BY <1>2 DEF Init
<1>5. data \in [Peer -> [Lane -> Nat]] /\ sent \in [Peer -> [Lane -> Nat]] /\ got \in [Peer -> [Lane -> Nat]]
  BY DEF Init
<1>6. /\ up \in [Peer -> BOOLEAN] /\ fault \in {"none", "useAfterFree", "nullDereference"}
      /\ ctl \in [Peer -> {"connecting", "open", "closed"}]
      /\ listening \in BOOLEAN /\ target \in BOOLEAN /\ opening \subseteq Lane
  BY DEF Init
<1>7. StreamBounds
  BY <1>1 DEF Init, StreamBounds
<1> QED BY <1>3, <1>4, <1>5, <1>6, <1>7 DEF TypeOK

\* The initial state satisfies Rest.
LEMMA RestInit ==
  ASSUME Init
  PROVE  Rest
<1>1. \A p \in Peer, n \in Lane :
         /\ chan[p][n] = NoChannel /\ conn[p][n] = NoConnection
         /\ data[p][n] = 0 /\ sent[p][n] = 0 /\ got[p][n] = 0
  BY DEF Init
<1>2. \A p \in Peer : Len(wire[p]) = 0
  BY DEF Init
<1>3. ~listening /\ opening = {}
  BY DEF Init
<1>4. /\ NoChannel.st = "absent" /\ ~NoChannel.sock
      /\ NoConnection.life = "none" /\ ~NoConnection.ready
  BY DEF NoChannel, NoConnection
<1>5. TargetFirst
  BY <1>1, <1>2, <1>3, <1>4, PeerFacts DEF TargetFirst, Known
<1>6. ChannelFirst
  BY <1>1, <1>3, <1>4, PeerFacts DEF ChannelFirst, Known
<1>7. Attached
  BY <1>1, <1>4, PeerFacts DEF Attached
<1>8. ServerFirst
  BY <1>1, <1>2, <1>4, PeerFacts DEF ServerFirst, InWire
<1>9. NothingDropped
  BY <1>1, PeerFacts DEF NothingDropped
<1>10. NoLostWakeup
  BY <1>1, <1>4 DEF NoLostWakeup
<1> QED BY <1>5, <1>6, <1>7, <1>8, <1>9, <1>10 DEF Rest

-----------------------------------------------------------------------------
\* The inductive invariant holds in every reachable state of the two Conductors,
\* for every set of lanes and blocks, every MaxChunk and every set of failures.
THEOREM InductiveInvariant == Spec => []Inductive
<1>1. Inductive <=> TypeOK /\ StreamBounds /\ Rest
  BY DEF Inductive, Rest
<1>2. Init => Inductive
  BY <1>1, TypeInit, RestInit
<1>3. Inductive /\ [Next]_vars => Inductive'
  <2>1. Inductive' <=> TypeOK' /\ StreamBounds' /\ Rest'
    BY DEF Inductive, Rest
  <2> QED BY <1>1, <2>1, TypeStep, RestStep
<1> QED BY <1>2, <1>3, PTL DEF Spec

\* Every handler leaves the state well typed.
THEOREM TypeCorrect == Spec => []TypeOK
<1>1. Inductive => TypeOK
  BY DEF Inductive
<1> QED BY <1>1, InductiveInvariant, PTL

\* HotlineDataChannel::OnMessage drops no chunk while both ends of a lane stand:
\* sent = in flight + handed over, whatever the order of handshake and data.
THEOREM NothingIsDropped == Spec => []NothingDropped
<1>1. Inductive => NothingDropped
  BY DEF Inductive
<1> QED BY <1>1, InductiveInvariant, PTL

\* No client connection is ready before the server's is there, and no server
\* connection is made before OnCreateChannel has set the target.
THEOREM HandshakeInOrder == Spec => []HandshakeOrder
<1>1. Inductive => HandshakeOrder
  BY DEF Inductive, HandshakeOrder, TargetFirst, ServerFirst
<1> QED BY <1>1, InductiveInvariant, PTL

\* A ready connection with bytes waiting has a read event coming, although
\* DoReceiveLoop swallows the events that come before OnServerSideReady.
THEOREM NoWakeupIsLost == Spec => []NoLostWakeup
<1>1. Inductive => NoLostWakeup
  BY DEF Inductive
<1> QED BY <1>1, InductiveInvariant, PTL
=============================================================================

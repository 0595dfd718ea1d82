--------------------------- MODULE LaneStepProofs ---------------------------
(***************************************************************************)
(* Proofs about the steps of ConnectionLane, for every value of its        *)
(* constants: the handlers implement AbstractLane, and a deletion is       *)
(* announced once.                                                         *)
(*                                                                         *)
(* Inductive says where a lane stands in its handshake.  Two invariants    *)
(* are added to it: Flow, that no chunk comes from nowhere, and Echo, who  *)
(* was told of which deletion.  A lemma for each step of AbstractLane says *)
(* which changes of the detailed state amount to it, and one for each      *)
(* handler that it is such a change; for Echo, most handlers fall under    *)
(* EchoSame, and the six that begin, mark or delete are argued in full.    *)
(***************************************************************************)
EXTENDS ConnectionLaneProofs

-----------------------------------------------------------------------------
(* The invariant of the chunks.                                            *)

\* An end was handed no more than was sent and is not in flight.
Flow ==
    Sane => \A p \in Peer, n \in Lane :
        data[p][n] + got[Other(p)][n] <= sent[p][n]

\* A fault, once met, stays.
LEMMA SaneStep ==
  ASSUME [Next]_vars, Sane'
  PROVE  Sane
<1> SUFFICES fault' = fault \/ Used \/ \E p \in Peer, k \in {"useAfterFree", "nullDereference"} : Crash(p, k)
  BY DEF Sane, Used, Crash
<1>1. CASE UNCHANGED vars
  BY <1>1 DEF vars
<1>2. CASE OnCreateChannel \/ OnChannelCreated
  BY <1>2 DEF OnCreateChannel, OnChannelCreated
<1>3. ASSUME NEW p \in Peer,
             OnControlDataChannelOpen(p) \/ OnControlDataChannelClosed(p) \/ Close(p)
      PROVE  fault' = fault
  BY <1>3 DEF OnControlDataChannelOpen, OnControlDataChannelClosed, Close
<1>4. ASSUME NEW p \in Peer, DeleteConnectionLane(p)
      PROVE  fault' = fault \/ Used \/ Crash(p, "useAfterFree")
  BY <1>4 DEF DeleteConnectionLane, DeleteLaneOfSocket, DeleteLaneOfChannel
<1>5. ASSUME NEW n \in Lane, OnServerSideReady(n)
      PROVE  fault' = fault \/ Used \/ Crash("client", "useAfterFree")
  BY <1>5 DEF OnServerSideReady
<1>6. ASSUME NEW n \in Lane,
             \/ OnSocketOpen(n) \/ ClientChannelOpen(n) \/ OnDataChannel(n)
             \/ OnSocketDataChannelOpen(n)
      PROVE  fault' = fault
  BY <1>6 DEF OnSocketOpen, ClientChannelOpen, OnDataChannel, OnSocketDataChannelOpen
<1>7. ASSUME NEW p \in Peer, NEW n \in Lane,
             \/ OnStopChannel(p, n) \/ AppWrite(p, n) \/ AppClose(p, n)
             \/ CloseEvent(p, n) \/ OnSocketDataChannelClosed(p, n)
      PROVE  fault' = fault
  BY <1>7 DEF OnStopChannel, AppWrite, AppClose, CloseEvent, OnSocketDataChannelClosed
<1>8. ASSUME NEW p \in Peer, NEW n \in Lane, ReadEvent(p, n)
      PROVE  fault' = fault \/ Crash(p, "nullDereference")
  BY <1>8 DEF ReadEvent
<1>9. ASSUME NEW p \in Peer, NEW n \in Lane, OnMessage(p, n)
      PROVE  fault' = fault \/ Used \/ Crash(p, "useAfterFree")
  BY <1>9 DEF OnMessage
<1> QED BY <1>1, <1>2, <1>3, <1>4, <1>5, <1>6, <1>7, <1>8, <1>9, PeerFacts DEF Next

\* A crash is a fault.
LEMMA CrashFaults ==
  ASSUME NEW p, NEW kind, kind # "none", Crash(p, kind)
  PROVE  ~Sane'
  BY DEF Crash, Sane

\* Whichever loop runs, Flow survives: what it sends is in flight.
LEMMA LoopFlow ==
  ASSUME TypeOK, Flow, Sane, NEW p \in Peer, NEW n \in Lane, NEW r \in BOOLEAN,
         DoReceiveLoop(p, n, r), UNCHANGED got
  PROVE  Flow'
<1> SUFFICES ASSUME NEW q \in Peer, NEW m \in Lane
             PROVE  data'[q][m] + got[Other(q)][m] <= sent'[q][m]
  BY DEF Flow
<1>1. /\ data[q][m] \in Nat /\ sent[q][m] \in Nat /\ got[Other(q)][m] \in Nat
      /\ data[q][m] + got[Other(q)][m] <= sent[q][m]
  BY PeerFacts DEF TypeOK, Flow
<1>2. \E k \in Nat : data'[q][m] = data[q][m] + k /\ sent'[q][m] = sent[q][m] + k
  <2>1. CASE q = p /\ m = n
    BY <2>1, LoopEffect
  <2>2. CASE q # p \/ m # n
    <3>1. data'[q][m] = data[q][m] /\ sent'[q][m] = sent[q][m]
      BY <2>2, LoopEffect
    <3>2. data'[q][m] = data[q][m] + 0 /\ sent'[q][m] = sent[q][m] + 0
      BY <1>1, <3>1
    <3> QED BY <3>2
  <2> QED BY <2>1, <2>2
<1> QED BY <1>1, <1>2

\* A chunk handed over was in flight.
LEMMA MessageFlow ==
  ASSUME TypeOK, Flow, Sane, NEW p \in Peer, NEW n \in Lane, OnMessage(p, n), Sane'
  PROVE  Flow'
<1> DEFINE q == Other(p)
<1>1. q \in Peer /\ q # p /\ Other(q) = p
  BY PeerFacts
<1>2. /\ data[q][n] > 0 /\ data' = [data EXCEPT ![q][n] = @ - 1]
      /\ got' = got \/ got' = [got EXCEPT ![p][n] = @ + 1]
      /\ sent' = sent
  BY UsedFaults, CrashFaults DEF OnMessage
<1>3. /\ data \in [Peer -> [Lane -> Nat]] /\ got \in [Peer -> [Lane -> Nat]]
      /\ sent \in [Peer -> [Lane -> Nat]]
  BY DEF TypeOK
<1>4. /\ data'[q][n] = data[q][n] - 1
      /\ \A r \in Peer, m \in Lane : (r # q \/ m # n) => data'[r][m] = data[r][m]
  <2> HIDE DEF q
  <2> QED BY <1>1, <1>2, <1>3
<1>5. /\ got'[p][n] \in {got[p][n], got[p][n] + 1}
      /\ \A r \in Peer, m \in Lane : (r # p \/ m # n) => got'[r][m] = got[r][m]
  BY <1>2, <1>3
<1> SUFFICES ASSUME NEW r \in Peer, NEW m \in Lane
             PROVE  data'[r][m] + got'[Other(r)][m] <= sent'[r][m]
  BY DEF Flow
<1>6. data[r][m] + got[Other(r)][m] <= sent[r][m]
  BY DEF Flow
<1>7. /\ data[r][m] \in Nat /\ sent[r][m] \in Nat /\ got[Other(r)][m] \in Nat
      /\ sent'[r][m] = sent[r][m]
  BY <1>2, <1>3, PeerFacts
<1>8. CASE r = q /\ m = n
  BY <1>1, <1>2, <1>4, <1>5, <1>6, <1>7, <1>8
<1>9. CASE r # q \/ m # n
  <2>1. Other(r) # p \/ m # n
    BY <1>9, PeerFacts
  <2> QED BY <1>4, <1>5, <1>6, <1>7, <1>9, <2>1, PeerFacts
<1> QED BY <1>8, <1>9

\* A handler that is not OnMessage and does not read moves no chunk.
LEMMA FlowStep ==
  ASSUME TypeOK, Flow, [Next]_vars
  PROVE  Flow'
<1> SUFFICES ASSUME Sane', Sane PROVE Flow'
  BY SaneStep DEF Flow
<1>1. UNCHANGED <<sent, data, got>> => Flow'
  BY DEF Flow
<1>2. CASE UNCHANGED vars
  BY <1>1, <1>2 DEF vars
<1>3. CASE OnCreateChannel \/ OnChannelCreated
  BY <1>1, <1>3 DEF OnCreateChannel, OnChannelCreated
<1>4. ASSUME NEW p \in Peer,
             OnControlDataChannelOpen(p) \/ OnControlDataChannelClosed(p) \/ Close(p)
      PROVE  Flow'
  BY <1>1, <1>4 DEF OnControlDataChannelOpen, OnControlDataChannelClosed, Close, Gone
<1>5. ASSUME NEW p \in Peer, DeleteConnectionLane(p)
      PROVE  Flow'
  BY <1>1, <1>5, CrashFaults DEF DeleteConnectionLane
<1>6. ASSUME NEW n \in Lane, OnServerSideReady(n)
      PROVE  Flow'
  <2>1. CASE UNCHANGED <<sent, data, got>>
    BY <1>1, <2>1
  <2>2. CASE DoReceiveLoop("client", n, TRUE) /\ UNCHANGED got
    <3>1. PICK r \in BOOLEAN : r = TRUE
      OBVIOUS
    <3>2. DoReceiveLoop("client", n, r)
      BY <2>2, <3>1
    <3> QED BY <2>2, <3>2, LoopFlow, PeerFacts
  <2> QED BY <1>6, <2>1, <2>2, CrashFaults, UsedFaults DEF OnServerSideReady, SocketReadEvent
<1>7. ASSUME NEW n \in Lane,
             \/ OnSocketOpen(n) \/ ClientChannelOpen(n) \/ OnDataChannel(n)
             \/ OnSocketDataChannelOpen(n)
      PROVE  Flow'
  BY <1>1, <1>7 DEF OnSocketOpen, ClientChannelOpen, OnDataChannel, OnSocketDataChannelOpen
<1>8. ASSUME NEW p \in Peer, NEW n \in Lane,
             \/ OnStopChannel(p, n) \/ AppWrite(p, n) \/ AppClose(p, n)
             \/ CloseEvent(p, n) \/ OnSocketDataChannelClosed(p, n)
      PROVE  Flow'
  BY <1>1, <1>8 DEF OnStopChannel, AppWrite, AppClose, CloseEvent, OnSocketDataChannelClosed
<1>9. ASSUME NEW p \in Peer, NEW n \in Lane, ReadEvent(p, n)
      PROVE  Flow'
  <2>1. DoReceiveLoop(p, n, conn[p][n].ready) /\ UNCHANGED got
    BY <1>9, CrashFaults DEF ReadEvent
  <2>2. conn[p][n].ready \in BOOLEAN
    BY DEF TypeOK, Connection
  <2> QED BY <2>1, <2>2, LoopFlow
<1>10. ASSUME NEW p \in Peer, NEW n \in Lane, OnMessage(p, n)
       PROVE  Flow'
  BY <1>10, MessageFlow
<1> QED BY <1>2, <1>3, <1>4, <1>5, <1>6, <1>7, <1>8, <1>9, <1>10 DEF Next

\* In every reachable state no end was handed more than the other end sent.
LEMMA FlowInvariant == Spec => []Flow
<1>1. Init => Flow
  BY PeerFacts DEF Init, Flow
<1>2. TypeOK /\ Flow /\ [Next]_vars => Flow'
  BY FlowStep
<1> QED BY <1>1, <1>2, TypeCorrect, PTL DEF Spec
-----------------------------------------------------------------------------
(* What each step of AbstractLane asks of the detailed state.              *)

LifeBar == [p \in Peer |-> [n \in Lane |-> conn[p][n].life]]
ReadyBar == [n \in Lane |-> conn["client"][n].ready]

\* The two modules speak of the same peers.
LEMMA SamePeers ==
  Lanes!Peer = Peer /\ \A p \in Peer : Lanes!Other(p) = Other(p)
  BY DEF Lanes!Peer, Peer, Lanes!Other, Other

\* A step that keeps every life, the client's readiness and the chunks stutters.
LEMMA StutterMaps ==
  ASSUME \A q \in Peer, m \in Lane : conn'[q][m].life = conn[q][m].life,
         \A m \in Lane : conn'["client"][m].ready = conn["client"][m].ready,
         UNCHANGED <<sent, got>>
  PROVE  UNCHANGED Lanes!vars
<1>1. LifeBar' = LifeBar
  BY DEF LifeBar
<1>2. ReadyBar' = ReadyBar
  BY DEF ReadyBar
<1> QED BY <1>1, <1>2 DEF LifeBar, ReadyBar, Lanes!vars

\* One end comes to a life that is not the one it had.
LEMMA LifeMaps ==
  ASSUME NEW p \in Peer, NEW n \in Lane, NEW l,
         conn'[p][n].life = l,
         \A q \in Peer, m \in Lane : (q # p \/ m # n) => conn'[q][m].life = conn[q][m].life
  PROVE  LifeBar' = [LifeBar EXCEPT ![p][n] = l]
<1>1. /\ LifeBar' = [q \in Peer |-> [m \in Lane |-> conn'[q][m].life]]
      /\ LifeBar = [q \in Peer |-> [m \in Lane |-> conn[q][m].life]]
  BY DEF LifeBar
<1>2. LifeBar'[p] = [LifeBar[p] EXCEPT ![n] = l]
  BY <1>1
<1>3. \A q \in Peer : q # p => LifeBar'[q] = LifeBar[q]
  BY <1>1
<1> QED BY <1>1, <1>2, <1>3

\* An end that was never there begins.
LEMMA BeginsMaps ==
  ASSUME NEW p \in Peer, NEW n \in Lane,
         conn[p][n].life = "none", conn'[p][n].life = "live",
         \A q \in Peer, m \in Lane : (q # p \/ m # n) => conn'[q][m].life = conn[q][m].life,
         \A m \in Lane : conn'["client"][m].ready = conn["client"][m].ready,
         UNCHANGED <<sent, got>>
  PROVE  Lanes!Begins(p, n)
<1>1. LifeBar' = [LifeBar EXCEPT ![p][n] = "live"]
  BY LifeMaps
<1>2. ReadyBar' = ReadyBar
  BY DEF ReadyBar
<1> QED BY <1>1, <1>2 DEF LifeBar, ReadyBar, Lanes!Begins

\* A live end is deleted.
LEMMA DeleteMaps ==
  ASSUME NEW p \in Peer, NEW n \in Lane,
         conn[p][n].life = "live", conn'[p][n].life = "freed",
         \A q \in Peer, m \in Lane : (q # p \/ m # n) => conn'[q][m].life = conn[q][m].life,
         \A m \in Lane : conn'["client"][m].ready = conn["client"][m].ready,
         UNCHANGED <<sent, got>>
  PROVE  Lanes!Delete(p, n)
<1>1. LifeBar' = [LifeBar EXCEPT ![p][n] = "freed"]
  BY LifeMaps
<1>2. ReadyBar' = ReadyBar
  BY DEF ReadyBar
<1> QED BY <1>1, <1>2 DEF LifeBar, ReadyBar, Lanes!Delete

\* A peer goes with its live ends.
LEMMA LeaveMaps ==
  ASSUME NEW p \in Peer,
         \A m \in Lane : conn'[p][m].life =
            IF conn[p][m].life = "live" THEN "freed" ELSE conn[p][m].life,
         \A q \in Peer, m \in Lane : q # p => conn'[q][m].life = conn[q][m].life,
         \A m \in Lane : conn'["client"][m].ready = conn["client"][m].ready,
         UNCHANGED <<sent, got>>
  PROVE  Lanes!Leave(p)
<1> DEFINE gone == [m \in Lane |-> IF LifeBar[p][m] = "live" THEN "freed" ELSE LifeBar[p][m]]
<1>1. LifeBar' = [LifeBar EXCEPT ![p] = gone]
  <2>1. /\ LifeBar' = [q \in Peer |-> [m \in Lane |-> conn'[q][m].life]]
        /\ LifeBar = [q \in Peer |-> [m \in Lane |-> conn[q][m].life]]
    BY DEF LifeBar
  <2>2. LifeBar'[p] = gone
    BY <2>1
  <2>3. \A q \in Peer : q # p => LifeBar'[q] = LifeBar[q]
    BY <2>1
  <2> HIDE DEF gone
  <2> QED BY <2>1, <2>2, <2>3
<1>2. ReadyBar' = ReadyBar
  BY DEF ReadyBar
<1> QED BY <1>1, <1>2 DEF LifeBar, ReadyBar, Lanes!Leave

\* What one end sent, if anything, is more than before.
LEMMA SendsMaps ==
  ASSUME TypeOK, TypeOK', NEW p \in Peer, NEW n \in Lane,
         sent'[p][n] >= sent[p][n],
         \A q \in Peer, m \in Lane : (q # p \/ m # n) => sent'[q][m] = sent[q][m]
  PROVE  Lanes!Sends(p, n)
<1>1. sent \in [Peer -> [Lane -> Nat]] /\ sent' \in [Peer -> [Lane -> Nat]]
  BY DEF TypeOK
<1>2. sent' = [sent EXCEPT ![p][n] = sent'[p][n]]
  BY <1>1
<1> QED BY <1>2 DEF Lanes!Sends

\* The client's end of a lane whose two ends are there may send.
LEMMA ReadyMaps ==
  ASSUME TypeOK, TypeOK', NEW n \in Lane,
         conn["client"][n].life = "live", conn["server"][n].life # "none",
         conn'["client"][n].ready = TRUE,
         \A q \in Peer, m \in Lane : conn'[q][m].life = conn[q][m].life,
         \A m \in Lane : m # n => conn'["client"][m].ready = conn["client"][m].ready,
         sent'["client"][n] >= sent["client"][n],
         \A q \in Peer, m \in Lane : (q # "client" \/ m # n) => sent'[q][m] = sent[q][m],
         UNCHANGED got
  PROVE  Lanes!BecomeReady(n)
<1>1. LifeBar' = LifeBar
  BY DEF LifeBar
<1>2. ReadyBar' = [ReadyBar EXCEPT ![n] = TRUE]
  BY DEF ReadyBar
<1>3. Lanes!Sends("client", n)
  BY SendsMaps, PeerFacts
<1> QED BY <1>1, <1>2, <1>3, PeerFacts DEF LifeBar, ReadyBar, Lanes!BecomeReady

\* A live end, the client's only when ready, sends.
LEMMA ForwardMaps ==
  ASSUME TypeOK, TypeOK', NEW p \in Peer, NEW n \in Lane,
         conn[p][n].life = "live", p = "client" => conn[p][n].ready,
         UNCHANGED <<conn, got>>,
         sent'[p][n] >= sent[p][n],
         \A q \in Peer, m \in Lane : (q # p \/ m # n) => sent'[q][m] = sent[q][m]
  PROVE  Lanes!Forward(p, n)
<1>1. LifeBar' = LifeBar /\ ReadyBar' = ReadyBar
  BY DEF LifeBar, ReadyBar
<1>2. Lanes!Sends(p, n)
  BY SendsMaps
<1> QED BY <1>1, <1>2 DEF LifeBar, ReadyBar, Lanes!Forward

\* A live end is handed a chunk that the other one sent.
LEMMA DeliverMaps ==
  ASSUME NEW p \in Peer, NEW n \in Lane,
         conn[p][n].life = "live", got[p][n] < sent[Other(p)][n],
         got' = [got EXCEPT ![p][n] = @ + 1],
         UNCHANGED <<conn, sent>>
  PROVE  Lanes!Deliver(p, n)
<1>1. LifeBar' = LifeBar /\ ReadyBar' = ReadyBar
  BY DEF LifeBar, ReadyBar
<1> QED BY <1>1, SamePeers DEF LifeBar, ReadyBar, Lanes!Deliver

-----------------------------------------------------------------------------
(* The handlers, each one step of AbstractLane or none.                    *)

\* OnServerSideReady makes the client's end ready: the server's is connected.
LEMMA ServerReadyImplements ==
  ASSUME Inductive, TypeOK', Sane, Sane', NEW n \in Lane, OnServerSideReady(n)
  PROVE  Lanes!BecomeReady(n) \/ UNCHANGED Lanes!vars
<1> DEFINE p == "client"
<1>1. TypeOK /\ p \in Peer
  BY PeerFacts DEF Inductive
<1>2. CASE UNCHANGED <<conn, sent, got>>
  BY <1>2, StutterMaps
<1>3. CASE /\ Live(p, n) /\ conn' = [conn EXCEPT ![p][n].ready = TRUE]
           /\ SocketReadEvent(p, n) /\ UNCHANGED got
  <2>1. conn["server"][n].life # "none"
    <3>1. InWire("server", "MsgServerSideReady", n)
      BY <1>1, ReceivedFirst, PeerFacts DEF OnServerSideReady, InWire
    <3> QED BY <3>1 DEF Inductive, ServerFirst
  <2>2. /\ \A q \in Peer, m \in Lane : (q # p \/ m # n) => conn'[q][m] = conn[q][m]
        /\ \A q \in Peer, m \in Lane : conn'[q][m].life = conn[q][m].life
    BY <1>1, <1>3, ReadyPoint
  <2>3. conn'[p][n].ready = TRUE
    <3>1. conn \in [Peer -> [Lane -> Connection]] /\ conn[p][n] \in Connection
      BY <1>1 DEF TypeOK
    <3>2. conn'[p][n] = [conn[p][n] EXCEPT !.ready = TRUE]
      BY <1>1, <1>3, <3>1
    <3> QED BY <3>1, <3>2 DEF Connection
  <2>4. PICK r \in BOOLEAN : r = TRUE
    OBVIOUS
  <2>5. DoReceiveLoop(p, n, r)
    BY <1>3, <2>4 DEF SocketReadEvent
  <2>6. \A q \in Peer, m \in Lane : (q # p \/ m # n) => sent'[q][m] = sent[q][m]
    BY <1>1, <2>5, LoopEffect
  <2>7. sent'[p][n] >= sent[p][n]
    <3>1. PICK k \in Nat : sent'[p][n] = sent[p][n] + k
      BY <1>1, <2>5, LoopEffect
    <3>2. sent[p][n] \in Nat
      BY <1>1 DEF TypeOK
    <3> QED BY <3>1, <3>2
  <2>8. \A m \in Lane : m # n => conn'[p][m].ready = conn[p][m].ready
    BY <1>1, <2>2
  <2> QED BY <1>1, <1>3, <2>1, <2>2, <2>3, <2>6, <2>7, <2>8, ReadyMaps DEF Live
<1> QED BY <1>2, <1>3, CrashFaults, UsedFaults DEF OnServerSideReady

\* OnSocketOpen accepts a lane that has no end yet, and whose end is not ready.
LEMMA SocketOpenImplements ==
  ASSUME Inductive, Sane, NEW n \in Lane, OnSocketOpen(n)
  PROVE  Lanes!Accept(n)
<1>1. PICK b \in Block, a \in BOOLEAN :
         conn' = [conn EXCEPT !["client"][n] = NewConnection(a, FALSE, b)]
  BY DEF OnSocketOpen, HandleConnection, FreeBlocks
<1>2. conn["client"][n].life = "none" /\ up["client"] /\ UNCHANGED <<sent, got>>
  BY DEF OnSocketOpen, Accepts
<1> DEFINE c == NewConnection(a, FALSE, b)
<1>3. c.life = "live" /\ c.ready = FALSE
  BY DEF NewConnection
<1>4. /\ conn'["client"][n] = c
      /\ \A q \in Peer, m \in Lane : (q # "client" \/ m # n) => conn'[q][m] = conn[q][m]
  <2>1. conn' = [conn EXCEPT !["client"][n] = c]
    BY <1>1
  <2>2. conn \in [Peer -> [Lane -> Connection]] /\ "client" \in Peer
    BY PeerFacts DEF Inductive, TypeOK
  <2> HIDE DEF c
  <2> QED BY <2>1, <2>2
<1>5. conn["client"][n].ready = FALSE
  <2>1. ~Known("client", n)
    BY <1>2 DEF Inductive, TargetFirst
  <2>2. chan["client"][n].st \in {"absent", "null"}
    BY <2>1, PeerFacts DEF Known, Inductive, TypeOK, Channel, ChannelState
  <2>3. ~conn["client"][n].ready
    BY <1>2, <2>2 DEF Inductive, ChannelFirst
  <2>4. conn["client"][n].ready \in BOOLEAN
    BY PeerFacts DEF Inductive, TypeOK, Connection
  <2> QED BY <2>3, <2>4
<1> HIDE DEF c
<1>6. \A m \in Lane : conn'["client"][m].ready = conn["client"][m].ready
  BY <1>3, <1>4, <1>5, PeerFacts
<1>7. \A q \in Peer, m \in Lane : (q # "client" \/ m # n) => conn'[q][m].life = conn[q][m].life
  BY <1>4
<1>8. conn'["client"][n].life = "live"
  BY <1>3, <1>4
<1> QED BY <1>2, <1>6, <1>7, <1>8, BeginsMaps, PeerFacts DEF Lanes!Accept

\* OnSocketDataChannelOpen connects a lane whose client's end was accepted.
LEMMA ChannelOpenImplements ==
  ASSUME Inductive, NEW n \in Lane, OnSocketDataChannelOpen(n)
  PROVE  Lanes!Connect(n) \/ UNCHANGED Lanes!vars
<1>1. chan["server"][n].st = "connecting" /\ UNCHANGED <<sent, got>>
  BY DEF OnSocketDataChannelOpen
<1>2. conn["client"][n].life # "none" /\ conn["server"][n].life = "none"
  BY <1>1 DEF Inductive, TargetFirst, Known, Attached
<1>3. CASE UNCHANGED conn
  BY <1>1, <1>3, StutterMaps
<1>4. CASE Connect(n)
  <2>1. PICK b \in Block : conn' = [conn EXCEPT !["server"][n] = NewConnection(TRUE, TRUE, b)]
    BY <1>4 DEF Connect, HandleConnection, FreeBlocks
  <2> DEFINE c == NewConnection(TRUE, TRUE, b)
  <2>2. c.life = "live"
    BY DEF NewConnection
  <2>3. /\ conn'["server"][n] = c
        /\ \A q \in Peer, m \in Lane : (q # "server" \/ m # n) => conn'[q][m] = conn[q][m]
    <3>1. conn' = [conn EXCEPT !["server"][n] = c]
      BY <2>1
    <3>2. conn \in [Peer -> [Lane -> Connection]] /\ "server" \in Peer
      BY PeerFacts DEF Inductive, TypeOK
    <3> HIDE DEF c
    <3> QED BY <3>1, <3>2
  <2> HIDE DEF c
  <2>4. Lanes!Begins("server", n)
    BY <1>1, <1>2, <2>2, <2>3, BeginsMaps, PeerFacts
  <2>5. LifeBar["client"][n] # "none"
    BY <1>2, PeerFacts DEF LifeBar
  <2> QED BY <2>4, <2>5 DEF Lanes!Connect, LifeBar
<1> QED BY <1>3, <1>4 DEF OnSocketDataChannelOpen

\* A read event forwards what waits, on the client only when ready.
LEMMA ReadEventImplements ==
  ASSUME TypeOK, TypeOK', Sane', NEW p \in Peer, NEW n \in Lane, ReadEvent(p, n)
  PROVE  Lanes!Forward(p, n) \/ UNCHANGED Lanes!vars
<1>1. Live(p, n) /\ UNCHANGED <<conn, got>>
  BY CrashFaults DEF ReadEvent
<1>2. PICK r \in BOOLEAN : DoReceiveLoop(p, n, r) /\ r = conn[p][n].ready
  <2>1. DoReceiveLoop(p, n, conn[p][n].ready)
    BY CrashFaults DEF ReadEvent
  <2>2. conn[p][n].ready \in BOOLEAN
    BY DEF TypeOK, Connection
  <2> QED BY <2>1, <2>2
<1>3. PICK k \in Nat : sent'[p][n] = sent[p][n] + k /\ (k > 0 => r)
  BY <1>2, LoopEffect
<1>4. \A q \in Peer, m \in Lane : (q # p \/ m # n) => sent'[q][m] = sent[q][m]
  BY <1>2, LoopEffect
<1>5. sent \in [Peer -> [Lane -> Nat]] /\ sent' \in [Peer -> [Lane -> Nat]]
  BY DEF TypeOK
<1>6. sent[p][n] \in Nat
  BY <1>5
<1>7. CASE r
  <2>1. sent'[p][n] >= sent[p][n]
    BY <1>3, <1>6
  <2> QED BY <1>1, <1>2, <1>4, <1>7, <2>1, ForwardMaps DEF Live
<1>8. CASE ~r
  <2>1. sent'[p][n] = sent[p][n]
    BY <1>3, <1>6, <1>8
  <2>2. \A q \in Peer, m \in Lane : sent'[q][m] = sent[q][m]
    BY <1>4, <2>1
  <2>3. sent' = sent
    BY <1>5, <2>2
  <2> QED BY <1>1, <2>3, StutterMaps
<1> QED BY <1>7, <1>8

\* OnMessage delivers a chunk in flight, or drops it without a trace.
LEMMA MessageImplements ==
  ASSUME TypeOK, Flow, Sane, Sane', NEW p \in Peer, NEW n \in Lane, OnMessage(p, n)
  PROVE  Lanes!Deliver(p, n) \/ UNCHANGED Lanes!vars
<1> DEFINE q == Other(p)
<1>1. q \in Peer /\ Other(q) = p /\ data[q][n] > 0 /\ UNCHANGED <<conn, sent>>
  BY PeerFacts, CrashFaults DEF OnMessage
<1>2. CASE got' = got
  BY <1>1, <1>2, StutterMaps
<1>3. CASE Live(p, n) /\ got' = [got EXCEPT ![p][n] = @ + 1]
  <2>1. data[q][n] + got[p][n] <= sent[q][n]
    BY <1>1 DEF Flow
  <2>2. data[q][n] \in Nat /\ got[p][n] \in Nat /\ sent[q][n] \in Nat
    BY <1>1 DEF TypeOK
  <2>3. got[p][n] < sent[q][n]
    BY <1>1, <2>1, <2>2
  <2> QED BY <1>1, <1>3, <2>3, DeliverMaps DEF Live
<1> QED BY <1>2, <1>3, CrashFaults, UsedFaults DEF OnMessage

\* DeleteConnectionLane deletes one live end or none.
LEMMA DeleteImplements ==
  ASSUME TypeOK, Sane', NEW p \in Peer, DeleteConnectionLane(p)
  PROVE  (\E m \in Lane : Lanes!Delete(p, m)) \/ UNCHANGED Lanes!vars
<1> DEFINE n == Head(queue[p]).lane
<1>1. n \in Lane
  <2>1. queue[p] \in Seq(StopLaneMsg) /\ queue[p] # <<>>
    BY DEF TypeOK, DeleteConnectionLane
  <2>2. Head(queue[p]) \in StopLaneMsg
    BY <2>1
  <2> QED BY <2>2 DEF StopLaneMsg
<1>2. /\ DeleteLaneOfSocket(p, n) \/ DeleteLaneOfChannel(p, n)
      /\ UNCHANGED <<sent, got>>
  BY CrashFaults DEF DeleteConnectionLane
<1>3. conn' = conn \/ \E m \in Lane : Live(p, m) /\ conn' = Freed(p, m)
  <2> HIDE DEF n
  <2> QED BY <1>1, <1>2, DeleteEffect
<1>4. CASE conn' = conn
  BY <1>2, <1>4, StutterMaps
<1>5. CASE \E m \in Lane : Live(p, m) /\ conn' = Freed(p, m)
  <2>1. PICK m \in Lane : Live(p, m) /\ conn' = Freed(p, m)
    BY <1>5
  <2>2. /\ conn'[p][m].life = "freed"
        /\ \A q \in Peer, j \in Lane :
              /\ (q # p \/ j # m) => conn'[q][j] = conn[q][j]
              /\ conn'[q][j].ready = conn[q][j].ready
    BY <2>1, FreedType
  <2>3. Lanes!Delete(p, m)
    BY <1>2, <2>1, <2>2, DeleteMaps, PeerFacts DEF Live
  <2> QED BY <2>3
<1> QED BY <1>3, <1>4, <1>5

\* A Conductor goes with all its ends.
LEMMA CloseImplements ==
  ASSUME TypeOK, TypeOK', NEW p \in Peer, Close(p)
  PROVE  Lanes!Leave(p)
<1>1. Gone(p)
  BY DEF Close
<1>2. /\ \A m \in Lane : /\ conn'[p][m].life = "none" <=> conn[p][m].life = "none"
                         /\ conn'[p][m].life # "live"
                         /\ conn'[p][m].ready = conn[p][m].ready
      /\ \A m \in Lane : conn'[Other(p)][m] = conn[Other(p)][m]
      /\ UNCHANGED <<sent, got>>
  BY <1>1, GoneType
<1>3. \A q \in Peer : q = p \/ q = Other(p)
  BY DEF Peer, Other
<1>4. \A m \in Lane : conn[p][m].life \in Life /\ conn'[p][m].life \in Life
  BY DEF TypeOK, Connection
<1>5. \A m \in Lane : conn'[p][m].life =
         IF conn[p][m].life = "live" THEN "freed" ELSE conn[p][m].life
  <2>1. TAKE m \in Lane
  <2>2. CASE Live(p, m)
    BY <1>2, <1>4, <2>2 DEF Life, Live
  <2>3. CASE ~Live(p, m)
    <3>1. Gone(p) => conn'[p][m] = conn[p][m]
      BY <2>3 DEF Gone, TypeOK
    <3> QED BY <1>1, <2>3, <3>1 DEF Live
  <2> QED BY <2>2, <2>3
<1>6. \A m \in Lane : conn'["client"][m].ready = conn["client"][m].ready
  BY <1>2, <1>3, PeerFacts
<1>7. \A q \in Peer, m \in Lane : q # p => conn'[q][m].life = conn[q][m].life
  BY <1>2, <1>3
<1> QED BY <1>2, <1>5, <1>6, <1>7, LeaveMaps

\* The handlers that touch no connection and move no chunk.
LEMMA QuietImplements ==
  ASSUME \/ OnCreateChannel \/ OnChannelCreated
         \/ \E p \in Peer : OnControlDataChannelOpen(p) \/ OnControlDataChannelClosed(p)
         \/ \E n \in Lane : ClientChannelOpen(n) \/ OnDataChannel(n)
         \/ \E p \in Peer, n \in Lane :
               \/ OnStopChannel(p, n) \/ AppWrite(p, n) \/ AppClose(p, n)
               \/ CloseEvent(p, n) \/ OnSocketDataChannelClosed(p, n)
  PROVE  UNCHANGED Lanes!vars
<1>1. UNCHANGED <<conn, sent, got>>
  <2>1. CASE OnCreateChannel \/ OnChannelCreated BY <2>1 DEF OnCreateChannel, OnChannelCreated
  <2>2. CASE \E p \in Peer : OnControlDataChannelOpen(p) \/ OnControlDataChannelClosed(p)
    BY <2>2 DEF OnControlDataChannelOpen, OnControlDataChannelClosed
  <2>3. CASE \E n \in Lane : ClientChannelOpen(n) \/ OnDataChannel(n)
    BY <2>3 DEF ClientChannelOpen, OnDataChannel
  <2>4. ASSUME NEW p \in Peer, NEW n \in Lane, OnStopChannel(p, n) \/ AppWrite(p, n)
        PROVE  UNCHANGED <<conn, sent, got>>
    BY <2>4 DEF OnStopChannel, AppWrite
  <2>5. ASSUME NEW p \in Peer, NEW n \in Lane,
               AppClose(p, n) \/ CloseEvent(p, n) \/ OnSocketDataChannelClosed(p, n)
        PROVE  UNCHANGED <<conn, sent, got>>
    BY <2>5 DEF AppClose, CloseEvent, OnSocketDataChannelClosed
  <2> QED BY <2>1, <2>2, <2>3, <2>4, <2>5
<1> QED BY <1>1, StutterMaps

\* Every sane step is one step of AbstractLane or none.
LEMMA StepImplements ==
  ASSUME Inductive, TypeOK', Flow, Next, Sane'
  PROVE  Lanes!Next \/ UNCHANGED Lanes!vars
<1>1. TypeOK /\ Sane
  BY SaneStep DEF Inductive
<1> USE SamePeers
<1>2. ASSUME NEW p \in Peer, DeleteConnectionLane(p)
      PROVE  Lanes!Next \/ UNCHANGED Lanes!vars
  BY <1>1, <1>2, DeleteImplements DEF Lanes!Next
<1>3. ASSUME NEW p \in Peer, Close(p)
      PROVE  Lanes!Next
  BY <1>1, <1>3, CloseImplements DEF Lanes!Next
<1>4. ASSUME NEW n \in Lane,
             OnServerSideReady(n) \/ OnSocketOpen(n) \/ OnSocketDataChannelOpen(n)
      PROVE  Lanes!Next \/ UNCHANGED Lanes!vars
  BY <1>1, <1>4, ServerReadyImplements, SocketOpenImplements, ChannelOpenImplements
     DEF Lanes!Next
<1>5. ASSUME NEW p \in Peer, NEW n \in Lane, ReadEvent(p, n) \/ OnMessage(p, n)
      PROVE  Lanes!Next \/ UNCHANGED Lanes!vars
  BY <1>1, <1>5, ReadEventImplements, MessageImplements DEF Lanes!Next
<1> QED BY <1>2, <1>3, <1>4, <1>5, QuietImplements DEF Next

\* The initial state has no lane.
LEMMA InitImplements ==
  ASSUME Init
  PROVE  Lanes!Init
<1>1. \A p \in Peer, n \in Lane : conn[p][n].life = "none" /\ ~conn["client"][n].ready
  BY PeerFacts DEF Init, NoConnection
<1>2. LifeBar = [p \in Peer |-> [n \in Lane |-> "none"]]
  BY <1>1 DEF LifeBar
<1>3. ReadyBar = [n \in Lane |-> FALSE]
  BY PeerFacts DEF ReadyBar, Init, NoConnection
<1>4. sent = [p \in Peer |-> [n \in Lane |-> 0]] /\ got = [p \in Peer |-> [n \in Lane |-> 0]]
  BY DEF Init
<1> QED BY <1>2, <1>3, <1>4, SamePeers DEF LifeBar, ReadyBar, Lanes!Init

\* The two Conductors, their channels and their sockets do for the applications
\* what AbstractLane says: whatever the order in which handlers, messages and
\* events interleave, every step is one step of one lane, as long as no
\* undefined behaviour has been met.
THEOREM HandlersImplementLanes == Spec => ImplementsLanes
<1>1. Init => Lanes!Init
  BY InitImplements
<1>2. Inductive => TypeOK
  BY DEF Inductive
<1>3. Inductive /\ TypeOK' /\ Flow /\ [Next]_vars => [Sane' => Lanes!Next]_(Lanes!vars)
  <2>1. CASE Next
    BY <2>1, StepImplements
  <2>2. CASE UNCHANGED vars
    <3>1. UNCHANGED <<conn, sent, got>>
      BY <2>2 DEF vars
    <3> QED BY <3>1, StutterMaps
  <2> QED BY <2>1, <2>2
<1> QED BY <1>1, <1>2, <1>3, InductiveInvariant, FlowInvariant, PTL DEF Spec, ImplementsLanes
-----------------------------------------------------------------------------
(* The announcements: the invariant behind NoEcho.                         *)

Del(p, n) == InWire(p, "MsgDeleteChannel", n)

\* Where a lane is, the control channel was opened; it closes with a peer.
OpenControl ==
    /\ listening => ctl["client"] # "connecting"
    /\ \A n \in Lane : conn["client"][n].life # "none" => ctl["client"] # "connecting"
    /\ target => ctl["server"] # "connecting"
    /\ \A p \in Peer : ctl[p] = "closed" => ~up[p] \/ ~up[Other(p)]

\* Only a deleted end is announced.
Announced ==
    Sane => \A p \in Peer, n \in Lane : Del(p, n) => conn[p][n].life = "freed"

\* A channel is marked only when the other end is deleted, or when the server
\* failed to connect the lane.
Marked ==
    Sane => \A p \in Peer, n \in Lane :
        chan[p][n].cbr =>
            \/ conn[Other(p)][n].life = "freed"
            \/ p = "server" /\ chan[p][n].st \in {"open", "closed"} /\ conn[p][n].life = "none"

\* An end whose other end is deleted, or may yet come to be, has been told or
\* will be.
Owed ==
    (Sane /\ up["client"] /\ up["server"]) => \A n \in Lane :
        /\ (Live("client", n) /\ conn["server"][n].life = "freed")
              => (Del("server", n) \/ chan["client"][n].cbr)
        /\ (/\ conn["client"][n].life = "freed"
            /\ Live("server", n) \/ chan["server"][n].st \in {"absent", "connecting"})
              => (Del("client", n) \/ chan["server"][n].cbr)

Echo == OpenControl /\ Announced /\ Marked /\ Owed

SameDel == \A p \in Peer, n \in Lane : Del(p, n)' <=> Del(p, n)

\* Nothing sent or taken, no announcement.
LEMMA SameWire ==
  ASSUME UNCHANGED wire
  PROVE  SameDel
  BY DEF SameDel, Del, InWire

\* Appending msg announces at most what msg says.
LEMMA AppendWire ==
  ASSUME TypeOK, NEW p \in Peer, NEW msg \in Control,
         wire' = [wire EXCEPT ![p] = Append(@, msg)]
  PROVE  \A q \in Peer, n \in Lane :
            Del(q, n)' <=> \/ Del(q, n)
                           \/ q = p /\ msg.id = "MsgDeleteChannel" /\ msg.lane = n
<1> TAKE q \in Peer, n \in Lane
<1>1. wire \in [Peer -> Seq(Control)] /\ wire[q] \in Seq(Control)
  BY DEF TypeOK
<1>2. CASE q = p
  <2>1. wire'[q] = Append(wire[q], msg)
    BY <1>1, <1>2
  <2>2. /\ Len(wire'[q]) = Len(wire[q]) + 1 /\ Len(wire[q]) \in Nat
        /\ wire'[q][Len(wire[q]) + 1] = msg
        /\ \A i \in 1..Len(wire[q]) : wire'[q][i] = wire[q][i]
    BY <1>1, <2>1
  <2>3. 1..Len(wire'[q]) = (1..Len(wire[q])) \cup {Len(wire[q]) + 1}
    BY <2>2
  <2> QED BY <1>2, <2>2, <2>3 DEF Del, InWire
<1>3. CASE q # p
  <2>1. wire'[q] = wire[q]
    BY <1>1, <1>3
  <2> QED BY <1>3, <2>1 DEF Del, InWire
<1> QED BY <1>2, <1>3

\* Taking a message takes at most its own announcement.
LEMMA TakenWire ==
  ASSUME TypeOK, NEW p \in Peer, wire[Other(p)] # <<>>, wire' = Taken(p)
  PROVE  \A q \in Peer, n \in Lane :
            /\ Del(q, n)' => Del(q, n)
            /\ Del(q, n) => \/ Del(q, n)'
                            \/ /\ q = Other(p) /\ Head(wire[q]).id = "MsgDeleteChannel"
                               /\ Head(wire[q]).lane = n
<1> TAKE q \in Peer, n \in Lane
<1>1. wire \in [Peer -> Seq(Control)] /\ wire[q] \in Seq(Control) /\ Other(p) \in Peer
  BY PeerFacts DEF TypeOK
<1>2. CASE q = Other(p)
  <2>1. wire'[q] = Tail(wire[q]) /\ wire[q] # <<>>
    BY <1>1, <1>2 DEF Taken
  <2>2. /\ Len(wire'[q]) = Len(wire[q]) - 1 /\ Len(wire[q]) \in Nat \ {0}
        /\ Head(wire[q]) = wire[q][1]
        /\ \A i \in 1..Len(wire'[q]) : wire'[q][i] = wire[q][i + 1]
    BY <1>1, <2>1
  <2>3. Del(q, n)' => Del(q, n)
    <3>1. \A i \in 1..Len(wire'[q]) : i + 1 \in 1..Len(wire[q])
      BY <2>2
    <3> QED BY <2>2, <3>1 DEF Del, InWire
  <2>4. ASSUME Del(q, n)
        PROVE  \/ Del(q, n)'
               \/ Head(wire[q]).id = "MsgDeleteChannel" /\ Head(wire[q]).lane = n
    <3>1. PICK i \in 1..Len(wire[q]) : wire[q][i].id = "MsgDeleteChannel" /\ wire[q][i].lane = n
      BY <2>4 DEF Del, InWire
    <3>2. CASE i = 1
      BY <2>2, <3>1, <3>2
    <3>3. CASE i # 1
      <4>1. i - 1 \in 1..Len(wire'[q]) /\ (i - 1) + 1 = i
        BY <2>2, <3>3
      <4>2. wire'[q][i - 1] = wire[q][i]
        BY <2>2, <4>1
      <4> QED BY <3>1, <4>1, <4>2 DEF Del, InWire
    <3> QED BY <3>2, <3>3
  <2> QED BY <1>2, <2>3, <2>4
<1>3. CASE q # Other(p)
  <2>1. wire'[q] = wire[q]
    BY <1>1, <1>3 DEF Taken
  <2> QED BY <2>1 DEF Del, InWire
<1> QED BY <1>2, <1>3

\* Receiving another message takes no announcement.
LEMMA OtherTaken ==
  ASSUME TypeOK, NEW p \in Peer, NEW id, Received(p, id), id # "MsgDeleteChannel",
         wire' = Taken(p)
  PROVE  SameDel
  BY TakenWire DEF Received, SameDel

\* OpenControl survives a step that begins nothing.
LEMMA OpenControlSame ==
  ASSUME OpenControl, listening' => listening, target' => target,
         \A n \in Lane : conn'["client"][n].life = "none" <=> conn["client"][n].life = "none",
         \A p \in Peer : up'[p] => up[p],
         UNCHANGED ctl
  PROVE  OpenControl'
  BY PeerFacts DEF OpenControl

\* Echo survives a step that leaves lives, marks and announcements alone.
LEMMA EchoSame ==
  ASSUME Echo, SameDel, Sane' => Sane, OpenControl',
         \A p \in Peer, n \in Lane : conn'[p][n].life = conn[p][n].life,
         \A p \in Peer, n \in Lane :
            /\ chan'[p][n].cbr = chan[p][n].cbr
            /\ chan[p][n].st \in {"open", "closed"} => chan'[p][n].st \in {"open", "closed"}
            /\ chan'[p][n].st \in {"absent", "connecting"} => chan[p][n].st \in {"absent", "connecting"},
         \A p \in Peer : up'[p] => up[p]
  PROVE  Echo'
<1> SUFFICES ASSUME Sane'
             PROVE  Announced' /\ Marked' /\ Owed'
  BY DEF Echo, Announced, Marked, Owed
<1>1. Announced'
  BY DEF Echo, Announced, SameDel
<1>2. Marked'
  BY PeerFacts DEF Echo, Marked
<1>3. Owed'
  BY PeerFacts DEF Echo, Owed, SameDel, Live
<1> QED BY <1>1, <1>2, <1>3

\* OnCreateChannel takes a message and sends one, and announces nothing.
LEMMA CreateChannelWire ==
  ASSUME TypeOK, OnCreateChannel
  PROVE  SameDel
<1>1. /\ wire["client"] \in Seq(Control) /\ wire["client"] # <<>>
      /\ wire["server"] \in Seq(Control)
  BY PeerFacts DEF TypeOK, OnCreateChannel, Received
<1>2. /\ wire'["client"] = Tail(wire["client"])
      /\ wire'["server"] = Append(wire["server"], ChannelCreated)
  BY PeerFacts DEF OnCreateChannel, TypeOK
<1>3. /\ Head(wire["client"]).id = "MsgCreateChannel"
      /\ Head(wire["client"]) = wire["client"][1]
      /\ Len(wire["client"]) \in Nat \ {0}
      /\ Len(wire'["client"]) = Len(wire["client"]) - 1
      /\ \A i \in 1..Len(wire'["client"]) : wire'["client"][i] = wire["client"][i + 1]
  <2>1. Head(wire["client"]).id = "MsgCreateChannel"
    BY PeerFacts DEF OnCreateChannel, Received
  <2> QED BY <1>1, <1>2, <2>1
<1>4. \A n \in Lane : Del("client", n)' => Del("client", n)
  <2>1. \A i \in 1..Len(wire'["client"]) : i + 1 \in 1..Len(wire["client"])
    BY <1>3
  <2> QED BY <1>3, <2>1 DEF Del, InWire
<1>5. ASSUME NEW n \in Lane, Del("client", n)
      PROVE  Del("client", n)'
  <2>1. PICK i \in 1..Len(wire["client"]) :
           wire["client"][i].id = "MsgDeleteChannel" /\ wire["client"][i].lane = n
    BY <1>5 DEF Del, InWire
  <2>2. i - 1 \in 1..Len(wire'["client"]) /\ (i - 1) + 1 = i
    BY <1>3, <2>1
  <2>3. wire'["client"][i - 1] = wire["client"][i]
    BY <1>3, <2>2
  <2> QED BY <2>1, <2>2, <2>3 DEF Del, InWire
<1>6. \A n \in Lane : Del("server", n)' <=> Del("server", n)
  <2>1. /\ Len(wire'["server"]) = Len(wire["server"]) + 1 /\ Len(wire["server"]) \in Nat
        /\ wire'["server"][Len(wire["server"]) + 1] = ChannelCreated
        /\ \A i \in 1..Len(wire["server"]) : wire'["server"][i] = wire["server"][i]
    BY <1>1, <1>2
  <2>2. ChannelCreated.id # "MsgDeleteChannel"
    BY DEF ChannelCreated
  <2>3. 1..Len(wire'["server"]) = (1..Len(wire["server"])) \cup {Len(wire["server"]) + 1}
    BY <2>1
  <2> QED BY <2>1, <2>2, <2>3 DEF Del, InWire
<1> QED BY <1>4, <1>5, <1>6 DEF SameDel, Peer

\* The messages of the control channel's handshake announce nothing.
LEMMA ControlEcho ==
  ASSUME TypeOK, Echo,
         \/ OnCreateChannel \/ OnChannelCreated
         \/ \E p \in Peer : OnControlDataChannelOpen(p) \/ OnControlDataChannelClosed(p)
  PROVE  Echo'
<1>1. /\ UNCHANGED <<up, fault, chan, conn>>
      /\ Sane' => Sane
  BY DEF OnCreateChannel, OnChannelCreated, OnControlDataChannelOpen,
         OnControlDataChannelClosed, Sane
<1>2. CASE OnCreateChannel
  <2>1. /\ Received("server", "MsgCreateChannel") /\ ctl["server"] = "open"
        /\ UNCHANGED <<ctl, listening>>
    BY <1>2 DEF OnCreateChannel, Received
  <2>2. OpenControl'
    BY <1>1, <2>1 DEF Echo, OpenControl
  <2>3. SameDel
    BY <1>2, CreateChannelWire
  <2> QED BY <1>1, <2>2, <2>3, EchoSame
<1>3. CASE OnChannelCreated
  <2>1. ctl["client"] = "open" /\ UNCHANGED <<ctl, target>>
    BY <1>3 DEF OnChannelCreated, Received
  <2>2. OpenControl'
    BY <1>1, <2>1 DEF Echo, OpenControl
  <2>3. SameDel
    BY <1>3, OtherTaken, PeerFacts DEF OnChannelCreated
  <2> QED BY <1>1, <2>2, <2>3, EchoSame
<1>4. ASSUME NEW p \in Peer, OnControlDataChannelOpen(p)
      PROVE  Echo'
  <2>1. ctl' = [ctl EXCEPT ![p] = "open"] /\ UNCHANGED <<listening, target>>
    BY <1>4 DEF OnControlDataChannelOpen, ControlState
  <2>2. \A q \in Peer : ctl'[q] = IF q = p THEN "open" ELSE ctl[q]
    BY <2>1 DEF TypeOK
  <2>3. OpenControl'
    BY <1>1, <2>1, <2>2, PeerFacts DEF Echo, OpenControl
  <2>4. SameDel
    <3>1. CASE wire' = [wire EXCEPT ![p] = Append(@, CreateChannel)]
      <4>1. CreateChannel \in Control /\ CreateChannel.id # "MsgDeleteChannel"
        BY DEF CreateChannel, Control
      <4> QED BY <3>1, <4>1, AppendWire DEF SameDel
    <3>2. CASE UNCHANGED wire
      BY <3>2, SameWire
    <3> QED BY <1>4, <3>1, <3>2 DEF OnControlDataChannelOpen
  <2> QED BY <1>1, <2>3, <2>4, EchoSame
<1>5. ASSUME NEW p \in Peer, OnControlDataChannelClosed(p)
      PROVE  Echo'
  <2>1. /\ ctl' = [ctl EXCEPT ![p] = "closed"] /\ ~up[Other(p)]
        /\ listening' => listening
        /\ UNCHANGED <<target, wire>>
    BY <1>5 DEF OnControlDataChannelClosed, ControlState, StopListening
  <2>2. \A q \in Peer : ctl'[q] = IF q = p THEN "closed" ELSE ctl[q]
    BY <2>1 DEF TypeOK
  <2>3. OpenControl'
    BY <1>1, <2>1, <2>2, PeerFacts DEF Echo, OpenControl
  <2> QED BY <1>1, <2>1, <2>3, SameWire, EchoSame
<1> QED BY <1>2, <1>3, <1>4, <1>5

\* The events of a lane in use announce nothing.
LEMMA QuietEcho ==
  ASSUME TypeOK, Echo, Sane',
         \E p \in Peer, n \in Lane :
            \/ AppWrite(p, n) \/ AppClose(p, n) \/ CloseEvent(p, n)
            \/ ReadEvent(p, n) \/ OnMessage(p, n)
  PROVE  Echo'
<1>1. UNCHANGED <<up, ctl, listening, target, wire, chan, conn>> /\ (Sane' => Sane)
  BY CrashFaults, UsedFaults
     DEF AppWrite, AppClose, CloseEvent, ReadEvent, OnMessage, Sane
<1>2. OpenControl'
  BY <1>1, OpenControlSame DEF Echo
<1> QED BY <1>1, <1>2, SameWire, EchoSame

\* Setting a channel's state leaves its mark.
LEMMA MarkPoint ==
  ASSUME TypeOK, NEW p \in Peer, NEW n \in Lane, NEW st \in ChannelState,
         chan' = [chan EXCEPT ![p][n].st = st]
  PROVE  /\ chan'[p][n].st = st
         /\ \A q \in Peer, m \in Lane :
               /\ chan'[q][m].cbr = chan[q][m].cbr
               /\ (q # p \/ m # n) => chan'[q][m] = chan[q][m]
<1>1. chan[p][n] \in Channel
  BY DEF TypeOK
<1>2. /\ chan'[p][n] = [chan[p][n] EXCEPT !.st = st]
      /\ \A q \in Peer, m \in Lane : (q # p \/ m # n) => chan'[q][m] = chan[q][m]
  BY DEF TypeOK
<1>3. chan'[p][n].st = st /\ chan'[p][n].cbr = chan[p][n].cbr
  BY <1>1, <1>2 DEF Channel
<1> QED BY <1>2, <1>3

\* The channel's own callbacks announce nothing.
LEMMA ChannelEcho ==
  ASSUME TypeOK, Echo,
         \/ \E n \in Lane : ClientChannelOpen(n) \/ OnDataChannel(n)
         \/ \E p \in Peer, n \in Lane : OnSocketDataChannelClosed(p, n)
  PROVE  Echo'
<1>1. UNCHANGED <<up, ctl, listening, target, wire, conn>> /\ (Sane' => Sane)
  BY DEF ClientChannelOpen, OnDataChannel, OnSocketDataChannelClosed, Sane
<1>2. OpenControl' /\ SameDel
  BY <1>1, OpenControlSame, SameWire DEF Echo
<1>3. ASSUME \A p \in Peer, n \in Lane :
                /\ chan'[p][n].cbr = chan[p][n].cbr
                /\ chan[p][n].st \in {"open", "closed"} => chan'[p][n].st \in {"open", "closed"}
                /\ chan'[p][n].st \in {"absent", "connecting"}
                      => chan[p][n].st \in {"absent", "connecting"}
      PROVE  Echo'
  BY <1>1, <1>2, <1>3, EchoSame
<1>4. ASSUME NEW n \in Lane, ClientChannelOpen(n)
      PROVE  Echo'
  <2>1. chan' = [chan EXCEPT !["client"][n].st = "open"] /\ "open" \in ChannelState
    BY <1>4 DEF ClientChannelOpen, ChannelState
  <2> QED BY <1>3, <2>1, MarkPoint, PeerFacts
<1>5. ASSUME NEW n \in Lane, OnDataChannel(n)
      PROVE  Echo'
  <2>1. CASE UNCHANGED chan
    BY <1>3, <2>1
  <2>2. CASE /\ chan["server"][n].st = "absent"
             /\ chan' = [chan EXCEPT !["server"][n].st = "connecting"]
    <3>1. "connecting" \in ChannelState
      BY DEF ChannelState
    <3> QED BY <1>3, <2>2, <3>1, MarkPoint, PeerFacts
  <2> QED BY <1>5, <2>1, <2>2 DEF OnDataChannel
<1>6. ASSUME NEW p \in Peer, NEW n \in Lane, OnSocketDataChannelClosed(p, n)
      PROVE  Echo'
  <2> DEFINE c == [chan[p][n] EXCEPT !.st = "closed", !.sock = FALSE]
  <2>1. chan' = [chan EXCEPT ![p][n] = c]
    BY <1>6 DEF OnSocketDataChannelClosed
  <2>2. chan \in [Peer -> [Lane -> Channel]] /\ chan[p][n] \in Channel
    BY DEF TypeOK
  <2>3. c.st = "closed" /\ c.cbr = chan[p][n].cbr
    BY <2>2 DEF Channel
  <2> HIDE DEF c
  <2>4. /\ chan'[p][n] = c
        /\ \A q \in Peer, m \in Lane : (q # p \/ m # n) => chan'[q][m] = chan[q][m]
    BY <2>1, <2>2
  <2> QED BY <1>3, <2>3, <2>4
<1> QED BY <1>4, <1>5, <1>6

\* ServerSideReady announces nothing.
LEMMA ServerReadyEcho ==
  ASSUME TypeOK, Echo, Sane', NEW n \in Lane, OnServerSideReady(n)
  PROVE  Echo'
<1>1. UNCHANGED <<up, ctl, listening, target, chan>> /\ (Sane' => Sane)
  BY CrashFaults, UsedFaults DEF OnServerSideReady, Sane
<1>2. SameDel
  <2>1. wire' = Taken("client") /\ Received("client", "MsgServerSideReady")
    BY CrashFaults, UsedFaults DEF OnServerSideReady
  <2> QED BY <2>1, OtherTaken, PeerFacts
<1>3. \A q \in Peer, m \in Lane : conn'[q][m].life = conn[q][m].life
  <2>1. UNCHANGED conn \/ conn' = [conn EXCEPT !["client"][n].ready = TRUE]
    BY CrashFaults, UsedFaults DEF OnServerSideReady
  <2> QED BY <2>1, ReadyPoint, PeerFacts
<1>4. OpenControl'
  BY <1>1, <1>3, OpenControlSame, PeerFacts DEF Echo
<1> QED BY <1>1, <1>2, <1>3, <1>4, EchoSame

\* A lane that begins has neither been announced nor marked.
LEMMA SocketOpenEcho ==
  ASSUME Inductive, Echo, NEW n \in Lane, OnSocketOpen(n)
  PROVE  Echo'
<1>1. /\ TypeOK /\ "client" \in Peer /\ "server" \in Peer
      /\ conn \in [Peer -> [Lane -> Connection]] /\ chan \in [Peer -> [Lane -> Channel]]
  BY PeerFacts DEF Inductive, TypeOK
<1>2. /\ up["client"] /\ listening /\ conn["client"][n].life = "none"
      /\ UNCHANGED <<up, fault, ctl, listening, target, wire>>
  BY DEF OnSocketOpen, Accepts
<1>3. PICK b \in Block, a \in BOOLEAN :
         conn' = [conn EXCEPT !["client"][n] = NewConnection(a, FALSE, b)]
  BY DEF OnSocketOpen, HandleConnection, FreeBlocks
<1>4. /\ conn'["client"][n].life = "live"
      /\ \A q \in Peer, m \in Lane : (q # "client" \/ m # n) => conn'[q][m] = conn[q][m]
  <2> DEFINE c == NewConnection(a, FALSE, b)
  <2>1. conn' = [conn EXCEPT !["client"][n] = c]
    BY <1>3
  <2>2. c.life = "live"
    BY DEF NewConnection
  <2> HIDE DEF c
  <2> QED BY <1>1, <2>1, <2>2
<1>5. /\ chan'["client"][n].cbr = FALSE \/ chan'["client"][n].cbr = chan["client"][n].cbr
      /\ \A q \in Peer, m \in Lane : (q # "client" \/ m # n) => chan'[q][m] = chan[q][m]
  <2> DEFINE c == [st |-> "connecting", sock |-> TRUE, cbr |-> FALSE]
  <2>1. UNCHANGED chan \/ chan' = [chan EXCEPT !["client"][n] = c]
    BY DEF OnSocketOpen
  <2>2. c.cbr = FALSE
    OBVIOUS
  <2> HIDE DEF c
  <2> QED BY <1>1, <2>1, <2>2
<1>6. /\ conn["server"][n].life = "none" /\ ~Known("server", n)
      /\ chan["client"][n].st \in {"absent", "null"}
  <2>1. ~Known("client", n) /\ ~Known("server", n)
    BY <1>2 DEF Inductive, TargetFirst
  <2>2. chan["client"][n].st \in {"absent", "null"}
    BY <1>1, <2>1 DEF Known, Channel, ChannelState
  <2> QED BY <1>2, <2>1, <2>2 DEF Inductive, ChannelFirst
<1>7. OpenControl'
  BY <1>2, <1>4, PeerFacts DEF Echo, OpenControl
<1>8. SameDel
  BY <1>2, SameWire
<1> SUFFICES ASSUME Sane, Sane'
             PROVE  Announced' /\ Marked' /\ Owed'
  BY <1>2, <1>7 DEF Echo, Announced, Marked, Owed, Sane
<1>9. /\ ~Del("client", n)
      /\ chan["client"][n].cbr = FALSE
      /\ chan["server"][n].cbr = FALSE
  <2>1. chan["client"][n].cbr \in BOOLEAN /\ chan["server"][n].cbr \in BOOLEAN
    BY <1>1 DEF Channel
  <2>2. ~chan["client"][n].cbr
    BY <1>1, <1>6, PeerFacts DEF Echo, Marked
  <2>3. ~chan["server"][n].cbr
    BY <1>1, <1>2, <1>6, PeerFacts DEF Echo, Marked, Known
  <2>4. ~Del("client", n)
    BY <1>1, <1>2 DEF Echo, Announced
  <2> QED BY <2>1, <2>2, <2>3, <2>4
<1>10. Announced'
  BY <1>4, <1>8, <1>9 DEF Echo, Announced, SameDel
<1>11. Marked'
  BY <1>4, <1>5, <1>9, PeerFacts DEF Echo, Marked, Peer
<1>12. Owed'
  BY <1>1, <1>2, <1>4, <1>5, <1>6, <1>8 DEF Echo, Owed, SameDel, Live
<1> QED BY <1>10, <1>11, <1>12

\* A lane the server connects was told of its client's deletion, or will be.
LEMMA ServerOpenEcho ==
  ASSUME Inductive, Echo, NEW n \in Lane, OnSocketDataChannelOpen(n)
  PROVE  Echo'
<1>1. /\ TypeOK /\ "client" \in Peer /\ "server" \in Peer
      /\ conn \in [Peer -> [Lane -> Connection]] /\ chan \in [Peer -> [Lane -> Channel]]
      /\ chan["server"][n] \in Channel
  BY PeerFacts DEF Inductive, TypeOK
<1>2. /\ up["server"] /\ chan["server"][n].st = "connecting"
      /\ UNCHANGED <<up, fault, ctl, listening, target>>
  BY DEF OnSocketDataChannelOpen
<1>3. conn["server"][n].life = "none"
  BY <1>2 DEF Inductive, Attached
<1>4. Sane' => Sane
  BY <1>2 DEF Sane
<1>5. CASE Connect(n) /\ chan' = AttachSocket(n) /\ wire' = Put("server", ServerSideReady(n))
  <2>1. PICK b \in Block : conn' = [conn EXCEPT !["server"][n] = NewConnection(TRUE, TRUE, b)]
    BY <1>5 DEF Connect, HandleConnection, FreeBlocks
  <2>2. /\ conn'["server"][n].life = "live"
        /\ \A q \in Peer, m \in Lane : (q # "server" \/ m # n) => conn'[q][m] = conn[q][m]
    <3> DEFINE c == NewConnection(TRUE, TRUE, b)
    <3>1. conn' = [conn EXCEPT !["server"][n] = c]
      BY <2>1
    <3>2. c.life = "live"
      BY DEF NewConnection
    <3> HIDE DEF c
    <3> QED BY <1>1, <3>1, <3>2
  <2>3. /\ chan'["server"][n].cbr = chan["server"][n].cbr
        /\ chan'["server"][n].st = "open"
        /\ \A q \in Peer, m \in Lane : (q # "server" \/ m # n) => chan'[q][m] = chan[q][m]
    <3>1. /\ AttachSocket(n)["server"][n] = [chan["server"][n] EXCEPT !.st = "open", !.sock = TRUE]
          /\ \A q \in Peer, m \in Lane :
                (q # "server" \/ m # n) => AttachSocket(n)[q][m] = chan[q][m]
      BY <1>1, AttachType
    <3>2. /\ AttachSocket(n)["server"][n].cbr = chan["server"][n].cbr
          /\ AttachSocket(n)["server"][n].st = "open"
      BY <1>1, <3>1 DEF Channel
    <3> QED BY <1>5, <3>1, <3>2
  <2>4. SameDel
    <3>1. ServerSideReady(n) \in Control /\ ServerSideReady(n).id # "MsgDeleteChannel"
      BY DEF ServerSideReady, Control
    <3>2. CASE wire' = [wire EXCEPT !["server"] = Append(@, ServerSideReady(n))]
      BY <1>1, <3>1, <3>2, AppendWire DEF SameDel
    <3> QED BY <1>5, <3>2, SameWire DEF Put
  <2>5. OpenControl'
    BY <1>1, <1>2, <2>2, OpenControlSame, PeerFacts DEF Echo
  <2> SUFFICES ASSUME Sane, Sane'
               PROVE  Announced' /\ Marked' /\ Owed'
    BY <1>4, <2>5 DEF Echo, Announced, Marked, Owed
  <2>6. /\ ~Del("server", n)
        /\ chan["client"][n].cbr => FALSE
        /\ chan["server"][n].cbr => conn["client"][n].life = "freed"
    BY <1>1, <1>2, <1>3, PeerFacts DEF Echo, Announced, Marked
  <2>7. Announced'
    BY <2>2, <2>4, <2>6 DEF Echo, Announced, SameDel
  <2>8. Marked'
    BY <2>2, <2>3, <2>6, PeerFacts DEF Echo, Marked, Peer
  <2>9. Owed'
    BY <1>1, <1>2, <2>2, <2>3, <2>4 DEF Echo, Owed, SameDel, Live
  <2> QED BY <2>7, <2>8, <2>9
<1>6. CASE StopChannel(n) /\ UNCHANGED <<conn, wire>>
  <2>1. /\ chan'["server"][n].st = "open"
        /\ \A q \in Peer, m \in Lane : (q # "server" \/ m # n) => chan'[q][m] = chan[q][m]
    <3> DEFINE c == [chan["server"][n] EXCEPT !.st = "open", !.cbr = TRUE]
    <3>1. chan' = [chan EXCEPT !["server"][n] = c]
      BY <1>6 DEF StopChannel
    <3>2. c.st = "open"
      BY <1>1 DEF Channel
    <3> HIDE DEF c
    <3> QED BY <1>1, <3>1, <3>2
  <2>2. OpenControl' /\ SameDel
    BY <1>2, <1>6, OpenControlSame, SameWire DEF Echo
  <2> SUFFICES ASSUME Sane, Sane'
               PROVE  Announced' /\ Marked' /\ Owed'
    BY <1>4, <2>2 DEF Echo, Announced, Marked, Owed
  <2>3. Announced'
    BY <1>6, <2>2 DEF Echo, Announced, SameDel
  <2>4. Marked'
    BY <1>3, <1>6, <2>1, PeerFacts DEF Echo, Marked
  <2>5. Owed'
    BY <1>1, <1>2, <1>3, <1>6, <2>1, <2>2 DEF Echo, Owed, SameDel, Live
  <2> QED BY <2>3, <2>4, <2>5
<1> QED BY <1>5, <1>6 DEF OnSocketDataChannelOpen

\* Only a deleted end's announcement marks the other end's channel.
LEMMA StopChannelEcho ==
  ASSUME Inductive, Echo, NEW p \in Peer, NEW n \in Lane, OnStopChannel(p, n)
  PROVE  Echo'
<1> DEFINE q == Other(p)
<1>1. /\ TypeOK /\ q \in Peer /\ q # p /\ Other(q) = p
      /\ "client" \in Peer /\ "server" \in Peer
      /\ chan \in [Peer -> [Lane -> Channel]] /\ chan[p][n] \in Channel
  BY PeerFacts DEF Inductive, TypeOK
<1>2. /\ up[p] /\ Received(p, "MsgDeleteChannel") /\ Head(wire[q]).lane = n
      /\ wire' = Taken(p) /\ wire[q] # <<>>
      /\ UNCHANGED <<up, fault, ctl, listening, target, conn>>
  BY DEF OnStopChannel, Received
<1>3. Del(q, n)
  <2>1. /\ 1 \in 1..Len(wire[q]) /\ wire[q][1] = Head(wire[q])
        /\ wire[q][1].id = "MsgDeleteChannel"
    BY <1>1, <1>2, ReceivedFirst
  <2> QED BY <1>2, <2>1 DEF Del, InWire
<1>4. \A r \in Peer, m \in Lane :
         /\ Del(r, m)' => Del(r, m)
         /\ Del(r, m) /\ (r # q \/ m # n) => Del(r, m)'
  BY <1>1, <1>2, TakenWire
<1>5. OpenControl'
  BY <1>2, OpenControlSame DEF Echo
<1>6. Sane' => Sane
  BY <1>2 DEF Sane
<1> SUFFICES ASSUME Sane, Sane'
             PROVE  Announced' /\ Marked' /\ Owed'
  BY <1>5, <1>6 DEF Echo, Announced, Marked, Owed
<1>7. conn[q][n].life = "freed"
  BY <1>1, <1>3 DEF Echo, Announced
<1>8. Announced'
  BY <1>2, <1>4 DEF Echo, Announced
<1>9. CASE chan[p][n].st \in {"absent", "null"} /\ chan' = [chan EXCEPT ![p][n].st = "null"]
  <2>1. /\ chan'[p][n].st = "null"
        /\ \A r \in Peer, m \in Lane :
              /\ chan'[r][m].cbr = chan[r][m].cbr
              /\ (r # p \/ m # n) => chan'[r][m] = chan[r][m]
    <3>1. "null" \in ChannelState
      BY DEF ChannelState
    <3> QED BY <1>1, <1>9, <3>1, MarkPoint
  <2>2. Marked'
    <3>1. chan[p][n].st \notin {"open", "closed"}
      BY <1>9
    <3> QED BY <1>1, <1>2, <2>1, <3>1, PeerFacts DEF Echo, Marked
  <2>3. ~Live(p, n)
    <3>1. CASE p = "client"
      <4>1. conn["server"][n].life = "none"
        BY <1>2, <1>9, <3>1 DEF Inductive, ChannelFirst
      <4> QED BY <1>7, <3>1, <4>1, PeerFacts
    <3>2. CASE p = "server"
      BY <1>2, <1>9, <3>2 DEF Inductive, Attached, Live
    <3> QED BY <3>1, <3>2 DEF Peer
  <2>4. Owed'
    <3> SUFFICES ASSUME up["client"], up["server"], NEW m \in Lane
                 PROVE  /\ (Live("client", m) /\ conn["server"][m].life = "freed")
                              => (Del("server", m)' \/ chan'["client"][m].cbr)
                        /\ (/\ conn["client"][m].life = "freed"
                            /\ Live("server", m) \/ chan'["server"][m].st \in {"absent", "connecting"})
                              => (Del("client", m)' \/ chan'["server"][m].cbr)
      BY <1>2 DEF Owed, Live
    <3>1. CASE m # n
      BY <1>1, <1>2, <1>4, <2>1, <3>1 DEF Echo, Owed
    <3>2. CASE m = n /\ p = "client"
      BY <1>1, <1>4, <2>1, <2>3, <3>2, PeerFacts DEF Echo, Owed
    <3>3. CASE m = n /\ p = "server"
      BY <1>1, <1>4, <2>1, <2>3, <3>3, PeerFacts DEF Echo, Owed
    <3> QED BY <3>1, <3>2, <3>3 DEF Peer
  <2> QED BY <1>8, <2>2, <2>4
<1>10. CASE chan' = [chan EXCEPT ![p][n].cbr = TRUE]
  <2>1. /\ chan'[p][n].cbr = TRUE
        /\ \A r \in Peer, m \in Lane :
              /\ chan'[r][m].st = chan[r][m].st
              /\ (r # p \/ m # n) => chan'[r][m] = chan[r][m]
    <3>1. /\ chan'[p][n] = [chan[p][n] EXCEPT !.cbr = TRUE]
          /\ \A r \in Peer, m \in Lane : (r # p \/ m # n) => chan'[r][m] = chan[r][m]
      BY <1>1, <1>10
    <3>2. chan'[p][n].cbr = TRUE /\ chan'[p][n].st = chan[p][n].st
      BY <1>1, <3>1 DEF Channel
    <3> QED BY <3>1, <3>2
  <2>2. Marked'
    <3> SUFFICES ASSUME NEW r \in Peer, NEW m \in Lane, chan'[r][m].cbr
                 PROVE  \/ conn[Other(r)][m].life = "freed"
                        \/ /\ r = "server" /\ chan'[r][m].st \in {"open", "closed"}
                           /\ conn[r][m].life = "none"
      BY <1>2 DEF Marked
    <3>1. CASE r = p /\ m = n
      BY <1>7, <3>1
    <3>2. CASE r # p \/ m # n
      <4>1. chan'[r][m] = chan[r][m]
        BY <2>1, <3>2
      <4> QED BY <4>1 DEF Echo, Marked
    <3> QED BY <3>1, <3>2
  <2>3. Owed'
    <3> SUFFICES ASSUME up["client"], up["server"], NEW m \in Lane
                 PROVE  /\ (Live("client", m) /\ conn["server"][m].life = "freed")
                              => (Del("server", m)' \/ chan'["client"][m].cbr)
                        /\ (/\ conn["client"][m].life = "freed"
                            /\ Live("server", m) \/ chan'["server"][m].st \in {"absent", "connecting"})
                              => (Del("client", m)' \/ chan'["server"][m].cbr)
      BY <1>2 DEF Owed, Live
    <3>1. CASE m # n
      BY <1>1, <1>2, <1>4, <2>1, <3>1 DEF Echo, Owed
    <3>2. CASE m = n /\ p = "client"
      BY <1>1, <1>4, <2>1, <3>2, PeerFacts DEF Echo, Owed
    <3>3. CASE m = n /\ p = "server"
      BY <1>1, <1>4, <2>1, <3>3, PeerFacts DEF Echo, Owed
    <3> QED BY <3>1, <3>2, <3>3 DEF Peer
  <2> QED BY <1>8, <2>2, <2>3
<1> QED BY <1>9, <1>10 DEF OnStopChannel

\* A Conductor that goes owes nothing and is owed nothing.
LEMMA CloseEcho ==
  ASSUME TypeOK, Echo, NEW p \in Peer, Close(p)
  PROVE  Echo'
<1>1. Gone(p) /\ UNCHANGED <<fault, target, wire>>
  BY DEF Close, Gone
<1>2. /\ ~up'[p] /\ up'[Other(p)] = up[Other(p)] /\ (listening' => listening)
      /\ \A n \in Lane : chan'[p][n] = NoChannel /\ chan'[Other(p)][n] = chan[Other(p)][n]
      /\ \A n \in Lane : conn'[Other(p)][n] = conn[Other(p)][n]
      /\ \A n \in Lane : /\ conn'[p][n].life = "none" <=> conn[p][n].life = "none"
                         /\ conn'[p][n].life # "live"
  BY <1>1, GoneType
<1>3. /\ Other(p) \in Peer /\ Other(Other(p)) = p
      /\ \A q \in Peer : q = p \/ q = Other(p)
  BY PeerFacts DEF Peer, Other
<1>4. ctl' = [ctl EXCEPT ![p] = "closed"]
  BY <1>1 DEF Gone
<1>5. OpenControl'
  <2>1. \A q \in Peer : ctl'[q] = IF q = p THEN "closed" ELSE ctl[q]
    BY <1>4 DEF TypeOK
  <2>2. \A n \in Lane : conn'["client"][n].life = "none" <=> conn["client"][n].life = "none"
    BY <1>2, <1>3, PeerFacts
  <2>3. \A q \in Peer : ctl'[q] = "closed" => ~up'[q] \/ ~up'[Other(q)]
    BY <1>2, <1>3, <2>1 DEF Echo, OpenControl
  <2> QED BY <1>1, <1>2, <2>1, <2>2, <2>3, PeerFacts DEF Echo, OpenControl
<1>6. SameDel
  BY <1>1, SameWire
<1>7. \A n \in Lane : conn[p][n].life = "freed" => conn'[p][n].life = "freed"
  <2>1. \A n \in Lane : conn'[p][n].life \in Life
    <3>1. conn' \in [Peer -> [Lane -> Connection]]
      BY <1>1, GoneType
    <3> QED BY <3>1 DEF Connection
  <2> QED BY <1>2, <2>1 DEF Life
<1> SUFFICES ASSUME Sane, Sane'
             PROVE  Announced' /\ Marked' /\ Owed'
  BY <1>1, <1>5 DEF Echo, Announced, Marked, Owed, Sane
<1>8. Announced'
  BY <1>2, <1>3, <1>6, <1>7 DEF Echo, Announced, SameDel
<1>9. Marked'
  <2>1. \A n \in Lane : ~chan'[p][n].cbr
    BY <1>2 DEF NoChannel
  <2> QED BY <1>2, <1>3, <1>7, <2>1 DEF Echo, Marked
<1>10. Owed'
  BY <1>2, <1>3, PeerFacts DEF Owed, Peer
<1> QED BY <1>8, <1>9, <1>10

\* DeleteConnectionLane, while sane, closes the lane it was posted for or none.
LEMMA DeleteCases ==
  ASSUME NEW p, NEW n,
         DeleteLaneOfSocket(p, n) \/ DeleteLaneOfChannel(p, n), Sane'
  PROVE  \/ UNCHANGED <<conn, wire>>
         \/ Live(p, n) /\ CloseConnection(p, n, ~chan[p][n].cbr)
  BY UsedFaults DEF DeleteLaneOfSocket, DeleteLaneOfChannel

\* A deleted end is announced, unless its other end announced itself.
LEMMA DeleteEcho ==
  ASSUME Inductive, Echo, Sane', Sane, NEW p \in Peer, DeleteConnectionLane(p)
  PROVE  Echo'
<1>1. PICK n \in Lane : DeleteLaneOfSocket(p, n) \/ DeleteLaneOfChannel(p, n)
  <2>1. queue[p] \in Seq(StopLaneMsg) /\ queue[p] # <<>>
    BY DEF Inductive, TypeOK, DeleteConnectionLane
  <2>2. Head(queue[p]) \in StopLaneMsg
    BY <2>1
  <2>3. Head(queue[p]).lane \in Lane
    BY <2>2 DEF StopLaneMsg
  <2> QED BY <2>3, CrashFaults DEF DeleteConnectionLane
<1>2. up[p] /\ UNCHANGED <<up, ctl, listening, target, chan>>
  BY CrashFaults DEF DeleteConnectionLane
<1>3. CASE UNCHANGED <<conn, wire>>
  <2>1. OpenControl'
    BY <1>2, <1>3, OpenControlSame DEF Echo
  <2> QED BY <1>2, <1>3, <2>1, SameWire, EchoSame
<1>4. CASE Live(p, n) /\ CloseConnection(p, n, ~chan[p][n].cbr)
  <2> DEFINE q == Other(p)
  <2>1. /\ TypeOK /\ q \in Peer /\ q # p /\ Other(q) = p
        /\ "client" \in Peer /\ "server" \in Peer
        /\ \A r \in Peer : r = p \/ r = q
    BY PeerFacts DEF Inductive, Peer, Other
  <2>2. /\ conn'[p][n].life = "freed"
        /\ \A r \in Peer, m \in Lane : (r # p \/ m # n) => conn'[r][m] = conn[r][m]
    BY <1>4, <2>1, FreedType DEF CloseConnection
  <2>3. conn[p][n].life = "live"
    BY <1>4 DEF Live
  <2>4. \A r \in Peer, m \in Lane :
           /\ Del(r, m)' => Del(r, m) \/ (r = p /\ m = n)
           /\ Del(r, m) => Del(r, m)'
    <3>1. CASE wire' = [wire EXCEPT ![p] = Append(@, DeleteRemoteChannel(n))]
      <4>1. /\ DeleteRemoteChannel(n) \in Control /\ DeleteRemoteChannel(n).lane = n
        BY DEF DeleteRemoteChannel, Control
      <4> QED BY <2>1, <3>1, <4>1, AppendWire
    <3>2. CASE UNCHANGED wire
      BY <3>2, SameWire DEF SameDel
    <3> QED BY <1>4, <3>1, <3>2 DEF CloseConnection, Put
  <2>5. OpenControl'
    <3>1. \A m \in Lane : conn'["client"][m].life = "none" <=> conn["client"][m].life = "none"
      BY <2>1, <2>2, <2>3
    <3> QED BY <1>2, <3>1, OpenControlSame DEF Echo
  <2>6. Announced'
    BY <2>1, <2>2, <2>4 DEF Echo, Announced
  <2>7. Marked'
    BY <1>2, <2>1, <2>2, <2>3 DEF Echo, Marked
  <2>8. up[q] => Del(p, n)' \/ conn[q][n].life = "freed"
    <3>1. CASE chan[p][n].cbr
      BY <2>1, <2>3, <3>1 DEF Echo, Marked
    <3>2. CASE ~chan[p][n].cbr /\ up[q]
      <4>1. ctl[p] = "open"
        <5>1. ctl[p] # "closed"
          BY <1>2, <2>1, <3>2 DEF Echo, OpenControl
        <5>2. p = "server" => target
          BY <2>3 DEF Inductive, TargetFirst
        <5>3. ctl[p] # "connecting"
          BY <2>3, <5>2 DEF Echo, OpenControl, Peer
        <5>4. ctl[p] \in {"connecting", "open", "closed"}
          BY <2>1 DEF TypeOK
        <5> QED BY <5>1, <5>3, <5>4
      <4>2. wire' = [wire EXCEPT ![p] = Append(@, DeleteRemoteChannel(n))]
        BY <1>4, <3>2, <4>1 DEF CloseConnection, Put
      <4>3. /\ DeleteRemoteChannel(n) \in Control /\ DeleteRemoteChannel(n).lane = n
            /\ DeleteRemoteChannel(n).id = "MsgDeleteChannel"
        BY DEF DeleteRemoteChannel, Control
      <4> QED BY <2>1, <4>2, <4>3, AppendWire
    <3> QED BY <3>1, <3>2
  <2>9. Owed'
    <3> SUFFICES ASSUME up["client"], up["server"], NEW m \in Lane
                 PROVE  /\ (conn'["client"][m].life = "live" /\ conn'["server"][m].life = "freed")
                              => (Del("server", m)' \/ chan["client"][m].cbr)
                        /\ (/\ conn'["client"][m].life = "freed"
                            /\ \/ conn'["server"][m].life = "live"
                               \/ chan["server"][m].st \in {"absent", "connecting"})
                              => (Del("client", m)' \/ chan["server"][m].cbr)
      BY <1>2 DEF Owed, Live
    <3>1. CASE m # n
      BY <2>1, <2>2, <2>4, <3>1 DEF Echo, Owed, Live
    <3>2. CASE m = n /\ p = "client"
      <4>1. conn["server"][n].life = "freed" => chan["server"][n].st \notin {"absent", "connecting"}
        BY DEF Inductive, Attached
      <4> QED BY <2>1, <2>2, <2>8, <3>2, <4>1, PeerFacts
    <3>3. CASE m = n /\ p = "server"
      <4>1. chan["server"][n].st \notin {"absent", "connecting"}
        BY <2>3, <3>3 DEF Inductive, Attached
      <4> QED BY <2>1, <2>2, <2>8, <3>3, <4>1, PeerFacts
    <3> QED BY <3>1, <3>2, <3>3 DEF Peer
  <2> QED BY <2>5, <2>6, <2>7, <2>9 DEF Echo
<1> QED BY <1>1, <1>3, <1>4, DeleteCases

\* Every handler keeps Echo, up to the first undefined behaviour.
LEMMA EchoStep ==
  ASSUME Inductive, Echo, Next, Sane, Sane'
  PROVE  Echo'
<1>1. TypeOK
  BY DEF Inductive
<1>2. ASSUME NEW p \in Peer,
             \/ OnControlDataChannelOpen(p) \/ OnControlDataChannelClosed(p)
             \/ DeleteConnectionLane(p) \/ Close(p)
      PROVE  Echo'
  BY <1>1, <1>2, ControlEcho, DeleteEcho, CloseEcho
<1>3. ASSUME NEW n \in Lane,
             \/ OnServerSideReady(n) \/ OnSocketOpen(n) \/ ClientChannelOpen(n)
             \/ OnDataChannel(n) \/ OnSocketDataChannelOpen(n)
      PROVE  Echo'
  BY <1>1, <1>3, ServerReadyEcho, SocketOpenEcho, ChannelEcho, ServerOpenEcho
<1>4. ASSUME NEW p \in Peer, NEW n \in Lane,
             \/ OnStopChannel(p, n) \/ AppWrite(p, n) \/ AppClose(p, n)
             \/ ReadEvent(p, n) \/ CloseEvent(p, n) \/ OnMessage(p, n)
             \/ OnSocketDataChannelClosed(p, n)
      PROVE  Echo'
  BY <1>1, <1>4, StopChannelEcho, QuietEcho, ChannelEcho
<1> QED BY <1>1, <1>2, <1>3, <1>4, ControlEcho DEF Next

\* Echo holds in every state before the first undefined behaviour.
LEMMA EchoInvariant == Spec => [](Sane => Echo)
<1>1. Init => Echo
  <2> SUFFICES ASSUME Init PROVE Echo
    OBVIOUS
  <2>1. \A p \in Peer, n \in Lane : conn[p][n].life = "none" /\ ~chan[p][n].cbr
    BY DEF Init, NoConnection, NoChannel
  <2>2. \A p \in Peer, n \in Lane : ~Del(p, n)
    BY DEF Init, Del, InWire
  <2>3. OpenControl
    BY <2>1, PeerFacts DEF Init, OpenControl
  <2> QED BY <2>1, <2>2, <2>3, PeerFacts DEF Echo, Announced, Marked, Owed, Live
<1>2. Inductive /\ (Sane => Echo) /\ [Next]_vars => (Sane => Echo)'
  <2> SUFFICES ASSUME Inductive, Sane => Echo, [Next]_vars, Sane'
               PROVE  Echo'
    OBVIOUS
  <2>1. Sane /\ Echo
    BY SaneStep
  <2>2. CASE Next
    BY <2>1, <2>2, EchoStep
  <2>3. CASE UNCHANGED vars
    <3>1. UNCHANGED <<up, fault, ctl, listening, target, wire, chan, conn>>
      BY <2>3 DEF vars
    <3>2. OpenControl' /\ SameDel
      BY <2>1, <3>1, OpenControlSame, SameWire DEF Echo
    <3> QED BY <2>1, <3>1, <3>2, EchoSame DEF Sane
  <2> QED BY <2>2, <2>3
<1> QED BY <1>1, <1>2, InductiveInvariant, PTL DEF Spec

\* Only DeleteConnectionLane announces, and only what it deletes.
LEMMA AnnouncedByDelete ==
  ASSUME TypeOK, Next, Sane, Sane', NEW p \in Peer, NEW n \in Lane,
         ~Del(p, n), Del(p, n)'
  PROVE  DeleteConnectionLane(p) /\ Live(p, n) /\ ~Live(p, n)' /\ ~chan[p][n].cbr
<1>1. SameDel => FALSE
  BY DEF SameDel
<1>2. ~UNCHANGED wire
  BY <1>1, SameWire
<1>3. ASSUME NEW q \in Peer, wire' = Taken(q), wire[Other(q)] # <<>>
      PROVE  FALSE
  BY <1>3, TakenWire
<1>4. ASSUME NEW q \in Peer, NEW msg \in Control, msg.id # "MsgDeleteChannel",
             wire' = [wire EXCEPT ![q] = Append(@, msg)]
      PROVE  FALSE
  BY <1>4, AppendWire
<1>5. ~OnCreateChannel
  BY <1>1, CreateChannelWire
<1>6. \A q \in Peer : ~OnControlDataChannelOpen(q)
  BY <1>2, <1>4, MessageTypes DEF OnControlDataChannelOpen, CreateChannel
<1>7. \A m \in Lane : ~OnSocketDataChannelOpen(m)
  <2> SUFFICES ASSUME NEW m \in Lane, OnSocketDataChannelOpen(m) PROVE FALSE
    OBVIOUS
  <2>1. ServerSideReady(m) \in Control /\ ServerSideReady(m).id # "MsgDeleteChannel"
    BY DEF ServerSideReady, Control
  <2>2. UNCHANGED wire \/ wire' = [wire EXCEPT !["server"] = Append(@, ServerSideReady(m))]
    BY DEF OnSocketDataChannelOpen, Put
  <2> QED BY <1>2, <1>4, <2>1, <2>2, PeerFacts
<1>8. ~OnChannelCreated /\ \A m \in Lane : ~OnServerSideReady(m)
  BY <1>3, CrashFaults, UsedFaults, PeerFacts DEF OnChannelCreated, OnServerSideReady, Received
<1>9. \A q \in Peer, m \in Lane : ~OnStopChannel(q, m)
  BY <1>3 DEF OnStopChannel, Received
<1>10. \A q \in Peer : ~OnControlDataChannelClosed(q) /\ ~Close(q)
  BY <1>2 DEF OnControlDataChannelClosed, Close, Gone
<1>11. \A m \in Lane : ~OnSocketOpen(m) /\ ~ClientChannelOpen(m) /\ ~OnDataChannel(m)
  BY <1>2 DEF OnSocketOpen, ClientChannelOpen, OnDataChannel
<1>12. \A q \in Peer, m \in Lane :
          /\ ~AppWrite(q, m) /\ ~AppClose(q, m) /\ ~CloseEvent(q, m)
          /\ ~ReadEvent(q, m) /\ ~OnMessage(q, m) /\ ~OnSocketDataChannelClosed(q, m)
  BY <1>2, CrashFaults, UsedFaults
     DEF AppWrite, AppClose, CloseEvent, ReadEvent, OnMessage, OnSocketDataChannelClosed
<1>13. PICK q \in Peer : DeleteConnectionLane(q)
  BY <1>5, <1>6, <1>7, <1>8, <1>9, <1>10, <1>11, <1>12 DEF Next
<1>14. PICK m \in Lane : Live(q, m) /\ CloseConnection(q, m, ~chan[q][m].cbr)
  <2>1. queue[q] \in Seq(StopLaneMsg) /\ queue[q] # <<>>
    BY <1>13 DEF TypeOK, DeleteConnectionLane
  <2>2. Head(queue[q]) \in StopLaneMsg
    BY <2>1
  <2>3. Head(queue[q]).lane \in Lane
    BY <2>2 DEF StopLaneMsg
  <2>4. PICK m \in Lane : DeleteLaneOfSocket(q, m) \/ DeleteLaneOfChannel(q, m)
    BY <1>13, <2>3, CrashFaults DEF DeleteConnectionLane
  <2> QED BY <1>2, <2>4, DeleteCases
<1>15. /\ ~chan[q][m].cbr
       /\ wire' = [wire EXCEPT ![q] = Append(@, DeleteRemoteChannel(m))]
  BY <1>2, <1>14 DEF CloseConnection, Put
<1>16. q = p /\ m = n
  <2>1. DeleteRemoteChannel(m) \in Control /\ DeleteRemoteChannel(m).lane = m
    BY DEF DeleteRemoteChannel, Control
  <2> QED BY <1>15, <2>1, AppendWire
<1>17. ~Live(p, n)'
  BY <1>14, <1>16, FreedType DEF CloseConnection, Live
<1> QED BY <1>13, <1>14, <1>15, <1>16, <1>17

\* A deleted end is announced once, and never in answer to the other end's own
\* announcement: MsgDeleteChannel does not bounce between the Conductors.
THEOREM DeletionIsNotEchoed == Spec => NoEcho
<1>1. Inductive /\ Inductive' /\ (Sane => Echo) /\ (Sane => Echo)' /\ [Next]_vars =>
         [\A p \in Peer, n \in Lane :
             (Sane' /\ ~InWire(p, "MsgDeleteChannel", n)
                    /\ InWire(p, "MsgDeleteChannel", n)')
                => /\ Live(p, n) /\ ~Live(p, n)'
                   /\ \/ conn[Other(p)][n].life # "freed"
                      \/ InWire(Other(p), "MsgDeleteChannel", n)
                      \/ ~up[Other(p)]]_vars
  <2> SUFFICES ASSUME Inductive, Sane => Echo, Next, Sane',
                      NEW p \in Peer, NEW n \in Lane, ~Del(p, n), Del(p, n)'
               PROVE  /\ Live(p, n) /\ ~Live(p, n)'
                      /\ \/ conn[Other(p)][n].life # "freed"
                         \/ Del(Other(p), n)
                         \/ ~up[Other(p)]
    BY DEF Del
  <2>1. Sane /\ Echo /\ TypeOK
    BY SaneStep DEF Inductive
  <2>2. DeleteConnectionLane(p) /\ Live(p, n) /\ ~Live(p, n)' /\ ~chan[p][n].cbr
    BY <2>1, AnnouncedByDelete
  <2>3. up[p]
    BY <2>2 DEF DeleteConnectionLane
  <2>4. CASE p = "client"
    BY <2>1, <2>2, <2>3, <2>4, PeerFacts DEF Echo, Owed
  <2>5. CASE p = "server"
    BY <2>1, <2>2, <2>3, <2>5, PeerFacts DEF Echo, Owed
  <2> QED BY <2>2, <2>4, <2>5 DEF Peer
<1> QED BY <1>1, InductiveInvariant, EchoInvariant, PTL DEF Spec, NoEcho
=============================================================================

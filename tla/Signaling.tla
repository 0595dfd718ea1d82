------------------------------ MODULE Signaling ------------------------------
(***************************************************************************)
(* How peers find each other: SignalServerConnection, Conductors and the   *)
(* offer and answer of Conductor, in one server and some clients that meet *)
(* in one room of the signal server, which is external.  In each process   *)
(* the WebSocket's sub-thread posts to the signal thread.                  *)
(***************************************************************************)
EXTENDS Naturals, FiniteSets, Sequences, SequencesExt

CONSTANTS
    Server,         \* the process run with -server
    Client,         \* the other processes
    MaxCandidate,   \* bound: the ICE candidates a PeerConnection gathers
    MayFail         \* what may go wrong: "connect", "lost" (the link to the
                    \* signal server), "room", "signIn" (refused), "killed"
                    \* (a process), "factory", "peerConnection" (not created),
                    \* "description" (CreateOffer and CreateAnswer)

ASSUME ServerAssumption == Server \notin Client
ASSUME ClientAssumption == IsFiniteSet(Client)
ASSUME CandidateAssumption == MaxCandidate \in Nat
ASSUME MayFailAssumption ==
    MayFail \subseteq {"connect", "lost", "room", "signIn", "killed",
                       "factory", "peerConnection", "description"}

Process == Client \cup {Server}
Description == {"none", "offer", "answer"}
Payload == {"offer", "answer", "candidate"}

\* What a process sends: peer_id names the addressee.
Request ==
    [msgid : {"CreateRoom", "SignIn"}]
        \cup [msgid : {"SendOffer"}, peer : Process, payload : Payload]

\* What is posted to the signal thread: peer_id names the other peer.
Exit == [msgid |-> "Exit"]
Message ==
    [msgid : {"CreateRoom", "SignIn"}, successful : BOOLEAN]
        \cup [msgid : {"PeerConnected", "PeerDisconnected"}, peer : Process]
        \cup [msgid : {"ReceivedOffer"}, peer : Process, payload : Payload]

\* A Conductor of peers_offer_.  The one of peers_answer_ comes and goes with
\* it and is otherwise unused.
Conductor ==
    [kept : BOOLEAN,            \* in peers_offer_
     pc : BOOLEAN,              \* peer_connection_ is not NULL
     remote : BOOLEAN,          \* remote_peer_id_ is not 0
     creating : Description,    \* what OnSuccess will be called with
     failed : BOOLEAN,          \* history: OnFailure was called instead
     local : Description,       \* the description set by SetLocalDescription
     theirs : Description,      \* ... by SetRemoteDescription
     left : 0..MaxCandidate,    \* candidates not yet gathered
     added : 0..MaxCandidate]   \* candidates added for the other side

\* A peer for which there is no Conductor.
NoConductor ==
    [kept |-> FALSE, pc |-> FALSE, remote |-> FALSE, creating |-> "none",
     failed |-> FALSE, local |-> "none", theirs |-> "none", left |-> 0, added |-> 0]

VARIABLES
    life,           \* the process: its thread runs, has been stopped, ...
    readyState,     \* the WebSocket's _readyState
    sub,            \* where its sub-thread is
    callback,       \* callback_ is not NULL
    queue,          \* messages posted to the signal thread
    signedIn,       \* id_ is not 0
    conductor,      \* conductor[p][q]: the one of process p for its peer q
    up, down,       \* between a process and the signal server
    room, member    \* of the signal server

vars == <<life, readyState, sub, callback, queue, signedIn, conductor,
          up, down, room, member>>

Init ==
    /\ life = [p \in Process |-> "running"]
    /\ readyState = [p \in Process |-> "CONNECTING"]
    /\ sub = [p \in Process |-> "loop"]
    /\ callback = [p \in Process |-> TRUE]
    /\ queue = [p \in Process |-> <<>>]
    /\ signedIn = [p \in Process |-> FALSE]
    /\ conductor = [p \in Process |-> [q \in Process |-> NoConductor]]
    /\ up = [p \in Process |-> <<>>]
    /\ down = [p \in Process |-> <<>>]
    /\ room = FALSE
    /\ member = {}

TypeOK ==
    /\ life \in [Process -> {"running", "stopped", "ended", "dead"}]
    /\ readyState \in [Process -> {"CONNECTING", "OPEN", "CLOSING", "CLOSED"}]
    /\ sub \in [Process -> {"loop", "again", "failing", "close", "closing", "done"}]
    /\ callback \in [Process -> BOOLEAN]
    /\ queue \in [Process -> Seq(Message \cup {Exit})]
    /\ signedIn \in [Process -> BOOLEAN]
    /\ conductor \in [Process -> [Process -> Conductor]]
    /\ \A p, q \in Process :
           LET c == conductor[p][q]
           IN  {c.creating, c.local, c.theirs} # {"none"} => c.pc
    /\ \A p \in Process : sub[p] \in {"again", "failing"} => readyState[p] = "CLOSING"
    /\ up \in [Process -> Seq(Request)]
    /\ down \in [Process -> Seq(Message)]
    /\ room \in BOOLEAN
    /\ member \subseteq Process
-----------------------------------------------------------------------------
(* What the handlers share.                                                *)

Alive(p) == life[p] \in {"running", "stopped"}

\* SignalServerConnection::Send: nothing goes out while the WebSocket is not
\* open.
Send(p, request) ==
    up' = IF readyState[p] = "OPEN" THEN [up EXCEPT ![p] = Append(@, request)] ELSE up

\* rtc::Thread takes no messages once it has been stopped, but goes on with
\* those it has.
Posted(p, messages) == IF life[p] = "running" THEN messages ELSE <<>>

Post(p, messages) == queue' = [queue EXCEPT ![p] = @ \o Posted(p, messages)]

\* The signal thread handles the message in front, and posts others.
Taken(p, msgid) == Alive(p) /\ queue[p] # <<>> /\ Head(queue[p]).msgid = msgid
Handled(p, messages) ==
    queue' = [queue EXCEPT ![p] = Tail(@) \o Posted(p, messages)]

\* Variant: a failure is only printed.
FailurePrinted(p) == <<>>

\* ServerConnectionFailure: Conductors has MsgExit posted.
ServerConnectionFailure(p) == IF callback[p] THEN <<Exit>> ELSE <<>>

\* The end of a process, in main or not.
Dies(p, how) ==
    /\ life' = [life EXCEPT ![p] = how]
    /\ readyState' = [readyState EXCEPT ![p] = "CLOSED"]
    /\ sub' = [sub EXCEPT ![p] = "done"]
    /\ callback' = [callback EXCEPT ![p] = FALSE]
    /\ signedIn' = [signedIn EXCEPT ![p] = FALSE]
    /\ queue' = [queue EXCEPT ![p] = <<>>]
    /\ conductor' = [conductor EXCEPT ![p] = [q \in Process |-> NoConductor]]
    /\ down' = [down EXCEPT ![p] = <<>>]
    /\ UNCHANGED <<up, room, member>>
-----------------------------------------------------------------------------
(* The WebSocket's sub-thread.                                             *)

\* onOpen and OnConnected.
OnOpen(p) ==
    /\ Alive(p) /\ sub[p] = "loop" /\ readyState[p] = "CONNECTING"
    /\ readyState' = [readyState EXCEPT ![p] = "OPEN"]
    /\ up' = IF callback[p]
             THEN [up EXCEPT ![p] =
                       Append(@, [msgid |-> IF p = Server THEN "CreateRoom" ELSE "SignIn"])]
             ELSE up
    /\ UNCHANGED <<life, sub, callback, queue, signedIn, conductor, down, room, member>>

\* onError and ServerConnectionFailure: the WebSocket closes itself, after
\* one error event or more of the same failure (WebSocket's Failed).
OnError(p) ==
    /\ Alive(p) /\ sub[p] = "loop" /\ readyState[p] = "CONNECTING"
    /\ "connect" \in MayFail
    /\ Post(p, ServerConnectionFailure(p))
    /\ readyState' = [readyState EXCEPT ![p] = "CLOSING"]
    /\ \E next \in {"close", "again"} : sub' = [sub EXCEPT ![p] = next]
    /\ UNCHANGED <<life, callback, signedIn, conductor, up, down, room, member>>

\* onError of one more event: ServerConnectionFailure tests callback_, which
\* the signal thread may set to NULL from the first MsgExit on ...
OnErrorAgain(p) ==
    /\ Alive(p) /\ sub[p] = "again"
    /\ sub' = [sub EXCEPT ![p] = IF callback[p] THEN "failing" ELSE "close"]
    /\ UNCHANGED <<life, readyState, callback, queue, signedIn, conductor, up,
                   down, room, member>>

\* ... and uses it.  A failure is signalled three times at the most.
OnServerConnectionFailure(p) ==
    /\ Alive(p) /\ sub[p] = "failing"
    /\ \/ /\ Post(p, <<Exit>>)
          /\ \/ sub' = [sub EXCEPT ![p] = "close"]
             \/ Len(queue[p]) < 2 /\ sub' = [sub EXCEPT ![p] = "again"]
          /\ UNCHANGED <<life, readyState, callback, signedIn, conductor, up,
                         down, room, member>>
       \/ ~callback[p] /\ Dies(p, "dead")

\* onMessage.
OnMessage(p) ==
    /\ Alive(p) /\ sub[p] = "loop" /\ readyState[p] = "OPEN" /\ down[p] # <<>>
    /\ Post(p, <<Head(down[p])>>)
    /\ down' = [down EXCEPT ![p] = Tail(@)]
    /\ UNCHANGED <<life, readyState, sub, callback, signedIn, conductor, up, room, member>>

\* The connection breaks, with what was on its way to the process.
Lost(p) ==
    /\ Alive(p) /\ sub[p] = "loop" /\ readyState[p] = "OPEN"
    /\ "lost" \in MayFail
    /\ readyState' = [readyState EXCEPT ![p] = "CLOSED"]
    /\ sub' = [sub EXCEPT ![p] = "close"]
    /\ down' = [down EXCEPT ![p] = <<>>]
    /\ UNCHANGED <<life, callback, queue, signedIn, conductor, up, room, member>>

\* onClose tests callback_ ...
OnClose(p) ==
    /\ Alive(p) /\ sub[p] = "close"
    /\ sub' = [sub EXCEPT ![p] = IF callback[p] THEN "closing" ELSE "done"]
    /\ UNCHANGED <<life, readyState, callback, queue, signedIn, conductor, up,
                   down, room, member>>

\* Variant: losing the connection ends the program as a failure does.
OnDisconnectedFails(p) ==
    /\ Alive(p) /\ sub[p] = "closing" /\ callback[p]
    /\ sub' = [sub EXCEPT ![p] = "done"]
    /\ Post(p, <<Exit>>)
    /\ UNCHANGED <<life, readyState, callback, signedIn, conductor, up, down, room, member>>

\* ... and calls OnDisconnected, which prints.  Nothing orders this with the
\* signal thread's OnClose: callback_ read again may be NULL by now.
OnDisconnected(p) ==
    /\ Alive(p) /\ sub[p] = "closing"
    /\ \/ /\ sub' = [sub EXCEPT ![p] = "done"]
          /\ UNCHANGED <<life, readyState, callback, queue, signedIn, conductor,
                         up, down, room, member>>
       \/ /\ ~callback[p]
          /\ Dies(p, "dead")
-----------------------------------------------------------------------------
(* The signal thread: rooms and members.                                   *)

\* OnCreatedRoom: the server signs in to its room.
OnCreatedRoom(p) ==
    /\ Taken(p, "CreateRoom")
    /\ IF Head(queue[p]).successful
       THEN /\ Handled(p, <<>>)
            /\ IF callback[p] THEN Send(p, [msgid |-> "SignIn"]) ELSE UNCHANGED up
       ELSE /\ Handled(p, ServerConnectionFailure(p))
            /\ UNCHANGED up
    /\ UNCHANGED <<life, readyState, sub, callback, signedIn, conductor, down, room, member>>

OnSignedIn(p) ==
    /\ Taken(p, "SignIn")
    /\ IF Head(queue[p]).successful
       THEN /\ Handled(p, <<>>)
            /\ signedIn' = [signedIn EXCEPT ![p] = @ \/ callback[p]]
       ELSE /\ Handled(p, ServerConnectionFailure(p))
            /\ UNCHANGED signedIn
    /\ UNCHANGED <<life, readyState, sub, callback, conductor, up, down, room, member>>

\* DeletePeerConnection, which forgets the remote peer's id too.
DeletePeerConnection(c) == [NoConductor EXCEPT !.kept = c.kept]

\* InitializePeerConnection: the Conductor afterwards.
InitializePeerConnection(c) ==
    {[c EXCEPT !.pc = TRUE, !.left = MaxCandidate]}
        \cup (IF "factory" \in MayFail THEN {DeletePeerConnection(c)} ELSE {})

\* When only CreatePeerConnection fails, AddControlDataChannel calls a
\* peer_connection_ that DeletePeerConnection has set to NULL.
InitializationCrashes(p) == "peerConnection" \in MayFail /\ Dies(p, "dead")

\* Variant: the server offers as well.
OfferAlways(p, c) ==
    {[d EXCEPT !.creating = IF d.pc THEN "offer" ELSE "none"]
        : d \in InitializePeerConnection(c)}

\* Variant: the result of InitializePeerConnection is not tested.
OfferUntested(p, c) ==
    IF p = Server THEN {c}
    ELSE {[d EXCEPT !.creating = "offer"] : d \in InitializePeerConnection(c)}

\* ConnectToPeer: only a client offers.
ConnectToPeer(p, c) ==
    IF p = Server THEN {c}
    ELSE {[d EXCEPT !.creating = IF d.pc THEN "offer" ELSE "none"]
             : d \in InitializePeerConnection(c)}

\* OnPeerConnected.  The signal server names a peer once; the second Conductor
\* a repetition would make, which insert does not keep, is left out.
OnPeerConnected(p) ==
    /\ Taken(p, "PeerConnected")
    /\ LET q == Head(queue[p]).peer
           new == [NoConductor EXCEPT !.kept = TRUE, !.remote = TRUE]
           first == callback[p] /\ ~conductor[p][q].kept
       IN  \/ /\ \E c \in (IF first THEN ConnectToPeer(p, new) ELSE {conductor[p][q]}) :
                     conductor' = [conductor EXCEPT ![p][q] = c]
              /\ Handled(p, <<>>)
              /\ UNCHANGED <<life, readyState, sub, callback, signedIn, up, down,
                             room, member>>
           \/ first /\ p # Server /\ InitializationCrashes(p)

\* Variant: only a client erases.
ErasedByClient(p, c) ==
    IF p = Server THEN c
    ELSE IF c.creating = "none" THEN NoConductor ELSE [c EXCEPT !.kept = FALSE]

\* erase: CreateOffer and CreateAnswer keep the Conductor until OnSuccess.
Erased(p, c) == IF c.creating = "none" THEN NoConductor ELSE [c EXCEPT !.kept = FALSE]

\* Variant: the maps are looked at before the peer is erased.
NoPeerBefore(p, q) == \A r \in Process : ~conductor[p][r].kept

\* peers_offer_ and peers_answer_ are empty once q has been erased.
NoPeerLeft(p, q) == \A r \in Process \ {q} : ~conductor[p][r].kept

\* OnPeerDisconnected: a client whose last peer has gone exits.
OnPeerDisconnected(p) ==
    /\ Taken(p, "PeerDisconnected")
    /\ LET q == Head(queue[p]).peer
       IN  IF callback[p]
           THEN /\ conductor' = [conductor EXCEPT ![p][q] = Erased(p, @)]
                /\ Handled(p, IF p # Server /\ NoPeerLeft(p, q) THEN <<Exit>> ELSE <<>>)
           ELSE /\ Handled(p, <<>>)
                /\ UNCHANGED conductor
    /\ UNCHANGED <<life, readyState, sub, callback, signedIn, up, down, room, member>>
-----------------------------------------------------------------------------
(* The signal thread: offer, answer and candidates.                        *)

\* What a PeerConnection accepts; it refuses the rest.
Fits(c, payload) ==
    CASE payload = "offer" -> c.creating = "none" /\ c.local = "none" /\ c.theirs = "none"
      [] payload = "answer" -> c.local = "offer" /\ c.theirs = "none"
      [] payload = "candidate" -> c.theirs # "none" /\ c.added < MaxCandidate

\* Variant: the offer is not answered.
AppliedUnanswered(c, payload) ==
    IF ~Fits(c, payload) THEN c
    ELSE IF payload = "candidate" THEN [c EXCEPT !.added = @ + 1]
    ELSE [c EXCEPT !.theirs = payload]

\* SetRemoteDescription and CreateAnswer, or AddIceCandidate.
Applied(c, payload) ==
    IF ~Fits(c, payload) THEN c
    ELSE IF payload = "candidate" THEN [c EXCEPT !.added = @ + 1]
    ELSE [c EXCEPT !.theirs = payload,
                   !.creating = IF payload = "offer" THEN "answer" ELSE @]

\* Conductor::OnReceivedOffer: the first message to the server's Conductor
\* initialises it; a Conductor that has lost its peer's id hears no one.
Heard(c, payload) ==
    IF ~c.pc
    THEN {IF d.pc THEN Applied(d, payload) ELSE d : d \in InitializePeerConnection(c)}
    ELSE {IF c.remote THEN Applied(c, payload) ELSE c}

OnReceivedOffer(p) ==
    /\ Taken(p, "ReceivedOffer")
    /\ LET q == Head(queue[p]).peer
           known == callback[p] /\ conductor[p][q].kept
       IN  \/ /\ \E c \in (IF known THEN Heard(conductor[p][q], Head(queue[p]).payload)
                         ELSE {conductor[p][q]}) :
                     conductor' = [conductor EXCEPT ![p][q] = c]
              /\ Handled(p, <<>>)
              /\ UNCHANGED <<life, readyState, sub, callback, signedIn, up, down,
                             room, member>>
           \/ known /\ ~conductor[p][q].pc /\ InitializationCrashes(p)

\* A Conductor whose remote_peer_id_ is 0 writes to nobody.
SendOffer(p, q, payload) ==
    IF conductor[p][q].remote
    THEN Send(p, [msgid |-> "SendOffer", peer |-> q, payload |-> payload])
    ELSE UNCHANGED up

\* OnSuccess of CreateOffer and CreateAnswer, SetLocalDescription and Send.
OnSuccess(p, q) ==
    LET c == conductor[p][q]
    IN  /\ Alive(p) /\ c.creating # "none"
        /\ SendOffer(p, q, c.creating)
        /\ conductor' = [conductor EXCEPT ![p][q] =
               IF c.kept THEN [c EXCEPT !.creating = "none", !.local = c.creating]
               ELSE NoConductor]
        /\ UNCHANGED <<life, readyState, sub, callback, queue, signedIn, down,
                       room, member>>

\* OnFailure of CreateOffer and CreateAnswer only logs: the Conductor stays,
\* without a description, and nobody is told.
OnFailure(p, q) ==
    LET c == conductor[p][q]
    IN  /\ Alive(p) /\ c.creating # "none"
        /\ "description" \in MayFail
        /\ conductor' = [conductor EXCEPT ![p][q] =
               IF c.kept THEN [c EXCEPT !.creating = "none", !.failed = TRUE]
               ELSE NoConductor]
        /\ UNCHANGED <<life, readyState, sub, callback, queue, signedIn, up, down,
                       room, member>>

\* Variant: the description goes out again instead of the candidate.
OnIceCandidateAgain(p, q) ==
    /\ Alive(p) /\ conductor[p][q].local # "none" /\ conductor[p][q].left > 0
    /\ SendOffer(p, q, conductor[p][q].local)
    /\ conductor' = [conductor EXCEPT ![p][q].left = @ - 1]
    /\ UNCHANGED <<life, readyState, sub, callback, queue, signedIn, down, room, member>>

\* The PeerConnection gathers once it has its local description.
OnIceCandidate(p, q) ==
    /\ Alive(p) /\ conductor[p][q].local # "none" /\ conductor[p][q].left > 0
    /\ SendOffer(p, q, "candidate")
    /\ conductor' = [conductor EXCEPT ![p][q].left = @ - 1]
    /\ UNCHANGED <<life, readyState, sub, callback, queue, signedIn, down, room, member>>
-----------------------------------------------------------------------------
(* The end.                                                                *)

\* Conductors::OnMessage and OnClose, in a build without assertions.
OnExit(p) ==
    /\ Taken(p, "Exit")
    /\ Handled(p, <<>>)
    /\ callback' = [callback EXCEPT ![p] = FALSE]
    /\ life' = [life EXCEPT ![p] = "stopped"]
    /\ UNCHANGED <<readyState, sub, signedIn, conductor, up, down, room, member>>

\* Run returns when the queue is empty, and main destroys everything.  That
\* joins the sub-thread, so a call of callback_ that has begun comes before.
End(p) ==
    /\ life[p] = "stopped" /\ queue[p] = <<>> /\ sub[p] \notin {"failing", "closing"}
    /\ Dies(p, "ended")

\* The user stops the program.
Killed(p) ==
    /\ "killed" \in MayFail
    /\ Alive(p)
    /\ Dies(p, "dead")
-----------------------------------------------------------------------------
(* The signal server.                                                      *)

\* It writes to[q] to each q that is there.
Deliver(to) ==
    down' = [q \in Process |-> IF readyState[q] = "OPEN" THEN down[q] \o to[q] ELSE down[q]]

Reply(p, message) == Deliver([q \in Process |-> IF q = p THEN <<message>> ELSE <<>>])

\* The server of a room is told of its clients and they of the server.
Partners(p) == {q \in member \ {p} : q = Server \/ p = Server}

CreateRoom(p) ==
    /\ up[p] # <<>> /\ Head(up[p]).msgid = "CreateRoom"
    /\ \E ok \in BOOLEAN :
           /\ ok \/ "room" \in MayFail
           /\ room' = (room \/ ok)
           /\ Reply(p, [msgid |-> "CreateRoom", successful |-> ok])
    /\ up' = [up EXCEPT ![p] = Tail(@)]
    /\ UNCHANGED <<life, readyState, sub, callback, queue, signedIn, conductor, member>>

SignIn(p) ==
    /\ up[p] # <<>> /\ Head(up[p]).msgid = "SignIn"
    /\ \/ /\ room
          /\ member' = member \cup {p}
          /\ LET told == [q \in 1..Cardinality(Partners(p)) |->
                              [msgid |-> "PeerConnected", peer |-> SetToSeq(Partners(p))[q]]]
             IN  Deliver([q \in Process |->
                     IF q = p THEN <<[msgid |-> "SignIn", successful |-> TRUE]>> \o told
                     ELSE IF q \in Partners(p) THEN <<[msgid |-> "PeerConnected", peer |-> p]>>
                     ELSE <<>>])
       \/ /\ ~room \/ "signIn" \in MayFail
          /\ Reply(p, [msgid |-> "SignIn", successful |-> FALSE])
          /\ UNCHANGED member
    /\ up' = [up EXCEPT ![p] = Tail(@)]
    /\ UNCHANGED <<life, readyState, sub, callback, queue, signedIn, conductor, room>>

\* It passes on what one member sends to another.
Relay(p) ==
    /\ up[p] # <<>> /\ Head(up[p]).msgid = "SendOffer"
    /\ LET m == Head(up[p])
       IN  IF {p, m.peer} \subseteq member
           THEN Deliver([q \in Process |->
                    IF q = m.peer
                    THEN <<[msgid |-> "ReceivedOffer", peer |-> p, payload |-> m.payload]>>
                    ELSE <<>>])
           ELSE UNCHANGED down
    /\ up' = [up EXCEPT ![p] = Tail(@)]
    /\ UNCHANGED <<life, readyState, sub, callback, queue, signedIn, conductor, room, member>>

\* It finds that a process has gone; a room goes with its server.
Leave(p) ==
    /\ readyState[p] \in {"CLOSING", "CLOSED"}
    /\ p \in member \/ up[p] # <<>> \/ (p = Server /\ room)
    /\ member' = member \ {p}
    /\ room' = (room /\ p # Server)
    /\ up' = [up EXCEPT ![p] = <<>>]
    /\ Deliver([q \in Process |->
           IF p \in member /\ q \in Partners(p)
           THEN <<[msgid |-> "PeerDisconnected", peer |-> p]>> ELSE <<>>])
    /\ UNCHANGED <<life, readyState, sub, callback, queue, signedIn, conductor>>
-----------------------------------------------------------------------------
SubThread(p) ==
    \/ OnOpen(p) \/ OnMessage(p) \/ OnClose(p) \/ OnDisconnected(p)
    \/ OnError(p) \/ OnErrorAgain(p) \/ OnServerConnectionFailure(p)

SignalThread(p) ==
    \/ OnCreatedRoom(p) \/ OnSignedIn(p) \/ OnPeerConnected(p)
    \/ OnPeerDisconnected(p) \/ OnReceivedOffer(p) \/ OnExit(p) \/ End(p)

Negotiation(p) ==
    \E q \in Process : OnSuccess(p, q) \/ OnFailure(p, q) \/ OnIceCandidate(p, q)

SignalServer(p) == CreateRoom(p) \/ SignIn(p) \/ Relay(p)

Next ==
    \E p \in Process :
        \/ SubThread(p) \/ SignalThread(p) \/ Negotiation(p)
        \/ SignalServer(p) \/ Leave(p) \/ Lost(p) \/ Killed(p)

Spec == Init /\ [][Next]_vars

\* Every thread runs, WebRTC calls back, and the signal server handles what it
\* is sent and finds who has gone.  Nothing has to fail.
Fairness ==
    \A p \in Process :
        /\ WF_vars(SubThread(p)) /\ WF_vars(SignalThread(p)) /\ WF_vars(Negotiation(p))
        /\ WF_vars(SignalServer(p)) /\ WF_vars(Leave(p))

FairSpec == Spec /\ Fairness
-----------------------------------------------------------------------------
(* Properties.                                                             *)

\* Each description and candidate finds the PeerConnection in the state it
\* needs: offer before answer before candidates, and never two offers, though
\* three queues and two threads lie between the peers.  Only a Conductor that
\* lost its factory may refuse.
NegotiationFits ==
    \A p \in Process :
        (Taken(p, "ReceivedOffer") /\ callback[p]) =>
            LET m == Head(queue[p])
                c == conductor[p][m.peer]
            IN  c.kept /\ c.remote => Fits(c, m.payload)

\* Whoever leaves, whatever the signal server refuses and whenever it is lost,
\* MsgExit is posted once, to a signal client that still has its observer.
\* Only a failed connect, which leaves the WebSocket CLOSING, is reported to
\* Conductors by as many MsgExit as it has error events, of which the second
\* finds no observer to unregister.
ExitOnce ==
    \A p \in Process :
        readyState[p] # "CLOSING" =>
            Cardinality({i \in DOMAIN queue[p] : queue[p][i] = Exit})
                <= (IF callback[p] THEN 1 ELSE 0)

\* A Conductor is kept for a member of the room, or for one of which the
\* process is about to hear that it left; only a process that has lost the
\* signal server keeps others.
NoOrphanConductor ==
    \A p, q \in Process :
        (conductor[p][q].kept /\ callback[p] /\ readyState[p] = "OPEN") =>
            \/ q \in member
            \/ LET gone == [msgid |-> "PeerDisconnected", peer |-> q]
               IN  \E i \in DOMAIN (queue[p] \o down[p]) : (queue[p] \o down[p])[i] = gone

\* A client and the server in one room get to the descriptions and candidates
\* of each other, unless one leaves, has lost its factory, or has failed to
\* create its description.
Connected(p, q) ==
    LET c == conductor[p][q]
    IN  c.local # "none" /\ c.theirs # "none" /\ c.added = MaxCandidate

Spoilt(p, q) ==
    LET c == conductor[p][q]
    IN  c.kept /\ (c.failed \/ ~c.remote)

TunnelForms ==
    \A c \in Client :
        ({c, Server} \subseteq member) ~>
            \/ Connected(c, Server) /\ Connected(Server, c)
            \/ ~({c, Server} \subseteq member)
            \/ Spoilt(c, Server) \/ Spoilt(Server, c)

\* A process signs in or ends, however the signal server answers; only one
\* that loses the connection before the answer waits on.
SignedInOrEnded ==
    \A p \in Process :
        (readyState[p] = "CONNECTING") ~>
            (signedIn[p] \/ ~Alive(p) \/ readyState[p] = "CLOSED")

\* A client whose server has left the room ends, unless it has lost the
\* signal server, which would have told it.
ClientExits ==
    \A c \in Client :
        (conductor[c][Server].kept /\ Server \notin member) ~>
            (~Alive(c) \/ readyState[c] = "CLOSED")

\* Rendezvous, when a side has begun with the first of its two descriptions and
\* is connected with the second.
CallerStage(c) ==
    IF c.local = "none" THEN "apart"
    ELSE IF c.theirs = "none" THEN "begun" ELSE "connected"

CalleeStage(c) ==
    IF c.theirs = "none" THEN "apart"
    ELSE IF c.local = "none" THEN "begun" ELSE "connected"

\* p has still to hear that of q.
UnderWay(p, q, payload) ==
    LET heard == [msgid |-> "ReceivedOffer", peer |-> q, payload |-> payload]
        sent == [msgid |-> "SendOffer", peer |-> p, payload |-> payload]
    IN  \/ \E i \in DOMAIN queue[p] : queue[p][i] = heard
        \/ \E i \in DOMAIN down[p] : down[p][i] = heard
        \/ \E i \in DOMAIN up[q] : up[q][i] = sent

\* What a client and the server have still to hear of each other.
OnWire(c) ==
    {d \in {"offer", "answer"} :
        IF d = "offer" THEN UnderWay(Server, c, d) ELSE UnderWay(c, Server, d)}

Meeting == INSTANCE Rendezvous WITH
    caller <- [c \in Client |-> CallerStage(conductor[c][Server])],
    callee <- [c \in Client |-> CalleeStage(conductor[Server][c])],
    wire <- [c \in Client |-> OnWire(c)]

\* The handlers of the processes and of the signal server, their interleavings
\* and failures implement Rendezvous: a client is only connected by an answer to
\* its own offer, and no offer or answer is heard twice.
ImplementsRendezvous == Meeting!Spec
=============================================================================

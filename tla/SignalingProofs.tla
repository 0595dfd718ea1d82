-------------------------- MODULE SignalingProofs ---------------------------
(***************************************************************************)
(* Theorems about Signaling: MsgExit is posted once, unless connecting     *)
(* failed, and no Conductor is kept for a peer whose leaving the process   *)
(* will not hear of.                                                       *)
(***************************************************************************)
EXTENDS Signaling, FiniteSetTheorems, SequenceTheorems, TLAPS

-----------------------------------------------------------------------------
(* Sequences.                                                              *)

\* Some element of s is in M, at most one is.
Has(s, M) == \E i \in 1..Len(s) : s[i] \in M
Once(s, M) == \A i, j \in 1..Len(s) : s[i] \in M /\ s[j] \in M => i = j

LEMMA HasNone == \A M : ~Has(<<>>, M) /\ Once(<<>>, M)
BY DEF Has, Once

LEMMA HasOne == ASSUME NEW m, NEW M PROVE (Has(<<m>>, M) <=> m \in M) /\ Once(<<m>>, M)
BY DEF Has, Once

LEMMA ConcatHas ==
  ASSUME NEW T, NEW s \in Seq(T), NEW t \in Seq(T), NEW M
  PROVE  /\ Has(s \o t, M) <=> Has(s, M) \/ Has(t, M)
         /\ Once(s, M) /\ ~Has(t, M) => Once(s \o t, M)
         /\ ~Has(s, M) /\ Once(t, M) => Once(s \o t, M)
<1> DEFINE u == s \o t
<1>1. /\ Len(u) = Len(s) + Len(t) /\ Len(s) \in Nat /\ Len(t) \in Nat
      /\ \A i \in 1..Len(s) : u[i] = s[i]
      /\ \A i \in 1..Len(t) : u[i + Len(s)] = t[i]
  BY ConcatProperties
<1>2. \A i \in 1..Len(u) : i \in 1..Len(s) \/ (i - Len(s) \in 1..Len(t) /\ u[i] = t[i - Len(s)])
  <2> SUFFICES ASSUME NEW i \in 1..Len(u), i \notin 1..Len(s)
               PROVE  i - Len(s) \in 1..Len(t) /\ u[i] = t[i - Len(s)]
    OBVIOUS
  <2> HIDE DEF u
  <2>1. i - Len(s) \in 1..Len(t) /\ (i - Len(s)) + Len(s) = i BY <1>1
  <2> QED BY <1>1, <2>1
<1>3. \A i \in 1..Len(s) : i \in 1..Len(u)
  <2> HIDE DEF u
  <2> QED BY <1>1
<1>4. \A i \in 1..Len(t) : i + Len(s) \in 1..Len(u)
  <2> HIDE DEF u
  <2> QED BY <1>1
<1> HIDE DEF u
<1>5. Has(u, M) <=> Has(s, M) \/ Has(t, M)
  <2>1. ASSUME Has(u, M) PROVE Has(s, M) \/ Has(t, M) BY <1>1, <1>2, <2>1 DEF Has
  <2>2. ASSUME Has(s, M) PROVE Has(u, M) BY <1>1, <1>3, <2>2 DEF Has
  <2>3. ASSUME Has(t, M) PROVE Has(u, M)
    <3>1. PICK i \in 1..Len(t) : t[i] \in M BY <2>3 DEF Has
    <3> QED BY <1>1, <1>4, <3>1 DEF Has
  <2> QED BY <2>1, <2>2, <2>3
<1>6. ASSUME Once(s, M), ~Has(t, M) PROVE Once(u, M)
  BY <1>1, <1>2, <1>6 DEF Has, Once
<1>7. ASSUME ~Has(s, M), Once(t, M) PROVE Once(u, M)
  <2> SUFFICES ASSUME NEW i \in 1..Len(u), NEW j \in 1..Len(u), u[i] \in M, u[j] \in M
               PROVE  i = j
    BY DEF Once
  <2>1. /\ i - Len(s) \in 1..Len(t) /\ t[i - Len(s)] \in M
        /\ j - Len(s) \in 1..Len(t) /\ t[j - Len(s)] \in M
    BY <1>1, <1>2, <1>7 DEF Has
  <2>2. i - Len(s) = j - Len(s) BY <1>7, <2>1 DEF Once
  <2> QED BY <1>1, <2>2
<1> QED BY <1>5, <1>6, <1>7 DEF u

LEMMA TailHas ==
  ASSUME NEW T, NEW s \in Seq(T), s # <<>>, NEW M
  PROVE  /\ Has(s, M) <=> Head(s) \in M \/ Has(Tail(s), M)
         /\ Once(s, M) => Once(Tail(s), M)
         /\ Once(s, M) /\ Head(s) \in M => ~Has(Tail(s), M)
<1>1. /\ Len(s) \in Nat \ {0} /\ Len(Tail(s)) = Len(s) - 1 /\ Head(s) = s[1]
      /\ \A i \in 1..Len(Tail(s)) : i + 1 \in 1..Len(s) /\ Tail(s)[i] = s[i + 1]
      /\ \A i \in 1..Len(s) : i # 1 => i - 1 \in 1..Len(Tail(s)) /\ (i - 1) + 1 = i
  OBVIOUS
<1>2. 1 \in 1..Len(s) BY <1>1
<1>3. Has(s, M) <=> Head(s) \in M \/ Has(Tail(s), M)
  <2>1. ASSUME Has(s, M), Head(s) \notin M PROVE Has(Tail(s), M)
    <3>1. PICK i \in 1..Len(s) : s[i] \in M BY <2>1 DEF Has
    <3>2. i # 1 BY <1>1, <2>1, <3>1
    <3>3. i - 1 \in 1..Len(Tail(s)) /\ Tail(s)[i - 1] = s[i] BY <1>1, <3>2
    <3> QED BY <3>1, <3>3 DEF Has
  <2>2. ASSUME Has(Tail(s), M) PROVE Has(s, M)
    <3>1. PICK i \in 1..Len(Tail(s)) : Tail(s)[i] \in M BY <2>2 DEF Has
    <3> QED BY <1>1, <3>1 DEF Has
  <2> QED BY <1>1, <1>2, <2>1, <2>2 DEF Has
<1>4. ASSUME Once(s, M) PROVE Once(Tail(s), M)
  <2> SUFFICES ASSUME NEW i \in 1..Len(Tail(s)), NEW j \in 1..Len(Tail(s)),
                      Tail(s)[i] \in M, Tail(s)[j] \in M
               PROVE  i = j
    BY DEF Once
  <2>1. i + 1 = j + 1 BY <1>1, <1>4 DEF Once
  <2> QED BY <2>1
<1>5. ASSUME Once(s, M), Head(s) \in M, Has(Tail(s), M) PROVE FALSE
  <2>1. PICK i \in 1..Len(Tail(s)) : Tail(s)[i] \in M BY <1>5 DEF Has
  <2>2. i + 1 = 1 BY <1>1, <1>2, <1>5, <2>1 DEF Once
  <2> QED BY <2>2
<1> QED BY <1>3, <1>4, <1>5
-----------------------------------------------------------------------------
(* Types.                                                                  *)

\* A Conductor that has descriptions has its PeerConnection.
Sound == {c \in Conductor : {c.creating, c.local, c.theirs} # {"none"} => c.pc}

Types ==
    /\ life \in [Process -> {"running", "stopped", "ended", "dead"}]
    /\ readyState \in [Process -> {"CONNECTING", "OPEN", "CLOSING", "CLOSED"}]
    /\ sub \in [Process -> {"loop", "again", "failing", "close", "closing", "done"}]
    /\ callback \in [Process -> BOOLEAN]
    /\ queue \in [Process -> Seq(Message \cup {Exit})]
    /\ signedIn \in [Process -> BOOLEAN]
    /\ conductor \in [Process -> [Process -> Sound]]
    /\ \A p \in Process : sub[p] \in {"again", "failing"} => readyState[p] = "CLOSING"
    /\ up \in [Process -> Seq(Request)]
    /\ down \in [Process -> Seq(Message)]
    /\ room \in BOOLEAN
    /\ member \subseteq Process

LEMMA TypesAreTypeOK == Types <=> TypeOK
<1>1. (conductor \in [Process -> [Process -> Sound]]) <=>
         /\ conductor \in [Process -> [Process -> Conductor]]
         /\ \A p, q \in Process :
                LET c == conductor[p][q]
                IN  {c.creating, c.local, c.theirs} # {"none"} => c.pc
  BY DEF Sound
<1> QED BY <1>1 DEF Types, TypeOK

LEMMA InitTypes == Init => Types
<1> SUFFICES ASSUME Init PROVE Types OBVIOUS
<1>1. NoConductor \in Sound
  BY CandidateAssumption DEF NoConductor, Sound, Conductor, Description
<1>2. conductor \in [Process -> [Process -> Sound]] BY <1>1 DEF Init
<1>3. /\ queue \in [Process -> Seq(Message \cup {Exit})]
      /\ up \in [Process -> Seq(Request)] /\ down \in [Process -> Seq(Message)]
  BY DEF Init
<1> QED BY <1>2, <1>3 DEF Init, Types

\* What a handler posts at the end of queue[p].
LEMMA PostedType ==
  ASSUME NEW p \in Process, NEW messages \in Seq(Message \cup {Exit})
  PROVE  Posted(p, messages) \in Seq(Message \cup {Exit})
BY DEF Posted

LEMMA ExitType ==
  <<Exit>> \in Seq(Message \cup {Exit}) /\ <<>> \in Seq(Message \cup {Exit})
<1>1. \A S : \A x \in S : <<x>> \in Seq(S) /\ <<>> \in Seq(S) OBVIOUS
<1>2. Exit \in Message \cup {Exit} OBVIOUS
<1> QED BY ONLY <1>1, <1>2

LEMMA FailureType ==
  ASSUME NEW p \in Process
  PROVE  ServerConnectionFailure(p) \in Seq(Message \cup {Exit})
BY ExitType DEF ServerConnectionFailure

LEMMA HandledType ==
  ASSUME Types, NEW p \in Process, queue[p] # <<>>,
         NEW messages \in Seq(Message \cup {Exit}), Handled(p, messages)
  PROVE  queue' \in [Process -> Seq(Message \cup {Exit})]
<1>1. Posted(p, messages) \in Seq(Message \cup {Exit}) BY PostedType
<1>2. queue[p] \in Seq(Message \cup {Exit}) BY DEF Types
<1>3. Tail(queue[p]) \in Seq(Message \cup {Exit}) BY <1>2
<1>4. Tail(queue[p]) \o Posted(p, messages) \in Seq(Message \cup {Exit}) BY <1>1, <1>3
<1> QED BY <1>4 DEF Handled, Types

LEMMA SendType ==
  ASSUME Types, NEW p \in Process, NEW request \in Request, Send(p, request)
  PROVE  up' \in [Process -> Seq(Request)]
BY DEF Send, Types

LEMMA DiesType ==
  ASSUME Types, NEW p \in Process, NEW how \in {"ended", "dead"}, Dies(p, how)
  PROVE  Types'
<1>1. NoConductor \in Sound
  BY CandidateAssumption DEF NoConductor, Sound, Conductor, Description
<1>2. conductor' \in [Process -> [Process -> Sound]] BY <1>1 DEF Dies, Types
<1>3. queue' \in [Process -> Seq(Message \cup {Exit})] /\ down' \in [Process -> Seq(Message)]
  BY DEF Dies, Types
<1> QED BY <1>2, <1>3 DEF Dies, Types

LEMMA DeliverType ==
  ASSUME Types, NEW to \in [Process -> Seq(Message)], Deliver(to)
  PROVE  down' \in [Process -> Seq(Message)]
<1>1. \A q \in Process : down[q] \in Seq(Message) /\ to[q] \in Seq(Message) BY DEF Types
<1>2. \A q \in Process : down[q] \o to[q] \in Seq(Message) BY <1>1
<1> QED BY <1>1, <1>2 DEF Deliver

LEMMA InitializedType ==
  ASSUME NEW c \in Sound, NEW d \in InitializePeerConnection(c)
  PROVE  d \in Sound
<1>0. c \in Conductor BY DEF Sound
<1>1. DeletePeerConnection(c) \in Sound
  <2>1. NoConductor \in Conductor
    BY CandidateAssumption DEF NoConductor, Conductor, Description
  <2>2. NoConductor.creating = "none" /\ NoConductor.local = "none" /\ NoConductor.theirs = "none"
    BY DEF NoConductor
  <2> QED BY <1>0, <2>1, <2>2 DEF DeletePeerConnection, Sound, Conductor
<1>2. [c EXCEPT !.pc = TRUE, !.left = MaxCandidate] \in Sound
  <2>1. MaxCandidate \in 0..MaxCandidate BY CandidateAssumption
  <2>2. [c EXCEPT !.pc = TRUE] \in Conductor BY <1>0 DEF Conductor
  <2>3. [c EXCEPT !.pc = TRUE, !.left = MaxCandidate] \in Conductor BY <1>0, <2>1 DEF Conductor
  <2>4. [c EXCEPT !.pc = TRUE, !.left = MaxCandidate].pc BY <1>0 DEF Conductor
  <2> QED BY <2>3, <2>4 DEF Sound
<1> QED BY <1>1, <1>2 DEF InitializePeerConnection

LEMMA ConnectedType ==
  ASSUME NEW p \in Process, NEW c \in Sound, NEW d \in ConnectToPeer(p, c)
  PROVE  d \in Sound
<1>1. CASE p = Server BY <1>1 DEF ConnectToPeer
<1>2. CASE p # Server
  <2>1. PICK e \in InitializePeerConnection(c) :
           d = [e EXCEPT !.creating = IF e.pc THEN "offer" ELSE "none"]
    BY <1>2 DEF ConnectToPeer
  <2>2. e \in Sound BY InitializedType
  <2> QED BY <2>1, <2>2 DEF Sound, Conductor, Description
<1> QED BY <1>1, <1>2

LEMMA AppliedType ==
  ASSUME NEW c \in Sound, c.pc, NEW payload \in Payload
  PROVE  Applied(c, payload) \in Sound
<1>1. CASE payload = "candidate"
  <2>1. Fits(c, payload) => c.added < MaxCandidate BY <1>1 DEF Fits
  <2>2. c.added \in Nat /\ (Fits(c, payload) => c.added + 1 \in 0..MaxCandidate)
    BY <2>1, CandidateAssumption DEF Sound, Conductor
  <2> QED BY <1>1, <2>2 DEF Applied, Sound, Conductor
<1>2. CASE payload # "candidate"
  BY <1>2 DEF Applied, Sound, Conductor, Description, Payload
<1> QED BY <1>1, <1>2

LEMMA HeardType ==
  ASSUME NEW c \in Sound, NEW payload \in Payload, NEW d \in Heard(c, payload)
  PROVE  d \in Sound
<1>1. CASE ~c.pc
  <2>1. PICK e \in InitializePeerConnection(c) : d = IF e.pc THEN Applied(e, payload) ELSE e
    BY <1>1 DEF Heard
  <2> QED BY <2>1, InitializedType, AppliedType
<1>2. CASE c.pc BY <1>2, AppliedType DEF Heard
<1> QED BY <1>1, <1>2 DEF Sound, Conductor

\* Each action keeps the types.
LEMMA SubThreadTypes ==
  ASSUME Types, NEW p \in Process, SubThread(p)
  PROVE  Types'
<1>1. CASE OnOpen(p)
  <2>1. [msgid |-> IF p = Server THEN "CreateRoom" ELSE "SignIn"] \in Request
    BY DEF Request
  <2>2. up' \in [Process -> Seq(Request)] BY <1>1, <2>1 DEF OnOpen, Types
  <2> QED BY <1>1, <2>2 DEF OnOpen, Types
<1>2. CASE OnError(p)
  <2>1. Posted(p, ServerConnectionFailure(p)) \in Seq(Message \cup {Exit})
    BY PostedType, FailureType
  <2>2. queue' \in [Process -> Seq(Message \cup {Exit})]
    BY <1>2, <2>1 DEF OnError, Post, Types
  <2>3. PICK next \in {"close", "again"} : sub' = [sub EXCEPT ![p] = next] BY <1>2 DEF OnError
  <2>4. \A r \in Process : sub'[r] \in {"again", "failing"} => readyState'[r] = "CLOSING"
    BY <1>2, <2>3 DEF OnError, Types
  <2> QED BY <1>2, <2>2, <2>3, <2>4 DEF OnError, Types
<1>3. CASE OnMessage(p)
  <2>1. /\ down[p] \in Seq(Message) /\ down[p] # <<>> /\ queue[p] \in Seq(Message \cup {Exit})
    BY <1>3 DEF OnMessage, Types
  <2>2. Head(down[p]) \in Message \cup {Exit} /\ Tail(down[p]) \in Seq(Message) BY <2>1
  <2>3. <<Head(down[p])>> \in Seq(Message \cup {Exit})
    <3> DEFINE M == Message \cup {Exit}
    <3>1. Head(down[p]) \in M BY <2>2
    <3> HIDE DEF M
    <3>2. <<Head(down[p])>> \in Seq(M) BY <3>1
    <3> QED BY <3>2 DEF M
  <2>4. queue[p] \o Posted(p, <<Head(down[p])>>) \in Seq(Message \cup {Exit})
    <3>1. Posted(p, <<Head(down[p])>>) \in Seq(Message \cup {Exit}) BY <2>3, PostedType
    <3> QED BY <2>1, <3>1
  <2>5. queue' \in [Process -> Seq(Message \cup {Exit})]
    BY <1>3, <2>4 DEF OnMessage, Post, Types
  <2>6. down' \in [Process -> Seq(Message)] BY <1>3, <2>2 DEF OnMessage, Types
  <2> QED BY <1>3, <2>5, <2>6 DEF OnMessage, Types
<1>4. CASE OnClose(p) BY <1>4 DEF OnClose, Types
<1>5. CASE OnDisconnected(p)
  <2>1. CASE Dies(p, "dead") BY <2>1, DiesType
  <2>2. CASE ~Dies(p, "dead") BY <1>5, <2>2 DEF OnDisconnected, Types
  <2> QED BY <2>1, <2>2
<1>6. CASE OnErrorAgain(p) BY <1>6 DEF OnErrorAgain, Types
<1>7. CASE OnServerConnectionFailure(p)
  <2>1. CASE Dies(p, "dead") BY <2>1, DiesType
  <2>2. CASE ~Dies(p, "dead")
    <3>1. Posted(p, <<Exit>>) \in Seq(Message \cup {Exit}) BY PostedType, ExitType
    <3>2. Post(p, <<Exit>>) BY <1>7, <2>2 DEF OnServerConnectionFailure
    <3>3. queue' \in [Process -> Seq(Message \cup {Exit})] BY <3>1, <3>2 DEF Post, Types
    <3>4. PICK next \in {"close", "again"} : sub' = [sub EXCEPT ![p] = next]
      BY <1>7, <2>2 DEF OnServerConnectionFailure
    <3>5. UNCHANGED <<life, readyState, callback, signedIn, conductor, up, down, room, member>>
      BY <1>7, <2>2 DEF OnServerConnectionFailure
    <3>6. \A r \in Process : sub'[r] \in {"again", "failing"} => readyState'[r] = "CLOSING"
      BY <1>7, <3>4, <3>5 DEF OnServerConnectionFailure, Types
    <3> QED BY <3>3, <3>4, <3>5, <3>6 DEF Types
  <2> QED BY <2>1, <2>2
<1> QED BY <1>1, <1>2, <1>3, <1>4, <1>5, <1>6, <1>7 DEF SubThread

\* conductor is changed at one place, and nothing else but the queue is.
LEMMA ConductorTypes ==
  ASSUME Types, NEW p \in Process, NEW q \in Process, NEW c \in Sound,
         NEW messages \in Seq(Message \cup {Exit}), queue[p] # <<>>, Handled(p, messages),
         conductor' = [conductor EXCEPT ![p][q] = c],
         UNCHANGED <<life, readyState, sub, callback, signedIn, up, down, room, member>>
  PROVE  Types'
<1>1. conductor' \in [Process -> [Process -> Sound]] BY DEF Types
<1> QED BY <1>1, HandledType DEF Types

LEMMA MessageTypes ==
  ASSUME Types, NEW p \in Process, queue[p] # <<>>
  PROVE  /\ Head(queue[p]) \in Message \cup {Exit}
         /\ Head(queue[p]).msgid \in {"PeerConnected", "PeerDisconnected", "ReceivedOffer"}
               => Head(queue[p]).peer \in Process
         /\ Head(queue[p]).msgid = "ReceivedOffer" => Head(queue[p]).payload \in Payload
<1>1. queue[p] \in Seq(Message \cup {Exit}) BY DEF Types
<1>2. Head(queue[p]) \in Message \cup {Exit} BY <1>1
<1> DEFINE m == Head(queue[p])
<1> HIDE DEF m
<1>3. m \in Message \cup {Exit} BY <1>2 DEF m
<1>4. /\ m.msgid \in {"PeerConnected", "PeerDisconnected", "ReceivedOffer"} => m.peer \in Process
      /\ m.msgid = "ReceivedOffer" => m.payload \in Payload
  BY <1>3 DEF Message, Exit
<1> QED BY <1>3, <1>4 DEF m

LEMMA SignalThreadTypes ==
  ASSUME Types, NEW p \in Process, SignalThread(p)
  PROVE  Types'
<1>0. <<>> \in Seq(Message \cup {Exit}) /\ ServerConnectionFailure(p) \in Seq(Message \cup {Exit})
  BY FailureType
<1>1. CASE OnCreatedRoom(p)
  <2>1. queue' \in [Process -> Seq(Message \cup {Exit})]
    BY <1>0, <1>1, HandledType DEF OnCreatedRoom, Taken
  <2>2. [msgid |-> "SignIn"] \in Request BY DEF Request
  <2>3. up' \in [Process -> Seq(Request)]
    <3>1. CASE up' = up BY <3>1 DEF Types
    <3>2. CASE Send(p, [msgid |-> "SignIn"]) BY <2>2, <3>2, SendType
    <3> QED BY <1>1, <3>1, <3>2 DEF OnCreatedRoom
  <2> QED BY <1>1, <2>1, <2>3 DEF OnCreatedRoom, Types
<1>2. CASE OnSignedIn(p)
  <2>1. queue' \in [Process -> Seq(Message \cup {Exit})]
    BY <1>0, <1>2, HandledType DEF OnSignedIn, Taken
  <2>2. signedIn' \in [Process -> BOOLEAN] BY <1>2 DEF OnSignedIn, Types
  <2> QED BY <1>2, <2>1, <2>2 DEF OnSignedIn, Types
<1>3. CASE OnPeerConnected(p)
  <2> DEFINE q == Head(queue[p]).peer
             new == [NoConductor EXCEPT !.kept = TRUE, !.remote = TRUE]
             first == callback[p] /\ ~conductor[p][q].kept
  <2>1. queue[p] # <<>> /\ q \in Process BY <1>3, MessageTypes DEF OnPeerConnected, Taken
  <2>2. new \in Sound
    <3>1. NoConductor \in Conductor
      BY CandidateAssumption DEF NoConductor, Conductor, Description
    <3>2. NoConductor.creating = "none" /\ NoConductor.local = "none" /\ NoConductor.theirs = "none"
      BY DEF NoConductor
    <3> QED BY <3>1, <3>2 DEF Sound, Conductor
  <2> HIDE DEF new, q
  <2>3. \A c \in (IF first THEN ConnectToPeer(p, new) ELSE {conductor[p][q]}) : c \in Sound
    BY <2>1, <2>2, ConnectedType DEF Types
  <2>4. CASE InitializationCrashes(p) BY <2>4, DiesType DEF InitializationCrashes
  <2>5. CASE ~InitializationCrashes(p)
    <3>1. PICK c \in (IF first THEN ConnectToPeer(p, new) ELSE {conductor[p][q]}) :
             conductor' = [conductor EXCEPT ![p][q] = c]
      BY <1>3, <2>5 DEF OnPeerConnected, new, q
    <3>2. /\ Handled(p, <<>>)
          /\ UNCHANGED <<life, readyState, sub, callback, signedIn, up, down, room, member>>
      BY <1>3, <2>5 DEF OnPeerConnected
    <3> QED BY <1>0, <2>1, <2>3, <3>1, <3>2, ConductorTypes
  <2> QED BY <2>4, <2>5
<1>4. CASE OnPeerDisconnected(p)
  <2> DEFINE q == Head(queue[p]).peer
  <2>1. queue[p] # <<>> /\ q \in Process BY <1>4, MessageTypes DEF OnPeerDisconnected, Taken
  <2>2. \A c \in Sound : Erased(p, c) \in Sound
    <3>1. NoConductor \in Sound
      BY CandidateAssumption DEF NoConductor, Sound, Conductor, Description
    <3>2. \A c \in Sound : [c EXCEPT !.kept = FALSE] \in Sound BY DEF Sound, Conductor
    <3> QED BY <3>1, <3>2 DEF Erased
  <2>3. <<Exit>> \in Seq(Message \cup {Exit}) BY ExitType
  <2> HIDE DEF q
  <2>4. conductor[p][q] \in Sound BY <2>1 DEF Types
  <2>5. CASE callback[p]
    <3>1. conductor' = [conductor EXCEPT ![p][q] = Erased(p, conductor[p][q])]
      BY <1>4, <2>5 DEF OnPeerDisconnected, q
    <3>2. \/ Handled(p, <<Exit>>)
          \/ Handled(p, <<>>)
      BY <1>4, <2>5 DEF OnPeerDisconnected
    <3>3. UNCHANGED <<life, readyState, sub, callback, signedIn, up, down, room, member>>
      BY <1>4 DEF OnPeerDisconnected
    <3>4. Erased(p, conductor[p][q]) \in Sound BY <2>2, <2>4
    <3> QED BY <1>0, <2>1, <2>3, <3>1, <3>2, <3>3, <3>4, ConductorTypes
  <2>6. CASE ~callback[p]
    <3>1. Handled(p, <<>>) BY <1>4, <2>6 DEF OnPeerDisconnected
    <3>2. queue' \in [Process -> Seq(Message \cup {Exit})] BY <1>0, <2>1, <3>1, HandledType
    <3> QED BY <1>4, <2>6, <3>2 DEF OnPeerDisconnected, Types
  <2> QED BY <2>5, <2>6
<1>5. CASE OnReceivedOffer(p)
  <2> DEFINE q == Head(queue[p]).peer
             payload == Head(queue[p]).payload
             known == callback[p] /\ conductor[p][q].kept
             outcome == IF known THEN Heard(conductor[p][q], payload) ELSE {conductor[p][q]}
  <2>1. queue[p] # <<>> /\ q \in Process /\ payload \in Payload
    BY <1>5, MessageTypes DEF OnReceivedOffer, Taken
  <2> HIDE DEF q, payload
  <2>2. \A c \in outcome : c \in Sound BY <2>1, HeardType DEF Types
  <2>3. CASE InitializationCrashes(p) BY <2>3, DiesType DEF InitializationCrashes
  <2>4. CASE ~InitializationCrashes(p)
    <3>1. PICK c \in outcome : conductor' = [conductor EXCEPT ![p][q] = c]
      BY <1>5, <2>4 DEF OnReceivedOffer, q, payload
    <3>2. /\ Handled(p, <<>>)
          /\ UNCHANGED <<life, readyState, sub, callback, signedIn, up, down, room, member>>
      BY <1>5, <2>4 DEF OnReceivedOffer
    <3> QED BY <1>0, <2>1, <2>2, <3>1, <3>2, ConductorTypes
  <2> QED BY <2>3, <2>4
<1>6. CASE OnExit(p)
  <2>1. queue' \in [Process -> Seq(Message \cup {Exit})]
    BY <1>0, <1>6, HandledType DEF OnExit, Taken
  <2> QED BY <1>6, <2>1 DEF OnExit, Types
<1>7. CASE End(p) BY <1>7, DiesType DEF End
<1> QED BY <1>1, <1>2, <1>3, <1>4, <1>5, <1>6, <1>7 DEF SignalThread

LEMMA NegotiationTypes ==
  ASSUME Types, NEW p \in Process, Negotiation(p)
  PROVE  Types'
<1>1. PICK q \in Process : OnSuccess(p, q) \/ OnFailure(p, q) \/ OnIceCandidate(p, q)
  BY DEF Negotiation
<1> DEFINE c == conductor[p][q]
<1>2. c \in Sound BY DEF Types
<1>3. \A payload \in Payload : SendOffer(p, q, payload) => up' \in [Process -> Seq(Request)]
  <2> SUFFICES ASSUME NEW payload \in Payload, SendOffer(p, q, payload)
               PROVE  up' \in [Process -> Seq(Request)]
    OBVIOUS
  <2>1. [msgid |-> "SendOffer", peer |-> q, payload |-> payload] \in Request BY DEF Request
  <2> QED BY <2>1, SendType DEF SendOffer, Types
<1>4. CASE OnSuccess(p, q)
  <2>1. c.creating \in Payload BY <1>2, <1>4 DEF OnSuccess, Sound, Conductor, Description, Payload
  <2>2. up' \in [Process -> Seq(Request)] BY <1>3, <1>4, <2>1 DEF OnSuccess
  <2>3. NoConductor \in Sound
    BY CandidateAssumption DEF NoConductor, Sound, Conductor, Description
  <2>4. [c EXCEPT !.creating = "none", !.local = c.creating] \in Sound
    <3> HIDE DEF c
    <3>1. c.pc BY <1>2, <1>4 DEF OnSuccess, Sound, c
    <3> QED BY <1>2, <3>1 DEF Sound, Conductor, Description
  <2>5. conductor' \in [Process -> [Process -> Sound]]
    BY <1>4, <2>3, <2>4 DEF OnSuccess, Types
  <2> QED BY <1>4, <2>2, <2>5 DEF OnSuccess, Types
<1>5. CASE OnIceCandidate(p, q)
  <2>1. up' \in [Process -> Seq(Request)] BY <1>3, <1>5 DEF OnIceCandidate, Payload
  <2>2. [c EXCEPT !.left = c.left - 1] \in Sound
    <3>0. c.left > 0 BY <1>5 DEF OnIceCandidate
    <3> HIDE DEF c
    <3>1. c.left - 1 \in 0..MaxCandidate
      BY <1>2, <3>0, CandidateAssumption DEF Sound, Conductor
    <3> QED BY <1>2, <3>1 DEF Sound, Conductor
  <2>3. conductor' = [conductor EXCEPT ![p][q] = [c EXCEPT !.left = c.left - 1]]
    BY <1>5 DEF OnIceCandidate, Types
  <2>4. conductor' \in [Process -> [Process -> Sound]] BY <2>2, <2>3 DEF Types
  <2> QED BY <1>5, <2>1, <2>4 DEF OnIceCandidate, Types
<1>6. CASE OnFailure(p, q)
  <2>1. NoConductor \in Sound
    BY CandidateAssumption DEF NoConductor, Sound, Conductor, Description
  <2>2. [c EXCEPT !.creating = "none", !.failed = TRUE] \in Sound
    <3> HIDE DEF c
    <3> QED BY <1>2 DEF Sound, Conductor, Description
  <2>3. conductor' \in [Process -> [Process -> Sound]]
    BY <1>6, <2>1, <2>2 DEF OnFailure, Types
  <2> QED BY <1>6, <2>3 DEF OnFailure, Types
<1> QED BY <1>1, <1>4, <1>5, <1>6

\* The signal server's sequence of a finite set has its elements.
LEMMA SetToSeqType ==
  ASSUME NEW S, IsFiniteSet(S)
  PROVE  SetToSeq(S) \in [1..Cardinality(S) -> S] /\ Cardinality(S) \in Nat
<1>1. Cardinality(S) \in Nat /\ ExistsBijection(1..Cardinality(S), S) BY FS_CardinalityType
<1>2. PICK f \in [1..Cardinality(S) -> S] : IsInjective(f)
  BY <1>1 DEF ExistsBijection, Bijection, Injection
<1> QED BY <1>1, <1>2 DEF SetToSeq

LEMMA ProcessFinite == IsFiniteSet(Process)
BY ClientAssumption, FS_AddElement DEF Process

\* What the signal server tells a process that signs in: its partners.
Told(p) == [q \in 1..Cardinality(Partners(p)) |->
                [msgid |-> "PeerConnected", peer |-> SetToSeq(Partners(p))[q]]]

LEMMA ToldType ==
  ASSUME Types, NEW p \in Process
  PROVE  /\ Told(p) \in Seq(Message)
         /\ \A i \in 1..Len(Told(p)) : \E q \in Partners(p) :
                Told(p)[i] = [msgid |-> "PeerConnected", peer |-> q]
<1>1. Partners(p) \subseteq Process BY DEF Partners, Types
<1>2. IsFiniteSet(Partners(p)) BY <1>1, ProcessFinite, FS_Subset
<1> DEFINE n == Cardinality(Partners(p))
           f == SetToSeq(Partners(p))
<1>3. f \in [1..n -> Partners(p)] /\ n \in Nat BY <1>2, SetToSeqType
<1>4. Told(p) = [i \in 1..n |-> [msgid |-> "PeerConnected", peer |-> f[i]]] BY DEF Told
<1> HIDE DEF n, f
<1>5. \A i \in 1..n : f[i] \in Partners(p) /\ [msgid |-> "PeerConnected", peer |-> f[i]] \in Message
  BY <1>1, <1>3 DEF Message
<1>6. Told(p) \in Seq(Message) /\ Len(Told(p)) = n BY <1>3, <1>4, <1>5
<1> QED BY <1>4, <1>5, <1>6

\* What each process is sent when p signs in, or has gone.
Welcome(p) ==
    [q \in Process |->
        IF q = p THEN <<[msgid |-> "SignIn", successful |-> TRUE]>> \o Told(p)
        ELSE IF q \in Partners(p) THEN <<[msgid |-> "PeerConnected", peer |-> p]>>
        ELSE <<>>]

Farewell(p) ==
    [q \in Process |-> IF p \in member /\ q \in Partners(p)
                       THEN <<[msgid |-> "PeerDisconnected", peer |-> p]>> ELSE <<>>]

LEMMA OneMessage == ASSUME NEW m \in Message PROVE <<m>> \in Seq(Message) /\ <<>> \in Seq(Message)
OBVIOUS

LEMMA WelcomeType ==
  ASSUME Types, NEW p \in Process
  PROVE  Welcome(p) \in [Process -> Seq(Message)]
<1>1. [msgid |-> "SignIn", successful |-> TRUE] \in Message
      /\ [msgid |-> "PeerConnected", peer |-> p] \in Message
  BY DEF Message
<1>2. /\ <<[msgid |-> "SignIn", successful |-> TRUE]>> \in Seq(Message)
      /\ <<[msgid |-> "PeerConnected", peer |-> p]>> \in Seq(Message) /\ <<>> \in Seq(Message)
  BY <1>1, OneMessage
<1>3. <<[msgid |-> "SignIn", successful |-> TRUE]>> \o Told(p) \in Seq(Message)
  BY <1>2, ToldType
<1> QED BY <1>2, <1>3 DEF Welcome

LEMMA FarewellType ==
  ASSUME NEW p \in Process
  PROVE  Farewell(p) \in [Process -> Seq(Message)]
<1>1. [msgid |-> "PeerDisconnected", peer |-> p] \in Message BY DEF Message
<1> QED BY <1>1, OneMessage DEF Farewell

LEMMA ReplyType ==
  ASSUME Types, NEW p \in Process, NEW m \in Message, Reply(p, m)
  PROVE  down' \in [Process -> Seq(Message)]
<1> DEFINE to == [q \in Process |-> IF q = p THEN <<m>> ELSE <<>>]
<1>1. to \in [Process -> Seq(Message)] BY OneMessage
<1>2. Deliver(to) BY DEF Reply
<1> HIDE DEF to
<1> QED BY <1>1, <1>2, DeliverType

LEMMA SignalServerTypes ==
  ASSUME Types, NEW p \in Process, SignalServer(p) \/ Leave(p)
  PROVE  Types'
<1>0. up[p] # <<>> => [up EXCEPT ![p] = Tail(@)] \in [Process -> Seq(Request)]
  BY DEF Types
<1>1. CASE CreateRoom(p)
  <2>1. PICK ok \in BOOLEAN : /\ room' = (room \/ ok)
                              /\ Reply(p, [msgid |-> "CreateRoom", successful |-> ok])
    BY <1>1 DEF CreateRoom
  <2>2. [msgid |-> "CreateRoom", successful |-> ok] \in Message BY DEF Message
  <2>3. down' \in [Process -> Seq(Message)] BY <2>1, <2>2, ReplyType
  <2> QED BY <1>0, <1>1, <2>1, <2>3 DEF CreateRoom, Types
<1>2. CASE SignIn(p)
  <2>1. [msgid |-> "SignIn", successful |-> FALSE] \in Message BY DEF Message
  <2>2. \/ member' = member \cup {p} /\ Deliver(Welcome(p))
        \/ member' = member /\ Reply(p, [msgid |-> "SignIn", successful |-> FALSE])
    BY <1>2 DEF SignIn, Welcome, Told
  <2>3. down' \in [Process -> Seq(Message)] /\ member' \subseteq Process
    BY <2>1, <2>2, ReplyType, WelcomeType, DeliverType DEF Types
  <2> QED BY <1>0, <1>2, <2>3 DEF SignIn, Types
<1>3. CASE Relay(p)
  <2> DEFINE m == Head(up[p])
             answer == [msgid |-> "ReceivedOffer", peer |-> p, payload |-> m.payload]
             to == [q \in Process |-> IF q = m.peer THEN <<answer>> ELSE <<>>]
  <2>1. m \in Request /\ m.msgid = "SendOffer" BY <1>3 DEF Relay, Types
  <2>2. m.payload \in Payload
    <3> HIDE DEF m
    <3> QED BY <2>1 DEF Request
  <2> HIDE DEF m
  <2>3. answer \in Message BY <2>2 DEF Message
  <2>4. to \in [Process -> Seq(Message)] BY <2>3, OneMessage
  <2>5. Deliver(to) \/ down' = down BY <1>3 DEF Relay, m
  <2>6. down' \in [Process -> Seq(Message)]
    <3> HIDE DEF to
    <3> QED BY <2>4, <2>5, DeliverType DEF Types
  <2> QED BY <1>0, <1>3, <2>6 DEF Relay, Types
<1>4. CASE Leave(p)
  <2>1. Deliver(Farewell(p)) BY <1>4 DEF Leave, Farewell
  <2>2. down' \in [Process -> Seq(Message)] BY <2>1, FarewellType, DeliverType
  <2>3. up' \in [Process -> Seq(Request)] /\ room' \in BOOLEAN /\ member' \subseteq Process
    BY <1>4 DEF Leave, Types
  <2> QED BY <1>4, <2>2, <2>3 DEF Leave, Types
<1> QED BY <1>1, <1>2, <1>3, <1>4 DEF SignalServer

LEMMA NextTypes == Types /\ [Next]_vars => Types'
<1> SUFFICES ASSUME Types, [Next]_vars PROVE Types' OBVIOUS
<1>1. ASSUME NEW p \in Process, Lost(p) PROVE Types'
  BY <1>1 DEF Lost, Types
<1>2. ASSUME NEW p \in Process, Killed(p) PROVE Types'
  BY <1>2, DiesType DEF Killed
<1>3. CASE UNCHANGED vars BY <1>3 DEF vars, Types
<1> QED BY <1>1, <1>2, <1>3, SubThreadTypes, SignalThreadTypes, NegotiationTypes,
           SignalServerTypes DEF Next
-----------------------------------------------------------------------------
(* One fate.                                                               *)

\* The requests on whose answer a process's joining depends.
Joining == [msgid : {"CreateRoom", "SignIn"}]

\* What makes p exit, or be refused, when its signal thread comes to it: each
\* process meets at most one of these at a time.
Fate(p) ==
    {Exit} \cup {m \in Message : \/ m.msgid = "CreateRoom"
                                 \/ m.msgid = "SignIn" /\ ~m.successful
                                 \/ m.msgid = "PeerDisconnected" /\ p # Server}

Rooms == {m \in Message : m.msgid = "CreateRoom"}

Fated(p) == Has(queue[p], Fate(p)) \/ Has(down[p], Fate(p))

\* p has left the room for good.
Away(p) ==
    readyState[p] \in {"CLOSING", "CLOSED"} /\ p \notin member /\ ~Has(up[p], Joining)

\* An observer is there as long as the thread runs; what can still seal p's
\* fate is its first connecting, one request or one message, and once that
\* message is there, nothing can bring another.  Only a connect that failed may
\* be reported more than once, while the WebSocket is CLOSING.
Fates(p) ==
    /\ callback[p] <=> life[p] = "running"
    /\ ~callback[p] /\ readyState[p] # "CLOSING" => ~Has(queue[p], {Exit})
    /\ readyState[p] = "CLOSING" =>
           p \notin member /\ ~Has(up[p], Joining) /\ ~Has(down[p], Fate(p))
    /\ readyState[p] = "CONNECTING" => p \notin member /\ ~Has(up[p], Joining) /\ ~Fated(p)
    /\ Once(up[p], Joining)
    /\ Has(up[p], Joining) => p \notin member /\ ~Fated(p)
    /\ (readyState[p] # "CLOSING" => Once(queue[p], Fate(p))) /\ Once(down[p], Fate(p))
    /\ ~(Has(queue[p], Fate(p)) /\ Has(down[p], Fate(p)))
    /\ Has(queue[p], Rooms) \/ Has(down[p], Rooms) => p \notin member
    /\ Fated(p) => p \notin member \/ (p # Server /\ Away(Server))

OneFate == \A p \in Process : Fates(p)

LEMMA FateFacts ==
  ASSUME NEW p \in Process
  PROVE  /\ Exit \in Fate(p) /\ Exit \notin Message /\ Exit \notin Rooms
         /\ Rooms \subseteq Fate(p)
         /\ \A q : /\ [msgid |-> "PeerConnected", peer |-> q] \notin Fate(p)
                   /\ \A payload : [msgid |-> "ReceivedOffer", peer |-> q, payload |-> payload]
                                       \notin Fate(p)
         /\ [msgid |-> "SignIn", successful |-> TRUE] \notin Fate(p)
         /\ \A q : [msgid |-> "PeerDisconnected", peer |-> q] \in Fate(p) => p # Server
         /\ \A q : [msgid |-> "PeerDisconnected", peer |-> q] \notin Rooms
         /\ \A b : [msgid |-> "SignIn", successful |-> b] \notin Rooms
<1>1. \A m \in Message :
         /\ m.msgid \in {"CreateRoom", "SignIn", "PeerConnected", "PeerDisconnected", "ReceivedOffer"}
  BY DEF Message
<1>2. Exit.msgid = "Exit" BY DEF Exit
<1>3. Exit \notin Message BY <1>1, <1>2
<1>4. Exit \in Fate(p) /\ Exit \notin Rooms /\ Rooms \subseteq Fate(p)
  BY <1>3 DEF Fate, Rooms
<1>5. \A m : m.msgid \notin {"Exit", "CreateRoom", "SignIn", "PeerDisconnected"} => m \notin Fate(p)
  BY <1>2 DEF Fate
<1>6. \A m : m.msgid = "SignIn" /\ m.successful => m \notin Fate(p)
  BY <1>2 DEF Fate
<1>7. \A m : m.msgid = "PeerDisconnected" /\ m \in Fate(p) => p # Server
  BY <1>2 DEF Fate
<1>8. \A m : m.msgid # "CreateRoom" => m \notin Rooms
  BY DEF Rooms
<1>9. ASSUME NEW q
      PROVE  /\ [msgid |-> "PeerConnected", peer |-> q].msgid = "PeerConnected"
             /\ [msgid |-> "PeerDisconnected", peer |-> q].msgid = "PeerDisconnected"
             /\ [msgid |-> "SignIn", successful |-> q].msgid = "SignIn"
             /\ [msgid |-> "SignIn", successful |-> q].successful = q
             /\ \A payload :
                   [msgid |-> "ReceivedOffer", peer |-> q, payload |-> payload].msgid = "ReceivedOffer"
  OBVIOUS
<1>10. \A q : [msgid |-> "PeerConnected", peer |-> q] \notin Fate(p) BY <1>5, <1>9
<1>11. \A q, payload : [msgid |-> "ReceivedOffer", peer |-> q, payload |-> payload] \notin Fate(p)
  BY <1>5, <1>9
<1>12. \A q : [msgid |-> "PeerDisconnected", peer |-> q] \in Fate(p) => p # Server BY <1>7, <1>9
<1>13. [msgid |-> "SignIn", successful |-> TRUE] \notin Fate(p) BY <1>6, <1>9
<1>14. \A q : [msgid |-> "PeerDisconnected", peer |-> q] \notin Rooms BY <1>8, <1>9
<1>15. \A b : [msgid |-> "SignIn", successful |-> b] \notin Rooms BY <1>8, <1>9
<1> QED BY <1>3, <1>4, <1>10, <1>11, <1>12, <1>13, <1>14, <1>15

LEMMA InitFates == Init => OneFate
<1> SUFFICES ASSUME Init, NEW p \in Process PROVE Fates(p) BY DEF OneFate
<1>1. /\ life[p] = "running" /\ callback[p] = TRUE /\ queue[p] = <<>> /\ up[p] = <<>>
      /\ down[p] = <<>> /\ member = {}
  BY DEF Init
<1>2. /\ ~Has(queue[p], {Exit}) /\ ~Has(queue[p], Fate(p)) /\ ~Has(down[p], Fate(p))
      /\ ~Has(queue[p], Rooms) /\ ~Has(down[p], Rooms) /\ ~Has(up[p], Joining)
      /\ Once(up[p], Joining) /\ Once(queue[p], Fate(p)) /\ Once(down[p], Fate(p))
  BY <1>1, HasNone
<1> QED BY <1>1, <1>2 DEF Fates, Fated

\* Nothing that Fates(r) speaks of has changed, but for the server's leaving.
Untouched(r) ==
    /\ life'[r] = life[r] /\ callback'[r] = callback[r] /\ readyState'[r] = readyState[r]
    /\ queue'[r] = queue[r] /\ up'[r] = up[r] /\ down'[r] = down[r]
    /\ (r \in member') <=> (r \in member)

LEMMA FatesSame ==
  ASSUME NEW r \in Process, Fates(r), Untouched(r), Away(Server) => Away(Server)'
  PROVE  Fates(r)'
BY DEF Fates, Fated, Untouched

\* A queue whose head is handled, with x posted behind it.
LEMMA HandledHas ==
  ASSUME Types, NEW p \in Process, queue[p] # <<>>, NEW messages \in Seq(Message \cup {Exit}),
         Handled(p, messages), NEW M
  PROVE  /\ Has(queue'[p], M) <=> Has(Tail(queue[p]), M) \/ Has(Posted(p, messages), M)
         /\ Once(queue[p], M) /\ ~Has(Posted(p, messages), M) => Once(queue'[p], M)
         /\ ~Has(Tail(queue[p]), M) /\ Once(Posted(p, messages), M) => Once(queue'[p], M)
         /\ Has(queue[p], M) <=> Head(queue[p]) \in M \/ Has(Tail(queue[p]), M)
         /\ Once(queue[p], M) /\ Head(queue[p]) \in M => ~Has(Tail(queue[p]), M)
         /\ \A r \in Process : r # p => queue'[r] = queue[r]
<1> DEFINE T == Message \cup {Exit}
<1>1. queue \in [Process -> Seq(T)] BY DEF Types
<1> HIDE DEF T
<1>2. queue[p] \in Seq(T) /\ Tail(queue[p]) \in Seq(T) BY <1>1
<1>3. Posted(p, messages) \in Seq(T) BY PostedType DEF T
<1>4. /\ queue'[p] = Tail(queue[p]) \o Posted(p, messages)
      /\ \A r \in Process : r # p => queue'[r] = queue[r]
  BY <1>1 DEF Handled
<1>5. /\ Has(queue'[p], M) <=> Has(Tail(queue[p]), M) \/ Has(Posted(p, messages), M)
      /\ Once(Tail(queue[p]), M) /\ ~Has(Posted(p, messages), M) => Once(queue'[p], M)
      /\ ~Has(Tail(queue[p]), M) /\ Once(Posted(p, messages), M) => Once(queue'[p], M)
  <2> DEFINE s == Tail(queue[p])
             t == Posted(p, messages)
  <2>1. s \in Seq(T) /\ t \in Seq(T) /\ queue'[p] = s \o t BY <1>2, <1>3, <1>4
  <2> HIDE DEF s, t
  <2>2. /\ Has(s \o t, M) <=> Has(s, M) \/ Has(t, M)
        /\ Once(s, M) /\ ~Has(t, M) => Once(s \o t, M)
        /\ ~Has(s, M) /\ Once(t, M) => Once(s \o t, M)
    BY ONLY <2>1, ConcatHas
  <2> QED BY <2>1, <2>2 DEF s, t
<1>6. /\ Has(queue[p], M) <=> Head(queue[p]) \in M \/ Has(Tail(queue[p]), M)
      /\ Once(queue[p], M) => Once(Tail(queue[p]), M)
      /\ Once(queue[p], M) /\ Head(queue[p]) \in M => ~Has(Tail(queue[p]), M)
  BY <1>2, TailHas
<1> QED BY <1>4, <1>5, <1>6

LEMMA DeliverHas ==
  ASSUME Types, NEW to \in [Process -> Seq(Message)], Deliver(to), NEW r \in Process, NEW M
  PROVE  /\ readyState[r] # "OPEN" => down'[r] = down[r]
         /\ Has(down'[r], M) => Has(down[r], M) \/ (readyState[r] = "OPEN" /\ Has(to[r], M))
         /\ Has(down[r], M) => Has(down'[r], M)
         /\ readyState[r] = "OPEN" /\ Has(to[r], M) => Has(down'[r], M)
         /\ Once(down[r], M) /\ ~Has(to[r], M) => Once(down'[r], M)
         /\ Once(down[r], M) /\ ~Has(down[r], M) /\ Once(to[r], M) => Once(down'[r], M)
<1>1. down[r] \in Seq(Message) /\ to[r] \in Seq(Message) BY DEF Types
<1>2. down'[r] = IF readyState[r] = "OPEN" THEN down[r] \o to[r] ELSE down[r] BY DEF Deliver
<1> QED BY <1>1, <1>2, ConcatHas

\* A request behind the others.
LEMMA AppendHas ==
  ASSUME Types, NEW p \in Process, NEW request \in Request, NEW M
  PROVE  /\ Has(Append(up[p], request), M) <=> Has(up[p], M) \/ request \in M
         /\ ~Has(up[p], M) => Once(Append(up[p], request), M)
         /\ Once(up[p], M) /\ request \notin M => Once(Append(up[p], request), M)
<1>1. up[p] \in Seq(Request) /\ <<request>> \in Seq(Request) BY DEF Types
<1>2. Append(up[p], request) = up[p] \o <<request>> BY <1>1
<1> DEFINE s == up[p]
           t == <<request>>
<1>3. s \in Seq(Request) /\ t \in Seq(Request) BY <1>1
<1>4. (Has(t, M) <=> request \in M) /\ Once(t, M) BY HasOne
<1> HIDE DEF s, t
<1>5. /\ Has(s \o t, M) <=> Has(s, M) \/ Has(t, M)
      /\ Once(s, M) /\ ~Has(t, M) => Once(s \o t, M)
      /\ ~Has(s, M) /\ Once(t, M) => Once(s \o t, M)
  BY ONLY <1>3, ConcatHas
<1> QED BY <1>2, <1>4, <1>5 DEF s, t

LEMMA SendHas ==
  ASSUME Types, NEW p \in Process, NEW request \in Request, Send(p, request)
  PROVE  /\ up'[p] = up[p] \/ (readyState[p] = "OPEN" /\ up'[p] = Append(up[p], request))
         /\ \A r \in Process : r # p => up'[r] = up[r]
BY DEF Send, Types

LEMMA DoneHas ==
  ASSUME Types, NEW p \in Process, up[p] # <<>>, up' = [up EXCEPT ![p] = Tail(@)], NEW M
  PROVE  /\ \A r \in Process : r # p => up'[r] = up[r]
         /\ Has(up[p], M) <=> Head(up[p]) \in M \/ Has(up'[p], M)
         /\ Once(up[p], M) => Once(up'[p], M)
         /\ Once(up[p], M) /\ Head(up[p]) \in M => ~Has(up'[p], M)
<1>1. up[p] \in Seq(Request) /\ up'[p] = Tail(up[p]) /\ \A r \in Process : r # p => up'[r] = up[r]
  BY DEF Types
<1> QED BY <1>1, TailHas

\* A queue with messages posted to it.
LEMMA PostHas ==
  ASSUME Types, NEW p \in Process, NEW messages \in Seq(Message \cup {Exit}),
         Post(p, messages), NEW M
  PROVE  /\ Has(queue'[p], M) <=> Has(queue[p], M) \/ Has(Posted(p, messages), M)
         /\ Once(queue[p], M) /\ ~Has(Posted(p, messages), M) => Once(queue'[p], M)
         /\ ~Has(queue[p], M) /\ Once(Posted(p, messages), M) => Once(queue'[p], M)
         /\ \A r \in Process : r # p => queue'[r] = queue[r]
<1> DEFINE T == Message \cup {Exit}
           s == queue[p]
           t == Posted(p, messages)
<1>1. queue \in [Process -> Seq(T)] BY DEF Types
<1>2. s \in Seq(T) /\ t \in Seq(T) BY <1>1, PostedType
<1> HIDE DEF T
<1>3. queue'[p] = s \o t /\ \A r \in Process : r # p => queue'[r] = queue[r]
  BY <1>1 DEF Post
<1> HIDE DEF s, t
<1>4. /\ Has(s \o t, M) <=> Has(s, M) \/ Has(t, M)
      /\ Once(s, M) /\ ~Has(t, M) => Once(s \o t, M)
      /\ ~Has(s, M) /\ Once(t, M) => Once(s \o t, M)
  BY ONLY <1>2, ConcatHas
<1> QED BY <1>3, <1>4 DEF s, t

\* What has left the room for good stays away.
LEMMA AwayStays ==
  ASSUME Types, Next, NEW r \in Process, Away(r)
  PROVE  Away(r)'
<1>1. PICK p \in Process :
         \/ SubThread(p) \/ SignalThread(p) \/ Negotiation(p)
         \/ SignalServer(p) \/ Leave(p) \/ Lost(p) \/ Killed(p)
  BY DEF Next
<1>2. readyState[r] # "OPEN" /\ readyState[r] # "CONNECTING" BY DEF Away
<1>3. ASSUME UNCHANGED readyState, UNCHANGED up, UNCHANGED member PROVE Away(r)'
  BY <1>3 DEF Away
<1>4. ASSUME NEW how \in {"ended", "dead"}, Dies(p, how) PROVE Away(r)'
  <2>1. readyState'[r] \in {"CLOSING", "CLOSED"} BY <1>4 DEF Dies, Away, Types
  <2> QED BY <1>4, <2>1 DEF Dies, Away
<1>5. ASSUME NEW request \in Request, Send(p, request), UNCHANGED readyState, UNCHANGED member
      PROVE  Away(r)'
  <2>1. up'[r] = up[r] BY <1>2, <1>5, SendHas
  <2> QED BY <1>5, <2>1 DEF Away
<1>6. CASE SubThread(p)
  <2>1. CASE OnOpen(p) \/ OnError(p)
    <3>1. p # r BY <1>2, <2>1 DEF OnOpen, OnError
    <3>2. readyState'[r] = readyState[r] /\ up'[r] = up[r] /\ member' = member
      BY <2>1, <3>1 DEF OnOpen, OnError, Types
    <3> QED BY <3>2 DEF Away
  <2>2. CASE OnMessage(p) \/ OnClose(p) \/ OnErrorAgain(p)
    BY <1>3, <2>2 DEF OnMessage, OnClose, OnErrorAgain
  <2>3. CASE OnDisconnected(p) \/ OnServerConnectionFailure(p)
    BY <1>3, <1>4, <2>3 DEF OnDisconnected, OnServerConnectionFailure
  <2> QED BY <1>6, <2>1, <2>2, <2>3 DEF SubThread
<1>7. CASE SignalThread(p)
  <2>1. CASE OnCreatedRoom(p)
    <3>1. [msgid |-> "SignIn"] \in Request BY DEF Request
    <3> QED BY <1>3, <1>5, <2>1, <3>1 DEF OnCreatedRoom
  <2>2. CASE ~OnCreatedRoom(p)
    BY <1>3, <1>4, <1>7, <2>2
    DEF SignalThread, OnSignedIn, OnPeerConnected, OnPeerDisconnected, OnReceivedOffer, OnExit,
        End, InitializationCrashes
  <2> QED BY <2>1, <2>2
<1>8. CASE Negotiation(p)
  <2>1. PICK q \in Process : OnSuccess(p, q) \/ OnFailure(p, q) \/ OnIceCandidate(p, q)
    BY <1>8 DEF Negotiation
  <2>2. up'[r] = up[r]
    <3>1. \A payload : SendOffer(p, q, payload) => up'[r] = up[r]
      BY <1>2 DEF SendOffer, Send, Types
    <3> QED BY <2>1, <3>1 DEF OnSuccess, OnFailure, OnIceCandidate
  <2>3. readyState' = readyState /\ member' = member
    BY <2>1 DEF OnSuccess, OnFailure, OnIceCandidate
  <2> QED BY <2>2, <2>3 DEF Away
<1>9. CASE SignalServer(p)
  <2>1. up[p] # <<>> /\ up' = [up EXCEPT ![p] = Tail(@)] /\ readyState' = readyState
    BY <1>9 DEF SignalServer, CreateRoom, SignIn, Relay
  <2>2. ~Has(up'[r], Joining)
    BY <2>1, DoneHas DEF Away
  <2>3. r \notin member'
    <3>1. CASE SignIn(p)
      <4>1. p # r
        <5>1. Head(up[p]) \in Request /\ Head(up[p]).msgid = "SignIn" BY <2>1, <3>1 DEF SignIn, Types
        <5>2. Head(up[p]) \in Joining BY <5>1 DEF Request, Joining
        <5>3. Has(up[p], Joining) BY <2>1, <5>2, DoneHas
        <5> QED BY <5>3 DEF Away
      <4> QED BY <3>1, <4>1 DEF SignIn, Away
    <3>2. CASE CreateRoom(p) \/ Relay(p) BY <3>2 DEF CreateRoom, Relay, Away
    <3> QED BY <1>9, <3>1, <3>2 DEF SignalServer
  <2> QED BY <2>1, <2>2, <2>3 DEF Away
<1>10. CASE Leave(p)
  <2>1. ~Has(up'[r], Joining)
    <3>1. up'[r] = <<>> \/ up'[r] = up[r] BY <1>10 DEF Leave, Types
    <3> QED BY <3>1, HasNone DEF Away
  <2> QED BY <1>10, <2>1 DEF Leave, Away
<1>11. CASE Lost(p)
  <2>1. p # r BY <1>2, <1>11 DEF Lost
  <2> QED BY <1>11, <2>1 DEF Lost, Away, Types
<1>12. CASE Killed(p) BY <1>4, <1>12 DEF Killed
<1> QED BY <1>1, <1>6, <1>7, <1>8, <1>9, <1>10, <1>11, <1>12

\* What a process does by itself leaves the others alone.
LEMMA DiesFates ==
  ASSUME Types, OneFate, NEW p \in Process, NEW how \in {"ended", "dead"}, Dies(p, how),
         Away(Server) => Away(Server)'
  PROVE  OneFate'
<1> SUFFICES ASSUME NEW r \in Process PROVE Fates(r)' BY DEF OneFate
<1>0. Fates(r) BY DEF OneFate
<1>1. CASE r # p
  <2>1. Untouched(r) BY <1>1 DEF Dies, Untouched, Types
  <2> QED BY <1>0, <2>1, FatesSame
<1>2. CASE r = p
  <2>1. /\ life'[p] = how /\ callback'[p] = FALSE /\ readyState'[p] = "CLOSED"
        /\ queue'[p] = <<>> /\ down'[p] = <<>> /\ up' = up /\ member' = member
    BY DEF Dies, Types
  <2>2. /\ ~Has(queue'[p], {Exit}) /\ ~Has(queue'[p], Fate(p)) /\ ~Has(down'[p], Fate(p))
        /\ ~Has(queue'[p], Rooms) /\ ~Has(down'[p], Rooms)
        /\ Once(queue'[p], Fate(p)) /\ Once(down'[p], Fate(p))
    BY <2>1, HasNone
  <2> QED BY <1>0, <1>2, <2>1, <2>2 DEF Fates, Fated
<1> QED BY <1>1, <1>2

LEMMA FailurePosted ==
  ASSUME OneFate, NEW p \in Process
  PROVE  /\ Posted(p, ServerConnectionFailure(p)) = IF callback[p] THEN <<Exit>> ELSE <<>>
         /\ \A messages : ~callback[p] => Posted(p, messages) = <<>>
<1>1. callback[p] <=> life[p] = "running" BY DEF OneFate, Fates
<1> QED BY <1>1 DEF Posted, ServerConnectionFailure

\* A message is handled, in answer to which p exits only if it was its fate.
LEMMA HandledFates ==
  ASSUME Types, OneFate, NEW p \in Process, queue[p] # <<>>,
         NEW messages \in Seq(Message \cup {Exit}), Handled(p, messages),
         \/ Posted(p, messages) = <<>>
         \/ Posted(p, messages) = <<Exit>> /\ callback[p] /\ Head(queue[p]) \in Fate(p),
         UNCHANGED <<life, callback, readyState, up, down, member>>
  PROVE  OneFate'
<1> SUFFICES ASSUME NEW r \in Process PROVE Fates(r)' BY DEF OneFate
<1>0. Fates(r) /\ Fates(p) BY DEF OneFate
<1>1. Away(Server) => Away(Server)' BY DEF Away
<1>2. CASE r # p
  <2>1. Untouched(r) BY <1>2, HandledHas DEF Untouched
  <2> QED BY <1>0, <1>1, <2>1, FatesSame
<1>3. CASE r = p
  <2> DEFINE x == Posted(p, messages)
  <2>0. Exit \in Fate(p) /\ Exit \notin Rooms BY FateFacts
  <2>1. \/ /\ ~Has(x, {Exit}) /\ ~Has(x, Fate(p)) /\ ~Has(x, Rooms)
        \/ /\ callback[p] /\ Head(queue[p]) \in Fate(p)
           /\ Once(x, Fate(p)) /\ ~Has(x, Rooms)
    BY <2>0, HasNone, HasOne
  <2> HIDE DEF x
  <2>2. /\ Has(queue'[p], Fate(p)) <=> Has(Tail(queue[p]), Fate(p)) \/ Has(x, Fate(p))
        /\ Once(queue[p], Fate(p)) /\ ~Has(x, Fate(p)) => Once(queue'[p], Fate(p))
        /\ ~Has(Tail(queue[p]), Fate(p)) /\ Once(x, Fate(p)) => Once(queue'[p], Fate(p))
        /\ Has(queue[p], Fate(p)) <=> Head(queue[p]) \in Fate(p) \/ Has(Tail(queue[p]), Fate(p))
        /\ Once(queue[p], Fate(p)) /\ Head(queue[p]) \in Fate(p)
              => ~Has(Tail(queue[p]), Fate(p))
    BY HandledHas DEF x
  <2>3. Has(queue'[p], Rooms) => Has(queue[p], Rooms) BY <2>1, HandledHas DEF x
  <2>4. ~callback[p] /\ readyState[p] # "CLOSING" => ~Has(queue'[p], {Exit})
    <3>1. ~callback[p] => ~Has(x, {Exit}) BY <2>1
    <3> QED BY <1>0, <3>1, HandledHas DEF x, Fates
  <2>5. /\ readyState[p] # "CLOSING" => Once(queue'[p], Fate(p))
        /\ Has(queue'[p], Fate(p)) => Has(queue[p], Fate(p))
    BY <1>0, <2>1, <2>2 DEF Fates
  <2> QED BY <1>0, <1>1, <1>3, <2>3, <2>4, <2>5 DEF Fates, Fated
<1> QED BY <1>2, <1>3

\* A failed connect is reported, if only by one more MsgExit.
LEMMA ReportedFates ==
  ASSUME Types, OneFate, NEW p \in Process, NEW messages \in Seq(Message \cup {Exit}),
         Post(p, messages), Posted(p, messages) \in {<<>>, <<Exit>>},
         readyState' = [readyState EXCEPT ![p] = "CLOSING"],
         p \notin member, ~Has(up[p], Joining), ~Has(down[p], Fate(p)),
         UNCHANGED <<life, callback, up, down, member>>, Away(Server) => Away(Server)'
  PROVE  OneFate'
<1> SUFFICES ASSUME NEW r \in Process PROVE Fates(r)' BY DEF OneFate
<1>0. Fates(r) BY DEF OneFate
<1>1. CASE r # p
  <2>1. queue'[r] = queue[r] BY <1>1, PostHas
  <2>2. Untouched(r) BY <1>1, <2>1 DEF Untouched, Types
  <2> QED BY <1>0, <2>2, FatesSame
<1>2. CASE r = p
  <2>1. readyState'[p] = "CLOSING" BY DEF Types
  <2>2. Once(up[p], Joining) /\ Once(down[p], Fate(p)) /\ (callback[p] <=> life[p] = "running")
    BY <1>0, <1>2 DEF Fates
  <2> QED BY <1>2, <2>1, <2>2 DEF Fates, Fated
<1> QED BY <1>1, <1>2

LEMMA SubThreadFates ==
  ASSUME Types, OneFate, NEW p \in Process, SubThread(p), Away(Server) => Away(Server)'
  PROVE  OneFate'
<1>1. CASE OnOpen(p)
  <2> SUFFICES ASSUME NEW r \in Process PROVE Fates(r)' BY DEF OneFate
  <2>0. Fates(r) BY DEF OneFate
  <2>1. CASE r # p
    <3>1. Untouched(r) BY <1>1, <2>1 DEF OnOpen, Untouched, Types
    <3> QED BY <2>0, <3>1, FatesSame
  <2>2. CASE r = p
    <3> DEFINE request == [msgid |-> IF p = Server THEN "CreateRoom" ELSE "SignIn"]
    <3>1. request \in Request BY DEF Request
    <3>2. up'[p] = up[p] \/ up'[p] = Append(up[p], request) BY <1>1 DEF OnOpen, Types
    <3> HIDE DEF request
    <3>3. readyState[p] = "CONNECTING" /\ readyState'[p] = "OPEN" BY <1>1 DEF OnOpen, Types
    <3>4. p \notin member /\ ~Has(up[p], Joining) /\ ~Fated(p) /\ Once(up[p], Joining)
      BY <2>0, <2>2, <3>3 DEF Fates
    <3>5. Once(up'[p], Joining)
      <4> DEFINE longer == Append(up[p], request)
      <4>1. Once(longer, Joining) BY <3>1, <3>4, AppendHas
      <4>2. up'[p] = up[p] \/ up'[p] = longer BY <3>2
      <4> HIDE DEF longer
      <4> QED BY <3>4, <4>1, <4>2
    <3>6. UNCHANGED <<life, callback, queue, down, member>> BY <1>1 DEF OnOpen
    <3>7. ~Fated(p)' /\ (p \notin member)' BY <3>4, <3>6 DEF Fated
    <3> QED BY <2>0, <2>2, <3>3, <3>5, <3>6, <3>7 DEF Fates, Fated
  <2> QED BY <2>1, <2>2
<1>2. CASE OnError(p)
  <2>1. Post(p, ServerConnectionFailure(p)) BY <1>2 DEF OnError
  <2>2. Posted(p, ServerConnectionFailure(p)) \in {<<>>, <<Exit>>} BY FailurePosted
  <2>3. readyState[p] = "CONNECTING" /\ readyState' = [readyState EXCEPT ![p] = "CLOSING"]
    BY <1>2 DEF OnError
  <2>4. UNCHANGED <<life, callback, up, down, member>> BY <1>2 DEF OnError
  <2>5. p \notin member /\ ~Has(up[p], Joining) /\ ~Has(down[p], Fate(p))
    BY <2>3 DEF OneFate, Fates, Fated
  <2> QED BY <2>1, <2>2, <2>3, <2>4, <2>5, FailureType, ReportedFates
<1>3. CASE OnMessage(p)
  <2> SUFFICES ASSUME NEW r \in Process PROVE Fates(r)' BY DEF OneFate
  <2>0. Fates(r) BY DEF OneFate
  <2> DEFINE messages == <<Head(down[p])>>
             x == Posted(p, messages)
  <2>a. /\ down[p] \in Seq(Message) /\ down[p] # <<>> /\ down' = [down EXCEPT ![p] = Tail(@)]
        /\ UNCHANGED <<life, readyState, callback, up, member>>
    BY <1>3 DEF OnMessage, Types
  <2>b. Head(down[p]) \in Message BY <2>a
  <2>c. messages \in Seq(Message \cup {Exit})
    <3> DEFINE T == Message \cup {Exit}
               m == Head(down[p])
    <3>1. m \in T BY <2>b
    <3> HIDE DEF T, m
    <3>2. <<m>> \in Seq(T) BY <3>1
    <3> QED BY <3>2 DEF T, m
  <2>d. Post(p, messages) BY <1>3 DEF OnMessage
  <2>e. readyState[p] = "OPEN" BY <1>3 DEF OnMessage
  <2>1. CASE r # p
    <3>1. queue'[r] = queue[r] BY <2>c, <2>d, <2>1, PostHas
    <3>2. down'[r] = down[r] BY <2>a, <2>1 DEF Types
    <3>3. Untouched(r) BY <2>a, <3>1, <3>2 DEF Untouched
    <3> QED BY <2>0, <3>3, FatesSame
  <2>2. CASE r = p
    <3>1. /\ \A M : Has(x, M) => Head(down[p]) \in M
          /\ Once(x, Fate(p))
          /\ ~Has(x, {Exit})
      <4>1. Exit \notin Message BY FateFacts
      <4>2. x = <<>> \/ x = <<Head(down[p])>> BY DEF Posted
      <4>3. CASE x = <<>> BY <4>3, HasNone
      <4>4. CASE x = <<Head(down[p])>>
        <5>1. \A M : Has(x, M) <=> Head(down[p]) \in M BY <4>4, HasOne
        <5>2. Once(x, Fate(p)) BY <4>4, HasOne
        <5>3. Head(down[p]) \notin {Exit} BY <2>b, <4>1
        <5> QED BY <5>1, <5>2, <5>3
      <4> QED BY <4>2, <4>3, <4>4
    <3>2. down'[p] = Tail(down[p]) BY <2>a DEF Types
    <3>3. \A M : /\ Has(down[p], M) <=> Head(down[p]) \in M \/ Has(down'[p], M)
                 /\ Once(down[p], M) => Once(down'[p], M)
                 /\ Once(down[p], M) /\ Head(down[p]) \in M => ~Has(down'[p], M)
      BY <2>a, <3>2, TailHas
    <3> HIDE DEF x
    <3>4. \A M : /\ Has(queue'[p], M) <=> Has(queue[p], M) \/ Has(x, M)
                 /\ Once(queue[p], M) /\ ~Has(x, M) => Once(queue'[p], M)
                 /\ ~Has(queue[p], M) /\ Once(x, M) => Once(queue'[p], M)
      <4> HIDE DEF messages
      <4> QED BY <2>c, <2>d, PostHas DEF x
    <3>5. Fates(p) BY <2>0, <2>2
    <3>6. /\ Once(queue'[p], Fate(p)) /\ Once(down'[p], Fate(p))
          /\ ~(Has(queue'[p], Fate(p)) /\ Has(down'[p], Fate(p)))
      BY <2>e, <3>1, <3>3, <3>4, <3>5 DEF Fates
    <3>7. Fated(p)' => Fated(p)
      <4>1. Fate(p) = Fate(p) OBVIOUS
      <4>2. Has(queue'[p], Fate(p)) \/ Has(down'[p], Fate(p)) => Fated(p)
        BY <3>1, <3>3, <3>4 DEF Fated
      <4> QED BY <4>2 DEF Fated
    <3>8. Has(queue'[p], Rooms) \/ Has(down'[p], Rooms) => Has(queue[p], Rooms) \/ Has(down[p], Rooms)
      BY <3>1, <3>3, <3>4
    <3>9. ~callback[p] => ~Has(queue'[p], {Exit}) BY <2>e, <3>1, <3>4, <3>5 DEF Fates
    <3>10. Away(Server)' <=> Away(Server) BY <2>a DEF Away
    <3> QED BY <2>a, <2>e, <2>2, <3>5, <3>6, <3>7, <3>8, <3>9, <3>10 DEF Fates
  <2> QED BY <2>1, <2>2
<1>4. CASE OnClose(p) \/ OnErrorAgain(p) \/ (OnDisconnected(p) /\ ~Dies(p, "dead"))
  <2> SUFFICES ASSUME NEW r \in Process PROVE Fates(r)' BY DEF OneFate
  <2>1. Untouched(r) BY <1>4 DEF OnClose, OnDisconnected, OnErrorAgain, Untouched
  <2> QED BY <2>1, FatesSame DEF OneFate
<1>5. CASE OnServerConnectionFailure(p) /\ ~Dies(p, "dead")
  <2>1. Post(p, <<Exit>>) /\ UNCHANGED <<life, readyState, callback, up, down, member>>
    BY <1>5 DEF OnServerConnectionFailure
  <2>2. Posted(p, <<Exit>>) \in {<<>>, <<Exit>>} BY DEF Posted
  <2>3. readyState[p] = "CLOSING" BY <1>5 DEF OnServerConnectionFailure, Types
  <2>4. readyState' = [readyState EXCEPT ![p] = "CLOSING"] BY <2>1, <2>3 DEF Types
  <2>5. p \notin member /\ ~Has(up[p], Joining) /\ ~Has(down[p], Fate(p))
    BY <2>3 DEF OneFate, Fates
  <2> QED BY <2>1, <2>2, <2>4, <2>5, ExitType, ReportedFates
<1>6. CASE Dies(p, "dead") BY <1>6, DiesFates
<1> QED BY <1>1, <1>2, <1>3, <1>4, <1>5, <1>6 DEF SubThread, OnDisconnected

\* What the signal thread takes is what its handler is for.
LEMMA TakenMessage ==
  ASSUME Types, NEW p \in Process, NEW msgid, Taken(p, msgid)
  PROVE  /\ queue[p] # <<>> /\ Head(queue[p]) \in Message \cup {Exit}
         /\ Head(queue[p]).msgid = msgid
         /\ msgid = "CreateRoom" => Head(queue[p]) \in Rooms
         /\ msgid = "SignIn" /\ ~Head(queue[p]).successful => Head(queue[p]) \in Fate(p)
         /\ msgid = "PeerDisconnected" /\ p # Server => Head(queue[p]) \in Fate(p)
         /\ msgid = "Exit" => Head(queue[p]) = Exit
<1>1. queue[p] # <<>> /\ Head(queue[p]) \in Message \cup {Exit} /\ Head(queue[p]).msgid = msgid
  BY MessageTypes DEF Taken
<1> DEFINE m == Head(queue[p])
<1> HIDE DEF m
<1>2. m \in Message \cup {Exit} /\ m.msgid = msgid BY <1>1 DEF m
<1>3. Exit.msgid = "Exit" BY DEF Exit
<1>4. msgid # "Exit" => m \in Message BY <1>2, <1>3
<1>5. msgid = "Exit" => m = Exit BY <1>2 DEF Message
<1> QED BY <1>1, <1>2, <1>4, <1>5 DEF Rooms, Fate, m

LEMMA SignalThreadFates ==
  ASSUME Types, OneFate, NEW p \in Process, SignalThread(p), Away(Server) => Away(Server)'
  PROVE  OneFate'
<1>0. /\ <<>> \in Seq(Message \cup {Exit}) /\ ServerConnectionFailure(p) \in Seq(Message \cup {Exit})
      /\ Posted(p, <<>>) = <<>>
      /\ Posted(p, ServerConnectionFailure(p)) = IF callback[p] THEN <<Exit>> ELSE <<>>
  BY FailureType, FailurePosted DEF Posted
<1>1. CASE OnCreatedRoom(p)
  <2>1. queue[p] # <<>> /\ Head(queue[p]) \in Rooms BY <1>1, TakenMessage DEF OnCreatedRoom
  <2>2. Head(queue[p]) \in Fate(p) BY <2>1, FateFacts
  <2>3. UNCHANGED <<life, callback, readyState, down, member>> BY <1>1 DEF OnCreatedRoom
  <2>4. CASE up' = up
    <3>1. Handled(p, <<>>) \/ Handled(p, ServerConnectionFailure(p)) BY <1>1 DEF OnCreatedRoom
    <3> QED BY <1>0, <2>1, <2>2, <2>3, <2>4, <3>1, HandledFates
  <2>5. CASE up' # up
    <3> DEFINE request == [msgid |-> "SignIn"]
               longer == Append(up[p], request)
    <3>1. Handled(p, <<>>) /\ Send(p, request) BY <1>1, <2>5 DEF OnCreatedRoom
    <3>2. request \in Request BY DEF Request
    <3>3. readyState[p] = "OPEN" BY <2>5, <3>1 DEF Send
    <3>4. (up'[p] = up[p] \/ up'[p] = longer) /\ \A r \in Process : r # p => up'[r] = up[r]
      BY <3>1, <3>2, SendHas
    <3>5. \A r \in Process : r # p => queue'[r] = queue[r]
      BY <1>0, <2>1, <3>1, HandledHas
    <3>6. ASSUME NEW r \in Process, r # p PROVE Fates(r)'
      <4>1. Untouched(r) BY <2>3, <3>4, <3>5, <3>6 DEF Untouched
      <4> QED BY <4>1, FatesSame DEF OneFate
    <3>7. Fates(p)'
      <4>0. Fates(p) BY DEF OneFate
      <4>1. Has(queue[p], Rooms) /\ Has(queue[p], Fate(p))
        BY <1>0, <2>1, <2>2, <3>1, HandledHas
      <4>2. p \notin member /\ ~Has(up[p], Joining) /\ ~Has(down[p], Fate(p)) /\ callback'[p] = callback[p]
        BY <2>3, <4>0, <4>1 DEF Fates, Fated
      <4>3. /\ ~Has(queue'[p], Fate(p)) /\ Once(queue'[p], Fate(p))
            /\ ~callback[p] => ~Has(queue'[p], {Exit})
        <5>1. ~Has(Tail(queue[p]), Fate(p))
          BY <1>0, <2>1, <2>2, <3>1, <3>3, <4>0, HandledHas DEF Fates
        <5>2. ~Has(queue'[p], Fate(p)) /\ Once(queue'[p], Fate(p))
          BY <1>0, <2>1, <3>1, <3>3, <4>0, <5>1, HandledHas, HasNone DEF Fates
        <5>3. ~callback[p] => ~Has(queue'[p], {Exit})
          BY <1>0, <2>1, <3>1, <3>3, <4>0, HandledHas, HasNone DEF Fates
        <5> QED BY <5>2, <5>3
      <4>4. Once(up'[p], Joining)
        <5>1. Once(longer, Joining) BY <3>2, <4>2, AppendHas
        <5> HIDE DEF longer
        <5> QED BY <3>4, <4>0, <5>1 DEF Fates
      <4>5. ~Has(queue'[p], Rooms) /\ ~Has(down'[p], Rooms)
        BY <2>3, <4>2, <4>3, FateFacts DEF Has
      <4>6. readyState'[p] = "OPEN" /\ (p \notin member)' /\ (callback[p] <=> life'[p] = "running")
        BY <2>3, <3>3, <4>0, <4>2 DEF Fates
      <4>7. ~Has(down'[p], Fate(p)) /\ Once(down'[p], Fate(p)) BY <2>3, <4>0, <4>2 DEF Fates
      <4> QED BY <4>2, <4>3, <4>4, <4>5, <4>6, <4>7 DEF Fates, Fated
    <3> QED BY <3>6, <3>7 DEF OneFate
  <2> QED BY <2>4, <2>5
<1>2. CASE OnSignedIn(p)
  <2>1. queue[p] # <<>> /\ (~Head(queue[p]).successful => Head(queue[p]) \in Fate(p))
    BY <1>2, TakenMessage DEF OnSignedIn
  <2>2. UNCHANGED <<life, callback, readyState, up, down, member>> BY <1>2 DEF OnSignedIn
  <2>3. \/ Handled(p, <<>>)
        \/ Handled(p, ServerConnectionFailure(p)) /\ Head(queue[p]) \in Fate(p)
    BY <1>2, <2>1 DEF OnSignedIn
  <2> QED BY <1>0, <2>1, <2>2, <2>3, HandledFates
<1>3. CASE OnPeerConnected(p) \/ OnReceivedOffer(p)
  <2>1. queue[p] # <<>> BY <1>3 DEF OnPeerConnected, OnReceivedOffer, Taken
  <2>2. CASE Dies(p, "dead") BY <2>2, DiesFates
  <2>3. CASE ~Dies(p, "dead")
    <3>1. Handled(p, <<>>) /\ UNCHANGED <<life, callback, readyState, up, down, member>>
      BY <1>3, <2>3 DEF OnPeerConnected, OnReceivedOffer, InitializationCrashes
    <3> QED BY <1>0, <2>1, <3>1, HandledFates
  <2> QED BY <2>2, <2>3
<1>4. CASE OnPeerDisconnected(p)
  <2>1. queue[p] # <<>> /\ (p # Server => Head(queue[p]) \in Fate(p))
    BY <1>4, TakenMessage DEF OnPeerDisconnected
  <2>2. UNCHANGED <<life, callback, readyState, up, down, member>> BY <1>4 DEF OnPeerDisconnected
  <2>3. \/ Handled(p, <<>>)
        \/ Handled(p, <<Exit>>) /\ callback[p] /\ Head(queue[p]) \in Fate(p)
    BY <1>4, <2>1 DEF OnPeerDisconnected
  <2>4. Posted(p, <<Exit>>) \in {<<>>, <<Exit>>} BY DEF Posted
  <2>5. <<Exit>> \in Seq(Message \cup {Exit}) BY ExitType
  <2> QED BY <1>0, <2>1, <2>2, <2>3, <2>4, <2>5, HandledFates
<1>5. CASE OnExit(p)
  <2>1. queue[p] # <<>> /\ Head(queue[p]) = Exit /\ Handled(p, <<>>)
    BY <1>5, TakenMessage DEF OnExit
  <2>2. Exit \in Fate(p) BY FateFacts
  <2>3. UNCHANGED <<readyState, up, down, member>> BY <1>5 DEF OnExit
  <2>4. ASSUME NEW r \in Process, r # p PROVE Fates(r)'
    <3>1. queue'[r] = queue[r] BY <1>0, <2>1, <2>4, HandledHas
    <3>2. callback'[r] = callback[r] /\ life'[r] = life[r] BY <1>5, <2>4 DEF OnExit, Types
    <3>3. Untouched(r) BY <2>3, <3>1, <3>2 DEF Untouched
    <3> QED BY <3>3, FatesSame DEF OneFate
  <2>5. CASE readyState[p] = "CLOSING"
    <3>1. callback'[p] = FALSE /\ life'[p] = "stopped" BY <1>5 DEF OnExit, Types
    <3>2. Fates(p)' BY <2>3, <2>5, <3>1 DEF OneFate, Fates, Fated
    <3> QED BY <2>4, <3>2 DEF OneFate
  <2>6. CASE readyState[p] # "CLOSING"
    <3>0. Fates(p) BY DEF OneFate
    <3>1. Has(queue[p], Fate(p)) /\ ~Has(Tail(queue[p]), Fate(p))
      BY <1>0, <2>1, <2>2, <2>6, <3>0, HandledHas DEF Fates
    <3>2. ~Has(queue'[p], Fate(p)) /\ Once(queue'[p], Fate(p))
      BY <1>0, <2>1, <2>6, <3>0, <3>1, HandledHas, HasNone DEF Fates
    <3>3. ~Has(down[p], Fate(p)) /\ Once(down[p], Fate(p)) BY <3>0, <3>1 DEF Fates
    <3>4. \A s : ~Has(s, Fate(p)) => ~Has(s, {Exit}) /\ ~Has(s, Rooms)
      BY FateFacts DEF Has
    <3>5. ~Has(queue'[p], {Exit}) /\ ~Has(queue'[p], Rooms) /\ ~Has(down[p], Rooms)
      BY <3>2, <3>3, <3>4
    <3>6. callback'[p] = FALSE /\ life'[p] = "stopped" BY <1>5 DEF OnExit, Types
    <3>7. Fates(p)' BY <2>3, <2>6, <3>0, <3>1, <3>2, <3>3, <3>5, <3>6 DEF Fates, Fated
    <3> QED BY <2>4, <3>7 DEF OneFate
  <2> QED BY <2>5, <2>6
<1>6. CASE End(p) BY <1>6, DiesFates DEF End
<1> QED BY <1>1, <1>2, <1>3, <1>4, <1>5, <1>6 DEF SignalThread

LEMMA NegotiationFates ==
  ASSUME Types, OneFate, NEW p \in Process, Negotiation(p), Away(Server) => Away(Server)'
  PROVE  OneFate'
<1>1. PICK q \in Process : OnSuccess(p, q) \/ OnFailure(p, q) \/ OnIceCandidate(p, q)
  BY DEF Negotiation
<1>2. UNCHANGED <<life, callback, readyState, queue, down, member>>
  BY <1>1 DEF OnSuccess, OnFailure, OnIceCandidate
<1>3. PICK payload \in Payload : SendOffer(p, q, payload) \/ up' = up
  <2>1. CASE OnIceCandidate(p, q) BY <2>1 DEF OnIceCandidate, Payload
  <2>2. CASE OnSuccess(p, q)
    <3>1. conductor[p][q] \in Sound BY DEF Types
    <3>2. conductor[p][q].creating \in Payload
      BY <2>2, <3>1 DEF OnSuccess, Sound, Conductor, Description, Payload
    <3> QED BY <2>2, <3>2 DEF OnSuccess
  <2>3. CASE OnFailure(p, q) BY <2>3 DEF OnFailure, Payload
  <2> QED BY <1>1, <2>1, <2>2, <2>3
<1> DEFINE request == [msgid |-> "SendOffer", peer |-> q, payload |-> payload]
<1>4. request \in Request /\ request \notin Joining
  <2>1. request.msgid = "SendOffer" /\ \A m \in Joining : m.msgid # "SendOffer" BY DEF Joining
  <2> QED BY <2>1 DEF Request
<1>5. \A r \in Process : /\ Has(up'[r], Joining) <=> Has(up[r], Joining)
                         /\ Once(up[r], Joining) => Once(up'[r], Joining)
  <2> DEFINE longer == Append(up[p], request)
  <2>1. /\ Has(longer, Joining) <=> Has(up[p], Joining)
        /\ Once(up[p], Joining) => Once(longer, Joining)
    <3> HIDE DEF request
    <3> QED BY <1>4, AppendHas
  <2>2. /\ up'[p] = up[p] \/ up'[p] = longer
        /\ \A r \in Process : r # p => up'[r] = up[r]
    <3>1. CASE up' = up BY <3>1
    <3>2. CASE Send(p, request)
      <4> HIDE DEF request
      <4> QED BY <1>4, <3>2, SendHas
    <3> QED BY <1>3, <3>1, <3>2 DEF SendOffer
  <2> HIDE DEF longer
  <2> QED BY <2>1, <2>2
<1> SUFFICES ASSUME NEW r \in Process PROVE Fates(r)' BY DEF OneFate
<1>6. Fates(r) BY DEF OneFate
<1> QED BY <1>2, <1>5, <1>6 DEF Fates, Fated

\* What the signal server writes to r, and takes from it, seals nothing.
LEMMA DeliverFates ==
  ASSUME Types, NEW r \in Process, Fates(r), NEW to \in [Process -> Seq(Message)], Deliver(to),
         UNCHANGED <<life, callback, readyState, queue>>,
         Has(up'[r], Joining) => Has(up[r], Joining), Once(up[r], Joining) => Once(up'[r], Joining),
         (r \in member') => (r \in member), ~Has(to[r], Fate(r)), Away(Server) => Away(Server)'
  PROVE  Fates(r)'
<1>1. ~Has(to[r], Rooms) BY FateFacts DEF Has
<1>2. /\ Has(down'[r], Fate(r)) <=> Has(down[r], Fate(r))
      /\ Once(down[r], Fate(r)) => Once(down'[r], Fate(r))
      /\ Has(down'[r], Rooms) => Has(down[r], Rooms)
  BY <1>1, DeliverHas
<1> QED BY <1>2 DEF Fates, Fated

\* ... or it answers p's request to join, and that answer may.
LEMMA AnswerFates ==
  ASSUME Types, NEW p \in Process, Fates(p), NEW to \in [Process -> Seq(Message)], Deliver(to),
         UNCHANGED <<life, callback, readyState, queue>>,
         Has(up[p], Joining), ~Has(up'[p], Joining), Once(up'[p], Joining),
         \/ Once(to[p], Fate(p)) /\ UNCHANGED member
         \/ ~Has(to[p], Fate(p))
  PROVE  Fates(p)'
<1>1. p \notin member /\ ~Fated(p) /\ readyState[p] \notin {"CONNECTING", "CLOSING"} BY DEF Fates
<1>2. ~Has(down[p], Fate(p)) /\ ~Has(queue[p], Fate(p)) /\ Once(down[p], Fate(p))
  BY <1>1 DEF Fates, Fated
<1>3. CASE ~Has(to[p], Fate(p))
  <2>1. ~Has(down'[p], Fate(p)) /\ Once(down'[p], Fate(p)) BY <1>2, <1>3, DeliverHas
  <2>2. ~Has(down'[p], Rooms) /\ ~Has(queue[p], Rooms) BY <1>2, <2>1, FateFacts DEF Has
  <2> QED BY <1>1, <1>2, <2>1, <2>2 DEF Fates, Fated
<1>4. CASE Once(to[p], Fate(p)) /\ UNCHANGED member
  <2>1. Once(down'[p], Fate(p)) BY <1>2, <1>4, DeliverHas
  <2> QED BY <1>1, <1>2, <1>4, <2>1 DEF Fates, Fated
<1> QED BY <1>3, <1>4

LEMMA ReplyFates ==
  ASSUME Types, OneFate, NEW p \in Process, NEW m \in Message, Reply(p, m),
         UNCHANGED <<life, callback, readyState, queue, member>>,
         up[p] # <<>>, up' = [up EXCEPT ![p] = Tail(@)], Head(up[p]) \in Joining,
         Away(Server) => Away(Server)'
  PROVE  OneFate'
<1> DEFINE to == [q \in Process |-> IF q = p THEN <<m>> ELSE <<>>]
<1>1. to \in [Process -> Seq(Message)] BY OneMessage
<1>2. Deliver(to) BY DEF Reply
<1>3. Once(to[p], Fate(p)) /\ \A r \in Process : r # p => ~Has(to[r], Fate(r))
  BY HasOne, HasNone
<1> HIDE DEF to
<1>4. ASSUME NEW r \in Process, r # p PROVE Fates(r)'
  <2>1. up'[r] = up[r] BY <1>4, DoneHas
  <2> QED BY <1>1, <1>2, <1>3, <1>4, <2>1, DeliverFates DEF OneFate
<1>5. Fates(p)'
  <2>1. Fates(p) BY DEF OneFate
  <2>2. Has(up[p], Joining) /\ ~Has(up'[p], Joining) /\ Once(up'[p], Joining)
    BY <2>1, DoneHas DEF Fates
  <2> QED BY <1>1, <1>2, <1>3, <2>1, <2>2, AnswerFates
<1> QED BY <1>4, <1>5 DEF OneFate

LEMMA HeadJoins ==
  ASSUME Types, NEW p \in Process, up[p] # <<>>
  PROVE  Head(up[p]) \in Joining <=> Head(up[p]).msgid \in {"CreateRoom", "SignIn"}
<1> DEFINE m == Head(up[p])
<1>1. m \in Request BY DEF Types
<1> HIDE DEF m
<1>2. m \in Joining <=> m.msgid \in {"CreateRoom", "SignIn"} BY <1>1 DEF Request, Joining
<1> QED BY <1>2 DEF m

LEMMA SignInFates ==
  ASSUME Types, OneFate, NEW p \in Process, SignIn(p), Away(Server) => Away(Server)'
  PROVE  OneFate'
<1>1. /\ up[p] # <<>> /\ up' = [up EXCEPT ![p] = Tail(@)]
      /\ UNCHANGED <<life, callback, readyState, queue>>
  BY DEF SignIn
<1>2. Head(up[p]) \in Joining BY HeadJoins DEF SignIn
<1>3. CASE Reply(p, [msgid |-> "SignIn", successful |-> FALSE]) /\ UNCHANGED member
  <2>1. [msgid |-> "SignIn", successful |-> FALSE] \in Message BY DEF Message
  <2> QED BY <1>1, <1>2, <1>3, <2>1, ReplyFates
<1>4. CASE member' = member \cup {p} /\ Deliver(Welcome(p))
  <2> DEFINE to == Welcome(p)
  <2>1. to \in [Process -> Seq(Message)] BY WelcomeType
  <2>2. \A r \in Process : ~Has(to[r], Fate(r))
    <3> SUFFICES ASSUME NEW r \in Process PROVE ~Has(to[r], Fate(r)) OBVIOUS
    <3>1. CASE r = p
      <4> DEFINE s == <<[msgid |-> "SignIn", successful |-> TRUE]>>
                 t == Told(p)
      <4>1. ~Has(s, Fate(p)) BY HasOne, FateFacts
      <4>2. ~Has(t, Fate(p))
        <5>1. \A q : [msgid |-> "PeerConnected", peer |-> q] \notin Fate(p) BY FateFacts
        <5>2. \A i \in 1..Len(t) : \E q \in Partners(p) :
                 t[i] = [msgid |-> "PeerConnected", peer |-> q]
          BY ToldType
        <5> HIDE DEF t
        <5> QED BY <5>1, <5>2 DEF Has
      <4>3. s \in Seq(Message) /\ t \in Seq(Message)
        <5>1. [msgid |-> "SignIn", successful |-> TRUE] \in Message BY DEF Message
        <5> QED BY <5>1, OneMessage, ToldType
      <4>4. to[p] = s \o t BY DEF Welcome
      <4> HIDE DEF s, t, to
      <4>5. Has(s \o t, Fate(p)) => Has(s, Fate(p)) \/ Has(t, Fate(p))
        BY ONLY <4>3, ConcatHas
      <4> QED BY <3>1, <4>1, <4>2, <4>4, <4>5
    <3>2. CASE r # p
      <4>1. to[r] = <<[msgid |-> "PeerConnected", peer |-> p]>> \/ to[r] = <<>>
        BY <3>2 DEF Welcome
      <4>2. ~Has(<<[msgid |-> "PeerConnected", peer |-> p]>>, Fate(r)) BY HasOne, FateFacts
      <4>3. ~Has(<<>>, Fate(r)) BY HasNone
      <4> HIDE DEF to
      <4> QED BY <4>1, <4>2, <4>3
    <3> QED BY <3>1, <3>2
  <2> HIDE DEF to
  <2>3. Deliver(to) BY <1>4 DEF to
  <2>4. ASSUME NEW r \in Process, r # p PROVE Fates(r)'
    <3>1. up'[r] = up[r] BY <1>1, <2>4, DoneHas
    <3>2. (r \in member') => (r \in member) BY <1>4, <2>4
    <3> QED BY <1>1, <2>1, <2>2, <2>3, <3>1, <3>2, DeliverFates DEF OneFate
  <2>5. Fates(p)'
    <3>1. Fates(p) BY DEF OneFate
    <3>2. Has(up[p], Joining) /\ ~Has(up'[p], Joining) /\ Once(up'[p], Joining)
      BY <1>1, <1>2, <3>1, DoneHas DEF Fates
    <3> QED BY <1>1, <2>1, <2>2, <2>3, <3>1, <3>2, AnswerFates
  <2> QED BY <2>4, <2>5 DEF OneFate
<1> QED BY <1>3, <1>4 DEF SignIn, Welcome, Told

LEMMA RelayFates ==
  ASSUME Types, OneFate, NEW p \in Process, Relay(p), Away(Server) => Away(Server)'
  PROVE  OneFate'
<1> DEFINE m == Head(up[p])
           answer == [msgid |-> "ReceivedOffer", peer |-> p, payload |-> m.payload]
           to == [q \in Process |-> IF q = m.peer THEN <<answer>> ELSE <<>>]
<1>1. /\ up[p] # <<>> /\ up' = [up EXCEPT ![p] = Tail(@)]
      /\ UNCHANGED <<life, callback, readyState, queue, member>>
  BY DEF Relay
<1>2. m \in Request /\ m.msgid = "SendOffer" /\ m \notin Joining
  <2>1. m \in Request BY <1>1 DEF Types
  <2>2. m.msgid = "SendOffer" BY DEF Relay
  <2>3. m \notin Joining BY <1>1, <2>2, HeadJoins
  <2> QED BY <2>1, <2>2, <2>3
<1>3. \A r \in Process : /\ Has(up'[r], Joining) <=> Has(up[r], Joining)
                         /\ Once(up[r], Joining) => Once(up'[r], Joining)
  BY <1>1, <1>2, DoneHas
<1>4. m.payload \in Payload
  <2> HIDE DEF m
  <2> QED BY <1>2 DEF Request
<1> HIDE DEF m
<1>5. answer \in Message BY <1>4 DEF Message
<1>6. to \in [Process -> Seq(Message)] BY <1>5, OneMessage
<1>7. \A r \in Process : ~Has(to[r], Fate(r))
  <2> SUFFICES ASSUME NEW r \in Process PROVE ~Has(to[r], Fate(r)) OBVIOUS
  <2>1. answer \notin Fate(r) BY FateFacts
  <2>2. to[r] = <<answer>> \/ to[r] = <<>> OBVIOUS
  <2> HIDE DEF to, answer
  <2> QED BY <2>1, <2>2, HasOne, HasNone
<1>8. Deliver(to) \/ down' = down BY DEF Relay, m
<1> HIDE DEF to
<1> SUFFICES ASSUME NEW r \in Process PROVE Fates(r)' BY DEF OneFate
<1>9. Fates(r) BY DEF OneFate
<1>10. CASE down' = down BY <1>1, <1>3, <1>9, <1>10 DEF Fates, Fated
<1>11. CASE Deliver(to)
  BY <1>1, <1>3, <1>6, <1>7, <1>9, <1>11, DeliverFates
<1> QED BY <1>8, <1>10, <1>11

LEMMA LeaveFates ==
  ASSUME Types, OneFate, NEW p \in Process, Leave(p), Away(Server) => Away(Server)'
  PROVE  OneFate'
<1> DEFINE to == Farewell(p)
           left == [msgid |-> "PeerDisconnected", peer |-> p]
<1>1. to \in [Process -> Seq(Message)] BY FarewellType
<1>2. Deliver(to) BY DEF Leave, Farewell
<1>3. /\ UNCHANGED <<life, callback, readyState, queue>> /\ member' = member \ {p}
      /\ readyState[p] \in {"CLOSING", "CLOSED"}
      /\ up'[p] = <<>> /\ \A r \in Process : r # p => up'[r] = up[r]
  BY DEF Leave, Types
<1>4. \A r \in Process : to[r] = <<>> \/ (to[r] = <<left>> /\ p \in member /\ r \in Partners(p))
  BY DEF Farewell
<1> HIDE DEF to, left
<1>5. \A r \in Process : /\ Has(up'[r], Joining) => Has(up[r], Joining)
                         /\ Once(up[r], Joining) => Once(up'[r], Joining)
  BY <1>3, HasNone
<1> SUFFICES ASSUME NEW r \in Process PROVE Fates(r)' BY DEF OneFate
<1>6. Fates(r) BY DEF OneFate
<1>7. CASE ~Has(to[r], Fate(r))
  BY <1>1, <1>2, <1>3, <1>5, <1>6, <1>7, DeliverFates
<1>8. CASE Has(to[r], Fate(r))
  <2>1. to[r] = <<left>> /\ p \in member /\ r \in Partners(p) BY <1>4, <1>8, HasNone
  <2>2. left \in Fate(r) BY <1>8, <2>1, HasOne
  <2>3. r # Server /\ left \notin Rooms BY <2>2, FateFacts DEF left
  <2>4. r # p /\ p = Server /\ r \in member BY <2>1, <2>3 DEF Partners
  <2>5. Away(Server)'
    BY <1>3, <2>4, HasNone DEF Away
  <2>6. ~Away(Server) BY <2>1, <2>4 DEF Away
  <2>7. ~Has(queue[r], Fate(r)) /\ ~Has(down[r], Fate(r)) /\ Once(down[r], Fate(r))
        /\ ~Has(up[r], Joining) /\ readyState[r] \notin {"CONNECTING", "CLOSING"}
        /\ ~Has(queue[r], Rooms) /\ ~Has(down[r], Rooms)
    BY <1>6, <2>4, <2>6 DEF Fates, Fated
  <2>8. Once(down'[r], Fate(r)) /\ ~Has(down'[r], Rooms)
    <3>1. Once(to[r], Fate(r)) BY <2>1, HasOne
    <3>2. ~Has(to[r], Rooms) BY <2>1, <2>3, HasOne
    <3> QED BY <1>1, <1>2, <2>7, <3>1, <3>2, DeliverHas
  <2> QED BY <1>3, <1>5, <1>6, <2>3, <2>5, <2>7, <2>8 DEF Fates, Fated
<1> QED BY <1>7, <1>8

LEMMA NextFates == Types /\ OneFate /\ [Next]_vars => OneFate'
<1> SUFFICES ASSUME Types, OneFate, [Next]_vars PROVE OneFate' OBVIOUS
<1>1. CASE UNCHANGED vars BY <1>1 DEF vars, OneFate, Fates, Fated, Away
<1>2. CASE Next
  <2>1. Away(Server) => Away(Server)' BY <1>2, AwayStays DEF Process
  <2>2. ASSUME NEW p \in Process, CreateRoom(p) PROVE OneFate'
    <3>1. PICK ok \in BOOLEAN : Reply(p, [msgid |-> "CreateRoom", successful |-> ok])
      BY <2>2 DEF CreateRoom
    <3>2. [msgid |-> "CreateRoom", successful |-> ok] \in Message BY DEF Message
    <3>3. Head(up[p]) \in Joining BY <2>2, HeadJoins DEF CreateRoom
    <3>4. /\ up[p] # <<>> /\ up' = [up EXCEPT ![p] = Tail(@)]
          /\ UNCHANGED <<life, callback, readyState, queue, member>>
      BY <2>2 DEF CreateRoom
    <3> QED BY <2>1, <3>1, <3>2, <3>3, <3>4, ReplyFates
  <2>3. ASSUME NEW p \in Process, Lost(p) PROVE OneFate'
    <3>1. ASSUME NEW r \in Process, r # p PROVE Fates(r)'
      <4>1. Untouched(r) BY <2>3, <3>1 DEF Lost, Untouched, Types
      <4> QED BY <2>1, <4>1, FatesSame DEF OneFate
    <3>2. Fates(p)'
      <4>1. Fates(p) BY DEF OneFate
      <4>2. /\ readyState[p] = "OPEN" /\ readyState'[p] = "CLOSED" /\ down'[p] = <<>>
            /\ UNCHANGED <<life, callback, queue, up, member>>
        BY <2>3 DEF Lost, Types
      <4>3. ~Has(down'[p], Fate(p)) /\ Once(down'[p], Fate(p)) /\ ~Has(down'[p], Rooms)
        BY <4>2, HasNone
      <4> QED BY <2>1, <4>1, <4>2, <4>3 DEF Fates, Fated
    <3> QED BY <3>1, <3>2 DEF OneFate
  <2>4. ASSUME NEW p \in Process, Killed(p) PROVE OneFate'
    BY <2>1, <2>4, DiesFates DEF Killed
  <2> QED BY <1>2, <2>1, <2>2, <2>3, <2>4, SubThreadFates, SignalThreadFates, NegotiationFates,
             SignInFates, RelayFates, LeaveFates DEF Next, SignalServer
<1> QED BY <1>1, <1>2
-----------------------------------------------------------------------------
(* What a process knows of its peers.                                      *)

\* What follows in s, or comes in t, after each a in s.
Followed(s, t, a, b) ==
    \A i \in 1..Len(s) : s[i] = a => (\E j \in 1..Len(s) : i < j /\ s[j] = b) \/ Has(t, {b})

LEMMA FollowedConcat ==
  ASSUME NEW T, NEW s \in Seq(T), NEW u \in Seq(T), NEW t, NEW a, NEW b, ~Has(u, {a}),
         Followed(s, t, a, b) \/ Has(u, {b})
  PROVE  Followed(s \o u, t, a, b)
<1> DEFINE su == s \o u
<1>1. /\ Len(su) = Len(s) + Len(u) /\ Len(s) \in Nat /\ Len(u) \in Nat
      /\ \A i \in 1..Len(s) : su[i] = s[i]
      /\ \A i \in 1..Len(u) : su[i + Len(s)] = u[i]
  BY ConcatProperties
<1> HIDE DEF su
<1>2. \A i \in 1..Len(su) : i \in 1..Len(s) \/ (i - Len(s) \in 1..Len(u) /\ su[i] = u[i - Len(s)])
  <2> SUFFICES ASSUME NEW i \in 1..Len(su), i \notin 1..Len(s)
               PROVE  i - Len(s) \in 1..Len(u) /\ su[i] = u[i - Len(s)]
    OBVIOUS
  <2>1. i - Len(s) \in 1..Len(u) /\ (i - Len(s)) + Len(s) = i BY <1>1
  <2> QED BY <1>1, <2>1
<1> SUFFICES ASSUME NEW i \in 1..Len(su), su[i] = a
             PROVE  (\E j \in 1..Len(su) : i < j /\ su[j] = b) \/ Has(t, {b})
  BY DEF Followed, su
<1>3. i \in 1..Len(s) /\ s[i] = a BY <1>1, <1>2 DEF Has
<1>4. CASE Followed(s, t, a, b)
  <2>1. CASE Has(t, {b}) BY <2>1
  <2>2. CASE ~Has(t, {b})
    <3>1. PICK j \in 1..Len(s) : i < j /\ s[j] = b BY <1>3, <1>4, <2>2 DEF Followed
    <3>2. j \in 1..Len(su) /\ su[j] = b BY <1>1, <3>1
    <3> QED BY <3>1, <3>2
  <2> QED BY <2>1, <2>2
<1>5. CASE Has(u, {b})
  <2>1. PICK k \in 1..Len(u) : u[k] = b BY <1>5 DEF Has
  <2>2. k + Len(s) \in 1..Len(su) /\ i < k + Len(s) /\ su[k + Len(s)] = b BY <1>1, <1>3, <2>1
  <2> QED BY <2>2
<1> QED BY <1>4, <1>5

LEMMA FollowedTail ==
  ASSUME NEW T, NEW s \in Seq(T), s # <<>>, NEW t, NEW a, NEW b, Followed(s, t, a, b)
  PROVE  /\ Followed(Tail(s), t, a, b)
         /\ Head(s) = a => Has(Tail(s), {b}) \/ Has(t, {b})
<1>1. /\ Len(s) \in Nat \ {0} /\ Len(Tail(s)) = Len(s) - 1 /\ Head(s) = s[1]
      /\ \A i \in 1..Len(Tail(s)) : i + 1 \in 1..Len(s) /\ Tail(s)[i] = s[i + 1]
      /\ \A i \in 1..Len(s) : i # 1 => i - 1 \in 1..Len(Tail(s)) /\ Tail(s)[i - 1] = s[i]
  OBVIOUS
<1> DEFINE r == Tail(s)
<1>a. /\ Len(s) \in Nat \ {0} /\ Len(r) = Len(s) - 1 /\ Head(s) = s[1]
      /\ \A i \in 1..Len(r) : i + 1 \in 1..Len(s) /\ r[i] = s[i + 1]
      /\ \A i \in 1..Len(s) : i # 1 => i - 1 \in 1..Len(r) /\ r[i - 1] = s[i]
  BY <1>1
<1> HIDE DEF r
<1>2. Followed(r, t, a, b)
  <2> SUFFICES ASSUME NEW i \in 1..Len(r), r[i] = a, ~Has(t, {b})
               PROVE  \E j \in 1..Len(r) : i < j /\ r[j] = b
    BY DEF Followed
  <2>1. PICK j \in 1..Len(s) : i + 1 < j /\ s[j] = b BY <1>a DEF Followed
  <2>2. j - 1 \in 1..Len(r) /\ r[j - 1] = b /\ i < j - 1 BY <1>a, <2>1
  <2> QED BY <2>2
<1>3. ASSUME Head(s) = a, ~Has(t, {b}) PROVE Has(r, {b})
  <2>1. 1 \in 1..Len(s) BY <1>a
  <2>2. PICK j \in 1..Len(s) : 1 < j /\ s[j] = b BY <1>a, <1>3, <2>1 DEF Followed
  <2>3. j - 1 \in 1..Len(r) /\ r[j - 1] = b BY <1>a, <2>2
  <2> QED BY <2>3 DEF Has
<1> QED BY <1>2, <1>3 DEF r

\* The first message of d passes to the end of s.
LEMMA FollowedMoves ==
  ASSUME NEW T, NEW s \in Seq(T), NEW d \in Seq(T), d # <<>>, NEW a, NEW b,
         Followed(s, d, a, b), Followed(d, <<>>, a, b)
  PROVE  Followed(s \o <<Head(d)>>, Tail(d), a, b)
<1> DEFINE su == s \o <<Head(d)>>
           n == Len(s)
           e == Tail(d)
<1>1. /\ Head(d) = a => Has(e, {b})
      /\ Has(d, {b}) => Head(d) = b \/ Has(e, {b})
  BY FollowedTail, TailHas, HasNone
<1>2. n \in Nat /\ Len(su) = n + 1 /\ su[n + 1] = Head(d) /\ \A i \in 1..n : su[i] = s[i]
  OBVIOUS
<1> HIDE DEF su, n, e
<1> SUFFICES ASSUME NEW i \in 1..Len(su), su[i] = a, ~Has(e, {b})
             PROVE  \E j \in 1..Len(su) : i < j /\ su[j] = b
  BY DEF Followed, su, e
<1>3. i \in 1..n /\ s[i] = a
  <2>1. i # n + 1 BY <1>1, <1>2
  <2> QED BY <1>2, <2>1
<1>4. CASE Has(d, {b})
  <2>1. su[n + 1] = b /\ n + 1 \in 1..Len(su) /\ i < n + 1 BY <1>1, <1>2, <1>3, <1>4
  <2> QED BY <2>1
<1>5. CASE ~Has(d, {b})
  <2>1. PICK j \in 1..Len(s) : i < j /\ s[j] = b BY <1>3, <1>5 DEF Followed, n
  <2>2. j \in 1..Len(su) /\ su[j] = b BY <1>2, <2>1 DEF n
  <2> QED BY <2>1, <2>2
<1> QED BY <1>4, <1>5

Joined(q) == [msgid |-> "PeerConnected", peer |-> q]
Parted(q) == [msgid |-> "PeerDisconnected", peer |-> q]

LEMMA JoinedFacts ==
  /\ \A q, r : (Joined(q) = Joined(r) => q = r) /\ (Parted(q) = Parted(r) => q = r)
  /\ \A q, r : Joined(q) # Parted(r)
  /\ \A q : Joined(q).msgid = "PeerConnected" /\ Parted(q).msgid = "PeerDisconnected"
            /\ Joined(q).peer = q /\ Parted(q).peer = q
  /\ \A q \in Process : Joined(q) \in Message /\ Parted(q) \in Message
  /\ \A q \in Process : \A m \in Message \cup {Exit} :
         /\ m.msgid = "PeerConnected" /\ m.peer = q => m = Joined(q)
         /\ m.msgid = "PeerDisconnected" /\ m.peer = q => m = Parted(q)
<1>1. \A q : Joined(q).msgid = "PeerConnected" /\ Parted(q).msgid = "PeerDisconnected"
             /\ Joined(q).peer = q /\ Parted(q).peer = q
  BY DEF Joined, Parted
<1>2. \A q \in Process : Joined(q) \in Message /\ Parted(q) \in Message
  BY DEF Joined, Parted, Message
<1>3. ASSUME NEW q \in Process, NEW m \in Message \cup {Exit}
      PROVE  /\ m.msgid = "PeerConnected" /\ m.peer = q => m = Joined(q)
             /\ m.msgid = "PeerDisconnected" /\ m.peer = q => m = Parted(q)
  <2>1. \/ m \in [msgid : {"PeerConnected", "PeerDisconnected"}, peer : Process]
        \/ m.msgid \notin {"PeerConnected", "PeerDisconnected"}
    BY DEF Message, Exit
  <2>2. ASSUME m \in [msgid : {"PeerConnected", "PeerDisconnected"}, peer : Process]
        PROVE  m = [msgid |-> m.msgid, peer |-> m.peer]
    BY <2>2
  <2> QED BY <2>1, <2>2 DEF Joined, Parted
<1> QED BY <1>1, <1>2, <1>3

\* p keeps a Conductor for q, or is about to.
Meets(p, q) ==
    conductor[p][q].kept \/ Has(queue[p], {Joined(q)}) \/ Has(down[p], {Joined(q)})

\* While p is connected, each news of a peer's coming that it has, or has
\* still to handle, comes from the room, and is followed by the news of that
\* peer's leaving once the peer is no member any more.
Aware(p, q) ==
    callback[p] /\ readyState[p] \in {"CONNECTING", "OPEN"} =>
        /\ Meets(p, q) => p \in member /\ p # q /\ (p = Server \/ q = Server)
        /\ \/ q \in member
           \/ /\ conductor[p][q].kept => Has(queue[p], {Parted(q)}) \/ Has(down[p], {Parted(q)})
              /\ Followed(queue[p], down[p], Joined(q), Parted(q))
              /\ Followed(down[p], <<>>, Joined(q), Parted(q))

Knows == \A p, q \in Process : Aware(p, q)

LEMMA InitKnows == Init => Knows
<1> SUFFICES ASSUME Init, NEW p \in Process, NEW q \in Process PROVE Aware(p, q) BY DEF Knows
<1>1. queue[p] = <<>> /\ down[p] = <<>> /\ conductor[p][q] = NoConductor /\ ~NoConductor.kept
  BY DEF Init, NoConductor
<1>2. ~Has(queue[p], {Joined(q)}) /\ ~Has(down[p], {Joined(q)}) BY <1>1, HasNone
<1>3. Followed(queue[p], down[p], Joined(q), Parted(q))
      /\ Followed(down[p], <<>>, Joined(q), Parted(q))
  BY <1>2 DEF Followed, Has
<1> QED BY <1>1, <1>2, <1>3 DEF Aware, Meets

\* Nothing that Aware(r, q) speaks of has changed for the worse.
LEMMA AwareSame ==
  ASSUME NEW r \in Process, NEW q \in Process, Aware(r, q),
         callback'[r] => callback[r],
         readyState'[r] \in {"CONNECTING", "OPEN"} => readyState[r] \in {"CONNECTING", "OPEN"},
         queue'[r] = queue[r], down'[r] = down[r], member' = member,
         conductor'[r][q].kept => conductor[r][q].kept
  PROVE  Aware(r, q)'
BY DEF Aware, Meets

LEMMA DiesKnows ==
  ASSUME Types, Knows, NEW p \in Process, NEW how \in {"ended", "dead"}, Dies(p, how)
  PROVE  Knows'
<1> SUFFICES ASSUME NEW r \in Process, NEW q \in Process PROVE Aware(r, q)' BY DEF Knows
<1>1. CASE r = p
  <2>1. callback'[p] = FALSE BY DEF Dies, Types
  <2> QED BY <1>1, <2>1 DEF Aware
<1>2. CASE r # p
  <2>1. /\ callback'[r] = callback[r] /\ readyState'[r] = readyState[r] /\ queue'[r] = queue[r]
        /\ down'[r] = down[r] /\ member' = member /\ conductor'[r] = conductor[r]
    BY <1>2 DEF Dies, Types
  <2> QED BY <2>1, AwareSame DEF Knows
<1> QED BY <1>1, <1>2

\* p handles the message in front: a Conductor it keeps is one it kept, and
\* was not told to erase, or one whose peer it was just told of.
LEMMA HandledKnows ==
  ASSUME Types, Knows, NEW p \in Process, queue[p] # <<>>,
         NEW messages \in Seq(Message \cup {Exit}), Handled(p, messages),
         Posted(p, messages) \in {<<>>, <<Exit>>},
         UNCHANGED <<readyState, down, member>>,
         \A r \in Process : /\ callback'[r] => callback[r]
                            /\ r # p => conductor'[r] = conductor[r],
         \A q \in Process : callback'[p] /\ conductor'[p][q].kept =>
                                \/ conductor[p][q].kept /\ Head(queue[p]) # Parted(q)
                                \/ Head(queue[p]) = Joined(q)
  PROVE  Knows'
<1> SUFFICES ASSUME NEW r \in Process, NEW q \in Process PROVE Aware(r, q)' BY DEF Knows
<1>0. Aware(r, q) BY DEF Knows
<1>1. CASE r # p
  <2>1. queue'[r] = queue[r] BY <1>1, HandledHas
  <2> QED BY <1>0, <1>1, <2>1, AwareSame
<1>2. CASE r = p
  <2> DEFINE x == Posted(p, messages)
             T == Message \cup {Exit}
             a == Joined(q)
             b == Parted(q)
             s == Tail(queue[p])
  <2>1. ~Has(x, {a}) /\ ~Has(x, {b})
    <3>1. Exit.msgid = "Exit" BY DEF Exit
    <3>2. Exit # a /\ Exit # b BY <3>1, JoinedFacts
    <3>3. x = <<>> \/ x = <<Exit>> OBVIOUS
    <3> HIDE DEF x, a, b
    <3> QED BY <3>2, <3>3, HasNone, HasOne
  <2>2. queue \in [Process -> Seq(T)] /\ x \in Seq(T) BY PostedType DEF Types
  <2>3. queue[p] \in Seq(T) /\ s \in Seq(T) /\ queue'[p] = s \o x
    <3> HIDE DEF x, T
    <3> QED BY <2>2 DEF Handled, x
  <2> HIDE DEF x, T, a, b
  <2>4. /\ Has(queue[p], {a}) <=> Head(queue[p]) = a \/ Has(s, {a})
        /\ Has(queue[p], {b}) <=> Head(queue[p]) = b \/ Has(s, {b})
    BY <2>3, TailHas
  <2>5. Followed(queue[p], down[p], a, b) =>
           /\ Followed(s, down[p], a, b)
           /\ Head(queue[p]) = a => Has(s, {b}) \/ Has(down[p], {b})
    BY <2>3, FollowedTail
  <2> HIDE DEF s
  <2>6. (Has(queue'[p], {a}) <=> Has(s, {a})) /\ (Has(queue'[p], {b}) <=> Has(s, {b}))
    <3>1. (Has(s \o x, {a}) <=> Has(s, {a})) /\ (Has(s \o x, {b}) <=> Has(s, {b}))
      BY ONLY <2>1, <2>2, <2>3, ConcatHas
    <3> QED BY <2>3, <3>1
  <2>7. Followed(s, down[p], a, b) => Followed(queue'[p], down[p], a, b)
    <3> DEFINE d == down[p]
    <3> HIDE DEF d
    <3>1. Followed(s, d, a, b) => Followed(s \o x, d, a, b)
      BY ONLY <2>1, <2>2, <2>3, FollowedConcat
    <3> QED BY <2>3, <3>1 DEF d
  <2>8. callback'[p] /\ conductor'[p][q].kept =>
           (conductor[p][q].kept /\ Head(queue[p]) # b) \/ Head(queue[p]) = a
    BY DEF a, b
  <2> USE DEF a, b
  <2>9. callback'[p] => callback[p] OBVIOUS
  <2> SUFFICES ASSUME callback'[p], readyState[p] \in {"CONNECTING", "OPEN"} PROVE Aware(p, q)'
    BY <1>2 DEF Aware
  <2>10. Meets(p, q)' => Meets(p, q) BY <2>4, <2>6, <2>8 DEF Meets
  <2>11. (conductor[p][q].kept => Has(queue[p], {b}) \/ Has(down[p], {b}))
         /\ Followed(queue[p], down[p], a, b)
         => (conductor'[p][q].kept => Has(queue'[p], {b}) \/ Has(down[p], {b}))
    BY <2>4, <2>5, <2>6, <2>8
  <2> QED BY <1>0, <1>2, <2>5, <2>7, <2>9, <2>10, <2>11 DEF Aware
<1> QED BY <1>1, <1>2

LEMMA SubThreadKnows ==
  ASSUME Types, OneFate, Knows, NEW p \in Process, SubThread(p)
  PROVE  Knows'
<1>1. CASE Dies(p, "dead") BY <1>1, DiesKnows
<1>2. CASE \/ OnOpen(p) \/ OnClose(p) \/ OnErrorAgain(p)
           \/ OnDisconnected(p) /\ ~Dies(p, "dead")
  <2> SUFFICES ASSUME NEW r \in Process, NEW q \in Process PROVE Aware(r, q)' BY DEF Knows
  <2>1. UNCHANGED <<callback, queue, down, member, conductor>>
    BY <1>2 DEF OnOpen, OnClose, OnErrorAgain, OnDisconnected
  <2>2. readyState'[r] = readyState[r] \/ readyState[r] = "CONNECTING"
    BY <1>2 DEF OnOpen, OnClose, OnErrorAgain, OnDisconnected, Types
  <2> QED BY <2>1, <2>2, AwareSame DEF Knows
<1>3. CASE OnError(p) \/ (OnServerConnectionFailure(p) /\ ~Dies(p, "dead"))
  <2> SUFFICES ASSUME NEW r \in Process, NEW q \in Process PROVE Aware(r, q)' BY DEF Knows
  <2>1. CASE r = p
    <3>1. readyState'[p] = "CLOSING" BY <1>3 DEF OnError, OnServerConnectionFailure, Types
    <3> QED BY <2>1, <3>1 DEF Aware
  <2>2. CASE r # p
    <3>1. queue'[r] = queue[r]
      BY <1>3, <2>2 DEF OnError, OnServerConnectionFailure, Post, Types
    <3>2. readyState'[r] = readyState[r] /\ UNCHANGED <<callback, down, member, conductor>>
      BY <1>3, <2>2 DEF OnError, OnServerConnectionFailure, Types
    <3> QED BY <3>1, <3>2, AwareSame DEF Knows
  <2> QED BY <2>1, <2>2
<1>4. CASE OnMessage(p)
  <2> SUFFICES ASSUME NEW r \in Process, NEW q \in Process PROVE Aware(r, q)' BY DEF Knows
  <2>0. Aware(r, q) BY DEF Knows
  <2>1. UNCHANGED <<callback, readyState, member, conductor>> BY <1>4 DEF OnMessage
  <2>2. CASE r # p
    <3>1. queue'[r] = queue[r] /\ down'[r] = down[r] BY <1>4, <2>2 DEF OnMessage, Post, Types
    <3> QED BY <2>0, <2>1, <3>1, AwareSame
  <2>3. CASE r = p
    <3> SUFFICES ASSUME callback[p] PROVE Aware(p, q)' BY <2>1, <2>3 DEF Aware
    <3> DEFINE T == Message \cup {Exit}
               s == queue[p]
               d == down[p]
               m == Head(d)
               a == Joined(q)
               b == Parted(q)
    <3>1. queue \in [Process -> Seq(T)] /\ d \in Seq(Message) /\ d # <<>>
      BY <1>4 DEF OnMessage, Types
    <3>2. queue'[p] = s \o <<m>> /\ down'[p] = Tail(d)
      <4>1. Posted(p, <<m>>) = <<m>> BY DEF Posted, OneFate, Fates
      <4>2. down'[p] = Tail(d) BY <1>4 DEF OnMessage, Types
      <4>3. Post(p, <<m>>) BY <1>4 DEF OnMessage
      <4> HIDE DEF T, m
      <4>4. queue'[p] = s \o <<m>> BY <3>1, <4>1, <4>3 DEF Post
      <4> QED BY <4>2, <4>4 DEF m
    <3>3. s \in Seq(T) /\ d \in Seq(T) /\ m \in T
      <4>1. m \in Message BY <3>1
      <4>2. d \in Seq(T) BY <3>1
      <4> HIDE DEF T
      <4>3. s \in Seq(T) BY <3>1
      <4> QED BY <4>1, <4>2, <4>3 DEF T
    <3> HIDE DEF T, s, d, a, b
    <3>4. <<m>> \in Seq(T) BY <3>3
    <3>5. /\ Has(d, {a}) <=> m = a \/ Has(Tail(d), {a})
          /\ Has(d, {b}) <=> m = b \/ Has(Tail(d), {b})
      BY <3>1, TailHas
    <3>6. Followed(s, d, a, b) /\ Followed(d, <<>>, a, b)
             => Followed(s \o <<m>>, Tail(d), a, b) /\ Followed(Tail(d), <<>>, a, b)
      BY <3>1, <3>3, FollowedMoves, FollowedTail
    <3> HIDE DEF m
    <3>7. /\ Has(s \o <<m>>, {a}) <=> Has(s, {a}) \/ m = a
          /\ Has(s \o <<m>>, {b}) <=> Has(s, {b}) \/ m = b
      BY <3>3, <3>4, ConcatHas, HasOne
    <3>8. Meets(p, q)' => Meets(p, q)
      BY <2>1, <3>2, <3>5, <3>7 DEF Meets, s, d, a
    <3>9. (conductor[p][q].kept => Has(queue[p], {b}) \/ Has(down[p], {b}))
             => (conductor'[p][q].kept => Has(queue'[p], {b}) \/ Has(down'[p], {b}))
      BY <2>1, <3>2, <3>5, <3>7 DEF s, d
    <3>10. Followed(queue[p], down[p], a, b) /\ Followed(down[p], <<>>, a, b)
              => Followed(queue'[p], down'[p], a, b) /\ Followed(down'[p], <<>>, a, b)
      BY <3>2, <3>6 DEF s, d
    <3> USE DEF a, b
    <3> QED BY <2>0, <2>1, <2>3, <3>8, <3>9, <3>10 DEF Aware
  <2> QED BY <2>2, <2>3
<1> QED BY <1>1, <1>2, <1>3, <1>4 DEF SubThread

\* Initialising and hearing neither make nor erase a Conductor.
LEMMA KeptStays ==
  ASSUME NEW c \in Sound
  PROVE  /\ \A payload \in Payload : \A d \in Heard(c, payload) : d.kept = c.kept
         /\ \A p \in Process : ~Erased(p, c).kept
<1>1. ~NoConductor.kept BY DEF NoConductor
<1>2. \A d \in Sound : \A payload : Applied(d, payload).kept = d.kept
  BY DEF Applied, Sound, Conductor
<1>3. \A d \in InitializePeerConnection(c) : d.kept = c.kept
  <2>1. DeletePeerConnection(c).kept = c.kept BY DEF DeletePeerConnection, NoConductor
  <2>2. [c EXCEPT !.pc = TRUE, !.left = MaxCandidate].kept = c.kept
    BY DEF Sound, Conductor
  <2> QED BY <2>1, <2>2 DEF InitializePeerConnection
<1>4. ASSUME NEW payload \in Payload, NEW d \in Heard(c, payload) PROVE d.kept = c.kept
  <2>1. CASE c.pc BY <1>2, <2>1 DEF Heard
  <2>2. CASE ~c.pc
    <3>1. PICK e \in InitializePeerConnection(c) : d = IF e.pc THEN Applied(e, payload) ELSE e
      BY <2>2 DEF Heard
    <3> QED BY <1>2, <1>3, <3>1, InitializedType
  <2> QED BY <2>1, <2>2
<1>5. ~[c EXCEPT !.kept = FALSE].kept BY DEF Sound, Conductor
<1> QED BY <1>1, <1>4, <1>5 DEF Erased

LEMMA SignalThreadKnows ==
  ASSUME Types, OneFate, Knows, NEW p \in Process, SignalThread(p)
  PROVE  Knows'
<1> DEFINE m == Head(queue[p])
<1>0. /\ <<>> \in Seq(Message \cup {Exit}) /\ ServerConnectionFailure(p) \in Seq(Message \cup {Exit})
      /\ Posted(p, <<>>) = <<>> /\ Posted(p, <<Exit>>) \in {<<>>, <<Exit>>}
      /\ Posted(p, ServerConnectionFailure(p)) \in {<<>>, <<Exit>>}
  BY FailureType, FailurePosted DEF Posted
<1>1. ASSUME NEW msgid, Taken(p, msgid)
      PROVE  /\ queue[p] # <<>> /\ m \in Message \cup {Exit} /\ m.msgid = msgid
             /\ msgid # "PeerDisconnected" => \A q \in Process : m # Parted(q)
  <2>1. queue[p] # <<>> /\ m \in Message \cup {Exit} /\ m.msgid = msgid
    BY <1>1, TakenMessage
  <2> QED BY <2>1, JoinedFacts
<1>2. CASE OnCreatedRoom(p) \/ OnSignedIn(p) \/ OnExit(p)
  <2>1. queue[p] # <<>> /\ \A q \in Process : m # Parted(q)
    BY <1>1, <1>2 DEF OnCreatedRoom, OnSignedIn, OnExit
  <2>2. Handled(p, <<>>) \/ Handled(p, ServerConnectionFailure(p))
    BY <1>2 DEF OnCreatedRoom, OnSignedIn, OnExit
  <2>3. UNCHANGED <<readyState, down, member, conductor>>
    BY <1>2 DEF OnCreatedRoom, OnSignedIn, OnExit
  <2>4. \A r \in Process : callback'[r] => callback[r]
    BY <1>2 DEF OnCreatedRoom, OnSignedIn, OnExit, Types
  <2> QED BY <1>0, <2>1, <2>2, <2>3, <2>4, HandledKnows
<1>3. CASE Dies(p, "dead") BY <1>3, DiesKnows
<1>4. CASE OnPeerConnected(p) /\ ~Dies(p, "dead")
  <2> DEFINE q == m.peer
             c == conductor'[p][q]
  <2>1. queue[p] # <<>> /\ (\A r \in Process : m # Parted(r)) /\ q \in Process /\ m = Joined(q)
    <3>1. queue[p] # <<>> /\ m \in Message \cup {Exit} /\ m.msgid = "PeerConnected"
          /\ \A r \in Process : m # Parted(r)
      <4>1. Taken(p, "PeerConnected") BY <1>4 DEF OnPeerConnected
      <4> QED BY <1>1, <4>1
    <3>2. q \in Process BY <3>1, MessageTypes
    <3> QED BY <3>1, <3>2, JoinedFacts
  <2>2. Handled(p, <<>>) /\ UNCHANGED <<callback, readyState, down, member>>
    BY <1>4 DEF OnPeerConnected, InitializationCrashes
  <2>3. \E d : conductor' = [conductor EXCEPT ![p][q] = d]
    BY <1>4 DEF OnPeerConnected, InitializationCrashes
  <2> HIDE DEF m, q
  <2>4. \A r \in Process : r # p => conductor'[r] = conductor[r]
    BY <2>3 DEF Types
  <2>5. \A r \in Process : r # q => conductor'[p][r] = conductor[p][r]
    BY <2>3 DEF Types
  <2> QED BY <1>0, <2>1, <2>2, <2>4, <2>5, HandledKnows DEF m
<1>5. CASE OnPeerDisconnected(p)
  <2> DEFINE q == m.peer
  <2>1. queue[p] # <<>> /\ q \in Process /\ m = Parted(q)
    <3>1. queue[p] # <<>> /\ m \in Message \cup {Exit} /\ m.msgid = "PeerDisconnected"
      BY <1>1, <1>5 DEF OnPeerDisconnected
    <3>2. q \in Process BY <3>1, MessageTypes
    <3> QED BY <3>1, <3>2, JoinedFacts
  <2>2. /\ Handled(p, <<>>) \/ Handled(p, <<Exit>>)
        /\ UNCHANGED <<callback, readyState, down, member>>
    BY <1>5 DEF OnPeerDisconnected
  <2>3. IF callback[p] THEN conductor' = [conductor EXCEPT ![p][q] = Erased(p, conductor[p][q])]
        ELSE UNCHANGED conductor
    BY <1>5 DEF OnPeerDisconnected
  <2>4. <<Exit>> \in Seq(Message \cup {Exit})
    <3> DEFINE M == Message \cup {Exit}
    <3>1. Exit \in M OBVIOUS
    <3> HIDE DEF M
    <3>2. <<Exit>> \in Seq(M) BY <3>1
    <3> QED BY <3>2 DEF M
  <2> HIDE DEF m, q
  <2>5. \A r \in Process : r # p => conductor'[r] = conductor[r]
    BY <2>3 DEF Types
  <2>6. \A r \in Process : callback[p] /\ conductor'[p][r].kept =>
           conductor[p][r].kept /\ m # Parted(r)
    <3> SUFFICES ASSUME NEW r \in Process, callback[p], conductor'[p][r].kept
                 PROVE  conductor[p][r].kept /\ m # Parted(r)
      OBVIOUS
    <3>1. conductor[p][q] \in Sound BY <2>1 DEF Types
    <3>2. ~Erased(p, conductor[p][q]).kept BY <3>1, KeptStays
    <3>3. conductor'[p][q] = Erased(p, conductor[p][q])
          /\ (r # q => conductor'[p][r] = conductor[p][r])
      BY <2>1, <2>3 DEF Types
    <3>4. r # q BY <3>2, <3>3
    <3> QED BY <2>1, <3>3, <3>4, JoinedFacts
  <2> QED BY <1>0, <2>1, <2>2, <2>4, <2>5, <2>6, HandledKnows DEF m
<1>6. CASE OnReceivedOffer(p) /\ ~Dies(p, "dead")
  <2> DEFINE q == m.peer
             payload == m.payload
  <2>1. queue[p] # <<>> /\ (\A r \in Process : m # Parted(r)) /\ q \in Process /\ payload \in Payload
    <3>1. queue[p] # <<>> /\ m.msgid = "ReceivedOffer" /\ \A r \in Process : m # Parted(r)
      BY <1>1, <1>6 DEF OnReceivedOffer
    <3> QED BY <3>1, MessageTypes
  <2>2. Handled(p, <<>>) /\ UNCHANGED <<callback, readyState, down, member>>
    BY <1>6 DEF OnReceivedOffer, InitializationCrashes
  <2>3. \E d \in Heard(conductor[p][q], payload) \cup {conductor[p][q]} :
           conductor' = [conductor EXCEPT ![p][q] = d]
    BY <1>6 DEF OnReceivedOffer, InitializationCrashes
  <2> HIDE DEF m, q, payload
  <2>4. PICK d \in Heard(conductor[p][q], payload) \cup {conductor[p][q]} :
           conductor' = [conductor EXCEPT ![p][q] = d]
    BY <2>3
  <2>5. d.kept = conductor[p][q].kept
    <3>1. conductor[p][q] \in Sound BY <2>1 DEF Types
    <3> QED BY <2>1, <2>4, <3>1, KeptStays
  <2>6. /\ \A r \in Process : r # p => conductor'[r] = conductor[r]
        /\ \A r \in Process : conductor'[p][r].kept = conductor[p][r].kept
    BY <2>1, <2>4, <2>5 DEF Types
  <2> QED BY <1>0, <2>1, <2>2, <2>6, HandledKnows DEF m
<1>7. CASE End(p) BY <1>7, DiesKnows DEF End
<1> QED BY <1>2, <1>3, <1>4, <1>5, <1>6, <1>7 DEF SignalThread

LEMMA NegotiationKnows ==
  ASSUME Types, Knows, NEW p \in Process, Negotiation(p)
  PROVE  Knows'
<1> SUFFICES ASSUME NEW r \in Process, NEW s \in Process PROVE Aware(r, s)' BY DEF Knows
<1>1. PICK q \in Process : OnSuccess(p, q) \/ OnFailure(p, q) \/ OnIceCandidate(p, q)
  BY DEF Negotiation
<1>2. UNCHANGED <<callback, readyState, queue, down, member>>
  BY <1>1 DEF OnSuccess, OnFailure, OnIceCandidate
<1> DEFINE c == conductor[p][q]
<1>3. \E d : conductor' = [conductor EXCEPT ![p][q] = d] /\ (d.kept => c.kept)
  <2>1. c \in Sound BY DEF Types
  <2>2. ~NoConductor.kept BY DEF NoConductor
  <2>3. CASE OnSuccess(p, q) \/ OnFailure(p, q) BY <2>2, <2>3 DEF OnSuccess, OnFailure
  <2>4. CASE OnIceCandidate(p, q)
    <3>1. conductor' = [conductor EXCEPT ![p][q] = [c EXCEPT !.left = c.left - 1]]
      BY <2>4 DEF OnIceCandidate, Types
    <3> HIDE DEF c
    <3>2. [c EXCEPT !.left = c.left - 1].kept = c.kept BY <2>1 DEF Sound, Conductor
    <3> QED BY <3>1, <3>2
  <2> QED BY <1>1, <2>3, <2>4
<1>4. conductor'[r][s].kept => conductor[r][s].kept BY <1>3 DEF Types
<1> QED BY <1>2, <1>4, AwareSame DEF Knows

\* What the signal server writes tells r nothing new of q.
LEMMA DeliverAware ==
  ASSUME Types, NEW r \in Process, NEW q \in Process, Aware(r, q),
         NEW to \in [Process -> Seq(Message)], Deliver(to), ~Has(to[r], {Joined(q)}),
         UNCHANGED <<callback, readyState, queue, conductor>>,
         (r \in member) => (r \in member'), (q \in member) => (q \in member')
  PROVE  Aware(r, q)'
<1> DEFINE a == Joined(q)
           b == Parted(q)
           d == down[r]
           t == to[r]
<1>1. d \in Seq(Message) /\ t \in Seq(Message) /\ (down'[r] = d \o t \/ down'[r] = d)
  BY DEF Types, Deliver
<1> HIDE DEF d, t
<1>2. ~Has(t, {a}) BY DEF t
<1> HIDE DEF a, b
<1>3. /\ Has(d \o t, {a}) => Has(d, {a})
      /\ Has(d, {b}) => Has(d \o t, {b})
      /\ Followed(d, <<>>, a, b) => Followed(d \o t, <<>>, a, b)
  BY ONLY <1>1, <1>2, ConcatHas, FollowedConcat
<1>4. /\ Has(down'[r], {a}) => Has(down[r], {a})
      /\ Has(down[r], {b}) => Has(down'[r], {b})
      /\ Followed(down[r], <<>>, a, b) => Followed(down'[r], <<>>, a, b)
  BY <1>1, <1>3 DEF d
<1>5. Followed(queue[r], down[r], a, b) => Followed(queue[r], down'[r], a, b)
  BY <1>4 DEF Followed
<1> USE DEF a, b
<1> QED BY <1>4, <1>5 DEF Aware, Meets

LEMMA ReplyKnows ==
  ASSUME Types, Knows, NEW p \in Process, NEW m \in Message, Reply(p, m),
         m.msgid # "PeerConnected", UNCHANGED <<callback, readyState, queue, conductor, member>>
  PROVE  Knows'
<1> DEFINE to == [q \in Process |-> IF q = p THEN <<m>> ELSE <<>>]
<1>1. to \in [Process -> Seq(Message)] BY OneMessage
<1>2. Deliver(to) BY DEF Reply
<1>3. \A r, q \in Process : ~Has(to[r], {Joined(q)})
  <2>1. \A q : m # Joined(q) BY JoinedFacts
  <2>2. \A r \in Process : to[r] = <<m>> \/ to[r] = <<>> OBVIOUS
  <2> HIDE DEF to
  <2> QED BY <2>1, <2>2, HasOne, HasNone
<1> HIDE DEF to
<1> QED BY <1>1, <1>2, <1>3, DeliverAware DEF Knows

LEMMA SignalServerKnows ==
  ASSUME Types, OneFate, Knows, NEW p \in Process, SignalServer(p)
  PROVE  Knows'
<1>1. CASE CreateRoom(p)
  <2>1. PICK ok \in BOOLEAN : Reply(p, [msgid |-> "CreateRoom", successful |-> ok])
    BY <1>1 DEF CreateRoom
  <2>2. [msgid |-> "CreateRoom", successful |-> ok] \in Message BY DEF Message
  <2>3. [msgid |-> "CreateRoom", successful |-> ok].msgid # "PeerConnected" OBVIOUS
  <2>4. UNCHANGED <<callback, readyState, queue, conductor, member>> BY <1>1 DEF CreateRoom
  <2> QED BY <2>1, <2>2, <2>3, <2>4, ReplyKnows
<1>2. CASE SignIn(p)
  <2>0. UNCHANGED <<callback, readyState, queue, conductor>> BY <1>2 DEF SignIn
  <2>1. CASE Reply(p, [msgid |-> "SignIn", successful |-> FALSE]) /\ UNCHANGED member
    <3>1. [msgid |-> "SignIn", successful |-> FALSE] \in Message BY DEF Message
    <3>2. [msgid |-> "SignIn", successful |-> FALSE].msgid # "PeerConnected" OBVIOUS
    <3> QED BY <2>0, <2>1, <3>1, <3>2, ReplyKnows
  <2>2. CASE member' = member \cup {p} /\ Deliver(Welcome(p))
    <3> SUFFICES ASSUME NEW r \in Process, NEW q \in Process PROVE Aware(r, q)' BY DEF Knows
    <3>1. Welcome(p) \in [Process -> Seq(Message)] BY WelcomeType
    <3>2. CASE ~Has(Welcome(p)[r], {Joined(q)})
      BY <2>0, <2>2, <3>1, <3>2, DeliverAware DEF Knows
    <3>3. CASE Has(Welcome(p)[r], {Joined(q)})
      <4>1. r \in member' /\ q \in member' /\ r # q /\ (r = Server \/ q = Server)
        <5>1. CASE r = p
          <6> DEFINE s == <<[msgid |-> "SignIn", successful |-> TRUE]>>
                     t == Told(p)
                     a == Joined(q)
          <6>1. Welcome(p)[r] = s \o t BY <5>1 DEF Welcome
          <6>2. s \in Seq(Message) /\ t \in Seq(Message)
            <7>1. [msgid |-> "SignIn", successful |-> TRUE] \in Message BY DEF Message
            <7> QED BY <7>1, OneMessage, ToldType
          <6>3. ~Has(s, {a})
            <7>1. [msgid |-> "SignIn", successful |-> TRUE].msgid # "PeerConnected" OBVIOUS
            <7> QED BY <7>1, HasOne, JoinedFacts
          <6>4. Has(t, {a}) => \E i \in 1..Len(t) : t[i] = a BY DEF Has
          <6>5. \A i \in 1..Len(t) : \E x \in Partners(p) : t[i] = Joined(x)
            BY ToldType DEF Joined
          <6> HIDE DEF s, t, a
          <6>6. Has(s \o t, {a}) => Has(s, {a}) \/ Has(t, {a}) BY ONLY <6>2, ConcatHas
          <6>7. PICK x \in Partners(p) : a = Joined(x) BY <3>3, <6>1, <6>3, <6>4, <6>5, <6>6 DEF a
          <6>8. q \in Partners(p) BY <6>7, JoinedFacts DEF a
          <6> QED BY <2>2, <5>1, <6>8 DEF Partners
        <5>2. CASE r # p
          <6>1. r \in Partners(p) /\ Welcome(p)[r] = <<Joined(p)>>
            BY <3>3, <5>2, HasNone DEF Welcome, Joined
          <6>2. Joined(p) = Joined(q) BY <3>3, <6>1, HasOne
          <6>3. p = q BY <6>2, JoinedFacts
          <6> QED BY <2>2, <6>1, <6>3 DEF Partners
        <5> QED BY <5>1, <5>2
      <4> QED BY <4>1 DEF Aware
    <3> QED BY <3>2, <3>3
  <2> QED BY <1>2, <2>1, <2>2 DEF SignIn, Welcome, Told
<1>3. CASE Relay(p)
  <2> SUFFICES ASSUME NEW r \in Process, NEW q \in Process PROVE Aware(r, q)' BY DEF Knows
  <2> DEFINE m == Head(up[p])
             answer == [msgid |-> "ReceivedOffer", peer |-> p, payload |-> m.payload]
             to == [x \in Process |-> IF x = m.peer THEN <<answer>> ELSE <<>>]
  <2>0. UNCHANGED <<callback, readyState, queue, conductor, member>> BY <1>3 DEF Relay
  <2>1. m \in Request /\ m.msgid = "SendOffer" BY <1>3 DEF Relay, Types
  <2>2. m.payload \in Payload
    <3> HIDE DEF m
    <3> QED BY <2>1 DEF Request
  <2>3. Deliver(to) \/ down' = down BY <1>3 DEF Relay
  <2> HIDE DEF m
  <2>4. answer \in Message BY <2>2 DEF Message
  <2>5. to \in [Process -> Seq(Message)] BY <2>4, OneMessage
  <2>6. ~Has(to[r], {Joined(q)})
    <3>1. answer.msgid # "PeerConnected" OBVIOUS
    <3>2. answer # Joined(q) BY <3>1, JoinedFacts
    <3>3. to[r] = <<answer>> \/ to[r] = <<>> OBVIOUS
    <3> HIDE DEF to, answer
    <3> QED BY <3>2, <3>3, HasOne, HasNone
  <2> HIDE DEF to
  <2>7. CASE down' = down BY <2>0, <2>7, AwareSame DEF Knows
  <2>8. CASE Deliver(to) BY <2>0, <2>5, <2>6, <2>8, DeliverAware DEF Knows
  <2> QED BY <2>3, <2>7, <2>8
<1> QED BY <1>1, <1>2, <1>3 DEF SignalServer

LEMMA LeaveKnows ==
  ASSUME Types, OneFate, Knows, NEW p \in Process, Leave(p)
  PROVE  Knows'
<1> DEFINE to == Farewell(p)
<1>1. /\ UNCHANGED <<callback, readyState, queue, conductor>> /\ member' = member \ {p}
      /\ readyState[p] \in {"CLOSING", "CLOSED"}
  BY DEF Leave
<1>2. Deliver(to) /\ to \in [Process -> Seq(Message)] BY FarewellType DEF Leave, Farewell
<1>3. \A r \in Process : \/ to[r] = <<>>
                         \/ to[r] = <<Parted(p)>>
  BY DEF Farewell, Parted
<1>4. \A r \in Process : p \in member /\ r \in Partners(p) => to[r] = <<Parted(p)>>
  BY DEF Farewell, Parted
<1> HIDE DEF to
<1>5. \A r, q \in Process : ~Has(to[r], {Joined(q)})
  <2>1. \A q : ~Has(<<Parted(p)>>, {Joined(q)}) BY HasOne, JoinedFacts
  <2>2. \A q : ~Has(<<>>, {Joined(q)}) BY HasNone
  <2> QED BY <1>3, <2>1, <2>2
<1> SUFFICES ASSUME NEW r \in Process, NEW q \in Process PROVE Aware(r, q)' BY DEF Knows
<1>6. Aware(r, q) BY DEF Knows
<1>7. CASE r = p BY <1>1, <1>7 DEF Aware
<1>8. CASE r # p /\ (q # p \/ p \notin member)
  BY <1>1, <1>2, <1>5, <1>6, <1>8, DeliverAware
<1>9. CASE r # p /\ q = p /\ p \in member
  <2> SUFFICES ASSUME callback[r], readyState[r] \in {"CONNECTING", "OPEN"} PROVE Aware(r, q)'
    BY <1>1 DEF Aware
  <2>1. CASE r \in Partners(p)
    <3>1. readyState[r] = "OPEN" /\ r \in member
      BY <2>1 DEF Partners, OneFate, Fates
    <3> DEFINE a == Joined(p)
               b == Parted(p)
               d == down[r]
               t == to[r]
    <3>2. d \in Seq(Message) /\ t \in Seq(Message) /\ down'[r] = d \o t
      BY <1>2, <3>1 DEF Types, Deliver
    <3>3. Has(t, {b}) /\ ~Has(t, {a}) BY <1>4, <1>5, <1>9, <2>1, HasOne
    <3> HIDE DEF a, b, d, t
    <3>4. Has(d \o t, {b}) /\ Followed(d \o t, <<>>, a, b) /\ (Has(d \o t, {a}) => Has(d, {a}))
      BY ONLY <3>2, <3>3, ConcatHas, FollowedConcat
    <3>5. Has(down'[r], {b}) /\ Followed(down'[r], <<>>, a, b) /\ (Has(down'[r], {a}) => Has(down[r], {a}))
      BY <3>2, <3>4 DEF d
    <3>6. Followed(queue[r], down'[r], a, b) BY <3>5 DEF Followed
    <3> USE DEF a, b
    <3>7. Meets(r, q)' => Meets(r, q) BY <1>1, <1>9, <3>5 DEF Meets
    <3> QED BY <1>1, <1>6, <1>9, <3>1, <3>5, <3>6, <3>7 DEF Aware
  <2>2. CASE r \notin Partners(p)
    <3>1. ~Meets(r, q)
      BY <1>6, <1>9, <2>2 DEF Aware, Partners
    <3>2. ~Has(down'[r], {Joined(q)})
      BY <1>2, <1>5, <3>1, DeliverHas DEF Meets
    <3>3. ~conductor'[r][q].kept /\ ~Has(queue'[r], {Joined(q)})
      BY <1>1, <3>1 DEF Meets
    <3>4. Followed(queue'[r], down'[r], Joined(q), Parted(q))
          /\ Followed(down'[r], <<>>, Joined(q), Parted(q))
      BY <3>2, <3>3 DEF Followed, Has
    <3> QED BY <3>2, <3>3, <3>4 DEF Aware, Meets
  <2> QED BY <2>1, <2>2
<1> QED BY <1>7, <1>8, <1>9

LEMMA NextKnows == Types /\ OneFate /\ Knows /\ [Next]_vars => Knows'
<1> SUFFICES ASSUME Types, OneFate, Knows, [Next]_vars PROVE Knows' OBVIOUS
<1>1. CASE UNCHANGED vars BY <1>1 DEF vars, Knows, Aware, Meets
<1>2. ASSUME NEW p \in Process, Lost(p) PROVE Knows'
  <2> SUFFICES ASSUME NEW r \in Process, NEW q \in Process PROVE Aware(r, q)' BY DEF Knows
  <2>1. CASE r = p
    <3>1. readyState'[p] = "CLOSED" BY <1>2 DEF Lost, Types
    <3> QED BY <2>1, <3>1 DEF Aware
  <2>2. CASE r # p
    <3>1. readyState'[r] = readyState[r] /\ down'[r] = down[r]
          /\ UNCHANGED <<callback, queue, member, conductor>>
      BY <1>2, <2>2 DEF Lost, Types
    <3> QED BY <3>1, AwareSame DEF Knows
  <2> QED BY <2>1, <2>2
<1>3. ASSUME NEW p \in Process, Killed(p) PROVE Knows'
  BY <1>3, DiesKnows DEF Killed
<1> QED BY <1>1, <1>2, <1>3, SubThreadKnows, SignalThreadKnows, NegotiationKnows,
           SignalServerKnows, LeaveKnows DEF Next
-----------------------------------------------------------------------------
(* Theorems.                                                               *)

\* Every handler of a process and of the signal server keeps the state well
\* typed; in particular, a Conductor with a description has its
\* PeerConnection.
THEOREM TypeCorrect == Spec => []TypeOK
<1>1. Spec => []Types BY InitTypes, NextTypes, PTL DEF Spec
<1>2. Types => TypeOK BY TypesAreTypeOK
<1> QED BY <1>1, <1>2, PTL

LEMMA FatesExitOnce == Types /\ OneFate => ExitOnce
<1> SUFFICES ASSUME Types, OneFate, NEW p \in Process, readyState[p] # "CLOSING"
             PROVE  Cardinality({i \in DOMAIN queue[p] : queue[p][i] = Exit})
                        <= (IF callback[p] THEN 1 ELSE 0)
  BY DEF ExitOnce
<1> DEFINE exits == {i \in DOMAIN queue[p] : queue[p][i] = Exit}
<1>1. Fates(p) BY DEF OneFate
<1>2. DOMAIN queue[p] = 1..Len(queue[p]) BY DEF Types
<1>3. \A i, j \in exits : i = j BY <1>1, <1>2, FateFacts DEF Fates, Once
<1>4. ~callback[p] => exits = {} BY <1>1, <1>2 DEF Fates, Has
<1> HIDE DEF exits
<1>5. CASE exits = {} BY <1>5, FS_EmptySet DEF exits
<1>6. CASE exits # {}
  <2>1. PICK i \in exits : exits = {i} BY <1>3, <1>6
  <2>2. Cardinality(exits) = 1 BY <2>1, FS_Singleton
  <2> QED BY <1>4, <1>6, <2>2 DEF exits
<1> QED BY <1>5, <1>6

\* But for a failed connect, which leaves the WebSocket CLOSING, MsgExit is
\* posted at most once and only while the observer is registered, with any
\* number of clients, whatever the signal server refuses and whoever leaves or
\* loses it, in whatever order.
THEOREM ExitIsPostedOnce == Spec => []ExitOnce
<1>1. Init => Types /\ OneFate BY InitTypes, InitFates
<1>2. Types /\ OneFate /\ [Next]_vars => (Types /\ OneFate)' BY NextTypes, NextFates
<1>3. Types /\ OneFate => ExitOnce BY FatesExitOnce
<1> QED BY <1>1, <1>2, <1>3, PTL DEF Spec

LEMMA KnowsNoOrphan == Types /\ Knows => NoOrphanConductor
<1> SUFFICES ASSUME Types, Knows, NEW p \in Process, NEW q \in Process,
                    conductor[p][q].kept, callback[p], readyState[p] = "OPEN", q \notin member
             PROVE  \E i \in DOMAIN (queue[p] \o down[p]) :
                        (queue[p] \o down[p])[i] = [msgid |-> "PeerDisconnected", peer |-> q]
  BY DEF NoOrphanConductor
<1>1. Aware(p, q) BY DEF Knows
<1> DEFINE T == Message \cup {Exit}
           gone == Parted(q)
           s == queue[p]
           t == down[p]
<1>2. Has(s, {gone}) \/ Has(t, {gone}) BY <1>1 DEF Aware
<1>3. queue \in [Process -> Seq(T)] /\ t \in Seq(Message) BY DEF Types
<1>4. t \in Seq(T) BY <1>3
<1> HIDE DEF T
<1>5. s \in Seq(T) BY <1>3
<1> HIDE DEF s, t, gone
<1>6. Has(s \o t, {gone}) BY ONLY <1>2, <1>4, <1>5, ConcatHas
<1>7. DOMAIN (s \o t) = 1..Len(s \o t) BY <1>4, <1>5, ConcatProperties
<1>8. \E i \in DOMAIN (s \o t) : (s \o t)[i] = gone BY <1>6, <1>7 DEF Has
<1> QED BY <1>8 DEF s, t, gone, Parted

\* A process that is connected keeps a Conductor only for a member of its
\* room, or for one whose leaving it is about to hear of: news of coming and
\* leaving cannot cross, however the queues on the way to the signal thread
\* run and whoever fails.
THEOREM NoConductorIsOrphaned == Spec => []NoOrphanConductor
<1>1. Init => Types /\ OneFate /\ Knows BY InitTypes, InitFates, InitKnows
<1>2. Types /\ OneFate /\ Knows /\ [Next]_vars => (Types /\ OneFate /\ Knows)'
  BY NextTypes, NextFates, NextKnows
<1>3. Types /\ OneFate /\ Knows => NoOrphanConductor BY KnowsNoOrphan
<1> QED BY <1>1, <1>2, <1>3, PTL DEF Spec
=============================================================================

-------------------------- MODULE RendezvousProofs ---------------------------
(*****************************************************************************)
(* Signaling implements Rendezvous: to a client and the server, each step is *)
(* one of Rendezvous, which follows from what the step is to a pair of       *)
(* processes (NegotiationSteps) and from what they agree on before it        *)
(* (NegotiationProofs).                                                      *)
(*****************************************************************************)
EXTENDS NegotiationProofs
-----------------------------------------------------------------------------
(* Two more facts of the pair.                                             *)

\* At most one description of q is on its way to p, and none once p has it; and
\* when a client is yet to offer, neither has said anything to the other.
Single(p, q) ==
    /\ Flying(p, q, Offers) <= 1
    /\ conductor[p][q].theirs # "none" => Flying(p, q, Offers) = 0
Offerer(p, q) == p # Server /\ (Pending(p, q) \/ conductor[p][q].creating # "none")
Opening(p, q) == Offerer(p, q) => Quiet(p, q) /\ Quiet(q, p)
AllOrderly == \A p, q \in Process : Single(p, q) /\ Opening(p, q)

\* The descriptions of e are those of c, or neither is there.
Stays(c, e) ==
    \/ e.local = c.local /\ e.theirs = c.theirs
    \/ e.local = "none" /\ e.theirs = "none"

\* OnSuccess or OnReceivedOffer of one of the two, or no description is sent to p
\* or heard by it.
Talks(p, q) == Describes(p, q) \/ Describes(q, p) \/ Hears(p, q) \/ Hears(q, p)
Idle(p, q) ==
    /\ Stays(conductor[p][q], conductor'[p][q])
    /\ Stays(conductor[q][p], conductor'[q][p])
    /\ \A P \in SUBSET Offers : Flying(p, q, P)' <= Flying(p, q, P)

\* Descriptions are payloads, and their counts are natural numbers.
LEMMA OffersCounted ==
  ASSUME NEW p \in Process, NEW q \in Process, Counted(p, q)
  PROVE  \A P \in SUBSET Offers : P \in SUBSET Payload /\ Flying(p, q, P) \in Nat
<1>1. Offers \subseteq Payload BY DEF Offers, Payload
<1> QED BY <1>1 DEF Counted, Flying

\* The same of the state after a step.
LEMMA OffersCountedNext ==
  ASSUME NEW p \in Process, NEW q \in Process, Counted(p, q)'
  PROVE  \A P \in SUBSET Offers : P \in SUBSET Payload /\ Flying(p, q, P)' \in Nat
<1>1. Offers \subseteq Payload BY DEF Offers, Payload
<1> QED BY <1>1 DEF Counted, Flying

\* What is lost is not heard more often.
LEMMA FlowLost ==
  ASSUME NEW p \in Process, NEW q \in Process, NewsKept(p, q), UpKept(p, q),
         Counted(p, q), Counted(p, q)'
  PROVE  \A P \in SUBSET Payload : Flying(p, q, P)' <= Flying(p, q, P)
<1>1. \A P \in SUBSET Payload : From(q, P) \in SUBSET About(q) /\ To(p, P) \in SUBSET Addressed(p)
  BY AboutFacts, AddressedFacts
<1>2. \A P : /\ Num(News(p), From(q, P)) \in Nat /\ Num(up[q], To(p, P)) \in Nat
             /\ Num(News(p)', From(q, P)) \in Nat /\ Num(up'[q], To(p, P)) \in Nat
  BY DEF Counted
<1>3. \A P \in SUBSET Payload : /\ Num(News(p)', From(q, P)) <= Num(News(p), From(q, P))
                               /\ Num(up'[q], To(p, P)) <= Num(up[q], To(p, P))
  BY <1>1 DEF NewsKept, UpKept, Fewer
<1> QED BY <1>2, <1>3 DEF Flying

\* What is silent carries nothing.
LEMMA SilentNext ==
  ASSUME Types', NEW p \in Process, NEW q \in Process, Silent(p, q)'
  PROVE  \A P \in SUBSET Payload : Flying(p, q, P)' = 0
<1> DEFINE n == News(p)'
           u == up'[q]
<1>1. n \in Seq(Message \cup {Exit}) /\ u \in Seq(Request)
  <2>1. queue'[p] \in Seq(Message \cup {Exit}) /\ down'[p] \in Seq(Message) BY DEF Types
  <2>2. down'[p] \in Seq(Message \cup {Exit}) BY <2>1
  <2>3. u \in Seq(Request) BY DEF Types
  <2> QED BY <2>1, <2>2, <2>3 DEF News
<1> HIDE DEF n, u
<1>2. /\ \A P : Num(n, From(q, P)) \in Nat /\ Num(u, To(p, P)) \in Nat
      /\ \A P \in SUBSET Payload : /\ Num(n, From(q, P)) <= Num(n, From(q, Payload))
                                   /\ Num(u, To(p, P)) <= Num(u, To(p, Payload))
  BY <1>1, FlowSeq
<1>3. Num(n, From(q, Payload)) + Num(u, To(p, Payload)) = 0 BY DEF Silent, Flying, n, u
<1>4. \A P \in SUBSET Payload : Num(n, From(q, P)) + Num(u, To(p, P)) = 0 BY <1>2, <1>3
<1> QED BY <1>4 DEF Flying, n, u

\* Before a step as well.
LEMMA SilentNow ==
  ASSUME Types, NEW p \in Process, NEW q \in Process, Silent(p, q)
  PROVE  \A P \in SUBSET Payload : Flying(p, q, P) = 0
<1> DEFINE n == News(p)
           u == up[q]
<1>1. n \in Seq(Message \cup {Exit}) /\ u \in Seq(Request) BY NewsType DEF Types
<1> HIDE DEF n, u
<1>2. /\ \A P : Num(n, From(q, P)) \in Nat /\ Num(u, To(p, P)) \in Nat
      /\ \A P \in SUBSET Payload : /\ Num(n, From(q, P)) <= Num(n, From(q, Payload))
                                   /\ Num(u, To(p, P)) <= Num(u, To(p, Payload))
  BY <1>1, FlowSeq
<1>3. Num(n, From(q, Payload)) + Num(u, To(p, Payload)) = 0 BY DEF Silent, Flying, n, u
<1>4. \A P \in SUBSET Payload : Num(n, From(q, P)) + Num(u, To(p, P)) = 0 BY <1>2, <1>3
<1> QED BY <1>4 DEF Flying, n, u

\* One description of q is on its way at most as often as any.
LEMMA LoneOffer ==
  ASSUME Types, NEW p \in Process, NEW q \in Process
  PROVE  \A x \in Offers : /\ Flying(p, q, {x}) <= Flying(p, q, Offers)
                            /\ Flying(p, q, {x}) \in Nat /\ Flying(p, q, Offers) \in Nat
<1> DEFINE n == News(p)
           u == up[q]
<1>1. n \in Seq(Message \cup {Exit}) /\ u \in Seq(Request) BY NewsType DEF Types
<1> HIDE DEF n, u
<1>2. /\ \A P : Num(n, From(q, P)) \in Nat /\ Num(u, To(p, P)) \in Nat
      /\ \A P \in SUBSET Offers : /\ Num(n, From(q, P)) <= Num(n, From(q, Offers))
                                  /\ Num(u, To(p, P)) <= Num(u, To(p, Offers))
  BY <1>1, FlowSeq
<1>3. \A P \in SUBSET Offers :
         /\ Num(n, From(q, P)) + Num(u, To(p, P)) <= Num(n, From(q, Offers)) + Num(u, To(p, Offers))
         /\ Num(n, From(q, P)) + Num(u, To(p, P)) \in Nat
  BY <1>2
<1>4. \A x \in Offers : {x} \in SUBSET Offers OBVIOUS
<1>5. Num(n, From(q, Offers)) + Num(u, To(p, Offers)) \in Nat BY <1>2
<1> QED BY <1>3, <1>4, <1>5 DEF Flying, n, u

\* A step in which the two do not talk is idle.
LEMMA IdleStep ==
  ASSUME Types, Types', NEW p \in Process, NEW q \in Process, Seen(p, q), ~Talks(p, q)
  PROVE  Idle(p, q)
<1> DEFINE c == conductor[p][q]
           d == conductor[q][p]
           e == conductor'[p][q]
           f == conductor'[q][p]
<1>1. Counted(p, q) /\ Counted(p, q)' BY CountedNow, CountedNext
<1>2. \A P \in SUBSET Offers : /\ P \in SUBSET Payload /\ "candidate" \notin P
                               /\ Flying(p, q, P) \in Nat /\ Flying(p, q, P)' \in Nat
  BY <1>1, OffersCounted, OffersCountedNext DEF Offers
<1>3. c \in Sound /\ d \in Sound BY DEF Types
<1>4. CASE Calm(p, q)
  <2>1. Stays(c, e) /\ Stays(d, f) BY <1>3, <1>4, ClosedFacts DEF Calm, Closed, Stays
  <2> QED BY <1>1, <1>2, <1>4, <2>1, FlowLost DEF Calm, Idle
<1>5. CASE Blank(p, q)'
  <2>1. Stays(c, e) /\ Stays(d, f) BY <1>5, NoConductorFacts DEF Blank, Stays
  <2>2. \A P \in SUBSET Payload : Flying(p, q, P)' = 0 BY <1>5, SilentNext DEF Blank
  <2> QED BY <1>2, <2>1, <2>2 DEF Idle
<1>6. CASE Relays(p, q)
  <2>1. Stays(c, e) /\ Stays(d, f) BY <1>6 DEF Relays, Stays
  <2>2. \A P \in SUBSET Payload : Flying(p, q, P)' = Flying(p, q, P)
    BY <1>1, <1>6, FlowRelays DEF Relays
  <2> QED BY <1>2, <2>1, <2>2 DEF Idle
<1>7. CASE Greets(p, q)
  <2>1. Stays(c, e) /\ Stays(d, f) BY <1>7 DEF Greets, Begun, Stays
  <2>2. \A P \in SUBSET Payload : Flying(p, q, P)' = Flying(p, q, P)
    BY <1>1, <1>7, FlowGreets DEF Greets
  <2> QED BY <1>2, <2>1, <2>2 DEF Idle
<1>8. CASE Greets(q, p)
  <2>1. Stays(c, e) /\ Stays(d, f) BY <1>8 DEF Greets, Begun, Stays
  <2>2. \A P \in SUBSET Payload : Flying(p, q, P)' = Flying(p, q, P)
    BY <1>8, FlowKept DEF Greets
  <2> QED BY <1>2, <2>1, <2>2 DEF Idle
<1>9. CASE Gathers(p, q)
  <2>1. c.left > 0 /\ e = [c EXCEPT !.left = c.left - 1] /\ f = d
    BY <1>9 DEF Gathers, Says
  <2>2. Stays(c, e) /\ Stays(d, f)
    <3> HIDE DEF c, d, e, f
    <3> QED BY <1>3, <2>1, GatheredFacts DEF Stays
  <2>3. News(p)' = News(p) /\ up'[q] = up[q] BY <1>9 DEF Gathers, Says, News
  <2>4. \A P \in SUBSET Payload : Flying(p, q, P)' = Flying(p, q, P)
    BY <2>3 DEF Flying
  <2> QED BY <1>2, <2>2, <2>4 DEF Idle
<1>10. CASE Gathers(q, p)
  <2>1. d.left > 0 /\ f = [d EXCEPT !.left = d.left - 1] /\ e = c
    BY <1>10 DEF Gathers, Says
  <2>2. Stays(c, e) /\ Stays(d, f)
    <3> HIDE DEF c, d, e, f
    <3> QED BY <1>3, <2>1, GatheredFacts DEF Stays
  <2>3. News(p)' = News(p) BY <1>10 DEF Gathers, Says, News
  <2>4. \A P \in SUBSET Offers : Flying(p, q, P)' = Flying(p, q, P)
    <3>1. CASE up'[q] = up[q] BY <2>3, <3>1 DEF Flying
    <3>2. CASE Adds(up[q], up'[q], Offering(p, "candidate"), Addressed(p))
      <4>1. "candidate" \in Payload BY DEF Payload
      <4>2. \A P \in SUBSET Payload :
               Flying(p, q, P)' = Flying(p, q, P) + (IF "candidate" \in P THEN 1 ELSE 0)
        BY <1>1, <2>3, <3>2, <4>1, FlowSays
      <4> QED BY <1>2, <4>2
    <3> QED BY <1>10, <3>1, <3>2 DEF Gathers, Says
  <2> QED BY <1>2, <2>2, <2>4 DEF Idle
<1> QED BY <1>4, <1>5, <1>6, <1>7, <1>8, <1>9, <1>10 DEF Seen, Talks

\* What p says to q: no more is on its way to p; q's share grows by the
\* description, which q has not heard the like of.
LEMMA DescribesFlow ==
  ASSUME Types, Types', AllRole, AllStill, NEW p \in Process, NEW q \in Process, Describes(p, q)
  PROVE  LET c == conductor[p][q] IN
         /\ c.creating = Ours(p) /\ c.local = "none"
         /\ p = Server => c.theirs # "none"
         /\ conductor'[q][p] = conductor[q][p]
         /\ conductor'[p][q] = Described(c)
         /\ \A P \in SUBSET Payload : Flying(p, q, P)' = Flying(p, q, P)
         /\ \/ \A P \in SUBSET Payload : Flying(q, p, P)' = Flying(q, p, P)
            \/ /\ conductor[q][p].theirs = "none"
               /\ \A P \in SUBSET Offers :
                      /\ Flying(q, p, P) = 0
                      /\ Flying(q, p, P)' = IF Ours(p) \in P THEN 1 ELSE 0
<1> DEFINE c == conductor[p][q]
<1>1. c \in Sound /\ Role(p, q) /\ Still(q, p) BY DEF Types, AllRole, AllStill
<1>2. Ours(p) \in Payload /\ Ours(p) \in Offers BY DEF Ours, Payload, Offers
<1>3. c.creating # "none" /\ Says(p, q, c.creating) /\ conductor'[p][q] = Described(c)
  BY DEF Describes
<1>4. c.creating = Ours(p) /\ c.local = "none" /\ (p = Server => c.theirs # "none")
  BY <1>1, <1>3 DEF Role
<1>5. /\ conductor'[q][p] = conductor[q][p] /\ up'[q] = up[q]
      /\ News(p)' = News(p) /\ News(q)' = News(q)
  BY <1>3 DEF Says, News
<1>6. \A P \in SUBSET Payload : Flying(p, q, P)' = Flying(p, q, P) BY <1>5 DEF Flying
<1>7. CASE ~(c.remote /\ readyState[p] = "OPEN")
  <2>1. up'[p] = up[p] BY <1>3, <1>7 DEF Says
  <2>2. \A P \in SUBSET Payload : Flying(q, p, P)' = Flying(q, p, P) BY <1>5, <2>1 DEF Flying
  <2> QED BY <1>3, <1>4, <1>5, <1>6, <2>2
<1>8. CASE c.remote /\ readyState[p] = "OPEN"
  <2>1. Adds(up[p], up'[p], Offering(q, Ours(p)), Addressed(q)) BY <1>3, <1>4, <1>8 DEF Says
  <2>2. Counted(q, p) /\ Counted(q, p)' BY CountedNow, CountedNext
  <2>3. \A P \in SUBSET Payload :
           Flying(q, p, P)' = Flying(q, p, P) + (IF Ours(p) \in P THEN 1 ELSE 0)
    BY <1>2, <1>5, <2>1, <2>2, FlowSays
  <2>4. Quiet(q, p) BY <1>1, <1>4, <1>8 DEF Still
  <2>5. \A P \in SUBSET Payload : Flying(q, p, P) = 0 BY <2>4, SilentNow DEF Quiet
  <2>6. \A P \in SUBSET Offers : P \in SUBSET Payload BY <2>2, OffersCounted
  <2> QED BY <1>3, <1>4, <1>5, <1>6, <2>3, <2>4, <2>5, <2>6 DEF Quiet
<1> QED BY <1>7, <1>8

\* What p hears of q: less is on its way to p.
LEMMA HearsFlow ==
  ASSUME Types, Types', AllRole, NEW p \in Process, NEW q \in Process, Hears(p, q)
  PROVE  LET c == conductor[p][q]
             e == conductor'[p][q]
         IN
         /\ conductor'[q][p] = conductor[q][p]
         /\ \A P \in SUBSET Payload : Flying(q, p, P)' = Flying(q, p, P)
         /\ \E x \in Payload :
               /\ \A P \in SUBSET Payload : Flying(p, q, P) = (IF x \in P THEN 1 ELSE 0) + Flying(p, q, P)'
               /\ \/ Stays(c, e)
                  \/ /\ x = Theirs(p) /\ c.theirs = "none"
                     /\ c.local = IF p = Server THEN "none" ELSE "offer"
                     /\ e.local = c.local /\ e.theirs = x
<1> DEFINE c == conductor[p][q]
           e == conductor'[p][q]
<1>1. c \in Sound /\ Role(p, q) BY DEF Types, AllRole
<1>2. Counted(p, q) /\ Counted(p, q)' BY CountedNow, CountedNext
<1>3. /\ conductor'[q][p] = conductor[q][p]
      /\ Alike(News(q), News(q)', About(p)) /\ up'[p] = up[p] /\ up'[q] = up[q]
  BY DEF Hears
<1>4. \A P \in SUBSET Payload : Flying(q, p, P)' = Flying(q, p, P) BY <1>3, FlowKept
<1>5. PICK x \in Payload :
         /\ Takes(News(p), News(p)', Offered(q, x), About(q))
         /\ e \in IF callback[p] /\ c.kept THEN Heard(c, x) ELSE {c}
  BY DEF Hears
<1>6. \A P \in SUBSET Payload : Flying(p, q, P) = (IF x \in P THEN 1 ELSE 0) + Flying(p, q, P)'
  BY <1>2, <1>3, <1>5, FlowHears
<1>7. x # Ours(p)
  <2>1. Flying(p, q, {Ours(p)}) = 0 /\ Flying(p, q, {Ours(p)})' \in Nat BY <1>1, <1>2 DEF Role, Counted
  <2>2. {Ours(p)} \in SUBSET Payload BY PayloadSets
  <2> QED BY <1>6, <2>1, <2>2
<1>8. \/ Stays(c, e)
      \/ /\ x = "offer" /\ c.local = "none" /\ c.theirs = "none"
         /\ e.local = c.local /\ e.theirs = "offer"
      \/ /\ x = "answer" /\ c.local = "offer" /\ c.theirs = "none"
         /\ e.local = c.local /\ e.theirs = "answer"
  <2>1. CASE e = c BY <2>1 DEF Stays
  <2>2. CASE e \in Heard(c, x)
    <3> HIDE DEF c, e
    <3> QED BY <1>1, <2>2, HeardFacts DEF Stays
  <2> QED BY <1>5, <2>1, <2>2
<1>9. \/ Stays(c, e)
      \/ /\ x = Theirs(p) /\ c.theirs = "none"
         /\ c.local = IF p = Server THEN "none" ELSE "offer"
         /\ e.local = c.local /\ e.theirs = x
  BY <1>7, <1>8 DEF Ours, Theirs
<1> QED BY <1>3, <1>4, <1>6, <1>9

\* Single, after any step.
LEMMA StepSingle ==
  ASSUME Types, Types', OneFate, Agree, AllOrderly, Next, NEW p \in Process, NEW q \in Process
  PROVE  Single(p, q)'
<1> DEFINE c == conductor[p][q]
           e == conductor'[p][q]
<1>1. AllMet /\ AllRole /\ AllStill BY DEF Agree
<1>2. Seen(p, q) BY <1>1, StepSeen
<1>3. Single(p, q) BY DEF AllOrderly
<1>4. Counted(p, q) /\ Counted(p, q)' BY CountedNow, CountedNext
<1>5. /\ Offers \in SUBSET Offers /\ Offers \in SUBSET Payload /\ Theirs(p) \in Offers
      /\ Flying(p, q, Offers) \in Nat /\ Flying(p, q, Offers)' \in Nat
  BY <1>4, OffersCounted, OffersCountedNext DEF Theirs, Offers
<1>6. c \in Sound BY DEF Types
<1>7. CASE ~Talks(p, q)
  <2>1. Idle(p, q) BY <1>2, <1>7, IdleStep
  <2>2. Flying(p, q, Offers)' <= Flying(p, q, Offers) BY <1>5, <2>1 DEF Idle
  <2>3. Stays(c, e) BY <2>1 DEF Idle
  <2> QED BY <1>3, <1>5, <2>2, <2>3 DEF Single, Stays
<1>8. CASE Describes(p, q)
  <2>1. /\ c.creating # "none" /\ e = Described(c)
        /\ Flying(p, q, Offers)' = Flying(p, q, Offers)
    BY <1>1, <1>5, <1>8, DescribesFlow DEF Describes
  <2>2. e.theirs = "none" \/ e.theirs = c.theirs
    <3> HIDE DEF c, e
    <3> QED BY <1>6, <2>1, DescribedFacts, NoConductorFacts
  <2> QED BY <1>3, <2>1, <2>2 DEF Single
<1>9. CASE Describes(q, p)
  <2>1. /\ e = c
        /\ \/ Flying(p, q, Offers)' = Flying(p, q, Offers)
           \/ c.theirs = "none" /\ Flying(p, q, Offers)' <= 1
    BY <1>1, <1>5, <1>9, DescribesFlow
  <2> QED BY <1>3, <2>1 DEF Single
<1>10. CASE Hears(p, q)
  <2>1. PICK x \in Payload :
           /\ Flying(p, q, Offers) = (IF x \in Offers THEN 1 ELSE 0) + Flying(p, q, Offers)'
           /\ Stays(c, e) \/ x = Theirs(p)
    BY <1>1, <1>5, <1>10, HearsFlow
  <2>2. CASE Stays(c, e) BY <1>3, <1>5, <2>1, <2>2 DEF Single, Stays
  <2>3. CASE x = Theirs(p) BY <1>3, <1>5, <2>1, <2>3 DEF Single
  <2> QED BY <2>1, <2>2, <2>3
<1>11. CASE Hears(q, p)
  <2>1. e = c /\ Flying(p, q, Offers)' = Flying(p, q, Offers) BY <1>1, <1>5, <1>11, HearsFlow
  <2> QED BY <1>3, <2>1 DEF Single
<1> QED BY <1>7, <1>8, <1>9, <1>10, <1>11 DEF Talks

\* Nothing is said to p unless q says it.
LEMMA StaysQuiet ==
  ASSUME Types, Types', NEW p \in Process, NEW q \in Process, Seen(p, q), Quiet(p, q),
         ~Describes(q, p), ~Gathers(q, p)
  PROVE  Quiet(p, q)'
<1> DEFINE c == conductor[p][q]
           e == conductor'[p][q]
<1>1. Counted(p, q) /\ Counted(p, q)' BY CountedNow, CountedNext
<1>2. c \in Sound /\ c.theirs = "none" /\ c.added = 0 /\ Flying(p, q, Payload) = 0
  BY DEF Types, Quiet, Silent
<1>3. Payload \in SUBSET Payload OBVIOUS
<1>4. SUFFICES e.theirs = "none" /\ e.added = 0 /\ Flying(p, q, Payload)' = 0
  BY DEF Quiet, Silent
<1>5. CASE Calm(p, q)
  <2>1. e.theirs = "none" /\ e.added = 0 BY <1>2, <1>5, ClosedFacts DEF Calm, Closed
  <2>2. Flying(p, q, Payload)' <= Flying(p, q, Payload) BY <1>1, <1>3, <1>5, FlowLost DEF Calm
  <2>3. Flying(p, q, Payload)' \in Nat BY <1>1 DEF Counted
  <2> QED BY <1>2, <2>1, <2>2, <2>3
<1>6. CASE Blank(p, q)' BY <1>6, NoConductorFacts DEF Blank, Silent
<1>7. CASE Relays(p, q)
  <2>1. Flying(p, q, Payload)' = Flying(p, q, Payload) BY <1>7, RelaysMoves
  <2> QED BY <1>2, <1>7, <2>1 DEF Relays
<1>8. CASE Greets(p, q)
  <2>1. Flying(p, q, Payload)' = Flying(p, q, Payload) BY <1>8, GreetsTakes
  <2> QED BY <1>2, <1>8, <2>1 DEF Greets, Begun
<1>9. CASE Hears(p, q) BY <1>9, HearsTakes DEF Quiet
<1>10. CASE Greets(q, p) \/ Hears(q, p)
  <2>1. Same(p, q) /\ e = c BY <1>10, ActorSame
  <2> QED BY <1>2, <2>1 DEF Same
<1>11. CASE Describes(p, q)
  <2>1. Same(p, q) /\ c.creating # "none" /\ e = Described(c)
    BY <1>11, SaysSame DEF Describes
  <2>2. e.theirs = "none" /\ e.added = 0
    <3> HIDE DEF c, e
    <3> QED BY <1>2, <2>1, DescribedFacts, NoConductorFacts
  <2> QED BY <1>2, <2>1, <2>2 DEF Same
<1>12. CASE Gathers(p, q)
  <2>1. Same(p, q) /\ c.left > 0 /\ e = [c EXCEPT !.left = c.left - 1]
    BY <1>12, SaysSame DEF Gathers
  <2>2. e.theirs = "none" /\ e.added = 0
    <3> HIDE DEF c, e
    <3> QED BY <1>2, <2>1, GatheredFacts
  <2> QED BY <1>2, <2>1, <2>2 DEF Same
<1> QED BY <1>5, <1>6, <1>7, <1>8, <1>9, <1>10, <1>11, <1>12 DEF Seen

\* p is not told of q, nor creates an offer, unless it is to, or they are strangers.
LEMMA StepOfferer ==
  ASSUME Types, Types', AllMet, AllRole, NEW p \in Process, NEW q \in Process, Seen(p, q),
         Offerer(p, q)', ~Blank(p, q)'
  PROVE  Offerer(p, q) /\ ~Describes(p, q)
<1> DEFINE c == conductor[p][q]
           e == conductor'[p][q]
<1>1. Counted(p, q) /\ Counted(p, q)' BY CountedNow, CountedNext
<1>2. c \in Sound /\ Role(p, q) /\ Met(p, q) BY DEF Types, AllRole, AllMet
<1>3. p # Server BY DEF Offerer
<1>4. /\ Calls(p, q) \in Nat /\ Calls(p, q)' \in Nat
      /\ Pending(p, q) <=> Calls(p, q) > 0
      /\ Pending(p, q)' <=> Calls(p, q)' > 0
  BY <1>1 DEF Counted, Pending
<1>5. Pending(p, q)' \/ e.creating # "none" BY DEF Offerer
<1>6. SUFFICES ASSUME TRUE PROVE (Pending(p, q) \/ c.creating # "none") /\ ~Describes(p, q)
  BY <1>3 DEF Offerer
<1>7. CASE Describes(p, q)
  <2>1. Calls(p, q)' = Calls(p, q) BY <1>7, SaysSame DEF Describes, Same
  <2>2. c.creating # "none" /\ e = Described(c) BY <1>7 DEF Describes
  <2>3. e.creating = "none"
    <3> HIDE DEF c, e
    <3> QED BY <1>2, <2>2, DescribedFacts, NoConductorFacts
  <2>4. c = NoConductor BY <1>2, <1>4, <1>5, <2>1, <2>3 DEF Met
  <2> QED BY <2>2, <2>4, NoConductorFacts
<1>8. SUFFICES ASSUME ~Describes(p, q) PROVE Pending(p, q) \/ c.creating # "none" BY <1>7
<1>9. CASE Calm(p, q)
  <2>1. Calls(p, q)' <= Calls(p, q) BY <1>1, <1>9, FlowCalm DEF Calm
  <2>2. e.creating = c.creating \/ e.creating = "none"
    BY <1>2, <1>9, ClosedFacts DEF Calm, Closed
  <2> QED BY <1>4, <1>5, <2>1, <2>2
<1>10. CASE Relays(p, q)
  <2>1. Calls(p, q)' = Calls(p, q) BY <1>10, RelaysMoves
  <2> QED BY <1>4, <1>5, <1>10, <2>1 DEF Relays
<1>11. CASE Greets(p, q) BY <1>11, GreetsTakes
<1>12. CASE Hears(p, q)
  <2>1. PICK x \in Payload :
           /\ e \in IF callback[p] /\ c.kept THEN Heard(c, x) ELSE {c}
           /\ Calls(p, q)' = Calls(p, q)
           /\ Flying(p, q, {Ours(p)}) = Flying(p, q, {Ours(p)})' + (IF x = Ours(p) THEN 1 ELSE 0)
    BY <1>12, HearsTakes
  <2>2. Flying(p, q, {Ours(p)}) = 0 /\ Flying(p, q, {Ours(p)})' \in Nat
    BY <1>1, <1>2 DEF Role, Counted
  <2>3. x # "offer" BY <1>3, <2>1, <2>2 DEF Ours
  <2>4. e.creating = c.creating \/ e.creating = "none"
    <3>1. CASE e = c BY <3>1
    <3>2. CASE e \in Heard(c, x)
      <4> HIDE DEF c, e
      <4> QED BY <1>2, <2>3, <3>2, HeardFacts
    <3> QED BY <2>1, <3>1, <3>2
  <2> QED BY <1>4, <1>5, <2>1, <2>4
<1>13. CASE Greets(q, p) \/ Hears(q, p)
  <2>1. Same(p, q) /\ e = c BY <1>13, ActorSame
  <2> QED BY <1>4, <1>5, <2>1 DEF Same
<1>14. CASE Gathers(p, q)
  <2>1. Same(p, q) /\ c.left > 0 /\ e = [c EXCEPT !.left = c.left - 1]
    BY <1>14, SaysSame DEF Gathers
  <2>2. e.creating = c.creating
    <3> HIDE DEF c, e
    <3> QED BY <1>2, <2>1, GatheredFacts
  <2> QED BY <1>4, <1>5, <2>1, <2>2 DEF Same
<1>15. CASE Describes(q, p) \/ Gathers(q, p)
  <2>1. Calls(p, q)' = Calls(p, q) /\ e = c BY <1>15, SaysSame DEF Describes, Gathers
  <2> QED BY <1>4, <1>5, <2>1
<1> QED BY <1>8, <1>9, <1>10, <1>11, <1>12, <1>13, <1>14, <1>15 DEF Seen

\* p is told of q no more often, unless they are strangers.
LEMMA CallsStay ==
  ASSUME Types, Types', NEW p \in Process, NEW q \in Process, Seen(q, p), ~Blank(q, p)'
  PROVE  Calls(p, q)' <= Calls(p, q)
<1>1. Calls(p, q) \in Nat /\ Calls(p, q)' \in Nat BY CountedNow, CountedNext DEF Counted
<1>2. CASE Calm(q, p) BY <1>2 DEF Calm
<1>3. CASE Relays(q, p) \/ Greets(q, p) \/ Hears(q, p)
  <2>1. Alike(News(p), News(p)', About(q)) BY <1>3 DEF Relays, Greets, Hears
  <2>2. Calls(p, q)' = Calls(p, q) BY <2>1, AboutFacts DEF Alike, Calls
  <2> QED BY <1>1, <2>2
<1>4. CASE Describes(q, p) \/ Gathers(q, p)
  <2>1. Calls(p, q)' = Calls(p, q) BY <1>4, SaysSame DEF Describes, Gathers
  <2> QED BY <1>1, <2>1
<1>5. CASE Greets(p, q)
  <2>1. Calls(p, q) = 1 + Calls(p, q)' BY <1>5, GreetsTakes
  <2> QED BY <1>1, <2>1
<1>6. CASE Hears(p, q)
  <2>1. Calls(p, q)' = Calls(p, q) BY <1>6, HearsTakes
  <2> QED BY <1>1, <2>1
<1>7. CASE Describes(p, q) \/ Gathers(p, q)
  <2>1. Calls(p, q)' = Calls(p, q) BY <1>7, SaysSame DEF Describes, Gathers, Same
  <2> QED BY <1>1, <2>1
<1> QED BY <1>2, <1>3, <1>4, <1>5, <1>6, <1>7 DEF Seen

\* Opening, after any step.
LEMMA StepOpening ==
  ASSUME Types, Types', OneFate, Agree, AllOrderly, Next, NEW p \in Process, NEW q \in Process
  PROVE  Opening(p, q)'
<1> SUFFICES ASSUME Offerer(p, q)' PROVE Quiet(p, q)' /\ Quiet(q, p)' BY DEF Opening
<1> DEFINE c == conductor[p][q]
           d == conductor[q][p]
<1>1. AllMet /\ AllRole /\ AllStill /\ Opening(p, q) BY DEF Agree, AllOrderly
<1>2. Seen(p, q) /\ Seen(q, p) BY <1>1, StepSeen
<1>3. Role(p, q) /\ Role(q, p) /\ Met(p, q) BY <1>1 DEF AllRole, AllMet
<1>4. CASE Offerer(p, q) /\ ~Describes(p, q)
  <2>1. p # Server /\ (Pending(p, q) \/ c.creating # "none") BY <1>4 DEF Offerer
  <2>2. Quiet(p, q) /\ Quiet(q, p) BY <1>1, <1>4 DEF Opening
  <2>3. q = Server BY <1>3, <2>1, NoConductorFacts DEF Met
  <2>4. d.theirs = "none" BY <2>2 DEF Quiet
  <2>5. ~Describes(q, p) /\ ~Gathers(q, p)
    BY <1>3, <2>3, <2>4 DEF Role, Describes, Gathers
  <2>6. ~Gathers(p, q)
    <3>1. Gathers(p, q) => c.local # "none" BY DEF Gathers
    <3>2. c.local = "none" BY <1>3, <2>1, NoConductorFacts DEF Met, Role
    <3> QED BY <3>1, <3>2
  <2> QED BY <1>2, <1>4, <2>2, <2>5, <2>6, StaysQuiet
<1>5. CASE Blank(p, q)'
  <2>1. Quiet(p, q)' BY <1>5, NoConductorFacts DEF Blank, Quiet
  <2>2. CASE Blank(q, p)' BY <2>1, <2>2, NoConductorFacts DEF Blank, Quiet
  <2>3. CASE ~Blank(q, p)'
    <3>1. Counted(p, q) /\ Counted(p, q)' BY CountedNow, CountedNext
    <3>2. Calls(p, q)' <= Calls(p, q) BY <1>2, <2>3, CallsStay
    <3>3. p # Server /\ Pending(p, q)' BY <1>5, NoConductorFacts DEF Offerer, Blank
    <3>4. Pending(p, q) BY <3>1, <3>2, <3>3 DEF Pending, Counted
    <3>5. ~Describes(p, q) BY <1>3, <3>4, NoConductorFacts DEF Met, Describes
    <3> QED BY <1>4, <3>3, <3>4, <3>5 DEF Offerer
  <2> QED BY <2>2, <2>3
<1>6. CASE ~Blank(p, q)' BY <1>1, <1>2, <1>4, <1>6, StepOfferer
<1> QED BY <1>5, <1>6

-----------------------------------------------------------------------------
(* The states of Rendezvous.                                               *)

\* What is under way is what counts.
Within(m, s) == \E i \in DOMAIN s : s[i] = m

\* One that is in a sequence counts in it,
LEMMA WithinNum ==
  ASSUME NEW T, NEW s \in Seq(T), NEW m
  PROVE  Num(s, {m}) \in Nat /\ (Num(s, {m}) > 0 <=> Within(m, s))
<1>1. Num(s, {m}) \in Nat /\ (Num(s, {m}) > 0 <=> Has(s, {m})) BY NumType
<1>2. Has(s, {m}) <=> Within(m, s) BY DEF Has, Within
<1> QED BY <1>1, <1>2

\* and is in a concatenation when it is in either part.
LEMMA WithinConcat ==
  ASSUME NEW T, NEW s \in Seq(T), NEW d \in Seq(T), NEW m
  PROVE  s \o d \in Seq(T) /\ (Within(m, s \o d) <=> Within(m, s) \/ Within(m, d))
<1>1. s \o d \in Seq(T) OBVIOUS
<1>2. Has(s \o d, {m}) <=> Has(s, {m}) \/ Has(d, {m}) BY ConcatHas
<1>3. \A r \in Seq(T) : Has(r, {m}) <=> Within(m, r) BY DEF Has, Within
<1> QED BY <1>1, <1>2, <1>3

\* One payload of one sender is one message.
LEMMA LoneSets ==
  \A p, x : From(p, {x}) = {Offered(p, x)} /\ To(p, {x}) = {Offering(p, x)}
BY DEF From, To

\* A payload under way is one that counts,
LEMMA UnderWayNow ==
  ASSUME Types, NEW p \in Process, NEW q \in Process, NEW x
  PROVE  UnderWay(p, q, x) <=> Flying(p, q, {x}) > 0
<1> DEFINE T == Message \cup {Exit}
           s == queue[p]
           d == down[p]
           u == up[q]
           m == Offered(q, x)
           n == Offering(p, x)
<1>1. s \in Seq(T) /\ d \in Seq(T) BY NewsType
<1>2. u \in Seq(Request) BY DEF Types
<1>3. Flying(p, q, {x}) = Num(s \o d, {m}) + Num(u, {n})
  BY LoneSets DEF Flying, News
<1>4. UnderWay(p, q, x) <=> Within(m, s) \/ Within(m, d) \/ Within(n, u)
  BY DEF UnderWay, Within, Offered, Offering
<1> HIDE DEF T, s, d, u, m, n
<1>5. s \o d \in Seq(T) /\ (Within(m, s \o d) <=> Within(m, s) \/ Within(m, d))
  BY <1>1, WithinConcat
<1>6. Num(s \o d, {m}) \in Nat /\ (Num(s \o d, {m}) > 0 <=> Within(m, s \o d))
  BY <1>5, WithinNum
<1>7. Num(u, {n}) \in Nat /\ (Num(u, {n}) > 0 <=> Within(n, u)) BY <1>2, WithinNum
<1> QED BY <1>3, <1>4, <1>5, <1>6, <1>7

\* after a step too.
LEMMA UnderWayNext ==
  ASSUME Types', NEW p \in Process, NEW q \in Process, NEW x
  PROVE  UnderWay(p, q, x)' <=> Flying(p, q, {x})' > 0
<1> DEFINE T == Message \cup {Exit}
           s == queue'[p]
           d == down'[p]
           u == up'[q]
           m == Offered(q, x)
           n == Offering(p, x)
<1>1. s \in Seq(T) /\ d \in Seq(T)
  <2>1. down'[p] \in Seq(Message) BY DEF Types
  <2> QED BY <2>1 DEF Types
<1>2. u \in Seq(Request) BY DEF Types
<1>3. Flying(p, q, {x})' = Num(s \o d, {m}) + Num(u, {n})
  BY LoneSets DEF Flying, News
<1>4. UnderWay(p, q, x)' <=> Within(m, s) \/ Within(m, d) \/ Within(n, u)
  BY DEF UnderWay, Within, Offered, Offering
<1> HIDE DEF T, s, d, u, m, n
<1>5. s \o d \in Seq(T) /\ (Within(m, s \o d) <=> Within(m, s) \/ Within(m, d))
  BY <1>1, WithinConcat
<1>6. Num(s \o d, {m}) \in Nat /\ (Num(s \o d, {m}) > 0 <=> Within(m, s \o d))
  BY <1>5, WithinNum
<1>7. Num(u, {n}) \in Nat /\ (Num(u, {n}) > 0 <=> Within(n, u)) BY <1>2, WithinNum
<1> QED BY <1>3, <1>4, <1>5, <1>6, <1>7

\* How far the client and the server have come with each other.
Caller(c) == CallerStage(conductor[c][Server])
Callee(c) == CalleeStage(conductor[Server][c])

\* What is on the wire between a client and the server, as a count.
LEMMA WireNow ==
  ASSUME Types, NEW c \in Client
  PROVE  /\ OnWire(c) \subseteq {"offer", "answer"}
         /\ "offer" \in OnWire(c) <=> Flying(Server, c, {"offer"}) > 0
         /\ "answer" \in OnWire(c) <=> Flying(c, Server, {"answer"}) > 0
<1>1. c \in Process /\ Server \in Process BY DEF Process
<1> QED BY <1>1, UnderWayNow DEF OnWire

\* The same of the state after a step.
LEMMA WireNext ==
  ASSUME Types', NEW c \in Client
  PROVE  /\ OnWire(c)' \subseteq {"offer", "answer"}
         /\ "offer" \in OnWire(c)' <=> Flying(Server, c, {"offer"})' > 0
         /\ "answer" \in OnWire(c)' <=> Flying(c, Server, {"answer"})' > 0
<1>1. c \in Process /\ Server \in Process BY DEF Process
<1> QED BY <1>1, UnderWayNext DEF OnWire

\* A step of a client's attempt, or none.
Attempt(c) ==
    \/ Meeting!Call(c) \/ Meeting!BeCalled(c) \/ Meeting!Answer(c) \/ Meeting!Connect(c)
    \/ Meeting!Fail(c)

\* What each action of Rendezvous asks of one client, in the terms of Signaling.
LEMMA MeetsWhen ==
  ASSUME NEW c \in Client
  PROVE  /\ /\ Caller(c) = "apart" /\ Caller(c)' \in {"begun", "apart"}
            /\ Callee(c) = "apart" /\ Callee(c)' = Callee(c)
            /\ OnWire(c) = {} /\ OnWire(c)' \in {{}, {"offer"}}
            => Attempt(c)
         /\ /\ Callee(c) = "apart" /\ Callee(c)' = "begun"
            /\ "offer" \in OnWire(c) /\ OnWire(c)' = OnWire(c) \ {"offer"}
            /\ Caller(c)' = Caller(c)
            => Attempt(c)
         /\ /\ Callee(c) = "begun" /\ Callee(c)' \in {"connected", "apart"}
            /\ "offer" \notin OnWire(c)
            /\ \/ OnWire(c)' = OnWire(c)
               \/ /\ "answer" \notin OnWire(c) /\ OnWire(c)' = OnWire(c) \cup {"answer"}
                  /\ Caller(c) # "connected"
            /\ Caller(c)' = Caller(c)
            => Attempt(c)
         /\ /\ Caller(c) = "begun" /\ Caller(c)' = "connected"
            /\ "answer" \in OnWire(c) /\ OnWire(c)' = OnWire(c) \ {"answer"}
            /\ Callee(c)' = Callee(c)
            => Attempt(c)
         /\ /\ Caller(c)' \in {Caller(c), "apart"} /\ Callee(c)' \in {Callee(c), "apart"}
            /\ OnWire(c)' \subseteq OnWire(c)
            => Attempt(c)
BY DEF Attempt, Meeting!Call, Meeting!BeCalled, Meeting!Answer, Meeting!Connect, Meeting!Fail,
       Meeting!Sends, Caller, Callee

\* A client is not the server: the one offers, and the other answers.
LEMMA ClientFacts ==
  ASSUME NEW c \in Client
  PROVE  /\ c \in Process /\ Server \in Process /\ c # Server
         /\ Ours(c) = "offer" /\ Theirs(c) = "answer"
         /\ Ours(Server) = "answer" /\ Theirs(Server) = "offer"
         /\ {"offer"} \in SUBSET Offers /\ {"answer"} \in SUBSET Offers
         /\ {"offer"} \in SUBSET Payload /\ {"answer"} \in SUBSET Payload
<1>1. c # Server BY ServerAssumption
<1> QED BY <1>1 DEF Process, Ours, Theirs, Offers, Payload

\* The counts that the wire is made of.
LEMMA WireCounted ==
  ASSUME Types, Types', NEW c \in Client
  PROVE  /\ Flying(Server, c, {"offer"}) \in Nat /\ Flying(Server, c, {"offer"})' \in Nat
         /\ Flying(c, Server, {"answer"}) \in Nat /\ Flying(c, Server, {"answer"})' \in Nat
<1>1. c \in Process /\ Server \in Process BY ClientFacts
<1>2. /\ Counted(c, Server) /\ Counted(c, Server)'
      /\ Counted(Server, c) /\ Counted(Server, c)'
  BY <1>1, CountedNow, CountedNext
<1>3. {"offer"} \in SUBSET Offers /\ {"answer"} \in SUBSET Offers BY ClientFacts
<1> QED BY <1>1, <1>2, <1>3, OffersCounted, OffersCountedNext

\* Where less flies, less is on the wire.
LEMMA WireShrinks ==
  ASSUME Types, Types', NEW c \in Client,
         Flying(Server, c, {"offer"})' <= Flying(Server, c, {"offer"}),
         Flying(c, Server, {"answer"})' <= Flying(c, Server, {"answer"})
  PROVE  OnWire(c)' \subseteq OnWire(c)
<1>1. Flying(Server, c, {"offer"})' > 0 => Flying(Server, c, {"offer"}) > 0 BY WireCounted
<1>2. Flying(c, Server, {"answer"})' > 0 => Flying(c, Server, {"answer"}) > 0 BY WireCounted
<1>3. "offer" \in OnWire(c)' => "offer" \in OnWire(c) BY <1>1, WireNow, WireNext
<1>4. "answer" \in OnWire(c)' => "answer" \in OnWire(c) BY <1>2, WireNow, WireNext
<1> QED BY <1>3, <1>4, WireNext

\* Conductors that keep their descriptions, or lose them, stay in Rendezvous or
\* fail.
LEMMA StaysStages ==
  ASSUME NEW c, NEW e, Stays(c, e)
  PROVE  /\ CallerStage(e) \in {CallerStage(c), "apart"}
         /\ CalleeStage(e) \in {CalleeStage(c), "apart"}
BY DEF Stays, CallerStage, CalleeStage

\* When neither talks, either side fails, or nothing happens.
LEMMA IdleMeets ==
  ASSUME Types, Types', NEW c \in Client, Idle(c, Server), Idle(Server, c)
  PROVE  Attempt(c)
<1>1. {"offer"} \in SUBSET Offers /\ {"answer"} \in SUBSET Offers BY ClientFacts
<1>2. OnWire(c)' \subseteq OnWire(c) BY <1>1, WireShrinks DEF Idle
<1>3. /\ Stays(conductor[c][Server], conductor'[c][Server])
      /\ Stays(conductor[Server][c], conductor'[Server][c])
  BY DEF Idle
<1>4. Caller(c)' \in {Caller(c), "apart"} /\ Callee(c)' \in {Callee(c), "apart"}
  BY <1>3, StaysStages DEF Caller, Callee
<1> QED BY <1>2, <1>4, MeetsWhen

\* A client's OnSuccess is Call,
LEMMA CallMeets ==
  ASSUME Types, Types', Agree, AllOrderly, NEW c \in Client, Describes(c, Server)
  PROVE  Attempt(c)
<1> DEFINE k == conductor[c][Server]
           e == conductor'[c][Server]
<1>1. c \in Process /\ Server \in Process /\ c # Server /\ k \in Sound
  BY ClientFacts DEF Types
<1>2. AllRole /\ AllStill /\ Opening(c, Server) BY <1>1 DEF Agree, AllOrderly
<1>3. /\ k.creating # "none" /\ k.local = "none" /\ e = Described(k)
      /\ conductor'[Server][c] = conductor[Server][c]
      /\ \A P \in SUBSET Payload : Flying(c, Server, P)' = Flying(c, Server, P)
  BY <1>1, <1>2, DescribesFlow DEF Describes
<1>4. Quiet(c, Server) /\ Quiet(Server, c) BY <1>1, <1>2, <1>3 DEF Opening, Offerer
<1>5. Caller(c) = "apart" /\ Caller(c)' \in {"begun", "apart"}
  <2>1. e.local = "none" \/ e.theirs = "none"
    <3>1. k.theirs = "none" BY <1>4 DEF Quiet
    <3> HIDE DEF k, e
    <3> QED BY <1>1, <1>3, <3>1, DescribedFacts, NoConductorFacts
  <2> QED BY <1>3, <2>1 DEF Caller, CallerStage
<1>6. Callee(c) = "apart" /\ Callee(c)' = Callee(c)
  BY <1>3, <1>4 DEF Quiet, Callee, CalleeStage
<1>7. OnWire(c) = {} /\ "answer" \notin OnWire(c)'
  <2>1. Flying(Server, c, {"offer"}) = 0 /\ Flying(c, Server, {"answer"}) = 0
    BY <1>1, <1>4, ClientFacts, SilentNow DEF Quiet
  <2>2. Flying(c, Server, {"answer"})' = 0 BY <1>3, <2>1, ClientFacts
  <2> QED BY <2>1, <2>2, WireNow, WireNext
<1>8. OnWire(c)' \in {{}, {"offer"}} BY <1>7, WireNext
<1> QED BY <1>5, <1>6, <1>7, <1>8, MeetsWhen

\* the server's is Answer,
LEMMA AnswerMeets ==
  ASSUME Types, Types', Agree, AllOrderly, NEW c \in Client, Describes(Server, c)
  PROVE  Attempt(c)
<1> DEFINE k == conductor[Server][c]
           e == conductor'[Server][c]
<1>1. c \in Process /\ Server \in Process /\ c # Server /\ k \in Sound
  BY ClientFacts DEF Types
<1>2. AllRole /\ AllStill /\ Single(Server, c) BY <1>1 DEF Agree, AllOrderly
<1>3. /\ k.creating # "none" /\ k.creating = Ours(Server) /\ k.local = "none" /\ k.theirs # "none"
      /\ e = Described(k)
      /\ conductor'[c][Server] = conductor[c][Server]
      /\ \A P \in SUBSET Payload : Flying(Server, c, P)' = Flying(Server, c, P)
      /\ \/ \A P \in SUBSET Payload : Flying(c, Server, P)' = Flying(c, Server, P)
         \/ /\ conductor[c][Server].theirs = "none"
            /\ \A P \in SUBSET Offers :
                   /\ Flying(c, Server, P) = 0
                   /\ Flying(c, Server, P)' = IF Ours(Server) \in P THEN 1 ELSE 0
  BY <1>1, <1>2, DescribesFlow DEF Describes
<1>4. Callee(c) = "begun" /\ Callee(c)' \in {"connected", "apart"}
  <2>1. e.theirs = "none" \/ (e.theirs # "none" /\ e.local # "none")
    <3> HIDE DEF k, e
    <3> QED BY <1>1, <1>3, DescribedFacts, NoConductorFacts
  <2> QED BY <1>3, <2>1 DEF Callee, CalleeStage
<1>5. Caller(c)' = Caller(c) BY <1>3 DEF Caller
<1>6. "offer" \in OnWire(c)' <=> "offer" \in OnWire(c)
  BY <1>3, ClientFacts, WireNow, WireNext
<1>7. \/ "answer" \in OnWire(c)' <=> "answer" \in OnWire(c)
      \/ "answer" \notin OnWire(c) /\ "answer" \in OnWire(c)' /\ Caller(c) # "connected"
  BY <1>3, ClientFacts, WireNow, WireNext DEF Caller, CallerStage
<1>8. \/ OnWire(c)' = OnWire(c)
      \/ /\ "answer" \notin OnWire(c) /\ OnWire(c)' = OnWire(c) \cup {"answer"}
         /\ Caller(c) # "connected"
  BY <1>6, <1>7, WireNow, WireNext
<1>9. "offer" \notin OnWire(c)
  <2>1. /\ Flying(Server, c, {"offer"}) <= Flying(Server, c, Offers)
        /\ Flying(Server, c, Offers) = 0
    <3>1. "offer" \in Offers BY DEF Offers
    <3> QED BY <1>1, <1>2, <1>3, <3>1, LoneOffer DEF Single
  <2> QED BY <2>1, WireCounted, WireNow
<1> QED BY <1>4, <1>5, <1>8, <1>9, MeetsWhen

\* the OnReceivedOffer that takes an offer is BeCalled,
LEMMA BeCalledMeets ==
  ASSUME Types, Types', Agree, AllOrderly, NEW c \in Client, Hears(Server, c)
  PROVE  Attempt(c)
<1> DEFINE k == conductor[Server][c]
           e == conductor'[Server][c]
<1>1. c \in Process /\ Server \in Process BY ClientFacts
<1>2. AllRole /\ Single(Server, c) BY <1>1 DEF Agree, AllOrderly
<1>3. /\ conductor'[c][Server] = conductor[c][Server]
      /\ \A P \in SUBSET Payload : Flying(c, Server, P)' = Flying(c, Server, P)
  BY <1>1, <1>2, HearsFlow
<1>4. PICK x \in Payload :
         /\ \A P \in SUBSET Payload :
               Flying(Server, c, P) = (IF x \in P THEN 1 ELSE 0) + Flying(Server, c, P)'
         /\ \/ Stays(k, e)
            \/ /\ x = Theirs(Server) /\ k.theirs = "none" /\ k.local = "none"
               /\ e.local = k.local /\ e.theirs = x
  BY <1>1, <1>2, HearsFlow
<1>5. Caller(c)' = Caller(c) BY <1>3 DEF Caller
<1>6. Flying(c, Server, {"answer"})' = Flying(c, Server, {"answer"}) BY <1>3, ClientFacts
<1>7. Flying(Server, c, {"offer"}) =
         (IF x = "offer" THEN 1 ELSE 0) + Flying(Server, c, {"offer"})'
  BY <1>4, ClientFacts
<1>8. CASE Stays(k, e)
  <2>1. OnWire(c)' \subseteq OnWire(c) BY <1>6, <1>7, WireCounted, WireShrinks
  <2>2. Callee(c)' \in {Callee(c), "apart"} BY <1>8, StaysStages DEF Callee
  <2> QED BY <1>5, <2>1, <2>2, MeetsWhen
<1>9. CASE x = "offer" /\ k.theirs = "none" /\ k.local = "none"
           /\ e.local = k.local /\ e.theirs = x
  <2>1. Callee(c) = "apart" /\ Callee(c)' = "begun" BY <1>9 DEF Callee, CalleeStage
  <2>2. Flying(Server, c, {"offer"}) <= 1
    <3>1. "offer" \in Offers BY DEF Offers
    <3>2. /\ Flying(Server, c, {"offer"}) <= Flying(Server, c, Offers)
          /\ Flying(Server, c, {"offer"}) \in Nat /\ Flying(Server, c, Offers) \in Nat
      BY <1>1, <3>1, LoneOffer
    <3>3. Flying(Server, c, Offers) <= 1 BY <1>2 DEF Single
    <3> QED BY <3>2, <3>3
  <2>3. "offer" \in OnWire(c) /\ "offer" \notin OnWire(c)'
    BY <1>7, <1>9, <2>2, WireCounted, WireNow, WireNext
  <2>4. "answer" \in OnWire(c)' <=> "answer" \in OnWire(c) BY <1>6, WireNow, WireNext
  <2>5. OnWire(c)' = OnWire(c) \ {"offer"} BY <2>3, <2>4, WireNow, WireNext
  <2> QED BY <1>5, <2>1, <2>3, <2>5, MeetsWhen
<1> QED BY <1>4, <1>8, <1>9, ClientFacts

\* and the one that takes an answer is Connect.
LEMMA ConnectMeets ==
  ASSUME Types, Types', Agree, AllOrderly, NEW c \in Client, Hears(c, Server)
  PROVE  Attempt(c)
<1> DEFINE k == conductor[c][Server]
           e == conductor'[c][Server]
<1>1. c \in Process /\ Server \in Process /\ c # Server BY ClientFacts
<1>2. AllRole /\ Single(c, Server) BY <1>1 DEF Agree, AllOrderly
<1>3. /\ conductor'[Server][c] = conductor[Server][c]
      /\ \A P \in SUBSET Payload : Flying(Server, c, P)' = Flying(Server, c, P)
  BY <1>1, <1>2, HearsFlow
<1>4. PICK x \in Payload :
         /\ \A P \in SUBSET Payload :
               Flying(c, Server, P) = (IF x \in P THEN 1 ELSE 0) + Flying(c, Server, P)'
         /\ \/ Stays(k, e)
            \/ /\ x = Theirs(c) /\ k.theirs = "none" /\ k.local = "offer"
               /\ e.local = k.local /\ e.theirs = x
  BY <1>1, <1>2, HearsFlow
<1>5. Callee(c)' = Callee(c) BY <1>3 DEF Callee
<1>6. Flying(Server, c, {"offer"})' = Flying(Server, c, {"offer"}) BY <1>3, ClientFacts
<1>7. Flying(c, Server, {"answer"}) =
         (IF x = "answer" THEN 1 ELSE 0) + Flying(c, Server, {"answer"})'
  BY <1>4, ClientFacts
<1>8. CASE Stays(k, e)
  <2>1. OnWire(c)' \subseteq OnWire(c) BY <1>6, <1>7, WireCounted, WireShrinks
  <2>2. Caller(c)' \in {Caller(c), "apart"} BY <1>8, StaysStages DEF Caller
  <2> QED BY <1>5, <2>1, <2>2, MeetsWhen
<1>9. CASE x = "answer" /\ k.theirs = "none" /\ k.local = "offer"
           /\ e.local = k.local /\ e.theirs = x
  <2>1. Caller(c) = "begun" /\ Caller(c)' = "connected" BY <1>9 DEF Caller, CallerStage
  <2>2. Flying(c, Server, {"answer"}) <= 1
    <3>1. "answer" \in Offers BY DEF Offers
    <3>2. /\ Flying(c, Server, {"answer"}) <= Flying(c, Server, Offers)
          /\ Flying(c, Server, {"answer"}) \in Nat /\ Flying(c, Server, Offers) \in Nat
      BY <1>1, <3>1, LoneOffer
    <3>3. Flying(c, Server, Offers) <= 1 BY <1>2 DEF Single
    <3> QED BY <3>2, <3>3
  <2>3. "answer" \in OnWire(c) /\ "answer" \notin OnWire(c)'
    BY <1>7, <1>9, <2>2, WireCounted, WireNow, WireNext
  <2>4. "offer" \in OnWire(c)' <=> "offer" \in OnWire(c) BY <1>6, WireNow, WireNext
  <2>5. OnWire(c)' = OnWire(c) \ {"answer"} BY <2>3, <2>4, WireNow, WireNext
  <2> QED BY <1>5, <2>1, <2>3, <2>5, MeetsWhen
<1> QED BY <1>4, <1>8, <1>9, ClientFacts

\* Every step is, for each client, a step of Rendezvous.
LEMMA StepMeets ==
  ASSUME Types, Types', OneFate, Agree, AllOrderly, Next, NEW c \in Client
  PROVE  Attempt(c)
<1>1. c \in Process /\ Server \in Process BY ClientFacts
<1>2. Seen(c, Server) /\ Seen(Server, c) BY <1>1, StepSeen DEF Agree
<1>3. CASE ~Talks(c, Server)
  <2>1. ~Talks(Server, c) BY <1>3 DEF Talks
  <2> QED BY <1>1, <1>2, <1>3, <2>1, IdleStep, IdleMeets
<1> QED BY <1>3, CallMeets, AnswerMeets, BeCalledMeets, ConnectMeets DEF Talks
-----------------------------------------------------------------------------
(* The refinement.                                                         *)

\* AllOrderly holds at first,
LEMMA InitOrderly == Init => AllOrderly
<1> SUFFICES ASSUME Init, NEW p \in Process, NEW q \in Process
             PROVE  Single(p, q) /\ Opening(p, q)
  BY DEF AllOrderly
<1>1. conductor[p][q] = NoConductor /\ conductor[q][p] = NoConductor BY DEF Init
<1>2. News(p) = <<>> /\ News(q) = <<>> /\ up[q] = <<>> /\ up[p] = <<>> BY DEF Init, News
<1>3. \A P : Flying(p, q, P) = 0 /\ Flying(q, p, P) = 0 BY <1>2, NumNone DEF Flying
<1> QED BY <1>1, <1>3, NoConductorFacts DEF Single, Opening, Quiet, Silent

\* and every step keeps it.
LEMMA NextOrderly == Types /\ OneFate /\ Agree /\ AllOrderly /\ [Next]_vars => AllOrderly'
<1> SUFFICES ASSUME Types, OneFate, Agree, AllOrderly, [Next]_vars PROVE AllOrderly' OBVIOUS
<1>1. CASE Next
  <2>1. Types' BY <1>1, NextTypes
  <2> QED BY <1>1, <2>1, StepSingle, StepOpening DEF AllOrderly
<1>2. CASE UNCHANGED vars
  <2>1. conductor' = conductor /\ queue' = queue /\ down' = down /\ up' = up BY <1>2 DEF vars
  <2> QED BY <2>1 DEF AllOrderly, Single, Opening, Offerer, Quiet, Silent, Pending, Calls,
                      Flying, News
<1> QED BY <1>1, <1>2

\* At first everyone is apart.
LEMMA InitMeets == Init => Meeting!Init
<1> SUFFICES ASSUME Init PROVE Meeting!Init OBVIOUS
<1>1. ASSUME NEW c \in Client
      PROVE  Caller(c) = "apart" /\ Callee(c) = "apart" /\ OnWire(c) = {}
  <2>1. c \in Process /\ Server \in Process BY ClientFacts
  <2>2. conductor[c][Server] = NoConductor /\ conductor[Server][c] = NoConductor
    BY <2>1 DEF Init
  <2>3. Caller(c) = "apart" /\ Callee(c) = "apart"
    BY <2>2, NoConductorFacts DEF Caller, Callee, CallerStage, CalleeStage
  <2>4. \A p \in Process : queue[p] = <<>> /\ down[p] = <<>> /\ up[p] = <<>> BY DEF Init
  <2>5. \A p, q \in Process : \A x : ~UnderWay(p, q, x) BY <2>4 DEF UnderWay
  <2> QED BY <2>1, <2>3, <2>5 DEF OnWire
<1> QED BY <1>1 DEF Meeting!Init, Caller, Callee

\* Every step is one of Rendezvous, or changes nothing that it shows.
LEMMA NextMeets ==
  Types /\ OneFate /\ Agree /\ AllOrderly /\ [Next]_vars => [Meeting!Next]_Meeting!vars
<1> SUFFICES ASSUME Types, OneFate, Agree, AllOrderly, [Next]_vars
             PROVE  [Meeting!Next]_Meeting!vars
  OBVIOUS
<1>1. CASE Next
  <2>1. Types' BY <1>1, NextTypes
  <2>2. \A c \in Client : Attempt(c) BY <1>1, <2>1, StepMeets
  <2>3. \A c \in Client : /\ CallerStage(conductor'[c][Server]) \in Meeting!Stage
                          /\ CalleeStage(conductor'[Server][c]) \in Meeting!Stage
                          /\ OnWire(c)' \in SUBSET {"offer", "answer"}
    BY <2>1, WireNext DEF CallerStage, CalleeStage, Meeting!Stage
  <2>4. Meeting!Next BY <2>2, <2>3 DEF Meeting!Next, Attempt
  <2> QED BY <2>4
<1>2. CASE UNCHANGED vars
  <2>1. conductor' = conductor /\ queue' = queue /\ up' = up /\ down' = down BY <1>2 DEF vars
  <2>2. \A c \in Client : OnWire(c)' = OnWire(c) BY <2>1 DEF OnWire, UnderWay
  <2>3. UNCHANGED Meeting!vars BY <2>1, <2>2 DEF Meeting!vars
  <2> QED BY <2>3
<1> QED BY <1>1, <1>2

\* The handlers of the processes, with the signal server and their failures,
\* implement Rendezvous: a client that offers finds nothing left of an earlier
\* attempt, its Conductor sets a remote description that answers its own offer and
\* no other, the server's answers an offer of that client, and no description is
\* heard that was not sent, or heard twice.  This holds for every number of clients
\* and of candidates, and whatever of MayFail happens.
THEOREM SignalingImplementsRendezvous == Spec => ImplementsRendezvous
<1> DEFINE Inv == Types /\ OneFate /\ Agree /\ AllOrderly
<1>1. Init => Inv BY InitTypes, InitFates, InitAgree, InitOrderly
<1>2. Inv /\ [Next]_vars => Inv' BY NextTypes, NextFates, NextAgree, NextOrderly
<1>3. Init => Meeting!Init BY InitMeets
<1>4. Inv /\ [Next]_vars => [Meeting!Next]_Meeting!vars BY NextMeets
<1> QED BY <1>1, <1>2, <1>3, <1>4, PTL DEF Spec, ImplementsRendezvous, Meeting!Spec
=============================================================================

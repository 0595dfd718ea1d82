------------------------- MODULE NegotiationProofs --------------------------
(*****************************************************************************)
(* A theorem about Signaling: each description and each candidate finds the  *)
(* PeerConnection that it reaches in the state it needs. The invariant is of *)
(* each pair: who has met whom, who offers and who answers, who has said     *)
(* nothing yet, and what is on its way.                                      *)
(*****************************************************************************)
EXTENDS NegotiationSteps

-----------------------------------------------------------------------------
(* What is on its way from q to p.                                         *)

\* The descriptions of q among the news and among what the signal server has
\* yet to pass on to p, and what comes after what.
Due(p, q) == Num(News(p), From(q, Offers))
Sent(p, q) == Num(up[q], To(p, Offers))
CallLed(p, q) == Led(News(p), {Joined(q)}, From(q, Payload))
NewsLed(p, q) == Led(News(p), From(q, Offers), From(q, Cands))
UpLed(p, q) == Led(up[q], To(p, Offers), To(p, Cands))

Counted(p, q) ==
    /\ \A P : Num(News(p), From(q, P)) \in Nat /\ Num(up[q], To(p, P)) \in Nat
    /\ Calls(p, q) \in Nat /\ Due(p, q) \in Nat /\ Sent(p, q) \in Nat
    /\ Flying(p, q, Offers) = Due(p, q) + Sent(p, q)
    /\ Flying(p, q, Payload) \in Nat /\ Flying(p, q, Cands) \in Nat
    /\ Flying(p, q, {Ours(p)}) \in Nat
    /\ Silent(p, q) =>
          /\ Flying(p, q, Offers) = 0 /\ Flying(p, q, Cands) = 0 /\ Flying(p, q, {Ours(p)}) = 0
          /\ CallLed(p, q) /\ NewsLed(p, q) /\ UpLed(p, q)

\* A count grows with the set that counts.
LEMMA NumLess ==
  ASSUME NEW T, NEW s \in Seq(T), NEW C, NEW D, C \subseteq D
  PROVE  Num(s, C) <= Num(s, D)
<1> DEFINE A == {i \in 1..Len(s) : s[i] \in C}
           B == {i \in 1..Len(s) : s[i] \in D}
<1>1. IsFiniteSet(B)
  <2>1. Len(s) \in Nat /\ B \subseteq 1..Len(s) OBVIOUS
  <2>2. IsFiniteSet(1..Len(s)) BY <2>1, FS_Interval
  <2> QED BY <2>1, <2>2, FS_Subset
<1>2. A \subseteq B OBVIOUS
<1> HIDE DEF A, B
<1>3. Cardinality(A) <= Cardinality(B) BY <1>1, <1>2, FS_Subset
<1> QED BY <1>3 DEF A, B, Num

\* Where nothing of C is, each subset of C is led.
LEMMA NumLed ==
  ASSUME NEW T, NEW s \in Seq(T), NEW C, Num(s, C) = 0, NEW D, NEW E, E \subseteq C
  PROVE  Led(s, D, E)
<1>1. ~Has(s, C) BY NumType
<1> QED BY <1>1 DEF Has, Led

\* The counts of any news n and requests u.
LEMMA FlowSeq ==
  ASSUME NEW p \in Process, NEW q \in Process,
         NEW n \in Seq(Message \cup {Exit}), NEW u \in Seq(Request)
  PROVE  /\ Num(n, {Joined(q)}) \in Nat
         /\ \A P : Num(n, From(q, P)) \in Nat /\ Num(u, To(p, P)) \in Nat
         /\ \A P, R : P \subseteq R => /\ Num(n, From(q, P)) <= Num(n, From(q, R))
                                       /\ Num(u, To(p, P)) <= Num(u, To(p, R))
         /\ Num(n, From(q, Payload)) = 0 =>
               Led(n, {Joined(q)}, From(q, Payload)) /\ Led(n, From(q, Offers), From(q, Cands))
         /\ Num(u, To(p, Payload)) = 0 => Led(u, To(p, Offers), To(p, Cands))
<1>1. \A D : Num(n, D) \in Nat /\ Num(u, D) \in Nat BY NumType
<1>2. \A P, R : P \subseteq R => From(q, P) \subseteq From(q, R) /\ To(p, P) \subseteq To(p, R)
  BY DEF From, To
<1>3. Cands \subseteq Payload /\ Payload \subseteq Payload BY DEF Cands, Payload
<1>4. \A P, R : P \subseteq R => /\ Num(n, From(q, P)) <= Num(n, From(q, R))
                                 /\ Num(u, To(p, P)) <= Num(u, To(p, R))
  BY <1>2, NumLess
<1>5. Num(n, From(q, Payload)) = 0 =>
          Led(n, {Joined(q)}, From(q, Payload)) /\ Led(n, From(q, Offers), From(q, Cands))
  BY <1>2, <1>3, NumLed
<1>6. Num(u, To(p, Payload)) = 0 => Led(u, To(p, Offers), To(p, Cands))
  BY <1>2, <1>3, NumLed
<1> QED BY <1>1, <1>4, <1>5, <1>6

\* Payloads are descriptions or candidates.
LEMMA PayloadSets ==
  ASSUME NEW p \in Process
  PROVE  /\ Offers \in SUBSET Payload /\ Cands \in SUBSET Payload /\ {Ours(p)} \in SUBSET Payload
         /\ Payload \in SUBSET Payload /\ Ours(p) \in Offers /\ Offers \cap Cands = {}
         /\ \A x \in Payload : x \in Offers \/ x \in Cands
         /\ "candidate" \in Payload /\ "candidate" \in Cands /\ "candidate" # Ours(p)
BY DEF Offers, Cands, Payload, Ours

\* The counts of a state,
LEMMA CountedNow ==
  ASSUME Types, NEW p \in Process, NEW q \in Process
  PROVE  Counted(p, q)
<1>1. News(p) \in Seq(Message \cup {Exit}) /\ up[q] \in Seq(Request) BY NewsType DEF Types
<1>2. Offers \subseteq Payload /\ Cands \subseteq Payload /\ {Ours(p)} \subseteq Payload
  BY PayloadSets
<1> DEFINE n == News(p)
           u == up[q]
<1>3. n \in Seq(Message \cup {Exit}) /\ u \in Seq(Request) BY <1>1
<1> HIDE DEF n, u
<1>4. /\ Num(n, {Joined(q)}) \in Nat
      /\ \A P : Num(n, From(q, P)) \in Nat /\ Num(u, To(p, P)) \in Nat
      /\ \A P, R : P \subseteq R => /\ Num(n, From(q, P)) <= Num(n, From(q, R))
                                    /\ Num(u, To(p, P)) <= Num(u, To(p, R))
      /\ Num(n, From(q, Payload)) = 0 =>
            Led(n, {Joined(q)}, From(q, Payload)) /\ Led(n, From(q, Offers), From(q, Cands))
      /\ Num(u, To(p, Payload)) = 0 => Led(u, To(p, Offers), To(p, Cands))
  BY <1>3, FlowSeq
<1> QED BY <1>2, <1>4 DEF Counted, Calls, Due, Sent, Flying, Silent, CallLed, NewsLed, UpLed, n, u

\* and of the state after it.
LEMMA CountedNext ==
  ASSUME Types', NEW p \in Process, NEW q \in Process
  PROVE  Counted(p, q)'
<1>1. News(p)' \in Seq(Message \cup {Exit}) /\ up'[q] \in Seq(Request)
  <2>1. queue'[p] \in Seq(Message \cup {Exit}) /\ down'[p] \in Seq(Message) /\ up'[q] \in Seq(Request)
    BY DEF Types
  <2>2. down'[p] \in Seq(Message \cup {Exit})
    <3> DEFINE d == down'[p]
    <3>1. d \in Seq(Message) BY <2>1
    <3> HIDE DEF d
    <3>2. d \in Seq(Message \cup {Exit}) BY <3>1
    <3> QED BY <3>2 DEF d
  <2> DEFINE T == Message \cup {Exit}
             s == queue'[p]
             d == down'[p]
  <2>3. s \in Seq(T) /\ d \in Seq(T) BY <2>1, <2>2
  <2> HIDE DEF T, s, d
  <2>4. s \o d \in Seq(T) BY <2>3, ConcatProperties
  <2> QED BY <2>1, <2>4 DEF News, s, d, T
<1>2. Offers \subseteq Payload /\ Cands \subseteq Payload /\ {Ours(p)} \subseteq Payload
  BY PayloadSets
<1> DEFINE n == News(p)'
           u == up'[q]
<1>3. n \in Seq(Message \cup {Exit}) /\ u \in Seq(Request) BY <1>1
<1> HIDE DEF n, u
<1>4. /\ Num(n, {Joined(q)}) \in Nat
      /\ \A P : Num(n, From(q, P)) \in Nat /\ Num(u, To(p, P)) \in Nat
      /\ \A P, R : P \subseteq R => /\ Num(n, From(q, P)) <= Num(n, From(q, R))
                                    /\ Num(u, To(p, P)) <= Num(u, To(p, R))
      /\ Num(n, From(q, Payload)) = 0 =>
            Led(n, {Joined(q)}, From(q, Payload)) /\ Led(n, From(q, Offers), From(q, Cands))
      /\ Num(u, To(p, Payload)) = 0 => Led(u, To(p, Offers), To(p, Cands))
  BY <1>3, FlowSeq
<1> QED BY <1>2, <1>4 DEF Counted, Calls, Due, Sent, Flying, Silent, CallLed, NewsLed, UpLed, n, u
-----------------------------------------------------------------------------
(* How each event of a pair changes what is on its way to p.               *)

\* Nothing passes.
LEMMA FlowKept ==
  ASSUME NEW p \in Process, NEW q \in Process, Alike(News(p), News(p)', About(q)),
         up'[q] = up[q]
  PROVE  /\ Calls(p, q)' = Calls(p, q) /\ Due(p, q)' = Due(p, q) /\ Sent(p, q)' = Sent(p, q)
         /\ \A P \in SUBSET Payload : Flying(p, q, P)' = Flying(p, q, P)
         /\ CallLed(p, q) => CallLed(p, q)'
         /\ NewsLed(p, q) => NewsLed(p, q)'
         /\ UpLed(p, q) => UpLed(p, q)'
<1>1. /\ {Joined(q)} \in SUBSET About(q)
      /\ \A P \in SUBSET Payload : From(q, P) \in SUBSET About(q)
  BY AboutFacts
<1>2. Offers \in SUBSET Payload /\ Cands \in SUBSET Payload /\ Payload \in SUBSET Payload
  BY PayloadSets
<1> QED BY <1>1, <1>2 DEF Alike, Calls, Due, Sent, Flying, CallLed, NewsLed, UpLed

\* What was on its way may be lost, but not from between members that stay open.
LEMMA FlowCalm ==
  ASSUME NEW p \in Process, NEW q \in Process, NewsKept(p, q), UpKept(p, q),
         Counted(p, q), Counted(p, q)'
  PROVE  /\ Calls(p, q)' <= Calls(p, q)
         /\ Flying(p, q, Payload)' <= Flying(p, q, Payload)
         /\ Flying(p, q, Offers)' <= Flying(p, q, Offers)
         /\ Flying(p, q, Cands)' <= Flying(p, q, Cands)
         /\ Flying(p, q, {Ours(p)})' <= Flying(p, q, {Ours(p)})
         /\ callback'[p] => /\ CallLed(p, q) => CallLed(p, q)'
                            /\ NewsLed(p, q) => NewsLed(p, q)'
         /\ callback'[p] /\ Intact(p, q)' =>
               /\ Due(p, q)' = Due(p, q) /\ Flying(p, q, Offers)' = Flying(p, q, Offers)
               /\ UpLed(p, q) => UpLed(p, q)'
<1>1. /\ {Joined(q)} \in SUBSET About(q)
      /\ \A P \in SUBSET Payload : From(q, P) \in SUBSET About(q) /\ To(p, P) \in SUBSET Addressed(p)
  BY AboutFacts, AddressedFacts
<1>2. /\ Offers \in SUBSET Payload /\ Cands \in SUBSET Payload /\ Payload \in SUBSET Payload
      /\ {Ours(p)} \in SUBSET Payload
  BY PayloadSets
<1>3. \A P : /\ Num(News(p), From(q, P)) \in Nat /\ Num(up[q], To(p, P)) \in Nat
             /\ Num(News(p)', From(q, P)) \in Nat /\ Num(up'[q], To(p, P)) \in Nat
  BY DEF Counted
<1>4. \A P \in SUBSET Payload : /\ Num(News(p)', From(q, P)) <= Num(News(p), From(q, P))
                               /\ Num(up'[q], To(p, P)) <= Num(up[q], To(p, P))
  BY <1>1 DEF NewsKept, UpKept, Fewer
<1>5. \A P \in SUBSET Payload : Flying(p, q, P)' <= Flying(p, q, P)
  BY <1>3, <1>4 DEF Flying
<1>6. Calls(p, q)' <= Calls(p, q) BY CallsKept DEF NewsKept
<1>7. callback'[p] => (CallLed(p, q) => CallLed(p, q)') /\ (NewsLed(p, q) => NewsLed(p, q)')
  BY <1>1, <1>2 DEF NewsKept, Ordered, CallLed, NewsLed
<1>8. ASSUME callback'[p], Intact(p, q)'
      PROVE  /\ Due(p, q)' = Due(p, q) /\ Flying(p, q, Offers)' = Flying(p, q, Offers)
             /\ UpLed(p, q) => UpLed(p, q)'
  <2>1. Alike(News(p), News(p)', About(q)) BY <1>8 DEF NewsKept, Intact
  <2>2. Alike(up[q], up'[q], Addressed(p)) BY <1>8 DEF UpKept
  <2> QED BY <1>1, <1>2, <2>1, <2>2 DEF Alike, Due, Flying, UpLed
<1> QED BY <1>2, <1>5, <1>6, <1>7, <1>8

\* p takes the news of q's joining.
LEMMA FlowGreets ==
  ASSUME NEW p \in Process, NEW q \in Process, Counted(p, q), Counted(p, q)',
         Takes(News(p), News(p)', Joined(q), About(q)), up'[q] = up[q]
  PROVE  /\ Calls(p, q) = 1 + Calls(p, q)' /\ Due(p, q)' = Due(p, q)
         /\ \A P \in SUBSET Payload : Flying(p, q, P)' = Flying(p, q, P)
         /\ NewsLed(p, q) => NewsLed(p, q)'
         /\ UpLed(p, q) => UpLed(p, q)'
<1>1. /\ {Joined(q)} \in SUBSET About(q)
      /\ \A P \in SUBSET Payload : From(q, P) \in SUBSET About(q)
      /\ \A P : Joined(q) \notin From(q, P)
  BY AboutFacts
<1>2. Offers \in SUBSET Payload /\ Cands \in SUBSET Payload BY PayloadSets
<1>3. \A P : Num(News(p), From(q, P)) \in Nat /\ Num(News(p)', From(q, P)) \in Nat BY DEF Counted
<1>4. \A P \in SUBSET Payload : Num(News(p)', From(q, P)) = Num(News(p), From(q, P))
  BY <1>1, <1>3 DEF Takes
<1>5. Calls(p, q) = 1 + Calls(p, q)' BY <1>1 DEF Takes, Calls
<1>6. NewsLed(p, q) => NewsLed(p, q)' BY <1>1, <1>2 DEF Takes, NewsLed
<1> QED BY <1>2, <1>4, <1>5, <1>6 DEF Due, Flying, UpLed

\* p takes a description or a candidate of q.
LEMMA FlowHears ==
  ASSUME NEW p \in Process, NEW q \in Process, Counted(p, q), Counted(p, q)', NEW x \in Payload,
         Takes(News(p), News(p)', Offered(q, x), About(q)), up'[q] = up[q]
  PROVE  /\ Calls(p, q)' = Calls(p, q)
         /\ \A P \in SUBSET Payload : Flying(p, q, P) = (IF x \in P THEN 1 ELSE 0) + Flying(p, q, P)'
         /\ ~Silent(p, q) /\ ~CallLed(p, q)
         /\ NewsLed(p, q) => x \in Offers
<1>1. /\ {Joined(q)} \in SUBSET About(q)
      /\ \A P \in SUBSET Payload : From(q, P) \in SUBSET About(q)
      /\ \A P : Offered(q, x) \in From(q, P) <=> x \in P
      /\ Offered(q, x) # Joined(q)
  BY AboutFacts
<1>2. Offers \in SUBSET Payload /\ Cands \in SUBSET Payload /\ Payload \in SUBSET Payload
  BY PayloadSets
<1>3. \A P : /\ Num(News(p), From(q, P)) \in Nat /\ Num(News(p)', From(q, P)) \in Nat
             /\ Num(up[q], To(p, P)) \in Nat
  BY DEF Counted
<1>4. \A P \in SUBSET Payload :
         Num(News(p), From(q, P)) = (IF x \in P THEN 1 ELSE 0) + Num(News(p)', From(q, P))
  BY <1>1 DEF Takes
<1>5. Calls(p, q)' = Calls(p, q)
  <2>1. Num(News(p), {Joined(q)}) = 0 + Num(News(p)', {Joined(q)}) BY <1>1 DEF Takes
  <2> QED BY <2>1 DEF Calls, Counted
<1>6. \A P \in SUBSET Payload : Flying(p, q, P) = (IF x \in P THEN 1 ELSE 0) + Flying(p, q, P)'
  BY <1>3, <1>4 DEF Flying
<1>7. ~Silent(p, q) BY <1>2, <1>6 DEF Silent, Counted
<1>8. ~CallLed(p, q) BY <1>1, <1>2 DEF Takes, CallLed
<1>9. NewsLed(p, q) => x \in Offers
  <2>1. NewsLed(p, q) => x \notin Cands BY <1>1, <1>2 DEF Takes, NewsLed
  <2> QED BY <2>1, PayloadSets
<1> QED BY <1>5, <1>6, <1>7, <1>8, <1>9

\* q sends p a description or a candidate.
LEMMA FlowSays ==
  ASSUME NEW p \in Process, NEW q \in Process, Counted(p, q), Counted(p, q)', NEW x \in Payload,
         News(p)' = News(p), Adds(up[q], up'[q], Offering(p, x), Addressed(p))
  PROVE  /\ Calls(p, q)' = Calls(p, q) /\ Due(p, q)' = Due(p, q)
         /\ \A P \in SUBSET Payload : Flying(p, q, P)' = Flying(p, q, P) + (IF x \in P THEN 1 ELSE 0)
         /\ CallLed(p, q) => CallLed(p, q)'
         /\ NewsLed(p, q) => NewsLed(p, q)'
         /\ UpLed(p, q) /\ (x \in Cands => Sent(p, q) > 0) => UpLed(p, q)'
<1>1. /\ \A P \in SUBSET Payload : To(p, P) \in SUBSET Addressed(p)
      /\ \A P : Offering(p, x) \in To(p, P) <=> x \in P
  BY AddressedFacts
<1>2. Offers \in SUBSET Payload /\ Cands \in SUBSET Payload BY PayloadSets
<1>3. \A P : /\ Num(News(p), From(q, P)) \in Nat
             /\ Num(up[q], To(p, P)) \in Nat /\ Num(up'[q], To(p, P)) \in Nat
  BY DEF Counted
<1>4. \A P \in SUBSET Payload : Num(up'[q], To(p, P)) = Num(up[q], To(p, P)) + (IF x \in P THEN 1 ELSE 0)
  BY <1>1 DEF Adds
<1>5. \A P \in SUBSET Payload : Flying(p, q, P)' = Flying(p, q, P) + (IF x \in P THEN 1 ELSE 0)
  BY <1>3, <1>4 DEF Flying
<1>6. UpLed(p, q) /\ (x \in Cands => Sent(p, q) > 0) => UpLed(p, q)'
  BY <1>1, <1>2 DEF Adds, UpLed, Sent
<1> QED BY <1>5, <1>6 DEF Calls, Due, CallLed, NewsLed

\* The signal server passes it on.
LEMMA FlowRelays ==
  ASSUME NEW p \in Process, NEW q \in Process, Counted(p, q), Counted(p, q)', NEW x \in Payload,
         Takes(up[q], up'[q], Offering(p, x), Addressed(p)),
         Adds(News(p), News(p)', Offered(q, x), About(q))
  PROVE  /\ Calls(p, q)' = Calls(p, q)
         /\ \A P \in SUBSET Payload : Flying(p, q, P)' = Flying(p, q, P)
         /\ Due(p, q)' = Due(p, q) + (IF x \in Offers THEN 1 ELSE 0)
         /\ CallLed(p, q) /\ Pending(p, q) => CallLed(p, q)'
         /\ NewsLed(p, q) /\ (x \in Cands => Due(p, q) > 0) => NewsLed(p, q)'
         /\ UpLed(p, q) => x \in Offers
<1>1. /\ \A P \in SUBSET Payload : To(p, P) \in SUBSET Addressed(p)
      /\ \A P : Offering(p, x) \in To(p, P) <=> x \in P
  BY AddressedFacts
<1>2. /\ {Joined(q)} \in SUBSET About(q)
      /\ \A P \in SUBSET Payload : From(q, P) \in SUBSET About(q)
      /\ \A P : Offered(q, x) \in From(q, P) <=> x \in P
      /\ Offered(q, x) # Joined(q)
  BY AboutFacts
<1>3. Offers \in SUBSET Payload /\ Cands \in SUBSET Payload /\ Payload \in SUBSET Payload
  BY PayloadSets
<1>4. \A P : /\ Num(News(p), From(q, P)) \in Nat /\ Num(News(p)', From(q, P)) \in Nat
             /\ Num(up[q], To(p, P)) \in Nat /\ Num(up'[q], To(p, P)) \in Nat
  BY DEF Counted
<1>5. \A P \in SUBSET Payload :
         /\ Num(up[q], To(p, P)) = (IF x \in P THEN 1 ELSE 0) + Num(up'[q], To(p, P))
         /\ Num(News(p)', From(q, P)) = Num(News(p), From(q, P)) + (IF x \in P THEN 1 ELSE 0)
  BY <1>1, <1>2 DEF Takes, Adds
<1>6. \A P \in SUBSET Payload : Flying(p, q, P)' = Flying(p, q, P) BY <1>4, <1>5 DEF Flying
<1>7. Calls(p, q)' = Calls(p, q)
  <2>1. Num(News(p)', {Joined(q)}) = Num(News(p), {Joined(q)}) + 0 BY <1>2 DEF Adds
  <2> QED BY <2>1 DEF Calls, Counted
<1>8. CallLed(p, q) /\ Pending(p, q) => CallLed(p, q)'
  BY <1>2, <1>3 DEF Adds, CallLed, Pending, Calls
<1>9. NewsLed(p, q) /\ (x \in Cands => Due(p, q) > 0) => NewsLed(p, q)'
  BY <1>2, <1>3 DEF Adds, NewsLed, Due
<1>10. UpLed(p, q) => x \in Offers
  <2>1. UpLed(p, q) => x \notin Cands BY <1>1, <1>3 DEF Takes, UpLed
  <2> QED BY <2>1, PayloadSets
<1> QED BY <1>3, <1>5, <1>6, <1>7, <1>8, <1>9, <1>10 DEF Due

-----------------------------------------------------------------------------
(* The invariant.                                                          *)

\* Nothing has been said by q to p, and p has heard nothing of it.
Quiet(p, q) ==
    Silent(p, q) /\ conductor[p][q].theirs = "none" /\ conductor[p][q].added = 0

\* The server answers what the clients offer.
Role(p, q) ==
    LET c == conductor[p][q]
    IN  /\ c.creating \in {"none", Ours(p)} /\ c.local \in {"none", Ours(p)}
        /\ c.theirs \in {"none", Theirs(p)}
        /\ c.creating # "none" => c.local = "none"
        /\ p = Server /\ c.theirs = "none" => c.creating = "none" /\ c.local = "none"
        /\ Flying(p, q, {Ours(p)}) = 0

\* While q has not described itself, it has sent nothing.
Still(p, q) ==
    /\ Pending(q, p) => Quiet(p, q)
    /\ conductor[q][p].remote /\ conductor[q][p].local = "none" => Quiet(p, q)

\* p hears q, or will when it comes to the news of q's joining.
Listens(p, q) ==
    callback[p] /\ (Pending(p, q) \/ (conductor[p][q].kept /\ conductor[p][q].remote))

\* At most one description is on its way, and none once p has one; no more
\* candidates come than p has room for, and none before the description; to a
\* client nothing comes before its offer has gone out.
Heeded(p, q) ==
    LET c == conductor[p][q]
        d == conductor[q][p]
    IN  /\ Pending(p, q) => CallLed(p, q)
        /\ Flying(p, q, Offers) <= 1
        /\ c.theirs # "none" => Flying(p, q, Offers) = 0
        /\ c.added + Flying(p, q, Cands) <= MaxCandidate
        /\ d.remote /\ d.pc => c.added + Flying(p, q, Cands) + d.left <= MaxCandidate
        /\ c.theirs = "none" => /\ NewsLed(p, q)
                                /\ Intact(p, q) => Due(p, q) > 0 \/ UpLed(p, q)
        /\ Intact(p, q) /\ readyState[q] = "OPEN" /\ d.remote /\ d.local # "none"
              => c.theirs # "none" \/ Flying(p, q, Offers) > 0
        /\ p # Server /\ ~Silent(p, q) => ~Pending(p, q) /\ c.local # "none"

Heeds(p, q) == Listens(p, q) => Heeded(p, q)

AllRole == \A p, q \in Process : Role(p, q)
AllStill == \A p, q \in Process : Still(p, q)
AllHeeds == \A p, q \in Process : Heeds(p, q)
-----------------------------------------------------------------------------
(* Conductors.                                                             *)

\* The Conductor a process has of a stranger.
LEMMA NoConductorFacts ==
  /\ NoConductor \in Sound /\ ~NoConductor.kept /\ ~NoConductor.pc /\ ~NoConductor.remote
  /\ NoConductor.creating = "none" /\ NoConductor.local = "none" /\ NoConductor.theirs = "none"
  /\ NoConductor.left = 0 /\ NoConductor.added = 0
<1>1. NoConductor \in Conductor
  BY CandidateAssumption DEF NoConductor, Conductor, Description
<1>2. /\ ~NoConductor.kept /\ ~NoConductor.pc /\ ~NoConductor.remote
      /\ NoConductor.creating = "none" /\ NoConductor.local = "none" /\ NoConductor.theirs = "none"
      /\ NoConductor.left = 0 /\ NoConductor.added = 0
  BY DEF NoConductor
<1> QED BY <1>1, <1>2 DEF Sound

\* The fields of a Conductor.
LEMMA SoundFacts ==
  ASSUME NEW c \in Sound
  PROVE  /\ c.kept \in BOOLEAN /\ c.pc \in BOOLEAN /\ c.remote \in BOOLEAN
         /\ c.creating \in Description /\ c.local \in Description /\ c.theirs \in Description
         /\ c.left \in Nat /\ c.left <= MaxCandidate /\ c.added \in Nat /\ c.added <= MaxCandidate
         /\ ~c.pc => c.creating = "none" /\ c.local = "none" /\ c.theirs = "none"
BY CandidateAssumption DEF Sound, Conductor

\* Fits, one payload at a time.
LEMMA FitsFacts ==
  ASSUME NEW c, NEW x \in Payload
  PROVE  Fits(c, x) <=>
            \/ x = "offer" /\ c.creating = "none" /\ c.local = "none" /\ c.theirs = "none"
            \/ x = "answer" /\ c.local = "offer" /\ c.theirs = "none"
            \/ x = "candidate" /\ c.theirs # "none" /\ c.added < MaxCandidate
BY DEF Fits, Payload

\* What the PeerConnection makes of a payload.
LEMMA AppliedFacts ==
  ASSUME NEW c \in Sound, NEW x \in Payload, NEW e, e = Applied(c, x)
  PROVE  /\ e.kept = c.kept /\ e.remote = c.remote /\ e.local = c.local /\ e.left = c.left
         /\ Fits(c, x) /\ x \in Offers => e.theirs = x /\ e.added = c.added
         /\ Fits(c, x) /\ x = "candidate" => e.theirs = c.theirs /\ e.added = c.added + 1
         /\ \/ e.creating = c.creating /\ e.theirs = c.theirs
            \/ /\ x = "offer" /\ c.creating = "none" /\ c.local = "none" /\ c.theirs = "none"
               /\ e.creating = "answer" /\ e.theirs = "offer"
            \/ /\ x = "answer" /\ c.local = "offer" /\ c.theirs = "none"
               /\ e.creating = c.creating /\ e.theirs = "answer"
<1>1. c \in Conductor BY DEF Sound
<1>2. CASE ~Fits(c, x) BY <1>2 DEF Applied
<1>3. CASE Fits(c, x) /\ x = "candidate"
  <2>1. e = [c EXCEPT !.added = c.added + 1] BY <1>3 DEF Applied
  <2> QED BY <1>1, <1>3, <2>1 DEF Conductor, Offers
<1>4. CASE Fits(c, x) /\ x = "offer"
  <2>1. e = [c EXCEPT !.theirs = x, !.creating = "answer"] BY <1>4 DEF Applied
  <2>2. /\ e.kept = c.kept /\ e.remote = c.remote /\ e.local = c.local /\ e.left = c.left
        /\ e.added = c.added /\ e.theirs = x /\ e.creating = "answer"
    BY <1>1, <2>1 DEF Conductor
  <2>3. c.creating = "none" /\ c.local = "none" /\ c.theirs = "none" BY <1>4, FitsFacts
  <2> QED BY <1>4, <2>2, <2>3
<1>5. CASE Fits(c, x) /\ x = "answer"
  <2>1. e = [c EXCEPT !.theirs = x, !.creating = c.creating] BY <1>5 DEF Applied
  <2>2. /\ e.kept = c.kept /\ e.remote = c.remote /\ e.local = c.local /\ e.left = c.left
        /\ e.added = c.added /\ e.theirs = x /\ e.creating = c.creating
    BY <1>1, <2>1 DEF Conductor
  <2>3. c.local = "offer" /\ c.theirs = "none" BY <1>5, FitsFacts
  <2> QED BY <1>5, <2>2, <2>3
<1> QED BY <1>2, <1>3, <1>4, <1>5 DEF Payload

\* What the Conductor makes of it, its PeerConnection being there, made now, or
\* not to be made.
LEMMA HeardFacts ==
  ASSUME NEW c \in Sound, NEW x \in Payload, NEW e \in Heard(c, x)
  PROVE  /\ e.kept = c.kept
         /\ e.remote => c.remote /\ e.local = c.local /\ (c.pc => e.left = c.left)
         /\ e.remote /\ Fits(c, x) /\ x \in Offers => e.theirs = x /\ e.added = c.added
         /\ e.remote /\ Fits(c, x) /\ x = "candidate" =>
               e.theirs = c.theirs /\ e.added = c.added + 1
         /\ \/ e.creating = c.creating /\ e.local = c.local /\ e.theirs = c.theirs
            \/ e.creating = "none" /\ e.local = "none" /\ e.theirs = "none"
            \/ /\ x = "offer" /\ c.creating = "none" /\ c.local = "none" /\ c.theirs = "none"
               /\ e.creating = "answer" /\ e.local = c.local /\ e.theirs = "offer"
            \/ /\ x = "answer" /\ c.local = "offer" /\ c.theirs = "none"
               /\ e.creating = c.creating /\ e.local = c.local /\ e.theirs = "answer"
<1>1. CASE c.pc /\ c.remote
  <2>1. e = Applied(c, x) BY <1>1 DEF Heard
  <2> QED BY <1>1, <2>1, AppliedFacts
<1>2. CASE c.pc /\ ~c.remote
  <2>1. e = c BY <1>2 DEF Heard
  <2> QED BY <1>2, <2>1
<1>3. CASE ~c.pc
  <2>1. PICK d \in InitializePeerConnection(c) : e = IF d.pc THEN Applied(d, x) ELSE d
    BY <1>3 DEF Heard
  <2>2. /\ d \in Sound /\ d.kept = c.kept
        /\ \/ /\ d.pc /\ d.remote = c.remote /\ d.left = MaxCandidate /\ d.added = c.added
              /\ d.creating = c.creating /\ d.local = c.local /\ d.theirs = c.theirs
           \/ /\ ~d.pc /\ ~d.remote /\ d.added = 0
              /\ d.creating = "none" /\ d.local = "none" /\ d.theirs = "none"
    BY InitializedFacts
  <2>3. CASE d.pc
    <3>1. e = Applied(d, x) BY <2>1, <2>3
    <3>2. Fits(c, x) <=> Fits(d, x) BY <2>2, <2>3, FitsFacts
    <3>3. /\ e.kept = d.kept /\ e.remote = d.remote /\ e.local = d.local /\ e.left = d.left
          /\ Fits(d, x) /\ x \in Offers => e.theirs = x /\ e.added = d.added
          /\ Fits(d, x) /\ x = "candidate" => e.theirs = d.theirs /\ e.added = d.added + 1
          /\ \/ e.creating = d.creating /\ e.theirs = d.theirs
             \/ /\ x = "offer" /\ d.creating = "none" /\ d.local = "none" /\ d.theirs = "none"
                /\ e.creating = "answer" /\ e.theirs = "offer"
             \/ /\ x = "answer" /\ d.local = "offer" /\ d.theirs = "none"
                /\ e.creating = d.creating /\ e.theirs = "answer"
      BY <2>2, <3>1, AppliedFacts
    <3> QED BY <1>3, <2>2, <2>3, <3>2, <3>3
  <2>4. CASE ~d.pc
    <3>1. e = d BY <2>1, <2>4
    <3> QED BY <1>3, <2>2, <2>4, <3>1
  <2> QED BY <2>3, <2>4
<1>4. c.pc \in BOOLEAN /\ c.remote \in BOOLEAN BY SoundFacts
<1> QED BY <1>1, <1>2, <1>3, <1>4

\* A Conductor that another thread closes is cleared or no longer kept.
LEMMA ClosedFacts ==
  ASSUME NEW c \in Sound, NEW e,
         \/ e \in {c, NoConductor, [c EXCEPT !.kept = FALSE]}
         \/ c.creating # "none" /\ e = Undescribed(c)
  PROVE  /\ c = NoConductor => e = NoConductor
         /\ e.kept => c.kept
         /\ e.remote => /\ c.remote /\ e.pc = c.pc /\ e.local = c.local /\ e.left = c.left
                        /\ e.theirs = c.theirs /\ e.added = c.added
         /\ \/ /\ e.creating \in {c.creating, "none"} /\ e.local = c.local
               /\ e.theirs = c.theirs /\ e.added = c.added
            \/ e.creating = "none" /\ e.local = "none" /\ e.theirs = "none" /\ e.added = 0
<1>1. c \in Conductor /\ NoConductor \in Conductor BY NoConductorFacts DEF Sound
<1>2. CASE e = c BY <1>2
<1>3. CASE e = NoConductor BY <1>3, NoConductorFacts
<1>4. CASE e = [c EXCEPT !.kept = FALSE]
  <2>1. /\ e.kept = FALSE /\ e.remote = c.remote /\ e.pc = c.pc /\ e.creating = c.creating
        /\ e.local = c.local /\ e.theirs = c.theirs /\ e.added = c.added /\ e.left = c.left
    BY <1>1, <1>4 DEF Conductor
  <2>2. e = [kept |-> e.kept, pc |-> e.pc, remote |-> e.remote, creating |-> e.creating,
             failed |-> e.failed, local |-> e.local, theirs |-> e.theirs, left |-> e.left,
             added |-> e.added]
        /\ e.failed = c.failed
    BY <1>1, <1>4 DEF Conductor
  <2>3. c = NoConductor => e = NoConductor BY <2>1, <2>2, NoConductorFacts DEF NoConductor
  <2> QED BY <2>1, <2>3
<1>5. CASE c.creating # "none" /\ e = Undescribed(c)
  <2>1. c # NoConductor BY <1>5, NoConductorFacts
  <2>2. /\ e.kept = c.kept /\ e.remote = c.remote /\ e.pc = c.pc /\ e.creating = "none"
        /\ e.local = c.local /\ e.theirs = c.theirs /\ e.added = c.added /\ e.left = c.left
    BY <1>1, <1>5 DEF Conductor, Undescribed
  <2> QED BY <2>1, <2>2
<1> QED BY <1>2, <1>3, <1>4, <1>5

\* OnSuccess sets the local description that was being created.
LEMMA DescribedFacts ==
  ASSUME NEW c \in Sound, c.creating # "none", NEW e, e = Described(c)
  PROVE  \/ e = NoConductor
         \/ /\ e.kept = c.kept /\ e.remote = c.remote /\ e.pc = c.pc /\ e.creating = "none"
            /\ e.local = c.creating /\ e.theirs = c.theirs /\ e.added = c.added /\ e.left = c.left
BY DEF Described, Sound, Conductor

\* OnIceCandidate has a candidate less to gather.
LEMMA GatheredFacts ==
  ASSUME NEW c \in Sound, c.left > 0, NEW e, e = [c EXCEPT !.left = c.left - 1]
  PROVE  /\ e.kept = c.kept /\ e.remote = c.remote /\ e.pc = c.pc /\ e.creating = c.creating
         /\ e.local = c.local /\ e.theirs = c.theirs /\ e.added = c.added /\ e.left = c.left - 1
BY DEF Sound, Conductor

\* What p hears next of q fits its PeerConnection.
LEMMA HeedsFits ==
  ASSUME Types, NEW p \in Process, NEW q \in Process, Role(p, q), Heeds(p, q), callback[p],
         conductor[p][q].kept, conductor[p][q].remote,
         NEW x \in Payload, ~Silent(p, q), x # Ours(p), NewsLed(p, q) => x \in Offers,
         x \in Offers => Flying(p, q, Offers) > 0, x \in Cands => Flying(p, q, Cands) > 0
  PROVE  Fits(conductor[p][q], x)
<1> DEFINE c == conductor[p][q]
<1>1. c \in Sound BY DEF Types
<1>2. /\ c.theirs # "none" => Flying(p, q, Offers) = 0
      /\ c.added + Flying(p, q, Cands) <= MaxCandidate
      /\ c.theirs = "none" => NewsLed(p, q)
      /\ p # Server => c.local # "none"
  BY DEF Heeds, Heeded, Listens
<1>3. /\ c.local \in {"none", Ours(p)}
      /\ p = Server /\ c.theirs = "none" => c.creating = "none" /\ c.local = "none"
  BY DEF Role
<1>4. c.added \in Nat /\ Flying(p, q, Cands) \in Nat /\ MaxCandidate \in Nat
  BY <1>1, SoundFacts, CountedNow, CandidateAssumption DEF Counted
<1> HIDE DEF c
<1>5. CASE x = "candidate"
  <2>1. x \notin Offers /\ x \in Cands BY <1>5 DEF Offers, Cands
  <2>2. c.theirs # "none" /\ Flying(p, q, Cands) > 0 BY <1>2, <2>1
  <2>3. c.added < MaxCandidate BY <1>2, <1>4, <2>2
  <2> QED BY <1>5, <2>2, <2>3, FitsFacts DEF c
<1>6. CASE x \in Offers
  <2>1. c.theirs = "none" BY <1>2, <1>4, <1>6
  <2>2. IF p = Server THEN x = "offer" ELSE x = "answer" BY <1>6 DEF Ours, Offers
  <2> QED BY <1>2, <1>3, <2>1, <2>2, FitsFacts DEF c, Ours
<1> QED BY <1>5, <1>6 DEF Payload, Offers

-----------------------------------------------------------------------------
(* What the steps of a pair move.                                          *)

\* What is on its way to p from q is the same.
Same(p, q) ==
    /\ Calls(p, q)' = Calls(p, q) /\ Due(p, q)' = Due(p, q) /\ Sent(p, q)' = Sent(p, q)
    /\ Flying(p, q, Payload)' = Flying(p, q, Payload)
    /\ Flying(p, q, Offers)' = Flying(p, q, Offers)
    /\ Flying(p, q, Cands)' = Flying(p, q, Cands)
    /\ Flying(p, q, {Ours(p)})' = Flying(p, q, {Ours(p)})
    /\ CallLed(p, q) => CallLed(p, q)'
    /\ NewsLed(p, q) => NewsLed(p, q)'
    /\ UpLed(p, q) => UpLed(p, q)'

\* Alike news and untouched requests carry the same.
LEMMA AlikeSame ==
  ASSUME NEW p \in Process, NEW q \in Process, Alike(News(p), News(p)', About(q)),
         up'[q] = up[q]
  PROVE  Same(p, q)
BY FlowKept, PayloadSets DEF Same

\* What p says to q leaves alone what is on its way to p, and all if p cannot
\* send.
LEMMA SaysSame ==
  ASSUME Types, NEW p \in Process, NEW q \in Process, NEW x, Says(p, q, x)
  PROVE  /\ Same(p, q)
         /\ Calls(q, p)' = Calls(q, p) /\ conductor'[q][p] = conductor[q][p]
         /\ ~(conductor[p][q].remote /\ readyState[p] = "OPEN") => Same(q, p)
<1>1. \A r \in Process : News(r)' = News(r) BY DEF Says, News
<1>2. \A r, s \in Process : Alike(News(r), News(r)', About(s)) BY <1>1, NewsType, AlikeFacts
<1>3. Same(p, q) BY <1>2, AlikeSame DEF Says
<1>4. ~(conductor[p][q].remote /\ readyState[p] = "OPEN") => Same(q, p)
  BY <1>2, AlikeSame DEF Says
<1>5. Calls(q, p)' = Calls(q, p) BY <1>1 DEF Calls
<1> QED BY <1>3, <1>4, <1>5 DEF Says

\* What is said to p by q.
LEMMA SaysAdds ==
  ASSUME Types, Types', NEW p \in Process, NEW q \in Process, NEW x \in Payload, Says(q, p, x),
         conductor[q][p].remote, readyState[q] = "OPEN"
  PROVE  /\ Due(p, q)' = Due(p, q)
         /\ Flying(p, q, Payload)' = Flying(p, q, Payload) + 1
         /\ Flying(p, q, Offers)' = Flying(p, q, Offers) + (IF x \in Offers THEN 1 ELSE 0)
         /\ Flying(p, q, Cands)' = Flying(p, q, Cands) + (IF x \in Cands THEN 1 ELSE 0)
         /\ Flying(p, q, {Ours(p)})' = Flying(p, q, {Ours(p)}) + (IF x = Ours(p) THEN 1 ELSE 0)
         /\ CallLed(p, q) => CallLed(p, q)'
         /\ NewsLed(p, q) => NewsLed(p, q)'
         /\ UpLed(p, q) /\ (x \in Cands => Sent(p, q) > 0) => UpLed(p, q)'
<1>1. Counted(p, q) /\ Counted(p, q)' BY CountedNow, CountedNext
<1>2. News(p)' = News(p) /\ Adds(up[q], up'[q], Offering(p, x), Addressed(p)) BY DEF Says, News
<1>3. /\ Due(p, q)' = Due(p, q)
      /\ \A P \in SUBSET Payload : Flying(p, q, P)' = Flying(p, q, P) + (IF x \in P THEN 1 ELSE 0)
      /\ CallLed(p, q) => CallLed(p, q)'
      /\ NewsLed(p, q) => NewsLed(p, q)'
      /\ UpLed(p, q) /\ (x \in Cands => Sent(p, q) > 0) => UpLed(p, q)'
  BY <1>1, <1>2, FlowSays
<1>4. /\ Payload \in SUBSET Payload /\ Offers \in SUBSET Payload /\ Cands \in SUBSET Payload
      /\ {Ours(p)} \in SUBSET Payload
  BY PayloadSets
<1>5. Flying(p, q, Payload)' = Flying(p, q, Payload) + 1 BY <1>3, <1>4
<1>6. Flying(p, q, Offers)' = Flying(p, q, Offers) + (IF x \in Offers THEN 1 ELSE 0) BY <1>3, <1>4
<1>7. Flying(p, q, Cands)' = Flying(p, q, Cands) + (IF x \in Cands THEN 1 ELSE 0) BY <1>3, <1>4
<1>8. Flying(p, q, {Ours(p)})' = Flying(p, q, {Ours(p)}) + (IF x = Ours(p) THEN 1 ELSE 0)
  BY <1>3, <1>4
<1> QED BY <1>3, <1>5, <1>6, <1>7, <1>8

\* What p hears of q.
LEMMA HearsTakes ==
  ASSUME Types, Types', NEW p \in Process, NEW q \in Process, Hears(p, q)
  PROVE  \E x \in Payload :
           /\ conductor'[p][q] \in IF callback[p] /\ conductor[p][q].kept
                                   THEN Heard(conductor[p][q], x) ELSE {conductor[p][q]}
           /\ Calls(p, q)' = Calls(p, q) /\ ~Silent(p, q) /\ ~CallLed(p, q)
           /\ NewsLed(p, q) => x \in Offers
           /\ Flying(p, q, Offers) = Flying(p, q, Offers)' + (IF x \in Offers THEN 1 ELSE 0)
           /\ Flying(p, q, Cands) = Flying(p, q, Cands)' + (IF x \in Cands THEN 1 ELSE 0)
           /\ Flying(p, q, {Ours(p)}) = Flying(p, q, {Ours(p)})' + (IF x = Ours(p) THEN 1 ELSE 0)
<1>1. Counted(p, q) /\ Counted(p, q)' BY CountedNow, CountedNext
<1>2. PICK x \in Payload :
         /\ Takes(News(p), News(p)', Offered(q, x), About(q))
         /\ conductor'[p][q] \in IF callback[p] /\ conductor[p][q].kept
                                 THEN Heard(conductor[p][q], x) ELSE {conductor[p][q]}
  BY DEF Hears
<1>3. up'[q] = up[q] BY DEF Hears
<1>4. /\ Calls(p, q)' = Calls(p, q)
      /\ \A P \in SUBSET Payload : Flying(p, q, P) = (IF x \in P THEN 1 ELSE 0) + Flying(p, q, P)'
      /\ ~Silent(p, q) /\ ~CallLed(p, q)
      /\ NewsLed(p, q) => x \in Offers
  BY <1>1, <1>2, <1>3, FlowHears
<1>5. Offers \in SUBSET Payload /\ Cands \in SUBSET Payload /\ {Ours(p)} \in SUBSET Payload
  BY PayloadSets
<1>6. Flying(p, q, Offers) = Flying(p, q, Offers)' + (IF x \in Offers THEN 1 ELSE 0)
  BY <1>1, <1>4, <1>5 DEF Counted
<1>7. Flying(p, q, Cands) = Flying(p, q, Cands)' + (IF x \in Cands THEN 1 ELSE 0)
  BY <1>1, <1>4, <1>5 DEF Counted
<1>8. Flying(p, q, {Ours(p)}) = Flying(p, q, {Ours(p)})' + (IF x = Ours(p) THEN 1 ELSE 0)
  BY <1>1, <1>4, <1>5 DEF Counted
<1> QED BY <1>2, <1>4, <1>6, <1>7, <1>8

\* What is on its way to p when it is told of q.
LEMMA GreetsTakes ==
  ASSUME Types, Types', NEW p \in Process, NEW q \in Process, Greets(p, q)
  PROVE  /\ Calls(p, q) = 1 + Calls(p, q)' /\ Pending(p, q)
         /\ Due(p, q)' = Due(p, q)
         /\ Flying(p, q, Payload)' = Flying(p, q, Payload)
         /\ Flying(p, q, Offers)' = Flying(p, q, Offers)
         /\ Flying(p, q, Cands)' = Flying(p, q, Cands)
         /\ Flying(p, q, {Ours(p)})' = Flying(p, q, {Ours(p)})
         /\ NewsLed(p, q) => NewsLed(p, q)'
         /\ UpLed(p, q) => UpLed(p, q)'
<1>1. Counted(p, q) /\ Counted(p, q)' BY CountedNow, CountedNext
<1>2. Takes(News(p), News(p)', Joined(q), About(q)) /\ up'[q] = up[q] BY DEF Greets
<1>3. /\ Calls(p, q) = 1 + Calls(p, q)' /\ Due(p, q)' = Due(p, q)
      /\ \A P \in SUBSET Payload : Flying(p, q, P)' = Flying(p, q, P)
      /\ NewsLed(p, q) => NewsLed(p, q)'
      /\ UpLed(p, q) => UpLed(p, q)'
  BY <1>1, <1>2, FlowGreets
<1>4. Pending(p, q) BY <1>1, <1>3 DEF Counted, Pending
<1> QED BY <1>3, <1>4, PayloadSets

\* What is on its way to p when the signal server passes some of it on.
LEMMA RelaysMoves ==
  ASSUME Types, Types', NEW p \in Process, NEW q \in Process, Relays(p, q)
  PROVE  \E x \in Payload :
           /\ Calls(p, q)' = Calls(p, q)
           /\ Flying(p, q, Payload)' = Flying(p, q, Payload)
           /\ Flying(p, q, Offers)' = Flying(p, q, Offers)
           /\ Flying(p, q, Cands)' = Flying(p, q, Cands)
           /\ Flying(p, q, {Ours(p)})' = Flying(p, q, {Ours(p)})
           /\ Due(p, q)' = Due(p, q) + (IF x \in Offers THEN 1 ELSE 0)
           /\ CallLed(p, q) /\ Pending(p, q) => CallLed(p, q)'
           /\ NewsLed(p, q) /\ (x \in Cands => Due(p, q) > 0) => NewsLed(p, q)'
           /\ UpLed(p, q) => x \in Offers
<1>1. Counted(p, q) /\ Counted(p, q)' BY CountedNow, CountedNext
<1>2. PICK x \in Payload : /\ Takes(up[q], up'[q], Offering(p, x), Addressed(p))
                           /\ Adds(News(p), News(p)', Offered(q, x), About(q))
  BY DEF Relays
<1>3. /\ Calls(p, q)' = Calls(p, q)
      /\ \A P \in SUBSET Payload : Flying(p, q, P)' = Flying(p, q, P)
      /\ Due(p, q)' = Due(p, q) + (IF x \in Offers THEN 1 ELSE 0)
      /\ CallLed(p, q) /\ Pending(p, q) => CallLed(p, q)'
      /\ NewsLed(p, q) /\ (x \in Cands => Due(p, q) > 0) => NewsLed(p, q)'
      /\ UpLed(p, q) => x \in Offers
  BY <1>1, <1>2, FlowRelays
<1> QED BY <1>3, PayloadSets

\* Of what p does with the news of q, or says to it, q's news know nothing.
LEMMA ActorSame ==
  ASSUME Types, NEW p \in Process, NEW q \in Process, Greets(q, p) \/ Hears(q, p)
  PROVE  Same(p, q) /\ conductor'[p][q] = conductor[p][q]
<1>1. Alike(News(p), News(p)', About(q)) /\ up'[q] = up[q] BY DEF Greets, Hears
<1> QED BY <1>1, AlikeSame DEF Greets, Hears

\* Met, after any step.
LEMMA StepMet ==
  ASSUME Types, Types', OneFate, AllMet, Next, NEW p \in Process, NEW q \in Process
  PROVE  Met(p, q)'
<1> DEFINE c == conductor[p][q]
           d == conductor[q][p]
<1>1. Seen(p, q) BY StepSeen
<1>2. Met(p, q) /\ Met(q, p) BY DEF AllMet
<1>3. (Fresh(p)' => Fresh(p)) /\ (Fresh(q)' => Fresh(q)) BY FreshStays
<1>4. c \in Sound /\ d \in Sound BY DEF Types
<1>5. Counted(p, q) /\ Counted(p, q)' BY CountedNow, CountedNext
<1>6. CASE Calm(p, q)
  <2>1. /\ Calls(p, q)' <= Calls(p, q)
        /\ Flying(p, q, Payload)' <= Flying(p, q, Payload)
    BY <1>5, <1>6, FlowCalm DEF Calm
  <2>2. c = NoConductor => conductor'[p][q] = NoConductor
    BY <1>4, <1>6, ClosedFacts DEF Calm, Closed
  <2> HIDE DEF c
  <2>3. (Pending(p, q)' => Pending(p, q)) /\ (Silent(p, q) => Silent(p, q)') /\ Calls(p, q)' <= 1
    BY <1>2, <1>5, <2>1 DEF Pending, Silent, Counted, Met
  <2> QED BY <1>2, <1>3, <2>2, <2>3 DEF Met, c
<1>7. CASE Blank(p, q)'
  <2>1. Pending(p, q)' => ~Fresh(p)' /\ ~Fresh(q)' BY <1>7 DEF Blank, Fresh
  <2> QED BY <1>7, <2>1 DEF Blank, Met
<1>8. CASE Relays(p, q)
  <2>1. Calls(p, q)' = Calls(p, q) /\ Flying(p, q, Payload)' = Flying(p, q, Payload)
    BY <1>8, RelaysMoves
  <2>2. conductor'[p][q] = c BY <1>8 DEF Relays
  <2> QED BY <1>2, <1>3, <2>1, <2>2 DEF Met, Pending, Silent
<1>9. CASE Greets(p, q)
  <2>1. Calls(p, q) = 1 + Calls(p, q)' /\ Pending(p, q) BY <1>9, GreetsTakes
  <2>2. ~Pending(p, q)' /\ Calls(p, q)' <= 1 BY <1>2, <1>5, <2>1 DEF Met, Pending, Counted
  <2> QED BY <1>2, <1>3, <2>1, <2>2 DEF Met
<1>10. CASE Hears(p, q)
  <2>1. PICK x \in Payload :
           /\ conductor'[p][q] \in IF callback[p] /\ c.kept THEN Heard(c, x) ELSE {c}
           /\ Calls(p, q)' = Calls(p, q) /\ ~Silent(p, q)
    BY <1>10, HearsTakes
  <2>2. c = NoConductor => conductor'[p][q] = NoConductor BY <2>1, NoConductorFacts
  <2> QED BY <1>2, <1>3, <2>1, <2>2 DEF Met, Pending
<1>11. CASE Greets(q, p) \/ Hears(q, p)
  <2>1. Same(p, q) /\ conductor'[p][q] = c BY <1>11, ActorSame
  <2> QED BY <1>2, <1>3, <2>1 DEF Met, Pending, Silent, Same
<1>12. CASE Describes(p, q) \/ Gathers(p, q)
  <2>1. Same(p, q) /\ c # NoConductor
    BY <1>12, SaysSame, NoConductorFacts DEF Describes, Gathers
  <2> QED BY <1>2, <1>3, <2>1 DEF Met, Pending, Silent, Same
<1>13. CASE Describes(q, p) \/ Gathers(q, p)
  <2>1. Calls(p, q)' = Calls(p, q) /\ conductor'[p][q] = c /\ d # NoConductor
    BY <1>13, SaysSame, NoConductorFacts DEF Describes, Gathers
  <2> QED BY <1>2, <1>3, <2>1 DEF Met, Pending
<1> QED BY <1>1, <1>6, <1>7, <1>8, <1>9, <1>10, <1>11, <1>12, <1>13 DEF Seen

\* Of two that have met, one answers and one offers.
LEMMA OursFacts ==
  ASSUME NEW p \in Process, NEW q \in Process, p # q, p = Server \/ q = Server
  PROVE  Ours(p) # Ours(q)
BY DEF Ours

\* Role, after any step.
LEMMA StepRole ==
  ASSUME Types, Types', OneFate, AllMet, AllRole, Next, NEW p \in Process, NEW q \in Process
  PROVE  Role(p, q)'
<1> DEFINE c == conductor[p][q]
           d == conductor[q][p]
           e == conductor'[p][q]
<1>1. Seen(p, q) BY StepSeen
<1>2. Met(p, q) /\ Met(q, p) /\ Role(p, q) /\ Role(q, p) BY DEF AllMet, AllRole
<1>3. c \in Sound /\ d \in Sound BY DEF Types
<1>4. Counted(p, q) /\ Counted(p, q)' BY CountedNow, CountedNext
<1>5. CASE Calm(p, q)
  <2>1. Flying(p, q, {Ours(p)})' <= Flying(p, q, {Ours(p)}) BY <1>4, <1>5, FlowCalm DEF Calm
  <2>2. Flying(p, q, {Ours(p)})' = 0 BY <1>2, <1>4, <2>1 DEF Role, Counted
  <2>3. \/ e.creating \in {c.creating, "none"} /\ e.local = c.local /\ e.theirs = c.theirs
        \/ e.creating = "none" /\ e.local = "none" /\ e.theirs = "none"
    BY <1>3, <1>5, ClosedFacts DEF Calm, Closed
  <2> QED BY <1>2, <2>2, <2>3 DEF Role
<1>6. CASE Blank(p, q)'
  <2>1. Flying(p, q, {Ours(p)})' = 0 BY <1>4, <1>6 DEF Blank, Counted
  <2> QED BY <1>6, <2>1, NoConductorFacts DEF Blank, Role
<1>7. CASE Relays(p, q)
  <2>1. Flying(p, q, {Ours(p)})' = Flying(p, q, {Ours(p)}) BY <1>7, RelaysMoves
  <2>2. e = c BY <1>7 DEF Relays
  <2> QED BY <1>2, <2>1, <2>2 DEF Role
<1>8. CASE Greets(p, q)
  <2>1. Flying(p, q, {Ours(p)})' = Flying(p, q, {Ours(p)}) BY <1>8, GreetsTakes
  <2>2. Begun(p, e) \/ e = c BY <1>8 DEF Greets
  <2> QED BY <1>2, <2>1, <2>2 DEF Role, Begun, Ours
<1>9. CASE Hears(p, q)
  <2>1. PICK x \in Payload :
           /\ e \in IF callback[p] /\ c.kept THEN Heard(c, x) ELSE {c}
           /\ Flying(p, q, {Ours(p)}) = Flying(p, q, {Ours(p)})' + (IF x = Ours(p) THEN 1 ELSE 0)
    BY <1>9, HearsTakes
  <2>2. Flying(p, q, {Ours(p)})' = 0 /\ x # Ours(p) BY <1>2, <1>4, <2>1 DEF Role, Counted
  <2>3. \/ e.creating = c.creating /\ e.local = c.local /\ e.theirs = c.theirs
        \/ e.creating = "none" /\ e.local = "none" /\ e.theirs = "none"
        \/ /\ x = "offer" /\ c.creating = "none" /\ c.local = "none" /\ c.theirs = "none"
           /\ e.creating = "answer" /\ e.local = c.local /\ e.theirs = "offer"
        \/ /\ x = "answer" /\ c.local = "offer" /\ c.theirs = "none"
           /\ e.creating = c.creating /\ e.local = c.local /\ e.theirs = "answer"
    <3>1. CASE e = c BY <3>1
    <3>2. CASE e \in Heard(c, x)
      <4> HIDE DEF c, e
      <4> QED BY <1>3, <3>2, HeardFacts
    <3> QED BY <2>1, <3>1, <3>2
  <2> HIDE DEF c, d, e
  <2>4. /\ c.creating \in {"none", Ours(p)} /\ c.local \in {"none", Ours(p)}
        /\ c.theirs \in {"none", Theirs(p)} /\ (c.creating # "none" => c.local = "none")
        /\ p = Server /\ c.theirs = "none" => c.creating = "none" /\ c.local = "none"
    BY <1>2 DEF Role, c
  <2>5. /\ e.creating \in {"none", Ours(p)} /\ e.local \in {"none", Ours(p)}
        /\ e.theirs \in {"none", Theirs(p)} /\ (e.creating # "none" => e.local = "none")
        /\ p = Server /\ e.theirs = "none" => e.creating = "none" /\ e.local = "none"
    BY <2>2, <2>3, <2>4 DEF Ours, Theirs
  <2> QED BY <2>2, <2>5 DEF Role, e
<1>10. CASE Greets(q, p) \/ Hears(q, p)
  <2>1. Same(p, q) /\ e = c BY <1>10, ActorSame
  <2> QED BY <1>2, <2>1 DEF Role, Same
<1>11. CASE Describes(p, q)
  <2>1. Same(p, q) BY <1>11, SaysSame DEF Describes
  <2>2. c.creating # "none" /\ e = Described(c) BY <1>11 DEF Describes
  <2>3. \/ e = NoConductor
        \/ e.creating = "none" /\ e.local = c.creating /\ e.theirs = c.theirs
    <3> HIDE DEF c, e
    <3> QED BY <1>3, <2>2, DescribedFacts
  <2> QED BY <1>2, <2>1, <2>2, <2>3, NoConductorFacts DEF Role, Same
<1>12. CASE Gathers(p, q)
  <2>1. Same(p, q) BY <1>12, SaysSame DEF Gathers
  <2>2. e.creating = c.creating /\ e.local = c.local /\ e.theirs = c.theirs
    BY <1>3, <1>12, GatheredFacts DEF Gathers
  <2> QED BY <1>2, <2>1, <2>2 DEF Role, Same
<1>13. CASE Describes(q, p) \/ Gathers(q, p)
  <2>1. PICK x \in Payload : Says(q, p, x) /\ x \in {d.creating, "candidate"} /\ x # "none"
    <3>1. d.creating \in Description BY <1>3, SoundFacts
    <3> QED BY <1>13, <3>1 DEF Describes, Gathers, Description, Payload
  <2>2. Ours(p) # Ours(q)
    <3>1. d # NoConductor BY <1>13, NoConductorFacts DEF Describes, Gathers
    <3> QED BY <1>2, <3>1, OursFacts DEF Met
  <2>3. x # Ours(p)
    <3>1. d.creating \in {"none", Ours(q)} BY <1>2 DEF Role
    <3> QED BY <2>1, <2>2, <3>1, PayloadSets
  <2>4. Flying(p, q, {Ours(p)})' = Flying(p, q, {Ours(p)})
    <3>1. CASE d.remote /\ readyState[q] = "OPEN"
      <4>1. Flying(p, q, {Ours(p)})' = Flying(p, q, {Ours(p)}) + 0
        BY <2>1, <2>3, <3>1, SaysAdds
      <4> QED BY <1>4, <4>1 DEF Counted
    <3>2. CASE ~(d.remote /\ readyState[q] = "OPEN") BY <2>1, <3>2, SaysSame DEF Same
    <3> QED BY <3>1, <3>2
  <2>5. e = c BY <2>1 DEF Says
  <2> QED BY <1>2, <2>4, <2>5 DEF Role
<1> QED BY <1>1, <1>5, <1>6, <1>7, <1>8, <1>9, <1>10, <1>11, <1>12, <1>13 DEF Seen

\* Still, after any step.
LEMMA StepStill ==
  ASSUME Types, Types', OneFate, AllMet, AllStill, Next, NEW p \in Process, NEW q \in Process
  PROVE  Still(p, q)'
<1> DEFINE c == conductor[p][q]
           d == conductor[q][p]
           e == conductor'[p][q]
           f == conductor'[q][p]
<1>1. Seen(p, q) BY StepSeen
<1>2. Met(q, p) /\ Still(p, q) BY DEF AllMet, AllStill
<1>3. c \in Sound /\ d \in Sound BY DEF Types
<1>4. Counted(p, q) /\ Counted(p, q)' /\ Counted(q, p) /\ Counted(q, p)'
  BY CountedNow, CountedNext
<1>5. CASE Calm(p, q)
  <2>1. Flying(p, q, Payload)' <= Flying(p, q, Payload) BY <1>4, <1>5, FlowCalm DEF Calm
  <2>2. Silent(p, q) => Silent(p, q)' BY <1>4, <2>1 DEF Silent, Counted
  <2>3. Pending(q, p)' => Pending(q, p) BY <1>4, <1>5 DEF Calm, Pending, Counted
  <2>4. c.theirs = "none" /\ c.added = 0 => e.theirs = "none" /\ e.added = 0
    BY <1>3, <1>5, ClosedFacts DEF Calm, Closed
  <2>5. f.remote => d.remote /\ f.local = d.local
    BY <1>3, <1>5, ClosedFacts DEF Calm, Closed
  <2> QED BY <1>2, <2>2, <2>3, <2>4, <2>5 DEF Still, Quiet
<1>6. CASE Blank(p, q)' BY <1>6, NoConductorFacts DEF Blank, Still, Quiet
<1>7. CASE Relays(p, q)
  <2>1. Flying(p, q, Payload)' = Flying(p, q, Payload) BY <1>7, RelaysMoves
  <2>2. Calls(q, p)' = Calls(q, p)
    <3>1. Alike(News(q), News(q)', About(p)) BY <1>7 DEF Relays
    <3> QED BY <3>1, AboutFacts DEF Alike, Calls
  <2>3. e = c /\ f = d BY <1>7 DEF Relays
  <2> QED BY <1>2, <2>1, <2>2, <2>3 DEF Still, Quiet, Silent, Pending
<1>8. CASE Greets(p, q)
  <2>1. Flying(p, q, Payload)' = Flying(p, q, Payload) BY <1>8, GreetsTakes
  <2>2. Calls(q, p)' = Calls(q, p)
    <3>1. Alike(News(q), News(q)', About(p)) BY <1>8 DEF Greets
    <3> QED BY <3>1, AboutFacts DEF Alike, Calls
  <2>3. f = d /\ (e = c \/ (e.theirs = "none" /\ e.added = 0)) BY <1>8 DEF Greets, Begun
  <2> QED BY <1>2, <2>1, <2>2, <2>3 DEF Still, Quiet, Silent, Pending
<1>9. CASE Hears(p, q)
  <2>1. ~Silent(p, q) BY <1>9, HearsTakes
  <2>2. Calls(q, p)' = Calls(q, p)
    <3>1. Alike(News(q), News(q)', About(p)) BY <1>9 DEF Hears
    <3> QED BY <3>1, AboutFacts DEF Alike, Calls
  <2>3. f = d BY <1>9 DEF Hears
  <2> QED BY <1>2, <2>1, <2>2, <2>3 DEF Still, Quiet, Pending
<1>10. CASE Greets(q, p)
  <2>1. Same(p, q) /\ e = c BY <1>10, ActorSame
  <2>2. Calls(q, p) = 1 + Calls(q, p)' /\ Pending(q, p) BY <1>10, GreetsTakes
  <2>3. Quiet(p, q) BY <1>2, <2>2 DEF Still
  <2> QED BY <2>1, <2>3 DEF Still, Quiet, Silent, Same
<1>11. CASE Hears(q, p)
  <2>1. Same(p, q) /\ e = c BY <1>11, ActorSame
  <2>2. PICK x \in Payload :
           /\ f \in IF callback[q] /\ d.kept THEN Heard(d, x) ELSE {d}
           /\ Calls(q, p)' = Calls(q, p)
    BY <1>11, HearsTakes
  <2>3. f.remote => d.remote /\ f.local = d.local
    <3>1. CASE f = d BY <3>1
    <3>2. CASE f \in Heard(d, x)
      <4> HIDE DEF d, f
      <4> QED BY <1>3, <3>2, HeardFacts
    <3> QED BY <2>2, <3>1, <3>2
  <2> QED BY <1>2, <2>1, <2>2, <2>3 DEF Still, Quiet, Silent, Same, Pending
<1>12. CASE Describes(p, q) \/ Gathers(p, q)
  <2>1. Same(p, q) /\ Calls(q, p)' = Calls(q, p) /\ f = d
    BY <1>12, SaysSame DEF Describes, Gathers
  <2>2. c.theirs = "none" /\ c.added = 0 => e.theirs = "none" /\ e.added = 0
    <3>1. CASE Describes(p, q)
      <4>1. c.creating # "none" /\ e = Described(c) BY <3>1 DEF Describes
      <4> HIDE DEF c, e
      <4>2. e = NoConductor \/ (e.theirs = c.theirs /\ e.added = c.added)
        BY <1>3, <4>1, DescribedFacts
      <4> QED BY <4>2, NoConductorFacts
    <3>2. CASE Gathers(p, q) BY <1>3, <3>2, GatheredFacts DEF Gathers
    <3> QED BY <1>12, <3>1, <3>2
  <2> QED BY <1>2, <2>1, <2>2 DEF Still, Quiet, Silent, Same, Pending
<1>13. CASE Describes(q, p) \/ Gathers(q, p)
  <2>1. Calls(q, p)' = Calls(q, p) /\ d # NoConductor
    BY <1>13, SaysSame, NoConductorFacts DEF Describes, Gathers, Same
  <2>2. ~Pending(q, p)' BY <1>2, <2>1 DEF Met, Pending
  <2>3. ~(f.remote /\ f.local = "none")
    <3>1. CASE Describes(q, p)
      <4>1. d.creating # "none" /\ f = Described(d) BY <3>1 DEF Describes
      <4> HIDE DEF d, f
      <4>2. f = NoConductor \/ f.local = d.creating BY <1>3, <4>1, DescribedFacts
      <4> QED BY <4>1, <4>2, NoConductorFacts
    <3>2. CASE Gathers(q, p)
      <4>1. f.local = d.local BY <1>3, <3>2, GatheredFacts DEF Gathers
      <4> QED BY <3>2, <4>1 DEF Gathers
    <3> QED BY <1>13, <3>1, <3>2
  <2> QED BY <2>2, <2>3 DEF Still
<1> QED BY <1>1, <1>5, <1>6, <1>7, <1>8, <1>9, <1>10, <1>11, <1>12, <1>13 DEF Seen

-----------------------------------------------------------------------------
(* Heeds is kept.                                                          *)

\* Heeds, after a step in which neither says, hears or makes anything,
LEMMA CalmHeeds ==
  ASSUME Types, Types', OneFate, AllMet, Next, NEW p \in Process, NEW q \in Process,
         Heeds(p, q), Calm(p, q)
  PROVE  Heeds(p, q)'
<1> SUFFICES ASSUME Listens(p, q)' PROVE Heeded(p, q)' BY DEF Heeds
<1> DEFINE c == conductor[p][q]
           d == conductor[q][p]
           e == conductor'[p][q]
           f == conductor'[q][p]
<1>1. c \in Sound /\ d \in Sound /\ Met(p, q) BY DEF Types, AllMet
<1>2. Counted(p, q) /\ Counted(p, q)' BY CountedNow, CountedNext
<1>3. /\ callback'[p] => callback[p]
      /\ p \in member' /\ readyState'[p] = "OPEN" => readyState[p] = "OPEN"
      /\ q \in member' /\ readyState'[q] = "OPEN" => readyState[q] = "OPEN"
  BY Linked
<1>4. /\ Calls(p, q)' <= Calls(p, q)
      /\ Flying(p, q, Payload)' <= Flying(p, q, Payload)
      /\ Flying(p, q, Offers)' <= Flying(p, q, Offers)
      /\ Flying(p, q, Cands)' <= Flying(p, q, Cands)
      /\ callback'[p] => /\ CallLed(p, q) => CallLed(p, q)'
                         /\ NewsLed(p, q) => NewsLed(p, q)'
      /\ callback'[p] /\ Intact(p, q)' =>
            /\ Due(p, q)' = Due(p, q) /\ Flying(p, q, Offers)' = Flying(p, q, Offers)
            /\ UpLed(p, q) => UpLed(p, q)'
  BY <1>2, FlowCalm DEF Calm
<1>5. (Pending(p, q)' => Pending(p, q)) /\ (Silent(p, q) => Silent(p, q)')
  BY <1>2, <1>4 DEF Pending, Silent, Counted
<1>6. /\ c = NoConductor => e = NoConductor
      /\ e.kept => c.kept
      /\ e.remote => c.remote /\ e.theirs = c.theirs /\ e.added = c.added /\ e.local = c.local
      /\ f.remote => d.remote /\ f.pc = d.pc /\ f.local = d.local /\ f.left = d.left
  BY <1>1, ClosedFacts DEF Calm, Closed
<1>7. e.theirs = c.theirs /\ e.added = c.added /\ e.local = c.local /\ Listens(p, q)
  <2>1. callback'[p] /\ (Pending(p, q)' \/ (e.kept /\ e.remote)) BY DEF Listens
  <2> HIDE DEF e
  <2>2. CASE Pending(p, q)'
    <3>1. c = NoConductor BY <1>1, <1>5, <2>2 DEF Met
    <3> QED BY <1>3, <1>5, <1>6, <2>1, <2>2, <3>1 DEF Listens
  <2>3. CASE e.kept /\ e.remote BY <1>3, <1>6, <2>1, <2>3 DEF Listens
  <2> QED BY <2>1, <2>2, <2>3
<1>8. Heeded(p, q) /\ callback'[p] BY <1>7 DEF Heeds, Listens
<1>9. Intact(p, q)' => Intact(p, q) /\ (readyState'[q] = "OPEN" => readyState[q] = "OPEN")
  BY <1>3 DEF Intact, Calm
<1>10. c.added \in Nat /\ d.left \in Nat /\ MaxCandidate \in Nat
  BY <1>1, SoundFacts, CandidateAssumption
<1>11. /\ Pending(p, q)' => CallLed(p, q)'
       /\ p # Server /\ ~Silent(p, q)' => ~Pending(p, q)' /\ e.local # "none"
  BY <1>4, <1>5, <1>7, <1>8 DEF Heeded
<1>12. /\ Flying(p, q, Offers)' <= 1
       /\ e.theirs # "none" => Flying(p, q, Offers)' = 0
       /\ e.added + Flying(p, q, Cands)' <= MaxCandidate
       /\ f.remote /\ f.pc => e.added + Flying(p, q, Cands)' + f.left <= MaxCandidate
  <2>1. /\ Flying(p, q, Offers) <= 1
        /\ c.theirs # "none" => Flying(p, q, Offers) = 0
        /\ c.added + Flying(p, q, Cands) <= MaxCandidate
        /\ d.remote /\ d.pc => c.added + Flying(p, q, Cands) + d.left <= MaxCandidate
    BY <1>8 DEF Heeded
  <2> HIDE DEF c, d, e, f
  <2> QED BY <1>2, <1>4, <1>6, <1>7, <1>10, <2>1 DEF Counted
<1>13. /\ e.theirs = "none" => /\ NewsLed(p, q)'
                               /\ Intact(p, q)' => Due(p, q)' > 0 \/ UpLed(p, q)'
       /\ Intact(p, q)' /\ readyState'[q] = "OPEN" /\ f.remote /\ f.local # "none"
             => e.theirs # "none" \/ Flying(p, q, Offers)' > 0
  <2>1. /\ c.theirs = "none" => /\ NewsLed(p, q)
                                /\ Intact(p, q) => Due(p, q) > 0 \/ UpLed(p, q)
        /\ Intact(p, q) /\ readyState[q] = "OPEN" /\ d.remote /\ d.local # "none"
             => c.theirs # "none" \/ Flying(p, q, Offers) > 0
    BY <1>8 DEF Heeded
  <2> HIDE DEF c, d, e, f
  <2> QED BY <1>4, <1>6, <1>7, <1>8, <1>9, <2>1
<1> QED BY <1>11, <1>12, <1>13 DEF Heeded

\* after one that leaves the pair strangers,
LEMMA BlankHeeds ==
  ASSUME Types', NEW p \in Process, NEW q \in Process, Blank(p, q)'
  PROVE  Heeds(p, q)'
<1>1. Counted(p, q)' BY CountedNext
<1>2. /\ Silent(p, q)' /\ Flying(p, q, Offers)' = 0 /\ Flying(p, q, Cands)' = 0
      /\ CallLed(p, q)' /\ NewsLed(p, q)' /\ UpLed(p, q)'
  BY <1>1 DEF Blank, Counted
<1>3. conductor'[p][q] = NoConductor /\ conductor'[q][p] = NoConductor BY DEF Blank
<1>4. NoConductor.added + 0 <= MaxCandidate BY NoConductorFacts, CandidateAssumption
<1> QED BY <1>2, <1>3, <1>4, NoConductorFacts DEF Heeds, Heeded

\* What is in common of the steps that leave the Conductor of p, what is on its
\* way to it, and the connections alone.
Level(p, q) ==
    /\ Flying(p, q, Payload)' = Flying(p, q, Payload)
    /\ Flying(p, q, Offers)' = Flying(p, q, Offers)
    /\ Flying(p, q, Cands)' = Flying(p, q, Cands)
    /\ NewsLed(p, q) => NewsLed(p, q)'
    /\ Due(p, q)' = Due(p, q)
    /\ UpLed(p, q) => UpLed(p, q)'

\* p's Conductor has heard the same.
Retold(c, e) == e.theirs = c.theirs /\ e.added = c.added

\* q has no more candidates to send, and has described itself only if it had.
Speaks(q, p) ==
    LET d == conductor[q][p]
        f == conductor'[q][p]
    IN  /\ f.remote /\ f.pc => d.remote /\ d.pc /\ f.left <= d.left
        /\ readyState[q] = "OPEN" /\ f.remote /\ f.local # "none" => d.remote /\ d.local # "none"

\* p's Conductor has heard the same, the same is on its way to it, and q speaks
\* no more than it did.
LEMMA LevelHeeds ==
  ASSUME Types, Types', NEW p \in Process, NEW q \in Process, Heeded(p, q), Steady, Level(p, q),
         Retold(conductor[p][q], conductor'[p][q]), Speaks(q, p),
         Pending(p, q)' => Pending(p, q) /\ (CallLed(p, q) => CallLed(p, q)'),
         p # Server /\ ~Silent(p, q) /\ conductor[p][q].local # "none"
             => conductor'[p][q].local # "none"
  PROVE  Heeded(p, q)'
<1> DEFINE c == conductor[p][q]
           d == conductor[q][p]
           e == conductor'[p][q]
           f == conductor'[q][p]
<1>1. c \in Sound /\ d \in Sound /\ f \in Sound BY DEF Types
<1>2. /\ c.added \in Nat /\ d.left \in Nat /\ f.left \in Nat /\ MaxCandidate \in Nat
      /\ Flying(p, q, Cands) \in Nat
  BY <1>1, SoundFacts, CandidateAssumption, CountedNow DEF Counted
<1>3. /\ Pending(p, q)' => CallLed(p, q)'
      /\ p # Server /\ ~Silent(p, q)' => ~Pending(p, q)' /\ e.local # "none"
  BY DEF Heeded, Level, Silent
<1>4. /\ Flying(p, q, Offers)' <= 1
      /\ e.theirs # "none" => Flying(p, q, Offers)' = 0
      /\ e.added + Flying(p, q, Cands)' <= MaxCandidate
      /\ f.remote /\ f.pc => e.added + Flying(p, q, Cands)' + f.left <= MaxCandidate
  <2>1. /\ Flying(p, q, Offers) <= 1
        /\ c.theirs # "none" => Flying(p, q, Offers) = 0
        /\ c.added + Flying(p, q, Cands) <= MaxCandidate
        /\ d.remote /\ d.pc => c.added + Flying(p, q, Cands) + d.left <= MaxCandidate
    BY DEF Heeded
  <2>2. /\ e.theirs = c.theirs /\ e.added = c.added
        /\ f.remote /\ f.pc => d.remote /\ d.pc /\ f.left <= d.left
    BY DEF Retold, Speaks
  <2> HIDE DEF c, d, e, f
  <2> QED BY <1>2, <2>1, <2>2 DEF Level
<1>5. Intact(p, q)' = Intact(p, q) /\ readyState' = readyState BY DEF Intact, Steady
<1>6. /\ e.theirs = "none" => /\ NewsLed(p, q)'
                              /\ Intact(p, q)' => Due(p, q)' > 0 \/ UpLed(p, q)'
      /\ Intact(p, q)' /\ readyState'[q] = "OPEN" /\ f.remote /\ f.local # "none"
            => e.theirs # "none" \/ Flying(p, q, Offers)' > 0
  <2>1. /\ c.theirs = "none" => /\ NewsLed(p, q)
                                /\ Intact(p, q) => Due(p, q) > 0 \/ UpLed(p, q)
        /\ Intact(p, q) /\ readyState[q] = "OPEN" /\ d.remote /\ d.local # "none"
             => c.theirs # "none" \/ Flying(p, q, Offers) > 0
    BY DEF Heeded
  <2>2. /\ e.theirs = c.theirs
        /\ readyState[q] = "OPEN" /\ f.remote /\ f.local # "none" => d.remote /\ d.local # "none"
    BY DEF Retold, Speaks
  <2> HIDE DEF c, d, e, f
  <2> QED BY <1>5, <2>1, <2>2 DEF Level
<1> QED BY <1>3, <1>4, <1>6 DEF Heeded

\* q, which has sent nothing, does not send now.
LEMMA QuietHeeds ==
  ASSUME Types', NEW p \in Process, NEW q \in Process, Quiet(p, q)',
         conductor'[q][p].remote => conductor'[q][p].local = "none"
  PROVE  Heeded(p, q)'
<1>1. Counted(p, q)' BY CountedNext
<1>2. /\ Silent(p, q)' /\ Flying(p, q, Offers)' = 0 /\ Flying(p, q, Cands)' = 0
      /\ CallLed(p, q)' /\ NewsLed(p, q)' /\ UpLed(p, q)'
  BY <1>1 DEF Quiet, Counted
<1>3. conductor'[p][q].theirs = "none" /\ conductor'[p][q].added = 0 BY DEF Quiet
<1>4. /\ conductor'[q][p].left \in Nat /\ conductor'[q][p].left <= MaxCandidate
      /\ MaxCandidate \in Nat
  <2>1. conductor'[q][p] \in Sound BY DEF Types
  <2> QED BY <2>1, SoundFacts, CandidateAssumption
<1> QED BY <1>2, <1>3, <1>4 DEF Heeded

\* What the server says to a client answers an offer.
LEMMA SpokenTo ==
  ASSUME AllMet, AllRole, AllStill, NEW p \in Process, NEW q \in Process, Listens(p, q),
         p # Server, conductor[q][p].creating # "none" \/ conductor[q][p].local # "none"
  PROVE  ~Pending(p, q) /\ conductor[p][q].local # "none"
<1>1. q = Server
  <2>1. conductor[q][p] # NoConductor BY NoConductorFacts
  <2> QED BY <2>1 DEF AllMet, Met
<1>2. conductor[q][p].theirs # "none" BY <1>1 DEF AllRole, Role
<1> QED BY <1>2 DEF AllStill, Still, Quiet, Listens

\* after the signal server passes something on to p,
LEMMA RelaysHeeds ==
  ASSUME Types, Types', NEW p \in Process, NEW q \in Process, Heeds(p, q), Relays(p, q)
  PROVE  Heeds(p, q)'
<1>1. Counted(p, q) /\ Counted(p, q)' BY CountedNow, CountedNext
<1>2. PICK x \in Payload :
         /\ Calls(p, q)' = Calls(p, q)
         /\ Flying(p, q, Payload)' = Flying(p, q, Payload)
         /\ Flying(p, q, Offers)' = Flying(p, q, Offers)
         /\ Flying(p, q, Cands)' = Flying(p, q, Cands)
         /\ Due(p, q)' = Due(p, q) + (IF x \in Offers THEN 1 ELSE 0)
         /\ CallLed(p, q) /\ Pending(p, q) => CallLed(p, q)'
         /\ NewsLed(p, q) /\ (x \in Cands => Due(p, q) > 0) => NewsLed(p, q)'
         /\ UpLed(p, q) => x \in Offers
  BY RelaysMoves
<1>3. /\ conductor' = conductor /\ callback' = callback /\ readyState' = readyState
      /\ Intact(p, q) /\ Intact(p, q)'
  BY DEF Relays, Steady, Intact
<1>4. (Pending(p, q)' <=> Pending(p, q)) /\ (Silent(p, q)' <=> Silent(p, q))
  BY <1>2 DEF Pending, Silent
<1> SUFFICES ASSUME Listens(p, q)' PROVE Heeded(p, q)' BY DEF Heeds
<1>5. Heeded(p, q) BY <1>3, <1>4 DEF Heeds, Listens
<1>6. Due(p, q)' > 0 \/ x \notin Offers BY <1>1, <1>2 DEF Counted
<1>7. Due(p, q) > 0 => Due(p, q)' > 0 BY <1>1, <1>2 DEF Counted
<1>8. x \in Offers => x \notin Cands BY PayloadSets
<1>9. conductor[p][q].theirs = "none" => NewsLed(p, q)' /\ Due(p, q)' > 0
  BY <1>2, <1>3, <1>5, <1>6, <1>7, <1>8 DEF Heeded
<1> QED BY <1>2, <1>3, <1>4, <1>5, <1>9 DEF Heeded

\* after p is told that q has joined,
LEMMA GreetsHeeds ==
  ASSUME Types, Types', AllMet, NEW p \in Process, NEW q \in Process, Heeds(p, q), Greets(p, q)
  PROVE  Heeds(p, q)'
<1> SUFFICES ASSUME Listens(p, q)' PROVE Heeded(p, q)' BY DEF Heeds
<1> DEFINE c == conductor[p][q]
           e == conductor'[p][q]
<1>1. Steady /\ callback[p] /\ conductor'[q][p] = conductor[q][p] /\ Begun(p, e)
  BY DEF Listens, Greets, Steady
<1>2. /\ Calls(p, q) = 1 + Calls(p, q)' /\ Pending(p, q) /\ Level(p, q)
  BY GreetsTakes DEF Level
<1>3. Heeded(p, q) BY <1>1, <1>2 DEF Heeds, Listens
<1>4. c = NoConductor /\ Calls(p, q) <= 1 BY <1>2 DEF AllMet, Met
<1>5. ~Pending(p, q)'
  <2>1. Counted(p, q) /\ Counted(p, q)' BY CountedNow, CountedNext
  <2> QED BY <1>2, <1>4, <2>1 DEF Pending, Counted
<1>6. Retold(c, e) /\ c.local = "none" BY <1>1, <1>4, NoConductorFacts DEF Retold, Begun
<1>7. Speaks(q, p)
  <2>1. conductor[q][p] \in Sound BY DEF Types
  <2>2. conductor[q][p].left <= conductor[q][p].left BY <2>1, SoundFacts
  <2> QED BY <1>1, <2>2 DEF Speaks
<1> QED BY <1>1, <1>2, <1>3, <1>5, <1>6, <1>7, LevelHeeds

\* after p hears a description or a candidate of q,
LEMMA HearsHeeds ==
  ASSUME Types, Types', AllMet, AllRole, NEW p \in Process, NEW q \in Process,
         Heeds(p, q), Hears(p, q)
  PROVE  Heeds(p, q)'
<1> SUFFICES ASSUME Listens(p, q)' PROVE Heeded(p, q)' BY DEF Heeds
<1> DEFINE c == conductor[p][q]
           d == conductor[q][p]
           e == conductor'[p][q]
<1>1. /\ c \in Sound /\ d \in Sound /\ e \in Sound
      /\ Counted(p, q) /\ Counted(p, q)'
  <2>1. Counted(p, q) /\ Counted(p, q)' BY CountedNow, CountedNext
  <2> QED BY <2>1 DEF Types
<1>2. PICK x \in Payload :
         /\ e \in IF callback[p] /\ c.kept THEN Heard(c, x) ELSE {c}
         /\ Calls(p, q)' = Calls(p, q) /\ ~Silent(p, q) /\ ~CallLed(p, q)
         /\ NewsLed(p, q) => x \in Offers
         /\ Flying(p, q, Offers) = Flying(p, q, Offers)' + (IF x \in Offers THEN 1 ELSE 0)
         /\ Flying(p, q, Cands) = Flying(p, q, Cands)' + (IF x \in Cands THEN 1 ELSE 0)
         /\ Flying(p, q, {Ours(p)}) = Flying(p, q, {Ours(p)})' + (IF x = Ours(p) THEN 1 ELSE 0)
  BY HearsTakes
<1>3. Steady /\ conductor'[q][p] = d BY DEF Hears
<1>4. callback[p] BY <1>3 DEF Listens, Steady
<1>5. ~Pending(p, q) /\ ~Pending(p, q)'
  <2>1. ~Pending(p, q) BY <1>2, <1>4 DEF Heeds, Heeded, Listens
  <2> QED BY <1>2, <2>1 DEF Pending
<1>6. e.kept /\ e.remote BY <1>5 DEF Listens
<1>7. c.kept /\ e \in Heard(c, x)
  <2>1. CASE c.kept BY <1>2, <1>4, <2>1
  <2>2. CASE ~c.kept BY <1>2, <1>6, <2>2
  <2> QED BY <2>1, <2>2
<1>8. /\ e.remote => c.remote /\ e.local = c.local /\ (c.pc => e.left = c.left)
      /\ e.remote /\ Fits(c, x) /\ x \in Offers => e.theirs = x /\ e.added = c.added
      /\ e.remote /\ Fits(c, x) /\ x = "candidate" => e.theirs = c.theirs /\ e.added = c.added + 1
  <2> HIDE DEF c, e
  <2> QED BY <1>1, <1>7, HeardFacts
<1>9. c.remote /\ e.local = c.local BY <1>6, <1>8
<1>10. Heeded(p, q) BY <1>4, <1>7, <1>9 DEF Heeds, Listens
<1>11. Fits(c, x)
  <2>1. x # Ours(p) BY <1>1, <1>2 DEF AllRole, Role, Counted
  <2>2. x \in Offers => Flying(p, q, Offers) > 0 BY <1>1, <1>2 DEF Counted
  <2>3. x \in Cands => Flying(p, q, Cands) > 0 BY <1>1, <1>2 DEF Counted
  <2> QED BY <1>2, <1>4, <1>7, <1>9, <2>1, <2>2, <2>3, HeedsFits DEF AllRole
<1>12. /\ Flying(p, q, Offers) <= 1
       /\ c.theirs # "none" => Flying(p, q, Offers) = 0
       /\ c.added + Flying(p, q, Cands) <= MaxCandidate
       /\ d.remote /\ d.pc => c.added + Flying(p, q, Cands) + d.left <= MaxCandidate
       /\ p # Server => c.local # "none"
  BY <1>2, <1>10 DEF Heeded
<1>13. /\ c.added \in Nat /\ d.left \in Nat /\ MaxCandidate \in Nat
  BY <1>1, SoundFacts, CandidateAssumption
<1> HIDE DEF c, d, e
<1>14. /\ e.theirs # "none" /\ Flying(p, q, Offers)' = 0
       /\ e.added + Flying(p, q, Cands)' = c.added + Flying(p, q, Cands)
  <2>1. CASE x \in Offers
    <3>1. x \notin Cands /\ x # "none" BY <2>1, PayloadSets DEF Offers
    <3>2. e.theirs = x /\ e.added = c.added BY <1>6, <1>8, <1>11, <2>1
    <3>3. /\ Flying(p, q, Offers) = Flying(p, q, Offers)' + 1
          /\ Flying(p, q, Cands) = Flying(p, q, Cands)' + 0
      BY <1>2, <2>1, <3>1
    <3>4. Flying(p, q, Offers)' \in Nat /\ Flying(p, q, Cands)' \in Nat
      BY <1>1 DEF Counted
    <3> QED BY <1>12, <1>13, <3>1, <3>2, <3>3, <3>4
  <2>2. CASE x = "candidate"
    <3>1. x \notin Offers /\ x \in Cands BY <2>2 DEF Offers, Cands
    <3>2. c.theirs # "none" BY <1>11, <2>2, FitsFacts
    <3>3. e.theirs = c.theirs /\ e.added = c.added + 1 BY <1>6, <1>8, <1>11, <2>2
    <3>4. /\ Flying(p, q, Offers) = Flying(p, q, Offers)' + 0
          /\ Flying(p, q, Cands) = Flying(p, q, Cands)' + 1
      BY <1>2, <3>1
    <3>5. Flying(p, q, Offers)' \in Nat /\ Flying(p, q, Cands)' \in Nat
      BY <1>1 DEF Counted
    <3> QED BY <1>12, <1>13, <3>2, <3>3, <3>4, <3>5
  <2> QED BY <2>1, <2>2 DEF Payload, Offers
<1>15. /\ e.added + Flying(p, q, Cands)' <= MaxCandidate
       /\ d.remote /\ d.pc => e.added + Flying(p, q, Cands)' + d.left <= MaxCandidate
  BY <1>12, <1>14
<1>16. p # Server => e.local # "none" BY <1>9, <1>12
<1> QED BY <1>3, <1>5, <1>14, <1>15, <1>16 DEF Heeded, c, d, e

\* q takes a message of p.
LEMMA ActorHeeds ==
  ASSUME Types, Types', AllMet, AllStill, NEW p \in Process, NEW q \in Process, Heeds(p, q),
         Greets(q, p) \/ Hears(q, p)
  PROVE  Heeds(p, q)'
<1> SUFFICES ASSUME Listens(p, q)' PROVE Heeded(p, q)' BY DEF Heeds
<1> DEFINE c == conductor[p][q]
           d == conductor[q][p]
           f == conductor'[q][p]
<1>1. Same(p, q) /\ conductor'[p][q] = c BY ActorSame
<1>2. Steady BY DEF Greets, Hears
<1>3. Pending(p, q)' <=> Pending(p, q) BY <1>1 DEF Same, Pending
<1>4. Heeded(p, q) BY <1>1, <1>2, <1>3 DEF Heeds, Listens, Steady
<1>5. Level(p, q) /\ Retold(c, c) BY <1>1 DEF Same, Level, Retold
<1>6. ASSUME Quiet(p, q), f.remote => f.local = "none" PROVE Heeded(p, q)'
  <2>1. Quiet(p, q)' BY <1>1, <1>6 DEF Quiet, Silent, Same
  <2> QED BY <1>6, <2>1, QuietHeeds
<1>7. ASSUME Speaks(q, p) PROVE Heeded(p, q)'
  BY <1>1, <1>2, <1>3, <1>4, <1>5, <1>7, LevelHeeds DEF Same
<1>8. d \in Sound /\ f \in Sound BY DEF Types
<1>9. f = d => Speaks(q, p)
  <2>1. d.left <= d.left BY <1>8, SoundFacts
  <2> QED BY <2>1 DEF Speaks
<1>10. CASE Greets(q, p)
  <2>1. f = d \/ Begun(q, f) BY <1>10 DEF Greets
  <2>2. Quiet(p, q) BY <1>10, GreetsTakes DEF AllStill, Still
  <2> QED BY <1>6, <1>7, <1>9, <2>1, <2>2 DEF Begun
<1>11. CASE Hears(q, p)
  <2>1. PICK x \in Payload : f \in IF callback[q] /\ d.kept THEN Heard(d, x) ELSE {d}
    BY <1>11, HearsTakes
  <2>2. CASE f = d BY <1>7, <1>9, <2>2
  <2>3. CASE f \in Heard(d, x)
    <3>1. f.remote => d.remote /\ f.local = d.local /\ (d.pc => f.left = d.left)
      <4> HIDE DEF d, f
      <4> QED BY <1>8, <2>3, HeardFacts
    <3>2. CASE ~f.remote BY <1>7, <3>2 DEF Speaks
    <3>3. CASE f.remote /\ d.pc
      <4>1. f.left <= d.left BY <1>8, <3>1, <3>3, SoundFacts
      <4> QED BY <1>7, <3>1, <3>3, <4>1 DEF Speaks
    <3>4. CASE f.remote /\ ~d.pc
      <4>1. d.local = "none" BY <1>8, <3>4, SoundFacts
      <4>2. Quiet(p, q) BY <3>1, <3>4, <4>1 DEF AllStill, Still
      <4> QED BY <1>6, <3>1, <3>4, <4>1, <4>2
    <3> QED BY <1>8, <3>2, <3>3, <3>4, SoundFacts
  <2> QED BY <2>1, <2>2, <2>3
<1> QED BY <1>10, <1>11

\* p describes itself to q.
LEMMA OwnHeeds ==
  ASSUME Types, Types', AllMet, NEW p \in Process, NEW q \in Process, Heeds(p, q),
         Describes(p, q) \/ Gathers(p, q)
  PROVE  Heeds(p, q)'
<1> SUFFICES ASSUME Listens(p, q)' PROVE Heeded(p, q)' BY DEF Heeds
<1> DEFINE c == conductor[p][q]
           d == conductor[q][p]
           e == conductor'[p][q]
<1>1. Same(p, q) /\ conductor'[q][p] = d /\ Steady
  BY SaysSame DEF Describes, Gathers, Says
<1>2. c \in Sound /\ d \in Sound /\ c # NoConductor
  BY NoConductorFacts DEF Types, Describes, Gathers
<1>3. ~Pending(p, q) /\ ~Pending(p, q)' BY <1>1, <1>2 DEF AllMet, Met, Same, Pending
<1>4. /\ e.kept /\ e.remote => c.kept /\ c.remote
      /\ e.kept => e.theirs = c.theirs /\ e.added = c.added /\ e.local # "none"
  <2>1. CASE Describes(p, q)
    <3>1. c.creating # "none" /\ e = Described(c) BY <2>1 DEF Describes
    <3> HIDE DEF c, e
    <3>2. \/ e = NoConductor
          \/ /\ e.kept = c.kept /\ e.remote = c.remote
             /\ e.local = c.creating /\ e.theirs = c.theirs /\ e.added = c.added
      BY <1>2, <3>1, DescribedFacts
    <3> QED BY <3>1, <3>2, NoConductorFacts
  <2>2. CASE Gathers(p, q)
    <3>1. c.local # "none" /\ c.left > 0 /\ e = [c EXCEPT !.left = c.left - 1]
      BY <2>2 DEF Gathers
    <3> HIDE DEF c, e
    <3> QED BY <1>2, <3>1, GatheredFacts
  <2> QED BY <2>1, <2>2
<1>5. e.kept /\ e.remote /\ callback'[p] BY <1>3 DEF Listens
<1>6. Heeded(p, q) BY <1>1, <1>4, <1>5 DEF Heeds, Listens, Steady
<1>7. Level(p, q) /\ Retold(c, e) BY <1>1, <1>4, <1>5 DEF Same, Level, Retold
<1>8. Speaks(q, p)
  <2>1. d.left <= d.left BY <1>2, SoundFacts
  <2> QED BY <1>1, <2>1 DEF Speaks
<1> QED BY <1>1, <1>3, <1>4, <1>5, <1>6, <1>7, <1>8, LevelHeeds

\* q describes itself to p.
LEMMA DescribesHeeds ==
  ASSUME Types, Types', AllMet, AllRole, AllStill, NEW p \in Process, NEW q \in Process,
         Heeds(p, q), Describes(q, p)
  PROVE  Heeds(p, q)'
<1> SUFFICES ASSUME Listens(p, q)' PROVE Heeded(p, q)' BY DEF Heeds
<1> DEFINE c == conductor[p][q]
           d == conductor[q][p]
           f == conductor'[q][p]
<1>1. /\ Says(q, p, d.creating) /\ Steady /\ conductor'[p][q] = c /\ Calls(p, q)' = Calls(p, q)
      /\ ~(d.remote /\ readyState[q] = "OPEN") => Same(p, q)
  BY SaysSame DEF Describes, Says
<1>2. c \in Sound /\ d \in Sound /\ f \in Sound /\ Counted(p, q) /\ Counted(p, q)'
  <2>1. Counted(p, q) /\ Counted(p, q)' BY CountedNow, CountedNext
  <2> QED BY <2>1 DEF Types
<1>3. Pending(p, q)' <=> Pending(p, q) BY <1>1 DEF Pending
<1>4. Listens(p, q) BY <1>1, <1>3 DEF Listens, Steady
<1>5. Heeded(p, q) BY <1>4 DEF Heeds
<1>6. /\ d.creating \in Offers /\ d.local = "none"
      /\ f = NoConductor \/ (f.remote = d.remote /\ f.pc = d.pc /\ f.local = d.creating /\ f.left = d.left)
  <2>1. d.creating # "none" /\ f = Described(d) BY DEF Describes
  <2>2. d.creating \in {"none", Ours(q)} /\ d.local = "none" BY <2>1 DEF AllRole, Role
  <2>3. d.creating \in Offers BY <2>1, <2>2, PayloadSets
  <2> HIDE DEF d, f
  <2> QED BY <1>2, <2>1, <2>2, <2>3, DescribedFacts
<1>7. CASE ~(d.remote /\ readyState[q] = "OPEN")
  <2>1. Same(p, q) /\ Level(p, q) /\ Retold(c, c) BY <1>1, <1>7 DEF Same, Level, Retold
  <2>2. Speaks(q, p)
    <3>1. d.left <= d.left BY <1>2, SoundFacts
    <3> QED BY <1>6, <1>7, <3>1, NoConductorFacts DEF Speaks
  <2> QED BY <1>1, <1>3, <1>5, <2>1, <2>2, LevelHeeds DEF Same
<1>8. CASE d.remote /\ readyState[q] = "OPEN"
  <2>1. d.creating \notin Cands /\ d.creating \in Payload BY <1>6, PayloadSets
  <2>2. /\ Flying(p, q, Offers)' = Flying(p, q, Offers) + 1
        /\ Flying(p, q, Cands)' = Flying(p, q, Cands) + 0
        /\ CallLed(p, q) => CallLed(p, q)'
        /\ NewsLed(p, q) => NewsLed(p, q)'
        /\ UpLed(p, q) => UpLed(p, q)'
    BY <1>1, <1>6, <1>8, <2>1, SaysAdds
  <2>3. Quiet(p, q) BY <1>6, <1>8 DEF AllStill, Still
  <2>4. /\ Flying(p, q, Offers) = 0 /\ Flying(p, q, Cands) = 0
        /\ CallLed(p, q) /\ NewsLed(p, q) /\ UpLed(p, q) /\ c.theirs = "none" /\ c.added = 0
    BY <1>2, <2>3 DEF Quiet, Counted
  <2>5. Flying(p, q, Offers)' = 1 /\ Flying(p, q, Cands)' = 0 BY <2>2, <2>4
  <2>6. p # Server => ~Pending(p, q)' /\ c.local # "none"
    <3>1. d.creating # "none" BY DEF Describes
    <3> QED BY <1>3, <1>4, <3>1, SpokenTo
  <2>7. f.left \in Nat /\ f.left <= MaxCandidate /\ MaxCandidate \in Nat
    BY <1>2, SoundFacts, CandidateAssumption
  <2>8. c.added + 0 <= MaxCandidate /\ c.added + 0 + f.left <= MaxCandidate BY <2>4, <2>7
  <2> QED BY <1>1, <2>2, <2>4, <2>5, <2>6, <2>8 DEF Heeded
<1> QED BY <1>7, <1>8

\* q sends p a candidate.
LEMMA GathersHeeds ==
  ASSUME Types, Types', AllMet, AllRole, AllStill, NEW p \in Process, NEW q \in Process,
         Heeds(p, q), Gathers(q, p)
  PROVE  Heeds(p, q)'
<1> SUFFICES ASSUME Listens(p, q)' PROVE Heeded(p, q)' BY DEF Heeds
<1> DEFINE c == conductor[p][q]
           d == conductor[q][p]
           f == conductor'[q][p]
<1>1. /\ Says(q, p, "candidate") /\ Steady /\ conductor'[p][q] = c
      /\ Calls(p, q)' = Calls(p, q)
      /\ ~(d.remote /\ readyState[q] = "OPEN") => Same(p, q)
  BY SaysSame DEF Gathers, Says
<1>2. c \in Sound /\ d \in Sound /\ Counted(p, q) /\ Counted(p, q)'
  <2>1. Counted(p, q) /\ Counted(p, q)' BY CountedNow, CountedNext
  <2> QED BY <2>1 DEF Types
<1>3. Pending(p, q)' <=> Pending(p, q) BY <1>1 DEF Pending
<1>4. Listens(p, q) BY <1>1, <1>3 DEF Listens, Steady
<1>5. Heeded(p, q) BY <1>4 DEF Heeds
<1>6. /\ d.local # "none" /\ d.left > 0 /\ d.pc
      /\ f.remote = d.remote /\ f.pc = d.pc /\ f.local = d.local /\ f.left = d.left - 1
  <2>1. d.local # "none" /\ d.left > 0 /\ f = [d EXCEPT !.left = d.left - 1] BY DEF Gathers
  <2> HIDE DEF d, f
  <2> QED BY <1>2, <2>1, GatheredFacts, SoundFacts
<1>7. d.left \in Nat /\ c.added \in Nat /\ MaxCandidate \in Nat
  BY <1>2, SoundFacts, CandidateAssumption
<1>8. CASE ~(d.remote /\ readyState[q] = "OPEN")
  <2>1. Same(p, q) /\ Level(p, q) /\ Retold(c, c) BY <1>1, <1>8 DEF Same, Level, Retold
  <2>2. Speaks(q, p)
    <3>1. f.left <= d.left BY <1>6, <1>7
    <3> QED BY <1>6, <3>1 DEF Speaks
  <2> QED BY <1>1, <1>3, <1>5, <2>1, <2>2, LevelHeeds DEF Same
<1>9. CASE d.remote /\ readyState[q] = "OPEN"
  <2>1. "candidate" \notin Offers /\ "candidate" \in Cands /\ "candidate" \in Payload
    BY DEF Offers, Cands, Payload
  <2>2. /\ Due(p, q)' = Due(p, q)
        /\ Flying(p, q, Offers)' = Flying(p, q, Offers) + 0
        /\ Flying(p, q, Cands)' = Flying(p, q, Cands) + 1
        /\ CallLed(p, q) => CallLed(p, q)'
        /\ NewsLed(p, q) => NewsLed(p, q)'
        /\ UpLed(p, q) /\ Sent(p, q) > 0 => UpLed(p, q)'
    BY <1>1, <1>9, <2>1, SaysAdds
  <2>3. Flying(p, q, Offers)' = Flying(p, q, Offers) BY <1>2, <2>2 DEF Counted
  <2>4. /\ c.added + Flying(p, q, Cands)' <= MaxCandidate
        /\ c.added + Flying(p, q, Cands)' + f.left <= MaxCandidate
    <3>1. c.added + Flying(p, q, Cands) + d.left <= MaxCandidate
      BY <1>5, <1>6, <1>9 DEF Heeded
    <3>2. Flying(p, q, Cands) \in Nat BY <1>2 DEF Counted
    <3> HIDE DEF c, d, f
    <3> QED BY <1>6, <1>7, <2>2, <3>1, <3>2
  <2>5. p # Server => ~Pending(p, q)' /\ c.local # "none"
    BY <1>3, <1>4, <1>6, SpokenTo
  <2>6. Intact(p, q)' <=> Intact(p, q) BY <1>1 DEF Intact, Steady
  <2>7. c.theirs = "none" /\ Intact(p, q) => Due(p, q)' > 0 \/ UpLed(p, q)'
    <3>1. SUFFICES ASSUME c.theirs = "none", Intact(p, q), ~(Due(p, q) > 0)
                   PROVE  UpLed(p, q)'
      BY <2>2
    <3>2. Flying(p, q, Offers) > 0 /\ UpLed(p, q) BY <1>5, <1>6, <1>9, <3>1 DEF Heeded
    <3>3. Sent(p, q) > 0 BY <1>2, <3>1, <3>2 DEF Counted
    <3> QED BY <2>2, <3>2, <3>3
  <2>8. Steady => readyState' = readyState BY DEF Steady
  <2> QED BY <1>1, <1>3, <1>5, <1>6, <2>2, <2>3, <2>4, <2>5, <2>6, <2>7, <2>8 DEF Heeded
<1> QED BY <1>8, <1>9

\* Heeds, after any step.
LEMMA StepHeeds ==
  ASSUME Types, Types', OneFate, AllMet, AllRole, AllStill, AllHeeds, Next,
         NEW p \in Process, NEW q \in Process
  PROVE  Heeds(p, q)'
<1>1. Seen(p, q) BY StepSeen
<1>2. Heeds(p, q) BY DEF AllHeeds
<1> QED BY <1>1, <1>2, CalmHeeds, BlankHeeds, RelaysHeeds, GreetsHeeds, HearsHeeds, ActorHeeds,
           OwnHeeds, DescribesHeeds, GathersHeeds DEF Seen
-----------------------------------------------------------------------------
\* The invariant.
Agree == AllMet /\ AllRole /\ AllStill /\ AllHeeds

\* The invariant holds at first,
LEMMA InitAgree == Init => Agree
<1> SUFFICES ASSUME Init PROVE Agree OBVIOUS
<1>1. Types BY InitTypes
<1>2. ASSUME NEW p \in Process, NEW q \in Process
      PROVE  Met(p, q) /\ Role(p, q) /\ Still(p, q) /\ Heeds(p, q)
  <2>1. /\ conductor[p][q] = NoConductor /\ conductor[q][p] = NoConductor
        /\ queue[p] = <<>> /\ down[p] = <<>> /\ queue[q] = <<>> /\ down[q] = <<>> /\ up[q] = <<>>
    BY DEF Init
  <2>2. News(p) = <<>> /\ News(q) = <<>>
    <3>1. <<>> \o <<>> = <<>> OBVIOUS
    <3> QED BY <2>1, <3>1 DEF News
  <2>3. Calls(p, q) = 0 /\ Calls(q, p) = 0 /\ Flying(p, q, Payload) = 0
    BY <2>1, <2>2, NumNone DEF Calls, Flying
  <2>4. Counted(p, q) BY <1>1, CountedNow
  <2>5. /\ Silent(p, q) /\ Flying(p, q, {Ours(p)}) = 0 /\ ~Pending(p, q) /\ ~Pending(q, p)
    BY <2>3, <2>4 DEF Silent, Counted, Pending
  <2>6. Met(p, q) BY <2>1, <2>3, <2>5 DEF Met
  <2>7. Role(p, q) BY <2>1, <2>5, NoConductorFacts DEF Role
  <2>8. Still(p, q) BY <2>1, <2>5, NoConductorFacts DEF Still
  <2>9. Heeds(p, q) BY <2>1, <2>5, NoConductorFacts DEF Heeds, Listens
  <2> QED BY <2>6, <2>7, <2>8, <2>9
<1> QED BY <1>2 DEF Agree, AllMet, AllRole, AllStill, AllHeeds

\* every step keeps it,
LEMMA NextAgree == Types /\ OneFate /\ Agree /\ [Next]_vars => Agree'
<1> SUFFICES ASSUME Types, OneFate, Agree, [Next]_vars PROVE Agree' OBVIOUS
<1>1. Types' BY NextTypes
<1>2. CASE Next
  <2>1. AllMet' BY <1>1, <1>2, StepMet DEF Agree, AllMet
  <2>2. AllRole' BY <1>1, <1>2, StepRole DEF Agree, AllRole
  <2>3. AllStill' BY <1>1, <1>2, StepStill DEF Agree, AllStill
  <2>4. AllHeeds' BY <1>1, <1>2, StepHeeds DEF Agree, AllHeeds
  <2> QED BY <2>1, <2>2, <2>3, <2>4 DEF Agree
<1>3. CASE UNCHANGED vars
  <2>1. UNCHANGED <<readyState, callback, queue, conductor, up, down, member>> BY <1>3 DEF vars
  <2>2. \A p, q \in Process :
           /\ Calls(p, q)' = Calls(p, q) /\ Due(p, q)' = Due(p, q)
           /\ CallLed(p, q)' <=> CallLed(p, q)
           /\ NewsLed(p, q)' <=> NewsLed(p, q)
           /\ UpLed(p, q)' <=> UpLed(p, q)
           /\ \A P : Flying(p, q, P)' = Flying(p, q, P)
    BY <2>1 DEF News, Calls, Due, CallLed, NewsLed, UpLed, Flying
  <2>3. AllMet' BY <2>1, <2>2 DEF Agree, AllMet, Met, Pending, Silent, Fresh, Away
  <2>4. AllRole' BY <2>1, <2>2 DEF Agree, AllRole, Role
  <2>5. AllStill' BY <2>1, <2>2 DEF Agree, AllStill, Still, Pending, Quiet, Silent
  <2>6. AllHeeds'
    BY <2>1, <2>2 DEF Agree, AllHeeds, Heeds, Heeded, Listens, Pending, Silent, Intact
  <2> QED BY <2>3, <2>4, <2>5, <2>6 DEF Agree
<1> QED BY <1>2, <1>3

\* and what p hears under it fits its PeerConnection.
LEMMA AgreeFits == Types /\ Agree => NegotiationFits
<1> SUFFICES ASSUME Types, Agree, NEW p \in Process, Taken(p, "ReceivedOffer"), callback[p],
                    conductor[p][Head(queue[p]).peer].kept,
                    conductor[p][Head(queue[p]).peer].remote
             PROVE  Fits(conductor[p][Head(queue[p]).peer], Head(queue[p]).payload)
  BY DEF NegotiationFits
<1>1. queue[p] # <<>> /\ Head(queue[p]) \in Message \cup {Exit} /\ Head(queue[p]).msgid = "ReceivedOffer"
  BY TakenMessage DEF Taken
<1>2. \E q \in Process : \E x \in Payload : Head(queue[p]) = Offered(q, x)
  <2> DEFINE m == Head(queue[p])
  <2>1. m \in Message \cup {Exit} /\ m.msgid = "ReceivedOffer" BY <1>1
  <2> HIDE DEF m
  <2>2. \E q \in Process : \E x \in Payload : m = Offered(q, x) BY <2>1, OfferedFacts
  <2> QED BY <2>2 DEF m
<1>3. PICK q \in Process, x \in Payload :
         /\ Head(queue[p]) = Offered(q, x) /\ Head(queue[p]).peer = q /\ Head(queue[p]).payload = x
  BY <1>2, OfferedFacts
<1>4. conductor[p][q].kept /\ conductor[p][q].remote BY <1>3
<1>5. Role(p, q) /\ Heeds(p, q) BY DEF Agree, AllRole, AllHeeds
<1>6. Counted(p, q) BY CountedNow
<1>7. \A P \in SUBSET Payload : x \in P => Num(News(p), From(q, P)) > 0 /\ Flying(p, q, P) > 0
  <2> TAKE P \in SUBSET Payload
  <2>1. ASSUME x \in P PROVE Num(News(p), From(q, P)) > 0
    <3>1. Head(queue[p]) \in From(q, P) BY <1>3, <2>1, AboutFacts
    <3> QED BY <1>1, <3>1, HeadPresent
  <2>2. Num(News(p), From(q, P)) \in Nat /\ Num(up[q], To(p, P)) \in Nat BY <1>6 DEF Counted
  <2> QED BY <2>1, <2>2 DEF Flying
<1>8. /\ Offers \in SUBSET Payload /\ Cands \in SUBSET Payload /\ Payload \in SUBSET Payload
      /\ {Ours(p)} \in SUBSET Payload
  BY PayloadSets
<1>9. ~Silent(p, q) BY <1>7, <1>8 DEF Silent
<1>10. x # Ours(p) BY <1>5, <1>7, <1>8 DEF Role
<1>11. NewsLed(p, q) => x \in Offers
  <2>1. NewsLed(p, q) => Head(queue[p]) \notin From(q, Cands)
    <3> DEFINE s == queue[p]
               d == down[p]
               T == Message \cup {Exit}
    <3>1. s \in Seq(T) /\ d \in Seq(T) /\ s # <<>> BY <1>1, NewsType
    <3> HIDE DEF s, d, T
    <3>2. Len(s \o d) >= 1 /\ (s \o d)[1] = Head(s) /\ Len(s \o d) \in Nat BY <3>1
    <3>3. \A D, C : Led(s \o d, D, C) => Head(s) \notin C BY <3>2 DEF Led
    <3> QED BY <3>3 DEF NewsLed, News, s, d
  <2>2. x \in Cands => Head(queue[p]) \in From(q, Cands) BY <1>3, AboutFacts
  <2> QED BY <2>1, <2>2, PayloadSets
<1>12. (x \in Offers => Flying(p, q, Offers) > 0) /\ (x \in Cands => Flying(p, q, Cands) > 0)
  BY <1>7, <1>8
<1>13. Fits(conductor[p][q], x) BY <1>4, <1>5, <1>9, <1>10, <1>11, <1>12, HeedsFits
<1> QED BY <1>3, <1>13

\* A description, or a candidate, that a Conductor's PeerConnection is given
\* (SetRemoteDescription, AddIceCandidate) finds it in the state it needs: an
\* offer one that has neither description, an answer one that has set its offer
\* and no remote description, a candidate one that has its remote description.
\* This holds for every number of clients and of candidates, however the
\* threads of the processes and the signal server interleave, and whatever of MayFail happens;
\* a Conductor without a PeerConnection counts as one that has neither.
THEOREM DescriptionsFit == Spec => []NegotiationFits
<1> DEFINE Inv == Types /\ OneFate /\ Agree
<1>1. Init => Inv BY InitTypes, InitFates, InitAgree
<1>2. Inv /\ [Next]_vars => Inv' BY NextTypes, NextFates, NextAgree
<1>3. Inv => NegotiationFits BY AgreeFits
<1> QED BY <1>1, <1>2, <1>3, PTL DEF Spec
=============================================================================

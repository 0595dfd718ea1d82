---------------------------- MODULE AbstractLane ----------------------------
(***************************************************************************)
(* What a tunnel promises to the connections it carries: a lane is         *)
(* accepted, connected and ready in this order, each of its two ends lives *)
(* once, and an end hands out no more chunks than the other one sent.  A   *)
(* step is about one lane, except that a peer may go with all its ends.    *)
(***************************************************************************)
EXTENDS Naturals

CONSTANT Lane

VARIABLES
    life,   \* [Peer -> [Lane -> "none", "live" or "freed"]]: the two ends
    ready,  \* [Lane -> BOOLEAN]: the client's end may send
    sent,   \* [Peer -> [Lane -> Nat]]: chunks the peer's end sent
    got     \* [Peer -> [Lane -> Nat]]: chunks the peer's end handed out

vars == <<life, ready, sent, got>>

Peer == {"client", "server"}
Other(p) == IF p = "client" THEN "server" ELSE "client"

Init ==
    /\ life = [p \in Peer |-> [n \in Lane |-> "none"]]
    /\ ready = [n \in Lane |-> FALSE]
    /\ sent = [p \in Peer |-> [n \in Lane |-> 0]]
    /\ got = [p \in Peer |-> [n \in Lane |-> 0]]

Begins(p, n) ==
    /\ life[p][n] = "none"
    /\ life' = [life EXCEPT ![p][n] = "live"]
    /\ UNCHANGED <<ready, sent, got>>

Accept(n) == Begins("client", n)

Connect(n) == life["client"][n] # "none" /\ Begins("server", n)

\* The end p of n sends some chunks or none.
Sends(p, n) ==
    /\ sent'[p][n] >= sent[p][n]
    /\ sent' = [sent EXCEPT ![p][n] = sent'[p][n]]

\* The client's end may send, and sends what waits.
BecomeReady(n) ==
    /\ life["client"][n] = "live" /\ life["server"][n] # "none"
    /\ ready' = [ready EXCEPT ![n] = TRUE]
    /\ Sends("client", n)
    /\ UNCHANGED <<life, got>>

Forward(p, n) ==
    /\ life[p][n] = "live"
    /\ p = "client" => ready[n]
    /\ Sends(p, n)
    /\ UNCHANGED <<life, ready, got>>

Deliver(p, n) ==
    /\ life[p][n] = "live"
    /\ got[p][n] < sent[Other(p)][n]
    /\ got' = [got EXCEPT ![p][n] = @ + 1]
    /\ UNCHANGED <<life, ready, sent>>

Delete(p, n) ==
    /\ life[p][n] = "live"
    /\ life' = [life EXCEPT ![p][n] = "freed"]
    /\ UNCHANGED <<ready, sent, got>>

Leave(p) ==
    /\ life' = [life EXCEPT ![p] = [n \in Lane |->
                   IF life[p][n] = "live" THEN "freed" ELSE life[p][n]]]
    /\ UNCHANGED <<ready, sent, got>>

Next ==
    \/ \E n \in Lane : Accept(n) \/ Connect(n) \/ BecomeReady(n)
    \/ \E p \in Peer, n \in Lane : Forward(p, n) \/ Deliver(p, n) \/ Delete(p, n)
    \/ \E p \in Peer : Leave(p)

Spec == Init /\ [][Next]_vars
=============================================================================

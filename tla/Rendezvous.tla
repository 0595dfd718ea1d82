----------------------------- MODULE Rendezvous -----------------------------
(***************************************************************************)
(* What the signalling promises: a client is connected to the server by an *)
(* answer, the server answers an offer of that client and nothing else,    *)
(* and each offer and answer is heard once or lost.  Each client's attempt *)
(* is independent of the others, and may fail on either side at any time.  *)
(***************************************************************************)
CONSTANT Client

VARIABLES
    caller,     \* [Client -> Stage]: what the client has done
    callee,     \* [Client -> Stage]: what the server has done for the client
    wire        \* [Client -> SUBSET {"offer", "answer"}]: what is under way

vars == <<caller, callee, wire>>

Stage == {"apart", "begun", "connected"}

Init ==
    /\ caller = [c \in Client |-> "apart"]
    /\ callee = [c \in Client |-> "apart"]
    /\ wire = [c \in Client |-> {}]

\* A description is sent, unless its sender is cut off.
Sends(c, description) ==
    \/ wire'[c] = wire[c]
    \/ description \notin wire[c] /\ wire'[c] = wire[c] \cup {description}

\* The client calls the server, and nothing is left of an attempt before; or
\* gives up with that.
Call(c) ==
    /\ caller[c] = "apart" /\ callee[c] = "apart" /\ wire[c] = {}
    /\ caller'[c] \in {"begun", "apart"}
    /\ Sends(c, "offer")
    /\ callee'[c] = callee[c]

BeCalled(c) ==
    /\ callee[c] = "apart" /\ callee'[c] = "begun"
    /\ "offer" \in wire[c] /\ wire'[c] = wire[c] \ {"offer"}
    /\ caller'[c] = caller[c]

Answer(c) ==
    /\ callee[c] = "begun" /\ "offer" \notin wire[c]
    /\ callee'[c] \in {"connected", "apart"}
    /\ Sends(c, "answer")
    /\ wire'[c] # wire[c] => caller[c] # "connected"
    /\ caller'[c] = caller[c]

Connect(c) ==
    /\ caller[c] = "begun" /\ caller'[c] = "connected"
    /\ "answer" \in wire[c] /\ wire'[c] = wire[c] \ {"answer"}
    /\ callee'[c] = callee[c]

\* Either side gives up, and what is under way is lost; or nothing happens.
Fail(c) ==
    /\ caller'[c] \in {caller[c], "apart"}
    /\ callee'[c] \in {callee[c], "apart"}
    /\ wire'[c] \subseteq wire[c]

Next ==
    /\ caller' \in [Client -> Stage]
    /\ callee' \in [Client -> Stage]
    /\ wire' \in [Client -> SUBSET {"offer", "answer"}]
    /\ \A c \in Client : Call(c) \/ BeCalled(c) \/ Answer(c) \/ Connect(c) \/ Fail(c)

Spec == Init /\ [][Next]_vars
=============================================================================

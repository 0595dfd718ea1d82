------------------------------ MODULE BytePipe ------------------------------
(***************************************************************************)
(* What one direction of a socket connection promises: the bytes that come *)
(* out are the bytes that went in, in the same order, each once.           *)
(***************************************************************************)
EXTENDS Naturals, Sequences

CONSTANT Byte

VARIABLES in, out

vars == <<in, out>>

Init == in = <<>> /\ out = <<>>

\* More bytes are accepted behind those accepted before.
Accept ==
    /\ in' \in Seq(Byte)
    /\ Len(in) <= Len(in')
    /\ in = SubSeq(in', 1, Len(in))
    /\ UNCHANGED out

\* The next bytes come out.
Emit ==
    /\ Len(out) <= Len(out')
    /\ Len(out') <= Len(in)
    /\ out' = SubSeq(in, 1, Len(out'))
    /\ UNCHANGED in

Next == Accept \/ Emit

Spec == Init /\ [][Next]_vars
=============================================================================

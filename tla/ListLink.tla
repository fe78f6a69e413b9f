------------------------------- MODULE ListLink -------------------------------
(***************************************************************************)
(* What the DREQ path promises: the 68000 posts one command list at a time *)
(* and each arrives in the master's memory, whole, in order and once.      *)
(***************************************************************************)
EXTENDS Sequences

CONSTANTS Lists, NoList

VARIABLES inflight, received

Init == inflight = NoList /\ received = <<>>

Post(l) == inflight = NoList /\ inflight' = l /\ UNCHANGED received

Arrive ==
    /\ inflight # NoList
    /\ received' = Append(received, inflight)
    /\ inflight' = NoList

Next == (\E l \in Lists : Post(l)) \/ Arrive

\* what it never does, and with Arrive's fairness what it does in the end
Safe == Init /\ [][Next]_<<inflight, received>>
Spec == Safe /\ WF_<<inflight, received>>(Arrive)
=============================================================================

----------------------------- MODULE SampleQueue -----------------------------
(***************************************************************************)
(* What the ring between the frame loop and the audio device promises: a   *)
(* bounded queue of whole samples, heard in the order they were accepted.  *)
(* When it is dry the device goes on playing the last one.                 *)
(***************************************************************************)
EXTENDS Naturals, Sequences

CONSTANTS Samples, Capacity

VARIABLES queue, last

Init == queue = <<>> /\ last \in Samples

Accept(s) ==
    /\ Len(queue) < Capacity
    /\ queue' = Append(queue, s)
    /\ UNCHANGED last

Hear ==
    /\ queue # <<>>
    /\ last' = Head(queue)
    /\ queue' = Tail(queue)

Next == (\E s \in Samples : Accept(s)) \/ Hear

\* what it never does, and with Hear's fairness what it does in the end
Safe == Init /\ [][Next]_<<queue, last>>
Spec == Safe /\ WF_<<queue, last>>(Hear)
=============================================================================

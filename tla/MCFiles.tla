------------------------------- MODULE MCFiles -------------------------------
(***************************************************************************)
(* The two files the program keeps, one at a time: part says which of them *)
(* this behaviour is about.  They share no state.                          *)
(***************************************************************************)
EXTENDS Battery, BlockTrace

VARIABLE part

CONSTANTS b1, h1

MCBlocks == {b1}
MCHoles  == {h1}
MCLinks  == {b1, h1}
MCLength == b1 :> 2

FilesInit == part \in {"battery", "trace"} /\ Init /\ TraceInit

Of(p) == part = p /\ UNCHANGED part

FilesNext ==
    \/ Of("battery") /\ Next /\ UNCHANGED tracevars
    \/ Of("trace") /\ TraceNext /\ UNCHANGED vars

FilesSpec ==
    /\ FilesInit /\ [][FilesNext]_<<part, vars, tracevars>>
    /\ WF_tracevars(Of("trace") /\ Step /\ UNCHANGED vars)
=============================================================================

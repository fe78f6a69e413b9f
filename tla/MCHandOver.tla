----------------------------- MODULE MCHandOver -----------------------------
(* HandOver on a frame of four hand-overs.  The ratios keep what matters of *)
(* the real ones: none of the three step clocks divides evenly, and both    *)
(* SH-2s cost a fractional number of cycles an instruction.                 *)
EXTENDS HandOver

MCCpi  == [i \in SH2s |-> IF i = "master" THEN 5 ELSE 4]
MCOver == [c \in CPUs |-> 1]
=============================================================================

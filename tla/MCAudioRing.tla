----------------------------- MODULE MCAudioRing -----------------------------
(* AudioRing with rings of a few slots.  The device runs at three halves of *)
(* the stream's rate, so a sample is emitted once or twice.                 *)
EXTENDS AudioRing
=============================================================================

-------------------------------- MODULE MCDreq --------------------------------
(* Dreq with a FIFO of three words, groups of two and lists of one, two and *)
(* three groups: longer than the FIFO, equal to a group and in between.     *)
EXTENDS Dreq
=============================================================================

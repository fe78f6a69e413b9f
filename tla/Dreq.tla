--------------------------------- MODULE Dreq ---------------------------------
(***************************************************************************)
(* The command list's way from the 68000 to the master SH-2: the DREQ      *)
(* registers of src/src/gen68k.c, the eight-word FIFO and DMAC channel 0   *)
(* of src/src/mem32x.c, and the command interrupt that opens a transfer.   *)
(*                                                                         *)
(* The two programs are the cartridge's, modelled from the comments that   *)
(* describe them.  The 68000 writes the length, raises 68S, raises the     *)
(* command interrupt, spins until its bit is cleared, pushes the list in   *)
(* groups of words and reads 68S back after each group.  The master's      *)
(* handler arms the DMAC for the length it reads back and clears the bit.  *)
(* A word is named by the list it belongs to and its place there.          *)
(***************************************************************************)
EXTENDS Integers, SequencesExt

CONSTANTS
    Depth,     \* words the FIFO holds (8)
    Group,     \* words pushed between two reads of 68S (4)
    Lengths,   \* lengths of the lists posted
    MaxLists   \* bound on the lists posted in a behaviour

ASSUME DreqAssumption ==
    /\ Depth \in Nat \ {0}
    /\ Group \in Nat \ {0}
    /\ Lengths \subseteq {n \in Nat \ {0} : n % Group = 0}
    /\ MaxLists \in Nat

VARIABLES
    pc68k,      \* the 68000: "idle", "len", "open", "spin", "push", "check"
    posted,     \* the lengths of the lists posted so far
    pushed,     \* words of the last one pushed so far
    intctl,     \* mars.intctl bit 0
    irq,        \* pend[0].armed
    handler,    \* the master: "main", "entered", "armed"
    dreq_len,   \* mars.dreq_len
    open68s,    \* bit 2 of mars.dreq_ctl
    dreq_left,  \* mars.dreq_left
    fifo,       \* mars.fifo
    dmac,       \* channel 0: enabled, words left (TCR0), transfer ended (TE)
    mem,        \* the words stored from the channel's destination up
    got         \* history: the buffer at every transfer end

vars == <<pc68k, posted, pushed, intctl, irq, handler, dreq_len, open68s,
          dreq_left, fifo, dmac, mem, got>>
m68k_vars   == <<pc68k, posted, pushed>>
int_vars    == <<intctl, irq, handler>>
dreq_vars   == <<dreq_len, open68s, dreq_left>>
dmac_vars   == <<fifo, dmac, mem, got>>

ListOf(t, n) == [k \in 1..n |-> <<t, k>>]
Current == ListOf(Len(posted), Last(posted))

Init ==
    /\ pc68k = "idle" /\ posted = <<>> /\ pushed = 0
    /\ intctl = FALSE /\ irq = FALSE /\ handler = "main"
    /\ dreq_len = 0 /\ open68s = FALSE /\ dreq_left = 0
    /\ fifo = <<>> /\ mem = <<>> /\ got = <<>>
    /\ dmac = [de |-> FALSE, tcr |-> 0, te |-> FALSE]

-----------------------------------------------------------------------------
(* The 68000 and the registers it writes. *)

(* 0xA15110 *)
WriteLen(n) ==
    /\ pc68k = "idle"
    /\ Len(posted) < MaxLists
    /\ pc68k' = "len"
    /\ posted' = Append(posted, n)
    /\ pushed' = 0
    /\ dreq_len' = n
    /\ UNCHANGED <<int_vars, open68s, dreq_left, dmac_vars>>

\* the count taken on the level of 68S instead of its edge
LeftOnWriteLevel(v) == IF v THEN dreq_len ELSE dreq_left

(* The word count is taken on the rising edge of 68S. *)
LeftOnWrite(v) == IF v /\ ~open68s THEN dreq_len ELSE dreq_left

(* 0xA15106.  A write that finds 68S raised already, as the BIOS helper's   *)
(* setting of RV in the same byte is, does not start the count again.       *)
WriteCtl ==
    /\ \/ pc68k = "len" /\ pc68k' = "open"
       \/ pc68k \in {"open", "spin", "push", "check"} /\ open68s /\ UNCHANGED pc68k
    /\ dreq_left' = LeftOnWrite(TRUE)
    /\ open68s' = TRUE
    /\ UNCHANGED <<posted, pushed, int_vars, dreq_len, dmac_vars>>

(* 0xA15102, and the spin on its bit. *)
RaiseCommand ==
    /\ pc68k = "open"
    /\ pc68k' = "spin"
    /\ intctl' = TRUE
    /\ irq' = TRUE
    /\ UNCHANGED <<posted, pushed, handler, dreq_vars, dmac_vars>>

SpinEnds ==
    /\ pc68k = "spin"
    /\ ~intctl
    /\ pc68k' = "push"
    /\ UNCHANGED <<posted, pushed, int_vars, dreq_vars, dmac_vars>>

\* a channel left running with nothing to transfer
TransferEndsLate(tcr) == FALSE

(* The last word of a transfer clears DE and sets TE. *)
TransferEnds(tcr) == tcr = 0

(* How many of the words of f the DMAC takes: it is enabled and has words   *)
(* left to transfer.                                                        *)
Drained(f) == IF dmac.de THEN (IF Len(f) < dmac.tcr THEN Len(f) ELSE dmac.tcr)
                         ELSE 0

(* dma_drain, called with f in the FIFO. *)
Drain(f) ==
    LET n == Drained(f)
        ends == n > 0 /\ TransferEnds(dmac.tcr - n) IN
    /\ fifo' = SubSeq(f, n + 1, Len(f))
    /\ mem' = mem \o SubSeq(f, 1, n)
    /\ dmac' = [de |-> dmac.de /\ ~ends, tcr |-> dmac.tcr - n, te |-> dmac.te \/ ends]
    /\ got' = IF ends THEN Append(got, mem') ELSE got

LastWord == dreq_left = 1

(* 0xA15112, fifo_push: a word for which there is no room is lost, and      *)
(* counts all the same.                                                     *)
Push ==
    /\ pc68k = "push"
    /\ LET w == <<Len(posted), pushed + 1>> IN
       Drain(IF Len(fifo) < Depth THEN Append(fifo, w) ELSE fifo)
    /\ pushed' = pushed + 1
    /\ dreq_left' = IF dreq_left > 0 THEN dreq_left - 1 ELSE 0
    /\ open68s' = (open68s /\ ~LastWord)
    /\ pc68k' = IF (pushed + 1) % Group = 0 THEN "check" ELSE "push"
    /\ UNCHANGED <<posted, int_vars, dreq_len>>

(* The read of 68S after a group. *)
Check ==
    /\ pc68k = "check"
    /\ pc68k' = IF open68s THEN "push" ELSE "idle"
    /\ UNCHANGED <<posted, pushed, int_vars, dreq_vars, dmac_vars>>

-----------------------------------------------------------------------------
(* The master. *)

(* mars_int_fire: the slot is spent whether the interrupt is taken or       *)
(* declined.                                                                *)
TakeCommand ==
    /\ irq
    /\ irq' = FALSE
    /\ handler' = IF handler = "main" THEN "entered" ELSE handler
    /\ UNCHANGED <<m68k_vars, intctl, dreq_vars, dmac_vars>>

(* The handler loads SAR0, DAR0, TCR0 and CHCR0. *)
Arm ==
    /\ handler = "entered"
    /\ handler' = "armed"
    /\ dmac' = [de |-> TRUE, tcr |-> dreq_len, te |-> FALSE]
    /\ mem' = <<>>
    /\ UNCHANGED <<m68k_vars, intctl, irq, dreq_vars, fifo, got>>

(* It clears the bit through 0x1A and returns. *)
Acknowledge ==
    /\ handler = "armed"
    /\ handler' = "main"
    /\ intctl' = FALSE
    /\ UNCHANGED <<m68k_vars, irq, dreq_vars, dmac_vars>>

Machine68k == RaiseCommand \/ SpinEnds \/ Push \/ Check \/ (pc68k = "len" /\ WriteCtl)
Master == TakeCommand \/ Arm \/ Acknowledge

Next ==
    \/ \E n \in Lengths : WriteLen(n)
    \/ WriteCtl
    \/ RaiseCommand
    \/ SpinEnds
    \/ Push
    \/ Check
    \/ Master

(* Every hand-over gives the 68000 and the master a turn, so neither program *)
(* stands still for ever; nothing says another list is ever posted.         *)
Spec == Init /\ [][Next]_vars /\ WF_vars(Machine68k) /\ WF_vars(Master)

-----------------------------------------------------------------------------
TypeOK ==
    /\ pc68k \in {"idle", "len", "open", "spin", "push", "check"}
    /\ posted \in Seq(Lengths) /\ Len(posted) <= MaxLists
    /\ pushed \in Nat
    /\ intctl \in BOOLEAN /\ irq \in BOOLEAN
    /\ handler \in {"main", "entered", "armed"}
    /\ dreq_len \in Lengths \cup {0}
    /\ open68s \in BOOLEAN
    /\ dreq_left \in 0..dreq_len
    /\ Len(fifo) <= Depth
    /\ dmac \in [de : BOOLEAN, tcr : Nat, te : BOOLEAN]
    /\ dmac.de => dmac.tcr > 0

(* While a list is pushed the adapter's count, which drops 68S, and the     *)
(* DMAC's, which ends the transfer, agree on what is left of it, and no     *)
(* word is between them, so FIFO full never has to be shown.                *)
CountsAgree ==
    pc68k \in {"push", "check"} =>
      /\ fifo = <<>>
      /\ dreq_left = Last(posted) - pushed
      /\ dmac.tcr = dreq_left
      /\ open68s = (dreq_left > 0)
      /\ dmac.de = open68s

(* Once the 68000 has read 68S back as 0, the list is in the master's       *)
(* memory: every word, in order, once, and nothing of another list.         *)
ListIntact == (pc68k = "idle" /\ posted # <<>>) => mem = Current /\ dmac.te

(* A list is in flight from the raising of its interrupt to its transfer's  *)
(* end; fifo_push and dma_drain implement the link.                         *)
Link == INSTANCE ListLink WITH
    Lists    <- {ListOf(t, n) : t \in 1..MaxLists, n \in Lengths},
    NoList   <- <<>>,
    inflight <- IF pc68k \in {"spin", "push", "check"} /\ Len(got) < Len(posted)
                THEN Current ELSE <<>>,
    received <- got

(* Every list posted arrives, whole and in order. *)
Linked == Link!Spec
=============================================================================

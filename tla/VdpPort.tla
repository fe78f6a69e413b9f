-------------------------------- MODULE VdpPort --------------------------------
(***************************************************************************)
(* The Genesis VDP's control and data ports (src/src/gen68k.c, vdp_ctrl,   *)
(* vdp_data and vdp_dma): a command is two control words, held together by *)
(* a pending half that a data write drops, and every word stored moves the *)
(* address on by the increment register, a DMA's words among them.         *)
(*                                                                         *)
(* The word is scaled down: two top bits, and a low part of 4 bits that    *)
(* stands for the 14 of the first half, for the high address bit and the   *)
(* two code bits of the second, and for a register's number and value.     *)
(***************************************************************************)
EXTENDS Integers

CONSTANTS
    VBases,   \* addresses the program's commands name
    VValues,  \* values it gives the registers
    VMaxAddr, \* bound: no data write past this address
    VMaxWords \* bound on the words stored since a command or a register

VLow   == 16            \* addresses the first half can name
VSpace == 2 * VLow      \* and with the second half's bit

ASSUME VdpAssumption == VBases \subseteq 0..(VSpace - 1) /\ VValues \subseteq 0..3

VARIABLES
    port,   \* vdp_addr, vdp_code (its low and high parts), vdp_pending
    vreg,   \* registers: 0 the increment, 1 the DMA length, 2 its fill/copy bit
    stored, \* history: where the last word went, a set of at most one
    sent,   \* history: the command whose first half the program has sent, likewise
    cmd,    \* history: the last command sent whole, likewise
    since   \* history: words stored since it or since the increment changed

vdpvars == <<port, vreg, stored, sent, cmd, since>>

Commands == [top : {1, 3}, hi : 0..1, dma : 0..1, base : VBases]

FirstHalf(c)  == [top |-> c.top, low |-> c.base % VLow]
SecondHalf(c) == [top |-> 0, low |-> (c.base \div VLow) + 2 * c.hi + 4 * c.dma]
RegisterWord(r, v) == [top |-> 2, low |-> 4 * r + v]

VdpInit ==
    /\ port = [addr |-> 0, top |-> 0, hi |-> 0, pending |-> FALSE]
    /\ vreg = [r \in 0..2 |-> 0]
    /\ stored = {} /\ sent = {} /\ cmd = {} /\ since = 0

-----------------------------------------------------------------------------
(* vdp_code's low three bits: 1 VRAM, 3 CRAM, 5 VSRAM. *)
Target(top, hi) == IF top = 1 /\ hi = 0 THEN "vram"
                   ELSE IF top = 3 /\ hi = 0 THEN "cram"
                   ELSE IF top = 1 /\ hi = 1 THEN "vsram" ELSE "none"

Cell(to, a) == CASE to = "vram"  -> (a % VSpace) - (a % 2)
                 [] to = "cram"  -> (a \div 2) % 4
                 [] to = "vsram" -> (a \div 2) % 3

Lands(to, a) == IF to = "none" THEN {} ELSE {[to |-> to, at |-> Cell(to, a)]}

DmaWords == IF vreg[1] = 0 THEN 4 ELSE vreg[1]

(* vdp_dma: the words that go out, none to VSRAM and none for a fill. *)
Dma(p) ==
    LET to == IF p.hi = 0 THEN Target(p.top, 0) ELSE "none"
        n  == DmaWords IN
    IF vreg[2] # 0 THEN [addr |-> p.addr, stored |-> {}, words |-> 0]
    ELSE [addr |-> p.addr + n * vreg[0], words |-> n,
          stored |-> Lands(to, p.addr + (n - 1) * vreg[0])]

NoDma(p) == [addr |-> p.addr, stored |-> {}, words |-> 0]

(* vdp_ctrl: the same word is a second half, a register or a first half. *)
CtrlSecond(w) ==
    /\ port.pending
    /\ LET p == [addr |-> (port.addr % VLow) + VLow * (w.low % 2), top |-> port.top,
                 hi |-> (w.low \div 2) % 2, dma |-> (w.low \div 4) % 2]
           d == IF p.dma = 1 THEN Dma(p) ELSE NoDma(p) IN
       /\ port' = [addr |-> d.addr, top |-> p.top, hi |-> p.hi, pending |-> FALSE]
       /\ stored' = d.stored
       /\ since' = d.words
    /\ UNCHANGED vreg

CtrlRegister(w) ==
    /\ ~port.pending /\ w.top = 2
    /\ vreg' = [vreg EXCEPT ![w.low \div 4] = w.low % 4]
    /\ stored' = {} /\ since' = 0
    /\ UNCHANGED port

CtrlFirst(w) ==
    /\ ~port.pending /\ w.top # 2
    /\ port' = [port EXCEPT !.addr = VLow * ((@ \div VLow) % 2) + w.low,
                            !.top = w.top, !.pending = TRUE]
    /\ UNCHANGED <<vreg, stored, since>>

Ctrl(w) == CtrlSecond(w) \/ CtrlRegister(w) \/ CtrlFirst(w)

\* the half left pending by a data write
DataMovesKeeping(p) == [p EXCEPT !.addr = @ + vreg[0]]

(* vdp_data's last two lines. *)
DataMoves(p) == [p EXCEPT !.addr = @ + vreg[0], !.pending = FALSE]

-----------------------------------------------------------------------------
(* The program: registers and whole commands, and data words anywhere, one  *)
(* between two halves giving the command up.                                *)
SetRegister(r, v) ==
    /\ sent = {}
    /\ Ctrl(RegisterWord(r, v))
    /\ cmd' = {[c EXCEPT !.base = @ + since * vreg[0]] : c \in cmd}
    /\ UNCHANGED sent

SendFirst(c) ==
    /\ sent = {}
    /\ Ctrl(FirstHalf(c))
    /\ sent' = {c}
    /\ UNCHANGED cmd

SendSecond ==
    /\ \E c \in sent : Ctrl(SecondHalf(c))
    /\ cmd' = sent /\ sent' = {}

SendData ==
    /\ port.addr < VMaxAddr /\ since < VMaxWords
    /\ port' = DataMoves(port)
    /\ stored' = Lands(Target(port.top, port.hi), port.addr)
    /\ since' = since + 1
    /\ cmd' = IF sent = {} THEN cmd ELSE {}
    /\ sent' = {}
    /\ UNCHANGED vreg

VdpNext ==
    \/ \E r \in 0..2, v \in VValues : SetRegister(r, v)
    \/ \E c \in Commands : SendFirst(c)
    \/ SendSecond
    \/ SendData

VdpSpec == VdpInit /\ [][VdpNext]_vdpvars

-----------------------------------------------------------------------------
(* After a command sent whole, the n-th word lands n-1 increments past the  *)
(* address it names, in the memory it names, whether a DMA or a data write  *)
(* stores it and whatever half-sent command or register came before         *)
(* (gen68k.c, vdp_ctrl and vdp_data).                                       *)
LandsInOrder ==
    \A c \in cmd : (sent = {} /\ since > 0 /\ ~(c.dma = 1 /\ c.hi = 1)) =>
        stored = Lands(Target(c.top, c.hi), c.base + (since - 1) * vreg[0])
=============================================================================

----------------------------- MODULE Program68k -----------------------------
(***************************************************************************)
(* What a 68000 promises the cartridge: the code the machine shows at the  *)
(* program counter, one piece after another, against four bytes of the     *)
(* machine, with the vertical interrupt taken in between when the mask     *)
(* lets it.  Other processors read and write some of them in between.      *)
(*                                                                         *)
(* The bytes are two of RAM, a port whose reads change it, and the bank    *)
(* register of the window at 0x900000.  An address is a window and what    *)
(* lies in it: "low" is the cartridge from 0x100 up, "win" the window at   *)
(* 0x880000, "bank" the banked one, "vec" the 256 bytes the adapter has    *)
(* over the cartridge's vectors.  An offset of the cartridge is a bank and *)
(* a place in it; bank -1 is the adapter's own code.                       *)
(***************************************************************************)
EXTENDS Integers, SequencesExt

CONSTANTS Code,    \* what each offset holds: ops, to and rte
          Handler, \* the offset of the vertical interrupt's handler
          Reset    \* the offset a run begins at

VARIABLES pc, d, imask, stack, hw

vars == <<pc, d, imask, stack, hw>>

Bits  == 0..1
Bytes == {"lo", "hi", "port", "bank"}
Vint  == 6

At(w, o) == [w |-> w, o |-> o]

(* What the machine shows at an address: rom_at, through the bank register. *)
Shown(a, bytes) == CASE a.w \in {"low", "win"} -> a.o
                     [] a.w = "bank"           -> <<bytes["bank"], a.o[2]>>
                     [] a.w = "vec"            -> <<-1, a.o[2]>>

Peek(bytes, a) == [bytes EXCEPT !["port"] = IF a = "port" THEN 1 - @ ELSE @]

Ops == [k : {"read", "write"}, a : Bytes, r : 1..2]
       \cup [k : {"not"}, r : 1..2] \cup [k : {"mask"}, m : 0..7]

(* One operation, on registers, mask and machine, with what it read and     *)
(* wrote.                                                                   *)
Operate(s, op) ==
    CASE op.k = "read"  -> [s EXCEPT !.d[op.r] = s.hw[op.a],
                                     !.hw = Peek(@, op.a),
                                     !.rd = Append(@, <<op.a, s.hw[op.a]>>)]
      [] op.k = "write" -> [s EXCEPT !.hw[op.a] = s.d[op.r],
                                     !.wr = Append(@, <<op.a, s.d[op.r]>>)]
      [] op.k = "not"   -> [s EXCEPT !.d[op.r] = 1 - @]
      [] op.k = "mask"  -> [s EXCEPT !.imask = op.m]

Run(ops, regs, mask, bytes) ==
    LET after[n \in 0..Len(ops)] ==
            IF n = 0 THEN [d |-> regs, imask |-> mask, hw |-> bytes,
                           rd |-> <<>>, wr |-> <<>>]
                     ELSE Operate(after[n - 1], ops[n])
    IN  after[Len(ops)]

(* Where code c at address from goes with registers regs: back from the     *)
(* exception, on in its own window, or to an address of its own.            *)
Leaves(c, from, regs, frames) ==
    LET to == c.to[regs[1] + 1] IN
    IF c.rte THEN Last(frames)[1] ELSE IF to.w = "rel" THEN At(from.w, to.o) ELSE to

(* An address in the window at 0x880000 names the same place as its offset. *)
Place(a) == IF a.w = "win" THEN At("low", a.o) ELSE a

Execute ==
    LET c == Code[Shown(pc, hw)]
        s == Run(c.ops, d, imask, hw)
    IN  /\ d' = s.d
        /\ hw' = s.hw
        /\ pc' = Place(Leaves(c, pc, s.d, stack))
        /\ imask' = IF c.rte THEN Last(stack)[2] ELSE s.imask
        /\ stack' = IF c.rte THEN Front(stack) ELSE stack

Interrupt ==
    /\ Vint > imask
    /\ stack' = Append(stack, <<pc, imask>>)
    /\ imask' = Vint
    /\ pc' = Place(At("win", Handler))
    /\ UNCHANGED <<d, hw>>

Elsewhere ==
    /\ \/ \E a \in Bytes : hw' = Peek(hw, a)
       \/ \E b \in Bits : hw' = [hw EXCEPT !["lo"] = b]
    /\ UNCHANGED <<pc, d, imask, stack>>

Init ==
    /\ pc = At("low", Reset) /\ d = <<0, 0>> /\ imask = 7 /\ stack = <<>>
    /\ hw \in [Bytes -> Bits]

Next == Execute \/ Interrupt \/ Elsewhere
=============================================================================

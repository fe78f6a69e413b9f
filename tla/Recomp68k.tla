------------------------------ MODULE Recomp68k ------------------------------
(***************************************************************************)
(* The 68000 as the frame loop runs it (cpu_poll_irq, cpu_run): recompiled *)
(* blocks where there are some, the interpreter over the gaps between them,*)
(* the vertical interrupt offered between hand-overs; or the interpreter   *)
(* alone.  Beside it xcheck.c, which runs every block again on the         *)
(* interpreter against a log of what it read and wrote.                    *)
(*                                                                         *)
(* The cartridge is an abstract program, in the terms of Program68k: an    *)
(* offset holds a few operations on two registers and four bytes, and goes *)
(* to an address.  What was generated from it may visit bytes in another   *)
(* order, or be mistranslated.                                             *)
(***************************************************************************)
EXTENDS Integers, Sequences, SequencesExt

CONSTANTS
    Code,     \* what each offset of the cartridge holds
    Compiled, \* the offsets with a recompiled block
    Handler,  \* the offset of the vertical interrupt's handler
    Reset,    \* the offset a run begins at
    Emitted,  \* what was generated from a faithfully translated offset
    Faults,   \* mistranslations, each of them of one offset
    LogMax,   \* XCHK_LOG_MAX
    MaxFuel   \* bound: the credit of a hand-over

None == <<>>   \* 0xFFFFFFFF, no offset
Off  == "off"

ASSUME RecompAssumption ==
    /\ None \notin Compiled
    /\ Compiled \subseteq DOMAIN Code /\ Compiled \subseteq DOMAIN Emitted
    /\ \A f \in Faults : f.of \in Compiled
    /\ LogMax \in Nat /\ MaxFuel \in Nat

VARIABLES
    backend,  \* use_recomp: "recomp" or "musashi"
    fault,    \* the mistranslation this build has, or None
    turn,     \* "beam", "poll", "run", "gap", "others"
    fuel,     \* m68k_fuel, or what is left of the interpreter's cycles
    pc,       \* rc_pc, or Musashi's
    d,        \* two registers
    imask,    \* the interrupt mask
    stack,    \* exception frames: <<address, mask>>
    hw,       \* the bytes
    vint_irq, \* gen.vint_irq, and gen.vint_pending, which goes with it
    latch,    \* the level m68k_set_irq left
    xchk_mode,
    armed,    \* a block waits to be settled
    pend,     \* its offset, registers and stack at its entry
    rd, wr,   \* what it read and wrote, in order
    log_over, \* it touched more than fits
    diverged,
    wrong,    \* history: the block armed did not do what its code does
    seen,     \* history: a block settled by comparison was wrong
    stray     \* history: a block ran that was not the code at its address

cpu_vars  == <<fuel, pc, d, imask, stack, hw>>
irq_vars  == <<vint_irq, latch>>
log_vars  == <<rd, wr, log_over>>
xchk_vars == <<xchk_mode, armed, pend, log_vars, diverged, wrong, seen>>
build     == <<backend, fault>>
vars == <<build, turn, cpu_vars, irq_vars, xchk_vars, stray>>

-----------------------------------------------------------------------------
(* Addresses. *)

\* the banked window folded to bank 0 whatever its register says
CanonBank0(a) == CASE a.w \in {"low", "win"} -> a.o
                   [] a.w = "bank"           -> <<0, a.o[2]>>
                   [] a.w = "vec"            -> None

(* canon68k *)
Canon(a) == IF a.w \in {"low", "win"} THEN a.o ELSE None

Dispatchable(a) == Canon(a) \in Compiled

(* The window at 0x880000 shows the cartridge from its beginning.           *)
Place(a) == IF a.w = "win" THEN [w |-> "low", o |-> a.o] ELSE a

(* The program as one 68000 would run it, which does not know that window   *)
(* from the cartridge's own addresses.                                      *)
Frames == [k \in 1..Len(stack) |-> <<Place(stack[k][1]), stack[k][2]>>]

P == INSTANCE Program68k WITH pc <- Place(pc), stack <- Frames

Low(o) == P!At("low", o)

Earlier(log, a, j) == Cardinality({i \in 1..(j - 1) : log[i][1] = a})

(* A log's entries at one address, each with its number among them.         *)
Of(log, a) ==
    {<<Earlier(log, a, j), log[j]>> : j \in {i \in 1..Len(log) : log[i][1] = a}}

\* sorted by address and value, and not by when
SameWritesUnordered(s, t) ==
    /\ Len(s) = Len(t)
    /\ \A x \in Range(s) \cup Range(t) :
          Len(SelectSeq(s, LAMBDA y : y = x)) = Len(SelectSeq(t, LAMBDA y : y = x))

(* compare_writes: the order of two addresses is nobody's business, the     *)
(* order at one address is.                                                 *)
SameWrites(s, t) == \A a \in P!Bytes : Of(s, a) = Of(t, a)

(* Does what was generated for an offset do what the cartridge holds there? *)
(* A return from the exception brings its own mask back, whatever the block *)
(* set before.                                                              *)
Differs(gen, c) ==
    LET g == P!Run(gen.ops, d, imask, hw)
        i == P!Run(c.ops, d, imask, hw)
        Goes(x, e) == Place(P!Leaves(x, Low(None), e.d, stack))
    IN  \/ g.d # i.d
        \/ ~c.rte /\ g.imask # i.imask
        \/ Goes(gen, g) # Goes(c, i)
        \/ \E a \in P!Bytes : Of(g.rd, a) # Of(i.rd, a) \/ Of(g.wr, a) # Of(i.wr, a)

(* What every piece of the program is, and what a faithful translation      *)
(* keeps: where a block goes, and from any state the one it leaves, with    *)
(* the accesses of each byte in order.                                      *)
Windows == {"low", "win", "bank", "vec"}

Address(a) == a.w \in Windows /\ a = P!At(a.w, a.o)

IsPiece(c) ==
    /\ c.ops \in Seq(P!Ops)
    /\ \A k \in 1..2 : Address(c.to[k]) \/ c.to[k] = P!At("rel", c.to[k].o)

ASSUME PieceAssumption ==
    /\ \A o \in DOMAIN Code : IsPiece(Code[o])
    /\ \A o \in Compiled : IsPiece(Emitted[o])
    /\ \A f \in Faults : IsPiece(f.code) /\ f.code.rte = Code[f.of].rte

ASSUME FaithfulAssumption ==
    \A o \in Compiled :
       /\ Emitted[o].to = Code[o].to /\ Emitted[o].rte = Code[o].rte
       /\ \A regs \in [1..2 -> P!Bits], mask \in 0..7, bytes \in [P!Bytes -> P!Bits] :
             LET g == P!Run(Emitted[o].ops, regs, mask, bytes)
                 i == P!Run(Code[o].ops, regs, mask, bytes)
             IN  /\ g.d = i.d /\ g.imask = i.imask /\ g.hw = i.hw
                 /\ \A a \in P!Bytes : Of(g.rd, a) = Of(i.rd, a) /\ Of(g.wr, a) = Of(i.wr, a)

Generated(o) == IF fault # None /\ fault.of = o THEN fault.code ELSE Emitted[o]

-----------------------------------------------------------------------------
(* xcheck.c: the record and the shadow. *)

Fit(log) == IF Len(log) > LogMax THEN SubSeq(log, 1, LogMax) ELSE log

(* xchk_read: the earliest byte of the address not given yet. *)
Answer(s, a) ==
    LET J == {j \in 1..Len(rd) : j \notin s.used /\ rd[j][1] = a}
    IN  IF J = {} THEN 0 ELSE CHOOSE j \in J : \A k \in J : j <= k

Shadow(s, op) ==
    CASE op.k = "read" ->
           LET j == Answer(s, op.a) IN
           IF j = 0 THEN [s EXCEPT !.why = TRUE, !.d[op.r] = 0]
                    ELSE [s EXCEPT !.used = @ \cup {j}, !.d[op.r] = rd[j][2]]
      [] op.k = "write" -> [s EXCEPT !.wr = Fit(Append(@, <<op.a, s.d[op.r]>>))]
      [] op.k = "not"   -> [s EXCEPT !.d[op.r] = 1 - @]
      [] op.k = "mask"  -> s

ShadowRun(ops) ==
    LET after[n \in 0..Len(ops)] ==
            IF n = 0 THEN [d |-> pend.d, used |-> {}, wr |-> <<>>, why |-> FALSE]
                     ELSE Shadow(after[n - 1], ops[n])
    IN  after[Len(ops)]

(* verify and compare: the armed block again, from its own registers, and   *)
(* what the block left against what the shadow did.                         *)
Disagree(off) ==
    LET c == Code[pend.off]
        s == ShadowRun(c.ops)
        to == P!Leaves(c, Low(pend.off), s.d, pend.stack)
        a7 == Len(pend.stack) - (IF c.rte THEN 1 ELSE 0)
    IN  \/ s.why
        \/ s.d # d
        \/ a7 # Len(stack)
        \/ to # Low(off) /\ Canon(to) # off
        \/ ~SameWrites(wr, s.wr)
        \/ s.used # 1..Len(rd)

(* xchk_block's first half, at the entry of the block at off. *)
Settled == armed /\ ~log_over
SettledDiverged(off) == diverged \/ (Settled /\ Disagree(off))

\* an interrupt or a gap that leaves the block armed
BreakNothing == UNCHANGED armed

(* xchk_break *)
Break == armed' = FALSE

\* recording left on while the other processors run
ModeOutsideOn == xchk_mode

(* xchk_running(0) *)
ModeOutside == Off

-----------------------------------------------------------------------------
(* The frame loop around the 68000. *)

(* A hand-over begins; at line 224 the request is raised first. *)
Beam ==
    /\ turn = "beam"
    /\ turn' = "poll"
    /\ vint_irq' \in {vint_irq, TRUE}
    /\ UNCHANGED <<build, cpu_vars, latch, xchk_vars, stray>>

Enter ==
    /\ stack' = Append(stack, <<pc, imask>>)
    /\ imask' = P!Vint
    /\ pc' = P!At("win", Handler)
    /\ vint_irq' = FALSE

\* taken at the mask's own level
TakesEqual == P!Vint >= imask

(* m68k_interrupt's test, and Musashi's. *)
Takes == P!Vint > imask

(* cpu_poll_irq: Musashi is given the level, the recompiled 68000 takes the *)
(* interrupt now or is offered it again at the next hand-over.              *)
Poll ==
    /\ turn = "poll"
    /\ turn' = "run"
    /\ fuel' \in 0..MaxFuel
    /\ \/ /\ vint_irq /\ backend = "recomp" /\ Takes
          /\ Enter
          /\ Break
          /\ UNCHANGED latch
       \/ /\ vint_irq /\ backend = "recomp" /\ ~Takes
          /\ UNCHANGED <<stack, imask, pc, irq_vars, armed>>
       \/ /\ vint_irq /\ backend = "musashi"
          /\ latch' = P!Vint
          /\ UNCHANGED <<stack, imask, pc, vint_irq, armed>>
       \/ /\ ~vint_irq
          /\ UNCHANGED <<stack, imask, pc, irq_vars, armed>>
    /\ xchk_mode' = IF backend = "recomp" /\ fuel' > 0 THEN "record" ELSE Off
    /\ UNCHANGED <<build, d, hw, pend, log_vars, diverged, wrong, seen, stray>>

(* The budget is spent, or there was none.  A recompiled 68000 finds that   *)
(* out in the prologue of the next block, which has not run, and yields     *)
(* with its offset; where there is no block there is no prologue, and an    *)
(* overdrawn one meets the gap first.                                       *)
EndRun ==
    /\ turn = "run"
    /\ fuel <= 0
    /\ backend = "recomp" /\ xchk_mode = "record" => Dispatchable(pc)
    /\ turn' = "others"
    /\ pc' = IF xchk_mode = "record" THEN Low(Canon(pc)) ELSE pc
    /\ xchk_mode' = ModeOutside
    /\ UNCHANGED <<build, fuel, d, imask, stack, hw, irq_vars, armed, pend,
                   log_vars, diverged, wrong, seen, stray>>

(* M68K_BLOCK and the block: the one before is settled, this one armed, its *)
(* fuel taken, and what was generated for it runs whole.                    *)
Block ==
    /\ turn = "run" /\ backend = "recomp"
    /\ fuel > 0
    /\ Dispatchable(pc)
    /\ LET off == Canon(pc)
           gen == Generated(off)
           s   == P!Run(gen.ops, d, imask, hw)
       IN
       /\ diverged' = (SettledDiverged(off) \/ P!Shown(pc, hw) # off)
       /\ seen' = (seen \/ (Settled /\ wrong))
       /\ armed' = TRUE
       /\ pend' = [off |-> off, d |-> d, stack |-> stack]
       /\ wrong' = Differs(gen, Code[off])
       /\ stray' = (stray \/ P!Shown(pc, hw) # off)
       /\ fuel' = fuel - 1
       /\ d' = s.d
       /\ hw' = s.hw
       /\ rd' = Fit(s.rd)
       /\ wr' = Fit(s.wr)
       /\ log_over' = (Len(s.rd) > LogMax \/ Len(s.wr) > LogMax)
       /\ pc' = P!Leaves(gen, Low(off), s.d, stack)
       /\ imask' = IF gen.rte THEN Last(stack)[2] ELSE s.imask
       /\ stack' = IF gen.rte THEN Front(stack) ELSE stack
    /\ UNCHANGED <<build, turn, irq_vars, xchk_mode>>

(* m68k_run found no block: the interpreter is handed the registers.        *)
HandOver ==
    /\ turn = "run" /\ backend = "recomp" /\ xchk_mode = "record"
    /\ ~Dispatchable(pc)
    /\ turn' = "gap"
    /\ xchk_mode' = ModeOutside
    /\ Break
    /\ UNCHANGED <<build, cpu_vars, irq_vars, pend, log_vars, diverged, wrong, seen, stray>>

(* m68k_execute(1), of the code the machine shows. *)
Interpret ==
    LET c == Code[P!Shown(pc, hw)]
        s == P!Run(c.ops, d, imask, hw)
    IN  /\ d' = s.d /\ hw' = s.hw
        /\ pc' = P!Leaves(c, pc, s.d, stack)
        /\ imask' = IF c.rte THEN Last(stack)[2] ELSE s.imask
        /\ stack' = IF c.rte THEN Front(stack) ELSE stack
        /\ fuel' = fuel - 1

(* It stays for as long as there is credit and no block to go back to. *)
Stays == fuel' > 0 /\ Canon(pc') \notin Compiled

Gap ==
    /\ turn = "gap"
    /\ Interpret
    /\ turn' = IF Stays THEN "gap" ELSE "others"
    /\ UNCHANGED <<build, irq_vars, xchk_vars, stray>>

\* the acknowledge callback left at Musashi's default of an autovector
AckNothing == UNCHANGED latch

(* gen68k_int_ack *)
Ack == latch' = 0

(* Musashi's own loop: the interrupt is looked at between instructions. *)
Musashi ==
    /\ turn = "run" /\ backend = "musashi"
    /\ fuel > 0
    /\ \/ /\ latch = P!Vint /\ Takes
          /\ Enter
          /\ Ack
          /\ UNCHANGED <<fuel, d, hw>>
       \/ /\ ~(latch = P!Vint /\ Takes)
          /\ Interpret
          /\ UNCHANGED irq_vars
    /\ UNCHANGED <<build, turn, xchk_vars, stray>>

(* The Z80 and the SH-2s.  The Z80 reads and writes through the 68000's     *)
(* memory functions.                                                        *)
Others ==
    /\ turn = "others"
    /\ turn' = "beam"
    /\ \/ UNCHANGED <<hw, log_vars>>
       \/ \E a \in {"lo", "port"} :
            /\ hw' = P!Peek(hw, a)
            /\ rd' = IF xchk_mode = "record" THEN Fit(Append(rd, <<a, hw[a]>>)) ELSE rd
            /\ UNCHANGED <<wr, log_over>>
       \/ \E b \in P!Bits :
            /\ hw' = [hw EXCEPT !["lo"] = b]
            /\ wr' = IF xchk_mode = "record" THEN Fit(Append(wr, <<"lo", b>>)) ELSE wr
            /\ UNCHANGED <<rd, log_over>>
    /\ UNCHANGED <<build, fuel, pc, d, imask, stack, irq_vars, xchk_mode, armed,
                   pend, diverged, wrong, seen, stray>>

-----------------------------------------------------------------------------
Init ==
    /\ backend \in {"recomp", "musashi"}
    /\ fault \in {None} \cup (IF backend = "recomp" THEN Faults ELSE {})
    /\ turn = "beam" /\ fuel = 0
    /\ pc = Low(Reset)
    /\ d = <<0, 0>> /\ imask = 7 /\ stack = <<>>
    /\ hw \in [P!Bytes -> P!Bits]
    /\ vint_irq = FALSE /\ latch = 0
    /\ xchk_mode = Off /\ armed = FALSE
    /\ pend = [off |-> Reset, d |-> <<0, 0>>, stack |-> <<>>]
    /\ rd = <<>> /\ wr = <<>> /\ log_over = FALSE
    /\ diverged = FALSE /\ wrong = FALSE /\ seen = FALSE
    /\ stray = FALSE

Next ==
    \/ Beam
    \/ Poll
    \/ EndRun
    \/ Block
    \/ HandOver
    \/ Gap
    \/ Musashi
    \/ Others

Spec == Init /\ [][Next]_vars

-----------------------------------------------------------------------------
(* What a cartridge sees to: the program counter is at code of its own, and *)
(* an exception is returned from where there is one.                        *)
InItsCode ==
    /\ P!Shown(pc, hw) \in DOMAIN Code
    /\ Code[P!Shown(pc, hw)].rte => stack # <<>>

(* Types.  Recording is on only while recompiled code runs, and only what   *)
(* fits is recorded.                                                        *)
TypeOK ==
    /\ backend \in {"recomp", "musashi"}
    /\ fault \in Faults \cup {None}
    /\ turn \in {"beam", "poll", "run", "gap", "others"}
    /\ fuel \in -1..MaxFuel
    /\ Address(pc)
    /\ d \in [1..2 -> P!Bits]
    /\ imask \in 0..7
    /\ \A k \in 1..Len(stack) : stack[k][2] < P!Vint
    /\ hw \in [P!Bytes -> P!Bits]
    /\ vint_irq \in BOOLEAN
    /\ latch \in {0, P!Vint}
    /\ xchk_mode \in {Off, "record"} /\ (xchk_mode # Off => turn = "run")
    /\ {armed, log_over, diverged, wrong, seen, stray} \subseteq BOOLEAN
    /\ Len(rd) <= LogMax /\ Len(wr) <= LogMax

(* No block reads a byte it also writes.                                    *)
Apart(c) ==
    \A i, j \in 1..Len(c.ops) :
       c.ops[i].k = "read" /\ c.ops[j].k = "write" => c.ops[i].a # c.ops[j].a

(* The check raises no false alarm: what it reports is a block that did not *)
(* do what its code does, whatever yields, interrupts, gaps, port reads and *)
(* other processors came between its entry and the comparison.              *)
NoFalseAlarm == diverged => seen

(* The shadow's writes fit the log.  What does not fit is left out of the   *)
(* comparison: log_over is looked at for the block's writes only.           *)
WritesFit(c) == Cardinality({j \in 1..Len(c.ops) : c.ops[j].k = "write"}) <= LogMax

Answerable == {f \in Faults : Apart(f.code) /\ Apart(Code[f.of]) /\ WritesFit(Code[f.of])}

(* It leaves the mask its code leaves, from any state.  compare looks at SR *)
(* through 0x201F, which leaves the interrupt mask out.                     *)
MaskKept ==
    {f \in Faults :
       Code[f.of].rte \/
       \A regs \in [1..2 -> P!Bits], mask \in 0..7, bytes \in [P!Bytes -> P!Bits] :
          P!Run(f.code.ops, regs, mask, bytes).imask = P!Run(Code[f.of].ops, regs, mask, bytes).imask}

(* And no compared block gets past it, but for what the check cannot see: a *)
(* read and a write of one byte, in the block or in its code, the shadow's  *)
(* reads being answered from the record whatever it wrote itself; writes of *)
(* the code that do not fit the log; and a wrong interrupt mask.            *)
NoMiss == seen /\ (fault # None => fault \in Answerable \cap MaskKept) => diverged

(* What is compared is what a translation can get wrong (the head of        *)
(* xcheck.h): a compared block that left anything its code would not have   *)
(* left, the interrupt mask among the registers, is reported, the accesses  *)
(* being such as the shadow can answer.                                     *)
ComparesAll == seen /\ (fault # None => fault \in Answerable) => diverged

(* A recompiled block runs only where the machine shows its code: the       *)
(* window that is banked, and the vectors, go to the interpreter.           *)
RightCode == ~stray

(* A vertical interrupt is taken once for each request, and a request goes  *)
(* away in no other way than being taken, on both backends.                 *)
TakenOnce == [][(vint_irq /\ ~vint_irq') <=> Len(stack') > Len(stack)]_vars

(* Blocks, gaps and windows together run the program the interpreter does:  *)
(* every step is one of it or changes nothing the program sees.             *)
Implements == P!Init /\ [][fault = None => [P!Next]_(P!vars)]_vars
=============================================================================

------------------------------ MODULE HandOver ------------------------------
(***************************************************************************)
(* The scheduler of src/src/mars_main.c.                                   *)
(*                                                                         *)
(* A frame is LinesPerFrame scanlines of SubSlices hand-overs.  A hand-over*)
(* opens a window, measured in 68000 cycles and in SH-2 cycles, and the    *)
(* four processors take turns inside it: 68000, Z80, master SH-2, slave    *)
(* SH-2.  Two mechanisms keep every processor at its own rate:             *)
(*                                                                         *)
(*   - a step clock hands out a rational number of cycles per hand-over    *)
(*     and carries the remainder of the division (acc, insn_acc);          *)
(*   - a processor runs whole blocks or instructions, so it overshoots its *)
(*     share, and the overshoot is a debt carried in its credit.           *)
(*                                                                         *)
(* What the processors compute is left out: a run is the amount of clock   *)
(* it consumed.  handed, steps, owed and ran are history variables.        *)
(***************************************************************************)
EXTENDS Integers

CONSTANTS
    CyclesPerFrame,   \* CYCLES_PER_FRAME, 68000 cycles in a frame
    LinesPerFrame,    \* LINES_PER_FRAME
    SubSlices,        \* SUBSLICES_PER_LINE
    Z80Num, Z80Den,   \* the Z80 clock is Z80Num/Z80Den of the 68000's (7/15)
    Sh2Ratio,         \* SH-2 cycles per 68000 cycle (3)
    PerK,             \* the scale of Cpi (1000)
    Cpi,              \* sh2_cpi1000: cycles per PerK instructions, per SH-2
    Over,             \* longest overshoot of one run, per processor
    IrqCycles,        \* M68K_IRQ_CYCLES, the price of taking an interrupt
    DmaCharges,       \* the 68000 cycles one slice's DMA may hold the bus for
    MaxSteps          \* bound on the hand-overs explored

SH2s   == {"master", "slave"}
CPUs   == SH2s \cup {"m68k", "z80"}
Clocks == {"m68k", "z80", "sh2"}

ASSUME HandOverAssumption ==
    /\ CyclesPerFrame \in Nat \ {0}
    /\ LinesPerFrame \in Nat \ {0}
    /\ SubSlices \in Nat \ {0}
    /\ Z80Num \in Nat \ {0}
    /\ Z80Den \in Nat \ {0}
    /\ Sh2Ratio \in Nat \ {0}
    /\ PerK \in Nat \ {0}
    /\ Cpi \in [SH2s -> Nat \ {0}]
    /\ Over \in [CPUs -> Nat]
    /\ IrqCycles \in Nat
    /\ DmaCharges \subseteq Nat
    /\ MaxSteps \in Nat
    /\ CyclesPerFrame * Sh2Ratio >= LinesPerFrame * SubSlices

StepsPerFrame == LinesPerFrame * SubSlices

(* The fraction of a clock one hand-over is worth: Num[k] / Den[k] cycles. *)
Num == [k \in Clocks |-> CASE k = "m68k" -> CyclesPerFrame
                           [] k = "z80"  -> CyclesPerFrame * Z80Num
                           [] k = "sh2"  -> CyclesPerFrame * Sh2Ratio]
Den == [k \in Clocks |-> IF k = "z80" THEN StepsPerFrame * Z80Den
                                      ELSE StepsPerFrame]

VARIABLES
    turn,      \* whose turn it is: "open", then the processors in order
    acc,       \* cyc_acc, z80_cyc_acc, sh2_cyc_acc
    insn_acc,  \* sh2_insn_acc
    m68k_win,  \* mc, the 68000 cycles of the open window
    sh2_win,   \* sh2c, its SH-2 cycles
    left,      \* SH-2 cycles of the window the SH-2 on turn has not had yet
    credit,    \* cpu_credit, z80_credit, sh2_credit
    mode,      \* an SH-2's pc: "held" in the BIOS (0), "run", "parked" (0)
    booted,    \* mars_bios_handover's done
    busreq,    \* the Z80 is held off: bus requested or in reset
    dma,       \* gen.dma_lines1000, as 68000 cycles
    steps,     \* hand-overs opened
    handed,    \* cycles each step clock has handed out
    owed,      \* SH-2 cycles since the processor started running
    ran        \* what each processor has consumed since it started

code_vars == <<turn, acc, insn_acc, m68k_win, sh2_win, left, credit, mode,
               booted, busreq, dma>>
vars == <<code_vars, steps, handed, owed, ran>>

-----------------------------------------------------------------------------
(* The step clocks. *)

StepCycles(k) == (acc[k] + Num[k]) \div Den[k]

\* the division without its remainder, as the frame loop first had it
StepCarryTruncated(k) == 0

\* the accumulator never reduced
StepCarryUnreduced(k) == acc[k] + Num[k]

StepCarry(k) == (acc[k] + Num[k]) % Den[k]

Insns(i, n) == (insn_acc[i] + n * PerK) \div Cpi[i]

\* each chunk's division truncated
InsnCarryTruncated(i, n) == 0

InsnCarry(i, n) == (insn_acc[i] + n * PerK) % Cpi[i]

\* the overshoot thrown away instead of carried
CreditLeftForgiven(b, used) == IF used > b THEN 0 ELSE b - used

(* What a run of used cycles (or instructions) leaves of a budget of b: it  *)
(* goes on until the budget is spent and ends with the block that spent it, *)
(* so it may use Over more, and that is carried as a negative credit.       *)
CreditLeft(b, used) == b - used

FullRun(c, b) == b..(b + Over[c])

(* The credit of an SH-2 the adapter still holds: its share is not banked.  *)
HeldCredit(i, n) == 0

-----------------------------------------------------------------------------
Init ==
    /\ turn = "open"
    /\ acc = [k \in Clocks |-> 0]
    /\ insn_acc = [i \in SH2s |-> 0]
    /\ m68k_win = 0
    /\ sh2_win = 0
    /\ left = 0
    /\ credit = [c \in CPUs |-> 0]
    /\ mode = [i \in SH2s |-> "held"]
    /\ booted = FALSE
    /\ busreq = TRUE
    /\ dma = 0
    /\ steps = 0
    /\ handed = [k \in Clocks |-> 0]
    /\ owed = [i \in SH2s |-> 0]
    /\ ran = [c \in CPUs |-> 0]

(* step_cycles and sh2_step_cycles: the window is known before any of the  *)
(* four runs.                                                              *)
OpenWindow ==
    /\ turn = "open"
    /\ steps < MaxSteps
    /\ steps' = steps + 1
    /\ m68k_win' = StepCycles("m68k")
    /\ sh2_win' = StepCycles("sh2")
    /\ acc' = [acc EXCEPT !["m68k"] = StepCarry("m68k"),
                          !["sh2"] = StepCarry("sh2")]
    /\ handed' = [handed EXCEPT !["m68k"] = @ + StepCycles("m68k"),
                                !["sh2"] = @ + StepCycles("sh2")]
    /\ turn' = "m68k"
    /\ UNCHANGED <<insn_acc, left, credit, mode, booted, busreq, dma, owed, ran>>

(* What the 68000 may do in its turn that other processors see: start a    *)
(* DMA, request or give back the Z80's bus, and end the boot handshake,    *)
(* which gives both SH-2s their entry points once.                         *)
M68KEffects ==
    /\ busreq' \in BOOLEAN
    /\ \/ UNCHANGED <<mode, booted>>
       \/ /\ ~booted
          /\ booted' = TRUE
          /\ mode' = [i \in SH2s |-> "run"]

(* cpu_poll_irq and cpu_run.  b is the credit the run would start from:    *)
(* the window, less the interrupt's price, less the DMA of the last slice. *)
(* A run that meets an address without a block hands over to the           *)
(* interpreter, which executes one instruction at least and stops at the   *)
(* first address that has a block: then part of the budget is left.        *)
M68KTurn ==
    /\ turn = "m68k"
    /\ \E irq \in {0, IrqCycles} :
         LET b == credit["m68k"] - irq + m68k_win - dma IN
         \/ /\ b <= 0
            /\ credit' = [credit EXCEPT !["m68k"] = b]
            /\ dma' = 0
            /\ UNCHANGED <<mode, booted, busreq, ran>>
         \/ /\ b > 0
            /\ \E used \in 1..(b + Over["m68k"]) :
                 /\ credit' = [credit EXCEPT !["m68k"] = CreditLeft(b, used)]
                 /\ ran' = [ran EXCEPT !["m68k"] = @ + used]
            /\ dma' \in DmaCharges
            /\ M68KEffects
    /\ turn' = "z80"
    /\ UNCHANGED <<acc, insn_acc, m68k_win, sh2_win, left, steps, handed, owed>>

(* z80_slice and genz80_slice.  A Z80 off the bus has its time spent for it. *)
Z80Turn ==
    /\ turn = "z80"
    /\ acc' = [acc EXCEPT !["z80"] = StepCarry("z80")]
    /\ handed' = [handed EXCEPT !["z80"] = @ + StepCycles("z80")]
    /\ LET b == credit["z80"] + StepCycles("z80") IN
       \E used \in CASE b <= 0          -> {0}
                     [] b > 0 /\ busreq  -> {b}
                     [] b > 0 /\ ~busreq -> FullRun("z80", b) :
         /\ credit' = [credit EXCEPT !["z80"] = CreditLeft(b, used)]
         /\ ran' = [ran EXCEPT !["z80"] = @ + used]
    /\ turn' = "master"
    /\ left' = sh2_win
    /\ UNCHANGED <<insn_acc, m68k_win, sh2_win, mode, booted, busreq, dma,
                   steps, owed>>

(* sh2_chunk.  A running SH-2 may meet a transfer that has no block: it     *)
(* parks with its PC at zero, wherever its budget then stands.              *)
SH2Chunk(i, n) ==
    /\ insn_acc' = [insn_acc EXCEPT ![i] = InsnCarry(i, n)]
    /\ \/ /\ mode[i] # "run"
          /\ credit' = [credit EXCEPT ![i] = HeldCredit(i, n)]
          /\ UNCHANGED <<mode, ran, owed>>
       \/ /\ mode[i] = "run"
          /\ owed' = [owed EXCEPT ![i] = @ + n]
          /\ LET b == credit[i] + Insns(i, n) IN
             \/ /\ \E used \in IF b <= 0 THEN {0} ELSE FullRun(i, b) :
                     /\ credit' = [credit EXCEPT ![i] = CreditLeft(b, used)]
                     /\ ran' = [ran EXCEPT ![i] = @ + used]
                /\ UNCHANGED mode
             \/ /\ b > 0
                /\ \E used \in 0..(b + Over[i]) :
                     /\ credit' = [credit EXCEPT ![i] = CreditLeft(b, used)]
                     /\ ran' = [ran EXCEPT ![i] = @ + used]
                /\ mode' = [mode EXCEPT ![i] = "parked"]

(* sh2_slice and, for the slave, the loop that cuts its share at the PWM    *)
(* timer's edges: the window is run in any number of chunks.                *)
SH2Turn(i) ==
    /\ turn = i
    /\ \E n \in 1..left :
         /\ SH2Chunk(i, n)
         /\ \/ /\ n < left
               /\ left' = left - n
               /\ UNCHANGED turn
            \/ /\ n = left
               /\ IF i = "master" THEN turn' = "slave" /\ left' = sh2_win
                                  ELSE turn' = "open" /\ left' = 0
    /\ UNCHANGED <<acc, m68k_win, sh2_win, booted, busreq, dma, steps, handed>>

Next ==
    \/ OpenWindow
    \/ M68KTurn
    \/ Z80Turn
    \/ \E i \in SH2s : SH2Turn(i)

Spec == Init /\ [][Next]_vars

-----------------------------------------------------------------------------
(* Types.  A step clock's remainder is below its divisor, and so is the     *)
(* instruction remainder of each SH-2 (cyc_acc %= STEPS_PER_FRAME and the   *)
(* lines like it); a processor is never in debt for more than one block,    *)
(* except the 68000, whose DMA and interrupts are charged to it as well.    *)
TypeOK ==
    /\ turn \in {"open"} \cup CPUs
    /\ acc \in [Clocks -> Nat] /\ \A k \in Clocks : acc[k] < Den[k]
    /\ insn_acc \in [SH2s -> Nat] /\ \A i \in SH2s : insn_acc[i] < Cpi[i]
    /\ m68k_win \in Nat /\ sh2_win \in Nat
    /\ left \in 0..sh2_win /\ (turn \notin SH2s => left = 0)
    /\ credit \in [CPUs -> Int]
    /\ mode \in [SH2s -> {"held", "run", "parked"}]
    /\ booted \in BOOLEAN /\ busreq \in BOOLEAN
    /\ dma \in DmaCharges \cup {0}
    /\ steps \in Nat
    /\ handed \in [Clocks -> Nat]
    /\ owed \in [SH2s -> Nat]
    /\ ran \in [CPUs -> Nat]

FrameBoundary == turn = "open" /\ steps % StepsPerFrame = 0

(* A whole frame of hand-overs gives the 68000 CYCLES_PER_FRAME cycles, the *)
(* SH-2s exactly three times as many and the Z80 its share to the cycle:    *)
(* step_cycles, sh2_step_cycles and z80_step_cycles lose nothing to the     *)
(* 4,192 divisions of a frame.                                              *)
FrameExact ==
    FrameBoundary =>
      LET f == steps \div StepsPerFrame IN
      /\ handed["m68k"] = f * CyclesPerFrame
      /\ handed["sh2"] = f * CyclesPerFrame * Sh2Ratio
      /\ handed["z80"] = (f * CyclesPerFrame * Z80Num) \div Z80Den

(* No processor runs ahead of its clock by more than the block it was in,   *)
(* however its share was cut and however long the BIOS held it: the         *)
(* overshoot of a run is paid back (cpu_credit, z80_credit, sh2_credit) and *)
(* the wait of a held SH-2 is not repaid in a burst.                        *)
NeverAhead ==
    /\ ran["m68k"] <= handed["m68k"] + Over["m68k"]
    /\ ran["z80"] <= handed["z80"] + Over["z80"]
    /\ \A i \in SH2s : mode[i] = "run" =>
          (ran[i] - Over[i]) * Cpi[i] < owed[i] * PerK + Cpi[i]

(* Nor does one fall behind: between two turns the Z80 has had every cycle  *)
(* handed to it, and a running SH-2 every instruction its cycles are worth, *)
(* less than one instruction short in the whole run.                        *)
NeverBehind ==
    /\ ran["z80"] >= handed["z80"]
    /\ \A i \in SH2s : mode[i] = "run" =>
          (ran[i] + 1) * Cpi[i] > owed[i] * PerK
=============================================================================

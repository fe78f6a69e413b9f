--------------------------------- MODULE Chips ---------------------------------
(***************************************************************************)
(* The two Mega Drive sound chips as the run feeds them: the YM2612's      *)
(* clock, spent early at every write and taken back out of the next tick   *)
(* (src/src/sound.c, sound_ym_write and sound_ym_tick), and the counters   *)
(* and the shift register of the PSG (src/src/psg.c).                      *)
(*                                                                         *)
(* Of the PSG's three tone channels the model has the one whose period the *)
(* noise may borrow.  A period is two bits, one in each of the two bytes   *)
(* that set it; the shift register's top bit is LfsrTop, scaled from 2^15. *)
(***************************************************************************)
EXTENDS Integers

CONSTANTS
    YmCycles,   \* 68000 cycles a tick may bring
    YmElapsed,  \* bound on the cycles of a behaviour
    YmDebts,    \* bound on the writes before the clock catches up
    LfsrTop     \* what writing the noise register reloads the shift register with

ASSUME ChipsAssumption ==
    /\ YmCycles \subseteq Nat /\ YmElapsed \in Nat /\ YmDebts \in Nat
    /\ LfsrTop \in Nat /\ LfsrTop >= 8

VARIABLES
    ym_div,   \* 68000 cycles towards the next of six
    ym_debt,  \* cycles spent early, at a write
    clocked,  \* history: cycles the chip has been given
    elapsed   \* history: 68000 cycles that have passed

ymvars == <<ym_div, ym_debt, clocked, elapsed>>

YmInit == ym_div = 0 /\ ym_debt = 0 /\ clocked = 0 /\ elapsed = 0

(* n turns of ym_clock. *)
YmClock(n) == clocked' = clocked + n

\* a write's clock that nothing pays for
OwedNothing == ym_debt

(* What a write leaves owing: it is clocked on the spot, for the chip holds *)
(* one pending byte and the next write would replace it.                    *)
Owed == ym_debt + 1

YmWrite ==
    /\ ym_debt < YmDebts
    /\ YmClock(1)
    /\ ym_debt' = Owed
    /\ UNCHANGED <<ym_div, elapsed>>

(* Of n cycles due, those a write has spent already. *)
Paid(n) == IF ym_debt < n THEN ym_debt ELSE n

YmTick(c) ==
    /\ elapsed + c <= YmElapsed
    /\ LET due == (ym_div + c) \div 6 IN
       /\ ym_div' = (ym_div + c) % 6
       /\ ym_debt' = ym_debt - Paid(due)
       /\ YmClock(due - Paid(due))
    /\ elapsed' = elapsed + c

YmNext == YmWrite \/ \E c \in YmCycles : YmTick(c)

YmSpec == YmInit /\ [][YmNext]_ymvars

(* However the writes fall between the ticks, the chip has had one cycle    *)
(* for every six of the 68000's, but for those a write has spent early and  *)
(* the ticks to come owe back (sound.c, sound_ym_write and sound_ym_tick).   *)
KeepsTime == 6 * clocked + ym_div = elapsed + 6 * ym_debt

-----------------------------------------------------------------------------
VARIABLES
    period,  \* the tone channel's period, by the byte that carries each part
    noise,   \* the noise register: its rate, and white or periodic
    count,   \* the counters of the tone channel and of the noise
    flip,    \* the noise's flip, which shifts once a cycle
    lfsr,    \* the shift register
    psglatch \* where a byte without bit 7 goes: "tone", "noise" or "other"

psgvars == <<period, noise, count, flip, lfsr, psglatch>>

PsgInit ==
    /\ period = [lo |-> 0, hi |-> 0]
    /\ noise = [rate |-> 0, white |-> FALSE]
    /\ count = [tone |-> 1, noise |-> 1]
    /\ flip = FALSE /\ lfsr = LfsrTop /\ psglatch = "other"

Period == period.lo + 2 * period.hi

(* psg_write: a byte that latches, and one that goes where the last did. *)
PsgTone(lo) ==
    /\ period' = [period EXCEPT !.lo = lo]
    /\ psglatch' = "tone"
    /\ UNCHANGED <<noise, count, flip, lfsr>>

PsgNoise(rate, white, first) ==
    /\ first \/ psglatch = "noise"
    /\ noise' = [rate |-> rate, white |-> white]
    /\ lfsr' = LfsrTop
    /\ psglatch' = "noise"
    /\ UNCHANGED <<period, count, flip>>

PsgMore(hi) ==
    /\ psglatch = "tone"
    /\ period' = [period EXCEPT !.hi = hi]
    /\ UNCHANGED <<noise, count, flip, lfsr, psglatch>>

\* a parked tone's period borrowed as it is
NoiseReloadParked ==
    CASE noise.rate = 0 -> 1 [] noise.rate = 1 -> 2 [] noise.rate = 2 -> 4 [] OTHER -> Period

(* noise_reload_value. *)
NoiseReload ==
    CASE noise.rate = 0 -> 1 [] noise.rate = 1 -> 2 [] noise.rate = 2 -> 4
      [] OTHER -> IF Period = 0 THEN 1 ELSE Period

Bit(n, weight) == (n \div weight) % 2

Feedback == IF noise.white THEN (Bit(lfsr, 1) + Bit(lfsr, 8)) % 2 ELSE Bit(lfsr, 1)

(* An attenuation, or one of the other two channels. *)
PsgOther ==
    /\ psglatch' = "other"
    /\ UNCHANGED <<period, noise, count, flip, lfsr>>

(* A counter is sixteen bits wide and reloads where it comes to zero. *)
Down(n) == IF n = 0 THEN 65535 ELSE n - 1

(* step: a parked tone is skipped, the noise never is. *)
PsgStep ==
    LET tone == Down(count.tone)  hiss == Down(count.noise) IN
    /\ count' = [tone  |-> IF Period = 0 THEN count.tone ELSE IF tone = 0 THEN Period ELSE tone,
                 noise |-> IF hiss = 0 THEN NoiseReload ELSE hiss]
    /\ flip' = (flip # (hiss = 0))
    /\ lfsr' = IF hiss = 0 /\ ~flip THEN (lfsr \div 2) + LfsrTop * Feedback ELSE lfsr
    /\ UNCHANGED <<period, noise, psglatch>>

PsgNext ==
    \/ \E lo \in 0..1 : PsgTone(lo)
    \/ \E rate \in 0..3, white \in BOOLEAN, first \in BOOLEAN : PsgNoise(rate, white, first)
    \/ \E hi \in 0..1 : PsgMore(hi)
    \/ PsgOther \/ PsgStep

PsgSpec == PsgInit /\ [][PsgNext]_psgvars

(* No order of writes stops a channel: a counter is never zero, where it    *)
(* would have to go round all of its sixteen bits, and the shift register   *)
(* never runs empty (psg.c, step, noise_reload_value and noise_shift).      *)
NeverDead == count.tone > 0 /\ count.noise > 0 /\ lfsr > 0
=============================================================================

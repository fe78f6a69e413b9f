------------------------------ MODULE PwmUnit ------------------------------
(***************************************************************************)
(* The 32X's PWM unit: its two sample FIFOs (sound_pwm_write, fifo_take)   *)
(* and the clock that empties them and interrupts the slave                *)
(* (sound_pwm_ahead, sound_pwm_tick), with the part of the frame loop that *)
(* cuts the slave's share of a hand-over at the clock's own edges.         *)
(*                                                                         *)
(* A word is the number it has among those its FIFO accepted, so what is   *)
(* queued and what has been played can be told apart without remembering   *)
(* either.                                                                 *)
(***************************************************************************)
EXTENDS Integers, Sequences

CONSTANTS Depth,     \* PWM_FIFO_DEPTH
          Shares,    \* bound: sizes of a hand-over, in SH-2 cycles
          Cycles,    \* bound: values written to the cycle register
          Ratios,    \* bound: values written to TM, a field of pwm_ctl
          MaxWords   \* bound: words a FIFO accepts

ASSUME PwmAssumption ==
  /\ Depth \in Nat \ {0}
  /\ Shares \subseteq Nat \ {0}
  /\ Cycles \subseteq Nat /\ Ratios \subseteq Nat
  /\ MaxWords \in Nat

Sides == {"L", "R"}

VARIABLES cycle,    \* mars.pwm_cycle
          tm,       \* TM, bits 11-8 of mars.pwm_ctl
          acc,      \* pwm_acc, SH-2 cycles into the sample
          tm_n,     \* pwm_tm_n, samples since the interrupt
          q,        \* each FIFO's words
          playing,  \* each FIFO's last word taken, played on while it is dry
          put,      \* words each FIFO has accepted
          left,     \* of the hand-over, what the slave has not run
          n,        \* the piece of it being run
          pc,       \* idle, cut, run, tick or take
          gap,      \* history: cycles the slave ran since the last interrupt
          steady,   \* history: no register has changed since then
          apart     \* history: the last distance measured, 0 for none

clock  == <<cycle, tm, acc, tm_n>>
fifos  == <<q, playing, put>>
timing == <<gap, steady, apart>>
pwmvars == <<clock, fifos, left, n, pc, timing>>

\* mars_pwm_sample_period: twelve bits, of which 0 and 1 stop the unit.
SamplePeriodOf(c) == IF c % 4096 < 2 THEN 0 ELSE (c % 4096) - 1
SamplePeriod == SamplePeriodOf(cycle)

\* mars_pwm_period
InterruptPeriod == tm * SamplePeriod

Running == SamplePeriod > 0

----------------------------------------------------------------------------
(* The registers, as any of the three CPUs writes them: the 68000 and the   *)
(* master in their own turns, the slave in the middle of its share.         *)

CpuRuns == pc = "idle" \/ (pc = "run" /\ n > 0)

\* A register that changes ends whatever distance was being measured.
Measures(changed) ==
  IF changed THEN gap' = 0 /\ steady' = FALSE /\ apart' = 0
  ELSE UNCHANGED timing

WriteCycle(c) ==
  /\ CpuRuns
  /\ cycle' = c
  /\ Measures(c # cycle)
  /\ UNCHANGED <<tm, acc, tm_n, fifos, left, n, pc>>

WriteControl(t) ==
  /\ CpuRuns
  /\ tm' = t
  /\ Measures(t # tm)
  /\ UNCHANGED <<cycle, acc, tm_n, fifos, left, n, pc>>

\* A word written to a full FIFO is lost.
HasRoom(s) == Len(q[s]) < Depth

\* sound_pwm_write: one side, or both through the mono port.
WriteWord(which) ==
  /\ CpuRuns
  /\ \A s \in which : put[s] < MaxWords
  /\ q' = [s \in Sides |-> IF s \in which /\ HasRoom(s) THEN Append(q[s], put[s] + 1)
                           ELSE q[s]]
  /\ put' = [s \in Sides |-> IF s \in which /\ HasRoom(s) THEN put[s] + 1 ELSE put[s]]
  /\ UNCHANGED <<clock, playing, left, n, pc, timing>>

----------------------------------------------------------------------------
(* The slave's share of a hand-over. *)

HandOver(share) ==
  /\ pc = "idle"
  /\ left' = share /\ pc' = "cut"
  /\ UNCHANGED <<clock, fifos, n, timing>>

\* the share handed over whole
AheadWhole(cycles) == cycles

\* to the next edge, however far
AheadFar(cycles) ==
  IF Running THEN (IF acc < SamplePeriod THEN SamplePeriod - acc ELSE 0) ELSE cycles

\* sound_pwm_ahead: no further than the next edge.
Ahead(cycles) ==
  LET to_edge == IF acc < SamplePeriod THEN SamplePeriod - acc ELSE 0
  IN  IF Running /\ to_edge < cycles THEN to_edge ELSE cycles

Cut ==
  /\ pc = "cut" /\ left > 0
  /\ n' = Ahead(left) /\ pc' = "run"
  /\ UNCHANGED <<clock, fifos, left, timing>>

\* sh2_slice(1, n) is over; what the slave wrote in it are actions of their own.
Ran ==
  /\ pc = "run"
  /\ gap' = IF steady THEN gap + n ELSE 0
  /\ pc' = "tick"
  /\ UNCHANGED <<clock, fifos, left, n, steady, apart>>

\* sound_pwm_tick: a stopped unit's clock does not move.
Tick ==
  /\ pc = "tick"
  /\ IF Running THEN acc' = acc + n /\ pc' = "take" ELSE UNCHANGED acc /\ pc' = "cut"
  /\ left' = left - n /\ n' = 0
  /\ UNCHANGED <<cycle, tm, tm_n, fifos, timing>>

\* the comparison off by one
DuePast == acc > SamplePeriod

Due == acc >= SamplePeriod

\* the newest word first
TakenNewest(s) == SubSeq(q[s], 1, Len(q[s]) - 1)

Taken(s) == Tail(q[s])

\* One sample out of each FIFO, and every TM of them the slave's interrupt.
Take ==
  /\ pc = "take" /\ Due
  /\ acc' = acc - SamplePeriod
  /\ q' = [s \in Sides |-> IF q[s] = <<>> THEN q[s] ELSE Taken(s)]
  /\ playing' = [s \in Sides |-> IF q[s] = <<>> THEN playing[s] ELSE q[s][1]]
  /\ IF tm > 0 /\ tm_n + 1 >= tm
     THEN /\ tm_n' = 0
          /\ gap' = 0 /\ steady' = (acc = SamplePeriod)
          /\ apart' = IF steady THEN gap ELSE 0
     ELSE /\ tm_n' = IF tm > 0 THEN tm_n + 1 ELSE tm_n
          /\ UNCHANGED timing
  /\ UNCHANGED <<cycle, tm, put, left, n, pc>>

\* The clock is short of its next edge; the rest of the share, if any, is cut.
Short ==
  /\ pc = "take" /\ ~Due
  /\ pc' = "cut"
  /\ UNCHANGED <<clock, fifos, left, n, timing>>

ShareOver ==
  /\ pc = "cut" /\ left = 0
  /\ pc' = "idle"
  /\ UNCHANGED <<clock, fifos, left, n, timing>>

PwmInit ==
  /\ cycle = 0 /\ tm = 0 /\ acc = 0 /\ tm_n = 0
  /\ q = [s \in Sides |-> <<>>] /\ playing = [s \in Sides |-> 0]
  /\ put = [s \in Sides |-> 0]
  /\ left = 0 /\ n = 0 /\ pc = "idle"
  /\ gap = 0 /\ steady = FALSE /\ apart = 0

Loop == Cut \/ Ran \/ Tick \/ Take \/ Short \/ ShareOver

PwmNext ==
  \/ \E c \in Cycles : WriteCycle(c)
  \/ \E t \in Ratios : WriteControl(t)
  \/ \E which \in {{"L"}, {"R"}, Sides} : WriteWord(which)
  \/ \E share \in Shares : HandOver(share)
  \/ Loop

\* The frame loop is a loop of the program: it does not stop inside a share.
PwmSpec == PwmInit /\ [][PwmNext]_pwmvars /\ WF_pwmvars(Loop)

----------------------------------------------------------------------------
(* Properties. *)

\* Shape of the state; a piece is never more than what is left of the share it
\* was cut from, and there is one only while it is being run.
PwmTypeOK ==
  /\ cycle \in Nat /\ tm \in Nat /\ acc \in Nat /\ tm_n \in Nat
  /\ q \in [Sides -> Seq(Nat)] /\ playing \in [Sides -> Nat] /\ put \in [Sides -> Nat]
  /\ left \in Nat /\ n \in Nat /\ n <= left
  /\ pc \in {"idle", "cut", "take"} => n = 0
  /\ pc \in {"idle", "cut", "run", "tick", "take"}
  /\ gap \in Nat /\ steady \in BOOLEAN /\ apart \in Nat

\* While the registers are left alone the slave's interrupts are TM samples
\* apart in the slave's own cycles, exactly, wherever the hand-overs fall: "the
\* share is cut at the timer's own edges rather than handed over whole".
Regular == apart # 0 => apart = InterruptPeriod

\* Each FIFO plays its words in the order it accepted them, each of them once,
\* and goes on with the last one when it has run dry.
InOrder ==
  \A s \in Sides :
    /\ Len(q[s]) <= Depth
    /\ put[s] = playing[s] + Len(q[s])
    /\ \A k \in 1..Len(q[s]) : q[s][k] = playing[s] + k

\* The loop that cuts the share up comes to its end, whatever the slave does to
\* the clock while it runs: a piece of no cycles is followed by an edge.
ShareEnds == (pc # "idle") ~> (pc = "idle")
=============================================================================

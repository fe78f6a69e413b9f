------------------------------- MODULE MarsInt -------------------------------
(***************************************************************************)
(* Interrupts of the two SH-2s inside one hand-over after another          *)
(* (src/src/mem32x.c, with the frame loop of src/src/mars_main.c, the      *)
(* 68000's interrupt control register in src/src/gen68k.c and the PWM      *)
(* timer's edges in src/src/sound.c).                                      *)
(*                                                                         *)
(* The 68000 runs the whole window before the SH-2s run the same window,   *)
(* so a command interrupt carries the position it was raised at and waits  *)
(* in one slot per SH-2 (slot).  Time is counted in SH-2 cycles from the   *)
(* start of the window, one program step to the cycle.                     *)
(*                                                                         *)
(* The programs are the cartridge's and are modelled from what the         *)
(* comments of the source say of them: the 68000 raises a command          *)
(* interrupt and waits for its bit to be cleared, a command handler clears *)
(* the bit at its ackAt-th step, every handler ends with rte.              *)
(***************************************************************************)
EXTENDS Integers, SequencesExt

CONSTANTS
    Window,     \* slice_sh2: SH-2 cycles in a hand-over
    Late,       \* how far past the window's end a raise may be placed
    Period,     \* mars_pwm_sample_period, with TM 1
    VEvery,     \* hand-overs from one line 224 to the next
    HandlerLen, \* steps of the handler of each level
    MainMasks,  \* masks the main programs run under
    Carts       \* the cartridges: what their programs keep to, see cart

SH2s == {"master", "slave"}
V    == 12      \* MARS_INT_V
CMD  == 8       \* MARS_INT_CMD
PWM  == 6       \* MARS_INT_PWM
None == -1

ASSUME MarsIntAssumption ==
    /\ Window \in Nat \ {0}
    /\ Late \in Nat
    /\ Period \in Nat \ {0}
    /\ VEvery \in Nat \ {0}
    /\ HandlerLen \in [{V, CMD, PWM} -> Nat \ {0}]
    /\ MainMasks \subseteq 0..15 /\ MainMasks # {}
    /\ Carts \subseteq [v : SUBSET SH2s, ackAt : 1..HandlerLen[CMD], overlap : BOOLEAN]

VARIABLES
    cart,     \* v: the SH-2s it enables V on; ackAt: the command handler's step
              \* that writes 0x1A; overlap: it raises before the last answer
    turn,     \* "beam", "m68k", then "master", "slave"
    beam,     \* hand-overs until the beam reaches line 224
    at68k,    \* mars_slice_pos: where the 68000 stands in the window
    intctl,   \* bits 0 and 1 of mars.intctl, as the set of their SH-2s
    slot,     \* pend[i].at while armed, None otherwise
    pos,      \* cycles of the window the SH-2 on turn has run
    cut,      \* where the running call of sh2_slice began
    pwm_acc,  \* SH-2 cycles since the last PWM edge
    up,       \* the SH-2s whose pc is not zero
    imask,    \* the interrupt mask of each SH-2
    stack,    \* its handlers: <<level, steps done, mask to return to>>
    due,      \* history: the exact position of the raise that waits in slot
    late,     \* history: how late the last slot fired
    entered   \* history: the level and bit of the last interrupt taken

vars == <<cart, turn, beam, at68k, intctl, slot, pos, cut, pwm_acc, up, imask,
          stack, due, late, entered>>
m68k_vars == <<beam, at68k>>
sh2_vars  == <<imask, stack, entered>>
slot_vars == <<slot, due, late>>

-----------------------------------------------------------------------------
Init ==
    /\ cart \in Carts
    /\ turn = "beam"
    /\ beam \in 1..VEvery
    /\ at68k = 0
    /\ intctl = {}
    /\ slot = [i \in SH2s |-> None]
    /\ pos = 0
    /\ cut = 0
    /\ pwm_acc = 0
    /\ up = {}
    /\ imask \in [SH2s -> MainMasks]
    /\ stack = [i \in SH2s |-> <<>>]
    /\ due = [i \in SH2s |-> 0]
    /\ late = [i \in SH2s |-> 0]
    /\ entered = [i \in SH2s |-> [level |-> 0, bit |-> TRUE]]

\* an interrupt of the mask's own level let through
TakesEqual(i, level) == level >= imask[i] /\ i \in up

(* mars_deliver_int: a masked interrupt is declined, and so is one for an   *)
(* SH-2 that is not running.                                                *)
Takes(i, level) == level > imask[i] /\ i \in up

Deliver(targets, level) ==
    LET T == {i \in targets : Takes(i, level)} IN
    /\ stack' = [i \in SH2s |-> IF i \in T
                   THEN Append(stack[i], [level |-> level, t |-> 0,
                                          mask |-> imask[i]])
                   ELSE stack[i]]
    /\ imask' = [i \in SH2s |-> IF i \in T THEN level ELSE imask[i]]
    /\ entered' = [i \in SH2s |-> IF i \in T
                     THEN [level |-> level, bit |-> i \in intctl]
                     ELSE entered[i]]

(* The top of a hand-over: when the beam reaches line 224 the V interrupt   *)
(* goes straight to every SH-2 that enabled it, ahead of all turns.         *)
Beam ==
    /\ turn = "beam"
    /\ IF beam = 1
         THEN beam' = VEvery /\ Deliver(cart.v, V)
         ELSE beam' = beam - 1 /\ UNCHANGED sh2_vars
    /\ turn' = "m68k"
    /\ UNCHANGED <<cart, at68k, intctl, slot_vars, pos, cut, pwm_acc, up>>

-----------------------------------------------------------------------------
(* The 68000's turn. *)

\* the newest offset taken, whichever comes first
SlotLastWins(i, p) == p

(* mars_raise_int: one slot, and the earlier offset is the one that counts. *)
SlotAfterRaise(i, p) == IF slot[i] # None /\ slot[i] <= p THEN slot[i] ELSE p

(* A write to 0xA15102.  It sets bit i beside the bits that are still set,  *)
(* and every bit set in the value written raises its SH-2 again.            *)
WriteIntctl(i) ==
    /\ turn = "m68k"
    /\ up = SH2s
    /\ at68k < Window
    /\ i \notin intctl
    /\ cart.overlap \/ intctl = {}
    /\ \E p \in at68k..(Window + Late) :
         /\ at68k' = p
         /\ intctl' = intctl \cup {i}
         /\ slot' = [j \in SH2s |-> IF j \in intctl' THEN SlotAfterRaise(j, p)
                                                     ELSE slot[j]]
         /\ due' = [j \in SH2s |->
                      IF j \in intctl' /\ ~(slot[j] # None /\ due[j] <= p)
                      THEN p ELSE due[j]]
    /\ UNCHANGED <<cart, turn, beam, late, pos, cut, pwm_acc, up, sh2_vars>>

(* bios_comm_read ends the handshake: mars_bios_handover starts both SH-2s. *)
Handover ==
    /\ turn = "m68k"
    /\ up = {}
    /\ up' = SH2s
    /\ UNCHANGED <<cart, turn, m68k_vars, intctl, slot_vars, pos, cut, pwm_acc, sh2_vars>>

EndM68K ==
    /\ turn = "m68k"
    /\ turn' = "master"
    /\ pos' = 0 /\ cut' = 0
    /\ UNCHANGED <<cart, m68k_vars, intctl, slot_vars, pwm_acc, up, sh2_vars>>

-----------------------------------------------------------------------------
(* The SH-2s' turns.  The master's window is one call of sh2_slice; the     *)
(* slave's is a call for every stretch up to the PWM timer's next edge, and *)
(* each call reads the slot's offset as if the window began with it.        *)
PwmAhead == IF pwm_acc < Period THEN Period - pwm_acc ELSE 0

CallEnd == IF turn = "slave" /\ cut + PwmAhead < Window THEN cut + PwmAhead
                                                        ELSE Window

Elapsed(i) == pos - cut
Fires(i)   == slot[i] # None /\ slot[i] = Elapsed(i) /\ pos < CallEnd

\* the slot left armed after it fired
SlotAfterFireKept(i) == slot[i]

SlotAfterFire(i) == None

(* mars_int_fire *)
Fire(i) ==
    /\ turn = i
    /\ Fires(i)
    /\ slot' = [slot EXCEPT ![i] = SlotAfterFire(i)]
    /\ late' = [late EXCEPT ![i] = pos - due[i]]
    /\ Deliver({i}, CMD)
    /\ UNCHANGED <<cart, turn, m68k_vars, intctl, due, pos, cut, pwm_acc, up>>

(* The step of a handler that writes 0x1A. *)
Clears(h) == h.level = CMD /\ h.t + 1 = cart.ackAt

(* One step of the program the SH-2 is in, its innermost handler or its     *)
(* main program.  A write to 0x1A clears the SH-2's own bit of intctl; rte  *)
(* gives the mask back.                                                     *)
Program(i) ==
    LET depth == Len(stack[i]) IN
    \/ /\ depth = 0
       /\ IF i \in up THEN \E m \in MainMasks : imask' = [imask EXCEPT ![i] = m]
                      ELSE UNCHANGED imask
       /\ UNCHANGED <<stack, intctl>>
    \/ /\ depth > 0
       /\ LET h == stack[i][depth] IN
          /\ intctl' = IF Clears(h) THEN intctl \ {i} ELSE intctl
          /\ IF h.t + 1 = HandlerLen[h.level]
               THEN /\ stack' = [stack EXCEPT ![i] = Front(@)]
                    /\ imask' = [imask EXCEPT ![i] = h.mask]
               ELSE /\ stack' = [stack EXCEPT ![i][depth].t = @ + 1]
                    /\ UNCHANGED imask

Run(i) ==
    /\ turn = i
    /\ pos < CallEnd
    /\ ~Fires(i)
    /\ Program(i)
    /\ pos' = pos + 1
    /\ UNCHANGED <<cart, turn, m68k_vars, slot_vars, cut, pwm_acc, up, entered>>

EndMaster ==
    /\ turn = "master"
    /\ pos = Window
    /\ turn' = "slave"
    /\ pos' = 0 /\ cut' = 0
    /\ UNCHANGED <<cart, m68k_vars, intctl, slot_vars, pwm_acc, up, sh2_vars>>

\* the subtraction without its guard
Max0Unguarded(n) == n

Max0(n) == IF n > 0 THEN n ELSE 0

\* an offset past the window forgotten instead of carried into the next
RebasedClamped(p) == IF p = None THEN None ELSE 0

(* mars_int_rebase *)
Rebased(p) == IF p = None THEN None ELSE Max0(p - Window)

(* The end of one of the slave's calls: sound_pwm_tick counts its cycles    *)
(* and delivers the timer interrupt at an edge.  After the last call the    *)
(* offsets still waiting are moved into the next window.                    *)
EndCall ==
    /\ turn = "slave"
    /\ pos = CallEnd
    /\ cut' = pos
    /\ IF pwm_acc + Elapsed("slave") >= Period
         THEN pwm_acc' = pwm_acc + Elapsed("slave") - Period /\ Deliver({"slave"}, PWM)
         ELSE pwm_acc' = pwm_acc + Elapsed("slave") /\ UNCHANGED sh2_vars
    /\ IF pos = Window
         THEN /\ turn' = "beam"
              /\ slot' = [i \in SH2s |-> Rebased(slot[i])]
              /\ due' = [i \in SH2s |-> IF slot[i] = None THEN 0 ELSE due[i] - Window]
              /\ at68k' = Max0(at68k - Window)
         ELSE UNCHANGED <<turn, slot, due, at68k>>
    /\ UNCHANGED <<cart, beam, intctl, late, pos, up>>

Next ==
    \/ Beam
    \/ \E i \in SH2s : WriteIntctl(i)
    \/ Handover
    \/ EndM68K
    \/ \E i \in SH2s : Fire(i) \/ Run(i)
    \/ EndMaster
    \/ EndCall

(* The frame loop is one thread and never waits: whatever is next happens.  *)
Spec == Init /\ [][Next]_vars /\ WF_vars(Next)

-----------------------------------------------------------------------------
TypeOK ==
    /\ cart \in Carts
    /\ turn \in {"beam", "m68k"} \cup SH2s
    /\ beam \in 1..VEvery
    /\ at68k \in 0..(Window + Late)
    /\ intctl \subseteq SH2s
    /\ slot \in [SH2s -> {None} \cup 0..(Window + Late)]
    /\ pos \in 0..Window /\ cut \in 0..Window
    /\ pwm_acc \in 0..(Period - 1)
    /\ up \in {{}, SH2s}
    /\ imask \in [SH2s -> 0..15]
    /\ \A i \in SH2s : \A h \in Range(stack[i]) :
          h.level \in {V, CMD, PWM} /\ h.t \in 0..HandlerLen[h.level] /\ h.mask \in 0..15
    /\ due \in [SH2s -> Int] /\ late \in [SH2s -> Int]
    /\ entered \in [SH2s -> [level : {0, V, CMD, PWM}, bit : BOOLEAN]]

(* An SH-2 never takes a command interrupt before the position the 68000    *)
(* raised it at: no answer precedes its question (mars_raise_int and the    *)
(* split of sh2_slice exist for that).                                      *)
NeverEarly == \A i \in SH2s : late[i] >= 0

(* The master takes one exactly there, be it in the window it was raised in *)
(* or, placed past that window's end, in a later one.                       *)
MasterOnTime == late["master"] = 0

(* The same of the slave, whose window is run in several calls of sh2_slice *)
(* that each count the offset from their own start.                         *)
SlaveOnTime == late["slave"] = 0

(* Handlers nest strictly upwards and each gives back the mask it found,    *)
(* so the mask always belongs to the innermost handler, and under them all  *)
(* lies a mask of the main program (mars_deliver_int pushes, rte pops).     *)
PriorityNesting ==
    \A i \in SH2s : stack[i] # <<>> =>
      /\ imask[i] = Last(stack[i]).level
      /\ stack[i][1].mask \in MainMasks
      /\ \A k \in 1..Len(stack[i]) :
           /\ stack[i][k].level > stack[i][k].mask
           /\ k > 1 => stack[i][k].mask = stack[i][k - 1].level

(* A cartridge that raises no SH-2 before the last answer and clears its    *)
(* bit as the last thing its handler does.                                  *)
Orderly == ~cart.overlap /\ cart.ackAt = HandlerLen[CMD]

(* An orderly cartridge never enters a command handler with its SH-2's      *)
(* request bit already cleared: one request, one interrupt.                 *)
NoSpurious == Orderly => \A i \in SH2s : entered[i].level = CMD => entered[i].bit

(* The 68000 spins on the bit it set until the handler clears it: every     *)
(* command interrupt is answered.                                           *)
CommandAnswered == \A i \in SH2s : i \in intctl ~> i \notin intctl

(* And it is, on an orderly cartridge that leaves V disabled.               *)
AnsweredWithoutV == (Orderly /\ cart.v = {}) => CommandAnswered
=============================================================================

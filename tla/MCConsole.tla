------------------------------ MODULE MCConsole ------------------------------
(***************************************************************************)
(* The console's devices, one at a time: unit says which of them this      *)
(* behaviour is about.  They are checked together and not composed: no two *)
(* of them share state.                                                    *)
(***************************************************************************)
EXTENDS Boot, VdpPort, FrameBuffer, Session, PadPort, Z80Bus, Z80Block, Z80Alu,
        Divider, Chips, PwmUnit

VARIABLE unit

CONSTANT button

MCSyncs   == {[ours |-> 1, movie |-> 0], [ours |-> 2, movie |-> 1], [ours |-> 0, movie |-> 2]}
MCOffsets == {-1, 0, 2}
MCHeld    == {{}, Buttons, {"U", "C", "Z"}, {"S", "A", "M"}, {"L", "X", "B"}, {"R", "D", "Y"}}
MCShares  == {2, 5}
MCCycles  == {0, 4, 4102}
MCRatios  == {0, 1, 2}
MCDivLong == {-32, -31, -17, -9, 7, 8, 12, 31}

vars == <<unit, bootvars, vdpvars, fbvars, sessionvars, padvars, z80vars, blockvars,
          aluvars, divvars, ymvars, psgvars, pwmvars>>

Init ==
    /\ unit \in {"boot", "vdp", "fb", "session", "pad", "z80", "block", "alu", "div", "ym", "psg", "pwm"}
    /\ BootInit /\ VdpInit /\ FbInit /\ SessionInit /\ PadInit /\ Z80Init /\ BlockInit
    /\ AluInit /\ DivInit /\ YmInit /\ PsgInit /\ PwmInit

Is(u) == unit = u /\ UNCHANGED unit

Next ==
    \/ Is("boot") /\ BootNext
       /\ UNCHANGED <<vdpvars, fbvars, sessionvars, padvars, z80vars, blockvars, aluvars, divvars, ymvars, psgvars, pwmvars>>
    \/ Is("vdp") /\ VdpNext
       /\ UNCHANGED <<bootvars, fbvars, sessionvars, padvars, z80vars, blockvars, aluvars, divvars, ymvars, psgvars, pwmvars>>
    \/ Is("fb") /\ FbNext
       /\ UNCHANGED <<bootvars, vdpvars, sessionvars, padvars, z80vars, blockvars, aluvars, divvars, ymvars, psgvars, pwmvars>>
    \/ Is("session") /\ SessionNext
       /\ UNCHANGED <<bootvars, vdpvars, fbvars, padvars, z80vars, blockvars, aluvars, divvars, ymvars, psgvars, pwmvars>>
    \/ Is("pad") /\ PadNext
       /\ UNCHANGED <<bootvars, vdpvars, fbvars, sessionvars, z80vars, blockvars, aluvars, divvars, ymvars, psgvars, pwmvars>>
    \/ Is("z80") /\ Z80Next
       /\ UNCHANGED <<bootvars, vdpvars, fbvars, sessionvars, padvars, blockvars, aluvars, divvars, ymvars, psgvars, pwmvars>>
    \/ Is("block") /\ BlockNext
       /\ UNCHANGED <<bootvars, vdpvars, fbvars, sessionvars, padvars, z80vars, aluvars, divvars, ymvars, psgvars, pwmvars>>
    \/ Is("alu") /\ AluNext
       /\ UNCHANGED <<bootvars, vdpvars, fbvars, sessionvars, padvars, z80vars, blockvars, divvars, ymvars, psgvars, pwmvars>>
    \/ Is("div") /\ DivNext
       /\ UNCHANGED <<bootvars, vdpvars, fbvars, sessionvars, padvars, z80vars, blockvars, aluvars, ymvars, psgvars, pwmvars>>
    \/ Is("ym") /\ YmNext
       /\ UNCHANGED <<bootvars, vdpvars, fbvars, sessionvars, padvars, z80vars, blockvars, aluvars, divvars, psgvars, pwmvars>>
    \/ Is("psg") /\ PsgNext
       /\ UNCHANGED <<bootvars, vdpvars, fbvars, sessionvars, padvars, z80vars, blockvars, aluvars, divvars, ymvars, pwmvars>>
    \/ Is("pwm") /\ PwmNext
       /\ UNCHANGED <<bootvars, vdpvars, fbvars, sessionvars, padvars, z80vars, blockvars, aluvars, divvars, ymvars, psgvars>>

Spec ==
    /\ Init /\ [][Next]_vars
    /\ WF_bootvars(unit = "boot" /\ M68k /\ Next) /\ WF_bootvars(unit = "boot" /\ Master /\ Next)
    /\ WF_pwmvars(unit = "pwm" /\ Loop /\ Next)

(* Boot's liveness, for the behaviours that are about it. *)
BootEnds == (unit = "boot") => Rendezvous
=============================================================================

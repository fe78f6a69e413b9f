-------------------------------- MODULE Divider --------------------------------
(***************************************************************************)
(* The SH7604's divide unit (src/src/mem32x.c): registers that are plain   *)
(* storage until a write to DVDNT or DVDNTL divides DVDNTH:DVDNTL by DVSR. *)
(* A register holds Reg values, scaled down from 2^32, and the dividend is *)
(* two registers.  The program is the game's: a divisor, a dividend in one *)
(* write or in two, and the result read back, time after time over what    *)
(* the last division left.                                                 *)
(***************************************************************************)
EXTENDS Integers

CONSTANTS
    Top,       \* half of a register's values: the sign bit's
    DivLong    \* dividends of the 64-bit form

ASSUME DivAssumption == Top \in Nat \ {0}

Reg == 2 * Top

ASSUME DivLongAssumption == DivLong \subseteq (-(Reg * Top))..(Reg * Top - 1)

VARIABLES
    dreg,   \* DVSR, DVDNT, DVDNTH, DVDNTL, unsigned, and DVCR's OVF
    divide, \* the division under way: dividend, divisor and form
    dstep   \* the program's place

divvars == <<dreg, divide, dstep>>

DivInit ==
    /\ dreg = [dvsr |-> 0, dvdnt |-> 0, dvdnth |-> 0, dvdntl |-> 0, ovf |-> FALSE]
    /\ divide = [n |-> 0, d |-> 0, form |-> "short"]
    /\ dstep = "ask"

-----------------------------------------------------------------------------
Unsigned(v, size) == v % size
SignedOf(u, size) == IF u >= size \div 2 THEN u - size ELSE u

Magnitude(v) == IF v < 0 THEN -v ELSE v

\* a quotient rounded down, not towards zero
QuotientDown(n, d) == IF d > 0 THEN n \div d ELSE (-n) \div (-d)

(* C's division truncates. *)
Quotient(n, d) ==
    LET q == Magnitude(n) \div Magnitude(d)
    IN IF (n < 0) = (d < 0) THEN q ELSE -q

Saturated(n) == IF n < 0 THEN -Top ELSE Top - 1

(* divu_run. *)
Divided(r) ==
    LET d   == SignedOf(r.dvsr, Reg)
        n   == SignedOf(r.dvdnth * Reg + r.dvdntl, Reg * Reg)
        bad == d = 0 \/ (n = -(Reg * Top) /\ d = -1)
        q   == IF bad THEN Saturated(n) ELSE Quotient(n, d)
        rem == IF bad THEN 0 ELSE n - Quotient(n, d) * d
        fit == IF q \in (-Top)..(Top - 1) THEN q ELSE Saturated(n)
        u   == Unsigned(fit, Reg)
    IN [r EXCEPT !.dvdnt = u, !.dvdntl = u, !.dvdnth = Unsigned(rem, Reg),
                 !.ovf = @ \/ bad \/ fit # q]

\* a 32-bit dividend over whatever DVDNTH held
ExtendedStale(r, v) == [r EXCEPT !.dvdntl = v]

(* A write to DVDNT is sign-extended into DVDNTH. *)
Extended(r, v) == [r EXCEPT !.dvdntl = v, !.dvdnth = IF v >= Top THEN Reg - 1 ELSE 0]

-----------------------------------------------------------------------------
(* The divisor; DVCR is cleared with it, so that OVF is this division's.    *)
WriteDvsr ==
    /\ dstep \in {"ask", "read"}
    /\ \E d \in (-Top)..(Top - 1), n \in DivLong \cup ((-Top)..(Top - 1)), form \in {"short", "long"} :
         /\ form = "short" <=> n \in (-Top)..(Top - 1)
         /\ divide' = [n |-> n, d |-> d, form |-> form]
         /\ dreg' = [dreg EXCEPT !.dvsr = Unsigned(d, Reg), !.ovf = FALSE]
         /\ dstep' = form

WriteDvdnt ==
    /\ dstep = "short"
    /\ dreg' = Divided(Extended(dreg, Unsigned(divide.n, Reg)))
    /\ dstep' = "read"
    /\ UNCHANGED divide

WriteDvdnth ==
    /\ dstep = "long"
    /\ dreg' = [dreg EXCEPT !.dvdnth = Unsigned(divide.n, Reg * Reg) \div Reg]
    /\ dstep' = "low"
    /\ UNCHANGED divide

WriteDvdntl ==
    /\ dstep = "low"
    /\ dreg' = Divided([dreg EXCEPT !.dvdntl = Unsigned(divide.n, Reg)])
    /\ dstep' = "read"
    /\ UNCHANGED divide

DivNext == WriteDvsr \/ WriteDvdnt \/ WriteDvdnth \/ WriteDvdntl

DivSpec == DivInit /\ [][DivNext]_divvars

-----------------------------------------------------------------------------
(* What is read back is the truncated quotient and its remainder when the   *)
(* quotient fits, and OVF says when it does not, whatever the division      *)
(* before left in the registers (mem32x.c, divu_run and divu_w32).          *)
DividesRight ==
    dstep = "read" =>
        LET q == SignedOf(dreg.dvdnt, Reg)  rem == SignedOf(dreg.dvdnth, Reg)
            n == divide.n                   d == divide.d
        IN IF dreg.ovf
           THEN d = 0 \/ \A x \in (-Top)..(Top - 1) : Magnitude(n - x * d) >= Magnitude(d)
                                                     \/ (n - x * d) * n < 0
           ELSE n = q * d + rem /\ Magnitude(rem) < Magnitude(d) /\ rem * n >= 0
=============================================================================

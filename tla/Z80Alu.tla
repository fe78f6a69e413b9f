-------------------------------- MODULE Z80Alu --------------------------------
(***************************************************************************)
(* Decimal arithmetic on the Z80 (src/src/z80.c): an addition or a         *)
(* subtraction with the flags it leaves, and the correction, daa, that     *)
(* reads all of them.  An instruction is an action.  Left out are the two  *)
(* undocumented bits of F, and the parity daa leaves.                      *)
(***************************************************************************)
EXTENDS Integers

CONSTANT
    Digits    \* decimal digits of the operands

ASSUME AluAssumption == Digits \subseteq 0..9

VARIABLES
    areg,  \* A
    flag,  \* F: the set of flags that are up, among "S", "Z", "H", "V", "N", "C"
    prog,  \* the program: its operation, operands and carry
    stage  \* "none", "loaded", "done" after the operation, "adjusted" after the daa

aluvars == <<areg, flag, prog, stage>>

Bcd == {16 * hi + lo : hi \in Digits, lo \in Digits}

AluInit ==
    /\ areg = 255 /\ flag = {"S", "Z", "H", "V", "N", "C"}
    /\ prog = [op |-> "none", a |-> 0, v |-> 0, c |-> 0] /\ stage = "none"

-----------------------------------------------------------------------------
Byte(n) == n % 256
Carry   == IF "C" \in flag THEN 1 ELSE 0

Up(name, holds) == IF holds THEN {name} ELSE {}

(* sz53: sign and zero of a byte. *)
SignZero(r) == Up("S", r >= 128) \cup Up("Z", r = 0)

Signed(v) == IF v >= 128 THEN v - 256 ELSE v

SignedByte == (-128)..127

(* add_a and sub_a: the flags of a + v + c and of a - v - c. *)
AddFlags(a, v, c) ==
    SignZero(Byte(a + v + c)) \cup Up("C", a + v + c > 255)
    \cup Up("H", (a % 16) + (v % 16) + c > 15)
    \cup Up("V", (Signed(a) + Signed(v) + c) \notin SignedByte)

SubFlags(a, v, c) ==
    {"N"} \cup SignZero(Byte(a - v - c)) \cup Up("C", a - v - c < 0)
    \cup Up("H", (a % 16) - (v % 16) - c < 0)
    \cup Up("V", (Signed(a) - Signed(v) - c) \notin SignedByte)

\* a correction that looks at the high digit only
HighDigitWrong(a) == a > 159

(* Does daa correct the high digit, the carry apart? *)
HighDigit(a) == a > 153

(* daa: what it adds, or takes away after a subtraction. *)
Correction ==
    (IF "H" \in flag \/ areg % 16 > 9 THEN 6 ELSE 0)
    + (IF "C" \in flag \/ HighDigit(areg) THEN 96 ELSE 0)

-----------------------------------------------------------------------------
Load(op, a, v, c) ==
    /\ stage = "none"
    /\ prog' = [op |-> op, a |-> a, v |-> v, c |-> c]
    /\ areg' = a /\ flag' = Up("C", c = 1)
    /\ stage' = "loaded"

Adc ==
    /\ stage = "loaded" /\ prog.op = "adc"
    /\ areg' = Byte(areg + prog.v + Carry)
    /\ flag' = AddFlags(areg, prog.v, Carry)
    /\ stage' = "done" /\ UNCHANGED prog

Sbc ==
    /\ stage = "loaded" /\ prog.op = "sbc"
    /\ areg' = Byte(areg - prog.v - Carry)
    /\ flag' = SubFlags(areg, prog.v, Carry)
    /\ stage' = "done" /\ UNCHANGED prog

Daa ==
    /\ stage = "done"
    /\ LET r == IF "N" \in flag THEN Byte(areg - Correction) ELSE Byte(areg + Correction) IN
       /\ areg' = r
       /\ flag' = (flag \cap {"N"}) \cup SignZero(r)
                  \cup Up("C", "C" \in flag \/ HighDigit(areg))
                  \cup Up("H", (r \div 16) % 2 # (areg \div 16) % 2)
    /\ stage' = "adjusted" /\ UNCHANGED prog

AluNext ==
    \/ \E op \in {"adc", "sbc"}, a \in Bcd, v \in Bcd, c \in 0..1 : Load(op, a, v, c)
    \/ Adc \/ Sbc \/ Daa

AluSpec == AluInit /\ [][AluNext]_aluvars

-----------------------------------------------------------------------------
Dec(b) == 10 * (b \div 16) + (b % 16)

(* Two decimal bytes added or subtracted with a carry and corrected are the *)
(* decimal sum or difference, and the carry out is the decimal one, so that *)
(* longer numbers chain (z80.c, add_a, sub_a and daa).                      *)
Decimal ==
    stage = "adjusted" =>
        LET n == IF prog.op = "adc" THEN Dec(prog.a) + Dec(prog.v) + prog.c
                 ELSE Dec(prog.a) - Dec(prog.v) - prog.c
        IN /\ Dec(areg) = n % 100 /\ areg % 16 <= 9
           /\ ("C" \in flag) = (n \notin 0..99)
=============================================================================

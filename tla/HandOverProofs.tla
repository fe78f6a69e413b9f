--------------------------- MODULE HandOverProofs ---------------------------
(***************************************************************************)
(* Proofs about HandOver, for every frame, ratio, cost and overshoot.      *)
(*                                                                         *)
(* Each property is a difference of two counts.  What a step clock has     *)
(* handed out, times its divisor, plus its remainder is the number of      *)
(* steps times its numerator: nothing is lost to a division.  What a       *)
(* processor has consumed plus its credit is what it was given, so a bound *)
(* on the credit is a bound on how far it is from its clock.               *)
(***************************************************************************)
EXTENDS HandOver, TLAPS

LEMMA DivMod ==
  ASSUME NEW a \in Nat, NEW d \in Nat \ {0}
  PROVE  /\ a \div d \in Nat
         /\ a % d \in 0..(d - 1)
         /\ a = (a \div d) * d + (a % d)
<1>1. a \div d \in Int /\ a % d \in 0..(d - 1)
  OBVIOUS
<1>2. a = d * (a \div d) + (a % d)
  OBVIOUS
<1>3. a \div d >= 0
  OBVIOUS
<1>4. d * (a \div d) = (a \div d) * d
  BY <1>1
<1>5. QED
  BY <1>1, <1>2, <1>3, <1>4

LEMMA TimesAdd ==
  ASSUME NEW a \in Int, NEW b \in Int, NEW c \in Int
  PROVE  (a + b) * c = a * c + b * c
  OBVIOUS

LEMMA TimesMonotone ==
  ASSUME NEW a \in Int, NEW b \in Int, NEW c \in Nat, a <= b
  PROVE  a * c <= b * c
<1>1. (b - a) * c >= 0
  OBVIOUS
<1>2. (b - a) * c = b * c - a * c
  OBVIOUS
<1>3. QED
  BY <1>1, <1>2

(* The quotient is the only number whose multiple is that close.            *)
LEMMA Quotient ==
  ASSUME NEW a \in Int, NEW b \in Int, NEW d \in Nat \ {0}, NEW c \in 0..(d - 1),
         a * d + c = b * d
  PROVE  a = b
<1>1. CASE a < b
  <2>1. (a + 1) * d <= b * d
    BY <1>1, TimesMonotone
  <2>2. QED
    BY <2>1, TimesAdd
<1>2. CASE a > b
  <2>1. (b + 1) * d <= a * d
    BY <1>2, TimesMonotone
  <2>2. QED
    BY <2>1, TimesAdd
<1>3. QED
  BY <1>1, <1>2

LEMMA Fractions ==
  /\ StepsPerFrame \in Nat \ {0}
  /\ \A k \in Clocks : Num[k] \in Nat /\ Den[k] \in Nat \ {0}
<1>1. StepsPerFrame \in Nat \ {0} /\ StepsPerFrame * Z80Den \in Nat \ {0}
  <2>1. StepsPerFrame \in Nat \ {0}
    BY HandOverAssumption DEF StepsPerFrame
  <2>2. QED
    BY <2>1, HandOverAssumption
<1>2. CyclesPerFrame * Z80Num \in Nat /\ CyclesPerFrame * Sh2Ratio \in Nat
  BY HandOverAssumption
<1>3. QED
  BY <1>1, <1>2, HandOverAssumption DEF Num, Den, Clocks

LEMMA StepClock ==
  ASSUME TypeOK, NEW k \in Clocks
  PROVE  /\ StepCycles(k) \in Nat
         /\ StepCarry(k) \in Nat /\ StepCarry(k) < Den[k]
         /\ acc[k] + Num[k] = StepCycles(k) * Den[k] + StepCarry(k)
<1>1. acc[k] + Num[k] \in Nat /\ Den[k] \in Nat \ {0}
  BY Fractions DEF TypeOK
<1> DEFINE a == acc[k] + Num[k]
           d == Den[k]
<1>2. /\ a \div d \in Nat /\ a % d \in 0..(d - 1)
      /\ a = (a \div d) * d + (a % d)
  BY <1>1, DivMod
<1>3. QED
  BY <1>1, <1>2 DEF StepCycles, StepCarry

LEMMA InsnClock ==
  ASSUME TypeOK, NEW i \in SH2s, NEW n \in Nat
  PROVE  /\ Insns(i, n) \in Nat
         /\ InsnCarry(i, n) \in Nat /\ InsnCarry(i, n) < Cpi[i]
         /\ insn_acc[i] + n * PerK = Insns(i, n) * Cpi[i] + InsnCarry(i, n)
<1>1. insn_acc[i] + n * PerK \in Nat /\ Cpi[i] \in Nat \ {0}
  BY HandOverAssumption DEF TypeOK
<1> DEFINE a == insn_acc[i] + n * PerK
           d == Cpi[i]
<1>2. /\ a \div d \in Nat /\ a % d \in 0..(d - 1)
      /\ a = (a \div d) * d + (a % d)
  BY <1>1, DivMod
<1>3. QED
  BY <1>1, <1>2 DEF Insns, InsnCarry

-----------------------------------------------------------------------------
(* Types. *)

LEMMA TypeInit == Init => TypeOK
<1> SUFFICES ASSUME Init PROVE TypeOK
  OBVIOUS
<1>1. \A k \in Clocks : 0 < Den[k]
  BY Fractions
<1>2. \A i \in SH2s : 0 < Cpi[i]
  BY HandOverAssumption
<1>3. /\ acc \in [Clocks -> Nat] /\ \A k \in Clocks : acc[k] < Den[k]
      /\ insn_acc \in [SH2s -> Nat] /\ \A i \in SH2s : insn_acc[i] < Cpi[i]
  BY <1>1, <1>2 DEF Init
<1>4. /\ credit \in [CPUs -> Int] /\ ran \in [CPUs -> Nat]
      /\ handed \in [Clocks -> Nat] /\ owed \in [SH2s -> Nat]
      /\ mode \in [SH2s -> {"held", "run", "parked"}]
  BY DEF Init
<1>5. left \in 0..sh2_win /\ left = 0
  BY DEF Init
<1>6. QED
  BY <1>3, <1>4, <1>5 DEF Init, TypeOK

LEMMA TypeStep == TypeOK /\ [Next]_vars => TypeOK'
<1> SUFFICES ASSUME TypeOK, [Next]_vars PROVE TypeOK'
  OBVIOUS
<1>1. CASE OpenWindow
  <2>1. "m68k" \in Clocks /\ "sh2" \in Clocks
    BY DEF Clocks
  <2>2. \A k \in {"m68k", "sh2"} :
          StepCycles(k) \in Nat /\ StepCarry(k) \in Nat /\ StepCarry(k) < Den[k]
    BY <2>1, StepClock
  <2>3. acc' \in [Clocks -> Nat] /\ \A k \in Clocks : acc'[k] < Den[k]
    BY <1>1, <2>1, <2>2 DEF OpenWindow, TypeOK
  <2>4. handed' \in [Clocks -> Nat]
    BY <1>1, <2>1, <2>2 DEF OpenWindow, TypeOK
  <2>5. left' = 0 /\ left' \in 0..sh2_win' /\ turn' \in {"open"} \cup CPUs
    BY <1>1, <2>2 DEF OpenWindow, TypeOK, CPUs, SH2s
  <2>6. m68k_win' \in Nat /\ sh2_win' \in Nat
    BY <1>1, <2>2 DEF OpenWindow
  <2>7. QED
    BY <1>1, <2>3, <2>4, <2>5, <2>6 DEF OpenWindow, TypeOK
<1>2. CASE M68KTurn
  <2>1. credit' \in [CPUs -> Int] /\ ran' \in [CPUs -> Nat]
    BY <1>2, HandOverAssumption DEF M68KTurn, CreditLeft, TypeOK, CPUs, SH2s
  <2>2. mode' \in [SH2s -> {"held", "run", "parked"}]
    BY <1>2 DEF M68KTurn, M68KEffects, TypeOK
  <2>3. booted' \in BOOLEAN /\ busreq' \in BOOLEAN /\ dma' \in DmaCharges \cup {0}
    BY <1>2 DEF M68KTurn, M68KEffects, TypeOK
  <2>4. turn' \in {"open"} \cup CPUs /\ left = 0 /\ left' = 0
    BY <1>2 DEF M68KTurn, TypeOK, CPUs, SH2s
  <2>5. QED
    BY <1>2, <2>1, <2>2, <2>3, <2>4 DEF M68KTurn, TypeOK
<1>3. CASE Z80Turn
  <2>1. "z80" \in Clocks /\ "z80" \in CPUs
    BY DEF Clocks, CPUs
  <2>2. StepCycles("z80") \in Nat /\ StepCarry("z80") \in Nat
        /\ StepCarry("z80") < Den["z80"]
    BY <2>1, StepClock
  <2>3. acc' \in [Clocks -> Nat] /\ \A k \in Clocks : acc'[k] < Den[k]
    BY <1>3, <2>1, <2>2 DEF Z80Turn, TypeOK
  <2>4. handed' \in [Clocks -> Nat]
    BY <1>3, <2>1, <2>2 DEF Z80Turn, TypeOK
  <2>5. credit' \in [CPUs -> Int] /\ ran' \in [CPUs -> Nat]
    <3>1. PICK used \in
             CASE credit["z80"] + StepCycles("z80") <= 0 -> {0}
               [] credit["z80"] + StepCycles("z80") > 0 /\ busreq
                    -> {credit["z80"] + StepCycles("z80")}
               [] credit["z80"] + StepCycles("z80") > 0 /\ ~busreq
                    -> FullRun("z80", credit["z80"] + StepCycles("z80")) :
             /\ credit' = [credit EXCEPT !["z80"] =
                   CreditLeft(credit["z80"] + StepCycles("z80"), used)]
             /\ ran' = [ran EXCEPT !["z80"] = @ + used]
      BY <1>3 DEF Z80Turn
    <3>2. credit["z80"] + StepCycles("z80") \in Int /\ Over["z80"] \in Nat
      BY <2>1, <2>2, HandOverAssumption DEF TypeOK
    <3>3. used \in Nat
      BY <3>1, <3>2 DEF FullRun, TypeOK
    <3>4. QED
      BY <2>1, <3>1, <3>2, <3>3 DEF CreditLeft, TypeOK
  <2>6. left' \in 0..sh2_win' /\ turn' \in SH2s /\ turn' \in {"open"} \cup CPUs
    BY <1>3 DEF Z80Turn, TypeOK, CPUs, SH2s
  <2>7. QED
    BY <1>3, <2>3, <2>4, <2>5, <2>6 DEF Z80Turn, TypeOK
<1>4. ASSUME NEW i \in SH2s, SH2Turn(i) PROVE TypeOK'
  <2>1. PICK n \in 1..left :
          /\ SH2Chunk(i, n)
          /\ \/ /\ n < left /\ left' = left - n /\ UNCHANGED turn
             \/ /\ n = left
                /\ IF i = "master" THEN turn' = "slave" /\ left' = sh2_win
                                   ELSE turn' = "open" /\ left' = 0
    BY <1>4 DEF SH2Turn
  <2>2. n \in Nat /\ i \in CPUs
    BY DEF TypeOK, CPUs
  <2>3. Insns(i, n) \in Nat /\ InsnCarry(i, n) \in Nat /\ InsnCarry(i, n) < Cpi[i]
    BY <2>2, InsnClock
  <2>4. insn_acc' \in [SH2s -> Nat] /\ \A j \in SH2s : insn_acc'[j] < Cpi[j]
    BY <2>1, <2>3 DEF SH2Chunk, TypeOK
  <2>5. credit[i] + Insns(i, n) \in Int /\ Over[i] \in Nat
    BY <2>2, <2>3, HandOverAssumption DEF TypeOK
  <2>6. /\ credit' \in [CPUs -> Int] /\ ran' \in [CPUs -> Nat]
        /\ owed' \in [SH2s -> Nat]
        /\ mode' \in [SH2s -> {"held", "run", "parked"}]
    BY <2>1, <2>2, <2>5 DEF SH2Chunk, CreditLeft, HeldCredit, FullRun, TypeOK
  <2>7. /\ left' \in 0..sh2_win' /\ turn' \in {"open"} \cup CPUs
        /\ turn' \notin SH2s => left' = 0
    BY <1>4, <2>1 DEF SH2Turn, TypeOK, CPUs, SH2s
  <2>8. QED
    BY <1>4, <2>4, <2>6, <2>7 DEF SH2Turn, TypeOK
<1>5. CASE UNCHANGED vars
  BY <1>5 DEF vars, code_vars, TypeOK
<1>6. QED
  BY <1>1, <1>2, <1>3, <1>4, <1>5 DEF Next

(* No accumulator of the frame loop ever outgrows its divisor, whatever the *)
(* rates are and however the shares are cut.                                *)
THEOREM Typing == Spec => []TypeOK
  BY TypeInit, TypeStep, PTL DEF Spec
-----------------------------------------------------------------------------
(* The step clocks.  The Z80's steps in its own turn, after the others'.    *)
Taken(k) == IF k = "z80" /\ turn \in {"m68k", "z80"} THEN steps - 1 ELSE steps

Rates == \A k \in Clocks : handed[k] * Den[k] + acc[k] = Taken(k) * Num[k]

LEMMA RatesInit == Init => Rates
<1>1. \A k \in Clocks : Num[k] \in Nat /\ Den[k] \in Nat
  BY Fractions
<1>2. QED
  BY <1>1 DEF Init, Rates, Taken

LEMMA SumStep ==
  ASSUME NEW h \in Int, NEW d \in Int, NEW a \in Int, NEW c \in Int,
         NEW n \in Int, NEW q \in Int, NEW s \in Int,
         h * d + a = s * n, a + n = q * d + c
  PROVE  (h + q) * d + c = (s + 1) * n
<1>1. (h + q) * d = h * d + q * d /\ (s + 1) * n = s * n + n
  OBVIOUS
<1>2. h * d \in Int /\ q * d \in Int /\ s * n \in Int
  OBVIOUS
<1>3. QED
  BY <1>1, <1>2

(* One step of clock k keeps what it has handed out exact. *)
LEMMA OneStep ==
  ASSUME TypeOK, NEW k \in Clocks, NEW s \in Int,
         handed[k] * Den[k] + acc[k] = s * Num[k]
  PROVE  (handed[k] + StepCycles(k)) * Den[k] + StepCarry(k) = (s + 1) * Num[k]
<1>1. /\ StepCycles(k) \in Nat /\ StepCarry(k) \in Nat
      /\ acc[k] + Num[k] = StepCycles(k) * Den[k] + StepCarry(k)
  BY StepClock
<1>2. handed[k] \in Int /\ acc[k] \in Int /\ Num[k] \in Int /\ Den[k] \in Int
  BY Fractions DEF TypeOK
<1>3. QED
  <2> DEFINE h == handed[k]
             d == Den[k]
             a == acc[k]
             n == Num[k]
             q == StepCycles(k)
             c == StepCarry(k)
  <2>1. /\ h \in Int /\ d \in Int /\ a \in Int /\ n \in Int /\ q \in Int /\ c \in Int
        /\ h * d + a = s * n /\ a + n = q * d + c
    BY <1>1, <1>2
  <2> HIDE DEF h, d, a, n, q, c
  <2>2. (h + q) * d + c = (s + 1) * n
    BY <2>1, SumStep
  <2>3. QED
    BY <2>2 DEF h, d, a, n, q, c

LEMMA RatesStep == TypeOK /\ Rates /\ [Next]_vars => Rates'
<1> SUFFICES ASSUME TypeOK, Rates, [Next]_vars PROVE Rates'
  OBVIOUS
<1>0. steps \in Nat /\ \A k \in Clocks : Taken(k) \in Int
  BY DEF TypeOK, Taken
<1>1. CASE OpenWindow
  <2> SUFFICES ASSUME NEW k \in Clocks
               PROVE  handed'[k] * Den[k] + acc'[k] = Taken(k)' * Num[k]
    BY DEF Rates
  <2>1. CASE k = "z80"
    <3>1. handed'[k] = handed[k] /\ acc'[k] = acc[k]
      BY <1>1, <2>1 DEF OpenWindow, TypeOK, Clocks
    <3>2. Taken(k)' = Taken(k)
      BY <1>0, <1>1, <2>1 DEF OpenWindow, Taken
    <3>3. QED
      BY <3>1, <3>2 DEF Rates
  <2>2. CASE k \in {"m68k", "sh2"}
    <3>1. handed'[k] = handed[k] + StepCycles(k) /\ acc'[k] = StepCarry(k)
      BY <1>1, <2>2 DEF OpenWindow, TypeOK, Clocks
    <3>2. Taken(k)' = Taken(k) + 1
      BY <1>1, <2>2 DEF OpenWindow, Taken
    <3>3. QED
      BY <1>0, <3>1, <3>2, OneStep DEF Rates
  <2>3. QED
    BY <2>1, <2>2 DEF Clocks
<1>2. CASE M68KTurn
  <2>1. \A k \in Clocks : Taken(k)' = Taken(k)
    BY <1>2 DEF M68KTurn, Taken
  <2>2. QED
    BY <1>2, <2>1 DEF M68KTurn, Rates
<1>3. CASE Z80Turn
  <2> SUFFICES ASSUME NEW k \in Clocks
               PROVE  handed'[k] * Den[k] + acc'[k] = Taken(k)' * Num[k]
    BY DEF Rates
  <2>1. CASE k = "z80"
    <3>1. handed'[k] = handed[k] + StepCycles(k) /\ acc'[k] = StepCarry(k)
      BY <1>3, <2>1 DEF Z80Turn, TypeOK, Clocks
    <3>2. Taken(k)' = Taken(k) + 1
      BY <1>0, <1>3, <2>1 DEF Z80Turn, Taken
    <3>3. QED
      BY <1>0, <3>1, <3>2, OneStep DEF Rates
  <2>2. CASE k # "z80"
    <3>1. handed'[k] = handed[k] /\ acc'[k] = acc[k] /\ Taken(k)' = Taken(k)
      BY <1>3, <2>2 DEF Z80Turn, TypeOK, Taken
    <3>2. QED
      BY <3>1 DEF Rates
  <2>3. QED
    BY <2>1, <2>2
<1>4. ASSUME NEW i \in SH2s, SH2Turn(i) PROVE Rates'
  <2>1. turn \notin {"m68k", "z80"} /\ turn' \notin {"m68k", "z80"}
    BY <1>4 DEF SH2Turn, SH2s
  <2>2. \A k \in Clocks : Taken(k)' = Taken(k)
    BY <1>4, <2>1 DEF SH2Turn, Taken
  <2>3. QED
    BY <1>4, <2>2 DEF SH2Turn, Rates
<1>5. CASE UNCHANGED vars
  BY <1>5 DEF vars, code_vars, Rates, Taken
<1>6. QED
  BY <1>1, <1>2, <1>3, <1>4, <1>5 DEF Next

LEMMA Exact == TypeOK /\ Rates => FrameExact
<1> SUFFICES ASSUME TypeOK, Rates, FrameBoundary
             PROVE  LET f == steps \div StepsPerFrame IN
                    /\ handed["m68k"] = f * CyclesPerFrame
                    /\ handed["sh2"] = f * CyclesPerFrame * Sh2Ratio
                    /\ handed["z80"] = (f * CyclesPerFrame * Z80Num) \div Z80Den
  BY DEF FrameExact
<1> DEFINE f == steps \div StepsPerFrame
           S == StepsPerFrame
<1>1. f \in Nat /\ S \in Nat \ {0} /\ steps = f * S
  <2>1. S \in Nat \ {0} /\ steps \in Nat /\ steps % S = 0
    BY Fractions DEF TypeOK, FrameBoundary
  <2>2. QED
    BY <2>1, DivMod
<1>2. \A k \in Clocks :
        /\ handed[k] * Den[k] + acc[k] = (f * S) * Num[k]
        /\ handed[k] \in Nat /\ Num[k] \in Nat /\ acc[k] \in 0..(Den[k] - 1)
  BY <1>1, Fractions DEF Rates, Taken, FrameBoundary, TypeOK
<1> HIDE DEF f, S
<1>3. ASSUME NEW k \in Clocks, Den[k] = S
      PROVE  handed[k] = f * Num[k]
  <2>1. (f * S) * Num[k] = (f * Num[k]) * S
    BY <1>1, <1>2
  <2>2. f * Num[k] \in Int
    BY <1>1, <1>2
  <2>3. handed[k] * S + acc[k] = (f * Num[k]) * S /\ acc[k] \in 0..(S - 1)
    BY <1>2, <1>3, <2>1
  <2>4. handed[k] \in Int /\ S \in Nat \ {0}
    BY <1>1, <1>2
  <2>5. QED
    BY <2>2, <2>3, <2>4, Quotient
<1>4. handed["m68k"] = f * CyclesPerFrame
  BY <1>3 DEF Clocks, Den, Num, S
<1>5. handed["sh2"] = f * CyclesPerFrame * Sh2Ratio
  <2>1. handed["sh2"] = f * (CyclesPerFrame * Sh2Ratio)
    BY <1>3 DEF Clocks, Den, Num, S
  <2>2. QED
    BY <1>1, <2>1, HandOverAssumption
<1>6. handed["z80"] = (f * CyclesPerFrame * Z80Num) \div Z80Den
  <2> DEFINE h == handed["z80"]
             x == f * CyclesPerFrame * Z80Num
             q == x \div Z80Den
  <2>1. /\ h \in Nat /\ x \in Nat /\ q \in Nat /\ Z80Den \in Nat \ {0}
        /\ x = q * Z80Den + (x % Z80Den) /\ x % Z80Den \in 0..(Z80Den - 1)
    <3>1. h \in Nat /\ x \in Nat /\ Z80Den \in Nat \ {0}
      BY <1>1, <1>2, HandOverAssumption DEF Clocks
    <3>2. QED
      BY <3>1, DivMod
  <2>2. h * (S * Z80Den) + acc["z80"] = (f * S) * (CyclesPerFrame * Z80Num)
        /\ acc["z80"] \in 0..(S * Z80Den - 1)
    BY <1>2 DEF Clocks, Den, Num, S
  <2>3. (f * S) * (CyclesPerFrame * Z80Num) = x * S
    BY <1>1, HandOverAssumption
  <2> HIDE DEF h, x, q
  <2>4. h * (S * Z80Den) = (h * Z80Den) * S
    BY <1>1, <2>1
  <2>5. h * Z80Den <= x
    <3>1. CASE x < h * Z80Den
      <4>1. x + 1 <= h * Z80Den
        BY <2>1, <3>1
      <4>2. (x + 1) * S <= (h * Z80Den) * S
        BY <1>1, <2>1, <4>1, TimesMonotone
      <4>3. (x + 1) * S = x * S + S
        BY <1>1, <2>1, TimesAdd
      <4>4. QED
        BY <1>1, <2>1, <2>2, <2>3, <2>4, <4>2, <4>3
    <3>2. QED
      BY <2>1, <3>1
  <2>6. x < (h + 1) * Z80Den
    <3>1. CASE (h + 1) * Z80Den <= x
      <4>1. ((h + 1) * Z80Den) * S <= x * S
        BY <1>1, <2>1, <3>1, TimesMonotone
      <4>2. ((h + 1) * Z80Den) * S = (h * Z80Den) * S + Z80Den * S
        BY <1>1, <2>1, TimesAdd
      <4>3. Z80Den * S = S * Z80Den /\ S * Z80Den \in Nat
        BY <1>1, <2>1
      <4>4. QED
        BY <1>1, <2>1, <2>2, <2>3, <2>4, <4>1, <4>2, <4>3
    <3>2. QED
      BY <2>1, <3>1
  <2>7. x - h * Z80Den \in 0..(Z80Den - 1)
    BY <2>1, <2>5, <2>6, TimesAdd
  <2>8. q = h
    <3>1. CASE q < h
      <4>1. (q + 1) * Z80Den <= h * Z80Den
        BY <2>1, <3>1, TimesMonotone
      <4>2. QED
        BY <2>1, <2>5, <4>1, TimesAdd
    <3>2. CASE h < q
      <4>1. (h + 1) * Z80Den <= q * Z80Den
        BY <2>1, <3>2, TimesMonotone
      <4>2. QED
        BY <2>1, <2>6, <4>1
    <3>3. QED
      BY <2>1, <3>1, <3>2
  <2>9. QED
    BY <2>8 DEF h, q, x
<1>7. QED
  BY <1>4, <1>5, <1>6 DEF f

(* At every frame boundary each processor has been handed exactly its share *)
(* of the frames so far: the rates do not drift.                            *)
THEOREM NoDrift == Spec => []FrameExact
  BY TypeInit, TypeStep, RatesInit, RatesStep, Exact, PTL DEF Spec
-----------------------------------------------------------------------------
(* What each processor has consumed, against what it was given. *)

M68KBudget ==
    /\ ran["m68k"] + credit["m68k"] + (IF turn = "m68k" THEN m68k_win ELSE 0)
         <= handed["m68k"]
    /\ ran["m68k"] <= handed["m68k"] + Over["m68k"]

Z80Budget ==
    /\ ran["z80"] + credit["z80"] = handed["z80"]
    /\ credit["z80"] \in (-Over["z80"])..0

(* The instructions an SH-2's cycles were worth, times Cpi, and the cycles  *)
(* themselves, times PerK, differ by the remainder it was released with.    *)
Backlog(i) == (ran[i] + credit[i]) * Cpi[i] + insn_acc[i] - owed[i] * PerK

SH2Budget(i) ==
    /\ mode[i] # "parked" =>
         Backlog(i) \in 0..(Cpi[i] - 1) /\ credit[i] \in (-Over[i])..0
    /\ mode[i] = "held" => credit[i] = 0 /\ ran[i] = 0 /\ owed[i] = 0
    /\ ~booted => mode[i] = "held"

Budgets == M68KBudget /\ Z80Budget /\ \A i \in SH2s : SH2Budget(i)

LEMMA BudgetsInit == Init => Budgets
<1> SUFFICES ASSUME Init PROVE Budgets
  OBVIOUS
<1>1. M68KBudget /\ Z80Budget
  BY HandOverAssumption DEF Init, M68KBudget, Z80Budget, CPUs, Clocks
<1>2. ASSUME NEW i \in SH2s PROVE SH2Budget(i)
  <2>1. ran[i] = 0 /\ credit[i] = 0 /\ insn_acc[i] = 0 /\ owed[i] = 0 /\ mode[i] = "held"
    BY DEF Init, CPUs
  <2>2. Cpi[i] \in Nat \ {0} /\ Over[i] \in Nat /\ PerK \in Nat
    BY HandOverAssumption DEF CPUs
  <2>3. Backlog(i) = 0
    BY <2>1, <2>2 DEF Backlog
  <2>4. QED
    BY <2>1, <2>2, <2>3 DEF SH2Budget
<1>3. QED
  BY <1>1, <1>2 DEF Budgets

(* A chunk run to the end of its budget leaves the backlog where it was.    *)
LEMMA ChunkStep ==
  ASSUME TypeOK, NEW i \in SH2s, SH2Budget(i), NEW n \in Nat, SH2Chunk(i, n),
         UNCHANGED booted
  PROVE  SH2Budget(i)'
<1>1. /\ Insns(i, n) \in Nat
      /\ insn_acc[i] + n * PerK = Insns(i, n) * Cpi[i] + InsnCarry(i, n)
      /\ InsnCarry(i, n) \in Nat /\ InsnCarry(i, n) < Cpi[i]
  BY InsnClock
<1>2. /\ i \in CPUs /\ ran[i] \in Nat /\ credit[i] \in Int /\ insn_acc[i] \in Nat
      /\ owed[i] \in Nat /\ Cpi[i] \in Nat \ {0} /\ Over[i] \in Nat /\ PerK \in Nat
  BY HandOverAssumption DEF TypeOK, CPUs
<1>3. insn_acc'[i] = InsnCarry(i, n)
  BY DEF SH2Chunk, TypeOK
<1>4. CASE mode[i] # "run"
  <2>1. /\ credit'[i] = 0 /\ ran'[i] = ran[i] /\ owed'[i] = owed[i]
        /\ mode'[i] = mode[i]
    BY <1>2, <1>4 DEF SH2Chunk, HeldCredit, TypeOK
  <2>2. CASE mode[i] = "held"
    <3>1. ran'[i] = 0 /\ owed'[i] = 0
      BY <2>1, <2>2 DEF SH2Budget
    <3>2. Backlog(i)' = InsnCarry(i, n)
      BY <1>1, <1>2, <1>3, <2>1, <3>1 DEF Backlog
    <3>3. QED
      BY <1>1, <1>2, <2>1, <2>2, <3>1, <3>2 DEF SH2Budget
  <2>3. CASE mode[i] = "parked"
    BY <2>1, <2>3 DEF SH2Budget
  <2>4. QED
    BY <1>4, <2>2, <2>3 DEF TypeOK
<1>5. CASE mode[i] = "run"
  <2> DEFINE b == credit[i] + Insns(i, n)
  <2>1. owed'[i] = owed[i] + n /\ booted
    BY <1>5 DEF SH2Chunk, SH2Budget, TypeOK
  <2>2. CASE mode'[i] = "parked"
    BY <2>1, <2>2 DEF SH2Budget
  <2>3. CASE mode'[i] # "parked"
    <3>1. PICK used \in (IF b <= 0 THEN {0} ELSE FullRun(i, b)) :
            /\ credit' = [credit EXCEPT ![i] = CreditLeft(b, used)]
            /\ ran' = [ran EXCEPT ![i] = @ + used]
            /\ UNCHANGED mode
      BY <1>5, <2>3 DEF SH2Chunk, TypeOK
    <3>2. b \in Int /\ used \in Nat
      BY <1>1, <1>2, <3>1 DEF FullRun
    <3>3. credit'[i] = b - used /\ ran'[i] = ran[i] + used
      BY <1>2, <3>1 DEF CreditLeft, TypeOK
    <3>4. credit'[i] \in (-Over[i])..0
      BY <1>1, <1>2, <1>5, <3>1, <3>2, <3>3 DEF FullRun, SH2Budget
    <3>5. ran'[i] + credit'[i] = (ran[i] + credit[i]) + Insns(i, n)
      BY <1>1, <1>2, <3>2, <3>3
    <3>6. (ran'[i] + credit'[i]) * Cpi[i]
            = (ran[i] + credit[i]) * Cpi[i] + Insns(i, n) * Cpi[i]
      BY <1>1, <1>2, <3>5, TimesAdd
    <3>7. owed'[i] * PerK = owed[i] * PerK + n * PerK
      BY <1>2, <2>1, TimesAdd
    <3>8. /\ (ran[i] + credit[i]) * Cpi[i] \in Int /\ Insns(i, n) * Cpi[i] \in Int
          /\ owed[i] * PerK \in Int /\ n * PerK \in Int
      BY <1>1, <1>2
    <3>9. Backlog(i)' = Backlog(i)
      BY <1>1, <1>2, <1>3, <3>6, <3>7, <3>8 DEF Backlog
    <3>10. QED
      BY <1>5, <2>1, <3>1, <3>4, <3>9 DEF SH2Budget
  <2>4. QED
    BY <2>2, <2>3
<1>6. QED
  BY <1>4, <1>5

LEMMA BudgetsStep == TypeOK /\ Budgets /\ [Next]_vars => Budgets'
<1> SUFFICES ASSUME TypeOK, Budgets, [Next]_vars PROVE Budgets'
  OBVIOUS
<1>a. /\ "m68k" \in CPUs /\ "z80" \in CPUs /\ "m68k" \in Clocks /\ "z80" \in Clocks
      /\ credit["m68k"] \in Int /\ credit["z80"] \in Int
      /\ ran["m68k"] \in Nat /\ ran["z80"] \in Nat
      /\ handed["m68k"] \in Nat /\ handed["z80"] \in Nat
      /\ Over["m68k"] \in Nat /\ Over["z80"] \in Nat /\ m68k_win \in Nat
      /\ dma \in Nat /\ IrqCycles \in Nat
  BY HandOverAssumption DEF TypeOK, CPUs, Clocks
<1>b. ASSUME NEW i \in SH2s, UNCHANGED <<credit[i], ran[i], insn_acc[i], owed[i],
                                        mode[i], booted>>
      PROVE  SH2Budget(i)'
  BY <1>b DEF Budgets, SH2Budget, Backlog
<1>1. CASE OpenWindow
  <2>1. StepCycles("m68k") \in Nat
    BY <1>a, StepClock
  <2>2. M68KBudget'
    BY <1>1, <1>a, <2>1 DEF OpenWindow, Budgets, M68KBudget, TypeOK
  <2>3. Z80Budget'
    BY <1>1, <1>a DEF OpenWindow, Budgets, Z80Budget, TypeOK
  <2>4. QED
    BY <1>1, <1>b, <2>2, <2>3 DEF OpenWindow, Budgets
<1>2. CASE M68KTurn
  <2>1. PICK irq \in {0, IrqCycles} :
          \/ /\ credit["m68k"] - irq + m68k_win - dma <= 0
             /\ credit' = [credit EXCEPT !["m68k"] =
                             credit["m68k"] - irq + m68k_win - dma]
             /\ dma' = 0
             /\ UNCHANGED <<mode, booted, busreq, ran>>
          \/ /\ credit["m68k"] - irq + m68k_win - dma > 0
             /\ \E used \in 1..(credit["m68k"] - irq + m68k_win - dma + Over["m68k"]) :
                  /\ credit' = [credit EXCEPT !["m68k"] =
                       CreditLeft(credit["m68k"] - irq + m68k_win - dma, used)]
                  /\ ran' = [ran EXCEPT !["m68k"] = @ + used]
             /\ dma' \in DmaCharges
             /\ M68KEffects
    BY <1>2 DEF M68KTurn
  <2> DEFINE b == credit["m68k"] - irq + m68k_win - dma
  <2>2. b \in Int /\ b <= credit["m68k"] + m68k_win
    BY <1>a, <2>1
  <2>3. turn = "m68k" /\ turn' = "z80" /\ UNCHANGED <<insn_acc, handed, owed>>
    BY <1>2 DEF M68KTurn
  <2>4. ran["m68k"] + credit["m68k"] + m68k_win <= handed["m68k"]
    BY <2>3 DEF Budgets, M68KBudget
  <2>5. CASE b <= 0
    <3>1. credit'["m68k"] = b /\ UNCHANGED <<ran, mode, booted>>
      BY <1>a, <2>1, <2>2, <2>5 DEF TypeOK
    <3>2. M68KBudget'
      BY <1>a, <2>2, <2>3, <2>4, <3>1 DEF Budgets, M68KBudget
    <3>3. \A c \in CPUs : c # "m68k" => credit'[c] = credit[c]
      BY <1>a, <2>1, <2>2, <2>5 DEF TypeOK
    <3>4. Z80Budget'
      BY <1>a, <2>3, <3>1, <3>3 DEF Budgets, Z80Budget
    <3>5. ASSUME NEW i \in SH2s PROVE SH2Budget(i)'
      BY <1>b, <2>3, <3>1, <3>3 DEF CPUs, SH2s
    <3>6. QED
      BY <3>2, <3>4, <3>5 DEF Budgets
  <2>6. CASE b > 0
    <3>1. PICK used \in 1..(b + Over["m68k"]) :
            /\ credit' = [credit EXCEPT !["m68k"] = CreditLeft(b, used)]
            /\ ran' = [ran EXCEPT !["m68k"] = @ + used]
      BY <2>1, <2>2, <2>6
    <3>2. M68KEffects
      BY <2>1, <2>2, <2>6
    <3>3. credit'["m68k"] = b - used /\ ran'["m68k"] = ran["m68k"] + used
      BY <1>a, <3>1 DEF CreditLeft, TypeOK
    <3>4. M68KBudget'
      BY <1>a, <2>2, <2>3, <2>4, <3>1, <3>3 DEF M68KBudget
    <3>5. \A c \in CPUs : c # "m68k" => credit'[c] = credit[c] /\ ran'[c] = ran[c]
      BY <3>1 DEF TypeOK
    <3>6. Z80Budget'
      BY <1>a, <2>3, <3>5 DEF Budgets, Z80Budget
    <3>7. ASSUME NEW i \in SH2s PROVE SH2Budget(i)'
      <4>1. i \in CPUs /\ i # "m68k"
        BY DEF CPUs, SH2s
      <4>2. UNCHANGED <<credit[i], ran[i], insn_acc[i], owed[i]>>
        BY <2>3, <3>5, <4>1
      <4>3. CASE UNCHANGED <<mode, booted>>
        BY <1>b, <4>2, <4>3
      <4>4. CASE /\ ~booted
                 /\ booted' = TRUE
                 /\ mode' = [j \in SH2s |-> "run"]
        <5>1. mode[i] = "held" /\ SH2Budget(i)
          BY <4>4 DEF Budgets, SH2Budget
        <5>2. Backlog(i)' = Backlog(i)
          BY <4>2 DEF Backlog
        <5>3. QED
          BY <4>2, <4>4, <5>1, <5>2 DEF SH2Budget
      <4>5. QED
        BY <3>2, <4>3, <4>4 DEF M68KEffects
    <3>8. QED
      BY <3>4, <3>6, <3>7 DEF Budgets
  <2>7. QED
    BY <2>2, <2>5, <2>6
<1>3. CASE Z80Turn
  <2> DEFINE b == credit["z80"] + StepCycles("z80")
  <2>1. StepCycles("z80") \in Nat /\ b \in Int
    BY <1>a, StepClock
  <2>2. PICK used \in CASE b <= 0           -> {0}
                       [] b > 0 /\ busreq  -> {b}
                       [] b > 0 /\ ~busreq -> FullRun("z80", b) :
          /\ credit' = [credit EXCEPT !["z80"] = CreditLeft(b, used)]
          /\ ran' = [ran EXCEPT !["z80"] = @ + used]
    BY <1>3 DEF Z80Turn
  <2>3. used \in Nat /\ (b <= 0 => used = 0) /\ (b > 0 => used >= b)
        /\ (b > 0 => used <= b + Over["z80"])
    BY <1>a, <2>1, <2>2 DEF FullRun, TypeOK
  <2>4. credit'["z80"] = b - used /\ ran'["z80"] = ran["z80"] + used
    BY <1>a, <2>2 DEF CreditLeft, TypeOK
  <2>5. handed'["z80"] = handed["z80"] + StepCycles("z80")
        /\ handed'["m68k"] = handed["m68k"]
    BY <1>3, <1>a DEF Z80Turn, TypeOK
  <2>6. Z80Budget'
    BY <1>a, <2>1, <2>3, <2>4, <2>5 DEF Budgets, Z80Budget
  <2>7. \A c \in CPUs : c # "z80" => credit'[c] = credit[c] /\ ran'[c] = ran[c]
    BY <2>2 DEF TypeOK
  <2>8. M68KBudget'
    BY <1>3, <1>a, <2>5, <2>7 DEF Z80Turn, Budgets, M68KBudget
  <2>9. ASSUME NEW i \in SH2s PROVE SH2Budget(i)'
    BY <1>3, <1>b, <2>7 DEF Z80Turn, CPUs, SH2s
  <2>10. QED
    BY <2>6, <2>8, <2>9 DEF Budgets
<1>4. ASSUME NEW i \in SH2s, SH2Turn(i) PROVE Budgets'
  <2>1. PICK n \in 1..left : SH2Chunk(i, n)
    BY <1>4 DEF SH2Turn
  <2>2. n \in Nat /\ UNCHANGED <<booted, handed, m68k_win>>
        /\ turn # "m68k" /\ turn' # "m68k"
    BY <1>4 DEF SH2Turn, SH2s, TypeOK
  <2>3. SH2Budget(i)'
    BY <2>1, <2>2, ChunkStep DEF Budgets
  <2>4. /\ \A c \in CPUs : c # i => credit'[c] = credit[c] /\ ran'[c] = ran[c]
        /\ \A j \in SH2s : j # i => UNCHANGED <<insn_acc[j], owed[j], mode[j]>>
    BY <2>1 DEF SH2Chunk, TypeOK
  <2>5. ASSUME NEW j \in SH2s, j # i PROVE SH2Budget(j)'
    BY <1>b, <2>2, <2>4, <2>5 DEF CPUs
  <2>6. M68KBudget' /\ Z80Budget'
    BY <1>a, <2>2, <2>4 DEF Budgets, M68KBudget, Z80Budget, SH2s
  <2>7. QED
    BY <2>3, <2>5, <2>6 DEF Budgets
<1>5. CASE UNCHANGED vars
  <2>1. UNCHANGED <<turn, m68k_win, credit, ran, insn_acc, owed, mode, booted, handed>>
    BY <1>5 DEF vars, code_vars
  <2>2. QED
    BY <1>b, <2>1 DEF Budgets, M68KBudget, Z80Budget
<1>6. QED
  BY <1>1, <1>2, <1>3, <1>4, <1>5 DEF Next

LEMMA Near == TypeOK /\ Budgets => NeverAhead /\ NeverBehind
<1> SUFFICES ASSUME TypeOK, Budgets PROVE NeverAhead /\ NeverBehind
  OBVIOUS
<1>1. /\ ran["m68k"] <= handed["m68k"] + Over["m68k"]
      /\ ran["z80"] <= handed["z80"] + Over["z80"]
      /\ ran["z80"] >= handed["z80"]
  BY HandOverAssumption
  DEF Budgets, M68KBudget, Z80Budget, TypeOK, CPUs, Clocks
<1>2. ASSUME NEW i \in SH2s, mode[i] = "run"
      PROVE  /\ (ran[i] - Over[i]) * Cpi[i] < owed[i] * PerK + Cpi[i]
             /\ (ran[i] + 1) * Cpi[i] > owed[i] * PerK
  <2>1. /\ ran[i] \in Nat /\ credit[i] \in (-Over[i])..0 /\ Over[i] \in Nat
        /\ Cpi[i] \in Nat \ {0} /\ insn_acc[i] \in Nat /\ insn_acc[i] < Cpi[i]
        /\ owed[i] * PerK \in Nat /\ Backlog(i) \in 0..(Cpi[i] - 1)
    BY <1>2, HandOverAssumption DEF Budgets, SH2Budget, TypeOK, CPUs
  <2>2. (ran[i] - Over[i]) * Cpi[i] <= (ran[i] + credit[i]) * Cpi[i]
    BY <2>1, TimesMonotone
  <2>3. (ran[i] + credit[i] + 1) * Cpi[i] <= (ran[i] + 1) * Cpi[i]
    BY <2>1, TimesMonotone
  <2>4. (ran[i] + credit[i] + 1) * Cpi[i] = (ran[i] + credit[i]) * Cpi[i] + Cpi[i]
    BY <2>1, TimesAdd
  <2>5. (ran[i] + credit[i]) * Cpi[i] \in Int
    BY <2>1
  <2>6. (ran[i] - Over[i]) * Cpi[i] \in Int /\ (ran[i] + 1) * Cpi[i] \in Int
    BY <2>1
  <2>7. QED
    BY <2>1, <2>2, <2>3, <2>4, <2>5, <2>6 DEF Backlog
<1>3. QED
  BY <1>1, <1>2 DEF NeverAhead, NeverBehind

(* No processor is ever further ahead of its clock than one overshoot, for  *)
(* any rates, costs and cuts.                                               *)
THEOREM NotAhead == Spec => []NeverAhead
  BY TypeInit, TypeStep, BudgetsInit, BudgetsStep, Near, PTL DEF Spec

(* And the Z80 and a running SH-2 are never behind theirs.                  *)
THEOREM NotBehind == Spec => []NeverBehind
  BY TypeInit, TypeStep, BudgetsInit, BudgetsStep, Near, PTL DEF Spec
=============================================================================

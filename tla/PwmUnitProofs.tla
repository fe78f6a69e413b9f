--------------------------- MODULE PwmUnitProofs ---------------------------
(***************************************************************************)
(* Proofs about the PWM unit: its state's shape, that its FIFOs play what  *)
(* they accepted in order and once, and that its interrupts are exactly TM *)
(* sample periods apart while its registers are left alone.                *)
(***************************************************************************)
EXTENDS PwmUnit, TLAPS

\* What is written and what is shared out are counts.
LEMMA Inputs ==
  /\ \A c \in Cycles : c \in Nat
  /\ \A t \in Ratios : t \in Nat
  /\ \A share \in Shares : share \in Nat
BY PwmAssumption

\* The sample period is a count of cycles whatever was written to the register.
LEMMA PeriodIsNat == \A c \in Nat : SamplePeriodOf(c) \in Nat
BY DEF SamplePeriodOf

\* Ending a measurement or going on with it leaves the history typed.
LEMMA MeasuresTyped ==
  ASSUME NEW changed, Measures(changed),
         gap \in Nat, steady \in BOOLEAN, apart \in Nat
  PROVE  gap' \in Nat /\ steady' \in BOOLEAN /\ apart' \in Nat
<1>1. CASE changed
  <2>1. gap' = 0 /\ steady' = FALSE /\ apart' = 0
    BY <1>1 DEF Measures
  <2>2. steady' \in BOOLEAN
    BY <2>1
  <2> QED
    BY <2>1, <2>2
<1>2. CASE ~changed
  BY <1>2 DEF Measures, timing
<1> QED
  BY <1>1, <1>2

\* The state keeps its shape.
THEOREM Typing == PwmSpec => []PwmTypeOK
<1>1. PwmInit => PwmTypeOK
  <2>1. <<>> \in Seq(Nat)
    OBVIOUS
  <2> QED
    <3> SUFFICES ASSUME PwmInit PROVE PwmTypeOK
      OBVIOUS
    <3>1. steady \in BOOLEAN
      BY DEF PwmInit
    <3>2. q \in [Sides -> Seq(Nat)] /\ playing \in [Sides -> Nat] /\ put \in [Sides -> Nat]
      BY <2>1 DEF PwmInit
    <3> QED
      BY <3>1, <3>2 DEF PwmInit, PwmTypeOK
<1>2. PwmTypeOK /\ [PwmNext]_pwmvars => PwmTypeOK'
  <2> SUFFICES ASSUME PwmTypeOK, [PwmNext]_pwmvars PROVE PwmTypeOK'
    OBVIOUS
  <2>0. SamplePeriod \in Nat
    BY PeriodIsNat DEF PwmTypeOK, SamplePeriod
  <2>1. ASSUME NEW c \in Cycles, WriteCycle(c) PROVE PwmTypeOK'
    <3>1. gap' \in Nat /\ steady' \in BOOLEAN /\ apart' \in Nat
      BY <2>1, MeasuresTyped DEF PwmTypeOK, WriteCycle
    <3> QED
      BY <2>1, <3>1, Inputs DEF PwmTypeOK, WriteCycle, fifos
  <2>2. ASSUME NEW t \in Ratios, WriteControl(t) PROVE PwmTypeOK'
    <3>1. gap' \in Nat /\ steady' \in BOOLEAN /\ apart' \in Nat
      BY <2>2, MeasuresTyped DEF PwmTypeOK, WriteControl
    <3> QED
      BY <2>2, <3>1, Inputs DEF PwmTypeOK, WriteControl, fifos
  <2>3. ASSUME NEW which \in {{"L"}, {"R"}, Sides}, WriteWord(which) PROVE PwmTypeOK'
    <3>1. ASSUME NEW s \in Sides
          PROVE /\ (IF s \in which /\ HasRoom(s) THEN Append(q[s], put[s] + 1)
                     ELSE q[s]) \in Seq(Nat)
                /\ (IF s \in which /\ HasRoom(s) THEN put[s] + 1 ELSE put[s]) \in Nat
      <4>1. q[s] \in Seq(Nat) /\ put[s] \in Nat
        BY DEF PwmTypeOK
      <4>2. Append(q[s], put[s] + 1) \in Seq(Nat)
        BY <4>1
      <4> QED
        BY <4>1, <4>2
    <3>2. q' \in [Sides -> Seq(Nat)] /\ put' \in [Sides -> Nat]
      BY <2>3, <3>1 DEF WriteWord
    <3> QED
      BY <2>3, <3>2 DEF PwmTypeOK, WriteWord, clock, timing
  <2>4. ASSUME NEW share \in Shares, HandOver(share) PROVE PwmTypeOK'
    BY <2>4, Inputs DEF PwmTypeOK, HandOver, clock, fifos, timing
  <2>5. ASSUME Cut PROVE PwmTypeOK'
    BY <2>0, <2>5 DEF PwmTypeOK, Cut, Ahead, Running, clock, fifos, timing
  <2>6. ASSUME Ran PROVE PwmTypeOK'
    BY <2>6 DEF PwmTypeOK, Ran, clock, fifos
  <2>7. ASSUME Tick PROVE PwmTypeOK'
    BY <2>7 DEF PwmTypeOK, Tick, fifos, timing
  <2>8. ASSUME Take PROVE PwmTypeOK'
    <3>1. q' \in [Sides -> Seq(Nat)] /\ playing' \in [Sides -> Nat]
      <4>1. ASSUME NEW s \in Sides
            PROVE /\ (IF q[s] = <<>> THEN q[s] ELSE Tail(q[s])) \in Seq(Nat)
                  /\ (IF q[s] = <<>> THEN playing[s] ELSE q[s][1]) \in Nat
        <5>1. q[s] \in Seq(Nat) /\ playing[s] \in Nat
          BY DEF PwmTypeOK
        <5>2. q[s] # <<>> => Tail(q[s]) \in Seq(Nat) /\ q[s][1] \in Nat
          BY <5>1
        <5> QED
          BY <5>1, <5>2
      <4> QED
        BY <2>8, <4>1 DEF Take, Taken
    <3>2. acc' \in Nat
      BY <2>0, <2>8 DEF PwmTypeOK, Take, Due
    <3>3. tm_n' \in Nat /\ gap' \in Nat /\ steady' \in BOOLEAN /\ apart' \in Nat
      <4>1. CASE tm > 0 /\ tm_n + 1 >= tm
        <5>1. tm_n' = 0 /\ gap' = 0
          BY <2>8, <4>1 DEF Take
        <5>2. steady' = (acc = SamplePeriod) /\ apart' = IF steady THEN gap ELSE 0
          BY <2>8, <4>1 DEF Take
        <5>3. apart' \in Nat
          BY <5>2 DEF PwmTypeOK
        <5>4. steady' \in BOOLEAN
          BY <5>2
        <5> QED
          BY <5>1, <5>3, <5>4
      <4>2. CASE ~(tm > 0 /\ tm_n + 1 >= tm)
        BY <2>8, <4>2 DEF PwmTypeOK, Take, timing
      <4> QED
        BY <4>1, <4>2
    <3> QED
      BY <2>8, <3>1, <3>2, <3>3 DEF PwmTypeOK, Take
  <2>9. ASSUME Short PROVE PwmTypeOK'
    BY <2>9 DEF PwmTypeOK, Short, clock, fifos, timing
  <2>10. ASSUME ShareOver PROVE PwmTypeOK'
    BY <2>10 DEF PwmTypeOK, ShareOver, clock, fifos, timing
  <2>11. CASE UNCHANGED pwmvars
    BY <2>11 DEF PwmTypeOK, pwmvars, clock, fifos, timing
  <2> QED
    BY <2>1, <2>2, <2>3, <2>4, <2>5, <2>6, <2>7, <2>8, <2>9, <2>10, <2>11
       DEF PwmNext, Loop
<1> QED
  BY <1>1, <1>2, PTL DEF PwmSpec

----------------------------------------------------------------------------

\* A FIFO's words are consecutive, from the one after the last one played to the
\* last one accepted; a write adds the next at one end and a sample takes the
\* first from the other.
THEOREM PlayedInOrder == PwmSpec => []InOrder
<1>1. PwmInit => InOrder
  BY PwmAssumption DEF PwmInit, InOrder, Sides
<1>2. PwmTypeOK /\ InOrder /\ [PwmNext]_pwmvars => InOrder'
  <2> SUFFICES ASSUME PwmTypeOK, InOrder, [PwmNext]_pwmvars PROVE InOrder'
    OBVIOUS
  <2>1. ASSUME UNCHANGED fifos PROVE InOrder'
    BY <2>1 DEF InOrder, fifos
  <2>2. ASSUME NEW which \in {{"L"}, {"R"}, Sides}, WriteWord(which) PROVE InOrder'
    <3> SUFFICES ASSUME NEW s \in Sides
                 PROVE /\ Len(q'[s]) <= Depth
                       /\ put'[s] = playing'[s] + Len(q'[s])
                       /\ \A k \in 1..Len(q'[s]) : q'[s][k] = playing'[s] + k
      BY DEF InOrder
    <3>1. q[s] \in Seq(Nat) /\ playing[s] \in Nat /\ put[s] \in Nat /\ playing'[s] = playing[s]
      BY <2>2 DEF PwmTypeOK, WriteWord
    <3>2. CASE s \in which /\ Len(q[s]) < Depth
      <4>1. q'[s] = Append(q[s], put[s] + 1) /\ put'[s] = put[s] + 1
        BY <2>2, <3>2 DEF WriteWord, HasRoom
      <4>2. Len(q'[s]) = Len(q[s]) + 1
        BY <3>1, <4>1
      <4>3. ASSUME NEW k \in 1..Len(q'[s]) PROVE q'[s][k] = playing'[s] + k
        <5>1. CASE k = Len(q[s]) + 1
          <6>1. q'[s][k] = put[s] + 1
            BY <3>1, <4>1, <5>1
          <6> QED
            BY <3>1, <5>1, <6>1 DEF InOrder
        <5>2. CASE k # Len(q[s]) + 1
          <6>1. k \in 1..Len(q[s])
            BY <3>1, <4>2, <5>2
          <6>2. q'[s][k] = q[s][k]
            BY <3>1, <4>1, <6>1
          <6> QED
            BY <3>1, <6>1, <6>2 DEF InOrder
        <5> QED
          BY <5>1, <5>2
      <4> QED
        BY <3>1, <3>2, <4>1, <4>2, <4>3, PwmAssumption DEF InOrder
    <3>3. CASE ~(s \in which /\ Len(q[s]) < Depth)
      <4>1. q'[s] = q[s] /\ put'[s] = put[s]
        BY <2>2, <3>3 DEF WriteWord, HasRoom
      <4> QED
        BY <3>1, <4>1 DEF InOrder
    <3> QED
      BY <3>2, <3>3
  <2>3. ASSUME Take PROVE InOrder'
    <3> SUFFICES ASSUME NEW s \in Sides
                 PROVE /\ Len(q'[s]) <= Depth
                       /\ put'[s] = playing'[s] + Len(q'[s])
                       /\ \A k \in 1..Len(q'[s]) : q'[s][k] = playing'[s] + k
      BY DEF InOrder
    <3>1. q[s] \in Seq(Nat) /\ playing[s] \in Nat /\ put[s] \in Nat /\ put'[s] = put[s]
      BY <2>3 DEF PwmTypeOK, Take
    <3>2. CASE q[s] = <<>>
      <4>1. q'[s] = q[s] /\ playing'[s] = playing[s]
        BY <2>3, <3>2 DEF Take
      <4> QED
        BY <3>1, <4>1 DEF InOrder
    <3>3. CASE q[s] # <<>>
      <4>1. q'[s] = Tail(q[s]) /\ playing'[s] = q[s][1]
        BY <2>3, <3>3 DEF Take, Taken
      <4>2. Len(q[s]) \in Nat \ {0} /\ q[s][1] = playing[s] + 1
        BY <3>1, <3>3 DEF InOrder
      <4>3. Len(q'[s]) = Len(q[s]) - 1
        BY <3>1, <3>3, <4>1
      <4>4. \A k \in 1..Len(q'[s]) : q'[s][k] = q[s][k + 1]
        BY <3>1, <3>3, <4>1
      <4>5. \A k \in 1..Len(q[s]) : q[s][k] = playing[s] + k
        BY DEF InOrder
      <4>6. \A k \in 1..Len(q'[s]) : q'[s][k] = playing'[s] + k
        <5> SUFFICES ASSUME NEW k \in 1..Len(q'[s]) PROVE q'[s][k] = playing'[s] + k
          OBVIOUS
        <5>1. k + 1 \in 1..Len(q[s])
          BY <4>2, <4>3
        <5>2. q[s][k + 1] = playing[s] + (k + 1)
          BY <4>5, <5>1
        <5> QED
          BY <3>1, <4>1, <4>2, <4>4, <5>2
      <4> QED
        <5>1. Len(q[s]) <= Depth /\ put[s] = playing[s] + Len(q[s])
          BY DEF InOrder
        <5>2. playing'[s] = playing[s] + 1
          BY <4>1, <4>2
        <5>3. put'[s] = playing'[s] + Len(q'[s])
          BY <3>1, <4>2, <4>3, <5>1, <5>2
        <5>4. Len(q'[s]) <= Depth
          BY <4>2, <4>3, <5>1, PwmAssumption
        <5> QED
          BY <4>6, <5>3, <5>4
    <3> QED
      BY <3>2, <3>3
  <2>4. CASE UNCHANGED pwmvars
    BY <2>1, <2>4 DEF pwmvars
  <2> QED
    BY <2>1, <2>2, <2>3, <2>4
       DEF PwmNext, Loop, WriteCycle, WriteControl, HandOver, Cut, Ran, Tick, Short, ShareOver
<1> QED
  BY <1>1, <1>2, Typing, PTL DEF PwmSpec

----------------------------------------------------------------------------

LEMMA OneMore == \A a, b \in Nat : (a * b) + b = (a + 1) * b
OBVIOUS

\* While a distance is being measured the unit is running, the slave has run the
\* samples counted and what there is of the next one, and a piece cut from its
\* share ends no later than the next edge.
Measured ==
  /\ tm > 0 /\ tm_n < tm /\ Running
  /\ gap = (tm_n * SamplePeriod) + acc + (IF pc = "tick" THEN n ELSE 0)
  /\ pc \in {"idle", "cut"} => acc < SamplePeriod
  /\ pc \in {"run", "tick"} => acc + n <= SamplePeriod
  /\ pc = "take" => acc <= SamplePeriod

Even == (steady => Measured) /\ (pc = "take" => Running) /\ Regular

\* The slave's interrupts are exactly mars_pwm_period() cycles apart.
THEOREM InterruptsRegular == PwmSpec => []Regular
<1>1. PwmInit => Even
  BY DEF PwmInit, Even, Regular
<1>2. PwmTypeOK /\ Even /\ [PwmNext]_pwmvars => Even'
  <2> SUFFICES ASSUME PwmTypeOK, Even, [PwmNext]_pwmvars PROVE Even'
    OBVIOUS
  <2> USE DEF Even
  <2>0. SamplePeriod \in Nat
    BY PeriodIsNat DEF PwmTypeOK, SamplePeriod
  <2>1. ASSUME NEW c \in Cycles, WriteCycle(c) PROVE Even'
    <3>1. CASE c # cycle
      BY <2>1, <3>1 DEF WriteCycle, CpuRuns, Measures, Regular
    <3>2. CASE c = cycle
      BY <2>1, <3>2 DEF WriteCycle, Measures, Measured, Regular, Running,
                        SamplePeriod, InterruptPeriod, timing
    <3> QED
      BY <3>1, <3>2
  <2>2. ASSUME NEW t \in Ratios, WriteControl(t) PROVE Even'
    <3>1. CASE t # tm
      BY <2>2, <3>1 DEF WriteControl, CpuRuns, Measures, Regular
    <3>2. CASE t = tm
      BY <2>2, <3>2 DEF WriteControl, Measures, Measured, Regular, Running,
                        SamplePeriod, InterruptPeriod, timing
    <3> QED
      BY <3>1, <3>2
  <2>3. ASSUME NEW which \in {{"L"}, {"R"}, Sides}, WriteWord(which) PROVE Even'
    BY <2>3 DEF WriteWord, Measured, Regular, Running, SamplePeriod, InterruptPeriod,
                clock, timing
  <2>4. ASSUME NEW share \in Shares, HandOver(share) PROVE Even'
    BY <2>4 DEF HandOver, Measured, Regular, Running, SamplePeriod, InterruptPeriod,
                clock, timing
  <2>5. ASSUME Cut PROVE Even'
    <3>1. UNCHANGED <<SamplePeriod, InterruptPeriod, Running, tm, tm_n, acc, gap, steady, apart>>
      BY <2>5 DEF Cut, clock, timing, SamplePeriod, InterruptPeriod, Running
    <3>2. ASSUME steady PROVE acc + n' <= SamplePeriod
      BY <2>0, <2>5, <3>2 DEF Cut, Ahead, Measured, PwmTypeOK
    <3> QED
      BY <2>5, <3>1, <3>2 DEF Cut, Measured, Regular
  <2>6. ASSUME Ran PROVE Even'
    <3>1. UNCHANGED <<SamplePeriod, InterruptPeriod, Running, tm, tm_n, acc, n, steady, apart>>
      BY <2>6 DEF Ran, clock, SamplePeriod, InterruptPeriod, Running
    <3>2. tm_n * SamplePeriod \in Int
      BY <2>0 DEF PwmTypeOK
    <3> DEFINE before == tm_n * SamplePeriod
    <3> HIDE DEF before
    <3>3. before' = before
      BY <3>1 DEF before
    <3>4. ASSUME steady PROVE gap = before + acc /\ gap' = gap + n
      BY <2>6, <3>2, <3>4 DEF Ran, Measured, PwmTypeOK, before
    <3>5. ASSUME steady PROVE Measured'
      BY <2>6, <3>1, <3>2, <3>3, <3>4, <3>5 DEF Ran, Measured, PwmTypeOK, before
    <3> QED
      BY <2>6, <3>1, <3>5 DEF Ran, Regular
  <2>7. ASSUME Tick PROVE Even'
    <3>1. UNCHANGED <<SamplePeriod, InterruptPeriod, Running, tm, tm_n, gap, steady, apart>>
      BY <2>7 DEF Tick, timing, SamplePeriod, InterruptPeriod, Running
    <3>2. ASSUME steady PROVE acc' = acc + n /\ pc' = "take"
      BY <2>7, <3>2 DEF Tick, Measured
    <3>3. tm_n * SamplePeriod \in Int
      BY <2>0 DEF PwmTypeOK
    <3> DEFINE before == tm_n * SamplePeriod
    <3> HIDE DEF before
    <3>4. ASSUME steady PROVE gap = before + acc + n /\ acc + n <= SamplePeriod
      BY <2>7, <3>4 DEF Tick, Measured, before
    <3>5. ASSUME steady PROVE Measured'
      <4>1. gap' = before + acc'
        BY <3>1, <3>2, <3>3, <3>4, <3>5 DEF PwmTypeOK, before
      <4>2. before' = before
        BY <3>1 DEF before
      <4> QED
        BY <3>1, <3>2, <3>3, <3>4, <3>5, <4>1, <4>2 DEF Measured, before, PwmTypeOK
    <3> QED
      BY <2>7, <3>1, <3>5 DEF Tick, Regular
  <2>8. ASSUME Take PROVE Even'
    <3>1. UNCHANGED <<SamplePeriod, Running, tm>>
      BY <2>8 DEF Take, SamplePeriod, Running
    <3>2. ASSUME steady PROVE acc = SamplePeriod /\ acc' = 0
      BY <2>0, <2>8, <3>2 DEF Take, Due, Measured, PwmTypeOK
    <3>3. ASSUME steady PROVE gap = (tm_n + 1) * SamplePeriod
      BY <2>0, <2>8, <3>2, <3>3, OneMore DEF Take, Measured, PwmTypeOK
    <3>4. CASE tm > 0 /\ tm_n + 1 >= tm
      <4>1. tm_n' = 0 /\ gap' = 0 /\ steady' = (acc = SamplePeriod)
            /\ apart' = IF steady THEN gap ELSE 0
        BY <2>8, <3>4 DEF Take
      <4>2. apart' # 0 => apart' = InterruptPeriod'
        <5>1. steady => tm_n + 1 = tm
          BY <3>4 DEF Measured, PwmTypeOK
        <5> QED
          BY <3>1, <3>3, <4>1, <5>1 DEF InterruptPeriod
      <4>3. ASSUME steady' PROVE Measured'
        <5>1. acc = SamplePeriod
          BY <4>1, <4>3
        <5>2. acc' = 0 /\ pc' = "take"
          BY <2>0, <2>8, <5>1 DEF Take
        <5>3. SamplePeriod > 0
          BY <2>8 DEF Take, Running
        <5>4. tm_n' * SamplePeriod' = 0
          BY <2>0, <3>1, <4>1
        <5> QED
          BY <2>0, <3>1, <3>4, <4>1, <5>2, <5>3, <5>4 DEF Measured, Running, PwmTypeOK
      <4> QED
        BY <2>8, <3>1, <4>2, <4>3 DEF Take, Regular
    <3>5. CASE ~(tm > 0 /\ tm_n + 1 >= tm)
      <4>1. UNCHANGED <<gap, steady, apart>> /\ pc' = pc /\ pc = "take"
        BY <2>8, <3>5 DEF Take, timing
      <4>2. ASSUME steady PROVE Measured'
        <5>1. tm > 0 /\ tm_n' = tm_n + 1 /\ tm_n' < tm
          BY <2>8, <3>5, <4>2 DEF Take, Measured, PwmTypeOK
        <5>2. gap' = (tm_n' * SamplePeriod')
          BY <3>1, <3>3, <4>1, <4>2, <5>1
        <5>3. tm_n' * SamplePeriod' \in Int
          BY <2>0, <3>1, <5>1 DEF PwmTypeOK
        <5> QED
          BY <2>0, <3>1, <3>2, <4>1, <4>2, <5>1, <5>2, <5>3 DEF Measured
      <4> QED
        BY <3>1, <4>1, <4>2 DEF Regular, InterruptPeriod
    <3> QED
      BY <3>4, <3>5
  <2>9. ASSUME Short PROVE Even'
    BY <2>0, <2>9 DEF Short, Due, Measured, Regular, Running, SamplePeriod, InterruptPeriod,
                clock, timing, PwmTypeOK
  <2>10. ASSUME ShareOver PROVE Even'
    BY <2>10 DEF ShareOver, Measured, Regular, Running, SamplePeriod, InterruptPeriod, clock, timing
  <2>11. CASE UNCHANGED pwmvars
    BY <2>11 DEF Measured, Regular, Running, SamplePeriod, InterruptPeriod,
                 pwmvars, clock, timing
  <2> QED
    BY <2>1, <2>2, <2>3, <2>4, <2>5, <2>6, <2>7, <2>8, <2>9, <2>10, <2>11
       DEF PwmNext, Loop
<1> QED
  BY <1>1, <1>2, Typing, PTL DEF PwmSpec, Even
=============================================================================

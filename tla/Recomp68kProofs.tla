--------------------------- MODULE Recomp68kProofs ---------------------------
(***************************************************************************)
(* For every program and every choice of what is recompiled: recompiled    *)
(* code runs only where the machine shows it, a vertical interrupt is      *)
(* taken once for each request, the whole runs the program the interpreter *)
(* does, and the check beside it reports what is wrong and nothing else.   *)
(***************************************************************************)
EXTENDS Recomp68k, SequenceTheorems, FiniteSetTheorems, WellFoundedInduction, TLAPS

(* An address with a block shows that block: canon68k names an offset only  *)
(* for the windows no register changes.                                     *)
LEMMA BlockIsShown ==
    ASSUME NEW a, NEW bytes, Dispatchable(a)
    PROVE  P!Shown(a, bytes) = Canon(a)
<1>1. Canon(a) # None
  BY RecompAssumption DEF Dispatchable
<1>2. a.w \in {"low", "win"}
  BY <1>1 DEF Canon
<1>3. QED
  BY <1>2 DEF Canon, P!Shown

(* The recompiled 68000 never runs another offset's block for the one at    *)
(* its address, whatever the bank register is set to (m68k_run, canon68k).  *)
THEOREM RunsItsOwnCode == Spec => []RightCode
<1>1. Init => RightCode
  BY DEF Init, RightCode
<1>2. RightCode /\ [Next]_vars => RightCode'
  <2> SUFFICES ASSUME RightCode, [Next]_vars
               PROVE  RightCode'
    OBVIOUS
  <2> USE DEF RightCode
  <2>1. CASE Beam
    BY <2>1 DEF Beam
  <2>2. CASE Poll
    BY <2>2 DEF Poll
  <2>3. CASE EndRun
    BY <2>3 DEF EndRun
  <2>4. CASE Block
    <3>1. P!Shown(pc, hw) = Canon(pc)
      BY <2>4, BlockIsShown DEF Block
    <3>2. stray' = (stray \/ P!Shown(pc, hw) # Canon(pc))
      BY <2>4 DEF Block
    <3>3. QED
      BY <3>1, <3>2
  <2>5. CASE HandOver
    BY <2>5 DEF HandOver
  <2>6. CASE Gap
    BY <2>6 DEF Gap
  <2>7. CASE Musashi
    BY <2>7 DEF Musashi
  <2>8. CASE Others
    BY <2>8 DEF Others
  <2>9. CASE UNCHANGED vars
    BY <2>9 DEF vars
  <2>10. QED
    BY <2>1, <2>2, <2>3, <2>4, <2>5, <2>6, <2>7, <2>8, <2>9 DEF Next
<1>3. QED
  BY <1>1, <1>2, PTL DEF Spec

-----------------------------------------------------------------------------
(* A latched level is Musashi's, of a request not yet taken, and the frames *)
(* are a stack.                                                             *)
Latched == latch # 0 => vint_irq /\ backend = "musashi"

Stacked == \E S : stack \in Seq(S)

(* Code that is not entered by an interrupt takes a frame off or none.      *)
LEMMA PopsAtMost ==
    ASSUME Stacked, stack' = Front(stack) \/ stack' = stack
    PROVE  Stacked' /\ ~(Len(stack') > Len(stack))
<1>1. PICK S : stack \in Seq(S)
  BY DEF Stacked
<1>2. Front(stack) \in Seq(S) /\ Len(Front(stack)) <= Len(stack)
  BY <1>1 DEF Front
<1> QED BY <1>1, <1>2 DEF Stacked

(* An entry puts one on, and the request goes.                              *)
LEMMA EnterPushes ==
    ASSUME Stacked, Enter
    PROVE  Stacked' /\ Len(stack') > Len(stack) /\ ~vint_irq'
<1>1. PICK S : stack \in Seq(S)
  BY DEF Stacked
<1> DEFINE frame == <<pc, imask>>
<1>2. stack' = Append(stack, frame) /\ vint_irq' = FALSE
  BY DEF Enter
<1>3. stack \in Seq(S \cup {frame}) /\ frame \in S \cup {frame}
  BY <1>1
<1> HIDE DEF frame
<1>4. stack' \in Seq(S \cup {frame}) /\ Len(stack') = Len(stack) + 1 /\ Len(stack) \in Nat
  BY <1>2, <1>3
<1> QED BY <1>2, <1>4 DEF Stacked

(* TakenOnce: a step that takes a request away enters the handler once, and *)
(* no other step enters it, for every program, every choice of what is      *)
(* recompiled and both backends (cpu_poll_irq, m68k_interrupt, and Musashi  *)
(* with gen68k_int_ack).                                                    *)
THEOREM InterruptOnce == Spec => TakenOnce
<1> DEFINE Inv == Latched /\ Stacked
           Once == (vint_irq /\ ~vint_irq') <=> Len(stack') > Len(stack)
<1>1. Init => Inv
  <2> SUFFICES ASSUME Init PROVE Latched /\ stack \in Seq({})
    BY DEF Stacked
  <2> QED BY DEF Init, Latched
<1>2. Inv /\ [Next]_vars => Inv' /\ (Once \/ UNCHANGED vars)
  <2> SUFFICES ASSUME Latched, Stacked, [Next]_vars
               PROVE  Latched' /\ Stacked' /\ (Once \/ UNCHANGED vars)
    OBVIOUS
  <2>a. ASSUME UNCHANGED <<irq_vars, stack, backend>> PROVE Latched' /\ Stacked' /\ Once
    BY <2>a, PopsAtMost DEF Latched, irq_vars
  <2>b. ASSUME UNCHANGED <<irq_vars, backend>>, stack' = Front(stack) \/ stack' = stack
        PROVE  Latched' /\ Stacked' /\ Once
    BY <2>b, PopsAtMost DEF Latched, irq_vars
  <2>1. CASE Beam
    <3>1. UNCHANGED <<stack, latch>> /\ vint_irq' \in {vint_irq, TRUE}
      BY <2>1 DEF Beam, cpu_vars
    <3>2. vint_irq => vint_irq'
      BY <3>1, Zenon
    <3>3. Stacked' /\ ~(Len(stack') > Len(stack)) /\ UNCHANGED backend
      BY <2>1, <3>1, PopsAtMost DEF Beam, build
    <3> QED BY <3>1, <3>2, <3>3 DEF Latched
  <2>2. CASE Poll
    <3>0. UNCHANGED backend
      BY <2>2 DEF Poll, build
    <3>1. CASE vint_irq /\ Enter /\ UNCHANGED latch /\ backend = "recomp"
      <4>1. latch' = 0
        BY <3>1 DEF Latched
      <4> QED BY <3>1, <4>1, EnterPushes DEF Latched
    <3>2. CASE UNCHANGED <<stack, irq_vars>>
      BY <2>a, <3>0, <3>2
    <3>3. CASE vint_irq /\ backend = "musashi" /\ UNCHANGED <<stack, vint_irq>>
      BY <3>0, <3>3, PopsAtMost DEF Latched
    <3> QED BY <2>2, <3>1, <3>2, <3>3 DEF Poll
  <2>3. CASE EndRun
    BY <2>3, <2>a DEF EndRun, build
  <2>4. CASE Block
    BY <2>4, <2>b DEF Block, build
  <2>5. CASE HandOver
    BY <2>5, <2>a DEF HandOver, cpu_vars, build
  <2>6. CASE Gap
    BY <2>6, <2>b DEF Gap, Interpret, build
  <2>7. CASE Musashi
    <3>0. UNCHANGED backend
      BY <2>7 DEF Musashi, build
    <3>1. CASE latch = P!Vint /\ Enter /\ Ack
      <4>1. vint_irq
        BY <3>1 DEF Latched, P!Vint
      <4>2. latch' = 0
        BY <3>1 DEF Ack
      <4> QED BY <3>1, <4>1, <4>2, EnterPushes DEF Latched
    <3>2. CASE Interpret /\ UNCHANGED irq_vars
      BY <2>b, <3>0, <3>2 DEF Interpret
    <3> QED BY <2>7, <3>1, <3>2 DEF Musashi
  <2>8. CASE Others
    BY <2>8, <2>a DEF Others, build
  <2>9. CASE UNCHANGED vars
    BY <2>9, <2>a DEF vars, cpu_vars, build
  <2> QED BY <2>1, <2>2, <2>3, <2>4, <2>5, <2>6, <2>7, <2>8, <2>9 DEF Next
<1> QED BY <1>1, <1>2, PTL DEF Spec, TakenOnce

-----------------------------------------------------------------------------
(* A set of naturals that is not empty has a least member. *)
LEMMA LeastNatural ==
    ASSUME NEW T \in SUBSET Nat, T # {}
    PROVE  \E m \in T : \A k \in T : m <= k
<1> DEFINE R == OpToRel(<, Nat)
<1>1. IsWellFoundedOn(R, Nat)
  BY NatLessThanWellFounded
<1>2. \A x, y \in Nat : y < x => <<y, x>> \in R
  BY DEF OpToRel
<1> HIDE DEF R
<1>3. PICK x \in T : \A y \in T : ~ (<<y, x>> \in R)
  BY <1>1, WFMin
<1>4. ASSUME NEW k \in T PROVE x <= k
  <2>1. x \in Nat /\ k \in Nat /\ ~(k < x)
    BY <1>2, <1>3
  <2> QED BY <2>1
<1> QED BY <1>4

(* So one that holds 0 and with each member the next is all of them. *)
LEMMA AllNaturals ==
    ASSUME NEW T \in SUBSET Nat, 0 \in T, \A n \in T : n + 1 \in T
    PROVE  T = Nat
<1> SUFFICES ASSUME Nat \ T # {} PROVE FALSE
  OBVIOUS
<1>1. PICK m \in Nat \ T : \A k \in Nat \ T : m <= k
  BY LeastNatural
<1>2. m # 0 /\ m - 1 \in Nat /\ m - 1 \notin Nat \ T
  BY <1>1
<1> QED BY <1>1, <1>2

(* A recursion over the naturals in a set M has a function that follows it. *)
Follows(f, m, s, n) == f[0] = m /\ \A i \in 1..n : f[i] = s[i][f[i - 1]]
Followed(M, m, s, n) == \E f \in [0..n -> M] : Follows(f, m, s, n)

LEMMA RecursionExists ==
    ASSUME NEW M, NEW m \in M, NEW s \in [Nat -> [M -> M]], NEW n \in Nat
    PROVE  Followed(M, m, s, n)
<1> DEFINE Runs(f, k) == f[0] = m /\ \A i \in 1..k : f[i] = s[i][f[i - 1]]
           T == {k \in Nat : \E f \in [0..k -> M] : Runs(f, k)}
<1>1. 0 \in T
  <2> DEFINE f == [i \in 0..0 |-> m]
  <2>1. f \in [0..0 -> M] /\ f[0] = m
    OBVIOUS
  <2>2. Runs(f, 0)
    BY <2>1
  <2> QED BY <2>1, <2>2
<1>2. ASSUME NEW k \in T PROVE k + 1 \in T
  <2>1. k \in Nat /\ k + 1 \in Nat /\ k + 1 \notin 0..k /\ k \in 0..k
    OBVIOUS
  <2>2. PICK f \in [0..k -> M] : Runs(f, k)
    OBVIOUS
  <2> DEFINE g == [i \in 0..(k + 1) |-> IF i = k + 1 THEN s[k + 1][f[k]] ELSE f[i]]
  <2>3. \A i \in 0..(k + 1) : i = k + 1 \/ i \in 0..k
    BY <2>1
  <2>4. s[k + 1] \in [M -> M] /\ f[k] \in M
    BY <2>1
  <2>5. g \in [0..(k + 1) -> M]
    BY <2>3, <2>4
  <2>6. g[k + 1] = s[k + 1][f[k]] /\ \A i \in 0..k : g[i] = f[i]
    BY <2>1
  <2> HIDE DEF g
  <2>7. g[0] = m
    BY <2>1, <2>2, <2>6
  <2>8. ASSUME NEW i \in 1..(k + 1) PROVE g[i] = s[i][g[i - 1]]
    <3>1. CASE i = k + 1
      <4>1. i - 1 = k /\ g[k] = f[k]
        BY <2>1, <2>6, <3>1
      <4> QED BY <2>6, <3>1, <4>1
    <3>2. CASE i # k + 1
      <4>1. i \in 1..k /\ i \in 0..k /\ i - 1 \in 0..k
        BY <2>1, <3>2
      <4>2. f[i] = s[i][f[i - 1]] /\ g[i] = f[i] /\ g[i - 1] = f[i - 1]
        BY <2>2, <2>6, <4>1
      <4> QED BY <4>2
    <3> QED BY <3>1, <3>2
  <2>9. Runs(g, k + 1)
    BY <2>7, <2>8
  <2> HIDE DEF Runs
  <2> QED BY <2>1, <2>5, <2>9
<1>3. T \in SUBSET Nat
  OBVIOUS
<1> HIDE DEF T
<1>4. n \in T
  BY <1>1, <1>2, <1>3, AllNaturals
<1> QED BY <1>4 DEF T, Followed, Follows

-----------------------------------------------------------------------------
(* A run of a piece of code, one operation after another. *)
Log    == Seq(P!Bytes \X P!Bits)
States == [d : [1..2 -> P!Bits], imask : 0..7, hw : [P!Bytes -> P!Bits], rd : Log, wr : Log]
Start(regs, mask, bytes) ==
    [d |-> regs, imask |-> mask, hw |-> bytes, rd |-> <<>>, wr |-> <<>>]

LEMMA OperateTyped ==
    ASSUME NEW s \in States, NEW op \in P!Ops
    PROVE  P!Operate(s, op) \in States
<1>0. s.d \in [1..2 -> P!Bits] /\ s.hw \in [P!Bytes -> P!Bits] /\ s.rd \in Log /\ s.wr \in Log
      /\ s.imask \in 0..7
      /\ s = [d |-> s.d, imask |-> s.imask, hw |-> s.hw, rd |-> s.rd, wr |-> s.wr]
  BY DEF States
<1>1. CASE op \in [k : {"read"}, a : P!Bytes, r : 1..2]
  <2>1. op.k = "read" /\ op.a \in P!Bytes /\ op.r \in 1..2
    BY <1>1
  <2>2. /\ [s.d EXCEPT ![op.r] = s.hw[op.a]] \in [1..2 -> P!Bits]
        /\ s.hw[op.a] \in P!Bits
    BY <1>0, <2>1
  <2>3. P!Peek(s.hw, op.a) \in [P!Bytes -> P!Bits]
    <3>1. \A b \in P!Bits : 1 - b \in P!Bits
      BY DEF P!Bits
    <3>2. \A x \in P!Bytes : s.hw[x] \in P!Bits /\ 1 - s.hw[x] \in P!Bits
      BY <1>0, <3>1
    <3> QED BY <1>0, <3>2 DEF P!Peek
  <2>4. Append(s.rd, <<op.a, s.hw[op.a]>>) \in Log
    BY <1>0, <2>1, <2>2 DEF Log
  <2>5. P!Operate(s, op) = [s EXCEPT !.d = [s.d EXCEPT ![op.r] = s.hw[op.a]],
                                     !.hw = P!Peek(s.hw, op.a),
                                     !.rd = Append(s.rd, <<op.a, s.hw[op.a]>>)]
    BY <1>0, <2>1 DEF P!Operate
  <2> QED BY <1>0, <2>2, <2>3, <2>4, <2>5 DEF States
<1>2. CASE op \in [k : {"write"}, a : P!Bytes, r : 1..2]
  <2>1. op.k = "write" /\ op.a \in P!Bytes /\ op.r \in 1..2
    BY <1>2
  <2>2. s.d[op.r] \in P!Bits /\ [s.hw EXCEPT ![op.a] = s.d[op.r]] \in [P!Bytes -> P!Bits]
    BY <1>0, <2>1
  <2>3. Append(s.wr, <<op.a, s.d[op.r]>>) \in Log
    BY <1>0, <2>1, <2>2 DEF Log
  <2>4. P!Operate(s, op) = [s EXCEPT !.hw = [s.hw EXCEPT ![op.a] = s.d[op.r]],
                                     !.wr = Append(s.wr, <<op.a, s.d[op.r]>>)]
    BY <1>0, <2>1 DEF P!Operate
  <2> QED BY <1>0, <2>2, <2>3, <2>4 DEF States
<1>3. CASE op \in [k : {"not"}, r : 1..2]
  <2>1. op.k = "not" /\ op.r \in 1..2
    BY <1>3
  <2>2. [s.d EXCEPT ![op.r] = 1 - s.d[op.r]] \in [1..2 -> P!Bits]
    <3>1. 1 - s.d[op.r] \in P!Bits
      BY <1>0, <2>1 DEF P!Bits
    <3> QED BY <1>0, <2>1, <3>1
  <2>3. P!Operate(s, op) = [s EXCEPT !.d = [s.d EXCEPT ![op.r] = 1 - s.d[op.r]]]
    BY <1>0, <2>1 DEF P!Operate
  <2> QED BY <1>0, <2>2, <2>3 DEF States
<1>4. CASE op \in [k : {"mask"}, m : 0..7]
  BY <1>0, <1>4 DEF P!Operate, States
<1> QED BY <1>1, <1>2, <1>3, <1>4 DEF P!Ops

(* The states it goes through. *)
Through(f, ops, s) ==
    /\ f \in [0..Len(ops) -> States]
    /\ f[0] = s
    /\ \A n \in 1..Len(ops) : f[n] = P!Operate(f[n - 1], ops[n])

LEMMA RunIs ==
    ASSUME NEW ops \in Seq(P!Ops), NEW regs \in [1..2 -> P!Bits], NEW mask \in 0..7,
           NEW bytes \in [P!Bytes -> P!Bits]
    PROVE  \E f : /\ Through(f, ops, Start(regs, mask, bytes))
                  /\ P!Run(ops, regs, mask, bytes) = f[Len(ops)]
<1> DEFINE n == Len(ops)
           m == Start(regs, mask, bytes)
           one(k, x) == P!Operate(x, ops[k])
           Is(h) == h = [k \in 0..n |-> IF k = 0 THEN m ELSE one(k, h[k - 1])]
           s == [k \in Nat |-> [x \in States |-> IF k \in 1..n THEN one(k, x) ELSE x]]
           f == CHOOSE h : Is(h)
<1>1. n \in Nat /\ m \in States
  <2>1. <<>> \in Log
    BY DEF Log
  <2> QED BY <2>1 DEF States, Start
<1>2. ASSUME NEW k \in 1..n, NEW x \in States PROVE one(k, x) \in States
  <2>1. ops[k] \in P!Ops
    OBVIOUS
  <2> QED BY <2>1, OperateTyped
<1>3. s \in [Nat -> [States -> States]]
  <2> HIDE DEF one, n
  <2> QED BY <1>2
<1>4. \A k \in 1..n, x \in States : s[k][x] = one(k, x)
  <2>1. \A k \in 1..n : k \in Nat
    BY <1>1
  <2> HIDE DEF one, n
  <2> QED BY <2>1
<1>5. P!Run(ops, regs, mask, bytes) = f[n]
  BY DEF P!Run, f, n, one, Start
<1> HIDE DEF s, one, n, f, m
<1>6. PICK h \in [0..n -> States] : h[0] = m /\ \A k \in 1..n : h[k] = s[k][h[k - 1]]
  <2>1. Followed(States, m, s, n)
    BY <1>1, <1>3, RecursionExists
  <2> QED BY <2>1 DEF Followed, Follows
<1>7. ASSUME NEW k \in 0..n, k # 0 PROVE h[k] = one(k, h[k - 1])
  <2>1. k \in 1..n /\ k - 1 \in 0..n
    BY <1>1, <1>7
  <2> QED BY <1>4, <1>6, <2>1
<1>8. h = [k \in 0..n |-> IF k = 0 THEN m ELSE one(k, h[k - 1])]
  <2>1. \A k \in 0..n : h[k] = IF k = 0 THEN m ELSE one(k, h[k - 1])
    BY <1>6, <1>7
  <2> QED BY <2>1
<1>9. Is(f)
  <2>1. Is(h)
    BY <1>8, Zenon
  <2> HIDE DEF Is
  <2> QED BY <2>1 DEF f
<1>10. \A k \in 0..n : f[k] = IF k = 0 THEN m ELSE one(k, f[k - 1])
  BY <1>9, Zenon
<1>11. f = [k \in 0..n |-> IF k = 0 THEN m ELSE one(k, f[k - 1])]
  BY <1>9, Zenon
<1>12. 0 \in 0..n /\ \A k \in 1..n : k \in 0..n /\ k # 0
  BY <1>1
<1>13. f[0] = m /\ \A k \in 1..n : f[k] = one(k, f[k - 1])
  BY <1>10, <1>12, Zenon
<1>14. f \in [0..n -> States]
  <2> DEFINE T == {k \in Nat : k <= n => f[k] \in States}
  <2>1. 0 \in T
    BY <1>1, <1>13
  <2>2. ASSUME NEW k \in T PROVE k + 1 \in T
    <3>1. k \in Nat /\ k + 1 \in Nat /\ (k + 1) - 1 = k /\ (k <= n => f[k] \in States)
      OBVIOUS
    <3>2. k + 1 <= n => k + 1 \in 1..n /\ k <= n
      BY <1>1, <3>1
    <3>3. k + 1 <= n => f[k + 1] = one(k + 1, f[k])
      BY <1>13, <3>1, <3>2
    <3> QED BY <1>2, <3>1, <3>2, <3>3
  <2>3. T \in SUBSET Nat
    OBVIOUS
  <2> HIDE DEF T
  <2>4. T = Nat
    BY <2>1, <2>2, <2>3, AllNaturals
  <2>5. \A k \in 0..n : k \in T /\ k <= n
    BY <1>1, <2>4
  <2>6. \A k \in 0..n : f[k] \in States
    BY <2>5 DEF T
  <2> QED BY <1>11, <2>6
<1>15. Through(f, ops, m)
  BY <1>13, <1>14 DEF Through, n, one
<1> QED BY <1>5, <1>15 DEF n, m

LEMMA RunTyped ==
    ASSUME NEW ops \in Seq(P!Ops), NEW regs \in [1..2 -> P!Bits], NEW mask \in 0..7,
           NEW bytes \in [P!Bytes -> P!Bits]
    PROVE  P!Run(ops, regs, mask, bytes) \in States
<1>1. PICK f : /\ Through(f, ops, Start(regs, mask, bytes))
               /\ P!Run(ops, regs, mask, bytes) = f[Len(ops)]
  BY RunIs
<1>2. Len(ops) \in 0..Len(ops)
  OBVIOUS
<1> QED BY <1>1, <1>2 DEF Through

-----------------------------------------------------------------------------
(* Addresses as the whole program has them. *)
LEMMA PlaceIs ==
    ASSUME NEW a
    PROVE  P!Place(a) = Place(a) /\ Place(Place(a)) = Place(a)
  BY DEF P!Place, Place, P!At

LEMMA ShownAtPlace ==
    ASSUME NEW a, NEW bytes
    PROVE  P!Shown(Place(a), bytes) = P!Shown(a, bytes)
<1>1. CASE a.w = "win"
  <2>1. Place(a).w = "low" /\ Place(a).o = a.o
    BY <1>1 DEF Place
  <2> QED BY <1>1, <2>1 DEF P!Shown
<1>2. CASE a.w # "win"
  BY <1>2 DEF Place
<1> QED BY <1>1, <1>2

(* A block's address is the place of its offset: a yield loses nothing. *)
LEMMA PlaceOfBlock ==
    ASSUME NEW a, Address(a), Dispatchable(a)
    PROVE  Place(a) = Low(Canon(a)) /\ Place(Low(Canon(a))) = Low(Canon(a))
<1>1. Canon(a) # None
  BY RecompAssumption DEF Dispatchable
<1>2. a.w \in {"low", "win"} /\ Canon(a) = a.o
  BY <1>1 DEF Canon
<1> QED BY <1>2 DEF Place, Low, Address, P!At

(* The exception frames, as the whole program has them. *)
Folded(frames) == [k \in 1..Len(frames) |-> <<Place(frames[k][1]), frames[k][2]>>]

LEMMA FoldedIs ==
    ASSUME NEW S, NEW frames \in Seq(S)
    PROVE  /\ Folded(frames) \in Seq({<<Place(f[1]), f[2]>> : f \in S})
           /\ Len(Folded(frames)) = Len(frames)
           /\ \A k \in 1..Len(frames) : Folded(frames)[k] = <<Place(frames[k][1]), frames[k][2]>>
<1> DEFINE B == {<<Place(f[1]), f[2]>> : f \in S}
<1>1. Len(frames) \in Nat /\ \A k \in 1..Len(frames) : <<Place(frames[k][1]), frames[k][2]>> \in B
  OBVIOUS
<1> HIDE DEF B
<1>2. Folded(frames) \in [1..Len(frames) -> B]
  BY <1>1 DEF Folded
<1>3. Folded(frames) \in Seq(B) /\ Len(Folded(frames)) = Len(frames)
  BY <1>1, <1>2
<1> QED BY <1>1, <1>3 DEF B, Folded

LEMMA FoldedAppend ==
    ASSUME NEW S, NEW frames \in Seq(S), NEW f
    PROVE  Folded(Append(frames, f)) = Append(Folded(frames), <<Place(f[1]), f[2]>>)
<1> DEFINE a == Append(frames, f)
           g == <<Place(f[1]), f[2]>>
           b == Append(Folded(frames), g)
<1>1. frames \in Seq(S \cup {f}) /\ a \in Seq(S \cup {f}) /\ Len(a) = Len(frames) + 1
      /\ Len(frames) \in Nat
  OBVIOUS
<1>2. \A k \in 1..Len(a) : a[k] = IF k = Len(frames) + 1 THEN f ELSE frames[k]
  BY <1>1
<1>3. Len(Folded(frames)) = Len(frames) /\ \E B : Folded(frames) \in Seq(B)
  BY FoldedIs
<1>4. PICK B : Folded(frames) \in Seq(B)
  BY <1>3
<1>5. b \in Seq(B \cup {g}) /\ Len(b) = Len(frames) + 1
  <2>1. Folded(frames) \in Seq(B \cup {g}) /\ g \in B \cup {g}
    BY <1>4
  <2> HIDE DEF g
  <2> QED BY <1>3, <2>1
<1>6. \A k \in 1..Len(b) : b[k] = IF k = Len(frames) + 1 THEN g ELSE Folded(frames)[k]
  <2> HIDE DEF g
  <2> QED BY <1>1, <1>3, <1>4, <1>5
<1>7. \A k \in 1..Len(frames) : Folded(frames)[k] = <<Place(frames[k][1]), frames[k][2]>>
  BY FoldedIs
<1>8. Folded(a) \in Seq({<<Place(x[1]), x[2]>> : x \in S \cup {f}})
      /\ Len(Folded(a)) = Len(a)
      /\ \A k \in 1..Len(a) : Folded(a)[k] = <<Place(a[k][1]), a[k][2]>>
  BY <1>1, FoldedIs
<1> HIDE DEF a, b
<1>9. \A k \in 1..Len(a) : Folded(a)[k] = b[k]
  <2>1. ASSUME NEW k \in 1..Len(a) PROVE Folded(a)[k] = b[k]
    <3>1. CASE k = Len(frames) + 1
      BY <1>1, <1>2, <1>5, <1>6, <1>8, <3>1 DEF g
    <3>2. CASE k # Len(frames) + 1
      <4>1. k \in 1..Len(frames) /\ k \in 1..Len(b) /\ a[k] = frames[k]
        BY <1>1, <1>2, <1>5, <3>2
      <4> QED BY <1>6, <1>7, <1>8, <3>2, <4>1
    <3> QED BY <3>1, <3>2
  <2> QED BY <2>1
<1>10. Folded(a) = b
  <2>1. Len(Folded(a)) = Len(b)
    BY <1>1, <1>5, <1>8
  <2>2. Folded(a) = [k \in 1..Len(a) |-> Folded(a)[k]]
    BY <1>8
  <2>3. b = [k \in 1..Len(b) |-> b[k]]
    BY <1>5
  <2> QED BY <1>1, <1>5, <1>9, <2>2, <2>3
<1> QED BY <1>10 DEF a, b

LEMMA FrontElements ==
    ASSUME NEW S, NEW s \in Seq(S), s # <<>>
    PROVE  /\ Front(s) \in Seq(S) /\ Len(Front(s)) = Len(s) - 1
           /\ \A k \in 1..(Len(s) - 1) : Front(s)[k] = s[k]
<1> DEFINE n == Len(s)
           q == Front(s)
<1>1. q = SubSeq(s, 1, n - 1)
  BY DEF Front
<1>2. n \in Nat /\ n > 0 /\ n = Len(s) /\ \A i \in 1..(n - 1) : s[i] \in S
  OBVIOUS
<1> HIDE DEF q, n
<1>3. /\ q \in Seq(S)
      /\ Len(q) = IF 1 <= n - 1 THEN n - 1 - 1 + 1 ELSE 0
      /\ \A k \in 1..(n - 1 - 1 + 1) : q[k] = s[1 + k - 1]
  BY <1>1, <1>2, SubSeqProperties
<1> QED BY <1>2, <1>3 DEF q

LEMMA SameEnds ==
    ASSUME NEW s
    PROVE  P!Front(s) = Front(s) /\ P!Last(s) = Last(s)
  BY DEF Front, Last, P!Front, P!Last

LEMMA FoldedFront ==
    ASSUME NEW S, NEW frames \in Seq(S), frames # <<>>
    PROVE  /\ Folded(Front(frames)) = Front(Folded(frames))
           /\ Last(Folded(frames)) = <<Place(Last(frames)[1]), Last(frames)[2]>>
           /\ Last(frames) \in S
<1> DEFINE n == Len(frames)
           g == Folded(frames)
<1>1. n \in Nat /\ n > 0 /\ n \in 1..n /\ n - 1 \in Nat
  OBVIOUS
<1>2. Front(frames) \in Seq(S) /\ Len(Front(frames)) = n - 1
      /\ \A k \in 1..(n - 1) : Front(frames)[k] = frames[k]
  BY FrontElements
<1>3. PICK B : g \in Seq(B)
  BY FoldedIs
<1>4. Len(g) = n /\ \A k \in 1..n : g[k] = <<Place(frames[k][1]), frames[k][2]>>
  BY FoldedIs
<1> HIDE DEF g
<1>5. Front(g) \in Seq(B) /\ Len(Front(g)) = n - 1 /\ \A k \in 1..(n - 1) : Front(g)[k] = g[k]
  <2>1. g # <<>>
    BY <1>1, <1>4
  <2> QED BY <1>3, <1>4, <2>1, FrontElements
<1>6. Front(g) = [k \in 1..(n - 1) |-> Front(g)[k]]
  BY <1>5
<1>7. Folded(Front(frames)) = [k \in 1..(n - 1) |-> <<Place(frames[k][1]), frames[k][2]>>]
  BY <1>2 DEF Folded
<1>8. \A k \in 1..(n - 1) : Front(g)[k] = <<Place(frames[k][1]), frames[k][2]>>
  BY <1>1, <1>4, <1>5
<1>9. Folded(Front(frames)) = Front(g)
  BY <1>6, <1>7, <1>8
<1>10. Last(frames) = frames[n] /\ Last(g) = g[n] /\ frames[n] \in S
  BY <1>1, <1>4 DEF Last
<1> QED BY <1>1, <1>2, <1>4, <1>9, <1>10 DEF g

(* Where a piece goes, and what it leaves of the frames. *)
LEMMA LeavesTo ==
    ASSUME NEW c, NEW from, NEW regs, NEW S, NEW frames \in Seq(S), c.rte => frames # <<>>
    PROVE  Place(P!Leaves(c, Place(from), regs, Folded(frames)))
             = Place(P!Leaves(c, from, regs, frames))
<1> DEFINE to == c.to[regs[1] + 1]
<1>1. CASE c.rte
  <2>1. P!Leaves(c, from, regs, frames) = Last(frames)[1]
    BY <1>1, SameEnds DEF P!Leaves
  <2>2. P!Leaves(c, Place(from), regs, Folded(frames)) = Place(Last(frames)[1])
    BY <1>1, FoldedFront, SameEnds DEF P!Leaves
  <2> QED BY <2>1, <2>2, PlaceIs
<1>2. CASE ~c.rte /\ to.w = "rel"
  <2>1. P!Leaves(c, from, regs, frames) = P!At(from.w, to.o)
    BY <1>2 DEF P!Leaves
  <2>2. P!Leaves(c, Place(from), regs, Folded(frames)) = P!At(Place(from).w, to.o)
    BY <1>2 DEF P!Leaves
  <2> QED BY <2>1, <2>2 DEF Place, P!At
<1>3. CASE ~c.rte /\ to.w # "rel"
  BY <1>3 DEF P!Leaves
<1> QED BY <1>1, <1>2, <1>3

LEMMA LeavesAddress ==
    ASSUME NEW c, IsPiece(c), NEW from, NEW regs \in [1..2 -> P!Bits],
           NEW S, NEW frames \in Seq(S), \A f \in S : Address(f[1]),
           c.rte => frames # <<>>, from.w \in Windows
    PROVE  Address(P!Leaves(c, from, regs, frames))
<1> DEFINE to == c.to[regs[1] + 1]
<1>1. regs[1] + 1 \in {1, 2}
  BY DEF P!Bits
<1>2. Address(to) \/ to.w = "rel"
  <2>1. Address(to) \/ to = P!At("rel", to.o)
    BY <1>1 DEF IsPiece
  <2> HIDE DEF to
  <2> QED BY <2>1 DEF P!At
<1>3. \A x : \A w \in Windows : Address(P!At(w, x))
  BY DEF Address, P!At
<1>4. CASE c.rte
  <2>1. Last(frames) \in S
    BY <1>4, FoldedFront
  <2> QED BY <1>4, <2>1, SameEnds DEF P!Leaves
<1>5. CASE ~c.rte
  <2>1. to.w # "rel" => Address(to)
    BY <1>2
  <2>2. to.w = "rel" => Address(P!At(from.w, to.o))
    BY <1>3
  <2> QED BY <1>5, <2>1, <2>2 DEF P!Leaves
<1> QED BY <1>4, <1>5

-----------------------------------------------------------------------------
(* Every address is one, the state is one a piece runs from, and what is    *)
(* recorded is recompiled code's.                                           *)
Framed(S) == stack \in Seq(S) /\ \A f \in S : Address(f[1]) /\ f[2] \in 0..5

Recording == xchk_mode = "record" => backend = "recomp" /\ turn = "run"

Machine ==
    /\ Address(pc)
    /\ d \in [1..2 -> P!Bits] /\ imask \in 0..7 /\ hw \in [P!Bytes -> P!Bits]
    /\ \E S : Framed(S)
    /\ Recording
    /\ fault \in Faults \cup {None}

(* The step of the program: a piece of code, an interrupt, another          *)
(* processor's access, or nothing it sees.                                  *)
WholeStep == [P!Next]_(P!vars)

LEMMA FramesFolded == Frames = Folded(stack) /\ Frames' = Folded(stack')
  BY DEF Frames, Folded

LEMMA Unseen ==
    ASSUME UNCHANGED <<d, imask, stack, hw>>, Place(pc') = Place(pc)
    PROVE  WholeStep
<1>1. Frames' = Frames /\ (Place(pc))' = Place(pc)
  BY DEF Frames, Place
<1> QED BY <1>1 DEF WholeStep, P!vars

LEMMA EntersWhole ==
    ASSUME Machine, Enter, Takes, UNCHANGED <<d, hw>>
    PROVE  WholeStep
<1>1. PICK S : Framed(S)
  BY DEF Machine
<1>2. Folded(stack') = Append(Folded(stack), <<Place(pc), imask>>)
  <2> DEFINE f == <<pc, imask>>
  <2>1. f[1] = pc /\ f[2] = imask /\ stack' = Append(stack, f)
    BY DEF Enter
  <2> HIDE DEF f
  <2>2. stack \in Seq(S)
    BY <1>1 DEF Framed
  <2>3. Folded(Append(stack, f)) = Append(Folded(stack), <<Place(f[1]), f[2]>>)
    BY <2>2, FoldedAppend
  <2> QED BY <2>1, <2>3
<1>3. P!Vint > imask /\ imask' = P!Vint /\ pc' = P!At("win", Handler)
  BY DEF Enter, Takes
<1>4. (Place(pc))' = P!Place(P!At("win", Handler))
  <2>1. (Place(pc))' = Place(pc')
    BY DEF Place
  <2> QED BY <1>3, <2>1, PlaceIs
<1>5. Frames' = Append(Frames, <<Place(pc), imask>>)
  BY <1>2, FramesFolded
<1>6. P!Interrupt
  BY <1>3, <1>4, <1>5 DEF P!Interrupt
<1> QED BY <1>6 DEF WholeStep, P!Next

LEMMA EntersMachine ==
    ASSUME Machine, Enter, Takes, UNCHANGED <<d, hw, fault>>, Recording'
    PROVE  Machine'
<1>1. PICK S : Framed(S)
  BY DEF Machine
<1> DEFINE f == <<pc, imask>>
           T == S \cup {f}
<1>2. f[1] = pc /\ f[2] = imask /\ stack' = Append(stack, f)
  BY DEF Enter
<1>3. stack \in Seq(T) /\ f \in T
  BY <1>1 DEF Framed
<1>4. \A x \in T : Address(x[1]) /\ x[2] \in 0..5
  <2>1. imask \in 0..5
    BY DEF Machine, Takes, P!Vint
  <2> QED BY <1>1, <1>2, <2>1 DEF Framed, Machine
<1> HIDE DEF f, T
<1>5. stack' \in Seq(T)
  BY <1>2, <1>3
<1>6. \E S1 : stack' \in Seq(S1) /\ \A x \in S1 : Address(x[1]) /\ x[2] \in 0..5
  BY <1>4, <1>5
<1>7. Address(pc') /\ imask' \in 0..7
  BY DEF Enter, Address, Windows, P!At, P!Vint
<1> QED BY <1>6, <1>7 DEF Machine, Framed, Address

(* A piece of code run whole, from its place: what of it reaches the state.  *)
Pieced(c, s, to) ==
    /\ d' = s.d /\ hw' = s.hw
    /\ Place(pc') = Place(to)
    /\ imask' = IF c.rte THEN Last(stack)[2] ELSE s.imask
    /\ stack' = IF c.rte THEN Front(stack) ELSE stack

LEMMA PieceWhole ==
    ASSUME Machine, InItsCode, NEW c, c = Code[P!Shown(pc, hw)],
           Pieced(c, P!Run(c.ops, d, imask, hw),
                  P!Leaves(c, pc, P!Run(c.ops, d, imask, hw).d, stack))
    PROVE  WholeStep
<1> DEFINE s == P!Run(c.ops, d, imask, hw)
<1>1. PICK S : Framed(S)
  BY DEF Machine
<1>2. c.rte => stack # <<>>
  BY DEF InItsCode
<1>3. Code[P!Shown(Place(pc), hw)] = c
  BY ShownAtPlace
<1> HIDE DEF s
<1>4. (Place(pc))' = P!Place(P!Leaves(c, Place(pc), s.d, Frames))
  <2>1. (Place(pc))' = Place(pc')
    BY DEF Place
  <2>2. Place(pc') = Place(P!Leaves(c, pc, s.d, stack))
    BY DEF Pieced, s
  <2>3. Place(P!Leaves(c, Place(pc), s.d, Folded(stack))) = Place(P!Leaves(c, pc, s.d, stack))
    BY <1>1, <1>2, LeavesTo DEF Framed
  <2> QED BY <2>1, <2>2, <2>3, FramesFolded, PlaceIs
<1>5. imask' = (IF c.rte THEN P!Last(Frames)[2] ELSE s.imask)
      /\ Frames' = IF c.rte THEN P!Front(Frames) ELSE Frames
  <2>1. CASE c.rte
    <3>1. /\ Folded(Front(stack)) = Front(Folded(stack))
          /\ Last(Folded(stack)) = <<Place(Last(stack)[1]), Last(stack)[2]>>
      BY <1>1, <1>2, <2>1, FoldedFront DEF Framed
    <3>2. imask' = Last(stack)[2] /\ stack' = Front(stack)
      BY <2>1 DEF Pieced
    <3> QED BY <2>1, <3>1, <3>2, FramesFolded, SameEnds
  <2>2. CASE ~c.rte
    BY <2>2, FramesFolded DEF Pieced, s
  <2> QED BY <2>1, <2>2
<1>6. d' = s.d /\ hw' = s.hw
  BY DEF Pieced, s
<1>7. P!Execute
  BY <1>3, <1>4, <1>5, <1>6 DEF P!Execute, s
<1> QED BY <1>7 DEF WholeStep, P!Next

LEMMA PieceMachine ==
    ASSUME Machine, NEW c, IsPiece(c), c.rte => stack # <<>>, NEW from, from.w \in Windows,
           Pieced(c, P!Run(c.ops, d, imask, hw), pc'),
           pc' = P!Leaves(c, from, P!Run(c.ops, d, imask, hw).d, stack),
           UNCHANGED fault, Recording'
    PROVE  Machine'
<1> DEFINE s == P!Run(c.ops, d, imask, hw)
<1>1. PICK S : Framed(S)
  BY DEF Machine
<1>2. s \in States
  BY RunTyped DEF Machine, IsPiece
<1> HIDE DEF s
<1>3. d' \in [1..2 -> P!Bits] /\ hw' \in [P!Bytes -> P!Bits] /\ s.imask \in 0..7
      /\ s.d \in [1..2 -> P!Bits]
  BY <1>2 DEF Pieced, s, States
<1>4. stack' \in Seq(S) /\ imask' \in 0..7
  <2>1. CASE c.rte
    <3>1. Last(stack) \in S /\ Front(stack) \in Seq(S)
      BY <1>1, <2>1, FoldedFront, FrontElements DEF Framed
    <3> QED BY <1>1, <2>1, <3>1 DEF Pieced, Framed
  <2>2. CASE ~c.rte
    BY <1>1, <1>3, <2>2 DEF Pieced, Framed, s
  <2> QED BY <2>1, <2>2
<1>5. \E S1 : stack' \in Seq(S1) /\ \A x \in S1 : Address(x[1]) /\ x[2] \in 0..5
  BY <1>1, <1>4 DEF Framed
<1>6. Address(pc')
  <2>1. stack \in Seq(S) /\ \A f \in S : Address(f[1])
    BY <1>1 DEF Framed
  <2>2. Address(P!Leaves(c, from, s.d, stack))
    BY <1>3, <2>1, LeavesAddress
  <2> QED BY <2>2 DEF s
<1> QED BY <1>3, <1>4, <1>5, <1>6 DEF Machine, Framed, Address

(* Another processor's access is one of the program's world. *)
LEMMA Visited ==
    ASSUME Machine, Others
    PROVE  Machine' /\ WholeStep
<1>0. UNCHANGED <<fault, pc, d, imask, stack>> /\ Recording'
  BY DEF Others, build, Machine, Recording
<1>1. \/ hw' = hw
      \/ \E a \in {"lo", "port"} : hw' = P!Peek(hw, a)
      \/ \E b \in P!Bits : hw' = [hw EXCEPT !["lo"] = b]
  BY DEF Others
<1>2. Frames' = Frames /\ (Place(pc))' = Place(pc)
  BY <1>0 DEF Frames, Place
<1>3. ASSUME hw' \in [P!Bytes -> P!Bits] PROVE Machine'
  BY <1>0, <1>3 DEF Machine, Framed, Address
<1>4. CASE hw' = hw
  BY <1>0, <1>3, <1>4, Unseen DEF Machine
<1>5. CASE \E a \in {"lo", "port"} : hw' = P!Peek(hw, a)
  <2>1. PICK a \in {"lo", "port"} : hw' = P!Peek(hw, a)
    BY <1>5
  <2>2. \A x \in P!Bits : 1 - x \in P!Bits
    BY DEF P!Bits
  <2>3. "port" \in P!Bytes /\ a \in P!Bytes
    BY DEF P!Bytes
  <2>4. hw' \in [P!Bytes -> P!Bits]
    BY <2>1, <2>2, <2>3 DEF Machine, P!Peek
  <2>5. P!Elsewhere
    BY <1>0, <1>2, <2>1, <2>3 DEF P!Elsewhere
  <2> QED BY <1>3, <2>4, <2>5 DEF WholeStep, P!Next
<1>6. CASE \E b \in P!Bits : hw' = [hw EXCEPT !["lo"] = b]
  <2>1. hw' \in [P!Bytes -> P!Bits]
    BY <1>6 DEF Machine
  <2>2. P!Elsewhere
    BY <1>0, <1>2, <1>6 DEF P!Elsewhere
  <2> QED BY <1>3, <2>1, <2>2 DEF WholeStep, P!Next
<1> QED BY <1>1, <1>4, <1>5, <1>6

LEMMA Interpreted ==
    ASSUME Machine, InItsCode, Interpret, UNCHANGED fault, Recording'
    PROVE  WholeStep /\ Machine'
<1> DEFINE c == Code[P!Shown(pc, hw)]
           s == P!Run(c.ops, d, imask, hw)
<1>1. pc' = P!Leaves(c, pc, s.d, stack)
  BY DEF Interpret
<1>2. /\ d' = s.d /\ hw' = s.hw
      /\ imask' = IF c.rte THEN Last(stack)[2] ELSE s.imask
      /\ stack' = IF c.rte THEN Front(stack) ELSE stack
  BY DEF Interpret
<1>3. Pieced(c, s, P!Leaves(c, pc, s.d, stack)) /\ Pieced(c, s, pc')
  BY <1>1, <1>2 DEF Pieced
<1>4. IsPiece(c) /\ (c.rte => stack # <<>>)
  BY PieceAssumption DEF InItsCode
<1>5. WholeStep
  BY <1>3, PieceWhole
<1>6. Machine'
  <2>1. pc.w \in Windows
    BY DEF Machine, Address
  <2> QED BY <1>1, <1>3, <1>4, <2>1, PieceMachine
<1> QED BY <1>5, <1>6

(* What a block runs, mistranslated or not: a piece that returns where its  *)
(* code does.                                                               *)
LEMMA GeneratedIs ==
    ASSUME NEW o \in Compiled, fault \in Faults \cup {None}
    PROVE  /\ IsPiece(Generated(o)) /\ Generated(o).rte = Code[o].rte /\ IsPiece(Code[o])
           /\ (fault = None \/ fault.of # o) => Generated(o) = Emitted[o]
           /\ (fault # None /\ fault.of = o) => Generated(o) = fault.code
<1>1. o \in DOMAIN Code
  BY RecompAssumption
<1>2. CASE fault # None /\ fault.of = o
  BY <1>1, <1>2, PieceAssumption DEF Generated
<1>3. CASE ~(fault # None /\ fault.of = o)
  BY <1>1, <1>3, PieceAssumption, FaithfulAssumption DEF Generated
<1> QED BY <1>2, <1>3

LEMMA BlockMachine ==
    ASSUME Machine, InItsCode, Block
    PROVE  Machine'
<1> DEFINE off == Canon(pc)
           gen == Generated(off)
           g   == P!Run(gen.ops, d, imask, hw)
<1>1. Dispatchable(pc) /\ P!Shown(pc, hw) = off /\ off \in Compiled
  BY BlockIsShown DEF Block, Dispatchable
<1>2. IsPiece(gen) /\ (gen.rte => stack # <<>>)
  BY <1>1, GeneratedIs DEF InItsCode, Machine
<1>3. /\ d' = g.d /\ hw' = g.hw
      /\ pc' = P!Leaves(gen, Low(off), g.d, stack)
      /\ imask' = IF gen.rte THEN Last(stack)[2] ELSE g.imask
      /\ stack' = IF gen.rte THEN Front(stack) ELSE stack
      /\ UNCHANGED <<backend, xchk_mode, turn, fault>>
  BY DEF Block, build
<1>4. Recording'
  BY <1>3 DEF Machine, Recording
<1> HIDE DEF gen, off
<1>5. Pieced(gen, g, pc')
  BY <1>3 DEF Pieced
<1>6. Low(off).w \in Windows
  BY DEF Low, P!At, Windows
<1> QED BY <1>2, <1>3, <1>4, <1>5, <1>6, PieceMachine

(* A block does what its offset holds: what was generated for it leaves the  *)
(* same state and goes to the same place.                                    *)
LEMMA Recompiled ==
    ASSUME Machine, InItsCode, fault = None, Block
    PROVE  WholeStep
<1> DEFINE off == Canon(pc)
           gen == Generated(off)
           c   == Code[P!Shown(pc, hw)]
           g   == P!Run(gen.ops, d, imask, hw)
           s   == P!Run(c.ops, d, imask, hw)
<1>1. Dispatchable(pc) /\ P!Shown(pc, hw) = off /\ off \in Compiled
  BY BlockIsShown DEF Block, Dispatchable
<1>2. gen = Emitted[off] /\ c = Code[off]
  BY <1>1 DEF Generated
<1>3. /\ d' = g.d /\ hw' = g.hw
      /\ pc' = P!Leaves(gen, Low(off), g.d, stack)
      /\ imask' = IF gen.rte THEN Last(stack)[2] ELSE g.imask
      /\ stack' = IF gen.rte THEN Front(stack) ELSE stack
  BY DEF Block
<1> HIDE DEF gen, c, off
<1>4. gen.to = c.to /\ gen.rte = c.rte /\ g.d = s.d /\ g.imask = s.imask /\ g.hw = s.hw
  BY <1>1, <1>2, FaithfulAssumption DEF Machine
<1> HIDE DEF g, s
<1>5. P!Leaves(gen, Low(off), g.d, stack) = P!Leaves(c, Low(off), s.d, stack)
  BY <1>4 DEF P!Leaves
<1>6. Place(pc) = Low(off) /\ Place(Low(off)) = Low(off)
  BY <1>1, PlaceOfBlock DEF Machine, off
<1>7. PICK S : Framed(S)
  BY DEF Machine
<1>8. c.rte => stack # <<>>
  BY DEF InItsCode, c
<1>9. Place(pc') = Place(P!Leaves(c, pc, s.d, stack))
  <2>1. Place(P!Leaves(c, Place(pc), s.d, Folded(stack))) = Place(P!Leaves(c, pc, s.d, stack))
    BY <1>7, <1>8, LeavesTo DEF Framed
  <2>2. Place(P!Leaves(c, Place(Low(off)), s.d, Folded(stack)))
          = Place(P!Leaves(c, Low(off), s.d, stack))
    BY <1>7, <1>8, LeavesTo DEF Framed
  <2> QED BY <1>3, <1>5, <1>6, <2>1, <2>2
<1>10. Pieced(c, s, P!Leaves(c, pc, s.d, stack))
  BY <1>3, <1>4, <1>9 DEF Pieced
<1> QED BY <1>10, PieceWhole DEF c, s

LEMMA MachineStart == Init => Machine
<1> SUFFICES ASSUME Init PROVE Machine
  OBVIOUS
<1>1. Address(pc)
  BY DEF Init, Low, P!At, Address, Windows
<1>2. stack \in Seq({})
  BY DEF Init
<1>3. d \in [1..2 -> P!Bits] /\ imask \in 0..7 /\ hw \in [P!Bytes -> P!Bits]
  BY DEF Init, P!Bits
<1>4. Recording /\ fault \in Faults \cup {None}
  BY DEF Init, Recording, Off
<1>5. \E S : Framed(S)
  BY <1>2 DEF Framed
<1> QED BY <1>1, <1>3, <1>4, <1>5 DEF Machine

LEMMA MachineStep ==
    ASSUME Machine, InItsCode, [Next]_vars
    PROVE  Machine' /\ (fault = None => WholeStep)
<1>0. UNCHANGED fault /\ UNCHANGED backend
  BY DEF Next, vars, build, Beam, Poll, EndRun, Block, HandOver, Gap, Musashi, Others
<1>r. Recording'
  BY <1>0 DEF Next, Machine, Recording, vars, xchk_vars, Off, ModeOutside,
              Beam, Poll, EndRun, Block, HandOver, Gap, Musashi, Others
<1>a. ASSUME UNCHANGED <<d, imask, stack, hw>>, Place(pc') = Place(pc), Address(pc')
      PROVE  Machine' /\ WholeStep
  <2>1. Machine'
    BY <1>0, <1>a, <1>r DEF Machine, Framed, Address
  <2> QED BY <1>a, <2>1, Unseen
<1>b. ASSUME UNCHANGED <<d, imask, stack, hw, pc>> PROVE Machine' /\ WholeStep
  BY <1>a, <1>b DEF Machine
<1>c. ASSUME Enter, Takes, UNCHANGED <<d, hw>> PROVE Machine' /\ WholeStep
  BY <1>0, <1>c, <1>r, EntersMachine, EntersWhole
<1>1. CASE Beam
  BY <1>1, <1>b DEF Beam, cpu_vars
<1>2. CASE Poll
  BY <1>2, <1>b, <1>c DEF Poll
<1>3. CASE EndRun
  <2>1. UNCHANGED <<d, imask, stack, hw>>
    BY <1>3 DEF EndRun
  <2>2. CASE xchk_mode = "record"
    <3>1. pc' = Low(Canon(pc)) /\ Dispatchable(pc)
      BY <1>3, <2>2 DEF EndRun, Machine, Recording
    <3>2. Place(pc') = Place(pc)
      BY <3>1, PlaceOfBlock DEF Machine
    <3>3. Address(pc')
      BY <3>1 DEF Low, Address, Windows, P!At
    <3> QED BY <1>a, <2>1, <3>2, <3>3
  <2>3. CASE xchk_mode # "record"
    BY <1>3, <1>b, <2>1, <2>3 DEF EndRun
  <2> QED BY <2>2, <2>3
<1>4. CASE Block
  BY <1>4, BlockMachine, Recompiled
<1>5. CASE HandOver
  BY <1>5, <1>b DEF HandOver, cpu_vars
<1>6. CASE Gap
  BY <1>0, <1>6, <1>r, Interpreted DEF Gap
<1>7. CASE Musashi
  BY <1>0, <1>7, <1>c, <1>r, Interpreted DEF Musashi
<1>8. CASE Others
  BY <1>8, Visited
<1>9. CASE UNCHANGED vars
  BY <1>9, <1>b DEF vars, cpu_vars
<1> QED BY <1>1, <1>2, <1>3, <1>4, <1>5, <1>6, <1>7, <1>8, <1>9 DEF Next

(* Implements, for every program that stays in its code: whatever is        *)
(* recompiled, wherever the hand-overs fall and the gaps are, and on either *)
(* backend, each step is a piece of the program, its interrupt, another     *)
(* processor's access, or nothing it sees (m68k_run, cpu_run, canon68k).    *)
THEOREM RunsTheProgram == Spec /\ []InItsCode => Implements
<1>1. Init => P!Init
  <2>1. Init => Place(pc) = P!At("low", Reset)
    BY DEF Init, Low, Place, P!At
  <2>2. Init => Frames = <<>>
    BY DEF Init, Frames
  <2> QED BY <2>1, <2>2 DEF Init, P!Init
<1>2. WholeStep <=> [P!Next]_(P!vars)
  BY DEF WholeStep
<1>3. Machine /\ InItsCode /\ [Next]_vars => Machine' /\ (fault = None => WholeStep)
  BY MachineStep
<1> QED BY <1>1, <1>2, <1>3, MachineStart, PTL DEF Spec, Implements

-----------------------------------------------------------------------------
(* A log's entries at one address, numbered from 0. *)
Count(log, a) == Earlier(log, a, Len(log) + 1)

LEMMA EarlierIs ==
    ASSUME NEW log, NEW a, NEW j \in Nat \ {0}
    PROVE  /\ Earlier(log, a, 1) = 0
           /\ Earlier(log, a, j) \in Nat
           /\ Earlier(log, a, j + 1) = Earlier(log, a, j) + (IF log[j][1] = a THEN 1 ELSE 0)
<1> DEFINE S(k) == {i \in 1..(k - 1) : log[i][1] = a}
<1>0. \A k : Earlier(log, a, k) = Cardinality(S(k))
  BY DEF Earlier
<1>1. \A k \in Nat : IsFiniteSet(S(k))
  <2>1. ASSUME NEW k \in Nat PROVE IsFiniteSet(S(k))
    <3>1. IsFiniteSet(1..(k - 1))
      BY FS_Interval
    <3> QED BY <3>1, FS_Subset
  <2> QED BY <2>1
<1>2. S(1) = {}
  OBVIOUS
<1>3. Cardinality(S(j)) \in Nat
  BY <1>1, FS_CardinalityType
<1>4. CASE log[j][1] = a
  <2>1. S(j + 1) = S(j) \cup {j} /\ j \notin S(j)
    <3>1. (j + 1) - 1 = j /\ 1..j = 1..(j - 1) \cup {j} /\ j \notin 1..(j - 1)
      OBVIOUS
    <3> QED BY <1>4, <3>1
  <2>2. IsFiniteSet(S(j))
    BY <1>1
  <2> HIDE DEF S
  <2>3. Cardinality(S(j + 1)) = Cardinality(S(j)) + 1
    BY <2>1, <2>2, FS_AddElement
  <2> QED BY <1>0, <1>2, <1>3, <1>4, <2>3, FS_EmptySet
<1>5. CASE log[j][1] # a
  <2>1. S(j + 1) = S(j)
    BY <1>5
  <2> HIDE DEF S
  <2>2. Cardinality(S(1)) = 0
    BY <1>2, FS_EmptySet
  <2> QED BY <1>0, <1>3, <1>5, <2>1, <2>2
<1> QED BY <1>4, <1>5

LEMMA EarlierGrows ==
    ASSUME NEW log, NEW a, NEW i \in Nat \ {0}, NEW j \in Nat, i <= j
    PROVE  /\ Earlier(log, a, i) <= Earlier(log, a, j)
           /\ i < j /\ log[i][1] = a => Earlier(log, a, i) < Earlier(log, a, j)
<1> DEFINE E(k) == Earlier(log, a, k)
           T == {t \in Nat : E(i) <= E(i + t)}
<1>1. \A k \in Nat \ {0} : E(k) \in Nat /\ E(k) <= E(k + 1)
      /\ (log[k][1] = a => E(k + 1) = E(k) + 1)
  BY EarlierIs
<1> HIDE DEF E
<1>2. 0 \in T
  BY <1>1
<1>3. ASSUME NEW t \in T PROVE t + 1 \in T
  <2>1. i + t \in Nat \ {0} /\ (i + t) + 1 = i + (t + 1) /\ E(i) <= E(i + t)
    OBVIOUS
  <2>2. E(i + t) \in Nat /\ E(i) \in Nat /\ E((i + t) + 1) \in Nat /\ E(i + t) <= E((i + t) + 1)
    BY <1>1, <2>1
  <2>3. E(i) <= E((i + t) + 1)
    BY <2>1, <2>2
  <2> QED BY <2>1, <2>3
<1>4. T = Nat
  <2>1. T \in SUBSET Nat
    OBVIOUS
  <2> HIDE DEF T
  <2> QED BY <1>2, <1>3, <2>1, AllNaturals
<1>5. \A t \in Nat : E(i) <= E(i + t)
  BY <1>4
<1>6. j - i \in Nat /\ i + (j - i) = j
  OBVIOUS
<1>7. E(i) <= E(j)
  BY <1>5, <1>6
<1>8. ASSUME i < j, log[i][1] = a PROVE E(i) < E(j)
  <2> DEFINE U == {t \in Nat : E(i + 1) <= E((i + 1) + t)}
  <2>1. 0 \in U
    BY <1>1
  <2>2. ASSUME NEW t \in U PROVE t + 1 \in U
    <3>1. (i + 1) + t \in Nat \ {0} /\ ((i + 1) + t) + 1 = (i + 1) + (t + 1)
          /\ E(i + 1) <= E((i + 1) + t)
      OBVIOUS
    <3>2. E((i + 1) + t) \in Nat /\ E(i + 1) \in Nat /\ E(((i + 1) + t) + 1) \in Nat
          /\ E((i + 1) + t) <= E(((i + 1) + t) + 1)
      BY <1>1, <3>1
    <3>3. E(i + 1) <= E(((i + 1) + t) + 1)
      BY <3>1, <3>2
    <3> QED BY <3>1, <3>3
  <2>3. U = Nat
    <3>1. U \in SUBSET Nat
      OBVIOUS
    <3> HIDE DEF U
    <3> QED BY <2>1, <2>2, <3>1, AllNaturals
  <2>4. \A t \in Nat : E(i + 1) <= E((i + 1) + t)
    BY <2>3
  <2>5. j - (i + 1) \in Nat /\ (i + 1) + (j - (i + 1)) = j
    BY <1>8
  <2>6. E(i + 1) <= E(j)
    BY <2>4, <2>5
  <2>7. E(i) \in Nat /\ E(i + 1) = E(i) + 1 /\ E(j) \in Nat
    BY <1>1, <1>8
  <2> QED BY <2>6, <2>7
<1> QED BY <1>7, <1>8 DEF E

(* Every number below the count is some entry's. *)
LEMMA EarlierReaches ==
    ASSUME NEW log, NEW a, NEW n \in Nat, NEW m \in Nat, m < Earlier(log, a, n + 1)
    PROVE  \E j \in 1..n : log[j][1] = a /\ Earlier(log, a, j) = m
<1> DEFINE E(k) == Earlier(log, a, k)
           T == {k \in Nat : k > 0 /\ m < E(k)}
<1>1. /\ E(1) = 0
      /\ \A k \in Nat \ {0} : E(k) \in Nat
           /\ E(k + 1) = E(k) + (IF log[k][1] = a THEN 1 ELSE 0)
  BY EarlierIs
<1>2. n + 1 \in T
  OBVIOUS
<1> HIDE DEF E
<1>3. PICK k \in T : \A x \in T : k <= x
  <2>1. T \in SUBSET Nat /\ T # {}
    BY <1>2
  <2> HIDE DEF T
  <2> QED BY <2>1, LeastNatural
<1>4. k \in Nat /\ m < E(k) /\ k # 1 /\ k <= n + 1 /\ k > 0
  BY <1>1, <1>2, <1>3
<1>5. k - 1 \in Nat \ {0} /\ k - 1 \in 1..n /\ (k - 1) + 1 = k
  BY <1>4
<1>6. k - 1 \notin T
  BY <1>3, <1>5
<1>7. ~(m < E(k - 1)) /\ E(k - 1) \in Nat /\ E(k) = E(k - 1) + (IF log[k - 1][1] = a THEN 1 ELSE 0)
  BY <1>1, <1>5, <1>6
<1>8. log[k - 1][1] = a /\ E(k - 1) = m
  BY <1>4, <1>7
<1> QED BY <1>5, <1>8 DEF E

LEMMA EarlierSame ==
    ASSUME NEW x, NEW y, NEW a, NEW j \in Nat, \A i \in 1..(j - 1) : x[i] = y[i]
    PROVE  Earlier(x, a, j) = Earlier(y, a, j)
<1>1. {i \in 1..(j - 1) : x[i][1] = a} = {i \in 1..(j - 1) : y[i][1] = a}
  OBVIOUS
<1> QED BY <1>1 DEF Earlier

LEMMA CountsNothing ==
    ASSUME NEW a
    PROVE  Count(<<>>, a) = 0 /\ \A log \in Log : Count(log, a) \in Nat
<1>1. ASSUME NEW log \in Log PROVE Count(log, a) \in Nat
  <2>1. Len(log) + 1 \in Nat \ {0}
    BY DEF Log
  <2> QED BY <2>1, EarlierIs DEF Count
<1>2. Len(<<>>) + 1 = 1 /\ 1 \in Nat \ {0}
  OBVIOUS
<1>3. Count(<<>>, a) = 0
  BY <1>2, EarlierIs DEF Count
<1> QED BY <1>1, <1>3

LEMMA CountAppend ==
    ASSUME NEW log \in Log, NEW e \in P!Bytes \X P!Bits, NEW a
    PROVE  /\ Count(log, a) \in Nat
           /\ Count(Append(log, e), a) = Count(log, a) + (IF e[1] = a THEN 1 ELSE 0)
<1> DEFINE n == Len(log)
           l == Append(log, e)
<1>1. n \in Nat /\ Len(l) = n + 1 /\ l[n + 1] = e /\ \A i \in 1..((n + 1) - 1) : l[i] = log[i]
  BY DEF Log
<1> HIDE DEF n, l
<1>2. Earlier(l, a, n + 1) = Earlier(log, a, n + 1)
  <2>1. n + 1 \in Nat
    BY <1>1
  <2> QED BY <1>1, <2>1, EarlierSame
<1>3. n + 1 \in Nat \ {0}
  BY <1>1
<1>4. Earlier(l, a, (n + 1) + 1) = Earlier(l, a, n + 1) + (IF l[n + 1][1] = a THEN 1 ELSE 0)
      /\ Earlier(log, a, n + 1) \in Nat
  BY <1>3, EarlierIs
<1> QED BY <1>1, <1>2, <1>4 DEF Count, n, l

(* An entry's number is below the count. *)
LEMMA EntryCounted ==
    ASSUME NEW log \in Log, NEW j \in 1..Len(log), NEW a, log[j][1] = a
    PROVE  /\ Earlier(log, a, j) \in Nat /\ Earlier(log, a, j) < Count(log, a)
           /\ \A i \in 1..Len(log) :
                log[i][1] = a /\ Earlier(log, a, i) = Earlier(log, a, j) => i = j
<1>1. Len(log) \in Nat /\ j \in Nat \ {0} /\ Len(log) + 1 \in Nat /\ j <= Len(log) + 1
      /\ j < Len(log) + 1
  BY DEF Log
<1>2. Earlier(log, a, j) \in Nat
  BY <1>1, EarlierIs
<1>3. Earlier(log, a, j) < Count(log, a)
  BY <1>1, EarlierGrows DEF Count
<1>4. ASSUME NEW i \in 1..Len(log), log[i][1] = a, Earlier(log, a, i) = Earlier(log, a, j), i # j
      PROVE FALSE
  <2>1. i \in Nat \ {0} /\ i \in Nat /\ j \in Nat /\ Earlier(log, a, i) \in Nat
    BY <1>1, <1>2, <1>4
  <2>2. CASE i < j
    <3>1. i <= j
      BY <2>1, <2>2
    <3>2. Earlier(log, a, i) < Earlier(log, a, j)
      BY <1>4, <2>1, <2>2, <3>1, EarlierGrows
    <3> QED BY <1>2, <1>4, <2>1, <3>2
  <2>3. CASE j < i
    <3>1. j <= i
      BY <2>1, <2>3
    <3>2. Earlier(log, a, j) < Earlier(log, a, i)
      BY <1>1, <2>1, <2>3, <3>1, EarlierGrows
    <3> QED BY <1>2, <1>4, <2>1, <3>2
  <2> QED BY <1>1, <1>4, <2>1, <2>2, <2>3
<1> QED BY <1>2, <1>3, <1>4

(* Logs with the same entries at an address have as many, and logs that do  *)
(* at every address are of one length.                                      *)
LEMMA SameEntries ==
    ASSUME NEW x \in Log, NEW y \in Log, NEW a, Of(x, a) = Of(y, a)
    PROVE  /\ Count(x, a) <= Count(y, a)
           /\ \A i \in 1..Len(x) : x[i][1] = a =>
                \E j \in 1..Len(y) : y[j] = x[i] /\ Earlier(y, a, j) = Earlier(x, a, i)
<1>1. ASSUME NEW i \in 1..Len(x), x[i][1] = a
      PROVE  \E j \in 1..Len(y) : y[j] = x[i] /\ y[j][1] = a /\ Earlier(y, a, j) = Earlier(x, a, i)
  <2>1. <<Earlier(x, a, i), x[i]>> \in Of(x, a)
    BY <1>1 DEF Of
  <2>2. <<Earlier(x, a, i), x[i]>> \in Of(y, a)
    BY <2>1
  <2> QED BY <2>2 DEF Of
<1>2. Count(x, a) <= Count(y, a)
  <2>1. Count(x, a) \in Nat /\ Count(y, a) \in Nat /\ Len(x) \in Nat
    <3>1. Len(x) \in Nat /\ Len(y) \in Nat /\ Len(x) + 1 \in Nat \ {0} /\ Len(y) + 1 \in Nat \ {0}
      BY DEF Log
    <3> QED BY <3>1, EarlierIs DEF Count
  <2>2. CASE Count(x, a) > 0
    <3>1. Count(x, a) - 1 \in Nat /\ Count(x, a) - 1 < Count(x, a)
      BY <2>1, <2>2
    <3>2. PICK i \in 1..Len(x) : x[i][1] = a /\ Earlier(x, a, i) = Count(x, a) - 1
      BY <2>1, <3>1, EarlierReaches DEF Count
    <3>3. PICK j \in 1..Len(y) : y[j][1] = a /\ Earlier(y, a, j) = Earlier(x, a, i)
      BY <1>1, <3>2
    <3>4. Earlier(y, a, j) < Count(y, a)
      BY <3>3, EntryCounted
    <3> QED BY <2>1, <3>2, <3>3, <3>4
  <2> QED BY <2>1, <2>2
<1> QED BY <1>1, <1>2

LEMMA CountsAddUp ==
    ASSUME NEW log \in Log
    PROVE  Len(log) = Count(log, "lo") + Count(log, "hi") + Count(log, "port") + Count(log, "bank")
<1> DEFINE E(a, k) == Earlier(log, a, k)
           n == Len(log)
           T == {k \in Nat : k <= n => k = E("lo", k + 1) + E("hi", k + 1)
                                           + E("port", k + 1) + E("bank", k + 1)}
<1>1. n \in Nat /\ \A k \in 1..n : log[k][1] \in P!Bytes
  BY DEF Log
<1>2. \A a : E(a, 1) = 0 /\ \A k \in Nat \ {0} : E(a, k) \in Nat
         /\ E(a, k + 1) = E(a, k) + (IF log[k][1] = a THEN 1 ELSE 0)
  BY EarlierIs
<1> HIDE DEF E, n
<1>3. 0 \in T
  BY <1>2
<1>4. ASSUME NEW k \in T PROVE k + 1 \in T
  <2>1. k \in Nat /\ k + 1 \in Nat \ {0}
    OBVIOUS
  <2>2. CASE k + 1 <= n
    <3>1. log[k + 1][1] \in P!Bytes /\ k <= n
      BY <1>1, <2>1, <2>2
    <3>2. \A a : E(a, k + 1) \in Nat
            /\ E(a, (k + 1) + 1) = E(a, k + 1) + (IF log[k + 1][1] = a THEN 1 ELSE 0)
      BY <1>2, <2>1
    <3>3. k = E("lo", k + 1) + E("hi", k + 1) + E("port", k + 1) + E("bank", k + 1)
      BY <3>1
    <3>4. k + 1 = E("lo", (k + 1) + 1) + E("hi", (k + 1) + 1)
                    + E("port", (k + 1) + 1) + E("bank", (k + 1) + 1)
      BY <2>1, <3>1, <3>2, <3>3 DEF P!Bytes
    <3> QED BY <2>1, <3>4
  <2>3. CASE ~(k + 1 <= n)
    BY <2>1, <2>3
  <2> QED BY <2>2, <2>3
<1>5. T = Nat
  <2>1. T \in SUBSET Nat
    OBVIOUS
  <2> HIDE DEF T
  <2> QED BY <1>3, <1>4, <2>1, AllNaturals
<1>6. n = E("lo", n + 1) + E("hi", n + 1) + E("port", n + 1) + E("bank", n + 1)
  <2>1. n \in T
    BY <1>1, <1>5
  <2> QED BY <1>1, <2>1 DEF T
<1> QED BY <1>6 DEF Count, E, n

LEMMA SameLengths ==
    ASSUME NEW x \in Log, NEW y \in Log, \A a \in P!Bytes : Of(x, a) = Of(y, a)
    PROVE  Len(x) = Len(y)
<1>1. ASSUME NEW a \in P!Bytes PROVE Count(x, a) <= Count(y, a) /\ Count(y, a) <= Count(x, a)
  <2>1. Of(x, a) = Of(y, a) /\ Of(y, a) = Of(x, a)
    OBVIOUS
  <2> QED BY <2>1, SameEntries
<1>2. \A a : Count(x, a) \in Nat /\ Count(y, a) \in Nat
  BY CountsNothing
<1>3. \A a \in P!Bytes : Count(x, a) = Count(y, a)
  BY <1>1, <1>2
<1> QED BY <1>3, CountsAddUp DEF P!Bytes

-----------------------------------------------------------------------------
(* What a run of a piece records: an operation adds at most one entry, and  *)
(* what it records first stays.                                             *)
LEMMA OperateRecords ==
    ASSUME NEW s \in States, NEW op \in P!Ops
    PROVE  LET t == P!Operate(s, op) IN
           /\ op.k = "read"  => /\ op.a \in P!Bytes /\ op.r \in 1..2
                                /\ t.d = [s.d EXCEPT ![op.r] = s.hw[op.a]]
                                /\ t.hw = P!Peek(s.hw, op.a)
                                /\ t.rd = Append(s.rd, <<op.a, s.hw[op.a]>>)
           /\ op.k = "write" => /\ op.a \in P!Bytes /\ op.r \in 1..2
                                /\ t.hw = [s.hw EXCEPT ![op.a] = s.d[op.r]]
                                /\ t.wr = Append(s.wr, <<op.a, s.d[op.r]>>)
           /\ op.k = "not"   => op.r \in 1..2 /\ t.d = [s.d EXCEPT ![op.r] = 1 - s.d[op.r]]
           /\ op.k # "read"  => t.rd = s.rd
           /\ op.k # "write" => t.wr = s.wr
           /\ op.k \in {"write", "mask"} => t.d = s.d
           /\ op.k \in {"not", "mask"} => t.hw = s.hw
           /\ op.k \in {"read", "write", "not", "mask"}
<1>0. s = [d |-> s.d, imask |-> s.imask, hw |-> s.hw, rd |-> s.rd, wr |-> s.wr]
      /\ s.d \in [1..2 -> P!Bits] /\ s.hw \in [P!Bytes -> P!Bits]
  BY DEF States
<1>1. CASE op \in [k : {"read"}, a : P!Bytes, r : 1..2]
  BY <1>0, <1>1 DEF P!Operate
<1>2. CASE op \in [k : {"write"}, a : P!Bytes, r : 1..2]
  BY <1>0, <1>2 DEF P!Operate
<1>3. CASE op \in [k : {"not"}, r : 1..2]
  BY <1>0, <1>3 DEF P!Operate
<1>4. CASE op \in [k : {"mask"}, m : 0..7]
  BY <1>0, <1>4 DEF P!Operate
<1> QED BY <1>1, <1>2, <1>3, <1>4 DEF P!Ops

Starts(x, y) == Len(x) <= Len(y) /\ \A j \in 1..Len(x) : y[j] = x[j]

LEMMA RecordKept ==
    ASSUME NEW ops \in Seq(P!Ops), NEW s, NEW f, Through(f, ops, s), NEW k \in 0..Len(ops)
    PROVE  Starts(f[k].rd, f[Len(ops)].rd)
<1> DEFINE n == Len(ops)
           T == {i \in Nat : k + i <= n => Starts(f[k].rd, f[k + i].rd)}
<1>1. n \in Nat /\ k \in Nat /\ k <= n
  OBVIOUS
<1>2. \A i \in 0..n : f[i] \in States /\ f[i].rd \in Log /\ Len(f[i].rd) \in Nat
  <2>1. \A i \in 0..n : f[i] \in States
    BY DEF Through
  <2>2. \A x \in States : x.rd \in Log
    BY DEF States
  <2>3. \A x \in Log : Len(x) \in Nat
    BY DEF Log
  <2> QED BY <2>1, <2>2, <2>3
<1>3. 0 \in T
  <2>1. k + 0 = k /\ k \in 0..n
    BY <1>1
  <2> QED BY <1>2, <2>1 DEF Starts
<1>4. ASSUME NEW i \in T PROVE i + 1 \in T
  <2> SUFFICES ASSUME k + (i + 1) <= n PROVE Starts(f[k].rd, f[k + (i + 1)].rd)
    OBVIOUS
  <2>1. i \in Nat /\ k + i \in 0..n /\ k + (i + 1) \in 1..n /\ (k + (i + 1)) - 1 = k + i
        /\ k + i <= n /\ k + (i + 1) \in 0..n
    BY <1>1
  <2>2. Starts(f[k].rd, f[k + i].rd)
    BY <2>1
  <2> DEFINE x == f[k + i]
             y == f[k + (i + 1)]
             op == ops[k + (i + 1)]
  <2>3. y = P!Operate(x, op) /\ op \in P!Ops /\ x \in States
    BY <1>2, <2>1 DEF Through
  <2>4. x.rd \in Log /\ Len(x.rd) \in Nat /\ x.hw \in [P!Bytes -> P!Bits]
    BY <2>3 DEF States, Log
  <2> HIDE DEF x, y, op
  <2>5. y.rd = x.rd \/ \E e \in P!Bytes \X P!Bits : y.rd = Append(x.rd, e)
    <3>1. CASE op.k = "read"
      <4>1. y.rd = Append(x.rd, <<op.a, x.hw[op.a]>>) /\ op.a \in P!Bytes
        BY <2>3, <3>1, OperateRecords
      <4>2. <<op.a, x.hw[op.a]>> \in P!Bytes \X P!Bits
        BY <2>4, <4>1
      <4> QED BY <4>1, <4>2
    <3>2. CASE op.k # "read"
      BY <2>3, <3>2, OperateRecords
    <3> QED BY <3>1, <3>2
  <2>6. Len(f[k].rd) \in Nat
    BY <1>1, <1>2
  <2>7. Starts(f[k].rd, x.rd)
    BY <2>2 DEF x
  <2>8. Starts(f[k].rd, y.rd)
    <3>1. CASE y.rd = x.rd
      BY <2>7, <3>1
    <3>2. CASE \E e \in P!Bytes \X P!Bits : y.rd = Append(x.rd, e)
      <4>1. PICK e \in P!Bytes \X P!Bits : y.rd = Append(x.rd, e)
        BY <3>2
      <4>2. Len(y.rd) = Len(x.rd) + 1 /\ \A j \in 1..Len(x.rd) : y.rd[j] = x.rd[j]
        BY <2>4, <4>1 DEF Log
      <4> QED BY <2>4, <2>6, <2>7, <4>2 DEF Starts
    <3> QED BY <2>5, <3>1, <3>2
  <2> QED BY <2>8 DEF y
<1>5. T = Nat
  <2>1. T \in SUBSET Nat
    OBVIOUS
  <2> HIDE DEF T
  <2> QED BY <1>3, <1>4, <2>1, AllNaturals
<1>6. n - k \in T /\ k + (n - k) = n
  <2>1. n - k \in Nat /\ k + (n - k) = n
    BY <1>1
  <2> HIDE DEF T, n
  <2> QED BY <1>5, <2>1
<1> QED BY <1>1, <1>6

-----------------------------------------------------------------------------
(* The shadow: what is cut to the log's length, and the states it has. *)
ShadowStates == [d : [1..2 -> P!Bits], used : SUBSET Nat, wr : Log, why : BOOLEAN]
ShadowStart  == [d |-> pend.d, used |-> {}, wr |-> <<>>, why |-> FALSE]

LEMMA FitIs ==
    ASSUME NEW log \in Log
    PROVE  /\ Fit(log) \in Log
           /\ Len(log) <= LogMax => Fit(log) = log
           /\ Len(log) > LogMax => /\ Len(Fit(log)) = LogMax
                                   /\ \A i \in 1..LogMax : Fit(log)[i] = log[i]
<1>1. LogMax \in Nat /\ Len(log) \in Nat /\ log \in Seq(P!Bytes \X P!Bits)
  BY RecompAssumption DEF Log
<1>2. CASE Len(log) > LogMax
  <2> DEFINE q == SubSeq(log, 1, LogMax)
  <2>1. \A i \in 1..LogMax : log[i] \in P!Bytes \X P!Bits
    BY <1>1, <1>2
  <2>2. /\ q \in Seq(P!Bytes \X P!Bits)
        /\ Len(q) = IF 1 <= LogMax THEN LogMax - 1 + 1 ELSE 0
        /\ \A i \in 1..(LogMax - 1 + 1) : q[i] = log[1 + i - 1]
    BY <1>1, <2>1, SubSeqProperties
  <2>3. Fit(log) = q
    BY <1>2 DEF Fit
  <2> HIDE DEF q
  <2> QED BY <1>1, <1>2, <2>2, <2>3 DEF Log
<1>3. CASE ~(Len(log) > LogMax)
  BY <1>1, <1>3 DEF Fit, Log
<1> QED BY <1>2, <1>3

(* Cutting on the way or at the end is the same. *)
LEMMA FitAppend ==
    ASSUME NEW log \in Log, NEW e \in P!Bytes \X P!Bits
    PROVE  Fit(Append(Fit(log), e)) = Fit(Append(log, e))
<1>1. LogMax \in Nat /\ Len(log) \in Nat
  BY RecompAssumption DEF Log
<1>2. CASE Len(log) <= LogMax
  BY <1>2, FitIs
<1>3. CASE Len(log) > LogMax
  <2> DEFINE x == Append(Fit(log), e)
             y == Append(log, e)
  <2>1. Fit(log) \in Log /\ Len(Fit(log)) = LogMax /\ \A i \in 1..LogMax : Fit(log)[i] = log[i]
    BY <1>3, FitIs
  <2>2. /\ x \in Log /\ Len(x) = LogMax + 1 /\ \A i \in 1..LogMax : x[i] = log[i]
        /\ y \in Log /\ Len(y) = Len(log) + 1 /\ \A i \in 1..LogMax : y[i] = log[i]
    BY <1>1, <1>3, <2>1 DEF Log
  <2> HIDE DEF x, y
  <2>3. Fit(x) \in Log /\ Len(Fit(x)) = LogMax /\ \A i \in 1..LogMax : Fit(x)[i] = log[i]
    BY <1>1, <2>2, FitIs
  <2>4. Fit(y) \in Log /\ Len(Fit(y)) = LogMax /\ \A i \in 1..LogMax : Fit(y)[i] = log[i]
    BY <1>1, <1>3, <2>2, FitIs
  <2>5. Fit(x) = [i \in 1..LogMax |-> Fit(x)[i]] /\ Fit(y) = [i \in 1..LogMax |-> Fit(y)[i]]
    BY <2>3, <2>4 DEF Log
  <2>6. Fit(x) = Fit(y)
    BY <2>3, <2>4, <2>5
  <2> QED BY <2>6 DEF x, y
<1> QED BY <1>1, <1>2, <1>3

LEMMA ShadowDoes ==
    ASSUME NEW s \in ShadowStates, NEW op \in P!Ops
    PROVE  LET t == Shadow(s, op) IN
           /\ op.k = "read" /\ Answer(s, op.a) = 0 =>
                 t = [d |-> [s.d EXCEPT ![op.r] = 0], used |-> s.used, wr |-> s.wr, why |-> TRUE]
           /\ op.k = "read" /\ Answer(s, op.a) # 0 =>
                 t = [d |-> [s.d EXCEPT ![op.r] = rd[Answer(s, op.a)][2]],
                      used |-> s.used \cup {Answer(s, op.a)}, wr |-> s.wr, why |-> s.why]
           /\ op.k = "write" =>
                 t = [d |-> s.d, used |-> s.used, why |-> s.why,
                      wr |-> Fit(Append(s.wr, <<op.a, s.d[op.r]>>))]
           /\ op.k = "not" =>
                 t = [d |-> [s.d EXCEPT ![op.r] = 1 - s.d[op.r]],
                      used |-> s.used, wr |-> s.wr, why |-> s.why]
           /\ op.k = "mask" => t = s
<1>0. s = [d |-> s.d, used |-> s.used, wr |-> s.wr, why |-> s.why]
      /\ s.d \in [1..2 -> P!Bits]
  BY DEF ShadowStates
<1>1. CASE op \in [k : {"read"}, a : P!Bytes, r : 1..2]
  BY <1>0, <1>1 DEF Shadow
<1>2. CASE op \in [k : {"write"}, a : P!Bytes, r : 1..2]
  BY <1>0, <1>2 DEF Shadow
<1>3. CASE op \in [k : {"not"}, r : 1..2]
  BY <1>0, <1>3 DEF Shadow
<1>4. CASE op \in [k : {"mask"}, m : 0..7]
  BY <1>0, <1>4 DEF Shadow
<1> QED BY <1>1, <1>2, <1>3, <1>4 DEF P!Ops

LEMMA AnswerIs ==
    ASSUME rd \in Log, NEW s, NEW a
    PROVE  LET J == {j \in 1..Len(rd) : j \notin s.used /\ rd[j][1] = a} IN
           /\ J = {} => Answer(s, a) = 0
           /\ J # {} => Answer(s, a) \in J /\ Answer(s, a) # 0 /\ \A k \in J : Answer(s, a) <= k
<1> DEFINE J == {j \in 1..Len(rd) : j \notin s.used /\ rd[j][1] = a}
<1>1. CASE J = {}
  BY <1>1 DEF Answer
<1>2. CASE J # {}
  <2>1. J \in SUBSET Nat /\ 0 \notin J
    BY DEF Log
  <2>2. Answer(s, a) = CHOOSE j \in J : \A k \in J : j <= k
    BY <1>2 DEF Answer
  <2> HIDE DEF J
  <2>3. \E j \in J : \A k \in J : j <= k
    BY <1>2, <2>1, LeastNatural
  <2>4. Answer(s, a) \in J /\ \A k \in J : Answer(s, a) <= k
    BY <2>2, <2>3, Zenon
  <2>5. Answer(s, a) # 0
    BY <2>1, <2>4
  <2> QED BY <1>2, <2>4, <2>5 DEF J
<1> QED BY <1>1, <1>2

LEMMA ShadowTyped ==
    ASSUME rd \in Log, NEW s \in ShadowStates, NEW op \in P!Ops
    PROVE  Shadow(s, op) \in ShadowStates
<1>0. s.d \in [1..2 -> P!Bits] /\ s.wr \in Log /\ s.used \in SUBSET Nat /\ s.why \in BOOLEAN
  BY DEF ShadowStates
<1>1. CASE op \in [k : {"read"}, a : P!Bytes, r : 1..2]
  <2>1. op.k = "read" /\ op.r \in 1..2
    BY <1>1
  <2>2. CASE Answer(s, op.a) = 0
    <3>1. [s.d EXCEPT ![op.r] = 0] \in [1..2 -> P!Bits]
      BY <1>0, <2>1 DEF P!Bits
    <3> DEFINE e == [s.d EXCEPT ![op.r] = 0]
    <3>2. Shadow(s, op) = [d |-> e, used |-> s.used, wr |-> s.wr, why |-> TRUE]
      BY <2>1, <2>2, ShadowDoes
    <3>3. e \in [1..2 -> P!Bits]
      BY <3>1
    <3> HIDE DEF e
    <3> QED BY <1>0, <3>2, <3>3 DEF ShadowStates
  <2>3. CASE Answer(s, op.a) # 0
    <3>1. Answer(s, op.a) \in 1..Len(rd)
      BY <2>3, AnswerIs
    <3>2. rd[Answer(s, op.a)][2] \in P!Bits /\ Answer(s, op.a) \in Nat
      BY <3>1 DEF Log
    <3>3. [s.d EXCEPT ![op.r] = rd[Answer(s, op.a)][2]] \in [1..2 -> P!Bits]
      BY <1>0, <2>1, <3>2
    <3>4. s.used \cup {Answer(s, op.a)} \in SUBSET Nat
      BY <1>0, <3>2
    <3> DEFINE e == [s.d EXCEPT ![op.r] = rd[Answer(s, op.a)][2]]
               u == s.used \cup {Answer(s, op.a)}
    <3>5. Shadow(s, op) = [d |-> e, used |-> u, wr |-> s.wr, why |-> s.why]
      BY <2>1, <2>3, ShadowDoes
    <3>6. e \in [1..2 -> P!Bits] /\ u \in SUBSET Nat
      BY <3>3, <3>4
    <3> HIDE DEF e, u
    <3> QED BY <1>0, <3>5, <3>6 DEF ShadowStates
  <2> QED BY <2>2, <2>3
<1>2. CASE op \in [k : {"write"}, a : P!Bytes, r : 1..2]
  <2>1. op.k = "write" /\ op.r \in 1..2 /\ op.a \in P!Bytes
    BY <1>2
  <2>2. Append(s.wr, <<op.a, s.d[op.r]>>) \in Log
    BY <1>0, <2>1 DEF Log
  <2>3. Fit(Append(s.wr, <<op.a, s.d[op.r]>>)) \in Log
    BY <2>2, FitIs
  <2> QED BY <2>1, <2>3, <1>0, ShadowDoes DEF ShadowStates
<1>3. CASE op \in [k : {"not"}, r : 1..2]
  <2>1. op.k = "not" /\ op.r \in 1..2
    BY <1>3
  <2>2. [s.d EXCEPT ![op.r] = 1 - s.d[op.r]] \in [1..2 -> P!Bits]
    <3>1. 1 - s.d[op.r] \in P!Bits
      BY <1>0, <2>1 DEF P!Bits
    <3> QED BY <1>0, <2>1, <3>1
  <2> DEFINE e == [s.d EXCEPT ![op.r] = 1 - s.d[op.r]]
  <2>3. Shadow(s, op) = [d |-> e, used |-> s.used, wr |-> s.wr, why |-> s.why]
    BY <2>1, ShadowDoes
  <2>4. e \in [1..2 -> P!Bits]
    BY <2>2
  <2> HIDE DEF e
  <2> QED BY <1>0, <2>3, <2>4 DEF ShadowStates
<1>4. CASE op \in [k : {"mask"}, m : 0..7]
  BY <1>4, ShadowDoes
<1> QED BY <1>1, <1>2, <1>3, <1>4 DEF P!Ops

ShadowThrough(h, ops) ==
    /\ h \in [0..Len(ops) -> ShadowStates]
    /\ h[0] = ShadowStart
    /\ \A n \in 1..Len(ops) : h[n] = Shadow(h[n - 1], ops[n])

LEMMA ShadowRunIs ==
    ASSUME rd \in Log, pend.d \in [1..2 -> P!Bits], NEW ops \in Seq(P!Ops)
    PROVE  \E h : ShadowThrough(h, ops) /\ ShadowRun(ops) = h[Len(ops)]
<1> DEFINE n == Len(ops)
           m == ShadowStart
           one(k, x) == Shadow(x, ops[k])
           Is(h) == h = [k \in 0..n |-> IF k = 0 THEN m ELSE one(k, h[k - 1])]
           s == [k \in Nat |-> [x \in ShadowStates |-> IF k \in 1..n THEN one(k, x) ELSE x]]
           f == CHOOSE h : Is(h)
<1>1. n \in Nat /\ m \in ShadowStates
  <2>1. <<>> \in Log
    BY DEF Log
  <2> QED BY <2>1 DEF ShadowStates, ShadowStart
<1>2. ASSUME NEW k \in 1..n, NEW x \in ShadowStates PROVE one(k, x) \in ShadowStates
  <2>1. ops[k] \in P!Ops
    OBVIOUS
  <2> QED BY <2>1, ShadowTyped
<1>3. s \in [Nat -> [ShadowStates -> ShadowStates]]
  <2> HIDE DEF one, n
  <2> QED BY <1>2
<1>4. \A k \in 1..n, x \in ShadowStates : s[k][x] = one(k, x)
  <2>1. \A k \in 1..n : k \in Nat
    BY <1>1
  <2> HIDE DEF one, n
  <2> QED BY <2>1
<1>5. ShadowRun(ops) = f[n]
  BY DEF ShadowRun, f, n, one, ShadowStart
<1> HIDE DEF s, one, n, f, m
<1>6. PICK h \in [0..n -> ShadowStates] : h[0] = m /\ \A k \in 1..n : h[k] = s[k][h[k - 1]]
  <2>1. Followed(ShadowStates, m, s, n)
    BY <1>1, <1>3, RecursionExists
  <2> QED BY <2>1 DEF Followed, Follows
<1>7. ASSUME NEW k \in 0..n, k # 0 PROVE h[k] = one(k, h[k - 1])
  <2>1. k \in 1..n /\ k - 1 \in 0..n
    BY <1>1, <1>7
  <2> QED BY <1>4, <1>6, <2>1
<1>8. h = [k \in 0..n |-> IF k = 0 THEN m ELSE one(k, h[k - 1])]
  <2>1. \A k \in 0..n : h[k] = IF k = 0 THEN m ELSE one(k, h[k - 1])
    BY <1>6, <1>7
  <2> QED BY <2>1
<1>9. Is(f)
  <2>1. Is(h)
    BY <1>8, Zenon
  <2> HIDE DEF Is
  <2> QED BY <2>1 DEF f
<1>10. \A k \in 0..n : f[k] = IF k = 0 THEN m ELSE one(k, f[k - 1])
  BY <1>9, Zenon
<1>11. f = [k \in 0..n |-> IF k = 0 THEN m ELSE one(k, f[k - 1])]
  BY <1>9, Zenon
<1>12. 0 \in 0..n /\ \A k \in 1..n : k \in 0..n /\ k # 0
  BY <1>1
<1>13. f[0] = m /\ \A k \in 1..n : f[k] = one(k, f[k - 1])
  BY <1>10, <1>12, Zenon
<1>14. f \in [0..n -> ShadowStates]
  <2> DEFINE T == {k \in Nat : k <= n => f[k] \in ShadowStates}
  <2>1. 0 \in T
    BY <1>1, <1>13
  <2>2. ASSUME NEW k \in T PROVE k + 1 \in T
    <3>1. k \in Nat /\ k + 1 \in Nat /\ (k + 1) - 1 = k /\ (k <= n => f[k] \in ShadowStates)
      OBVIOUS
    <3>2. k + 1 <= n => k + 1 \in 1..n /\ k <= n
      BY <1>1, <3>1
    <3>3. k + 1 <= n => f[k + 1] = one(k + 1, f[k])
      BY <1>13, <3>1, <3>2
    <3> QED BY <1>2, <3>1, <3>2, <3>3
  <2>3. T \in SUBSET Nat
    OBVIOUS
  <2> HIDE DEF T
  <2>4. T = Nat
    BY <2>1, <2>2, <2>3, AllNaturals
  <2>5. \A k \in 0..n : k \in T /\ k <= n
    BY <1>1, <2>4
  <2>6. \A k \in 0..n : f[k] \in ShadowStates
    BY <2>5 DEF T
  <2> QED BY <1>11, <2>6
<1>15. ShadowThrough(f, ops)
  BY <1>13, <1>14 DEF ShadowThrough, n, one, m
<1> QED BY <1>5, <1>15 DEF n

-----------------------------------------------------------------------------
(* The shadow goes the way of the code it runs: the same registers, the     *)
(* same writes, and of the record the entries numbered below what the code  *)
(* has read of their address.                                               *)
Used(x) == {j \in 1..Len(rd) : Earlier(rd, rd[j][1], j) < Count(x.rd, rd[j][1])}

Match(s, x) ==
    /\ s.d = x.d /\ s.wr = Fit(x.wr) /\ ~s.why
    /\ s.used = Used(x)
    /\ \A a \in P!Bytes : Count(x.rd, a) <= Count(rd, a)

(* The record's next entry of the address that is read has the byte read.   *)
Told(x, op) ==
    op.k = "read" =>
       \A j \in 1..Len(rd) :
          rd[j][1] = op.a /\ Earlier(rd, op.a, j) = Count(x.rd, op.a) => rd[j][2] = x.hw[op.a]

(* The same by its fields; and what it has found out of order stays so.     *)
LEMMA ShadowFields ==
    ASSUME NEW s \in ShadowStates, NEW op \in P!Ops
    PROVE  LET t == Shadow(s, op) IN
           /\ op.k = "read" /\ Answer(s, op.a) = 0 => t.why
           /\ op.k = "read" /\ Answer(s, op.a) # 0 =>
                 /\ t.d = [s.d EXCEPT ![op.r] = rd[Answer(s, op.a)][2]]
                 /\ t.used = s.used \cup {Answer(s, op.a)}
                 /\ t.wr = s.wr /\ t.why = s.why
           /\ op.k = "write" =>
                 /\ t.wr = Fit(Append(s.wr, <<op.a, s.d[op.r]>>))
                 /\ t.d = s.d /\ t.used = s.used /\ t.why = s.why
           /\ op.k = "not" =>
                 /\ t.d = [s.d EXCEPT ![op.r] = 1 - s.d[op.r]]
                 /\ t.used = s.used /\ t.wr = s.wr /\ t.why = s.why
           /\ s.why => t.why
<1>0. op.k \in {"read", "write", "not", "mask"}
  BY OperateTyped DEF P!Ops
<1>1. CASE op.k = "read" /\ Answer(s, op.a) = 0
  <2> DEFINE e == [s.d EXCEPT ![op.r] = 0]
  <2>1. Shadow(s, op) = [d |-> e, used |-> s.used, wr |-> s.wr, why |-> TRUE]
    BY <1>1, ShadowDoes
  <2> HIDE DEF e
  <2> QED BY <1>1, <2>1
<1>2. CASE op.k = "read" /\ Answer(s, op.a) # 0
  <2> DEFINE e == [s.d EXCEPT ![op.r] = rd[Answer(s, op.a)][2]]
             u == s.used \cup {Answer(s, op.a)}
  <2>1. Shadow(s, op) = [d |-> e, used |-> u, wr |-> s.wr, why |-> s.why]
    BY <1>2, ShadowDoes
  <2>2. /\ Shadow(s, op).d = e /\ Shadow(s, op).used = u
        /\ Shadow(s, op).wr = s.wr /\ Shadow(s, op).why = s.why
    <3> HIDE DEF e, u
    <3> QED BY <2>1
  <2> QED BY <1>2, <2>2
<1>3. CASE op.k = "write"
  <2> DEFINE w == Fit(Append(s.wr, <<op.a, s.d[op.r]>>))
  <2>1. Shadow(s, op) = [d |-> s.d, used |-> s.used, why |-> s.why, wr |-> w]
    BY <1>3, ShadowDoes
  <2>2. /\ Shadow(s, op).d = s.d /\ Shadow(s, op).used = s.used
        /\ Shadow(s, op).wr = w /\ Shadow(s, op).why = s.why
    <3> HIDE DEF w
    <3> QED BY <2>1
  <2> QED BY <1>3, <2>2
<1>4. CASE op.k = "not"
  <2> DEFINE e == [s.d EXCEPT ![op.r] = 1 - s.d[op.r]]
  <2>1. Shadow(s, op) = [d |-> e, used |-> s.used, wr |-> s.wr, why |-> s.why]
    BY <1>4, ShadowDoes
  <2>2. /\ Shadow(s, op).d = e /\ Shadow(s, op).used = s.used
        /\ Shadow(s, op).wr = s.wr /\ Shadow(s, op).why = s.why
    <3> HIDE DEF e
    <3> QED BY <2>1
  <2> QED BY <1>4, <2>2
<1>5. CASE op.k = "mask"
  BY <1>5, ShadowDoes
<1> QED BY <1>0, <1>1, <1>2, <1>3, <1>4, <1>5

LEMMA ShadowReads ==
    ASSUME rd \in Log, NEW s \in ShadowStates, NEW x \in States,
           NEW op \in [k : {"read"}, a : P!Bytes, r : 1..2], Match(s, x), Told(x, op)
    PROVE  /\ Count(x.rd, op.a) < Count(rd, op.a) => Match(Shadow(s, op), P!Operate(x, op))
           /\ ~(Count(x.rd, op.a) < Count(rd, op.a)) => Shadow(s, op).why
<1> DEFINE a == op.a
           m == Count(x.rd, a)
           J == {j \in 1..Len(rd) : j \notin s.used /\ rd[j][1] = a}
<1>0. op.k = "read" /\ a \in P!Bytes /\ op.r \in 1..2 /\ op \in P!Ops
  BY DEF P!Ops
<1>1. x.rd \in Log /\ x.hw \in [P!Bytes -> P!Bits]
  BY DEF States
<1>2. \A b : Count(x.rd, b) \in Nat /\ Count(rd, b) \in Nat
  BY <1>1, CountsNothing
<1>3. J = {j \in 1..Len(rd) : rd[j][1] = a /\ ~(Earlier(rd, a, j) < m)}
  BY DEF Match, Used
<1>4. Len(rd) \in Nat
  BY DEF Log
<1>5. \A j \in 1..Len(rd) : rd[j][1] = a => Earlier(rd, a, j) \in Nat /\ Earlier(rd, a, j) < Count(rd, a)
  BY EntryCounted
<1>6. CASE m < Count(rd, a)
  <2>1. PICK q \in 1..Len(rd) : rd[q][1] = a /\ Earlier(rd, a, q) = m
    BY <1>2, <1>4, <1>6, EarlierReaches DEF Count
  <2>2. q \in J
    BY <1>2, <1>3, <2>1
  <2>3. ASSUME NEW k \in J PROVE q <= k
    <3>1. k \in 1..Len(rd) /\ rd[k][1] = a /\ ~(Earlier(rd, a, k) < m)
      BY <1>3
    <3>2. CASE k < q
      <4>1. k \in Nat \ {0} /\ q \in Nat /\ k <= q
        BY <1>4, <2>1, <3>1, <3>2
      <4>2. Earlier(rd, a, k) < Earlier(rd, a, q)
        BY <3>1, <3>2, <4>1, EarlierGrows
      <4> QED BY <2>1, <3>1, <4>2
    <3> QED BY <1>4, <2>1, <3>1, <3>2
  <2>4. Answer(s, a) = q
    <3>1. Answer(s, a) \in J /\ \A k \in J : Answer(s, a) <= k
      BY <2>2, AnswerIs
    <3>2. Answer(s, a) <= q /\ q <= Answer(s, a) /\ Answer(s, a) \in Nat /\ q \in Nat
      BY <1>4, <2>1, <2>2, <2>3, <3>1
    <3> QED BY <3>2
  <2>5. rd[q][2] = x.hw[a] /\ q # 0
    BY <1>0, <1>4, <2>1 DEF Told
  <2> DEFINE t == Shadow(s, op)
             y == P!Operate(x, op)
  <2>6. /\ t.d = [s.d EXCEPT ![op.r] = rd[q][2]] /\ t.used = s.used \cup {q}
        /\ t.wr = s.wr /\ t.why = s.why
    BY <1>0, <2>4, <2>5, ShadowFields
  <2>7. /\ y.d = [x.d EXCEPT ![op.r] = x.hw[a]] /\ y.wr = x.wr
        /\ y.rd = Append(x.rd, <<a, x.hw[a]>>)
    BY <1>0, OperateRecords
  <2> HIDE DEF t, y, J
  <2>8. \A b : Count(y.rd, b) = Count(x.rd, b) + (IF a = b THEN 1 ELSE 0)
    <3>1. <<a, x.hw[a]>> \in P!Bytes \X P!Bits
      BY <1>0, <1>1
    <3>2. \A b : Count(y.rd, b) = Count(x.rd, b) + (IF <<a, x.hw[a]>>[1] = b THEN 1 ELSE 0)
      BY <1>1, <2>7, <3>1, CountAppend
    <3> QED BY <3>2
  <2>9. t.used = Used(y)
    <3>1. ASSUME NEW j \in 1..Len(rd)
          PROVE  j \in Used(y) <=> (j \in Used(x) \/ j = q)
      <4>1. Earlier(rd, rd[j][1], j) \in Nat
        BY EntryCounted
      <4>2. j \in Used(y) <=> Earlier(rd, rd[j][1], j) < Count(y.rd, rd[j][1])
        BY DEF Used
      <4>3. j \in Used(x) <=> Earlier(rd, rd[j][1], j) < Count(x.rd, rd[j][1])
        BY DEF Used
      <4>4. CASE rd[j][1] # a
        <5>1. j # q
          BY <2>1, <4>4
        <5> QED BY <1>2, <2>8, <4>1, <4>2, <4>3, <4>4, <5>1
      <4>5. CASE rd[j][1] = a
        <5>1. Earlier(rd, a, j) = m <=> j = q
          BY <2>1, <4>5, EntryCounted
        <5>2. Earlier(rd, a, j) < m + 1 <=> (Earlier(rd, a, j) < m \/ Earlier(rd, a, j) = m)
          BY <1>2, <4>1, <4>5
        <5> QED BY <1>2, <2>8, <4>1, <4>2, <4>3, <4>5, <5>1, <5>2
      <4> QED BY <4>4, <4>5
    <3>2. Used(y) \subseteq 1..Len(rd) /\ Used(x) \subseteq 1..Len(rd)
      BY DEF Used
    <3>3. t.used = Used(x) \cup {q}
      BY <2>6 DEF Match
    <3> QED BY <2>1, <3>1, <3>2, <3>3
  <2>10. \A b \in P!Bytes : Count(y.rd, b) <= Count(rd, b)
    BY <1>2, <1>6, <2>8 DEF Match
  <2>11. Match(t, y)
    BY <2>5, <2>6, <2>7, <2>9, <2>10 DEF Match
  <2> QED BY <1>6, <2>11 DEF t, y
<1>7. CASE ~(m < Count(rd, a))
  <2>1. J = {}
    BY <1>2, <1>3, <1>5, <1>7
  <2>2. Answer(s, a) = 0
    BY <2>1, AnswerIs
  <2> QED BY <1>0, <1>7, <2>2, ShadowFields
<1> QED BY <1>6, <1>7

LEMMA ShadowSteps ==
    ASSUME rd \in Log, NEW s \in ShadowStates, NEW x \in States, NEW op \in P!Ops,
           Match(s, x), Told(x, op)
    PROVE  \/ Match(Shadow(s, op), P!Operate(x, op))
           \/ op.k = "read" /\ ~(Count(x.rd, op.a) < Count(rd, op.a)) /\ Shadow(s, op).why
<1> DEFINE t == Shadow(s, op)
           y == P!Operate(x, op)
<1>1. CASE op \in [k : {"read"}, a : P!Bytes, r : 1..2]
  <2>1. op.k = "read"
    BY <1>1
  <2> QED BY <1>1, <2>1, ShadowReads
<1>2. CASE op \in [k : {"write"}, a : P!Bytes, r : 1..2]
  <2>1. op.k = "write" /\ op.a \in P!Bytes /\ op.r \in 1..2
    BY <1>2
  <2>2. /\ t.d = s.d /\ t.used = s.used /\ t.why = s.why
        /\ t.wr = Fit(Append(s.wr, <<op.a, s.d[op.r]>>))
    BY <2>1, ShadowFields
  <2>3. y.d = x.d /\ y.rd = x.rd /\ y.wr = Append(x.wr, <<op.a, x.d[op.r]>>)
    BY <2>1, OperateRecords
  <2>4. x.wr \in Log /\ <<op.a, x.d[op.r]>> \in P!Bytes \X P!Bits
    BY <2>1 DEF States
  <2>5. Fit(Append(Fit(x.wr), <<op.a, x.d[op.r]>>)) = Fit(Append(x.wr, <<op.a, x.d[op.r]>>))
    BY <2>4, FitAppend
  <2> HIDE DEF t, y
  <2>6. Match(t, y)
    BY <2>2, <2>3, <2>5 DEF Match, Used
  <2> QED BY <2>6 DEF t, y
<1>3. CASE op \in [k : {"not"}, r : 1..2]
  <2>1. op.k = "not" /\ op.r \in 1..2
    BY <1>3
  <2>2. /\ t.d = [s.d EXCEPT ![op.r] = 1 - s.d[op.r]] /\ t.used = s.used /\ t.why = s.why
        /\ t.wr = s.wr
    BY <2>1, ShadowFields
  <2>3. y.d = [x.d EXCEPT ![op.r] = 1 - x.d[op.r]] /\ y.rd = x.rd /\ y.wr = x.wr
    BY <2>1, OperateRecords
  <2> HIDE DEF t, y
  <2>4. Match(t, y)
    BY <2>2, <2>3 DEF Match, Used
  <2> QED BY <2>4 DEF t, y
<1>4. CASE op \in [k : {"mask"}, m : 0..7]
  <2>1. op.k = "mask"
    BY <1>4
  <2>2. t = s
    BY <2>1, ShadowDoes
  <2>3. y.d = x.d /\ y.rd = x.rd /\ y.wr = x.wr
    BY <2>1, OperateRecords
  <2> HIDE DEF t, y
  <2>4. Match(t, y)
    BY <2>2, <2>3 DEF Match, Used
  <2> QED BY <2>4 DEF t, y
<1> QED BY <1>1, <1>2, <1>3, <1>4 DEF P!Ops

(* So it is answered all the way or says why not; and it is answered if the *)
(* record has as many entries of each address as the code reads.            *)
LEMMA ShadowFollows ==
    ASSUME rd \in Log, pend.d \in [1..2 -> P!Bits], NEW ops \in Seq(P!Ops), NEW mask, NEW bytes,
           NEW f, Through(f, ops, Start(pend.d, mask, bytes)),
           NEW h, ShadowThrough(h, ops),
           \A k \in 1..Len(ops) : Told(f[k - 1], ops[k])
    PROVE  /\ h[Len(ops)].why \/ Match(h[Len(ops)], f[Len(ops)])
           /\ (\A k \in 1..Len(ops) :
                 ops[k].k = "read" => Count(f[k - 1].rd, ops[k].a) < Count(rd, ops[k].a))
              => Match(h[Len(ops)], f[Len(ops)])
<1> DEFINE n == Len(ops)
           B == \A k \in 1..n :
                  ops[k].k = "read" => Count(f[k - 1].rd, ops[k].a) < Count(rd, ops[k].a)
           Ok(k) == (~B /\ h[k].why) \/ Match(h[k], f[k])
           T == {k \in Nat : k <= n => Ok(k)}
<1>1. n \in Nat
  OBVIOUS
<1>2. 0 \in T
  <2>1. \A a : Count(<<>>, a) = 0 /\ \A log \in Log : Count(log, a) \in Nat
    BY CountsNothing
  <2>2. f[0].d = pend.d /\ f[0].rd = <<>> /\ f[0].wr = <<>>
    BY DEF Through, Start
  <2>3. h[0].d = pend.d /\ h[0].used = {} /\ h[0].wr = <<>> /\ h[0].why = FALSE
    BY DEF ShadowThrough, ShadowStart
  <2>4. Fit(<<>>) = <<>>
    BY RecompAssumption DEF Fit
  <2>5. Used(f[0]) = {}
    <3>1. \A j \in 1..Len(rd) : Earlier(rd, rd[j][1], j) \in Nat
      BY EntryCounted
    <3> QED BY <2>1, <2>2, <3>1 DEF Used
  <2>6. \A a \in P!Bytes : Count(f[0].rd, a) <= Count(rd, a)
    BY <2>1, <2>2
  <2>7. Match(h[0], f[0])
    BY <2>2, <2>3, <2>4, <2>5, <2>6 DEF Match
  <2> QED BY <2>7
<1>3. ASSUME NEW k \in T PROVE k + 1 \in T
  <2> SUFFICES ASSUME k + 1 <= n PROVE Ok(k + 1)
    OBVIOUS
  <2>1. k \in Nat /\ k + 1 \in 1..n /\ (k + 1) - 1 = k /\ k \in 0..n /\ k <= n
    BY <1>1
  <2> DEFINE op == ops[k + 1]
  <2>2. /\ op \in P!Ops /\ f[k] \in States /\ h[k] \in ShadowStates
        /\ f[k + 1] = P!Operate(f[k], op) /\ h[k + 1] = Shadow(h[k], op) /\ Told(f[k], op)
    BY <2>1 DEF Through, ShadowThrough
  <2>3. B /\ op.k = "read" => Count(f[k].rd, op.a) < Count(rd, op.a)
    BY <2>1
  <2>4. Ok(k)
    BY <2>1
  <2> HIDE DEF op, B
  <2>5. CASE Match(h[k], f[k])
    BY <2>2, <2>3, <2>5, ShadowSteps
  <2>6. CASE ~B /\ h[k].why
    <3>1. Shadow(h[k], op).why
      BY <2>2, <2>6, ShadowFields
    <3> QED BY <2>2, <2>6, <3>1
  <2> QED BY <2>4, <2>5, <2>6
<1>4. T = Nat
  <2>1. T \in SUBSET Nat
    OBVIOUS
  <2> HIDE DEF T
  <2> QED BY <1>2, <1>3, <2>1, AllNaturals
<1>5. Ok(n)
  <2>1. n \in T
    BY <1>1, <1>4
  <2> QED BY <1>1, <2>1 DEF T
<1> QED BY <1>5

-----------------------------------------------------------------------------
(* What a piece reads of a byte it does not write: the same each time, or a *)
(* port's values in turn.                                                   *)
Nth(bytes, a, m) == IF a = "port" THEN (bytes["port"] + m) % 2 ELSE bytes[a]

Reads(ops) == {ops[k].a : k \in {q \in 1..Len(ops) : ops[q].k = "read"}}

InTurn(x, ops, bytes) ==
    /\ \A a \in Reads(ops) : x.hw[a] = Nth(bytes, a, Count(x.rd, a))
    /\ \A j \in 1..Len(x.rd) :
          x.rd[j] = <<x.rd[j][1], Nth(bytes, x.rd[j][1], Earlier(x.rd, x.rd[j][1], j))>>

LEMMA InTurnStep ==
    ASSUME NEW c, c.ops \in Seq(P!Ops), Apart(c), NEW k \in 1..Len(c.ops), NEW x \in States,
           NEW bytes \in [P!Bytes -> P!Bits], InTurn(x, c.ops, bytes)
    PROVE  InTurn(P!Operate(x, c.ops[k]), c.ops, bytes)
<1> DEFINE op == c.ops[k]
           y == P!Operate(x, op)
<1>1. op \in P!Ops /\ op.k \in {"read", "write", "not", "mask"}
  <2>1. op \in P!Ops
    OBVIOUS
  <2> QED BY <2>1, OperateRecords
<1>2. x.rd \in Log /\ x.hw \in [P!Bytes -> P!Bits] /\ x.d \in [1..2 -> P!Bits] /\ Len(x.rd) \in Nat
  BY DEF States, Log
<1>3. "port" \in P!Bytes
  BY DEF P!Bytes
<1>4. \A a \in Reads(c.ops) : a \in P!Bytes
  <2>1. ASSUME NEW q \in 1..Len(c.ops), c.ops[q].k = "read" PROVE c.ops[q].a \in P!Bytes
    <3>1. c.ops[q] \in P!Ops
      OBVIOUS
    <3> QED BY <2>1, <3>1, OperateRecords
  <2> QED BY <2>1 DEF Reads
<1>5. CASE op.k = "read"
  <2> DEFINE b == op.a
             v == x.hw[b]
  <2>1. y.hw = P!Peek(x.hw, b) /\ y.rd = Append(x.rd, <<b, v>>) /\ b \in P!Bytes
    BY <1>1, <1>5, OperateRecords
  <2>2. b \in Reads(c.ops)
    BY <1>5 DEF Reads
  <2>3. v \in P!Bits /\ v = Nth(bytes, b, Count(x.rd, b))
    BY <1>2, <2>1, <2>2 DEF InTurn
  <2> DEFINE e == <<b, v>>
  <2>4. e \in P!Bytes \X P!Bits /\ e[1] = b /\ e[2] = v
    BY <2>1, <2>3
  <2>5. y.rd = Append(x.rd, e)
    BY <2>1
  <2> HIDE DEF y, e
  <2>6. \A a : Count(y.rd, a) = Count(x.rd, a) + (IF b = a THEN 1 ELSE 0)
    BY <1>2, <2>4, <2>5, CountAppend
  <2>7. \A a : Count(x.rd, a) \in Nat
    BY <1>2, CountsNothing
  <2>8. ASSUME NEW a \in Reads(c.ops) PROVE y.hw[a] = Nth(bytes, a, Count(y.rd, a))
    <3>1. x.hw[a] = Nth(bytes, a, Count(x.rd, a)) /\ a \in P!Bytes
      BY <1>4 DEF InTurn
    <3>2. CASE a = "port" /\ b = "port"
      <4>1. y.hw[a] = 1 - x.hw["port"]
        BY <1>2, <1>3, <2>1, <3>2 DEF P!Peek
      <4>2. Count(y.rd, a) = Count(x.rd, a) + 1 /\ Count(x.rd, a) \in Nat
        BY <2>6, <2>7, <3>2
      <4>3. bytes["port"] \in {0, 1}
        BY <1>3 DEF P!Bits
      <4>4. \A p \in {0, 1}, m \in Nat : 1 - ((p + m) % 2) = (p + (m + 1)) % 2
        OBVIOUS
      <4> QED BY <3>1, <3>2, <4>1, <4>2, <4>3, <4>4 DEF Nth
    <3>3. CASE a = "port" /\ b # "port"
      <4>1. y.hw[a] = x.hw[a]
        BY <1>2, <2>1, <3>1, <3>3 DEF P!Peek
      <4>2. Count(y.rd, a) = Count(x.rd, a)
        BY <2>6, <2>7, <3>3
      <4> QED BY <3>1, <4>1, <4>2
    <3>4. CASE a # "port"
      <4>1. y.hw[a] = x.hw[a]
        BY <1>2, <2>1, <3>1, <3>4 DEF P!Peek
      <4> QED BY <3>1, <3>4, <4>1 DEF Nth
    <3> QED BY <3>2, <3>3, <3>4
  <2>9. Len(y.rd) = Len(x.rd) + 1 /\ y.rd[Len(x.rd) + 1] = e
        /\ \A j \in 1..Len(x.rd) : y.rd[j] = x.rd[j]
    BY <1>2, <2>4, <2>5 DEF Log
  <2>10. ASSUME NEW j \in 1..Len(y.rd)
         PROVE  y.rd[j] = <<y.rd[j][1], Nth(bytes, y.rd[j][1], Earlier(y.rd, y.rd[j][1], j))>>
    <3>1. j \in Nat /\ \A i \in 1..(j - 1) : y.rd[i] = x.rd[i]
      BY <1>2, <2>9
    <3>2. \A a : Earlier(y.rd, a, j) = Earlier(x.rd, a, j)
      BY <3>1, EarlierSame
    <3>3. CASE j \in 1..Len(x.rd)
      BY <2>9, <3>2, <3>3 DEF InTurn
    <3>4. CASE j = Len(x.rd) + 1
      <4>1. Earlier(x.rd, b, j) = Count(x.rd, b)
        BY <3>4 DEF Count
      <4>2. e = <<e[1], e[2]>>
        BY <2>4
      <4>3. y.rd[j] = e
        BY <2>9, <3>4
      <4> QED BY <2>3, <2>4, <3>2, <4>1, <4>2, <4>3
    <3> QED BY <1>2, <2>9, <3>3, <3>4
  <2> QED BY <2>8, <2>10 DEF InTurn, y
<1>6. CASE op.k = "write"
  <2>1. y.hw = [x.hw EXCEPT ![op.a] = x.d[op.r]] /\ y.rd = x.rd
    BY <1>1, <1>6, OperateRecords
  <2>2. \A a \in Reads(c.ops) : a # op.a
    BY <1>6 DEF Apart, Reads
  <2> HIDE DEF y
  <2>3. \A a \in Reads(c.ops) : y.hw[a] = x.hw[a]
    BY <1>2, <1>4, <2>1, <2>2
  <2>4. InTurn(y, c.ops, bytes)
    BY <2>1, <2>3 DEF InTurn
  <2> QED BY <2>4 DEF y
<1>7. CASE op.k \in {"not", "mask"}
  <2>1. y.hw = x.hw /\ y.rd = x.rd
    BY <1>1, <1>7, OperateRecords
  <2> HIDE DEF y
  <2>2. InTurn(y, c.ops, bytes)
    BY <2>1 DEF InTurn
  <2> QED BY <2>2 DEF y
<1> QED BY <1>1, <1>5, <1>6, <1>7

LEMMA ReadsInTurn ==
    ASSUME NEW c, c.ops \in Seq(P!Ops), Apart(c), NEW regs, NEW mask,
           NEW bytes \in [P!Bytes -> P!Bits],
           NEW f, Through(f, c.ops, Start(regs, mask, bytes))
    PROVE  \A k \in 0..Len(c.ops) : InTurn(f[k], c.ops, bytes)
<1> DEFINE n == Len(c.ops)
           T == {k \in Nat : k <= n => InTurn(f[k], c.ops, bytes)}
<1>1. n \in Nat
  OBVIOUS
<1>2. 0 \in T
  <2>1. f[0].hw = bytes /\ f[0].rd = <<>>
    BY DEF Through, Start
  <2>2. \A a : Count(<<>>, a) = 0
    BY CountsNothing
  <2>3. \A q \in 1..Len(c.ops) : c.ops[q].k = "read" => c.ops[q].a \in P!Bytes
    <3>1. \A q \in 1..Len(c.ops) : c.ops[q] \in P!Ops
      OBVIOUS
    <3> QED BY <3>1 DEF P!Ops
  <2>4. \A a \in P!Bytes : bytes[a] \in {0, 1}
    BY DEF P!Bits
  <2>5. \A a \in Reads(c.ops) : bytes[a] = Nth(bytes, a, 0)
    <3>1. ASSUME NEW a \in P!Bytes PROVE bytes[a] = Nth(bytes, a, 0)
      BY <2>4 DEF Nth
    <3> QED BY <2>3, <3>1 DEF Reads
  <2>6. InTurn(f[0], c.ops, bytes)
    BY <2>1, <2>2, <2>5 DEF InTurn
  <2> QED BY <2>6
<1>3. ASSUME NEW k \in T PROVE k + 1 \in T
  <2> SUFFICES ASSUME k + 1 <= n PROVE InTurn(f[k + 1], c.ops, bytes)
    OBVIOUS
  <2>1. k \in Nat /\ k + 1 \in 1..n /\ (k + 1) - 1 = k /\ k \in 0..n /\ k <= n
    BY <1>1
  <2>2. f[k] \in States /\ f[k + 1] = P!Operate(f[k], c.ops[k + 1]) /\ InTurn(f[k], c.ops, bytes)
    BY <2>1 DEF Through
  <2> QED BY <2>1, <2>2, InTurnStep
<1>4. T = Nat
  <2>1. T \in SUBSET Nat
    OBVIOUS
  <2> HIDE DEF T
  <2> QED BY <1>2, <1>3, <2>1, AllNaturals
<1>5. ASSUME NEW k \in 0..n PROVE InTurn(f[k], c.ops, bytes)
  <2>1. k \in T /\ k <= n
    BY <1>1, <1>4
  <2> QED BY <2>1 DEF T
<1> QED BY <1>5

(* A piece writes no more than it has writes. *)
LEMMA WritesCounted ==
    ASSUME NEW ops \in Seq(P!Ops), NEW regs, NEW mask, NEW bytes,
           NEW f, Through(f, ops, Start(regs, mask, bytes))
    PROVE  Len(f[Len(ops)].wr) <= Cardinality({j \in 1..Len(ops) : ops[j].k = "write"})
<1> DEFINE n == Len(ops)
           kinds == [j \in 1..n |-> <<ops[j].k>>]
           W(j) == Earlier(kinds, "write", j)
           T == {k \in Nat : k <= n => Len(f[k].wr) <= W(k + 1)}
<1>1. n \in Nat
  OBVIOUS
<1>2. W(1) = 0 /\ \A j \in Nat \ {0} : W(j) \in Nat
       /\ W(j + 1) = W(j) + (IF kinds[j][1] = "write" THEN 1 ELSE 0)
  <2>1. 1 \in Nat \ {0}
    OBVIOUS
  <2> HIDE DEF kinds
  <2> QED BY <2>1, EarlierIs
<1>3. \A j \in 1..n : kinds[j][1] = ops[j].k
  OBVIOUS
<1>4. {j \in 1..((n + 1) - 1) : kinds[j][1] = "write"} = {j \in 1..n : ops[j].k = "write"}
  <2>1. (n + 1) - 1 = n
    BY <1>1
  <2> QED BY <1>3, <2>1
<1>5. W(n + 1) = Cardinality({j \in 1..n : ops[j].k = "write"})
  BY <1>4 DEF Earlier
<1> HIDE DEF W, kinds
<1>6. 0 \in T
  <2>1. f[0].wr = <<>>
    BY DEF Through, Start
  <2>2. Len(f[0].wr) <= W(0 + 1) /\ 0 \in Nat
    BY <1>2, <2>1
  <2> QED BY <2>2
<1>7. ASSUME NEW k \in T PROVE k + 1 \in T
  <2> SUFFICES ASSUME k + 1 <= n PROVE Len(f[k + 1].wr) <= W((k + 1) + 1)
    OBVIOUS
  <2>1. k \in Nat /\ k + 1 \in 1..n /\ (k + 1) - 1 = k /\ k \in 0..n /\ k <= n /\ k + 1 \in Nat \ {0}
    BY <1>1
  <2>2. f[k] \in States /\ f[k + 1] = P!Operate(f[k], ops[k + 1]) /\ Len(f[k].wr) <= W(k + 1)
        /\ ops[k + 1] \in P!Ops
    BY <2>1 DEF Through
  <2> DEFINE op == ops[k + 1]
             x == f[k]
             y == f[k + 1]
  <2>3. x.wr \in Log /\ Len(x.wr) \in Nat /\ x \in States /\ op \in P!Ops /\ y = P!Operate(x, op)
    BY <2>2 DEF States, Log
  <2>4. W(k + 1) \in Nat /\ W((k + 1) + 1) = W(k + 1) + (IF op.k = "write" THEN 1 ELSE 0)
    BY <1>2, <1>3, <2>1
  <2> HIDE DEF op, x, y
  <2>5. CASE op.k = "write"
    <3>1. y.wr = Append(x.wr, <<op.a, x.d[op.r]>>)
      BY <2>3, <2>5, OperateRecords
    <3>2. Len(y.wr) = Len(x.wr) + 1
      BY <2>3, <3>1 DEF Log
    <3> QED BY <2>2, <2>3, <2>4, <2>5, <3>2 DEF x, y
  <2>6. CASE op.k # "write"
    <3>1. y.wr = x.wr
      BY <2>3, <2>6, OperateRecords
    <3> QED BY <2>2, <2>3, <2>4, <2>6, <3>1 DEF x, y
  <2> QED BY <2>5, <2>6
<1>8. T = Nat
  <2>1. T \in SUBSET Nat
    OBVIOUS
  <2> HIDE DEF T
  <2> QED BY <1>6, <1>7, <2>1, AllNaturals
<1>9. n \in T
  BY <1>1, <1>8
<1>10. Len(f[n].wr) <= W(n + 1)
  BY <1>1, <1>9
<1> QED BY <1>5, <1>10

-----------------------------------------------------------------------------
(* The block that waits to be settled: what the record holds is what ran of *)
(* it, and nothing since has touched what it is compared with.              *)
To(x, e) == Place(P!Leaves(x, Low(pend.off), e.d, pend.stack))

Unlike(gen, c, g, i) ==
    \/ g.d # i.d
    \/ ~c.rte /\ g.imask # i.imask
    \/ To(gen, g) # To(c, i)
    \/ \E a \in P!Bytes : Of(g.rd, a) # Of(i.rd, a) \/ Of(g.wr, a) # Of(i.wr, a)

Left(gen, c, g, i) ==
    /\ d = g.d
    /\ rd = Fit(g.rd) /\ wr = Fit(g.wr)
    /\ log_over = (Len(g.rd) > LogMax \/ Len(g.wr) > LogMax)
    /\ Place(pc) = To(gen, g)
    /\ stack = IF c.rte THEN Front(pend.stack) ELSE pend.stack
    /\ wrong = Unlike(gen, c, g, i)

Ran(mask, bytes) ==
    LET gen == Generated(pend.off)
        c   == Code[pend.off]
    IN  Left(gen, c, P!Run(gen.ops, pend.d, mask, bytes), P!Run(c.ops, pend.d, mask, bytes))

Pending ==
    /\ pend.off \in Compiled /\ pend.d \in [1..2 -> P!Bits]
    /\ \E S : pend.stack \in Seq(S) /\ \A f \in S : Address(f[1])
    /\ Code[pend.off].rte => pend.stack # <<>>
    /\ wrong => fault # None /\ fault.of = pend.off
    /\ \E mask \in 0..7, bytes \in [P!Bytes -> P!Bits] : Ran(mask, bytes)

Awaits == armed => backend = "recomp" /\ turn # "gap" /\ Pending

LEMMA PendingStays ==
    ASSUME Pending, UNCHANGED <<d, rd, wr, log_over, stack, wrong, pend, fault>>,
           Place(pc') = Place(pc)
    PROVE  Pending'
<1>1. \A x, e : To(x, e)' = To(x, e)
  <2>1. Low(pend.off)' = Low(pend.off)
    BY DEF Low
  <2> QED BY <2>1 DEF To, Place
<1>2. \A o : Generated(o)' = Generated(o)
  BY DEF Generated
<1>3. (Place(pc))' = Place(pc)
  BY DEF Place
<1>4. ASSUME NEW mask, NEW bytes, Ran(mask, bytes) PROVE Ran(mask, bytes)'
  <2>1. PICK o, regs, gen : o = pend.off /\ regs = pend.d /\ gen = Generated(o)
    OBVIOUS
  <2> DEFINE c == Code[o]
             g == P!Run(gen.ops, regs, mask, bytes)
             i == P!Run(c.ops, regs, mask, bytes)
  <2>2. Left(gen, c, g, i)
    BY <1>4, <2>1 DEF Ran
  <2>3. pend'.off = o /\ pend'.d = regs /\ Generated(o)' = gen
    BY <1>2, <2>1
  <2> HIDE DEF c, g, i
  <2>4. Unlike(gen, c, g, i)' = Unlike(gen, c, g, i)
    BY <1>1 DEF Unlike
  <2>5. Left(gen, c, g, i)'
    BY <1>1, <1>3, <2>2, <2>4 DEF Left
  <2> QED BY <2>3, <2>5 DEF Ran, c, g, i
<1> QED BY <1>4 DEF Pending

LEMMA BlockPending ==
    ASSUME Machine, InItsCode, Block
    PROVE  Pending'
<1>1. Dispatchable(pc) /\ P!Shown(pc, hw) = Canon(pc) /\ Canon(pc) \in Compiled
  BY BlockIsShown DEF Block, Dispatchable
<1>2. PICK o \in Compiled : o = Canon(pc)
  BY <1>1
<1>3. PICK regs, mask, bytes, frames, S :
         /\ regs = d /\ mask = imask /\ bytes = hw /\ frames = stack
         /\ regs \in [1..2 -> P!Bits] /\ mask \in 0..7 /\ bytes \in [P!Bytes -> P!Bits]
         /\ frames \in Seq(S) /\ \A f \in S : Address(f[1])
  <2>1. PICK S : Framed(S)
    BY DEF Machine
  <2> QED BY <2>1 DEF Machine, Framed
<1>4. PICK gen : gen = Generated(o)
  OBVIOUS
<1> DEFINE c == Code[o]
           g == P!Run(gen.ops, regs, mask, bytes)
           i == P!Run(c.ops, regs, mask, bytes)
           Far(x, e) == Place(P!Leaves(x, Low(o), e.d, frames))
<1>5. /\ IsPiece(gen) /\ gen.rte = c.rte /\ IsPiece(c)
      /\ fault = None \/ fault.of # o => gen = Emitted[o]
  BY <1>4, GeneratedIs DEF Machine
<1>6. c.rte => frames # <<>>
  BY <1>1, <1>2, <1>3 DEF InItsCode
<1>7. /\ d' = g.d /\ rd' = Fit(g.rd) /\ wr' = Fit(g.wr)
      /\ log_over' = (Len(g.rd) > LogMax \/ Len(g.wr) > LogMax)
      /\ pc' = P!Leaves(gen, Low(o), g.d, frames)
      /\ stack' = IF gen.rte THEN Front(frames) ELSE frames
      /\ pend' = [off |-> o, d |-> regs, stack |-> frames]
      /\ wrong' = Differs(gen, c)
      /\ UNCHANGED fault
  BY <1>2, <1>3, <1>4 DEF Block, build
<1>8. pend'.off = o /\ pend'.d = regs /\ pend'.stack = frames
  BY <1>7
<1>9. Generated(o)' = gen
  BY <1>4, <1>7 DEF Generated
<1>10. \A x, e : To(x, e)' = Far(x, e)
  BY <1>8 DEF To, Place, Low
<1>11. Differs(gen, c) = (\/ g.d # i.d
                          \/ ~c.rte /\ g.imask # i.imask
                          \/ Far(gen, g) # Far(c, i)
                          \/ \E a \in P!Bytes : Of(g.rd, a) # Of(i.rd, a) \/ Of(g.wr, a) # Of(i.wr, a))
  <2> DEFINE Goes(x, e) == Place(P!Leaves(x, Low(None), e.d, frames))
  <2>1. ASSUME NEW x, NEW e PROVE Goes(x, e) = Far(x, e)
    <3>1. Low(None).w = "low" /\ Low(o).w = "low"
      BY DEF Low, P!At
    <3> QED BY <3>1 DEF P!Leaves
  <2>2. Differs(gen, c) = (\/ g.d # i.d
                           \/ ~c.rte /\ g.imask # i.imask
                           \/ Goes(gen, g) # Goes(c, i)
                           \/ \E a \in P!Bytes : Of(g.rd, a) # Of(i.rd, a) \/ Of(g.wr, a) # Of(i.wr, a))
    BY <1>3 DEF Differs
  <2> HIDE DEF Goes, Far, g, i, c
  <2> QED BY <2>1, <2>2
<1> HIDE DEF g, i, Far
<1>12. wrong' => fault' # None /\ fault'.of = o
  <2> SUFFICES ASSUME Differs(gen, c), gen = Emitted[o] PROVE FALSE
    BY <1>5, <1>7
  <2>1. gen.to = c.to /\ gen.rte = c.rte /\ g.d = i.d /\ g.imask = i.imask
        /\ \A a \in P!Bytes : Of(g.rd, a) = Of(i.rd, a) /\ Of(g.wr, a) = Of(i.wr, a)
    BY <1>3, FaithfulAssumption DEF g, i
  <2>2. Far(gen, g) = Far(c, i)
    BY <2>1 DEF Far, P!Leaves
  <2> QED BY <1>11, <2>1, <2>2
<1> HIDE DEF c
<1>13. Left(gen, c, g, i)'
  <2>1. (Place(pc))' = Far(gen, g)
    BY <1>7 DEF Place, Far
  <2> QED BY <1>5, <1>7, <1>8, <1>10, <1>11, <2>1 DEF Left, Unlike
<1>14. Ran(mask, bytes)'
  BY <1>8, <1>9, <1>13 DEF Ran, c, g, i
<1>15. \E S1 : pend'.stack \in Seq(S1) /\ \A f \in S1 : Address(f[1])
  BY <1>3, <1>8
<1> QED BY <1>3, <1>6, <1>8, <1>12, <1>14, <1>15 DEF Pending, c, Address

LEMMA AwaitsStep ==
    ASSUME Machine, InItsCode, Awaits, [Next]_vars
    PROVE  Awaits'
<1>1. CASE Block
  <2>1. Pending'
    BY <1>1, BlockPending
  <2>2. backend' = "recomp" /\ turn' # "gap"
    BY <1>1 DEF Block, build
  <2> QED BY <2>1, <2>2 DEF Awaits
<1> SUFFICES ASSUME ~Block, armed' PROVE Awaits'
  BY <1>1 DEF Awaits
<1>a. ASSUME armed, turn' # "gap", UNCHANGED <<build, d, rd, wr, log_over, stack, wrong, pend>>,
             Place(pc') = Place(pc)
      PROVE  Awaits'
  <2>1. UNCHANGED fault /\ backend' = backend
    BY <1>a DEF build
  <2>2. Pending'
    BY <1>a, <2>1, PendingStays DEF Awaits
  <2> QED BY <1>a, <2>1, <2>2 DEF Awaits
<1>2. CASE Beam
  BY <1>2, <1>a DEF Beam, cpu_vars, xchk_vars, log_vars
<1>3. CASE Poll
  BY <1>3, <1>a DEF Poll, Break, log_vars
<1>4. CASE EndRun
  <2>1. armed /\ turn' # "gap" /\ UNCHANGED <<build, d, rd, wr, log_over, stack, wrong, pend>>
    BY <1>4 DEF EndRun, log_vars
  <2>2. Place(pc') = Place(pc)
    <3>1. CASE xchk_mode = "record"
      <4>1. pc' = Low(Canon(pc)) /\ Dispatchable(pc)
        BY <1>4, <3>1 DEF EndRun, Machine, Recording
      <4> QED BY <4>1, PlaceOfBlock DEF Machine
    <3>2. CASE xchk_mode # "record"
      BY <1>4, <3>2 DEF EndRun
    <3> QED BY <3>1, <3>2
  <2> QED BY <1>a, <2>1, <2>2
<1>5. CASE HandOver
  BY <1>5 DEF HandOver, Break
<1>6. CASE Gap
  BY <1>6 DEF Gap, Awaits, xchk_vars
<1>7. CASE Musashi
  BY <1>7 DEF Musashi, Awaits, xchk_vars
<1>8. CASE Others
  <2>1. xchk_mode # "record"
    BY <1>8 DEF Others, Machine, Recording
  <2> QED BY <1>8, <1>a, <2>1 DEF Others, log_vars
<1>9. CASE UNCHANGED vars
  BY <1>9, <1>a DEF vars, cpu_vars, xchk_vars, log_vars, Awaits
<1> QED BY <1>2, <1>3, <1>4, <1>5, <1>6, <1>7, <1>8, <1>9 DEF Next

-----------------------------------------------------------------------------
(* The comparison, at the entry of the next block. *)

(* What the interpreter reads next is what the record answers with, where   *)
(* the two read the same of each address.                                   *)
LEMMA ToldWhatItRead ==
    ASSUME NEW ops \in Seq(P!Ops), NEW s, NEW f, Through(f, ops, s), rd \in Log,
           \A a \in P!Bytes : Of(f[Len(ops)].rd, a) = Of(rd, a),
           NEW k \in 1..Len(ops)
    PROVE  /\ Told(f[k - 1], ops[k])
           /\ ops[k].k = "read" => Count(f[k - 1].rd, ops[k].a) < Count(rd, ops[k].a)
<1> DEFINE n == Len(ops)
           x == f[k - 1]
           y == f[k]
           z == f[n]
           a == ops[k].a
<1>1. n \in Nat /\ k - 1 \in 0..n /\ k \in 0..n /\ n \in 0..n /\ ops[k] \in P!Ops
  OBVIOUS
<1>2. x \in States /\ z \in States /\ y = P!Operate(x, ops[k])
  BY <1>1 DEF Through
<1>3. x.rd \in Log /\ z.rd \in Log /\ Len(x.rd) \in Nat /\ Len(z.rd) \in Nat
  BY <1>2 DEF States, Log
<1> SUFFICES ASSUME ops[k].k = "read"
             PROVE  Told(x, ops[k]) /\ Count(x.rd, a) < Count(rd, a)
  BY DEF Told
<1>4. y.rd = Append(x.rd, <<a, x.hw[a]>>) /\ a \in P!Bytes
  <2> DEFINE op == ops[k]
  <2>1. op \in P!Ops /\ op.k = "read" /\ x \in States /\ y = P!Operate(x, op) /\ a = op.a
    BY <1>1, <1>2
  <2> HIDE DEF x, y, op, a
  <2> QED BY <2>1, OperateRecords
<1> DEFINE q == Len(x.rd) + 1
<1>5. Starts(x.rd, z.rd) /\ Starts(y.rd, z.rd)
  BY <1>1, RecordKept
<1>6. Len(y.rd) = q /\ y.rd[q] = <<a, x.hw[a]>>
  <2>1. <<a, x.hw[a]>> \in P!Bytes \X P!Bits
    BY <1>2, <1>4 DEF States
  <2> DEFINE e == <<a, x.hw[a]>>
  <2> HIDE DEF e, x, y
  <2>2. y.rd = Append(x.rd, e) /\ e \in P!Bytes \X P!Bits
    BY <1>4, <2>1 DEF e
  <2>3. Len(y.rd) = q /\ y.rd[q] = e
    BY <1>3, <2>2 DEF Log
  <2> QED BY <2>3 DEF e
<1>7. q \in 1..Len(z.rd) /\ z.rd[q] = <<a, x.hw[a]>> /\ \A i \in 1..(q - 1) : x.rd[i] = z.rd[i]
  <2> HIDE DEF x, y, z, a
  <2>1. q \in 1..Len(y.rd) /\ q - 1 = Len(x.rd) /\ Len(z.rd) \in Nat /\ q \in Nat \ {0}
    BY <1>3, <1>6
  <2>2. Len(y.rd) <= Len(z.rd) /\ z.rd[q] = y.rd[q] /\ \A i \in 1..Len(x.rd) : z.rd[i] = x.rd[i]
    BY <1>5, <2>1 DEF Starts
  <2> HIDE DEF q
  <2> QED BY <1>6, <2>1, <2>2
<1> HIDE DEF x, y, z, n, a
<1>8. Earlier(z.rd, a, q) = Count(x.rd, a)
  <2>1. q \in Nat
    BY <1>3
  <2> HIDE DEF q
  <2>2. Earlier(x.rd, a, q) = Earlier(z.rd, a, q)
    BY <1>7, <2>1, EarlierSame
  <2> QED BY <2>2 DEF Count, q
<1>9. z.rd[q][1] = a /\ z.rd[q][2] = x.hw[a]
  BY <1>7
<1>10. Of(z.rd, a) = Of(rd, a)
  BY <1>4 DEF z, n
<1> HIDE DEF q
<1>11. PICK p \in 1..Len(rd) : rd[p] = z.rd[q] /\ Earlier(rd, a, p) = Count(x.rd, a)
  <2>1. \A i \in 1..Len(z.rd) : z.rd[i][1] = a =>
           \E j \in 1..Len(rd) : rd[j] = z.rd[i] /\ Earlier(rd, a, j) = Earlier(z.rd, a, i)
    BY <1>3, <1>10, SameEntries
  <2> QED BY <1>7, <1>8, <1>9, <2>1
<1>12. rd[p][1] = a
  BY <1>9, <1>11
<1>13. ASSUME NEW j \in 1..Len(rd), rd[j][1] = a, Earlier(rd, a, j) = Count(x.rd, a)
       PROVE  rd[j][2] = x.hw[a]
  <2>1. j = p
    BY <1>11, <1>12, <1>13, EntryCounted
  <2> QED BY <1>9, <1>11, <2>1
<1>14. Count(x.rd, a) < Count(rd, a)
  BY <1>11, <1>12, EntryCounted
<1> QED BY <1>13, <1>14 DEF Told, a

(* The same where neither reads a byte it writes, whatever else they do.    *)
LEMMA ToldInTurn ==
    ASSUME NEW c, c.ops \in Seq(P!Ops), Apart(c), NEW gen, gen.ops \in Seq(P!Ops), Apart(gen),
           NEW regs \in [1..2 -> P!Bits], NEW mask \in 0..7, NEW bytes \in [P!Bytes -> P!Bits],
           NEW f, Through(f, c.ops, Start(regs, mask, bytes)),
           rd = P!Run(gen.ops, regs, mask, bytes).rd
    PROVE  /\ \A j \in 1..Len(rd) :
                 rd[j] = <<rd[j][1], Nth(bytes, rd[j][1], Earlier(rd, rd[j][1], j))>>
           /\ \A k \in 1..Len(c.ops) : Told(f[k - 1], c.ops[k])
<1>1. PICK e : /\ Through(e, gen.ops, Start(regs, mask, bytes))
               /\ P!Run(gen.ops, regs, mask, bytes) = e[Len(gen.ops)]
  BY RunIs
<1>2. Len(gen.ops) \in 0..Len(gen.ops)
  OBVIOUS
<1>3. InTurn(e[Len(gen.ops)], gen.ops, bytes)
  BY <1>1, <1>2, ReadsInTurn
<1>4. \A j \in 1..Len(rd) :
         rd[j] = <<rd[j][1], Nth(bytes, rd[j][1], Earlier(rd, rd[j][1], j))>>
  BY <1>1, <1>3 DEF InTurn
<1>5. ASSUME NEW k \in 1..Len(c.ops) PROVE Told(f[k - 1], c.ops[k])
  <2>1. k - 1 \in 0..Len(c.ops)
    OBVIOUS
  <2>2. InTurn(f[k - 1], c.ops, bytes)
    BY <2>1, ReadsInTurn
  <2> DEFINE a == c.ops[k].a
  <2>3. c.ops[k].k = "read" => a \in Reads(c.ops)
    BY DEF Reads
  <2>4. c.ops[k].k = "read" => f[k - 1].hw[a] = Nth(bytes, a, Count(f[k - 1].rd, a))
    BY <2>2, <2>3 DEF InTurn
  <2>5. ASSUME NEW j \in 1..Len(rd), c.ops[k].k = "read",
               rd[j][1] = a, Earlier(rd, a, j) = Count(f[k - 1].rd, a)
        PROVE  rd[j][2] = f[k - 1].hw[a]
    <3>1. rd[j] = <<a, Nth(bytes, a, Count(f[k - 1].rd, a))>>
      BY <1>4, <2>5
    <3> QED BY <2>4, <2>5, <3>1
  <2> QED BY <2>5 DEF Told
<1> QED BY <1>4, <1>5

(* Two addresses of a block's end compare as they are places.               *)
LEMMA ComparesPlaces ==
    ASSUME NEW to, Address(to), Address(pc), Dispatchable(pc)
    PROVE  (to # Low(Canon(pc)) /\ Canon(to) # Canon(pc)) <=> Place(to) # Place(pc)
<1>1. Canon(pc) # None
  BY RecompAssumption DEF Dispatchable
<1>2. Place(pc) = Low(Canon(pc)) /\ Place(Low(Canon(pc))) = Low(Canon(pc))
  BY PlaceOfBlock
<1>3. CASE to.w \in {"low", "win"}
  <2>1. Canon(to) = to.o /\ Place(to) = Low(to.o)
    BY <1>3 DEF Canon, Place, Low, Address, P!At
  <2>2. Low(to.o) = Low(Canon(pc)) => to.o = Canon(pc)
    BY DEF Low, P!At
  <2> QED BY <1>2, <2>1, <2>2
<1>4. CASE ~(to.w \in {"low", "win"})
  <2>1. Canon(to) = None /\ Place(to) = to /\ Low(Canon(pc)).w = "low"
    BY <1>4 DEF Canon, Place, Low, P!At
  <2> QED BY <1>1, <1>2, <1>4, <2>1
<1> QED BY <1>3, <1>4

(* What the comparison has before it: a block that ran, all it recorded,    *)
(* and the shadow of its code.                                              *)
Comparing(gen, c, regs, frames, mask, bytes, f, s) ==
    LET g == P!Run(gen.ops, regs, mask, bytes)
        i == P!Run(c.ops, regs, mask, bytes)
    IN  /\ regs \in [1..2 -> P!Bits] /\ mask \in 0..7 /\ bytes \in [P!Bytes -> P!Bits]
        /\ gen.ops \in Seq(P!Ops) /\ c.ops \in Seq(P!Ops)
        /\ g \in States /\ i \in States /\ d = g.d /\ rd = g.rd /\ wr = g.wr
        /\ Len(wr) <= LogMax /\ rd \in Log /\ wr \in Log
        /\ wrong = Unlike(gen, c, g, i)
        /\ Place(pc) = To(gen, g)
        /\ Through(f, c.ops, Start(regs, mask, bytes)) /\ i = f[Len(c.ops)]
        /\ regs = pend.d /\ frames = pend.stack
        /\ s = ShadowRun(c.ops)
        /\ (\A k \in 1..Len(c.ops) : Told(f[k - 1], c.ops[k])) => s.why \/ Match(s, i)
        /\ (\A k \in 1..Len(c.ops) :
              /\ Told(f[k - 1], c.ops[k])
              /\ c.ops[k].k = "read" => Count(f[k - 1].rd, c.ops[k].a) < Count(rd, c.ops[k].a))
           => Match(s, i)
        /\ Disagree(Canon(pc)) = \/ s.why
                                 \/ s.d # d
                                 \/ To(c, s) # Place(pc)
                                 \/ ~SameWrites(wr, s.wr)
                                 \/ s.used # 1..Len(rd)

LEMMA BlockCompared ==
    ASSUME Machine, InItsCode, Pending, Dispatchable(pc), ~log_over
    PROVE  \E regs, frames, mask, bytes, f, s :
              Comparing(Generated(pend.off), Code[pend.off], regs, frames, mask, bytes, f, s)
<1>1. PICK mask \in 0..7, bytes \in [P!Bytes -> P!Bits] : Ran(mask, bytes)
  BY DEF Pending
<1>2. PICK S : pend.stack \in Seq(S) /\ \A x \in S : Address(x[1])
  BY DEF Pending
<1> DEFINE gen == Generated(pend.off)
           c == Code[pend.off]
           regs == pend.d
           g == P!Run(gen.ops, regs, mask, bytes)
           i == P!Run(c.ops, regs, mask, bytes)
           s == ShadowRun(c.ops)
<1>3. regs \in [1..2 -> P!Bits] /\ (c.rte => pend.stack # <<>>) /\ pend.off \in Compiled
  BY DEF Pending
<1>4. IsPiece(gen) /\ IsPiece(c)
  BY <1>3, GeneratedIs DEF Machine
<1>5. gen.ops \in Seq(P!Ops) /\ c.ops \in Seq(P!Ops)
  BY <1>4 DEF IsPiece
<1>6. g \in States /\ i \in States
  BY <1>3, <1>5, RunTyped
<1>7. Left(gen, c, g, i)
  BY <1>1 DEF Ran
<1> HIDE DEF gen, c, g, i, regs, s
<1>8. rd = g.rd /\ wr = g.wr /\ Len(wr) <= LogMax /\ rd \in Log /\ wr \in Log
  <2>1. g.rd \in Log /\ g.wr \in Log
    BY <1>6 DEF States
  <2>2. Len(g.rd) \in Nat /\ Len(g.wr) \in Nat /\ LogMax \in Nat
    BY <2>1, RecompAssumption DEF Log
  <2>3. ~(Len(g.rd) > LogMax) /\ ~(Len(g.wr) > LogMax)
    <3>1. log_over = (Len(g.rd) > LogMax \/ Len(g.wr) > LogMax)
      BY <1>7 DEF Left
    <3> QED BY <3>1, Zenon
  <2>4. Len(g.rd) <= LogMax /\ Len(g.wr) <= LogMax
    BY <2>2, <2>3
  <2> QED BY <1>7, <2>1, <2>4, FitIs DEF Left
<1>9. PICK f : Through(f, c.ops, Start(regs, mask, bytes)) /\ i = f[Len(c.ops)]
  BY <1>3, <1>5, RunIs DEF i
<1>10. PICK h : ShadowThrough(h, c.ops) /\ s = h[Len(c.ops)]
  BY <1>3, <1>5, <1>8, ShadowRunIs DEF s, regs
<1>11. s \in ShadowStates
  <2>1. Len(c.ops) \in 0..Len(c.ops)
    BY <1>5
  <2> QED BY <1>10, <2>1 DEF ShadowThrough
<1>12. ASSUME \A k \in 1..Len(c.ops) : Told(f[k - 1], c.ops[k])
       PROVE  /\ s.why \/ Match(s, i)
              /\ (\A k \in 1..Len(c.ops) : c.ops[k].k = "read" =>
                     Count(f[k - 1].rd, c.ops[k].a) < Count(rd, c.ops[k].a)) => Match(s, i)
  BY <1>3, <1>5, <1>8, <1>9, <1>10, <1>12, ShadowFollows DEF regs
<1> DEFINE to == P!Leaves(c, Low(pend.off), s.d, pend.stack)
<1>13. Disagree(Canon(pc)) = \/ s.why
                             \/ s.d # d
                             \/ To(c, s) # Place(pc)
                             \/ ~SameWrites(wr, s.wr)
                             \/ s.used # 1..Len(rd)
  <2>1. Len(stack) = Len(pend.stack) - (IF c.rte THEN 1 ELSE 0)
    <3>1. CASE c.rte
      BY <1>2, <1>3, <1>7, <3>1, FrontElements DEF Left
    <3>2. CASE ~c.rte
      BY <1>2, <1>7, <3>2 DEF Left
    <3> QED BY <3>1, <3>2
  <2>2. Address(to)
    <3>1. Low(pend.off).w \in Windows
      BY DEF Low, P!At, Windows
    <3> QED BY <1>2, <1>3, <1>4, <1>11, <3>1, LeavesAddress DEF ShadowStates
  <2>3. To(c, s) = Place(to)
    BY DEF To
  <2> HIDE DEF to
  <2>4. (to # Low(Canon(pc)) /\ Canon(to) # Canon(pc)) <=> Place(to) # Place(pc)
    BY <2>2, ComparesPlaces DEF Machine
  <2>5. Disagree(Canon(pc)) = \/ s.why
                              \/ s.d # d
                              \/ Len(pend.stack) - (IF c.rte THEN 1 ELSE 0) # Len(stack)
                              \/ to # Low(Canon(pc)) /\ Canon(to) # Canon(pc)
                              \/ ~SameWrites(wr, s.wr)
                              \/ s.used # 1..Len(rd)
    BY DEF Disagree, c, s, to
  <2> QED BY <2>1, <2>3, <2>4, <2>5
<1>14. d = g.d /\ wrong = Unlike(gen, c, g, i) /\ Place(pc) = To(gen, g)
  BY <1>7 DEF Left
<1>15. Comparing(gen, c, regs, pend.stack, mask, bytes, f, s)
  BY <1>3, <1>5, <1>6, <1>8, <1>9, <1>12, <1>13, <1>14 DEF Comparing, g, i, s, regs, c
<1> QED BY <1>15 DEF gen, c

(* A block that did what its code does is not reported.                     *)
LEMMA RightBlockAgrees ==
    ASSUME Machine, InItsCode, Pending, Dispatchable(pc), ~log_over, ~wrong
    PROVE  ~Disagree(Canon(pc))
<1> DEFINE gen == Generated(pend.off)
           c == Code[pend.off]
<1>1. PICK regs, frames, mask, bytes, f, s :
         Comparing(gen, c, regs, frames, mask, bytes, f, s)
  BY BlockCompared
<1> DEFINE g == P!Run(gen.ops, regs, mask, bytes)
           i == P!Run(c.ops, regs, mask, bytes)
<1> HIDE DEF gen, c
<1>2. ~Unlike(gen, c, g, i)
  BY <1>1 DEF Comparing
<1> HIDE DEF g, i
<1>3. g.d = i.d /\ To(gen, g) = To(c, i)
      /\ \A a \in P!Bytes : Of(g.rd, a) = Of(i.rd, a) /\ Of(g.wr, a) = Of(i.wr, a)
  BY <1>2 DEF Unlike
<1>4. /\ d = g.d /\ rd = g.rd /\ wr = g.wr /\ rd \in Log /\ wr \in Log /\ Len(wr) <= LogMax
      /\ i \in States /\ i = f[Len(c.ops)] /\ Place(pc) = To(gen, g)
      /\ c.ops \in Seq(P!Ops) /\ Through(f, c.ops, Start(regs, mask, bytes))
  BY <1>1 DEF Comparing, g, i
<1>5. i.rd \in Log /\ i.wr \in Log
  BY <1>4 DEF States
<1>6. Match(s, i)
  <2>1. \A k \in 1..Len(c.ops) :
           /\ Told(f[k - 1], c.ops[k])
           /\ c.ops[k].k = "read" => Count(f[k - 1].rd, c.ops[k].a) < Count(rd, c.ops[k].a)
    BY <1>3, <1>4, ToldWhatItRead
  <2> QED BY <1>1, <2>1 DEF Comparing, i
<1>7. s.d = d /\ To(c, s) = Place(pc) /\ ~s.why
  <2>1. s.d = i.d
    BY <1>6 DEF Match
  <2>2. To(c, s) = To(c, i)
    BY <2>1 DEF To
  <2> QED BY <1>3, <1>4, <1>6, <2>1, <2>2 DEF Match
<1>8. SameWrites(wr, s.wr)
  <2>1. Len(i.wr) = Len(wr)
    BY <1>3, <1>4, <1>5, SameLengths
  <2>2. Fit(i.wr) = i.wr
    BY <1>4, <1>5, <2>1, FitIs
  <2> QED BY <1>3, <1>4, <1>6, <2>2 DEF Match, SameWrites
<1>9. s.used = 1..Len(rd)
  <2>1. ASSUME NEW j \in 1..Len(rd) PROVE Earlier(rd, rd[j][1], j) < Count(i.rd, rd[j][1])
    <3>1. rd[j][1] \in P!Bytes
      BY <1>4 DEF Log
    <3>2. Earlier(rd, rd[j][1], j) < Count(rd, rd[j][1]) /\ Earlier(rd, rd[j][1], j) \in Nat
      BY <1>4, EntryCounted
    <3>3. Of(rd, rd[j][1]) = Of(i.rd, rd[j][1])
      BY <1>3, <1>4, <3>1
    <3>4. Count(rd, rd[j][1]) <= Count(i.rd, rd[j][1])
      BY <1>4, <1>5, <3>3, SameEntries
    <3>5. Count(rd, rd[j][1]) \in Nat /\ Count(i.rd, rd[j][1]) \in Nat
      BY <1>4, <1>5, CountsNothing
    <3> QED BY <3>2, <3>4, <3>5
  <2>2. Used(i) = 1..Len(rd)
    BY <2>1 DEF Used
  <2> QED BY <1>6, <2>2 DEF Match
<1> QED BY <1>1, <1>7, <1>8, <1>9 DEF Comparing

(* One that did not is, where its accesses allow it.                        *)
LEMMA WrongBlockDiffers ==
    ASSUME Machine, InItsCode, Pending, Dispatchable(pc), ~log_over,
           Apart(Generated(pend.off)), Apart(Code[pend.off]), WritesFit(Code[pend.off]),
           fault \in MaskKept, fault.of = pend.off, Generated(pend.off) = fault.code,
           ~Disagree(Canon(pc))
    PROVE  ~wrong
<1> DEFINE gen == Generated(pend.off)
           c == Code[pend.off]
<1>1. PICK regs, frames, mask, bytes, f, s :
         Comparing(gen, c, regs, frames, mask, bytes, f, s)
  BY BlockCompared
<1> DEFINE g == P!Run(gen.ops, regs, mask, bytes)
           i == P!Run(c.ops, regs, mask, bytes)
<1>0. Apart(gen) /\ Apart(c) /\ WritesFit(c)
  OBVIOUS
<1>k. \A R \in [1..2 -> P!Bits], M \in 0..7, H \in [P!Bytes -> P!Bits] :
        c.rte \/ P!Run(gen.ops, R, M, H).imask = P!Run(c.ops, R, M, H).imask
  BY DEF MaskKept
<1> HIDE DEF gen, c
<1>2. /\ d = g.d /\ rd = g.rd /\ wr = g.wr /\ rd \in Log /\ wr \in Log
      /\ i \in States /\ i = f[Len(c.ops)] /\ Place(pc) = To(gen, g)
      /\ c.ops \in Seq(P!Ops) /\ gen.ops \in Seq(P!Ops)
      /\ Through(f, c.ops, Start(regs, mask, bytes))
      /\ regs \in [1..2 -> P!Bits] /\ mask \in 0..7 /\ bytes \in [P!Bytes -> P!Bits]
  BY <1>1 DEF Comparing
<1>3. /\ \A j \in 1..Len(rd) :
            rd[j] = <<rd[j][1], Nth(bytes, rd[j][1], Earlier(rd, rd[j][1], j))>>
      /\ \A k \in 1..Len(c.ops) : Told(f[k - 1], c.ops[k])
  BY <1>0, <1>2, ToldInTurn
<1>m. c.rte \/ g.imask = i.imask
  BY <1>k, <1>2
<1>4. InTurn(i, c.ops, bytes)
  <2>1. Len(c.ops) \in 0..Len(c.ops)
    BY <1>2
  <2> QED BY <1>0, <1>2, <2>1, ReadsInTurn
<1> HIDE DEF g, i
<1>5. ~s.why /\ s.d = d /\ To(c, s) = Place(pc) /\ SameWrites(wr, s.wr) /\ s.used = 1..Len(rd)
  BY <1>1 DEF Comparing
<1>6. Match(s, i)
  BY <1>1, <1>3, <1>5 DEF Comparing, i
<1>7. g.d = i.d /\ To(gen, g) = To(c, i)
  <2>1. To(c, s) = To(c, i)
    BY <1>6 DEF To, Match
  <2> QED BY <1>2, <1>5, <1>6, <2>1 DEF Match
<1>8. i.rd \in Log /\ i.wr \in Log /\ Len(i.wr) \in Nat
  BY <1>2 DEF States, Log
<1>9. \A a \in P!Bytes : Of(g.wr, a) = Of(i.wr, a)
  <2>1. Len(i.wr) <= Cardinality({j \in 1..Len(c.ops) : c.ops[j].k = "write"})
    BY <1>2, WritesCounted
  <2> DEFINE C == Cardinality({j \in 1..Len(c.ops) : c.ops[j].k = "write"})
  <2>2. C \in Nat /\ C <= LogMax /\ LogMax \in Nat
    <3>1. IsFiniteSet({j \in 1..Len(c.ops) : c.ops[j].k = "write"})
      <4>1. IsFiniteSet(1..Len(c.ops))
        BY <1>2, FS_Interval
      <4> QED BY <4>1, FS_Subset
    <3> QED BY <1>0, <3>1, FS_CardinalityType, RecompAssumption DEF WritesFit
  <2> HIDE DEF C
  <2>3. Len(i.wr) <= LogMax
    BY <1>8, <2>1, <2>2 DEF C
  <2>4. Fit(i.wr) = i.wr
    BY <1>8, <2>3, FitIs
  <2> QED BY <1>2, <1>5, <1>6, <2>4 DEF Match, SameWrites
<1>10. ASSUME NEW a \in P!Bytes PROVE Of(g.rd, a) = Of(i.rd, a)
  <2>1. Count(rd, a) \in Nat /\ Count(i.rd, a) \in Nat /\ Len(rd) \in Nat /\ Len(i.rd) \in Nat
    <3>1. rd \in Log /\ i.rd \in Log
      BY <1>2, <1>8
    <3>2. \A log \in Log : Len(log) \in Nat
      BY DEF Log
    <3> QED BY <3>1, <3>2, CountsNothing
  <2>2. \A j \in 1..Len(rd) : Earlier(rd, rd[j][1], j) < Count(i.rd, rd[j][1])
    BY <1>5, <1>6 DEF Match, Used
  <2>3. Count(rd, a) = Count(i.rd, a)
    <3>1. ASSUME Count(i.rd, a) < Count(rd, a) PROVE FALSE
      <4>1. PICK j \in 1..Len(rd) : rd[j][1] = a /\ Earlier(rd, a, j) = Count(i.rd, a)
        BY <2>1, <3>1, EarlierReaches DEF Count
      <4> QED BY <2>1, <2>2, <4>1
    <3>2. Count(i.rd, a) <= Count(rd, a)
      BY <1>6 DEF Match
    <3> QED BY <2>1, <3>1, <3>2
  <2> DEFINE E == {<<m, <<a, Nth(bytes, a, m)>>>> : m \in 0..(Count(rd, a) - 1)}
  <2>4. ASSUME NEW log \in Log, Count(log, a) = Count(rd, a),
               \A j \in 1..Len(log) :
                  log[j] = <<log[j][1], Nth(bytes, log[j][1], Earlier(log, log[j][1], j))>>
        PROVE  Of(log, a) = E
    <3>1. Len(log) \in Nat
      BY DEF Log
    <3>2. ASSUME NEW j \in 1..Len(log), log[j][1] = a
          PROVE  <<Earlier(log, a, j), log[j]>> \in E
      <4>1. Earlier(log, a, j) \in 0..(Count(rd, a) - 1)
        BY <2>1, <2>4, <3>2, EntryCounted
      <4>2. log[j] = <<a, Nth(bytes, a, Earlier(log, a, j))>>
        BY <2>4, <3>2
      <4> QED BY <4>1, <4>2
    <3>3. ASSUME NEW m \in 0..(Count(rd, a) - 1)
          PROVE  <<m, <<a, Nth(bytes, a, m)>>>> \in Of(log, a)
      <4>1. m \in Nat /\ m < Count(log, a)
        BY <2>1, <2>4
      <4>2. PICK j \in 1..Len(log) : log[j][1] = a /\ Earlier(log, a, j) = m
        BY <3>1, <4>1, EarlierReaches DEF Count
      <4>3. log[j] = <<a, Nth(bytes, a, m)>>
        BY <2>4, <4>2
      <4> QED BY <4>2, <4>3 DEF Of
    <3>4. Of(log, a) \subseteq E
      BY <3>2 DEF Of
    <3>5. E \subseteq Of(log, a)
      BY <3>3
    <3> QED BY <3>4, <3>5
  <2> HIDE DEF E
  <2>5. Of(rd, a) = E
    BY <1>2, <1>3, <2>4
  <2>6. Of(i.rd, a) = E
    BY <1>4, <1>8, <2>3, <2>4 DEF InTurn
  <2> QED BY <1>2, <2>5, <2>6
<1>11. ~Unlike(gen, c, g, i)
  BY <1>m, <1>7, <1>9, <1>10 DEF Unlike
<1> QED BY <1>1, <1>11 DEF Comparing, g, i

-----------------------------------------------------------------------------
LEMMA CheckStep ==
    ASSUME Machine, InItsCode, Awaits, [Next]_vars
    PROVE  /\ NoFalseAlarm => NoFalseAlarm'
           /\ NoMiss => NoMiss'
<1>1. CASE Block
  <2> DEFINE off == Canon(pc)
  <2>1. Dispatchable(pc) /\ P!Shown(pc, hw) = off /\ UNCHANGED fault
    BY <1>1, BlockIsShown DEF Block, build
  <2>2. diverged' = (diverged \/ (Settled /\ Disagree(off)) \/ P!Shown(pc, hw) # off)
        /\ seen' = (seen \/ (Settled /\ wrong))
    BY <1>1, Zenon DEF Block, SettledDiverged
  <2>3. Settled => Pending /\ ~log_over
    BY DEF Settled, Awaits
  <2>4. Settled /\ Disagree(off) => wrong
    BY <2>1, <2>3, RightBlockAgrees
  <2>5. ASSUME Settled, wrong,
               fault # None => fault \in Answerable \cap MaskKept
        PROVE  Disagree(off)
    <3>1. fault # None /\ fault.of = pend.off /\ pend.off \in Compiled
      BY <2>3, <2>5 DEF Pending
    <3>2. Generated(pend.off) = fault.code
      BY <3>1, GeneratedIs DEF Machine
    <3>3. Apart(Generated(pend.off)) /\ Apart(Code[pend.off]) /\ WritesFit(Code[pend.off])
      BY <2>5, <3>1, <3>2 DEF Answerable
    <3> QED BY <2>1, <2>3, <2>5, <3>1, <3>2, <3>3, WrongBlockDiffers
  <2> HIDE DEF off
  <2>6. NoFalseAlarm => NoFalseAlarm'
    BY <2>1, <2>2, <2>4, Zenon DEF NoFalseAlarm
  <2>7. NoMiss => NoMiss'
    <3> DEFINE V == fault # None => fault \in Answerable \cap MaskKept
    <3>1. NoMiss = (seen /\ V => diverged) /\ NoMiss' = (seen' /\ V' => diverged') /\ V' = V
      BY <2>1 DEF NoMiss, Answerable, MaskKept, Apart, WritesFit
    <3>2. Settled /\ wrong /\ V => Disagree(off)
      BY <2>5
    <3> HIDE DEF V
    <3> QED BY <2>2, <3>1, <3>2, Zenon
  <2> QED BY <2>6, <2>7
<1>2. CASE ~Block
  <2>1. UNCHANGED <<diverged, seen, fault>>
    BY <1>2 DEF Next, vars, build, xchk_vars, Beam, Poll, EndRun, HandOver, Gap, Musashi, Others
  <2> QED BY <2>1 DEF NoFalseAlarm, NoMiss, Answerable, MaskKept, Apart, WritesFit
<1> QED BY <1>1, <1>2

CheckInv == Machine /\ Awaits /\ NoFalseAlarm /\ NoMiss

LEMMA CheckHolds == Spec /\ []InItsCode => []CheckInv
<1>1. Init => CheckInv
  BY MachineStart DEF Init, CheckInv, Awaits, NoFalseAlarm, NoMiss
<1>2. CheckInv /\ InItsCode /\ [Next]_vars => CheckInv'
  BY MachineStep, AwaitsStep, CheckStep DEF CheckInv
<1> QED BY <1>1, <1>2, PTL DEF Spec

(* NoFalseAlarm, for every program and whatever one of its blocks was       *)
(* mistranslated as: what the check reports is a block that left registers, *)
(* a mask, a target or an access of some byte that its code would not have  *)
(* (verify, compare_writes and the xchk_break of an interrupt or a gap).    *)
THEOREM AlarmsAreTrue == Spec /\ []InItsCode => []NoFalseAlarm
<1>1. CheckInv => NoFalseAlarm
  BY DEF CheckInv
<1> QED BY <1>1, CheckHolds, PTL

(* NoMiss, for every program: a block that was compared and was wrong is    *)
(* reported, where neither it nor its code reads a byte it also writes, the *)
(* code's writes fit the log and the block leaves the interrupt mask that   *)
(* the code leaves, at which the comparison does not look (compare).        *)
THEOREM WrongBlocksAreReported == Spec /\ []InItsCode => []NoMiss
<1>1. CheckInv => NoMiss
  BY DEF CheckInv
<1> QED BY <1>1, CheckHolds, PTL
-----------------------------------------------------------------------------
(* The types of what the loop and the check keep beside the machine.        *)
Scheduled ==
    /\ backend \in {"recomp", "musashi"}
    /\ turn \in {"beam", "poll", "run", "gap", "others"}
    /\ fuel \in -1..MaxFuel /\ (turn \in {"run", "gap"} => fuel >= 0)
    /\ vint_irq \in BOOLEAN
    /\ latch \in {0, P!Vint}
    /\ xchk_mode \in {Off, "record"} /\ (xchk_mode # Off => turn = "run")
    /\ armed \in BOOLEAN /\ log_over \in BOOLEAN /\ diverged \in BOOLEAN
    /\ wrong \in BOOLEAN /\ seen \in BOOLEAN /\ stray \in BOOLEAN

Recorded == Len(rd) <= LogMax /\ Len(wr) <= LogMax

LEMMA ScheduledStep ==
    ASSUME Scheduled, [Next]_vars
    PROVE  Scheduled'
<1>0. backend' = backend
  BY DEF Next, vars, build, Beam, Poll, EndRun, Block, HandOver, Gap, Musashi, Others
<1>1. MaxFuel \in Nat
  BY RecompAssumption
<1>2. CASE Beam
  BY <1>0, <1>2 DEF Scheduled, Beam, cpu_vars, xchk_vars, log_vars
<1>3. CASE Poll
  <2>1. /\ turn' = "run" /\ fuel' \in 0..MaxFuel /\ xchk_mode' \in {Off, "record"}
        /\ UNCHANGED <<log_over, diverged, wrong, seen, stray>>
    BY <1>3 DEF Poll, log_vars
  <2>2. vint_irq' \in BOOLEAN
    BY <1>3, Zenon DEF Scheduled, Poll, Enter, irq_vars
  <2>3. latch' \in {0, P!Vint} /\ armed' \in BOOLEAN
    BY <1>3, Zenon DEF Scheduled, Poll, Break, irq_vars
  <2>4. fuel' \in -1..MaxFuel /\ fuel' >= 0
    BY <1>1, <2>1
  <2> QED BY <1>0, <2>1, <2>2, <2>3, <2>4, Zenon DEF Scheduled
<1>4. CASE EndRun
  BY <1>0, <1>1, <1>4 DEF Scheduled, EndRun, ModeOutside, irq_vars, log_vars
<1>5. CASE Block
  <2>1. /\ turn = "run" /\ turn' = "run" /\ fuel > 0 /\ fuel' = fuel - 1
        /\ UNCHANGED <<vint_irq, latch, xchk_mode>> /\ armed' = TRUE
    BY <1>5 DEF Block, irq_vars
  <2>2. log_over' \in BOOLEAN /\ wrong' \in BOOLEAN
    BY <1>5, Zenon DEF Block, Differs
  <2>3. diverged' \in BOOLEAN /\ seen' \in BOOLEAN /\ stray' \in BOOLEAN
    BY <1>5, Zenon DEF Block
  <2> QED BY <1>0, <1>1, <2>1, <2>2, <2>3 DEF Scheduled
<1>6. CASE HandOver
  BY <1>0, <1>6 DEF Scheduled, HandOver, ModeOutside, Break, cpu_vars, irq_vars, log_vars
<1>7. CASE Gap
  BY <1>0, <1>1, <1>7 DEF Scheduled, Gap, Interpret, Stays, irq_vars, xchk_vars, log_vars
<1>8. CASE Musashi
  <2>1. /\ turn = "run" /\ turn' = "run" /\ fuel > 0 /\ fuel' \in {fuel, fuel - 1}
        /\ UNCHANGED <<xchk_mode, armed, log_over, diverged, wrong, seen, stray>>
    BY <1>8 DEF Musashi, Interpret, xchk_vars, log_vars
  <2>2. vint_irq' \in BOOLEAN
    BY <1>8, Zenon DEF Scheduled, Musashi, Enter, irq_vars
  <2>3. latch' \in {0, P!Vint}
    BY <1>8, Zenon DEF Scheduled, Musashi, Ack, irq_vars
  <2>4. fuel' \in -1..MaxFuel /\ fuel' >= 0
    BY <1>1, <2>1 DEF Scheduled
  <2> QED BY <1>0, <2>1, <2>2, <2>3, <2>4, Zenon DEF Scheduled
<1>9. CASE Others
  BY <1>0, <1>9 DEF Scheduled, Others, irq_vars, log_vars
<1>10. CASE UNCHANGED vars
  BY <1>0, <1>10 DEF Scheduled, vars, cpu_vars, irq_vars, xchk_vars, log_vars
<1> QED BY <1>2, <1>3, <1>4, <1>5, <1>6, <1>7, <1>8, <1>9, <1>10 DEF Next

LEMMA RecordedStep ==
    ASSUME Machine, InItsCode, Recorded, [Next]_vars
    PROVE  Recorded'
<1>1. CASE Block
  <2>1. Canon(pc) \in Compiled
    BY <1>1 DEF Block, Dispatchable
  <2>2. IsPiece(Generated(Canon(pc)))
    BY <2>1, GeneratedIs DEF Machine
  <2> DEFINE g == P!Run(Generated(Canon(pc)).ops, d, imask, hw)
  <2>3. g \in States
    BY <2>2, RunTyped DEF Machine, IsPiece
  <2>4. rd' = Fit(g.rd) /\ wr' = Fit(g.wr)
    BY <1>1 DEF Block
  <2> HIDE DEF g
  <2>5. g.rd \in Log /\ g.wr \in Log
    BY <2>3 DEF States
  <2>6. ASSUME NEW log \in Log PROVE Len(Fit(log)) <= LogMax
    <3>1. LogMax \in Nat /\ Len(log) \in Nat
      BY RecompAssumption DEF Log
    <3> QED BY <3>1, FitIs
  <2> QED BY <2>4, <2>5, <2>6 DEF Recorded
<1>2. CASE Others
  BY <1>2 DEF Others, Machine, Recording, Recorded, log_vars
<1>3. CASE ~Block /\ ~Others
  <2>1. UNCHANGED <<rd, wr>>
    BY <1>3 DEF Next, vars, xchk_vars, log_vars, Beam, Poll, EndRun, HandOver, Gap, Musashi
  <2> QED BY <2>1 DEF Recorded
<1> QED BY <1>1, <1>2, <1>3

(* TypeOK, for every program that stays in its code.                        *)
THEOREM TypeCorrect == Spec /\ []InItsCode => []TypeOK
<1> DEFINE Inv == Machine /\ Scheduled /\ Recorded
<1>1. Init => Inv
  <2> SUFFICES ASSUME Init PROVE Scheduled /\ Recorded
    BY MachineStart
  <2>1. LogMax \in Nat /\ MaxFuel \in Nat
    BY RecompAssumption
  <2>2. Recorded /\ fuel \in -1..MaxFuel /\ fuel >= 0
    BY <2>1 DEF Init, Recorded
  <2>3. Scheduled
    BY <2>2, Zenon DEF Init, Scheduled
  <2> QED BY <2>2, <2>3
<1>2. Inv /\ InItsCode /\ [Next]_vars => Inv'
  BY MachineStep, ScheduledStep, RecordedStep
<1>3. Inv => TypeOK
  <2> SUFFICES ASSUME Inv PROVE TypeOK
    OBVIOUS
  <2>1. PICK S : Framed(S)
    BY DEF Machine
  <2>2. \A k \in 1..Len(stack) : stack[k][2] < P!Vint
    <3>1. \A k \in 1..Len(stack) : stack[k] \in S
      BY <2>1 DEF Framed
    <3> QED BY <2>1, <3>1 DEF Framed, P!Vint
  <2> QED BY <2>2 DEF TypeOK, Machine, Scheduled, Recorded
<1> QED BY <1>1, <1>2, <1>3, PTL DEF Spec
=============================================================================

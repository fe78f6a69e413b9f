----------------------------- MODULE ConsoleProofs -----------------------------
(***************************************************************************)
(* The console's devices, each proved by itself: they share no state, and  *)
(* MCConsole checks them side by side as this module proves them.          *)
(***************************************************************************)
EXTENDS Boot, VdpPort, FrameBuffer, Session, PadPort, Z80Bus, Z80Block, Z80Alu,
        Divider, Chips, SequenceTheorems, WellFoundedInduction, TLAPS

-----------------------------------------------------------------------------
(****************************************************************************)
(* What several of the devices' proofs need: that what holds of 0 and with *)
(* each number of the next holds of all, so that two functions that take   *)
(* the same steps are the same and a recursion has a function that follows *)
(* it; and how quotient and remainder go with an address inside its block. *)
(*                                                                         *)
(* The library's induction theorems take an operator; these take a set,    *)
(* which is what the provers can instantiate.                              *)
(****************************************************************************)
(* A set of naturals that is not empty has a least member. *)
LEMMA LeastNatural ==
    ASSUME NEW T \in SUBSET Nat, T # {}
    PROVE  \E m \in T : \A k \in T : m <= k
<1> DEFINE R == OpToRel(<, Nat)
<1>1. IsWellFoundedOn(R, Nat)
  BY NatLessThanWellFounded
<1>2. \A x, y \in Nat : y < x => <<y, x>> \in R
  BY DEF OpToRel
<1> HIDE DEF R
<1>3. PICK x \in T : \A y \in T : ~ (<<y, x>> \in R)
  BY <1>1, WFMin
<1>4. ASSUME NEW k \in T PROVE x <= k
  <2>1. x \in Nat /\ k \in Nat /\ ~(k < x)
    BY <1>2, <1>3
  <2> QED BY <2>1
<1> QED BY <1>4

(* So one that holds 0 and with each member the next is all of them. *)
LEMMA AllNaturals ==
    ASSUME NEW T \in SUBSET Nat, 0 \in T, \A n \in T : n + 1 \in T
    PROVE  T = Nat
<1> SUFFICES ASSUME Nat \ T # {} PROVE FALSE
  OBVIOUS
<1>1. PICK m \in Nat \ T : \A k \in Nat \ T : m <= k
  BY LeastNatural
<1>2. m # 0 /\ m - 1 \in Nat /\ m - 1 \notin Nat \ T
  BY <1>1
<1> QED BY <1>1, <1>2

(* Two recursive functions that start alike and step alike are the same. *)
LEMMA SameSteps ==
    ASSUME NEW n \in Nat, NEW f, NEW g, f[0] = g[0],
           \A i \in 1..n : f[i - 1] = g[i - 1] => f[i] = g[i]
    PROVE  \A i \in 0..n : f[i] = g[i]
<1> DEFINE T == {i \in Nat : i <= n => f[i] = g[i]}
<1>1. 0 \in T
  OBVIOUS
<1>2. ASSUME NEW i \in T PROVE i + 1 \in T
  <2>1. i \in Nat /\ i + 1 \in Nat /\ i + 1 - 1 = i /\ (i <= n => f[i] = g[i])
    OBVIOUS
  <2>2. i + 1 <= n => i + 1 \in 1..n /\ i <= n
    BY <2>1
  <2>3. i + 1 <= n => f[i + 1] = g[i + 1]
    BY <2>1, <2>2
  <2> QED BY <2>1, <2>3
<1>3. T \in SUBSET Nat
  OBVIOUS
<1> HIDE DEF T
<1>4. T = Nat
  BY <1>1, <1>2, <1>3, AllNaturals
<1>5. \A i \in 0..n : i \in T /\ i <= n
  BY <1>4
<1> QED BY <1>5 DEF T

LEMMA DivMod ==
    ASSUME NEW w \in Nat \ {0}, NEW q \in Int, NEW r \in 0..(w - 1)
    PROVE  (w * q + r) % w = r /\ (w * q + r) \div w = q
  OBVIOUS

LEMMA DivModOf ==
    ASSUME NEW w \in Nat \ {0}, NEW a \in Int
    PROVE  a % w \in 0..(w - 1) /\ a \div w \in Int /\ a = w * (a \div w) + (a % w)
  OBVIOUS

LEMMA ModBack ==
    ASSUME NEW w \in Nat \ {0}, NEW r \in 0..(w - 1)
    PROVE  r % w = r /\ (r - w) % w = r
<1>1. r = w * 0 + r /\ r - w = w * (-1) + r
  OBVIOUS
<1>2. (w * 0 + r) % w = r /\ (w * (-1) + r) % w = r
  BY DivMod
<1> QED BY <1>1, <1>2

LEMMA ModStep ==
    ASSUME NEW w \in Nat \ {0}, NEW q \in Int, NEW r \in 0..(w - 1)
    PROVE  (w * q + r + 1) % w = IF r + 1 = w THEN 0 ELSE r + 1
<1>1. CASE r + 1 = w
  <2>1. w * q + r + 1 = w * (q + 1) + 0
    BY <1>1
  <2> QED BY <1>1, <2>1, DivMod
<1>2. CASE r + 1 # w
  <2>1. w * q + r + 1 = w * q + (r + 1) /\ r + 1 \in 0..(w - 1)
    BY <1>2
  <2> QED BY <1>2, <2>1, DivMod
<1> QED BY <1>1, <1>2

(* A recursion over the naturals in a set M has a function that follows it. *)
Follows(f, m, s, n) == f[0] = m /\ \A i \in 1..n : f[i] = s[i][f[i - 1]]
Followed(M, m, s, n) == \E f \in [0..n -> M] : Follows(f, m, s, n)

LEMMA RecursionExists ==
    ASSUME NEW M, NEW m \in M, NEW s \in [Nat -> [M -> M]], NEW n \in Nat
    PROVE  Followed(M, m, s, n)
<1> DEFINE Runs(f, k) == f[0] = m /\ \A i \in 1..k : f[i] = s[i][f[i - 1]]
           T == {k \in Nat : \E f \in [0..k -> M] : Runs(f, k)}
<1>1. 0 \in T
  <2> DEFINE f == [i \in 0..0 |-> m]
  <2>1. f \in [0..0 -> M] /\ f[0] = m
    OBVIOUS
  <2>2. Runs(f, 0)
    BY <2>1
  <2> QED BY <2>1, <2>2
<1>2. ASSUME NEW k \in T PROVE k + 1 \in T
  <2>1. k \in Nat /\ k + 1 \in Nat /\ k + 1 \notin 0..k /\ k \in 0..k
    OBVIOUS
  <2>2. PICK f \in [0..k -> M] : Runs(f, k)
    OBVIOUS
  <2> DEFINE g == [i \in 0..(k + 1) |-> IF i = k + 1 THEN s[k + 1][f[k]] ELSE f[i]]
  <2>3. \A i \in 0..(k + 1) : i = k + 1 \/ i \in 0..k
    BY <2>1
  <2>4. s[k + 1] \in [M -> M] /\ f[k] \in M
    BY <2>1
  <2>5. g \in [0..(k + 1) -> M]
    BY <2>3, <2>4
  <2>6. g[k + 1] = s[k + 1][f[k]] /\ \A i \in 0..k : g[i] = f[i]
    BY <2>1
  <2> HIDE DEF g
  <2>7. g[0] = m
    BY <2>1, <2>2, <2>6
  <2>8. ASSUME NEW i \in 1..(k + 1) PROVE g[i] = s[i][g[i - 1]]
    <3>1. CASE i = k + 1
      <4>1. i - 1 = k /\ g[k] = f[k]
        BY <2>1, <2>6, <3>1
      <4> QED BY <2>6, <3>1, <4>1
    <3>2. CASE i # k + 1
      <4>1. i \in 1..k /\ i \in 0..k /\ i - 1 \in 0..k
        BY <2>1, <3>2
      <4>2. f[i] = s[i][f[i - 1]] /\ g[i] = f[i] /\ g[i - 1] = f[i - 1]
        BY <2>2, <2>6, <4>1
      <4> QED BY <4>2
    <3> QED BY <3>1, <3>2
  <2>9. Runs(g, k + 1)
    BY <2>7, <2>8
  <2> HIDE DEF Runs
  <2> QED BY <2>1, <2>5, <2>9
<1>3. T \in SUBSET Nat
  OBVIOUS
<1> HIDE DEF T
<1>4. n \in T
  BY <1>1, <1>2, <1>3, AllNaturals
<1> QED BY <1>4 DEF T, Followed, Follows

(* The greatest member of a set that has one. *)
LEMMA MaxIs ==
    ASSUME NEW T \in SUBSET Int, NEW m \in T, \A y \in T : m >= y
    PROVE  Max(T) = m
<1>1. Max(T) \in T /\ \A y \in T : Max(T) >= y
  BY DEF Max
<1>2. Max(T) >= m /\ m >= Max(T) /\ Max(T) \in Int /\ m \in Int
  BY <1>1
<1> QED BY <1>2

LEMMA MaxOrNone ==
    ASSUME NEW a \in Int PROVE Max({a, 0}) \in Int /\ Max({a, 0}) >= a
<1>1. CASE a >= 0
  <2>1. {a, 0} \in SUBSET Int /\ a \in {a, 0} /\ \A y \in {a, 0} : a >= y
    BY <1>1
  <2> DEFINE T == {a, 0}
  <2> HIDE DEF T
  <2>2. Max(T) = a
    BY <2>1, MaxIs DEF T
  <2> QED BY <2>2 DEF T
<1>2. CASE a < 0
  <2>1. {a, 0} \in SUBSET Int /\ 0 \in {a, 0} /\ \A y \in {a, 0} : 0 >= y
    BY <1>2
  <2> DEFINE T == {a, 0}
  <2> HIDE DEF T
  <2>2. Max(T) = 0
    BY <2>1, MaxIs DEF T
  <2> QED BY <1>2, <2>2 DEF T
<1> QED BY <1>1, <1>2

(* A set of integers with a bound has one. *)
LEMMA MaxExists ==
    ASSUME NEW T \in SUBSET Int, T # {}, NEW u \in Int, \A y \in T : y <= u
    PROVE  Max(T) \in T /\ \A y \in T : y <= Max(T)
<1> DEFINE D == {u - y : y \in T}
<1>1. D \in SUBSET Nat /\ D # {}
  <2>1. \A y \in T : y \in Int /\ y <= u
    OBVIOUS
  <2>2. \A y \in T : u - y \in Nat
    BY <2>1
  <2> QED BY <2>2
<1>2. PICK m \in D : \A k \in D : m <= k
  BY <1>1, LeastNatural
<1>3. PICK t \in T : m = u - t
  BY <1>2
<1>4. \A y \in T : u - t <= u - y
  BY <1>2, <1>3
<1>5. \A y \in T : t >= y
  BY <1>3, <1>4
<1>6. Max(T) = t
  BY <1>3, <1>5, MaxIs
<1> QED BY <1>3, <1>5, <1>6

(* What is indexed by the first n numbers has a bound. *)
LEMMA Bounded ==
    ASSUME NEW n \in Nat, NEW g \in [1..n -> Int]
    PROVE  \E u \in Int : \A i \in 1..n : g[i] <= u
<1> DEFINE T == {k \in Nat : k <= n => \E u \in Int : \A i \in 1..k : g[i] <= u}
<1>1. 0 \in T
  OBVIOUS
<1>2. ASSUME NEW k \in T PROVE k + 1 \in T
  <2> SUFFICES ASSUME k + 1 <= n PROVE \E u \in Int : \A i \in 1..(k + 1) : g[i] <= u
    OBVIOUS
  <2>1. PICK u \in Int : \A i \in 1..k : g[i] <= u
    OBVIOUS
  <2>2. g[k + 1] \in Int
    OBVIOUS
  <2>3. CASE g[k + 1] <= u
    <3>1. \A i \in 1..(k + 1) : g[i] <= u
      BY <2>1, <2>3
    <3> QED BY <3>1
  <2>4. CASE ~(g[k + 1] <= u)
    <3>1. \A i \in 1..(k + 1) : g[i] <= g[k + 1]
      BY <2>1, <2>2, <2>4
    <3> QED BY <2>2, <3>1
  <2> QED BY <2>3, <2>4
<1>3. T \in SUBSET Nat
  OBVIOUS
<1> HIDE DEF T
<1>4. n \in T
  BY <1>1, <1>2, <1>3, AllNaturals
<1> QED BY <1>4 DEF T

-----------------------------------------------------------------------------
(***************************************************************************)
(* The boot stand-in, proved for any number of commands and every          *)
(* interleaving of the three programs: it posts each of its words where    *)
(* the 68000's zero still stands, and at no other time.                    *)
(*                                                                         *)
(* The argument is by places of the 68000's program: which registers it    *)
(* has cleared by then, who may have written since, and which of the two   *)
(* answers must have been posted for it to have come so far.               *)
(***************************************************************************)

Places == {"clear4", "clear", "sum", "mok", "sok", "zero", "ready", "go", "wait"}

(* Register k is as the 68000 cleared it. *)
Zeroed(k) == by[k] = "m68k" /\ comm[k] = "zero"

Shape ==
    /\ comm \in [Comm -> Words] /\ by \in [Comm -> Actors]
    /\ pc68k \in Places /\ clearing \in 0..4
    /\ master \in {"held", "boot", "ready", "loop"}
    /\ commands \in 0..MaxCommands

Flags == /\ bios \in [cleared_sum : BOOLEAN, cleared_ok : BOOLEAN,
                      sum_done : BOOLEAN, ok_done : BOOLEAN]
         /\ released \in BOOLEAN /\ hasty \in BOOLEAN

(* So is every one of comm 0 to 3 until M_OK is posted, but for comm 0      *)
(* once the master has arrived.                                             *)
Kept(k) == Zeroed(k) \/ (k = 0 /\ Arrived /\ comm[0] # "M_OK")

(* Until the checksum is posted nobody but the 68000 runs. *)
Alone == pc68k \in {"clear4", "clear", "sum"} => ~bios.sum_done /\ ~released /\ master = "held"

(* The registers it has cleared, by its place. *)
Cleared ==
    /\ pc68k = "clear4" => ~bios.cleared_ok /\ clearing = 0
    /\ pc68k \in {"clear4", "clear"} => ~bios.ok_done
    /\ pc68k = "clear" => clearing < 4 /\ \A k \in 0..3 : k < clearing => Zeroed(k)
    /\ pc68k \in {"clear", "sum"} => Zeroed(4)
    /\ (pc68k \in {"sum", "mok"} /\ ~bios.ok_done) => \A k \in 0..3 : Kept(k)

(* The answers it has had, by its place. *)
Answered ==
    /\ pc68k \notin {"clear4", "clear", "sum"} => bios.sum_done
    /\ pc68k \notin {"clear4", "clear", "sum", "mok"} => bios.ok_done

BootInv == Shape /\ Flags /\ Alone /\ Cleared /\ Answered

-----------------------------------------------------------------------------
(* What a write by the 68000 does to the flags. *)
LEMMA ArmedFlags ==
    ASSUME Flags, NEW regs, NEW v, NEW c
    PROVE  /\ ArmedBy(regs, v, c) \in [cleared_sum : BOOLEAN, cleared_ok : BOOLEAN,
                                       sum_done : BOOLEAN, ok_done : BOOLEAN]
           /\ ArmedBy(regs, v, c).sum_done = bios.sum_done
           /\ ArmedBy(regs, v, c).ok_done = bios.ok_done
           /\ (v = "zero" /\ 4 \in regs) => ArmedBy(regs, v, c).cleared_sum
           /\ (\A i \in regs : ~(i < 4)) => ArmedBy(regs, v, c).cleared_ok = bios.cleared_ok
  BY DEF Flags, ArmedBy

(* What a read does: the answers that are due are posted, and no other. *)
LEMMA ReadFlags ==
    ASSUME Flags, NEW i \in Comm, ReadComm(i)
    PROVE  /\ Flags'
           /\ bios'.sum_done <=> (bios.sum_done \/ SumDue(i))
           /\ bios'.ok_done <=> (bios.ok_done \/ OkDue(i))
           /\ bios'.cleared_ok <=> bios.cleared_ok
  BY DEF Flags, ReadComm, Handover, SumDue, OkDue

(* A register that nobody has written is unchanged. *)
LEMMA WriteRegs ==
    ASSUME Shape, NEW regs \in SUBSET Comm, NEW v \in Words, WriteComm(regs, v)
    PROVE  /\ comm' \in [Comm -> Words] /\ by' \in [Comm -> Actors]
           /\ \A k \in regs : by'[k] = "m68k" /\ comm'[k] = v
           /\ \A k \in Comm \ regs : by'[k] = by[k] /\ comm'[k] = comm[k]
  BY DEF Shape, WriteComm, Actors

LEMMA StoreRegs ==
    ASSUME Shape, NEW i \in Comm, NEW v \in Words, StoreSh2(i, v)
    PROVE  /\ comm' \in [Comm -> Words] /\ by' \in [Comm -> Actors]
           /\ by'[i] = "sh2"
           /\ \A k \in Comm \ {i} : by'[k] = by[k] /\ comm'[k] = comm[k]
  BY DEF Shape, StoreSh2, Actors

LEMMA ReadRegs ==
    ASSUME Shape, NEW i \in Comm, ReadComm(i)
    PROVE  /\ comm' \in [Comm -> Words] /\ by' \in [Comm -> Actors]
           /\ ~SumDue(i) => comm'[4] = comm[4] /\ by'[4] = by[4]
           /\ SumDue(i) => comm'[4] = "sum"
           /\ ~OkDue(i) => \A k \in 0..3 : comm'[k] = comm[k] /\ by'[k] = by[k]
           /\ OkDue(i) => comm'[0] = "M_OK" /\ comm'[2] = "S_OK"
           /\ released' <=> (released \/ SumDue(i))
           /\ (~released' /\ master = "held") => master' = "held"
           /\ master \in {"held", "boot", "ready", "loop"} =>
                 master' \in {"held", "boot", "ready", "loop"}
<1>1. \A k \in Comm : comm'[k] = IF SumDue(i) /\ k = 4 THEN "sum"
                                 ELSE IF OkDue(i) /\ k < 2 THEN "M_OK"
                                 ELSE IF OkDue(i) /\ k < 4 THEN "S_OK" ELSE comm[k]
  BY DEF ReadComm
<1>2. \A k \in Comm : by'[k] = IF (SumDue(i) /\ k = 4) \/ (OkDue(i) /\ k < 4)
                               THEN "bios" ELSE by[k]
  BY DEF ReadComm
<1>3. comm' \in [Comm -> Words] /\ by' \in [Comm -> Actors]
  BY DEF ReadComm, Shape, Words, Actors
<1>4. /\ released' <=> (released \/ SumDue(i))
      /\ (~released' /\ master = "held") => master' = "held"
      /\ master \in {"held", "boot", "ready", "loop"} =>
            master' \in {"held", "boot", "ready", "loop"}
  BY DEF ReadComm, Handover
<1>5. 0 \in Comm /\ 2 \in Comm /\ 4 \in Comm /\ 0..3 \subseteq Comm
  BY DEF Comm
<1>6. \A k \in 0..3 : k # 4 /\ k < 4
  OBVIOUS
<1>7. ~SumDue(i) => comm'[4] = comm[4] /\ by'[4] = by[4]
  BY <1>1, <1>2, <1>5
<1>8. SumDue(i) => comm'[4] = "sum"
  BY <1>1, <1>5
<1>9. ~OkDue(i) => \A k \in 0..3 : comm'[k] = comm[k] /\ by'[k] = by[k]
  BY <1>1, <1>2, <1>5, <1>6
<1>10. OkDue(i) => comm'[0] = "M_OK" /\ comm'[2] = "S_OK"
  <2>1. ~(SumDue(i) /\ 0 = 4) /\ ~(SumDue(i) /\ 2 = 4)
    OBVIOUS
  <2> QED BY <1>1, <1>5, <2>1
<1> QED BY <1>3, <1>4, <1>7, <1>8, <1>9, <1>10

(* The answers come only where the 68000 has made room for them. *)
LEMMA DueWhereCleared ==
    ASSUME BootInv, NEW i \in Comm, i = 4 => pc68k # "clear4"
    PROVE  /\ SumDue(i) => Zeroed(4) /\ pc68k \in {"clear", "sum"}
           /\ (OkDue(i) /\ pc68k # "clear") =>
                 (\A k \in 0..3 : Kept(k)) /\ pc68k \in {"sum", "mok"}
  BY DEF BootInv, Answered, Cleared, SumDue, OkDue, Shape, Places

-----------------------------------------------------------------------------
(* The 68000's stores. *)
LEMMA StoreSteps ==
    ASSUME BootInv, Clear4 \/ ClearNext \/ ZeroComm0 \/ PostCommand
                    \/ \E v \in {"zero", "pwm"} : Relay(v)
    PROVE  BootInv'
<1> USE DEF BootInv, Comm, Words, Places
<1>1. CASE Clear4
  <2>1. WriteComm({4}, "zero") /\ pc68k = "clear4" /\ pc68k' = "clear"
        /\ UNCHANGED <<released, clearing, master, commands>>
    BY <1>1 DEF Clear4
  <2>2. Flags' /\ bios'.sum_done = bios.sum_done /\ bios'.ok_done = bios.ok_done
    BY <2>1, ArmedFlags DEF WriteComm, Flags
  <2>3. Shape' /\ Zeroed(4)'
    BY <2>1, WriteRegs DEF Shape, Zeroed
  <2>4. Alone' /\ Answered'
    BY <2>1, <2>2 DEF Alone, Answered
  <2>5. Cleared'
    BY <2>1, <2>2, <2>3 DEF Cleared
  <2> QED BY <2>2, <2>3, <2>4, <2>5
<1>2. CASE ClearNext
  <2>1. /\ WriteComm({clearing}, "zero") /\ pc68k = "clear" /\ clearing \in 0..3
        /\ clearing' = clearing + 1
        /\ pc68k' = IF clearing = 3 THEN "sum" ELSE "clear"
        /\ UNCHANGED <<released, master, commands>>
    BY <1>2 DEF ClearNext, Cleared, Shape
  <2>2. Flags' /\ bios'.sum_done = bios.sum_done /\ bios'.ok_done = bios.ok_done
    BY <2>1, ArmedFlags DEF WriteComm, Flags
  <2>3. /\ comm' \in [Comm -> Words] /\ by' \in [Comm -> Actors]
        /\ by'[clearing] = "m68k" /\ comm'[clearing] = "zero"
        /\ \A k \in Comm \ {clearing} : by'[k] = by[k] /\ comm'[k] = comm[k]
    <3>1. {clearing} \in SUBSET Comm /\ "zero" \in Words
      BY <2>1
    <3> QED BY <2>1, <3>1, WriteRegs DEF Shape
  <2>4. Shape'
    BY <2>1, <2>3 DEF Shape
  <2>5. Alone' /\ Answered'
    BY <2>1, <2>2 DEF Alone, Answered
  <2>6. \A k \in 0..3 : k < clearing' => Zeroed(k)'
    BY <2>1, <2>3 DEF Cleared, Zeroed
  <2>7. Zeroed(4)'
    BY <2>1, <2>3 DEF Cleared, Zeroed
  <2>8. pc68k' = "sum" => \A k \in 0..3 : Kept(k)'
    BY <2>1, <2>6 DEF Kept
  <2>9. Cleared'
    BY <2>1, <2>2, <2>6, <2>7, <2>8 DEF Cleared
  <2> QED BY <2>2, <2>4, <2>5, <2>9
<1>3. CASE ZeroComm0
  <2>1. /\ WriteComm({0, 1}, "zero") /\ pc68k = "zero" /\ pc68k' = "ready"
        /\ UNCHANGED <<released, clearing, master, commands>>
    BY <1>3 DEF ZeroComm0
  <2>2. Flags' /\ bios'.sum_done = bios.sum_done /\ bios'.ok_done = bios.ok_done
    BY <2>1, ArmedFlags DEF WriteComm, Flags
  <2>3. Shape'
    BY <2>1, WriteRegs DEF Shape
  <2>4. Alone' /\ Answered' /\ Cleared'
    BY <2>1, <2>2 DEF Alone, Answered, Cleared
  <2> QED BY <2>2, <2>3, <2>4
<1>4. CASE PostCommand
  <2>1. /\ WriteComm({0}, "cmd") /\ pc68k = "go" /\ pc68k' = "wait"
        /\ commands < MaxCommands /\ commands' = commands + 1
        /\ UNCHANGED <<released, clearing, master>>
    BY <1>4 DEF PostCommand
  <2>2. Flags' /\ bios'.sum_done = bios.sum_done /\ bios'.ok_done = bios.ok_done
    BY <2>1, ArmedFlags DEF WriteComm, Flags
  <2>3. Shape'
    BY <2>1, WriteRegs, BootAssumption DEF Shape
  <2>4. Alone' /\ Answered' /\ Cleared'
    BY <2>1, <2>2 DEF Alone, Answered, Cleared
  <2> QED BY <2>2, <2>3, <2>4
<1>5. CASE \E v \in {"zero", "pwm"} : Relay(v)
  <2> PICK v \in {"zero", "pwm"} : Relay(v)
    BY <1>5
  <2>1. /\ WriteComm({4}, v) /\ pc68k \in {"go", "wait"}
        /\ UNCHANGED <<released, pc68k, clearing, master, commands>>
    BY DEF Relay
  <2>2. Flags' /\ bios'.sum_done = bios.sum_done /\ bios'.ok_done = bios.ok_done
    BY <2>1, ArmedFlags DEF WriteComm, Flags
  <2>3. Shape'
    BY <2>1, WriteRegs DEF Shape
  <2>4. Alone' /\ Answered' /\ Cleared'
    BY <2>1, <2>2 DEF Alone, Answered, Cleared
  <2> QED BY <2>2, <2>3, <2>4
<1> QED BY <1>1, <1>2, <1>3, <1>4, <1>5

-----------------------------------------------------------------------------
(* What a read leaves, whatever its place; the place itself is the caller's. *)
LEMMA AfterRead ==
    ASSUME BootInv, NEW i \in Comm, i = 4 => pc68k # "clear4", pc68k # "clear", ReadComm(i)
    PROVE  /\ Flags'
           /\ comm' \in [Comm -> Words] /\ by' \in [Comm -> Actors]
           /\ master' \in {"held", "boot", "ready", "loop"}
           /\ Arrived => Arrived'
           /\ bios'.sum_done <=> (bios.sum_done \/ SumDue(i))
           /\ bios'.ok_done <=> (bios.ok_done \/ OkDue(i))
           /\ bios'.cleared_ok <=> bios.cleared_ok
           /\ SumDue(i) => pc68k = "sum" /\ i = 4 /\ comm'[4] = "sum"
           /\ OkDue(i) => pc68k \in {"sum", "mok"}
           /\ ~SumDue(i) => comm'[4] = comm[4] /\ by'[4] = by[4]
           /\ (~SumDue(i) /\ pc68k \in {"clear4", "sum"}) =>
                 ~bios.sum_done /\ ~released' /\ master' = "held"
           /\ ~OkDue(i) => \A k \in 0..3 : comm'[k] = comm[k] /\ by'[k] = by[k]
           /\ (pc68k \in {"sum", "mok"} /\ ~bios'.ok_done) => \A k \in 0..3 : Kept(k)'
<1>1. Shape /\ Flags
  BY DEF BootInv
<1>2. /\ SumDue(i) => pc68k = "sum" /\ i = 4
      /\ OkDue(i) => pc68k \in {"sum", "mok"}
  BY DueWhereCleared DEF SumDue
<1>3. (~SumDue(i) /\ pc68k \in {"clear4", "sum"}) =>
         ~bios.sum_done /\ ~released' /\ master' = "held"
  BY <1>1, ReadRegs DEF BootInv, Alone
<1>7. Arrived => Arrived'
  BY DEF ReadComm, Arrived
<1>4. ASSUME pc68k \in {"sum", "mok"}, ~bios'.ok_done
      PROVE  \A k \in 0..3 : Kept(k)'
  <2>1. ~bios.ok_done /\ ~OkDue(i)
    BY <1>1, <1>4, ReadFlags
  <2>2. \A k \in 0..3 : Kept(k)
    BY <1>4, <2>1 DEF BootInv, Cleared
  <2>3. \A k \in 0..3 : comm'[k] = comm[k] /\ by'[k] = by[k]
    BY <1>1, <2>1, ReadRegs
  <2> QED BY <1>7, <2>2, <2>3 DEF Kept, Zeroed
<1>5. master' \in {"held", "boot", "ready", "loop"}
  BY <1>1, ReadRegs DEF Shape
<1>6. /\ comm' \in [Comm -> Words] /\ by' \in [Comm -> Actors]
      /\ SumDue(i) => comm'[4] = "sum"
      /\ ~SumDue(i) => comm'[4] = comm[4] /\ by'[4] = by[4]
      /\ ~OkDue(i) => \A k \in 0..3 : comm'[k] = comm[k] /\ by'[k] = by[k]
  BY <1>1, ReadRegs
<1> QED BY <1>1, <1>2, <1>3, <1>4, <1>5, <1>6, <1>7, ReadFlags

(* The 68000's reads. *)
LEMMA ReadSteps ==
    ASSUME BootInv, AwaitSum \/ AwaitMOk \/ AwaitSOk \/ AwaitReady \/ AwaitDone
                    \/ \E i \in Comm : Peek(i)
    PROVE  BootInv'
<1> USE DEF BootInv, Comm, Words, Places
<1>1. CASE AwaitSum
  <2>1. /\ ReadComm(4) /\ pc68k = "sum" /\ UNCHANGED <<clearing, commands>>
        /\ pc68k' = IF comm'[4] = "sum" THEN "mok" ELSE "sum"
    BY <1>1 DEF AwaitSum, Await
  <2>2. ~OkDue(4)
    BY DEF OkDue
  <2>3. Zeroed(4)
    BY <2>1 DEF Cleared
  <2>4. CASE SumDue(4)
    <3>1. pc68k' = "mok" /\ bios'.sum_done
      BY <2>1, <2>4, AfterRead
    <3>2. Shape' /\ Flags'
      BY <2>1, <3>1, AfterRead DEF Shape
    <3>4. Alone' /\ Answered'
      BY <3>1 DEF Alone, Answered
    <3>5. Cleared'
      BY <2>1, <3>1, AfterRead DEF Cleared
    <3> QED BY <3>2, <3>4, <3>5
  <2>5. CASE ~SumDue(4)
    <3>1. comm'[4] = "zero" /\ Zeroed(4)'
      BY <2>1, <2>3, <2>5, AfterRead DEF Zeroed
    <3>2. pc68k' = "sum"
      BY <2>1, <3>1
    <3>3. Shape' /\ Flags'
      BY <2>1, <3>2, AfterRead DEF Shape
    <3>4. master' = "held" /\ ~released' /\ ~bios'.sum_done
      BY <2>1, <2>5, AfterRead
    <3>5. Alone' /\ Answered'
      BY <3>2, <3>4 DEF Alone, Answered
    <3>6. Cleared'
      BY <2>1, <3>1, <3>2, AfterRead DEF Cleared
    <3> QED BY <3>3, <3>5, <3>6
  <2> QED BY <2>4, <2>5
<1>2. CASE AwaitMOk
  <2>1. /\ ReadComm(0) /\ pc68k = "mok" /\ UNCHANGED <<clearing, commands>>
        /\ pc68k' = IF comm'[0] = "M_OK" THEN "sok" ELSE "mok"
    BY <1>2 DEF AwaitMOk, Await
  <2>2. Shape' /\ Flags' /\ Alone'
    BY <2>1, AfterRead DEF Shape, Alone
  <2>3. Cleared'
    BY <2>1, AfterRead DEF Cleared
  <2>4. Answered'
    <3>1. bios'.sum_done
      BY <2>1, AfterRead DEF Answered
    <3>2. ~bios'.ok_done => comm'[0] # "M_OK"
      BY <2>1, AfterRead DEF Kept, Zeroed
    <3>4. pc68k' = "sok" => bios'.ok_done
      BY <2>1, <3>2
    <3>5. pc68k' \in {"mok", "sok"}
      BY <2>1
    <3> QED BY <3>1, <3>4, <3>5 DEF Answered
  <2> QED BY <2>2, <2>3, <2>4
<1>3. CASE AwaitSOk \/ AwaitReady \/ AwaitDone
  <2>1. PICK i \in Comm : ReadComm(i) /\ UNCHANGED <<clearing, commands>>
    BY <1>3 DEF AwaitSOk, AwaitReady, AwaitDone, Await
  <2>2. /\ pc68k \in {"sok", "ready", "wait"}
        /\ pc68k' \in {"sok", "zero", "ready", "go", "wait"}
    BY <1>3 DEF AwaitSOk, AwaitReady, AwaitDone, Await
  <2>3. Shape' /\ Flags' /\ Alone' /\ Cleared'
    BY <2>1, <2>2, AfterRead DEF Shape, Alone, Cleared
  <2>4. Answered'
    BY <2>1, <2>2, AfterRead DEF Answered
  <2> QED BY <2>3, <2>4
<1>4. CASE \E i \in Comm : Peek(i)
  <2> PICK i \in Comm : Peek(i)
    BY <1>4
  <2>1. /\ ReadComm(i) /\ pc68k # "clear" /\ UNCHANGED <<pc68k, clearing, commands>>
        /\ i = 4 => pc68k \notin {"clear4", "sum"}
    BY DEF Peek
  <2>2. ~SumDue(i)
    BY <2>1, AfterRead
  <2>3. Shape' /\ Flags'
    BY <2>1, AfterRead DEF Shape
  <2>4. Alone'
    BY <2>1, <2>2, AfterRead DEF Alone
  <2>5. Answered'
    BY <2>1, AfterRead DEF Answered
  <2>6. Cleared'
    <3>1. pc68k = "clear4" => ~OkDue(i)
      BY <2>1, AfterRead
    <3>2. pc68k = "sum" => Zeroed(4)'
      BY <2>1, <2>2, AfterRead DEF Cleared, Zeroed
    <3> QED BY <2>1, <3>1, <3>2, AfterRead DEF Cleared
  <2> QED BY <2>3, <2>4, <2>5, <2>6
<1> QED BY <1>1, <1>2, <1>3, <1>4

-----------------------------------------------------------------------------
(* The SH-2s' stores: comm 0 and comm 4, once the checksum is posted. *)
LEMMA Sh2Steps ==
    ASSUME BootInv, Master \/ SlaveTraffic
    PROVE  BootInv'
<1> USE DEF BootInv, Comm, Words, Places
<1>1. CASE Master
  <2>1. PICK v \in {"ready", "zero"} : StoreSh2(0, v)
    BY <1>1 DEF Master, MasterArrives, MasterLoopHead, MasterServes
  <2>2. master # "held" /\ Arrived' /\ hasty' \in BOOLEAN
        /\ master' \in {"ready", "loop"}
    BY <1>1 DEF Master, MasterArrives, MasterLoopHead, MasterServes, Arrived, Flags
  <2>3. UNCHANGED <<bios, released, pc68k, clearing, commands>>
    BY <2>1 DEF StoreSh2
  <2>4. pc68k \notin {"clear4", "clear", "sum"}
    BY <2>2 DEF Alone
  <2>5. Shape'
    BY <2>1, <2>2, <2>3, StoreRegs DEF Shape
  <2>6. Flags' /\ Alone' /\ Answered'
    BY <2>2, <2>3, <2>4 DEF Flags, Alone, Answered
  <2>7. ASSUME NEW k \in 0..3, Kept(k) PROVE Kept(k)'
    <3>1. CASE k = 0
      <4>1. comm'[0] = v /\ v # "M_OK"
        BY <2>1 DEF StoreSh2, Shape
      <4> QED BY <2>2, <3>1, <4>1 DEF Kept
    <3>2. CASE k # 0
      BY <2>1, <2>7, <3>2, StoreRegs DEF Kept, Zeroed
    <3> QED BY <3>1, <3>2
  <2>8. Cleared'
    BY <2>3, <2>4, <2>7 DEF Cleared
  <2> QED BY <2>5, <2>6, <2>8
<1>2. CASE SlaveTraffic
  <2>1. /\ StoreSh2(4, "pwm") /\ released
        /\ UNCHANGED <<bios, released, pc68k, clearing, commands, master, hasty>>
    BY <1>2 DEF SlaveTraffic, StoreSh2
  <2>2. pc68k \notin {"clear4", "clear", "sum"}
    BY <2>1 DEF Alone
  <2>3. \A k \in 0..3 : Kept(k) => Kept(k)'
    BY <2>1, StoreRegs DEF Kept, Zeroed, Arrived
  <2>4. Shape'
    BY <2>1, StoreRegs DEF Shape
  <2>5. Flags' /\ Alone' /\ Answered'
    BY <2>1, <2>2 DEF Flags, Alone, Answered
  <2>6. Cleared'
    BY <2>1, <2>2, <2>3 DEF Cleared
  <2> QED BY <2>4, <2>5, <2>6
<1> QED BY <1>1, <1>2

-----------------------------------------------------------------------------
LEMMA BootInvInit == BootInit => BootInv
<1> SUFFICES ASSUME BootInit PROVE BootInv
  OBVIOUS
<1>1. Shape
  BY BootAssumption DEF BootInit, Shape, Comm, Words, Actors, Places
<1>2. Flags
  BY DEF BootInit, Flags
<1>3. /\ ~bios.cleared_ok /\ ~bios.sum_done /\ ~bios.ok_done
      /\ pc68k = "clear4" /\ clearing = 0 /\ ~released /\ master = "held"
  BY DEF BootInit
<1>4. Alone /\ Cleared /\ Answered
  BY <1>3 DEF Alone, Cleared, Answered
<1> QED BY <1>1, <1>2, <1>4 DEF BootInv

LEMMA BootInvStep == BootInv /\ [BootNext]_bootvars => BootInv'
<1> SUFFICES ASSUME BootInv, [BootNext]_bootvars PROVE BootInv'
  OBVIOUS
<1>1. CASE M68k
  BY <1>1, StoreSteps, ReadSteps DEF M68k
<1>2. CASE \E i \in Comm : Peek(i)
  BY <1>2, ReadSteps
<1>3. CASE \E v \in {"zero", "pwm"} : Relay(v)
  BY <1>3, StoreSteps
<1>4. CASE Master \/ SlaveTraffic
  BY <1>4, Sh2Steps
<1>5. CASE UNCHANGED bootvars
  <2>1. /\ comm' = comm /\ by' = by /\ bios' = bios /\ released' = released
        /\ pc68k' = pc68k /\ clearing' = clearing /\ master' = master
        /\ commands' = commands /\ hasty' = hasty
    BY <1>5 DEF bootvars
  <2>2. Shape' /\ Flags'
    BY <2>1 DEF BootInv, Shape, Flags
  <2>3. Alone' /\ Answered' /\ Cleared'
    BY <2>1 DEF BootInv, Alone, Answered, Cleared, Kept, Zeroed, Arrived
  <2> QED BY <2>2, <2>3 DEF BootInv
<1> QED BY <1>1, <1>2, <1>3, <1>4, <1>5 DEF BootNext

(* Only a read posts, and it posts where the 68000's zero stands, or where  *)
(* a master that has arrived has stored.                                    *)
LEMMA PostsOnZero ==
    ASSUME BootInv, BootNext, NEW k \in Comm, comm'[k] # comm[k], by'[k] = "bios"
    PROVE  (Zeroed(k) \/ (k = 0 /\ Arrived)) /\ pc68k \notin {"go", "wait"}
<1>1. Shape
  BY DEF BootInv
<1>2. ASSUME NEW regs, NEW v, WriteComm(regs, v)
      PROVE  FALSE
  BY <1>2 DEF WriteComm
<1>3. ASSUME NEW i \in Comm, NEW v, StoreSh2(i, v)
      PROVE  FALSE
  BY <1>1, <1>3 DEF StoreSh2, Shape
<1>4. ASSUME NEW i \in Comm, ReadComm(i), pc68k # "clear", i = 4 => pc68k # "clear4"
      PROVE  (Zeroed(k) \/ (k = 0 /\ Arrived)) /\ pc68k \notin {"go", "wait"}
  <2>1. CASE SumDue(i) /\ k = 4
    BY <1>4, <2>1, DueWhereCleared
  <2>2. CASE OkDue(i) /\ k \in 0..3
    BY <1>4, <2>2, DueWhereCleared DEF Kept
  <2>3. CASE ~(SumDue(i) /\ k = 4) /\ ~(OkDue(i) /\ k \in 0..3)
    <3>1. k = 4 \/ k \in 0..3
      BY DEF Comm
    <3>2. SumDue(i) => k # 4
      BY <2>3
    <3>3. comm'[k] = comm[k]
      BY <1>1, <1>4, <2>3, <3>1, <3>2, ReadRegs
    <3> QED BY <3>3
  <2> QED BY <2>1, <2>2, <2>3
<1>5. ~Clear4 /\ ~ClearNext /\ ~ZeroComm0 /\ ~PostCommand
      /\ ~(\E v \in {"zero", "pwm"} : Relay(v))
  BY <1>2 DEF Clear4, ClearNext, ZeroComm0, PostCommand, Relay
<1>6. ~Master /\ ~SlaveTraffic
  BY <1>3 DEF Master, MasterArrives, MasterLoopHead, MasterServes, SlaveTraffic, Comm
<1>7. \/ AwaitSum \/ AwaitMOk \/ AwaitSOk \/ AwaitReady \/ AwaitDone
      \/ \E i \in Comm : Peek(i)
  BY <1>5, <1>6 DEF BootNext, M68k
<1>8. \E i \in Comm : ReadComm(i) /\ pc68k # "clear" /\ (i = 4 => pc68k # "clear4")
  BY <1>7 DEF AwaitSum, AwaitMOk, AwaitSOk, AwaitReady, AwaitDone, Await, Peek, Comm
<1> QED BY <1>4, <1>8

(* TrafficKept: for any number of commands and every interleaving of the    *)
(* 68000, the master and the slave, a word the stand-in posts replaces the  *)
(* zero the 68000 wrote for it, but at comm 0 under a master that has       *)
(* arrived already, and none comes once the program is running (gen68k.c,   *)
(* bios_comm_read).                                                         *)
THEOREM BootKeepsTraffic == BootSpec => TrafficKept
<1>1. BootInit => BootInv
  BY BootInvInit
<1>2. BootInv /\ [BootNext]_bootvars => BootInv'
  BY BootInvStep
<1>3. BootInv /\ [BootNext]_bootvars =>
        [\A i \in Comm : (comm'[i] # comm[i] /\ by'[i] = "bios") =>
            /\ pc68k \notin {"go", "wait"}
            /\ (by[i] = "m68k" /\ comm[i] = "zero") \/ (i = 0 /\ Arrived)]_bootvars
  BY PostsOnZero DEF Zeroed
<1> QED BY <1>1, <1>2, <1>3, PTL DEF BootSpec, TrafficKept

(* BootTypeOK: the registers, the flags and every program's place keep      *)
(* their types, and no command is posted past the bound.                    *)
THEOREM BootTyping == BootSpec => []BootTypeOK
<1>1. BootInit => BootInv
  BY BootInvInit
<1>2. BootInv /\ [BootNext]_bootvars => BootInv'
  BY BootInvStep
<1>3. BootInv => BootTypeOK
  BY DEF BootInv, Shape, Flags, BootTypeOK, Places
<1> QED BY <1>1, <1>2, <1>3, PTL DEF BootSpec

-----------------------------------------------------------------------------
(****************************************************************************)
(* The VDP's two ports, proved for every address a command names, every    *)
(* value of the increment and every order of halves, registers and data:   *)
(* the port stands where the command says, as many increments on as words  *)
(* have been stored, unless a half of another command is held.             *)
(****************************************************************************)
Increment == vreg[0]

Halfway(c) ==
    /\ port.pending /\ port.top = c.top /\ port.addr % VLow = c.base % VLow

(* Where a command sent whole has taken the port. *)
Ordered(c) ==
    /\ port.top = c.top /\ port.hi = c.hi
    /\ port.addr = c.base + since * Increment
    /\ (since > 0 /\ ~(c.dma = 1 /\ c.hi = 1)) =>
         stored = Lands(Target(c.top, c.hi), c.base + (since - 1) * Increment)

Moved == [top : {1, 3}, hi : 0..1, dma : 0..1, base : Nat]

VdpTyped ==
    /\ port \in [addr : Nat, top : 0..3, hi : 0..1, pending : BOOLEAN]
    /\ vreg \in [0..2 -> 0..3] /\ since \in Nat
    /\ sent = {} \/ \E c \in Commands : sent = {c}
    /\ cmd \subseteq Moved

VdpInv ==
    /\ VdpTyped
    /\ \A c \in sent : Halfway(c)
    /\ sent = {} => ~port.pending /\ \A c \in cmd : Ordered(c)

LEMMA CommandRange ==
    ASSUME NEW c \in Commands
    PROVE  c.top \in {1, 3} /\ c.hi \in 0..1 /\ c.dma \in 0..1 /\ c.base \in 0..31 /\ c \in Moved
<1>1. VBases \subseteq 0..31
  BY VdpAssumption DEF VSpace, VLow
<1>2. c.base \in VBases
  BY DEF Commands
<1>3. c.base \in 0..31
  BY <1>1, <1>2
<1>4. c.base \in Nat
  BY <1>3
<1>5. c \in Moved
  BY <1>4 DEF Commands, Moved
<1> QED BY <1>3, <1>5 DEF Commands

(* The two halves of a command spell its address and its code. *)
LEMMA HalvesJoin ==
    ASSUME NEW c \in Commands, NEW a \in Nat, a % VLow = c.base % VLow
    PROVE  LET low == SecondHalf(c).low
           IN /\ (a % VLow) + VLow * (low % 2) = c.base
              /\ (low \div 2) % 2 = c.hi
              /\ (low \div 4) % 2 = c.dma
<1> DEFINE b == c.base
           h == b \div 16
<1>1. c.hi \in 0..1 /\ c.dma \in 0..1 /\ b \in 0..31
  BY CommandRange
<1>2. SecondHalf(c).low = h + 2 * c.hi + 4 * c.dma
  BY DEF SecondHalf, VLow
<1>3. h \in 0..1 /\ (b % 16) + 16 * h = b
  BY <1>1
<1>4. \A x, y, z \in 0..1 : LET w == x + 2 * y + 4 * z
                            IN w % 2 = x /\ (w \div 2) % 2 = y /\ (w \div 4) % 2 = z
  OBVIOUS
<1> HIDE DEF h
<1>5. LET w == h + 2 * c.hi + 4 * c.dma
      IN w % 2 = h /\ (w \div 2) % 2 = c.hi /\ (w \div 4) % 2 = c.dma
  BY <1>1, <1>3, <1>4
<1>6. a % 16 = b % 16
  BY DEF VLow
<1> QED BY <1>2, <1>3, <1>5, <1>6 DEF VLow

LEMMA WordFurther ==
    ASSUME NEW n \in Nat, NEW k \in 0..3
    PROVE  n * k \in Nat /\ (n + 1) * k = n * k + k /\ n + 1 - 1 = n
  OBVIOUS

LEMMA SetRegisterOrders ==
    ASSUME VdpInv, NEW r \in 0..2, NEW v \in VValues, SetRegister(r, v)
    PROVE  VdpInv'
<1>1. v \in 0..3
  BY VdpAssumption
<1>2. sent = {} /\ sent' = {} /\ ~port.pending
  BY DEF SetRegister, VdpInv
<1>3. RegisterWord(r, v).top = 2 /\ RegisterWord(r, v).low = 4 * r + v
  BY DEF RegisterWord
<1>4. CtrlRegister(RegisterWord(r, v))
  BY <1>2, <1>3 DEF SetRegister, Ctrl, CtrlSecond, CtrlFirst
<1>5. (4 * r + v) \div 4 = r /\ (4 * r + v) % 4 = v
  BY <1>1
<1>6. /\ vreg' = [vreg EXCEPT ![r] = v]
      /\ stored' = {} /\ since' = 0 /\ port' = port
      /\ cmd' = {[c EXCEPT !.base = @ + since * Increment] : c \in cmd}
  BY <1>3, <1>4, <1>5 DEF CtrlRegister, SetRegister, Increment
<1>7. since * Increment \in Nat /\ vreg' \in [0..2 -> 0..3]
  <2>1. Increment \in 0..3 /\ since \in Nat /\ vreg \in [0..2 -> 0..3]
    BY DEF VdpInv, VdpTyped, Increment
  <2> QED BY <1>1, <1>6, <2>1, WordFurther
<1>8. ASSUME NEW c \in cmd
      PROVE  LET d == [c EXCEPT !.base = @ + since * Increment]
             IN d \in Moved /\ d.top = c.top /\ d.hi = c.hi /\ d.base = c.base + since * Increment
  BY <1>7 DEF VdpInv, VdpTyped, Moved
<1>9. VdpTyped'
  BY <1>2, <1>6, <1>7, <1>8 DEF VdpInv, VdpTyped
<1>10. ASSUME NEW d \in cmd'
       PROVE  Ordered(d)'
  <2>1. PICK c \in cmd : d = [c EXCEPT !.base = @ + since * Increment]
    BY <1>6
  <2>2. Ordered(c)
    BY <1>2 DEF VdpInv
  <2>3. d.top = c.top /\ d.hi = c.hi /\ d.base = port.addr /\ port.addr \in Nat
    BY <1>8, <2>1, <2>2 DEF Ordered, VdpInv, VdpTyped
  <2>4. since' * Increment' = 0
    BY <1>6, <1>9 DEF VdpTyped, Increment
  <2> QED BY <1>6, <2>2, <2>3, <2>4 DEF Ordered
<1> QED BY <1>2, <1>6, <1>9, <1>10 DEF VdpInv

LEMMA SendFirstOrders ==
    ASSUME VdpInv, NEW c \in Commands, SendFirst(c)
    PROVE  VdpInv'
<1>1. sent = {} /\ sent' = {c} /\ ~port.pending /\ cmd' = cmd
  BY DEF SendFirst, VdpInv
<1>2. FirstHalf(c).top = c.top /\ FirstHalf(c).low = c.base % 16 /\ c.top # 2
      /\ c.top \in 0..3 /\ c.base \in 0..31
  BY CommandRange DEF FirstHalf, VLow
<1>3. CtrlFirst(FirstHalf(c))
  BY <1>1, <1>2 DEF SendFirst, Ctrl, CtrlSecond, CtrlRegister
<1> DEFINE a == 16 * ((port.addr \div 16) % 2) + (c.base % 16)
<1>4. /\ port' = [port EXCEPT !.addr = a, !.top = c.top, !.pending = TRUE]
      /\ UNCHANGED <<vreg, stored, since>>
  BY <1>2, <1>3 DEF CtrlFirst, VLow
<1>5. a \in Nat /\ a % 16 = (c.base % 16) /\ (c.base % 16) % 16 = c.base % 16
  BY <1>2 DEF VdpInv, VdpTyped
<1> HIDE DEF a
<1>6. /\ port' \in [addr : Nat, top : 0..3, hi : 0..1, pending : BOOLEAN]
      /\ port'.addr = a /\ port'.top = c.top /\ port'.pending
  BY <1>2, <1>4, <1>5 DEF VdpInv, VdpTyped
<1>7. VdpTyped'
  BY <1>1, <1>4, <1>6 DEF VdpInv, VdpTyped
<1>8. Halfway(c)'
  BY <1>5, <1>6 DEF Halfway, VLow
<1> QED BY <1>1, <1>7, <1>8 DEF VdpInv

(* The second half, and the DMA it may start. *)
LEMMA SendSecondOrders ==
    ASSUME VdpInv, SendSecond
    PROVE  VdpInv'
<1>1. PICK c \in Commands : sent = {c} /\ Ctrl(SecondHalf(c))
  BY DEF SendSecond, VdpInv, VdpTyped
<1>2. cmd' = {c} /\ sent' = {} /\ Halfway(c)
  BY <1>1 DEF SendSecond, VdpInv
<1>3. CtrlSecond(SecondHalf(c))
  BY <1>1, <1>2 DEF Ctrl, CtrlRegister, CtrlFirst, Halfway
<1>4. c.top \in {1, 3} /\ c.hi \in 0..1 /\ c.dma \in 0..1 /\ c.base \in Nat /\ c \in Moved
  BY CommandRange
<1> DEFINE p == [addr |-> c.base, top |-> c.top, hi |-> c.hi, dma |-> c.dma]
           d == IF c.dma = 1 THEN Dma(p) ELSE NoDma(p)
<1>5. /\ port' = [addr |-> d.addr, top |-> c.top, hi |-> c.hi, pending |-> FALSE]
      /\ stored' = d.stored /\ since' = d.words /\ vreg' = vreg
  <2>1. LET low == SecondHalf(c).low
        IN /\ (port.addr % VLow) + VLow * (low % 2) = c.base
           /\ (low \div 2) % 2 = c.hi
           /\ (low \div 4) % 2 = c.dma
    BY <1>2, HalvesJoin DEF Halfway, VdpInv, VdpTyped
  <2>2. port.top = c.top
    BY <1>2 DEF Halfway
  <2> QED BY <1>3, <2>1, <2>2 DEF CtrlSecond
<1>6. Increment \in 0..3 /\ DmaWords \in 1..4 /\ Increment' = Increment
  BY <1>5 DEF VdpInv, VdpTyped, Increment, DmaWords
<1>7. CASE c.dma = 0 \/ vreg[2] # 0
  <2>1. d.addr = c.base /\ d.words = 0
    BY <1>4, <1>7 DEF Dma, NoDma
  <2>2. port' \in [addr : Nat, top : 0..3, hi : 0..1, pending : BOOLEAN]
        /\ port'.addr = c.base /\ port'.top = c.top /\ port'.hi = c.hi /\ ~port'.pending
    BY <1>4, <1>5, <2>1
  <2>3. since' = 0 /\ since' * Increment' = 0
    BY <1>5, <1>6, <2>1
  <2>4. VdpTyped'
    BY <1>2, <1>4, <1>5, <2>2, <2>3 DEF VdpInv, VdpTyped
  <2>5. Ordered(c)'
    BY <1>4, <2>2, <2>3 DEF Ordered
  <2> QED BY <1>2, <2>2, <2>4, <2>5 DEF VdpInv
<1>8. CASE c.dma = 1 /\ vreg[2] = 0
  <2> DEFINE n == DmaWords
  <2>1. /\ d.addr = c.base + n * Increment /\ d.words = n
        /\ c.hi = 0 => d.stored = Lands(Target(c.top, c.hi), c.base + (n - 1) * Increment)
    BY <1>8 DEF Dma, Increment
  <2>2. n * Increment \in Nat
    BY <1>6, WordFurther
  <2> HIDE DEF d, n
  <2>3. port' \in [addr : Nat, top : 0..3, hi : 0..1, pending : BOOLEAN]
        /\ port'.addr = c.base + n * Increment
        /\ port'.top = c.top /\ port'.hi = c.hi /\ ~port'.pending
    BY <1>4, <1>5, <2>1, <2>2
  <2>4. since' = n /\ n \in Nat
    BY <1>5, <1>6, <2>1 DEF n
  <2>5. VdpTyped'
    BY <1>2, <1>4, <1>5, <2>3, <2>4 DEF VdpInv, VdpTyped
  <2>6. Ordered(c)'
    BY <1>4, <1>5, <1>6, <1>8, <2>1, <2>3, <2>4 DEF Ordered
  <2> QED BY <1>2, <2>3, <2>5, <2>6 DEF VdpInv
<1> QED BY <1>4, <1>7, <1>8

LEMMA SendDataOrders ==
    ASSUME VdpInv, SendData
    PROVE  VdpInv'
<1>1. /\ port' = [port EXCEPT !.addr = @ + Increment, !.pending = FALSE]
      /\ stored' = Lands(Target(port.top, port.hi), port.addr)
      /\ since' = since + 1 /\ sent' = {} /\ vreg' = vreg
      /\ cmd' = IF sent = {} THEN cmd ELSE {}
  BY DEF SendData, DataMoves, Increment
<1>2. Increment \in 0..3 /\ since \in Nat /\ port.addr \in Nat /\ Increment' = Increment
  BY <1>1 DEF VdpInv, VdpTyped, Increment
<1>3. /\ port' \in [addr : Nat, top : 0..3, hi : 0..1, pending : BOOLEAN]
      /\ port'.addr = port.addr + Increment
      /\ port'.top = port.top /\ port'.hi = port.hi /\ ~port'.pending
  <2>1. port \in [addr : Nat, top : 0..3, hi : 0..1, pending : BOOLEAN]
        /\ port.addr + Increment \in Nat
    BY <1>2 DEF VdpInv, VdpTyped
  <2>2. port' = [addr |-> port.addr + Increment, top |-> port.top, hi |-> port.hi, pending |-> FALSE]
    BY <1>1, <2>1
  <2> QED BY <2>1, <2>2
<1>4. VdpTyped'
  BY <1>1, <1>2, <1>3 DEF VdpInv, VdpTyped
<1>5. ASSUME NEW c \in cmd'
      PROVE  Ordered(c)'
  <2>1. Ordered(c) /\ c \in Moved
    BY <1>1, <1>5 DEF VdpInv, VdpTyped
  <2>2. port.addr = c.base + since * Increment /\ c.base \in Nat
    BY <2>1 DEF Ordered, Moved
  <2>3. since * Increment \in Nat /\ (since + 1) * Increment = since * Increment + Increment
        /\ since + 1 - 1 = since
    BY <1>2, WordFurther
  <2>4. port'.addr = c.base + since' * Increment'
    BY <1>1, <1>2, <1>3, <2>2, <2>3
  <2>5. stored' = Lands(Target(c.top, c.hi), c.base + (since' - 1) * Increment')
    BY <1>1, <1>2, <2>1, <2>2, <2>3 DEF Ordered
  <2> QED BY <1>3, <2>1, <2>4, <2>5 DEF Ordered
<1> QED BY <1>1, <1>3, <1>4, <1>5 DEF VdpInv

LEMMA VdpStart == VdpInit => VdpInv
  BY DEF VdpInit, VdpInv, VdpTyped

LEMMA VdpStep == VdpInv /\ [VdpNext]_vdpvars => VdpInv'
<1> SUFFICES ASSUME VdpInv, [VdpNext]_vdpvars PROVE VdpInv'
  OBVIOUS
<1>1. CASE UNCHANGED vdpvars
  BY <1>1 DEF vdpvars, VdpInv, VdpTyped, Halfway, Ordered, Increment
<1> QED BY <1>1, SetRegisterOrders, SendFirstOrders, SendSecondOrders, SendDataOrders DEF VdpNext

(* Whatever half-sent command or register write came before, and whether a  *)
(* DMA or the data port stores them, the words of a command land one        *)
(* increment after another from the address it names (vdp_ctrl, vdp_data).  *)
THEOREM WordsLandInOrder == VdpSpec => []LandsInOrder
<1>1. VdpInv => LandsInOrder
  BY DEF VdpInv, LandsInOrder, Ordered, Increment
<1> QED BY <1>1, VdpStart, VdpStep, PTL DEF VdpSpec

-----------------------------------------------------------------------------
(****************************************************************************)
(* The frame buffer, proved for every size of block and buffer and every   *)
(* order of fills and sprites: a fill stays in the block it starts in and  *)
(* writes each of its words, so the buffer shown is the frame the program  *)
(* finished.                                                               *)
(****************************************************************************)
(* NextInBlock goes to the block's next word, and from its last to its first. *)
LEMMA BlockStep ==
    ASSUME NEW q \in Int, NEW r \in 0..(FWords - 1)
    PROVE  NextInBlock(FWords * q + r) = FWords * q + (IF r + 1 = FWords THEN 0 ELSE r + 1)
<1>1. FWords \in Nat \ {0}
  BY FbAssumption
<1>2. (FWords * q + r) % FWords = r
  BY <1>1, DivMod
<1>3. (FWords * q + r + 1) % FWords = IF r + 1 = FWords THEN 0 ELSE r + 1
  BY <1>1, ModStep
<1>4. FWords * q \in Int
  BY <1>1
<1> DEFINE z == FWords * q
<1>5. NextInBlock(z + r) = ((z + r) - ((z + r) % FWords)) + ((z + r + 1) % FWords)
  BY DEF NextInBlock
<1>6. z \in Int /\ (z + r) % FWords = r
      /\ (z + r + 1) % FWords = (IF r + 1 = FWords THEN 0 ELSE r + 1)
  BY <1>2, <1>3, <1>4
<1> HIDE DEF z
<1>7. NextInBlock(z + r) = z + (IF r + 1 = FWords THEN 0 ELSE r + 1)
  BY <1>1, <1>5, <1>6
<1> QED BY <1>7 DEF z

(* A fill's words are the first n + 1 of its block, counted round from its  *)
(* start.                                                                   *)
LEMMA FilledIs ==
    ASSUME NEW start \in Cells, NEW n \in 0..(FWords - 1)
    PROVE  Filled(start, n) = {c \in Cells : /\ c \div FWords = start \div FWords
                                             /\ (c - start) % FWords <= n}
<1> DEFINE W == FWords
           q == start \div W
           o == start % W
           off(i) == IF o + i < W THEN o + i ELSE o + i - W
           g == [i \in 0..n |-> W * q + off(i)]
           Is(h) == h = [i \in 0..n |-> IF i = 0 THEN start ELSE NextInBlock(h[i - 1])]
           f == CHOOSE h : Is(h)
<1>1. /\ W \in Nat \ {0} /\ start \in Nat /\ q \in Int /\ o \in 0..(W - 1)
      /\ start = W * q + o /\ n \in Nat /\ n < W
  BY FbAssumption, DivModOf DEF Cells
<1>2. \A i \in 0..n : off(i) \in 0..(W - 1) /\ i \in Nat
  BY <1>1
<1>3. ASSUME NEW i \in 0..n, i # 0
      PROVE  i - 1 \in 0..n /\ off(i) = IF off(i - 1) + 1 = W THEN 0 ELSE off(i - 1) + 1
  BY <1>1, <1>3
<1>4. Is(g)
  <2>1. ASSUME NEW i \in 0..n PROVE g[i] = IF i = 0 THEN start ELSE NextInBlock(g[i - 1])
    <3>1. CASE i = 0
      <4>1. off(0) = o
        BY <1>1
      <4> HIDE DEF q, o, off, W
      <4> QED BY <1>1, <3>1, <4>1
    <3>2. CASE i # 0
      <4>1. i - 1 \in 0..n /\ off(i - 1) \in 0..(FWords - 1)
        BY <1>2, <1>3, <3>2
      <4>2. NextInBlock(FWords * q + off(i - 1)) =
              FWords * q + (IF off(i - 1) + 1 = FWords THEN 0 ELSE off(i - 1) + 1)
        <5> HIDE DEF q, off
        <5> QED BY <1>1, <4>1, BlockStep
      <4>3. g[i] = W * q + off(i) /\ g[i - 1] = W * q + off(i - 1)
        <5> HIDE DEF q, off, W
        <5> QED BY <4>1
      <4>4. off(i) = IF off(i - 1) + 1 = W THEN 0 ELSE off(i - 1) + 1
        BY <1>3, <3>2
      <4> HIDE DEF g, q, o, off
      <4> QED BY <3>2, <4>2, <4>3, <4>4
    <3> QED BY <3>1, <3>2
  <2> HIDE DEF q, off
  <2> QED BY <2>1
<1>5. Is(f)
  <2> HIDE DEF g, Is
  <2> QED BY <1>4
<1>6. \A i \in 0..n : f[i] = g[i]
  <2>0. ASSUME NEW h, Is(h), NEW i \in 0..n
        PROVE  h[i] = IF i = 0 THEN start ELSE NextInBlock(h[i - 1])
    BY <2>0, Zenon
  <2> HIDE DEF f, g, Is
  <2>1. f[0] = start /\ g[0] = start
    BY <1>1, <1>4, <1>5, <2>0
  <2>2. \A i \in 1..n : f[i] = NextInBlock(f[i - 1]) /\ g[i] = NextInBlock(g[i - 1])
    <3>1. \A i \in 1..n : i \in 0..n /\ i # 0
      BY <1>1
    <3>2. \A i \in 0..n : i # 0 => f[i] = NextInBlock(f[i - 1])
      BY <1>5, <2>0, Zenon
    <3>3. \A i \in 0..n : i # 0 => g[i] = NextInBlock(g[i - 1])
      BY <1>4, <2>0, Zenon
    <3> QED BY <3>1, <3>2, <3>3, Zenon
  <2>3. f[0] = g[0] /\ \A i \in 1..n : f[i - 1] = g[i - 1] => f[i] = g[i]
    BY <2>1, <2>2, Zenon
  <2>4. n \in Nat
    BY <1>1
  <2> HIDE DEF q, o, off
  <2> QED BY <2>3, <2>4, SameSteps, SMT
<1>7. Filled(start, n) = {f[i] : i \in 0..n}
  BY DEF Filled
<1>8. Filled(start, n) = {W * q + off(i) : i \in 0..n}
  <2>1. \A i \in 0..n : f[i] = W * q + off(i)
    <3> HIDE DEF f, q, off
    <3> QED BY <1>6
  <2> HIDE DEF f, q, off
  <2> QED BY <1>7, <2>1
<1>9. ASSUME NEW i \in 0..n
      PROVE  /\ W * q + off(i) \in Cells /\ (W * q + off(i)) \div W = q
             /\ ((W * q + off(i)) - start) % W <= n
  <2>1. (W * q + off(i)) \div W = q
    <3> HIDE DEF q, off
    <3> QED BY <1>1, <1>2, DivMod
  <2>2. q >= 0 /\ q < FBlocks
    BY <1>1, FbAssumption DEF Cells
  <2>3. W * q + off(i) \in Cells
    <3>1. W * q + off(i) < W * (q + 1) /\ W * q >= 0
      <4> HIDE DEF q, off
      <4> QED BY <1>1, <1>2, <2>2
    <3>2. W * (q + 1) <= W * FBlocks
      <4> HIDE DEF q, off
      <4> QED BY <1>1, <2>2, FbAssumption
    <3> HIDE DEF q, off
    <3> QED BY <1>1, <1>2, <3>1, <3>2, FbAssumption DEF Cells
  <2>4. ((W * q + off(i)) - start) % W = i
    <3>1. (W * q + off(i)) - start = off(i) - o
      <4> HIDE DEF q, off, o
      <4> QED BY <1>1, <1>2
    <3>2. off(i) - o = i \/ off(i) - o = i - W
      BY <1>1
    <3>3. i % W = i /\ (i - W) % W = i
      <4>1. i \in 0..(W - 1)
        BY <1>1
      <4> QED BY <1>1, <4>1, ModBack
    <3> QED BY <1>1, <3>1, <3>2, <3>3
  <2> QED BY <1>1, <2>1, <2>3, <2>4
<1>10. ASSUME NEW c \in Cells, c \div W = q, (c - start) % W <= n
       PROVE  \E i \in 0..n : c = W * q + off(i)
  <2> DEFINE r == c % W
             k == (c - start) % W
  <2>1. c \in Int /\ r \in 0..(W - 1) /\ c = W * q + r
    <3>1. c \in Int
      BY FbAssumption DEF Cells
    <3> QED BY <1>1, <1>10, <3>1, DivModOf
  <2>2. c - start = r - o
    <3> HIDE DEF q, o, r
    <3> QED BY <1>1, <2>1
  <2>3. k = IF r >= o THEN r - o ELSE r - o + W
    <3>1. CASE r >= o
      <4>1. r - o \in 0..(W - 1)
        BY <1>1, <2>1, <3>1
      <4>2. (r - o) % W = r - o
        BY <1>1, <4>1, ModBack
      <4> QED BY <1>1, <2>1, <2>2, <3>1, <4>2
    <3>2. CASE r < o
      <4>1. r - o + W \in 0..(W - 1)
        BY <1>1, <2>1, <3>2
      <4>3. ((r - o + W) - W) % W = r - o + W
        <5> HIDE DEF r, o
        <5> QED BY <1>1, <4>1, ModBack
      <4>2. (r - o + W) - W = r - o
        <5> HIDE DEF r, o
        <5> QED BY <1>1, <2>1
      <4> QED BY <1>1, <2>1, <2>2, <3>2, <4>2, <4>3
    <3> QED BY <1>1, <2>1, <3>1, <3>2
  <2>4. k \in 0..n /\ off(k) = r
    <3> HIDE DEF q, o, r, k
    <3> QED BY <1>1, <1>10, <2>1, <2>3 DEF k
  <2> QED BY <2>1, <2>4
<1> HIDE DEF q, off
<1> QED BY <1>8, <1>9, <1>10 DEF q

-----------------------------------------------------------------------------
(* What ShowsWhole needs: every word the program has painted is in the      *)
(* buffer being drawn, and no other cell is.                                *)
Bytes == Nat \X Nat

FbTyped ==
    /\ fbctl \in 0..1 /\ fb \in [0..1 -> [Cells -> Bytes]]
    /\ fill \in [len : 0..(FWords - 1), start : Cells]
    /\ fframe \in Nat

Painted ==
    /\ DOMAIN picture \in SUBSET Cells
    /\ picture = [c \in DOMAIN picture |-> fb[Draw][c]]

FbInv == FbTyped /\ Painted /\ ShowsWhole

LEMMA FbSizes ==
    /\ FWords \in Nat \ {0} /\ FBlocks \in Nat /\ Table \in SUBSET Cells /\ 0 \in Cells
    /\ \A v \in FCounts : Count(v) \in 0..(FWords - 1)
<1>1. FWords \in Nat \ {0} /\ FBlocks \in Nat /\ FBlocks > 1
  BY FbAssumption
<1>2. FWords <= FBlocks * FWords /\ FBlocks * FWords \in Nat
  BY <1>1
<1>3. Table \in SUBSET Cells /\ 0 \in Cells
  BY <1>1, <1>2 DEF Table, Cells
<1>4. \A v \in FCounts : Count(v) \in 0..(FWords - 1)
  BY <1>1, FbAssumption DEF Count
<1> QED BY <1>1, <1>3, <1>4

(* Painting the same cells of the buffer and of the picture keeps the two   *)
(* in step.                                                                 *)
LEMMA PaintBoth ==
    ASSUME FbInv, NEW cells \in SUBSET Cells, NEW word \in Bytes,
           fb' = [fb EXCEPT ![Draw] = [c \in Cells |-> IF c \in cells THEN word ELSE @[c]]],
           picture' = Paint(picture, cells, word),
           UNCHANGED <<fbctl, shown>>
    PROVE  /\ fb' \in [0..1 -> [Cells -> Bytes]] /\ Painted' /\ ShowsWhole'
<1>1. Draw \in 0..1 /\ Draw # fbctl /\ Draw' = Draw /\ fb \in [0..1 -> [Cells -> Bytes]]
      /\ fbctl \in 0..1
  BY DEF FbInv, FbTyped, Draw
<1> DEFINE new == [c \in Cells |-> IF c \in cells THEN word ELSE fb[Draw][c]]
<1>2. new \in [Cells -> Bytes]
  BY <1>1
<1>3. fb' = [fb EXCEPT ![Draw] = new]
  OBVIOUS
<1>4. \A c \in Cells : new[c] = IF c \in cells THEN word ELSE fb[Draw][c]
  OBVIOUS
<1> HIDE DEF new
<1>5. fb' \in [0..1 -> [Cells -> Bytes]] /\ fb'[Draw] = new /\ fb'[fbctl] = fb[fbctl]
  BY <1>1, <1>2, <1>3
<1>6. ShowsWhole'
  BY <1>5 DEF FbInv, ShowsWhole
<1>7. Painted'
  <2> DEFINE D == DOMAIN picture
  <2>1. D \in SUBSET Cells /\ picture = [c \in D |-> fb[Draw][c]]
    BY DEF FbInv, Painted
  <2>2. picture' = [c \in D \cup cells |-> IF c \in cells THEN word ELSE picture[c]]
    BY DEF Paint
  <2>3. \A c \in D : picture[c] = fb[Draw][c]
    BY <2>1, Zenon
  <2> HIDE DEF D
  <2>4. \A c \in D \cup cells : (IF c \in cells THEN word ELSE picture[c]) = new[c]
    BY <1>4, <2>1, <2>3
  <2>5. picture' = [c \in D \cup cells |-> new[c]]
    BY <2>2, <2>4
  <2>6. DOMAIN picture' = D \cup cells /\ D \cup cells \in SUBSET Cells
    BY <2>1, <2>5
  <2>7. picture' = [c \in DOMAIN picture' |-> fb'[Draw'][c]]
    BY <1>1, <1>5, <2>5, <2>6
  <2> QED BY <2>6, <2>7 DEF Painted
<1> QED BY <1>5, <1>6, <1>7

LEMMA FbStart == FbInit => FbInv
<1> SUFFICES ASSUME FbInit PROVE FbInv
  OBVIOUS
<1>1. Nil \in Bytes
  BY DEF Nil, Bytes
<1>2. FbTyped
  BY <1>1, FbSizes DEF FbInit, FbTyped
<1>3. Painted
  BY DEF FbInit, Painted
<1>4. ShowsWhole
  BY DEF FbInit, ShowsWhole
<1> QED BY <1>2, <1>3, <1>4 DEF FbInv

LEMMA ColourIs == ASSUME FbInv PROVE Colour \in Bytes
<1>1. (fframe % 3) + 1 \in Nat
  BY DEF FbInv, FbTyped
<1> QED BY <1>1 DEF Colour, Bytes

LEMMA FbSame ==
    ASSUME FbInv, UNCHANGED <<fb, fbctl, picture, shown>>
    PROVE  Painted' /\ ShowsWhole'
BY DEF FbInv, Painted, ShowsWhole, Draw

LEMMA SpriteKeeps ==
    ASSUME FbInv, NEW s \in Cells, NEW word \in Bytes, Sprite(s, word)
    PROVE  FbInv'
<1> DEFINE D == Draw
           new == Over(fb[D][s], word)
<1>1. D \in 0..1 /\ D # fbctl /\ Draw' = D /\ fb \in [0..1 -> [Cells -> Bytes]]
      /\ fbctl \in 0..1
  BY DEF FbInv, FbTyped, Draw, Sprite
<1>2. new \in Bytes
  <2>1. fb[D][s] \in Bytes
    BY <1>1
  <2> QED BY <2>1 DEF Over, Bytes
<1>3. fb' = [fb EXCEPT ![D][s] = new]
  BY DEF Sprite, Store
<1>4. picture \in [Cells -> Bytes] /\ picture' = [picture EXCEPT ![s] = Over(@, word)]
      /\ (\A c \in Cells : picture[c] = fb[D][c])
  <2>1. DOMAIN picture = Cells /\ picture = [c \in Cells |-> fb[D][c]]
    BY DEF FbInv, Painted, Sprite
  <2>2. \A c \in Cells : picture[c] = fb[D][c]
    BY <2>1, Zenon
  <2>3. \A c \in Cells : fb[D][c] \in Bytes
    BY <1>1
  <2>4. picture \in [Cells -> Bytes]
    <3> HIDE DEF D
    <3> QED BY <2>1, <2>3
  <2> QED BY <2>2, <2>4 DEF Sprite
<1> HIDE DEF D
<1>5. picture' = [picture EXCEPT ![s] = new]
  BY <1>4
<1> HIDE DEF new
<1>6. fb' \in [0..1 -> [Cells -> Bytes]] /\ fb'[fbctl] = fb[fbctl]
  BY <1>1, <1>2, <1>3
<1>7. picture' \in [Cells -> Bytes] /\ \A c \in Cells : picture'[c] = fb'[D][c]
  BY <1>1, <1>2, <1>3, <1>4, <1>5
<1>8. DOMAIN picture' = Cells /\ picture' = [c \in Cells |-> fb'[D][c]]
  BY <1>7
<1>9. Painted'
  BY <1>1, <1>8 DEF Painted
<1>10. ShowsWhole' /\ FbTyped'
  BY <1>6 DEF FbInv, FbTyped, ShowsWhole, Sprite
<1> QED BY <1>9, <1>10 DEF FbInv

LEMMA SwapKeeps == ASSUME FbInv, Swap PROVE FbInv'
<1>1. fbctl' \in 0..1 /\ fbctl' = Draw /\ fb' = fb /\ shown' = picture
      /\ fb \in [0..1 -> [Cells -> Bytes]] /\ Draw \in 0..1
  BY DEF FbInv, FbTyped, Draw, Swap
<1>2. shown' = [c \in Cells |-> fb[Draw][c]]
  BY <1>1 DEF FbInv, Painted, Swap
<1>3. fb[Draw] = [c \in Cells |-> fb[Draw][c]]
  BY <1>1
<1>4. ShowsWhole'
  BY <1>1, <1>2, <1>3 DEF ShowsWhole
<1>5. Painted'
  BY DEF Swap, Painted
<1>6. FbTyped'
  BY <1>1 DEF FbInv, FbTyped, Swap
<1> QED BY <1>4, <1>5, <1>6 DEF FbInv

LEMMA FbStep == ASSUME FbInv, [FbNext]_fbvars PROVE FbInv'
<1>1. CASE WriteTable
  <2>1. Painted' /\ ShowsWhole' /\ fb' \in [0..1 -> [Cells -> Bytes]]
    BY <1>1, PaintBoth, ColourIs, FbSizes DEF WriteTable
  <2> QED BY <1>1, <2>1 DEF FbInv, FbTyped, WriteTable
<1>2. CASE SetFill
  <2>1. Painted' /\ ShowsWhole'
    BY <1>2, FbSame DEF SetFill
  <2> QED BY <1>2, <2>1, FbSizes DEF FbInv, FbTyped, SetFill
<1>3. CASE Autofill
  <2> DEFINE filled == Filled(fill.start, fill.len)
  <2>1. filled = {c \in Cells : /\ c \div FWords = fill.start \div FWords
                                /\ (c - fill.start) % FWords <= fill.len}
    BY FilledIs DEF FbInv, FbTyped
  <2>2. filled \in SUBSET Cells
    BY <2>1
  <2>3. fb' = [fb EXCEPT ![Draw] = [c \in Cells |-> IF c \in filled THEN Colour ELSE @[c]]]
        /\ picture' = Paint(picture, filled, Colour) /\ UNCHANGED <<fbctl, shown>>
    BY <1>3, <2>1 DEF Autofill
  <2> HIDE DEF filled
  <2>4. Painted' /\ ShowsWhole' /\ fb' \in [0..1 -> [Cells -> Bytes]]
    BY <2>2, <2>3, PaintBoth, ColourIs
  <2> QED BY <1>3, <2>4 DEF FbInv, FbTyped, Autofill
<1>4. CASE Poll
  <2>1. Painted' /\ ShowsWhole'
    BY <1>4, FbSame DEF Poll
  <2> QED BY <1>4, <2>1 DEF FbInv, FbTyped, Poll
<1>5. CASE Swap
  BY <1>5, SwapKeeps
<1>6. ASSUME NEW c \in Cells \ Table, NEW word \in {<<0, 4>>, <<4, 0>>, <<4, 4>>},
             Sprite(c, word)
      PROVE  FbInv'
  <2>1. word \in Bytes
    BY DEF Bytes
  <2> QED BY <1>6, <2>1, SpriteKeeps
<1>7. CASE UNCHANGED fbvars
  <2>1. Painted' /\ ShowsWhole'
    BY <1>7, FbSame DEF fbvars
  <2> QED BY <1>7, <2>1 DEF FbInv, FbTyped, fbvars
<1> QED BY <1>1, <1>2, <1>3, <1>4, <1>5, <1>6, <1>7 DEF FbNext

(* The buffer shown is, word for word, the last frame the program finished,  *)
(* for every size of block and buffer, every count and every order of fills  *)
(* and sprites.                                                              *)
THEOREM FramesShowWhole == FbSpec => []ShowsWhole
<1>1. FbInv => ShowsWhole
  BY DEF FbInv
<1> QED BY <1>1, FbStart, FbStep, PTL DEF FbSpec

-----------------------------------------------------------------------------
(****************************************************************************)
(* The pads, proved for every set of buttons and every choice of the       *)
(* frames that read them: the nine steps of a pass find each button where  *)
(* the program looks for it.                                               *)
(****************************************************************************)
(* What the pass has found before each of its steps, and how often TH has   *)
(* fallen by then: only the second fall after the identification makes the  *)
(* third, so the count is the frame's own.                                  *)
Known(s) ==
    (IF s > 1 THEN {"C", "B", "R", "L", "D", "U"} ELSE {})
    \cup (IF s > 2 THEN {"S", "A"} ELSE {})
    \cup (IF s > 7 THEN {"M", "X", "Y", "Z"} ELSE {})

Fallen(s) == IF s <= 2 THEN 0 ELSE IF s <= 4 THEN 1 ELSE IF s <= 6 THEN 2
             ELSE IF s <= 8 THEN 3 ELSE 4

Driven(s) == IF s \in {2, 4, 6, 8, 10} THEN 1 ELSE 0

PadInv ==
    /\ held \in SUBSET Buttons
    /\ step \in 1..10
    /\ ~polled => step = 10
    /\ polled => /\ pad_cycle = Fallen(step)
                 /\ step > 1 => pad_th = Driven(step)
                 /\ decoded = held \cap Known(step)
                 /\ six <=> step > 6

LEMMA PassIs ==
    /\ Len(Pass) = 9
    /\ Pass[1].th = 1 /\ Pass[1].read = "high" /\ Pass[2].th = 0 /\ Pass[2].read = "low"
    /\ Pass[3].th = 1 /\ Pass[3].read = "none"     /\ Pass[4].th = 0 /\ Pass[4].read = "none"
    /\ Pass[5].th = 1 /\ Pass[5].read = "none"     /\ Pass[6].th = 0 /\ Pass[6].read = "signature"
    /\ Pass[7].th = 1 /\ Pass[7].read = "extra" /\ Pass[8].th = 0 /\ Pass[8].read = "none"
    /\ Pass[9].th = 1 /\ Pass[9].read = "none"
BY DEF Pass

LEMMA FoundHigh ==
    ASSUME NEW c, c = 0
    PROVE  Found("high", Lines(1, c)) = held \cap {"C", "B", "R", "L", "D", "U"}
<1>1. \A i \in 1..6 : i \in Lines(1, c) <=> High[i] \notin held
  BY DEF Lines, High
<1>2. Found("high", Lines(1, c)) = {High[i] : i \in {k \in 1..6 : k \notin Lines(1, c)}}
  BY DEF Found
<1>3. Found("high", Lines(1, c)) = {High[i] : i \in {k \in 1..6 : High[k] \in held}}
  BY <1>1, <1>2
<1>4. 1..6 = {1, 2, 3, 4, 5, 6}
  OBVIOUS
<1>5. /\ High[1] = "C" /\ High[2] = "B" /\ High[3] = "R" /\ High[4] = "L"
      /\ High[5] = "D" /\ High[6] = "U"
  BY DEF High
<1> QED BY <1>3, <1>4, <1>5

LEMMA FoundLow ==
    ASSUME NEW c, c = 1
    PROVE  Found("low", Lines(0, c)) = held \cap {"S", "A"}
<1>1. \A i \in 1..2 : i \in Lines(0, c) <=> Low[i] \notin held
  BY DEF Lines, Low
<1>2. Found("low", Lines(0, c)) = {Low[i] : i \in {k \in 1..2 : k \notin Lines(0, c)}}
  BY DEF Found
<1>3. Found("low", Lines(0, c)) = {Low[i] : i \in {k \in 1..2 : Low[k] \in held}}
  BY <1>1, <1>2
<1>4. 1..2 = {1, 2} /\ Low[1] = "S" /\ Low[2] = "A"
  BY DEF Low
<1> QED BY <1>3, <1>4

LEMMA FoundExtra ==
    ASSUME NEW c, c = 3
    PROVE  Found("extra", Lines(1, c)) = held \cap {"M", "X", "Y", "Z"}
<1>1. \A i \in 3..6 : i \in Lines(1, c) <=> Extra[i] \notin held
  BY DEF Lines, Extra
<1>2. Found("extra", Lines(1, c)) = {Extra[i] : i \in {k \in 3..6 : k \notin Lines(1, c)}}
  BY DEF Found
<1>3. Found("extra", Lines(1, c)) = {Extra[i] : i \in {k \in 3..6 : Extra[k] \in held}}
  BY <1>1, <1>2
<1>4. 3..6 = {3, 4, 5, 6} /\ Extra[3] = "M" /\ Extra[4] = "X" /\ Extra[5] = "Y" /\ Extra[6] = "Z"
  BY DEF Extra
<1> QED BY <1>3, <1>4

LEMMA Signature == ASSUME NEW c, c = 3 PROVE Lines(0, c) \cap (3..6) = {}
BY DEF Lines

LEMMA FoundNone == ASSUME NEW l PROVE Found("none", l) = {} /\ Found("signature", l) = {}
BY DEF Found

LEMMA KnownAll == Known(10) = Buttons
BY DEF Known, Buttons

LEMMA PulseKeeps == ASSUME PadInv, Pulse PROVE PadInv'
<1> DEFINE th   == Pass[step].th
           read == Pass[step].read
           c    == Falls(th)
<1>1. step \in 1..9 /\ polled /\ step' = step + 1 /\ pad_cycle' = c /\ pad_th' = th
      /\ decoded' = decoded \cup Found(read, Lines(th, c))
      /\ six' = (six \/ (read = "signature" /\ Lines(th, c) \cap (3..6) = {}))
      /\ held' = held /\ polled' = polled
  BY PassIs DEF Pulse, PadInv
<1>2. /\ pad_cycle = Fallen(step) /\ (step > 1 => pad_th = Driven(step))
      /\ decoded = held \cap Known(step) /\ (six <=> step > 6) /\ held \in SUBSET Buttons
  BY <1>1 DEF PadInv
<1>3. c = Fallen(step + 1) /\ th = Driven(step + 1)
  BY <1>1, <1>2, PassIs DEF Falls, Fallen, Driven
<1>4. decoded \cup Found(read, Lines(th, c)) = held \cap Known(step + 1)
  <2>1. CASE step = 1
    <3>1. c = 0 /\ th = 1 /\ read = "high"
      BY <1>3, <2>1, PassIs DEF Fallen
    <3>2. Found(read, Lines(th, c)) = held \cap {"C", "B", "R", "L", "D", "U"}
      BY <3>1, FoundHigh
    <3> HIDE DEF c, th, read
    <3> QED BY <1>2, <2>1, <3>2 DEF Known
  <2>2. CASE step = 2
    <3>1. c = 1 /\ th = 0 /\ read = "low"
      BY <1>3, <2>2, PassIs DEF Fallen
    <3>2. Found(read, Lines(th, c)) = held \cap {"S", "A"}
      BY <3>1, FoundLow
    <3> HIDE DEF c, th, read
    <3> QED BY <1>2, <2>2, <3>2 DEF Known
  <2>3. CASE step = 7
    <3>1. c = 3 /\ th = 1 /\ read = "extra"
      BY <1>3, <2>3, PassIs DEF Fallen
    <3>2. Found(read, Lines(th, c)) = held \cap {"M", "X", "Y", "Z"}
      BY <3>1, FoundExtra
    <3> HIDE DEF c, th, read
    <3> QED BY <1>2, <2>3, <3>2 DEF Known
  <2>4. CASE step \in {3, 4, 5, 6, 8, 9}
    <3>1. read \in {"none", "signature"}
      BY <2>4, PassIs
    <3>2. Found(read, Lines(th, c)) = {}
      BY <3>1, FoundNone
    <3>3. Known(step + 1) = Known(step)
      BY <2>4 DEF Known
    <3> HIDE DEF c, th, read
    <3> QED BY <1>2, <3>2, <3>3
  <2> QED BY <1>1, <2>1, <2>2, <2>3, <2>4
<1>5. (six \/ (read = "signature" /\ Lines(th, c) \cap (3..6) = {})) <=> step + 1 > 6
  <2>1. CASE step = 6
    <3>1. c = 3 /\ th = 0 /\ read = "signature"
      BY <1>3, <2>1, PassIs DEF Fallen
    <3> HIDE DEF c, th, read
    <3> QED BY <2>1, <3>1, Signature
  <2>2. CASE step # 6
    <3>1. read # "signature"
      BY <1>1, <2>2, PassIs
    <3> HIDE DEF c, th, read
    <3> QED BY <1>1, <1>2, <2>2, <3>1
  <2> QED BY <2>1, <2>2
<1> HIDE DEF c, th, read
<1>6. six' <=> step' > 6
  BY <1>1, <1>5, Zenon
<1> QED BY <1>1, <1>2, <1>3, <1>4, <1>6 DEF PadInv

LEMMA FrameStartKeeps == ASSUME PadInv, FrameStart PROVE PadInv'
<1>1. held' \in SUBSET Buttons /\ decoded' = {} /\ ~six' /\ pad_cycle' = 0
  BY PadAssumption DEF FrameStart, CycleCleared
<1>2. polled' \in BOOLEAN /\ step' = IF polled' THEN 1 ELSE 10
  BY PassIs DEF FrameStart
<1>3. polled' => step' = 1
  BY <1>2
<1>4. ~polled' => step' = 10
  BY <1>2
<1>5. held' \cap Known(1) = {}
  BY DEF Known
<1> QED BY <1>1, <1>2, <1>3, <1>4, <1>5 DEF PadInv, Fallen

(* A pass reads back exactly the buttons held in its frame, and the pad as  *)
(* one of six buttons, for every set of buttons and every choice of the     *)
(* frames that read the pad.                                                *)
THEOREM PadsReadBack == PadSpec => []ReadsBack
<1>1. PadInit => PadInv
  BY PassIs DEF PadInit, PadInv
<1>2. PadInv /\ [PadNext]_padvars => PadInv'
  <2>1. CASE UNCHANGED padvars
    BY <2>1 DEF padvars, PadInv
  <2> QED BY <2>1, PulseKeeps, FrameStartKeeps DEF PadNext
<1>3. PadInv => ReadsBack
  <2> SUFFICES ASSUME PadInv, polled, step > Len(Pass) PROVE six /\ decoded = held
    BY DEF ReadsBack
  <2>1. step = 10
    BY PassIs DEF PadInv
  <2>2. decoded = held \cap Buttons /\ held \in SUBSET Buttons /\ six
    BY <2>1, KnownAll DEF PadInv
  <2> QED BY <2>2
<1> QED BY <1>1, <1>2, <1>3, PTL DEF PadSpec

-----------------------------------------------------------------------------
(****************************************************************************)
(* A session's recording and a movie's run, proved for any number of       *)
(* frames, any sources, any delay and any re-syncs: what is logged is what *)
(* the engine read, the alignment given last is in force at the end, and   *)
(* the length of a run reaches past its last frame.                        *)
(****************************************************************************)
(* The recording is what the engine read; the replay is of the recording,   *)
(* with nothing else on the command line.                                   *)
Inputs ==
    /\ movie \in Seq(Masks) /\ saw \in Seq(Masks) /\ frames \in Nat
    /\ opt.hold \in Masks /\ opt.press \in Masks
    /\ opt.offset \in Int /\ opt.syncs \in Seq([ours : Nat, movie : Nat])

Recorded ==
    /\ log = saw
    /\ job = "replay" => opt = Plain /\ movie = log

LEMMA MaskIs ==
    ASSUME Inputs, NEW f PROVE MovieMask(f) \in Masks
<1> DEFINE mf == MovieFrame(f)
<1>1. MovieMask(f) = IF mf \in 0..(Len(movie) - 1) THEN movie[mf + 1] ELSE {}
  BY DEF MovieMask
<1> HIDE DEF mf
<1>2. CASE mf \in 0..(Len(movie) - 1)
  <2>1. mf + 1 \in 1..Len(movie) /\ movie \in Seq(Masks)
    BY <1>2 DEF Inputs
  <2> QED BY <1>1, <1>2, <2>1
<1>3. CASE mf \notin 0..(Len(movie) - 1)
  BY <1>1, <1>3 DEF Masks
<1> QED BY <1>2, <1>3

LEMMA ComposedIs ==
    ASSUME Inputs, NEW f, NEW keys \in Masks PROVE Composed(f, keys) \in Masks
<1>1. MovieMask(f) \in Masks
  BY MaskIs
<1>2. opt.hold \in Masks /\ opt.press \in Masks
  BY DEF Inputs
<1> QED BY <1>1, <1>2 DEF Composed, Masks

(* What Ask may have asked for. *)
LEMMA Asked ==
    ASSUME Ask
    PROVE  /\ movie' \in Seq(Masks)
           /\ opt'.hold \in Masks /\ opt'.press \in Masks
           /\ opt'.offset \in Int /\ opt'.syncs \in Seq([ours : Nat, movie : Nat])
           /\ job' \in {"live", "headless"}
           /\ job' = "headless" => Len(movie') > 0
           /\ \A i \in 1..Len(opt'.syncs) : opt'.syncs[i].movie < Len(movie')
           /\ -opt'.offset < Len(movie') \/ opt'.offset = 0
<1>1. PICK m \in Movies, o \in SOffsets, s \in UNION {[1..n -> SSyncs] : n \in 0..SMaxSyncs},
           h \in Masks, p \in Masks, from \in 0..1, j \in {"live", "headless"} :
         /\ j = "headless" => Len(m) > 0
         /\ \A x \in Range(s) : x.movie < Len(m)
         /\ -o < Len(m) \/ o = 0
         /\ movie' = m
         /\ opt' = [hold |-> h, hold_from |-> from, press |-> p, press_until |-> from,
                    offset |-> o, syncs |-> s]
         /\ job' = j
  BY DEF Ask
<1>2. m \in Seq(Masks)
  BY <1>1, SessionAssumption DEF Movies
<1>3. s \in Seq([ours : Nat, movie : Nat])
  <2>1. PICK n \in 0..SMaxSyncs : s \in [1..n -> SSyncs]
    OBVIOUS
  <2> DEFINE R == [ours : Nat, movie : Nat]
  <2>2. SSyncs \in SUBSET R
    BY SessionAssumption
  <2> HIDE DEF R
  <2>3. n \in Nat /\ s \in [1..n -> R]
    BY <2>1, <2>2, SessionAssumption
  <2>4. s \in Seq(R)
    BY <2>3
  <2> QED BY <2>4 DEF R
<1>4. \A i \in 1..Len(s) : s[i] \in Range(s)
  BY <1>3 DEF Range
<1>5. o \in Int
  BY SessionAssumption
<1> QED BY <1>1, <1>2, <1>3, <1>4, <1>5

LEMMA InputsKept == ASSUME Inputs, Recorded, [SessionNext]_sessionvars PROVE Inputs' /\ Recorded'
<1>1. CASE Ask
  <2>1. UNCHANGED <<frames, saw, log>> /\ job' # "replay"
    BY <1>1, Asked DEF Ask
  <2> QED BY <1>1, <2>1, Asked DEF Inputs, Recorded
<1>2. CASE LiveFrame
  <2>1. PICK keys \in Masks : /\ saw' = Append(saw, Composed(frames, keys))
                              /\ log' = Append(log, Composed(frames, keys))
    BY <1>2 DEF LiveFrame, Logged
  <2>2. saw' \in Seq(Masks) /\ log' = saw'
    BY <2>1, ComposedIs DEF Inputs, Recorded
  <2>3. UNCHANGED <<movie, opt, job>> /\ job # "replay" /\ frames' = frames + 1
    BY <1>2 DEF LiveFrame, Frame
  <2> QED BY <2>2, <2>3 DEF Inputs, Recorded
<1>3. CASE HeadlessFrame \/ ReplayFrame
  BY <1>3 DEF HeadlessFrame, ReplayFrame, Frame, Inputs, Recorded
<1>4. CASE HeadlessEnd \/ Stop
  BY <1>4 DEF HeadlessEnd, Stop, Inputs, Recorded
<1>5. CASE Reopen
  <2>1. opt' = Plain /\ movie' = log /\ frames' = 0 /\ UNCHANGED <<saw, log>>
    BY <1>5 DEF Reopen
  <2>2. Plain.hold \in Masks /\ Plain.press \in Masks /\ Plain.offset \in Int
        /\ Plain.syncs \in Seq([ours : Nat, movie : Nat])
    BY DEF Plain, Masks, NoSyncs
  <2> QED BY <2>1, <2>2 DEF Inputs, Recorded
<1>6. CASE UNCHANGED sessionvars
  BY <1>6 DEF sessionvars, Inputs, Recorded
<1> QED BY <1>1, <1>2, <1>3, <1>4, <1>5, <1>6 DEF SessionNext

LEMMA InputsStart == SessionInit => Inputs /\ Recorded
BY DEF SessionInit, Inputs, Recorded, Plain, NoSyncs, Masks

(* A plain replay's frame is the recording's line. *)
LEMMA PlainReplay ==
    ASSUME Inputs, opt = Plain, NEW f \in 0..(Len(movie) - 1)
    PROVE  Composed(f, {}) = movie[f + 1]
<1>1. opt.syncs = <<>> /\ opt.offset = 0 /\ opt.hold = {} /\ opt.press = {}
  BY DEF Plain, NoSyncs
<1>2. DOMAIN opt.syncs = {}
  BY <1>1
<1>3. MovieFrame(f) = f
  BY <1>1, <1>2 DEF MovieFrame
<1>4. MovieMask(f) = movie[f + 1]
  BY <1>3 DEF MovieMask
<1> QED BY <1>1, <1>4 DEF Composed

LEMMA PlainLength ==
    ASSUME Inputs, opt = Plain PROVE Need = Len(movie)
<1>1. opt.syncs = <<>> /\ opt.offset = 0
  BY DEF Plain, NoSyncs
<1>2. Range(opt.syncs) = {}
  BY <1>1 DEF Range
<1>3. Max({0, 0}) = 0
  BY MaxIs
<1>4. Len(movie) \in Nat
  BY DEF Inputs
<1>5. {Len(movie) + Max({opt.offset, 0})} \cup {s.ours + (Len(movie) - s.movie) : s \in Range(opt.syncs)}
        = {Len(movie)}
  BY <1>1, <1>2, <1>3, <1>4
<1>6. Max({Len(movie)}) = Len(movie)
  <2> DEFINE n == Len(movie)
  <2>1. n \in Int
    BY <1>4
  <2> HIDE DEF n
  <2>2. Max({n}) = n
    BY <2>1, MaxIs
  <2> QED BY <2>2 DEF n
<1> QED BY <1>5, <1>6 DEF Need

(* ReplaysPlain: whatever sources and alignments a session was composed of, *)
(* for any number of frames and wherever it was killed, replaying its       *)
(* recording feeds the engine what it read then, frame for frame, and runs  *)
(* as long (record_frame, movie_open).                                      *)
THEOREM SessionsReplay == SessionSpec => []ReplaysPlain
<1>1. Inputs /\ Recorded => ReplaysPlain
  <2> SUFFICES ASSUME Inputs, Recorded, job = "replay"
               PROVE  Need = Len(saw) /\ \A f \in 0..(Len(saw) - 1) : Composed(f, {}) = saw[f + 1]
    BY DEF ReplaysPlain
  <2>1. opt = Plain /\ movie = saw
    BY DEF Recorded
  <2> QED BY <2>1, PlainReplay, PlainLength
<1> QED BY <1>1, InputsStart, InputsKept, PTL DEF SessionSpec
-----------------------------------------------------------------------------
(* The alignment in force when the run ends, and the frame after the one    *)
(* in which it plays the movie's last.                                      *)
InForce == IF opt.syncs = <<>> THEN [ours |-> opt.offset, movie |-> 0]
                               ELSE opt.syncs[Len(opt.syncs)]

Ends == InForce.ours + (Len(movie) - InForce.movie)

Aligned ==
    /\ InForce.ours \in Int /\ InForce.movie \in 0..(Len(movie) - 1) /\ Ends > 0
    /\ frames >= Ends => played = Len(movie)

PlayInv ==
    /\ job \in {"none", "live"} => frames = 0 \/ job = "live"
    /\ job \in {"headless", "end"} => Aligned
    /\ job = "end" => frames >= Need

(* From its first frame on, no earlier alignment has a say. *)
LEMMA LastWins ==
    ASSUME Inputs, NEW f \in Nat, f >= InForce.ours
    PROVE  MovieFrame(f) = InForce.movie + (f - InForce.ours)
<1> DEFINE due == {i \in DOMAIN opt.syncs : f >= opt.syncs[i].ours}
<1>1. opt.syncs \in Seq([ours : Nat, movie : Nat])
  BY DEF Inputs
<1>2. CASE opt.syncs = <<>>
  <2>1. due = {}
    BY <1>2
  <2> QED BY <1>2, <2>1 DEF MovieFrame, InForce
<1>3. CASE opt.syncs # <<>>
  <2> DEFINE n == Len(opt.syncs)
  <2>1. n \in Nat /\ n > 0 /\ DOMAIN opt.syncs = 1..n
    BY <1>1, <1>3
  <2>2. n \in due /\ due \in SUBSET Int /\ \A i \in due : n >= i
    BY <1>3, <2>1 DEF InForce
  <2>3. Max(due) = n
    <3> HIDE DEF due, n
    <3> QED BY <2>2, MaxIs
  <2> QED BY <1>3, <2>2, <2>3 DEF MovieFrame, InForce
<1> QED BY <1>2, <1>3

(* The length of a run reaches as far. *)
LEMMA NeedReaches ==
    ASSUME Inputs PROVE Need \in Int /\ Need >= Ends
<1> DEFINE n == Len(opt.syncs)
           first == Len(movie) + Max({opt.offset, 0})
           g == [i \in 1..n |-> opt.syncs[i].ours + (Len(movie) - opt.syncs[i].movie)]
           T == {first} \cup {s.ours + (Len(movie) - s.movie) : s \in Range(opt.syncs)}
<1>1. opt.syncs \in Seq([ours : Nat, movie : Nat]) /\ Len(movie) \in Nat /\ opt.offset \in Int
  BY DEF Inputs
<1>2. n \in Nat /\ g \in [1..n -> Int]
  <2>1. n \in Nat /\ \A i \in 1..n : opt.syncs[i] \in [ours : Nat, movie : Nat]
    <3> DEFINE ss == opt.syncs
               R  == [ours : Nat, movie : Nat]
    <3>1. ss \in Seq(R)
      BY <1>1
    <3> HIDE DEF ss, R
    <3>2. Len(ss) \in Nat /\ \A i \in 1..Len(ss) : ss[i] \in R
      BY <3>1
    <3> QED BY <3>2 DEF ss, R
  <2>2. \A i \in 1..n : opt.syncs[i].ours + (Len(movie) - opt.syncs[i].movie) \in Int
    BY <1>1, <2>1
  <2> QED BY <2>1, <2>2
<1>3. Max({opt.offset, 0}) \in Int /\ Max({opt.offset, 0}) >= opt.offset
  BY <1>1, MaxOrNone
<1>4. first \in Int /\ first >= Len(movie) + opt.offset
  BY <1>1, <1>3
<1>5. \A y \in T : y = first \/ \E i \in 1..n : y = g[i]
  <2>1. \A s \in Range(opt.syncs) : \E i \in 1..n : s = opt.syncs[i]
    <3> DEFINE ss == opt.syncs
    <3>1. DOMAIN ss = 1..Len(ss)
      BY <1>1
    <3> HIDE DEF ss
    <3>2. \A s \in Range(ss) : \E i \in 1..Len(ss) : s = ss[i]
      BY <3>1 DEF Range
    <3> QED BY <3>2 DEF ss
  <2>2. \A i \in 1..n : g[i] = opt.syncs[i].ours + (Len(movie) - opt.syncs[i].movie)
    OBVIOUS
  <2> HIDE DEF g, n
  <2> QED BY <2>1, <2>2
<1>6. PICK u \in Int : \A i \in 1..n : g[i] <= u
  <2> HIDE DEF g
  <2> QED BY <1>2, Bounded
<1>7. \A i \in 1..n : g[i] \in T
  BY <1>1 DEF Range
<1>8. first \in T
  OBVIOUS
<1>9. Need = Max(T)
  BY DEF Need
<1> HIDE DEF T, first, g
<1>10. T \in SUBSET Int
  BY <1>2, <1>4, <1>5
<1>11. \E b \in Int : \A y \in T : y <= b
  <2>1. CASE first <= u
    <3>1. \A y \in T : y <= u
      BY <1>5, <1>6, <2>1
    <3> QED BY <3>1
  <2>2. CASE ~(first <= u)
    <3>1. \A y \in T : y <= first
      BY <1>2, <1>4, <1>5, <1>6, <2>2
    <3> QED BY <1>4, <3>1
  <2> QED BY <2>1, <2>2
<1>12. Max(T) \in T /\ \A y \in T : y <= Max(T)
  BY <1>8, <1>10, <1>11, MaxExists
<1>13. Ends \in T \/ (Ends \in Int /\ Ends <= first)
  <2>1. CASE opt.syncs = <<>>
    <3>1. Ends = opt.offset + (Len(movie) - 0)
      BY <2>1 DEF Ends, InForce
    <3> QED BY <1>1, <1>4, <3>1
  <2>2. CASE opt.syncs # <<>>
    <3>1. n \in 1..n
      BY <1>1, <2>2
    <3>2. Ends = g[n]
      BY <2>2, <3>1 DEF Ends, InForce, g
    <3> QED BY <1>7, <3>1, <3>2
  <2> QED BY <2>1, <2>2
<1>14. Max(T) \in Int /\ first <= Max(T)
  BY <1>8, <1>10, <1>12
<1>15. Max(T) >= Ends
  <2>1. CASE Ends \in T
    <3>1. Ends \in Int /\ Ends <= Max(T)
      BY <1>10, <1>12, <2>1
    <3> QED BY <1>14, <3>1
  <2>2. CASE Ends \in Int /\ Ends <= first
    BY <1>4, <1>14, <2>2
  <2> QED BY <1>13, <2>1, <2>2
<1> QED BY <1>9, <1>14, <1>15

LEMMA FramePlays ==
    ASSUME Inputs, Inputs', Aligned, Frame({}) PROVE Aligned'
<1> DEFINE mf == MovieFrame(frames)
<1>1. movie' = movie /\ opt' = opt /\ frames' = frames + 1
      /\ played' = IF mf \in 0..(Len(movie) - 1) THEN mf + 1 ELSE played
  BY DEF Frame
<1>2. InForce' = InForce /\ Ends' = Ends
  BY <1>1 DEF InForce, Ends
<1>3. frames \in Nat /\ Len(movie) \in Nat /\ InForce.ours \in Int
      /\ InForce.movie \in 0..(Len(movie) - 1) /\ Ends > 0
      /\ Ends = InForce.ours + (Len(movie) - InForce.movie)
      /\ (frames >= Ends => played = Len(movie))
  BY DEF Inputs, Aligned, Ends
<1>4. frames + 1 >= Ends => frames >= InForce.ours /\ mf = InForce.movie + (frames - InForce.ours)
  BY <1>3, LastWins
<1> HIDE DEF mf
<1>5. frames + 1 >= Ends => played' = Len(movie)
  <2>1. CASE frames >= Ends
    <3>1. mf \in Int /\ mf >= Len(movie)
      BY <1>3, <1>4, <2>1
    <3> QED BY <1>1, <1>3, <2>1, <3>1
  <2>2. CASE frames + 1 = Ends
    <3>1. mf = Len(movie) - 1 /\ mf \in 0..(Len(movie) - 1)
      BY <1>3, <1>4, <2>2
    <3> QED BY <1>1, <1>3, <3>1
  <2> QED BY <1>3, <2>1, <2>2
<1> QED BY <1>1, <1>2, <1>3, <1>5 DEF Aligned

LEMMA AskAligns ==
    ASSUME Inputs, Inputs', Ask, frames = 0, job' = "headless" PROVE Aligned'
<1>1. /\ opt'.offset \in Int /\ opt'.syncs \in Seq([ours : Nat, movie : Nat])
      /\ movie' \in Seq(Masks) /\ Len(movie') > 0
      /\ \A i \in 1..Len(opt'.syncs) : opt'.syncs[i].movie < Len(movie')
      /\ -opt'.offset < Len(movie') \/ opt'.offset = 0
      /\ frames' = 0
  BY Asked DEF Ask
<1> DEFINE l == Len(movie')
           o == opt'.offset
           ss == opt'.syncs
<1>2. l \in Nat /\ l > 0 /\ o \in Int /\ (-o < l \/ o = 0)
  BY <1>1
<1>3. InForce' = (IF ss = <<>> THEN [ours |-> o, movie |-> 0] ELSE ss[Len(ss)])
      /\ Ends' = InForce'.ours + (l - InForce'.movie)
  BY DEF InForce, Ends
<1>4. ss \in Seq([ours : Nat, movie : Nat]) /\ \A i \in 1..Len(ss) : ss[i].movie < l
  BY <1>1
<1> HIDE DEF l, o, ss
<1>5. InForce'.ours \in Int /\ InForce'.movie \in 0..(l - 1) /\ Ends' > 0
  <2>1. CASE ss = <<>>
    <3>1. InForce'.ours = o /\ InForce'.movie = 0
      BY <1>3, <2>1
    <3> QED BY <1>2, <1>3, <3>1
  <2>2. CASE ss # <<>>
    <3>1. Len(ss) \in 1..Len(ss)
      BY <1>4, <2>2
    <3>2. InForce' = ss[Len(ss)]
      BY <1>3, <2>2
    <3>3. ss[Len(ss)] \in [ours : Nat, movie : Nat] /\ ss[Len(ss)].movie < l
      <4> DEFINE k == Len(ss)
                 R == [ours : Nat, movie : Nat]
      <4>1. ss \in Seq(R) /\ k \in 1..Len(ss)
        BY <1>4, <3>1
      <4>2. ss[k].movie < l
        BY <1>4, <3>1
      <4> HIDE DEF k, R
      <4>3. ss[k] \in R
        BY <4>1
      <4> QED BY <4>2, <4>3 DEF k, R
    <3>4. InForce'.ours \in Nat /\ InForce'.movie \in Nat /\ InForce'.movie < l
      BY <3>2, <3>3
    <3> QED BY <1>2, <1>3, <3>4
  <2> QED BY <2>1, <2>2
<1>6. ~(frames' >= Ends')
  <2>1. Ends' \in Int
    BY <1>2, <1>3, <1>5
  <2> QED BY <1>1, <1>5, <2>1
<1> QED BY <1>5, <1>6 DEF Aligned, l

LEMMA PlayKept ==
    ASSUME Inputs, Recorded, PlayInv, [SessionNext]_sessionvars PROVE PlayInv'
<1>1. Inputs'
  BY InputsKept
<1>2. CASE Ask
  <2>1. job' \in {"live", "headless"} /\ frames = 0 /\ frames' = 0
    BY <1>2, Asked DEF Ask, PlayInv
  <2> QED BY <1>1, <1>2, <2>1, AskAligns DEF PlayInv
<1>3. CASE LiveFrame
  BY <1>3 DEF LiveFrame, PlayInv
<1>4. CASE HeadlessFrame
  BY <1>1, <1>4, FramePlays DEF HeadlessFrame, PlayInv
<1>5. CASE HeadlessEnd
  <2>1. UNCHANGED <<opt, movie, played, frames>> /\ job = "headless" /\ job' = "end" /\ frames >= Need
    BY <1>5 DEF HeadlessEnd
  <2>2. Aligned' /\ Need' = Need
    BY <2>1 DEF PlayInv, Aligned, InForce, Ends, Need
  <2> QED BY <2>1, <2>2 DEF PlayInv
<1>6. CASE Stop \/ Reopen \/ ReplayFrame
  BY <1>6 DEF Stop, Reopen, ReplayFrame, PlayInv
<1>7. CASE UNCHANGED sessionvars
  <2>1. Aligned' = Aligned /\ Need' = Need
    BY <1>7 DEF sessionvars, Aligned, InForce, Ends, Need
  <2> QED BY <1>7, <2>1 DEF PlayInv, sessionvars
<1> QED BY <1>2, <1>3, <1>4, <1>5, <1>6, <1>7 DEF SessionNext

(* PlaysOut: a run of --frames movie lasts until the movie's last frame has *)
(* played, for any movie, any delay or advance that leaves some of it, and  *)
(* any re-syncs to frames it has, in any order and up to any SMaxSyncs, the *)
(* eight of MOVIE_SYNCS with it (headless_frames, movie_frame_for).         *)
THEOREM MoviesPlayOut == SessionSpec => []PlaysOut
<1>1. SessionInit => PlayInv
  BY DEF SessionInit, PlayInv
<1>2. Inputs /\ PlayInv => PlaysOut
  <2> SUFFICES ASSUME Inputs, PlayInv, job = "end" PROVE played = Len(movie)
    BY DEF PlaysOut
  <2>1. frames >= Need /\ Aligned /\ Need >= Ends /\ Need \in Int
    BY NeedReaches DEF PlayInv
  <2>2. frames \in Nat /\ Ends \in Int
    <3>1. frames \in Nat /\ Len(movie) \in Nat
      BY DEF Inputs
    <3>2. InForce.ours \in Int /\ InForce.movie \in Int
      BY <2>1, <3>1 DEF Aligned
    <3> QED BY <3>1, <3>2 DEF Ends
  <2>3. frames >= Ends
    BY <2>1, <2>2
  <2> QED BY <2>1, <2>3 DEF Aligned
<1> QED BY <1>1, <1>2, InputsStart, InputsKept, PlayKept, PTL DEF SessionSpec

-----------------------------------------------------------------------------
(***************************************************************************)
(* The Z80 under its bus request, its reset line and its interrupt line,   *)
(* proved for any slices and any number of vertical interrupts: it never   *)
(* executes a program that is half there, and its handler never enters     *)
(* itself.                                                                 *)
(*                                                                         *)
(* The argument is by the 68000's place: what RAM holds there, which of    *)
(* the two lines keeps the Z80 from running while it holds anything but a  *)
(* whole program, and which program the core was last reset into.          *)
(***************************************************************************)

Whole(v) == [h \in Half |-> v]

(* What the last reset found in RAM, by the 68000's place. *)
BornAt(p) == IF p <= 7 THEN 0 ELSE IF p <= 13 THEN 1 ELSE 2

Switches == busreq \in BOOLEAN /\ reset_held \in BOOLEAN

Buses ==
    /\ pc68 \in 1..15 /\ fuel \in Nat
    /\ pc68 \in {1, 2, 3, 4, 5, 9, 10, 11} => busreq
    /\ pc68 \in {1, 2, 6, 7, 12, 13} => reset_held
    /\ fuel > 0 => ~busreq /\ ~reset_held

Loaded ==
    /\ ram \in [Half -> 0..2]
    /\ pc68 \in 1..3 => ram = Whole(0)
    /\ pc68 = 4 => ram[1] = 1
    /\ pc68 \in 5..9 => ram = Whole(1)
    /\ pc68 = 10 => ram[1] = 2
    /\ pc68 \in 11..15 => ram = Whole(2)
    /\ born = Whole(BornAt(pc68))

(* The core, by the program it was reset into. *)
CoreType ==
    /\ cpu \in [pc : 1..13, iff1 : BOOLEAN, ei_hold : BOOLEAN, irq : BOOLEAN]
    /\ stack \in Seq(1..5)

Quiet == ~cpu.iff1 /\ ~cpu.ei_hold /\ stack = <<>>

InStub == Quiet /\ cpu.pc \in 1..3

InDriver ==
    \/ cpu.pc \in 1..5 /\ stack = <<>>
    \/ cpu.pc \in 11..12 /\ Len(stack) = 1 /\ ~cpu.iff1
    \/ cpu.pc = 13 /\ Len(stack) = 1 /\ cpu.ei_hold

Core ==
    /\ pc68 \in 1..7 => Quiet /\ cpu.pc = 1
    /\ pc68 \in 8..13 => InStub
    /\ pc68 \in 14..15 => InDriver

Z80Inv == Switches /\ Buses /\ Loaded /\ CoreType /\ Core

-----------------------------------------------------------------------------
(* The 68000's writes, place by place. *)
LEMMA UploadPlaces ==
    /\ Len(Uploads) = 15
    /\ \A p \in 1..15 :
         /\ Uploads[p].op = "request" <=> p \in {1, 8, 14}
         /\ Uploads[p].op = "release" <=> p \in {2, 7, 13}
         /\ Uploads[p].op = "copy" <=> p \in {3, 4, 9, 10}
         /\ Uploads[p].op = "hold" <=> p \in {5, 11}
         /\ Uploads[p].op = "drop" <=> p \in {6, 12, 15}
    /\ Uploads[3].half = 1 /\ Uploads[4].half = 2 /\ Uploads[9].half = 1 /\ Uploads[10].half = 2
    /\ Uploads[3].v = 1 /\ Uploads[4].v = 1 /\ Uploads[9].v = 2 /\ Uploads[10].v = 2
  BY DEF Uploads, Write, CopyOf

LEMMA AdvanceBy ==
    ASSUME NEW op, Doing(op), pc68 \in 1..15
    PROVE  /\ fuel = 0 /\ Uploads[pc68].op = op
           /\ pc68' = IF pc68 = 15 THEN 14 ELSE pc68 + 1
  BY UploadPlaces DEF Doing, Advance

(* The Z80 runs only where RAM holds the program it was reset into. *)
LEMMA RunsWhole ==
    ASSUME Buses, Loaded, ~busreq, ~reset_held
    PROVE  /\ pc68 \in {8, 14, 15}
           /\ ram = born /\ ram[1] = ram[2]
           /\ pc68 = 8 => ram[1] = 1
           /\ pc68 # 8 => ram[1] = 2
<1>1. pc68 \in {8, 14, 15}
  BY DEF Buses
<1>2. CASE pc68 = 8
  BY <1>2 DEF Loaded, BornAt, Whole, Half
<1>3. CASE pc68 \in {14, 15}
  BY <1>3 DEF Loaded, BornAt, Whole, Half
<1> QED BY <1>1, <1>2, <1>3

(* The line itself leaves all but the line alone. *)
LEMMA CpuIrq ==
    ASSUME CoreType, NEW up \in BOOLEAN, cpu' = [cpu EXCEPT !.irq = up], UNCHANGED stack
    PROVE  /\ CoreType' /\ cpu'.pc = cpu.pc
           /\ cpu'.iff1 = cpu.iff1 /\ cpu'.ei_hold = cpu.ei_hold
  BY DEF CoreType

-----------------------------------------------------------------------------
(* Request, drop and hold move one of the two lines. *)
LEMMA LineWrites == Z80Inv /\ (Request \/ Drop \/ HoldReset) => Z80Inv'
<1> SUFFICES ASSUME Z80Inv, Request \/ Drop \/ HoldReset PROVE Z80Inv'
  OBVIOUS
<1> USE DEF Z80Inv
<1>1. /\ UNCHANGED <<ram, cpu, stack, fuel, born>>
      /\ fuel = 0 /\ pc68 \in 1..15
      /\ \/ pc68 \in {1, 8, 14} /\ pc68' = pc68 + 1 /\ busreq' = TRUE /\ reset_held' = reset_held
         \/ pc68 \in {6, 12} /\ pc68' = pc68 + 1 /\ busreq' = FALSE /\ reset_held' = reset_held
         \/ pc68 = 15 /\ pc68' = 14 /\ busreq' = FALSE /\ reset_held' = reset_held
         \/ pc68 \in {5, 11} /\ pc68' = pc68 + 1 /\ busreq' = busreq /\ reset_held' = TRUE
  <2>1. pc68 \in 1..15
    BY DEF Buses
  <2>2. CASE Request
    <3>1. Doing("request") /\ busreq' = TRUE
          /\ UNCHANGED <<reset_held, ram, cpu, stack, fuel, born>>
      BY <2>2 DEF Request
    <3>2. pc68 \in {1, 8, 14} /\ pc68' = pc68 + 1 /\ fuel = 0
      BY <2>1, <3>1, AdvanceBy, UploadPlaces
    <3> QED BY <2>1, <3>1, <3>2
  <2>3. CASE Drop
    <3>1. Doing("drop") /\ busreq' = FALSE
          /\ UNCHANGED <<reset_held, ram, cpu, stack, fuel, born>>
      BY <2>3 DEF Drop
    <3>2. /\ fuel = 0
          /\ \/ pc68 \in {6, 12} /\ pc68' = pc68 + 1
             \/ pc68 = 15 /\ pc68' = 14
      BY <2>1, <3>1, AdvanceBy, UploadPlaces
    <3> QED BY <2>1, <3>1, <3>2
  <2>4. CASE HoldReset
    <3>1. Doing("hold") /\ reset_held' = TRUE
          /\ UNCHANGED <<busreq, ram, cpu, stack, fuel, born>>
      BY <2>4 DEF HoldReset
    <3>2. pc68 \in {5, 11} /\ pc68' = pc68 + 1 /\ fuel = 0
      BY <2>1, <3>1, AdvanceBy, UploadPlaces
    <3> QED BY <2>1, <3>1, <3>2
  <2> QED BY <2>2, <2>3, <2>4
<1>2. Switches'
  BY <1>1 DEF Switches
<1>7. Buses'
  <2>1. CASE pc68 \in {1, 8, 14} /\ pc68' = pc68 + 1 /\ busreq' = TRUE /\ reset_held' = reset_held
    BY <1>1, <2>1 DEF Buses
  <2>2. CASE pc68 \in {6, 12} /\ pc68' = pc68 + 1 /\ busreq' = FALSE /\ reset_held' = reset_held
    <3>1. pc68' \in {7, 13} /\ reset_held
      BY <2>2 DEF Buses
    <3>2. fuel' = 0
      BY <1>1
    <3> QED BY <2>2, <3>1, <3>2 DEF Buses
  <2>3. CASE pc68 = 15 /\ pc68' = 14 /\ busreq' = FALSE /\ reset_held' = reset_held
    <3>1. fuel' = 0
      BY <1>1
    <3> QED BY <2>3, <3>1 DEF Buses
  <2>4. CASE pc68 \in {5, 11} /\ pc68' = pc68 + 1 /\ busreq' = busreq /\ reset_held' = TRUE
    BY <1>1, <2>4 DEF Buses
  <2> QED BY <1>1, <2>1, <2>2, <2>3, <2>4
<1>3. ram' = ram /\ born' = born /\ BornAt(pc68') = BornAt(pc68)
  BY <1>1 DEF BornAt
<1>4. Loaded'
  BY <1>1, <1>3 DEF Loaded
<1>5. CoreType' /\ Core'
  BY <1>1 DEF CoreType, Core, Quiet, InStub, InDriver
<1> QED BY <1>2, <1>4, <1>5, <1>7

LEMMA CopyKeeps == Z80Inv /\ Copy => Z80Inv'
<1> SUFFICES ASSUME Z80Inv, Copy PROVE Z80Inv'
  OBVIOUS
<1> USE DEF Z80Inv
<1>1. /\ UNCHANGED <<busreq, reset_held, cpu, stack, fuel, born>>
      /\ fuel = 0 /\ pc68 \in {3, 4, 9, 10} /\ pc68' = pc68 + 1
      /\ ram' = [ram EXCEPT ![Uploads[pc68].half] = Uploads[pc68].v]
  BY AdvanceBy, UploadPlaces DEF Copy, Buses
<1>2. Buses' /\ Switches'
  BY <1>1 DEF Buses, Switches
<1>3. CASE pc68 = 3
  <2>1. ram' = [ram EXCEPT ![1] = 1]
    BY <1>1, <1>3, UploadPlaces
  <2> QED BY <1>1, <1>2, <1>3, <2>1
          DEF Loaded, BornAt, Whole, Half, CoreType, Core, Quiet, InStub, InDriver
<1>4. CASE pc68 = 4
  <2>1. ram' = [ram EXCEPT ![2] = 1]
    BY <1>1, <1>4, UploadPlaces
  <2>2. ram \in [Half -> 0..2] /\ ram[1] = 1
    BY <1>4 DEF Loaded
  <2>3. ram' \in [Half -> 0..2] /\ \A h \in Half : ram'[h] = 1
    BY <2>1, <2>2 DEF Half
  <2>4. ram' = Whole(1)
    BY <2>3 DEF Whole
  <2>5. pc68' = 5 /\ born' = Whole(BornAt(pc68'))
    BY <1>1, <1>4 DEF Loaded, BornAt
  <2>6. Loaded'
    BY <2>3, <2>4, <2>5 DEF Loaded
  <2> QED BY <1>1, <1>2, <1>4, <2>6 DEF CoreType, Core, Quiet, InStub, InDriver
<1>5. CASE pc68 = 9
  <2>1. ram' = [ram EXCEPT ![1] = 2]
    BY <1>1, <1>5, UploadPlaces
  <2> QED BY <1>1, <1>2, <1>5, <2>1
          DEF Loaded, BornAt, Whole, Half, CoreType, Core, Quiet, InStub, InDriver
<1>6. CASE pc68 = 10
  <2>1. ram' = [ram EXCEPT ![2] = 2]
    BY <1>1, <1>6, UploadPlaces
  <2>2. ram \in [Half -> 0..2] /\ ram[1] = 2
    BY <1>6 DEF Loaded
  <2>3. ram' \in [Half -> 0..2] /\ \A h \in Half : ram'[h] = 2
    BY <2>1, <2>2 DEF Half
  <2>4. ram' = Whole(2)
    BY <2>3 DEF Whole
  <2>5. pc68' = 11 /\ born' = Whole(BornAt(pc68'))
    BY <1>1, <1>6 DEF Loaded, BornAt
  <2>6. Loaded'
    BY <2>3, <2>4, <2>5 DEF Loaded
  <2> QED BY <1>1, <1>2, <1>6, <2>6 DEF CoreType, Core, Quiet, InStub, InDriver
<1> QED BY <1>1, <1>3, <1>4, <1>5, <1>6

(* Letting go of reset: the core starts on what RAM holds. *)
LEMMA ReleaseKeeps == Z80Inv /\ ReleaseReset => Z80Inv'
<1> SUFFICES ASSUME Z80Inv, ReleaseReset PROVE Z80Inv'
  OBVIOUS
<1> USE DEF Z80Inv
<1>1. /\ UNCHANGED <<busreq, ram, fuel>> /\ reset_held' = FALSE
      /\ fuel = 0 /\ pc68 \in {2, 7, 13} /\ pc68' = pc68 + 1
      /\ cpu' = Reset /\ stack' = <<>> /\ born' = ram
  BY AdvanceBy, UploadPlaces DEF ReleaseReset, Buses
<1>2. Switches'
  BY <1>1 DEF Switches
<1>7. Buses'
  <2>1. pc68' \in {3, 8, 14} /\ fuel' = 0 /\ (pc68' = 3 => busreq')
    BY <1>1 DEF Buses
  <2> QED BY <2>1 DEF Buses
<1>3. Loaded'
  BY <1>1 DEF Loaded, BornAt, Whole
<1>4. CoreType'
  BY <1>1 DEF CoreType, Reset
<1>5. Quiet' /\ cpu'.pc = 1
  BY <1>1 DEF Quiet, Reset
<1>6. Core'
  BY <1>1, <1>5 DEF Core, InStub, InDriver, Quiet
<1> QED BY <1>2, <1>3, <1>4, <1>6, <1>7

LEMMA LineKeeps == Z80Inv /\ (LineUp \/ LineOver) => Z80Inv'
<1> SUFFICES ASSUME Z80Inv, LineUp \/ LineOver PROVE Z80Inv'
  OBVIOUS
<1> USE DEF Z80Inv
<1>1. PICK up \in BOOLEAN : cpu' = [cpu EXCEPT !.irq = up]
  BY DEF LineUp, LineOver
<1>2. UNCHANGED <<busreq, reset_held, ram, pc68, stack, fuel, born>>
  BY DEF LineUp, LineOver
<1>3. /\ CoreType' /\ cpu'.pc = cpu.pc
      /\ cpu'.iff1 = cpu.iff1 /\ cpu'.ei_hold = cpu.ei_hold
  BY <1>1, <1>2, CpuIrq
<1>4. Switches' /\ Buses' /\ Loaded'
  BY <1>2 DEF Switches, Buses, Loaded
<1>5. Core'
  BY <1>2, <1>3 DEF Core, Quiet, InStub, InDriver
<1> QED BY <1>3, <1>4, <1>5

-----------------------------------------------------------------------------
(* The Z80's turn. *)
LEMMA SliceKeeps == Z80Inv /\ Slice => Z80Inv'
<1> SUFFICES ASSUME Z80Inv, Slice PROVE Z80Inv'
  OBVIOUS
<1> USE DEF Z80Inv
<1>1. /\ ~busreq /\ ~reset_held /\ fuel' \in 1..ZSlice
      /\ UNCHANGED <<busreq, reset_held, ram, pc68, stack, born>>
  BY DEF Slice, Runnable
<1>2. cpu' = cpu
  BY DEF Slice, HoldOver, CoreType
<1>3. Switches' /\ Buses'
  <2>1. fuel' \in Nat
    BY <1>1, Z80Assumption
  <2> QED BY <1>1, <2>1 DEF Switches, Buses
<1>4. Loaded' /\ CoreType' /\ Core'
  BY <1>1, <1>2 DEF Loaded, CoreType, Core, Quiet, InStub, InDriver
<1> QED BY <1>3, <1>4

(* Nothing but the core and the fuel moves while it runs. *)
LEMMA RunFrame ==
    ASSUME Switches, Buses, Loaded, fuel > 0, fuel' = fuel - 1,
           UNCHANGED <<busreq, reset_held, ram, pc68, born>>
    PROVE  /\ Switches' /\ Buses' /\ Loaded'
           /\ pc68 \in {8, 14, 15} /\ pc68' = pc68
           /\ pc68 = 8 => ram[1] = 1
           /\ pc68 # 8 => ram[1] = 2
<1>1. ~busreq /\ ~reset_held
  BY DEF Buses
<1>2. fuel' \in Nat
  BY DEF Buses
<1>3. Switches' /\ Buses' /\ Loaded'
  BY <1>1, <1>2 DEF Switches, Buses, Loaded
<1> QED BY <1>1, <1>3, RunsWhole

(* An interrupt finds the main loop: in the handler it is off, or held off. *)
LEMMA TakeIrqKeeps == Z80Inv /\ TakeIrq => Z80Inv'
<1> SUFFICES ASSUME Z80Inv, TakeIrq PROVE Z80Inv'
  OBVIOUS
<1> USE DEF Z80Inv
<1>1. /\ fuel > 0 /\ cpu.iff1 /\ ~cpu.ei_hold
      /\ fuel' = fuel - 1 /\ UNCHANGED <<busreq, reset_held, ram, pc68, born>>
      /\ stack' = Append(stack, cpu.pc)
      /\ cpu' = [cpu EXCEPT !.pc = 11, !.iff1 = FALSE, !.ei_hold = FALSE]
  BY DEF TakeIrq, Accepts, Vector
<1>2. Switches' /\ Buses' /\ Loaded' /\ pc68 \in {8, 14, 15} /\ pc68' = pc68
  BY <1>1, RunFrame
<1>3. pc68 \in 14..15 /\ cpu.pc \in 1..5 /\ stack = <<>>
  BY <1>1, <1>2 DEF Core, InStub, InDriver, Quiet
<1>6. stack' = <<cpu.pc>>
  BY <1>1, <1>3
<1>7. stack' \in Seq(1..5) /\ Len(stack') = 1
  BY <1>3, <1>6
<1>8. cpu' \in [pc : 1..13, iff1 : BOOLEAN, ei_hold : BOOLEAN, irq : BOOLEAN]
      /\ cpu'.pc = 11 /\ ~cpu'.iff1
  <2>1. cpu \in [pc : 1..13, iff1 : BOOLEAN, ei_hold : BOOLEAN, irq : BOOLEAN]
    BY DEF CoreType
  <2>2. cpu' = [pc |-> 11, iff1 |-> FALSE, ei_hold |-> FALSE, irq |-> cpu.irq]
    BY <1>1, <2>1
  <2>3. 11 \in 1..13
    OBVIOUS
  <2> QED BY <2>1, <2>2, <2>3
<1>4. CoreType' /\ Len(stack') = 1 /\ cpu'.pc = 11 /\ ~cpu'.iff1
  BY <1>7, <1>8 DEF CoreType
<1>5. Core'
  BY <1>2, <1>3, <1>4 DEF Core, InDriver
<1> QED BY <1>2, <1>4, <1>5

(* What one instruction does, by its kind. *)
Does(op) ==
    /\ cpu' = [cpu EXCEPT
          !.pc = CASE op = "ret"  -> stack[Len(stack)]
                   [] op = "jump" -> cpu.pc - 1
                   [] op = "empty" -> cpu.pc
                   [] OTHER       -> cpu.pc + 1,
          !.iff1 = IF op = "di" THEN FALSE ELSE IF op = "ei" THEN TRUE ELSE @,
          !.ei_hold = (op = "ei")]
    /\ stack' = IF op = "ret" THEN SubSeq(stack, 1, Len(stack) - 1) ELSE stack

LEMMA DoesForward ==
    ASSUME CoreType, NEW op \in {"di", "ei", "work"}, Does(op), cpu.pc + 1 \in 1..13
    PROVE  /\ CoreType' /\ cpu'.pc = cpu.pc + 1 /\ stack' = stack
           /\ op = "di" => ~cpu'.iff1
           /\ op = "work" => (cpu'.iff1 <=> cpu.iff1)
           /\ cpu'.ei_hold <=> op = "ei"
  BY DEF Does, CoreType

LEMMA DoesJump ==
    ASSUME CoreType, Does("jump"), cpu.pc - 1 \in 1..13
    PROVE  /\ CoreType' /\ cpu'.pc = cpu.pc - 1 /\ stack' = stack
           /\ (cpu'.iff1 <=> cpu.iff1) /\ ~cpu'.ei_hold
  BY DEF Does, CoreType

LEMMA DoesRet ==
    ASSUME CoreType, Does("ret"), Len(stack) = 1
    PROVE  CoreType' /\ cpu'.pc \in 1..5 /\ stack' = <<>>
<1>1. stack \in Seq(1..5) /\ cpu \in [pc : 1..13, iff1 : BOOLEAN, ei_hold : BOOLEAN, irq : BOOLEAN]
  BY DEF CoreType
<1>2. stack[1] \in 1..5
  <2>1. 1 \in 1..Len(stack)
    OBVIOUS
  <2> QED BY <1>1, <2>1, ElementOfSeq
<1>3. stack' = SubSeq(stack, 1, 0)
  BY DEF Does
<1>4. stack' = <<>>
  BY <1>1, <1>3
<1>5. cpu' = [cpu EXCEPT !.pc = stack[1], !.iff1 = cpu.iff1, !.ei_hold = FALSE]
  BY DEF Does
<1>6. cpu' \in [pc : 1..13, iff1 : BOOLEAN, ei_hold : BOOLEAN, irq : BOOLEAN]
      /\ cpu'.pc = stack[1]
  <2>1. stack[1] \in 1..13
    BY <1>2
  <2>2. cpu' = [pc |-> stack[1], iff1 |-> cpu.iff1, ei_hold |-> FALSE, irq |-> cpu.irq]
    BY <1>1, <1>5
  <2> QED BY <1>1, <2>1, <2>2
<1> QED BY <1>2, <1>4, <1>6 DEF CoreType

(* The stub's three places: off, a turn of its loop, back. *)
LEMMA StubSteps ==
    ASSUME CoreType, InStub, ram[1] = 1, Does(Fetch(cpu.pc))
    PROVE  CoreType' /\ InStub'
<1>1. cpu.pc \in {1, 2, 3} /\ ~cpu.iff1 /\ ~cpu.ei_hold /\ stack = <<>>
  BY DEF InStub, Quiet
<1>2. CASE cpu.pc = 1
  <2>1. Does("di")
    BY <1>2 DEF Fetch, Vector, Stub
  <2>2. CoreType' /\ cpu'.pc = 2 /\ stack' = stack /\ ~cpu'.iff1 /\ ~cpu'.ei_hold
    BY <1>2, <2>1, DoesForward
  <2> QED BY <1>1, <2>2 DEF InStub, Quiet
<1>3. CASE cpu.pc = 2
  <2>1. Does("work")
    BY <1>3 DEF Fetch, Vector, Stub
  <2>2. /\ CoreType' /\ cpu'.pc = 3 /\ stack' = stack
        /\ (cpu'.iff1 <=> cpu.iff1) /\ ~cpu'.ei_hold
    BY <1>3, <2>1, DoesForward
  <2> QED BY <1>1, <2>2 DEF InStub, Quiet
<1>4. CASE cpu.pc = 3
  <2>1. Does("jump")
    BY <1>4 DEF Fetch, Vector, Stub
  <2>2. /\ CoreType' /\ cpu'.pc = 2 /\ stack' = stack
        /\ (cpu'.iff1 <=> cpu.iff1) /\ ~cpu'.ei_hold
    BY <1>4, <2>1, DoesJump
  <2> QED BY <1>1, <2>2 DEF InStub, Quiet
<1> QED BY <1>1, <1>2, <1>3, <1>4

(* The driver's main loop, and its handler up to the return. *)
LEMMA DriverSteps ==
    ASSUME CoreType, InDriver, ram[1] = 2, Does(Fetch(cpu.pc)), ~Accepts
    PROVE  CoreType' /\ InDriver'
<1>1. cpu.pc \in {1, 2, 3, 4, 5, 11, 12, 13}
  BY DEF InDriver
<1>2. CASE cpu.pc \in {1, 2, 3, 4}
  <2>1. \E op \in {"di", "ei", "work"} : Does(op)
    <3>1. CASE cpu.pc = 1
      <4>1. Does("di")
        BY <3>1 DEF Fetch, Vector, Driver
      <4> QED BY <4>1
    <3>2. CASE cpu.pc \in {2, 4}
      <4>1. Does("work")
        BY <3>2 DEF Fetch, Vector, Driver
      <4> QED BY <4>1
    <3>3. CASE cpu.pc = 3
      <4>1. Does("ei")
        BY <3>3 DEF Fetch, Vector, Driver
      <4> QED BY <4>1
    <3> QED BY <1>2, <3>1, <3>2, <3>3
  <2>2. CoreType' /\ cpu'.pc = cpu.pc + 1 /\ stack' = stack
    <3>1. cpu.pc + 1 \in 1..13
      BY <1>2
    <3>2. PICK op \in {"di", "ei", "work"} : Does(op)
      BY <2>1
    <3> QED BY <3>1, <3>2, DoesForward
  <2>3. stack = <<>>
    BY <1>2 DEF InDriver
  <2> QED BY <1>2, <2>2, <2>3 DEF InDriver
<1>3. CASE cpu.pc = 5
  <2>1. Does("jump")
    BY <1>3 DEF Fetch, Vector, Driver
  <2>2. CoreType' /\ cpu'.pc = 4 /\ stack' = stack
    BY <1>3, <2>1, DoesJump
  <2>3. stack = <<>>
    BY <1>3 DEF InDriver
  <2> QED BY <2>2, <2>3 DEF InDriver
<1>4. CASE cpu.pc = 11
  <2>1. Does("work")
    BY <1>4 DEF Fetch, Vector, Handler
  <2>2. CoreType' /\ cpu'.pc = 12 /\ stack' = stack /\ (cpu'.iff1 <=> cpu.iff1)
    BY <1>4, <2>1, DoesForward
  <2>3. Len(stack) = 1 /\ ~cpu.iff1
    BY <1>4 DEF InDriver
  <2> QED BY <2>2, <2>3 DEF InDriver
<1>5. CASE cpu.pc = 12
  <2>1. Does("ei")
    BY <1>5 DEF Fetch, Vector, Handler
  <2>2. CoreType' /\ cpu'.pc = 13 /\ stack' = stack /\ cpu'.ei_hold
    BY <1>5, <2>1, DoesForward
  <2>3. Len(stack) = 1
    BY <1>5 DEF InDriver
  <2> QED BY <2>2, <2>3 DEF InDriver
<1>6. CASE cpu.pc = 13
  <2>1. Does("ret")
    BY <1>6 DEF Fetch, Vector, Handler
  <2>2. Len(stack) = 1
    BY <1>6 DEF InDriver
  <2>3. CoreType' /\ cpu'.pc \in 1..5 /\ stack' = <<>>
    BY <2>1, <2>2, DoesRet
  <2> QED BY <2>3 DEF InDriver
<1> QED BY <1>1, <1>2, <1>3, <1>4, <1>5, <1>6

LEMMA ExecuteKeeps == Z80Inv /\ Execute => Z80Inv'
<1> SUFFICES ASSUME Z80Inv, Execute PROVE Z80Inv'
  OBVIOUS
<1> USE DEF Z80Inv
<1>1. /\ fuel > 0 /\ ~Accepts
      /\ fuel' = fuel - 1 /\ UNCHANGED <<busreq, reset_held, ram, pc68, born>>
  BY DEF Execute
<1>2. Does(Fetch(cpu.pc))
  BY DEF Execute, Does
<1>3. /\ Switches' /\ Buses' /\ Loaded'
      /\ pc68 \in {8, 14, 15} /\ pc68' = pc68
      /\ pc68 = 8 => ram[1] = 1
      /\ pc68 # 8 => ram[1] = 2
  BY <1>1, RunFrame
<1>4. CASE pc68 = 8
  <2>1. CoreType' /\ InStub'
    BY <1>2, <1>3, <1>4, StubSteps DEF Core
  <2> QED BY <1>3, <1>4, <2>1 DEF Core
<1>5. CASE pc68 \in {14, 15}
  <2>1. CoreType' /\ InDriver'
    BY <1>1, <1>2, <1>3, <1>5, DriverSteps DEF Core
  <2> QED BY <1>3, <1>5, <2>1 DEF Core
<1> QED BY <1>3, <1>4, <1>5

-----------------------------------------------------------------------------
LEMMA Z80Start == Z80Init => Z80Inv
<1> SUFFICES ASSUME Z80Init PROVE Z80Inv
  OBVIOUS
<1>1. Switches /\ Buses
  BY DEF Z80Init, Switches, Buses
<1>2. Loaded
  BY DEF Z80Init, Loaded, Whole, BornAt
<1>3. CoreType
  BY DEF Z80Init, CoreType, Reset
<1>4. Core
  BY DEF Z80Init, Core, Quiet, Reset
<1> QED BY <1>1, <1>2, <1>3, <1>4 DEF Z80Inv

LEMMA Z80Keeps == Z80Inv /\ [Z80Next]_z80vars => Z80Inv'
<1> SUFFICES ASSUME Z80Inv, [Z80Next]_z80vars PROVE Z80Inv'
  OBVIOUS
<1>1. CASE M68kWrites
  BY <1>1, LineWrites, CopyKeeps, ReleaseKeeps DEF M68kWrites
<1>2. CASE LineUp \/ LineOver
  BY <1>2, LineKeeps
<1>3. CASE Slice
  BY <1>3, SliceKeeps
<1>4. CASE TakeIrq
  BY <1>4, TakeIrqKeeps
<1>5. CASE Execute
  BY <1>5, ExecuteKeeps
<1>6. CASE UNCHANGED z80vars
  BY <1>6 DEF z80vars, Z80Inv, Switches, Buses, Loaded, CoreType, Core, Quiet, InStub, InDriver
<1> QED BY <1>1, <1>2, <1>3, <1>4, <1>5, <1>6 DEF Z80Next

(* One return address at most: z80_run takes the interrupt between two      *)
(* instructions only when EI's hold is over, and the hold outlives a slice, *)
(* so the driver's handler, which ends in EI and RET with the line still    *)
(* up, has returned before it is entered again.                             *)
THEOREM HandlerSafe == Z80Spec => []SafeReturn
<1>1. Z80Inv => SafeReturn
  <2> SUFFICES ASSUME Z80Inv PROVE Len(stack) <= 1
    BY DEF SafeReturn
  <2>1. pc68 \in 1..15
    BY DEF Z80Inv, Buses
  <2>2. stack = <<>> \/ Len(stack) = 1
    BY <2>1 DEF Z80Inv, Core, Quiet, InStub, InDriver
  <2>3. CASE stack = <<>>
    <3>1. Len(stack) = 0
      BY <2>3
    <3> QED BY <3>1
  <2>4. CASE Len(stack) = 1
    BY <2>4
  <2> QED BY <2>2, <2>3, <2>4
<1> QED BY <1>1, Z80Start, Z80Keeps, PTL DEF Z80Spec

(* While it has instructions to run, RAM holds one program whole, the one   *)
(* the core was last reset into: genz80_runnable keeps it still under the   *)
(* bus request and under reset, and the 68000 takes one of them before each *)
(* of its two copies and lets the last of them go only after it.            *)
THEOREM OnlyWholePrograms == Z80Spec => []NeverHalfLoaded
<1>1. Z80Inv => NeverHalfLoaded
  <2> SUFFICES ASSUME Z80Inv, fuel > 0 PROVE ram[1] = ram[2] /\ ram = born /\ ram[1] # 0
    BY DEF NeverHalfLoaded
  <2>1. ~busreq /\ ~reset_held
    BY DEF Z80Inv, Buses
  <2> QED BY <2>1, RunsWhole DEF Z80Inv
<1> QED BY <1>1, Z80Start, Z80Keeps, PTL DEF Z80Spec

-----------------------------------------------------------------------------
(****************************************************************************)
(* The Z80's block instructions, proved for every size of memory, start,   *)
(* count and direction, with an interrupt between any two repetitions.     *)
(****************************************************************************)
Bank   == [Address -> Address]
Regs   == [hl : Address, de : Address, bc : Address]
Instrs == [op : {"ld", "cp"}, inc : {-1, 1}, r : Regs, mem : Bank]

(* The memory after each of an instruction's repetitions. *)
Copying(i) ==
    LET at[k \in 0..Times(i)] ==
          IF k = 0 THEN i.mem
          ELSE [at[k - 1] EXCEPT ![Wrap(i.r.de + (k - 1) * i.inc)] =
                                    at[k - 1][Wrap(i.r.hl + (k - 1) * i.inc)]]
    IN at

LEMMA WrapIn == ASSUME NEW n \in Int PROVE Wrap(n) \in Address
<1>1. BlockSize \in Nat \ {0}
  BY BlockAssumption
<1> QED BY <1>1 DEF Wrap, Address

LEMMA WrapAdd == ASSUME NEW a \in Int, NEW b \in Int PROVE Wrap(Wrap(a) + b) = Wrap(a + b)
<1> DEFINE w == BlockSize
           r == a % w
           q == a \div w
           t == (r + b) % w
           p == (r + b) \div w
<1>1. w \in Nat \ {0}
  BY BlockAssumption
<1>2. r \in 0..(w - 1) /\ q \in Int /\ a = w * q + r
  BY <1>1, DivModOf
<1>3. r + b \in Int
  BY <1>2
<1>4. t \in 0..(w - 1) /\ p \in Int /\ r + b = w * p + t
  <2> HIDE DEF r
  <2> QED BY <1>1, <1>3, DivModOf
<1>5. a + b = w * (q + p) + t
  <2> HIDE DEF r, q, t, p, w
  <2> QED BY <1>1, <1>2, <1>4
<1>6. (w * (q + p) + t) % w = t
  <2> HIDE DEF r, q, t, p, w
  <2>1. q + p \in Int
    BY <1>2, <1>4
  <2> QED BY <1>1, <1>4, <2>1, DivMod
<1>7. (a + b) % w = t
  BY <1>5, <1>6
<1> QED BY <1>7 DEF Wrap

LEMMA WrapSmall == ASSUME NEW a \in Address PROVE Wrap(a) = a
<1>1. BlockSize \in Nat \ {0}
  BY BlockAssumption
<1> QED BY <1>1, ModBack DEF Wrap, Address

LEMMA TimesIs ==
    ASSUME NEW i \in Instrs
    PROVE  /\ Times(i) \in Nat /\ Times(i) > 0
           /\ \A k \in 1..Times(i) : Wrap(i.r.bc - k) = 0 <=> k = Times(i)
<1>1. BlockSize \in Nat \ {0} /\ i.r.bc \in Address
  BY BlockAssumption DEF Instrs, Regs
<1>2. Times(i) \in Nat /\ Times(i) > 0
  BY <1>1 DEF Times, Address
<1>3. ASSUME NEW k \in 1..Times(i) PROVE Wrap(i.r.bc - k) = 0 <=> k = Times(i)
  <2>1. CASE i.r.bc = 0
    <3>1. k \in 1..BlockSize /\ Times(i) = BlockSize /\ i.r.bc - k = - k
      BY <1>1, <2>1 DEF Times
    <3>2. BlockSize - k \in 0..(BlockSize - 1) /\ (BlockSize - k) - BlockSize = - k
      BY <1>1, <3>1
    <3>3. ((BlockSize - k) - BlockSize) % BlockSize = BlockSize - k
      BY <1>1, <3>2, ModBack
    <3> QED BY <1>1, <3>1, <3>2, <3>3 DEF Wrap
  <2>2. CASE i.r.bc # 0
    <3>1. k \in 1..i.r.bc /\ Times(i) = i.r.bc /\ i.r.bc - k \in Address
      BY <1>1, <2>2 DEF Times, Address
    <3>2. Wrap(i.r.bc - k) = i.r.bc - k
      BY <3>1, WrapSmall
    <3> QED BY <1>1, <3>1, <3>2 DEF Address
  <2> QED BY <2>1, <2>2
<1> QED BY <1>2, <1>3

LEMMA CopyingIs ==
    ASSUME NEW i \in Instrs
    PROVE  /\ Copying(i)[0] = i.mem
           /\ \A k \in 1..Times(i) :
                Copying(i)[k] = [Copying(i)[k - 1] EXCEPT ![Wrap(i.r.de + (k - 1) * i.inc)] =
                                    Copying(i)[k - 1][Wrap(i.r.hl + (k - 1) * i.inc)]]
<1> DEFINE n == Times(i)
           one(k, b) == [b EXCEPT ![Wrap(i.r.de + (k - 1) * i.inc)] =
                                    b[Wrap(i.r.hl + (k - 1) * i.inc)]]
           Is(h) == h = [k \in 0..n |-> IF k = 0 THEN i.mem ELSE one(k, h[k - 1])]
           s == [k \in Nat |-> [b \in Bank |-> one(k, b)]]
           f == CHOOSE h : Is(h)
<1>1. n \in Nat /\ i.mem \in Bank /\ i.r.de \in Int /\ i.r.hl \in Int /\ i.inc \in Int
  BY TimesIs, BlockAssumption DEF Instrs, Regs, Address
<1>2. ASSUME NEW k \in Nat, NEW b \in Bank PROVE one(k, b) \in Bank
  <2>1. (k - 1) * i.inc \in Int
    BY <1>1
  <2>2. Wrap(i.r.hl + (k - 1) * i.inc) \in Address
    BY <1>1, <2>1, WrapIn
  <2> QED BY <2>2 DEF Bank
<1>3. s \in [Nat -> [Bank -> Bank]]
  <2> HIDE DEF one
  <2> QED BY <1>2
<1>4. \A k \in Nat, b \in Bank : s[k][b] = one(k, b)
  <2> HIDE DEF one
  <2> QED OBVIOUS
<1> HIDE DEF s, one, n, f
<1>5. PICK h \in [0..n -> Bank] : h[0] = i.mem /\ \A k \in 1..n : h[k] = s[k][h[k - 1]]
  <2>1. i.mem \in Bank /\ s \in [Nat -> [Bank -> Bank]] /\ n \in Nat
    BY <1>1, <1>3
  <2>2. Followed(Bank, i.mem, s, n)
    BY <2>1, RecursionExists
  <2> QED BY <2>2 DEF Followed, Follows
<1>6. ASSUME NEW k \in 0..n, k # 0 PROVE h[k] = one(k, h[k - 1])
  <2>1. k \in 1..n /\ k \in Nat /\ k - 1 \in 0..n
    BY <1>1, <1>6
  <2> QED BY <1>4, <1>5, <2>1
<1>7. h = [k \in 0..n |-> IF k = 0 THEN i.mem ELSE one(k, h[k - 1])]
  <2>1. \A k \in 0..n : h[k] = IF k = 0 THEN i.mem ELSE one(k, h[k - 1])
    BY <1>5, <1>6
  <2> QED BY <2>1
<1>8. Is(f)
  <2>1. Is(h)
    BY <1>7, Zenon
  <2> HIDE DEF Is
  <2> QED BY <2>1 DEF f
<1>9. \A k \in 0..n : f[k] = IF k = 0 THEN i.mem ELSE one(k, f[k - 1])
  BY <1>8, Zenon
<1>10. Copying(i) = f
  BY DEF Copying, f, n, one
<1>11. 0 \in 0..n /\ \A k \in 1..n : k \in 0..n /\ k # 0
  BY <1>1
<1>12. f[0] = i.mem /\ \A k \in 1..n : f[k] = one(k, f[k - 1])
  BY <1>9, <1>11, Zenon
<1> QED BY <1>10, <1>12, Zenon DEF one, n

-----------------------------------------------------------------------------
(* Where the instruction has got to: after k of its repetitions the registers *)
(* it uses, which the handler puts aside, the memory and Z are what k         *)
(* repetitions one after another leave.                                       *)
RegsAfter(i, k) ==
    [hl |-> Wrap(i.r.hl + k * i.inc), bc |-> Wrap(i.r.bc - k),
     de |-> IF i.op = "ld" THEN Wrap(i.r.de + k * i.inc) ELSE i.r.de]

Hit(i, k) == i.mem[Wrap(i.r.hl + (k - 1) * i.inc)] = 1

Own == IF bpc \in {Entry + 1, Entry + 2} THEN rr2 ELSE rr

Left(i, k) ==
    /\ Own = RegsAfter(i, k)
    /\ bytes = IF i.op = "ld" THEN Copying(i)[k] ELSE i.mem
    /\ i.op = "cp" => \A j \in 1..(k - 1) : ~Hit(i, j)
    /\ (i.op = "cp" /\ k > 0) => (zflag <=> Hit(i, k))

Going(i, k)  == k < Times(i) /\ (i.op = "cp" => \A j \in 1..k : ~Hit(i, j))
AtEnd(i, k)  == k > 0 /\ (k = Times(i) \/ (i.op = "cp" /\ Hit(i, k)))

Reached(i, k) ==
    /\ Left(i, k)
    /\ bpc # Past => Going(i, k)
    /\ bpc = Past => AtEnd(i, k)

BlockTyped ==
    /\ bytes \in Bank /\ rr \in Regs /\ rr2 \in Regs
    /\ bpc \in {At, Past, Entry, Entry + 1, Entry + 2, Entry + 3}
    /\ zflag \in BOOLEAN
    /\ asked \in SUBSET Instrs /\ \A i, j \in asked : i = j
    /\ bpc \in Entry..(Entry + 3) => bret = At

BlockInv == BlockTyped /\ \A i \in asked : \E k \in 0..Times(i) : Reached(i, k)

PcsApart ==
    /\ At # Past /\ At + 2 = Past /\ (At + 2) - 2 = At /\ At \notin Entry..(Entry + 3)
    /\ Past \notin Entry..(Entry + 3)
    /\ \A p \in {At, Past} : p # Entry /\ p # Entry + 1 /\ p # Entry + 2 /\ p # Entry + 3

LEMMA PcsDiffer == PcsApart
  BY DEF PcsApart, At, Past, Entry

LEMMA RegsAfterIs ==
    ASSUME NEW i \in Instrs, NEW k \in Nat
    PROVE  /\ RegsAfter(i, k) \in Regs
           /\ RegsAfter(i, k + 1) =
                [hl |-> Wrap(RegsAfter(i, k).hl + i.inc), bc |-> Wrap(RegsAfter(i, k).bc - 1),
                 de |-> IF i.op = "ld" THEN Wrap(RegsAfter(i, k).de + i.inc) ELSE i.r.de]
<1>1. /\ i.r.hl \in Int /\ i.r.de \in Int /\ i.r.bc \in Int /\ i.inc \in Int
      /\ i.r.de \in Address
  BY BlockAssumption DEF Instrs, Regs, Address
<1>2. k * i.inc \in Int /\ (k + 1) * i.inc = k * i.inc + i.inc
  BY <1>1
<1>3. /\ Wrap(Wrap(i.r.hl + k * i.inc) + i.inc) = Wrap(i.r.hl + (k + 1) * i.inc)
      /\ Wrap(Wrap(i.r.de + k * i.inc) + i.inc) = Wrap(i.r.de + (k + 1) * i.inc)
  <2> DEFINE p == k * i.inc
             p1 == (k + 1) * i.inc
  <2>1. p \in Int /\ p1 = p + i.inc
    BY <1>2
  <2> HIDE DEF p, p1
  <2>2. i.r.hl + p \in Int /\ i.r.de + p \in Int
        /\ (i.r.hl + p) + i.inc = i.r.hl + p1 /\ (i.r.de + p) + i.inc = i.r.de + p1
    BY <1>1, <2>1
  <2>3. \A a \in Int : Wrap(Wrap(a) + i.inc) = Wrap(a + i.inc)
    BY <1>1, WrapAdd
  <2>4. Wrap(Wrap(i.r.hl + p) + i.inc) = Wrap((i.r.hl + p) + i.inc)
        /\ Wrap(Wrap(i.r.de + p) + i.inc) = Wrap((i.r.de + p) + i.inc)
    BY <2>2, <2>3, Zenon
  <2> QED BY <2>2, <2>4 DEF p, p1
<1>4. Wrap(Wrap(i.r.bc - k) - 1) = Wrap(i.r.bc - (k + 1))
  <2>1. i.r.bc - k \in Int /\ -1 \in Int /\ (i.r.bc - k) + (-1) = i.r.bc - (k + 1)
    BY <1>1
  <2>2. Wrap(Wrap(i.r.bc - k) + (-1)) = Wrap((i.r.bc - k) + (-1))
    BY <2>1, WrapAdd
  <2>3. Wrap(i.r.bc - k) \in Int
    BY <2>1, WrapIn, BlockAssumption DEF Address
  <2> QED BY <2>1, <2>2, <2>3
<1>5. RegsAfter(i, k) \in Regs
  <2>1. /\ Wrap(i.r.hl + k * i.inc) \in Address /\ Wrap(i.r.de + k * i.inc) \in Address
        /\ Wrap(i.r.bc - k) \in Address
    BY <1>1, <1>2, WrapIn
  <2> QED BY <1>1, <2>1 DEF RegsAfter, Regs
<1>6. /\ RegsAfter(i, k).hl = Wrap(i.r.hl + k * i.inc)
      /\ RegsAfter(i, k).bc = Wrap(i.r.bc - k)
      /\ i.op = "ld" => RegsAfter(i, k).de = Wrap(i.r.de + k * i.inc)
  BY DEF RegsAfter
<1>7. RegsAfter(i, k + 1) =
        [hl |-> Wrap(i.r.hl + (k + 1) * i.inc), bc |-> Wrap(i.r.bc - (k + 1)),
         de |-> IF i.op = "ld" THEN Wrap(i.r.de + (k + 1) * i.inc) ELSE i.r.de]
  BY DEF RegsAfter
<1> QED BY <1>3, <1>4, <1>5, <1>6, <1>7

LEMMA BeginKeeps ==
    ASSUME BlockInv, NEW op \in {"ld", "cp"}, NEW inc \in {-1, 1}, NEW hl \in Address,
           NEW de \in Address, NEW bc \in Address, Begin(op, inc, hl, de, bc)
    PROVE  BlockInv'
<1>0. rr' = [hl |-> hl, de |-> de, bc |-> bc] /\ rr' \in Regs
      /\ asked' = {[op |-> op, inc |-> inc, r |-> rr', mem |-> bytes]}
      /\ [op |-> op, inc |-> inc, r |-> rr', mem |-> bytes] \in Instrs
  BY DEF BlockInv, BlockTyped, Begin, Instrs, Regs
<1>1. PICK i \in Instrs : asked' = {i} /\ i.op = op /\ i.inc = inc /\ i.r = rr'
                        /\ i.mem = bytes
  BY <1>0
<1>10. bpc' = At /\ bytes' = bytes /\ i.r = [hl |-> hl, de |-> de, bc |-> bc]
  BY <1>0, <1>1 DEF Begin
<1>2. BlockTyped'
  <2>1. asked' \in SUBSET Instrs /\ \A a, b \in asked' : a = b
    BY <1>0, <1>1, <1>10
  <2>2. ~(bpc' \in Entry..(Entry + 3))
    BY <1>0, <1>1, <1>10, PcsDiffer DEF PcsApart
  <2> QED BY <1>0, <1>1, <1>10, <2>1, <2>2 DEF BlockInv, BlockTyped, Begin
<1>3. Times(i) \in Nat /\ Times(i) > 0 /\ 0 \in 0..Times(i) /\ 0 \in Nat
  <2> QED BY <1>0, <1>1, <1>10, TimesIs
<1>4. RegsAfter(i, 0) = rr'
  <2>1. /\ hl + 0 * inc = hl /\ de + 0 * inc = de /\ bc - 0 = bc
    BY BlockAssumption DEF Address
  <2>2. Wrap(hl) = hl /\ Wrap(de) = de /\ Wrap(bc) = bc
    BY WrapSmall
  <2> QED BY <1>0, <1>1, <1>10, <2>1, <2>2 DEF RegsAfter
<1>5. Left(i, 0)'
  <2>1. Own' = rr'
    BY <1>0, <1>1, <1>10, PcsDiffer DEF Own, PcsApart
  <2>2. bytes' = IF i.op = "ld" THEN Copying(i)[0] ELSE i.mem
    BY <1>0, <1>1, <1>10, <1>10, CopyingIs
  <2>3. \A j \in 1..(0 - 1) : FALSE
    OBVIOUS
  <2> QED BY <1>1, <1>4, <2>1, <2>2, <2>3 DEF Left
<1>6. Going(i, 0)
  <2> QED BY <1>3 DEF Going
<1>7. Reached(i, 0)'
  <2>1. bpc' # Past
    BY <1>0, <1>1, <1>10, PcsDiffer DEF PcsApart
  <2> QED BY <1>5, <1>6, <2>1 DEF Reached
<1> QED BY <1>0, <1>1, <1>10, <1>2, <1>3, <1>7 DEF BlockInv

(* One repetition more, of either kind: the registers and the way on or out. *)
LEMMA HitFurther ==
    ASSUME NEW i \in Instrs, NEW k \in 0..Times(i), Going(i, k)
    PROVE  /\ k \in Nat /\ k + 1 \in 0..Times(i) /\ k + 1 > 0 /\ (k + 1) - 1 = k
           /\ RegsAfter(i, k + 1).bc = 0 <=> k + 1 = Times(i)
           /\ i.op = "cp" => \A j \in 1..((k + 1) - 1) : ~Hit(i, j)
           /\ k + 1 # Times(i) => k + 1 < Times(i)
<1>1. Times(i) \in Nat /\ k \in Nat /\ k < Times(i)
  BY TimesIs DEF Going
<1>2. k + 1 \in 1..Times(i) /\ (k + 1) - 1 = k
  BY <1>1
<1>3. Wrap(i.r.bc - (k + 1)) = 0 <=> k + 1 = Times(i)
  BY <1>2, TimesIs
<1>4. RegsAfter(i, k + 1).bc = Wrap(i.r.bc - (k + 1))
  BY DEF RegsAfter
<1>5. i.op = "cp" => \A j \in 1..((k + 1) - 1) : ~Hit(i, j)
  BY <1>2 DEF Going
<1> QED BY <1>1, <1>2, <1>3, <1>4, <1>5

LEMMA LdxrKeeps == ASSUME BlockInv, NEW i \in asked, Ldxr(i) PROVE BlockInv'
<1>1. i \in Instrs /\ i.op = "ld" /\ i.op # "cp" /\ bpc = At /\ asked' = asked
      /\ Own = rr /\ rr \in Regs /\ bytes \in Bank
  BY PcsDiffer DEF BlockInv, BlockTyped, Ldxr, Own, PcsApart
<1>2. PICK k \in 0..Times(i) : Reached(i, k)
  BY DEF BlockInv
<1>3. Left(i, k) /\ Going(i, k) /\ rr = RegsAfter(i, k) /\ bytes = Copying(i)[k]
  BY <1>1, <1>2, PcsDiffer DEF Reached, Left, PcsApart
<1>4. /\ k \in Nat /\ k + 1 \in 0..Times(i) /\ k + 1 > 0 /\ (k + 1) - 1 = k
      /\ (RegsAfter(i, k + 1).bc = 0 <=> k + 1 = Times(i))
      /\ (k + 1 # Times(i) => k + 1 < Times(i))
  BY <1>1, <1>3, HitFurther
<1>5. rr' = RegsAfter(i, k + 1)
  BY <1>1, <1>3, <1>4, RegsAfterIs DEF Ldxr
<1>6. bytes' = Copying(i)[k + 1] /\ bytes' \in Bank
  <2>1. k + 1 \in 1..Times(i)
    BY <1>1, <1>4, TimesIs
  <2>2. Copying(i)[k + 1] = [Copying(i)[k] EXCEPT ![Wrap(i.r.de + k * i.inc)] =
                                    Copying(i)[k][Wrap(i.r.hl + k * i.inc)]]
    BY <1>1, <1>4, <2>1, CopyingIs
  <2>3. rr.de = Wrap(i.r.de + k * i.inc) /\ rr.hl = Wrap(i.r.hl + k * i.inc)
    BY <1>1, <1>3 DEF RegsAfter
  <2>4. bytes' = [bytes EXCEPT ![rr.de] = bytes[rr.hl]]
    BY DEF Ldxr
  <2>5. bytes[rr.hl] \in Address
    BY <1>1 DEF Bank, Regs
  <2> QED BY <1>1, <1>3, <2>2, <2>3, <2>4, <2>5 DEF Bank
<1>7. bpc' = IF k + 1 = Times(i) THEN Past ELSE At
  BY <1>1, <1>4, <1>5, PcsDiffer DEF Ldxr, After, Again, PcsApart
<1>8. bpc' \in {At, Past} /\ rr' \in Regs
  <2>1. k + 1 \in Nat
    BY <1>4
  <2> QED BY <1>1, <1>5, <1>7, <2>1, RegsAfterIs
<1>9. Reached(i, k + 1)'
  <2>1. Own' = rr'
    BY <1>8, PcsDiffer DEF Own, PcsApart
  <2>2. Left(i, k + 1)'
    BY <1>1, <1>5, <1>6, <2>1 DEF Left
  <2> QED BY <1>1, <1>4, <1>7, <2>2, PcsDiffer DEF Reached, Going, AtEnd, PcsApart
<1>10. BlockTyped'
  BY <1>1, <1>6, <1>8, PcsDiffer DEF BlockInv, BlockTyped, Ldxr, PcsApart
<1>11. \A j \in asked' : j = i
  BY <1>1 DEF BlockInv, BlockTyped
<1> QED BY <1>4, <1>9, <1>10, <1>11 DEF BlockInv

LEMMA CpxrKeeps == ASSUME BlockInv, NEW i \in asked, Cpxr(i) PROVE BlockInv'
<1>1. i \in Instrs /\ i.op = "cp" /\ i.op # "ld" /\ bpc = At /\ asked' = asked
      /\ Own = rr /\ rr \in Regs /\ bytes' = bytes
  BY PcsDiffer DEF BlockInv, BlockTyped, Cpxr, Own, PcsApart
<1>2. PICK k \in 0..Times(i) : Reached(i, k)
  BY DEF BlockInv
<1>3. Left(i, k) /\ Going(i, k) /\ rr = RegsAfter(i, k) /\ bytes = i.mem
  BY <1>1, <1>2, PcsDiffer DEF Reached, Left, PcsApart
<1>4. /\ k \in Nat /\ k + 1 \in 0..Times(i) /\ k + 1 > 0 /\ (k + 1) - 1 = k
      /\ (RegsAfter(i, k + 1).bc = 0 <=> k + 1 = Times(i))
      /\ (\A j \in 1..((k + 1) - 1) : ~Hit(i, j))
      /\ (k + 1 # Times(i) => k + 1 < Times(i))
  BY <1>1, <1>3, HitFurther
<1>5. rr' = RegsAfter(i, k + 1)
  <2>1. rr.de = i.r.de
    BY <1>1, <1>3 DEF RegsAfter
  <2>2. rr' = [hl |-> Wrap(rr.hl + i.inc), bc |-> Wrap(rr.bc - 1), de |-> rr.de]
    BY <1>1 DEF Cpxr, Regs
  <2> QED BY <1>1, <1>3, <1>4, <2>1, <2>2, RegsAfterIs
<1>6. zflag' <=> Hit(i, k + 1)
  <2>1. rr.hl = Wrap(i.r.hl + k * i.inc)
    BY <1>3 DEF RegsAfter
  <2> QED BY <1>3, <1>4, <2>1 DEF Cpxr, Hit
<1>7. bpc' = IF k + 1 = Times(i) \/ Hit(i, k + 1) THEN Past ELSE At
  BY <1>1, <1>4, <1>5, <1>6, PcsDiffer DEF Cpxr, After, Again, PcsApart
<1>8. bpc' \in {At, Past} /\ rr' \in Regs /\ zflag' \in BOOLEAN
  <2>1. k + 1 \in Nat
    BY <1>4
  <2>2. zflag' \in BOOLEAN
    BY DEF Cpxr
  <2> QED BY <1>1, <1>5, <1>7, <2>1, <2>2, RegsAfterIs
<1>9. Reached(i, k + 1)'
  <2>1. Own' = rr'
    BY <1>8, PcsDiffer DEF Own, PcsApart
  <2>2. Left(i, k + 1)'
    BY <1>1, <1>3, <1>4, <1>5, <1>6, <2>1 DEF Left
  <2>3. \A j \in 1..(k + 1) : j \in 1..((k + 1) - 1) \/ j = k + 1
    BY <1>4
  <2>4. bpc' # Past => Going(i, k + 1)
    BY <1>4, <1>7, <2>3 DEF Going
  <2>5. bpc' = Past => AtEnd(i, k + 1)
    BY <1>1, <1>4, <1>7, PcsDiffer DEF AtEnd, PcsApart
  <2> QED BY <2>2, <2>4, <2>5 DEF Reached
<1>10. BlockTyped'
  BY <1>1, <1>8, PcsDiffer DEF BlockInv, BlockTyped, Cpxr, PcsApart
<1>11. \A j \in asked' : j = i
  BY <1>1 DEF BlockInv, BlockTyped
<1> QED BY <1>4, <1>9, <1>10, <1>11 DEF BlockInv

(* What the handler does leaves the instruction where it was. *)
LEMMA HandlerKeeps ==
    ASSUME BlockInv, BlockTyped', UNCHANGED <<bytes, zflag, asked>>, Own' = Own,
           bpc' = Past <=> bpc = Past
    PROVE  BlockInv'
<1> SUFFICES ASSUME NEW i \in asked PROVE \E k \in 0..Times(i) : Reached(i, k)'
  BY DEF BlockInv
<1>1. PICK k \in 0..Times(i) : Reached(i, k)
  BY DEF BlockInv
<1>2. Left(i, k)'
  BY <1>1 DEF Reached, Left
<1>3. Reached(i, k)'
  BY <1>1, <1>2 DEF Reached
<1> QED BY <1>3

LEMMA BlockStepKeeps == ASSUME BlockInv, [BlockNext]_blockvars PROVE BlockInv'
<1>1. ASSUME NEW op \in {"ld", "cp"}, NEW inc \in {-1, 1}, NEW hl \in Address,
             NEW de \in Address, NEW bc \in Address, Begin(op, inc, hl, de, bc)
      PROVE  BlockInv'
  BY <1>1, BeginKeeps
<1>2. ASSUME NEW i \in asked, Ldxr(i) \/ Cpxr(i) PROVE BlockInv'
  BY <1>2, LdxrKeeps, CpxrKeeps
<1>3. CASE BlockIrq
  <2>1. bpc = At /\ bret' = At /\ bpc' = Entry /\ rr' = rr
    BY <1>3 DEF BlockIrq
  <2>2. BlockTyped' /\ Own' = Own
    BY <1>3, <2>1 DEF BlockInv, BlockTyped, BlockIrq, Own, Entry, At
  <2> QED BY <1>3, <2>1, <2>2, HandlerKeeps DEF BlockIrq, Entry, At, Past
<1>4. CASE Exchange
  <2>1. BlockTyped' /\ Own' = Own
    BY <1>4 DEF BlockInv, BlockTyped, Exchange, Own, Entry, At
  <2> QED BY <1>4, <2>1, HandlerKeeps DEF Exchange, Entry, At, Past
<1>5. CASE HandlerWork
  <2>1. rr' \in Regs
    <3>1. rr.hl + 1 \in Int /\ rr.bc - 1 \in Int
      BY BlockAssumption DEF BlockInv, BlockTyped, Regs, Address
    <3>2. Wrap(rr.hl + 1) \in Address /\ Wrap(rr.bc - 1) \in Address
      BY <3>1, WrapIn
    <3> QED BY <1>5, <3>2 DEF BlockInv, BlockTyped, HandlerWork, Regs
  <2>2. BlockTyped' /\ Own' = Own
    BY <1>5, <2>1 DEF BlockInv, BlockTyped, HandlerWork, Own, Entry, At
  <2> QED BY <1>5, <2>2, HandlerKeeps DEF HandlerWork, Entry, At, Past
<1>6. CASE HandlerRet
  <2>1. bpc = Entry + 3 /\ bpc' = At /\ rr' = rr
    BY <1>6 DEF BlockInv, BlockTyped, HandlerRet, Entry
  <2>2. BlockTyped' /\ Own' = Own
    BY <1>6, <2>1 DEF BlockInv, BlockTyped, HandlerRet, Own, Entry, At
  <2> QED BY <1>6, <2>1, <2>2, HandlerKeeps DEF HandlerRet, Entry, At, Past
<1>7. CASE UNCHANGED blockvars
  <2>1. BlockTyped' /\ Own' = Own
    BY <1>7 DEF BlockInv, BlockTyped, blockvars, Own
  <2> QED BY <1>7, <2>1, HandlerKeeps DEF blockvars
<1> QED BY <1>1, <1>2, <1>3, <1>4, <1>5, <1>6, <1>7 DEF BlockNext

LEMMA BlockStart == BlockInit => BlockInv
<1> SUFFICES ASSUME BlockInit PROVE BlockInv
  OBVIOUS
<1>1. 0 \in Address /\ Start \in Regs
  BY BlockAssumption DEF Address, Start, Regs
<1>2. BlockTyped
  BY <1>1, PcsDiffer DEF BlockInit, BlockTyped, Bank, PcsApart
<1> QED BY <1>2 DEF BlockInit, BlockInv

LEMMA EndIsTheEnd ==
    ASSUME NEW i \in Instrs, NEW k \in 0..Times(i), Left(i, k), AtEnd(i, k), bpc = Past
    PROVE  LET n == IF i.op = "ld" THEN Times(i) ELSE Looked(i) IN
           /\ bytes = IF i.op = "ld" THEN Copied(i) ELSE i.mem
           /\ rr = [hl |-> Wrap(i.r.hl + n * i.inc), bc |-> Wrap(i.r.bc - n),
                    de |-> IF i.op = "ld" THEN Wrap(i.r.de + n * i.inc) ELSE i.r.de]
           /\ i.op = "cp" => zflag = (\E a \in {Wrap(i.r.hl + (n - 1) * i.inc)} : i.mem[a] = 1)
<1>1. rr = RegsAfter(i, k) /\ k \in 1..Times(i)
  BY PcsDiffer, TimesIs DEF Left, Own, PcsApart, AtEnd
<1>2. CASE i.op = "ld"
  <2>1. k = Times(i) /\ Copied(i) = Copying(i)[k]
    BY <1>2 DEF AtEnd, Copied, Copying
  <2> QED BY <1>1, <1>2, <2>1 DEF Left, RegsAfter
<1>3. CASE i.op = "cp"
  <2> DEFINE hits == {h \in 1..Times(i) : i.mem[Wrap(i.r.hl + (h - 1) * i.inc)] = 1}
  <2>1. \A h \in 1..Times(i) : h \in hits <=> Hit(i, h)
    BY DEF Hit
  <2>2. \A h \in hits : h \in 1..Times(i)
    OBVIOUS
  <2>3. Looked(i) = IF hits = {} THEN Times(i) ELSE CHOOSE h \in hits : \A j \in hits : h <= j
    BY DEF Looked
  <2> HIDE DEF hits
  <2>4. \A h \in hits : h \in Nat /\ ~(h < k)
    <3> SUFFICES ASSUME NEW h \in hits PROVE h \in Nat /\ ~(h < k)
      OBVIOUS
    <3>1. h \in 1..Times(i) /\ Hit(i, h) /\ h \in Nat
      BY <2>1, <2>2, TimesIs
    <3>2. h < k => h \in 1..(k - 1)
      BY <1>1, <3>1, TimesIs
    <3> QED BY <1>3, <3>1, <3>2 DEF Left
  <2>5. Looked(i) = k
    <3>1. CASE Hit(i, k)
      <4>1. k \in hits /\ \A j \in hits : k <= j
        BY <1>1, <2>1, <2>4, <3>1
      <4>2. \A h \in hits : (\A j \in hits : h <= j) => h = k
        BY <2>4, <4>1
      <4> QED BY <2>3, <4>1, <4>2
    <3>2. CASE ~Hit(i, k)
      <4>1. k = Times(i)
        BY <3>2 DEF AtEnd
      <4>2. \A h \in hits : h = k
        BY <1>1, <2>2, <2>4, <4>1
      <4>3. hits = {}
        BY <1>1, <2>1, <3>2, <4>2
      <4> QED BY <2>3, <4>1, <4>3
    <3> QED BY <3>1, <3>2
  <2>6. zflag <=> Hit(i, k)
    BY <1>1, <1>3 DEF Left, AtEnd
  <2>7. i.op # "ld" /\ bytes = i.mem
    BY <1>3 DEF Left
  <2> QED BY <1>1, <1>3, <2>5, <2>6, <2>7 DEF RegsAfter, Hit
<1> QED BY <1>2, <1>3 DEF Instrs

(* A block instruction runs to its end and no further, for every size of     *)
(* memory, every start and count, both directions, and every choice of where *)
(* interrupts fall among its repetitions.                                    *)
THEOREM BlocksRunOut == BlockSpec => []RunsToItsEnd
<1>1. BlockInv => RunsToItsEnd
  <2> SUFFICES ASSUME BlockInv, NEW i \in asked, bpc = Past
               PROVE  LET n == IF i.op = "ld" THEN Times(i) ELSE Looked(i) IN
                      /\ bytes = IF i.op = "ld" THEN Copied(i) ELSE i.mem
                      /\ rr = [hl |-> Wrap(i.r.hl + n * i.inc), bc |-> Wrap(i.r.bc - n),
                               de |-> IF i.op = "ld" THEN Wrap(i.r.de + n * i.inc) ELSE i.r.de]
                      /\ i.op = "cp" =>
                           zflag = (\E a \in {Wrap(i.r.hl + (n - 1) * i.inc)} : i.mem[a] = 1)
    BY Zenon DEF RunsToItsEnd
  <2>1. i \in Instrs
    BY DEF BlockInv, BlockTyped
  <2>2. PICK k \in 0..Times(i) : Left(i, k) /\ AtEnd(i, k)
    BY DEF BlockInv, Reached
  <2> QED BY <2>1, <2>2, EndIsTheEnd, Zenon
<1> QED BY <1>1, BlockStart, BlockStepKeeps, PTL DEF BlockSpec

-----------------------------------------------------------------------------
(****************************************************************************)
(* The Z80's decimal arithmetic, proved for every pair of decimal operands *)
(* and either carry: what daa puts right is the decimal sum or difference. *)
(****************************************************************************)
(* The arithmetic: x and y are the sums, or differences, of the low and of  *)
(* the high digits, the carry in counted with the low.                      *)
LEMMA SumAdjusted ==
    ASSUME NEW x \in 0..19, NEW y \in 0..18, NEW a \in Nat, a = (16 * y + x) % 256,
           NEW r \in Nat,
           r = (a + (IF x > 15 \/ a % 16 > 9 THEN 6 ELSE 0)
                  + (IF 16 * y + x > 255 \/ a > 153 THEN 96 ELSE 0)) % 256
    PROVE  /\ 10 * (r \div 16) + (r % 16) = (10 * y + x) % 100 /\ r % 16 <= 9
           /\ (16 * y + x > 255 \/ a > 153) <=> 10 * y + x > 99
OBVIOUS

LEMMA DifferenceAdjusted ==
    ASSUME NEW x \in (-10)..9, NEW y \in (-9)..9, NEW a \in Nat, a = (16 * y + x) % 256,
           NEW r \in Nat,
           r = (a - ((IF x < 0 \/ a % 16 > 9 THEN 6 ELSE 0)
                     + (IF 16 * y + x < 0 \/ a > 153 THEN 96 ELSE 0))) % 256
    PROVE  /\ 10 * (r \div 16) + (r % 16) = (10 * y + x) % 100 /\ r % 16 <= 9
           /\ (16 * y + x < 0 \/ a > 153) <=> 10 * y + x < 0
OBVIOUS

LEMMA UpIn ==
    ASSUME NEW name, NEW other, NEW holds \in BOOLEAN
    PROVE  other \in Up(name, holds) <=> other = name /\ holds
BY DEF Up

(* The flags daa reads, as an operation leaves them. *)
LEMMA FlagsRead ==
    ASSUME NEW a, NEW v, NEW c
    PROVE  /\ "N" \notin AddFlags(a, v, c) /\ "N" \in SubFlags(a, v, c)
           /\ "H" \in AddFlags(a, v, c) <=> (a % 16) + (v % 16) + c > 15
           /\ "C" \in AddFlags(a, v, c) <=> a + v + c > 255
           /\ "H" \in SubFlags(a, v, c) <=> (a % 16) - (v % 16) - c < 0
           /\ "C" \in SubFlags(a, v, c) <=> a - v - c < 0
BY Zenon DEF AddFlags, SubFlags, SignZero, Up

LEMMA BcdIs ==
    ASSUME NEW b \in Bcd
    PROVE  \E hi, lo \in 0..9 : b = 16 * hi + lo /\ b % 16 = lo /\ b \div 16 = hi
<1>1. PICK hi \in Digits, lo \in Digits : b = 16 * hi + lo
  BY DEF Bcd
<1>2. hi \in 0..9 /\ lo \in 0..9
  BY AluAssumption
<1> QED BY <1>1, <1>2

AluInv ==
    /\ stage \in {"none", "loaded", "done", "adjusted"}
    /\ stage # "none" =>
         prog.op \in {"adc", "sbc"} /\ prog.a \in Bcd /\ prog.v \in Bcd /\ prog.c \in 0..1
    /\ stage = "loaded" => areg = prog.a /\ flag = Up("C", prog.c = 1)
    /\ stage = "done" /\ prog.op = "adc" =>
         /\ areg = Byte(prog.a + prog.v + prog.c)
         /\ flag = AddFlags(prog.a, prog.v, prog.c)
    /\ stage = "done" /\ prog.op = "sbc" =>
         /\ areg = Byte(prog.a - prog.v - prog.c)
         /\ flag = SubFlags(prog.a, prog.v, prog.c)
    /\ Decimal

LEMMA CarryIs == ASSUME AluInv, stage = "loaded" PROVE Carry = prog.c
<1>1. flag = Up("C", prog.c = 1) /\ prog.c \in 0..1
  BY DEF AluInv
<1>2. CASE prog.c = 1
  BY <1>1, <1>2 DEF Carry, Up
<1>3. CASE prog.c = 0
  BY <1>1, <1>3 DEF Carry, Up
<1> QED BY <1>1, <1>2, <1>3

LEMMA LoadKeeps ==
    ASSUME NEW op \in {"adc", "sbc"}, NEW a \in Bcd, NEW v \in Bcd, NEW c \in 0..1,
           Load(op, a, v, c)
    PROVE  AluInv'
BY DEF Load, AluInv, Decimal

LEMMA OperationKeeps == ASSUME AluInv, Adc \/ Sbc PROVE AluInv'
<1>1. Carry = prog.c
  BY CarryIs DEF Adc, Sbc
<1>2. CASE Adc
  BY <1>1, <1>2 DEF Adc, AluInv, Decimal
<1>3. CASE Sbc
  BY <1>1, <1>3 DEF Sbc, AluInv, Decimal
<1> QED BY <1>2, <1>3

LEMMA DaaFlags ==
    ASSUME Daa
    PROVE  "C" \in flag' <=> ("C" \in flag \/ HighDigit(areg))
<1> DEFINE r == IF "N" \in flag THEN Byte(areg - Correction) ELSE Byte(areg + Correction)
<1>1. flag' = (flag \cap {"N"}) \cup SignZero(r)
                  \cup Up("C", "C" \in flag \/ HighDigit(areg))
                  \cup Up("H", (r \div 16) % 2 # (areg \div 16) % 2)
  BY DEF Daa
<1> HIDE DEF r
<1> QED BY <1>1, Zenon DEF SignZero, Up

LEMMA DaaKeeps == ASSUME AluInv, Daa PROVE AluInv'
<1> DEFINE a == prog.a
           v == prog.v
           c == prog.c
           k2 == "C" \in flag \/ HighDigit(areg)
<1>1. /\ prog' = prog /\ stage' = "adjusted" /\ stage = "done" /\ prog.op \in {"adc", "sbc"}
      /\ a \in Bcd /\ v \in Bcd /\ c \in 0..1
  BY DEF Daa, AluInv
<1>2. PICK h1, l1 \in 0..9 : a = 16 * h1 + l1 /\ a % 16 = l1 /\ a \div 16 = h1
  BY <1>1, BcdIs
<1>3. PICK h2, l2 \in 0..9 : v = 16 * h2 + l2 /\ v % 16 = l2 /\ v \div 16 = h2
  BY <1>1, BcdIs
<1>4. Dec(a) = 10 * h1 + l1 /\ Dec(v) = 10 * h2 + l2
  BY <1>2, <1>3 DEF Dec
<1>5. "C" \in flag' <=> k2
  BY DaaFlags
<1>6. ASSUME prog.op = "adc"
      PROVE  /\ Dec(areg') = (Dec(a) + Dec(v) + c) % 100 /\ areg' % 16 <= 9
             /\ k2 <=> (Dec(a) + Dec(v) + c \notin 0..99)
  <2> DEFINE x == l1 + l2 + c
             y == h1 + h2
  <2>1. areg = Byte(a + v + c) /\ flag = AddFlags(a, v, c)
    BY <1>1, <1>6 DEF AluInv
  <2>2. x \in 0..19 /\ y \in 0..18 /\ a + v + c = 16 * y + x
    BY <1>1, <1>2, <1>3
  <2>3. areg \in Nat /\ areg = (16 * y + x) % 256
    <3> HIDE DEF x, y, a, v, c
    <3> QED BY <2>1, <2>2 DEF Byte
  <2>4. ("H" \in flag <=> x > 15) /\ ("C" \in flag <=> 16 * y + x > 255) /\ "N" \notin flag
    <3>1. ("H" \in flag <=> (a % 16) + (v % 16) + c > 15) /\ ("C" \in flag <=> a + v + c > 255)
          /\ "N" \notin flag
      BY <2>1, FlagsRead
    <3> QED BY <1>2, <1>3, <2>2, <3>1
  <2>5. k2 <=> (16 * y + x > 255 \/ areg > 153)
    BY <2>4 DEF HighDigit
  <2> DEFINE low  == IF x > 15 \/ areg % 16 > 9 THEN 6 ELSE 0
             high == IF 16 * y + x > 255 \/ areg > 153 THEN 96 ELSE 0
  <2>6. Correction = low + high
    BY <2>4 DEF Correction, HighDigit
  <2>7. areg' = Byte(areg + Correction)
    BY <2>4 DEF Daa
  <2>8. areg' \in Nat /\ areg' = (areg + low + high) % 256
    BY <2>3, <2>6, <2>7 DEF Byte
  <2> HIDE DEF k2, x, y
  <2>9. /\ 10 * (areg' \div 16) + (areg' % 16) = (10 * y + x) % 100 /\ areg' % 16 <= 9
        /\ (16 * y + x > 255 \/ areg > 153) <=> 10 * y + x > 99
    BY <2>2, <2>3, <2>8, SumAdjusted
  <2>10. Dec(a) + Dec(v) + c = 10 * y + x
    BY <1>1, <1>4 DEF x, y
  <2>11. Dec(a) + Dec(v) + c \notin 0..99 <=> 10 * y + x > 99
    BY <2>2, <2>10
  <2> QED BY <2>5, <2>9, <2>10, <2>11 DEF Dec
<1>7. ASSUME prog.op = "sbc"
      PROVE  /\ Dec(areg') = (Dec(a) - Dec(v) - c) % 100 /\ areg' % 16 <= 9
             /\ k2 <=> (Dec(a) - Dec(v) - c \notin 0..99)
  <2> DEFINE x == l1 - l2 - c
             y == h1 - h2
  <2>1. areg = Byte(a - v - c) /\ flag = SubFlags(a, v, c)
    BY <1>1, <1>7 DEF AluInv
  <2>2. x \in (-10)..9 /\ y \in (-9)..9 /\ a - v - c = 16 * y + x
    BY <1>1, <1>2, <1>3
  <2>3. areg \in Nat /\ areg = (16 * y + x) % 256
    <3> HIDE DEF x, y, a, v, c
    <3> QED BY <2>1, <2>2 DEF Byte
  <2>4. ("H" \in flag <=> x < 0) /\ ("C" \in flag <=> 16 * y + x < 0) /\ "N" \in flag
    <3>1. ("H" \in flag <=> (a % 16) - (v % 16) - c < 0) /\ ("C" \in flag <=> a - v - c < 0)
          /\ "N" \in flag
      BY <2>1, FlagsRead
    <3> QED BY <1>2, <1>3, <2>2, <3>1
  <2>5. k2 <=> (16 * y + x < 0 \/ areg > 153)
    BY <2>4 DEF HighDigit
  <2> DEFINE low  == IF x < 0 \/ areg % 16 > 9 THEN 6 ELSE 0
             high == IF 16 * y + x < 0 \/ areg > 153 THEN 96 ELSE 0
  <2>6. Correction = low + high
    BY <2>4 DEF Correction, HighDigit
  <2>7. areg' = Byte(areg - Correction)
    BY <2>4 DEF Daa
  <2>8. areg' \in Nat /\ areg' = (areg - (low + high)) % 256
    BY <2>3, <2>6, <2>7 DEF Byte
  <2> HIDE DEF k2, x, y
  <2>9. /\ 10 * (areg' \div 16) + (areg' % 16) = (10 * y + x) % 100 /\ areg' % 16 <= 9
        /\ (16 * y + x < 0 \/ areg > 153) <=> 10 * y + x < 0
    BY <2>2, <2>3, <2>8, DifferenceAdjusted
  <2>10. Dec(a) - Dec(v) - c = 10 * y + x
    BY <1>1, <1>4 DEF x, y
  <2>11. Dec(a) - Dec(v) - c \notin 0..99 <=> 10 * y + x < 0
    BY <2>2, <2>10
  <2> QED BY <2>5, <2>9, <2>10, <2>11 DEF Dec
<1>8. Decimal'
  <2> DEFINE n == IF prog.op = "adc" THEN Dec(a) + Dec(v) + c ELSE Dec(a) - Dec(v) - c
  <2>1. Dec(areg') = n % 100 /\ areg' % 16 <= 9 /\ ("C" \in flag' <=> n \notin 0..99)
    <3> HIDE DEF k2, a, v, c
    <3> QED BY <1>1, <1>5, <1>6, <1>7
  <2> HIDE DEF n
  <2>2. ("C" \in flag') = (n \notin 0..99)
    BY <2>1
  <2>3. Decimal' <=> (stage' = "adjusted" => /\ Dec(areg') = n % 100 /\ areg' % 16 <= 9
                                             /\ ("C" \in flag') = (n \notin 0..99))
    BY <1>1, Zenon DEF Decimal, n, Dec
  <2> QED BY <2>1, <2>2, <2>3, Zenon
<1> QED BY <1>1, <1>8 DEF AluInv

(* Every pair of decimal operands, with and without a carry, is added and   *)
(* subtracted in decimal.                                                   *)
THEOREM DecimalAlways == AluSpec => []Decimal
<1>1. AluInit => AluInv
  BY DEF AluInit, AluInv, Decimal
<1>2. AluInv /\ [AluNext]_aluvars => AluInv'
  <2>1. CASE UNCHANGED aluvars
    BY <2>1 DEF aluvars, AluInv, Decimal
  <2> QED BY <2>1, LoadKeeps, OperationKeeps, DaaKeeps DEF AluNext
<1>3. AluInv => Decimal
  BY DEF AluInv
<1> QED BY <1>1, <1>2, <1>3, PTL DEF AluSpec

-----------------------------------------------------------------------------
(****************************************************************************)
(* The SH-2's divider, proved for every register width: C's quotient is    *)
(* the only one that leaves a remainder of the dividend's sign, and the    *)
(* unit gives it or raises its overflow.                                   *)
(****************************************************************************)
LEMMA SignedBack ==
    ASSUME NEW h \in Nat \ {0}, NEW v \in (-h)..(h - 1)
    PROVE  SignedOf(Unsigned(v, 2 * h), 2 * h) = v /\ Unsigned(v, 2 * h) \in 0..(2 * h - 1)
<1>1. 2 * h \in Nat \ {0} /\ (2 * h) \div 2 = h
  OBVIOUS
<1>2. CASE v >= 0
  <2>1. v \in 0..(2 * h - 1) /\ v < h
    BY <1>2
  <2>2. v % (2 * h) = v
    BY <1>1, <2>1, ModBack
  <2> QED BY <1>1, <2>1, <2>2 DEF SignedOf, Unsigned
<1>3. CASE v < 0
  <2>1. v + 2 * h \in 0..(2 * h - 1) /\ v + 2 * h >= h /\ (v + 2 * h) - 2 * h = v
    BY <1>3
  <2>2. ((v + 2 * h) - 2 * h) % (2 * h) = v + 2 * h
    BY <1>1, <2>1, ModBack
  <2>3. v % (2 * h) = v + 2 * h
    BY <2>1, <2>2
  <2> QED BY <1>1, <2>1, <2>3 DEF SignedOf, Unsigned
<1> QED BY <1>2, <1>3

(* C's quotient leaves a remainder smaller than the divisor and of the      *)
(* dividend's sign, and is the only number that does.                       *)
LEMMA QuotientIs ==
    ASSUME NEW n \in Int, NEW d \in Int, d # 0
    PROVE  /\ Quotient(n, d) \in Int
           /\ Magnitude(n - Quotient(n, d) * d) < Magnitude(d)
           /\ (n - Quotient(n, d) * d) * n >= 0
           /\ n = 0 => Quotient(n, d) = 0
<1> DEFINE a == Magnitude(n)
           b == Magnitude(d)
           q == a \div b
           m == a % b
<1>1. a \in Nat /\ b \in Nat \ {0}
  BY DEF Magnitude
<1>2. q \in Int /\ m \in 0..(b - 1) /\ a = b * q + m /\ q * b = b * q
  <2> HIDE DEF a, b
  <2> QED BY <1>1, DivModOf
<1>3. n = 0 => q = 0
  <2>1. n = 0 => a = 0
    BY DEF Magnitude
  <2> HIDE DEF a, b
  <2> QED BY <1>1, <2>1
<1> HIDE DEF q, m
<1>4. CASE n >= 0 /\ d > 0
  <2>1. Quotient(n, d) = q /\ a = n /\ b = d
    BY <1>4 DEF Quotient, q, Magnitude
  <2>2. n - q * d = m
    BY <1>1, <1>2, <2>1
  <2>3. m * n >= 0
    BY <1>2, <1>4
  <2>4. Magnitude(m) = m
    BY <1>2 DEF Magnitude
  <2>5. Magnitude(n - q * d) < Magnitude(d) /\ (n - q * d) * n >= 0
    <3>1. Magnitude(d) = b
      OBVIOUS
    <3> HIDE DEF a, b
    <3>2. m < b
      BY <1>1, <1>2
    <3> QED BY <2>2, <2>3, <2>4, <3>1, <3>2
  <2>6. q \in Int /\ (n = 0 => q = 0)
    <3> HIDE DEF a, b
    <3> QED BY <1>2, <1>3
  <2> QED BY <2>1, <2>5, <2>6
<1>5. CASE n >= 0 /\ d < 0
  <2>1. Quotient(n, d) = -q /\ a = n /\ b = -d
    BY <1>5 DEF Quotient, q, Magnitude
  <2>2. n - (-q) * d = m
    BY <1>1, <1>2, <2>1
  <2>3. m * n >= 0
    BY <1>2, <1>5
  <2>4. Magnitude(m) = m
    BY <1>2 DEF Magnitude
  <2>5. Magnitude(n - (-q) * d) < Magnitude(d) /\ (n - (-q) * d) * n >= 0
    <3>1. Magnitude(d) = b
      OBVIOUS
    <3> HIDE DEF a, b
    <3>2. m < b
      BY <1>1, <1>2
    <3> QED BY <2>2, <2>3, <2>4, <3>1, <3>2
  <2>6. (-q) \in Int /\ (n = 0 => (-q) = 0)
    <3> HIDE DEF a, b
    <3> QED BY <1>2, <1>3
  <2> QED BY <2>1, <2>5, <2>6
<1>6. CASE n < 0 /\ d > 0
  <2>1. Quotient(n, d) = -q /\ a = -n /\ b = d
    BY <1>6 DEF Quotient, q, Magnitude
  <2>2. n - (-q) * d = -m
    BY <1>1, <1>2, <2>1
  <2>3. (-m) * n >= 0
    BY <1>2, <1>6
  <2>4. Magnitude(-m) = m
    BY <1>2 DEF Magnitude
  <2>5. Magnitude(n - (-q) * d) < Magnitude(d) /\ (n - (-q) * d) * n >= 0
    <3>1. Magnitude(d) = b
      OBVIOUS
    <3> HIDE DEF a, b
    <3>2. m < b
      BY <1>1, <1>2
    <3> QED BY <2>2, <2>3, <2>4, <3>1, <3>2
  <2>6. (-q) \in Int /\ (n = 0 => (-q) = 0)
    <3> HIDE DEF a, b
    <3> QED BY <1>2, <1>3
  <2> QED BY <2>1, <2>5, <2>6
<1>7. CASE n < 0 /\ d < 0
  <2>1. Quotient(n, d) = q /\ a = -n /\ b = -d
    BY <1>7 DEF Quotient, q, Magnitude
  <2>2. n - q * d = -m
    BY <1>1, <1>2, <2>1
  <2>3. (-m) * n >= 0
    BY <1>2, <1>7
  <2>4. Magnitude(-m) = m
    BY <1>2 DEF Magnitude
  <2>5. Magnitude(n - q * d) < Magnitude(d) /\ (n - q * d) * n >= 0
    <3>1. Magnitude(d) = b
      OBVIOUS
    <3> HIDE DEF a, b
    <3>2. m < b
      BY <1>1, <1>2
    <3> QED BY <2>2, <2>3, <2>4, <3>1, <3>2
  <2>6. q \in Int /\ (n = 0 => q = 0)
    <3> HIDE DEF a, b
    <3> QED BY <1>2, <1>3
  <2> QED BY <2>1, <2>5, <2>6
<1> QED BY <1>4, <1>5, <1>6, <1>7

LEMMA OnlyQuotient ==
    ASSUME NEW n \in Int, NEW d \in Int, NEW q \in Int, NEW x \in Int, d # 0, n # 0,
           Magnitude(n - q * d) < Magnitude(d), (n - q * d) * n >= 0,
           Magnitude(n - x * d) < Magnitude(d), (n - x * d) * n >= 0
    PROVE  x = q
<1> DEFINE s == n - q * d
           t == n - x * d
           k == x - q
<1>1. s \in Int /\ t \in Int /\ k \in Int /\ s - t = k * d
  OBVIOUS
<1>2. (n > 0 => s >= 0 /\ t >= 0) /\ (n < 0 => s <= 0 /\ t <= 0)
  <2>1. \A y \in Int : (y * n >= 0 /\ n > 0 => y >= 0) /\ (y * n >= 0 /\ n < 0 => y <= 0)
    OBVIOUS
  <2> QED BY <1>1, <2>1
<1>3. Magnitude(s - t) < Magnitude(d)
  <2> HIDE DEF s, t
  <2>1. Magnitude(s) < Magnitude(d) /\ Magnitude(t) < Magnitude(d)
    BY DEF s, t
  <2> QED BY <1>1, <1>2, <2>1 DEF Magnitude
<1> HIDE DEF s, t, k
<1>4. k # 0 => Magnitude(k * d) >= Magnitude(d)
  <2>1. CASE k > 0 /\ d > 0
    <3>1. k * d >= d
      BY <1>1, <2>1
    <3> QED BY <1>1, <2>1, <3>1 DEF Magnitude
  <2>2. CASE k > 0 /\ d < 0
    <3>1. k * d <= d
      BY <1>1, <2>2
    <3> QED BY <1>1, <2>2, <3>1 DEF Magnitude
  <2>3. CASE k < 0 /\ d > 0
    <3>1. k * d <= -d
      BY <1>1, <2>3
    <3> QED BY <1>1, <2>3, <3>1 DEF Magnitude
  <2>4. CASE k < 0 /\ d < 0
    <3>1. k * d >= -d
      BY <1>1, <2>4
    <3> QED BY <1>1, <2>4, <3>1 DEF Magnitude
  <2> QED BY <1>1, <2>1, <2>2, <2>3, <2>4
<1>5. Magnitude(d) \in Int /\ Magnitude(k * d) \in Int
  BY <1>1 DEF Magnitude
<1>6. k = 0
  BY <1>1, <1>3, <1>4, <1>5
<1> QED BY <1>6 DEF k

Short == (-Top)..(Top - 1)
Long  == (-(Reg * Top))..(Reg * Top - 1)

DivRegs == [dvsr : Nat, dvdnt : Nat, dvdnth : Nat, dvdntl : Nat, ovf : BOOLEAN]

(* What a register file says of a division. *)
Right(r, n, d) ==
    LET q == SignedOf(r.dvdnt, Reg)  rem == SignedOf(r.dvdnth, Reg) IN
    IF r.ovf
    THEN d = 0 \/ \A x \in Short : \/ Magnitude(n - x * d) >= Magnitude(d)
                                   \/ (n - x * d) * n < 0
    ELSE n = q * d + rem /\ Magnitude(rem) < Magnitude(d) /\ rem * n >= 0

LEMMA Sizes ==
    /\ Top \in Nat \ {0} /\ Reg = 2 * Top /\ Reg \in Nat \ {0}
    /\ Reg * Top \in Nat \ {0} /\ Reg * Reg = 2 * (Reg * Top)
    /\ Short \in SUBSET Long /\ Short \in SUBSET Int /\ Long \in SUBSET Int
<1>1. Top \in Nat \ {0} /\ Reg = 2 * Top /\ Reg \in Nat \ {0}
  BY DivAssumption DEF Reg
<1>2. Reg * Top \in Nat \ {0} /\ Reg * Reg = 2 * (Reg * Top) /\ Top <= Reg * Top
  BY <1>1
<1>3. Short \in SUBSET Long /\ Short \in SUBSET Int /\ Long \in SUBSET Int
  BY <1>1, <1>2 DEF Short, Long
<1> QED BY <1>1, <1>2, <1>3

LEMMA DivisionRight ==
    ASSUME NEW r \in DivRegs, NEW n \in Long, NEW d \in Short, ~r.ovf,
           SignedOf(r.dvsr, Reg) = d, SignedOf(r.dvdnth * Reg + r.dvdntl, Reg * Reg) = n
    PROVE  Divided(r) \in DivRegs /\ Right(Divided(r), n, d)
<1> DEFINE Q   == Quotient(n, d)
           bad == d = 0 \/ (n = -(Reg * Top) /\ d = -1)
           q   == IF bad THEN Saturated(n) ELSE Q
           rem == IF bad THEN 0 ELSE n - Q * d
           fit == IF q \in Short THEN q ELSE Saturated(n)
           u   == Unsigned(fit, Reg)
           v   == Unsigned(rem, Reg)
           r2  == [r EXCEPT !.dvdnt = u, !.dvdntl = u, !.dvdnth = v,
                            !.ovf = @ \/ bad \/ fit # q]
<1>1. Divided(r) = r2
  BY DEF Divided, Short
<1>2. /\ Top \in Nat \ {0} /\ Reg = 2 * Top /\ Reg \in Nat \ {0} /\ n \in Int /\ d \in Int
      /\ Reg * Top \in Nat \ {0}
  BY Sizes
<1>3. Saturated(n) \in Short
  BY <1>2 DEF Saturated, Short
<1>4. fit \in Short
  <2> HIDE DEF q
  <2> QED BY <1>3
<1>5. d # 0 => /\ Q \in Int /\ Magnitude(n - Q * d) < Magnitude(d) /\ (n - Q * d) * n >= 0
               /\ (n = 0 => Q = 0)
  BY <1>2, QuotientIs
<1> HIDE DEF Q
<1>6. rem \in Short
  <2>1. CASE bad
    <3>1. rem = 0
      BY <2>1
    <3> QED BY <1>2, <3>1 DEF Short
  <2>2. CASE ~bad
    <3>1. d # 0 /\ Q \in Int /\ n - Q * d \in Int
      BY <1>2, <1>5, <2>2
    <3>2. Magnitude(d) <= Top
      BY <1>2 DEF Magnitude, Short
    <3>3. \A y \in Int : Magnitude(y) < Magnitude(d) => y \in Short
      BY <1>2, <3>2 DEF Magnitude, Short
    <3> QED BY <1>5, <2>2, <3>1, <3>3
  <2> QED BY <2>1, <2>2
<1> HIDE DEF bad, q, fit, rem
<1>7. /\ u \in 0..(Reg - 1) /\ SignedOf(u, Reg) = fit
      /\ v \in 0..(Reg - 1) /\ SignedOf(v, Reg) = rem
  BY <1>2, <1>4, <1>6, SignedBack DEF Short
<1> HIDE DEF u, v
<1>8. r2 \in DivRegs /\ r2.dvdnt = u /\ r2.dvdnth = v /\ (r2.ovf <=> bad \/ fit # q)
  <2>1. u \in Nat /\ v \in Nat
    BY <1>2, <1>7
  <2>2. r2.dvdnt = u /\ r2.dvdnth = v /\ r2.ovf = (r.ovf \/ bad \/ fit # q)
    BY DEF DivRegs
  <2>3. (r.ovf \/ bad \/ fit # q) \in BOOLEAN
    OBVIOUS
  <2>4. r2 \in DivRegs
    BY <2>1 DEF DivRegs
  <2> QED BY <2>2, <2>4
<1> HIDE DEF r2
<1>9. ASSUME bad \/ fit # q PROVE Right(r2, n, d)
  <2>1. CASE d = 0
    BY <1>8, <1>9, <2>1 DEF Right
  <2>2. CASE d # 0
    <3>1. Q \notin Short /\ n # 0
      <4>1. CASE bad
        <5>1. n = -(Reg * Top) /\ d = -1
          BY <2>2, <4>1 DEF bad
        <5>2. Q = Reg * Top
          <6> DEFINE h == Reg * Top
          <6>1. h \in Nat \ {0} /\ n = -h /\ d = -1
            BY <1>2, <5>1
          <6> HIDE DEF h
          <6>2. Magnitude(n) = h /\ Magnitude(d) = 1 /\ n < 0 /\ d < 0
            <7>1. \A y \in Nat \ {0} : Magnitude(-y) = y /\ -y < 0
              BY DEF Magnitude
            <7>2. 1 \in Nat \ {0} /\ -1 < 0
              OBVIOUS
            <7> QED BY <6>1, <7>1, <7>2, Zenon
          <6>4. h \div 1 = h
            BY <6>1
          <6>3. Q = h
            BY <6>2, <6>4 DEF Q, Quotient
          <6> QED BY <6>3 DEF h
        <5>3. Reg * Top > Top - 1
          BY <1>2
        <5> QED BY <1>2, <5>1, <5>2, <5>3 DEF Short
      <4>2. CASE ~bad
        <5>1. q = Q /\ fit # q
          BY <1>9, <4>2 DEF q
        <5>2. Q \notin Short
          BY <5>1 DEF fit
        <5>3. 0 \in Short
          BY <1>2 DEF Short
        <5> QED BY <1>5, <2>2, <5>2, <5>3
      <4> QED BY <4>1, <4>2
    <3>2. ASSUME NEW x \in Short
          PROVE  Magnitude(n - x * d) >= Magnitude(d) \/ (n - x * d) * n < 0
      <4> SUFFICES ASSUME ~(Magnitude(n - x * d) >= Magnitude(d)), ~((n - x * d) * n < 0)
                   PROVE  FALSE
        OBVIOUS
      <4>1. x \in Int /\ n - x * d \in Int /\ (n - x * d) * n \in Int
        BY <1>2 DEF Short
      <4>2. Magnitude(n - x * d) \in Int /\ Magnitude(d) \in Int
        BY <1>2, <4>1 DEF Magnitude
      <4>3. Magnitude(n - x * d) < Magnitude(d) /\ (n - x * d) * n >= 0
        BY <4>1, <4>2
      <4>4. Q \in Int /\ Magnitude(n - Q * d) < Magnitude(d) /\ (n - Q * d) * n >= 0
        BY <1>5, <2>2
      <4>5. x = Q
        BY <1>2, <2>2, <3>1, <4>1, <4>3, <4>4, OnlyQuotient
      <4> QED BY <3>1, <4>5
    <3> QED BY <1>8, <1>9, <3>2 DEF Right
  <2> QED BY <2>1, <2>2
<1>10. ASSUME ~(bad \/ fit # q) PROVE Right(r2, n, d)
  <2>1. ~bad /\ fit = q /\ q = Q /\ d # 0 /\ rem = n - Q * d
    BY <1>10 DEF bad, q, rem
  <2>2. n = Q * d + rem
    <3> DEFINE p == Q * d
    <3>1. p \in Int /\ rem = n - p
      BY <1>2, <1>5, <2>1
    <3> HIDE DEF p
    <3>2. n = p + rem
      BY <1>2, <3>1
    <3> QED BY <3>2 DEF p
  <2>3. Magnitude(rem) < Magnitude(d) /\ rem * n >= 0
    BY <1>5, <2>1
  <2> QED BY <1>7, <1>8, <1>10, <2>1, <2>2, <2>3 DEF Right
<1> QED BY <1>1, <1>8, <1>9, <1>10

-----------------------------------------------------------------------------
(* Where the program is, the registers hold what it has written so far.     *)
DivInv ==
    /\ dreg \in DivRegs
    /\ dstep \in {"ask", "short", "long", "low", "read"}
    /\ dstep # "ask" => divide.d \in Short /\ divide.n \in Long
    /\ dstep = "short" => divide.n \in Short
    /\ dstep \in {"short", "long", "low"} =>
         dreg.dvsr = Unsigned(divide.d, Reg) /\ ~dreg.ovf
    /\ dstep = "low" => dreg.dvdnth = Unsigned(divide.n, Reg * Reg) \div Reg
    /\ dstep = "read" => Right(dreg, divide.n, divide.d)

LEMMA DivStart == DivInit => DivInv
BY DEF DivInit, DivInv, DivRegs

LEMMA UnsignedIs ==
    ASSUME NEW n \in Long
    PROVE  /\ Unsigned(n, Reg * Reg) \in 0..(Reg * Reg - 1) /\ Unsigned(n, Reg) \in 0..(Reg - 1)
           /\ Unsigned(n, Reg * Reg) \div Reg \in Nat
           /\ SignedOf(Unsigned(n, Reg * Reg), Reg * Reg) = n
           /\ (Unsigned(n, Reg * Reg) \div Reg) * Reg + Unsigned(n, Reg) = Unsigned(n, Reg * Reg)
<1> DEFINE h == Reg * Top
           S == Reg * Reg
           u == Unsigned(n, S)
<1>1. h \in Nat \ {0} /\ S = 2 * h /\ Reg \in Nat \ {0} /\ n \in (-h)..(h - 1) /\ S \in Nat \ {0}
      /\ n \in Int
  <2>1. h \in Nat \ {0} /\ S = 2 * h /\ Reg \in Nat \ {0} /\ n \in (-h)..(h - 1) /\ n \in Int
    BY Sizes DEF Long
  <2> HIDE DEF h, S
  <2> QED BY <2>1
<1>2. u \in 0..(S - 1) /\ SignedOf(u, S) = n
  <2> HIDE DEF h, S
  <2> QED BY <1>1, SignedBack
<1>3. n = S * (n \div S) + u /\ n \div S \in Int
  <2> HIDE DEF h, S
  <2> QED BY <1>1, DivModOf DEF u, Unsigned
<1>4. PICK k \in Int : n = S * k + u
  BY <1>3
<1> HIDE DEF u
<1>5. u \in Int /\ u \div Reg \in Int /\ u % Reg \in 0..(Reg - 1)
      /\ u = Reg * (u \div Reg) + (u % Reg)
  <2>1. u \in Int
    <3> HIDE DEF S
    <3> QED BY <1>1, <1>2
  <2> QED BY <1>1, <2>1, DivModOf
<1>6. n % Reg = u % Reg
  <2> DEFINE e == u \div Reg
             f == u % Reg
  <2>1. e \in Int /\ f \in 0..(Reg - 1) /\ u = Reg * e + f
    BY <1>5
  <2> HIDE DEF e, f
  <2>2. n = Reg * (Reg * k + e) + f /\ Reg * k + e \in Int
    BY <1>1, <1>4, <2>1
  <2>3. (Reg * (Reg * k + e) + f) % Reg = f
    BY <1>1, <2>1, <2>2, DivMod
  <2> QED BY <2>2, <2>3 DEF f
<1>7. u \div Reg >= 0
  <2>1. u \in Nat
    <3> HIDE DEF S
    <3> QED BY <1>1, <1>2
  <2> QED BY <1>1, <2>1
<1>8. Unsigned(n, Reg) = u % Reg /\ (u \div Reg) * Reg = Reg * (u \div Reg)
  BY <1>1, <1>5, <1>6 DEF Unsigned
<1> QED BY <1>1, <1>2, <1>5, <1>7, <1>8 DEF u

LEMMA DvsrKeeps == ASSUME DivInv, WriteDvsr PROVE DivInv'
<1>1. PICK d \in Short, n \in DivLong \cup Short, form \in {"short", "long"} :
         /\ form = "short" <=> n \in Short
         /\ divide' = [n |-> n, d |-> d, form |-> form]
         /\ dreg' = [dreg EXCEPT !.dvsr = Unsigned(d, Reg), !.ovf = FALSE]
         /\ dstep' = form
  BY DEF WriteDvsr, Short
<1>2. n \in Long /\ divide'.d = d /\ divide'.n = n
  BY <1>1, Sizes, DivLongAssumption DEF Long
<1>3. Unsigned(d, Reg) \in Nat
  BY Sizes, SignedBack DEF Short
<1>4. dreg' \in DivRegs /\ dreg'.dvsr = Unsigned(d, Reg) /\ ~dreg'.ovf
  BY <1>1, <1>3 DEF DivInv, DivRegs
<1> QED BY <1>1, <1>2, <1>4 DEF DivInv

LEMMA DvdntKeeps == ASSUME DivInv, WriteDvdnt PROVE DivInv'
<1> DEFINE n == divide.n
           d == divide.d
           v == Unsigned(n, Reg)
           e == IF v >= Top THEN Reg - 1 ELSE 0
           r == [dreg EXCEPT !.dvdntl = v, !.dvdnth = e]
<1>1. n \in Short /\ n \in Long /\ d \in Short /\ dreg \in DivRegs
      /\ dreg.dvsr = Unsigned(d, Reg) /\ ~dreg.ovf
  BY DEF DivInv, WriteDvdnt
<1>2. Top \in Nat \ {0} /\ Reg = 2 * Top /\ Reg \in Nat \ {0}
  BY Sizes
<1> HIDE DEF n, d
<1>3. v \in 0..(Reg - 1) /\ SignedOf(v, Reg) = n /\ SignedOf(Unsigned(d, Reg), Reg) = d
  BY <1>1, <1>2, SignedBack DEF Short
<1> HIDE DEF v
<1>4. v \in Nat /\ e \in Nat /\ Reg \div 2 = Top
  BY <1>2, <1>3
<1>5. SignedOf(e * Reg + v, Reg * Reg) = n
  <2>1. Reg * Reg \in Nat /\ (Reg * Reg) \div 2 = Reg * Top /\ Reg * Top \in Nat
        /\ Reg <= Reg * Reg /\ Top <= Reg * Top
    <3>1. Reg * Reg = 2 * (Reg * Top) /\ Reg * Top \in Nat /\ Top <= Reg * Top
      BY <1>2, Sizes
    <3> DEFINE h == Reg * Top
    <3>2. h \in Nat
      BY <3>1
    <3> HIDE DEF h
    <3>3. (2 * h) \div 2 = h
      BY <3>2
    <3> QED BY <1>2, <3>1, <3>2, <3>3 DEF h
  <2>2. CASE v >= Top
    <3>1. n = v - Reg /\ e = Reg - 1 /\ (Reg - 1) * Reg = Reg * Reg - Reg
      BY <1>2, <1>3, <1>4, <2>2 DEF SignedOf
    <3>2. Reg * Top <= Reg * Reg - Reg + Top
      <4>1. Reg * Reg = 2 * (Reg * Top)
        BY Sizes
      <4> QED BY <1>2, <2>1, <4>1
    <3> DEFINE S == Reg * Reg
               h == Reg * Top
    <3>3. S \in Nat /\ S \div 2 = h /\ h \in Nat /\ h <= S - Reg + Top
          /\ (Reg - 1) * Reg = S - Reg
      BY <2>1, <3>1, <3>2
    <3> HIDE DEF S, h
    <3>4. SignedOf(S - Reg + v, S) = v - Reg
      BY <1>2, <1>3, <2>2, <3>3 DEF SignedOf
    <3> QED BY <3>1, <3>3, <3>4 DEF S
  <2>3. CASE ~(v >= Top)
    <3>1. n = v /\ e * Reg + v = v
      BY <1>2, <1>3, <1>4, <2>3 DEF SignedOf
    <3> DEFINE S == Reg * Reg
               h == Reg * Top
    <3>2. S \in Nat /\ S \div 2 = h /\ h \in Nat /\ Top <= h
      BY <2>1
    <3> HIDE DEF S, h
    <3>3. SignedOf(v, S) = v
      BY <1>2, <1>3, <2>3, <3>2 DEF SignedOf
    <3> QED BY <3>1, <3>3 DEF S
  <2> QED BY <2>2, <2>3
<1> HIDE DEF e
<1>6. r \in DivRegs /\ ~r.ovf /\ r.dvsr = dreg.dvsr /\ r.dvdnth = e /\ r.dvdntl = v
  BY <1>1, <1>4 DEF DivRegs
<1>7. dreg' = Divided(r) /\ dstep' = "read" /\ divide' = divide
  BY DEF WriteDvdnt, Extended, v, e, n
<1> HIDE DEF r
<1>8. Divided(r) \in DivRegs /\ Right(Divided(r), n, d)
  BY <1>1, <1>3, <1>5, <1>6, DivisionRight
<1> QED BY <1>1, <1>7, <1>8 DEF DivInv, n, d

LEMMA DvdnthKeeps == ASSUME DivInv, WriteDvdnth PROVE DivInv'
<1>1. divide.n \in Long
  BY DEF DivInv, WriteDvdnth
<1>2. Unsigned(divide.n, Reg * Reg) \div Reg \in Nat
  BY <1>1, UnsignedIs
<1> QED BY <1>2 DEF DivInv, WriteDvdnth, DivRegs

LEMMA DvdntlKeeps == ASSUME DivInv, WriteDvdntl PROVE DivInv'
<1> DEFINE n == divide.n
           d == divide.d
           r == [dreg EXCEPT !.dvdntl = Unsigned(n, Reg)]
<1>1. n \in Long /\ d \in Short /\ dreg \in DivRegs /\ dreg.dvsr = Unsigned(d, Reg) /\ ~dreg.ovf
      /\ dreg.dvdnth = Unsigned(n, Reg * Reg) \div Reg
  BY DEF DivInv, WriteDvdntl
<1>2. dreg' = Divided(r) /\ dstep' = "read" /\ divide' = divide
  BY DEF WriteDvdntl
<1> HIDE DEF n, d
<1>3. Unsigned(n, Reg) \in Nat /\ SignedOf(Unsigned(d, Reg), Reg) = d
  BY <1>1, Sizes, SignedBack, UnsignedIs DEF Short
<1>4. r \in DivRegs /\ ~r.ovf /\ r.dvsr = dreg.dvsr /\ r.dvdntl = Unsigned(n, Reg)
      /\ r.dvdnth = Unsigned(n, Reg * Reg) \div Reg
  BY <1>1, <1>3 DEF DivRegs
<1> HIDE DEF r
<1>5. SignedOf(r.dvdnth * Reg + r.dvdntl, Reg * Reg) = n
  BY <1>1, <1>4, UnsignedIs
<1>6. Divided(r) \in DivRegs /\ Right(Divided(r), n, d)
  BY <1>1, <1>3, <1>4, <1>5, DivisionRight
<1> QED BY <1>1, <1>2, <1>6 DEF DivInv, n, d

(* The divide unit returns the truncated quotient and the remainder, or     *)
(* says that no register holds the quotient, for registers of every width,  *)
(* every dividend of either form and whatever the last division left.       *)
THEOREM DividesAlways == DivSpec => []DividesRight
<1>1. DivInv /\ [DivNext]_divvars => DivInv'
  <2> SUFFICES ASSUME DivInv, [DivNext]_divvars PROVE DivInv'
    OBVIOUS
  <2>1. CASE UNCHANGED divvars
    BY <2>1 DEF divvars, DivInv
  <2> QED BY <2>1, DvsrKeeps, DvdntKeeps, DvdnthKeeps, DvdntlKeeps DEF DivNext
<1>2. DivInv => DividesRight
  BY DEF DivInv, DividesRight, Right, Short
<1> QED BY <1>1, <1>2, DivStart, PTL DEF DivSpec

-----------------------------------------------------------------------------
(***************************************************************************)
(* The two sound chips, proved for every bound and every sequence of ticks *)
(* and writes.  The YM2612: what a write has spent early is exactly what   *)
(* the ticks to come owe back.  The PSG: no channel stops for good.        *)
(***************************************************************************)

YmTypeOK == ym_div \in 0..5 /\ ym_debt \in Nat /\ clocked \in Nat /\ elapsed \in Nat

YmInv == YmTypeOK /\ KeepsTime

(* Six divides every number with a remainder below six. *)
LEMMA DivideBySix ==
    ASSUME NEW n \in Nat
    PROVE  n \div 6 \in Nat /\ n % 6 \in 0..5 /\ n = 6 * (n \div 6) + (n % 6)
  OBVIOUS

(* No tick is paid for by more than it is due or than is owed. *)
LEMMA PaidBounds ==
    ASSUME NEW n \in Nat, ym_debt \in Nat
    PROVE  Paid(n) \in Nat /\ Paid(n) <= n /\ Paid(n) <= ym_debt
  BY DEF Paid

(* A write (sound_ym_write) keeps the account. *)
LEMMA WriteKeeps == YmInv /\ YmWrite => YmInv'
  BY DEF YmInv, YmTypeOK, KeepsTime, YmWrite, YmClock, Owed

(* A tick (sound_ym_tick) keeps the account. *)
LEMMA TickKeeps ==
    ASSUME NEW c \in Nat, YmInv, YmTick(c)
    PROVE  YmInv'
<1> DEFINE x == ym_div + c
           due == x \div 6
           paid == Paid(due)
<1>1. x \in Nat /\ ym_debt \in Nat /\ clocked \in Nat /\ elapsed \in Nat
  BY DEF YmInv, YmTypeOK
<1>2. due \in Nat /\ (x % 6) \in 0..5 /\ x = 6 * due + (x % 6)
  BY <1>1, DivideBySix
<1>3. paid \in Nat /\ paid <= due /\ paid <= ym_debt
  BY <1>1, <1>2, PaidBounds
<1>4. /\ ym_div' = x % 6
      /\ ym_debt' = ym_debt - paid
      /\ clocked' = clocked + (due - paid)
      /\ elapsed' = elapsed + c
  BY DEF YmTick, YmClock
<1>5. 6 * clocked + ym_div = elapsed + 6 * ym_debt
  BY DEF YmInv, KeepsTime
<1>6. YmTypeOK'
  BY <1>1, <1>2, <1>3, <1>4 DEF YmTypeOK
<1>7. 6 * clocked' + ym_div' = elapsed' + 6 * ym_debt'
  <2> DEFINE rest == x % 6
  <2>1. rest \in 0..5 /\ ym_div + c = 6 * due + rest /\ ym_div \in 0..5
    BY <1>2 DEF YmInv, YmTypeOK
  <2>2. ym_div' = rest
    BY <1>4
  <2> HIDE DEF rest, due, paid
  <2> QED BY <1>1, <1>2, <1>3, <1>4, <1>5, <2>1, <2>2
<1> QED BY <1>6, <1>7 DEF YmInv, KeepsTime

(* KeepsTime: for every size of tick and however writes and ticks alternate *)
(* the chip's clock is the 68000's over six, but for what a write has spent *)
(* early (sound.c, sound_ym_write and sound_ym_tick).                        *)
THEOREM ClockKept == YmSpec => []KeepsTime
<1>1. YmInit => YmInv
  BY DEF YmInit, YmInv, YmTypeOK, KeepsTime
<1>2. YmInv /\ [YmNext]_ymvars => YmInv'
  <2> SUFFICES ASSUME YmInv, [YmNext]_ymvars PROVE YmInv'
    OBVIOUS
  <2>1. CASE YmWrite
    BY <2>1, WriteKeeps
  <2>2. CASE \E c \in YmCycles : YmTick(c)
    <3> PICK c \in YmCycles : YmTick(c)
      BY <2>2
    <3>1. c \in Nat
      BY ChipsAssumption
    <3> QED BY <3>1, TickKeeps
  <2>3. CASE UNCHANGED ymvars
    BY <2>3 DEF ymvars, YmInv, YmTypeOK, KeepsTime
  <2> QED BY <2>1, <2>2, <2>3 DEF YmNext
<1>3. YmInv => KeepsTime
  BY DEF YmInv
<1> QED BY <1>1, <1>2, <1>3, PTL DEF YmSpec

-----------------------------------------------------------------------------
PsgTypeOK ==
    /\ period \in [lo : 0..1, hi : 0..1]
    /\ noise \in [rate : 0..3, white : BOOLEAN]
    /\ count \in [tone : Nat, noise : Nat]
    /\ flip \in BOOLEAN /\ lfsr \in Nat

PsgInv == PsgTypeOK /\ NeverDead

(* What a counter reloads with is never zero, a parked tone's period or not. *)
LEMMA Reloads ==
    ASSUME PsgTypeOK
    PROVE  Period \in Nat /\ NoiseReload \in Nat /\ NoiseReload > 0
<1>1. Period \in Nat
  BY DEF PsgTypeOK, Period
<1> QED BY <1>1 DEF PsgTypeOK, NoiseReload

(* A counter that is not zero counts down without going round. *)
LEMMA CountsDown ==
    ASSUME NEW n \in Nat, n > 0
    PROVE  Down(n) \in Nat /\ Down(n) < n
  BY DEF Down

(* A shift of a register that is not empty leaves it so: its last bit, when *)
(* it is the only one, is fed back at the top.                              *)
LEMMA ShiftKeeps ==
    ASSUME PsgTypeOK, lfsr > 0
    PROVE  /\ (lfsr \div 2) + LfsrTop * Feedback \in Nat
           /\ (lfsr \div 2) + LfsrTop * Feedback > 0
<1>1. lfsr \in Nat /\ LfsrTop \in Nat /\ LfsrTop > 0
  BY ChipsAssumption DEF PsgTypeOK
<1>2. Feedback \in {0, 1}
  <2>1. Bit(lfsr, 1) \in {0, 1} /\ Bit(lfsr, 8) \in {0, 1}
    BY <1>1 DEF Bit
  <2> QED BY <2>1 DEF Feedback
<1>3. lfsr = 1 => Feedback = 1
  <2>1. Bit(1, 1) = 1 /\ Bit(1, 8) = 0
    BY DEF Bit
  <2> QED BY <2>1 DEF Feedback
<1>4. lfsr # 1 => lfsr \div 2 > 0
  BY <1>1
<1>5. lfsr \div 2 \in Nat
  BY <1>1
<1>6. CASE Feedback = 0
  <2>1. LfsrTop * Feedback = 0
    BY <1>1, <1>6
  <2> QED BY <1>3, <1>4, <1>5, <1>6, <2>1
<1>7. CASE Feedback = 1
  <2>1. LfsrTop * Feedback = LfsrTop
    BY <1>1, <1>7
  <2> QED BY <1>1, <1>5, <2>1
<1> QED BY <1>2, <1>6, <1>7

(* psg_write leaves the counters alone, and fills the register or leaves it. *)
LEMMA PsgWriteKeeps ==
    ASSUME PsgInv,
           \/ \E lo \in 0..1 : PsgTone(lo)
           \/ \E rate \in 0..3, white \in BOOLEAN, first \in BOOLEAN : PsgNoise(rate, white, first)
           \/ \E hi \in 0..1 : PsgMore(hi)
           \/ PsgOther
    PROVE  PsgInv'
<1> USE DEF PsgInv, PsgTypeOK, NeverDead
<1>1. CASE \E lo \in 0..1 : PsgTone(lo)
  BY <1>1 DEF PsgTone
<1>2. CASE \E rate \in 0..3, white \in BOOLEAN, first \in BOOLEAN : PsgNoise(rate, white, first)
  BY <1>2, ChipsAssumption DEF PsgNoise
<1>3. CASE \E hi \in 0..1 : PsgMore(hi)
  BY <1>3 DEF PsgMore
<1>4. CASE PsgOther
  BY <1>4 DEF PsgOther
<1> QED BY <1>1, <1>2, <1>3, <1>4

LEMMA PsgStepKeeps == PsgInv /\ PsgStep => PsgInv'
<1> SUFFICES ASSUME PsgInv, PsgStep PROVE PsgInv'
  OBVIOUS
<1>1. PsgTypeOK /\ count.tone \in Nat /\ count.noise \in Nat
      /\ count.tone > 0 /\ count.noise > 0 /\ lfsr > 0
  BY DEF PsgInv, PsgTypeOK, NeverDead
<1> DEFINE tone == Down(count.tone)
           hiss == Down(count.noise)
           newtone == IF Period = 0 THEN count.tone ELSE IF tone = 0 THEN Period ELSE tone
           newhiss == IF hiss = 0 THEN NoiseReload ELSE hiss
<1>2. tone \in Nat /\ hiss \in Nat
  BY <1>1, CountsDown
<1>3. newtone \in Nat /\ newtone > 0 /\ newhiss \in Nat /\ newhiss > 0
  <2> HIDE DEF tone, hiss
  <2> QED BY <1>1, <1>2, Reloads
<1>4. count' = [tone |-> newtone, noise |-> newhiss]
  BY DEF PsgStep
<1>5. count' \in [tone : Nat, noise : Nat] /\ count'.tone > 0 /\ count'.noise > 0
  <2> HIDE DEF newtone, newhiss
  <2> QED BY <1>3, <1>4
<1>6. lfsr' \in Nat /\ lfsr' > 0
  BY <1>1, ShiftKeeps DEF PsgStep, PsgTypeOK
<1>7. flip' \in BOOLEAN /\ period' = period /\ noise' = noise
  BY DEF PsgStep
<1> QED BY <1>1, <1>5, <1>6, <1>7 DEF PsgInv, PsgTypeOK, NeverDead

(* NeverDead: for every order of writes and steps, no counter of the PSG is *)
(* ever at zero and its shift register never empties, a parked tone whose   *)
(* period the noise borrows among them (psg.c, step and noise_shift).       *)
THEOREM ChannelsLive == PsgSpec => []NeverDead
<1>1. PsgInit => PsgInv
  <2> SUFFICES ASSUME PsgInit PROVE PsgTypeOK /\ NeverDead
    BY DEF PsgInv
  <2>1. lfsr \in Nat /\ lfsr > 0 /\ flip \in BOOLEAN
    <3>1. flip = FALSE /\ lfsr = LfsrTop
      BY DEF PsgInit
    <3>2. LfsrTop \in Nat /\ LfsrTop > 0
      BY ChipsAssumption
    <3>3. flip \in BOOLEAN
      BY <3>1, Zenon
    <3> QED BY <3>1, <3>2, <3>3
  <2>2. period \in [lo : 0..1, hi : 0..1] /\ noise \in [rate : 0..3, white : BOOLEAN]
    BY DEF PsgInit
  <2>3. count \in [tone : Nat, noise : Nat] /\ count.tone > 0 /\ count.noise > 0
    BY DEF PsgInit
  <2> QED BY <2>1, <2>2, <2>3 DEF PsgTypeOK, NeverDead
<1>2. PsgInv /\ [PsgNext]_psgvars => PsgInv'
  <2> SUFFICES ASSUME PsgInv, [PsgNext]_psgvars PROVE PsgInv'
    OBVIOUS
  <2>1. CASE PsgStep
    BY <2>1, PsgStepKeeps
  <2>2. CASE UNCHANGED psgvars
    BY <2>2 DEF psgvars, PsgInv, PsgTypeOK, NeverDead
  <2> QED BY <2>1, <2>2, PsgWriteKeeps DEF PsgNext
<1>3. PsgInv => NeverDead
  BY DEF PsgInv
<1> QED BY <1>1, <1>2, <1>3, PTL DEF PsgSpec
=============================================================================

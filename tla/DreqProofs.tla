------------------------------ MODULE DreqProofs ------------------------------
(***************************************************************************)
(* Proofs about Dreq: for every depth of the FIFO, every size of a group   *)
(* and every set of lengths that are whole groups.                         *)
(***************************************************************************)
EXTENDS Dreq, SequenceTheorems, TLAPS

Wanted == Last(posted)      \* words of the list posted last
Lists  == Len(posted)

Before == {"idle", "len", "open"}
Moving == {"push", "check"}

Shape ==
    /\ pc68k \in {"idle", "len", "open", "spin", "push", "check"}
    /\ posted \in Seq(Lengths) /\ Lists <= MaxLists
    /\ pushed \in Nat
    /\ dreq_len \in Lengths \cup {0}
    /\ dreq_left \in 0..dreq_len
    /\ pc68k # "idle" => posted # <<>> /\ dreq_len = Wanted

(* The master has nothing to do. *)
Rests == ~irq /\ ~intctl /\ handler = "main"

(* The channel is armed for the list and has all of it ahead. *)
Armed == dmac = [de |-> TRUE, tcr |-> Wanted, te |-> FALSE] /\ mem = <<>>

(* Where the handler is, while the 68000 spins. *)
Answering ==
    \/ intctl /\ irq /\ handler = "main" /\ ~dmac.de
    \/ intctl /\ ~irq /\ handler = "entered" /\ ~dmac.de
    \/ intctl /\ ~irq /\ handler = "armed" /\ Armed
    \/ Rests /\ Armed

(* What each place of the 68000's program knows of the adapter, the channel *)
(* and the buffer.                                                          *)
Known ==
    /\ fifo = <<>>
    /\ dmac = [de |-> dmac.de, tcr |-> dmac.tcr, te |-> dmac.te]
    /\ dmac.de \in BOOLEAN /\ dmac.te \in BOOLEAN /\ dmac.tcr \in Nat
    /\ intctl \in BOOLEAN /\ irq \in BOOLEAN /\ open68s \in BOOLEAN
    /\ pc68k \in Before => Rests /\ ~dmac.de
    /\ pc68k = "idle" => ~open68s /\ (posted # <<>> => mem = Current /\ dmac.te)
    /\ pc68k = "len"  => ~open68s
    /\ pc68k \in {"idle", "len"} => dreq_left = 0
    /\ pc68k \in {"open", "spin"} => open68s /\ dreq_left = Wanted
    /\ pc68k \in {"len", "open", "spin"} => pushed = 0
    /\ pc68k = "spin" => Answering
    /\ pc68k \in Moving =>
         /\ Rests
         /\ pushed \in 0..Wanted
         /\ dreq_left = Wanted - pushed
         /\ open68s <=> dreq_left > 0
         /\ dmac.de <=> open68s
         /\ dmac.te <=> ~open68s
         /\ dmac.tcr = dreq_left
         /\ mem = ListOf(Lists, pushed)
    /\ pc68k = "push" => pushed < Wanted

(* Every list but the one under way has arrived as it was posted. *)
Ended == pc68k = "idle" \/ (pc68k \in Moving /\ pushed = Wanted)
Arrived == got = [t \in 1..(IF Ended THEN Lists ELSE Lists - 1) |-> ListOf(t, posted[t])]

Transfer == Shape /\ Known /\ Arrived

-----------------------------------------------------------------------------
LEMMA ListGrows ==
  ASSUME NEW t, NEW n \in Nat
  PROVE  /\ ListOf(t, 0) = <<>>
         /\ ListOf(t, n) \o <<<<t, n + 1>>>> = ListOf(t, n + 1)
  BY DEF ListOf

LEMMA WantedIsWhole ==
  ASSUME Shape, posted # <<>>
  PROVE  Wanted \in Lengths /\ Wanted \in Nat \ {0} /\ Wanted % Group = 0 /\ Lists \in Nat \ {0}
         /\ Wanted = posted[Lists]
<1>1. Lists \in Nat \ {0} /\ Wanted = posted[Lists]
  BY DEF Shape, Wanted, Lists, Last
<1>2. Wanted \in Lengths
  BY <1>1 DEF Shape, Lists
<1>3. QED
  BY <1>1, <1>2, DreqAssumption

LEMMA TransferInit == Init => Transfer
<1> SUFFICES ASSUME Init PROVE Transfer
  OBVIOUS
<1>1. Shape
  BY DreqAssumption DEF Init, Shape, Lists
<1>4. Known
  BY DEF Init, Known, Rests, Before, Moving
<1>2. Arrived
  BY DEF Init, Arrived, Ended, Lists
<1>3. QED
  BY <1>1, <1>4, <1>2 DEF Transfer

LEMMA WriteLenKeeps ==
  ASSUME Transfer, NEW n \in Lengths, WriteLen(n)
  PROVE  Transfer'
<1>1. /\ pc68k = "idle" /\ pc68k' = "len" /\ Lists < MaxLists
      /\ posted' = Append(posted, n) /\ pushed' = 0 /\ dreq_len' = n
      /\ UNCHANGED <<intctl, irq, handler, open68s, dreq_left, fifo, dmac, mem, got>>
  BY DEF WriteLen, int_vars, dmac_vars, Lists
<1>2. /\ posted \in Seq(Lengths) /\ posted' \in Seq(Lengths) /\ Lists \in Nat
      /\ Lists' = Lists + 1 /\ posted' # <<>> /\ Wanted' = n
      /\ \A t \in 1..Lists : posted'[t] = posted[t]
  BY <1>1 DEF Transfer, Shape, Lists, Wanted, Last
<1>3. n \in Nat \ {0} /\ MaxLists \in Nat
  BY DreqAssumption
<1>4. Shape'
  BY <1>1, <1>2, <1>3 DEF Transfer, Shape, Known, Lists
<1>5. Known'
  BY <1>1 DEF Transfer, Known, Before, Moving, Rests
<1>6. Arrived'
  <2>1. got = [t \in 1..Lists |-> ListOf(t, posted[t])]
    BY <1>1 DEF Transfer, Arrived, Ended
  <2>2. ~Ended' /\ Lists' - 1 = Lists
    BY <1>1, <1>2 DEF Ended, Moving
  <2>3. QED
    BY <1>1, <1>2, <2>1, <2>2 DEF Arrived
<1>7. QED
  BY <1>4, <1>5, <1>6 DEF Transfer

LEMMA WriteCtlKeeps ==
  ASSUME Transfer, WriteCtl
  PROVE  Transfer'
<1>1. /\ pc68k' = IF pc68k = "len" THEN "open" ELSE pc68k
      /\ pc68k # "idle" /\ open68s' = TRUE
      /\ dreq_left' = IF open68s THEN dreq_left ELSE dreq_len
      /\ pc68k # "len" => open68s
      /\ UNCHANGED <<posted, pushed, intctl, irq, handler, dreq_len, fifo, dmac, mem, got>>
  BY DEF WriteCtl, LeftOnWrite, int_vars, dmac_vars, Transfer, Shape, Known
<1>2. posted # <<>> /\ dreq_len = Wanted /\ Wanted \in Nat \ {0}
  BY <1>1, WantedIsWhole DEF Transfer, Shape
<1>3. Shape'
  BY <1>1, <1>2 DEF Transfer, Shape, Wanted, Lists
<1>4. Known'
  <2>1. CASE pc68k = "len"
    BY <1>1, <1>2, <2>1 DEF Transfer, Shape, Known, Before, Moving, Rests, Wanted
  <2>2. CASE pc68k # "len"
    <3>1. UNCHANGED <<pc68k, open68s, dreq_left>>
      BY <1>1, <2>2 DEF Transfer, Known
    <3>2. QED
      BY <1>1, <3>1 DEF Transfer, Known, Before, Moving, Rests, Wanted, Lists, Current, Answering, Armed
  <2>3. QED
    BY <2>1, <2>2
<1>5. Arrived'
  BY <1>1 DEF Transfer, Shape, Arrived, Ended, Moving, Wanted, Lists
<1>6. QED
  BY <1>3, <1>4, <1>5 DEF Transfer

LEMMA SpinKeeps ==
  ASSUME Transfer, RaiseCommand \/ SpinEnds \/ Check
  PROVE  Transfer'
<1>1. UNCHANGED <<posted, pushed, handler, dreq_vars, dmac_vars>>
  BY DEF RaiseCommand, SpinEnds, Check, int_vars
<1>2. posted # <<>> /\ Wanted \in Nat \ {0} /\ Lists' = Lists /\ Wanted' = Wanted
  BY <1>1, WantedIsWhole DEF Transfer, Shape, RaiseCommand, SpinEnds, Check, Lists, Wanted
<1>3. Shape'
  BY <1>1, <1>2 DEF dreq_vars, Transfer, Shape, RaiseCommand, SpinEnds, Check
<1>4. CASE RaiseCommand
  <2>1. pc68k = "open" /\ pc68k' = "spin" /\ intctl' = TRUE /\ irq' = TRUE
    BY <1>4 DEF RaiseCommand
  <2>2. Known'
    BY <1>1, <1>2, <2>1 DEF dreq_vars, dmac_vars, Transfer, Known, Before, Moving, Answering, Rests
  <2>3. Arrived'
    BY <1>1, <1>2, <2>1 DEF dmac_vars, Transfer, Arrived, Ended, Moving
  <2>4. QED
    BY <1>3, <2>2, <2>3 DEF Transfer
<1>5. CASE SpinEnds
  <2>1. pc68k = "spin" /\ pc68k' = "push" /\ ~intctl /\ UNCHANGED <<intctl, irq>>
    BY <1>5 DEF SpinEnds, int_vars
  <2>2. Rests /\ Armed /\ open68s /\ dreq_left = Wanted /\ pushed = 0
    BY <2>1 DEF Transfer, Known, Answering
  <2>3. ListOf(Lists, 0) = <<>>
    BY ListGrows
  <2>4. Known'
    BY <1>1, <1>2, <2>1, <2>2, <2>3 DEF dreq_vars, dmac_vars, Transfer, Known, Before, Moving, Rests, Armed
  <2>5. Arrived'
    BY <1>1, <1>2, <2>1, <2>2 DEF dmac_vars, Transfer, Arrived, Ended, Moving
  <2>6. QED
    BY <1>3, <2>4, <2>5 DEF Transfer
<1>6. CASE Check
  <2>1. pc68k = "check" /\ pc68k' = (IF open68s THEN "push" ELSE "idle") /\ UNCHANGED <<intctl, irq>>
    BY <1>6 DEF Check, int_vars
  <2>2. /\ Rests /\ fifo = <<>> /\ pushed \in 0..Wanted /\ dreq_left = Wanted - pushed
        /\ open68s <=> dreq_left > 0
        /\ dmac.de <=> open68s
        /\ dmac.te <=> ~open68s
        /\ dmac.tcr = dreq_left
        /\ mem = ListOf(Lists, pushed)
    BY <2>1 DEF Transfer, Known, Moving
  <2>3. Known'
    <3>1. CASE open68s
      BY <1>1, <1>2, <2>1, <2>2, <3>1
      DEF dreq_vars, dmac_vars, Transfer, Known, Before, Moving, Rests
    <3>2. CASE ~open68s
      <4>1. pushed = Wanted /\ dreq_left = 0
        BY <1>2, <2>2, <3>2
      <4>3. mem = Current
        BY <2>2, <4>1 DEF Current, Wanted, Lists
      <4>2. QED
        BY <1>1, <1>2, <2>1, <2>2, <3>2, <4>1, <4>3
        DEF dreq_vars, dmac_vars, Transfer, Known, Before, Moving, Rests, Current
    <3>3. QED
      BY <3>1, <3>2
  <2>4. Ended' <=> Ended
    <3>1. pushed = Wanted <=> ~open68s
      BY <1>2, <2>2
    <3>2. QED
      BY <1>1, <1>2, <2>1, <3>1 DEF Ended, Moving
  <2>5. Arrived'
    BY <1>1, <1>2, <2>4 DEF dmac_vars, Transfer, Arrived
  <2>6. QED
    BY <1>3, <2>3, <2>5 DEF Transfer
<1>7. QED
  BY <1>4, <1>5, <1>6

LEMMA MasterKeeps ==
  ASSUME Transfer, Master
  PROVE  Transfer'
<1>1. UNCHANGED <<pc68k, posted, pushed, dreq_len, open68s, dreq_left, fifo, got>>
  BY DEF Master, TakeCommand, Arm, Acknowledge, m68k_vars, dreq_vars, dmac_vars
<1>2. pc68k = "spin" /\ Answering /\ pushed = 0 /\ open68s /\ dreq_left = Wanted /\ fifo = <<>>
  BY DEF Transfer, Shape, Known, Before, Moving, Rests, Master, TakeCommand, Arm, Acknowledge
<1>3. posted # <<>> /\ dreq_len = Wanted /\ Wanted \in Nat \ {0} /\ Lists' = Lists /\ Wanted' = Wanted
  BY <1>1, <1>2, WantedIsWhole DEF Transfer, Shape, Lists, Wanted
<1>4. Answering' /\ dmac' = [de |-> dmac'.de, tcr |-> dmac'.tcr, te |-> dmac'.te]
      /\ dmac'.de \in BOOLEAN /\ dmac'.te \in BOOLEAN /\ dmac'.tcr \in Nat
      /\ intctl' \in BOOLEAN /\ irq' \in BOOLEAN
  <2>1. CASE TakeCommand
    BY <1>2, <1>3, <2>1 DEF TakeCommand, m68k_vars, dreq_vars, dmac_vars, Answering, Rests, Armed, Transfer, Known
  <2>2. CASE Arm
    BY <1>2, <1>3, <2>2 DEF Arm, m68k_vars, dreq_vars, Answering, Rests, Armed, Transfer, Known
  <2>3. CASE Acknowledge
    BY <1>2, <1>3, <2>3 DEF Acknowledge, m68k_vars, dreq_vars, dmac_vars, Answering, Rests, Armed, Transfer, Known
  <2>4. QED
    BY <2>1, <2>2, <2>3 DEF Master
<1>5. Shape'
  BY <1>1, <1>3 DEF Transfer, Shape
<1>6. Known'
  BY <1>1, <1>2, <1>3, <1>4 DEF Transfer, Known, Before, Moving
<1>7. Arrived'
  BY <1>1, <1>3 DEF Transfer, Arrived, Ended
<1>8. QED
  BY <1>5, <1>6, <1>7 DEF Transfer

(* A word pushed while its list is under way goes straight through the FIFO *)
(* to its place.                                                            *)
LEMMA OneWord ==
  ASSUME NEW w
  PROVE  SubSeq(<<w>>, 2, 1) = <<>> /\ SubSeq(<<w>>, 1, 1) = <<w>> /\ Len(<<w>>) = 1
<1>1. <<w>> \in Seq({w}) /\ Len(<<w>>) = 1
  OBVIOUS
<1>2. SubSeq(<<w>>, 2, 1) = <<>>
  BY <1>1, SubSeqEmpty
<1>3. SubSeq(<<w>>, 1, 1) = <<w>>
  BY <1>1, SubSeqFull
<1>4. QED
  BY <1>1, <1>2, <1>3

LEMMA DrainOne ==
  ASSUME NEW w, Drain(<<w>>), dmac.de, dmac.tcr \in Nat \ {0}
  PROVE  /\ fifo' = <<>>
         /\ mem' = mem \o <<w>>
         /\ dmac' = [de |-> dmac.tcr # 1, tcr |-> dmac.tcr - 1, te |-> dmac.te \/ dmac.tcr = 1]
         /\ got' = IF dmac.tcr = 1 THEN Append(got, mem') ELSE got
<1>1. Drained(<<w>>) = 1
  BY OneWord DEF Drained
<1>2. (1 > 0 /\ dmac.tcr - 1 = 0) <=> dmac.tcr = 1
  OBVIOUS
<1>3. /\ fifo' = SubSeq(<<w>>, 1 + 1, Len(<<w>>))
      /\ mem' = mem \o SubSeq(<<w>>, 1, 1)
      /\ dmac' = [de |-> dmac.de /\ ~(1 > 0 /\ dmac.tcr - 1 = 0), tcr |-> dmac.tcr - 1,
                  te |-> dmac.te \/ (1 > 0 /\ dmac.tcr - 1 = 0)]
      /\ got' = IF 1 > 0 /\ dmac.tcr - 1 = 0 THEN Append(got, mem') ELSE got
  BY <1>1 DEF Drain, TransferEnds
<1>4. QED
  BY <1>2, <1>3, OneWord

LEMMA WholeGroups ==
  ASSUME Shape, posted # <<>>, pushed < Wanted, (pushed + 1) % Group # 0
  PROVE  pushed + 1 < Wanted
BY WantedIsWhole, DreqAssumption DEF Shape

(* A word pushed while its list is under way goes straight through the FIFO *)
(* to its place.                                                            *)
LEMMA PushKeeps ==
  ASSUME Transfer, Push
  PROVE  Transfer'
<1> DEFINE w == <<Lists, pushed + 1>>
<1>1. /\ pc68k = "push" /\ fifo = <<>> /\ pushed \in Nat /\ pushed < Wanted
      /\ dreq_left = Wanted - pushed /\ open68s = TRUE /\ Rests
      /\ dmac.de /\ dmac.tcr = dreq_left /\ ~dmac.te
      /\ mem = ListOf(Lists, pushed)
  <2>1. pc68k = "push" /\ posted # <<>>
    BY DEF Push, Transfer, Shape
  <2>2. Wanted \in Nat /\ pushed \in Nat
    BY <2>1, WantedIsWhole DEF Transfer, Shape
  <2>3. pushed < Wanted /\ dreq_left = Wanted - pushed /\ dreq_left > 0
    BY <2>1, <2>2 DEF Transfer, Known, Moving
  <2>4. QED
    BY <2>1, <2>2, <2>3 DEF Transfer, Known, Moving
<1>2. /\ posted # <<>> /\ Wanted \in Nat \ {0} /\ Lists \in Nat \ {0}
      /\ dreq_len = Wanted /\ Wanted = posted[Lists]
  BY <1>1, WantedIsWhole DEF Transfer, Shape
<1>3. /\ UNCHANGED <<posted, intctl, irq, handler, dreq_len>>
      /\ pushed' = pushed + 1
      /\ dreq_left' = dreq_left - 1
      /\ open68s' = (dreq_left # 1)
      /\ pc68k' = IF (pushed + 1) % Group = 0 THEN "check" ELSE "push"
      /\ Lists' = Lists /\ Wanted' = Wanted
  BY <1>1, <1>2 DEF Push, int_vars, LastWord, Lists, Wanted
<1>4. Drain(<<w>>)
  <2>1. Append(fifo, w) = <<w>> /\ Len(fifo) = 0
    BY <1>1
  <2>2. Drain(IF Len(fifo) < Depth THEN Append(fifo, w) ELSE fifo)
    BY DEF Push, Lists
  <2>3. 0 < Depth
    BY DreqAssumption
  <2>4. QED
    BY <2>1, <2>2, <2>3
<1>5. dreq_left \in Nat \ {0}
  BY <1>1, <1>2
<1>6. /\ fifo' = <<>>
      /\ mem' = mem \o <<w>>
      /\ dmac' = [de |-> dreq_left # 1, tcr |-> dreq_left - 1, te |-> dmac.te \/ dreq_left = 1]
      /\ got' = IF dreq_left = 1 THEN Append(got, mem') ELSE got
  BY <1>1, <1>4, <1>5, DrainOne
<1>7. mem' = ListOf(Lists, pushed + 1)
  BY <1>1, <1>6, ListGrows
<1>8. pc68k' = "push" => pushed' < Wanted
  BY <1>1, <1>2, <1>3, WholeGroups DEF Transfer
<1>9. Shape'
  BY <1>1, <1>2, <1>3, <1>5 DEF Transfer, Shape
<1>10. Known'
  <2>1. /\ dmac' = [de |-> dmac'.de, tcr |-> dmac'.tcr, te |-> dmac'.te]
        /\ (dmac'.de <=> dreq_left # 1) /\ dmac'.tcr = dreq_left - 1 /\ (dmac'.te <=> dreq_left = 1)
        /\ dmac'.de \in BOOLEAN /\ dmac'.te \in BOOLEAN
    BY <1>1, <1>6
  <2>2. /\ pushed' \in 0..Wanted' /\ dreq_left' = Wanted' - pushed'
        /\ (open68s' <=> dreq_left' > 0) /\ open68s' \in BOOLEAN
        /\ dreq_left' \in Nat /\ (dreq_left' > 0 <=> dreq_left # 1)
    <3>1. open68s' \in BOOLEAN /\ (open68s' <=> dreq_left # 1)
      BY <1>3
    <3>2. dreq_left' \in Nat /\ (dreq_left' > 0 <=> dreq_left # 1)
      BY <1>3, <1>5
    <3>3. pushed' \in 0..Wanted' /\ dreq_left' = Wanted' - pushed'
      BY <1>1, <1>2, <1>3
    <3>4. QED
      BY <3>1, <3>2, <3>3
  <2>3. pc68k' \in Moving /\ pc68k' \notin Before \cup {"spin"} /\ Rests'
    BY <1>1, <1>3 DEF Moving, Before, Rests
  <2>4. intctl' \in BOOLEAN /\ irq' \in BOOLEAN
    BY <1>3 DEF Transfer, Known
  <2>5. QED
    BY <1>3, <1>5, <1>6, <1>7, <1>8, <2>1, <2>2, <2>3, <2>4 DEF Known, Before
<1>11. Arrived'
  <2>1. got = [t \in 1..Lists - 1 |-> ListOf(t, posted[t])]
    BY <1>1, <1>2 DEF Transfer, Arrived, Ended, Moving
  <2>2. Ended' <=> dreq_left = 1
    BY <1>1, <1>2, <1>3 DEF Ended, Moving
  <2>3. CASE dreq_left # 1
    BY <1>3, <1>6, <2>1, <2>2, <2>3 DEF Arrived
  <2>4. CASE dreq_left = 1
    <3>1. pushed + 1 = posted[Lists]
      BY <1>1, <1>2, <2>4
    <3>2. got' = Append(got, ListOf(Lists, posted[Lists]))
      BY <1>6, <1>7, <2>4, <3>1
    <3>3. got' = [t \in 1..Lists |-> ListOf(t, posted[t])]
      BY <1>2, <2>1, <3>2
    <3>4. QED
      BY <1>3, <2>2, <2>4, <3>3 DEF Arrived
  <2>5. QED
    BY <2>3, <2>4
<1>12. QED
  BY <1>9, <1>10, <1>11 DEF Transfer

LEMMA TransferStep == Transfer /\ [Next]_vars => Transfer'
<1> SUFFICES ASSUME Transfer, [Next]_vars PROVE Transfer'
  OBVIOUS
<1>1. CASE UNCHANGED vars
  BY <1>1 DEF vars, Transfer, Shape, Known, Arrived, Ended, Wanted, Lists, Before, Moving, Rests,
              Answering, Armed, Current
<1>2. QED
  BY <1>1, WriteLenKeeps, WriteCtlKeeps, SpinKeeps, PushKeeps, MasterKeeps DEF Next

-----------------------------------------------------------------------------
(* The adapter's count and the DMAC's agree throughout a push, and the FIFO *)
(* is empty after every word, for every depth, group and length.            *)
THEOREM CountsStayTogether == Spec => []CountsAgree
<1>1. Transfer => CountsAgree
  <2> SUFFICES ASSUME Transfer, pc68k \in {"push", "check"}
               PROVE  /\ fifo = <<>>
                      /\ dreq_left = Last(posted) - pushed
                      /\ dmac.tcr = dreq_left
                      /\ open68s = (dreq_left > 0)
                      /\ dmac.de = open68s
    BY DEF CountsAgree
  <2>1. /\ fifo = <<>> /\ dreq_left = Last(posted) - pushed /\ dmac.tcr = dreq_left
        /\ (open68s <=> dreq_left > 0) /\ (dmac.de <=> open68s)
        /\ open68s \in BOOLEAN /\ dmac.de \in BOOLEAN
    BY DEF Transfer, Known, Moving, Wanted
  <2>2. open68s = (dreq_left > 0) /\ dmac.de = open68s
    BY <2>1
  <2>3. QED
    BY <2>1, <2>2
<1>2. QED
  BY <1>1, TransferInit, TransferStep, PTL DEF Spec

(* Once 68S reads 0 the list lies whole and in order in the master's        *)
(* memory, whatever was posted before it.                                   *)
THEOREM ListsLandWhole == Spec => []ListIntact
<1>1. Transfer => ListIntact
  BY DEF Transfer, Known, ListIntact
<1>2. QED
  BY <1>1, TransferInit, TransferStep, PTL DEF Spec

(* The variables keep their types; an enabled channel has words left.       *)
THEOREM TypeCorrect == Spec => []TypeOK
<1>1. Transfer => TypeOK
  <2> SUFFICES ASSUME Transfer PROVE TypeOK
    OBVIOUS
  <2>1. /\ intctl \in BOOLEAN /\ irq \in BOOLEAN /\ open68s \in BOOLEAN
        /\ dmac \in [de : BOOLEAN, tcr : Nat, te : BOOLEAN]
        /\ Len(fifo) <= Depth
    BY DreqAssumption DEF Transfer, Known
  <2>2. handler \in {"main", "entered", "armed"}
    BY DEF Transfer, Shape, Known, Before, Moving, Rests, Answering
  <2>3. dmac.de => dmac.tcr > 0
    <3>1. CASE pc68k = "spin"
      <4>1. Wanted \in Nat \ {0}
        BY <3>1, WantedIsWhole DEF Transfer, Shape
      <4>2. QED
        BY <3>1, <4>1 DEF Transfer, Known, Answering, Armed
    <3>2. CASE pc68k # "spin"
      BY <3>2 DEF Transfer, Shape, Known, Before, Moving
    <3>3. QED
      BY <3>1, <3>2
  <2>4. QED
    BY <2>1, <2>2, <2>3 DEF TypeOK, Transfer, Shape, Lists
<1>2. QED
  BY <1>1, TransferInit, TransferStep, PTL DEF Spec

-----------------------------------------------------------------------------
(* The link seen from outside: what is in flight and what has arrived. *)
Flying == pc68k \in {"spin", "push", "check"} /\ Len(got) < Lists
Aloft  == IF Flying THEN Current ELSE <<>>
AllLists == {ListOf(t, n) : t \in 1..MaxLists, n \in Lengths}

LEMMA Underway ==
  ASSUME Transfer
  PROVE  Flying <=> (pc68k = "spin" \/ (pc68k \in Moving /\ pushed # Wanted))
<1>1. Lists \in Nat /\ (pc68k # "idle" => Lists # 0)
  BY DEF Transfer, Shape, Lists
<1>2. Len(got) = IF Ended THEN Lists ELSE Lists - 1
  BY <1>1 DEF Transfer, Arrived, Ended, Moving
<1>3. QED
  BY <1>1, <1>2 DEF Flying, Ended, Moving

LEMMA CurrentIsPosted ==
  ASSUME Transfer, posted # <<>>
  PROVE  Current \in AllLists /\ Current # <<>>
<1>1. Lists \in 1..MaxLists /\ Wanted \in Lengths /\ Wanted \in Nat \ {0}
  BY WantedIsWhole DEF Transfer, Shape
<1>2. Current = ListOf(Lists, Wanted)
  BY DEF Current, Lists, Wanted
<1>3. Len(ListOf(Lists, Wanted)) = Wanted
  BY <1>1 DEF ListOf
<1>4. QED
  BY <1>1, <1>2, <1>3 DEF AllLists

(* A step of the path is a step of the link, or one the link does not see.  *)
LEMMA StepIsLinked ==
  ASSUME Transfer, Transfer', [Next]_vars
  PROVE  \/ Aloft = <<>> /\ Aloft' \in AllLists /\ UNCHANGED got
         \/ Aloft # <<>> /\ got' = Append(got, Aloft) /\ Aloft' = <<>>
         \/ UNCHANGED <<Aloft, got>>
<1>1. CASE \E n \in Lengths : WriteLen(n)
  BY <1>1 DEF WriteLen, dmac_vars, Aloft, Flying
<1>2. CASE WriteCtl
  BY <1>2 DEF WriteCtl, dmac_vars, Aloft, Flying, Current, Lists
<1>3. CASE RaiseCommand
  <2>1. pc68k = "open" /\ pc68k' = "spin" /\ UNCHANGED <<got, posted>>
    BY <1>3 DEF RaiseCommand, dmac_vars
  <2>2. ~Flying /\ Flying'
    <3>1. Lists \in Nat \ {0} /\ Lists' = Lists
      BY <2>1, WantedIsWhole DEF Transfer, Shape, Lists
    <3>2. Len(got) = Lists - 1
      BY <2>1, <3>1 DEF Transfer, Arrived, Ended, Moving
    <3>3. QED
      BY <2>1, <3>1, <3>2 DEF Flying
  <2>3. Current' = Current /\ Current \in AllLists
    BY <2>1, CurrentIsPosted DEF Current, Transfer, Shape
  <2>4. QED
    BY <2>1, <2>2, <2>3 DEF Aloft
<1>4. CASE SpinEnds
  BY <1>4 DEF SpinEnds, dmac_vars, Aloft, Flying, Current, Lists
<1>5. CASE Check
  <2>1. UNCHANGED <<got, posted>> /\ pc68k = "check" /\ pc68k' \in {"push", "idle"}
        /\ (pc68k' = "idle" => ~open68s)
    BY <1>5 DEF Check, dmac_vars
  <2>2. pc68k' = "idle" => pushed = Wanted
    <3>1. Wanted \in Nat
      BY <2>1, WantedIsWhole DEF Transfer, Shape
    <3>2. QED
      BY <2>1, <3>1 DEF Transfer, Known, Moving
  <2>3. Flying' <=> Flying
    BY <2>1, <2>2, Underway DEF Flying, Lists, Moving
  <2>4. QED
    BY <2>1, <2>3 DEF Aloft, Current
<1>6. CASE Push
  <2>1. /\ pc68k = "push" /\ pc68k' \in Moving /\ posted' = posted /\ posted # <<>>
        /\ pushed # Wanted
    BY <1>6 DEF Push, Moving, Transfer, Shape, Known
  <2>2. Flying /\ Current' = Current /\ Current # <<>>
    BY <2>1, Underway, CurrentIsPosted DEF Moving, Current
  <2>3. Lists \in Nat \ {0} /\ Lists' = Lists /\ Wanted = posted[Lists]
    BY <2>1, WantedIsWhole DEF Transfer, Lists
  <2>4. got = [t \in 1..Lists - 1 |-> ListOf(t, posted[t])]
    BY <2>1, <2>2 DEF Transfer, Arrived, Ended, Moving
  <2>5. CASE Ended'
    <3>1. got' = [t \in 1..Lists |-> ListOf(t, posted[t])]
      BY <2>1, <2>3, <2>5 DEF Transfer, Arrived
    <3>2. got' = Append(got, ListOf(Lists, posted[Lists]))
      BY <2>3, <2>4, <3>1
    <3>3. ~Flying' /\ Current = ListOf(Lists, posted[Lists])
      BY <2>1, <2>3, <3>1 DEF Flying, Current, Lists, Wanted
    <3>4. QED
      BY <2>2, <3>2, <3>3 DEF Aloft
  <2>6. CASE ~Ended'
    <3>1. got' = got
      BY <2>1, <2>3, <2>4, <2>6 DEF Transfer, Arrived
    <3>2. Flying'
      BY <2>1, <2>2, <2>3, <3>1 DEF Flying, Moving
    <3>3. QED
      BY <2>2, <3>1, <3>2 DEF Aloft
  <2>7. QED
    BY <2>5, <2>6
<1>7. CASE Master
  BY <1>7 DEF Master, TakeCommand, Arm, Acknowledge, m68k_vars, dmac_vars, Aloft, Flying, Current, Lists
<1>8. CASE UNCHANGED vars
  BY <1>8 DEF vars, Aloft, Flying, Current, Lists
<1>9. QED
  BY <1>1, <1>2, <1>3, <1>4, <1>5, <1>6, <1>7, <1>8 DEF Next

(* The registers, the FIFO and the DMAC carry out nothing but what the link *)
(* promises: each list posted arrives whole, in order, once, and no other   *)
(* is under way meanwhile.  That each does arrive is Linked's, and TLC's.   *)
THEOREM ImplementsLink == Spec => Link!Safe
<1>1. Init => Link!Init
  BY DEF Init, Link!Init
<1>2. Transfer /\ Transfer' /\ [Next]_vars => [Link!Next]_<<Aloft, got>>
  <2> SUFFICES ASSUME Transfer, Transfer', [Next]_vars PROVE [Link!Next]_<<Aloft, got>>
    OBVIOUS
  <2>1. \/ Aloft = <<>> /\ Aloft' \in AllLists /\ UNCHANGED got
        \/ Aloft # <<>> /\ got' = Append(got, Aloft) /\ Aloft' = <<>>
        \/ UNCHANGED <<Aloft, got>>
    BY StepIsLinked
  <2>2. QED
    BY <2>1 DEF Link!Next, Link!Post, Link!Arrive, Aloft, Flying, Lists, AllLists
<1>3. QED
  BY <1>1, <1>2, TransferInit, TransferStep, PTL DEF Spec, Link!Safe, Aloft, Flying, Lists
===============================================================================

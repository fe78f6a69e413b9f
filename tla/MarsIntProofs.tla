----------------------------- MODULE MarsIntProofs -----------------------------
(***************************************************************************)
(* Proofs about MarsInt.                                                   *)
(***************************************************************************)
EXTENDS MarsInt, SequenceTheorems, TLAPS

Levels == {V, CMD, PWM}

(* The window and the places in it. *)
Placed ==
    /\ cart \in Carts
    /\ turn \in {"beam", "m68k"} \cup SH2s
    /\ beam \in 1..VEvery
    /\ at68k \in 0..(Window + Late)
    /\ slot \in [SH2s -> {None} \cup 0..(Window + Late)]
    /\ pos \in 0..Window /\ cut \in 0..pos
    /\ pwm_acc \in 0..(Period - 1)
    /\ up \in {{}, SH2s}
    /\ due \in [SH2s -> Int] /\ late \in [SH2s -> Int]

(* What waits in a slot is not due later than the slot says, and on the     *)
(* master, whose window is one call, not sooner either.                     *)
Waits ==
    /\ \A i \in SH2s : slot[i] # None => due[i] <= slot[i]
    /\ slot["master"] # None => due["master"] = slot["master"]

(* The master never passes an offset that waits. *)
Ahead ==
    /\ turn = "master" => cut = 0 /\ (slot["master"] # None => pos <= slot["master"])
    /\ turn = "slave" => (slot["master"] # None => Window <= slot["master"])

Timely == Placed /\ Waits /\ Ahead /\ NeverEarly /\ MasterOnTime

-----------------------------------------------------------------------------
LEMMA TimelyInit == Init => Timely
  BY MarsIntAssumption
  DEF Init, Timely, Placed, Waits, Ahead, NeverEarly, MasterOnTime, SH2s, None

LEMMA SlotRange ==
  ASSUME Placed, NEW i \in SH2s
  PROVE  /\ slot[i] = None \/ slot[i] \in 0..(Window + Late)
         /\ due[i] \in Int /\ late[i] \in Int
         /\ None \notin 0..(Window + Late)
  BY MarsIntAssumption DEF Placed, None

(* A raise moves a slot and what is due in it to the earlier of two places. *)
LEMMA RaiseKeeps ==
  ASSUME Timely, NEW i \in SH2s, WriteIntctl(i)
  PROVE  Timely'
<1> USE MarsIntAssumption DEF SH2s, None
<1>1. PICK p \in at68k..(Window + Late) :
         /\ at68k' = p
         /\ slot' = [j \in SH2s |-> IF j \in intctl' THEN SlotAfterRaise(j, p)
                                                     ELSE slot[j]]
         /\ due' = [j \in SH2s |->
                      IF j \in intctl' /\ ~(slot[j] # None /\ due[j] <= p)
                      THEN p ELSE due[j]]
  BY DEF WriteIntctl
<1>2. p \in 0..(Window + Late)
  BY DEF Timely, Placed
<1>3. turn = "m68k" /\ UNCHANGED <<cart, turn, beam, late, pos, cut, pwm_acc, up>>
  BY DEF WriteIntctl
<1>4. Placed'
  BY <1>1, <1>2, <1>3 DEF Timely, Placed, SlotAfterRaise
<1>5. Waits'
  <2> SUFFICES ASSUME NEW j \in SH2s, slot'[j] # None
               PROVE  due'[j] <= slot'[j] /\ (j = "master" => due'[j] = slot'[j])
    BY DEF Waits
  <2>1. /\ slot[j] # None => due[j] <= slot[j]
        /\ j = "master" /\ slot[j] # None => due[j] = slot[j]
    BY DEF Timely, Waits
  <2>2. due[j] \in Int /\ p \in Int /\ slot[j] \in Int
    BY <1>2 DEF Timely, Placed
  <2>3. slot'[j] = IF j \in intctl' THEN (IF slot[j] # None /\ slot[j] <= p THEN slot[j] ELSE p)
                   ELSE slot[j]
    BY <1>1 DEF SlotAfterRaise
  <2>4. due'[j] = IF j \in intctl' /\ ~(slot[j] # None /\ due[j] <= p) THEN p ELSE due[j]
    BY <1>1
  <2>5. QED
    BY <2>1, <2>2, <2>3, <2>4
<1>6. Ahead'
  BY <1>3 DEF Ahead
<1>7. QED
  BY <1>3, <1>4, <1>5, <1>6 DEF Timely, NeverEarly, MasterOnTime

LEMMA FireKeeps ==
  ASSUME Timely, NEW i \in SH2s, Fire(i)
  PROVE  Timely'
<1> USE MarsIntAssumption DEF SH2s, None
<1>1. /\ turn = i /\ slot[i] # None /\ slot[i] = pos - cut
      /\ slot' = [slot EXCEPT ![i] = None]
      /\ late' = [late EXCEPT ![i] = pos - due[i]]
      /\ UNCHANGED <<cart, turn, beam, at68k, due, pos, cut, pwm_acc, up>>
  BY DEF Fire, Fires, Elapsed, SlotAfterFire, m68k_vars
<1>2. pos \in Int /\ cut \in Nat /\ due[i] \in Int /\ slot \in [SH2s -> Int] /\ late \in [SH2s -> Int]
  BY DEF Timely, Placed
<1>3. Placed'
  BY <1>1, <1>2 DEF Timely, Placed
<1>4. Waits' /\ Ahead'
  BY <1>1, <1>2 DEF Timely, Waits, Ahead
<1>5. pos - due[i] >= 0 /\ (i = "master" => pos - due[i] = 0)
  BY <1>1, <1>2 DEF Timely, Waits, Ahead
<1>6. NeverEarly' /\ MasterOnTime'
  BY <1>1, <1>2, <1>5 DEF Timely, NeverEarly, MasterOnTime
<1>7. QED
  BY <1>3, <1>4, <1>6 DEF Timely

LEMMA CallEndRange ==
  ASSUME Placed
  PROVE  CallEnd \in 0..Window /\ (turn = "slave" => CallEnd - cut <= Period - pwm_acc)
                               /\ (turn # "slave" => CallEnd = Window)
  BY MarsIntAssumption DEF Placed, CallEnd, PwmAhead

LEMMA RunKeepsTime ==
  ASSUME Timely, NEW i \in SH2s, Run(i)
  PROVE  Timely'
<1> USE MarsIntAssumption DEF SH2s, None
<1>1. /\ turn = i /\ pos < CallEnd /\ ~Fires(i) /\ pos' = pos + 1
      /\ UNCHANGED <<cart, turn, beam, at68k, slot, due, late, cut, pwm_acc, up>>
  BY DEF Run, m68k_vars, slot_vars
<1>2. CallEnd \in 0..Window
  BY CallEndRange DEF Timely
<1>3. Placed'
  BY <1>1, <1>2 DEF Timely, Placed
<1>4. Ahead'
  BY <1>1, <1>2 DEF Timely, Placed, Ahead, Fires, Elapsed
<1>5. QED
  BY <1>1, <1>3, <1>4 DEF Timely, Waits, NeverEarly, MasterOnTime

(* The slave's last call moves what waits into the next window. *)
LEMMA EndCallKeepsTime ==
  ASSUME Timely, EndCall
  PROVE  Timely'
<1> USE MarsIntAssumption DEF SH2s, None
<1>1. /\ turn = "slave" /\ pos = CallEnd /\ cut' = pos
      /\ UNCHANGED <<cart, beam, late, pos, up>>
  BY DEF EndCall
<1>2. pwm_acc' \in 0..(Period - 1)
  BY <1>1, CallEndRange DEF EndCall, Timely, Placed, Elapsed
<1>3. CASE pos = Window
  <2>1. /\ turn' = "beam"
        /\ slot' = [i \in SH2s |-> Rebased(slot[i])]
        /\ due' = [i \in SH2s |-> IF slot[i] = None THEN 0 ELSE due[i] - Window]
        /\ at68k' = Max0(at68k - Window)
    BY <1>3 DEF EndCall
  <2>2. Placed'
    BY <1>1, <1>2, <2>1 DEF Timely, Placed, Rebased, Max0
  <2>3. Waits'
    BY <1>1, <2>1 DEF Timely, Placed, Waits, Ahead, Rebased, Max0
  <2>4. QED
    BY <1>1, <2>1, <2>2, <2>3 DEF Timely, Ahead, NeverEarly, MasterOnTime
<1>4. CASE pos # Window
  <2>1. UNCHANGED <<turn, slot, due, at68k>>
    BY <1>4 DEF EndCall
  <2>2. QED
    BY <1>1, <1>2, <2>1 DEF Timely, Placed, Waits, Ahead, NeverEarly, MasterOnTime
<1>5. QED
  BY <1>3, <1>4

LEMMA TimelyStep == Timely /\ [Next]_vars => Timely'
<1> SUFFICES ASSUME Timely, [Next]_vars PROVE Timely'
  OBVIOUS
<1> USE MarsIntAssumption DEF SH2s, None
<1>1. CASE Beam
  BY <1>1 DEF Beam, slot_vars, Timely, Placed, Waits, Ahead, NeverEarly, MasterOnTime
<1>2. CASE \E i \in SH2s : WriteIntctl(i)
  BY <1>2, RaiseKeeps
<1>3. CASE Handover
  BY <1>3 DEF Handover, m68k_vars, slot_vars, Timely, Placed, Waits, Ahead, NeverEarly, MasterOnTime
<1>4. CASE EndM68K
  BY <1>4, SlotRange DEF EndM68K, m68k_vars, slot_vars, Timely, Placed, Waits, Ahead, NeverEarly, MasterOnTime
<1>5. CASE \E i \in SH2s : Fire(i)
  BY <1>5, FireKeeps
<1>6. CASE \E i \in SH2s : Run(i)
  BY <1>6, RunKeepsTime
<1>7. CASE EndMaster
  BY <1>7 DEF EndMaster, m68k_vars, slot_vars, Timely, Placed, Waits, Ahead, NeverEarly, MasterOnTime
<1>8. CASE EndCall
  BY <1>8, EndCallKeepsTime
<1>9. CASE UNCHANGED vars
  BY <1>9 DEF vars, Timely, Placed, Waits, Ahead, NeverEarly, MasterOnTime
<1>10. QED
  BY <1>1, <1>2, <1>3, <1>4, <1>5, <1>6, <1>7, <1>8, <1>9 DEF Next

(* No command interrupt is taken before its question, for every window,     *)
(* every sample period and every cartridge.                                 *)
THEOREM AnswersFollow == Spec => []NeverEarly
<1>1. Timely => NeverEarly
  BY DEF Timely
<1>2. QED
  BY <1>1, TimelyInit, TimelyStep, PTL DEF Spec

(* The master takes one at the cycle it was raised at, in whichever window. *)
THEOREM MasterPunctual == Spec => []MasterOnTime
<1>1. Timely => MasterOnTime
  BY DEF Timely
<1>2. QED
  BY <1>1, TimelyInit, TimelyStep, PTL DEF Spec

-----------------------------------------------------------------------------
(* The masks that may be in force over the first k handlers of a stack. *)
Under(s, k) == IF k = 0 THEN MainMasks ELSE {s[k].level}

(* A stack of handlers s on an SH-2 whose mask is m. *)
Handlers == [level : Levels, t : Nat, mask : 0..15]
Nested(s, m) ==
    /\ s \in Seq(Handlers)
    /\ m \in Under(s, Len(s))
    /\ \A k \in 1..Len(s) :
         /\ s[k].t < HandlerLen[s[k].level]
         /\ s[k].level > s[k].mask
         /\ s[k].mask \in Under(s, k - 1)
    /\ \A k, l \in 1..Len(s) : k < l => s[k].level < s[l].level

Nesting ==
    /\ stack = [i \in SH2s |-> stack[i]]
    /\ imask = [i \in SH2s |-> imask[i]]
    /\ \A i \in SH2s : Nested(stack[i], imask[i])

LEMMA MaskRange ==
  ASSUME NEW s, NEW m, Nested(s, m)
  PROVE  m \in 0..15
<1> USE MarsIntAssumption
<1>1. Len(s) \in Nat /\ (Len(s) # 0 => s[Len(s)] \in Handlers)
  BY DEF Nested
<1>2. QED
  BY <1>1 DEF Nested, Under, Handlers, Levels, V, CMD, PWM

LEMMA UnderSame ==
  ASSUME NEW s, NEW q, NEW n \in Nat, \A k \in 1..n : q[k].level = s[k].level
  PROVE  \A k \in 0..n : Under(q, k) = Under(s, k)
<1> SUFFICES ASSUME NEW k \in 0..n PROVE Under(q, k) = Under(s, k)
  OBVIOUS
<1>1. k = 0 \/ k \in 1..n
  OBVIOUS
<1>2. QED
  BY <1>1 DEF Under

(* An interrupt above the mask in force nests. *)
LEMMA PushNests ==
  ASSUME NEW s, NEW m, Nested(s, m), NEW level \in Levels, level > m
  PROVE  Nested(Append(s, [level |-> level, t |-> 0, mask |-> m]), level)
<1> DEFINE h == [level |-> level, t |-> 0, mask |-> m]
           q == Append(s, h)
           n == Len(s)
<1>1. m \in 0..15 /\ HandlerLen[level] \in Nat \ {0} /\ level \in Nat
  BY MaskRange, MarsIntAssumption DEF Levels, V, CMD, PWM
<1>2. s \in Seq(Handlers) /\ n \in Nat /\ h \in Handlers
  BY <1>1 DEF Nested, Handlers
<1>3. /\ q \in Seq(Handlers) /\ Len(q) = n + 1 /\ q[n + 1] = h
      /\ \A k \in 1..n : q[k] = s[k]
  BY <1>2
<1>4. \A k \in 0..n : Under(q, k) = Under(s, k)
  BY <1>2, <1>3, UnderSame
<1>5. Under(q, n + 1) = {level}
  BY <1>2, <1>3 DEF Under
<1>6. \A k \in 1..n + 1 : /\ q[k].t < HandlerLen[q[k].level]
                          /\ q[k].level > q[k].mask
                          /\ q[k].mask \in Under(q, k - 1)
  <2> SUFFICES ASSUME NEW k \in 1..n + 1
               PROVE  /\ q[k].t < HandlerLen[q[k].level]
                      /\ q[k].level > q[k].mask
                      /\ q[k].mask \in Under(q, k - 1)
    OBVIOUS
  <2>1. CASE k \in 1..n
    BY <2>1, <1>2, <1>3, <1>4 DEF Nested
  <2>2. CASE k = n + 1
    BY <2>2, <1>1, <1>2, <1>3, <1>4 DEF Nested
  <2>3. QED
    BY <2>1, <2>2, <1>2
<1>7. n # 0 => m = s[n].level
  BY <1>2 DEF Nested, Under
<1>8. \A k \in 1..n : s[k].level \in Nat
  <2>1. \A k \in 1..n : s[k] \in Handlers
    BY <1>2
  <2>2. QED
    BY <2>1 DEF Handlers, Levels, V, CMD, PWM
<1>9. \A k, l \in 1..n + 1 : k < l => q[k].level < q[l].level
  <2> SUFFICES ASSUME NEW k \in 1..n + 1, NEW l \in 1..n + 1, k < l
               PROVE  q[k].level < q[l].level
    OBVIOUS
  <2>1. CASE l \in 1..n
    BY <2>1, <1>2, <1>3 DEF Nested
  <2>2. CASE l = n + 1 /\ k = n
    BY <2>2, <1>2, <1>3, <1>7, <1>8
  <2>3. CASE l = n + 1 /\ k < n
    <3>1. k \in 1..n /\ n \in 1..n /\ s[k].level < s[n].level
      BY <2>3, <1>2 DEF Nested
    <3>2. QED
      BY <3>1, <2>3, <1>1, <1>2, <1>3, <1>7, <1>8
  <2>4. QED
    BY <2>1, <2>2, <2>3, <1>2
<1> HIDE DEF h, q, n
<1>10. QED
  BY <1>3, <1>5, <1>6, <1>9 DEF Nested, q, h

LEMMA FrontElements ==
  ASSUME NEW s \in Seq(Handlers), Len(s) > 0
  PROVE  /\ Front(s) \in Seq(Handlers) /\ Len(Front(s)) = Len(s) - 1
         /\ \A k \in 1..Len(s) - 1 : Front(s)[k] = s[k]
<1> DEFINE n == Len(s)
           q == Front(s)
<1>1. q = SubSeq(s, 1, n - 1)
  BY DEF Front
<1>2. n - 1 \in 0..n /\ n = Len(s)
  OBVIOUS
<1> HIDE DEF q, n
<1>3. /\ q \in Seq(Handlers)
      /\ Len(q) = IF 1 <= n - 1 THEN n - 1 - 1 + 1 ELSE 0
      /\ \A k \in 1..n - 1 - 1 + 1 : q[k] = s[1 + k - 1]
  BY <1>1, <1>2, SubSeqProperties
<1>4. QED
  BY <1>2, <1>3 DEF q

(* rte gives back the mask the handler found. *)
LEMMA PopNests ==
  ASSUME NEW s, NEW m, Nested(s, m), Len(s) > 0
  PROVE  Nested(Front(s), s[Len(s)].mask)
<1> DEFINE n == Len(s)
           q == Front(s)
<1>1. s \in Seq(Handlers) /\ n \in Nat \ {0}
  BY DEF Nested
<1>2. q \in Seq(Handlers) /\ Len(q) = n - 1 /\ \A k \in 1..n - 1 : q[k] = s[k]
  BY <1>1, FrontElements
<1> HIDE DEF q
<1>3. \A k \in 0..n - 1 : Under(q, k) = Under(s, k)
  <2>1. n - 1 \in Nat /\ \A k \in 1..n - 1 : q[k].level = s[k].level
    BY <1>1, <1>2
  <2>2. QED
    BY <2>1, UnderSame
<1>4. s[n].mask \in Under(s, n - 1)
  BY <1>1 DEF Nested
<1>5. \A k \in 1..n - 1 : k \in 1..n /\ k - 1 \in 0..n - 1
  BY <1>1
<1>6. s[n].mask \in Under(q, Len(q))
  BY <1>1, <1>2, <1>3, <1>4
<1>7. \A k \in 1..n - 1 : /\ q[k].t < HandlerLen[q[k].level]
                          /\ q[k].level > q[k].mask
                          /\ q[k].mask \in Under(q, k - 1)
  BY <1>2, <1>3, <1>5 DEF Nested
<1>8. \A k, l \in 1..n - 1 : k < l => q[k].level < q[l].level
  BY <1>2, <1>5 DEF Nested
<1>9. QED
  BY <1>2, <1>6, <1>7, <1>8 DEF Nested, q

LEMMA TickedHandler ==
  ASSUME NEW h \in Handlers
  PROVE  [h EXCEPT !.t = @ + 1] \in Handlers
BY DEF Handlers

(* A step of the innermost handler changes no level and no mask. *)
LEMMA TickNests ==
  ASSUME NEW s, NEW m, Nested(s, m), Len(s) > 0,
         s[Len(s)].t + 1 # HandlerLen[s[Len(s)].level]
  PROVE  Nested([s EXCEPT ![Len(s)].t = @ + 1], m)
<1> DEFINE n == Len(s)
           q == [s EXCEPT ![n].t = @ + 1]
<1>1. s \in Seq(Handlers) /\ n \in Nat \ {0}
  BY DEF Nested
<1>2. s[n] \in Handlers /\ s[n].t < HandlerLen[s[n].level]
  BY <1>1 DEF Nested
<1>3. HandlerLen[s[n].level] \in Nat /\ s[n].t \in Nat
  BY <1>2, MarsIntAssumption DEF Handlers, Levels
<1>4. [s[n] EXCEPT !.t = @ + 1] \in Handlers
  BY <1>2, TickedHandler
<1>5. /\ q \in Seq(Handlers) /\ Len(q) = n
      /\ q[n] = [s[n] EXCEPT !.t = @ + 1]
      /\ \A k \in 1..n : k # n => q[k] = s[k]
  BY <1>1, <1>4
<1>6. /\ q[n].level = s[n].level /\ q[n].mask = s[n].mask
      /\ q[n].t = s[n].t + 1
  BY <1>2, <1>5 DEF Handlers
<1> HIDE DEF q
<1>7. \A k \in 1..n : q[k].level = s[k].level /\ q[k].mask = s[k].mask
  BY <1>5, <1>6
<1>8. \A k \in 1..n : q[k].t < HandlerLen[q[k].level]
  <2>1. q[n].t < HandlerLen[q[n].level]
    BY <1>2, <1>3, <1>6
  <2>2. QED
    BY <2>1, <1>5 DEF Nested
<1>9. \A k \in 0..n : Under(q, k) = Under(s, k)
  BY <1>1, <1>7, UnderSame
<1>10. \A k \in 1..n : k \in 0..n /\ k - 1 \in 0..n
  BY <1>1
<1>11. \A k \in 1..n : q[k].level > q[k].mask /\ q[k].mask \in Under(q, k - 1)
  BY <1>7, <1>9, <1>10 DEF Nested
<1>12. m \in Under(q, n)
  BY <1>1, <1>9 DEF Nested
<1>13. \A k, l \in 1..n : k < l => q[k].level < q[l].level
  BY <1>7 DEF Nested
<1>14. QED
  BY <1>5, <1>8, <1>11, <1>12, <1>13 DEF Nested, q

LEMMA DeliverNests ==
  ASSUME Nesting, NEW targets, NEW level \in Levels, Deliver(targets, level)
  PROVE  Nesting'
<1> DEFINE T == {i \in targets : Takes(i, level)}
<1>1. \A i \in SH2s : /\ stack'[i] = IF i \in T
                            THEN Append(stack[i], [level |-> level, t |-> 0, mask |-> imask[i]])
                            ELSE stack[i]
                      /\ imask'[i] = IF i \in T THEN level ELSE imask[i]
  BY DEF Deliver
<1>2. \A i \in T : level > imask[i]
  BY DEF Takes
<1> HIDE DEF T
<1>3. ASSUME NEW i \in SH2s
      PROVE  Nested(stack'[i], imask'[i])
  <2>1. Nested(stack[i], imask[i])
    BY DEF Nesting
  <2>2. CASE i \in T
    <3>1. Nested(Append(stack[i], [level |-> level, t |-> 0, mask |-> imask[i]]), level)
      BY <1>2, <2>1, <2>2, PushNests
    <3>2. QED
      BY <1>1, <2>2, <3>1
  <2>3. CASE i \notin T
    BY <1>1, <2>1, <2>3
  <2>4. QED
    BY <2>2, <2>3
<1>4. stack' = [i \in SH2s |-> stack'[i]] /\ imask' = [i \in SH2s |-> imask'[i]]
  BY DEF Deliver
<1>5. QED
  BY <1>3, <1>4 DEF Nesting

LEMMA ProgramNests ==
  ASSUME Nesting, NEW i \in SH2s, Program(i)
  PROVE  Nesting'
<1> DEFINE s == stack[i]
           h == s[Len(s)]
<1>1. Nested(s, imask[i]) /\ Len(s) \in Nat
  BY DEF Nesting, Nested
<1>2. CASE Len(s) = 0
  <2>1. s = <<>> /\ UNCHANGED stack
    BY <1>1, <1>2 DEF Nested, Program
  <2>2. imask' = imask \/ \E m \in MainMasks : imask' = [imask EXCEPT ![i] = m]
    BY <1>2 DEF Program
  <2>3. \A m \in MainMasks : Nested(s, m)
    BY <1>1, <1>2 DEF Nested, Under
  <2>4. QED
    BY <2>1, <2>2, <2>3 DEF Nesting
<1>3. CASE Len(s) > 0 /\ h.t + 1 = HandlerLen[h.level]
  <2>1. stack' = [stack EXCEPT ![i] = Front(s)] /\ imask' = [imask EXCEPT ![i] = h.mask]
    BY <1>3 DEF Program
  <2>2. Nested(Front(s), h.mask)
    BY <1>1, <1>3, PopNests
  <2>3. QED
    BY <2>1, <2>2 DEF Nesting
<1>4. CASE Len(s) > 0 /\ h.t + 1 # HandlerLen[h.level]
  <2>1. stack' = [stack EXCEPT ![i] = [s EXCEPT ![Len(s)].t = @ + 1]] /\ imask' = imask
    BY <1>4 DEF Program
  <2>2. Nested([s EXCEPT ![Len(s)].t = @ + 1], imask[i])
    BY <1>1, <1>4, TickNests
  <2>3. QED
    BY <2>1, <2>2 DEF Nesting
<1>5. QED
  BY <1>1, <1>2, <1>3, <1>4

LEMMA NestingInit == Init => Nesting
  BY DEF Init, Nesting, Nested, Under

LEMMA NestingStep == Nesting /\ [Next]_vars => Nesting'
<1> SUFFICES ASSUME Nesting, [Next]_vars PROVE Nesting'
  OBVIOUS
<1>1. CASE Beam
  <2>1. Deliver(cart.v, V) \/ UNCHANGED <<stack, imask>>
    BY <1>1 DEF Beam, sh2_vars
  <2>2. QED
    BY <2>1, DeliverNests DEF Nesting, Levels
<1>2. CASE EndCall
  <2>1. Deliver({"slave"}, PWM) \/ UNCHANGED <<stack, imask>>
    BY <1>2 DEF EndCall, sh2_vars
  <2>2. QED
    BY <2>1, DeliverNests DEF Nesting, Levels
<1>3. CASE \E i \in SH2s : Fire(i)
  BY <1>3, DeliverNests DEF Fire, Levels
<1>4. CASE \E i \in SH2s : Run(i)
  BY <1>4, ProgramNests DEF Run
<1>5. CASE (\E i \in SH2s : WriteIntctl(i)) \/ Handover \/ EndM68K \/ EndMaster \/ UNCHANGED vars
  BY <1>5 DEF WriteIntctl, Handover, EndM68K, EndMaster, vars, sh2_vars, Nesting
<1>6. QED
  BY <1>1, <1>2, <1>3, <1>4, <1>5 DEF Next

(* Handlers nest strictly upwards and every rte gives back the mask its     *)
(* handler found, for every set of main masks and every handler length.     *)
THEOREM HandlersNest == Spec => []PriorityNesting
<1>1. Nesting => PriorityNesting
  <2> SUFFICES ASSUME Nesting, NEW i \in SH2s, stack[i] # <<>>
               PROVE  /\ imask[i] = Last(stack[i]).level
                      /\ stack[i][1].mask \in MainMasks
                      /\ \A k \in 1..Len(stack[i]) :
                           /\ stack[i][k].level > stack[i][k].mask
                           /\ k > 1 => stack[i][k].mask = stack[i][k - 1].level
    BY DEF PriorityNesting
  <2>1. Nested(stack[i], imask[i]) /\ Len(stack[i]) \in Nat \ {0}
    BY DEF Nesting, Nested
  <2>2. Last(stack[i]) = stack[i][Len(stack[i])] /\ Len(stack[i]) # 0
    BY <2>1 DEF Last
  <2>3. imask[i] = Last(stack[i]).level
    BY <2>1, <2>2 DEF Nested, Under
  <2>4. \A k \in 1..Len(stack[i]) :
          /\ stack[i][k].level > stack[i][k].mask
          /\ stack[i][k].mask \in Under(stack[i], k - 1)
    BY <2>1 DEF Nested
  <2>5. 1 \in 1..Len(stack[i])
    BY <2>1
  <2>6. stack[i][1].mask \in MainMasks
    <3>1. stack[i][1].mask \in Under(stack[i], 0)
      BY <2>4, <2>5
    <3>2. QED
      BY <3>1 DEF Under
  <2>7. ASSUME NEW k \in 1..Len(stack[i]), k > 1
        PROVE  stack[i][k].mask = stack[i][k - 1].level
    <3>1. k - 1 # 0 /\ stack[i][k].mask \in Under(stack[i], k - 1)
      BY <2>4, <2>7
    <3>2. QED
      BY <3>1 DEF Under
  <2>8. QED
    BY <2>3, <2>4, <2>6, <2>7
<1>2. QED
  BY <1>1, NestingInit, NestingStep, PTL DEF Spec

-----------------------------------------------------------------------------
Commands(s) == {k \in 1..Len(s) : s[k].level = CMD}

(* While a request waits in its slot, or its handler runs, its bit is set;  *)
(* and never both at once.                                                  *)
Honest ==
    Orderly => \A i \in SH2s :
      /\ slot[i] # None => i \in intctl
      /\ Commands(stack[i]) # {} => slot[i] = None /\ i \in intctl
      /\ entered[i].level = CMD => entered[i].bit

Asked == Timely /\ Nesting /\ Honest

LEMMA CommandsOfPush ==
  ASSUME NEW s \in Seq(Handlers), NEW h \in Handlers, h.level # CMD
  PROVE  Commands(Append(s, h)) = Commands(s)
BY DEF Commands

LEMMA CommandsOfPop ==
  ASSUME NEW s, NEW m, Nested(s, m), Len(s) > 0
  PROVE  /\ Commands(Front(s)) \subseteq Commands(s)
         /\ s[Len(s)].level = CMD => Commands(Front(s)) = {}
<1> DEFINE n == Len(s)
           q == Front(s)
<1>1. s \in Seq(Handlers) /\ n \in Nat \ {0}
  BY DEF Nested
<1>2. Len(q) = n - 1 /\ \A k \in 1..n - 1 : q[k] = s[k]
  BY <1>1, FrontElements
<1> HIDE DEF q
<1>3. \A k \in 1..n - 1 : k \in 1..n /\ n \in 1..n /\ k < n
  BY <1>1
<1>4. \A k \in 1..n - 1 : s[k].level < s[n].level
  BY <1>3 DEF Nested
<1>5. \A k \in 1..n - 1 : s[n].level = CMD => s[k].level # CMD
  BY <1>4 DEF CMD
<1>6. QED
  BY <1>2, <1>3, <1>5 DEF Commands, q

LEMMA CommandsOfTick ==
  ASSUME NEW s \in Seq(Handlers), Len(s) > 0
  PROVE  Commands([s EXCEPT ![Len(s)].t = @ + 1]) = Commands(s)
<1> DEFINE q == [s EXCEPT ![Len(s)].t = @ + 1]
<1>1. Len(s) \in 1..Len(s) /\ s[Len(s)] \in Handlers
  OBVIOUS
<1>2. [s[Len(s)] EXCEPT !.t = @ + 1].level = s[Len(s)].level
  BY <1>1 DEF Handlers
<1>3. Len(q) = Len(s) /\ \A k \in 1..Len(s) : q[k].level = s[k].level
  BY <1>1, <1>2
<1> HIDE DEF q
<1>4. QED
  BY <1>3 DEF Commands, q

(* What an interrupt does to the commands an SH-2 is handling. *)
LEMMA DeliverCommands ==
  ASSUME Nesting, NEW targets, NEW level \in Levels, Deliver(targets, level), NEW i \in SH2s
  PROVE  /\ level # CMD => Commands(stack'[i]) = Commands(stack[i])
         /\ i \notin targets => stack'[i] = stack[i]
         /\ \/ entered'[i] = entered[i]
            \/ entered'[i].level = level /\ entered'[i].bit = (i \in intctl)
<1> DEFINE h == [level |-> level, t |-> 0, mask |-> imask[i]]
<1>1. (stack'[i] = Append(stack[i], h) /\ i \in targets) \/ stack'[i] = stack[i]
  BY DEF Deliver
<1>2. stack[i] \in Seq(Handlers) /\ h \in Handlers
  BY MaskRange DEF Nesting, Nested, Handlers
<1>3. level # CMD => Commands(Append(stack[i], h)) = Commands(stack[i])
  BY <1>2, CommandsOfPush DEF Handlers
<1>4. \/ entered'[i] = entered[i]
      \/ entered'[i] = [level |-> level, bit |-> i \in intctl]
  BY DEF Deliver
<1>5. entered'[i] = entered[i] \/ (entered'[i].level = level /\ entered'[i].bit = (i \in intctl))
  BY <1>4
<1>6. level # CMD => Commands(stack'[i]) = Commands(stack[i])
  BY <1>1, <1>3
<1>7. i \notin targets => stack'[i] = stack[i]
  BY <1>1
<1> HIDE DEF h
<1>8. QED
  BY <1>5, <1>6, <1>7

LEMMA OtherInterrupt ==
  ASSUME Asked, NEW targets, NEW level \in Levels \ {CMD}, Deliver(targets, level),
         UNCHANGED <<cart, intctl>>,
         \A i \in SH2s : slot'[i] = None <=> slot[i] = None
  PROVE  Honest'
<1> SUFFICES ASSUME Orderly', NEW i \in SH2s
             PROVE  /\ slot'[i] # None => i \in intctl'
                    /\ Commands(stack'[i]) # {} => slot'[i] = None /\ i \in intctl'
                    /\ entered'[i].level = CMD => entered'[i].bit
  BY DEF Honest
<1>1. /\ slot[i] # None => i \in intctl
      /\ Commands(stack[i]) # {} => slot[i] = None /\ i \in intctl
      /\ entered[i].level = CMD => entered[i].bit
  BY DEF Asked, Honest, Orderly
<1>2. QED
  BY <1>1, DeliverCommands DEF Asked

LEMMA RaiseHonest ==
  ASSUME Asked, NEW i \in SH2s, WriteIntctl(i)
  PROVE  Honest'
<1> SUFFICES ASSUME Orderly', NEW j \in SH2s
             PROVE  /\ slot'[j] # None => j \in intctl'
                    /\ Commands(stack'[j]) # {} => slot'[j] = None /\ j \in intctl'
                    /\ entered'[j].level = CMD => entered'[j].bit
  BY DEF Honest
<1>1. Orderly /\ intctl = {} /\ UNCHANGED <<stack, entered>>
  BY DEF WriteIntctl, Orderly, sh2_vars
<1>2. slot[j] = None /\ Commands(stack[j]) = {} /\ (entered[j].level = CMD => entered[j].bit)
  BY <1>1 DEF Asked, Honest
<1>3. j \notin intctl' => slot'[j] = slot[j]
  BY DEF WriteIntctl
<1>4. QED
  BY <1>1, <1>2, <1>3

LEMMA FireHonest ==
  ASSUME Asked, NEW i \in SH2s, Fire(i)
  PROVE  Honest'
<1> SUFFICES ASSUME Orderly', NEW j \in SH2s
             PROVE  /\ slot'[j] # None => j \in intctl'
                    /\ Commands(stack'[j]) # {} => slot'[j] = None /\ j \in intctl'
                    /\ entered'[j].level = CMD => entered'[j].bit
  BY DEF Honest
<1>1. /\ UNCHANGED <<cart, intctl>> /\ slot[i] # None
      /\ slot' = [slot EXCEPT ![i] = None] /\ Deliver({i}, CMD)
  BY DEF Fire, Fires, SlotAfterFire
<1>2. /\ slot[j] # None => j \in intctl
      /\ Commands(stack[j]) # {} => slot[j] = None /\ j \in intctl
      /\ entered[j].level = CMD => entered[j].bit
  BY <1>1 DEF Asked, Honest, Orderly
<1>3. /\ j # i => stack'[j] = stack[j]
      /\ entered'[j] = entered[j] \/ entered'[j].bit = (j \in intctl)
      /\ j # i => entered'[j] = entered[j]
  BY <1>1, DeliverCommands DEF Asked, Levels, Deliver
<1>4. CASE j # i
  BY <1>1, <1>2, <1>3, <1>4
<1>5. CASE j = i
  <2>1. slot'[i] = None
    BY <1>1 DEF Asked, Timely, Placed
  <2>2. QED
    BY <1>1, <1>2, <1>3, <1>5, <2>1
<1>6. QED
  BY <1>4, <1>5

LEMMA RunHonest ==
  ASSUME Asked, NEW i \in SH2s, Run(i)
  PROVE  Honest'
<1> DEFINE s == stack[i]
           h == s[Len(s)]
<1> SUFFICES ASSUME Orderly', NEW j \in SH2s
             PROVE  /\ slot'[j] # None => j \in intctl'
                    /\ Commands(stack'[j]) # {} => slot'[j] = None /\ j \in intctl'
                    /\ entered'[j].level = CMD => entered'[j].bit
  BY DEF Honest
<1>1. Program(i) /\ UNCHANGED <<cart, slot, entered>>
  BY DEF Run, slot_vars
<1>2. /\ slot[j] # None => j \in intctl
      /\ Commands(stack[j]) # {} => slot[j] = None /\ j \in intctl
      /\ entered[j].level = CMD => entered[j].bit
  BY <1>1 DEF Asked, Honest, Orderly
<1>3. Nested(s, imask[i]) /\ Len(s) \in Nat /\ s \in Seq(Handlers)
  BY DEF Asked, Nesting, Nested
<1>4. cart.ackAt = HandlerLen[CMD]
  BY <1>1 DEF Orderly
<1>5. stack = [k \in SH2s |-> stack[k]]
  BY DEF Asked, Nesting
<1>6. CASE Len(s) = 0
  <2>1. UNCHANGED <<stack, intctl>>
    BY <1>1, <1>3, <1>6 DEF Program
  <2>2. QED
    BY <1>1, <1>2, <2>1
<1>7. CASE Len(s) > 0 /\ h.t + 1 = HandlerLen[h.level]
  <2>1. /\ stack' = [stack EXCEPT ![i] = Front(s)]
        /\ intctl' = IF Clears(h) THEN intctl \ {i} ELSE intctl
    BY <1>1, <1>7 DEF Program
  <2>2. /\ Commands(Front(s)) \subseteq Commands(s)
        /\ h.level = CMD => Commands(Front(s)) = {}
    BY <1>3, <1>7, CommandsOfPop
  <2>3. h.level = CMD => Commands(s) # {}
    BY <1>3, <1>7 DEF Commands
  <2>4. j # i => stack'[j] = stack[j] /\ (j \in intctl' <=> j \in intctl)
    BY <1>5, <2>1
  <2>5. stack'[i] = Front(s)
    BY <1>5, <2>1
  <2> HIDE DEF s, h
  <2>6. CASE j # i
    BY <1>1, <1>2, <2>4, <2>6
  <2>7. CASE j = i /\ Clears(h)
    BY <1>1, <1>2, <2>2, <2>3, <2>5, <2>7 DEF Clears, s
  <2>8. CASE j = i /\ ~Clears(h)
    BY <1>1, <1>2, <2>1, <2>2, <2>5, <2>8 DEF s
  <2>9. QED
    BY <2>6, <2>7, <2>8
<1>8. CASE Len(s) > 0 /\ h.t + 1 # HandlerLen[h.level]
  <2>1. /\ stack' = [stack EXCEPT ![i] = [s EXCEPT ![Len(s)].t = @ + 1]]
        /\ intctl' = IF Clears(h) THEN intctl \ {i} ELSE intctl
    BY <1>1, <1>8 DEF Program
  <2>2. ~Clears(h)
    BY <1>4, <1>8 DEF Clears
  <2>3. Commands(stack'[j]) = Commands(stack[j])
    BY <1>3, <1>5, <1>8, <2>1, CommandsOfTick
  <2>4. QED
    BY <1>1, <1>2, <2>1, <2>2, <2>3
<1>9. QED
  BY <1>3, <1>6, <1>7, <1>8

LEMMA AskedInit == Init => Asked
<1>1. Init => Honest
  BY DEF Init, Honest, Commands, CMD
<1>2. QED
  BY <1>1, TimelyInit, NestingInit DEF Asked

LEMMA AskedStep == Asked /\ [Next]_vars => Asked'
<1> SUFFICES ASSUME Asked, [Next]_vars PROVE Honest'
  BY TimelyStep, NestingStep DEF Asked
<1>1. CASE Beam
  <2>1. UNCHANGED <<cart, intctl, slot>>
    BY <1>1 DEF Beam, slot_vars
  <2>2. Deliver(cart.v, V) \/ UNCHANGED <<stack, entered>>
    BY <1>1 DEF Beam, sh2_vars
  <2>3. CASE Deliver(cart.v, V)
    BY <2>1, <2>3, OtherInterrupt DEF Levels, V, CMD, PWM
  <2>4. CASE UNCHANGED <<stack, entered>>
    BY <2>1, <2>4 DEF Asked, Honest, Orderly
  <2>5. QED
    BY <2>2, <2>3, <2>4
<1>2. CASE EndCall
  <2>1. UNCHANGED <<cart, intctl>>
    BY <1>2 DEF EndCall
  <2>2. \A i \in SH2s : slot'[i] = None <=> slot[i] = None
    <3>1. slot' = slot \/ slot' = [i \in SH2s |-> Rebased(slot[i])]
      BY <1>2 DEF EndCall
    <3>2. \A i \in SH2s : slot[i] # None => Rebased(slot[i]) # None
      BY MarsIntAssumption DEF Asked, Timely, Placed, Rebased, Max0, None
    <3>3. QED
      BY <3>1, <3>2 DEF Rebased
  <2>3. Deliver({"slave"}, PWM) \/ UNCHANGED <<stack, entered>>
    BY <1>2 DEF EndCall, sh2_vars
  <2>4. CASE Deliver({"slave"}, PWM)
    BY <2>1, <2>2, <2>4, OtherInterrupt DEF Levels, V, CMD, PWM
  <2>5. CASE UNCHANGED <<stack, entered>>
    BY <2>1, <2>2, <2>5 DEF Asked, Honest, Orderly
  <2>6. QED
    BY <2>3, <2>4, <2>5
<1>3. CASE \E i \in SH2s : WriteIntctl(i)
  BY <1>3, RaiseHonest
<1>4. CASE \E i \in SH2s : Fire(i)
  BY <1>4, FireHonest
<1>5. CASE \E i \in SH2s : Run(i)
  BY <1>5, RunHonest
<1>6. CASE Handover \/ EndM68K \/ EndMaster \/ UNCHANGED vars
  BY <1>6 DEF Handover, EndM68K, EndMaster, vars, sh2_vars, slot_vars, Asked, Honest, Orderly
<1>7. QED
  BY <1>1, <1>2, <1>3, <1>4, <1>5, <1>6 DEF Next

(* A cartridge that waits for each answer and clears its bit last never     *)
(* enters a command handler whose request is already gone.                  *)
THEOREM OneRequestOneInterrupt == Spec => []NoSpurious
<1>1. Asked => NoSpurious
  BY DEF Asked, Honest, NoSpurious
<1>2. QED
  BY <1>1, AskedInit, AskedStep, PTL DEF Spec

-----------------------------------------------------------------------------
Typed == Timely /\ Nesting /\ TypeOK

LEMMA TypedStep == Typed /\ [Next]_vars => Typed'
<1> SUFFICES ASSUME Typed, [Next]_vars PROVE Typed'
  OBVIOUS
<1>1. Timely' /\ Nesting'
  BY TimelyStep, NestingStep DEF Typed
<1>2. intctl' \subseteq SH2s
  <2>1. intctl \subseteq SH2s
    BY DEF Typed, TypeOK
  <2>2. ASSUME NEW i \in SH2s, Run(i)
        PROVE  intctl' \subseteq intctl
    BY <2>2 DEF Run, Program
  <2>3. QED
    BY <2>1, <2>2 DEF Next, vars, Beam, WriteIntctl, Handover, EndM68K, Fire, EndMaster, EndCall
<1>3. entered' \in [SH2s -> [level : {0, V, CMD, PWM}, bit : BOOLEAN]]
  <2> DEFINE E == [level : {0, V, CMD, PWM}, bit : BOOLEAN]
  <2>1. entered \in [SH2s -> E]
    BY DEF Typed, TypeOK
  <2>2. ASSUME NEW targets, NEW level \in Levels, Deliver(targets, level)
        PROVE  entered' \in [SH2s -> E]
    BY <2>1, <2>2 DEF Deliver, Levels
  <2> HIDE DEF E
  <2>3. QED
    BY <2>1, <2>2 DEF E, Next, vars, sh2_vars, Beam, WriteIntctl, Handover, EndM68K, Fire, Run,
                      EndMaster, EndCall, Levels
<1>4. \A i \in SH2s : imask'[i] \in 0..15
  BY <1>1, MaskRange DEF Nesting
<1>5. \A i \in SH2s : \A h \in Range(stack'[i]) :
         h.level \in {V, CMD, PWM} /\ h.t \in 0..HandlerLen[h.level] /\ h.mask \in 0..15
  <2> SUFFICES ASSUME NEW i \in SH2s, NEW k \in 1..Len(stack'[i])
               PROVE  /\ stack'[i][k].level \in {V, CMD, PWM}
                      /\ stack'[i][k].t \in 0..HandlerLen[stack'[i][k].level]
                      /\ stack'[i][k].mask \in 0..15
    BY <1>1 DEF Range, Nesting, Nested
  <2>1. stack'[i] \in Seq(Handlers) /\ stack'[i][k].t < HandlerLen[stack'[i][k].level]
    BY <1>1 DEF Nesting, Nested
  <2>2. stack'[i][k] \in Handlers
    BY <2>1
  <2>3. HandlerLen[stack'[i][k].level] \in Nat
    BY <2>2, MarsIntAssumption DEF Handlers, Levels
  <2>4. QED
    BY <2>1, <2>2, <2>3 DEF Handlers, Levels
<1>6. TypeOK'
  <2>1. imask' \in [SH2s -> 0..15]
    BY <1>1, <1>4 DEF Nesting
  <2>2. cut' \in 0..Window
    BY <1>1, MarsIntAssumption DEF Timely, Placed
  <2>3. QED
    BY <1>1, <1>2, <1>3, <1>5, <2>1, <2>2 DEF TypeOK, Timely, Placed
<1>7. QED
  BY <1>1, <1>6 DEF Typed

(* The variables keep their types, the PWM counter below its period and the *)
(* offsets within the reach of a raise among them.                          *)
THEOREM TypeCorrect == Spec => []TypeOK
<1>1. Init => Typed
  <2>1. Init => TypeOK
    <3> SUFFICES ASSUME Init PROVE TypeOK
      OBVIOUS
    <3>1. imask \in [SH2s -> 0..15]
      BY MarsIntAssumption DEF Init
    <3>2. \A i \in SH2s : Range(stack[i]) = {}
      BY DEF Init, Range
    <3>3. entered \in [SH2s -> [level : {0, V, CMD, PWM}, bit : BOOLEAN]]
      BY DEF Init
    <3>4. Timely
      BY TimelyInit
    <3>5. QED
      BY <3>1, <3>2, <3>3, <3>4 DEF TypeOK, Timely, Placed, Init
  <2>2. QED
    BY <2>1, TimelyInit, NestingInit DEF Typed
<1>2. QED
  BY <1>1, TypedStep, PTL DEF Spec, Typed
=============================================================================

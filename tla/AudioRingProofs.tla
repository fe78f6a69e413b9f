--------------------------- MODULE AudioRingProofs ---------------------------
(***************************************************************************)
(* Proofs about AudioRing, for every ring, rate, level and callback length.*)
(*                                                                         *)
(* The two threads hold indices the other may have moved since they were   *)
(* read.  What makes the ring correct is an order round the ring: from the *)
(* published ring_r to the device's own place to ring_w, with a free slot  *)
(* kept between ring_w and ring_r.  Dist measures that order without the   *)
(* modulus.                                                                *)
(***************************************************************************)
EXTENDS AudioRing, TLAPS

Dist(a, b) == IF b >= a THEN b - a ELSE b + Ring - a

(* Neither thread's own knowledge is out of date in a way that matters. *)
Between == Dist(ring_r, Place) <= Dist(ring_r, ring_w)

Room == loop \in {"left", "right", "publish"} => After(ring_w) # ring_r

Reading == device \in {"left", "right"} => r # ring_w

(* The slots from the device's place to ring_w hold the samples accepted    *)
(* and not yet heard, in order.                                             *)
Counted == pushed = heard + Dist(Place, ring_w)

Contents ==
    \A i \in Slots :
      Dist(Place, i) < Dist(Place, ring_w) =>
        /\ ring0[i] = heard + 1 + Dist(Place, i)
        /\ ring1[i] = heard + 1 + Dist(Place, i)

Written ==
    /\ loop \in {"right", "publish"} => ring0[ring_w] = pushed + 1
    /\ loop = "publish" => ring1[ring_w] = pushed + 1

Taking ==
    last_out = IF device = "right" THEN <<heard + 1, heard>> ELSE <<heard, heard>>

(* The bounds on the frames, and the output clock between its steps. *)
InFrame ==
    /\ frames < MaxFrames \/ (loop = "play" /\ input = 0)
    /\ device \in {"left", "right"} => todo > 0

Clock ==
    /\ loop \in {"play", "pace"} => rs_acc < Rate
    /\ loop \in {"left", "right", "publish"} => rs_acc < DevRate

Typed == TypeOK /\ InFrame /\ Clock

Ordered == Between /\ Room /\ Reading

Held == Counted /\ Contents /\ Written /\ Taking

-----------------------------------------------------------------------------
LEMMA TypedInit == Init => Typed
  BY AudioRingAssumption DEF Init, Typed, TypeOK, InFrame, Clock, Slots

LEMMA TypedStep == Typed /\ [Next]_vars => Typed'
<1> SUFFICES ASSUME Typed, [Next]_vars PROVE Typed'
  OBVIOUS
<1> USE AudioRingAssumption DEF Typed, TypeOK, InFrame, Clock, Slots
<1>1. CASE Play
  BY <1>1 DEF Play, device_vars
<1>2. CASE Drop
  BY <1>2 DEF Drop, device_vars
<1>3. CASE FindSlot
  BY <1>3 DEF FindSlot, device_vars
<1>4. CASE WriteLeft
  BY <1>4 DEF WriteLeft, device_vars
<1>5. CASE WriteRight
  BY <1>5 DEF WriteRight, device_vars
<1>6. CASE Publish
  BY <1>6 DEF Publish, After, device_vars
<1>7. CASE Played
  BY <1>7 DEF Played, AccAfter, device_vars
<1>8. CASE EndFrame
  BY <1>8 DEF EndFrame, device_vars
<1>9. CASE Paced
  BY <1>9 DEF Paced, device_vars
<1>10. CASE Callback
  BY <1>10 DEF Callback, loop_vars
<1>11. CASE Hold
  BY <1>11 DEF Hold, loop_vars
<1>12. CASE FindSample
  BY <1>12 DEF FindSample, loop_vars
<1>13. CASE ReadLeft
  BY <1>13 DEF ReadLeft, loop_vars
<1>14. CASE ReadRight
  BY <1>14 DEF ReadRight, After, loop_vars
<1>15. CASE Return
  BY <1>15 DEF Return, RingRAfter, loop_vars
<1>16. CASE UNCHANGED vars
  BY <1>16 DEF vars, loop_vars, device_vars
<1>17. QED
  BY <1>1, <1>2, <1>3, <1>4, <1>5, <1>6, <1>7, <1>8, <1>9, <1>10, <1>11,
     <1>12, <1>13, <1>14, <1>15, <1>16 DEF Next, Loop, Device

(* Every variable keeps its type, whatever the constants: the indices stay  *)
(* in the ring and the output clock within two of its periods.              *)
THEOREM Typing == Spec => []TypeOK
<1>1. Typed => TypeOK
  BY DEF Typed
<1>2. QED
  BY <1>1, TypedInit, TypedStep, PTL DEF Spec

-----------------------------------------------------------------------------
(* Round the ring. *)

LEMMA DistRange ==
  ASSUME NEW a \in Slots, NEW b \in Slots
  PROVE  /\ Dist(a, b) \in 0..(Ring - 1)
         /\ Dist(a, b) = 0 <=> a = b
  BY AudioRingAssumption DEF Slots, Dist

LEMMA DistAfter ==
  ASSUME NEW a \in Slots, NEW b \in Slots, After(b) # a
  PROVE  /\ After(b) \in Slots
         /\ Dist(a, After(b)) = Dist(a, b) + 1
  BY AudioRingAssumption DEF Slots, Dist, After

LEMMA DistFrom ==
  ASSUME NEW a \in Slots, NEW b \in Slots, a # b
  PROVE  /\ After(a) \in Slots
         /\ Dist(After(a), b) = Dist(a, b) - 1
  BY AudioRingAssumption DEF Slots, Dist, After

LEMMA DistAdd ==
  ASSUME NEW a \in Slots, NEW b \in Slots, NEW c \in Slots,
         Dist(a, b) <= Dist(a, c)
  PROVE  Dist(b, c) = Dist(a, c) - Dist(a, b)
  BY AudioRingAssumption DEF Slots, Dist

LEMMA OrderedInit == Init => Ordered
  BY AudioRingAssumption DEF Init, Ordered, Between, Room, Reading, Dist, Place

LEMMA OrderedStep == Typed /\ Ordered /\ [Next]_vars => Ordered'
<1> SUFFICES ASSUME Typed, Ordered, [Next]_vars PROVE Ordered'
  OBVIOUS
<1>a. ring_w \in Slots /\ ring_r \in Slots /\ r \in Slots /\ Place \in Slots
  BY DEF Typed, TypeOK, Place
<1> USE DEF Ordered, Between, Room, Reading, Place
<1>1. CASE Play
  BY <1>1 DEF Play, device_vars
<1>2. CASE Drop
  BY <1>2 DEF Drop, device_vars
<1>3. CASE FindSlot
  BY <1>3 DEF FindSlot, Full, device_vars
<1>4. CASE WriteLeft
  BY <1>4 DEF WriteLeft, device_vars
<1>5. CASE WriteRight
  BY <1>5 DEF WriteRight, device_vars
<1>6. CASE Publish
  <2>1. Dist(ring_r, ring_w') = Dist(ring_r, ring_w) + 1
    BY <1>6, <1>a, DistAfter DEF Publish
  <2>2. UNCHANGED <<device, ring_r, r>>
    BY <1>6 DEF Publish, device_vars
  <2>3. Dist(ring_r, Place) \in Int /\ Dist(ring_r, ring_w) \in Int
    BY <1>a, DistRange
  <2>4. Between'
    BY <2>1, <2>2, <2>3 DEF Dist
  <2>5. r' # ring_w' \/ device \notin {"left", "right"}
    BY <2>1, <2>2, <2>3
  <2>6. QED
    BY <1>6, <2>2, <2>4, <2>5 DEF Publish
<1>7. CASE Played
  BY <1>7 DEF Played, device_vars
<1>8. CASE EndFrame
  BY <1>8 DEF EndFrame, device_vars
<1>9. CASE Paced
  BY <1>9 DEF Paced, device_vars
<1>10. CASE Callback
  BY <1>10, <1>a DEF Callback, Dist, loop_vars
<1>11. CASE Hold
  BY <1>11 DEF Hold, loop_vars
<1>12. CASE FindSample
  BY <1>12 DEF FindSample, loop_vars
<1>13. CASE ReadLeft
  BY <1>13 DEF ReadLeft, loop_vars
<1>14. CASE ReadRight
  <2>1. UNCHANGED <<ring_r, ring_w, loop>> /\ device' = "check" /\ r' = After(r)
    BY <1>14 DEF ReadRight, loop_vars
  <2>2. r # ring_w /\ Place = r
    BY <1>14 DEF ReadRight
  <2>3. Dist(ring_r, r) < Dist(ring_r, ring_w)
    BY <1>a, <2>2, AudioRingAssumption DEF Dist, Slots
  <2>4. After(r) # ring_r
    BY <1>a, <2>3, AudioRingAssumption DEF Dist, Slots, After
  <2>5. Dist(ring_r, r') = Dist(ring_r, r) + 1
    BY <1>a, <2>1, <2>4, DistAfter
  <2>6. Dist(ring_r, r) \in Int /\ Dist(ring_r, ring_w) \in Int
    BY <1>a, DistRange
  <2>7. Dist(ring_r, r') <= Dist(ring_r, ring_w)
    BY <2>3, <2>5, <2>6
  <2>8. QED
    BY <2>1, <2>7
<1>15. CASE Return
  <2>1. UNCHANGED <<r, ring_w, loop>> /\ device' = "idle" /\ ring_r' = r
    BY <1>15 DEF Return, RingRAfter, loop_vars
  <2>2. Dist(ring_r, r) <= Dist(ring_r, ring_w)
    BY <1>15 DEF Return
  <2>3. After(ring_w) # ring_r => After(ring_w) # r
    BY <1>a, <2>2, AudioRingAssumption DEF Dist, Slots, After
  <2>4. Dist(r, r) = 0 /\ Dist(r, ring_w) \in Nat
    BY <1>a, DistRange
  <2>5. QED
    BY <2>1, <2>3, <2>4
<1>16. CASE UNCHANGED vars
  BY <1>16 DEF vars, loop_vars, device_vars
<1>17. QED
  BY <1>1, <1>2, <1>3, <1>4, <1>5, <1>6, <1>7, <1>8, <1>9, <1>10, <1>11,
     <1>12, <1>13, <1>14, <1>15, <1>16 DEF Next, Loop, Device

(* No schedule of the two threads puts them in the same slot.               *)
THEOREM Apart == Spec => []SlotsApart
<1>1. Ordered => SlotsApart
  BY DEF Ordered, Reading, SlotsApart
<1>2. QED
  BY <1>1, TypedInit, TypedStep, OrderedInit, OrderedStep, PTL DEF Spec
-----------------------------------------------------------------------------
LEMMA HeldInit == Init => Held
  BY AudioRingAssumption
  DEF Init, Held, Counted, Contents, Written, Taking, Dist, Place, Slots

(* The device's place moves over a slot it has read, and ring_w over one    *)
(* that has been written; nothing else changes what is waiting.             *)
LEMMA HeldStep == Typed /\ Ordered /\ Held /\ [Next]_vars => Held'
<1> SUFFICES ASSUME Typed, Ordered, Held, [Next]_vars PROVE Held'
  OBVIOUS
<1>a. /\ ring_w \in Slots /\ ring_r \in Slots /\ r \in Slots /\ Place \in Slots
      /\ pushed \in Nat /\ heard \in Nat
      /\ ring0 \in [Slots -> Nat] /\ ring1 \in [Slots -> Nat]
  BY DEF Typed, TypeOK, Place
<1>b. ASSUME Place' = Place, UNCHANGED <<ring_w, ring0, ring1, pushed, heard>>
      PROVE  Counted' /\ Contents'
  BY <1>b DEF Held, Counted, Contents, Dist
<1>c. ASSUME UNCHANGED <<device, last_out, heard>>
      PROVE  Taking'
  BY <1>c DEF Held, Taking
<1>d. ASSUME UNCHANGED <<loop, ring_w, ring0, ring1, pushed>>
      PROVE  Written'
  BY <1>d DEF Held, Written
<1>e. ASSUME UNCHANGED device_vars
      PROVE  Place' = Place
  BY <1>e DEF Place, device_vars
<1>1. CASE Play
  BY <1>1, <1>b, <1>c, <1>e DEF Play, Held, Written, device_vars
<1>2. CASE Drop
  BY <1>2, <1>b, <1>c, <1>e DEF Drop, Held, Written, device_vars
<1>3. CASE FindSlot
  BY <1>3, <1>b, <1>c, <1>e DEF FindSlot, Held, Written, device_vars
<1>4. CASE WriteLeft
  <2>1. ring0' = [ring0 EXCEPT ![ring_w] = pushed + 1] /\ Place' = Place
    BY <1>4, <1>e DEF WriteLeft
  <2>2. UNCHANGED <<ring_w, ring1, pushed, heard>> /\ loop' = "right"
    BY <1>4 DEF WriteLeft, device_vars
  <2>3. \A i \in Slots : i # ring_w => ring0'[i] = ring0[i]
    BY <1>a, <2>1
  <2>4. ring0'[ring_w] = pushed + 1
    BY <1>a, <2>1
  <2>5. Counted'
    BY <2>1, <2>2 DEF Held, Counted, Dist
  <2>6. Contents'
    <3> SUFFICES ASSUME NEW i \in Slots, Dist(Place, i) < Dist(Place, ring_w)
                 PROVE  /\ ring0'[i] = heard + 1 + Dist(Place, i)
                        /\ ring1[i] = heard + 1 + Dist(Place, i)
      BY <2>1, <2>2 DEF Contents, Dist
    <3>1. i # ring_w
      BY <1>a, DistRange
    <3>2. QED
      BY <2>3, <3>1 DEF Held, Contents
  <2>7. Written'
    BY <2>2, <2>4 DEF Written
  <2>8. QED
    BY <1>4, <1>c, <2>5, <2>6, <2>7 DEF WriteLeft, Held, device_vars
<1>5. CASE WriteRight
  <2>1. ring1' = [ring1 EXCEPT ![ring_w] = pushed + 1] /\ Place' = Place
    BY <1>5, <1>e DEF WriteRight
  <2>2. UNCHANGED <<ring_w, ring0, pushed, heard>> /\ loop = "right"
    BY <1>5 DEF WriteRight, device_vars
  <2>3. \A i \in Slots : i # ring_w => ring1'[i] = ring1[i]
    BY <1>a, <2>1
  <2>4. ring1'[ring_w] = pushed + 1
    BY <1>a, <2>1
  <2>5. Counted'
    BY <2>1, <2>2 DEF Held, Counted, Dist
  <2>6. Contents'
    <3> SUFFICES ASSUME NEW i \in Slots, Dist(Place, i) < Dist(Place, ring_w)
                 PROVE  /\ ring0[i] = heard + 1 + Dist(Place, i)
                        /\ ring1'[i] = heard + 1 + Dist(Place, i)
      BY <2>1, <2>2 DEF Contents, Dist
    <3>1. i # ring_w
      BY <1>a, DistRange
    <3>2. QED
      BY <2>3, <3>1 DEF Held, Contents
  <2>7. Written'
    BY <2>2, <2>4 DEF Written, Held
  <2>8. QED
    BY <1>5, <1>c, <2>5, <2>6, <2>7 DEF WriteRight, Held, device_vars
<1>6. CASE Publish
  <2>1. /\ ring_w' = After(ring_w) /\ pushed' = pushed + 1 /\ loop' = "emit"
        /\ UNCHANGED <<ring0, ring1, heard>> /\ Place' = Place
    BY <1>6, <1>e DEF Publish, device_vars
  <2>2. After(ring_w) # Place
    BY <1>6, <1>a, AudioRingAssumption
    DEF Publish, Ordered, Between, Room, Dist, Slots, After
  <2>3. Dist(Place, After(ring_w)) = Dist(Place, ring_w) + 1
    BY <1>a, <2>2, DistAfter
  <2>4. ring0[ring_w] = pushed + 1 /\ ring1[ring_w] = pushed + 1
    BY <1>6 DEF Publish, Held, Written
  <2>5. Dist(Place, ring_w) \in Nat
    BY <1>a, DistRange
  <2>6. Counted'
    BY <1>a, <2>1, <2>3, <2>5 DEF Held, Counted, Dist
  <2>7. Contents'
    <3> SUFFICES ASSUME NEW i \in Slots, Dist(Place, i) < Dist(Place, ring_w) + 1
                 PROVE  /\ ring0[i] = heard + 1 + Dist(Place, i)
                        /\ ring1[i] = heard + 1 + Dist(Place, i)
      BY <2>1, <2>3 DEF Contents, Dist
    <3>1. Dist(Place, i) \in Nat
      BY <1>a, DistRange
    <3>2. CASE Dist(Place, i) < Dist(Place, ring_w)
      BY <3>2 DEF Held, Contents
    <3>3. CASE Dist(Place, i) = Dist(Place, ring_w)
      <4>1. i = ring_w
        BY <1>a, <3>3, AudioRingAssumption DEF Dist, Slots
      <4>2. QED
        BY <1>a, <2>4, <2>5, <4>1 DEF Held, Counted
    <3>4. QED
      BY <2>5, <3>1, <3>2, <3>3
  <2>8. Written'
    BY <2>1 DEF Written
  <2>9. QED
    BY <1>6, <1>c, <2>6, <2>7, <2>8 DEF Publish, Held, device_vars
<1>7. CASE Played
  BY <1>7, <1>b, <1>c, <1>e DEF Played, Held, Written, device_vars
<1>8. CASE EndFrame
  BY <1>8, <1>b, <1>c, <1>e DEF EndFrame, Held, Written, device_vars
<1>9. CASE Paced
  BY <1>9, <1>b, <1>c, <1>e DEF Paced, Held, Written, device_vars
<1>10. CASE Callback
  <2>1. Place' = Place
    BY <1>10 DEF Callback, Place
  <2>2. QED
    BY <1>10, <1>b, <1>d, <2>1 DEF Callback, Held, Taking, loop_vars
<1>11. CASE Hold
  <2>1. Place' = Place
    BY <1>11 DEF Hold, Place
  <2>2. QED
    BY <1>11, <1>b, <1>d, <2>1 DEF Hold, Held, Taking, loop_vars
<1>12. CASE FindSample
  <2>1. Place' = Place
    BY <1>12 DEF FindSample, Place
  <2>2. QED
    BY <1>12, <1>b, <1>d, <2>1 DEF FindSample, Held, Taking, loop_vars
<1>r. ASSUME device \in {"left", "right"}
      PROVE  /\ Place = r /\ r # ring_w
             /\ ring0[r] = heard + 1 /\ ring1[r] = heard + 1
  <2>1. Place = r /\ r # ring_w
    BY <1>r DEF Place, Ordered, Reading
  <2>2. Dist(r, r) = 0 /\ Dist(r, r) < Dist(r, ring_w)
    BY <1>a, <2>1, AudioRingAssumption DEF Dist, Slots
  <2>3. QED
    BY <1>a, <2>1, <2>2 DEF Held, Contents
<1>13. CASE ReadLeft
  <2>1. Place' = Place
    BY <1>13 DEF ReadLeft, Place
  <2>2. Taking'
    BY <1>13, <1>r DEF ReadLeft, Held, Taking
  <2>3. QED
    BY <1>13, <1>b, <1>d, <2>1, <2>2 DEF ReadLeft, Held, loop_vars
<1>14. CASE ReadRight
  <2>1. /\ UNCHANGED <<ring_w, ring0, ring1, pushed, loop>> /\ heard' = heard + 1
        /\ Place' = After(r)
    BY <1>14 DEF ReadRight, Place, loop_vars
  <2>2. Place = r /\ r # ring_w
    BY <1>14, <1>r DEF ReadRight
  <2>3. Dist(After(r), ring_w) = Dist(r, ring_w) - 1 /\ Dist(r, ring_w) \in Nat
    BY <1>a, <2>2, DistFrom, DistRange
  <2>4. Counted'
    BY <1>a, <2>1, <2>2, <2>3 DEF Held, Counted, Dist
  <2>5. Contents'
    <3> SUFFICES ASSUME NEW i \in Slots, Dist(After(r), i) < Dist(r, ring_w) - 1
                 PROVE  /\ ring0[i] = heard + 2 + Dist(After(r), i)
                        /\ ring1[i] = heard + 2 + Dist(After(r), i)
      BY <1>a, <2>1, <2>3 DEF Contents, Dist
    <3>1. i # r
      BY <1>a, AudioRingAssumption DEF Dist, Slots, After
    <3>2. Dist(After(r), i) = Dist(r, i) - 1 /\ Dist(r, i) \in Nat
      BY <1>a, <3>1, DistFrom, DistRange
    <3>3. Dist(r, i) < Dist(r, ring_w)
      BY <2>3, <3>2
    <3>4. ring0[i] = heard + 1 + Dist(r, i) /\ ring1[i] = heard + 1 + Dist(r, i)
      BY <2>2, <3>3 DEF Held, Contents
    <3>5. QED
      BY <1>a, <3>2, <3>4
  <2>6. Taking'
    BY <1>14, <1>r DEF ReadRight, Held, Taking
  <2>7. QED
    BY <1>d, <2>1, <2>4, <2>5, <2>6 DEF Held
<1>15. CASE Return
  <2>1. Place' = Place
    BY <1>15 DEF Return, RingRAfter, Place
  <2>2. QED
    BY <1>15, <1>b, <1>d, <2>1 DEF Return, Held, Taking, loop_vars
<1>16. CASE UNCHANGED vars
  BY <1>16, <1>b, <1>c, <1>d, <1>e DEF vars, loop_vars, device_vars, Held
<1>17. QED
  BY <1>1, <1>2, <1>3, <1>4, <1>5, <1>6, <1>7, <1>8, <1>9, <1>10, <1>11,
     <1>12, <1>13, <1>14, <1>15, <1>16 DEF Next, Loop, Device

(* Whatever the schedule, the device hears every accepted sample once, in   *)
(* order and with its two channels together.                                *)
THEOREM Whole == Spec => []HeardWhole
<1>1. Held => HeardWhole
  BY DEF Held, Taking, HeardWhole
<1>2. QED
  BY <1>1, TypedInit, TypedStep, OrderedInit, OrderedStep, HeldInit, HeldStep, PTL
  DEF Spec

-----------------------------------------------------------------------------
(* The output clock.  Every sample emitted, or dropped for want of a slot,  *)
(* advances it by Rate; every sample played takes DevRate off it.           *)
Pitch ==
    IF loop \in {"play", "pace"}
    THEN (pushed + over) * Rate = fed * DevRate + rs_acc
    ELSE (pushed + over) * Rate + DevRate = fed * DevRate + rs_acc

LEMMA TimesSucc ==
  ASSUME NEW a \in Nat, NEW b \in Nat
  PROVE  (a + 1) * b = a * b + b
  OBVIOUS

LEMMA PitchInit == Init => Pitch
  BY AudioRingAssumption DEF Init, Pitch

LEMMA PitchStep == Typed /\ Pitch /\ [Next]_vars => Pitch'
<1> SUFFICES ASSUME Typed, Pitch, [Next]_vars PROVE Pitch'
  OBVIOUS
<1>a. /\ pushed \in Nat /\ over \in Nat /\ fed \in Nat /\ rs_acc \in Nat
      /\ Rate \in Nat /\ DevRate \in Nat /\ pushed + over \in Nat
      /\ (pushed + over) * Rate \in Nat /\ fed * DevRate \in Nat
  BY AudioRingAssumption DEF Typed, TypeOK
<1>1. CASE Play
  <2>1. fed' * DevRate = fed * DevRate + DevRate
    BY <1>1, <1>a, TimesSucc DEF Play
  <2>2. QED
    BY <1>1, <1>a, <2>1 DEF Play, Pitch
<1>2. CASE Drop
  <2>1. (pushed' + over') * Rate = (pushed + over) * Rate + Rate
    <3>1. pushed' + over' = (pushed + over) + 1
      BY <1>2, <1>a DEF Drop
    <3>2. QED
      BY <1>a, <3>1, TimesSucc
  <2>2. QED
    BY <1>2, <1>a, <2>1 DEF Drop, Pitch
<1>3. CASE FindSlot
  BY <1>3 DEF FindSlot, Pitch
<1>4. CASE WriteLeft
  BY <1>4 DEF WriteLeft, Pitch
<1>5. CASE WriteRight
  BY <1>5 DEF WriteRight, Pitch
<1>6. CASE Publish
  <2>1. (pushed' + over') * Rate = (pushed + over) * Rate + Rate
    <3>1. pushed' + over' = (pushed + over) + 1
      BY <1>6, <1>a DEF Publish
    <3>2. QED
      BY <1>a, <3>1, TimesSucc
  <2>2. QED
    BY <1>6, <1>a, <2>1 DEF Publish, Pitch
<1>7. CASE Played
  BY <1>7, <1>a DEF Played, AccAfter, Pitch
<1>8. CASE EndFrame
  BY <1>8 DEF EndFrame, Pitch
<1>9. CASE Paced
  BY <1>9 DEF Paced, Pitch
<1>10. CASE Device \/ UNCHANGED vars
  <2>1. UNCHANGED loop_vars
    BY <1>10 DEF Device, Callback, Hold, FindSample, ReadLeft, ReadRight, Return, vars
  <2>2. QED
    BY <2>1 DEF loop_vars, Pitch
<1>11. QED
  BY <1>1, <1>2, <1>3, <1>4, <1>5, <1>6, <1>7, <1>8, <1>9, <1>10 DEF Next, Loop

(* However long it runs, and whatever is dropped, the resampled stream is   *)
(* less than one output sample away from the stream it is made of.          *)
THEOREM InPitch == Spec => []KeepsPitch
<1>1. Typed /\ Pitch => KeepsPitch
  BY DEF Typed, Clock, Pitch, KeepsPitch
<1>2. QED
  BY <1>1, TypedInit, TypedStep, PitchInit, PitchStep, PTL DEF Spec

-----------------------------------------------------------------------------
(* The level.  A frame starts with no more than high queued, and emits what *)
(* its samples ask for; what the device takes only lowers it.               *)
Ahead == Dist(ring_r, ring_w) - high

Level ==
    IF loop \in {"play", "pace"}
    THEN Ahead * Rate <= input * DevRate + rs_acc
    ELSE Ahead * Rate + DevRate <= input * DevRate + rs_acc

LEMMA TimesMonotone ==
  ASSUME NEW a \in Int, NEW b \in Int, NEW c \in Nat, a <= b
  PROVE  a * c <= b * c
<1>1. (b - a) * c >= 0
  OBVIOUS
<1>2. (b - a) * c = b * c - a * c
  OBVIOUS
<1>3. a * c \in Int /\ b * c \in Int
  OBVIOUS
<1>4. QED
  BY <1>1, <1>2, <1>3

LEMMA LevelInit == Init => Level
<1> SUFFICES ASSUME Init PROVE Level
  OBVIOUS
<1>1. high \in Nat /\ Rate \in Nat /\ DevRate \in Nat
  BY AudioRingAssumption DEF Init
<1>2. Ahead = 0 - high
  BY <1>1 DEF Init, Ahead, Dist
<1>3. (0 - high) * Rate <= 0 * Rate
  BY <1>1, TimesMonotone
<1>4. QED
  BY <1>1, <1>2, <1>3 DEF Init, Level

LEMMA LevelStep == Typed /\ Ordered /\ Level /\ [Next]_vars => Level'
<1> SUFFICES ASSUME Typed, Ordered, Level, [Next]_vars PROVE Level'
  OBVIOUS
<1>a. /\ ring_w \in Slots /\ ring_r \in Slots /\ r \in Slots
      /\ high \in Nat /\ rs_acc \in Nat /\ input \in Nat
      /\ Rate \in Nat /\ DevRate \in Nat
      /\ Dist(ring_r, ring_w) \in Nat
  BY AudioRingAssumption, DistRange DEF Typed, TypeOK
<1>b. Ahead \in Int /\ Ahead * Rate \in Int /\ input * DevRate \in Nat
  BY <1>a DEF Ahead
<1>c. ASSUME UNCHANGED <<high, ring_r, ring_w>>
      PROVE  Ahead' = Ahead
  BY <1>c DEF Ahead, Dist
<1>1. CASE Play
  <2>1. input' * DevRate = input * DevRate + DevRate
    BY <1>1, <1>a, TimesSucc DEF Play
  <2>2. Ahead' = Ahead
    BY <1>1, <1>c DEF Play, device_vars
  <2>3. QED
    BY <1>1, <1>a, <1>b, <2>1, <2>2 DEF Play, Level
<1>2. CASE Drop
  <2>1. Ahead' = Ahead
    BY <1>2, <1>c DEF Drop, device_vars
  <2>2. QED
    BY <1>2, <1>a, <1>b, <2>1 DEF Drop, Level
<1>3. CASE FindSlot
  BY <1>3, <1>c DEF FindSlot, Level, device_vars
<1>4. CASE WriteLeft
  BY <1>4, <1>c DEF WriteLeft, Level, device_vars
<1>5. CASE WriteRight
  BY <1>5, <1>c DEF WriteRight, Level, device_vars
<1>6. CASE Publish
  <2>1. /\ ring_w' = After(ring_w) /\ rs_acc' = rs_acc + Rate /\ loop' = "emit"
        /\ UNCHANGED <<high, ring_r, input>>
    BY <1>6 DEF Publish, device_vars
  <2>2. Dist(ring_r, After(ring_w)) = Dist(ring_r, ring_w) + 1
    BY <1>6, <1>a, DistAfter DEF Publish, Ordered, Room
  <2>3. Ahead' = Ahead + 1
    BY <1>a, <2>1, <2>2 DEF Ahead, Dist
  <2>4. (Ahead + 1) * Rate = Ahead * Rate + Rate
    BY <1>a, <1>b
  <2>5. Ahead * Rate + DevRate <= input * DevRate + rs_acc
    BY <1>6 DEF Publish, Level
  <2>6. QED
    BY <1>a, <1>b, <2>1, <2>3, <2>4, <2>5 DEF Level
<1>7. CASE Played
  <2>1. Ahead' = Ahead
    BY <1>7, <1>c DEF Played, device_vars
  <2>2. QED
    BY <1>7, <1>a, <1>b, <2>1 DEF Played, AccAfter, Level
<1>8. CASE EndFrame
  BY <1>8, <1>c DEF EndFrame, Level, device_vars
<1>9. CASE Paced
  <2>1. Ahead <= 0
    BY <1>9, <1>a DEF Paced, Queued, Ahead, Dist, Slots
  <2>2. Ahead * Rate <= 0 * Rate
    BY <1>a, <1>b, <2>1, TimesMonotone
  <2>3. Ahead' = Ahead
    BY <1>9, <1>c DEF Paced, device_vars
  <2>4. QED
    BY <1>9, <1>a, <1>b, <2>2, <2>3 DEF Paced, Level
<1>10. CASE Return
  <2>1. UNCHANGED <<high, ring_w, rs_acc, input, loop>> /\ ring_r' = r
    BY <1>10 DEF Return, RingRAfter, loop_vars
  <2>2. Dist(ring_r, r) <= Dist(ring_r, ring_w)
    BY <1>10 DEF Return, Ordered, Between, Place
  <2>3. Dist(r, ring_w) <= Dist(ring_r, ring_w)
    BY <1>a, <2>2, AudioRingAssumption DEF Dist, Slots
  <2>4. Dist(r, ring_w) \in Nat /\ Ahead' = Dist(r, ring_w) - high
    BY <1>a, <2>1, DistRange DEF Ahead, Dist
  <2>5. Ahead' \in Int /\ Ahead' <= Ahead
    BY <1>a, <2>3, <2>4 DEF Ahead
  <2>6. Ahead' * Rate <= Ahead * Rate /\ Ahead' * Rate \in Int
    <3>1. \A a \in Int : a * Rate \in Int
      BY <1>a
    <3>2. \A a, b \in Int : a <= b => a * Rate <= b * Rate
      BY <1>a, TimesMonotone
    <3>3. QED
      BY <1>b, <2>5, <3>1, <3>2
  <2>7. QED
    BY <1>a, <1>b, <2>1, <2>6 DEF Level
<1>11. CASE Callback \/ Hold \/ FindSample \/ ReadLeft \/ ReadRight \/ UNCHANGED vars
  <2>1. UNCHANGED <<high, ring_w, ring_r, rs_acc, input, loop>>
    BY <1>11 DEF Callback, Hold, FindSample, ReadLeft, ReadRight, vars, loop_vars, device_vars
  <2>2. QED
    BY <1>c, <2>1 DEF Level
<1>12. QED
  BY <1>1, <1>2, <1>3, <1>4, <1>5, <1>6, <1>7, <1>8, <1>9, <1>10, <1>11
  DEF Next, Loop, Device

(* A whole frame of room over the level leaves a slot for every sample.     *)
LEMMA RoomForFrame ==
  ASSUME Typed, Level, loop = "emit", rs_acc < DevRate, high + PerFrame < Ring
  PROVE  ~Full
<1> DEFINE asked == Inputs * DevRate
           q     == asked \div Rate
<1>a. /\ ring_w \in Slots /\ ring_r \in Slots
      /\ high \in Nat /\ rs_acc \in Nat /\ input \in Nat /\ input <= Inputs
      /\ Rate \in Nat /\ Rate > 0 /\ DevRate \in Nat /\ Ring \in Nat /\ Inputs \in Nat
      /\ Dist(ring_r, ring_w) \in Nat
  BY AudioRingAssumption, DistRange DEF Typed, TypeOK
<1>b. Ahead \in Int /\ Ahead * Rate \in Int /\ input * DevRate \in Nat /\ asked \in Nat
  BY <1>a DEF Ahead
<1>1. input * DevRate <= asked
  BY <1>a, TimesMonotone
<1>2. Ahead * Rate < asked
  BY <1>a, <1>b, <1>1 DEF Level
<1>3. q \in Int /\ asked < (q + 1) * Rate
  <2> HIDE DEF asked
  <2>1. q \in Int /\ asked % Rate \in 0..(Rate - 1)
    BY <1>a, <1>b
  <2>2. asked = Rate * q + (asked % Rate)
    BY <1>a, <1>b
  <2>3. (q + 1) * Rate = Rate * q + Rate
    BY <1>a, <2>1
  <2>4. Rate * q \in Int
    BY <1>a, <2>1
  <2> HIDE DEF q
  <2>5. QED
    BY <1>a, <1>b, <2>1, <2>2, <2>3, <2>4
<1>4. SUFFICES ASSUME Full PROVE FALSE
  OBVIOUS
<1>5. Dist(ring_r, ring_w) = Ring - 1
  BY <1>4, <1>a, AudioRingAssumption DEF Full, After, Dist, Slots
<1>6. q + 1 <= Ahead
  BY <1>a, <1>3, <1>5 DEF Ahead, PerFrame
<1>7. (q + 1) * Rate <= Ahead * Rate /\ (q + 1) * Rate \in Int
  BY <1>a, <1>b, <1>3, <1>6, TimesMonotone
<1>8. QED
  BY <1>b, <1>2, <1>3, <1>7

LEMMA DroplessStep ==
  Typed /\ Level /\ NothingDropped /\ [Next]_vars => NothingDropped'
<1> SUFFICES ASSUME Typed, Level, NothingDropped, [Next]_vars, high' + PerFrame < Ring
             PROVE  over' = 0
  BY DEF NothingDropped, PerFrame
<1>1. UNCHANGED high
  BY DEF Next, Loop, Device, Play, Drop, FindSlot, WriteLeft, WriteRight, Publish,
         Played, EndFrame, Paced, Callback, Hold, FindSample, ReadLeft, ReadRight,
         Return, vars, loop_vars, device_vars
<1>2. over = 0
  BY <1>1 DEF NothingDropped
<1>3. CASE Drop
  BY <1>1, <1>3, RoomForFrame DEF Drop
<1>4. CASE ~Drop
  BY <1>2, <1>4
  DEF Next, Loop, Device, Play, FindSlot, WriteLeft, WriteRight, Publish,
      Played, EndFrame, Paced, Callback, Hold, FindSample, ReadLeft, ReadRight,
      Return, vars, loop_vars, device_vars
<1>5. QED
  BY <1>3, <1>4

(* At any level that leaves a frame's room in the ring, pacing by the       *)
(* device alone keeps the loop from ever dropping a sample.                 *)
THEOREM Dropless == Spec => []NothingDropped
<1>1. Init => NothingDropped
  BY DEF Init, NothingDropped
<1>2. QED
  BY <1>1, TypedInit, TypedStep, OrderedInit, OrderedStep, LevelInit, LevelStep,
     DroplessStep, PTL
  DEF Spec

-----------------------------------------------------------------------------
(* The ring as a queue: what waits in it is the samples between the one     *)
(* last heard and the one last accepted.                                    *)
Waited(h, p) == [k \in 1..(p - h) |-> <<h + k, h + k>>]

InQueue == [k \in 1..Waiting |-> LET i == (Place + k - 1) % Ring IN <<ring0[i], ring1[i]>>]
Playing == IF device = "right" THEN <<heard, heard>> ELSE last_out

LEMMA QueueIs ==
  ASSUME Typed, Held
  PROVE  /\ InQueue = Waited(heard, pushed) /\ Playing = <<heard, heard>>
         /\ heard \in Nat /\ pushed \in Nat /\ heard <= pushed
<1>1. /\ Place \in Slots /\ ring_w \in Slots /\ heard \in Nat /\ pushed \in Nat
      /\ Ring \in Nat /\ Ring > 1
  BY AudioRingAssumption DEF Typed, TypeOK, Place
<1>2. Waiting = pushed - heard /\ Waiting = Dist(Place, ring_w) /\ Waiting \in 0..(Ring - 1)
  BY <1>1, DistRange DEF Held, Counted, Waiting, Dist
<1>3. ASSUME NEW k \in 1..Waiting
      PROVE  <<ring0[(Place + k - 1) % Ring], ring1[(Place + k - 1) % Ring]>>
               = <<heard + k, heard + k>>
  <2> DEFINE i == (Place + k - 1) % Ring
  <2>1. i = IF Place + k - 1 < Ring THEN Place + k - 1 ELSE Place + k - 1 - Ring
    BY <1>1, <1>2 DEF Slots
  <2>2. i \in Slots /\ Dist(Place, i) = k - 1
    <3> HIDE DEF i
    <3> QED BY <1>1, <1>2, <2>1 DEF Slots, Dist
  <2> HIDE DEF i
  <2>3. ring0[i] = heard + 1 + (k - 1) /\ ring1[i] = heard + 1 + (k - 1)
    BY <1>2, <2>2 DEF Held, Contents
  <2>4. heard + 1 + (k - 1) = heard + k
    BY <1>1
  <2> QED BY <2>3, <2>4 DEF i
<1>4. InQueue = Waited(heard, pushed)
  BY <1>2, <1>3 DEF InQueue, Waited
<1>5. Playing = <<heard, heard>>
  BY DEF Held, Taking, Playing
<1> QED BY <1>1, <1>2, <1>4, <1>5

(* A frame's samples, and the bound that follows on all a run can accept.   *)
FedIs == fed = frames * Inputs + input /\ (loop = "pace" => input = Inputs)

LEMMA FedInit == Init => FedIs
  BY AudioRingAssumption DEF Init, FedIs

LEMMA FedStep == Typed /\ FedIs /\ [Next]_vars => FedIs'
<1> SUFFICES ASSUME Typed, FedIs, [Next]_vars PROVE FedIs'
  OBVIOUS
<1>a. fed \in Nat /\ frames \in Nat /\ input \in Nat /\ Inputs \in Nat
      /\ frames * Inputs \in Nat
  BY AudioRingAssumption DEF Typed, TypeOK
<1>1. CASE Play
  BY <1>1, <1>a DEF Play, FedIs
<1>2. CASE Paced
  <2>1. (frames + 1) * Inputs = frames * Inputs + Inputs
    BY <1>a, TimesSucc
  <2>2. input = Inputs
    BY <1>2 DEF FedIs, Paced
  <2> QED BY <1>2, <1>a, <2>1, <2>2 DEF Paced, FedIs
<1>3. CASE UNCHANGED <<fed, frames, input>> /\ (loop' = "pace" => input = Inputs)
  BY <1>3 DEF FedIs
<1>4. CASE UNCHANGED <<fed, frames, input, loop>>
  BY <1>4 DEF FedIs
<1> QED BY <1>1, <1>2, <1>3, <1>4
  DEF Next, Loop, Device, Drop, FindSlot, WriteLeft, WriteRight, Publish,
      Played, EndFrame, Callback, Hold, FindSample, ReadLeft, ReadRight,
      Return, vars, loop_vars, device_vars

LEMMA FedBound == ASSUME Typed, FedIs PROVE fed <= MaxFrames * Inputs /\ MaxFrames * Inputs \in Nat
<1>1. /\ fed \in Nat /\ frames \in Nat /\ input \in Nat /\ Inputs \in Nat /\ MaxFrames \in Nat
      /\ input <= Inputs /\ frames * Inputs \in Nat /\ fed = frames * Inputs + input
      /\ MaxFrames * Inputs \in Nat
  BY AudioRingAssumption DEF Typed, TypeOK, FedIs
<1>2. CASE frames < MaxFrames
  <2>1. (frames + 1) * Inputs = frames * Inputs + Inputs
    BY <1>1, TimesSucc
  <2>2. frames + 1 <= MaxFrames /\ frames + 1 \in Int
    BY <1>1, <1>2
  <2>3. (frames + 1) * Inputs <= MaxFrames * Inputs
    BY <1>1, <2>2, TimesMonotone
  <2> QED BY <1>1, <2>1, <2>3
<1>3. CASE ~(frames < MaxFrames)
  <2>1. input = 0 /\ frames = MaxFrames
    BY <1>3, AudioRingAssumption DEF Typed, TypeOK, InFrame
  <2> QED BY <1>1, <2>1
<1> QED BY <1>2, <1>3

LEMMA PushedBound ==
  ASSUME Typed, Pitch, FedIs, loop = "publish"
  PROVE  pushed + 1 \in 0..MaxSample
<1> DEFINE q == DevRate \div Rate
           m == DevRate % Rate
           top == fed * (q + 1)
<1>1. /\ pushed \in Nat /\ over \in Nat /\ fed \in Nat /\ rs_acc \in Nat
      /\ Rate \in Nat \ {0} /\ DevRate \in Nat /\ rs_acc < DevRate
  BY AudioRingAssumption DEF Typed, TypeOK, Clock
<1>2. q \in Nat /\ m \in 0..(Rate - 1) /\ DevRate = Rate * q + m
  BY <1>1
<1> HIDE DEF q, m
<1>3. /\ (pushed + over) * Rate \in Nat /\ fed * DevRate \in Nat
      /\ (pushed + over) * Rate + DevRate = fed * DevRate + rs_acc
  BY <1>1 DEF Pitch
<1>4. fed * DevRate = fed * q * Rate + fed * m /\ fed * m <= fed * (Rate - 1)
  <2>1. fed * (Rate * q + m) = fed * q * Rate + fed * m
    BY <1>1, <1>2
  <2>2. m <= Rate - 1 /\ m \in Int /\ Rate - 1 \in Int
    BY <1>1, <1>2
  <2>3. m * fed <= (Rate - 1) * fed
    BY <1>1, <2>2, TimesMonotone
  <2>4. m * fed = fed * m /\ (Rate - 1) * fed = fed * (Rate - 1)
    BY <1>1, <1>2
  <2> QED BY <1>2, <2>1, <2>3, <2>4
<1>5. top \in Nat /\ top * Rate = fed * q * Rate + fed * Rate
      /\ fed * (Rate - 1) = fed * Rate - fed
      /\ fed * q * Rate \in Nat /\ fed * Rate \in Nat /\ fed * m \in Nat
  BY <1>1, <1>2
<1>6. (pushed + over + 1) * Rate = (pushed + over) * Rate + Rate /\ (top + 1) * Rate = top * Rate + Rate
  BY <1>1, <1>5, TimesSucc
<1> HIDE DEF top
<1>7. (pushed + over + 1) * Rate < (top + 1) * Rate
  <2>1. \A a, b, c, d, e, f, g \in Int :
          (/\ a + DevRate = b + rs_acc /\ b = c + d /\ d <= e /\ e = f - fed /\ g = c + f)
          => a + Rate < g + Rate + Rate
    BY <1>1
  <2> DEFINE a == (pushed + over) * Rate
             b == fed * DevRate
             c == fed * q * Rate
             d == fed * m
             e == fed * (Rate - 1)
             f == fed * Rate
             g == top * Rate
  <2>2. a \in Int /\ b \in Int /\ c \in Int /\ d \in Int /\ e \in Int /\ f \in Int /\ g \in Int
    BY <1>1, <1>2, <1>3, <1>5
  <2>3. a + DevRate = b + rs_acc /\ b = c + d /\ d <= e /\ e = f - fed /\ g = c + f
    BY <1>3, <1>4, <1>5
  <2>4. (pushed + over + 1) * Rate = a + Rate /\ (top + 1) * Rate = g + Rate
    BY <1>6
  <2> HIDE DEF a, b, c, d, e, f, g
  <2>5. a + Rate < g + Rate
    BY <1>1, <2>2, <2>3
  <2> QED BY <2>4, <2>5
<1>8. ~(top + 1 <= pushed + over + 1)
  <2> SUFFICES ASSUME top + 1 <= pushed + over + 1 PROVE FALSE
    OBVIOUS
  <2>1. top + 1 \in Int /\ pushed + over + 1 \in Int /\ Rate \in Nat
    BY <1>1, <1>5
  <2>2. (top + 1) * Rate <= (pushed + over + 1) * Rate
    BY <2>1, TimesMonotone
  <2>3. (top + 1) * Rate \in Int /\ (pushed + over + 1) * Rate \in Int
    BY <2>1
  <2> QED BY <1>7, <2>2, <2>3
<1>9. top <= MaxSample /\ MaxSample \in Nat
  <2>1. fed <= MaxFrames * Inputs /\ MaxFrames * Inputs \in Nat
    BY FedBound
  <2>2. q + 1 \in Nat
    BY <1>2
  <2> DEFINE z == MaxFrames * Inputs
  <2>3. z \in Int /\ fed \in Int /\ fed <= z /\ z \in Nat
    BY <1>1, <2>1
  <2>4. MaxSample = z * (q + 1)
    BY DEF MaxSample, q
  <2> HIDE DEF z
  <2>5. fed * (q + 1) <= z * (q + 1)
    BY <2>2, <2>3, TimesMonotone
  <2> QED BY <2>2, <2>3, <2>4, <2>5 DEF top
<1> QED BY <1>1, <1>5, <1>8, <1>9

(* Storing ring_w is the one step that puts a sample into the queue, and    *)
(* the read of the second channel the one that takes it out.                *)
LEMMA StepOfQueue ==
  ASSUME Typed, Held, Pitch, FedIs, Typed', Held', [Next]_vars
  PROVE  \/ /\ Len(InQueue) < Ring - 1 /\ Playing' = Playing
            /\ \E n \in 0..MaxSample : InQueue' = Append(InQueue, <<n, n>>)
         \/ InQueue # <<>> /\ Playing' = Head(InQueue) /\ InQueue' = Tail(InQueue)
         \/ UNCHANGED <<InQueue, Playing>>
<1>1. /\ InQueue = Waited(heard, pushed) /\ Playing = <<heard, heard>>
      /\ heard \in Nat /\ pushed \in Nat /\ heard <= pushed
  BY QueueIs
<1>2. /\ InQueue' = Waited(heard', pushed') /\ Playing' = <<heard', heard'>>
      /\ heard' \in Nat /\ pushed' \in Nat /\ heard' <= pushed'
  <2>1. (InQueue = Waited(heard, pushed) /\ Playing = <<heard, heard>>
         /\ heard \in Nat /\ pushed \in Nat /\ heard <= pushed)'
    BY QueueIs, PTL
  <2> QED BY <2>1 DEF Waited
<1>3. Len(InQueue) = pushed - heard /\ InQueue = [k \in 1..(pushed - heard) |-> <<heard + k, heard + k>>]
  BY <1>1 DEF Waited
<1>4. CASE Publish
  <2>1. pushed' = pushed + 1 /\ heard' = heard
    BY <1>4 DEF Publish, device_vars
  <2>2. pushed' = heard' + Dist(Place, ring_w)' /\ Dist(Place, ring_w)' \in 0..(Ring - 1)
    BY DistRange DEF Held, Counted, Typed, TypeOK, Place, Dist, Slots
  <2>3. Len(InQueue) < Ring - 1
    BY <1>1, <1>3, <2>1, <2>2, AudioRingAssumption
  <2>4. pushed + 1 \in 0..MaxSample
    BY <1>4, PushedBound DEF Publish
  <2>5. InQueue' = Append(InQueue, <<pushed + 1, pushed + 1>>)
    BY <1>1, <1>2, <1>3, <2>1 DEF Waited
  <2> QED BY <1>1, <1>2, <2>1, <2>3, <2>4, <2>5
<1>5. CASE ReadRight
  <2>1. pushed' = pushed /\ heard' = heard + 1
    BY <1>5 DEF ReadRight, loop_vars
  <2>2. InQueue # <<>> /\ Head(InQueue) = <<heard + 1, heard + 1>>
    <3>1. pushed - heard > 0 /\ 1 \in 1..(pushed - heard)
      BY <1>1, <1>2, <2>1
    <3>2. InQueue # <<>>
      BY <1>3, <3>1
    <3>3. InQueue[1] = <<heard + 1, heard + 1>>
      <4> HIDE DEF InQueue
      <4> QED BY <1>3, <3>1
    <3> QED BY <3>2, <3>3
  <2>3. InQueue' = Tail(InQueue)
    BY <1>1, <1>2, <1>3, <2>1 DEF Waited
  <2> QED BY <1>1, <1>2, <2>1, <2>2, <2>3
<1>6. CASE UNCHANGED <<pushed, heard>>
  BY <1>1, <1>2, <1>6 DEF Waited
<1> QED BY <1>4, <1>5, <1>6
  DEF Next, Loop, Device, Play, Drop, FindSlot, WriteLeft, WriteRight,
      Played, EndFrame, Paced, Callback, Hold, FindSample, ReadLeft,
      Return, vars, loop_vars, device_vars

(* The ring does nothing but what a bounded queue of whole samples may do,  *)
(* for every ring, every pair of rates and every schedule of the two        *)
(* threads.  That every sample is heard in the end is Queue's, and TLC's.   *)
THEOREM ImplementsQueue == Spec => Q!Safe
<1>1. Init /\ Typed /\ Held => Q!Init
  <2> SUFFICES ASSUME Init, Typed, Held PROVE Q!Init
    OBVIOUS
  <2>1. InQueue = Waited(0, 0) /\ Playing = <<0, 0>>
    BY QueueIs DEF Init
  <2>2. InQueue = <<>>
    BY <2>1 DEF Waited
  <2>3. 0 \in 0..MaxSample
    <3>1. MaxFrames * Inputs \in Nat /\ DevRate \div Rate + 1 \in Nat
      BY AudioRingAssumption
    <3> QED BY <3>1 DEF MaxSample
  <2> QED BY <2>1, <2>2, <2>3 DEF Q!Init, InQueue, Playing
<1>2. Typed /\ Held /\ Pitch /\ FedIs /\ (Typed /\ Held)' /\ [Next]_vars
        => [Q!Next]_<<InQueue, Playing>>
  BY StepOfQueue DEF Q!Next, Q!Accept, Q!Hear, InQueue, Playing
<1> QED
  BY <1>1, <1>2, TypedInit, TypedStep, OrderedInit, OrderedStep, HeldInit, HeldStep,
     PitchInit, PitchStep, FedInit, FedStep, PTL DEF Spec, Q!Safe, InQueue, Playing
=============================================================================

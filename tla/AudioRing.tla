------------------------------ MODULE AudioRing ------------------------------
(***************************************************************************)
(* The ring of src/src/sound.c between the frame loop, which resamples the *)
(* PWM's stream to the device's rate and pushes it, and SDL's audio        *)
(* thread, which calls sound_mix back for so many frames at a time.  The   *)
(* two threads share the ring and two atomic indices and nothing else;     *)
(* every access of one of those is a step of its own.  sound_pace, at the  *)
(* end of a frame, waits for the device and has no other clock.            *)
(*                                                                         *)
(* A stereo sample is named by its number, once for each channel, so a     *)
(* torn, lost or repeated one shows.                                       *)
(***************************************************************************)
EXTENDS Integers, Sequences

CONSTANTS
    Ring,      \* RING, the slots of the ring
    Rate,      \* mars_pwm_rate(), the stream's rate
    DevRate,   \* dev_rate, the device's; only the ratio of the two matters
    Levels,    \* the levels sound_pace may wait for, dev_rate / 15
    Inputs,    \* samples the PWM plays in a frame
    Frames,    \* frames the device asks for in a callback
    MaxFrames  \* bound on the frames run

ASSUME AudioRingAssumption ==
    /\ Ring \in Nat /\ Ring > 1
    /\ Rate \in Nat \ {0}
    /\ DevRate \in Nat \ {0}
    /\ Levels \subseteq Nat
    /\ Inputs \in Nat \ {0}
    /\ Frames \in Nat
    /\ MaxFrames \in Nat

VARIABLES
    high,     \* the level of the device that sound_open got
    loop,     \* the frame loop: "play", "emit", "left", "right", "publish", "pace"
    ring_w,   \* the slot it fills next
    rs_acc,   \* where the output clock stands in the current input sample
    input,    \* samples played in this frame
    frames,   \* frames run
    device,   \* the audio thread: "idle", "check", "left", "right"
    ring_r,   \* the slot it reads next, as published
    r,        \* sound_mix's own copy of it
    todo,     \* frames left of this callback
    ring0,    \* the left channel of every slot
    ring1,    \* the right
    last_out, \* the sample the device plays, or holds when dry
    over,     \* samples dropped for want of a slot
    pushed,   \* history: samples accepted
    heard,    \* history: samples the device has taken
    fed       \* history: samples played

loop_vars   == <<high, loop, ring_w, rs_acc, input, frames, ring0, ring1, over, pushed, fed>>
device_vars == <<high, device, ring_r, r, todo, last_out, heard>>
vars == <<loop_vars, device_vars>>

Slots == 0..(Ring - 1)

Init ==
    /\ high \in Levels
    /\ loop = "play" /\ ring_w = 0 /\ rs_acc = 0 /\ input = 0 /\ frames = 0
    /\ device = "idle" /\ ring_r = 0 /\ r = 0 /\ todo = 0
    /\ ring0 = [i \in Slots |-> 0] /\ ring1 = [i \in Slots |-> 0]
    /\ last_out = <<0, 0>>
    /\ over = 0 /\ pushed = 0 /\ heard = 0 /\ fed = 0

\* the index that is never wrapped
AfterUnwrapped(i) == i + 1

(* (i + 1) % RING *)
After(i) == IF i = Ring - 1 THEN 0 ELSE i + 1

-----------------------------------------------------------------------------
(* The frame loop. *)

(* play, entered from sound_pwm_tick for each sample of the frame. *)
Play ==
    /\ loop = "play"
    /\ input < Inputs
    /\ frames < MaxFrames
    /\ loop' = "emit"
    /\ input' = input + 1
    /\ fed' = fed + 1
    /\ UNCHANGED <<ring_w, rs_acc, frames, ring0, ring1, over, pushed, device_vars>>

\* a ring one slot of which is not kept free
FullNever == FALSE

(* ring_push's test, against the index the device last published. *)
Full == After(ring_w) = ring_r

(* An output sample that falls inside this input interval is dropped when   *)
(* there is no slot for it.                                                 *)
Drop ==
    /\ loop = "emit"
    /\ rs_acc < DevRate
    /\ Full
    /\ over' = over + 1
    /\ rs_acc' = rs_acc + Rate
    /\ UNCHANGED <<loop, ring_w, input, frames, ring0, ring1, pushed, fed, device_vars>>

FindSlot ==
    /\ loop = "emit"
    /\ rs_acc < DevRate
    /\ ~Full
    /\ loop' = "left"
    /\ UNCHANGED <<ring_w, rs_acc, input, frames, ring0, ring1, over, pushed, fed, device_vars>>

WriteLeft ==
    /\ loop = "left"
    /\ loop' = "right"
    /\ ring0' = [ring0 EXCEPT ![ring_w] = pushed + 1]
    /\ UNCHANGED <<ring_w, rs_acc, input, frames, ring1, over, pushed, fed, device_vars>>

WriteRight ==
    /\ loop = "right"
    /\ loop' = "publish"
    /\ ring1' = [ring1 EXCEPT ![ring_w] = pushed + 1]
    /\ UNCHANGED <<ring_w, rs_acc, input, frames, ring0, over, pushed, fed, device_vars>>

(* The new index is stored last, and the output clock steps on. *)
Publish ==
    /\ loop = "publish"
    /\ loop' = "emit"
    /\ ring_w' = After(ring_w)
    /\ rs_acc' = rs_acc + Rate
    /\ pushed' = pushed + 1
    /\ UNCHANGED <<input, frames, ring0, ring1, over, fed, device_vars>>

\* the output clock restarted at every input sample
AccAfterReset == 0

(* What the output clock keeps of the input sample it has passed. *)
AccAfter == rs_acc - DevRate

Played ==
    /\ loop = "emit"
    /\ rs_acc >= DevRate
    /\ loop' = "play"
    /\ rs_acc' = AccAfter
    /\ UNCHANGED <<ring_w, input, frames, ring0, ring1, over, pushed, fed, device_vars>>

EndFrame ==
    /\ loop = "play"
    /\ input = Inputs
    /\ loop' = "pace"
    /\ UNCHANGED <<ring_w, rs_acc, input, frames, ring0, ring1, over, pushed, fed, device_vars>>

\* the level of a ring that has not wrapped
QueuedUnwrapped == ring_w - ring_r

\* an empty ring taken for a full one
QueuedEmptyFull == IF ring_w > ring_r THEN ring_w - ring_r ELSE ring_w + Ring - ring_r

(* queued: it reads ring_w, which only this thread writes, and ring_r.      *)
Queued == IF ring_w >= ring_r THEN ring_w - ring_r ELSE ring_w + Ring - ring_r

(* sound_pace comes back; until then it sleeps and looks again. *)
Paced ==
    /\ loop = "pace"
    /\ Queued <= high
    /\ loop' = "play"
    /\ input' = 0
    /\ frames' = frames + 1
    /\ UNCHANGED <<ring_w, rs_acc, ring0, ring1, over, pushed, fed, device_vars>>

-----------------------------------------------------------------------------
(* The audio thread. *)

(* sound_mix is called, and reads ring_r once. *)
Callback ==
    /\ device = "idle"
    /\ device' = "check"
    /\ r' = ring_r
    /\ todo' = Frames
    /\ UNCHANGED <<ring_r, last_out, heard, loop_vars>>

Hold ==
    /\ device = "check"
    /\ todo > 0
    /\ r = ring_w
    /\ todo' = todo - 1
    /\ UNCHANGED <<device, ring_r, r, last_out, heard, loop_vars>>

FindSample ==
    /\ device = "check"
    /\ todo > 0
    /\ r # ring_w
    /\ device' = "left"
    /\ UNCHANGED <<ring_r, r, todo, last_out, heard, loop_vars>>

ReadLeft ==
    /\ device = "left"
    /\ device' = "right"
    /\ last_out' = <<ring0[r], last_out[2]>>
    /\ UNCHANGED <<ring_r, r, todo, heard, loop_vars>>

ReadRight ==
    /\ device = "right"
    /\ device' = "check"
    /\ last_out' = <<last_out[1], ring1[r]>>
    /\ r' = After(r)
    /\ todo' = todo - 1
    /\ heard' = heard + 1
    /\ UNCHANGED <<ring_r, loop_vars>>

\* a callback that ran dry does not publish what it read before
RingRAfterDry == IF r = ring_w THEN ring_r ELSE r

(* The index it stores. *)
RingRAfter == r

Return ==
    /\ device = "check"
    /\ todo = 0
    /\ device' = "idle"
    /\ ring_r' = RingRAfter
    /\ UNCHANGED <<r, todo, last_out, heard, loop_vars>>

-----------------------------------------------------------------------------
Loop ==
    \/ Play \/ Drop \/ FindSlot \/ WriteLeft \/ WriteRight \/ Publish
    \/ Played \/ EndFrame \/ Paced
Device == Callback \/ Hold \/ FindSample \/ ReadLeft \/ ReadRight \/ Return

Next == Loop \/ Device

(* Both are threads the host schedules; SDL calls back for as long as the   *)
(* device is open, which is as long as the frame loop runs.                 *)
Spec == Init /\ [][Next]_vars /\ WF_vars(Loop) /\ WF_vars(Device)

-----------------------------------------------------------------------------
TypeOK ==
    /\ high \in Levels
    /\ loop \in {"play", "emit", "left", "right", "publish", "pace"}
    /\ ring_w \in Slots
    /\ rs_acc \in 0..(DevRate + Rate - 1)
    /\ input \in 0..Inputs
    /\ frames \in 0..MaxFrames
    /\ device \in {"idle", "check", "left", "right"}
    /\ ring_r \in Slots
    /\ r \in Slots
    /\ todo \in 0..Frames
    /\ ring0 \in [Slots -> Nat]
    /\ ring1 \in [Slots -> Nat]
    /\ last_out \in Nat \X Nat
    /\ over \in Nat
    /\ pushed \in Nat
    /\ heard \in Nat
    /\ fed \in Nat

(* The two threads are never in the same slot: the one the loop fills is    *)
(* not the one the device reads, though each found its slot by an index the *)
(* other may have moved since.                                              *)
SlotsApart ==
    device \in {"left", "right"} /\ loop \in {"left", "right", "publish"} => r # ring_w

(* What the device plays is the last sample it took, both channels of it,   *)
(* and it takes every accepted sample once and in order.                    *)
HeardWhole == device # "right" => last_out = <<heard, heard>>

(* The resampler keeps its place: between two samples the output it has     *)
(* emitted differs from what the input asks for by the clock's remainder    *)
(* alone, less than one output sample, however long it runs.                *)
KeepsPitch ==
    loop \in {"play", "pace"} =>
      /\ (pushed + over) * Rate = fed * DevRate + rs_acc
      /\ rs_acc < Rate

(* The most samples a frame can emit. *)
PerFrame == (Inputs * DevRate) \div Rate + 1

(* Paced by the device, the loop never overruns it, as long as a frame more *)
(* than the level sound_pace waits for fits in the ring.                    *)
NothingDropped == high + PerFrame < Ring => over = 0

(* sound_pace always comes back: the device drains the ring to its level.   *)
PaceEnds == loop = "pace" ~> loop = "play"

(* The device's place, which between callbacks is the published one. *)
Place == IF device = "idle" THEN ring_r ELSE r

Waiting == IF ring_w >= Place THEN ring_w - Place ELSE ring_w + Ring - Place

MaxSample == MaxFrames * Inputs * (DevRate \div Rate + 1)

(* A sample joins the queue when ring_w is stored and leaves it when its    *)
(* second channel is read, which is when it becomes the one played.         *)
Q == INSTANCE SampleQueue WITH
    Samples  <- {<<n, n>> : n \in 0..MaxSample},
    Capacity <- Ring - 1,
    queue    <- [k \in 1..Waiting |->
                   LET i == (Place + k - 1) % Ring IN <<ring0[i], ring1[i]>>],
    last     <- IF device = "right" THEN <<heard, heard>> ELSE last_out

(* The ring is a queue of whole samples, and every one is heard in the end. *)
Queue == Q!Spec
=============================================================================

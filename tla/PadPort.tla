-------------------------------- MODULE PadPort --------------------------------
(***************************************************************************)
(* A six-button pad behind a controller port (src/src/gen68k.c): what the  *)
(* six lines say depends on TH, which the game drives, and on how often TH *)
(* has fallen since the frame began.  The program is the game's reading    *)
(* routine: the identification, and three more pulses of TH.               *)
(***************************************************************************)
EXTENDS Integers, Sequences

CONSTANTS
    PadHeld,    \* sets of buttons that may be held through a frame
    PadFrames   \* bound on the frames

Buttons == {"U", "D", "L", "R", "A", "B", "C", "S", "X", "Y", "Z", "M"}

ASSUME PadAssumption == PadHeld \subseteq SUBSET Buttons /\ PadFrames \in Nat

VARIABLES
    pad_cycle, \* falls of TH this frame
    pad_th,    \* TH as last written
    held,      \* gen.pad_buttons, composed once a frame
    step,      \* the program's next step, past the last when the pass is done
    decoded,   \* buttons the pass has found held
    six,       \* has it seen the six-button signature?
    polled,    \* does the program read the pad this frame?
    padframe   \* frames begun

padvars == <<pad_cycle, pad_th, held, step, decoded, six, polled, padframe>>

(* The pass: TH to drive, and what the program makes of the lines, "none"   *)
(* for a pulse it does not read.                                            *)
Pass == << [th |-> 1, read |-> "high"], [th |-> 0, read |-> "low"],
           [th |-> 1, read |-> "none"], [th |-> 0, read |-> "none"],
           [th |-> 1, read |-> "none"], [th |-> 0, read |-> "signature"],
           [th |-> 1, read |-> "extra"], [th |-> 0, read |-> "none"],
           [th |-> 1, read |-> "none"] >>

PadInit ==
    /\ pad_cycle = 0 /\ pad_th = 0 /\ held = {}
    /\ step = Len(Pass) + 1 /\ decoded = {} /\ six = FALSE
    /\ polled = FALSE /\ padframe = 0

-----------------------------------------------------------------------------
High  == <<"C", "B", "R", "L", "D", "U">>
Extra == <<"C", "B", "M", "X", "Y", "Z">>
Low   == <<"S", "A", "gnd", "gnd", "D", "U">>    \* "gnd" is a line held low

(* pad_lines: the lines at 1, active low. *)
Lines(th, cycle) ==
    LET sel    == IF th = 0 THEN Low ELSE IF cycle = 3 THEN Extra ELSE High
        drives == IF th = 0 /\ cycle \in {3, 4} THEN 1..2 ELSE 1..6
        forced == IF th = 0 /\ cycle = 4 THEN 3..6 ELSE {}
    IN forced \cup {i \in drives : sel[i] # "gnd" /\ sel[i] \notin held}

(* pad_write: a fall of TH counts, up to eight. *)
Falls(th) == IF pad_th = 1 /\ th = 0 /\ pad_cycle < 8 THEN pad_cycle + 1 ELSE pad_cycle

\* a count that goes on from the last frame's
CycleKept == pad_cycle

(* gen68k_frame_start. *)
CycleCleared == 0

FrameStart ==
    /\ padframe < PadFrames
    /\ step = Len(Pass) + 1
    /\ held' \in PadHeld
    /\ pad_cycle' = CycleCleared
    /\ polled' \in BOOLEAN
    /\ step' = IF polled' THEN 1 ELSE Len(Pass) + 1
    /\ decoded' = {} /\ six' = FALSE
    /\ padframe' = padframe + 1
    /\ UNCHANGED pad_th

Found(read, lines) ==
    LET of(names, at) == {names[i] : i \in {k \in at : k \notin lines}} IN
    CASE read = "high"  -> of(High, 1..6)
      [] read = "low"   -> of(Low, 1..2)
      [] read = "extra" -> of(Extra, 3..6)
      [] OTHER          -> {}

(* A write of TH and the read that follows it, if one does. *)
Pulse ==
    /\ step <= Len(Pass)
    /\ LET p     == Pass[step]
           cycle == Falls(p.th)
           lines == Lines(p.th, cycle) IN
       /\ pad_cycle' = cycle
       /\ pad_th' = p.th
       /\ decoded' = decoded \cup Found(p.read, lines)
       /\ six' = (six \/ (p.read = "signature" /\ lines \cap (3..6) = {}))
    /\ step' = step + 1
    /\ UNCHANGED <<held, polled, padframe>>

PadNext == FrameStart \/ Pulse

PadSpec == PadInit /\ [][PadNext]_padvars

-----------------------------------------------------------------------------
(* Whatever was held in earlier frames and whichever of them the program    *)
(* read, a pass finds a six-button pad and exactly the buttons of its own   *)
(* frame (gen68k.c, pad_lines, pad_write and gen68k_frame_start).           *)
ReadsBack == (polled /\ step > Len(Pass)) => six /\ decoded = held
=============================================================================

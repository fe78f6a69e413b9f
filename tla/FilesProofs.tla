----------------------------- MODULE FilesProofs -----------------------------
(***************************************************************************)
(* Proofs about the two files the program writes.  The battery: its        *)
(* state's shape, that a clear gen.sram_dirty means the file holds what    *)
(* the battery does, and that a save whose commit returned can be loaded   *)
(* from then on.  The block trace: its state's shape, that it is read back *)
(* as what each CPU ran, all of it while the CPU has lines left, and that  *)
(* it has the reference tracer's shape.                                    *)
(***************************************************************************)
EXTENDS Battery, BlockTrace, SequenceTheorems, WellFoundedInduction, TLAPS

LEMMA FreshIsImage == Fresh \in Image
BY BatteryAssumption DEF Fresh, Image

Flags ==
  /\ up \in BOOLEAN /\ mapped \in BOOLEAN /\ protected \in BOOLEAN
  /\ dirty \in BOOLEAN /\ path \in BOOLEAN /\ exiting \in BOOLEAN /\ cut \in BOOLEAN

\* Every flag stays a flag, whichever step sets or clears it.
LEMMA FlagsKept == ASSUME Flags, [Next]_vars PROVE Flags'
<1>1. CASE MapToLoad \/ MapToSave
  BY <1>1 DEF Flags, MapToLoad, MapToSave, history
<1>2. CASE SaveByte
  BY <1>2 DEF Flags, SaveByte, Store, history
<1>3. CASE Unmap
  BY <1>3 DEF Flags, Unmap, history
<1>4. CASE CommitOpen
  BY <1>4 DEF Flags, CommitOpen, history
<1>5. CASE CommitWrite
  BY <1>5 DEF Flags, CommitWrite, history
<1>6. CASE Exit
  BY <1>6 DEF Flags, Exit
<1>7. CASE Ended
  BY <1>7 DEF Flags, Ended, Down
<1>8. CASE Kill
  BY <1>8 DEF Flags, Kill, Down
<1>9. CASE Start
  BY <1>9 DEF Flags, Start, history
<1>10. CASE UNCHANGED vars
  BY <1>10 DEF Flags, vars, history
<1> QED
  BY <1>1, <1>2, <1>3, <1>4, <1>5, <1>6, <1>7, <1>8, <1>9, <1>10 DEF Next

Data ==
  /\ sram \in Image /\ disk \in Image \union {NoFile, Empty}
  /\ commit \in {"none", "open", "write"} /\ game \in {"idle", "load", "save"}
  /\ stored \in 0..4 /\ saves \in 0..MaxSaves /\ whole \in 0..saves /\ torn \in 0..2

\* What the flags mean for the rest of the state.
Meaning ==
  /\ mapped <=> game # "idle"
  /\ commit # "none" => dirty /\ path
  /\ ~up => ~dirty /\ commit = "none"

\* The state keeps its shape.
THEOREM Typing == Spec => []TypeOK
<1> USE BatteryAssumption
<1>1. Init => TypeOK
  <2> SUFFICES ASSUME Init PROVE Flags /\ Data /\ Meaning
    BY DEF TypeOK, Flags, Data, Meaning, Cells
  <2>1. Flags
    BY DEF Init, Flags
  <2>2. Data
    BY FreshIsImage DEF Init, Data
  <2>3. Meaning
    BY DEF Init, Meaning
  <2> QED
    BY <2>1, <2>2, <2>3
<1>2. TypeOK /\ [Next]_vars => TypeOK'
  <2> SUFFICES ASSUME Flags, Data, Meaning, [Next]_vars
               PROVE Flags' /\ Data' /\ Meaning'
    BY DEF TypeOK, Flags, Data, Meaning, Cells
  <2>0. Flags'
    BY FlagsKept
  <2>1. CASE MapToLoad
    BY <2>0, <2>1 DEF Data, Meaning, MapToLoad, Quiet, history
  <2>2. CASE MapToSave
    <3>1. Data'
      BY <2>2 DEF Data, MapToSave, history
    <3>2. Meaning'
      BY <2>2 DEF Meaning, MapToSave, Quiet
    <3> QED
      BY <2>0, <3>1, <3>2
  <2>3. CASE SaveByte
    <3>1. (stored \div 2) + 1 \in Copies /\ (stored % 2) + 1 \in Parts
      BY <2>3 DEF SaveByte, Data, Copies, Parts, Cells
    <3>2. sram' \in Image
      BY <2>3, <3>1 DEF SaveByte, Store, Data, Image
    <3>3. Data'
      BY <2>3, <3>2 DEF Data, SaveByte, history, Cells
    <3>4. Meaning'
      BY <2>3 DEF Meaning, SaveByte, Store, Quiet
    <3> QED
      BY <2>0, <3>3, <3>4
  <2>4. CASE Unmap
    <3>1. Data'
      BY <2>4 DEF Data, Unmap, history
    <3>2. Meaning'
      BY <2>4 DEF Meaning, Unmap, Commits
    <3> QED
      BY <2>0, <3>1, <3>2
  <2>5. CASE CommitOpen
    <3>1. Data'
      BY <2>5 DEF Data, CommitOpen, gameVars, history
    <3>2. ASSUME disk' = Empty, commit' = "write", UNCHANGED path PROVE Meaning'
      BY <2>5, <3>2 DEF Meaning, CommitOpen, gameVars
    <3>3. ASSUME path' = FALSE, commit' = "none", UNCHANGED disk PROVE Meaning'
      BY <2>5, <3>3 DEF Meaning, CommitOpen, gameVars
    <3> QED
      BY <2>0, <2>5, <3>1, <3>2, <3>3 DEF CommitOpen
  <2>6. CASE CommitWrite
    <3>1. Data'
      BY <2>6 DEF Data, CommitWrite, gameVars, history
    <3>2. Meaning'
      BY <2>6 DEF Meaning, CommitWrite, gameVars
    <3> QED
      BY <2>0, <3>1, <3>2
  <2>7. CASE Exit
    <3>1. Data'
      BY <2>7 DEF Data, Exit, gameVars
    <3>2. Meaning'
      BY <2>7 DEF Meaning, Exit, Quiet, Commits, gameVars
    <3> QED
      BY <2>0, <3>1, <3>2
  <2>8. ASSUME Down PROVE Data' /\ Meaning'
    <3>1. Data'
      BY <2>8, FreshIsImage DEF Data, Down
    <3>2. Meaning'
      BY <2>8 DEF Down, Meaning
    <3> QED
      BY <3>1, <3>2
  <2>9. CASE Ended \/ Kill
    BY <2>0, <2>8, <2>9 DEF Ended, Kill
  <2>10. CASE Start
    <3>1. sram' \in Image
      BY <2>10, FreshIsImage DEF Start, Load, ImageOn, Data
    <3>2. Data'
      BY <2>10, <3>1 DEF Start, Data, gameVars, history
    <3>3. Meaning'
      BY <2>10 DEF Start, Meaning, gameVars
    <3> QED
      BY <2>0, <3>2, <3>3
  <2>11. CASE UNCHANGED vars
    BY <2>0, <2>11 DEF Data, Meaning, vars, gameVars, history
  <2> QED
    BY <2>1, <2>2, <2>3, <2>4, <2>5, <2>6, <2>7, <2>9, <2>10, <2>11 DEF Next
<1> QED
  BY <1>1, <1>2, PTL DEF Spec

----------------------------------------------------------------------------

\* No commit skips bytes the file does not have.
THEOREM CleanOnDisk == Spec => []CleanIsOnDisk
<1>1. Init => CleanIsOnDisk
  BY DEF Init, CleanIsOnDisk
<1>2. TypeOK /\ CleanIsOnDisk /\ [Next]_vars => CleanIsOnDisk'
  <2> SUFFICES ASSUME TypeOK, CleanIsOnDisk, [Next]_vars PROVE CleanIsOnDisk'
    OBVIOUS
  <2>1. CASE MapToLoad \/ MapToSave
    BY <2>1 DEF MapToLoad, MapToSave, CleanIsOnDisk, ImageOn
  <2>2. CASE SaveByte
    BY <2>2 DEF SaveByte, Store, Quiet, CleanIsOnDisk, ImageOn
  <2>3. CASE Unmap
    BY <2>3 DEF Unmap, Quiet, Commits, CleanIsOnDisk, ImageOn
  <2>4. CASE CommitOpen
    BY <2>4 DEF CommitOpen, TypeOK, CleanIsOnDisk
  <2>5. CASE CommitWrite
    <3>1. disk' = sram /\ sram' = sram /\ commit' = "none" /\ path' = path /\ up' = up /\ up
      BY <2>5 DEF CommitWrite
    <3>2. ImageOn(sram) = sram
      BY BatteryAssumption DEF ImageOn, TypeOK
    <3> QED
      BY <2>5, <3>1, <3>2 DEF CleanIsOnDisk, ImageOn
  <2>6. CASE Exit
    BY <2>6 DEF Exit, Quiet, Commits, CleanIsOnDisk, ImageOn
  <2>7. CASE Ended \/ Kill
    BY <2>7 DEF Ended, Kill, Down, CleanIsOnDisk
  <2>8. CASE Start
    BY <2>8 DEF Start, Load, CleanIsOnDisk, ImageOn
  <2>9. CASE UNCHANGED vars
    BY <2>9 DEF vars, CleanIsOnDisk, ImageOn
  <2> QED
    BY <2>1, <2>2, <2>3, <2>4, <2>5, <2>6, <2>7, <2>8, <2>9 DEF Next
<1> QED
  BY <1>1, <1>2, Typing, PTL DEF Spec

----------------------------------------------------------------------------
\* The battery is the file with the stored cells of a save over it.

Place(c, p) == 2 * (c - 1) + (p - 1)

\* A save in progress: its bytes are in the battery, the others as they were.
InPart ==
  /\ ~up => game = "idle"
  /\ game = "save" => ~protected
  /\ game = "save" => \A c \in Copies, p \in Parts : Place(c, p) < stored => sram[c][p] = saves
  /\ (up /\ path /\ commit = "none") =>
        \A c \in Copies, p \in Parts :
          (game = "save" => Place(c, p) >= stored) => sram[c][p] = ImageOn(disk)[c][p]
  /\ (path /\ dirty /\ commit = "none") => game = "save" /\ stored > 0

\* A commit is of a whole save, or of an exit that has been counted as torn.
OfSave ==
  commit # "none" =>
    \/ game = "idle" /\ stored = Cells /\ \A c \in Copies, p \in Parts : sram[c][p] = saves
    \/ game = "save" /\ torn > 0

\* Both copies before a torn save, one after it, on the file or on their way.
Copied ==
  /\ (torn = 0 /\ ~cut /\ commit # "write") => \A c \in Copies : Held(ImageOn(disk), c) >= whole
  /\ (commit # "none" /\ torn < 2 /\ ~cut) => \E c \in Copies : Held(sram, c) >= whole

KeptInv == InPart /\ OfSave /\ Copied /\ SavedIsKept

\* A copy's save is read off its two cells.
LEMMA HeldOf ==
  ASSUME NEW image \in Image, NEW c \in Copies
  PROVE  /\ Held(image, c) \in 0..MaxSaves
         /\ \A n \in 0..MaxSaves : image[c][1] = n /\ image[c][2] = n => Held(image, c) = n
BY BatteryAssumption DEF Held, Image, Copies, Parts

\* And two copies with the same cells hold the same save.
LEMMA SameHeld ==
  ASSUME NEW one, NEW two, NEW c, \A p \in Parts : one[c][p] = two[c][p]
  PROVE  Held(one, c) = Held(two, c)
BY DEF Held, Parts

\* A battery all of one save holds it in both copies.
LEMMA AllHeld ==
  ASSUME NEW image \in Image, NEW n \in 0..MaxSaves,
         \A c \in Copies, p \in Parts : image[c][p] = n
  PROVE  \A c \in Copies : Held(image, c) = n
<1>1. 1 \in Parts /\ 2 \in Parts
  BY DEF Parts
<1> QED
  BY <1>1, HeldOf

\* What gen68k_sram_open finds is an image, and an image is found as it is.
LEMMA Found ==
  ASSUME TypeOK
  PROVE  ImageOn(disk) \in Image /\ ImageOn(sram) = sram
BY BatteryAssumption, FreshIsImage DEF ImageOn, TypeOK

\* The steps that leave the file, the battery and the counts of saves alone.
LEMMA MapKeeps == TypeOK /\ KeptInv /\ (MapToLoad \/ MapToSave) => KeptInv'
<1> SUFFICES ASSUME TypeOK, KeptInv, MapToLoad \/ MapToSave PROVE KeptInv'
  OBVIOUS
<1>1. /\ UNCHANGED <<up, sram, dirty, path, commit, exiting, disk, history>>
      /\ up /\ commit = "none" /\ game = "idle"
      /\ \/ game' = "load"
         \/ game' = "save" /\ protected' = FALSE /\ stored' = 0
  BY DEF MapToLoad, MapToSave, Quiet
<1>2. ~(path /\ dirty)
  BY <1>1 DEF KeptInv, InPart
<1>3. InPart'
  BY <1>1, <1>2 DEF KeptInv, InPart, Place, Copies, Parts, ImageOn
<1>4. OfSave'
  BY <1>1 DEF OfSave
<1>5. Copied' /\ SavedIsKept'
  BY <1>1 DEF KeptInv, Copied, SavedIsKept, Loadable, ImageOn, Held, history
<1> QED
  BY <1>3, <1>4, <1>5 DEF KeptInv

\* A byte goes to the next place, and every stored one stays.
LEMMA SaveByteKeeps == TypeOK /\ KeptInv /\ SaveByte => KeptInv'
<1> SUFFICES ASSUME TypeOK, KeptInv, SaveByte PROVE KeptInv'
  OBVIOUS
<1>1. /\ UNCHANGED <<up, protected, path, commit, disk, game, saves, history>>
      /\ up /\ commit = "none" /\ game = "save" /\ stored \in 0..3 /\ stored' = stored + 1
  BY DEF SaveByte, Quiet, TypeOK, Cells
<1>2. mapped /\ ~protected /\ sram \in Image
  BY <1>1 DEF TypeOK, KeptInv, InPart
<1> DEFINE c0 == (stored \div 2) + 1
           p0 == (stored % 2) + 1
<1>3. c0 \in Copies /\ p0 \in Parts
  BY <1>1 DEF Copies, Parts
<1>4. sram' = [sram EXCEPT ![c0][p0] = saves] /\ dirty' = TRUE
  BY <1>2 DEF SaveByte, Store
<1>5. \A c \in Copies, p \in Parts :
        /\ (Place(c, p) = stored) => (c = c0 /\ p = p0)
        /\ sram'[c][p] = IF Place(c, p) = stored THEN saves ELSE sram[c][p]
  <2> SUFFICES ASSUME NEW c \in Copies, NEW p \in Parts
               PROVE  /\ (Place(c, p) = stored) <=> (c = c0 /\ p = p0)
                      /\ sram'[c][p] = IF c = c0 /\ p = p0 THEN saves ELSE sram[c][p]
    OBVIOUS
  <2>1. (Place(c, p) = stored) <=> (c = c0 /\ p = p0)
    BY <1>1 DEF Place, Copies, Parts
  <2>2. sram'[c][p] = IF c = c0 /\ p = p0 THEN saves ELSE sram[c][p]
    <3> HIDE DEF c0, p0
    <3> QED
      BY <1>2, <1>3, <1>4 DEF Image
  <2> QED
    BY <2>1, <2>2
<1>6. InPart'
  <2>1. \A c \in Copies, p \in Parts : Place(c, p) < stored' => sram'[c][p] = saves
    <3> SUFFICES ASSUME NEW c \in Copies, NEW p \in Parts, Place(c, p) < stored + 1
                 PROVE  sram'[c][p] = saves
      BY <1>1
    <3>1. Place(c, p) = stored \/ Place(c, p) < stored
      BY <1>1 DEF Place, Copies, Parts
    <3> QED
      BY <1>1, <1>5, <3>1 DEF KeptInv, InPart
  <2>2. (up /\ path) => \A c \in Copies, p \in Parts :
           Place(c, p) >= stored' => sram'[c][p] = ImageOn(disk)[c][p]
    <3> SUFFICES ASSUME up, path, NEW c \in Copies, NEW p \in Parts, Place(c, p) >= stored + 1
                 PROVE  sram'[c][p] = ImageOn(disk)[c][p]
      BY <1>1
    <3>1. Place(c, p) # stored /\ Place(c, p) >= stored
      BY <1>1 DEF Place, Copies, Parts
    <3> QED
      BY <1>1, <1>5, <3>1 DEF KeptInv, InPart
  <2> QED
    BY <1>1, <1>2, <2>1, <2>2 DEF InPart, ImageOn
<1>7. OfSave' /\ Copied' /\ SavedIsKept'
  BY <1>1 DEF OfSave, KeptInv, Copied, SavedIsKept, Loadable, ImageOn, Held, history
<1> QED
  BY <1>6, <1>7 DEF KeptInv

\* Unmapping after a save: the battery is all of it.
LEMMA UnmapKeeps == TypeOK /\ CleanIsOnDisk /\ KeptInv /\ Unmap => KeptInv'
<1> SUFFICES ASSUME TypeOK, CleanIsOnDisk, KeptInv, Unmap PROVE KeptInv'
  OBVIOUS
<1>1. /\ UNCHANGED <<up, sram, dirty, path, exiting, disk, stored, saves, history>>
      /\ up /\ commit = "none" /\ game' = "idle"
      /\ game = "load" \/ (game = "save" /\ stored = Cells)
      /\ commit' = IF Commits THEN "open" ELSE "none"
  BY DEF Unmap, Quiet
<1>2. sram \in Image /\ saves \in 0..MaxSaves /\ whole \in 0..saves
  BY DEF TypeOK
<1>3. CASE Commits
  <2>1. game = "save" /\ stored = 4
    BY <1>1, <1>3 DEF Commits, KeptInv, InPart, Cells
  <2>2. \A c \in Copies, p \in Parts : sram[c][p] = saves
    BY <2>1 DEF KeptInv, InPart, Place, Copies, Parts
  <2>3. \A c \in Copies : Held(sram, c) >= whole
    BY <1>2, <2>2, AllHeld
  <2>4. commit' = "open"
    BY <1>1, <1>3
  <2>5. InPart'
    BY <1>1, <2>4 DEF InPart
  <2>6. OfSave'
    BY <1>1, <2>1, <2>2 DEF OfSave, Cells
  <2>7. \A c \in Copies : Held(sram', c) >= whole'
    BY <1>1, <2>3 DEF Held, history
  <2>8. Copied'
    <3>1. 1 \in Copies
      BY DEF Copies
    <3>2. (torn' = 0 /\ ~cut') => \A c \in Copies : Held(ImageOn(disk'), c) >= whole'
      BY <1>1 DEF KeptInv, Copied, Held, ImageOn, history
    <3> QED
      BY <2>7, <3>1, <3>2 DEF Copied, ImageOn
  <2>9. SavedIsKept'
    BY <1>1 DEF KeptInv, SavedIsKept, Loadable, Held, ImageOn, history
  <2> QED
    BY <2>5, <2>6, <2>8, <2>9 DEF KeptInv
<1>4. CASE ~Commits
  <2>1. commit' = "none" /\ ~(path /\ dirty)
    BY <1>1, <1>4 DEF Commits
  <2>2. path => ImageOn(disk) = sram
    BY <1>1, <2>1 DEF CleanIsOnDisk
  <2>3. InPart'
    BY <1>1, <2>1, <2>2 DEF InPart, ImageOn
  <2>4. OfSave' /\ Copied' /\ SavedIsKept'
    BY <1>1, <2>1 DEF KeptInv, OfSave, Copied, SavedIsKept, Loadable, Held, ImageOn, history
  <2> QED
    BY <2>3, <2>4 DEF KeptInv
<1> QED
  BY <1>3, <1>4

\* fopen empties the file, or fails and leaves it.
LEMMA OpenKeeps == TypeOK /\ KeptInv /\ CommitOpen => KeptInv'
<1> SUFFICES ASSUME TypeOK, KeptInv, CommitOpen PROVE KeptInv'
  OBVIOUS
<1>1. UNCHANGED <<up, mapped, protected, sram, dirty, exiting, gameVars, history>> /\ commit = "open"
  BY DEF CommitOpen
<1>2. CASE disk' = Empty /\ commit' = "write" /\ UNCHANGED path
  BY <1>1, <1>2 DEF KeptInv, InPart, OfSave, Copied, SavedIsKept, Held, gameVars, history
<1>3. CASE path' = FALSE /\ commit' = "none" /\ UNCHANGED disk
  <2>1. InPart' /\ OfSave'
    BY <1>1, <1>3 DEF KeptInv, InPart, OfSave, gameVars
  <2>2. Copied' /\ SavedIsKept'
    BY <1>1, <1>3 DEF KeptInv, Copied, SavedIsKept, Loadable, Held, ImageOn, gameVars, history
  <2> QED
    BY <2>1, <2>2 DEF KeptInv
<1> QED
  BY <1>2, <1>3 DEF CommitOpen

\* The write: both copies of a whole save, or the one a torn save left.
LEMMA WriteKeeps == TypeOK /\ KeptInv /\ CommitWrite => KeptInv'
<1> SUFFICES ASSUME TypeOK, KeptInv, CommitWrite PROVE KeptInv'
  OBVIOUS
<1>1. /\ UNCHANGED <<up, mapped, protected, sram, path, exiting, gameVars>>
      /\ commit = "write" /\ disk' = sram /\ dirty' = FALSE /\ commit' = "none"
  BY DEF CommitWrite
<1>2. sram \in Image /\ saves \in 0..MaxSaves /\ ImageOn(disk') = sram
  BY <1>1, Found DEF TypeOK, ImageOn
<1>3. InPart' /\ OfSave'
  <2>1. \A c \in Copies, p \in Parts : sram'[c][p] = ImageOn(disk)'[c][p]
    BY <1>1, <1>2 DEF ImageOn
  <2> QED
    BY <1>1, <2>1 DEF KeptInv, InPart, OfSave, gameVars
<1>4. CASE game = "idle"
  <2>1. stored = Cells /\ \A c \in Copies, p \in Parts : sram[c][p] = saves
    BY <1>1, <1>4 DEF KeptInv, OfSave
  <2>2. whole' = saves
    BY <1>4, <2>1 DEF CommitWrite
  <2>3. \A c \in Copies : Held(ImageOn(disk'), c) >= whole'
    BY <1>2, <2>1, <2>2, AllHeld
  <2>4. 1 \in Copies
    BY DEF Copies
  <2> QED
    BY <1>1, <1>3, <2>3, <2>4 DEF KeptInv, Copied, SavedIsKept, Loadable, ImageOn
<1>5. CASE game = "save" /\ torn > 0
  <2>1. UNCHANGED history
    BY <1>5 DEF CommitWrite
  <2>2. (torn' < 2 /\ ~cut') => \E c \in Copies : Held(ImageOn(disk'), c) >= whole'
    BY <1>1, <1>2, <2>1 DEF KeptInv, Copied, history
  <2>3. torn' # 0
    BY <1>5, <2>1 DEF history
  <2> QED
    BY <1>1, <1>3, <2>2, <2>3 DEF KeptInv, Copied, SavedIsKept, Loadable, ImageOn
<1> QED
  BY <1>1, <1>4, <1>5 DEF KeptInv, OfSave

\* An exit in the middle of a save tears the copy it was in, not the other.
LEMMA ExitKeeps == TypeOK /\ KeptInv /\ Exit => KeptInv'
<1> SUFFICES ASSUME TypeOK, KeptInv, Exit PROVE KeptInv'
  OBVIOUS
<1>1. /\ UNCHANGED <<up, mapped, protected, sram, dirty, path, disk, gameVars, whole, cut>>
      /\ up /\ commit = "none"
      /\ commit' = IF Commits THEN "open" ELSE "none"
      /\ torn' = IF Interrupted /\ torn < 2 THEN torn + 1 ELSE torn
  BY DEF Exit, Quiet
<1>2. torn \in 0..2 /\ stored \in 0..4 /\ saves \in 0..MaxSaves /\ whole \in 0..saves
      /\ sram \in Image
  BY DEF TypeOK, Cells
<1>3. InPart'
  BY <1>1 DEF KeptInv, InPart, ImageOn, gameVars
<1>4. SavedIsKept' /\ ((torn' = 0 /\ ~cut') => \A c \in Copies : Held(ImageOn(disk'), c) >= whole')
  <2>1. (torn' = 0 => torn = 0) /\ (torn' < 2 => torn < 2)
    BY <1>1, <1>2
  <2> QED
    BY <1>1, <2>1 DEF KeptInv, Copied, SavedIsKept, Loadable, ImageOn, Held
<1>5. CASE Commits
  <2>1. game = "save" /\ stored > 0 /\ Interrupted
    BY <1>1, <1>5 DEF Commits, KeptInv, InPart, Interrupted
  <2>2. torn' > 0
    BY <1>1, <1>2, <2>1
  <2>3. ASSUME torn' < 2, ~cut PROVE \E c \in Copies : Held(sram, c) >= whole
    <3>1. torn = 0
      BY <1>1, <1>2, <2>1, <2>3
    <3>2. \A c \in Copies : Held(ImageOn(disk), c) >= whole
      BY <1>1, <2>3, <3>1 DEF KeptInv, Copied
    <3>3. 1 \in Copies /\ 2 \in Copies /\ 1 \in Parts /\ 2 \in Parts
      BY DEF Copies, Parts
    <3>4. CASE stored <= 2
      <4>1. \A p \in Parts : sram[2][p] = ImageOn(disk)[2][p]
        <5>1. path
          BY <1>5 DEF Commits
        <5>2. \A p \in Parts : Place(2, p) >= stored
          BY <1>2, <3>4 DEF Place, Parts
        <5> QED
          BY <1>1, <3>3, <5>1, <5>2 DEF KeptInv, InPart
      <4>2. Held(sram, 2) = Held(ImageOn(disk), 2)
        BY <4>1, SameHeld
      <4> QED
        BY <3>2, <3>3, <4>2
    <3>5. CASE stored > 2
      <4>1. sram[1][1] = saves /\ sram[1][2] = saves
        <5>1. Place(1, 1) < stored /\ Place(1, 2) < stored
          BY <1>2, <3>5 DEF Place
        <5> QED
          BY <2>1, <3>3, <5>1 DEF KeptInv, InPart
      <4>2. Held(sram, 1) = saves
        BY <1>2, <3>3, <4>1, HeldOf
      <4> QED
        BY <1>2, <3>3, <4>2
    <3> QED
      BY <1>2, <3>4, <3>5
  <2>4. OfSave'
    BY <1>1, <2>1, <2>2 DEF OfSave, gameVars
  <2>5. Copied'
    <3>1. (torn' < 2 /\ ~cut') => \E c \in Copies : Held(sram', c) >= whole'
      BY <1>1, <2>3 DEF Held
    <3> QED
      BY <1>1, <1>4, <3>1 DEF Copied, ImageOn
  <2> QED
    BY <1>3, <1>4, <2>4, <2>5 DEF KeptInv
<1>6. CASE ~Commits
  BY <1>1, <1>3, <1>4, <1>6 DEF KeptInv, OfSave, Copied, ImageOn
<1> QED
  BY <1>5, <1>6

\* Down leaves the file, and a commit that was writing it is counted as cut.
LEMMA DownKeeps == TypeOK /\ KeptInv /\ (Ended \/ Kill) => KeptInv'
<1> SUFFICES ASSUME TypeOK, KeptInv, Ended \/ Kill PROVE KeptInv'
  OBVIOUS
<1>1. /\ up' = FALSE /\ commit' = "none" /\ dirty' = FALSE /\ game' = "idle"
      /\ disk' = disk /\ whole' = whole /\ torn' = torn
      /\ ~cut' => ~cut /\ commit # "write"
  <2>1. CASE Ended
    BY <2>1 DEF Ended, Down
  <2>2. CASE Kill
    <3>1. (cut \/ commit = "write") <=> cut'
      BY <2>2 DEF Kill
    <3> QED
      BY <2>2, <3>1 DEF Kill, Down
  <2> QED
    BY <2>1, <2>2
<1>2. InPart' /\ OfSave'
  BY <1>1 DEF InPart, OfSave
<1>3. Copied' /\ SavedIsKept'
  BY <1>1 DEF KeptInv, Copied, SavedIsKept, Loadable, ImageOn, Held
<1> QED
  BY <1>2, <1>3 DEF KeptInv

\* A start reads the file back.
LEMMA StartKeeps == TypeOK /\ KeptInv /\ Start => KeptInv'
<1> SUFFICES ASSUME TypeOK, KeptInv, Start PROVE KeptInv'
  OBVIOUS
<1>1. /\ UNCHANGED <<dirty, commit, disk, gameVars, history>> /\ ~up
      /\ path' => sram' = ImageOn(disk)
      /\ UNCHANGED protected
  BY DEF Start, Load
<1>2. ~dirty /\ commit = "none"
  BY <1>1 DEF TypeOK
<1>3. Copied' /\ SavedIsKept' /\ OfSave'
  BY <1>1, <1>2 DEF KeptInv, OfSave, Copied, SavedIsKept, Loadable, ImageOn, Held, history
<1>4. game = "idle"
  BY <1>1 DEF KeptInv, InPart
<1>5. InPart'
  BY <1>1, <1>2, <1>4 DEF InPart, ImageOn, gameVars
<1> QED
  BY <1>3, <1>5 DEF KeptInv

\* SavedIsKept: after the commit gen68k_sram_commit makes at the game's own
\* commit point has returned, that save or a later one can be loaded, for any
\* number of saves, exits and kills, as long as no kill cut a commit short and
\* one exit at most came in the middle of a save.
THEOREM SaveSurvives == Spec => []SavedIsKept
<1>1. Init => KeptInv
  <2> SUFFICES ASSUME Init PROVE KeptInv
    OBVIOUS
  <2>1. InPart /\ OfSave
    BY DEF Init, InPart, OfSave
  <2>2. ImageOn(disk) = Fresh /\ whole = 0 /\ commit = "none"
    BY DEF Init, ImageOn
  <2>3. \A c \in Copies : Held(Fresh, c) >= 0
    BY FreshIsImage, HeldOf, BatteryAssumption
  <2>4. 1 \in Copies
    BY DEF Copies
  <2> QED
    BY <2>1, <2>2, <2>3, <2>4 DEF KeptInv, Copied, SavedIsKept, Loadable
<1>2. TypeOK /\ CleanIsOnDisk /\ KeptInv /\ [Next]_vars => KeptInv'
  <2> SUFFICES ASSUME TypeOK, CleanIsOnDisk, KeptInv, [Next]_vars PROVE KeptInv'
    OBVIOUS
  <2>1. CASE UNCHANGED vars
    <3>1. InPart' /\ OfSave'
      BY <2>1 DEF KeptInv, InPart, OfSave, ImageOn, vars, gameVars, history
    <3>2. Copied' /\ SavedIsKept'
      BY <2>1 DEF KeptInv, Copied, SavedIsKept, Loadable, ImageOn, Held, vars, history
    <3> QED
      BY <3>1, <3>2 DEF KeptInv
  <2> QED
    BY <2>1, MapKeeps, SaveByteKeeps, UnmapKeeps, OpenKeeps, WriteKeeps, ExitKeeps,
       DownKeeps, StartKeeps DEF Next
<1>3. KeptInv => SavedIsKept
  BY DEF KeptInv
<1> QED
  BY <1>1, <1>2, <1>3, Typing, CleanOnDisk, PTL DEF Spec

-----------------------------------------------------------------------------
(****************************************************************************)
(* For the trace, whose reader is recursive: what holds of 0 and with each *)
(* number of the next holds of all, so that two functions that take the    *)
(* same steps are the same and a recursion has a function that follows it. *)
(****************************************************************************)
LEMMA LeastNatural ==
    ASSUME NEW T \in SUBSET Nat, T # {}
    PROVE  \E m \in T : \A k \in T : m <= k
<1> DEFINE R == OpToRel(<, Nat)
<1>1. IsWellFoundedOn(R, Nat)
  BY NatLessThanWellFounded
<1>2. \A x, y \in Nat : y < x => <<y, x>> \in R
  BY DEF OpToRel
<1> HIDE DEF R
<1>3. PICK x \in T : \A y \in T : ~ (<<y, x>> \in R)
  BY <1>1, WFMin
<1>4. ASSUME NEW k \in T PROVE x <= k
  <2>1. x \in Nat /\ k \in Nat /\ ~(k < x)
    BY <1>2, <1>3
  <2> QED BY <2>1
<1> QED BY <1>4

(* So one that holds 0 and with each member the next is all of them. *)
LEMMA AllNaturals ==
    ASSUME NEW T \in SUBSET Nat, 0 \in T, \A n \in T : n + 1 \in T
    PROVE  T = Nat
<1> SUFFICES ASSUME Nat \ T # {} PROVE FALSE
  OBVIOUS
<1>1. PICK m \in Nat \ T : \A k \in Nat \ T : m <= k
  BY LeastNatural
<1>2. m # 0 /\ m - 1 \in Nat /\ m - 1 \notin Nat \ T
  BY <1>1
<1> QED BY <1>1, <1>2

(* Two recursive functions that start alike and step alike are the same. *)
LEMMA SameSteps ==
    ASSUME NEW n \in Nat, NEW f, NEW g, f[0] = g[0],
           \A i \in 1..n : f[i - 1] = g[i - 1] => f[i] = g[i]
    PROVE  \A i \in 0..n : f[i] = g[i]
<1> DEFINE T == {i \in Nat : i <= n => f[i] = g[i]}
<1>1. 0 \in T
  OBVIOUS
<1>2. ASSUME NEW i \in T PROVE i + 1 \in T
  <2>1. i \in Nat /\ i + 1 \in Nat /\ i + 1 - 1 = i /\ (i <= n => f[i] = g[i])
    OBVIOUS
  <2>2. i + 1 <= n => i + 1 \in 1..n /\ i <= n
    BY <2>1
  <2>3. i + 1 <= n => f[i + 1] = g[i + 1]
    BY <2>1, <2>2
  <2> QED BY <2>1, <2>3
<1>3. T \in SUBSET Nat
  OBVIOUS
<1> HIDE DEF T
<1>4. T = Nat
  BY <1>1, <1>2, <1>3, AllNaturals
<1>5. \A i \in 0..n : i \in T /\ i <= n
  BY <1>4
<1> QED BY <1>5 DEF T
(* A recursion over the naturals in a set M has a function that follows it. *)
Follows(f, m, s, n) == f[0] = m /\ \A i \in 1..n : f[i] = s[i][f[i - 1]]
Followed(M, m, s, n) == \E f \in [0..n -> M] : Follows(f, m, s, n)

LEMMA RecursionExists ==
    ASSUME NEW M, NEW m \in M, NEW s \in [Nat -> [M -> M]], NEW n \in Nat
    PROVE  Followed(M, m, s, n)
<1> DEFINE Runs(f, k) == f[0] = m /\ \A i \in 1..k : f[i] = s[i][f[i - 1]]
           T == {k \in Nat : \E f \in [0..k -> M] : Runs(f, k)}
<1>1. 0 \in T
  <2> DEFINE f == [i \in 0..0 |-> m]
  <2>1. f \in [0..0 -> M] /\ f[0] = m
    OBVIOUS
  <2>2. Runs(f, 0)
    BY <2>1
  <2> QED BY <2>1, <2>2
<1>2. ASSUME NEW k \in T PROVE k + 1 \in T
  <2>1. k \in Nat /\ k + 1 \in Nat /\ k + 1 \notin 0..k /\ k \in 0..k
    OBVIOUS
  <2>2. PICK f \in [0..k -> M] : Runs(f, k)
    OBVIOUS
  <2> DEFINE g == [i \in 0..(k + 1) |-> IF i = k + 1 THEN s[k + 1][f[k]] ELSE f[i]]
  <2>3. \A i \in 0..(k + 1) : i = k + 1 \/ i \in 0..k
    BY <2>1
  <2>4. s[k + 1] \in [M -> M] /\ f[k] \in M
    BY <2>1
  <2>5. g \in [0..(k + 1) -> M]
    BY <2>3, <2>4
  <2>6. g[k + 1] = s[k + 1][f[k]] /\ \A i \in 0..k : g[i] = f[i]
    BY <2>1
  <2> HIDE DEF g
  <2>7. g[0] = m
    BY <2>1, <2>2, <2>6
  <2>8. ASSUME NEW i \in 1..(k + 1) PROVE g[i] = s[i][g[i - 1]]
    <3>1. CASE i = k + 1
      <4>1. i - 1 = k /\ g[k] = f[k]
        BY <2>1, <2>6, <3>1
      <4> QED BY <2>6, <3>1, <4>1
    <3>2. CASE i # k + 1
      <4>1. i \in 1..k /\ i \in 0..k /\ i - 1 \in 0..k
        BY <2>1, <3>2
      <4>2. f[i] = s[i][f[i - 1]] /\ g[i] = f[i] /\ g[i - 1] = f[i - 1]
        BY <2>2, <2>6, <4>1
      <4> QED BY <4>2
    <3> QED BY <3>1, <3>2
  <2>9. Runs(g, k + 1)
    BY <2>7, <2>8
  <2> HIDE DEF Runs
  <2> QED BY <2>1, <2>5, <2>9
<1>3. T \in SUBSET Nat
  OBVIOUS
<1> HIDE DEF T
<1>4. n \in T
  BY <1>1, <1>2, <1>3, AllNaturals
<1> QED BY <1>4 DEF T, Followed, Follows

(* The greatest member of a set that has one. *)

LEMMA QuotientOf ==
  ASSUME NEW w \in Nat \ {0}, NEW q \in Int
  PROVE  (w * q + 0) \div w = q
  OBVIOUS

-----------------------------------------------------------------------------
(****************************************************************************)
(* The block trace, proved for any blocks, any programs of the two CPUs,   *)
(* any budget of lines and any place where the trace is armed or closed.   *)
(****************************************************************************)
Pair == Blocks \X Targets
Rec  == [at : Blocks, pr : Targets, ran : Nat, gap : Nat]
Raw  == {q \in Rec : q.ran = Length[q.at]}
Acc  == [recs : Seq(Raw), gap : Nat]

NoRecs == [recs |-> <<>>, gap |-> 0]

\* A line makes a record of the block, leaves a count, or is another CPU's.
LEMMA ReadIn ==
  ASSUME NEW c \in CPUs, NEW acc \in Acc, NEW l \in Line
  PROVE  Read(c, acc, l) \in Acc
<1>1. acc.recs \in Seq(Raw) /\ acc.gap \in Nat
  BY DEF Acc
<1>2. CASE l \in [cpu : CPUs, kind : {"entry"}, at : Blocks, pr : Targets]
  <2> DEFINE q == [at |-> l.at, pr |-> l.pr, ran |-> Length[l.at], gap |-> acc.gap]
  <2>1. l.at \in Blocks /\ l.pr \in Targets /\ Length[l.at] \in Nat /\ l.kind = "entry"
    BY <1>2, BlockTraceAssumption
  <2>2. q \in Raw
    BY <1>1, <2>1 DEF Raw, Rec
  <2>3. Append(acc.recs, q) \in Seq(Raw)
    BY <1>1, <2>2, AppendProperties
  <2> HIDE DEF Raw
  <2>4. Read(c, acc, l) = IF l.cpu # c THEN acc ELSE [recs |-> Append(acc.recs, q), gap |-> 0]
    BY <2>1 DEF Read
  <2> HIDE DEF q
  <2> QED BY <2>3, <2>4 DEF Acc
<1>3. CASE l \in [cpu : CPUs, kind : {"omitted"}, n : Nat]
  <2>1. l.kind = "omitted" /\ acc.gap + l.n \in Nat
    BY <1>1, <1>3
  <2>2. Read(c, acc, l) = acc \/ Read(c, acc, l) = [acc EXCEPT !.gap = acc.gap + l.n]
    BY <2>1 DEF Read
  <2> HIDE DEF Raw
  <2> QED BY <2>1, <2>2 DEF Acc
<1> QED BY <1>2, <1>3 DEF Line

\* What the reader has after each line of a file.
Reading(f, lines, c) ==
  /\ f \in [0..Len(lines) -> Acc]
  /\ f[0] = NoRecs
  /\ \A n \in 1..Len(lines) : f[n] = Read(c, f[n - 1], lines[n])

LEMMA ParsedIs ==
  ASSUME NEW c \in CPUs, NEW lines \in Seq(Line)
  PROVE  \E f : Reading(f, lines, c) /\ Parsed(lines, c) = f[Len(lines)]
<1> DEFINE m == Len(lines)
           one(k, x) == Read(c, x, lines[k])
           Is(h) == h = [n \in 0..m |-> IF n = 0 THEN NoRecs ELSE one(n, h[n - 1])]
           s == [k \in Nat |-> [x \in Acc |-> IF k \in 1..m THEN one(k, x) ELSE x]]
           f == CHOOSE h : Is(h)
<1>1. m \in Nat /\ NoRecs \in Acc
  <2>1. <<>> \in Seq(Raw)
    OBVIOUS
  <2> QED BY <2>1 DEF Acc, NoRecs
<1>2. ASSUME NEW k \in 1..m, NEW x \in Acc PROVE one(k, x) \in Acc
  <2>1. lines[k] \in Line
    OBVIOUS
  <2> QED BY <2>1, ReadIn
<1>3. s \in [Nat -> [Acc -> Acc]]
  <2> HIDE DEF one, m
  <2> QED BY <1>2
<1>4. \A k \in 1..m, x \in Acc : s[k][x] = one(k, x)
  <2>1. \A k \in 1..m : k \in Nat
    BY <1>1
  <2> HIDE DEF one, m
  <2> QED BY <2>1
<1>5. Parsed(lines, c) = f[m]
  BY DEF Parsed, f, m, one, NoRecs
<1> HIDE DEF s, one, m, f
<1>6. PICK h : h \in [0..m -> Acc] /\ h[0] = NoRecs /\ \A k \in 1..m : h[k] = s[k][h[k - 1]]
  <2>1. Followed(Acc, NoRecs, s, m)
    BY <1>1, <1>3, RecursionExists
  <2>2. PICK h \in [0..m -> Acc] : h[0] = NoRecs /\ \A k \in 1..m : h[k] = s[k][h[k - 1]]
    BY <2>1 DEF Followed, Follows
  <2> QED BY <2>2, Zenon
<1>7. ASSUME NEW k \in 1..m PROVE h[k] = one(k, h[k - 1])
  <2>1. k - 1 \in 0..m
    BY <1>1
  <2> QED BY <1>4, <1>6, <2>1
<1>8. h = [k \in 0..m |-> IF k = 0 THEN NoRecs ELSE one(k, h[k - 1])]
  <2>1. \A k \in 0..m : k = 0 \/ k \in 1..m
    BY <1>1
  <2>2. \A k \in 0..m : h[k] = IF k = 0 THEN NoRecs ELSE one(k, h[k - 1])
    BY <1>6, <1>7, <2>1
  <2>3. h \in [0..m -> Acc]
    BY <1>6
  <2> QED BY <2>2, <2>3
<1>9. Is(f)
  <2>1. Is(h)
    BY <1>8, Zenon
  <2> HIDE DEF Is
  <2> QED BY <2>1 DEF f
<1>10. \A k \in 0..m : f[k] = IF k = 0 THEN NoRecs ELSE one(k, f[k - 1])
  BY <1>9, Zenon
<1>11. 0 \in 0..m /\ \A k \in 1..m : k \in 0..m /\ k # 0
  BY <1>1
<1>12. f[0] = NoRecs /\ \A k \in 1..m : f[k] = one(k, f[k - 1])
  BY <1>10, <1>11, Zenon
<1>13. \A k \in 0..m : f[k] = h[k]
  <2>1. f[0] = h[0]
    BY <1>6, <1>12
  <2>2. \A k \in 1..m : f[k - 1] = h[k - 1] => f[k] = h[k]
    BY <1>7, <1>12
  <2> HIDE DEF Is
  <2>3. m \in Nat /\ f[0] = h[0] /\ \A k \in 1..m : f[k - 1] = h[k - 1] => f[k] = h[k]
    BY <1>1, <2>1, <2>2
  <2> QED BY <2>3, SameSteps, Zenon
<1>14. Reading(h, lines, c)
  BY <1>6, <1>7 DEF Reading, m, one
<1>15. f[m] = h[m]
  BY <1>1, <1>13
<1> QED BY <1>5, <1>14, <1>15 DEF m

LEMMA ParsedIn ==
  ASSUME NEW c \in CPUs, NEW lines \in Seq(Line)
  PROVE  Parsed(lines, c) \in Acc
<1>1. PICK f : Reading(f, lines, c) /\ Parsed(lines, c) = f[Len(lines)]
  BY ParsedIs
<1>2. Len(lines) \in 0..Len(lines)
  OBVIOUS
<1> QED BY <1>1, <1>2 DEF Reading

\* A file with one line more is read as it was, and that line after it.
LEMMA ParsedAppend ==
  ASSUME NEW c \in CPUs, NEW lines \in Seq(Line), NEW l \in Line
  PROVE  Parsed(Append(lines, l), c) = Read(c, Parsed(lines, c), l)
<1> DEFINE m == Len(lines)
           more == Append(lines, l)
<1>1. more \in Seq(Line) /\ Len(more) = m + 1 /\ m \in Nat
  BY AppendProperties
<1>2. more[m + 1] = l /\ \A k \in 1..m : more[k] = lines[k]
  BY AppendProperties
<1>3. PICK f : Reading(f, lines, c) /\ Parsed(lines, c) = f[m]
  BY ParsedIs
<1>4. PICK g : Reading(g, more, c) /\ Parsed(more, c) = g[Len(more)]
  BY <1>1, ParsedIs
<1> HIDE DEF more, m
<1>5. f[0] = g[0]
  BY <1>3, <1>4 DEF Reading
<1>6. ASSUME NEW k \in 1..m, f[k - 1] = g[k - 1] PROVE f[k] = g[k]
  <2>1. k \in 1..Len(more)
    BY <1>1
  <2>2. f[k] = Read(c, f[k - 1], lines[k])
    BY <1>3 DEF Reading, m
  <2>3. g[k] = Read(c, g[k - 1], more[k])
    BY <1>4, <2>1 DEF Reading
  <2> QED BY <1>2, <1>6, <2>2, <2>3
<1>7. f[m] = g[m]
  <2>1. m \in Nat /\ f[0] = g[0] /\ \A k \in 1..m : f[k - 1] = g[k - 1] => f[k] = g[k]
    BY <1>1, <1>5, <1>6
  <2>2. \A k \in 0..m : f[k] = g[k]
    BY <2>1, SameSteps, Zenon
  <2> QED BY <1>1, <2>2
<1>8. g[m + 1] = Read(c, g[m], more[m + 1])
  <2>1. m + 1 \in 1..Len(more) /\ (m + 1) - 1 = m
    BY <1>1
  <2>2. g[m + 1] = Read(c, g[(m + 1) - 1], more[m + 1])
    BY <1>4, <2>1 DEF Reading
  <2> QED BY <2>1, <2>2
<1> QED BY <1>1, <1>2, <1>3, <1>4, <1>7, <1>8 DEF more

-----------------------------------------------------------------------------
(* What a sequence of records says was run. *)
LEMMA TimesIn ==
  ASSUME NEW a \in Blocks, NEW r \in Targets, NEW n \in Nat
  PROVE  Times(a, r, n) \in Seq(Pair) /\ Len(Times(a, r, n)) = n
<1>1. \A i \in 1..n : <<a, r>> \in Pair
  BY DEF Pair
<1> QED BY <1>1, IsASeq DEF Times

LEMMA TimesMore ==
  ASSUME NEW a \in Blocks, NEW r \in Targets, NEW n \in Nat, NEW k \in Nat
  PROVE  Times(a, r, n + k) = Times(a, r, n) \o Times(a, r, k)
<1> DEFINE x == Times(a, r, n)
           y == Times(a, r, k)
           z == Times(a, r, n + k)
<1>1. x \in Seq(Pair) /\ Len(x) = n /\ y \in Seq(Pair) /\ Len(y) = k
  BY TimesIn
<1>2. n + k \in Nat /\ z \in Seq(Pair) /\ Len(z) = n + k
  BY TimesIn
<1>3. /\ \A i \in 1..n : x[i] = <<a, r>>
      /\ \A i \in 1..k : y[i] = <<a, r>>
      /\ \A i \in 1..(n + k) : z[i] = <<a, r>>
  BY DEF Times
<1> HIDE DEF x, y, z
<1>4. x \o y \in Seq(Pair) /\ Len(x \o y) = n + k
  BY <1>1, ConcatProperties
<1>5. \A i \in 1..(n + k) : (x \o y)[i] = IF i <= n THEN x[i] ELSE y[i - n]
  BY <1>1, ConcatProperties
<1>6. ASSUME NEW i \in 1..(n + k) PROVE (x \o y)[i] = z[i]
  <2>1. CASE i <= n
    <3>1. i \in 1..n
      BY <2>1
    <3> QED BY <1>3, <1>5, <2>1, <3>1
  <2>2. CASE ~(i <= n)
    <3>1. i - n \in 1..k
      BY <2>2
    <3> QED BY <1>3, <1>5, <2>2, <3>1
  <2> QED BY <2>1, <2>2
<1>7. z = x \o y
  BY <1>2, <1>4, <1>6, SeqEqual
<1> QED BY <1>7 DEF x, y, z

LEMMA Regroup ==
  ASSUME NEW s \in Seq(Pair), NEW t \in Seq(Pair), NEW u \in Seq(Pair)
  PROVE  s \o (t \o u) = (s \o t) \o u
BY ConcatAssociative

\* The blocks one record says were run.
Runs(q) == Times(q.at, q.pr, q.ran \div Length[q.at])

LEMMA RunsIn == ASSUME NEW q \in Rec PROVE Runs(q) \in Seq(Pair)
<1>1. q.at \in Blocks /\ q.pr \in Targets /\ q.ran \in Nat
  BY DEF Rec
<1>2. Length[q.at] \in Nat \ {0}
  BY <1>1, BlockTraceAssumption
<1>3. q.ran \div Length[q.at] \in Nat
  BY <1>1, <1>2
<1> QED BY <1>1, <1>3, TimesIn DEF Runs

\* A record made by parse ran once; with a count folded into it, that often more.
LEMMA RanOnce ==
  ASSUME NEW q \in Raw
  PROVE  q.ran \div Length[q.at] = 1
         /\ \A g \in Nat : (q.ran + g * Length[q.at]) \div Length[q.at] = 1 + g
                           /\ q.ran + g * Length[q.at] \in Nat
<1> DEFINE w == Length[q.at]
<1>1. w \in Nat \ {0} /\ q.ran = w
  BY BlockTraceAssumption DEF Raw, Rec
<1> HIDE DEF w
<1>2. w \div w = 1
  BY <1>1
<1>3. ASSUME NEW g \in Nat PROVE (w + g * w) \div w = 1 + g /\ w + g * w \in Nat
  <2>1. w + g * w = w * (1 + g) + 0 /\ 1 + g \in Int /\ g * w \in Nat
    BY <1>1
  <2>2. (w * (1 + g) + 0) \div w = 1 + g
    BY <1>1, <2>1, QuotientOf
  <2> QED BY <1>1, <2>1, <2>2
<1> QED BY <1>1, <1>2, <1>3 DEF w

\* What has been told after each record.
Telling(f, recs) ==
  /\ f \in [0..Len(recs) -> Seq(Pair)]
  /\ f[0] = <<>>
  /\ \A n \in 1..Len(recs) : f[n] = f[n - 1] \o Runs(recs[n])

LEMMA ToldIs ==
  ASSUME NEW recs \in Seq(Rec)
  PROVE  \E f : Telling(f, recs) /\ Told(recs) = f[Len(recs)]
<1> DEFINE m == Len(recs)
           one(k, x) == x \o Runs(recs[k])
           Is(h) == h = [n \in 0..m |-> IF n = 0 THEN <<>> ELSE one(n, h[n - 1])]
           s == [k \in Nat |-> [x \in Seq(Pair) |-> IF k \in 1..m THEN one(k, x) ELSE x]]
           f == CHOOSE h : Is(h)
<1>1. m \in Nat /\ <<>> \in Seq(Pair)
  OBVIOUS
<1>2. ASSUME NEW k \in 1..m, NEW x \in Seq(Pair) PROVE one(k, x) \in Seq(Pair)
  <2>1. recs[k] \in Rec
    OBVIOUS
  <2>2. Runs(recs[k]) \in Seq(Pair)
    BY <2>1, RunsIn
  <2> QED BY <2>2, ConcatProperties
<1>3. s \in [Nat -> [Seq(Pair) -> Seq(Pair)]]
  <2> HIDE DEF one, m
  <2> QED BY <1>2
<1>4. \A k \in 1..m, x \in Seq(Pair) : s[k][x] = one(k, x)
  <2>1. \A k \in 1..m : k \in Nat
    BY <1>1
  <2> HIDE DEF one, m
  <2> QED BY <2>1
<1>5. Told(recs) = f[m]
  BY DEF Told, f, m, one, Runs
<1> HIDE DEF s, one, m, f
<1>6. PICK h : h \in [0..m -> Seq(Pair)] /\ h[0] = <<>> /\ \A k \in 1..m : h[k] = s[k][h[k - 1]]
  <2>1. Followed(Seq(Pair), <<>>, s, m)
    BY <1>1, <1>3, RecursionExists
  <2>2. PICK h \in [0..m -> Seq(Pair)] : h[0] = <<>> /\ \A k \in 1..m : h[k] = s[k][h[k - 1]]
    BY <2>1 DEF Followed, Follows
  <2> QED BY <2>2, Zenon
<1>7. ASSUME NEW k \in 1..m PROVE h[k] = one(k, h[k - 1])
  <2>1. k - 1 \in 0..m
    BY <1>1
  <2>2. h[k - 1] \in Seq(Pair)
    BY <1>6, <2>1
  <2> QED BY <1>4, <1>6, <2>2
<1>8. h = [k \in 0..m |-> IF k = 0 THEN <<>> ELSE one(k, h[k - 1])]
  <2>1. \A k \in 0..m : k = 0 \/ k \in 1..m
    BY <1>1
  <2>2. \A k \in 0..m : h[k] = IF k = 0 THEN <<>> ELSE one(k, h[k - 1])
    BY <1>6, <1>7, <2>1
  <2>3. h \in [0..m -> Seq(Pair)]
    BY <1>6
  <2> QED BY <2>2, <2>3
<1>9. Is(f)
  <2>1. Is(h)
    BY <1>8, Zenon
  <2> HIDE DEF Is
  <2> QED BY <2>1 DEF f
<1>10. \A k \in 0..m : f[k] = IF k = 0 THEN <<>> ELSE one(k, f[k - 1])
  BY <1>9, Zenon
<1>11. 0 \in 0..m /\ \A k \in 1..m : k \in 0..m /\ k # 0
  BY <1>1
<1>12. f[0] = <<>> /\ \A k \in 1..m : f[k] = one(k, f[k - 1])
  BY <1>10, <1>11, Zenon
<1>13. \A k \in 0..m : f[k] = h[k]
  <2>1. f[0] = h[0]
    BY <1>6, <1>12
  <2>2. \A k \in 1..m : f[k - 1] = h[k - 1] => f[k] = h[k]
    BY <1>7, <1>12
  <2> HIDE DEF Is
  <2>3. m \in Nat /\ f[0] = h[0] /\ \A k \in 1..m : f[k - 1] = h[k - 1] => f[k] = h[k]
    BY <1>1, <2>1, <2>2
  <2> QED BY <2>3, SameSteps, Zenon
<1>14. Telling(h, recs)
  BY <1>6, <1>7 DEF Telling, m, one
<1>15. f[m] = h[m]
  BY <1>1, <1>13
<1> QED BY <1>5, <1>14, <1>15 DEF m

LEMMA ToldIn == ASSUME NEW recs \in Seq(Rec) PROVE Told(recs) \in Seq(Pair)
<1>1. PICK f : Telling(f, recs) /\ Told(recs) = f[Len(recs)]
  BY ToldIs
<1>2. Len(recs) \in 0..Len(recs)
  OBVIOUS
<1> QED BY <1>1, <1>2 DEF Telling

LEMMA ToldNothing == Told(<<>>) = <<>>
<1>1. <<>> \in Seq(Rec) /\ Len(<<>>) = 0
  OBVIOUS
<1>2. PICK f : Telling(f, <<>>) /\ Told(<<>>) = f[0]
  BY <1>1, ToldIs
<1> QED BY <1>2 DEF Telling

\* One record more says so much more.
LEMMA ToldAppend ==
  ASSUME NEW recs \in Seq(Rec), NEW q \in Rec
  PROVE  Told(Append(recs, q)) = Told(recs) \o Runs(q)
<1> DEFINE m == Len(recs)
           more == Append(recs, q)
<1>1. more \in Seq(Rec) /\ Len(more) = m + 1 /\ m \in Nat
  BY AppendProperties
<1>2. more[m + 1] = q /\ \A k \in 1..m : more[k] = recs[k]
  BY AppendProperties
<1>3. PICK f : Telling(f, recs) /\ Told(recs) = f[m]
  BY ToldIs
<1>4. PICK g : Telling(g, more) /\ Told(more) = g[Len(more)]
  BY <1>1, ToldIs
<1> HIDE DEF more, m
<1>5. f[0] = g[0]
  BY <1>3, <1>4 DEF Telling
<1>6. ASSUME NEW k \in 1..m, f[k - 1] = g[k - 1] PROVE f[k] = g[k]
  <2>1. k \in 1..Len(more)
    BY <1>1
  <2>2. f[k] = f[k - 1] \o Runs(recs[k])
    BY <1>3 DEF Telling, m
  <2>3. g[k] = g[k - 1] \o Runs(more[k])
    BY <1>4, <2>1 DEF Telling
  <2> QED BY <1>2, <1>6, <2>2, <2>3
<1>7. f[m] = g[m]
  <2>1. m \in Nat /\ f[0] = g[0] /\ \A k \in 1..m : f[k - 1] = g[k - 1] => f[k] = g[k]
    BY <1>1, <1>5, <1>6
  <2>2. \A k \in 0..m : f[k] = g[k]
    BY <2>1, SameSteps, Zenon
  <2> QED BY <1>1, <2>2
<1>8. g[m + 1] = g[m] \o Runs(more[m + 1])
  <2>1. m + 1 \in 1..Len(more) /\ (m + 1) - 1 = m
    BY <1>1
  <2>2. g[m + 1] = g[(m + 1) - 1] \o Runs(more[m + 1])
    BY <1>4, <2>1 DEF Telling
  <2> QED BY <2>1, <2>2
<1> QED BY <1>1, <1>2, <1>3, <1>4, <1>7, <1>8 DEF more

-----------------------------------------------------------------------------
(* Counts are moved to the record before: what that leaves of the records. *)
Moved(rs) ==
  [k \in 1..(Len(rs) - 1) |->
     [rs[k] EXCEPT !.ran = @ + rs[k + 1].gap * Length[rs[k].at]]]

With(q, g) == [q EXCEPT !.ran = @ + g * Length[q.at]]

LEMMA WithIn ==
  ASSUME NEW q \in Raw, NEW g \in Nat
  PROVE  /\ With(q, g) \in Rec
         /\ Runs(With(q, g)) = Times(q.at, q.pr, 1 + g)
         /\ Runs(q) = Times(q.at, q.pr, 1)
<1>1. q \in Rec /\ q.ran + g * Length[q.at] \in Nat
  BY RanOnce DEF Raw
<1>2. With(q, g) = [q EXCEPT !.ran = q.ran + g * Length[q.at]]
  BY DEF With
<1>3. With(q, g) \in Rec
  BY <1>1, <1>2 DEF Rec
<1>4. With(q, g).at = q.at /\ With(q, g).pr = q.pr /\ With(q, g).ran = q.ran + g * Length[q.at]
  BY <1>1, <1>2 DEF Rec
<1> QED BY <1>3, <1>4, RanOnce DEF Runs

LEMMA MovedIn ==
  ASSUME NEW rs \in Seq(Raw), rs # <<>>
  PROVE  Moved(rs) \in Seq(Rec) /\ Len(Moved(rs)) = Len(rs) - 1
<1>1. Len(rs) - 1 \in Nat
  OBVIOUS
<1>2. ASSUME NEW k \in 1..(Len(rs) - 1)
      PROVE  [rs[k] EXCEPT !.ran = @ + rs[k + 1].gap * Length[rs[k].at]] \in Rec
  <2>1. rs[k] \in Raw /\ rs[k + 1] \in Raw
    OBVIOUS
  <2>2. rs[k + 1].gap \in Nat
    BY <2>1 DEF Raw, Rec
  <2> QED BY <2>1, <2>2, WithIn DEF With
<1> QED BY <1>1, <1>2, IsASeq DEF Moved

LEMMA RawIsRec == Raw \subseteq Rec /\ Seq(Raw) \subseteq Seq(Rec)
<1>1. Raw \subseteq Rec
  BY DEF Raw
<1> QED BY <1>1, SeqMonotonic

LEMMA CountedIs ==
  ASSUME NEW rs \in Seq(Raw), rs # <<>>
  PROVE  Counted(rs) = Append(Moved(rs), rs[Len(rs)])
<1> DEFINE n == Len(rs)
           m == Moved(rs)
           l == rs[n]
<1>1. n \in Nat \ {0} /\ l \in Rec /\ m \in Seq(Rec) /\ Len(m) = n - 1
  BY MovedIn, RawIsRec
<1>2. DOMAIN rs = 1..n
  OBVIOUS
<1>3. /\ Append(m, l) \in Seq(Rec) /\ Len(Append(m, l)) = n
      /\ Append(m, l)[n] = l
      /\ \A k \in 1..(n - 1) : Append(m, l)[k] = m[k]
  BY <1>1, AppendProperties
<1>4. Append(m, l) = [k \in 1..n |-> Append(m, l)[k]]
  BY <1>3
<1>5. ASSUME NEW k \in 1..n
      PROVE  Append(m, l)[k] = IF k = n THEN rs[k]
                     ELSE [rs[k] EXCEPT !.ran = @ + rs[k + 1].gap * Length[rs[k].at]]
  <2>1. CASE k = n
    BY <1>3, <2>1
  <2>2. CASE k # n
    <3>1. k \in 1..(n - 1)
      BY <2>2
    <3>2. m[k] = [rs[k] EXCEPT !.ran = @ + rs[k + 1].gap * Length[rs[k].at]]
      BY <3>1 DEF Moved
    <3> QED BY <1>3, <2>2, <3>1, <3>2
  <2> QED BY <2>1, <2>2
<1>6. Counted(rs) = [k \in 1..n |-> IF k = n THEN rs[k]
                     ELSE [rs[k] EXCEPT !.ran = @ + rs[k + 1].gap * Length[rs[k].at]]]
  BY <1>2 DEF Counted
<1> HIDE DEF m, l, n
<1>7. [k \in 1..n |-> Append(m, l)[k]]
      = [k \in 1..n |-> IF k = n THEN rs[k]
           ELSE [rs[k] EXCEPT !.ran = @ + rs[k + 1].gap * Length[rs[k].at]]]
  BY <1>5
<1> QED BY <1>4, <1>6, <1>7, Zenon DEF m, l, n

LEMMA CountedAppend ==
  ASSUME NEW rs \in Seq(Raw), rs # <<>>, NEW e \in Raw
  PROVE  Counted(Append(rs, e))
         = Append(Append(Moved(rs), With(rs[Len(rs)], e.gap)), e)
<1> DEFINE n == Len(rs)
           more == Append(rs, e)
           last == With(rs[n], e.gap)
<1>1. /\ more \in Seq(Raw) /\ Len(more) = n + 1 /\ more[n + 1] = e
      /\ \A k \in 1..n : more[k] = rs[k]
      /\ n \in Nat \ {0} /\ more # <<>>
  BY AppendProperties
<1>2. Counted(more) = Append(Moved(more), e)
  BY <1>1, CountedIs
<1>3. rs[n] \in Raw /\ e.gap \in Nat
  BY <1>1 DEF Raw, Rec
<1>4. last \in Rec
  BY <1>3, WithIn
<1>5. Moved(rs) \in Seq(Rec) /\ Len(Moved(rs)) = n - 1
  BY MovedIn
<1>6. Moved(more) \in Seq(Rec) /\ Len(Moved(more)) = n
  <2> HIDE DEF more, n
  <2>1. Moved(more) \in Seq(Rec) /\ Len(Moved(more)) = Len(more) - 1
    BY <1>1, MovedIn
  <2>2. Len(more) - 1 = n
    BY <1>1
  <2> QED BY <2>1, <2>2
<1>7. /\ Append(Moved(rs), last) \in Seq(Rec) /\ Len(Append(Moved(rs), last)) = n
      /\ Append(Moved(rs), last)[n] = last
      /\ \A k \in 1..(n - 1) : Append(Moved(rs), last)[k] = Moved(rs)[k]
  BY <1>1, <1>4, <1>5, AppendProperties
<1>8. ASSUME NEW k \in 1..n PROVE Moved(more)[k] = Append(Moved(rs), last)[k]
  <2>1. Moved(more)[k] = [more[k] EXCEPT !.ran = @ + more[k + 1].gap * Length[more[k].at]]
    BY <1>1 DEF Moved
  <2>2. more[k] = rs[k]
    BY <1>1
  <2>3. CASE k = n
    <3>1. more[k + 1] = e
      BY <1>1, <2>3
    <3>2. Moved(more)[k] = [rs[n] EXCEPT !.ran = @ + e.gap * Length[rs[n].at]]
      BY <2>1, <2>2, <2>3, <3>1
    <3> QED BY <1>7, <2>3, <3>2 DEF With
  <2>4. CASE k # n
    <3>1. k \in 1..(n - 1) /\ k + 1 \in 1..n
      BY <1>1, <2>4
    <3>2. more[k + 1] = rs[k + 1]
      BY <1>1, <3>1
    <3>3. Moved(rs)[k] = [rs[k] EXCEPT !.ran = @ + rs[k + 1].gap * Length[rs[k].at]]
      BY <3>1 DEF Moved
    <3> QED BY <1>7, <2>1, <2>2, <3>1, <3>2, <3>3
  <2> QED BY <2>3, <2>4
<1>9. Moved(more) = Append(Moved(rs), last)
  BY <1>6, <1>7, <1>8, SeqEqual
<1> QED BY <1>2, <1>9

\* Records read back one more: the last one is told its count, and the new one.
LEMMA ToldGrows ==
  ASSUME NEW rs \in Seq(Raw), rs # <<>>, NEW e \in Raw
  PROVE  Told(Counted(Append(rs, e)))
         = (Told(Counted(rs)) \o Times(rs[Len(rs)].at, rs[Len(rs)].pr, e.gap))
           \o Times(e.at, e.pr, 1)
<1> DEFINE l == rs[Len(rs)]
           front == Told(Moved(rs))
           one == Times(l.at, l.pr, 1)
           gap == Times(l.at, l.pr, e.gap)
<1>1. l \in Raw /\ e.gap \in Nat /\ l \in Rec /\ e \in Rec
  BY RawIsRec DEF Rec
<1>2. l.at \in Blocks /\ l.pr \in Targets /\ 1 \in Nat
  BY <1>1 DEF Rec
<1>3. Moved(rs) \in Seq(Rec) /\ With(l, e.gap) \in Rec
  BY <1>1, MovedIn, WithIn
<1>4. Told(Counted(rs)) = front \o one
  <2>1. Counted(rs) = Append(Moved(rs), l)
    BY CountedIs
  <2>2. Runs(l) = one
    BY <1>1, WithIn
  <2> QED BY <1>1, <1>3, <2>1, <2>2, ToldAppend
<1>5. Told(Counted(Append(rs, e))) = (front \o (one \o gap)) \o Times(e.at, e.pr, 1)
  <2>1. Counted(Append(rs, e)) = Append(Append(Moved(rs), With(l, e.gap)), e)
    BY CountedAppend
  <2>2. Append(Moved(rs), With(l, e.gap)) \in Seq(Rec)
    BY <1>3, AppendProperties
  <2>3. Told(Append(Append(Moved(rs), With(l, e.gap)), e))
        = Told(Append(Moved(rs), With(l, e.gap))) \o Runs(e)
    BY <1>1, <2>2, ToldAppend
  <2>4. Told(Append(Moved(rs), With(l, e.gap))) = front \o Runs(With(l, e.gap))
    BY <1>3, ToldAppend
  <2>5. Runs(With(l, e.gap)) = one \o gap
    BY <1>1, <1>2, WithIn, TimesMore
  <2>6. Runs(e) = Times(e.at, e.pr, 1)
    BY <1>1, WithIn
  <2> QED BY <2>1, <2>3, <2>4, <2>5, <2>6
<1>6. front \in Seq(Pair) /\ one \in Seq(Pair) /\ gap \in Seq(Pair)
  BY <1>1, <1>2, <1>3, ToldIn, TimesIn
<1>7. front \o (one \o gap) = (front \o one) \o gap
  BY <1>6, Regroup
<1> QED BY <1>4, <1>5, <1>7

\* The first record.
LEMMA ToldFirst ==
  ASSUME NEW e \in Raw
  PROVE  Told(Counted(<<e>>)) = Times(e.at, e.pr, 1)
<1>1. <<e>> \in Seq(Raw) /\ Len(<<e>>) = 1 /\ <<e>>[1] = e /\ <<e>> # <<>>
  OBVIOUS
<1>2. Counted(<<e>>) = Append(Moved(<<e>>), e)
  BY <1>1, CountedIs
<1>3. Moved(<<e>>) \in Seq(Rec) /\ Len(Moved(<<e>>)) = 0
  <2> DEFINE x == <<e>>
  <2>1. x \in Seq(Raw) /\ x # <<>> /\ Len(x) - 1 = 0
    BY <1>1
  <2> HIDE DEF x
  <2>2. Moved(x) \in Seq(Rec) /\ Len(Moved(x)) = Len(x) - 1
    BY <2>1, MovedIn
  <2> QED BY <2>1, <2>2 DEF x
<1>4. Moved(<<e>>) = <<>>
  BY <1>3
<1>5. e \in Rec /\ e.at \in Blocks /\ e.pr \in Targets /\ 1 \in Nat
  BY DEF Raw, Rec
<1>6. Told(Append(<<>>, e)) = <<>> \o Runs(e)
  <2>1. <<>> \in Seq(Rec)
    OBVIOUS
  <2>2. Told(Append(<<>>, e)) = Told(<<>>) \o Runs(e)
    BY <1>5, <2>1, ToldAppend
  <2> QED BY <2>2, ToldNothing
<1>7. Runs(e) = Times(e.at, e.pr, 1) /\ Runs(e) \in Seq(Pair)
  <2>1. 0 \in Nat
    OBVIOUS
  <2> QED BY <1>5, <2>1, WithIn, TimesIn
<1>8. <<>> \o Runs(e) = Runs(e)
  BY <1>7, ConcatEmptySeq
<1> QED BY <1>2, <1>4, <1>6, <1>7, <1>8

-----------------------------------------------------------------------------
(* Beginnings of a sequence. *)
LEMMA BeginsItself ==
  ASSUME NEW s \in Seq(Pair), NEW t \in Seq(Pair)
  PROVE  IsPrefix(s, s \o t)
<1>1. s \o t \in Seq(Pair) /\ Len(s \o t) = Len(s) + Len(t) /\ Len(s) \in Nat /\ Len(t) \in Nat
  BY ConcatProperties
<1>2. SubSeq(s \o t, 1, Len(s)) = s
  BY SubSeqOfConcat1, SubSeqFull, <1>1
<1>3. SubSeq(s, 1, Len(s)) = s
  BY SubSeqFull
<1> QED BY <1>1, <1>2, <1>3 DEF IsPrefix

LEMMA BeginsMore ==
  ASSUME NEW s \in Seq(Pair), NEW t \in Seq(Pair), NEW u \in Seq(Pair), IsPrefix(s, t)
  PROVE  IsPrefix(s, t \o u)
<1>1. Len(s) \in Nat /\ Len(t) \in Nat /\ Len(u) \in Nat /\ Len(s) <= Len(t)
  BY DEF IsPrefix
<1>2. Len(t \o u) = Len(t) + Len(u) /\ t \o u \in Seq(Pair)
  BY ConcatProperties
<1>3. SubSeq(t \o u, 1, Len(s)) = SubSeq(t, 1, Len(s))
  BY <1>1, SubSeqOfConcat1
<1> QED BY <1>1, <1>2, <1>3 DEF IsPrefix

LEMMA OnceMore ==
  ASSUME NEW s \in Seq(Pair), NEW a \in Blocks, NEW r \in Targets
  PROVE  Append(s, <<a, r>>) = s \o Times(a, r, 1) /\ Append(s, <<a, r>>) \in Seq(Pair)
<1>1. <<a, r>> \in Pair
  BY DEF Pair
<1>2. Times(a, r, 1) \in Seq(Pair) /\ Len(Times(a, r, 1)) = 1 /\ Times(a, r, 1)[1] = <<a, r>>
  <2>1. 1 \in Nat /\ 1 \in 1..1
    OBVIOUS
  <2>2. Times(a, r, 1)[1] = <<a, r>>
    BY <2>1 DEF Times
  <2> QED BY <2>1, <2>2, TimesIn
<1>3. <<<<a, r>>>> \in Seq(Pair) /\ Len(<<<<a, r>>>>) = 1 /\ <<<<a, r>>>>[1] = <<a, r>>
  BY <1>1
<1>4. Times(a, r, 1) = <<<<a, r>>>>
  BY <1>2, <1>3, SeqEqual
<1>5. Append(s, <<a, r>>) = s \o <<<<a, r>>>>
  BY <1>1, AppendIsConcat
<1>6. Append(s, <<a, r>>) \in Seq(Pair)
  BY <1>1, AppendProperties
<1> QED BY <1>4, <1>5, <1>6

-----------------------------------------------------------------------------
(* One CPU's account: what its lines are read back as, the run it has open, *)
(* the lines it has left and the blocks it has run, while the file is open  *)
(* or after.                                                                *)
Comes(read, o) ==
  IF read.recs = <<>> THEN <<>>
  ELSE Times(Last(read.recs).at, Last(read.recs).pr, read.gap + o.n)

Accounted(read, o, lines, blocks, on) ==
  /\ o.open => /\ read.recs # <<>> /\ read.gap = 0
               /\ Last(read.recs).at = o.at /\ Last(read.recs).pr = o.pr
  /\ (on /\ lines > 0 /\ ~o.open) => read = NoRecs
  /\ IsPrefix(Told(Counted(read.recs)), blocks)
  /\ lines > 0 => Told(Counted(read.recs)) \o Comes(read, o) = blocks

LEMMA RunFields ==
  ASSUME NEW o \in Run
  PROVE  /\ o.n \in Nat /\ o.open \in BOOLEAN
         /\ o.open => o.at \in Blocks /\ o.pr \in Targets
         /\ ~o.open => o = Closed
<1>1. CASE o \in [open : {TRUE}, at : Blocks, pr : Targets, n : Nat]
  <2>1. o.open = TRUE /\ o.at \in Blocks /\ o.pr \in Targets /\ o.n \in Nat
    BY <1>1
  <2> QED BY <2>1, Zenon
<1>2. CASE o = Closed
  <2>1. o.open = FALSE /\ o.n = 0
    BY <1>2 DEF Closed
  <2>2. o.n \in Nat
    BY <2>1
  <2> QED BY <1>2, <2>1, <2>2, Zenon
<1> QED BY <1>1, <1>2 DEF Run

LEMMA ToldRead ==
  ASSUME NEW read \in Acc
  PROVE  Told(Counted(read.recs)) \in Seq(Pair)
<1>1. read.recs \in Seq(Raw)
  BY DEF Acc
<1>2. CASE read.recs = <<>>
  <2>1. Counted(<<>>) = <<>>
    BY DEF Counted
  <2>2. <<>> \in Seq(Pair)
    OBVIOUS
  <2> QED BY <1>2, <2>1, <2>2, ToldNothing
<1>3. CASE read.recs # <<>>
  <2>1. read.recs[Len(read.recs)] \in Rec
    BY <1>1, <1>3, RawIsRec
  <2>2. Counted(read.recs) \in Seq(Rec)
    BY <1>1, <1>3, <2>1, CountedIs, MovedIn, AppendProperties
  <2> QED BY <2>2, ToldIn
<1> QED BY <1>2, <1>3

LEMMA LastIn ==
  ASSUME NEW read \in Acc, read.recs # <<>>
  PROVE  /\ Last(read.recs) = read.recs[Len(read.recs)] /\ Last(read.recs) \in Raw
         /\ Last(read.recs).at \in Blocks /\ Last(read.recs).pr \in Targets
<1>1. read.recs \in Seq(Raw)
  BY DEF Acc
<1>2. Last(read.recs) = read.recs[Len(read.recs)] /\ read.recs[Len(read.recs)] \in Raw
  BY <1>1 DEF Last
<1> QED BY <1>2 DEF Raw, Rec

\* A block of the open run, only counted.
LEMMA CountAccounted ==
  ASSUME NEW read \in Acc, NEW o \in Run, NEW lines \in Nat, NEW blocks \in Seq(Pair),
         NEW on \in BOOLEAN, Accounted(read, o, lines, blocks, on), o.open
  PROVE  Accounted(read, [o EXCEPT !.n = @ + 1], lines, Append(blocks, <<o.at, o.pr>>), on)
<1> DEFINE o2 == [o EXCEPT !.n = @ + 1]
           told == Told(Counted(read.recs))
           last == Last(read.recs)
<1>1. /\ o2.open /\ o2.at = o.at /\ o2.pr = o.pr /\ o2.n = o.n + 1 /\ o.n \in Nat
      /\ o.at \in Blocks /\ o.pr \in Targets
  <2>1. o.open /\ o.at \in Blocks /\ o.pr \in Targets /\ o.n \in Nat
    BY RunFields
  <2>2. CASE o \in [open : {TRUE}, at : Blocks, pr : Targets, n : Nat]
    <3>1. o2.open = o.open /\ o2.at = o.at /\ o2.pr = o.pr /\ o2.n = o.n + 1
      BY <2>2
    <3> QED BY <2>1, <3>1
  <2>3. CASE o = Closed
    <3>1. o.open = FALSE
      BY <2>3 DEF Closed
    <3> QED BY <2>1, <3>1
  <2> QED BY <2>2, <2>3 DEF Run
<1>2. read.recs # <<>> /\ read.gap = 0 /\ last.at = o.at /\ last.pr = o.pr
  BY DEF Accounted
<1>3. told \in Seq(Pair)
  BY ToldRead
<1>4. /\ Append(blocks, <<o.at, o.pr>>) = blocks \o Times(o.at, o.pr, 1)
      /\ Append(blocks, <<o.at, o.pr>>) \in Seq(Pair)
      /\ Times(o.at, o.pr, 1) \in Seq(Pair)
  <2>1. 1 \in Nat
    OBVIOUS
  <2> QED BY <1>1, <2>1, OnceMore, TimesIn
<1>5. IsPrefix(told, Append(blocks, <<o.at, o.pr>>))
  <2>1. IsPrefix(told, blocks)
    BY DEF Accounted
  <2> QED BY <1>3, <1>4, <2>1, BeginsMore
<1>6. ASSUME lines > 0 PROVE told \o Comes(read, o2) = Append(blocks, <<o.at, o.pr>>)
  <2>1. told \o Comes(read, o) = blocks
    BY <1>6 DEF Accounted
  <2>2. Comes(read, o) = Times(o.at, o.pr, o.n) /\ Comes(read, o2) = Times(o.at, o.pr, o.n + 1)
    <3>1. read.gap + o.n = o.n /\ read.gap + o2.n = o.n + 1
      BY <1>1, <1>2
    <3> QED BY <1>2, <3>1 DEF Comes
  <2>3. Times(o.at, o.pr, o.n + 1) = Times(o.at, o.pr, o.n) \o Times(o.at, o.pr, 1)
    <3>1. 1 \in Nat
      OBVIOUS
    <3> HIDE DEF o2
    <3> QED BY <1>1, <3>1, TimesMore
  <2>4. Times(o.at, o.pr, o.n) \in Seq(Pair)
    BY <1>1, TimesIn
  <2> DEFINE x == Times(o.at, o.pr, o.n)
             y == Times(o.at, o.pr, 1)
  <2>5. told \o (x \o y) = (told \o x) \o y
    <3>1. told \in Seq(Pair) /\ x \in Seq(Pair) /\ y \in Seq(Pair)
      BY <1>3, <1>4, <2>4
    <3> HIDE DEF told, x, y
    <3> QED BY <3>1, Regroup
  <2> HIDE DEF told, last, o2
  <2>6. told \o Comes(read, o2) = (told \o Times(o.at, o.pr, o.n)) \o Times(o.at, o.pr, 1)
    BY <2>2, <2>3, <2>5
  <2>7. told \o Times(o.at, o.pr, o.n) = blocks
    BY <2>1, <2>2
  <2> QED BY <1>4, <2>6, <2>7
<1> HIDE DEF o2, told, last
<1>7. Accounted(read, o2, lines, Append(blocks, <<o.at, o.pr>>), on)
  BY <1>1, <1>2, <1>5, <1>6 DEF Accounted, told, last
<1> QED BY <1>7 DEF o2

\* What flushing a run leaves to be read, and of the budget.
Flushing(read, o, lines) ==
  IF o.open /\ o.n > 0 /\ lines > 0 THEN [read EXCEPT !.gap = @ + o.n] ELSE read
Spent(o, lines) ==
  IF o.open /\ o.n > 0 /\ lines > 0 THEN lines - 1 ELSE lines

LEMMA FlushAccounted ==
  ASSUME NEW read \in Acc, NEW o \in Run, NEW lines \in Nat, NEW blocks \in Seq(Pair),
         NEW on, Accounted(read, o, lines, blocks, on)
  PROVE  /\ Flushing(read, o, lines) \in Acc
         /\ Flushing(read, o, lines).recs = read.recs
         /\ Spent(o, lines) \in Nat
         /\ Spent(o, lines) > 0 => lines > 0
         /\ lines > 0 => Comes(Flushing(read, o, lines), Closed) = Comes(read, o)
         /\ Accounted(Flushing(read, o, lines), Closed, Spent(o, lines), blocks, FALSE)
<1> DEFINE f == Flushing(read, o, lines)
           l == Spent(o, lines)
<1>1. o.n \in Nat /\ (~o.open => o.n = 0)
  BY RunFields DEF Closed
<1>2. read.recs \in Seq(Raw) /\ read.gap \in Nat
  BY DEF Acc
<1>3. f \in Acc /\ f.recs = read.recs /\ (lines > 0 => f.gap = read.gap + o.n)
  <2>1. CASE o.open /\ o.n > 0 /\ lines > 0
    <3>1. f = [read EXCEPT !.gap = read.gap + o.n] /\ read.gap + o.n \in Nat
      BY <1>1, <1>2, <2>1 DEF Flushing
    <3> HIDE DEF f
    <3> QED BY <1>2, <3>1 DEF Acc
  <2>2. CASE ~(o.open /\ o.n > 0 /\ lines > 0)
    <3>1. f = read
      BY <2>2 DEF Flushing
    <3>2. lines > 0 => o.n = 0
      BY <1>1, <2>2
    <3> HIDE DEF f
    <3> QED BY <1>2, <3>1, <3>2
  <2> QED BY <2>1, <2>2
<1>4. l > 0 => lines > 0
  BY DEF Spent
<1>5. lines > 0 => Comes(f, Closed) = Comes(read, o)
  <2>1. lines > 0 => f.gap + Closed.n = read.gap + o.n
    <3>1. Closed.n = 0 /\ f.gap \in Nat
      BY <1>3 DEF Closed, Acc
    <3> QED BY <1>3, <3>1
  <2> HIDE DEF f
  <2> QED BY <1>3, <2>1 DEF Comes
<1>6. l \in Nat
  BY DEF Spent
<1>7. ~Closed.open
  BY DEF Closed
<1> HIDE DEF f, l
<1>8. Accounted(f, Closed, l, blocks, FALSE)
  <2>1. /\ IsPrefix(Told(Counted(read.recs)), blocks)
        /\ lines > 0 => Told(Counted(read.recs)) \o Comes(read, o) = blocks
    BY DEF Accounted
  <2>2. /\ IsPrefix(Told(Counted(f.recs)), blocks)
        /\ l > 0 => Told(Counted(f.recs)) \o Comes(f, Closed) = blocks
    BY <1>3, <1>4, <1>5, <2>1
  <2> QED BY <1>7, <2>2, Zenon DEF Accounted
<1> QED BY <1>3, <1>4, <1>5, <1>6, <1>8 DEF f, l

\* A block beyond the budget goes untold.
LEMMA UntoldAccounted ==
  ASSUME NEW read \in Acc, NEW o \in Run, NEW lines \in Nat, NEW blocks \in Seq(Pair),
         NEW on \in BOOLEAN, Accounted(read, o, lines, blocks, on), Spent(o, lines) = 0,
         NEW a \in Blocks, NEW r \in Targets
  PROVE  Accounted(Flushing(read, o, lines), Closed, 0, Append(blocks, <<a, r>>), on)
<1> DEFINE f == Flushing(read, o, lines)
<1>1. f.recs = read.recs
  BY FlushAccounted, Zenon
<1>2. ~Closed.open
  BY DEF Closed
<1>3. IsPrefix(Told(Counted(read.recs)), Append(blocks, <<a, r>>))
  <2>1. IsPrefix(Told(Counted(read.recs)), blocks)
    BY DEF Accounted
  <2>2. 1 \in Nat
    OBVIOUS
  <2>3. Times(a, r, 1) \in Seq(Pair) /\ Append(blocks, <<a, r>>) = blocks \o Times(a, r, 1)
    BY <2>2, OnceMore, TimesIn
  <2> QED BY <2>1, <2>3, ToldRead, BeginsMore
<1> HIDE DEF f
<1>4. Accounted(f, Closed, 0, Append(blocks, <<a, r>>), on)
  BY <1>1, <1>2, <1>3 DEF Accounted
<1> QED BY <1>4 DEF f

\* A line of its own.
Noted(read, a, r) ==
  [recs |-> Append(read.recs, [at |-> a, pr |-> r, ran |-> Length[a], gap |-> read.gap]),
   gap  |-> 0]
Opened(a, r) == [open |-> TRUE, at |-> a, pr |-> r, n |-> 0]

LEMMA NoteAccounted ==
  ASSUME NEW read \in Acc, NEW o \in Run, NEW lines \in Nat, NEW blocks \in Seq(Pair),
         Accounted(read, o, lines, blocks, TRUE), Spent(o, lines) > 0,
         NEW a \in Blocks, NEW r \in Targets, NEW rest \in Nat
  PROVE  Accounted(Noted(Flushing(read, o, lines), a, r), Opened(a, r), rest,
                   Append(blocks, <<a, r>>), TRUE)
<1> DEFINE f == Flushing(read, o, lines)
           e == [at |-> a, pr |-> r, ran |-> Length[a], gap |-> f.gap]
           rs == read.recs
           told == Told(Counted(rs))
           new == Noted(f, a, r)
           all == Append(blocks, <<a, r>>)
<1>1. /\ f \in Acc /\ f.recs = rs /\ lines > 0
      /\ Comes(f, Closed) = Comes(read, o)
  <2>1. Spent(o, lines) > 0 => lines > 0
    BY FlushAccounted, Zenon
  <2> QED BY <2>1, FlushAccounted, Zenon
<1>2. rs \in Seq(Raw) /\ f.gap \in Nat
  BY <1>1 DEF Acc
<1>3. e \in Raw /\ e.at = a /\ e.pr = r /\ e.gap = f.gap
  <2>1. Length[a] \in Nat
    BY BlockTraceAssumption
  <2> HIDE DEF f
  <2> QED BY <1>2, <2>1 DEF Raw, Rec
<1>4. told \o Comes(f, Closed) = blocks
  BY <1>1 DEF Accounted
<1>5. Told(Counted(Append(rs, e))) = all
  <2>1. all = blocks \o Times(a, r, 1)
    BY OnceMore
  <2>2. CASE rs = <<>>
    <3>1. blocks = <<>>
      <4>1. Counted(<<>>) = <<>>
        BY DEF Counted
      <4>2. told = <<>> /\ Comes(f, Closed) = <<>>
        BY <1>1, <2>2, <4>1, ToldNothing DEF Comes
      <4>3. <<>> \o <<>> = <<>>
        OBVIOUS
      <4> QED BY <1>4, <4>2, <4>3
    <3>2. Append(rs, e) = <<e>>
      BY <2>2
    <3>3. Told(Counted(<<e>>)) = Times(a, r, 1)
      BY <1>3, ToldFirst
    <3>4. <<>> \o Times(a, r, 1) = Times(a, r, 1)
      <4>1. 1 \in Nat
        OBVIOUS
      <4> QED BY <4>1, TimesIn, ConcatEmptySeq
    <3> QED BY <2>1, <3>1, <3>2, <3>3, <3>4
  <2>3. CASE rs # <<>>
    <3>1. Comes(f, Closed) = Times(rs[Len(rs)].at, rs[Len(rs)].pr, f.gap)
      <4>1. Closed.n = 0 /\ f.gap + 0 = f.gap
        BY <1>2 DEF Closed
      <4>2. Last(f.recs) = rs[Len(rs)]
        BY <1>1 DEF Last
      <4> HIDE DEF f, rs
      <4> QED BY <1>1, <2>3, <4>1, <4>2 DEF Comes
    <3>2. Told(Counted(Append(rs, e)))
          = (told \o Times(rs[Len(rs)].at, rs[Len(rs)].pr, e.gap)) \o Times(e.at, e.pr, 1)
      BY <1>2, <1>3, <2>3, ToldGrows
    <3> QED BY <1>3, <1>4, <2>1, <3>1, <3>2
  <2> QED BY <2>2, <2>3
<1>6. new.recs = Append(rs, e) /\ new.gap = 0 /\ new.recs # <<>>
      /\ Last(new.recs).at = a /\ Last(new.recs).pr = r
  <2>1. new.recs = Append(rs, e) /\ new.gap = 0
    BY <1>1 DEF Noted
  <2>2. Append(rs, e) # <<>> /\ Append(rs, e)[Len(Append(rs, e))] = e
    <3> HIDE DEF e, rs
    <3> QED BY <1>2, <1>3, AppendProperties
  <2>3. Last(new.recs) = e
    BY <2>1, <2>2 DEF Last
  <2> QED BY <1>3, <2>1, <2>2, <2>3
<1>7. all \in Seq(Pair)
  BY OnceMore
<1>8. Comes(new, Opened(a, r)) = <<>>
  <2>1. Opened(a, r).n = 0
    BY DEF Opened
  <2>2. Times(a, r, 0) = <<>>
    <3>1. Times(a, r, 0) \in Seq(Pair) /\ Len(Times(a, r, 0)) = 0
      <4>1. 0 \in Nat
        OBVIOUS
      <4> QED BY <4>1, TimesIn
    <3> QED BY <3>1
  <2> HIDE DEF new
  <2> QED BY <1>6, <2>1, <2>2 DEF Comes
<1>9. all \o <<>> = all
  BY <1>7, ConcatEmptySeq
<1>10. IsPrefix(all, all)
  <2>1. <<>> \in Seq(Pair)
    OBVIOUS
  <2> QED BY <1>7, <1>9, <2>1, BeginsItself
<1>11. Opened(a, r).open /\ Opened(a, r).at = a /\ Opened(a, r).pr = r
  BY DEF Opened
<1> HIDE DEF new, all, e, rs, told, f
<1>12. Accounted(new, Opened(a, r), rest, all, TRUE)
  BY <1>5, <1>6, <1>8, <1>9, <1>10, <1>11 DEF Accounted
<1> QED BY <1>12 DEF new, all, f

-----------------------------------------------------------------------------
(* What the writer leaves in the file, as it is read back. *)
LEMMA Shapes ==
  ASSUME TraceTypeOK, NEW c \in CPUs
  PROVE  /\ run[c] \in Run /\ left[c] \in 0..Limit /\ left[c] \in Nat
         /\ ran[c] \in Seq(Pair) /\ pr[c] \in Targets /\ pc[c] \in Targets
         /\ file \in Seq(Line)
BY BlockTraceAssumption DEF TraceTypeOK, Pair

LEMMA FlushedIs ==
  ASSUME TraceTypeOK, NEW c \in CPUs
  PROVE  /\ Flushed(c) = IF Counts(c) THEN Append(file, Omitted(c, run[c].n)) ELSE file
         /\ Flushed(c) \in Seq(Line)
         /\ Counts(c) => Omitted(c, run[c].n) \in Line
         /\ Parsed(Flushed(c), c) = Flushing(Parsed(file, c), run[c], left[c])
         /\ \A d \in CPUs : d # c => Parsed(Flushed(c), d) = Parsed(file, d)
         /\ Budget(c) = Spent(run[c], left[c]) /\ Budget(c) \in 0..Limit
<1>1. run[c] \in Run /\ left[c] \in 0..Limit /\ file \in Seq(Line)
  BY Shapes
<1>2. run[c].n \in Nat
  BY <1>1, RunFields
<1> DEFINE l == Omitted(c, run[c].n)
<1>3. l \in Line /\ l.cpu = c /\ l.kind = "omitted" /\ l.n = run[c].n
  BY <1>2 DEF Omitted, Line
<1> HIDE DEF l
<1>4. Flushed(c) = IF Counts(c) THEN Append(file, l) ELSE file
  BY DEF Flushed, l
<1>5. Flushed(c) \in Seq(Line)
  BY <1>1, <1>3, <1>4, AppendProperties
<1>6. \A d \in CPUs : Parsed(Append(file, l), d) = Read(d, Parsed(file, d), l)
  BY <1>1, <1>3, ParsedAppend
<1>7. Read(c, Parsed(file, c), l) = [Parsed(file, c) EXCEPT !.gap = @ + run[c].n]
  BY <1>3 DEF Read
<1>8. Parsed(Flushed(c), c) = Flushing(Parsed(file, c), run[c], left[c])
  BY <1>4, <1>6, <1>7 DEF Flushing, Counts
<1>9. ASSUME NEW d \in CPUs, d # c PROVE Parsed(Flushed(c), d) = Parsed(file, d)
  <2>1. Read(d, Parsed(file, d), l) = Parsed(file, d)
    BY <1>3, <1>9 DEF Read
  <2> QED BY <1>4, <1>6, <2>1
<1>10. Budget(c) = Spent(run[c], left[c])
  BY DEF Budget, Spent, Counts
<1>11. Budget(c) \in 0..Limit
  <2>1. left[c] > 0 => left[c] - 1 \in 0..Limit
    BY <1>1, BlockTraceAssumption
  <2> QED BY <1>1, <2>1 DEF Budget, Counts
<1> QED BY <1>3, <1>4, <1>5, <1>8, <1>9, <1>10, <1>11 DEF l

LEMMA EntryRead ==
  ASSUME NEW lines \in Seq(Line), NEW c \in CPUs, NEW a \in Blocks, NEW r \in Targets
  PROVE  /\ Append(lines, Entry(c, a, r)) \in Seq(Line)
         /\ Parsed(Append(lines, Entry(c, a, r)), c) = Noted(Parsed(lines, c), a, r)
         /\ \A d \in CPUs : d # c =>
              Parsed(Append(lines, Entry(c, a, r)), d) = Parsed(lines, d)
<1> DEFINE l == Entry(c, a, r)
<1>1. l \in Line /\ l.cpu = c /\ l.kind = "entry" /\ l.at = a /\ l.pr = r
  BY DEF Entry, Line
<1> HIDE DEF l
<1>2. Append(lines, l) \in Seq(Line)
  BY <1>1, AppendProperties
<1>3. \A d \in CPUs : Parsed(Append(lines, l), d) = Read(d, Parsed(lines, d), l)
  BY <1>1, ParsedAppend
<1>4. Read(c, Parsed(lines, c), l) = Noted(Parsed(lines, c), a, r)
  BY <1>1 DEF Read, Noted
<1>5. \A d \in CPUs : d # c => Read(d, Parsed(lines, d), l) = Parsed(lines, d)
  BY <1>1 DEF Read
<1> QED BY <1>2, <1>3, <1>4, <1>5 DEF l

-----------------------------------------------------------------------------
(* The invariant: each CPU's account is right, and nothing runs untraced. *)
Account(c) == Accounted(Parsed(file, c), run[c], left[c], ran[c], tracing)

Books == TraceTypeOK /\ (running \in CPUs => tracing) /\ \A c \in CPUs : Account(c)

\* What a step of one CPU does to the file and to its run: shape, and accounts.
WriterTyped ==
  left' \in [CPUs -> 0..Limit] /\ run' \in [CPUs -> Run] /\ file' \in Seq(Line)

LEMMA OpenedIn ==
  ASSUME NEW a \in Blocks, NEW r \in Targets
  PROVE  Opened(a, r) \in Run /\ Closed \in Run
BY DEF Opened, Run

LEMMA Traces ==
  ASSUME Books, NEW c \in CPUs, NEW a \in Blocks, NEW r \in Targets, tracing, armed,
         sh2_block(c, a, r), tracing' = tracing,
         ran' = [ran EXCEPT ![c] = Append(@, <<a, r>>)]
  PROVE  WriterTyped /\ \A d \in CPUs : Account(d)'
<1>1. TraceTypeOK /\ \A d \in CPUs : Account(d)
  BY DEF Books
<1>2. /\ run[c] \in Run /\ left[c] \in 0..Limit /\ left[c] \in Nat /\ ran[c] \in Seq(Pair)
      /\ file \in Seq(Line)
  BY <1>1, Shapes
<1>3. /\ left \in [CPUs -> 0..Limit] /\ run \in [CPUs -> Run] /\ ran \in [CPUs -> Seq(Pair)]
  BY <1>1 DEF TraceTypeOK, Pair
<1>4. Parsed(file, c) \in Acc
  BY <1>2, ParsedIn
<1>5. Accounted(Parsed(file, c), run[c], left[c], ran[c], TRUE)
  <2>1. tracing = TRUE
    BY <1>1 DEF TraceTypeOK
  <2> QED BY <1>1, <2>1 DEF Account
<1>6. ran'[c] = Append(ran[c], <<a, r>>) /\ \A d \in CPUs : d # c => ran'[d] = ran[d]
  BY <1>3
<1>7. ASSUME NEW d \in CPUs, d # c, run'[d] = run[d], left'[d] = left[d],
             Parsed(file', d) = Parsed(file, d)
      PROVE  Account(d)'
  <2>1. Account(d)
    BY <1>1
  <2>2. Accounted(Parsed(file', d), run'[d], left'[d], ran'[d], tracing')
    BY <1>6, <1>7, <2>1 DEF Account
  <2> QED BY <2>2 DEF Account
<1>8. ASSUME Accounted(Parsed(file', c), run'[c], left'[c], Append(ran[c], <<a, r>>), TRUE)
      PROVE  Account(c)'
  <2>1. tracing' = TRUE
    BY <1>1 DEF TraceTypeOK
  <2> QED BY <1>6, <1>8, <2>1 DEF Account
<1>9. CASE SameRun(c, a, r)
  <2>1. run' = [run EXCEPT ![c].n = @ + 1] /\ file' = file /\ left' = left
    BY <1>9 DEF sh2_block, CountIt
  <2>2. run[c].open /\ run[c].at = a /\ run[c].pr = r
    BY <1>9 DEF SameRun
  <2>3. run[c].n \in Nat
    BY <1>2, RunFields
  <2>4. run'[c] = [run[c] EXCEPT !.n = @ + 1] /\ \A d \in CPUs : d # c => run'[d] = run[d]
    BY <1>3, <2>1
  <2>5. [run[c] EXCEPT !.n = @ + 1] \in Run
    <3>1. CASE run[c] \in [open : {TRUE}, at : Blocks, pr : Targets, n : Nat]
      <4>1. run[c].n + 1 \in Nat
        BY <2>3
      <4>2. [run[c] EXCEPT !.n = run[c].n + 1] \in [open : {TRUE}, at : Blocks, pr : Targets, n : Nat]
        BY <3>1, <4>1
      <4> QED BY <4>2 DEF Run
    <3>2. CASE run[c] = Closed
      <4>1. run[c].open = FALSE
        BY <3>2 DEF Closed
      <4> QED BY <2>2, <4>1
    <3> QED BY <1>2, <3>1, <3>2 DEF Run
  <2>6. run' \in [CPUs -> Run]
    <3>1. run' = [run EXCEPT ![c] = [run[c] EXCEPT !.n = @ + 1]]
      BY <2>1
    <3> QED BY <1>3, <2>5, <3>1
  <2>7. Account(c)'
    <3>1. Accounted(Parsed(file, c), [run[c] EXCEPT !.n = @ + 1], left[c],
                    Append(ran[c], <<run[c].at, run[c].pr>>), TRUE)
      BY <1>2, <1>4, <1>5, <2>2, CountAccounted
    <3> QED BY <1>8, <2>1, <2>2, <2>4, <3>1
  <2>8. ASSUME NEW d \in CPUs, d # c PROVE Account(d)'
    BY <1>7, <2>1, <2>4, <2>8
  <2> QED BY <1>2, <1>3, <2>1, <2>6, <2>7, <2>8 DEF WriterTyped
<1>10. CASE ~SameRun(c, a, r)
  <2>0. WriteIt(c, a, r)
    BY <1>10 DEF sh2_block
  <2> DEFINE f == Flushing(Parsed(file, c), run[c], left[c])
             l == Spent(run[c], left[c])
  <2>1. /\ Flushed(c) \in Seq(Line) /\ Parsed(Flushed(c), c) = f
        /\ \A d \in CPUs : d # c => Parsed(Flushed(c), d) = Parsed(file, d)
        /\ Budget(c) = l /\ Budget(c) \in 0..Limit
    BY <1>1, FlushedIs
  <2>2. Closed \in Run /\ Opened(a, r) \in Run
    BY OpenedIn
  <2>3. CASE Budget(c) = 0
    <3>1. /\ file' = Flushed(c) /\ left' = [left EXCEPT ![c] = 0]
          /\ run' = [run EXCEPT ![c] = Closed]
      BY <2>0, <2>3 DEF WriteIt
    <3>2. /\ left'[c] = 0 /\ run'[c] = Closed
          /\ \A d \in CPUs : d # c => left'[d] = left[d] /\ run'[d] = run[d]
      BY <1>3, <3>1
    <3>3. WriterTyped
      <4>1. 0 \in 0..Limit
        BY BlockTraceAssumption
      <4> QED BY <1>3, <2>1, <2>2, <3>1, <4>1 DEF WriterTyped
    <3>4. Account(c)'
      <4>1. Accounted(f, Closed, 0, Append(ran[c], <<a, r>>), TRUE)
        <5>1. l = 0 /\ TRUE \in BOOLEAN
          BY <2>1, <2>3
        <5> QED BY <1>2, <1>4, <1>5, <5>1, UntoldAccounted
      <4> HIDE DEF f
      <4> QED BY <1>8, <2>1, <3>1, <3>2, <4>1
    <3>5. ASSUME NEW d \in CPUs, d # c PROVE Account(d)'
      BY <1>7, <2>1, <3>1, <3>2, <3>5
    <3> QED BY <3>3, <3>4, <3>5
  <2>4. CASE Budget(c) # 0
    <3>1. /\ file' = Append(Flushed(c), Entry(c, a, r))
          /\ left' = [left EXCEPT ![c] = Budget(c) - 1]
          /\ run' = [run EXCEPT ![c] = Opened(a, r)]
      BY <2>0, <2>4 DEF WriteIt, Opened
    <3>2. Budget(c) - 1 \in 0..Limit /\ Budget(c) - 1 \in Nat /\ l > 0
      BY <2>1, <2>4, BlockTraceAssumption
    <3>3. /\ left'[c] = Budget(c) - 1 /\ run'[c] = Opened(a, r)
          /\ \A d \in CPUs : d # c => left'[d] = left[d] /\ run'[d] = run[d]
      BY <1>3, <3>1
    <3>4. /\ file' \in Seq(Line) /\ Parsed(file', c) = Noted(f, a, r)
          /\ \A d \in CPUs : d # c => Parsed(file', d) = Parsed(file, d)
      <4> HIDE DEF f
      <4> QED BY <2>1, <3>1, EntryRead
    <3>5. WriterTyped
      BY <1>3, <2>2, <3>1, <3>2, <3>4 DEF WriterTyped
    <3>6. Account(c)'
      <4>1. Accounted(Noted(f, a, r), Opened(a, r), Budget(c) - 1,
                      Append(ran[c], <<a, r>>), TRUE)
        BY <1>2, <1>4, <1>5, <3>2, NoteAccounted
      <4> HIDE DEF f
      <4> QED BY <1>8, <3>3, <3>4, <4>1
    <3>7. ASSUME NEW d \in CPUs, d # c PROVE Account(d)'
      BY <1>7, <3>3, <3>4, <3>7
    <3> QED BY <3>5, <3>6, <3>7
  <2> QED BY <2>3, <2>4
<1> QED BY <1>9, <1>10

\* The file as it is closed.
LEMMA CloseReads ==
  ASSUME Books, Close
  PROVE  /\ file' \in Seq(Line)
         /\ \A c \in CPUs : Parsed(file', c) = Flushing(Parsed(file, c), run[c], left[c])
<1>1. TraceTypeOK /\ \A c \in CPUs : Account(c)
  BY DEF Books
<1>2. 0 \in CPUs /\ 1 \in CPUs /\ \A c \in CPUs : c = 0 \/ c = 1
  BY DEF CPUs
<1> DEFINE l == Omitted(1, run[1].n)
<1>3. file' = IF Counts(1) THEN Append(Flushed(0), l) ELSE Flushed(0)
  <2>1. Flushed(0) \in Seq(Line) /\ (Counts(1) => l \in Line)
    BY <1>1, <1>2, FlushedIs
  <2>2. file' = Flushed(0) \o (IF Counts(1) THEN <<l>> ELSE <<>>)
    BY DEF Close
  <2> HIDE DEF l
  <2>3. Flushed(0) \o <<>> = Flushed(0)
    BY <2>1, ConcatEmptySeq
  <2>4. Counts(1) => Append(Flushed(0), l) = Flushed(0) \o <<l>>
    BY <2>1, AppendIsConcat
  <2> QED BY <2>2, <2>3, <2>4
<1>4. file' \in Seq(Line)
      /\ \A c \in CPUs : Parsed(file', c) = Flushing(Parsed(file, c), run[c], left[c])
  <2>1. /\ Flushed(0) \in Seq(Line)
        /\ Parsed(Flushed(0), 0) = Flushing(Parsed(file, 0), run[0], left[0])
        /\ Parsed(Flushed(0), 1) = Parsed(file, 1)
    BY <1>1, <1>2, FlushedIs
  <2>2. CASE Counts(1)
    <3>1. l \in Line /\ l.cpu = 1 /\ l.kind = "omitted" /\ l.n = run[1].n
      BY <1>1, <1>2, <2>2, FlushedIs DEF Omitted
    <3> HIDE DEF l
    <3>2. /\ file' \in Seq(Line)
          /\ \A d \in CPUs : Parsed(file', d) = Read(d, Parsed(Flushed(0), d), l)
      BY <1>3, <2>1, <2>2, <3>1, ParsedAppend, AppendProperties
    <3>3. Read(0, Parsed(Flushed(0), 0), l) = Parsed(Flushed(0), 0)
      BY <3>1 DEF Read
    <3>4. Read(1, Parsed(file, 1), l) = [Parsed(file, 1) EXCEPT !.gap = @ + run[1].n]
      BY <3>1 DEF Read
    <3>5. Flushing(Parsed(file, 1), run[1], left[1])
          = [Parsed(file, 1) EXCEPT !.gap = @ + run[1].n]
      BY <2>2 DEF Flushing, Counts
    <3> QED BY <1>2, <2>1, <3>2, <3>3, <3>4, <3>5
  <2>3. CASE ~Counts(1)
    <3>1. Flushing(Parsed(file, 1), run[1], left[1]) = Parsed(file, 1)
      BY <2>3 DEF Flushing, Counts
    <3> QED BY <1>2, <1>3, <2>1, <2>3, <3>1
  <2> QED BY <2>2, <2>3
<1> QED BY <1>4

\* Closing the file closes both runs.
LEMMA Closes ==
  ASSUME Books, Close
  PROVE  WriterTyped /\ \A c \in CPUs : Account(c)'
<1>1. TraceTypeOK /\ \A c \in CPUs : Account(c)
  BY DEF Books
<1>2. /\ file' \in Seq(Line)
      /\ \A c \in CPUs : Parsed(file', c) = Flushing(Parsed(file, c), run[c], left[c])
  BY CloseReads
<1>3. left' = [c \in CPUs |-> Budget(c)] /\ run' = [c \in CPUs |-> Closed]
      /\ tracing' = FALSE /\ ran' = ran
  BY DEF Close
<1>4. WriterTyped
  <2>1. \A c \in CPUs : Budget(c) \in 0..Limit
    BY <1>1, FlushedIs
  <2>2. Closed \in Run
    BY DEF Run
  <2> QED BY <1>2, <1>3, <2>1, <2>2 DEF WriterTyped
<1>5. ASSUME NEW c \in CPUs PROVE Account(c)'
  <2>1. run[c] \in Run /\ left[c] \in Nat /\ ran[c] \in Seq(Pair) /\ Parsed(file, c) \in Acc
    BY <1>1, Shapes, ParsedIn
  <2>2. Accounted(Parsed(file, c), run[c], left[c], ran[c], tracing)
    BY <1>1 DEF Account
  <2>3. Accounted(Flushing(Parsed(file, c), run[c], left[c]), Closed,
                  Spent(run[c], left[c]), ran[c], FALSE)
    BY <2>1, <2>2, FlushAccounted
  <2>4. Budget(c) = Spent(run[c], left[c])
    BY <1>1, FlushedIs
  <2>5. left'[c] = Budget(c) /\ run'[c] = Closed
    BY <1>3
  <2> QED BY <1>2, <1>3, <2>3, <2>4, <2>5 DEF Account
<1> QED BY <1>4, <1>5

-----------------------------------------------------------------------------
(* The dispatch loop keeps the books. *)
Loop ==
  /\ pc \in [CPUs -> Targets] /\ pr \in [CPUs -> Targets]
  /\ running \in CPUs \union {Nobody} /\ addr \in Targets
  /\ {recovering, armed, tracing} \subseteq BOOLEAN
  /\ fuel \in Int /\ fuel <= MaxFuel

LEMMA TypeIs ==
  TraceTypeOK <=> /\ Loop
                  /\ left \in [CPUs -> 0..Limit] /\ run \in [CPUs -> Run]
                  /\ file \in Seq(Line) /\ ran \in [CPUs -> Seq(Pair)]
BY DEF TraceTypeOK, Loop, Pair

\* What a step leaves alone stays booked.
LEMMA BooksSame ==
  ASSUME Books, UNCHANGED <<writerVars, ran, tracing>>, Loop', running' \in CPUs => tracing
  PROVE  Books'
<1>1. TraceTypeOK /\ \A c \in CPUs : Account(c)
  BY DEF Books
<1>2. /\ left' = left /\ run' = run /\ file' = file /\ ran' = ran /\ tracing' = tracing
  BY DEF writerVars
<1>3. TraceTypeOK'
  BY <1>1, <1>2, TypeIs DEF TraceTypeOK, Loop, Pair
<1>4. \A c \in CPUs : Account(c)'
  BY <1>1, <1>2 DEF Account
<1> QED BY <1>2, <1>3, <1>4 DEF Books

LEMMA LoopIs == ASSUME Books PROVE Loop /\ (running \in CPUs => tracing) /\ Nobody \notin CPUs
BY TypeIs, BlockTraceAssumption DEF Books

LEMMA ParkLoop ==
  ASSUME Books, NEW c \in CPUs, NEW a \in Targets, Park(c, a), UNCHANGED <<armed, tracing>>
  PROVE  Loop' /\ running' \notin CPUs /\ ran' = ran
<1>1. Loop /\ Nobody \notin CPUs
  BY LoopIs
<1>2. Parked \in Targets /\ 0 \in Int /\ 0 <= MaxFuel
  BY BlockTraceAssumption DEF Targets
<1> QED BY <1>1, <1>2 DEF Park, Loop

LEMMA YieldBooks == ASSUME Books, NEW c \in CPUs, Yield(c) PROVE Books'
<1>1. addr \in Targets
  BY DEF Yield, Targets
<1>2. Loop' /\ running' \notin CPUs /\ ran' = ran
  BY <1>1, ParkLoop DEF Yield
<1> QED BY <1>2, BooksSame DEF Yield

LEMMA HaltBooks == ASSUME Books, NEW c \in CPUs, Halt(c) PROVE Books'
<1>1. Parked \in Targets
  BY DEF Targets
<1>2. Loop' /\ running' \notin CPUs /\ ran' = ran
  BY <1>1, ParkLoop DEF Halt
<1> QED BY <1>2, BooksSame DEF Halt

LEMMA MissingBooks == ASSUME Books, NEW c \in CPUs, Missing(c) PROVE Books'
<1>1. CASE CanRecover(c)
  <2>1. Loop /\ (running \in CPUs => tracing)
    BY LoopIs
  <2>2. /\ addr' = pr[c] /\ recovering' = TRUE
        /\ UNCHANGED <<pc, pr, running, fuel, ran, armed, tracing, writerVars>>
    BY <1>1 DEF Missing
  <2>3. pr[c] \in Targets
    BY <2>1 DEF Loop
  <2>4. Loop'
    BY <2>1, <2>2, <2>3 DEF Loop
  <2> QED BY <2>1, <2>2, <2>4, BooksSame
<1>2. CASE ~CanRecover(c)
  <2>1. Parked \in Targets
    BY DEF Targets
  <2>2. Loop' /\ running' \notin CPUs /\ ran' = ran
    BY <1>2, <2>1, ParkLoop DEF Missing
  <2> QED BY <2>2, BooksSame DEF Missing
<1> QED BY <1>1, <1>2

LEMMA SliceBooks == ASSUME Books, NEW c \in CPUs, tracing, Slice(c) PROVE Books'
<1>1. Loop
  BY LoopIs
<1>2. pc[c] \in Targets
  BY <1>1 DEF Loop
<1>3. fuel' \in Int /\ fuel' <= MaxFuel
  BY BlockTraceAssumption DEF Slice
<1>4. Loop'
  BY <1>1, <1>2, <1>3 DEF Slice, Loop
<1> QED BY <1>4, BooksSame DEF Slice

LEMMA BetweenBooks == ASSUME Books, Arm \/ \E c \in CPUs : tracing /\ Interrupt(c) PROVE Books'
<1>1. Loop /\ (running \in CPUs => tracing)
  BY LoopIs
<1>2. CASE Arm
  <2>1. Loop' /\ running' = running /\ UNCHANGED <<writerVars, ran, tracing>>
    BY <1>1, <1>2 DEF Arm, Loop, cpuVars
  <2> QED BY <1>1, <2>1, BooksSame
<1>3. ASSUME NEW c \in CPUs, tracing, Interrupt(c) PROVE Books'
  <2>1. Blocks \union Holes \subseteq Targets
    BY DEF Targets
  <2>2. pc' \in [CPUs -> Targets]
    BY <1>1, <1>3, <2>1 DEF Interrupt, Loop
  <2>3. Loop' /\ running' = running /\ UNCHANGED <<writerVars, ran, tracing>>
    BY <1>1, <1>3, <2>2 DEF Interrupt, Loop
  <2> QED BY <1>1, <2>3, BooksSame
<1> QED BY <1>2, <1>3

LEMMA CloseBooks == ASSUME Books, Close PROVE Books'
<1>1. Loop /\ Nobody \notin CPUs
  BY LoopIs
<1>2. Loop' /\ running' \notin CPUs /\ ran' = ran
  BY <1>1 DEF Close, Loop, cpuVars
<1>3. WriterTyped /\ \A c \in CPUs : Account(c)'
  BY Closes
<1>4. TraceTypeOK'
  BY <1>2, <1>3 DEF Books, TraceTypeOK, Loop, WriterTyped
<1> QED BY <1>2, <1>3, <1>4 DEF Books

LEMMA BlockBooks == ASSUME Books, NEW c \in CPUs, Block(c) PROVE Books'
<1>1. Loop /\ (running \in CPUs => tracing)
  BY LoopIs
<1>2. running = c /\ tracing /\ running' = running /\ tracing' = tracing /\ armed' = armed
  BY <1>1 DEF Block
<1>3. addr \in Blocks /\ pr[c] \in Targets
  BY <1>1 DEF Block, Loop
<1>4. Loop'
  <2>1. Length[addr] \in Nat
    BY <1>3, BlockTraceAssumption
  <2>2. fuel' \in Int /\ fuel' <= MaxFuel
    BY <1>1, <2>1, BlockTraceAssumption DEF Block, Loop
  <2>3. pr' \in [CPUs -> Targets]
    <3>1. Links \union {Parked} \subseteq Targets
      BY BlockTraceAssumption DEF Targets
    <3> QED BY <1>1, <3>1 DEF Block, Loop
  <2> QED BY <1>1, <1>2, <2>2, <2>3 DEF Block, Loop
<1>5. CASE armed
  <2>1. ran' = [ran EXCEPT ![c] = Append(@, <<addr, pr[c]>>)] /\ sh2_block(c, addr, pr[c])
    BY <1>5 DEF Block
  <2>2. WriterTyped /\ \A d \in CPUs : Account(d)'
    BY <1>2, <1>3, <1>5, <2>1, Traces
  <2>3. ran' \in [CPUs -> Seq(Pair)]
    <3>1. ran \in [CPUs -> Seq(Pair)] /\ <<addr, pr[c]>> \in Pair
      BY <1>3, TypeIs DEF Books, Pair
    <3>2. Append(ran[c], <<addr, pr[c]>>) \in Seq(Pair)
      BY <3>1, AppendProperties
    <3> QED BY <2>1, <3>1, <3>2
  <2>4. TraceTypeOK'
    BY <1>4, <2>2, <2>3 DEF TraceTypeOK, Loop, WriterTyped, Pair
  <2> QED BY <1>2, <2>2, <2>4 DEF Books
<1>6. CASE ~armed
  <2>1. UNCHANGED <<writerVars, ran, tracing>>
    BY <1>6 DEF Block, sh2_block
  <2> QED BY <1>2, <1>4, <2>1, BooksSame
<1> QED BY <1>5, <1>6

LEMMA BooksStep == ASSUME Books, [TraceNext]_tracevars PROVE Books'
<1>1. CASE UNCHANGED tracevars
  <2>1. Loop /\ (running \in CPUs => tracing)
    BY LoopIs
  <2>2. Loop' /\ running' = running /\ UNCHANGED <<writerVars, ran, tracing>>
    BY <1>1, <2>1 DEF tracevars, cpuVars, Loop
  <2> QED BY <2>1, <2>2, BooksSame
<1>2. CASE Step
  BY <1>2, YieldBooks, BlockBooks, HaltBooks, MissingBooks DEF Step, Go
<1>3. CASE \E c \in CPUs : tracing /\ (Slice(c) \/ Interrupt(c))
  BY <1>3, SliceBooks, BetweenBooks
<1>4. CASE Arm
  BY <1>4, BetweenBooks
<1>5. CASE Close
  BY <1>5, CloseBooks
<1> QED BY <1>1, <1>2, <1>3, <1>4, <1>5 DEF TraceNext

LEMMA BooksStart == TraceInit => Books
<1> SUFFICES ASSUME TraceInit PROVE Books
  OBVIOUS
<1>1. TraceTypeOK
  <2>1. Parked \in Targets /\ Blocks \subseteq Targets /\ 0 <= MaxFuel /\ Limit \in 0..Limit
    BY BlockTraceAssumption DEF Targets
  <2>2. <<>> \in Seq(Line) /\ <<>> \in Seq(Blocks \X Targets) /\ Closed \in Run
    BY DEF Run
  <2>3. /\ pc \in [CPUs -> Targets] /\ pr \in [CPUs -> Targets]
        /\ fuel \in Int /\ fuel <= MaxFuel /\ addr \in Targets
        /\ running \in CPUs \union {Nobody}
    BY <2>1 DEF TraceInit
  <2>4. {recovering, armed, tracing} \subseteq BOOLEAN
    BY DEF TraceInit
  <2>5. left \in [CPUs -> 0..Limit] /\ run \in [CPUs -> Run]
    BY <2>1, <2>2 DEF TraceInit
  <2>6. file \in Seq(Line) /\ ran \in [CPUs -> Seq(Blocks \X Targets)]
    BY <2>2 DEF TraceInit
  <2> QED BY <2>3, <2>4, <2>5, <2>6 DEF TraceTypeOK
<1>2. running \in CPUs => tracing
  BY BlockTraceAssumption DEF TraceInit
<1>3. ASSUME NEW c \in CPUs PROVE Account(c)
  <2>1. file = <<>> /\ run[c] = Closed /\ ran[c] = <<>> /\ <<>> \in Seq(Line) /\ Len(<<>>) = 0
    BY <1>3 DEF TraceInit
  <2>2. Parsed(<<>>, c) = NoRecs
    <3>1. PICK f : Reading(f, <<>>, c) /\ Parsed(<<>>, c) = f[0]
      BY <2>1, ParsedIs
    <3> QED BY <3>1 DEF Reading
  <2>3. Counted(<<>>) = <<>>
    BY DEF Counted
  <2>4. <<>> \o <<>> = <<>> /\ <<>> \in Seq(Pair)
    OBVIOUS
  <2>5. IsPrefix(<<>>, <<>>)
    BY <2>4, BeginsItself
  <2>6. ~Closed.open /\ NoRecs.recs = <<>>
    BY DEF Closed, NoRecs
  <2>7. Comes(NoRecs, Closed) = <<>>
    BY <2>6 DEF Comes
  <2>8. Accounted(NoRecs, Closed, left[c], <<>>, tracing)
    BY <2>3, <2>4, <2>5, <2>6, <2>7, ToldNothing DEF Accounted
  <2> QED BY <2>1, <2>2, <2>8 DEF Account
<1> QED BY <1>1, <1>2, <1>3 DEF Books

(* Whatever the two CPUs run, whenever their slices end, and wherever the    *)
(* budgets run out, the file is read back as how each CPU's run began.       *)
THEOREM ReadBackTrue == TraceSpec => []ReadsTrue
<1>1. Books => ReadsTrue
  BY DEF Books, Account, Accounted, ReadsTrue, Records
<1> QED BY <1>1, BooksStart, BooksStep, PTL DEF TraceSpec

(* And while a CPU has lines left, every block it ran is in the file or in   *)
(* the count of its open run.                                                *)
THEOREM EveryBlockCounted == TraceSpec => []NothingLost
<1>1. ASSUME Books PROVE NothingLost
  <2>1. ASSUME NEW c \in CPUs, left[c] > 0 PROVE Told(Records(c)) \o Pending(c) = ran[c]
    <3>1. Accounted(Parsed(file, c), run[c], left[c], ran[c], tracing)
      BY <1>1 DEF Books, Account
    <3>2. Comes(Parsed(file, c), run[c]) = Pending(c)
      BY DEF Comes, Pending
    <3> QED BY <2>1, <3>1, <3>2 DEF Accounted, Records
  <2> QED BY <2>1 DEF NothingLost
<1> QED BY <1>1, BooksStart, BooksStep, PTL DEF TraceSpec

(* The loop, the lines and the runs keep their shape.                        *)
THEOREM TraceTyping == TraceSpec => []TraceTypeOK
<1>1. Books => TraceTypeOK
  BY DEF Books
<1> QED BY <1>1, BooksStart, BooksStep, PTL DEF TraceSpec

-----------------------------------------------------------------------------
(* The next line is another. *)
Other(q, a, r) == <<q.at, q.pr>> # <<a, r>>

Differ(recs) ==
  \A k \in 1..(Len(recs) - 1) : Other(recs[k], recs[k + 1].at, recs[k + 1].pr)

Follow(recs, more) ==
  \/ more = recs
  \/ \E q \in Raw : more = Append(recs, q) /\ (recs # <<>> => Other(Last(recs), q.at, q.pr))

LEMMA FollowDiffers ==
  ASSUME NEW recs \in Seq(Raw), NEW more, Follow(recs, more), Differ(recs)
  PROVE  Differ(more)
<1>1. CASE more = recs
  BY <1>1
<1>2. ASSUME NEW q \in Raw, more = Append(recs, q), recs # <<>> => Other(Last(recs), q.at, q.pr)
      PROVE  Differ(more)
  <2>1. /\ Len(more) = Len(recs) + 1 /\ more[Len(recs) + 1] = q
        /\ \A k \in 1..Len(recs) : more[k] = recs[k]
        /\ Len(recs) \in Nat
    BY <1>2, AppendProperties
  <2>2. ASSUME NEW k \in 1..(Len(more) - 1)
        PROVE  Other(more[k], more[k + 1].at, more[k + 1].pr)
    <3>1. CASE k = Len(recs)
      <4>1. recs # <<>> /\ Last(recs) = more[k] /\ more[k + 1] = q
        BY <2>1, <3>1 DEF Last
      <4> QED BY <1>2, <4>1
    <3>2. CASE k # Len(recs)
      <4>1. k \in 1..(Len(recs) - 1) /\ k \in 1..Len(recs) /\ k + 1 \in 1..Len(recs)
        BY <2>1, <3>2
      <4>2. Other(recs[k], recs[k + 1].at, recs[k + 1].pr)
        BY <4>1 DEF Differ
      <4> QED BY <2>1, <4>1, <4>2
    <3> QED BY <3>1, <3>2
  <2> QED BY <2>2 DEF Differ
<1> QED BY <1>1, <1>2 DEF Follow

\* A block adds no record to its CPU's, or one of another block or state.
LEMMA TraceFollows ==
  ASSUME Books, NEW c \in CPUs, NEW a \in Blocks, NEW r \in Targets, tracing, armed,
         sh2_block(c, a, r), NEW d \in CPUs
  PROVE  Follow(Parsed(file, d).recs, Parsed(file', d).recs)
<1>1. TraceTypeOK /\ Account(c)
  BY DEF Books
<1>2. run[c] \in Run /\ left[c] \in Nat /\ file \in Seq(Line) /\ ran[c] \in Seq(Pair)
  BY <1>1, Shapes
<1>3. Parsed(file, c) \in Acc
  BY <1>2, ParsedIn
<1> DEFINE f == Flushing(Parsed(file, c), run[c], left[c])
<1>4. /\ Flushed(c) \in Seq(Line) /\ Parsed(Flushed(c), c) = f
      /\ \A e \in CPUs : e # c => Parsed(Flushed(c), e) = Parsed(file, e)
      /\ Budget(c) = Spent(run[c], left[c]) /\ Budget(c) \in 0..Limit
  BY <1>1, FlushedIs
<1>5. f \in Acc /\ f.recs = Parsed(file, c).recs /\ (Budget(c) > 0 => left[c] > 0)
  <2>1. Accounted(Parsed(file, c), run[c], left[c], ran[c], tracing)
    BY <1>1 DEF Account
  <2>2. f \in Acc /\ f.recs = Parsed(file, c).recs
    BY <1>2, <1>3, <2>1, FlushAccounted
  <2>3. Spent(run[c], left[c]) > 0 => left[c] > 0
    BY <1>2, <1>3, <2>1, FlushAccounted
  <2> QED BY <1>4, <2>2, <2>3
<1> HIDE DEF f
<1>6. CASE SameRun(c, a, r)
  <2>1. file' = file
    BY <1>6 DEF sh2_block, CountIt
  <2> QED BY <2>1 DEF Follow
<1>7. CASE ~SameRun(c, a, r)
  <2>1. WriteIt(c, a, r)
    BY <1>7 DEF sh2_block
  <2>2. CASE Budget(c) = 0
    <3>1. file' = Flushed(c)
      BY <2>1, <2>2 DEF WriteIt
    <3> QED BY <1>4, <1>5, <3>1 DEF Follow
  <2>3. CASE Budget(c) # 0
    <3>1. file' = Append(Flushed(c), Entry(c, a, r))
      BY <2>1, <2>3 DEF WriteIt
    <3>2. CASE d # c
      <4>1. Parsed(file', d) = Parsed(file, d)
        BY <1>4, <3>1, <3>2, EntryRead
      <4> QED BY <4>1 DEF Follow
    <3>3. CASE d = c
      <4> DEFINE q == [at |-> a, pr |-> r, ran |-> Length[a], gap |-> f.gap]
      <4>1. q \in Raw /\ q.at = a /\ q.pr = r
        <5>1. Length[a] \in Nat /\ f.gap \in Nat
          BY <1>5, BlockTraceAssumption DEF Acc
        <5> QED BY <5>1 DEF Raw, Rec
      <4>2. Parsed(file', c).recs = Append(Parsed(file, c).recs, q)
        <5>1. Parsed(file', c) = Noted(f, a, r)
          BY <1>4, <3>1, EntryRead
        <5> QED BY <1>5, <5>1 DEF Noted
      <4>3. Parsed(file, c).recs # <<>> => Other(Last(Parsed(file, c).recs), a, r)
        <5>1. left[c] > 0 /\ tracing
          BY <1>4, <1>5, <2>3
        <5>2. ~run[c].open => Parsed(file, c) = NoRecs
          BY <1>1, <5>1 DEF Account, Accounted
        <5>3. run[c].open => /\ Last(Parsed(file, c).recs).at = run[c].at
                             /\ Last(Parsed(file, c).recs).pr = run[c].pr
          BY <1>1 DEF Account, Accounted
        <5>4. run[c].open => run[c].at # a \/ run[c].pr # r
          BY <1>7 DEF SameRun
        <5>5. NoRecs.recs = <<>>
          BY DEF NoRecs
        <5> QED BY <5>2, <5>3, <5>4, <5>5 DEF Other
      <4> HIDE DEF q
      <4> QED BY <3>3, <4>1, <4>2, <4>3 DEF Follow
    <3> QED BY <3>2, <3>3
  <2> QED BY <2>2, <2>3
<1> QED BY <1>6, <1>7

\* Closing the file adds counts only.
LEMMA CloseFollows ==
  ASSUME Books, Close, NEW d \in CPUs
  PROVE  Follow(Parsed(file, d).recs, Parsed(file', d).recs)
<1>1. TraceTypeOK /\ Account(d)
  BY DEF Books
<1>2. Parsed(file', d) = Flushing(Parsed(file, d), run[d], left[d])
  BY CloseReads
<1>3. run[d] \in Run /\ left[d] \in Nat /\ ran[d] \in Seq(Pair) /\ Parsed(file, d) \in Acc
  BY <1>1, Shapes, ParsedIn
<1>4. Accounted(Parsed(file, d), run[d], left[d], ran[d], tracing)
  BY <1>1 DEF Account
<1>5. Flushing(Parsed(file, d), run[d], left[d]).recs = Parsed(file, d).recs
  BY <1>3, <1>4, FlushAccounted
<1> QED BY <1>2, <1>5 DEF Follow

LEMMA RecordsFollow ==
  ASSUME Books, [TraceNext]_tracevars, NEW d \in CPUs
  PROVE  Follow(Parsed(file, d).recs, Parsed(file', d).recs)
<1>1. CASE UNCHANGED file
  BY <1>1 DEF Follow
<1>2. ASSUME NEW c \in CPUs, Block(c)
      PROVE  Follow(Parsed(file, d).recs, Parsed(file', d).recs)
  <2>1. addr \in Blocks /\ pr[c] \in Targets /\ sh2_block(c, addr, pr[c])
    BY <1>2, LoopIs DEF Block, Loop
  <2>2. CASE tracing /\ armed
    BY <2>1, <2>2, TraceFollows
  <2>3. CASE ~(tracing /\ armed)
    <3>1. UNCHANGED file
      BY <2>1, <2>3 DEF sh2_block, writerVars
    <3> QED BY <1>1, <3>1
  <2> QED BY <2>2, <2>3
<1>3. CASE Close
  BY <1>3, CloseFollows
<1>4. ASSUME ~Close, \A c \in CPUs : ~Block(c) PROVE UNCHANGED file
  BY <1>4 DEF TraceNext, Step, Go, Yield, Halt, Missing, Slice, Interrupt, Arm, Park,
              tracevars, writerVars
<1> QED BY <1>1, <1>2, <1>3, <1>4

(* A CPU's lines are each of another block or state than the one before.     *)
THEOREM LinesDiffer == TraceSpec => []ReferenceShape
<1>1. ReferenceShape <=> \A c \in CPUs : Differ(Parsed(file, c).recs)
  BY DEF ReferenceShape, Differ, Other
<1>2. TraceInit => ReferenceShape
  <2>1. ASSUME TraceInit, NEW c \in CPUs PROVE Differ(Parsed(file, c).recs)
    <3>1. file = <<>> /\ <<>> \in Seq(Line) /\ Len(<<>>) = 0
      BY <2>1 DEF TraceInit
    <3>2. PICK f : Reading(f, <<>>, c) /\ Parsed(<<>>, c) = f[0]
      BY <3>1, ParsedIs
    <3>3. Parsed(file, c).recs = <<>>
      BY <3>1, <3>2 DEF Reading, NoRecs
    <3> QED BY <3>3 DEF Differ
  <2> QED BY <1>1, <2>1
<1>3. ASSUME Books, ReferenceShape, [TraceNext]_tracevars PROVE ReferenceShape'
  <2>1. ASSUME NEW c \in CPUs PROVE Differ(Parsed(file', c).recs)
    <3>1. file \in Seq(Line)
      BY <1>3 DEF Books, TraceTypeOK
    <3>2. Parsed(file, c).recs \in Seq(Raw)
      BY <3>1, ParsedIn DEF Acc
    <3>3. Differ(Parsed(file, c).recs)
      BY <1>1, <1>3
    <3> QED BY <1>3, <3>2, <3>3, RecordsFollow, FollowDiffers
  <2> QED BY <2>1 DEF ReferenceShape, Differ, Other
<1> QED BY <1>2, <1>3, BooksStart, BooksStep, PTL DEF TraceSpec
=============================================================================

------------------------------ MODULE Battery ------------------------------
(***************************************************************************)
(* The cartridge's battery and the file behind it: the mapper register,    *)
(* the bytes the game stores, gen68k_sram_open and gen68k_sram_commit,     *)
(* with the program killed at any step of it and started again.            *)
(*                                                                         *)
(* The game keeps two copies of one block, each with its checksum.  A copy *)
(* is abstracted to two parts, each holding the number of the save it is a *)
(* part of: the checksum is right when the parts agree.                    *)
(***************************************************************************)
EXTENDS Integers, FiniteSets

CONSTANTS MaxSaves,  \* bound: saves the game makes
          NoFile,    \* there is no save file
          Empty      \* the file fopen(path, "wb") has left

Copies == 1..2
Parts  == 1..2
Cells  == 4
Image  == [Copies -> [Parts -> 0..MaxSaves]]

ASSUME BatteryAssumption ==
  MaxSaves \in Nat /\ NoFile # Empty /\ NoFile \notin Image /\ Empty \notin Image

VARIABLES up,         \* the program is running
          mapped,     \* gen.sram_ctl bit 0
          protected,  \* gen.sram_ctl bit 1
          sram,       \* gen.sram
          dirty,      \* gen.sram_dirty
          path,       \* sram_path is set
          commit,     \* where gen68k_sram_commit is: none, open or write
          exiting,    \* the run is over and its last commit is being made
          disk,       \* the file
          game,       \* what the game is doing: idle, load or save
          stored,     \* cells of the save in progress that are stored
          saves,      \* saves begun, the number of the last one
          whole,      \* history: the last save whose commit returned
          torn,       \* history: exits in the middle of a save since then
          cut         \* history: a commit was cut short since then

gameVars == <<game, stored, saves>>
history  == <<whole, torn, cut>>
vars == <<up, mapped, protected, sram, dirty, path, commit, exiting, disk,
          gameVars, history>>

Fresh == [c \in Copies |-> [p \in Parts |-> 0]]

\* What gen68k_sram_open finds: nothing read leaves a fresh battery.
ImageOn(d) == IF d \in {NoFile, Empty} THEN Fresh ELSE d

\* The save a copy holds, 0 when its checksum is wrong.
Held(image, c) == IF \A p \in Parts : image[c][p] = image[c][1] THEN image[c][1] ELSE 0

Quiet == up /\ commit = "none" /\ ~exiting

----------------------------------------------------------------------------
(* The game's two routines. *)

\* 0x03E392 maps the battery protected, 0x03E420 maps it writable.
MapToLoad ==
  /\ Quiet /\ game = "idle"
  /\ mapped' = TRUE /\ protected' = TRUE /\ game' = "load"
  /\ UNCHANGED <<up, sram, dirty, path, commit, exiting, disk, stored, saves, history>>

MapToSave ==
  /\ Quiet /\ game = "idle" /\ saves < MaxSaves
  /\ mapped' = TRUE /\ protected' = FALSE /\ game' = "save"
  /\ stored' = 0 /\ saves' = saves + 1
  /\ UNCHANGED <<up, sram, dirty, path, commit, exiting, disk, history>>

\* the flag left alone
StoreClean(c, p) ==
  /\ sram' = IF mapped /\ ~protected THEN [sram EXCEPT ![c][p] = saves] ELSE sram
  /\ UNCHANGED dirty

\* A byte for the battery, when it is there and writable.
Store(c, p) ==
  IF mapped /\ ~protected
  THEN sram' = [sram EXCEPT ![c][p] = saves] /\ dirty' = TRUE
  ELSE UNCHANGED <<sram, dirty>>

\* The save's bytes, one copy after the other.
SaveByte ==
  /\ Quiet /\ game = "save" /\ stored < Cells
  /\ Store((stored \div 2) + 1, (stored % 2) + 1)
  /\ stored' = stored + 1
  /\ UNCHANGED <<up, mapped, protected, path, commit, exiting, disk, game, saves, history>>

\* nowhere to write it
CommitsAnywhere == dirty

\* gen68k_sram_commit has something to write and somewhere to write it.
Commits == dirty /\ path

\* Both routines put 2 back, and unmapping is the game's own commit point.
Unmap ==
  /\ Quiet
  /\ game = "load" \/ (game = "save" /\ stored = Cells)
  /\ mapped' = FALSE /\ protected' = TRUE /\ game' = "idle"
  /\ commit' = IF Commits THEN "open" ELSE "none"
  /\ UNCHANGED <<up, sram, dirty, path, exiting, disk, stored, saves, history>>

----------------------------------------------------------------------------
(* gen68k_sram_commit. *)

CommitOpen ==
  /\ up /\ commit = "open"
  /\ \/ disk' = Empty /\ commit' = "write" /\ UNCHANGED path
     \/ path' = FALSE /\ commit' = "none" /\ UNCHANGED disk
  /\ UNCHANGED <<up, mapped, protected, sram, dirty, exiting, gameVars, history>>

CommitWrite ==
  /\ up /\ commit = "write"
  /\ disk' = sram /\ dirty' = FALSE /\ commit' = "none"
  /\ IF game = "idle" /\ stored = Cells
     THEN whole' = saves /\ torn' = 0 /\ cut' = FALSE
     ELSE UNCHANGED history
  /\ UNCHANGED <<up, mapped, protected, sram, path, exiting, gameVars>>

----------------------------------------------------------------------------
(* The run. *)

Interrupted == game = "save" /\ stored > 0 /\ path

\* The loop has ended, wherever the game was; the battery is committed again.
Exit ==
  /\ Quiet
  /\ exiting' = TRUE
  /\ commit' = IF Commits THEN "open" ELSE "none"
  /\ torn' = IF Interrupted /\ torn < 2 THEN torn + 1 ELSE torn
  /\ UNCHANGED <<up, mapped, protected, sram, dirty, path, disk, gameVars, whole, cut>>

Down ==
  /\ up' = FALSE /\ commit' = "none" /\ exiting' = FALSE
  /\ mapped' = FALSE /\ protected' = FALSE /\ sram' = Fresh /\ dirty' = FALSE
  /\ game' = "idle" /\ stored' = 0
  /\ UNCHANGED <<path, disk, saves, whole, torn>>

Ended == up /\ exiting /\ commit = "none" /\ Down /\ UNCHANGED cut

Kill == up /\ Down /\ cut' = (cut \/ commit = "write")

\* the file not read
LoadNothing(d) == Fresh

Load(d) == ImageOn(d)

\* gen68k_sram_open, with a path or, for a movie, without one.
Start ==
  /\ ~up /\ up' = TRUE
  /\ path' \in BOOLEAN
  /\ sram' = IF path' THEN Load(disk) ELSE Fresh
  /\ UNCHANGED <<mapped, protected, dirty, commit, exiting, disk, gameVars, history>>

Init ==
  /\ up = FALSE /\ mapped = FALSE /\ protected = FALSE
  /\ sram = Fresh /\ dirty = FALSE /\ path = FALSE /\ commit = "none"
  /\ exiting = FALSE /\ disk = NoFile
  /\ game = "idle" /\ stored = 0 /\ saves = 0 /\ whole = 0 /\ torn = 0
  /\ cut = FALSE

Next == \/ MapToLoad \/ MapToSave \/ SaveByte \/ Unmap
        \/ CommitOpen \/ CommitWrite
        \/ Exit \/ Ended \/ Kill \/ Start

Spec == Init /\ [][Next]_vars

----------------------------------------------------------------------------
(* Properties. *)

\* Shape of the state: a game that is idle has the cartridge showing, and a
\* commit is under way only for bytes that are not on the file.
TypeOK ==
  /\ up \in BOOLEAN /\ mapped \in BOOLEAN /\ protected \in BOOLEAN
  /\ dirty \in BOOLEAN /\ path \in BOOLEAN /\ exiting \in BOOLEAN /\ cut \in BOOLEAN
  /\ sram \in Image /\ disk \in Image \union {NoFile, Empty}
  /\ commit \in {"none", "open", "write"} /\ game \in {"idle", "load", "save"}
  /\ stored \in 0..Cells /\ saves \in 0..MaxSaves /\ whole \in 0..saves /\ torn \in 0..2
  /\ mapped = (game # "idle")
  /\ commit # "none" => dirty /\ path
  /\ ~up => ~dirty /\ commit = "none"

\* sram_dirty tells the truth: while it is clear and no commit is under way the
\* file holds what the battery does, so there is nothing a commit would lose by
\* writing nothing.
CleanIsOnDisk ==
  up /\ path /\ commit = "none" /\ ~dirty => ImageOn(disk) = sram

\* There is a copy of the last save on the file, or of a later one.
Loadable == \E c \in Copies : Held(ImageOn(disk), c) >= whole

\* A save whose commit returned can be loaded from then on: from the file while
\* no commit is writing it, after any kill that did not cut one short, and after
\* an exit in the middle of a later save, which leaves one copy torn.  Not after
\* two of those, which the cartridge's own battery would not survive either.
SavedIsKept == commit # "write" /\ torn < 2 /\ ~cut => Loadable

\* "Writing it there rather than only at exit is what makes a save survive a
\* kill": a save whose commit returned is on the file of a program that has been
\* killed, whenever that was.
SurvivesKill == ~up /\ torn < 2 => Loadable
=============================================================================

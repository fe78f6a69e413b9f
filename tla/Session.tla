-------------------------------- MODULE Session --------------------------------
(***************************************************************************)
(* A session's input, frame by frame (src/src/mars_main.c): what the pads  *)
(* hold is composed of the keyboard, --hold, --press and a movie that      *)
(* --movie-offset and --movie-resync align, recorded a line a frame, and   *)
(* played back later as a movie at offset 0.                               *)
(*                                                                         *)
(* One port; a mask is the set of buttons it names.  The pulse of --press  *)
(* is scaled from 15 frames in 45 to 1 in SPulse.                          *)
(***************************************************************************)
EXTENDS Integers, Sequences, SequencesExt, FiniteSetsExt

CONSTANTS
    SButtons,  \* buttons
    SFrames,   \* bound on a live session and on a movie
    SSyncs,    \* re-sync points that may be asked for, records [ours, movie]
    SMaxSyncs, \* MOVIE_SYNCS, how many a command line may ask for
    SOffsets,  \* offsets that may be asked for
    SPulse     \* period of the pulse

ASSUME SessionAssumption ==
    /\ SFrames \in Nat /\ SPulse \in Nat \ {0} /\ SMaxSyncs \in Nat
    /\ SSyncs \subseteq [ours : Nat, movie : Nat] /\ SOffsets \subseteq Int

VARIABLES
    job,       \* "none", "live" or "headless", "killed", "replay" or "end"
    opt,       \* the command line: hold, hold_from, press, press_until, offset, syncs
    movie,     \* the movie's frames, a mask each
    played,    \* movie_played
    frames,    \* frames run
    saw,       \* history: what the engine read in the recorded session
    log        \* the file --record writes, flushed a line at a time

sessionvars == <<job, opt, movie, played, frames, saw, log>>

Masks   == SUBSET SButtons
Movies  == UNION {[1..n -> Masks] : n \in 0..SFrames}
NoSyncs == <<>>
Plain   == [hold |-> {}, hold_from |-> 0, press |-> {}, press_until |-> 0,
            offset |-> 0, syncs |-> NoSyncs]

SessionInit ==
    /\ job = "none" /\ opt = Plain
    /\ movie = <<>> /\ played = 0 /\ frames = 0
    /\ saw = <<>> /\ log = <<>>

-----------------------------------------------------------------------------
(* movie_frame_for: of the syncs that match, the one given last wins.       *)
MovieFrame(f) ==
    LET due == {i \in DOMAIN opt.syncs : f >= opt.syncs[i].ours}
        s   == IF due = {} THEN [ours |-> opt.offset, movie |-> 0] ELSE opt.syncs[Max(due)]
    IN s.movie + (f - s.ours)

MovieMask(f) ==
    LET mf == MovieFrame(f) IN IF mf \in 0..(Len(movie) - 1) THEN movie[mf + 1] ELSE {}

Pulsing(f) == (opt.press_until = 0 \/ f < opt.press_until) /\ f % SPulse = 0

(* What gen.pad_buttons gets: every source at once. *)
Composed(f, keys) ==
    keys \cup (IF f >= opt.hold_from THEN opt.hold ELSE {})
         \cup (IF Pulsing(f) THEN opt.press ELSE {})
         \cup MovieMask(f)

\* the length without the offset
NeedUnshifted == Len(movie)

(* --frames movie: its length under the offset and under every sync. *)
Need ==
    Max({Len(movie) + Max({opt.offset, 0})}
        \cup {s.ours + (Len(movie) - s.movie) : s \in Range(opt.syncs)})

\* the line written from the movie, before the sources are composed
LoggedEarly(f, keys) == MovieMask(f)

(* record_frame, after the sources are composed. *)
Logged(f, keys) == Composed(f, keys)

-----------------------------------------------------------------------------
(* The command line, movie_add_sync, which refuses a re-sync past the last  *)
(* it has room for, and movie_open, which refuses an empty movie; a re-sync *)
(* names a frame the movie has.                                             *)
Ask ==
    /\ job = "none"
    /\ \E m \in Movies, o \in SOffsets, s \in UNION {[1..n -> SSyncs] : n \in 0..SMaxSyncs},
          h \in Masks, p \in Masks, from \in 0..1, j \in {"live", "headless"} :
         /\ j = "headless" => Len(m) > 0
         /\ Len(m) = 0 => o = 0 /\ s = NoSyncs
         /\ \A x \in Range(s) : x.movie < Len(m)
         /\ -o < Len(m) \/ o = 0
         /\ movie' = m
         /\ opt' = [hold |-> h, hold_from |-> from, press |-> p, press_until |-> from,
                    offset |-> o, syncs |-> s]
         /\ job' = j
    /\ UNCHANGED <<played, frames, saw, log>>

(* One frame of the loop in main, as far as its input. *)
Frame(keys) ==
    /\ movie' = movie /\ opt' = opt
    /\ played' = IF MovieFrame(frames) \in 0..(Len(movie) - 1)
                 THEN MovieFrame(frames) + 1 ELSE played
    /\ frames' = frames + 1

LiveFrame ==
    /\ job = "live" /\ frames < SFrames
    /\ \E keys \in Masks :
         /\ Frame(keys)
         /\ saw' = Append(saw, Composed(frames, keys))
         /\ log' = Append(log, Logged(frames, keys))
    /\ UNCHANGED job

(* A headless run of the movie's length; read_pad is not asked. *)
HeadlessFrame ==
    /\ job = "headless" /\ frames < Need
    /\ Frame({})
    /\ UNCHANGED <<job, saw, log>>

HeadlessEnd ==
    /\ job = "headless" /\ frames >= Need
    /\ job' = "end"
    /\ UNCHANGED <<opt, movie, played, frames, saw, log>>

(* A crash, a ^C or a clean exit: every line is on the file already. *)
Stop ==
    /\ job = "live" /\ frames > 0
    /\ job' = "killed"
    /\ UNCHANGED <<opt, movie, played, frames, saw, log>>

(* The recording opened as a movie, with no other source. *)
Reopen ==
    /\ job = "killed"
    /\ job' = "replay" /\ opt' = Plain /\ movie' = log /\ played' = 0 /\ frames' = 0
    /\ UNCHANGED <<saw, log>>

ReplayFrame ==
    /\ job = "replay" /\ frames < Need
    /\ Frame({})
    /\ UNCHANGED <<job, saw, log>>

SessionNext ==
    Ask \/ LiveFrame \/ HeadlessFrame \/ HeadlessEnd \/ Stop \/ Reopen \/ ReplayFrame

SessionSpec == SessionInit /\ [][SessionNext]_sessionvars

-----------------------------------------------------------------------------
(* A recording replays plain: whatever sources and alignments the session   *)
(* was composed of and wherever it was killed, the replay feeds the engine, *)
(* frame for frame, what it read then, and runs as long (mars_main.c, the   *)
(* comment above record_open).                                              *)
ReplaysPlain ==
    job = "replay" => Need = Len(saw) /\ \A f \in 0..(Len(saw) - 1) : Composed(f, {}) = saw[f + 1]

(* A run of --frames movie lasts until the movie's last frame has played,   *)
(* under a delay and under any re-syncs, one that rewinds among them        *)
(* (mars_main.c, headless_frames).                                          *)
PlaysOut == job = "end" => played = Len(movie)
=============================================================================

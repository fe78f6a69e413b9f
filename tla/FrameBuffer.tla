------------------------------ MODULE FrameBuffer ------------------------------
(***************************************************************************)
(* The 32X's two frame buffers (src/src/mem32x.c, mars.h): the one FS does *)
(* not select is drawn into, by autofills that wrap in a block of words,   *)
(* by stores to the plain image and by stores to the overwrite image,      *)
(* which drop zero bytes; the other is shown.                              *)
(*                                                                         *)
(* The program is the master's: the line table, fills that together cover  *)
(* the picture, polling FEN after each, sprites over them, and the swap in *)
(* the next vertical blank.  Block 0 is the line table, and a block is of  *)
(* FWords words, scaled from 256.                                          *)
(***************************************************************************)
EXTENDS Integers

CONSTANTS
    FBlocks,  \* blocks of a buffer
    FWords,   \* words of a block
    FCounts,  \* counts the program writes to the fill length register
    FShare,   \* SH-2 cycles of a hand-over
    FSprites, \* bound on the sprites of a frame
    FFrames   \* bound on the frames

ASSUME FbAssumption ==
    /\ FBlocks \in Nat \ {0, 1} /\ FWords \in Nat \ {0} /\ FShare \in Nat \ {0}
    /\ FCounts \subseteq Nat /\ FSprites \in Nat /\ FFrames \in Nat

VARIABLES
    fb,       \* the two buffers, a pair of bytes to a word
    fbctl,    \* FS
    fill,     \* the fill's length and start registers
    fen_left, \* SH-2 cycles until FEN drops
    fplace,   \* the program's place
    sprites,  \* sprites of this frame
    picture,  \* history: what the program has painted this frame
    shown,    \* history: the last frame it swapped in
    fframe    \* frames swapped

fbvars == <<fb, fbctl, fill, fen_left, fplace, sprites, picture, shown, fframe>>

Cells  == 0..(FBlocks * FWords - 1)
Table  == 0..(FWords - 1)
Nil    == <<0, 0>>

FbInit ==
    /\ fb = [b \in 0..1 |-> [c \in Cells |-> Nil]]
    /\ fbctl = 0 /\ fill = [len |-> 0, start |-> 0] /\ fen_left = 0
    /\ fplace = "table" /\ sprites = 0
    /\ picture = [c \in {} |-> Nil] /\ shown = fb[0] /\ fframe = 0

-----------------------------------------------------------------------------
(* mars_fb_draw. *)
Draw == 1 - fbctl

Store(c, bytes) == fb' = [fb EXCEPT ![Draw][c] = bytes]

(* A store to the overwrite image, by a word or by a byte, from either side. *)
Over(old, bytes) ==
    <<IF bytes[1] = 0 THEN old[1] ELSE bytes[1], IF bytes[2] = 0 THEN old[2] ELSE bytes[2]>>

\* the address counted on past the block's end
NextCounted(a) == (a + 1) % (FBlocks * FWords)

(* autofill's increment, in the low eight bits only. *)
NextInBlock(a) == (a - (a % FWords)) + ((a + 1) % FWords)

(* autofill: the words a fill of n + 1 touches. *)
Filled(start, n) ==
    LET at[i \in 0..n] == IF i = 0 THEN start ELSE NextInBlock(at[i - 1])
    IN {at[i] : i \in 0..n}

(* The length register is eight bits wide. *)
Count(v) == v % FWords

Paint(p, cells, bytes) ==
    [c \in DOMAIN p \cup cells |-> IF c \in cells THEN bytes ELSE p[c]]

-----------------------------------------------------------------------------
(* What a frame paints: its own number, so that an old frame's would show.  *)
Colour == <<(fframe % 3) + 1, (fframe % 3) + 1>>

WriteTable ==
    /\ fplace = "table" /\ fframe < FFrames
    /\ fb' = [fb EXCEPT ![Draw] = [c \in Cells |-> IF c \in Table THEN Colour ELSE @[c]]]
    /\ picture' = Paint(picture, Table, Colour)
    /\ fplace' = "draw"
    /\ UNCHANGED <<fbctl, fill, fen_left, sprites, shown, fframe>>

SetFill ==
    /\ fplace = "draw" /\ DOMAIN picture # Cells
    /\ \E v \in FCounts, s \in Cells \ Table : fill' = [len |-> Count(v), start |-> s]
    /\ fplace' = "fill"
    /\ UNCHANGED <<fb, fbctl, fen_left, sprites, picture, shown, fframe>>

(* The data register's write is what fills, and what FEN is held for. *)
Autofill ==
    /\ fplace = "fill"
    /\ fb' = [fb EXCEPT ![Draw] =
                [c \in Cells |-> IF c \in Filled(fill.start, fill.len) THEN Colour ELSE @[c]]]
    /\ fen_left' = (fill.len + 1) * 2
    /\ picture' = LET block == fill.start \div FWords IN
                  Paint(picture, {c \in Cells : /\ c \div FWords = block
                                                /\ (c - fill.start) % FWords <= fill.len}, Colour)
    /\ fplace' = "poll"
    /\ UNCHANGED <<fbctl, fill, sprites, shown, fframe>>

(* The hand-overs that pass while the program polls. *)
Poll ==
    /\ fplace = "poll"
    /\ fen_left' = fen_left - (IF fen_left < FShare THEN fen_left ELSE FShare)
    /\ fplace' = IF fen_left' = 0 THEN "draw" ELSE "poll"
    /\ UNCHANGED <<fb, fbctl, fill, sprites, picture, shown, fframe>>

Sprite(c, bytes) ==
    /\ fplace = "draw" /\ DOMAIN picture = Cells
    /\ sprites < FSprites
    /\ Store(c, Over(fb[Draw][c], bytes))
    /\ picture' = [picture EXCEPT ![c] = Over(@, bytes)]
    /\ sprites' = sprites + 1
    /\ UNCHANGED <<fbctl, fill, fen_left, fplace, shown, fframe>>

(* FBCR takes effect at its write. *)
Swap ==
    /\ fplace = "draw" /\ DOMAIN picture = Cells
    /\ fbctl' = 1 - fbctl
    /\ shown' = picture /\ picture' = [c \in {} |-> Nil]
    /\ fplace' = "table" /\ sprites' = 0
    /\ fframe' = fframe + 1
    /\ UNCHANGED <<fb, fill, fen_left>>

FbNext ==
    \/ WriteTable \/ SetFill \/ Autofill \/ Poll \/ Swap
    \/ \E c \in Cells \ Table, bytes \in {<<0, 4>>, <<4, 0>>, <<4, 4>>} : Sprite(c, bytes)

FbSpec == FbInit /\ [][FbNext]_fbvars

-----------------------------------------------------------------------------
(* What is shown is, word for word, the last frame the program finished,    *)
(* whatever of the next one is drawn by then: a fill touches its own block  *)
(* only and leaves the line table alone, also when it starts inside the     *)
(* block and its count is wider than the register (mem32x.c, autofill).     *)
ShowsWhole == fb[fbctl] = shown
=============================================================================

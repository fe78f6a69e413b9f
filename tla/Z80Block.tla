------------------------------- MODULE Z80Block -------------------------------
(***************************************************************************)
(* The Z80's repeating block instructions (src/src/z80.c, ldi_ldd,         *)
(* cpi_cpd, prefix_ed): each repetition is an instruction of its own that  *)
(* backs the program counter over the two bytes of its opcode, so that a   *)
(* slice may end and an interrupt be taken in the middle of one.           *)
(*                                                                         *)
(* Addresses and counts wrap at BlockSize, scaled from 65,536.  The        *)
(* handler exchanges the registers, uses them, and exchanges them back.    *)
(***************************************************************************)
EXTENDS Integers

CONSTANTS
    BlockSize,   \* bytes of memory, and the modulus of the registers
    BlockIrqs    \* bound on the interrupts taken

ASSUME BlockAssumption == BlockSize \in Nat \ {0, 1} /\ BlockIrqs \in Nat

VARIABLES
    bytes,   \* memory
    rr,      \* hl, de, bc
    rr2,     \* the other set, hl', de', bc'
    bpc,     \* the program counter
    bret,    \* the return address, while the handler runs
    zflag,   \* Z: cpir's byte was found
    birqs,   \* interrupts taken
    asked    \* history: the instruction with the state it began in, a set of at most one

blockvars == <<bytes, rr, rr2, bpc, bret, zflag, birqs, asked>>

Address == 0..(BlockSize - 1)
Wrap(n) == n % BlockSize

\* The bytes of the program: the opcode at 10 and 11, what follows it at 12.
At    == 10
Past  == 12
Entry == 20

Start == [hl |-> 0, de |-> 0, bc |-> 0]

BlockInit ==
    /\ bytes = [a \in Address |-> a]
    /\ rr = Start /\ rr2 = Start
    /\ bpc = Past /\ bret = 0 /\ zflag = FALSE /\ birqs = 0
    /\ asked = {}

-----------------------------------------------------------------------------
(* The program: an instruction with its registers. *)
Begin(op, inc, hl, de, bc) ==
    /\ asked = {}
    /\ rr' = [hl |-> hl, de |-> de, bc |-> bc]
    /\ asked' = {[op |-> op, inc |-> inc, r |-> rr', mem |-> bytes]}
    /\ bpc' = At
    /\ UNCHANGED <<bytes, rr2, bret, zflag, birqs>>

\* one byte too few
AgainBefore(bc) == bc > 1

(* Whether a repeating form goes round again, by BC as it has left it. *)
Again(bc) == bc # 0

(* The program counter after the two bytes have been fetched. *)
After(stop) == IF Again(rr'.bc) /\ ~stop THEN (bpc + 2) - 2 ELSE bpc + 2

Ldxr(i) ==
    /\ bpc = At /\ i.op = "ld"
    /\ bytes' = [bytes EXCEPT ![rr.de] = bytes[rr.hl]]
    /\ rr' = [hl |-> Wrap(rr.hl + i.inc), de |-> Wrap(rr.de + i.inc), bc |-> Wrap(rr.bc - 1)]
    /\ bpc' = After(FALSE)
    /\ UNCHANGED <<rr2, bret, zflag, birqs, asked>>

(* A is the constant 1, which the memory has in one place. *)
Cpxr(i) ==
    /\ bpc = At /\ i.op = "cp"
    /\ zflag' = (bytes[rr.hl] = 1)
    /\ rr' = [rr EXCEPT !.hl = Wrap(@ + i.inc), !.bc = Wrap(@ - 1)]
    /\ bpc' = After(zflag')
    /\ UNCHANGED <<bytes, rr2, bret, birqs, asked>>

(* take_irq between two repetitions. *)
BlockIrq ==
    /\ bpc = At /\ birqs < BlockIrqs
    /\ bret' = bpc /\ bpc' = Entry /\ birqs' = birqs + 1
    /\ UNCHANGED <<bytes, rr, rr2, zflag, asked>>

(* exx, the handler's own use of the registers, exx and ret. *)
Exchange ==
    /\ bpc \in {Entry, Entry + 2}
    /\ rr' = rr2 /\ rr2' = rr
    /\ bpc' = bpc + 1
    /\ UNCHANGED <<bytes, bret, zflag, birqs, asked>>

HandlerWork ==
    /\ bpc = Entry + 1
    /\ rr' = [rr EXCEPT !.hl = Wrap(@ + 1), !.bc = Wrap(@ - 1)]
    /\ bpc' = bpc + 1
    /\ UNCHANGED <<bytes, rr2, bret, zflag, birqs, asked>>

HandlerRet ==
    /\ bpc = Entry + 3
    /\ bpc' = bret /\ bret' = 0
    /\ UNCHANGED <<bytes, rr, rr2, zflag, birqs, asked>>

BlockNext ==
    \/ \E op \in {"ld", "cp"}, inc \in {-1, 1}, hl, de, bc \in Address : Begin(op, inc, hl, de, bc)
    \/ \E i \in asked : Ldxr(i) \/ Cpxr(i)
    \/ BlockIrq \/ Exchange \/ HandlerWork \/ HandlerRet

BlockSpec == BlockInit /\ [][BlockNext]_blockvars

-----------------------------------------------------------------------------
(* The count a repeating instruction begins with: 0 goes all the way round. *)
Times(i) == IF i.r.bc = 0 THEN BlockSize ELSE i.r.bc

(* Byte by byte, each read seeing the stores before it. *)
Copied(i) ==
    LET at[k \in 0..Times(i)] ==
          IF k = 0 THEN i.mem
          ELSE [at[k - 1] EXCEPT ![Wrap(i.r.de + (k - 1) * i.inc)] =
                                    at[k - 1][Wrap(i.r.hl + (k - 1) * i.inc)]]
    IN at[Times(i)]

(* The repetitions a search makes. *)
Looked(i) ==
    LET hits == {k \in 1..Times(i) : i.mem[Wrap(i.r.hl + (k - 1) * i.inc)] = 1}
    IN IF hits = {} THEN Times(i) ELSE CHOOSE k \in hits : \A h \in hits : k <= h

(* A block instruction does its whole count, or searches to the first       *)
(* match, wherever interrupts fall among its repetitions: the memory, the   *)
(* pointers and the count are those of the repetitions one after another    *)
(* (z80.c, prefix_ed's repeating forms).                                    *)
RunsToItsEnd ==
    \A i \in asked : bpc = Past =>
        LET n == IF i.op = "ld" THEN Times(i) ELSE Looked(i) IN
        /\ bytes = IF i.op = "ld" THEN Copied(i) ELSE i.mem
        /\ rr = [hl |-> Wrap(i.r.hl + n * i.inc), bc |-> Wrap(i.r.bc - n),
                 de |-> IF i.op = "ld" THEN Wrap(i.r.de + n * i.inc) ELSE i.r.de]
        /\ i.op = "cp" => zflag = (\E a \in {Wrap(i.r.hl + (n - 1) * i.inc)} : i.mem[a] = 1)
=============================================================================

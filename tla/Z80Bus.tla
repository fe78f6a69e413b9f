-------------------------------- MODULE Z80Bus --------------------------------
(***************************************************************************)
(* The Z80 and the 68000 that loads it: the bus request and the reset line *)
(* of src/src/genz80.c, the run loop of src/src/z80.c with its interrupt   *)
(* line and EI's hold, and the slices of src/src/mars_main.c.              *)
(*                                                                         *)
(* The 68000 uploads twice, as the comment in genz80.c has it: a stub that *)
(* runs with interrupts off, then the real driver, each into two halves of *)
(* RAM, and after that it writes sound requests under the bus request.  An *)
(* instruction is what it does to the interrupt state; all else is "work". *)
(***************************************************************************)
EXTENDS Integers, Sequences

CONSTANTS
    ZSlice,   \* most instructions in a slice
    ZFrames   \* bound on the vertical interrupts

ASSUME Z80Assumption == ZSlice \in Nat \ {0} /\ ZFrames \in Nat

VARIABLES
    busreq, reset_held, \* z80_busreq and z80_reset_held
    ram,      \* which program each half of z80_ram is of: 0 none, 1 stub, 2 driver
    pc68,     \* the 68000's place in Uploads
    cpu,      \* pc, iff1, ei_hold and irq of the core
    stack,    \* return addresses
    fuel,     \* instructions left in the slice
    born,     \* history: what ram held at the last reset
    zframe    \* vertical interrupts raised

z80vars == <<busreq, reset_held, ram, pc68, cpu, stack, fuel, born, zframe>>

Half == 1..2

(* The 68000's writes in order; the last two, a sound request, go on for ever. *)
Write(op) == [op |-> op, v |-> 0, half |-> 0]
CopyOf(v, half) == [op |-> "copy", v |-> v, half |-> half]

Uploads ==
    << Write("request"), Write("release"),
       CopyOf(1, 1), CopyOf(1, 2), Write("hold"), Write("drop"), Write("release"),
       Write("request"),
       CopyOf(2, 1), CopyOf(2, 2), Write("hold"), Write("drop"), Write("release"),
       Write("request"), Write("drop") >>

Stub    == <<"di", "work", "jump">>
Driver  == <<"di", "work", "ei", "work", "jump">>
Handler == <<"work", "ei", "ret">>

Vector == 10   \* 0x0038

Fetch(a) == IF a > Vector THEN Handler[a - Vector]
            ELSE IF ram[1] = 2 THEN Driver[a] ELSE IF ram[1] = 1 THEN Stub[a] ELSE "empty"

(* z80_reset clears the whole core, its line and its hold with it. *)
Reset == [pc |-> 1, iff1 |-> FALSE, ei_hold |-> FALSE, irq |-> FALSE]

Z80Init ==
    /\ busreq = TRUE /\ reset_held = TRUE
    /\ ram = [h \in Half |-> 0]
    /\ pc68 = 1
    /\ cpu = Reset
    /\ stack = <<>> /\ fuel = 0
    /\ born = [h \in Half |-> 0]
    /\ zframe = 0

-----------------------------------------------------------------------------
(* The 68000's writes, between two slices. *)

Advance == pc68' = IF pc68 = Len(Uploads) THEN pc68 - 1 ELSE pc68 + 1

Doing(op) == fuel = 0 /\ Uploads[pc68].op = op /\ Advance

Request ==
    /\ Doing("request")
    /\ busreq' = TRUE
    /\ UNCHANGED <<reset_held, ram, cpu, stack, fuel, born, zframe>>

Drop ==
    /\ Doing("drop")
    /\ busreq' = FALSE
    /\ UNCHANGED <<reset_held, ram, cpu, stack, fuel, born, zframe>>

Copy ==
    /\ Doing("copy")
    /\ ram' = [ram EXCEPT ![Uploads[pc68].half] = Uploads[pc68].v]
    /\ UNCHANGED <<busreq, reset_held, cpu, stack, fuel, born, zframe>>

HoldReset ==
    /\ Doing("hold")
    /\ reset_held' = TRUE
    /\ UNCHANGED <<busreq, ram, cpu, stack, fuel, born, zframe>>

(* Letting go of a reset that was held is what resets the core. *)
ReleaseReset ==
    /\ Doing("release")
    /\ reset_held' = FALSE
    /\ cpu' = IF reset_held THEN Reset ELSE cpu
    /\ stack' = IF reset_held THEN <<>> ELSE stack
    /\ born' = IF reset_held THEN ram ELSE born
    /\ UNCHANGED <<busreq, ram, fuel, zframe>>

M68kWrites == Request \/ Drop \/ Copy \/ HoldReset \/ ReleaseReset

-----------------------------------------------------------------------------
(* The frame loop: the line, and a slice. *)

LineUp ==
    /\ fuel = 0 /\ ~cpu.irq /\ zframe < ZFrames
    /\ cpu' = [cpu EXCEPT !.irq = TRUE]
    /\ zframe' = zframe + 1
    /\ UNCHANGED <<busreq, reset_held, ram, pc68, stack, fuel, born>>

LineOver ==
    /\ fuel = 0 /\ cpu.irq
    /\ cpu' = [cpu EXCEPT !.irq = FALSE]
    /\ UNCHANGED <<busreq, reset_held, ram, pc68, stack, fuel, born, zframe>>

\* the reset line not looked at
RunnableInReset == ~busreq

(* genz80_runnable. *)
Runnable == ~busreq /\ ~reset_held

\* the hold lost where a slice begins
HoldForgotten == FALSE

(* z80_run begins with the hold the last slice left. *)
HoldOver == cpu.ei_hold

Slice ==
    /\ fuel = 0 /\ Runnable
    /\ fuel' \in 1..ZSlice
    /\ cpu' = [cpu EXCEPT !.ei_hold = HoldOver]
    /\ UNCHANGED <<busreq, reset_held, ram, pc68, stack, born, zframe>>

Accepts == cpu.irq /\ cpu.iff1 /\ ~cpu.ei_hold

TakeIrq ==
    /\ fuel > 0 /\ Accepts
    /\ stack' = Append(stack, cpu.pc)
    /\ cpu' = [cpu EXCEPT !.pc = Vector + 1, !.iff1 = FALSE, !.ei_hold = FALSE]
    /\ fuel' = fuel - 1
    /\ UNCHANGED <<busreq, reset_held, ram, pc68, born, zframe>>

(* One instruction. *)
Execute ==
    /\ fuel > 0 /\ ~Accepts
    /\ LET op == Fetch(cpu.pc) IN
       /\ cpu' = [cpu EXCEPT
             !.pc = CASE op = "ret"  -> stack[Len(stack)]
                      [] op = "jump" -> cpu.pc - 1
                      [] op = "empty" -> cpu.pc
                      [] OTHER       -> cpu.pc + 1,
             !.iff1 = IF op = "di" THEN FALSE ELSE IF op = "ei" THEN TRUE ELSE @,
             !.ei_hold = (op = "ei")]
       /\ stack' = IF op = "ret" THEN SubSeq(stack, 1, Len(stack) - 1) ELSE stack
    /\ fuel' = fuel - 1
    /\ UNCHANGED <<busreq, reset_held, ram, pc68, born, zframe>>

Z80Next == M68kWrites \/ LineUp \/ LineOver \/ Slice \/ TakeIrq \/ Execute

Z80Spec == Z80Init /\ [][Z80Next]_z80vars

-----------------------------------------------------------------------------
(* `ei / ret` at the end of a handler is safe: the interrupt, still up from *)
(* the same line, never enters the handler before the return is done, also  *)
(* where the slice ends between the two (z80.c, z80_run).                   *)
SafeReturn == Len(stack) <= 1

(* The Z80 executes only a program that is in RAM whole and that it was     *)
(* reset into, whatever slices fall between the 68000's writes (genz80.c).  *)
NeverHalfLoaded == fuel > 0 => ram[1] = ram[2] /\ ram = born /\ ram[1] # 0
=============================================================================

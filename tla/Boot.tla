--------------------------------- MODULE Boot ---------------------------------
(***************************************************************************)
(* The boot rendezvous at the communication registers: the stand-in for    *)
(* the adapter's boot ROM in src/src/gen68k.c, which posts each answer at  *)
(* the 68000's own read after the 68000 has cleared its register, and the  *)
(* hand-over of src/src/mem32x.c that starts the two SH-2s.                *)
(*                                                                         *)
(* The three programs are the cartridge's, modelled from the comments that *)
(* describe them.  The 68000 clears comm 4 and then comm 0 to 3, waits for *)
(* the checksum, for M_OK and for S_OK, zeroes comm 0 and 1, waits for the *)
(* master to say it is ready and posts commands.  The master waits for     *)
(* comm 0 and 1 to be zero, answers, zeroes comm 0 at the head of its loop *)
(* and serves commands.  The slave uses comm 4 for traffic of its own.     *)
(***************************************************************************)
EXTENDS Integers

CONSTANT MaxCommands  \* bound on the commands posted in a behaviour

ASSUME BootAssumption == MaxCommands \in Nat

VARIABLES
    comm,      \* mars.comm, registers 0 to 4
    by,        \* history: who wrote each register last
    bios,      \* the four flags of gen68k.c
    released,  \* done of mars_bios_handover: both SH-2s have an address
    pc68k,     \* the 68000's place in its program
    clearing,  \* the next of comm 0 to 3 to clear
    master,    \* the master's place in its program
    commands,  \* commands posted
    hasty      \* history: the master took its answer back before it was read

bootvars == <<comm, by, bios, released, pc68k, clearing, master, commands, hasty>>

Comm   == 0..4
Words  == {"zero", "sum", "M_OK", "S_OK", "ready", "cmd", "pwm"}
Actors == {"reset", "m68k", "bios", "sh2"}

BootInit ==
    /\ comm = [i \in Comm |-> "zero"]
    /\ by = [i \in Comm |-> "reset"]
    /\ bios = [cleared_sum |-> FALSE, cleared_ok |-> FALSE,
               sum_done |-> FALSE, ok_done |-> FALSE]
    /\ released = FALSE
    /\ pc68k = "clear4" /\ clearing = 0
    /\ master = "held"
    /\ commands = 0
    /\ hasty = FALSE

-----------------------------------------------------------------------------
(* The 68000's side of the registers. *)

(* bios_comm_write: a zero written is what arms an answer. *)
ArmedBy(regs, v, c) ==
    [bios EXCEPT
       !.cleared_sum = @ \/ (v = "zero" /\ 4 \in regs),
       !.cleared_ok  = @ \/ (v = "zero" /\ \E i \in regs : i < 4
                                       /\ \A k \in 0..3 : c[k] = "zero")]

(* A word written to one register, or a long word to two. *)
WriteComm(regs, v) ==
    /\ comm' = [i \in Comm |-> IF i \in regs THEN v ELSE comm[i]]
    /\ by' = [i \in Comm |-> IF i \in regs THEN "m68k" ELSE by[i]]
    /\ bios' = ArmedBy(regs, v, comm')
    /\ UNCHANGED hasty

\* the checksum posted again at every read
SumDueAgain(i) == i = 4 /\ bios.cleared_sum

SumDue(i) == i = 4 /\ bios.cleared_sum /\ ~bios.sum_done

\* the ready words posted to a 68000 that has not cleared its registers
OkDueUncleared(i) == i < 4 /\ ~bios.ok_done

OkDue(i)  == i < 4 /\ bios.cleared_ok /\ ~bios.ok_done

(* mars_bios_handover, called where the checksum is posted. *)
Handover(i) == released \/ SumDue(i)

(* bios_comm_read and the read it precedes: what is due is posted first. *)
ReadComm(i) ==
    /\ comm' = [k \in Comm |->
          IF SumDue(i) /\ k = 4 THEN "sum"
          ELSE IF OkDue(i) /\ k < 2 THEN "M_OK"
          ELSE IF OkDue(i) /\ k < 4 THEN "S_OK"
          ELSE comm[k]]
    /\ by' = [k \in Comm |->
          IF (SumDue(i) /\ k = 4) \/ (OkDue(i) /\ k < 4) THEN "bios" ELSE by[k]]
    /\ bios' = [bios EXCEPT !.sum_done = @ \/ SumDue(i), !.ok_done = @ \/ OkDue(i)]
    /\ released' = Handover(i)
    /\ master' = IF Handover(i) /\ master = "held" THEN "boot" ELSE master
    /\ UNCHANGED hasty

Clear4 ==
    /\ pc68k = "clear4"
    /\ WriteComm({4}, "zero")
    /\ pc68k' = "clear"
    /\ UNCHANGED <<released, clearing, master, commands>>

ClearNext ==
    /\ pc68k = "clear"
    /\ WriteComm({clearing}, "zero")
    /\ clearing' = clearing + 1
    /\ pc68k' = IF clearing = 3 THEN "sum" ELSE "clear"
    /\ UNCHANGED <<released, master, commands>>

(* A read of register i in a loop that ends on the word w. *)
Await(i, w, here, there) ==
    /\ pc68k = here
    /\ ReadComm(i)
    /\ pc68k' = IF comm'[i] = w THEN there ELSE here
    /\ UNCHANGED <<clearing, commands>>

AwaitSum   == Await(4, "sum", "sum", "mok")
AwaitMOk   == Await(0, "M_OK", "mok", "sok")
AwaitSOk   == Await(2, "S_OK", "sok", "zero")
AwaitReady == Await(0, "ready", "ready", "go")
AwaitDone  == Await(0, "zero", "wait", "go")

ZeroComm0 ==
    /\ pc68k = "zero"
    /\ WriteComm({0, 1}, "zero")
    /\ pc68k' = "ready"
    /\ UNCHANGED <<released, clearing, master, commands>>

(* mars_run_command only counts: the master finds the word on its own turn. *)
PostCommand ==
    /\ pc68k = "go" /\ comm[0] = "zero"
    /\ commands < MaxCommands
    /\ WriteComm({0}, "cmd")
    /\ pc68k' = "wait"
    /\ commands' = commands + 1
    /\ UNCHANGED <<released, clearing, master>>

(* Any other read: the handler that looks whether comm 0 is busy, and       *)
(* gen_write_8, which reads the word it writes half of.  None comes between *)
(* the stores that clear comm 0 to 3: the first of them arms the answer,    *)
(* the others being zero from reset, and the rest would wipe it out.        *)
Peek(i) ==
    /\ pc68k # "clear"
    /\ i = 4 => pc68k \notin {"clear4", "sum"}  \* its first read is the wait
    /\ ReadComm(i)
    /\ UNCHANGED <<pc68k, clearing, commands>>

(* The sound relayed to comm 4 every frame, an empty slot among it. *)
Relay(v) ==
    /\ pc68k \in {"go", "wait"}
    /\ WriteComm({4}, v)
    /\ UNCHANGED <<released, pc68k, clearing, master, commands>>

M68k == Clear4 \/ ClearNext \/ AwaitSum \/ AwaitMOk \/ AwaitSOk \/ ZeroComm0
        \/ AwaitReady \/ PostCommand \/ AwaitDone

-----------------------------------------------------------------------------
(* The SH-2s' side: plain storage, which tells the stand-in nothing. *)

StoreSh2(i, v) ==
    /\ comm' = [comm EXCEPT ![i] = v]
    /\ by' = [by EXCEPT ![i] = "sh2"]
    /\ UNCHANGED <<bios, released, pc68k, clearing, commands>>

(* The wait for comm 0 and 1, which nothing but the two registers ends: a   *)
(* master that is there before M_OK is posted finds the 68000's own zeroes. *)
MasterArrives ==
    /\ master = "boot" /\ comm[0] = "zero" /\ comm[1] = "zero"
    /\ StoreSh2(0, "ready")
    /\ master' = "ready"
    /\ UNCHANGED hasty

(* The head of its loop, frames of video set-up later in the cartridge; it  *)
(* looks at nothing, so the answer may still be unread.                     *)
MasterLoopHead ==
    /\ master = "ready"
    /\ StoreSh2(0, "zero")
    /\ master' = "loop"
    /\ hasty' = (hasty \/ (comm[0] = "ready" /\ pc68k \notin {"go", "wait"}))

MasterServes ==
    /\ master = "loop" /\ comm[0] = "cmd"
    /\ StoreSh2(0, "zero")
    /\ UNCHANGED <<master, hasty>>

Master == MasterArrives \/ MasterLoopHead \/ MasterServes

(* The slave's driver, 366 times a frame once the PWM timer runs. *)
SlaveTraffic ==
    /\ released
    /\ StoreSh2(4, "pwm")
    /\ UNCHANGED <<master, hasty>>

BootNext ==
    \/ M68k
    \/ \E i \in Comm : Peek(i)
    \/ \E v \in {"zero", "pwm"} : Relay(v)
    \/ Master
    \/ SlaveTraffic

(* Every hand-over gives the 68000 and the master a turn.                   *)
BootSpec == BootInit /\ [][BootNext]_bootvars /\ WF_bootvars(M68k) /\ WF_bootvars(Master)

-----------------------------------------------------------------------------
BootTypeOK ==
    /\ comm \in [Comm -> Words]
    /\ by \in [Comm -> Actors]
    /\ bios \in [cleared_sum : BOOLEAN, cleared_ok : BOOLEAN,
                 sum_done : BOOLEAN, ok_done : BOOLEAN]
    /\ released \in BOOLEAN
    /\ pc68k \in {"clear4", "clear", "sum", "mok", "sok", "zero", "ready", "go", "wait"}
    /\ clearing \in 0..4
    /\ master \in {"held", "boot", "ready", "loop"}
    /\ commands \in 0..MaxCommands
    /\ hasty \in BOOLEAN

Arrived == master \in {"ready", "loop"}

(* A word the stand-in posts comes before the program is running, never     *)
(* over the program's own traffic, and replaces the zero the 68000 wrote    *)
(* for it: at comm 4 whatever the slave's driver does, and at comm 0 to 3   *)
(* but for comm 0 under a master that has arrived already, whose word is    *)
(* lost (gen68k.c, bios_comm_read).                                         *)
TrafficKept ==
    [][\A i \in Comm : (comm'[i] # comm[i] /\ by'[i] = "bios") =>
          /\ pc68k \notin {"go", "wait"}
          /\ (by[i] = "m68k" /\ comm[i] = "zero") \/ (i = 0 /\ Arrived)]_bootvars

(* Where the cartridge's timing is the reference's, the master at its wait  *)
(* only after M_OK is posted and the 68000 never left waiting for an answer *)
(* already taken back, the boot gets through every rendezvous, the steps    *)
(* otherwise in any order, and every command posted after it is served.     *)
Rendezvous ==
    ([](Arrived => bios.ok_done) /\ [](pc68k = "ready" => ~hasty)) =>
        (<>(pc68k = "go") /\ (pc68k = "wait" ~> pc68k = "go"))

(* A master that is early at its wait costs nothing (the comment at the     *)
(* hand-over, gen68k.c, bios_comm_read): if it leaves its answer standing   *)
(* until the 68000 has read it, the boot ends all the same.                 *)
EarlyCostsNothing == []~hasty => <>(pc68k = "go")
=============================================================================

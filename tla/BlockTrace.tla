----------------------------- MODULE BlockTrace -----------------------------
(***************************************************************************)
(* The two recompiled SH-2s' dispatch loop (sh2_run, sh2_call, SH2_BLOCK)  *)
(* and the block trace it feeds (sh2_block, sh2_trace_flush), with the     *)
(* reader that the comparison tool decodes the file with (parse and the    *)
(* fold-back in tools/diffsh2.py).                                         *)
(*                                                                         *)
(* A slice runs blocks until its fuel is spent.  A block that finds the    *)
(* fuel spent parks itself, runs nothing and is entered again next slice.  *)
(* Every block that does run is traced, a run of the same block in the     *)
(* same state as one line and a count, until the CPU's budget of lines is  *)
(* used up.  The register file is abstracted to PR, the one register the   *)
(* loop itself reads.                                                      *)
(***************************************************************************)
EXTENDS Integers, Sequences, SequencesExt

CPUs == 0..1   \* the master is 0, the slave 1

CONSTANTS Blocks,   \* addresses with a recompiled block
          Holes,    \* addresses without one
          Length,   \* the instruction count of each block
          Links,    \* bound: the return addresses the programs keep in PR
          Parked,   \* address 0: nothing to go back to
          Nobody,   \* mars_running is NULL
          Survive,  \* --survive-missing
          MaxFuel,  \* bound on the credit a slice starts with
          Limit,    \* lines of trace each CPU may write
          MaxRan    \* bound on the blocks the two run, checked between slices

ASSUME BlockTraceAssumption ==
  /\ Length \in [Blocks -> Nat \ {0}]
  /\ MaxFuel \in Nat \ {0} /\ Limit \in Nat /\ MaxRan \in Nat
  /\ Survive \in BOOLEAN /\ Links \subseteq Blocks \union Holes
  /\ Parked \notin Blocks \union Holes /\ Nobody \notin CPUs

VARIABLES pc,         \* where each CPU goes on from
          pr,         \* each CPU's PR, standing for its registers
          running,    \* mars_running
          addr,       \* the address sh2_call is about to look up
          recovering, \* the last lookup failed and PR was tried
          fuel,       \* sh2_fuel
          armed,      \* trace_armed
          tracing,    \* sh2_trace_f is open
          file,       \* the lines written
          left,       \* sh2_trace_left
          run,        \* the open run of each CPU: run_open, _addr, _state, _n
          ran         \* history: the blocks each CPU ran while armed

cpuVars   == <<pc, pr, running, addr, recovering, fuel>>
writerVars == <<file, left, run>>
tracevars == <<cpuVars, armed, tracing, writerVars, ran>>

Targets == Blocks \union Holes \union {Parked}
Closed  == [open |-> FALSE, n |-> 0]

----------------------------------------------------------------------------
(* The file's writer. *)

Entry(c, a, r) == [cpu |-> c, kind |-> "entry", at |-> a, pr |-> r]
Omitted(c, n)  == [cpu |-> c, kind |-> "omitted", n |-> n]

SameRun(c, a, r) == run[c].open /\ run[c].at = a /\ run[c].pr = r

\* sh2_trace_flush has a count to write, and a line to write it on.
Counts(c) == run[c].open /\ run[c].n > 0 /\ left[c] > 0

\* What sh2_trace_flush leaves of the file, and of the budget.
Flushed(c) == IF Counts(c) THEN Append(file, Omitted(c, run[c].n)) ELSE file

Budget(c) == IF Counts(c) THEN left[c] - 1 ELSE left[c]

\* A block entered in the state of the open run is only counted.
CountIt(c) ==
  /\ run' = [run EXCEPT ![c].n = @ + 1]
  /\ UNCHANGED <<file, left>>

\* the open run dropped unwritten
WriteItOver(c, a, r) ==
  IF left[c] = 0
  THEN UNCHANGED <<file, left>> /\ run' = [run EXCEPT ![c] = Closed]
  ELSE /\ file' = Append(file, Entry(c, a, r))
       /\ left' = [left EXCEPT ![c] = @ - 1]
       /\ run' = [run EXCEPT ![c] = [open |-> TRUE, at |-> a, pr |-> r, n |-> 0]]

\* Any other closes the run and, while the budget lasts, opens its own.
WriteIt(c, a, r) ==
  IF Budget(c) = 0
  THEN /\ file' = Flushed(c)
       /\ left' = [left EXCEPT ![c] = 0]
       /\ run' = [run EXCEPT ![c] = Closed]
  ELSE /\ file' = Append(Flushed(c), Entry(c, a, r))
       /\ left' = [left EXCEPT ![c] = Budget(c) - 1]
       /\ run' = [run EXCEPT ![c] = [open |-> TRUE, at |-> a, pr |-> r, n |-> 0]]

sh2_block(c, a, r) ==
  IF ~tracing \/ ~armed THEN UNCHANGED writerVars
  ELSE IF SameRun(c, a, r) THEN CountIt(c)
  ELSE WriteIt(c, a, r)

----------------------------------------------------------------------------
(* The dispatch loop. *)

\* sh2_run: a slice on what credit the CPU has, unless it is parked.
Slice(c) ==
  /\ running = Nobody /\ pc[c] # Parked
  /\ Len(ran[0]) + Len(ran[1]) < MaxRan
  /\ running' = c /\ addr' = pc[c] /\ recovering' = FALSE
  /\ fuel' \in 1..MaxFuel
  /\ UNCHANGED <<pc, pr, armed, tracing, writerVars, ran>>

Park(c, a) == /\ pc' = [pc EXCEPT ![c] = a]
              /\ running' = Nobody /\ addr' = Parked
              /\ recovering' = FALSE /\ fuel' = 0
              /\ UNCHANGED <<pr, ran>>

\* the trace before the yield
YieldTraced(c) ==
  /\ running = c /\ addr \in Blocks /\ fuel <= 0
  /\ sh2_block(c, addr, pr[c])
  /\ Park(c, addr)
  /\ UNCHANGED <<armed, tracing>>

\* SH2_BLOCK with the fuel spent: the block is the resume address.
Yield(c) ==
  /\ running = c /\ addr \in Blocks /\ fuel <= 0
  /\ Park(c, addr)
  /\ UNCHANGED <<armed, tracing, writerVars>>

\* A block runs whole: traced, paid for, and gone wherever it goes.
Block(c) ==
  /\ running = c /\ addr \in Blocks /\ fuel > 0
  /\ sh2_block(c, addr, pr[c])
  /\ fuel' = fuel - Length[addr]
  /\ ran' = IF armed THEN [ran EXCEPT ![c] = Append(@, <<addr, pr[c]>>)] ELSE ran
  /\ addr' \in Targets
  /\ \E r \in Links \union {Parked} : pr' = [pr EXCEPT ![c] = r]
  /\ recovering' = FALSE
  /\ UNCHANGED <<pc, running, armed, tracing>>

\* The program ran off its own end: addr 0 leaves the loop.
Halt(c) ==
  /\ running = c /\ addr = Parked
  /\ Park(c, Parked)
  /\ UNCHANGED <<armed, tracing, writerVars>>

\* however often PR has been tried
CanRecoverAgain(c) == Survive /\ pr[c] # Parked

CanRecover(c) == Survive /\ pr[c] # Parked /\ ~recovering

\* Nothing recompiled there: on at PR, once, or the CPU is parked.
Missing(c) ==
  /\ running = c /\ addr \in Holes
  /\ IF CanRecover(c)
     THEN /\ addr' = pr[c] /\ recovering' = TRUE
          /\ UNCHANGED <<pc, pr, running, fuel, ran>>
     ELSE Park(c, Parked)
  /\ UNCHANGED <<armed, tracing, writerVars>>

----------------------------------------------------------------------------
(* Between slices. *)

\* mars_deliver_int redirects a CPU that has somewhere to go back to.
Interrupt(c) ==
  /\ running = Nobody /\ pc[c] # Parked
  /\ \E h \in Blocks \union Holes : pc' = [pc EXCEPT ![c] = h]
  /\ UNCHANGED <<pr, running, addr, recovering, fuel, armed, tracing, writerVars, ran>>

\* The frame --trace-from names has come.
Arm ==
  /\ running = Nobody /\ ~armed /\ tracing
  /\ armed' = TRUE
  /\ UNCHANGED <<cpuVars, tracing, writerVars, ran>>

\* sh2_trace_close: the master's run is closed, then the slave's.
Close ==
  /\ running = Nobody /\ tracing
  /\ tracing' = FALSE
  /\ file' = Flushed(0) \o
             (IF Counts(1) THEN <<Omitted(1, run[1].n)>> ELSE <<>>)
  /\ left' = [c \in CPUs |-> Budget(c)]
  /\ run' = [c \in CPUs |-> Closed]
  /\ UNCHANGED <<cpuVars, armed, ran>>

TraceInit ==
  /\ pc \in [CPUs -> Blocks] /\ pr = [c \in CPUs |-> Parked]
  /\ running = Nobody /\ addr = Parked /\ recovering = FALSE /\ fuel = 0
  /\ armed \in BOOLEAN /\ tracing = TRUE
  /\ file = <<>> /\ left = [c \in CPUs |-> Limit] /\ run = [c \in CPUs |-> Closed]
  /\ ran = [c \in CPUs |-> <<>>]

Go(c) == Yield(c) \/ Block(c) \/ Halt(c) \/ Missing(c)
Step  == \E c \in CPUs : Go(c)

TraceNext ==
  \/ Step
  \/ \E c \in CPUs : tracing /\ (Slice(c) \/ Interrupt(c))
  \/ Arm
  \/ Close

\* The host runs the loop that is running.
TraceSpec == TraceInit /\ [][TraceNext]_tracevars /\ WF_tracevars(Step)

----------------------------------------------------------------------------
(* The file's reader: its lines, read back into one CPU's records. *)

\* parse: another CPU's line is passed over, and a count is hung on the record
\* that follows it.
Read(c, acc, l) ==
  IF l.cpu # c THEN acc
  ELSE IF l.kind = "omitted" THEN [acc EXCEPT !.gap = @ + l.n]
  ELSE [recs |-> Append(acc.recs, [at |-> l.at, pr |-> l.pr,
                                   ran |-> Length[l.at], gap |-> acc.gap]),
        gap  |-> 0]

Parsed(lines, c) ==
  LET upto[n \in 0..Len(lines)] ==
        IF n = 0 THEN [recs |-> <<>>, gap |-> 0]
        ELSE Read(c, upto[n - 1], lines[n])
  IN  upto[Len(lines)]

\* main's fold-back: and moved to the record it was counted for.
Counted(recs) ==
  [k \in DOMAIN recs |->
     IF k = Len(recs) THEN recs[k]
     ELSE [recs[k] EXCEPT !.ran = @ + recs[k + 1].gap * Length[recs[k].at]]]

Records(c) == Counted(Parsed(file, c).recs)

----------------------------------------------------------------------------
(* Properties. *)

\* A number of times the same block in the same state.
Times(a, r, n) == [i \in 1..n |-> <<a, r>>]

\* The blocks a sequence of records says were run.
Told(recs) ==
  LET upto[n \in 0..Len(recs)] ==
        IF n = 0 THEN <<>>
        ELSE upto[n - 1] \o
             Times(recs[n].at, recs[n].pr, recs[n].ran \div Length[recs[n].at])
  IN  upto[Len(recs)]

\* What the last record of the file still has coming: the count nobody has read
\* back, because no record follows it, and the one not yet written.
Pending(c) ==
  LET read == Parsed(file, c)
      recs == read.recs
  IN  IF recs = <<>> THEN <<>>
      ELSE Times(Last(recs).at, Last(recs).pr, read.gap + run[c].n)

\* The lines of a file, and the runs a CPU may have open.
Line == [cpu : CPUs, kind : {"entry"}, at : Blocks, pr : Targets]
        \union [cpu : CPUs, kind : {"omitted"}, n : Nat]
Run  == [open : {TRUE}, at : Blocks, pr : Targets, n : Nat] \union {Closed}

\* Shape of the state; a fuel below zero is the overdraft of one block.
TraceTypeOK ==
  /\ pc \in [CPUs -> Targets] /\ pr \in [CPUs -> Targets]
  /\ running \in CPUs \union {Nobody} /\ addr \in Targets
  /\ {recovering, armed, tracing} \subseteq BOOLEAN
  /\ fuel \in Int /\ fuel <= MaxFuel
  /\ left \in [CPUs -> 0..Limit] /\ run \in [CPUs -> Run]
  /\ file \in Seq(Line) /\ ran \in [CPUs -> Seq(Blocks \X Targets)]

\* "Exact only if our tracer never logs a block it did not run": what the file
\* is read back as is always how the CPU's run began, every block of it as many
\* times as it was run, whatever yields, interrupts, budgets or the other CPU's
\* lines come in between.
ReadsTrue == \A c \in CPUs : IsPrefix(Told(Records(c)), ran[c])

\* "Nothing is lost by construction": while a CPU has budget, the file and the
\* run still open account for every block it has run.
NothingLost ==
  \A c \in CPUs : left[c] > 0 => Told(Records(c)) \o Pending(c) = ran[c]

\* The reference tracer's shape: "a printed line, then [Omitted: N], then the
\* next different line".  A repeat is what the reference never writes and what
\* costs the comparison its alignment.
ReferenceShape ==
  \A c \in CPUs :
    LET recs == Parsed(file, c).recs
    IN  \A k \in 1..(Len(recs) - 1) :
          <<recs[k].at, recs[k].pr>> # <<recs[k + 1].at, recs[k + 1].pr>>

\* Every slice comes back to the scheduler: fuel runs out on blocks, and an
\* address with no block is tried once more, at PR, and no further.
SliceEnds == \A c \in CPUs : (running = c) ~> (running = Nobody)

=============================================================================

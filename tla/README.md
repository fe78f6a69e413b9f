# A TLA+ model of the Knuckles' Chaotix recompilation

The program in this repository runs a 32X cartridge natively: its SH-2 and 68000
code is translated to C ahead of time, and the machine around that code — the
frame loop, the interrupts, the adapter's registers, the sound units — is written
by hand. The translated code is held to a reference by tests and traces. The
hand-written machine is what this directory models: who runs when, what is
carried from one turn to the next, and which event meets which reader.

Every module says in its header which functions it translates, and the `map` in
`PROJECT.json` names the lines of every definition. Paths below are relative to
the repository root, so the emulator's C files are `src/*.c`.

## 1. The system

### Components

**Frame loop and scheduler** — `src/mars_main.c`, with the runners in
`src/m68000.c`, `src/genz80.c`, `src/mem32x.c`. State: three step clocks with
their remainders (`cyc_acc`, `z80_cyc_acc`, `sh2_cyc_acc`), an instruction
remainder and a credit for each processor. A frame is 262 lines of 16 hand-overs;
in each the 68000, the Z80, the master SH-2 and the slave SH-2 take one turn, in
that order. Hard: rational clocks over thousands of divisions, and processors
that cannot stop inside a block. Correct when no clock drifts, no processor gets
ahead of its clock by more than a block, and none falls behind.

**SH-2 interrupts** — `src/mem32x.c:865-964`, `src/gen68k.c:487-512`. State: one
pending slot per SH-2 with an offset in the window, masks, handler stacks, the two
request bits of `intctl`. The 68000 runs the whole window before the SH-2s run
the same window, so a raise carries a position and the target's turn is split
there. Hard: raises that overlap, raises placed past the window's end, masks that
decline, a slave whose turn is cut elsewhere as well. Correct when no answer
precedes its question, and every question is answered.

**DREQ FIFO and DMAC** — `src/gen68k.c:443-520`, `src/mem32x.c:249-283,319-433`.
State: the length register, the running count, an eight-word FIFO, channel 0.
The 68000 raises a command interrupt, spins, and pushes a command list; the
master's handler arms the DMAC. Hard: two counters in two places end the
transfer. Correct when they agree and lists arrive whole.

**PWM unit** — `src/sound.c:40-110,319-362`, `src/mem32x.c:976-1029`. State: two
sample FIFOs, a cycle accumulator, the TM count. Its interrupt is the only clock
the slave's sound driver has; the slave's share of each hand-over is cut at its
edges. Correct when the interrupts are exactly regular in the slave's cycles.

**Audio ring and pacing** — `src/sound.c:119-220,395-463`. State: a ring of
8,192 stereo samples, two atomic indices. SDL calls `sound_mix` on its own
thread. This is the one place with real concurrency. Correct when the device
hears every accepted sample whole, once and in order, and `sound_pace` returns.

**SH-2 dispatch loop and block trace** — `src/mem32x.c:671-863`, `src/sh2.h`,
read back by `tools/diffsh2.py`. State: fuel, resume addresses, one file shared
by two CPUs, a run being counted for each. Hard: blocks that yield are entered
twice and run once, runs are counted after the fact, budgets end in the middle of
one. Correct when the reader recovers what each CPU ran.

**Cartridge battery** — `src/gen68k.c:249-304`, `src/mars_main.c:1384-1406,1851`.
State: the mapper register, 512 bytes, a dirty flag, a file. Hard: the program
may be killed at any point. Correct when a committed save is not lost.

**Boot handshake and comm registers** — `src/gen68k.c:80-153`,
`src/mem32x.c:1031-1055`. State: eight communication registers and four flags.
The BIOS is not run; its two answers are posted at the 68000's own reads, and the
first starts the SH-2s. Hard: three programs and the stand-in use the same
registers, and two of the rendezvous are waits for a zero that another program
may have replaced. Correct when nothing is posted over what another program wrote, and
every wait ends.

**Vertical blank** — `src/mars_main.c:463-492,1556-1583`, `src/gen68k.c:423-440`.
State: `vint_pending`, `vint_irq`, the mask of the running 68000. Correct when a
request is held until taken, and taken once.

**Recompiled 68000 and its gaps** — `src/m68000.c`, `src/mars_main.c:414-461`.
State: the registers, a program counter, the fuel. An address is folded to a
cartridge offset, and an offset with a block is run; code without one is run by
an interpreter that is handed the registers and gives them back. Hard: one window
shows different code at different moments, blocks stop only at their ends, and
interrupts are taken between hand-overs. Correct when the whole does what the
interpreter alone would.

**Two-backend check** — `src/xcheck.c`, `src/gen68k.c:724-760`. State: the armed
block with its registers, the log of its accesses, the mode. Each block is run
again on the interpreter against the log, and compared at the entry of the next.
Hard: the interpreter's gaps, interrupts and other processors use the same memory
functions and move the same registers. Correct when it reports every wrong block
it compares and nothing else; section 2 says which ones it does not.

**Z80 core and bus** — `src/z80.c`, `src/genz80.c`. State: bus request, reset
line, RAM, the core with its interrupt line and EI's hold. The 68000 copies two
programs in, one after the other, with slices of the Z80 between its writes. Hard:
slices end between EI and the instruction it protects, and inside a block
instruction. Correct when only whole programs run, a handler returns before it is
entered again, and what an instruction repeats is done in full.

**Genesis VDP and DMA** — `src/gen68k.c:319-386`, `src/genvdp.c`. State: address,
code and the pending half of a command, registers, three memories. Hard: one word
means three things by what came before it. Correct when words land where the
command says.

**32X VDP, frame buffer and memory map** — `src/mem32x.c:285-424`, `src/mars.h`.
State: two buffers, FS, the autofill's registers, FEN. Hard: a fill wraps in its
block. Correct when what is shown is what was painted.

**Divider unit** — `src/mem32x.c:168-247`. Registers that are storage until one of
two is written. Correct when what is read back is the truncated quotient.

**YM2612 feed and PSG** — `src/sound.c:231-301`, `src/psg.c`. State: a clock
divider with a debt; the PSG's latch, counters and shift register. Correct when
the chip is clocked as often as it should be and no channel stops for good.

**Pads, movies and recording** — `src/gen68k.c:155-245`,
`src/mars_main.c:920-1080,1354-1371,1528-1555`. State: TH and its falls in this
frame; the movie, its alignment, the log. Hard: five sources composed in one
frame, two ways of aligning one of them. Correct when a pass reads the buttons
held, and a recording replays the session.

**Stall and progress reports; rendering and screenshots; the 68000's and Z80's
tracers** — `src/mars_main.c`, `src/trace68k.c`. Around the machine rather than in it.

**Trace comparison, code discovery, recompilers and decoders, reference and
validation tools** — `tools/`. Batch programs over files.

### How they meet

    line 224 ──V──────────────┐          ┌── PWM edge (only the slave)
                              ▼          ▼
    68000 ──intctl, offset──► pending slot ──► SH-2 ── ack 0x1A ──► intctl
      │                                         │
      ├──DREQ word──► FIFO ──► DMAC ch. 0 ──► master's memory
      ├──DMA lines──► its own credit            │
      └──comm registers ◄──────────────────────►│
    slave ──PWM words──► FIFOs ──► resampler ──► ring ══(thread)══► device
                                                   ▲                  │
                                     frame loop ───┴── sound_pace ◄───┘

Everything left of the double line is one thread: the processors interleave at
hand-overs, which is where ordering can go wrong, and cannot race. The ring is
shared with SDL's thread.

### Where it is hard

| what | where | properties |
|---|---|---|
| remainders of 4,192 divisions a frame | `src/mars_main.c:262-311` | `FrameExact` |
| overshoot and debts, sixteen times a line | `src/mars_main.c:340-375,414-461` | `NeverAhead`, `NeverBehind` |
| positions inside a window that has already been run | `src/mem32x.c:927-964` | `NeverEarly`, `MasterOnTime`, `SlaveOnTime` |
| a slot spent on a delivery the mask declines | `src/mem32x.c:948-953` | `CommandAnswered`, `AnsweredWithoutV` |
| two counters for one transfer | `src/mem32x.c:249-283` | `CountsAgree`, `Linked` |
| a clock whose registers change under it | `src/sound.c:329-362` | `Regular`, `ShareEnds` |
| two threads, two indices, no lock | `src/sound.c:157-176` | `SlotsApart`, `Queue` |
| sleeping until another thread has moved | `src/sound.c:455-463` | `PaceEnds`, `NothingDropped` |
| counting after the fact in a shared file | `src/mem32x.c:719-784` | `ReadsTrue`, `NothingLost` |
| retrying a missing block | `src/mem32x.c:813-838` | `SliceEnds` |
| code whose identity is a register | `src/m68000.c:17-42` | `RightCode`, `Implements` |
| a request offered until it is taken, or latched | `src/mars_main.c:463-492` | `TakenOnce` |
| a block compared after others have had their turn | `src/xcheck.c:344-362` | `NoFalseAlarm`, `NoMiss` |
| a comparison through a mask | `src/xcheck.c:234-238` | `ComparesAll` |
| a kill between two steps of a commit | `src/gen68k.c:293-304` | `SavedIsKept`, `SurvivesKill` |
| answers posted at a read into registers others use | `src/gen68k.c:124-153` | `TrafficKept`, `BootEnds` |
| a processor let go before the last answer is posted | `src/gen68k.c:133-153` | `EarlyCostsNothing` |
| a program copied in under another's slices | `src/genz80.c:128-142` | `NeverHalfLoaded` |
| EI's hold at the end of a slice | `src/z80.c:804-835` | `SafeReturn` |
| an interrupt among a block instruction's repetitions | `src/z80.c:535-543` | `RunsToItsEnd` |
| decimal correction from the flags before it | `src/z80.c:310-330` | `Decimal` |
| a command given up between its halves | `src/gen68k.c:355-386` | `LandsInOrder` |
| a fill that starts late in its block | `src/mem32x.c:295-315` | `ShowsWhole` |
| a dividend over what the last division left | `src/mem32x.c:200-247` | `DividesRight` |
| a clock spent early and owed | `src/sound.c:284-301` | `KeepsTime` |
| a borrowed period that is zero | `src/psg.c:80-91` | `NeverDead` |
| a count that belongs to a frame | `src/gen68k.c:192-239` | `ReadsBack` |
| sources composed, aligned, recorded | `src/mars_main.c:920-1080` | `ReplaysPlain`, `PlaysOut` |

`PROJECT.json` lists the hazards at their lines, including those no property
covers yet and why.

## 2. Modules

| component | module | proofs | abstract specification | checked by |
|---|---|---|---|---|
| scheduler | `HandOver` | `HandOverProofs` | | `MCHandOver` |
| SH-2 interrupts | `MarsInt` | `MarsIntProofs` | | `MCMarsInt` |
| DREQ and DMAC | `Dreq` | `DreqProofs` | `ListLink` | `MCDreq` |
| audio ring and pacing | `AudioRing` | `AudioRingProofs` | `SampleQueue` | `MCAudioRing` |
| dispatch loop and trace | `BlockTrace` | `FilesProofs` | its reader, inside it | `MCFiles` |
| PWM unit | `PwmUnit` | `PwmUnitProofs` | | `MCConsole` |
| battery | `Battery` | `FilesProofs` | | `MCFiles` |
| recompiled 68000, vertical blank, two-backend check | `Recomp68k` | `Recomp68kProofs` | `Program68k` | `MCRecomp68k` |
| boot handshake | `Boot` | `ConsoleProofs` | | `MCConsole` |
| Z80 | `Z80Bus`, `Z80Block`, `Z80Alu` | `ConsoleProofs` | | `MCConsole` |
| Genesis VDP | `VdpPort` | `ConsoleProofs` | | `MCConsole` |
| 32X VDP | `FrameBuffer` | `ConsoleProofs` | | `MCConsole` |
| divider | `Divider` | `ConsoleProofs` | | `MCConsole` |
| YM2612 feed, PSG | `Chips` | `ConsoleProofs` | | `MCConsole` |
| pads, movies, recording | `PadPort`, `Session` | `ConsoleProofs` | | `MCConsole` |

### HandOver

A hand-over is a value of `turn`: `OpenWindow` is the top of the sub-slice loop,
then `M68KTurn`, `Z80Turn` and one or more `SH2Turn` each for the master and the
slave. `acc` holds the three clocks' remainders, `insn_acc` the SH-2s', `credit`
every processor's budget. A run of a processor is a number: how much of its clock
it used, which may pass its budget by `Over[c]`, the longest block. The 68000 may
also stop short, which is what the interpreter does when it meets an address that
has a block again. The slave's share is cut into any number of pieces, which
covers every place a PWM edge may fall. `handed`, `owed` and `ran` record what was
given out and used.

A recompiled 68000 that leaves budget behind banks it and may spend it in a later
hand-over, so there is a bound on how far it runs ahead of its clock and none on
how far it may be behind; `NeverBehind` speaks of the other three.

### MarsInt

Time is counted in SH-2 cycles from the start of the window. `WriteIntctl` is a
write to 0xA15102 with the position `mars_slice_pos` gives, `slot` is `pend[]`,
`Fire` is `mars_int_fire`, `Deliver` is `mars_deliver_int`, `EndCall` is
`sound_pwm_tick` with, after the last piece, `mars_int_rebase`. The programs are
the cartridge's and are not in the repository: a cartridge (`cart`) is an
assumption about them, in the terms the comments of the source use. The one
called orderly raises no SH-2 before the last answer and clears its bit as the
last step of its handler. The last clause matters: a raise between the clearing
and `rte` meets the handler's own mask and is declined.

### Dreq and ListLink

The 68000's side is a little program counter (`pc68k`): length, 68S, command
interrupt, spin, groups of words with 68S read after each. The master's side is
its handler: armed, acknowledged. The order — arm first, then clear the bit the
68000 spins on — is what the comment at `src/mem32x.c:372` says of the
cartridge. `Drain` is `dma_drain` and is a part of `Push`, because every word is drained as
it arrives. Lists whose length is no multiple of
the group are outside `Lengths`: the cartridge does not post them. `ListLink` is
the promise: one list in flight, each arrives whole, once and in order.

### AudioRing and SampleQueue

Every access to the two atomic indices and to a slot's channels is a step of its
own; SDL's atomics are sequentially consistent, which is why an interleaving of
steps is a fair picture. `Play` to `Played` are `play` and `ring_push`, `Paced` is
the exit of `sound_pace`, `Callback` to `Return` are `sound_mix`. A sample is
its number, written once to each channel, so that half of one and half of another
would show. `SampleQueue` is the promise: a bounded queue of whole samples, heard
in order, the last one held while it is dry. The underrun counter and the gain
are left out.

### BlockTrace

A register file is abstracted to PR, the one register the dispatch loop reads.
`sh2_run` is `Slice`, the body of `sh2_call` is `Yield`, `Block`, `Halt` and
`Missing`; `sh2_block` with its run-length counting is an operator used by
`Block`. The second half is `tools/diffsh2.py`'s reader, so that what is checked
is the pair: what the writer wrote, as the reader understands it. `Parsed` folds
`Read` over the lines, `Counted` moves each count back to the record it was made for,
`Told` is the blocks the records stand for. `Close` ends tracing.

### PwmUnit

The two FIFOs, the cycle and control registers with their widths (12 bits, and 0
and 1 stop the unit), `pwm_acc` and `pwm_tm_n`, and the loop that cuts the slave's
share at the timer's edges. Registers may be written by any CPU, by the slave in
the middle of a piece. Whether the slave accepts the interrupt is `MarsInt`'s
matter.

### Battery

The mapper register, the bytes, `dirty`, the file, and a `Kill` that may come
between any two steps. The file has three kinds of content: none, the empty one
`fopen(path, "wb")` leaves, and an image. A short write is not modelled:
`gen68k_sram_commit` does not look at what `fwrite` returns. The game keeps two
copies with checksums; a copy is two parts that agree or do not.

### Recomp68k and Program68k

`Program68k` is what a 68000 promises: at every step the code the machine shows
at the program counter is run, on two registers and four bytes — two of RAM, a
port whose reads change it, the bank register — and the vertical interrupt is
taken between two pieces of code when the mask lets it. `Recomp68k` is how it is
done. `Beam` raises line 224's request, `Poll` is `cpu_poll_irq`, `Block` is
`m68k_run`'s dispatch, `M68K_BLOCK` with what `--xcheck` does there, and the
block; `HandOver` and `Gap` are the rest of `cpu_run`, `EndRun` its return,
`Musashi` the other backend, `Others` the Z80 and SH-2s at the 68000's memory
functions. The refinement puts addresses in the window at 0x880000 with the
offsets they name, because a yield and a `bsr` leave an offset where the
interpreter would leave an address.

A block is atomic, which it is: nothing interrupts it. Credit is counted in
blocks; what cycles they cost is `HandOver`'s. What was generated for an offset
may visit different bytes in a different order (`Emitted`), as a `movem` does, and
a build may have one mistranslation (`Faults`). `xchk_block` compares registers,
stack pointer, address and bytes; so does `Disagree`, from the log alone.
`wrong`, `seen` and `stray` record what the program cannot know.

Addresses and frames are the machine's (`Place`, `Frames`), numbered as the log
numbers them (`Earlier`). `InItsCode` says that the program counter and the return
addresses are at code the program has; it is what a cartridge does, and the run
would stop with an error at a state where it does not.

Four limits of the check are in its properties. It compares the status register through
0x201F, which leaves the interrupt mask out (`src/xcheck.c:238`): a block that leaves
another mask than its code is wrong (`Differs`), compared and not reported, so `NoMiss`
speaks of builds that keep the mask, by `MaskKept`. `ComparesAll` is the same without
that exception, what the head of `src/xcheck.h` says, and a finding. Its shadow's reads
are answered from the record even where the shadow itself has written, so a translation
that moves a read across a write of the same byte looks right: both exclude it, by
`Apart`. A shadow that fills its own log goes on with the rest unrecorded, for the mark
it leaves is cleared when the next block is armed (`src/xcheck.c:121,344`): both speak
of blocks whose writes fit, by `WritesFit`. And a block followed by an interrupt or a
gap is disarmed and never compared, so `seen` counts only those that were. Blocks of no
instructions, the stop on the first report and the tallies are left out.

### Boot

`comm` is `mars.comm` 0 to 4, `bios` the four flags. `ReadComm` is a read of the
68000's with `bios_comm_read` before it, `WriteComm` a write with
`bios_comm_write` after it, a long word being one write to two registers. The three
programs are the cartridge's and are taken from the comments at
`src/gen68k.c:80-147` and `src/mem32x.c:1031-1055`: 68000 (`M68k`), master
(`Master`), slave (`SlaveTraffic`). `Peek` is every other read the 68000 may make,
among them the read `gen_write_8` makes before a byte is merged into its word, and
`Relay` its sound traffic at comm 4. `by` records who wrote a register last.

The SH-2s are let go where the checksum is posted (`src/gen68k.c:147`); the comment
at `src/mem32x.c:1035` has it after M_OK. From then on nothing but the registers holds
the master: `MasterArrives` asks for two zeroes, which before M_OK are the 68000's own,
and `MasterLoopHead` looks at nothing. `TrafficKept` is about all of these
interleavings, and names the one case in which a posted word replaces another
program's. `BootEnds` (`Rendezvous`) needs two facts of the cartridge's timing and says
so in its hypotheses: that the master is at its wait only after M_OK is posted, and that
the 68000 is not left waiting for an answer the master has taken back (`hasty`). Without
the first, `EarlyCostsNothing` is what the source says, and a finding.

### Z80Bus

`Uploads` is the 68000's order of work (`src/genz80.c:4-12`): a stub that runs with
interrupts off, then the driver, each in two halves of RAM, then sound requests
under the bus request for ever. `Request`, `Drop`, `Copy`, `HoldReset` and
`ReleaseReset` are the cases of `genz80_write`, `Runnable` is `genz80_runnable`,
`Slice` the start of a `z80_run`, `TakeIrq` and `Execute` a turn of its loop, one
instruction each. The line of a vertical interrupt is up for one scan line, which
here may hold any number of slices. An instruction is what it does to the interrupt
state, the stack and the program counter. HALT is left out.

### Z80Block and Z80Alu

`Z80Block`: `ldir`, `lddr`, `cpir` and `cpdr` as the code has them, each repetition
an instruction that backs the program counter over its own opcode, with a handler
that exchanges the registers before it uses them. `asked` keeps the state an
instruction began in, and the property states its repetitions one after the other as
functions of it. `Z80Alu`: `adc`, `sbc` and `daa` with all the flags each reads,
against decimal arithmetic.

### VdpPort

`Ctrl` is `vdp_ctrl` in its three cases, `Dma` is `vdp_dma`, `SendData` is
`vdp_data`. The word is scaled: what is kept is that a command's two words split the
address, and that a second half may have the bits of a register write. A transfer to
VSRAM moves the address on and stores nothing, which is what the code does
(`src/gen68k.c:341-347`), and is excluded from the property. Fill and copy are not
in the code; what a transfer costs is in `HandOver`.

### FrameBuffer

`Draw` is `mars_fb_draw`; `Autofill` is `autofill` with its wrap in a block,
`Sprite` a store to the overwrite image, `Poll` what a hand-over takes off FEN's
hold, `Swap` the write of FS. The program paints a whole picture, as the game does,
and swaps; `picture` is what it means to have painted. FEN is held for two cycles a
word; the comment at `src/mem32x.c:112-122` has it drop at the vertical blank. Byte stores
to the plain image from the 68000's side are outside the program: `gen_write_8`
merges the byte into a word it reads as zero there (`src/gen68k.c:659`), so the
neighbour is cleared.

### Divider and Chips

`Divider` keeps the five registers and divides as `divu_run` does, their width
scaled from 32 bits. The code keeps one divider for two SH-2s; the program is one of
them. `Chips` is two machines that share nothing. The YM2612's is its clock:
`YmWrite` spends a cycle at once, `YmTick` takes it back out of what is due. The
PSG's are the tone counter the noise may borrow from, the noise counter and the
shift register.

### PadPort and Session

`Lines` is `pad_lines`, `Falls` is `pad_write`, and the program is the reading
routine the comment at `src/gen68k.c:167-184` describes. It need not read in every
frame.

`Session` is one run of the program, recorded, killed, and replayed, or a headless
one of its movie's length. `Composed` is what a frame's input is made of,
`MovieFrame` is `movie_frame_for`, `Need` is `headless_frames`. `Ask` gives the
command lines that make sense together: a re-sync names a frame the movie has, and there
are at most `SMaxSyncs` of them, the code's `MOVIE_SYNCS`. The log is taken after the
composition, whatever --hold and --press put in it.

### MCConsole and MCFiles

`Boot` to `Session` above and `PwmUnit` are checked in one run, `Battery` and
`BlockTrace` in another. They are not composed, for no two of them share a variable:
`unit`, and `part`, says which machine a behaviour is about.

## 3. Runs

Distinct states are those of the run with the constants in its `.cfg`.

| run | states | what it shows |
|---|---|---|
| `hand_over` | frame of 4 hand-overs, 5 explored | the clocks lose nothing, nobody is ahead or behind |
| `interrupts` | 823,032 | raises land where they were made, handlers nest, requests are answered without V |
| `interrupt_slave_late` | one finding | the slave's raise is late by the pieces before it |
| `interrupt_lost` | one finding | a raise that meets the V handler is never answered |
| `dreq` | lists of 2, 4 and 6 words, FIFO of 3 | two counters agree, lists arrive, `ListLink` is implemented |
| `audio_ring` | ring of 6, rates 2:3 | threads stay apart, samples are whole, `SampleQueue` is implemented, pacing ends |
| `files` | 361,238 | the reader recovers what ran, slices end; a committed save can be loaded |
| `battery_kill` | one finding | except after a kill inside a commit |
| `recomp68k` | 65,789 | blocks, gaps and windows implement `Program68k`, interrupts are taken once, the check reports what it should |
| `recomp68k_mask` | one finding | except a wrong interrupt mask |
| `console` | 419,693 | twelve machines: boot ends in the reference's timing and posts over nobody's word but an early master's, words land, pictures are whole, sessions replay, the Z80 runs whole programs, returns, and counts right, PWM edges are regular and shares end |
| `boot_early` | one finding | and the boot does not end under a master that is early |

### Bounds

*HandOver* runs past one frame boundary: the clocks are periodic in a frame, and the
theorems cover the rest. Its ratios are coprime where the real ones are: 5/4, 20/28 and
10/4 cycles a hand-over, 5/3 and 4/3 cycles an instruction, so no division is exact.
*MarsInt*'s window of 3 is shorter than two handlers, raises may fall 2 past its end (so
be carried over), and the PWM period of 4 does not divide it. *Dreq*'s lists are
shorter, equal to and longer than the FIFO, and three in a row show that nothing is left
over from one to the next. *AudioRing* wraps: four frames of two samples make twelve
output samples in six slots; level 1 is one where nothing may be dropped and level 6 one
where the ring overflows. *BlockTrace*'s budget of 3 lines is used up in the middle of a
run, the one block can be entered in two states, and a slice's fuel of 1 to 3 ends
before, at and after the block's length of 2. *PwmUnit*'s cycle values are stopped, 3
and 4102, which only its low twelve bits make 5; the shares of 2 and 5 are shorter and
longer than a period. *Battery*'s three saves are one more than the copies.
*Recomp68k*'s program has a main loop that crosses the fixed window and the banked one,
a handler, code that only the interpreter can run in both places where there is such
code, and a block that overflows a log of 3; a credit of 0 to 2 ends before, between and
after the blocks of the loop, and its nine mistranslations differ in a value, an order, an
access more or fewer, a target and the interrupt mask.

In `console`: three commands show the registers used again after the boot, and the
slave's and the relay's traffic may come in any state of it. *VdpPort*'s two addresses
differ in the second half's bit, its increments and lengths include zero, and three
words after a command are looked at. *FrameBuffer*'s counts are one word, part of a
block, a whole one, and 7, which only the register's width makes 3; three frames use
each buffer again. *Session*'s three frames, offsets of -1, 0 and 2, and two re-syncs in
either order delay, cut and rewind; the code has room for eight re-syncs, and the
theorems hold for any number. *PadPort*'s sets hold each button once besides all and
none of them. *Z80Bus*'s slices of one and two instructions end between any two; three
interrupts are more than one of them needs to enter the handler twice. *Z80Block*'s four
bytes make copies overlap and wrap, and a count of zero is the longest. *Z80Alu* has
seven digits on either side of each correction, every pair of them, with and without a
carry in. *Divider*'s registers of eight values take every divisor and every short
dividend, and eight long ones with overflow of either sign. *Chips*' ticks of 1, 5, 7
and 30 cycles bring none, one or several of the chip's, with up to three writes owed;
five bits of shift register keep its two taps apart.

### What the five findings are

`interrupt_slave_late`: `sh2_slice` splits the window at a raise's offset, counted
from the start of the call. The master's window is one call. The slave's is
several, one to each PWM edge, and each counts the offset from its own start, so a
raise at cycle 1 of the window that comes after an edge is taken later than that,
and one for a cycle the first call never reaches can wait for the next window.
Nothing is lost by it: `NeverEarly` holds.

`interrupt_lost`: one slot per SH-2, spent when it fires, whether or not the SH-2
accepts it. If the vertical-blank handler runs at that cycle, the command is
declined, its bit stays set, and the 68000 spins on it. `AnsweredWithoutV` says
this needs a cartridge that enables V.

`battery_kill`: the commit rewrites the file in place, so a kill between the
opening and the write leaves it empty. `SavedIsKept` states what does hold.

`recomp68k_mask`: `compare` masks the status register with 0x201F and gives as its
reason that the mask is changed outside a block, by the interrupt. But an interrupt
disarms the block before it, and the shadow starts from the block's own registers; what
is left out is a `move` to SR in the block itself. A translation that drops it is
compared, agrees, and lets an interrupt in that the code keeps out.

`boot_early`: the 68000 takes the checksum, and the master is running. If the master is
at its wait before the 68000 first reads comm 0, it finds the 68000's zeroes and writes
its ready word; that read posts M_OK over it. The 68000 zeroes comm 0 and waits for the
ready word, which nobody writes again. `docs/done.md:1587` measures 123 master
instructions between the hand-over and that zeroing, so the present build is not near
it; the comment's "costs nothing" is what does not hold.

## 4. Fairness

The frame loop is a single thread that never blocks except in `sound_pace`, so
weak fairness of what it would do next is no more than that the host runs it.
`MarsInt` has it on the whole of `Next`: the actions are in a fixed cycle, each
window is finite. `BlockTrace` and `PwmUnit` have it only on the loop inside a
slice or share: nothing promises that the scheduler starts another. `Dreq` has it
on the 68000's program and on the master's — both get turns in every hand-over —
and not on the posting of lists. `AudioRing` has it on the two threads: the
device's callback is the only thing that ends `sound_pace`, and SDL calls it for
as long as the device is open. `Boot` has it on the 68000 and on the master: every
hand-over gives both a turn; how fast they are is no fairness, and is in the
hypotheses of `BootEnds`. `HandOver`, `Battery`, `Recomp68k` and the other
devices state safety only.

## 5. Proofs

All theorems are for every value of the constants that satisfies the module's
named assumption.

*HandOverProofs.* `Typing`; then `NoDrift`: what a clock has handed out is the
quotient of `steps * Num` and its `acc` the remainder, which one division with
remainder preserves; at a frame boundary `steps` is a multiple of the divisor.
`NotAhead` and `NotBehind` rest on an exact balance per processor: what it ran
plus its credit, plus what it has been charged, is what was handed out. The debt
of a credit is bounded by the longest block, and that bound is part of the
induction, as is the instruction remainder for the SH-2s, whose balance is in
units of `Cpi * PerK`.

*MarsIntProofs.* `TypeCorrect`, `AnswersFollow`, `MasterPunctual`, `HandlersNest` and
`OneRequestOneInterrupt`. What fires is what waited in a slot, so the invariant
`Timely` says of a slot what the properties say of its firing: a command waiting there
is not due later than the slot's offset stands for, on the master not sooner either,
and the master's turn never passes an offset that waits. `Nesting`: the mask under a
handler is the level of the handler below it, and an interrupt is accepted only above
the mask. `Honest`, on an orderly cartridge: a request's bit stands while the request
waits or is handled, and it is never both.

*DreqProofs.* `TypeCorrect`, `CountsStayTogether`, `ListsLandWhole` and
`ImplementsLink`, for lists of any whole number of groups and any depth of the FIFO.
`CountsAgree` alone is not inductive: that the DMAC is armed before the first word comes
depends on where the two programs are. `Known` says what holds at each place of the
68000: while it spins the master has its answer before it or has armed the DMAC for the
whole list (`Answering`), when it pushes both counts are what is left of the list.
`Arrived` says that every list but the one under way is in memory whole. With it each
step is one of `ListLink` or changes nothing it sees.

*AudioRingProofs.* `Typing`, `Apart`, `Whole`, `InPitch`, `Dropless` and
`ImplementsQueue`. The strengthening puts the indices in order round the ring: from
the published `ring_r` to the device's own `r` to `ring_w`, each distance counted
forwards, the sum below `Ring`. A test against the published index is then
conservative: the device can only have moved on. From it the two threads are never in
one slot, and every slot between `r` and `ring_w` still holds the sample numbered by
its distance. `Level` bounds how far past `high` the ring can be by what the frame's
samples have asked for so far; a full ring would need more than one frame. For
`ImplementsQueue` the samples from `r` to `ring_w` are the queue's, numbered on from the
last one heard, and a sample leaves it when its second channel is read.

*FilesProofs*, the battery. `Typing`, `CleanOnDisk` and `SaveSurvives`. The battery is
the file with the stored cells over it (`InPart`, `OfSave`), and `KeptInv` goes by
where the save is: both copies hold the last one before the next begins, one of them
all through it, and each exit in the middle of a save is counted in `torn`.

*FilesProofs*, the trace. `TraceTyping`, `ReadBackTrue`, `EveryBlockCounted` and
`LinesDiffer`. The reader is a fold over the lines, and the writer only appends, so
`ParsedAppend` takes one line through the fold and `ToldGrows` through what it tells.
`Accounted` relates, for each CPU, what the reader makes of the lines so far, the open
run, the lines left and the blocks run: while lines are left, what is read and the count
to come are all of the blocks, and after that a beginning of them. A CPU's last record
is the one its open run began with, which is why a count that comes after the other
CPU's lines still folds into the right one.

*PwmUnitProofs.* `Typing`, `InterruptsRegular` and `PlayedInOrder`. `Regular` is
not inductive: `Even` adds that, while the registers are untouched, the cycles
since the last interrupt are `pwm_tm_n` whole samples and `pwm_acc`, and that a
piece never runs past an edge.

*Recomp68kProofs.* `RunsItsOwnCode`: an address with a block lies in a window no
register changes (`BlockIsShown`), so the block that runs is the code there.
`InterruptOnce`: a latched level is Musashi's and stands for a request not yet taken
(`Latched`), so an entry by either way takes one away.

`RunsTheProgram` is the refinement of `Program68k`, for every program, every choice of
what is recompiled, both backends and all hand-overs. `Machine`, its invariant, types
what a piece of code runs from; `Recompiled`, `Interpreted`, `EntersWhole` and `Visited`
show that a block, a gap's piece, an interrupt and another processor's access each are a
step of the program, with addresses and frames folded (`Place`, `Folded`). It rests on
two things that are not of this code. `FaithfulAssumption`: what was generated for an
offset leaves what its code leaves and does the same at each byte, which is what the
repository holds the decoders and the recompiler to with its traces. `[]InItsCode`: the
program stays where it has code, for one that jumps elsewhere has no behaviour to be
compared with.

`AlarmsAreTrue` and `WrongBlocksAreReported` are about a build with one block
mistranslated (`Faults`), the rest being faithful: the first in any way whatever, the
second in any way that the log can answer and that keeps the mask (`Answerable`,
`MaskKept`). `Pending` says of an armed block that the record, the registers, the frames
and the target are still what it left, from registers and bytes it was entered with, and
`wrong` whether its code would have left others. The shadow is answered access by access
from the record: `Earlier` numbers a byte's accesses as the log does, `ReadsInTurn` and
`ToldWhatItRead` say that the shadow is told what the block read, and `ShadowFollows`
that it then does what the code would have done. `TypeCorrect` needs `Machine` only.

*ConsoleProofs* holds the theorems of the ten other modules that `MCConsole` checks.

- Boot: `BootTyping` and `BootKeepsTraffic`, for every interleaving. The strengthening
  `BootInv` goes by the 68000's place: `Alone`, that nobody else has run before the
  checksum is posted; `Cleared`, that a register whose answer is due still holds the
  68000's zero (`Kept`), except comm 0 once the master has arrived; `Answered`, that an
  answer has been posted once its wait is over.
- Z80 bus: `HandlerSafe` and `OnlyWholePrograms`, for any slices and any number of
  frames. `Buses` and `Loaded` say, by the 68000's place, which of the two lines is held
  and what each half of RAM is of: wherever RAM is not one whole program, one of the two
  is. `Core` says where the Z80 can be: in the stub with interrupts off, in the driver's
  loop with an empty stack, in the handler with interrupts off, or at its return with
  the hold on, which is where a slice may end.
- Z80 instructions: `BlocksRunOut` for any size of memory, any count and direction.
  `Reached` is the number of repetitions done, and the registers and the memory are
  those after as many (`RegsAfter`, `Copying`), under an interrupt too, whose handler
  swaps them away and back. `DecimalAlways`, from two facts about one byte,
  `SumAdjusted` and `DifferenceAdjusted`.
- VDP: `WordsLandInOrder`. `Halfway` ties the pending half to what the program has sent
  of a command, `Ordered` is the property with the address the next word goes to.
- Frame buffer: `FramesShowWhole`, for any block and buffer. `Painted`: the cells
  painted so far hold, in the hidden buffer, what the program meant. `Filled` is a fill
  as the set of words of its block that the registers name, the wrap included.
- Divider: `DividesAlways`, for registers of any width: `QuotientIs` and `OnlyQuotient`,
  that a quotient with a remainder of the right size and sign is the truncated one, and
  `DivisionRight` of the overflows.
- Sound: `ClockKept`: `KeepsTime` is an equation, inductive with the typing, and what a
  tick takes back is never more than it is due. `ChannelsLive`: a period is at least one
  where it is used, the noise's borrowed one included, and the feedback bit is set
  whenever the shift would empty the register.
- Pads: `PadsReadBack`. `Known` says for each step of a pass which buttons have been
  found, `Fallen` how often TH has fallen this frame.
- Sessions: `SessionsReplay`, from `Recorded`, that the log so far is what the engine
  saw and that a replay has the plain command line. `MoviesPlayOut`: the re-sync given
  last, of up to any number, is the alignment in force once its frame has come
  (`InForce`, `LastWins`), and the length the run computes reaches the movie's end under
  it (`NeedReaches`).

Some of these are inductions over data: repetitions, lines, accesses, re-syncs. The
library's induction rules take an operator as a parameter, which the provers here cannot
instantiate, so the induction is stated with a set of numbers instead: `LeastNatural`
and `AllNaturals`, `SameSteps` (two functions with the same start and the same steps
are equal) and `RecursionExists` (a recursive function is one).

Besides the typings, five theorems state what no run lists: `ListsLandWhole`
(`ListIntact`), `OneRequestOneInterrupt` (`NoSpurious`), `Whole` (`HeardWhole`),
`PlayedInOrder` (`InOrder`) and `LinesDiffer` (`ReferenceShape`). Each was checked by
TLC on its run's instance before it was proved.

## 6. Model-checked only

Every safety property that a passing run checks has a theorem. Liveness has none:
`PaceEnds`, `ShareEnds`, `SliceEnds`, `AnsweredWithoutV`, `BootEnds`, and the fair parts
of `Linked` and `Queue` (their safety is `ImplementsLink` and `ImplementsQueue`) need
fairness and ENABLED, which the installed prover does not reason about. That a program
stays in its own code, and that what is generated from it is faithful, are assumptions
of theorems on the 68000. The run's program meets the first in every state and its
blocks the second, which TLC evaluates as an assumption.

## 7. Not modelled

The generated C of the cartridge, the instruction decoders and what the two
recompilers emit are held by the repository's own comparison against reference
traces; modelling them would repeat them. Rendering reads the state the machine
left and changes nothing that comes back. `stall_check` and the progress lines read
the machine and print, and the tracers write what they are told. The batch tools are
run by hand over files, with no state between runs.

Of the parts that are modelled: attenuation, mixing and the emulated YM2612
(vendored) are data without a protocol; the palette and `resolve`'s table of ranges
likewise. The Z80's other instructions, Musashi's (vendored) and the undocumented
bits of F are instruction semantics. A write the host cuts short, the bytes of the
battery outside the game's two copies, lists of no whole number of groups and a
destination `resolve` refuses are what the cartridge does not do or the code does
not look at. Controllers that come and go depend on what SDL queues for a pad that
is present at the start (`src/mars_main.c:1143`).

## 8. What could follow

1. `Discovery`: the analyzers' worklists — the set of blocks found is closed
   under the edges of the program, whatever the order of the worklist.
2. `Aligner`: the trace comparison — every line of both files accounted once, a
   truncated file never called equal.

# Verification of the Z-100 emulator

This directory is a TLA+ model of the Zenith Z-100 emulator in `../src`: TLC
model-checks it on small instances, TLAPS proves its main invariants and two
refinements for every value of the parameters. Line numbers below refer to files
of `../src`.

## 1. The system

### Threads

| thread | runs | touches |
|---|---|---|
| user interface (GTK) | `on_keypress`, `on_draw_event` (screen.c) | `keyaction`, `renderScreen`, `togglePause` |
| emulator | `z100mainloop` -> `z100singleinstruction` (mainboard.c 207-281), `handleDebug` while paused | everything |
| SIGINT handler | `onCtrlC` | `pauseSimulation` |

`z100singleinstruction` calls, in this order: the keyboard test, one instruction
of the active processor, `simulateVSYNCInterrupt`, `handle8253TimerClockCycle`,
`doJWD1797Cycle`, the screen refresh, the breakpoint check. Devices call each
other *synchronously*: a line that changes calls the controller, the controller
calls the board, the board acknowledges and traps the 8088, all inside the
function that changed the line. So one function of the loop is one step of a
model, and the other thread's accesses come between steps (Interrupts, Timers)
or between the single accesses to shared variables (Keyboard, Debugger).

### Components, their state, and what makes them correct

| component | state | operations | must hold |
|---|---|---|---|
| 8259 controllers (e8259.c) | IRR, ISR, IMR, levels, priority pointer, AEOI, INT | line changes, acknowledge, ICW/OCW, reset | no deliverable request without INT, no INT without one; nesting by priority; nothing lost |
| 8088 interrupt entry (8088.c 118-187) | IF, `enable_interrupts`, the interrupt list | `trap`, `interrupt`, the end of each instruction | FIFO order, nothing taken while held off, the list fills up only then, what is accepted is taken |
| 8088, 8085 execution (8088.c, 8085.c) | registers, flags, prefetch queue, memory | instructions | what instructions compute together is the arithmetic they are for; stack, queue and hand-over survive interrupts |
| main board (mainboard.c) | active processor, parity latch, ports | the loop, port reads and writes, `reset` | interrupt wiring as documented, the swap port |
| 8253 timer (e8253.c) | three counters, latches, status flags | control words, byte reads and writes, clocks, cascade | OUT changes at the clock asked for; latched reads are whole |
| keyboard (keyboard.c) | ring of 17, data register, request | `keyaction`, reads, commands | no key lost or repeated, every key announced, no index out of range |
| JWD1797 floppy controller (jwd1797.c) | registers, DRQ, INTRQ, head, rotation | commands, cycles, data port | each command ends, and interrupts once; the head stays on the disk; whole sectors reach the right place |
| CP/M disk ports (mainboard.c 787-890) | track, sector, address, drive | ports 9-F | a command moves one sector of the drive selected; files keep what was written |
| video, console (video.c) | VRAM, CRT registers, cursor, escape state | ports 8, D8-DD, `videoWrite` | the screen is a terminal's: the cursor stays on it, it scrolls, escape sequences end |
| debugger (debug.c) | breakpoints, `pauseSimulation` | commands, pause, step | a pause stops the processors between instructions and is answered |

### What is hard here

* Calls nest through callbacks. `e8259_check_int` raises INT, which calls
  `interruptFunctionCall`, which calls `e8259_inta`, which calls
  `e8259_check_int` again before it has returned its vector.
* Levels that are raised and never lowered. The controllers look for edges, the
  board only ever raises lines 1, 2 and 3 of the master.
* Interrupts accepted by one part (the controller) and refused by the next
  (IF = 0 in `trap`).
* Two-byte accesses to one-byte ports while the counter runs.
* A mutex that protects two of the five parties that use the key ring.
* Rings and lists whose full state reads as empty.
* A disk that turns while commands are given, forced to end, and given again;
  eleven places end a command, each with the same four or five assignments.
* Four places that set or clear `pauseSimulation` from three contexts.
* Arithmetic in C integers wider than the registers, and a prefetch queue that
  every transfer of control has to flush.

## 2. Modules

| module | what it is |
|---|---|
| `E8259` | one 8259 as operators on a record: lines, `Acknowledge`, ICWs, OCWs |
| `Interrupts` | both controllers, the 8088's interrupt entry, the board's wiring, swap port and parity latch: the state machine of the interrupt system |
| `E8253` | one counter of the 8253 as operators on a record |
| `Timers` | the three counters behind their ports, clocked by the loop |
| `KeyQueue` | abstract: the queue of keys the keyboard promises |
| `Keyboard` | the ring, the mutex and the interrupt request, as two threads use them; implements `KeyQueue` |
| `Jwd1797` | the floppy controller, the formatted track and the disk images |
| `Words` | bytes, words, bits, signs |
| `I8088`, `I8085` | an instruction of each processor as a function from machine to machine |
| `Processors` | the two on one memory, run by the loop, swapped and interrupted |
| `Terminal` | abstract: what the console amounts to for a program |
| `Console` | `videoWrite`, its escape sequences, scrolling, the address latch; implements `Terminal` |
| `CpmDisks` | the disk ports, the images and their files |
| `Debugger` | the parties of `pauseSimulation` |
| `Board` | composes `Console`, `CpmDisks` and `Debugger`, with the resets they share |
| `MCInterrupts`, `MCTimers`, `MCKeyboard`, `MCJwd1797`, `MCProcessors`, `MCBoard` | the values of the constants for the runs; `MCProcessors` also the test programs and what they must have done |
| `InterruptsProof`, `TimersProof`, `KeyboardProof`, `BoardProof`, `FloppyProof`, `SectorsProof`, `I8088Proof`, `ProcessorsProof` | proofs; `BoardProof` holds those of the console and of the disks too, `SectorsProof` those about what the floppy controller finds on a disk, `I8088Proof` those about the 8088's instructions, its arithmetic, its stack and its repeated strings, `ProcessorsProof` those about the two processors and about the 8085's stack and arithmetic |

### From the code to the models

*Interrupts.* A set of lines stands for each 8-bit register, and the functions
of e8259.c become operators with the same name on a record. The whole board is
one record that operators transform in call order; `Become` assigns it. In the
chain described above the acknowledgements happen on the way in and the traps on
the way out, so `CheckMaster` first acknowledges (`AckAll`), remembering the
open frames, and then returns from them innermost first (`ReturnAll`). Each
acknowledgement removes one of eight requests and adds none, so eight steps
suffice; that they do is what `MasterSettled` shows. `phase` is the position in
`z100singleinstruction`; `log` records what a step did to interrupts.

`SameLabel` stands for a property of the build. `e8259_inta` compares
`master_pic->label == "MASTER"` (e8259.c:354), the address of a string literal of
e8259.c with one that mainboard.c passed to `e8259_new`. The Makefile compiles each
file by a plain `gcc -c` and nothing merges the literals of different objects, so in
this build the comparison is false and the secondary is never asked for its vector;
the binary in the repository, `z100`, passes one address and compares with another.
`SameLabel` is FALSE in every run. A build that merges them is covered by the proofs,
which hold for both values.

*Timers.* `rw`, `cr_wr`, `ol_rd` and `cnt_rd` are sets of halves, a byte has
`Radix` values (256 in the code). One action is one instruction that accesses a
port (16-bit `in` and `out` access the same port twice), then `ClockTimer`
adds its cycles. The history variables `age` and `count` know the clocks since
the last change of OUT and the count software believes it has written,
independently of the registers.

*Keyboard.* The two threads take turns at single accesses to the shared
variables. `ui` and `emu` are their positions. Actions that hold the mutex and
touch only variables the other thread cannot reach are joined.

*Floppy.* `w` is the struct `JWD1797`; each function of jwd1797.c is an operator
on it, applied in call order within `DoCycle`. A turn of the loop is at most one
port access and then `DoJWD1797Cycle`. The delays are counters of microseconds in
the code; in the model the environment says which of the running ones end in this
cycle (`t.fired`), and whether a byte has passed under the head (`t.byte`). The
track is the array `assembleFormattedDiskArray` builds, at reduced lengths:
gaps, sync zeros, ID fields, data fields. The image `disk` maps a place (track,
side, sector) to its bytes. `sent`, `origin`, `turns` and `legal` are history: the
bytes READ SECTOR put into the data register, the sector it began with, the turns
of the disk since, and whether software has kept the rules of jwd1797.h 37-43.

*Processors.* `PerformInstruction(m, e)` and `I8085!DoInstruction8085(m, e)` cover
the whole opcode map; what waits in the interrupt list is taken after the
instruction, and after the trap its swap port write may have caused. Families that the code writes out once for each width or
register are one operator with a parameter. Registers are functions from their
number in the instruction; a flag is 0 or 1; memory is a function with finite
domain, zero elsewhere. Locals that the code reads without setting are fields of
`e`, chosen freely. The same interrupt list that `Interrupts` checks as a ring is a
sequence here. Both modules were compared with the compiled C, by running each on
random machines and instructions (some 24000 of the 8088 and 12000 of the 8085)
and comparing every register, flag and byte written; they differ only in the
uninitialised locals.

*Console.* The constants are the sizes of the page, the pitch and the video
memory; a character of the page is one cell, its sixteen scan lines and eight
colours abstracted to the code that drew them. `Screen` is what `renderScreen`
shows: rows 1 to `Rows - 1` and the row below.

*CP/M disks.* An image is a sequence of bytes, a file a sequence or `Missing`.
`Command(d)` is case 0xF of the port switch; `DrivePort` is case 0xE, which falls
through into it.

*Debugger.* `at` is where the emulator thread is: testing the pause, in an
instruction, at the breakpoint test, reading the console, at the debugger's
prompt, or leaving it. `window` is where `togglePause` is, between its test and its
act. `started` counts the instructions begun since the pause was asked for.

## 3. Runs

| run | asks | instance |
|---|---|---|
| `controllers` | INT of both controllers tells the truth and the cascade line is latched; with AEOI and rotating priorities interrupts nest, acknowledgements go from high to low, none is lost while IF is set | timer and floppy; ICWs and OCWs in every order, `SameLabel` FALSE |
| `cascade_vector` | whether an acknowledged cascade line gives a vector of the secondary (it does not) | VSYNC, timer and floppy; the control words of an initialisation, masks and EOIs |
| `cascade_twice` | whether a second INT of the secondary reaches the master (it does not) | the same |
| `traps` | the interrupt list is a FIFO, it fills up only while interrupts are held off, nothing is taken during that time, what is accepted is taken; swaps, parity and `reset()` | list of 3 slots, every instruction kind, fair; keyboard, VSYNC, parity, debugger and `int n` |
| `timer_modes` | OUT of counter 2 changes exactly on time in every mode that counts | bytes of 4 values, counters of 16 |
| `timer_cascade` | the same for counter 0 and for counter 1 behind it; latched reads are whole | bytes of 2 values, counters of 4 |
| `key_ring` | the ring implements `KeyQueue` | ring of 3, control, a letter and a cursor key |
| `key_live` | a key waits for the 8088 only with a request, every key interrupts, port 2 returns | ring of 4, fair, no reset |
| `floppy` | registers in range, busy bit and `command_done` agree, the head stays on the disk (`Coherent`); a command ends with INTRQ and INTRQ has a reason; READ SECTOR delivers whole sectors; SEEK and RESTORE arrive; verification compares the track under the head; WRITE SECTOR changes one sector of the right drive; a search takes the whole number of turns | two cylinders, two sides, two sectors of two bytes, ten kinds of program |
| `floppy_live` | every command ends; a processor stalled for a byte that a READ SECTOR has still to deliver goes on without the help of an interrupt | the same disk, six kinds of program, fair |
| `processors` | multi-byte sums, decimal arithmetic, divisions, shifts; comparisons and their jumps; string instructions; stacks; an interrupt can be undone by IRET; the prefetch queue; the hand-over between the processors; every program ends | machine programs of 3 to 20 bytes on 20 kinds of computation |
| `board` | the console implements `Terminal`; disk commands move one sector and save drive A; a pause stops the loop and is answered | page of 3 rows and 2 columns; sectors of two bytes, a CP/M image of one and a half and a protected one of a half, which may be missing; 2 keys |

Two runs find disagreements between the code and its comments (the findings of
`PROJECT.json`). `cascade_twice`: the comment says an INT of the secondary raises IR3
of the master; the code does so once, since IR3 never falls again.
`cascade_vector`: the comment says that the master's acknowledge of a slave asks the
slave for its vector; the comparison that should tell the master is never true, so the
8088 gets the master's own vector of IR3.

### Bounds and why they are enough

* `QueueSize` (100 in the code): the ring wraps, holds several numbers and
  empties with 3 slots. Full, it reads as empty and all its numbers are lost: `traps`
  reaches that too, with interrupts held off, as `FillsHeldOff` says.
* Lines: all eight lines of each controller exist; the devices of a run drive
  two or three of them, which reaches every relation of two priorities, and the
  run `controllers` moves the pointer around them.
* Port writes: bytes are chosen one for each case of the decoding, and are
  written in every order, so incomplete initialisations occur.
* `Radix` 4 (or 2): counts 0, 1, 2, odd, even and the largest all exist, carry
  between the halves happens.
* `MaxBacklog` bounds the cycles owed, `Costs` the cycles of an instruction; in
  these runs no instruction is longer than a clock, so the bound is never met.
* `Ring` 3 or 4: empty, full and wrapped rings, and a put torn at each point.
* Floppy: with two cylinders a head can be on track 0, on the last track and
  (`Lowest` = -1, `Highest` = 3) off the disk on either side; two sides and two
  sectors make every comparison of an ID field able to fail; two bytes per sector
  have a first and a last. Gaps, limits and pulse counts are reduced in proportion,
  and the assumptions of the module say what relations they must keep. Each kind of
  program fixes the few bytes that may be written to each port, at any moment.
* Processors: operands at the ends of the unsigned and signed ranges and around
  the carries between the bytes; every instruction of a family; interrupts at any
  of the instructions of a program. `MaxPrefixes` is 3: an endless run of prefixes
  never ends in the code either.
* Board: a page of two rows that are written and a blank one scrolls, wraps and
  meets both margins; addresses of two values for each half; `MaxKeys` = 2: a key
  is there, or not, or comes while another is waiting.

### Fairness

* `Interrupts!FairSpec`: the emulator thread loops for ever (weak fairness of
  its step), and a program that runs for ever executes infinitely many
  instructions that neither hold interrupts off nor wait (strong fairness).
  Without the second assumption the property fails: a loop of `pop ss` starves
  interrupts, in the code as on the chip.
* `Keyboard!FairSpec`: both threads run for ever; a read that could get the
  mutex infinitely often gets it (strong fairness of `ReceiveKey`): `keyaction`
  holds the mutex for a few stores per key.
* `Jwd1797!Fairness`: the loop calls `doJWD1797Cycle` for ever and virtual time
  passes: the disk turns (the pointer is at the index again and again), each delay
  that runs ends, and a head that is being stepped does not stay where it is.
* `Processors!FairSpec`: instructions are executed again and again. This includes
  an assumption that no run establishes: an input from B3 that stalls a processor
  ends. `StalledReadEnds` of `floppy_live` shows it of the bytes that a READ SECTOR
  has still to deliver; a program that waits for more may hang (section 5).
* `Board!FairSpec`: the emulator thread is scheduled (weak fairness of its
  steps). The user owes nothing: the debugger's prompt may wait for ever.

## 4. Theorems

All are checked by `tlapm` with no step left out.

*Interrupts.* The invariant is `IInv` of `InterruptsProof`: type correctness,
`MasterSettled`, `SecondarySettled`, `LinesLatched`, and that the interrupt list is
shorter than the ring (`QueueBounded`, a matter of types and no property of its own).
It is inductive for every set of port writes, devices, instructions and every ring
size. The proof follows the code: lemmas give for each operator of `E8259` which
registers it moves and that requests stay on raised lines; the board lemmas say
that each operator keeps a board *wired* (the levels agree) and *sound*. The
step that needs an argument is the nested chain: a counting lemma (`Budget`)
shows that each acknowledgement takes a request out of IRR and puts none in, so
after eight steps nothing is deliverable. `MasterSettled` alone is not
inductive: a raised INT would let `CheckMaster` skip the call, and a cascade
line that is low would let the secondary's request be forgotten, hence the
conjunction.

Six action properties follow from the same invariant: `InterruptsTakenInOrder`,
`InterruptsHeldOff`, `ListFillsHeldOff`, `NestingByPriority`, `AcknowledgesDescend` and
`NothingLostWithIF`. They speak of the log of a step, so the lemmas relate the
board before and after each operator of a chain rather than describe a single
board: what was `taken`, followed by the list, is the list of before followed by
what was `accepted` (`Carries`); on the way in each acknowledgement outranks the last
and outranks all that still wait (`Descends`).
`OneChain` puts these together for a chain that begins with
nothing acknowledged, `Story` for any, and `Told` and `Begun` say where in a step
of the loop the log is still empty. `NextTells` then has one step for each action.

Proving them corrected the properties: with a forced parity error one instruction
may run two chains, the fetch's and then that of its port write, and the second
may acknowledge a line that outranks nothing the first one did. TLC shows such a
step once the parity latch is armed in `controllers`. `NestsByPriority`,
`AcksDescend` and `NoLossWithIF` are therefore about steps in which no parity
error is forced (`~ParityArmed`), that is, about one chain.

*Timers.* The invariant is `IInv` of `TimersProof`: type correctness, and for
each counter whose latched value is not read completely, that both halves of
the output latch belong to the word `snap`. It is inductive for every even
`Radix`, every set of control words and bytes and every cost. `LatchedReads`
alone is not inductive: it speaks of the next half only, and after the low half
is read the high one must still belong to the same word. Lemmas give what each
operator of `E8253` does to a counter's type and latch; those that count, load or
write *keep* the latch (`Keeps`), so the unit that a chain of clocks and callbacks
transforms stays `Sound` through every link of the chain. The only arithmetic is
that of words and their halves (`Joined`, `Halved`).

`OutputsOnTime` proves `OutOnTime`: every counter with a complete count changes OUT
at exactly the clock its mode asks for. The invariant (`TimedInv`) adds that each
counter is on `Schedule`, that is, what its value must be at the age it has: in mode 0
the clocks left (`Falling`), in mode 2 one more (`Dividing`), in mode 3 twice as many,
or zero or the even count at the start of a half period (`Halving`). `TickScheduled`
shows that a clock keeps the schedule and is `Punctual`; `WriteScheduled` that the
last half of a count starts one. Two facts make the step of the whole timer hold.
A counter is clocked at most once in a step, so it is punctual with respect to the
state before the step: counters 0 and 2 by the timer, counter 1 by OUT 0. And a
16-bit write of counter 0 clocks counter 1 at most once: a first byte that changes
OUT leaves it where the second byte does not change it (`SecondWrite`).

*Keyboard.* `KeyboardImplementsQueue` is the refinement of `KeyQueue` for every
size of the ring and every set of keys. The invariant `KeyboardInv` adds to the
types what a put under way has done so far: the code is in the slot of the tail,
and the tail loaded is the tail there is, unless a clear tore the put. Lemmas on
remainders (`Wrapped`, `Lengths`) say which slots hold the keys that wait; then
taking a key is `Tail` of the queue (`KeyTaken`), and moving the tail on is
`Append`, or loses all when the ring was full (`KeyPut`). Each step of the two
threads then shows a step of the queue or a stutter. `KeysAnnounced` proves
`KeyAnnounced` for command sets without "reset", which withdraws the request (see
section 5).

*Board.* Each part has its invariant and the board the conjunction. The
console's, `ConsoleInv`, is the types and that the bottom row is blank: scrolling
copies rows up, so without it the refinement mapping would not show a blank row
coming in. `BoardActsAsTerminal` is the refinement of `Terminal`, for every page
and memory; lemmas say what drawing, clearing and scrolling do to the page that
`renderScreen` shows (`PageOf...`). `DiskInv` is the types and `DriveASaved`; the
step that needs the arithmetic is `WriteSector`, which may write past the end of
neither the image nor the memory. `PauseInv` bounds the instructions begun after a
pause by where the emulator thread is. `BoardCoherent`, `BoardStopsSoon` and
`BoardWritesOneSector` follow.

*Floppy.* `FloppyCoherent` proves `Coherent` for every geometry, format, image
and limit that the assumptions allow. The invariant is `FloppyInv`: the types;
that the controller is `Sound`, that is, executing a command (busy, not done), done
(not busy) or never used; that the count of idle pulses is below its limit between
two cycles; and, if software kept the rules, that the head is `Safe`. Two of
these are the strengthening. A SEEK compares the track register with the data
register and steps the head blindly, so `Safe` says that a SEEK that has not
arrived has the head's track in the track register and a track of the disk in
the data register: without that the head could leave the disk. And the misses of
the search for a data mark are below their limit while a type II command runs, or
the count would pass its range. `TypeOK` needs that what comes under the head is a
byte: the first lemmas say how long the parts of the formatted track are
(`TrackHeaderBytes`, `SectorBytesBytes`, `FormattedBytes`). Then the proof follows
the code. What changes neither the command nor the head is `Like`; a step of a
command that moves no head `Goes`, to a command that still runs or is over; moving
the head `Moves` it safely; and every stage of a cycle `Keeps` what is sound and
safe (`DoCycleKeeps`). A port access gives the same (`Given`) unless it sends a SEEK
off the disk, which is what `legal` remembers (`CommandWriteGiven`,
`DataWrittenGiven`, `TrackedGiven`).

Four action properties follow. `CommandsInterrupt` and `InterruptsHaveReason` need
what each stage of a cycle does to `intrq` and the command (`Signals`), joined over
the cycle by `Cycles`; a port access is `Heeds`, after which the cycle starts from
the state it left. Neither needs software to keep the rules. `HeadArrives` uses the
same `Safe` as `Coherent`: a SEEK ends a move only when the two registers agree,
and then the head is on their track (`Arrived`). `SearchesInFull` is not a
consequence of `FloppyInv`: the index pulses of a search must not exceed the turns
of the disk since its command. That is the invariant `Searched`, proved beside it;
`Turns` says that a cycle adds a pulse only if it adds a turn.

*The sectors of the floppy.* `TrackIsVerified`, `OneSectorIsWritten` and
`SectorsAreWhole` prove `VerifiedTrack`, `WritesOneSector` and `WholeSectors`: the
controller finds what it was asked for, wherever the disk was when the command came.
The lemmas on the track come first: `SectorLayout` says which byte is where in a
sector, `TrueMark` that the bytes of an ID mark occur nowhere but in front of an ID
field. The invariant has three layers. `Sought` says where a command is on the track:
no byte has gone by unseen since its search began (`Steady`), so the A1s counted are
those just passed, the bytes collected those behind a mark (`Seen`), and a command
that has its ID field is at the place behind it that its own counters say (`Reads`).
`Agrees` adds that the registers still name the sector found, as long as software
keeps the rules; `Transfers` that the bytes sent so far are the beginning of those
asked for. No single one is inductive without the one before it. Most operators leave
all of this `Even`; a step of a type II command is one of `Ended`, `SearchesOn`,
`Matched`, `Marking`, `Delivered`, `Continued`, and every step of the specification one
of `Stays`, `Starts`, `Rewrites`, `Resets`, `Turned` (`NextSteps`). For WRITE SECTOR
the place in the image is computed from the ID field by multiplication and found
again by division (`PlaceFound`).

These three theorems have hypotheses the other ones do not need:

* `[]NoFalseMarks`: no sector ever holds, and nothing outside the array ever shows,
  the bytes A1 (`PrefixLength` of them) and FE that make an ID mark. The code knows a
  mark by its bytes alone and takes data for one that looks like it, if the search
  happens to begin in front of it. TLC, given `NoFalseMarks` as an invariant, finds it
  true in every state of the instance of the run `floppy`, whose programs write sectors;
* `Heads = 2` for the first and the third: `getFDiskByte` skips two tracks for each
  cylinder (jwd1797.c:1839), so on a disk with one head every step of the head passes
  two cylinders of the array, and what is under the head on cylinder 1 is cylinder 2.
  The code accepts images with one head (jwd1797.c:1623, 1638), and for those both
  properties are false, as TLC shows on three cylinders.

*Processors.* `ProcessorsCoherent` proves `Coherent` for every program and every
memory it starts with (`BootAssumption`), every answer of the ports and every
interrupt: registers, flags and memory keep their widths, the interrupt list its
bytes, and the prefetch queue is *coherent*. The code neither compares the queue
with memory nor flushes it on a write, so an instruction may run on bytes that it
or the other processor has just overwritten. What holds is that a step that begins
with the queue in agreement with memory ends with it in agreement at the place where
the 8088 goes on, or with what memory held there when the step began
(`QueueTracks`). The proof composes relations
between the machines before and after an operator: nothing fetched and nothing
moved (`Stays`), fetched and kept in step with the old memory (`Led`, `Trails`),
flushed against the new one (`Settles`); `Keeps` is what all instructions have in
common. There is a lemma for each operator of `I8088` and one for each family of
instructions, and `InstructionKeeps` is all of `doInstruction8088`. A repeated
string instruction is a recursive function of CX (`Rounds`). The library's induction
theorems take an operator as a parameter, which the provers cannot instantiate, so
`Least` and `Inductive` state induction over a set of numbers, from the library's
theorem on well-founded relations, and `Recursion` obtains the function's
defining equation from them. The bitwise operators work on nibbles by tables; that
they stay in range is a lemma on four bits (`NibblesCombine`).

*Arithmetic of the 8088.* The second part of `I8088Proof` is about what the
instructions compute, for all operands, where the run `processors` takes the ends of
the ranges. `ComparisonsDecide`: after CMP of bytes or words each conditional jump
decides the order it is named for, unsigned or signed, also when the difference
overflows. `BytewiseSum` and `BytewiseDifference`: two 8-bit instructions joined by
the carry are the 16-bit sum or difference, with its carry and its signed
overflow. `ProductMultiplies` and `DivisionDivides`: the pairs of words that stand for
the 32-bit numbers of C multiply and divide as numbers. `DivisionsDivideOrTrap`
and `SignedDivisionsDivideOrTrap`: DIV, and IDIV by a byte, trap exactly when the
divisor is zero or the quotient does not fit, and otherwise leave the quotient and
remainder of that division, towards zero with the sign of the dividend. IDIV of
a word has no such theorem: the code takes its signs from locals that are not set
(section 5).

*The stack of the 8088.* `ProcessorsUndone` proves `InterruptsUndone`: in every
program a request either leaves all of the 8088 but its list of requests as it is, or
an IRET right after the step would give back every register, every flag and the
place. The third part of `I8088Proof` says the same of what may lie in between:
`InterruptReturns`, `CallReturns` and `FarCallReturns` take any machine at which an
interrupt or a call happens and *any* machine that reaches the return with the stack
as it was left, whatever a handler did to the other registers and to memory. Its
hypothesis `SameStack` names the stack segment, the stack pointer and the bytes from
the top; the machine the interrupt left is one that satisfies it. The proof counts
bytes from the top of the stack modulo 2^16 (`StackByte`), so that a stack which wraps
around its segment needs no case of its own: a push puts two bytes before the others
(`Pushed`), a drop uncovers the ones behind (`Dropped`), and the arithmetic is that ten
offsets in a row are different addresses (`OffsetsDiffer`, `PhysDiffer`). `FlagsReturn`
shows that the nine flags come back from the word that held them, `InterruptSaves` what
is on the stack when the handler begins, `IretRestores` what IRET makes of that. None
needs an invariant but type correctness. For the step of `Processors`, `Reversible`
adds that nothing else of the processor changes; the access that switches the
processor in the same step touches no register of the 8088.

*Repeated string instructions.* The fourth part of `I8088Proof` is about the rounds that
CX counts, for every count, for bytes and words, in both directions and over the end of
a segment. `ScansStop`: a repeated CMPS or SCAS has compared just the elements up to the
first that ends it, or all of them; CX, the indices and the zero flag tell which.
`BlocksFilled`: a repeated MOVS or STOS leaves every byte of the source, or of AX, in
its place in the destination and no other byte of memory changed. `RoundsAre` unfolds
the recursive function into its rounds, and the induction hypotheses say what k of them
have done (`AfterRounds` and `LookedAt`, `Filled`). The second theorem has two
hypotheses. The block fits in a segment, so its cells are different addresses
(`TargetsDiffer`): a longer one comes round and meets itself. And no byte is overwritten
before it is moved (`Unspoilt`), which is true of a store, of blocks that do not overlap,
and of those that do when the direction is the right one.

*Decimal arithmetic.* `DecimalSum` and `DecimalDifference`: on bytes of two decimal
digits, ADD or ADC and then DAA leave the digits of the decimal sum and its carry, SUB or
SBB and then DAS those of the difference and its borrow, so that the carry joins bytes to
numbers of any length. The code corrects with conditions of its own: the upper digit is
looked at after the lower one has been corrected, and a correction that leaves the byte
sets the carry. `DigitsAdded` and `DigitsSubtracted` show that these are the right ones.

*The 8085.* The last two sections of `ProcessorsProof` say the same of the other
processor. `SubroutineReturns`: a machine that reaches a return with the stack pointer
and the word on the top as CALL, a conditional call or RST left them is then behind the
call with the stack pointer of before, and in nothing else changed, also when the stack
wraps around from 0. `PushedPairReturns` is that of PUSH and POP, with the flags that come
back from their byte. `Bytewise8085`: ADD and ADC, SUB and SBB join bytes to words, and
CMP decides the order of bytes. There is no decimal theorem: DAA of the 8085 loses a carry
the addition had (section 5).

Assumptions are those the modules name (`ASSUME`), which TLC evaluates on every
run: sizes are positive and related as the code's are, names and files well
formed.

Model-checked only:

* liveness (`AcceptedIsTaken`, `KeyTraps`, `ReceiveReturns`, `CommandsEnd`,
  `StalledReadEnds`, `Finishes`, `PauseAnswered`): fairness and ENABLED are outside the prover;
* `Calculations`, `Conditions`, `StringsScan` and `Undisturbed` of the processors,
  which say what particular programs leave behind. They follow the programs
  instruction by instruction, and an inductive invariant of them would repeat each
  program. What does not depend on the program is proved: the arithmetic for all
  operands, the comparisons, the rounds of a repeated string instruction for every
  count, and that calls and interrupts come back for all machines.

## 5. Observations without a property

What the code does and no run is about, recorded so that nobody takes it for an
oversight of the model.

*Interrupts*

* A maskable interrupt accepted while held off is taken later even if `cli`
  comes in between; one that arrives with IF = 0 is dropped although its line is
  in service, so an EOI is never sent for it.
* In AEOI mode a chain of nested acknowledgements delivers the lowest line first
  and drops the others, since the first trap clears IF.
* The branch of `e8259_inta` for an acknowledge without a request, which "should
  not happen" (e8259.c:322-325), is reached when the floppy's status is read
  before IR3 is acknowledged.
* The swap line and the timer line of the master are, like its cascade line,
  raised and never lowered (mainboard.c:1098): only the first write of the swap
  port with bit 1 set, and only the first edge of OUT 0 or OUT 2, makes a request.
* `interruptFunctionCall` traps the 8088 whatever the active processor is, so the
  idle 8088 may be vectored while the 8085 runs (mainboard.c:1100-1103 speaks of
  the active processor).
* An interrupt put in the list while `enable_interrupts` is 0 is not taken while
  the processor is in a wait state.

*Timer*

* `e8253_set_status` clears `timerTwo` whatever is written (`(value&2)==1`), and
  sets OUT 2 low without its callback (e8253.c:578); mode 2 never sets a status
  flag unless the count is 0; `reset()` does not reset the 8253.
* A mode 2 counter that reloads between the two writes of a new count takes half
  of it; a running mode 3 counter with an odd count has a period shorter by one.
* At most one clock is given per instruction, so cycles owed pile up
  (mainboard.c:385-387; 245-247 say a clock every 20 cycles).
* Counter 1 is clocked by both edges of OUT 0 (mainboard.c:425-432).
* Instructions of the 8085 count no cycles (8085.c:123, 1525), so virtual time
  and the timer stand still while it runs.

*Keyboard*

* Command 0 withdraws the interrupt request after emptying the ring, so a key
  pressed in between waits unannounced; `KeyAnnounced` is stated without that
  command (keyboard.c:182).
* A read of an empty ring answers the last key once more (keyboard.c:105).
* Reading the console while the simulation is paused returns NUL.

*Floppy*

* `resetJWD1797` clears `intrq` without lowering the line of the controller.
* The control latch's bit 6 is ignored by the wait-state test.
* `delayed_HLD` stays set when a command finds the head already loaded.
* WRITE SECTOR never raises DRQ, and writes whatever the buffer holds; WRITE TRACK
  is not implemented and ends at once.
* The lost-data bit is cleared by a later byte read in time. Type III commands
  reset neither DRQ nor the counters of the search, so READ ADDRESS after a forced
  end may give up before six index holes (jwd1797.c:1190, 1861-1863).
* An immediate interrupt raises INTRQ again in each cycle until command D0.
* A read of port B3 stalls the 8088 until DRQ rises. If the command ends, or has
  given its last byte, while the program waits, only a trap gets the processor away,
  and nothing guarantees one: D0 ends a command without INTRQ; INTRQ reaches the
  master by IR3, which is raised once and never lowered (mainboard.c:415-423); `trap`
  drops a request that finds IF cleared (8088.c:160-175); and what waits in the list
  is not taken in a wait state (8088.c:606-612). Then the machine hangs until reset.
* STEP without update leaves the track register behind the head, and SEEK then
  steps by the register: the reason for `legal` in `HeadOnDisk`.
* `getFDiskByte` skips two tracks per cylinder even for disks with one side.
* The image array is a variable-length array of a function that has returned when
  it is used; the model reads it as if it were alive.

*8088*

* HLT sets a flag that nothing tests; `xlat` sign-extends AL; carry and overflow
  of IMUL look at the upper half only; RCL and RCR of a word by CL take CL
  modulo 9; AAM and AAD set flags from the word; LEA with a register operand uses
  the last effective address; LOOP with CX = 0 goes 65536 rounds (as it should).
* IDIV of a word takes signs from locals that are not set (8088.c:4097-4098);
  D0-D3 with /6 write back a local that is not set.
* A run of prefixes without end is followed for ever; a repeated string is one
  instruction and cannot be interrupted.
* The test for the wait state looks at memory, not at the prefetch queue; a swap of
  processors does not flush the queue; `reset8088` does not set
  `enable_interrupts`.

*8085*

* DAA loses a carry the addition had (99 + 99); ACI and SBI ignore the carry in
  the auxiliary carry; SP is not reset; no interrupt reaches it.
* `fetch|(fetch<<8)` evaluates its operands in an order C does not define; the
  model takes the low byte first, as the build does.

*Console and board*

* ESC Y sets the state to 1 instead of 2 (video.c:335-338): cursor addressing is
  dead code, and `Terminal` has none.
* The last of the 25 rows is always blank and row 0 is hidden by `renderScreen`;
  the drawn cursor is two rows off; the CRT registers only affect pixels.
* A write to CP/M drive B saves the bytes and the size of drive A
  (mainboard.c:876-882). `initcpmdisks` loads nothing when drive A's file is
  missing. The names of the images are shared with the floppy controller: after
  the debugger's `fa x.img`, a CP/M write puts the CP/M disk into `x.img`; and WRITE
  SECTOR writes into the named file without touching the image of the CP/M drive
  (jwd1797.c:2237-2287), unless the file ends in .cpm and is then loaded again.
  `DriveASaved` is about systems in which the floppy controller does not write.
* Each command of the floppy controller that reads or writes a sector or a track, and
  each reset, assembles its disk again; if that is a CP/M image, both CP/M drives are
  loaded again (jwd1797.c:1618-1631), and what was written to a protected drive or to
  drive B is gone. `Reassemble` models it.
* A guest that writes registers 14 and 15 of the CRT controller moves `cursorh` and
  `cursorl` where it likes (video.c:123-128), until the next character of the console
  sets them. That the cursor is on the page holds of programs that only use the
  console port.
* A pause asked for between `g` and the clearing of the pause is lost; the window's
  toggle may undo a breakpoint's stop; after the window's unpause the debugger
  stays at its prompt until a character is typed, which it swallows.
* `onCtrlC` installs a `struct sigaction` whose mask and flags are not set.

## 6. Not modelled

* The parity check of reads made inside `interrupt()` itself; reads of ports
  that change nothing; the acknowledge counters of the controllers; the ROM and
  bank bits of the memory latch; ports that only store or return a byte.
* Floating point virtual time: cycles are integers here, and the number of cycles
  of an instruction is reduced to what the loop distinguishes.
* Disk images of different geometries in the two drives; the debugger's reload of
  a floppy image.
* Colours, flashing, fonts, the CRT controller's registers. All change pixels only but
  14 and 15, the cursor's, which the console sets and a program might.
* Sectors that the floppy controller writes into a file that is a CP/M drive's too.
* The debugger's commands that print, disassemble or edit; the list of
  breakpoints, reduced to whether one is hit.
* Screen, rendering, GPIO, sound, printing: output only.
* `format.c`, `relloc.c`, the assembler and the guest software (`zbios.asm`,
  `zboot.asm`, CP/M): stand-alone tools, and programs the emulator runs, covered
  as any software that uses the ports.

## 7. What could come next

1. Two disk images with different geometries, where WRITE SECTOR computes the
   place from the wrong one.
2. The memory map: ROM options, bank switching and parity.
3. A proof that the programs of `processors` keep their stacks and their queue,
   from invariants of each program; the theorems on calls and interrupts are the
   steps it would compose.

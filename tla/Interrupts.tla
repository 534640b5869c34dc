----------------------------- MODULE Interrupts -----------------------------
(***************************************************************************)
(* The interrupt system of the Z-100: the master and the secondary 8259,   *)
(* the devices that drive their lines, the trap entry of the 8088 with its *)
(* queue of outstanding interrupts, the processor swap, and the order in   *)
(* which z100singleinstruction calls them (src/mainboard.c, src/8088.c).   *)
(*                                                                         *)
(* The emulator thread runs one function of z100singleinstruction after    *)
(* the other; "phase" names the next one.  The only other actor here is    *)
(* the user interface thread, which may request a keyboard interrupt       *)
(* between any two of them.  Every call chain that starts in one function  *)
(* (a line changes, the controller raises INT, the board acknowledges, the *)
(* 8088 traps, ...) runs to its end inside that function, so operators on  *)
(* a record of the whole board, applied in call order, are one action.     *)
(***************************************************************************)
EXTENDS E8259, Sequences

CONSTANTS
  SameLabel,     \* whether the two "MASTER" literals are one object
  QueueSize,     \* INTERRUPTLISTSIZE
  Devices,       \* the devices that may act
  PortWrites,    \* <<port, byte>>: the port writes software may perform
  Instructions,  \* the kinds of 8088 instructions software may execute
  SoftInts       \* the operands of its int instructions

DeviceNames  == {"keyboard", "vsync", "timer", "fdc", "parity", "debugger"}
InstrNames   == {"plain", "sti", "cli", "popf", "iret", "loadss", "wait"}
Ports        == {"F0", "F1", "F2", "F3", "F5", "FC", "FE"}

ASSUME LabelAssumption == SameLabel \in BOOLEAN
ASSUME QueueAssumption == QueueSize \in Nat /\ QueueSize > 1
ASSUME EnvAssumption ==
  /\ Devices \subseteq DeviceNames
  /\ PortWrites \subseteq Ports \X Byte
  /\ Instructions \subseteq InstrNames
  /\ SoftInts \subseteq Byte

VARIABLES
  master, secondary,  \* the two controllers
  cpu,                \* the 8088: IF (i), enable_interrupts, interruptlist
  active,             \* active_processor
  parity,             \* zeroParity and killParity of the memory control latch
  request,            \* keyboard->requestInterrupt
  phase,              \* the next function of z100singleinstruction
  log                 \* history: what the last step did to interrupts

vars == <<master, secondary, cpu, active, parity, request, phase, log>>

Phases == {"keyboard", "cpu", "vsync", "timer", "fdc"}

\* Lines of the master: parity error, processor swap, 8253, secondary, VSYNC.
ParityLine == 0
SwapLine == 1
TimerLine == 2
CascadeLine == 3
VsyncLine == 6

\* Line of the secondary driven by the floppy controller's INTRQ.
FdcLine == 0

KeyVector == 70   \* trap(computer->p8088, 6+64, 1)

(***************************************************************************)
(* The history of a step: the lines the master acknowledged, the vectors   *)
(* put in the interrupt list, taken by the 8088 and dropped by trap, and   *)
(* whether the interrupt list wrapped around.                              *)
(***************************************************************************)
NoLog == [acked |-> <<>>, accepted |-> <<>>, taken |-> <<>>, dropped |-> <<>>,
          wrapped |-> FALSE]

(* The board: everything a call chain of the emulator thread may change.   *)
(* "frames" are the lines whose e8259_inta has not returned yet, innermost *)
(* last; it is empty between actions.                                      *)
Board == [m |-> master, s |-> secondary, cpu |-> cpu, active |-> active,
          parity |-> parity, request |-> request, frames |-> <<>>, log |-> NoLog]

Become(b) ==
  /\ master' = b.m
  /\ secondary' = b.s
  /\ cpu' = b.cpu
  /\ active' = b.active
  /\ parity' = b.parity
  /\ request' = b.request
  /\ log' = b.log

-----------------------------------------------------------------------------
(* The 8088's trap entry.                                                  *)

\* putinterrupt: the ring of QueueSize slots reads as empty when it is full.
Put(b, n) ==
  LET full == Len(b.cpu.queue) = QueueSize - 1
  IN [b EXCEPT !.cpu.queue = IF full THEN <<>> ELSE Append(@, n),
               !.log.accepted = Append(@, n),
               !.log.wrapped = @ \/ full]

\* getinterrupt and interrupt: the oldest number is vectored, IF is cleared.
TakeNewest(b) ==
  LET k == Len(b.cpu.queue)
  IN [b EXCEPT !.cpu.queue = SubSeq(@, 1, k - 1), !.cpu.if = FALSE,
               !.log.taken = Append(@, b.cpu.queue[k])]
Take(b) ==
  [b EXCEPT !.cpu.queue = Tail(@), !.cpu.if = FALSE,
            !.log.taken = Append(@, Head(b.cpu.queue))]

TakeIfWaitingNever(b) == b
TakeIfWaitingAlways(b) == IF b.cpu.queue # <<>> THEN Take(b) ELSE b
TakeIfWaiting(b) ==
  IF b.cpu.enabled /\ b.cpu.queue # <<>> THEN Take(b) ELSE b

\* trap(p8088, n, nonmaskable).
TrapLater(b, n, nonmaskable) ==
  IF b.cpu.if \/ nonmaskable THEN Put(b, n)
  ELSE [b EXCEPT !.log.dropped = Append(@, n)]
TrapLosesHeldOff(b, n, nonmaskable) ==
  TakeIfWaiting(IF b.cpu.enabled /\ (b.cpu.if \/ nonmaskable) THEN Put(b, n)
                ELSE [b EXCEPT !.log.dropped = Append(@, n)])
Trap(b, n, nonmaskable) ==
  TakeIfWaiting(IF b.cpu.if \/ nonmaskable THEN Put(b, n)
                ELSE [b EXCEPT !.log.dropped = Append(@, n)])

-----------------------------------------------------------------------------
(* The master's INT output calls interruptFunctionCall, which acknowledges *)
(* with e8259_inta, which checks INT again before it returns.  In AEOI     *)
(* mode that check acknowledges the next request inside the first call:    *)
(* the acknowledgements run from the highest request down, the returns     *)
(* (and the traps) in the opposite order.  A call takes one line out of    *)
(* irr and none puts one in, so eight steps of each exhaust the chain.     *)

(* One e8259_check_int of the master.  A request always finds INT low      *)
(* (MasterSettled), so raising it calls interruptFunctionCall at once.     *)
AckStep(b) ==
  IF IntRequested(b.m)
    THEN [b EXCEPT !.m = Acknowledge(b.m),
                   !.frames = Append(@, Highest(b.m, Pending(b.m))),
                   !.log.acked = Append(@, Highest(b.m, Pending(b.m)))]
    ELSE [b EXCEPT !.m.int = FALSE]

\* e8259_inta(secondary_pic, NULL): the board after it, and its vector.
IntaSecondary(b) ==
  IF Pending(b.s) = {}
    THEN [b EXCEPT !.s.int = FALSE]
    ELSE LET s == Acknowledge(b.s)
         IN [b EXCEPT !.s = [s EXCEPT !.int = IntRequested(s)]]

SecondaryVector(p) ==
  p.base + (IF Pending(p) = {} THEN 7 ELSE Highest(p, Pending(p)))

(* e8259_inta of the master returns for the innermost frame and            *)
(* interruptFunctionCall traps.  The secondary's check may raise its INT;  *)
(* its request to the master then ends in e8259_set_irq, the cascade line  *)
(* being high since the request that is being acknowledged (LinesLatched). *)
ReturnStep(b) ==
  IF b.frames = <<>> THEN b
  ELSE LET l == b.frames[Len(b.frames)]
           c == [b EXCEPT !.frames = SubSeq(@, 1, Len(@) - 1)]
       IN IF l = CascadeLine /\ SameLabel
            THEN Trap(IntaSecondary(c), SecondaryVector(b.s), FALSE)
            ELSE Trap(c, b.m.base + l, FALSE)

AckTwice(b) == AckStep(AckStep(b))
AckAllOnce(b) == AckStep(b)
AckAll(b) == AckTwice(AckTwice(AckTwice(AckTwice(b))))
ReturnTwice(b) == ReturnStep(ReturnStep(b))
ReturnAll(b) == ReturnTwice(ReturnTwice(ReturnTwice(ReturnTwice(b))))

\* e8259_check_int(e8259_master), with everything it calls.
CheckMaster(b) == ReturnAll(AckAll(b))

\* e8259_set_irq(e8259_master, l, 1) and (..., l, 0): a level that does not
\* change does nothing.
RaiseMaster(b, l) ==
  IF l \in b.m.inp THEN b ELSE CheckMaster([b EXCEPT !.m = Raise(b.m, l)])
LowerMaster(b, l) ==
  IF l \notin b.m.inp THEN b ELSE CheckMaster([b EXCEPT !.m = Lower(b.m, l)])

\* e8259_check_int(e8259_secondary): a rising INT raises the master's line 3
\* (cascadeInterruptFunctionCall); a falling one does not lower it.
CheckSecondaryNoCascade(b) == [b EXCEPT !.s.int = IntRequested(b.s)]
CheckSecondary(b) ==
  LET c == [b EXCEPT !.s.int = IntRequested(b.s)]
  IN IF IntRequested(b.s) /\ ~b.s.int THEN RaiseMaster(c, CascadeLine) ELSE c

RaiseSecondary(b, l) ==
  IF l \in b.s.inp THEN b ELSE CheckSecondary([b EXCEPT !.s = Raise(b.s, l)])
LowerSecondaryNoCheck(b, l) == [b EXCEPT !.s = Lower(b.s, l)]
LowerSecondary(b, l) ==
  IF l \notin b.s.inp THEN b ELSE CheckSecondary([b EXCEPT !.s = Lower(b.s, l)])
-----------------------------------------------------------------------------
(* Port writes, z100_port_write.  The swap port selects the processor and  *)
(* raises line 1; the memory control latch rearms the parity check.        *)
SwapPort(b, d) ==
  LET c == [b EXCEPT !.active = IF 7 \in Bits(d) THEN "8088" ELSE "8085"]
      r == IF 1 \in Bits(d) THEN RaiseMaster(c, SwapLine) ELSE c
  IN IF 0 \in Bits(d) THEN [r EXCEPT !.active = "8088"] ELSE r

MemoryLatch(b, d) ==
  LET tokill == 5 \notin Bits(d)
      c == [b EXCEPT !.parity.zero = 4 \notin Bits(d)]
      r == IF ~tokill /\ b.parity.kill THEN LowerMaster(c, ParityLine) ELSE c
  IN [r EXCEPT !.parity.kill = tokill]

WriteMaster(b, a, d) == CheckMaster([b EXCEPT !.m = WriteReg(b.m, a, d)])
WriteSecondary(b, a, d) == CheckSecondary([b EXCEPT !.s = WriteReg(b.s, a, d)])

PortWrite(b, port, d) ==
  CASE port = "F0" -> WriteSecondary(b, 0, d)
    [] port = "F1" -> WriteSecondary(b, 1, d)
    [] port = "F2" -> WriteMaster(b, 0, d)
    [] port = "F3" -> WriteMaster(b, 1, d)
    [] port = "F5" -> IF d = 0 THEN [b EXCEPT !.request = FALSE] ELSE b
    [] port = "FC" -> MemoryLatch(b, d)
    [] port = "FE" -> SwapPort(b, d)

(* Every memory read computes the parity of the byte and raises line 0     *)
(* when the check is on and the parity forced to zero.  Modelled for the   *)
(* reads of an instruction before its effect (not those of interrupt()).   *)
ParityArmed == "parity" \in Devices /\ parity.zero /\ ~parity.kill

OddReads == IF ParityArmed THEN {"none", "early", "late"} ELSE {"none"}

ReadOdd(b, odd) == IF odd THEN RaiseMaster(b, ParityLine) ELSE b
-----------------------------------------------------------------------------
(* The functions of z100singleinstruction.                                 *)

AtPhase(ph) == phase = ph
GoTo(ph) == phase' = ph

\* The keyboard test at the start of z100singleinstruction; "monitor" stands
\* for CS = 0xfc01, where the request is cleared without a trap.
KeyboardCheck ==
  /\ AtPhase("keyboard") /\ GoTo("cpu")
  /\ IF request /\ active = "8088"
       THEN \E monitor \in BOOLEAN :
              LET b == [Board EXCEPT !.request = FALSE]
              IN Become(IF monitor THEN b ELSE Trap(b, KeyVector, TRUE))
       ELSE Become(Board)

\* doInstruction8088 up to the effect of the instruction: the wait state
\* check reads memory, then enable_interrupts = 1, then the opcode is read.
Fetch8088(odd) ==
  LET b == ReadOdd(Board, odd = "early")
  IN ReadOdd([b EXCEPT !.cpu.enabled = TRUE], odd = "late")

\* The end of doInstruction8088: handleOutstandingInterrupts.
Retire8088(b) ==
  /\ AtPhase("cpu") /\ GoTo("vsync")
  /\ active = "8088"
  /\ Become(TakeIfWaiting(b))

\* In a wait state the instruction is not executed at all.
Wait8088 ==
  /\ AtPhase("cpu") /\ GoTo("vsync")
  /\ active = "8088" /\ "wait" \in Instructions
  /\ \E odd \in OddReads \ {"late"} : Become(ReadOdd(Board, odd = "early"))

Plain8088 ==
  /\ "plain" \in Instructions
  /\ \E odd \in OddReads : Retire8088(Fetch8088(odd))

Sti8088 ==
  /\ "sti" \in Instructions
  /\ \E odd \in OddReads : Retire8088([Fetch8088(odd) EXCEPT !.cpu.if = TRUE])

Cli8088 ==
  /\ "cli" \in Instructions
  /\ \E odd \in OddReads : Retire8088([Fetch8088(odd) EXCEPT !.cpu.if = FALSE])

\* pop ss and mov ss hold interrupts off until the next instruction ends.
LoadSS8088 ==
  /\ "loadss" \in Instructions
  /\ \E odd \in OddReads :
       Retire8088([Fetch8088(odd) EXCEPT !.cpu.enabled = FALSE])

\* popf and iret load IF from the stack; iret also holds interrupts off.
Popf8088 ==
  /\ "popf" \in Instructions
  /\ \E odd \in OddReads, i \in BOOLEAN :
       Retire8088([Fetch8088(odd) EXCEPT !.cpu.if = i])

Iret8088 ==
  /\ "iret" \in Instructions
  /\ \E odd \in OddReads, i \in BOOLEAN :
       Retire8088([Fetch8088(odd) EXCEPT !.cpu.if = i, !.cpu.enabled = FALSE])

Int8088 ==
  \E odd \in OddReads, n \in SoftInts : Retire8088(Trap(Fetch8088(odd), n, TRUE))

Out8088(w) ==
  \E odd \in OddReads : Retire8088(PortWrite(Fetch8088(odd), w[1], w[2]))

(* Reading the floppy controller's status or writing its command register  *)
(* drops INTRQ; a write to the 8253 may make an output change.             *)
AckFdc8088 ==
  /\ "fdc" \in Devices
  /\ \E odd \in OddReads : Retire8088(LowerSecondary(Fetch8088(odd), FdcLine))

SetTimer8088 ==
  /\ "timer" \in Devices
  /\ \E odd \in OddReads : Retire8088(RaiseMaster(Fetch8088(odd), TimerLine))

(* The 8085 has no interrupt input here: its instructions reach the        *)
(* controllers through the same ports, and they trap the idle 8088.        *)
Retire8085(b) ==
  /\ AtPhase("cpu") /\ GoTo("vsync")
  /\ active = "8085"
  /\ Become(b)

Fetch8085(odd) == ReadOdd(Board, odd)

Plain8085 ==
  \E odd \in {FALSE, ParityArmed} : Retire8085(Fetch8085(odd))

Out8085(w) ==
  \E odd \in {FALSE, ParityArmed} :
    Retire8085(PortWrite(Fetch8085(odd), w[1], w[2]))

AckFdc8085 ==
  /\ "fdc" \in Devices
  /\ \E odd \in {FALSE, ParityArmed} :
       Retire8085(LowerSecondary(Fetch8085(odd), FdcLine))

SetTimer8085 ==
  /\ "timer" \in Devices
  /\ \E odd \in {FALSE, ParityArmed} :
       Retire8085(RaiseMaster(Fetch8085(odd), TimerLine))

Execute ==
  \/ Wait8088 \/ Plain8088 \/ Sti8088 \/ Cli8088 \/ LoadSS8088 \/ Popf8088
  \/ Iret8088 \/ Int8088 \/ AckFdc8088 \/ SetTimer8088
  \/ Plain8085 \/ AckFdc8085 \/ SetTimer8085
  \/ \E w \in PortWrites : Out8088(w) \/ Out8085(w)

\* simulateVSYNCInterrupt: the pulse rises and falls inside the function.
SimulateVSYNC ==
  /\ AtPhase("vsync") /\ GoTo("timer")
  /\ \E due \in {FALSE, "vsync" \in Devices} :
       Become(IF due THEN LowerMaster(RaiseMaster(Board, VsyncLine), VsyncLine)
              ELSE Board)

\* handle8253TimerClockCycle: an edge of OUT 0 or OUT 2 raises line 2.
ClockTimer ==
  /\ AtPhase("timer") /\ GoTo("fdc")
  /\ \E edge \in {FALSE, "timer" \in Devices} :
       Become(IF edge THEN RaiseMaster(Board, TimerLine) ELSE Board)

\* doJWD1797Cycle: the end of a command raises INTRQ.
CycleFdc ==
  /\ AtPhase("fdc") /\ GoTo("keyboard")
  /\ \E intrq \in {FALSE, "fdc" \in Devices} :
       Become(IF intrq THEN RaiseSecondary(Board, FdcLine) ELSE Board)

\* keyaction, on the user interface thread.
KeyAction ==
  /\ "keyboard" \in Devices
  /\ request' = TRUE
  /\ log' = NoLog
  /\ UNCHANGED <<master, secondary, cpu, active, parity, phase>>

(* reset(), from the debugger between two instructions.  reset8088 refills *)
(* the prefetch queue before the parity latch is cleared.  e8259_reset     *)
(* ends in a check that finds nothing pending.                             *)
Reset ==
  /\ AtPhase("keyboard") /\ "debugger" \in Devices
  /\ \E odd \in {FALSE, ParityArmed} :
       LET b == ReadOdd([Board EXCEPT !.cpu.if = FALSE, !.cpu.queue = <<>>], odd)
       IN Become([b EXCEPT !.active = "8085",
                           !.parity = [zero |-> FALSE, kill |-> FALSE],
                           !.m = [ResetPic(b.m) EXCEPT !.int = FALSE],
                           !.s = [ResetPic(b.s) EXCEPT !.int = FALSE]])
  /\ UNCHANGED phase

Init ==
  /\ master = InitPic
  /\ secondary = InitPic
  /\ \E e \in BOOLEAN :   \* enable_interrupts is not initialised
       cpu = [if |-> FALSE, enabled |-> e, queue |-> <<>>]
  /\ active = "8085"
  /\ parity = [zero |-> FALSE, kill |-> FALSE]
  /\ request = FALSE
  /\ phase = "keyboard"
  /\ log = NoLog

EmulatorStep ==
  KeyboardCheck \/ Execute \/ SimulateVSYNC \/ ClockTimer \/ CycleFdc

Next == EmulatorStep \/ KeyAction \/ Reset

Spec == Init /\ [][Next]_vars

(***************************************************************************)
(* The emulator thread loops for ever, so some step of it is always taken. *)
(* A program that runs for ever executes infinitely many instructions that *)
(* neither load SS nor are an iret or stuck in a wait state.               *)
(***************************************************************************)
OrdinaryInstruction == Plain8088 \/ Sti8088 \/ Cli8088

FairSpec == Spec /\ WF_vars(EmulatorStep) /\ SF_vars(OrdinaryInstruction)
-----------------------------------------------------------------------------
(* Properties.                                                             *)

Elements(s) == {s[i] : i \in DOMAIN s}

Logs == [acked : Seq(Lines), accepted : Seq(Byte), taken : Seq(Byte),
         dropped : Seq(Byte), wrapped : BOOLEAN]

TypeOK ==
  /\ master \in Pics
  /\ secondary \in Pics
  /\ cpu \in [if : BOOLEAN, enabled : BOOLEAN, queue : Seq(Byte)]
  /\ active \in {"8085", "8088"}
  /\ parity \in [zero : BOOLEAN, kill : BOOLEAN]
  /\ request \in BOOLEAN
  /\ phase \in Phases
  /\ log \in Logs

(* Between two functions of the emulator loop the master has nothing left  *)
(* to deliver: no unmasked request outranks every unmasked line in         *)
(* service, and its INT output is low.  Every path that changes a register *)
(* ends in e8259_check_int, and the chain of nested acknowledgements is    *)
(* never cut short.                                                        *)
MasterSettled == ~IntRequested(master) /\ ~master.int

(* The secondary's INT output tells whether it has a request to deliver.   *)
SecondarySettled == secondary.int = IntRequested(secondary)

(* A request exists only on a line whose input is high, and the master's   *)
(* cascade input is high whenever the secondary asks for service: what     *)
(* e8259_inta relies on when it calls itself for the secondary.            *)
LinesLatched ==
  /\ master.irr \subseteq master.inp
  /\ secondary.irr \subseteq secondary.inp
  /\ secondary.int => CascadeLine \in master.inp

(* The interrupt list never exceeds the slots of its ring (Put's own test; *)
(* a part of the inductive invariant, not a claim about the code).         *)
QueueBounded == Len(cpu.queue) < QueueSize

(* Interrupts nest by priority: a line enters service only if it outranks  *)
(* every unmasked line that was in service before the step and still is    *)
(* (unless the step itself moved the priorities).  While forced parity     *)
(* errors are on, one instruction may run two chains of acknowledgements,  *)
(* its fetch and then its port write, and only each of them nests.         *)
NestsByPriority ==
  [][master'.prio = master.prio /\ ~ParityArmed =>
       \A l \in master'.isr \ master.isr :
         \A s \in (master.isr \cap master'.isr) \ master'.imr :
           Rank(master', l) < Rank(master', s)]_vars

(* The requests acknowledged in one chain go from the highest ranked to    *)
(* the lowest, as long as nothing rotates the priorities (and parity       *)
(* errors put no second chain into the step).                              *)
AcksDescend ==
  [][~master'.rot /\ master'.prio = master.prio /\ ~ParityArmed =>
       \A i, j \in DOMAIN log'.acked :
         i < j => Rank(master', log'.acked[i]) < Rank(master', log'.acked[j])]_vars

(* The 8088 takes interrupts in the order trap accepted them, none twice   *)
(* and none lost, unless the interrupt list wraps or reset() empties it.   *)
TakenInOrder ==
  [][phase' # phase /\ ~log'.wrapped =>
       log'.taken \o cpu'.queue = cpu.queue \o log'.accepted]_vars

(* The list grows, and can come to wrap, only in steps that begin with     *)
(* interrupts held off: any other step takes as many numbers as it queues, *)
(* so the ring overflows only if software holds interrupts off (SS loads,  *)
(* irets) while its every slot fills.                                      *)
FillsHeldOff ==
  [][cpu.enabled => /\ Len(cpu'.queue) <= Len(cpu.queue)
                    /\ log'.wrapped => Len(cpu.queue) = QueueSize - 1]_vars

(* After an instruction that loads SS, or an iret, the 8088 takes nothing  *)
(* until the next instruction has begun.                                   *)
HeldOff ==
  [][~cpu.enabled /\ phase # "cpu" => Len(log'.taken) = 0]_vars

(* Outside AEOI mode a step that starts with IF set loses no interrupt     *)
(* that the master acknowledges (while forced parity errors are off, which *)
(* may put a second chain into one instruction).  In AEOI mode             *)
(* the first of several nested traps clears IF, and the others are dropped *)
(* although the controller has acknowledged them.                          *)
NoLossWithIF ==
  [][cpu.if /\ ~master.aeoi /\ ~master'.aeoi /\ ~ParityArmed =>
       Len(log'.dropped) = 0]_vars

(* Acknowledging line 3 of the master yields a vector of the secondary.    *)
VectorFromSecondary ==
  [][secondary'.base # master'.base /\ CascadeLine \in Elements(log'.acked) =>
       \E v \in Elements(log'.accepted \o log'.dropped) :
         v \in secondary'.base .. secondary'.base + 7]_vars

(* A rising INT of the secondary puts a request on the master's line 3.    *)
SecondaryReachesMaster ==
  [][~secondary.int /\ secondary'.int =>
       CascadeLine \in master'.irr \cup Elements(log'.acked)]_vars

(* An interrupt that trap accepted is eventually taken, if the 8088 stays  *)
(* active and its list does not wrap.                                      *)
AcceptedIsTaken ==
  cpu.queue # <<>> ~> (log.taken # <<>> \/ log.wrapped \/ active = "8085")
=============================================================================

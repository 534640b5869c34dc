----------------------------- MODULE Processors -----------------------------
(***************************************************************************)
(* The two processors of the board as z100singleinstruction runs them: one *)
(* instruction of the active one at a time, on the memory they share.  The *)
(* devices are the environment: they may have the floppy's data byte ready *)
(* or not, answer a read with any byte of Answers, and interrupt the 8088  *)
(* between instructions (module Interrupts says when they do).             *)
(*                                                                         *)
(* program is what the machine was started with and never changes: Boot    *)
(* gives its memory and the two processors, and program.traps the most     *)
(* interrupts that come in while it runs.                                  *)
(***************************************************************************)
EXTENDS I8088

CONSTANTS Programs,       \* what the machine is started with
          Boot(_),        \* mem, x86, x85 and active of a program
          Vectors,        \* numbers the devices interrupt with
          Answers         \* bytes a port may return

VARIABLES x86, x85,       \* the processors
          mem,            \* the memory
          active,         \* active_processor
          cycles,         \* last_instruction_cycles, 2 for two and more
          instructions_done,   \* modulo 2
          taken,          \* interrupts the devices asked for
          program

vars == <<x86, x85, mem, active, cycles, instructions_done, taken, program>>

I85 == INSTANCE I8085

\* The devices pass bytes, and a program starts in registers of their widths.
ASSUME BootAssumption ==
  /\ Vectors \subseteq Bytes /\ Answers \subseteq Bytes
  /\ \A p \in Programs :
       /\ Boot(p).x86 \in Cpu8088 /\ Boot(p).x85 \in I85!Cpu8085 /\ IsMemory(Boot(p).mem)
       /\ Boot(p).active \in {"8088", "8085"} /\ p.traps \in Nat

Machine86 == [cpu |-> x86, mem |-> mem, out |-> <<>>]
Machine85 == [cpu |-> x85, mem |-> mem, out |-> <<>>]

\* What an instruction takes from elsewhere: port bytes, and in idiv with a
\* word the signs the code reads without having set them.
Environments86 ==
  LET x == Instruction(Machine86)
      reads == x.op \in {\he4, \he5, \hec, \hed}
      signs == IF x.op = \hf7 /\ x.reg = 7 THEN BOOLEAN ELSE {FALSE}
  IN  [in : IF reads THEN Answers \X Answers ELSE {<<0, 0>>},
       sign1 : signs, sign2 : signs, junk : {0}]
Environments85 ==
  [in : IF I85!Byte(Machine85, 0) = \hdb THEN {<<v, 0>> : v \in Answers} ELSE {<<0, 0>>}]

SwapPort == \hfe
Swaps(out) == SelectSeq(out, LAMBDA w : w[1] = SwapPort)

\* Bit 7 chooses the processor, bit 0 forces the 8088.
Chosen(d) == IF Bit(d, 7) = 1 \/ Bit(d, 0) = 1 THEN "8088" ELSE "8085"
Select(out) ==
  LET s == Swaps(out) IN IF s = <<>> THEN active ELSE Chosen(s[Len(s)][2])

\* Bit 1 raises line 1 of the controller, which may answer with an interrupt.
Silent == -1
SwapAnswers(out) ==
  IF \E k \in DOMAIN Swaps(out) : Bit(Swaps(out)[k][2], 1) = 1
  THEN Vectors \union {Silent} ELSE {Silent}
AnswerSwap(m, n) == IF n = Silent THEN m ELSE TrapMaskable(m, n)

Init ==
  /\ program \in Programs
  /\ x86 = PrefetchFlush([cpu |-> Boot(program).x86, mem |-> Boot(program).mem, out |-> <<>>]).cpu
  /\ x85 = Boot(program).x85
  /\ mem = Boot(program).mem
  /\ active = Boot(program).active
  /\ cycles = 1 /\ instructions_done = 0 /\ taken = 0

\* handle8088InstructionCycle; a wait passes one cycle and does nothing.
Wait8088 ==
  /\ active = "8088" /\ Waits8088(Machine86, FALSE)
  /\ cycles' = 1
  /\ UNCHANGED <<x86, x85, mem, active, instructions_done, taken, program>>

\* The swap port traps in the middle of an OUT, before a waiting number is taken.
Execute8088 ==
  /\ active = "8088"
  /\ \E e \in Environments86 :
       LET m == PerformInstruction(Machine86, e)
       IN  \E n \in SwapAnswers(m.out) :
             LET done == HandleOutstandingInterrupts(AnswerSwap(m, n))
             IN  x86' = done.cpu /\ mem' = done.mem /\ active' = Select(m.out)
  /\ cycles' = 2 /\ instructions_done' = 1 - instructions_done
  /\ UNCHANGED <<x85, taken, program>>

\* handle8085InstructionCycle.
Wait8085 ==
  /\ active = "8085" /\ I85!Waits8085(Machine85, FALSE)
  /\ cycles' = 1
  /\ UNCHANGED <<x86, x85, mem, active, instructions_done, taken, program>>

Execute8085 ==
  /\ active = "8085"
  /\ \E e \in Environments85 :
       LET m == I85!DoInstruction8085(Machine85, e)
           idle == [cpu |-> x86, mem |-> m.mem, out |-> <<>>]
       IN  \E n \in SwapAnswers(m.out) :
             /\ x85' = m.cpu
             /\ x86' = AnswerSwap(idle, n).cpu
             /\ mem' = AnswerSwap(idle, n).mem
             /\ active' = Select(m.out)
  /\ cycles' = IF x85.halted THEN 1 ELSE 0   \* doInstruction8085 counts none
  /\ instructions_done' = 1 - instructions_done
  /\ UNCHANGED <<taken, program>>

\* A device, the keyboard or the debugger interrupts between instructions,
\* whichever processor is active.
Interrupted ==
  /\ taken < program.traps
  /\ taken' = taken + 1
  /\ \E n \in Vectors, maskable \in BOOLEAN :
       LET m == IF maskable THEN TrapMaskable(Machine86, n) ELSE Trap(Machine86, n)
       IN  x86' = m.cpu /\ mem' = m.mem
  /\ UNCHANGED <<x85, active, cycles, instructions_done, program>>

Next == Wait8088 \/ Execute8088 \/ Wait8085 \/ Execute8085 \/ Interrupted

Spec == Init /\ [][Next]_vars

\* The loop runs for ever, and it is assumed that the data a read waits for comes
\* at last (the floppy controller gives it only while a transfer is on): the
\* counter of instructions never stops.
FairSpec == Spec /\ []<>(instructions_done = 0) /\ []<>(instructions_done = 1)

\* TYPE: no register, flag or byte of memory leaves its width, whatever the
\* instructions compute in wider C integers (8088.c:606-4348, 8085.c:115-1526).
TypeOK ==
  /\ x86 \in Cpu8088 /\ x85 \in I85!Cpu8085 /\ IsMemory(mem)
  /\ active \in {"8088", "8085"} /\ cycles \in 0..2 /\ instructions_done \in Bits
  /\ taken \in 0..program.traps

\* The queue holds the next bytes of the program; it holds what was there before.
QueueFollows == \A k \in 0..3 : x86.q[k] = At(Machine86, k)
QueueStale ==
  \A k \in 0..3 : x86'.q[k] = Read(Machine86, Phys(x86'.s[CS], (x86'.ip + k) % WordSize))

\* The prefetch queue holds the bytes of the instructions to come: every way
\* out of the sequence flushes it, so that after a step it can only differ from
\* memory by what that very step wrote there (8088.c:100-116).
QueueTracks == QueueFollows => QueueFollows' \/ QueueStale

\* What an IRET at the first instruction of m's handler would leave in c's place.
Resumes(c, m) ==
  LET r == Iret(m, Instruction(m)).cpu
  IN  r.held /\ [r EXCEPT !.q = c.q, !.held = c.held, !.list = c.list] = c

\* An interrupt can be undone. Whatever the 8088 was about to do when a device or
\* the swap port of the 8085 asks for one, the request either waits, and no
\* register or flag changes, or the processor was free to take it and an IRET
\* from the handler gives back every register and flag it had, also with the
\* stack wrapped around its segment (8088.c:118-136, 154-187, 3224-3245).
Undone ==
  taken' # taken \/ active = "8085" =>
    \/ [x86' EXCEPT !.list = x86.list] = x86
    \/ ~x86.held /\ Resumes(x86, Machine86')
InterruptsUndone == [][Undone]_vars

\* Widths at every moment, and the queue ahead of the program at every step, of
\* either processor and of the devices.
Coherent == []TypeOK /\ [][QueueTracks]_vars
=============================================================================

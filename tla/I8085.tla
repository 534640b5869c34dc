-------------------------------- MODULE I8085 -------------------------------
(***************************************************************************)
(* The 8085 of 8085.c: one instruction as a function from machine to       *)
(* machine, in the form of module I8088.  The processor is a record:       *)
(*                                                                         *)
(*   cpu.r    B C D E H L - A, by their number in an instruction           *)
(*   cpu.sp, cpu.pc, cpu.f   stack pointer, program counter, flags         *)
(*   cpu.ie, cpu.mask   what sim and rim know: the interrupt enable and    *)
(*                      the masks 7.5, 6.5, 5.5 as a number of three bits  *)
(*   cpu.halted   a hlt was executed: nothing but a reset ends it          *)
(*                                                                         *)
(* The code has no interrupts of the 8085.  An instruction is decoded by   *)
(* its octal digits x y z; the code lists the 244 cases one by one.        *)
(***************************************************************************)
EXTENDS Words, Sequences

B == 0
C == 1
D == 2
E == 3
H == 4
L == 5
M == 6
A == 7

\* The processor: every register and flag in its width.
Flags8085 == [c : Bits, p : Bits, ac : Bits, z : Bits, s : Bits]
Cpu8085 ==
  [r : [0..7 -> Bytes], sp : Words16, pc : Words16, f : Flags8085, ie : Bits, mask : 0..7,
   halted : BOOLEAN]

Joined(m, high, low) == Pair(m.cpu.r[high], m.cpu.r[low])
HL(m) == Joined(m, H, L)

\* The k-th byte from here, and the word that starts there.
Byte(m, k) == Read(m, (m.cpu.pc + k) % WordSize)
Word(m, k) == Pair(Byte(m, k + 1), Byte(m, k))
Past(m, n) == [m EXCEPT !.cpu.pc = (@ + n) % WordSize]

Operand(m, k) == IF k = M THEN Read(m, HL(m)) ELSE m.cpu.r[k]
SetOperand(m, k, v) ==
  IF k = M THEN Write(m, HL(m), Low(v)) ELSE [m EXCEPT !.cpu.r[k] = Low(v)]

\* Register pairs bc, de, hl and sp.
RP(m, p) == IF p = 3 THEN m.cpu.sp ELSE Joined(m, 2 * p, 2 * p + 1)
SetRP(m, p, v) ==
  IF p = 3 THEN [m EXCEPT !.cpu.sp = v % WordSize]
  ELSE [m EXCEPT !.cpu.r[2 * p] = High(v), !.cpu.r[2 * p + 1] = Low(v)]

Load(m, address) == Pair(Read(m, (address + 1) % WordSize), Read(m, address))
Store(m, address, v) ==
  Write(Write(m, address, Low(v)), (address + 1) % WordSize, High(v))
Push(m, v) ==
  LET sp == (m.cpu.sp - 2) % WordSize IN [Store(m, sp, v) EXCEPT !.cpu.sp = sp]
Top(m) == Load(m, m.cpu.sp)
Drop(m) == [m EXCEPT !.cpu.sp = (@ + 2) % WordSize]
Goto(m, pc) == [m EXCEPT !.cpu.pc = pc]

(* ------------------------------- arithmetic ------------------------------ *)

SignZeroParity(f, v) ==
  [f EXCEPT !.s = Bit(v, 7), !.z = Flag(Low(v) = 0), !.p = Parity(v)]

\* half is the carry the low digit takes in: none in the immediate forms.
Sum(f, a, b, carry, half) ==
  LET v == a + b + carry
  IN  [v |-> Low(v), f |-> [SignZeroParity(f, v) EXCEPT
                              !.c = Bit(v, 8), !.ac = Bit((a % 16) + (b % 16) + half, 4)]]
Difference(f, a, b, borrow, half) ==
  LET v == a - b - borrow
  IN  [v |-> Low(v), f |-> [SignZeroParity(f, v) EXCEPT
                              !.c = Bit(v, 8), !.ac = Bit((a % 16) - (b % 16) - half, 4)]]
Logic(f, v, ac) == [v |-> v, f |-> [SignZeroParity(f, v) EXCEPT !.c = 0, !.ac = ac]]

\* add adc sub sbb ana xra ora cmp of the accumulator and b.
Alu(m, y, b, immediate) ==
  LET a == m.cpu.r[A]
      f == m.cpu.f
      half == IF immediate THEN 0 ELSE f.c
      u == CASE y = 0 -> Sum(f, a, b, 0, 0) [] y = 1 -> Sum(f, a, b, f.c, half)
             [] y \in {2, 7} -> Difference(f, a, b, 0, 0)
             [] y = 3 -> Difference(f, a, b, f.c, half)
             [] y = 4 -> Logic(f, And(a, b), 1)
             [] y = 5 -> Logic(f, Xor(a, b), 0)
             [] y = 6 -> Logic(f, Or(a, b), 0)
  IN  [m EXCEPT !.cpu.f = u.f, !.cpu.r[A] = IF y = 7 THEN a ELSE u.v]

Inr(m, y) ==
  LET v == Operand(m, y) + 1
      f == [SignZeroParity(m.cpu.f, v) EXCEPT !.ac = Flag(v % 16 = 0)]
  IN  [SetOperand(m, y, v) EXCEPT !.cpu.f = f]
Dcr(m, y) ==
  LET v == Operand(m, y) - 1
      f == [SignZeroParity(m.cpu.f, v) EXCEPT !.ac = Flag(v % 16 = 15)]
  IN  [SetOperand(m, y, v) EXCEPT !.cpu.f = f]

Dad(m, p) ==
  LET v == HL(m) + RP(m, p) IN [SetRP(m, 2, v) EXCEPT !.cpu.f.c = Bit(v, 16)]

\* The carry of the adjustment replaces the one it started from.
Daa(m) ==
  LET a == m.cpu.r[A]
      f == m.cpu.f
      v == a + (IF a > 153 \/ f.c = 1 THEN 96 ELSE 0)
             + (IF a % 16 > 9 \/ f.ac = 1 THEN 6 ELSE 0)
  IN  [m EXCEPT !.cpu.r[A] = Low(v),
                !.cpu.f = [SignZeroParity(f, v) EXCEPT
                             !.c = Flag(v > 255), !.ac = (Bit(a, 4) + Bit(v, 4)) % 2]]

Accumulator(m, v, c) == [m EXCEPT !.cpu.r[A] = v, !.cpu.f.c = c]

\* rlc rrc ral rar daa cma stc cmc.
Rotate(m, y) ==
  LET a == m.cpu.r[A]
      c == m.cpu.f.c
  IN  CASE y = 0 -> Accumulator(m, Low(2 * a) + Bit(a, 7), Bit(a, 7))
        [] y = 1 -> Accumulator(m, (a \div 2) + 128 * (a % 2), a % 2)
        [] y = 2 -> Accumulator(m, Low(2 * a) + c, Bit(a, 7))
        [] y = 3 -> Accumulator(m, (a \div 2) + 128 * c, a % 2)
        [] y = 4 -> Daa(m)
        [] y = 5 -> Accumulator(m, 255 - a, c)
        [] y = 6 -> Accumulator(m, a, 1)
        [] y = 7 -> Accumulator(m, a, 1 - c)

(* --------------------------- moves, jumps, stack ------------------------- *)

\* stax ldax shld lhld sta lda; the first two with bc and de.
Indirect(m, y) ==
  LET a == m.cpu.r[A]
      address == Word(m, 0)
  IN  CASE y \in {0, 2} -> Write(m, RP(m, y \div 2), a)
        [] y \in {1, 3} -> SetOperand(m, A, Read(m, RP(m, y \div 2)))
        [] y = 4 -> Store(Past(m, 2), address, HL(m))
        [] y = 5 -> SetRP(Past(m, 2), 2, Load(m, address))
        [] y = 6 -> Write(Past(m, 2), address, a)
        [] y = 7 -> SetOperand(Past(m, 2), A, Read(m, address))

Rim(m) == SetOperand(m, A, 8 * m.cpu.ie + m.cpu.mask)
Sim(m) == [m EXCEPT !.cpu.ie = Bit(m.cpu.r[A], 3), !.cpu.mask = m.cpu.r[A] % 8]

\* nz z nc c po pe p m
Holds(f, y) == <<f.z, f.c, f.p, f.s>>[y \div 2 + 1] = y % 2

Jump(m, taken) == IF taken THEN Goto(m, Word(m, 0)) ELSE Past(m, 2)
CallIf(m, taken) ==
  LET t == Past(m, 2) IN IF taken THEN Goto(Push(t, t.cpu.pc), Word(m, 0)) ELSE t
ReturnIf(m, taken) == IF taken THEN Goto(Drop(m), Top(m)) ELSE m
Rst(m, y) == Goto(Push(m, m.cpu.pc), 8 * y)

\* The low byte of psw: s z 0 ac 0 p 1 c.
FlagByte(f) == 128 * f.s + 64 * f.z + 16 * f.ac + 4 * f.p + 2 + f.c
FlagsIn(v) ==
  [c |-> Bit(v, 0), p |-> Bit(v, 2), ac |-> Bit(v, 4), z |-> Bit(v, 6), s |-> Bit(v, 7)]
PushPair(m, p) ==
  Push(m, IF p = 3 THEN Pair(m.cpu.r[A], FlagByte(m.cpu.f)) ELSE RP(m, p))
PopPair(m, p) ==
  IF p = 3 THEN [SetOperand(Drop(m), A, High(Top(m))) EXCEPT !.cpu.f = FlagsIn(Low(Top(m)))]
  ELSE SetRP(Drop(m), p, Top(m))

Xthl(m) == SetRP(Store(m, m.cpu.sp, HL(m)), 2, Top(m))
Xchg(m) == SetRP(SetRP(m, 1, HL(m)), 2, RP(m, 1))

In(m, e) == SetOperand(Past(m, 1), A, e.in[1])
Out(m)   == [Past(m, 1) EXCEPT !.out = <<<<Byte(m, 0), m.cpu.r[A]>>>>]

(* ------------------------------ one instruction -------------------------- *)

\* 00-3f; of the first column only rim and sim do anything.
Lower(m, y, z) ==
  CASE z = 0 -> IF y = 4 THEN Rim(m) ELSE IF y = 6 THEN Sim(m) ELSE m
    [] z = 1 -> IF y % 2 = 0 THEN SetRP(Past(m, 2), y \div 2, Word(m, 0)) ELSE Dad(m, y \div 2)
    [] z = 2 -> Indirect(m, y)
    [] z = 3 -> SetRP(m, y \div 2, RP(m, y \div 2) + (IF y % 2 = 0 THEN 1 ELSE -1))
    [] z = 4 -> Inr(m, y)
    [] z = 5 -> Dcr(m, y)
    [] z = 6 -> SetOperand(Past(m, 1), y, Byte(m, 0))
    [] z = 7 -> Rotate(m, y)

\* c0-ff; cb, d9, dd, ed and fd have no case.
Upper(m, op, y, z, e) ==
  CASE z = 0 -> ReturnIf(m, Holds(m.cpu.f, y))
    [] z = 1 /\ y % 2 = 0 -> PopPair(m, y \div 2)
    [] op = \hc9 -> ReturnIf(m, TRUE)
    [] op = \he9 -> Goto(m, HL(m))
    [] op = \hf9 -> [m EXCEPT !.cpu.sp = HL(m)]
    [] z = 2 -> Jump(m, Holds(m.cpu.f, y))
    [] op = \hc3 -> Jump(m, TRUE)
    [] op = \hd3 -> Out(m)
    [] op = \hdb -> In(m, e)
    [] op = \he3 -> Xthl(m)
    [] op = \heb -> Xchg(m)
    [] op \in {\hf3, \hfb} -> [m EXCEPT !.cpu.ie = y % 2]
    [] z = 4 -> CallIf(m, Holds(m.cpu.f, y))
    [] z = 5 /\ y % 2 = 0 -> PushPair(m, y \div 2)
    [] op = \hcd -> CallIf(m, TRUE)
    [] z = 6 -> Alu(Past(m, 1), y, Byte(m, 0), TRUE)
    [] z = 7 -> Rst(m, y)
    [] OTHER -> m

DoInstruction8085(m, e) ==
  LET op == Byte(m, 0)
      y == (op \div 8) % 8
      z == op % 8
      t == [Past(m, 1) EXCEPT !.out = <<>>]
  IN  CASE m.cpu.halted -> [m EXCEPT !.out = <<>>]
        [] ~m.cpu.halted /\ op = \h76 -> [t EXCEPT !.cpu.halted = TRUE]
        [] ~m.cpu.halted /\ op < \h40 -> Lower(t, y, z)
        [] ~m.cpu.halted /\ op \in (\h40..\h7f) \ {\h76} -> SetOperand(t, y, Operand(t, z))
        [] ~m.cpu.halted /\ op \in \h80..\hbf -> Alu(t, y, Operand(t, z), FALSE)
        [] ~m.cpu.halted /\ op >= \hc0 -> Upper(t, op, y, z, e)

\* A read of the floppy's data port waits until the controller is ready.
Waits8085(m, ready) ==
  /\ ~m.cpu.halted
  /\ Byte(m, 0) = \hdb
  /\ Read(m, m.cpu.pc + 1) = \hb3
  /\ ~ready

Reset8085(m) ==
  [m EXCEPT !.cpu.pc = 0, !.cpu.ie = 0, !.cpu.halted = FALSE,
            !.cpu.f = [c |-> 1, p |-> 0, ac |-> 1, z |-> 1, s |-> 0]]
=============================================================================

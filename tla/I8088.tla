-------------------------------- MODULE I8088 -------------------------------
(***************************************************************************)
(* The 8088 of 8088.c: one instruction as a function from machine to       *)
(* machine.  A machine is the processor, the memory it shares with the     *)
(* 8085, and what the instruction has written to ports:                    *)
(*                                                                         *)
(*   cpu.b     AL CL DL BL AH CH DH BH, by their number in an instruction  *)
(*   cpu.w     SP BP SI DI (4 to 7)                                        *)
(*   cpu.s     ES CS SS DS (0 to 3)                                        *)
(*   cpu.ip, cpu.f   the instruction pointer and the flags                 *)
(*   cpu.q     the prefetch queue, in the order fetch_x86 hands it out     *)
(*   cpu.ea    the effective address decode_ea computed last               *)
(*   cpu.held  enable_interrupts is zero                                   *)
(*   cpu.list  interrupts that wait, the oldest first                      *)
(*   mem       bytes by physical address; those not listed are zero        *)
(*   out       <<port, byte>> pairs written by this instruction            *)
(*                                                                         *)
(* What an instruction takes from elsewhere is in a record e: the bytes    *)
(* e.in that reading a port returns, and the values e.sign1, e.sign2 and   *)
(* e.junk of locals the code reads without having set them.  Instruction   *)
(* timing, the names of instructions and the debugger's copies are left    *)
(* out; the ring behind cpu.list is in module Interrupts.                  *)
(***************************************************************************)
EXTENDS Words, Sequences

CONSTANT MaxPrefixes      \* prefixes of an instruction that are looked at

ASSUME PrefixAssumption == MaxPrefixes \in Nat

\* AL, CL, DL and BL as bytes
AX == 0
CX == 1
DX == 2
BX == 3
AH == 4
SP == 4
BP == 5
SI == 6
DI == 7
ES == 0
CS == 1
SS == 2
DS == 3
NoSegment == 4

\* The processor: every register and flag in its width.
Flags8088 ==
  [c : Bits, p : Bits, ac : Bits, z : Bits, s : Bits, t : Bits, i : Bits, d : Bits, o : Bits]
Cpu8088 ==
  [b : [0..7 -> Bytes], w : [4..7 -> Words16], s : [0..3 -> Words16], ip : Words16,
   f : Flags8088, q : [0..3 -> Bytes], ea : Words16, held : BOOLEAN, list : Seq(Bytes)]

(* ------------------------- memory and the queue ------------------------- *)

Phys(segment, offset) == (16 * segment + offset) % AddressSpace
ReadWord(m, a) == Pair(Read(m, (a + 1) % AddressSpace), Read(m, a))

At(m, k) == Read(m, Phys(m.cpu.s[CS], (m.cpu.ip + k) % WordSize))

\* The byte the k-th fetch from here returns: the queue comes first.
Ahead(m, k) == IF k < 4 THEN m.cpu.q[k] ELSE At(m, k)
AheadN(m, k, n) == IF n = 8 THEN Ahead(m, k) ELSE Pair(Ahead(m, k + 1), Ahead(m, k))

\* n fetches: each takes the first byte and loads the one four bytes on.
Fetch(m, n) ==
  [m EXCEPT !.cpu.ip = (@ + n) % WordSize,
            !.cpu.q  = [k \in 0..3 |-> Ahead(m, n + k)]]

PrefetchFlush(m) == [m EXCEPT !.cpu.q = [k \in 0..3 |-> At(m, k)]]

Goto(m, ip) == PrefetchFlush([m EXCEPT !.cpu.ip = ip])
GotoFarUnflushed(m, cs, ip) == [m EXCEPT !.cpu.s[CS] = cs, !.cpu.ip = ip]
GotoFar(m, cs, ip) == PrefetchFlush([m EXCEPT !.cpu.s[CS] = cs, !.cpu.ip = ip])

(* -------------------------- prefixes and operands ------------------------ *)

SegmentPrefixes == {\h26, \h2e, \h36, \h3e}
RepeatPrefixes  == {\hf2, \hf3}
Prefixes == SegmentPrefixes \union RepeatPrefixes \union {\hf0}

LastOf(m, n, kind, none) ==
  LET places == {k \in 0..(n - 1) : Ahead(m, k) \in kind}
  IN  IF places = {} THEN none
      ELSE Ahead(m, CHOOSE k \in places : \A j \in places : j <= k)

\* The base of the effective address, and whether it is on the stack.
Base(c, rm) ==
  LET bx == Pair(c.b[BX + 4], c.b[BX])
  IN  <<bx + c.w[SI], bx + c.w[DI], c.w[BP] + c.w[SI], c.w[BP] + c.w[DI],
        c.w[SI], c.w[DI], c.w[BP], bx>>[rm + 1]
UsesStack(mod, rm) == rm \in {2, 3} \/ (rm = 6 /\ mod # 0)

Displacement(m, at, mod, rm) ==
  IF mod = 2 \/ (mod = 0 /\ rm = 6) THEN AheadN(m, at, 16)
  ELSE IF mod = 1 THEN Extend(Ahead(m, at)) ELSE 0
DisplacementLength(mod, rm) ==
  IF mod = 2 \/ (mod = 0 /\ rm = 6) THEN 2 ELSE IF mod = 1 THEN 1 ELSE 0

Seg(c, prefix, default) ==
  c.s[IF prefix = NoSegment THEN default ELSE prefix]

\* The instruction at hand: opcode, prefixes, at = bytes up to the opcode, and
\* the second byte decoded (of use to the opcodes that have one): reg, rm,
\* whether rm is a register, its address otherwise, and the bytes that took.
Instruction(m) ==
  LET n == CHOOSE k \in 0..MaxPrefixes :
             /\ k < MaxPrefixes => Ahead(m, k) \notin Prefixes
             /\ \A j \in 0..(k - 1) : Ahead(m, j) \in Prefixes
      prefix == LastOf(m, n, SegmentPrefixes, -1)
      seg == IF prefix = -1 THEN NoSegment ELSE (prefix - \h26) \div 8
      modrm == Ahead(m, n + 1)
      mod == modrm \div 64
      rm == modrm % 8
      base == IF mod = 0 /\ rm = 6 THEN 0 ELSE Base(m.cpu, rm)
      ea == IF mod = 3 THEN m.cpu.ea
            ELSE (base + Displacement(m, n + 2, mod, rm)) % WordSize
  IN  [op |-> Ahead(m, n), at |-> n + 1, seg |-> seg,
       rep |-> LastOf(m, n, RepeatPrefixes, 0),
       reg |-> (modrm \div 8) % 8, rm |-> rm, direct |-> mod = 3, ea |-> ea,
       addr |-> Phys(Seg(m.cpu, seg, IF UsesStack(mod, rm) THEN SS ELSE DS), ea),
       len |-> 1 + IF mod = 3 THEN 0 ELSE DisplacementLength(mod, rm)]

\* The machine after fetching x and k bytes more, without and with operands.
Past(m, x, k)    == Fetch(m, x.at + k)
Decoded(m, x, k) == [Fetch(m, x.at + x.len + k) EXCEPT !.cpu.ea = x.ea]

Imm(m, x, n)   == AheadN(m, x.at, n)              \* after the opcode
ImmRM(m, x, n) == AheadN(m, x.at + x.len, n)      \* after the operands

DecodeReg(m, n, r) ==
  IF n = 8 THEN m.cpu.b[r]
  ELSE IF r < 4 THEN Pair(m.cpu.b[r + 4], m.cpu.b[r]) ELSE m.cpu.w[r]
WritebackReg(m, n, r, v) ==
  IF n = 8 THEN [m EXCEPT !.cpu.b[r] = Low(v)]
  ELSE IF r < 4 THEN [m EXCEPT !.cpu.b[r] = Low(v), !.cpu.b[r + 4] = High(v)]
  ELSE [m EXCEPT !.cpu.w[r] = v % WordSize]

DecodeRM(m, x, n) ==
  IF x.direct THEN DecodeReg(m, n, x.rm)
  ELSE IF n = 8 THEN Read(m, x.addr) ELSE ReadWord(m, x.addr)
WritebackRM(m, x, n, v) ==
  IF x.direct THEN WritebackReg(m, n, x.rm, v)
  ELSE IF n = 8 THEN Write(m, x.addr, Low(v))
  ELSE Write(Write(m, x.addr, Low(v)), (x.addr + 1) % AddressSpace, High(v))

Width(x) == IF x.op % 2 = 0 THEN 8 ELSE 16

(* --------------------------- stack and traps ----------------------------- *)

Push(m, v) ==
  LET sp(k) == (m.cpu.w[SP] - k) % WordSize
      to(k) == Phys(m.cpu.s[SS], sp(k))
  IN  [Write(Write(m, to(1), High(v)), to(2), Low(v)) EXCEPT !.cpu.w[SP] = sp(2)]
Top(m) ==
  LET from(k) == Phys(m.cpu.s[SS], (m.cpu.w[SP] + k) % WordSize)
  IN  Pair(Read(m, from(1)), Read(m, from(0)))
Drop(m, bytes) == [m EXCEPT !.cpu.w[SP] = (@ + bytes) % WordSize]

FlagWord(f) ==
  2048 * f.o + 1024 * f.d + 512 * f.i + 256 * f.t
    + 128 * f.s + 64 * f.z + 16 * f.ac + 4 * f.p + f.c + \hf002
FlagsIn(v) ==
  [c |-> Bit(v, 0), p |-> Bit(v, 2), ac |-> Bit(v, 4), z |-> Bit(v, 6), s |-> Bit(v, 7),
   t |-> Bit(v, 8), i |-> Bit(v, 9), d |-> Bit(v, 10), o |-> Bit(v, 11)]

Interrupt(m, number) ==
  LET vector == (number % 256) * 4
      pushed == Push(Push(Push(m, FlagWord(m.cpu.f)), m.cpu.s[CS]), m.cpu.ip)
  IN  GotoFar([pushed EXCEPT !.cpu.f.i = 0, !.cpu.f.t = 0],
              ReadWord(m, vector + 2), ReadWord(m, vector))

HandleAnyInterrupts(m) ==
  IF m.cpu.list = <<>> THEN m
  ELSE Interrupt([m EXCEPT !.cpu.list = Tail(@)], Head(m.cpu.list))
HandleOutstandingInterrupts(m) ==
  IF m.cpu.held \/ m.cpu.list = <<>> THEN m
  ELSE Interrupt([m EXCEPT !.cpu.list = Tail(@)], Head(m.cpu.list))

\* trap(number, 1).
Trap(m, number) ==
  HandleOutstandingInterrupts([m EXCEPT !.cpu.list = Append(@, number)])
\* trap(number, 0): a request that finds the flag cleared is dropped.
TrapMaskable(m, number) ==
  IF m.cpu.f.i = 1 THEN Trap(m, number) ELSE HandleOutstandingInterrupts(m)

(* ------------------------------- arithmetic ------------------------------ *)

\* Each operation on n bits gives the result, as wide as it comes, and flags.

SetFlagsZSP(f, n, r) ==
  [f EXCEPT !.z = Flag(r % 2^n = 0), !.s = Bit(r, n - 1), !.p = Parity(r)]
SetFlagsCarry(f, n, a, b, r, overflow) ==
  [SetFlagsZSP(f, n, r) EXCEPT
     !.o = Flag(overflow),
     !.ac = (Bit(r, 4) + Bit(a, 4) + Bit(b, 4)) % 2,
     !.c = Flag(r < 0 \/ r >= 2^n)]
SetFlagsAdd(f, n, a, b, r) ==
  SetFlagsCarry(f, n, a, b, r, Bit(r, n - 1) # Bit(a, n - 1) /\ Bit(r, n - 1) # Bit(b, n - 1))
SetFlagsSubLikeAdd(f, n, a, b, r) ==
  SetFlagsCarry(f, n, a, b, r, Bit(r, n - 1) # Bit(a, n - 1) /\ Bit(r, n - 1) # Bit(b, n - 1))
SetFlagsSub(f, n, a, b, r) ==
  SetFlagsCarry(f, n, a, b, r, Bit(r, n - 1) # Bit(a, n - 1) /\ Bit(a, n - 1) # Bit(b, n - 1))
SetFlagsLogic(f, n, r) == [SetFlagsZSP(f, n, r) EXCEPT !.c = 0, !.o = 0]

AddOp(f, n, a, b) == [r |-> a + b, f |-> SetFlagsAdd(f, n, a, b, a + b)]
AdcOp(f, n, a, b) == [r |-> a + b + f.c, f |-> SetFlagsAdd(f, n, a, b, a + b + f.c)]
SubOp(f, n, a, b) == [r |-> a - b, f |-> SetFlagsSub(f, n, a, b, a - b)]
SbbOp(f, n, a, b) == [r |-> a - b - f.c, f |-> SetFlagsSub(f, n, a, b, a - b - f.c)]
OrOp(f, n, a, b)  == [r |-> Or(a, b), f |-> SetFlagsLogic(f, n, Or(a, b))]
AndOp(f, n, a, b) == [r |-> And(a, b), f |-> SetFlagsLogic(f, n, And(a, b))]
XorOp(f, n, a, b) == [r |-> Xor(a, b), f |-> SetFlagsLogic(f, n, Xor(a, b))]
CmpOp(f, n, a, b) == [r |-> a, f |-> SetFlagsSub(f, n, a, b, a - b)]

Alu(k, f, n, a, b) ==
  CASE k = 0 -> AddOp(f, n, a, b) [] k = 1 -> OrOp(f, n, a, b)
    [] k = 2 -> AdcOp(f, n, a, b) [] k = 3 -> SbbOp(f, n, a, b)
    [] k = 4 -> AndOp(f, n, a, b) [] k = 5 -> SubOp(f, n, a, b)
    [] k = 6 -> XorOp(f, n, a, b) [] k = 7 -> CmpOp(f, n, a, b)

SetFlags(m, f) == [m EXCEPT !.cpu.f = f]

\* cmp (7) leaves its operands alone.
Keeping(k, m, written) == IF k = 7 THEN m ELSE written

\* 00-3d: r/m with register, register with r/m, accumulator with immediate.
Arithmetic(m, x) ==
  LET n == Width(x)
      k == x.op \div 8
      form == (x.op % 8) \div 2
      rm == DecodeRM(m, x, n)
      reg == DecodeReg(m, n, x.reg)
      u == CASE form = 0 -> Alu(k, m.cpu.f, n, rm, reg)
             [] form = 1 -> Alu(k, m.cpu.f, n, reg, rm)
             [] form = 2 -> Alu(k, m.cpu.f, n, DecodeReg(m, n, AX), Imm(m, x, n))
      t == SetFlags(IF form = 2 THEN Past(m, x, n \div 8) ELSE Decoded(m, x, 0), u.f)
  IN  Keeping(k, t, CASE form = 0 -> WritebackRM(t, x, n, u.r)
                      [] form = 1 -> WritebackReg(t, n, x.reg, u.r)
                      [] form = 2 -> WritebackReg(t, n, AX, u.r))

\* 80-83: r/m with an immediate, of which 83 extends the sign.
ImmediateGroup(m, x) ==
  LET n == Width(x)
      k == IF x.op = \h81 THEN 16 ELSE 8
      b == IF x.op = \h83 THEN Extend(ImmRM(m, x, 8)) ELSE ImmRM(m, x, k)
      u == Alu(x.reg, m.cpu.f, n, DecodeRM(m, x, n), b)
      t == SetFlags(Decoded(m, x, k \div 8), u.f)
  IN  Keeping(x.reg, t, WritebackRM(t, x, n, u.r))

\* 84, 85, a8, a9 and the first of f6 and f7.
TestOp(m, n, a, b) == SetFlags(m, SetFlagsLogic(m.cpu.f, n, And(a, b)))
Test(m, x) ==
  LET n == Width(x)
  IN  IF x.op < \h90
      THEN TestOp(Decoded(m, x, 0), n, DecodeRM(m, x, n), DecodeReg(m, n, x.reg))
      ELSE TestOp(Past(m, x, n \div 8), n, DecodeReg(m, n, AX), Imm(m, x, n))

\* inc and dec leave the carry alone.
KeepCarry(old, f) == [f EXCEPT !.c = old.c]
IncRegister(m, x) ==
  LET r == x.op % 8
      v == DecodeReg(m, 16, r)
      f == KeepCarry(m.cpu.f, SetFlagsAdd(m.cpu.f, 16, v, 1, v + 1))
  IN  WritebackReg(SetFlags(Past(m, x, 0), f), 16, r, v + 1)
DecRegister(m, x) ==
  LET r == x.op % 8
      v == DecodeReg(m, 16, r)
      f == KeepCarry(m.cpu.f, SetFlagsSub(m.cpu.f, 16, v, 1, v - 1))
  IN  WritebackReg(SetFlags(Past(m, x, 0), f), 16, r, v - 1)
IncOperand(m, x) ==
  LET n == Width(x)
      v == DecodeRM(m, x, n)
      f == KeepCarry(m.cpu.f, SetFlagsAdd(m.cpu.f, n, v, 1, v + 1))
  IN  WritebackRM(SetFlags(Decoded(m, x, 0), f), x, n, v + 1)
DecOperand(m, x) ==
  LET n == Width(x)
      v == DecodeRM(m, x, n)
      f == KeepCarry(m.cpu.f, SetFlagsSub(m.cpu.f, n, v, 1, v - 1))
  IN  WritebackRM(SetFlags(Decoded(m, x, 0), f), x, n, v - 1)

\* daa and das: the low digit first, a carry out of which is kept in c.
DecimalCarry(f, v, adjusted) ==
  Flag(f.c = 1 \/ (adjusted /\ v \notin Bytes))
Decimal(m, x, sign) ==
  LET f == m.cpu.f
      al == m.cpu.b[AX]
      low == al % 16 > 9 \/ f.ac = 1
      half == IF low THEN al + 6 * sign ELSE al
      high == (half \div 16) % 16 > 9 \/ DecimalCarry(f, half, low) = 1
      full == IF high THEN half + 96 * sign ELSE half
      g == [SetFlagsZSP(f, 8, full) EXCEPT !.ac = Flag(low), !.c = Flag(high)]
  IN  WritebackReg(SetFlags(Past(m, x, 0), g), 8, AX, full)
Daa(m, x) == Decimal(m, x, 1)
Das(m, x) == Decimal(m, x, -1)

\* aaa and aas: one digit in AL, the carry into AH.
Unpacked(m, x, sign) ==
  LET al == m.cpu.b[AX]
      over == al % 16 > 9 \/ m.cpu.f.ac = 1
      step == IF over THEN sign ELSE 0
      g == [m.cpu.f EXCEPT !.ac = Flag(over), !.c = Flag(over)]
  IN  WritebackReg(WritebackReg(SetFlags(Past(m, x, 0), g), 8, AX, (al + 6 * step) % 16),
                   8, AH, m.cpu.b[AH] + step)
Aaa(m, x) == Unpacked(m, x, 1)
Aas(m, x) == Unpacked(m, x, -1)

Aam(m, x) ==
  LET k == Imm(m, x, 8)
      al == m.cpu.b[AX]
      r == Pair(Low(al \div k), al % k)
  IN  IF k = 0 THEN Trap(Past(m, x, 1), 0)
      ELSE SetFlags(WritebackReg(Past(m, x, 1), 16, AX, r), SetFlagsZSP(m.cpu.f, 16, r))
Aad(m, x) ==
  LET r == m.cpu.b[AH] * Imm(m, x, 8) + m.cpu.b[AX]
  IN  SetFlags(WritebackReg(Past(m, x, 1), 16, AX, r), SetFlagsZSP(m.cpu.f, 16, r))

(* --------------------------- shifts and rotates -------------------------- *)

\* d0 and d1: by one.  The sixth is no instruction: the code writes back a
\* local it has not set.
ShiftByOne(m, x, e) ==
  LET n == Width(x)
      v == DecodeRM(m, x, n)
      f == m.cpu.f
      top == Bit(v, n - 1)
      r == CASE x.reg = 0 -> 2 * v + top
             [] x.reg = 1 -> v \div 2 + 2^(n - 1) * (v % 2)
             [] x.reg = 2 -> 2 * v + f.c
             [] x.reg = 3 -> v \div 2 + 2^(n - 1) * f.c
             [] x.reg = 4 -> 2 * v
             [] x.reg = 5 -> v \div 2
             [] x.reg = 6 -> e.junk
             [] x.reg = 7 -> v \div 2 + 2^(n - 1) * top
      c == CASE x.reg \in {0, 2, 4} -> top [] x.reg = 6 -> f.c [] OTHER -> v % 2
      g == IF x.reg \in {4, 5, 7} THEN SetFlagsZSP(f, n, r) ELSE f
  IN  WritebackRM(SetFlags(Decoded(m, x, 0),
                           [g EXCEPT !.c = c, !.o = (Bit(r, n - 1) + top) % 2]), x, n, r)

\* d2 and d3: by CL, not at all when CL is zero.  Rotates through the carry
\* work on n + 1 bits; the word form takes what comes back round by CL % 9.
RotateCL(n, k, v, c, cl) ==
  LET w == n + 1
      wide == v + 2^n * c
      around == w - (IF n = 8 THEN cl % w ELSE cl % 9)
      by == cl % w
  IN  CASE k = 0 -> Or(ShiftLeft(v, cl % n, n), v \div 2^(n - (cl % n)))
        [] k = 1 -> Or(v \div 2^(cl % n), ShiftLeft(v, n - (cl % n), n))
        [] k = 2 -> Or(ShiftLeft(wide, by, w), wide \div 2^around)
        [] k = 3 -> Or(wide \div 2^by, ShiftLeft(wide, around, w))
RotateCarry(n, k, r) ==
  CASE k = 0 -> r % 2 [] k = 1 -> Bit(r, n - 1) [] OTHER -> Bit(r, n)

\* The last bit shifted out and the result.
ShiftCL(n, k, v, cl) ==
  LET sign == Signed(n, v)
      out(u, by) == [c |-> (u \div 2^by) % 2, r |-> u \div 2^(by + 1)]
  IN  CASE k = 4 -> [c |-> Bit(ShiftLeft(v, cl, n + 1), n), r |-> ShiftLeft(v, cl, n + 1)]
        [] k = 5 -> IF cl > n THEN [c |-> 0, r |-> 0] ELSE out(v, cl - 1)
        [] k = 7 -> out(sign, IF cl >= n THEN n - 1 ELSE cl - 1)

ShiftByCL(m, x, e) ==
  LET n == Width(x)
      v == DecodeRM(m, x, n)
      f == m.cpu.f
      cl == m.cpu.b[CX]
      t == Decoded(m, x, 0)
      r == CASE x.reg < 4 -> RotateCL(n, x.reg, v, f.c, cl)
             [] x.reg = 6 -> e.junk
             [] OTHER -> ShiftCL(n, x.reg, v, cl).r
      c == CASE x.reg < 4 -> RotateCarry(n, x.reg, r)
             [] x.reg = 6 -> f.c
             [] OTHER -> ShiftCL(n, x.reg, v, cl).c
      g == IF x.reg \in {4, 5, 7} THEN SetFlagsZSP(f, n, r) ELSE f
  IN  IF cl = 0 THEN t
      ELSE WritebackRM(SetFlags(t, [g EXCEPT !.c = c,
                                             !.o = (Bit(r, n - 1) + Bit(v, n - 1)) % 2]),
                       x, n, r)

(* ------------------------ products and quotients ------------------------- *)

\* A 32-bit number is a pair of words: hi, lo.
Wide(hi, lo) == [hi |-> hi, lo |-> lo]
Product(a, b) ==
  LET upper == a * High(b)
      lower == a * Low(b) + 256 * (upper % 256)
  IN  Wide(upper \div 256 + lower \div WordSize, lower % WordSize)
Negate(v) == Wide((-v.hi - Flag(v.lo # 0)) % WordSize, (-v.lo) % WordSize)

\* v / d and v % d for a divisor that fits a word, or has all upper bits set.
Divide(v, d) ==
  LET r1 == (v.hi % d.lo) * 256 + High(v.lo)
      r2 == (r1 % d.lo) * 256 + Low(v.lo)
      enough == v.hi > d.hi \/ (v.hi = d.hi /\ v.lo >= d.lo)
  IN  IF d.hi = 0
      THEN [q |-> Wide(v.hi \div d.lo, Pair(r1 \div d.lo, r2 \div d.lo)),
            r |-> Wide(0, r2 % d.lo)]
      ELSE IF enough THEN [q |-> Wide(0, 1), r |-> Wide(v.hi - d.hi, v.lo - d.lo)]
      ELSE [q |-> Wide(0, 0), r |-> v]

SetAXDX(m, ax, dx) == WritebackReg(WritebackReg(m, 16, AX, ax), 16, DX, dx)
CarryOverflow(m, set) == [m EXCEPT !.cpu.f.c = Flag(set), !.cpu.f.o = Flag(set)]

Mul(m, n, v) ==
  LET p == Product(DecodeReg(m, n, AX), v)
      t == IF n = 8 THEN WritebackReg(m, 16, AX, p.lo) ELSE SetAXDX(m, p.lo, p.hi)
      upper == IF n = 8 THEN High(p.lo) ELSE p.hi
  IN  [CarryOverflow(t, upper # 0) EXCEPT !.cpu.f.z = Flag(p.lo = 0 /\ p.hi = 0)]

\* Carry and overflow look at the upper half only, not at the sign below it.
Imul(m, n, v) ==
  LET a == Signed(n, DecodeReg(m, n, AX))
      b == Signed(n, v)
      p == IF n = 8 THEN Wide(0, (a * b) % WordSize)
           ELSE LET q == Product(IF a < 0 THEN -a ELSE a, IF b < 0 THEN -b ELSE b)
                IN  IF (a < 0) = (b < 0) THEN q ELSE Negate(q)
      t == IF n = 8 THEN WritebackReg(m, 16, AX, p.lo) ELSE SetAXDX(m, p.lo, p.hi)
      upper == IF n = 8 THEN High(p.lo) ELSE p.hi
  IN  CarryOverflow(t, upper # 0 /\ upper # 2^n - 1)

Div(m, n, d) ==
  LET ax == DecodeReg(m, 16, AX)
      u == Divide(Wide(DecodeReg(m, 16, DX), ax), Wide(0, d))
  IN  IF d = 0 THEN Trap(m, 0)
      ELSE IF n = 8
      THEN IF ax \div d > 255 THEN Trap(m, 0)
           ELSE WritebackReg(m, 16, AX, Pair(ax % d, ax \div d))
      ELSE IF u.q.hi # 0 THEN Trap(m, 0) ELSE SetAXDX(m, u.q.lo, u.r.lo)

\* idiv divides the magnitudes and gives the quotient the sign they ask for.
\* limit is the largest quotient; both signs come from the operands in the
\* byte form, from locals never set in the word form.
IdivOfSymmetric(n, v, d, sign1, sign2) ==
  LET u == Divide(IF sign1 THEN Negate(v) ELSE v, IF sign2 THEN Negate(d) ELSE d)
  IN  [fits |-> u.q.hi = 0 /\ u.q.lo <= 2^(n - 1),
       q |-> (IF sign1 # sign2 THEN -u.q.lo ELSE u.q.lo) % 2^n,
       r |-> (IF sign1 THEN -u.r.lo ELSE u.r.lo) % 2^n]
IdivOf(n, v, d, sign1, sign2) ==
  LET u == Divide(IF sign1 THEN Negate(v) ELSE v, IF sign2 THEN Negate(d) ELSE d)
      limit == 2^(n - 1) - Flag(sign1 = sign2)
  IN  [fits |-> u.q.hi = 0 /\ u.q.lo <= limit,
       q |-> (IF sign1 # sign2 THEN -u.q.lo ELSE u.q.lo) % 2^n,
       r |-> (IF sign1 THEN -u.r.lo ELSE u.r.lo) % 2^n]
SignWide(n, v) == IF v < 2^(n - 1) THEN Wide(0, v) ELSE Wide(WordSize - 1, v + WordSize - 2^n)
Idiv(m, n, d, e) ==
  LET ax == DecodeReg(m, 16, AX)
      u == IF n = 8
           THEN IdivOf(8, SignWide(16, ax), SignWide(8, d), ax > 32767, d > 127)
           ELSE IdivOf(16, Wide(DecodeReg(m, 16, DX), ax), SignWide(16, d), e.sign1, e.sign2)
  IN  IF d = 0 \/ ~u.fits THEN Trap(m, 0)
      ELSE IF n = 8 THEN WritebackReg(m, 16, AX, Pair(u.r, u.q)) ELSE SetAXDX(m, u.q, u.r)

Not(m, x) ==
  LET n == Width(x) IN WritebackRM(Decoded(m, x, 0), x, n, 2^n - 1 - DecodeRM(m, x, n))
Neg(m, x) ==
  LET n == Width(x)
      v == DecodeRM(m, x, n)
  IN  SetFlags(WritebackRM(Decoded(m, x, 0), x, n, -v), SetFlagsSub(m.cpu.f, n, 0, v, -v))

\* f6 and f7.
UnaryGroup(m, x, e) ==
  LET n == Width(x)
      v == DecodeRM(m, x, n)
      t == Decoded(m, x, 0)
  IN  CASE x.reg = 0 -> TestOp(Decoded(m, x, n \div 8), n, v, ImmRM(m, x, n))
        [] x.reg = 1 -> t
        [] x.reg = 2 -> Not(m, x)
        [] x.reg = 3 -> Neg(m, x)
        [] x.reg = 4 -> Mul(t, n, v)
        [] x.reg = 5 -> Imul(t, n, v)
        [] x.reg = 6 -> Div(t, n, v)
        [] x.reg = 7 -> Idiv(t, n, v, e)

(* --------------------------------- moves --------------------------------- *)

\* 88-8b, c6, c7.
Move(m, x) ==
  LET n == Width(x)
      t == Decoded(m, x, 0)
  IN  CASE x.op \in {\h88, \h89} -> WritebackRM(t, x, n, DecodeReg(m, n, x.reg))
        [] x.op \in {\h8a, \h8b} -> WritebackReg(t, n, x.reg, DecodeRM(m, x, n))
        [] x.op \in {\hc6, \hc7} -> WritebackRM(Decoded(m, x, n \div 8), x, n, ImmRM(m, x, n))

MoveImmediate(m, x) ==
  LET n == IF x.op < \hb8 THEN 8 ELSE 16
  IN  WritebackReg(Past(m, x, n \div 8), n, x.op % 8, Imm(m, x, n))

\* a0-a3.
MoveAccumulator(m, x) ==
  LET n == Width(x)
      t == Past(m, x, 2)
      a == Phys(Seg(m.cpu, x.seg, DS), Imm(m, x, 16))
  IN  CASE x.op < \ha2 -> WritebackReg(t, n, AX, IF n = 8 THEN Read(m, a) ELSE ReadWord(m, a))
        [] x.op = \ha2 -> Write(t, a, m.cpu.b[AX])
        [] OTHER -> Write(Write(t, a, m.cpu.b[AX]), (a + 1) % AddressSpace, m.cpu.b[AH])

MoveFromSegment(m, x) == WritebackRM(Decoded(m, x, 0), x, 16, m.cpu.s[x.reg % 4])

\* A new CS takes effect at once; after a new SS no interrupt is let in.
LoadSegmentOpen(m, r, v) ==
  IF r = CS THEN GotoFar(m, v, m.cpu.ip) ELSE [m EXCEPT !.cpu.s[r] = v]
LoadSegment(m, r, v) ==
  CASE r = CS -> GotoFar(m, v, m.cpu.ip)
    [] r = SS -> [m EXCEPT !.cpu.s[SS] = v, !.cpu.held = TRUE]
    [] OTHER  -> [m EXCEPT !.cpu.s[r] = v]
MoveToSegment(m, x) == LoadSegment(Decoded(m, x, 0), x.reg % 4, DecodeRM(m, x, 16))

Lea(m, x) == WritebackReg(Decoded(m, x, 0), 16, x.reg, x.ea)

\* les and lds.
LoadPointer(m, x) ==
  LET t == Decoded(m, x, 0)
      segment == ReadWord(m, (x.addr + 2) % AddressSpace)
  IN  IF x.direct THEN t
      ELSE [WritebackReg(t, 16, x.reg, ReadWord(m, x.addr)) EXCEPT
              !.cpu.s[IF x.op = \hc4 THEN ES ELSE DS] = segment]

\* 86, 87.
Exchange(m, x) ==
  LET n == Width(x)
  IN  WritebackReg(WritebackRM(Decoded(m, x, 0), x, n, DecodeReg(m, n, x.reg)),
                   n, x.reg, DecodeRM(m, x, n))
\* 90-97.
ExchangeAX(m, x) ==
  LET r == x.op % 8
  IN  WritebackReg(WritebackReg(Past(m, x, 0), 16, AX, DecodeReg(m, 16, r)),
                   16, r, DecodeReg(m, 16, AX))

\* cbw and cwd.
Convert(m, x) ==
  IF x.op = \h98
  THEN WritebackReg(Past(m, x, 0), 8, AH, 255 * Bit(m.cpu.b[AX], 7))
  ELSE WritebackReg(Past(m, x, 0), 16, DX, 65535 * Bit(m.cpu.b[AH], 7))

\* The byte that looks up a table is taken with its sign.
Xlat(m, x) ==
  LET offset == (Extend(m.cpu.b[AX]) + DecodeReg(m, 16, BX)) % WordSize
  IN  WritebackReg(Past(m, x, 0), 8, AX, Read(m, Phys(Seg(m.cpu, x.seg, DS), offset)))

Salc(m, x) == WritebackReg(Past(m, x, 0), 8, AX, 255 * m.cpu.f.c)

\* f5, f8-fd.
ChangeFlag(m, x) ==
  LET t == Past(m, x, 0)
  IN  CASE x.op = \hf5 -> [t EXCEPT !.cpu.f.c = 1 - @]
        [] x.op \in {\hf8, \hf9} -> [t EXCEPT !.cpu.f.c = x.op % 2]
        [] x.op \in {\hfa, \hfb} -> [t EXCEPT !.cpu.f.i = x.op % 2]
        [] x.op \in {\hfc, \hfd} -> [t EXCEPT !.cpu.f.d = x.op % 2]

(* ------------------------------ string moves ----------------------------- *)

Step(m, n) == IF m.cpu.f.d = 1 THEN -(n \div 8) ELSE n \div 8
Along(m, r, n) == [m EXCEPT !.cpu.w[r] = (@ + Step(m, n)) % WordSize]

\* n bits at an offset of a segment; a word wraps round inside its segment.
ReadAt(m, segment, offset, n) ==
  IF n = 8 THEN Read(m, Phys(segment, offset))
  ELSE Pair(Read(m, Phys(segment, (offset + 1) % WordSize)), Read(m, Phys(segment, offset)))
WriteAt(m, segment, offset, n, v) ==
  LET low == Write(m, Phys(segment, offset), Low(v))
  IN  IF n = 8 THEN low ELSE Write(low, Phys(segment, (offset + 1) % WordSize), High(v))

Source(m, x, n) == ReadAt(m, Seg(m.cpu, x.seg, DS), m.cpu.w[SI], n)
Target(m, n) == ReadAt(m, m.cpu.s[ES], m.cpu.w[DI], n)

Movs(m, x, n) ==
  Along(Along(WriteAt(m, m.cpu.s[ES], m.cpu.w[DI], n, Source(m, x, n)), SI, n), DI, n)
Cmps(m, x, n) ==
  LET f == SubOp(m.cpu.f, n, Source(m, x, n), Target(m, n)).f
  IN  SetFlags(Along(Along(m, SI, n), DI, n), f)
Stos(m, x, n) ==
  Along(WriteAt(m, m.cpu.s[ES], m.cpu.w[DI], n, DecodeReg(m, n, AX)), DI, n)
Lods(m, x, n) == Along(WritebackReg(m, n, AX, Source(m, x, n)), SI, n)
Scas(m, x, n) ==
  SetFlags(Along(m, DI, n), SubOp(m.cpu.f, n, DecodeReg(m, n, AX), Target(m, n)).f)

Once(m, x) ==
  LET n == Width(x)
  IN  CASE x.op \in {\ha4, \ha5} -> Movs(m, x, n)
        [] x.op \in {\ha6, \ha7} -> Cmps(m, x, n)
        [] x.op \in {\haa, \hab} -> Stos(m, x, n)
        [] x.op \in {\hac, \had} -> Lods(m, x, n)
        [] x.op \in {\hae, \haf} -> Scas(m, x, n)

\* A comparison ends the repetition: unequal under f3, equal under f2.
EndsSwapped(m, x) ==
  /\ x.op \in {\ha6, \ha7, \hae, \haf}
  /\ x.rep = IF m.cpu.f.z = 1 THEN \hf3 ELSE \hf2
Ends(m, x) ==
  /\ x.op \in {\ha6, \ha7, \hae, \haf}
  /\ x.rep = IF m.cpu.f.z = 1 THEN \hf2 ELSE \hf3

\* The machine after n rounds of a repetition, which an end keeps as it is.
Rounds(t, x) ==
  LET after[n \in Nat] ==
        IF n = 0 THEN t
        ELSE LET u == after[n - 1]
             IN  IF n > 1 /\ Ends(u, x) THEN u
                 ELSE WritebackReg(Once(u, x), 16, CX, DecodeReg(u, 16, CX) - 1)
  IN  after

\* The whole repetition is one instruction: nothing comes between its rounds.
StringOp(m, x) ==
  LET t == Past(m, x, 0)
  IN  IF x.rep = 0 THEN Once(t, x) ELSE Rounds(t, x)[DecodeReg(t, 16, CX)]

(* ------------------------- stack, calls and jumps ------------------------ *)

PushSegment(m, x) == Push(Past(m, x, 0), m.cpu.s[x.op \div 8])
PopSegment(m, x) ==
  LET t == Past(m, x, 0) IN LoadSegment(Drop(t, 2), x.op \div 8, Top(t))
PushRegister(m, x) == Push(Past(m, x, 0), DecodeReg(m, 16, x.op % 8))
PopRegister(m, x) ==
  LET t == Past(m, x, 0) IN WritebackReg(Drop(t, 2), 16, x.op % 8, Top(t))
PopOperand(m, x) ==
  LET t == Decoded(m, x, 0) IN WritebackRM(Drop(t, 2), x, 16, Top(t))
PushFlags(m, x) == Push(Past(m, x, 0), FlagWord(m.cpu.f))
PopFlags(m, x) ==
  LET t == Past(m, x, 0) IN SetFlags(Drop(t, 2), FlagsIn(Top(t)))
Sahf(m, x) ==
  LET g == FlagsIn(m.cpu.b[AH])
  IN  SetFlags(Past(m, x, 0), [g EXCEPT !.o = m.cpu.f.o, !.d = m.cpu.f.d,
                                        !.i = m.cpu.f.i, !.t = m.cpu.f.t])
Lahf(m, x) == WritebackReg(Past(m, x, 0), 8, AH, Low(FlagWord(m.cpu.f)))

\* What jo to ja test, in pairs of a condition and its negation.
UnsignedCondition(f, k) ==
  CASE k = 0 -> f.o = 1 [] k = 1 -> f.c = 1
    [] k = 2 -> f.z = 1 [] k = 3 -> f.c = 1 \/ f.z = 1
\* What js to jg test.
SignedCondition(f, k) ==
  CASE k = 4 -> f.s = 1 [] k = 5 -> f.p = 1
    [] k = 6 -> f.s # f.o [] k = 7 -> f.s # f.o \/ f.z = 1

\* A short jump counts from the instruction after it.
ShortJump(m, x, taken) ==
  LET t == Past(m, x, 1)
  IN  IF taken THEN Goto(t, (t.cpu.ip + Extend(Imm(m, x, 8))) % WordSize) ELSE t
ConditionalJump(m, x) ==
  LET k == (x.op % 16) \div 2
      holds == IF k < 4 THEN UnsignedCondition(m.cpu.f, k) ELSE SignedCondition(m.cpu.f, k)
  IN  ShortJump(m, x, holds = (x.op % 2 = 0))

\* loopnz, loopz, loop and jcxz.  The count is compared before it is cut to
\* sixteen bits: from zero it goes round.
Loop(m, x) ==
  LET count == DecodeReg(m, 16, CX)
      t == WritebackReg(m, 16, CX, count - 1)
      z == m.cpu.f.z = 1
  IN  CASE x.op = \he0 -> ShortJump(t, x, count # 1 /\ ~z)
        [] x.op = \he1 -> ShortJump(t, x, count # 1 /\ z)
        [] x.op = \he2 -> ShortJump(t, x, count # 1)
        [] x.op = \he3 -> ShortJump(m, x, count = 0)

\* 9a and e8: the return address is that of the next instruction.
CallFar(m, x) ==
  LET t == Past(m, x, 4)
  IN  GotoFar(Push(Push(t, t.cpu.s[CS]), t.cpu.ip), AheadN(m, x.at + 2, 16), Imm(m, x, 16))
CallAgain(m, x) ==
  LET t == Past(m, x, 2)
  IN  Goto(Push(t, m.cpu.ip), (t.cpu.ip + Imm(m, x, 16)) % WordSize)
Call(m, x) ==
  LET t == Past(m, x, 2)
  IN  Goto(Push(t, t.cpu.ip), (t.cpu.ip + Imm(m, x, 16)) % WordSize)

\* e9-eb.
Jump(m, x) ==
  LET t == Past(m, x, 2)
  IN  CASE x.op = \he9 -> Goto(t, (t.cpu.ip + Imm(m, x, 16)) % WordSize)
        [] x.op = \hea -> GotoFar(Past(m, x, 4), AheadN(m, x.at + 2, 16), Imm(m, x, 16))
        [] x.op = \heb -> ShortJump(m, x, TRUE)

\* c2, c3 in the segment, ca, cb out of it; the even ones drop arguments.
Return(m, x) ==
  LET extra == IF x.op % 2 = 0 THEN Imm(m, x, 16) ELSE 0
      t == IF x.op % 2 = 0 THEN Past(m, x, 2) ELSE Past(m, x, 0)
      far == Drop(t, 2)
  IN  IF x.op < \hc8 THEN Goto(Drop(t, 2 + extra), Top(t))
      ELSE GotoFar(Drop(far, 2 + extra), Top(far), Top(t))

\* cc-ce.
SoftwareInterrupt(m, x) ==
  CASE x.op = \hcc -> PrefetchFlush(Trap(Past(m, x, 0), 3))
    [] x.op = \hcd -> PrefetchFlush(Trap(Past(m, x, 1), Imm(m, x, 8)))
    [] x.op = \hce -> IF m.cpu.f.o = 1 THEN PrefetchFlush(Trap(Past(m, x, 0), 4))
                      ELSE Past(m, x, 0)
Iret(m, x) ==
  LET t1 == Past(m, x, 0)
      t2 == Drop(t1, 2)
      t3 == Drop(t2, 2)
  IN  GotoFar([SetFlags(Drop(t3, 2), FlagsIn(Top(t3))) EXCEPT !.cpu.held = TRUE],
              Top(t2), Top(t1))

\* fe and ff: inc, dec, call, far call, jmp, far jmp, push.
IndirectGroup(m, x) ==
  LET t == Decoded(m, x, 0)
      v == DecodeRM(m, x, 16)
      segment == ReadWord(m, (x.addr + 2) % AddressSpace)
      offset == ReadWord(m, x.addr)
  IN  CASE x.reg = 0 -> IncOperand(m, x)
        [] x.reg = 1 -> DecOperand(m, x)
        [] x.op = \hff /\ x.reg = 2 -> Goto(Push(t, t.cpu.ip), v)
        [] x.op = \hff /\ x.reg = 4 -> Goto(t, v)
        [] x.op = \hff /\ x.reg = 6 -> Push(t, v)
        [] x.op = \hff /\ x.reg = 3 /\ ~x.direct ->
             LET pushed == Push(Push(t, t.cpu.s[CS]), t.cpu.ip)
             IN  GotoFar(pushed, ReadWord(pushed, (x.addr + 2) % AddressSpace),
                         ReadWord(pushed, x.addr))
        [] x.op = \hff /\ x.reg = 5 /\ ~x.direct -> GotoFar(t, segment, offset)
        [] OTHER -> t

(* ---------------------------------- ports -------------------------------- *)

Port(m, x) == IF x.op % 16 < 8 THEN Imm(m, x, 8) ELSE DecodeReg(m, 16, DX)
PastPort(m, x) == Past(m, x, IF x.op % 16 < 8 THEN 1 ELSE 0)
In(m, x, e) ==
  LET t == WritebackReg(PastPort(m, x), 8, AX, e.in[1])
  IN  IF Width(x) = 8 THEN t ELSE WritebackReg(t, 8, AH, e.in[2])
Out(m, x) ==
  LET al == <<Port(m, x), m.cpu.b[AX]>>
      ah == <<Port(m, x), m.cpu.b[AH]>>
  IN  [PastPort(m, x) EXCEPT !.out = IF Width(x) = 8 THEN <<al>> ELSE <<al, ah>>]

(* ------------------------------ one instruction -------------------------- *)

Execute(m, x, e) ==
  LET op == x.op
  IN  CASE op < 64 /\ op % 8 < 6 -> Arithmetic(m, x)
        [] op \in {\h06, \h0e, \h16, \h1e} -> PushSegment(m, x)
        [] op \in {\h07, \h0f, \h17, \h1f} -> PopSegment(m, x)
        [] op = \h27 -> Daa(m, x) [] op = \h2f -> Das(m, x)
        [] op = \h37 -> Aaa(m, x) [] op = \h3f -> Aas(m, x)
        [] op \in \h40..\h47 -> IncRegister(m, x)
        [] op \in \h48..\h4f -> DecRegister(m, x)
        [] op \in \h50..\h57 -> PushRegister(m, x)
        [] op \in \h58..\h5f -> PopRegister(m, x)
        [] op \in \h70..\h7f -> ConditionalJump(m, x)
        [] op \in \h80..\h83 -> ImmediateGroup(m, x)
        [] op \in {\h84, \h85, \ha8, \ha9} -> Test(m, x)
        [] op \in {\h86, \h87} -> Exchange(m, x)
        [] op \in (\h88..\h8b) \union {\hc6, \hc7} -> Move(m, x)
        [] op = \h8c -> MoveFromSegment(m, x) [] op = \h8d -> Lea(m, x)
        [] op = \h8e -> MoveToSegment(m, x)   [] op = \h8f -> PopOperand(m, x)
        [] op \in \h90..\h97 -> ExchangeAX(m, x)
        [] op \in {\h98, \h99} -> Convert(m, x)
        [] op = \h9a -> CallFar(m, x)
        [] op = \h9c -> PushFlags(m, x) [] op = \h9d -> PopFlags(m, x)
        [] op = \h9e -> Sahf(m, x)      [] op = \h9f -> Lahf(m, x)
        [] op \in \ha0..\ha3 -> MoveAccumulator(m, x)
        [] op \in (\ha4..\ha7) \union (\haa..\haf) -> StringOp(m, x)
        [] op \in \hb0..\hbf -> MoveImmediate(m, x)
        [] op \in {\hc2, \hc3, \hca, \hcb} -> Return(m, x)
        [] op \in {\hc4, \hc5} -> LoadPointer(m, x)
        [] op \in {\hcc, \hcd, \hce} -> SoftwareInterrupt(m, x)
        [] op = \hcf -> Iret(m, x)
        [] op \in {\hd0, \hd1} -> ShiftByOne(m, x, e)
        [] op \in {\hd2, \hd3} -> ShiftByCL(m, x, e)
        [] op = \hd4 -> Aam(m, x) [] op = \hd5 -> Aad(m, x)
        [] op = \hd6 -> Salc(m, x) [] op = \hd7 -> Xlat(m, x)
        [] op \in \hd8..\hdf -> Decoded(m, x, 0)
        [] op \in \he0..\he3 -> Loop(m, x)
        [] op \in {\he4, \he5, \hec, \hed} -> In(m, x, e)
        [] op \in {\he6, \he7, \hee, \hef} -> Out(m, x)
        [] op = \he8 -> Call(m, x)
        [] op \in {\he9, \hea, \heb} -> Jump(m, x)
        [] op \in {\hf5} \union (\hf8..\hfd) -> ChangeFlag(m, x)
        [] op \in {\hf6, \hf7} -> UnaryGroup(m, x, e)
        [] op \in {\hfe, \hff} -> IndirectGroup(m, x)
        [] OTHER -> Past(m, x, 0)   \* wait, hlt, and what is no instruction

\* doInstruction8088 up to handleOutstandingInterrupts, which is its last call.
PerformInstruction(m, e) ==
  LET t == [m EXCEPT !.cpu.held = FALSE, !.out = <<>>]
  IN  Execute(t, Instruction(t), e)

\* Reset leaves the queue filled from the reset address.
Reset8088(m) ==
  LET cleared == [r \in 0..7 |-> 0]
      fresh == [m.cpu EXCEPT
                  !.b = cleared, !.w = [r \in 4..7 |-> 0],
                  !.s = [r \in 0..3 |-> IF r = CS THEN \hf000 ELSE 0],
                  !.ip = \hfff0, !.f = FlagsIn(0), !.list = <<>>]
  IN  PrefetchFlush([m EXCEPT !.cpu = fresh])

\* check_wait_state looks at memory, not at the queue.
Waits8088(m, ready) ==
  LET op == At(m, 0)
      port == CASE op \in {\he4, \he5} -> At(m, 1)
                [] op \in {\hec, \hed} -> Low(DecodeReg(m, 16, DX))
                [] OTHER -> 0
  IN  op \in {\he4, \he5, \hec, \hed} /\ port = \hb3 /\ ~ready
=============================================================================

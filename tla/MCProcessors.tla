---------------------------- MODULE MCProcessors ----------------------------
(***************************************************************************)
(* The programs of the processors run, and what each must have done when   *)
(* it reaches its last instruction, a jump to itself (hlt on the 8085).    *)
(* A program is its kind and its operands a and b; k chooses among the     *)
(* instructions of its kind.                                               *)
(*                                                                         *)
(* 8088 programs run in segment 20h with their stack at 30:40, data in 40h *)
(* and 50h; interrupt 40h changes AX and the flags and gives them back,    *)
(* interrupt 0 ends in the segment Fault.  8085 programs run at 800h.      *)
(***************************************************************************)
EXTENDS Processors, FiniteSets, TLC

Fault == \h12
Image(at, bytes) == [x \in at .. at + Len(bytes) - 1 |-> bytes[x - at + 1]]
Handlers ==
  Image(0, <<0, 0, Fault, 0>>) @@ Image(256, <<0, 0, \h11, 0>>)      \* vectors 0, 40h
    @@ Image(\h120, <<\heb, \hfe>>)
    @@ Image(\h110, <<\h50, \h35, \h34, \h12, \h58, \hcf>>)
    @@ Image(8, <<\hc9>>)                                            \* rst 1

Flags0 == FlagsIn(0)
Idle86 ==
  [b |-> [r \in 0..7 |-> 0], w |-> [r \in 4..7 |-> IF r = SP THEN \h40 ELSE 0],
   s |-> (ES :> \h50 @@ CS :> \h20 @@ SS :> \h30 @@ DS :> \h40), ip |-> 0,
   f |-> Flags0, q |-> [j \in 0..3 |-> 0], ea |-> 0, held |-> FALSE, list |-> <<>>]
Idle85 ==
  [r |-> [j \in 0..7 |-> 0], sp |-> \h900, pc |-> \h800,
   f |-> [c |-> 0, p |-> 0, ac |-> 0, z |-> 0, s |-> 0], ie |-> 0, mask |-> 0,
   halted |-> FALSE]

\* A processor with words in its registers.
With(c, ax, cx, dx, bx) ==
  [c EXCEPT !.b = [r \in 0..7 |->
     LET v == <<ax, cx, dx, bx>>[(r % 4) + 1] IN IF r < 4 THEN Low(v) ELSE High(v)]]
With85(a, bc, de, hl) ==
  [Idle85 EXCEPT !.r = [j \in 0..7 |->
     CASE j = 7 -> a [] j = 6 -> 0
       [] OTHER -> LET v == <<bc, de, hl>>[(j \div 2) + 1]
                   IN  IF j % 2 = 0 THEN High(v) ELSE Low(v)]]

Program(kind, k, a, b) ==
  [kind |-> kind, k |-> k, a |-> a, b |-> b, traps |-> 0, from |-> <<>>, to |-> <<>>]
\* A string program: k repetition and opcode, a direction, b what AL holds.
Strung(k, down, from, to) ==
  [Program("string", k, down, 1) EXCEPT !.from = from, !.to = to]
\* Where such a program starts in its strings of three elements.
Start(p) == 2 * p.a * (1 + (p.k % 2))
\* A shift program: k has the width, the instruction and the carry before.
Shift(w, k, c) == w + 2 * k + 16 * c
Trapped(p) == [p EXCEPT !.traps = 1]

-----------------------------------------------------------------------------
(* The code of each kind.                                                  *)

Stop == <<\heb, \hfe>>
Code(p) ==
  CASE p.kind = "add"     -> <<\h00, \hd8, \h10, \hfc>>              \* add al,bl; adc ah,bh
    [] p.kind = "sub"     -> <<\h28, \hd8, \h18, \hfc>>              \* sub al,bl; sbb ah,bh
    [] p.kind = "compare" -> <<\h39, \hd8, \h70 + p.k, \h01, \h46>>  \* cmp ax,bx; jcc; inc si
    [] p.kind = "daa"     -> <<\h00, \hd8, \h27>>                    \* add al,bl; daa
    [] p.kind = "das"     -> <<\h28, \hd8, \h2f>>
    [] p.kind = "aaa"     -> <<\h00, \hd8, \h37>>
    [] p.kind = "aas"     -> <<\h28, \hd8, \h3f>>
    [] p.kind = "aam"     -> <<\hf6, \he3, \hd4, \h0a>>              \* mul bl; aam
    [] p.kind = "aad"     -> <<\hd5, \h0a>>
    [] p.kind = "div"     -> <<\hf6, \hf3>>                          \* div bl
    [] p.kind = "idiv"    -> <<\hf6, \hfb>>
    [] p.kind = "divw"    -> <<\hf7, \hf3>>                          \* div bx
    [] p.kind = "muldiv"  -> <<\hf7, \he3, \hf7, \hf3>>              \* mul bx; div bx
    [] p.kind = "shift"   ->                   \* by CL in BX, CL times by one in DX
         LET w == p.k % 2
             r == 8 * ((p.k \div 2) % 8)
         IN  <<\h9c, \hd2 + w, \hc3 + r, \h19, \hf6, \h9d, \he3, \h04,
               \hd0 + w, \hc2 + r, \he2, \hfc, \h19, \hff>>
    [] p.kind = "string"  -> <<\hf2 + (p.k \div 256), p.k % 256>>
    [] p.kind = "calls"   ->      \* pushf; push ax; call 9; pop ax; popf; stop;
         <<\h9c, \h50, \he8, \h04, \h00, \h58, \h9d, \heb, \hfe,
           \h9a, \h10, \h00, \h20, \h00, \hc3, \h90, \hcd, \h40, \hcb>>
    [] p.kind = "stacks"  ->      \* mov ss,dx; mov sp,bx; push ax; pop ax
         <<\h8e, \hd2, \h8b, \he3, \h50, \h58>>
    [] p.kind = "input"   -> <<\he4, \hb3>>                          \* in al,b3
    [] p.kind = "partner" ->      \* add 7 to the byte at 700h, hand over
         <<\ha0, \h00, \h03, \h04, \h07, \ha2, \h00, \h03, \hb0, p.b, \he6, \hfe>>
    [] OTHER -> <<>>

Stop85 == <<\h76>>
Code85(p) ==
  CASE p.kind = "add85"  -> <<\h79, \h85, \h6f, \h78, \h8c, \h67>>
    [] p.kind = "sub85"  -> <<\h7d, \h91, \h6f, \h7c, \h98, \h67>>
    [] p.kind = "dad85"  -> <<\h09>>
    [] p.kind = "daa85"  -> <<\h78, \h81, \h27>>
    [] p.kind = "branch85" ->
         <<\hb8, \hc4 + 8 * p.k, \h10, \h08, \hc2 + 8 * p.k, \h08, \h08, \h76,
           \h13, \h76, 0, 0, 0, 0, 0, 0, \h23, \hc0 + 8 * p.k, \h23, \hc9>>
    [] p.kind = "stack85" ->      \* push psw, b; rst 1; xra a; inx b; pop b, psw
         <<\hf5, \hc5, \hcf, \haf, \h03, \hc1, \hf1>>
    [] p.kind = "input85" -> <<\hdb, \hb3>>
    [] p.kind = "partner" ->      \* add 5 to the byte at 700h, hand over, fetch it
         <<\h3a, \h00, \h07, \hc6, \h05, \h32, \h00, \h07, \h3e, p.k, \hd3, \hfe,
           \h3a, \h00, \h07>>
    [] OTHER -> <<>>

Kinds85 == {"add85", "sub85", "dad85", "daa85", "branch85", "stack85", "input85", "reset85",
            "partner"}

Data(p) ==
  IF p.kind = "string" THEN Image(\h400, p.from) @@ Image(\h500, p.to)
  ELSE CASE p.kind = "partner" -> (\h700 :> p.a)
         [] p.kind = "reset"   -> Image(\hffff0, <<\hea, \h00, \h00, \h20, \h00>>)
         [] p.kind = "reset85" -> Image(0, <<\hc3, \h00, \h08>>)
         [] OTHER -> Image(0, <<>>)

\* Operands: words in AX and BX unless the kind says otherwise.
Registers86(p) ==
  CASE p.kind = "divw" -> With(Idle86, p.a % WordSize, 0, p.a \div WordSize, p.b)
    [] p.kind = "muldiv" -> With(Idle86, p.a, 0, 0, p.b)
    [] p.kind = "shift" ->
         [With(Idle86, 0, p.b, p.a, p.a) EXCEPT !.f.c = p.k \div 16]
    [] p.kind = "string" -> [With(Idle86, p.b, 3, 0, 0) EXCEPT
         !.f.d = p.a, !.w[SI] = Start(p), !.w[DI] = Start(p)]
    [] p.kind = "stacks" -> [With(Idle86, p.a, 0, \h60, \h40) EXCEPT !.w[SP] = \h20, !.f.i = 1]
    [] p.kind = "reset" -> Reset8088([cpu |-> With(Idle86, p.a, 0, 0, p.b), mem |-> Data(p)]).cpu
    [] OTHER -> [With(Idle86, p.a, 0, 0, p.b) EXCEPT !.f.i = 1]
Registers85(p) ==
  CASE p.kind \in {"daa85", "branch85"} -> With85(p.a, 256 * p.b + p.a, 0, 0)
    [] p.kind = "stack85" -> With85(p.a, p.b, 0, 0)
    [] p.kind = "reset85" -> I85!Reset8085([cpu |-> With85(p.b, p.a, 0, 0), mem |-> Data(p)]).cpu
    [] OTHER -> With85(0, p.b, 0, p.a)

BootProgram(p) ==
  [mem |-> Data(p) @@ Handlers @@ Image(\h200, Code(p) \o Stop)
             @@ Image(\h800, Code85(p) \o Stop85),
   x86 |-> Registers86(p), x85 |-> Registers85(p),
   active |-> IF p.kind \in Kinds85 THEN "8085" ELSE "8088"]

-----------------------------------------------------------------------------
(* The programs.                                                           *)

Words6 == {0, 1, \hff, \h7fff, \h8000, \hffff}
Words8 == Words6 \union {\h80ff, \h1234}
Bytes7 == {0, 1, 10, 127, 128, 129, 255}
Packed == {16 * t + u : t \in {0, 1, 4, 5, 9}, u \in {0, 1, 4, 5, 8, 9}}
Strings == {1, 2} \X {1, 2} \X {1, 2}

Sums ==
  {Program(kind, 0, a, b) : kind \in {"add", "sub", "add85", "sub85", "dad85"},
                            a \in Words8, b \in Words8}
Comparisons == {Program("compare", k, a, b) : k \in 0..15, a \in Words8, b \in Words8}
Branches == {Program("branch85", k, a, b) : k \in 0..7, a \in Bytes7, b \in Bytes7}
Decimals ==
  {Program(kind, 0, a, b) : kind \in {"daa", "das", "daa85"}, a \in Packed, b \in Packed}
    \union {Program(kind, 0, a, b) : kind \in {"aaa", "aas", "aam"},
                                     a \in 0..9, b \in 0..9}
    \union {Program("aad", 0, Pair(a, b), 0) : a \in 0..9, b \in {0, 5, 9}}
Divisions ==
  {Program(kind, 0, a, b) : kind \in {"div", "idiv"},
                            a \in Words8 \union {\hff80, \hff81, \h4080}, b \in Bytes7}
    \union {Program("divw", 0, a, b) : a \in {0, \hffff, \h10000, \h7ffffff, 2147483647},
                                       b \in Words6}
    \union {Program("muldiv", 0, a, b) : a \in Words6, b \in Words6}
Shifts ==
  {Program("shift", Shift(1, k, c), a, n) :
     k \in {0, 1, 2, 3, 4, 5, 7}, c \in {0, 1}, a \in {\h8001, \h5af0}, n \in {0, 1, 2, 8}}
    \union {Program("shift", Shift(1, k, c), a, n) :
              k \in {0, 1, 4, 5, 7}, c \in {0, 1}, a \in {\h8001, \h5af0}, n \in {15, 16, 17}}
    \union {Program("shift", Shift(0, k, c), a, n) :
              k \in {0, 1, 2, 3, 4, 5, 7}, c \in {0, 1}, a \in {\h5a81, \h3c}, n \in {1, 7, 8, 9, 10}}
StringMoves ==
  {Strung(k, d, f, t) : k \in {\h1a4, \h1aa, \hae, \h1ae, \h1a6, \ha6}, f \in Strings,
                        t \in Strings, d \in {0, 1}}
    \union {Strung(\h1a5, d, f \o f, <<>>) : f \in Strings, d \in {0, 1}}
Calls ==
  {Trapped(Program(kind, 0, a, 0)) : kind \in {"calls", "stacks"}, a \in {0, \h1234}}
    \union {Program("stack85", 0, a, b) : a \in {0, 90}, b \in {1, \hffff}}
Partners ==
  {Trapped(Program("partner", k, a, b)) : k \in {\h80, \h82, \h01}, a \in {3, 250}, b \in {0, 2}}
Inputs == {Trapped(Program("input", 0, 0, 0)), Program("input85", 0, 0, 0)}
Resets == {Program(kind, 0, \h1234, \hff) : kind \in {"reset", "reset85"}}
Interrupted86 ==
  {Trapped(Program(kind, 0, a, \h88)) : kind \in {"add", "idiv"}, a \in {\h99, \hffff}}
    \union {Trapped(Program("daa", 0, \h99, \h88)), Trapped(Program("div", 0, 1, 0)),
            Trapped(Program("shift", Shift(1, 2, 1), \h8001, 2))}

AllPrograms ==
  Sums \union Comparisons \union Branches \union Decimals \union Divisions \union Shifts
    \union StringMoves \union Calls \union Partners \union Inputs \union Resets
    \union Interrupted86

Interrupts40 == {\h40}
SomeAnswers == {0, 147}
-----------------------------------------------------------------------------
(* What the programs must have done.                                       *)

Last(p) == IF p.kind = "calls" THEN 7 ELSE Len(Code(p))
Reaches(kind) ==
  /\ program.kind = kind
  /\ IF kind \in Kinds85 THEN x85.halted
     ELSE x86.s[CS] = \h20 /\ x86.ip = Last(program)
Faults(kind) == program.kind = kind /\ x86.s[CS] = Fault

Reg(r) == Pair(x86.b[r + 4], x86.b[r])
Reg85(r) == Pair(x85.r[r], x85.r[r + 1])
OutOfRange(v) == v < -32768 \/ v > 32767

\* Two bytes added or subtracted with their carry give the sum of the words,
\* with the carry of the upper byte and its signed overflow; so do the ALU and
\* dad of the 8085 (8088.c:481-522, 659-718, 835-993; 8085.c:538-856, 179).
WideSums ==
  LET a == program.a
      b == program.b
      sa == Signed(16, program.a)
      sb == Signed(16, program.b)
  IN  /\ Reaches("add") => /\ Reg(AX) = (a + b) % WordSize
                           /\ x86.f.c = Flag(a + b >= WordSize)
                           /\ x86.f.o = Flag(OutOfRange(sa + sb))
      /\ Reaches("sub") => /\ Reg(AX) = (a - b) % WordSize
                           /\ x86.f.c = Flag(a < b)
                           /\ x86.f.o = Flag(OutOfRange(sa - sb))
      /\ (Reaches("add85") \/ Reaches("dad85")) =>
             Reg85(4) = (a + b) % WordSize /\ x85.f.c = Flag(a + b >= WordSize)
      /\ Reaches("sub85") => Reg85(4) = (a - b) % WordSize /\ x85.f.c = Flag(a < b)

\* After cmp the sixteen conditional jumps decide the order of the operands as
\* unsigned and as signed numbers (8088.c:503-556, 1298-1361, 1736-2056).
EvenOnes(v) == Cardinality({j \in 0..7 : Bit(v, j) = 1}) % 2 = 0
Compares(k, a, b) ==
  LET sa == Signed(16, a)
      sb == Signed(16, b)
  IN  CASE k = 0 -> OutOfRange(sa - sb) [] k = 1 -> a < b [] k = 2 -> a = b [] k = 3 -> a <= b
        [] k = 4 -> Bit(a - b, 15) = 1 [] k = 5 -> EvenOnes(a - b)
        [] k = 6 -> sa < sb [] k = 7 -> sa <= sb
ComparisonsDecide ==
  Reaches("compare") =>
    ((x86.w[SI] = 0) <=> (Compares(program.k \div 2, program.a, program.b) = (program.k % 2 = 0)))

\* On the 8085 the conditional call, jump and return of a condition agree after
\* cmp, and leave the stack as it was (8085.c:954-1024, 1026-1506).
Compares85(y, a, b) ==
  CASE y = 0 -> a = b [] y = 1 -> a < b [] y = 2 -> EvenOnes(a - b) [] y = 3 -> Bit(a - b, 7) = 1
ConditionsAgree ==
  Reaches("branch85") =>
    LET holds == Compares85(program.k \div 2, program.a, program.b) = (program.k % 2 = 1)
    IN  x85.sp = \h900 /\ Reg85(4) = Flag(holds) /\ Reg85(2) = Flag(holds)

\* The adjustments turn binary results into decimal digits with their carry; the
\* 8085's keeps a carry only when the sum of the bytes had none (8088.c:1081-1203,
\* 1277-1382, 3549-3575; 8085.c:333-347).
Decimal2(v) == 10 * (v \div 16) + (v % 16)
DecimalSums ==
  LET a == program.a
      b == program.b
      sum == Decimal2(a) + Decimal2(b)
  IN  /\ Reaches("daa") => Decimal2(x86.b[AX]) = sum % 100 /\ x86.f.c = Flag(sum > 99)
      /\ Reaches("das") => /\ Decimal2(x86.b[AX]) = (Decimal2(a) - Decimal2(b)) % 100
                           /\ x86.f.c = Flag(a < b)
      /\ Reaches("aaa") => 10 * x86.b[AH] + x86.b[AX] = a + b /\ x86.f.c = Flag(a + b > 9)
      /\ Reaches("aas") => x86.b[AX] = (a - b) % 10 /\ x86.b[AH] = 255 * Flag(a < b)
      /\ Reaches("aam") => 10 * x86.b[AH] + x86.b[AX] = a * b
      /\ Reaches("aad") => Reg(AX) = 10 * High(a) + Low(a)
      /\ Reaches("daa85") => /\ Decimal2(x85.r[7]) = sum % 100
                             /\ a + b < 256 => x85.f.c = Flag(sum > 99)

\* A division gives the quotient towards zero and a remainder of the dividend's
\* sign, or takes interrupt 0 exactly when there is no such quotient in a byte or
\* a word; the word product divided by a factor gives the other (8088.c:3863-3971,
\* 4012-4078).
Fits(q, low, high) == low <= q /\ q <= high
Towards0(a, b) == IF (a < 0) = (b < 0) THEN (IF a < 0 THEN -a ELSE a) \div (IF b < 0 THEN -b ELSE b)
                  ELSE -((IF a < 0 THEN -a ELSE a) \div (IF b < 0 THEN -b ELSE b))
Quotients ==
  LET a == program.a
      b == program.b
      sa == Signed(16, a)
      sb == Signed(8, b)
  IN  /\ Reaches("div") => b # 0 /\ x86.b[AX] = a \div b /\ x86.b[AH] = a % b
      /\ Faults("div") => b = 0 \/ ~Fits(a \div b, 0, 255)
      /\ Reaches("idiv") => /\ b # 0
                            /\ Signed(8, x86.b[AX]) = Towards0(sa, sb)
                            /\ Signed(8, x86.b[AH]) = sa - sb * Towards0(sa, sb)
      /\ Faults("idiv") => b = 0 \/ ~Fits(Towards0(sa, sb), -128, 127)
      /\ Reaches("divw") => b # 0 /\ Reg(AX) = a \div b /\ Reg(DX) = a % b
      /\ Faults("divw") => b = 0 \/ ~Fits(a \div b, 0, 65535)
      /\ Reaches("muldiv") => Reg(AX) = a /\ Reg(DX) = 0
      /\ Faults("muldiv") => b = 0

\* A shift or rotate by CL does what CL of them by one do, carry included
\* (8088.c:3247-3547; rotates of a word through the carry only for CL below 9).
ShiftsByCount ==
  Reaches("shift") => Reg(BX) = Reg(DX) /\ x86.w[SI] = x86.w[DI] /\ x86.w[SP] = \h40

\* Whole computations agree with the arithmetic they are for, on both processors.
Calculations == WideSums /\ DecimalSums /\ Quotients /\ ShiftsByCount

\* Comparisons decide the jumps, calls and returns that follow them, on both.
Conditions == ComparisonsDecide /\ ConditionsAgree

\* A repeated string instruction copies, fills, or stops at the first equal or
\* the first different element, in the order of the direction flag, and leaves
\* the count and the index after it (8088.c:2640-2954).
StringsScan ==
  Reaches("string") =>
    LET op == program.k % 256
        n == 1 + (op % 2)
        len == 3 * n
        down == program.a = 1
        Of(s, j) == s[IF down THEN 4 - j ELSE j]
        Now(j) == Read(Machine86, \h500 + j - 1)
        until == {j \in 1..3 :
                    IF op = \hae THEN (Of(program.to, j) = program.b) = (program.k < 256)
                    ELSE (Of(program.to, j) = Of(program.from, j)) = (program.k < 256)}
        done == IF op \in {\ha4, \ha5, \haa} \/ until = {} THEN 3
                ELSE CHOOSE j \in until : \A i \in until : j <= i
        moved == IF down THEN Start(program) - n * done ELSE Start(program) + n * done
    IN  /\ Reg(CX) = 3 - done
        /\ x86.w[DI] = moved % WordSize
        /\ op \in {\ha4, \ha5} => \A j \in 1..len : Now(j) = program.from[j]
        /\ op = \haa => \A j \in 1..len : Now(j) = program.b
        /\ op \in {\ha6, \hae} => x86.f.z = Flag((until # {}) = (program.k < 256))

\* Calls, interrupts, pushes and their returns nest: the stack pointer, the
\* registers and the flags come back, also when a device interrupts on the way
\* (8088.c:118-136, 558-579, 2530-2577, 3076-3245; 8085.c:1038-1526).
StackBalanced ==
  /\ Reaches("calls") => x86.w[SP] = \h40 /\ Reg(AX) = program.a
                         /\ x86.f = [Flags0 EXCEPT !.i = 1]
  /\ Reaches("stack85") => x85 = [Registers85(program) EXCEPT !.pc = @ + 8, !.halted = TRUE]

\* No interrupt is taken between the two halves of a stack switch: nothing is
\* written below the new segment's old offset (8088.c:2373-2401, 154-187).
StackSwitched ==
  program.kind = "stacks" => DOMAIN mem \intersect (\h600..\h62f) = {}

\* The processors hand a value to and fro through memory and the swap port, in
\* every interleaving of interrupts (mainboard.c:1080-1107).
HandsOver ==
  Reaches("partner") => x85.r[7] = (program.a + 12) % 256

\* No interrupt between two instructions disturbs a program: its stack is as it
\* left it, and the other processor finds what it was handed.
Undisturbed == StackBalanced /\ StackSwitched /\ HandsOver

\* Every program comes to its end or to the handler of interrupt 0, though a
\* read of the floppy's data waits any number of rounds (8088.c:583-615,
\* 8085.c:82-120).
Finishes == <>(Reaches(program.kind) \/ Faults(program.kind))
=============================================================================

--------------------------- MODULE ProcessorsProof ---------------------------
(***************************************************************************)
(* Proofs about the two processors: that every register, flag and byte of  *)
(* memory stays in its width, and that the prefetch queue of the 8088 is   *)
(* ahead of its program, whatever the programs, the interrupts and the     *)
(* bytes the ports return.  The last two sections are about the 8085: what *)
(* its stack gives back and what its arithmetic computes.                  *)
(***************************************************************************)
EXTENDS Processors, I8088Proof

-----------------------------------------------------------------------------
(* Bytes. *)

\* Two bytes combined bit by bit are a byte.
LEMMA NibblesCombine ==
  ASSUME NEW a \in Nibbles, NEW b \in Nibbles
  PROVE  /\ AndNibble[a][b] \in Nibbles
         /\ AndNibble[a][b] <= a /\ AndNibble[a][b] <= b /\ a + b - AndNibble[a][b] <= 15
<1> DEFINE c(k) == Bit(a, k) * Bit(b, k)
<1>1. AndNibble[a][b] = c(0) + 2 * c(1) + 4 * c(2) + 8 * c(3)
  <2>1. AndNibble[a][b] = Bit(a, 0) * Bit(b, 0) + 2 * Bit(a, 1) * Bit(b, 1)
                         + 4 * Bit(a, 2) * Bit(b, 2) + 8 * Bit(a, 3) * Bit(b, 3)
    BY Zenon DEF AndNibble
  <2>2. \A k \in 0..3 : Bit(a, k) \in Int /\ Bit(b, k) \in Int
    BY BitIsBit, SmallNumbers DEF Nibbles, Bits
  <2> QED BY <2>1, <2>2
<1>2. \A k \in 0..3 : Bit(a, k) \in Bits /\ Bit(b, k) \in Bits
  BY BitIsBit, SmallNumbers DEF Nibbles
<1>3. ASSUME NEW k \in 0..3
      PROVE  c(k) \in Bits /\ c(k) <= Bit(a, k) /\ c(k) <= Bit(b, k) /\ Bit(a, k) + Bit(b, k) - c(k) <= 1
  BY <1>2 DEF Bits
<1>4. ASSUME NEW v \in Nibbles
      PROVE  v = Bit(v, 0) + 2 * Bit(v, 1) + 4 * Bit(v, 2) + 8 * Bit(v, 3)
  <2>1. 2^0 = 1 /\ 2^1 = 2 /\ 2^2 = 4 /\ 2^3 = 8 BY SMT
  <2>2. v \in 0..15 BY DEF Nibbles
  <2>3. v = (v % 2) + 2 * ((v \div 2) % 2) + 4 * ((v \div 4) % 2) + 8 * ((v \div 8) % 2) BY <2>2
  <2>4. v \div 1 = v BY <2>2
  <2> QED BY <2>1, <2>3, <2>4 DEF Bit
<1>5. a = Bit(a, 0) + 2 * Bit(a, 1) + 4 * Bit(a, 2) + 8 * Bit(a, 3) BY <1>4
<1>6. b = Bit(b, 0) + 2 * Bit(b, 1) + 4 * Bit(b, 2) + 8 * Bit(b, 3) BY <1>4
<1> DEFINE c0 == c(0)
           c1 == c(1)
           c2 == c(2)
           c3 == c(3)
<1>7. /\ c0 \in Bits /\ c0 <= Bit(a, 0) /\ c0 <= Bit(b, 0) /\ Bit(a, 0) + Bit(b, 0) - c0 <= 1
      /\ c1 \in Bits /\ c1 <= Bit(a, 1) /\ c1 <= Bit(b, 1) /\ Bit(a, 1) + Bit(b, 1) - c1 <= 1
      /\ c2 \in Bits /\ c2 <= Bit(a, 2) /\ c2 <= Bit(b, 2) /\ Bit(a, 2) + Bit(b, 2) - c2 <= 1
      /\ c3 \in Bits /\ c3 <= Bit(a, 3) /\ c3 <= Bit(b, 3) /\ Bit(a, 3) + Bit(b, 3) - c3 <= 1
  BY <1>3
<1>8. AndNibble[a][b] = c0 + 2 * c1 + 4 * c2 + 8 * c3 BY <1>1
<1> HIDE DEF c, c0, c1, c2, c3
<1>9. /\ Bit(a, 0) \in Int /\ Bit(a, 1) \in Int /\ Bit(a, 2) \in Int /\ Bit(a, 3) \in Int
      /\ Bit(b, 0) \in Int /\ Bit(b, 1) \in Int /\ Bit(b, 2) \in Int /\ Bit(b, 3) \in Int
  BY <1>2 DEF Bits
<1>10. a \in 0..15 /\ b \in 0..15 BY DEF Nibbles
<1>11. c0 \in 0..1 /\ c1 \in 0..1 /\ c2 \in 0..1 /\ c3 \in 0..1 BY <1>7 DEF Bits
<1> DEFINE d == AndNibble[a][b]
<1>12. d = c0 + 2 * c1 + 4 * c2 + 8 * c3 BY <1>8
<1> HIDE DEF d
<1>13. d <= a BY <1>5, <1>7, <1>9, <1>10, <1>11, <1>12
<1>14. d <= b BY <1>6, <1>7, <1>9, <1>10, <1>11, <1>12
<1>15. a + b - d <= 15 BY <1>5, <1>6, <1>7, <1>9, <1>10, <1>11, <1>12
<1>16. d \in 0..15 BY <1>10, <1>11, <1>12
<1> QED BY <1>13, <1>14, <1>15, <1>16 DEF Nibbles, d
LEMMA BytesCombine ==
  ASSUME NEW a \in Bytes, NEW b \in Bytes
  PROVE  And(a, b) \in Bytes /\ Or(a, b) \in Bytes /\ Xor(a, b) \in Bytes
<1> DEFINE n(v, k) == NibbleOf(v, k)
           p(k) == AndNibble[n(a, k)][n(b, k)]
<1>1. And(a, b) = p(0) + 16 * p(1) + 256 * p(2) + 4096 * p(3) + 65536 * p(4) BY SMT DEF And
<1>2. ASSUME NEW v \in Bytes
      PROVE  /\ n(v, 0) \in Nibbles /\ n(v, 1) \in Nibbles /\ v = n(v, 0) + 16 * n(v, 1)
             /\ n(v, 2) = 0 /\ n(v, 3) = 0 /\ n(v, 4) = 0
  <2>1. 16^0 = 1 /\ 16^1 = 16 /\ 16^2 = 256 /\ 16^3 = 4096 /\ 16^4 = 65536 BY SMT
  <2>2. v \in 0..255 BY DEF Bytes
  <2>3. v \div 1 = v /\ v = (v % 16) + 16 * ((v \div 16) % 16) BY <2>2
  <2>4. (v \div 256) % 16 = 0 /\ (v \div 4096) % 16 = 0 /\ (v \div 65536) % 16 = 0 BY <2>2
  <2>5. v % 16 \in 0..15 /\ (v \div 16) % 16 \in 0..15 BY <2>2
  <2> QED BY <2>1, <2>3, <2>4, <2>5 DEF NibbleOf, Nibbles
<1>3. p(2) = 0 /\ p(3) = 0 /\ p(4) = 0
  <2>1. 0 \in Nibbles BY DEF Nibbles
  <2> DEFINE d == AndNibble[0][0]
  <2>2. d \in Nibbles /\ d <= 0 BY <2>1, NibblesCombine, Zenon
  <2> HIDE DEF d
  <2>3. d = 0 BY <2>2 DEF Nibbles
  <2> QED BY <1>2, <2>3 DEF d
<1> DEFINE a0 == n(a, 0)
           a1 == n(a, 1)
           b0 == n(b, 0)
           b1 == n(b, 1)
<1>4. /\ a0 \in Nibbles /\ a1 \in Nibbles /\ b0 \in Nibbles /\ b1 \in Nibbles
      /\ a = a0 + 16 * a1 /\ b = b0 + 16 * b1
  BY <1>2
<1>5. And(a, b) = AndNibble[a0][b0] + 16 * AndNibble[a1][b1]
  <2>1. p(0) \in Int /\ p(1) \in Int
    <3>1. p(0) \in Nibbles /\ p(1) \in Nibbles BY <1>4, NibblesCombine, Zenon
    <3> HIDE DEF p
    <3> QED BY <3>1 DEF Nibbles
  <2> HIDE DEF p
  <2>2. And(a, b) = p(0) + 16 * p(1) BY <1>1, <1>3, <2>1
  <2> QED BY <2>2 DEF p
<1> HIDE DEF n
<1> DEFINE c0 == AndNibble[a0][b0]
           c1 == AndNibble[a1][b1]
<1>6. /\ c0 \in Nibbles /\ c0 <= a0 /\ c0 <= b0 /\ a0 + b0 - c0 <= 15
      /\ c1 \in Nibbles /\ c1 <= a1 /\ c1 <= b1 /\ a1 + b1 - c1 <= 15
  BY <1>4, NibblesCombine
<1>7. And(a, b) = c0 + 16 * c1 BY <1>5
<1> HIDE DEF a0, a1, b0, b1, c0, c1, p
<1>8. /\ a0 \in 0..15 /\ a1 \in 0..15 /\ b0 \in 0..15 /\ b1 \in 0..15
      /\ c0 \in 0..15 /\ c1 \in 0..15
  BY <1>4, <1>6, SMT DEF Nibbles
<1> DEFINE d == And(a, b)
<1>9. d = c0 + 16 * c1 BY <1>7
<1> HIDE DEF d
<1>10. d \in 0..255 BY <1>8, <1>9, SMT
<1>11. a + b - d \in 0..255 BY <1>4, <1>6, <1>8, <1>9, SMT
<1>12. a + b - 2 * d \in 0..255 BY <1>4, <1>6, <1>8, <1>9, SMT
<1> QED BY <1>10, <1>11, <1>12, SMT DEF Or, Xor, Bytes, d

-----------------------------------------------------------------------------
(* The 8085 has its words from an instance of its module. *)

LEMMA SameSets ==
  /\ I85!Bits = Bits /\ I85!Bytes = Bytes /\ I85!WordSize = WordSize /\ I85!Words16 = Words16
<1>1. I85!Bits = Bits BY DEF I85!Bits, Bits
<1>2. I85!Bytes = Bytes BY SMT DEF I85!Bytes, Bytes
<1>3. I85!WordSize = WordSize BY SMT DEF I85!WordSize, WordSize
<1>4. I85!Words16 = Words16 BY <1>3, Zenon DEF I85!Words16, Words16
<1> QED BY <1>1, <1>2, <1>3, <1>4
LEMMA SameParts ==
  /\ \A v, k : I85!Bit(v, k) = Bit(v, k)
  /\ \A v : I85!Low(v) = Low(v) /\ I85!High(v) = High(v)
  /\ \A h, l : I85!Pair(h, l) = Pair(h, l)
  /\ \A c : I85!Flag(c) = Flag(c)
  BY Zenon DEF I85!Bit, Bit, I85!Low, Low, I85!High, High, I85!Pair, Pair, I85!Flag, Flag
LEMMA SameMemory ==
  /\ \A m, a : I85!Read(m, a) = Read(m, a)
  /\ \A m, a, v : I85!Write(m, a, v) = Write(m, a, v)
  BY Zenon DEF I85!Read, Read, I85!Write, Write
LEMMA SameLogic ==
  ASSUME NEW a, NEW b
  PROVE  I85!And(a, b) = And(a, b) /\ I85!Or(a, b) = Or(a, b) /\ I85!Xor(a, b) = Xor(a, b)
<1>1. I85!Nibbles = Nibbles BY Zenon DEF I85!Nibbles, Nibbles
<1>2. \A v, k : I85!NibbleOf(v, k) = NibbleOf(v, k) BY Zenon DEF I85!NibbleOf, NibbleOf
<1>3. I85!AndNibble = AndNibble BY <1>1, SameParts, Zenon DEF I85!AndNibble, AndNibble
<1> DEFINE p(k) == AndNibble[NibbleOf(a, k)][NibbleOf(b, k)]
           q(k) == I85!AndNibble[I85!NibbleOf(a, k)][I85!NibbleOf(b, k)]
<1>5. \A k : p(k) = q(k) BY <1>2, <1>3, Zenon
<1>6. /\ And(a, b) = p(0) + 16 * p(1) + 256 * p(2) + 4096 * p(3) + 65536 * p(4)
      /\ I85!And(a, b) = q(0) + 16 * q(1) + 256 * q(2) + 4096 * q(3) + 65536 * q(4)
  BY SMT DEF I85!And, And
<1> HIDE DEF p, q
<1>4. I85!And(a, b) = And(a, b) BY <1>5, <1>6, SMT
<1> QED BY <1>4, Zenon DEF I85!Or, Or, I85!Xor, Xor
LEMMA SameParity == ASSUME NEW v PROVE I85!Parity(v) = Parity(v)
<1>1. I85!OnesParity = OnesParity
  BY SameSets, SameParts, Zenon DEF I85!OnesParity, OnesParity
<1> QED BY <1>1, Zenon DEF I85!Parity, Parity

\* The same of the words of the 8085.
LEMMA Half85 == ASSUME NEW v \in Int PROVE I85!Low(v) \in Bytes /\ I85!High(v) \in Bytes
  BY HalfIsByte, SameParts, Zenon
LEMMA Pair85 == ASSUME NEW h \in Bytes, NEW l \in Bytes PROVE I85!Pair(h, l) \in Words16
  BY PairIsWord, SameParts, Zenon
LEMMA Bit85 == ASSUME NEW v \in Int, NEW k \in 0..17 PROVE I85!Bit(v, k) \in Bits
  BY BitIsBit, SameParts, Zenon
LEMMA Flag85 == ASSUME NEW c PROVE I85!Flag(c) \in Bits
  BY FlagIsBit, SameParts, Zenon
LEMMA Parity85 == ASSUME NEW v \in Int PROVE I85!Parity(v) \in Bits
  BY ParityIsBit, SameParity, Zenon
LEMMA Cut85 == ASSUME NEW v \in Int PROVE v % I85!WordSize \in Words16
  BY WordCut, SameSets
LEMMA Logic85 ==
  ASSUME NEW a \in Bytes, NEW b \in Bytes
  PROVE  I85!And(a, b) \in Bytes /\ I85!Or(a, b) \in Bytes /\ I85!Xor(a, b) \in Bytes
  BY BytesCombine, SameLogic

-----------------------------------------------------------------------------
(* Machines with an 8085. *)

Flags85 == [c : Bits, p : Bits, ac : Bits, z : Bits, s : Bits]
Cpu85 == [r : [0..7 -> Bytes], sp : Words16, pc : Words16, f : Flags85, ie : Bits, mask : 0..7,
          halted : BOOLEAN]
Machines85 == [cpu : Cpu85, mem : Memories, out : Seq(Words16 \X Bytes)]

LEMMA SameCpu == I85!Cpu8085 = Cpu85
<1>1. I85!Flags8085 = Flags85 BY SameSets, Zenon DEF I85!Flags8085, Flags85
<1> QED BY <1>1, SameSets, Zenon DEF I85!Cpu8085, Cpu85
LEMMA Parts85 ==
  ASSUME NEW m \in Machines85
  PROVE  /\ m.mem \in Memories /\ m.cpu \in Cpu85 /\ m.cpu.r \in [0..7 -> Bytes]
         /\ m.cpu.sp \in Words16 /\ m.cpu.pc \in Words16 /\ m.cpu.f \in Flags85
         /\ m.cpu.ie \in Bits /\ m.cpu.mask \in 0..7 /\ m.cpu.halted \in BOOLEAN
         /\ m.out \in Seq(Words16 \X Bytes)
  BY Zenon DEF Machines85, Cpu85
LEMMA FlagsAre85 ==
  ASSUME NEW f \in Flags85
  PROVE  f.c \in Bits /\ f.p \in Bits /\ f.ac \in Bits /\ f.z \in Bits /\ f.s \in Bits
  BY Zenon DEF Flags85

LEMMA Set85 ==
  ASSUME NEW m \in Machines85
  PROVE  /\ \A k \in 0..7, v \in Bytes : [m EXCEPT !.cpu.r[k] = v] \in Machines85
         /\ \A pc \in Words16 : [m EXCEPT !.cpu.pc = pc] \in Machines85
         /\ \A sp \in Words16 : [m EXCEPT !.cpu.sp = sp] \in Machines85
         /\ \A f \in Flags85 : [m EXCEPT !.cpu.f = f] \in Machines85
         /\ \A c \in Bits : [m EXCEPT !.cpu.f.c = c] \in Machines85
  BY Zenon DEF Machines85, Cpu85, Flags85
LEMMA Read85 == ASSUME NEW m \in Machines85, NEW a PROVE I85!Read(m, a) \in Bytes
  BY Parts85, ReadIsByte, SameMemory, Zenon
LEMMA WordIsAddress == ASSUME NEW a \in Words16 PROVE a \in Addresses
<1> DEFINE w == WordSize
           s == AddressSpace
<1>1. w \in Int /\ s \in Int /\ w <= s BY SMT DEF WordSize, AddressSpace
<1> HIDE DEF w, s
<1>2. a \in 0..(w - 1) BY DEF Words16, w
<1>3. a \in 0..(s - 1) BY <1>1, <1>2
<1> QED BY <1>3 DEF Addresses, s
LEMMA Write85 ==
  ASSUME NEW m \in Machines85, NEW a \in Words16, NEW v \in Bytes
  PROVE  I85!Write(m, a, v) \in Machines85
<1> DEFINE new == [x \in {a} \union DOMAIN m.mem |-> IF x = a THEN v ELSE m.mem[x]]
<1>1. new \in Memories BY Parts85, WordIsAddress, MemoryWritten
<1> HIDE DEF new
<1>2. [m EXCEPT !.mem = new] \in Machines85 BY <1>1, Zenon DEF Machines85
<1>3. I85!Write(m, a, v) = [m EXCEPT !.mem = new] BY Zenon DEF I85!Write, new
<1> QED BY <1>2, <1>3

LEMMA Past85 ==
  ASSUME NEW m \in Machines85, NEW n \in Int PROVE I85!Past(m, n) \in Machines85
<1> DEFINE pc == (m.cpu.pc + n) % I85!WordSize
<1>1. pc \in Words16 BY Parts85, WordIsInt, IntSum, Cut85
<1>2. I85!Past(m, n) = [m EXCEPT !.cpu.pc = pc] BY Zenon DEF I85!Past
<1> HIDE DEF pc
<1> QED BY <1>1, <1>2, Set85
LEMMA Goto85 ==
  ASSUME NEW m \in Machines85, NEW pc \in Words16 PROVE I85!Goto(m, pc) \in Machines85
  BY Set85, Zenon DEF I85!Goto
LEMMA Ahead85 ==
  ASSUME NEW m \in Machines85, NEW k
  PROVE  I85!Byte(m, k) \in Bytes /\ I85!Word(m, k) \in Words16
<1>1. \A n : I85!Byte(m, n) \in Bytes BY Read85, Zenon DEF I85!Byte
<1> QED BY <1>1, Pair85, Zenon DEF I85!Word
LEMMA Names85 ==
  /\ I85!B = 0 /\ I85!C = 1 /\ I85!H = 4 /\ I85!L = 5 /\ I85!M = 6 /\ I85!A = 7
  BY DEF I85!B, I85!C, I85!H, I85!L, I85!M, I85!A
LEMMA Joined85 ==
  ASSUME NEW m \in Machines85, NEW h \in 0..7, NEW l \in 0..7
  PROVE  I85!Joined(m, h, l) \in Words16
<1>1. m.cpu.r[h] \in Bytes /\ m.cpu.r[l] \in Bytes BY Parts85, Zenon
<1> QED BY <1>1, Pair85, Zenon DEF I85!Joined
LEMMA HL85 == ASSUME NEW m \in Machines85 PROVE I85!HL(m) \in Words16
<1>1. I85!H \in 0..7 /\ I85!L \in 0..7 BY Names85
<1> QED BY <1>1, Joined85, Zenon DEF I85!HL
LEMMA Operand85 ==
  ASSUME NEW m \in Machines85, NEW k \in 0..7 PROVE I85!Operand(m, k) \in Bytes
  BY Parts85, Read85, Zenon DEF I85!Operand
LEMMA SetOperand85 ==
  ASSUME NEW m \in Machines85, NEW k \in 0..7, NEW v \in Int
  PROVE  I85!SetOperand(m, k, v) \in Machines85
  BY Half85, HL85, Write85, Set85, Zenon DEF I85!SetOperand
LEMMA RP85 ==
  ASSUME NEW m \in Machines85, NEW p \in 0..3 PROVE I85!RP(m, p) \in Words16
<1>1. CASE p = 3 BY <1>1, Parts85, Zenon DEF I85!RP
<1>2. CASE p # 3
  <2>1. 2 * p \in 0..7 /\ 2 * p + 1 \in 0..7 BY <1>2
  <2> QED BY <1>2, <2>1, Joined85, Zenon DEF I85!RP
<1> QED BY <1>1, <1>2
LEMMA SetRP85 ==
  ASSUME NEW m \in Machines85, NEW p \in 0..3, NEW v \in Int
  PROVE  I85!SetRP(m, p, v) \in Machines85
<1>1. CASE p = 3
  <2> DEFINE sp == v % I85!WordSize
  <2>1. sp \in Words16 BY Cut85
  <2>2. I85!SetRP(m, p, v) = [m EXCEPT !.cpu.sp = sp] BY <1>1, Zenon DEF I85!SetRP
  <2> HIDE DEF sp
  <2> QED BY <2>1, <2>2, Set85
<1>2. CASE p # 3
  <2> DEFINE i == 2 * p
             j == 2 * p + 1
             h == I85!High(v)
             l == I85!Low(v)
             t == [m EXCEPT !.cpu.r[i] = h]
  <2>1. i \in 0..7 /\ j \in 0..7 BY <1>2
  <2>2. h \in Bytes /\ l \in Bytes BY Half85
  <2>3. I85!SetRP(m, p, v) = [m EXCEPT !.cpu.r[i] = h, !.cpu.r[j] = l]
    BY <1>2, Zenon DEF I85!SetRP
  <2> HIDE DEF i, j, h, l
  <2>4. [m EXCEPT !.cpu.r[i] = h, !.cpu.r[j] = l] \in Machines85
    BY <2>1, <2>2, Zenon DEF Machines85, Cpu85
  <2> QED BY <2>3, <2>4
<1> QED BY <1>1, <1>2
LEMMA Load85 == ASSUME NEW m \in Machines85, NEW a PROVE I85!Load(m, a) \in Words16
  BY Read85, Pair85, Zenon DEF I85!Load
LEMMA Store85 ==
  ASSUME NEW m \in Machines85, NEW a \in Words16, NEW v \in Int
  PROVE  I85!Store(m, a, v) \in Machines85
<1>1. (a + 1) % I85!WordSize \in Words16 BY WordIsInt, SmallInts, IntSum, Cut85
<1> QED BY <1>1, Half85, Write85, Zenon DEF I85!Store
LEMMA Push85 ==
  ASSUME NEW m \in Machines85, NEW v \in Int PROVE I85!Push(m, v) \in Machines85
<1> DEFINE sp == (m.cpu.sp - 2) % I85!WordSize
           t == I85!Store(m, sp, v)
<1>1. sp \in Words16 BY Parts85, WordIsInt, SmallInts, IntSum, Cut85
<1>2. I85!Push(m, v) = [t EXCEPT !.cpu.sp = sp] BY Zenon DEF I85!Push
<1> HIDE DEF sp
<1>3. t \in Machines85 BY <1>1, Store85
<1> HIDE DEF t
<1> QED BY <1>1, <1>2, <1>3, Set85
LEMMA Top85 == ASSUME NEW m \in Machines85 PROVE I85!Top(m) \in Words16
  BY Load85, Zenon DEF I85!Top
LEMMA Drop85 == ASSUME NEW m \in Machines85 PROVE I85!Drop(m) \in Machines85
<1> DEFINE sp == (m.cpu.sp + 2) % I85!WordSize
<1>1. sp \in Words16 BY Parts85, WordIsInt, SmallInts, IntSum, Cut85
<1>2. I85!Drop(m) = [m EXCEPT !.cpu.sp = sp] BY Zenon DEF I85!Drop
<1> HIDE DEF sp
<1> QED BY <1>1, <1>2, Set85

-----------------------------------------------------------------------------
(* Arithmetic of the 8085. *)

Results85 == [v : Bytes, f : Flags85]
LEMMA ZSP85 ==
  ASSUME NEW f \in Flags85, NEW v \in Int PROVE I85!SignZeroParity(f, v) \in Flags85
<1>1. I85!Bit(v, 7) \in Bits BY Bit85, SmallNumbers
<1>2. I85!Flag(I85!Low(v) = 0) \in Bits /\ I85!Parity(v) \in Bits BY Flag85, Parity85
<1> QED BY <1>1, <1>2, Zenon DEF I85!SignZeroParity, Flags85
LEMMA Carries85 ==
  ASSUME NEW f \in Flags85, NEW c \in Bits, NEW h \in Bits
  PROVE  [f EXCEPT !.c = c, !.ac = h] \in Flags85 /\ [f EXCEPT !.ac = h] \in Flags85
  BY Zenon DEF Flags85
LEMMA Digit == ASSUME NEW v \in Int PROVE v % 16 \in Int /\ v % 8 \in 0..7 /\ v \div 8 \in Int
  OBVIOUS
LEMMA Sum85 ==
  ASSUME NEW f \in Flags85, NEW a \in Int, NEW b \in Int, NEW carry \in Int, NEW half \in Int
  PROVE  /\ I85!Sum(f, a, b, carry, half) \in Results85
         /\ I85!Difference(f, a, b, carry, half) \in Results85
<1> DEFINE v == a + b + carry
           u == a - b - carry
           i == (a % 16) + (b % 16) + half
           j == (a % 16) - (b % 16) - half
           x == I85!Bit(v, 8)
           y == I85!Bit(i, 4)
           z == I85!Bit(u, 8)
           w == I85!Bit(j, 4)
           g == [I85!SignZeroParity(f, v) EXCEPT !.c = x, !.ac = y]
           h == [I85!SignZeroParity(f, u) EXCEPT !.c = z, !.ac = w]
           k == I85!Low(v)
           l == I85!Low(u)
<1>1. v \in Int /\ u \in Int /\ i \in Int /\ j \in Int OBVIOUS
<1>2. /\ I85!Sum(f, a, b, carry, half) = [v |-> k, f |-> g]
      /\ I85!Difference(f, a, b, carry, half) = [v |-> l, f |-> h]
  BY Zenon DEF I85!Sum, I85!Difference
<1> HIDE DEF v, u, i, j
<1>3. x \in Bits /\ y \in Bits /\ z \in Bits /\ w \in Bits BY <1>1, Bit85, SmallNumbers
<1> HIDE DEF x, y, z, w
<1>4. g \in Flags85 /\ h \in Flags85 BY <1>1, <1>3, ZSP85, Carries85
<1>5. k \in Bytes /\ l \in Bytes BY <1>1, Half85
<1> HIDE DEF g, h, k, l
<1>6. [v |-> k, f |-> g] \in Results85 /\ [v |-> l, f |-> h] \in Results85
  BY <1>4, <1>5, Zenon DEF Results85
<1> QED BY <1>2, <1>6, Zenon
LEMMA LogicOf85 ==
  ASSUME NEW f \in Flags85, NEW v \in Bytes, NEW h \in Bits
  PROVE  I85!Logic(f, v, h) \in Results85
<1>1. I85!SignZeroParity(f, v) \in Flags85 BY ByteIsInt, ZSP85
<1>2. 0 \in Bits BY DEF Bits
<1>3. [I85!SignZeroParity(f, v) EXCEPT !.c = 0, !.ac = h] \in Flags85 BY <1>1, <1>2, Carries85
<1> QED BY <1>3, Zenon DEF I85!Logic, Results85

LEMMA A85 ==
  ASSUME NEW m \in Machines85
  PROVE  I85!A \in 0..7 /\ m.cpu.r[I85!A] \in Bytes /\ m.cpu.r[I85!A] \in Int
<1>1. I85!A \in 0..7 BY Names85
<1>2. m.cpu.r[I85!A] \in Bytes BY <1>1, Parts85, Zenon
<1> QED BY <1>1, <1>2, ByteIsInt
LEMMA SetAF85 ==
  ASSUME NEW m \in Machines85, NEW f \in Flags85, NEW v \in Bytes
  PROVE  /\ [m EXCEPT !.cpu.f = f, !.cpu.r[I85!A] = v] \in Machines85
         /\ [m EXCEPT !.cpu.r[I85!A] = v, !.cpu.f = f] \in Machines85
  BY A85, Zenon DEF Machines85, Cpu85
LEMMA Alu85 ==
  ASSUME NEW m \in Machines85, NEW y \in 0..7, NEW b \in Bytes, NEW immediate
  PROVE  I85!Alu(m, y, b, immediate) \in Machines85
<1> DEFINE a == m.cpu.r[I85!A]
           f == m.cpu.f
           half == IF immediate THEN 0 ELSE f.c
           u0 == I85!Sum(f, a, b, 0, 0)
           u1 == I85!Sum(f, a, b, f.c, half)
           u2 == I85!Difference(f, a, b, 0, 0)
           u3 == I85!Difference(f, a, b, f.c, half)
           u4 == I85!Logic(f, I85!And(a, b), 1)
           u5 == I85!Logic(f, I85!Xor(a, b), 0)
           u6 == I85!Logic(f, I85!Or(a, b), 0)
           u == CASE y = 0 -> u0 [] y = 1 -> u1 [] y \in {2, 7} -> u2 [] y = 3 -> u3
                  [] y = 4 -> u4 [] y = 5 -> u5 [] y = 6 -> u6
           v == IF y = 7 THEN a ELSE u.v
           g == u.f
<1>1. I85!Alu(m, y, b, immediate) = [m EXCEPT !.cpu.f = g, !.cpu.r[I85!A] = v]
  BY Zenon DEF I85!Alu
<1>2. a \in Bytes /\ a \in Int /\ b \in Int /\ f \in Flags85 BY A85, ByteIsInt, Parts85
<1>3. f.c \in Int BY <1>2, FlagsAre85, BitIsInt
<1>4. half \in Int BY <1>3
<1> HIDE DEF a, f, half
<1>5. u0 \in Results85 /\ u1 \in Results85 /\ u2 \in Results85 /\ u3 \in Results85
  BY <1>2, <1>3, <1>4, SmallInts, Sum85
<1>6. u4 \in Results85 /\ u5 \in Results85 /\ u6 \in Results85
  <2>1. 0 \in Bits /\ 1 \in Bits BY DEF Bits
  <2> QED BY <1>2, <2>1, Logic85, LogicOf85
<1> HIDE DEF u0, u1, u2, u3, u4, u5, u6
<1>7. y \in {0, 1, 2, 3, 4, 5, 6, 7} BY SMT
<1>8. u \in Results85 BY <1>5, <1>6, <1>7, Zenon
<1> HIDE DEF u
<1>9. g \in Flags85 /\ u.v \in Bytes BY <1>8, Zenon DEF Results85
<1>10. v \in Bytes BY <1>2, <1>9, Zenon
<1> HIDE DEF v, g
<1>11. [m EXCEPT !.cpu.f = g, !.cpu.r[I85!A] = v] \in Machines85 BY <1>9, <1>10, SetAF85
<1> QED BY <1>1, <1>11

\* inr and dcr: a register, and what its counting leaves in the flags.
LEMMA Count85 ==
  ASSUME NEW m \in Machines85, NEW y \in 0..7
  PROVE  I85!Inr(m, y) \in Machines85 /\ I85!Dcr(m, y) \in Machines85
<1> DEFINE v == I85!Operand(m, y) + 1
           w == I85!Operand(m, y) - 1
           f == [I85!SignZeroParity(m.cpu.f, v) EXCEPT !.ac = I85!Flag(v % 16 = 0)]
           g == [I85!SignZeroParity(m.cpu.f, w) EXCEPT !.ac = I85!Flag(w % 16 = 15)]
           s == I85!SetOperand(m, y, v)
           t == I85!SetOperand(m, y, w)
<1>1. I85!Inr(m, y) = [s EXCEPT !.cpu.f = f] /\ I85!Dcr(m, y) = [t EXCEPT !.cpu.f = g]
  BY Zenon DEF I85!Inr, I85!Dcr
<1>2. v \in Int /\ w \in Int BY Operand85, ByteIsInt, SmallInts, IntSum
<1> HIDE DEF v, w
<1>3. f \in Flags85 /\ g \in Flags85 BY <1>2, Parts85, ZSP85, Flag85, Carries85
<1>4. s \in Machines85 /\ t \in Machines85 BY <1>2, SetOperand85
<1> HIDE DEF f, g, s, t
<1> QED BY <1>1, <1>3, <1>4, Set85
LEMMA Dad85 ==
  ASSUME NEW m \in Machines85, NEW p \in 0..3 PROVE I85!Dad(m, p) \in Machines85
<1> DEFINE v == I85!HL(m) + I85!RP(m, p)
           t == I85!SetRP(m, 2, v)
           c == I85!Bit(v, 16)
<1>1. I85!Dad(m, p) = [t EXCEPT !.cpu.f.c = c] BY Zenon DEF I85!Dad
<1>2. v \in Int BY HL85, RP85, WordIsInt, IntSum
<1> HIDE DEF v
<1>3. c \in Bits BY <1>2, Bit85, SmallNumbers
<1>4. t \in Machines85
  <2>1. 2 \in 0..3 OBVIOUS
  <2> QED BY <1>2, <2>1, SetRP85
<1> HIDE DEF t, c
<1> QED BY <1>1, <1>3, <1>4, Set85
LEMMA Daa85 == ASSUME NEW m \in Machines85 PROVE I85!Daa(m) \in Machines85
<1> DEFINE a == m.cpu.r[I85!A]
           f == m.cpu.f
           v == a + (IF a > 153 \/ f.c = 1 THEN 96 ELSE 0)
                  + (IF a % 16 > 9 \/ f.ac = 1 THEN 6 ELSE 0)
           c == I85!Flag(v > 255)
           h == (I85!Bit(a, 4) + I85!Bit(v, 4)) % 2
           g == [I85!SignZeroParity(f, v) EXCEPT !.c = c, !.ac = h]
           l == I85!Low(v)
<1>1. I85!Daa(m) = [m EXCEPT !.cpu.r[I85!A] = l, !.cpu.f = g] BY SMT DEF I85!Daa
<1>2. a \in Int /\ f \in Flags85 BY A85, Parts85
<1> HIDE DEF a, f
<1>3. v \in Int BY <1>2
<1> HIDE DEF v
<1>4. h \in Bits
  <2>1. I85!Bit(a, 4) \in Bits /\ I85!Bit(v, 4) \in Bits BY <1>2, <1>3, Bit85, SmallNumbers
  <2> QED BY <2>1, TwoBits
<1>5. c \in Bits BY Flag85
<1> HIDE DEF c, h
<1>6. g \in Flags85 BY <1>2, <1>3, <1>4, <1>5, ZSP85, Carries85
<1>7. l \in Bytes BY <1>3, Half85
<1> HIDE DEF g, l
<1>8. [m EXCEPT !.cpu.r[I85!A] = l, !.cpu.f = g] \in Machines85 BY <1>6, <1>7, SetAF85
<1> QED BY <1>1, <1>8
LEMMA Accumulator85 ==
  ASSUME NEW m \in Machines85, NEW v \in Bytes, NEW c \in Bits
  PROVE  I85!Accumulator(m, v, c) \in Machines85
  BY A85, Zenon DEF I85!Accumulator, Machines85, Cpu85, Flags85
LEMMA Turned85 ==
  ASSUME NEW a \in Bytes, NEW c \in Bits
  PROVE  /\ I85!Low(2 * a) + c \in Bytes /\ (a \div 2) + 128 * c \in Bytes
         /\ 255 - a \in Bytes /\ a % 2 \in Bits /\ 1 - c \in Bits
<1>1. a \in 0..255 /\ c \in 0..1 BY DEF Bytes, Bits
<1>2. ((2 * a) % 256) + c \in 0..255 BY <1>1
<1>3. (a \div 2) + 128 * c \in 0..255 BY <1>1
<1>4. 255 - a \in 0..255 BY <1>1
<1>5. a % 2 \in {0, 1} /\ 1 - c \in {0, 1} BY <1>1
<1> QED BY <1>2, <1>3, <1>4, <1>5 DEF I85!Low, Bytes, Bits
LEMMA Rotate85 ==
  ASSUME NEW m \in Machines85, NEW y \in 0..7 PROVE I85!Rotate(m, y) \in Machines85
<1> DEFINE a == m.cpu.r[I85!A]
           c == m.cpu.f.c
           b == I85!Bit(a, 7)
           l == a % 2
           r0 == I85!Accumulator(m, I85!Low(2 * a) + b, b)
           r1 == I85!Accumulator(m, (a \div 2) + 128 * l, l)
           r2 == I85!Accumulator(m, I85!Low(2 * a) + c, b)
           r3 == I85!Accumulator(m, (a \div 2) + 128 * c, l)
           r4 == I85!Daa(m)
           r5 == I85!Accumulator(m, 255 - a, c)
           r6 == I85!Accumulator(m, a, 1)
           r7 == I85!Accumulator(m, a, 1 - c)
<1>1. I85!Rotate(m, y) =
        CASE y = 0 -> r0 [] y = 1 -> r1 [] y = 2 -> r2 [] y = 3 -> r3
          [] y = 4 -> r4 [] y = 5 -> r5 [] y = 6 -> r6 [] y = 7 -> r7
  BY SMT DEF I85!Rotate
<1>2. a \in Bytes /\ a \in Int /\ c \in Bits BY A85, Parts85, FlagsAre85
<1> HIDE DEF a, c
<1>3. b \in Bits /\ l \in Bits /\ 1 \in Bits
  <2>1. 1 \in Bits BY DEF Bits
  <2> QED BY <1>2, <2>1, Bit85, SmallNumbers, Turned85
<1> HIDE DEF b, l
<1>4. r0 \in Machines85 /\ r1 \in Machines85 BY <1>2, <1>3, Turned85, Accumulator85
<1>5. r2 \in Machines85 /\ r3 \in Machines85 BY <1>2, <1>3, Turned85, Accumulator85
<1>6. r5 \in Machines85 /\ r6 \in Machines85 /\ r7 \in Machines85
  BY <1>2, <1>3, Turned85, Accumulator85
<1>7. r4 \in Machines85 BY Daa85
<1> HIDE DEF r0, r1, r2, r3, r4, r5, r6, r7
<1>8. y \in {0, 1, 2, 3, 4, 5, 6, 7} BY SMT
<1> QED BY <1>1, <1>4, <1>5, <1>6, <1>7, <1>8, Zenon

-----------------------------------------------------------------------------
(* Moves, jumps and the stack of the 8085. *)

LEMMA Indirect85 ==
  ASSUME NEW m \in Machines85, NEW y \in 0..7 PROVE I85!Indirect(m, y) \in Machines85
<1> DEFINE a == m.cpu.r[I85!A]
           w == I85!Word(m, 0)
           p == I85!RP(m, y \div 2)
           t == I85!Past(m, 2)
           i0 == I85!Write(m, p, a)
           i1 == I85!SetOperand(m, I85!A, I85!Read(m, p))
           i4 == I85!Store(t, w, I85!HL(m))
           i5 == I85!SetRP(t, 2, I85!Load(m, w))
           i6 == I85!Write(t, w, a)
           i7 == I85!SetOperand(t, I85!A, I85!Read(m, w))
<1>1. I85!Indirect(m, y) =
        CASE y \in {0, 2} -> i0 [] y \in {1, 3} -> i1
          [] y = 4 -> i4 [] y = 5 -> i5 [] y = 6 -> i6 [] y = 7 -> i7
  BY Zenon DEF I85!Indirect
<1>2. y \div 2 \in 0..3 /\ 2 \in 0..3 OBVIOUS
<1>3. a \in Bytes /\ w \in Words16 /\ p \in Words16 BY <1>2, A85, Ahead85, RP85
<1>4. t \in Machines85 BY SmallInts, Past85
<1> HIDE DEF a, w, p, t
<1>5. I85!Read(m, p) \in Int /\ I85!Read(m, w) \in Int BY Read85, ByteIsInt
<1>6. I85!HL(m) \in Int /\ I85!Load(m, w) \in Int BY HL85, Load85, WordIsInt
<1>7. i0 \in Machines85 /\ i6 \in Machines85 BY <1>3, <1>4, Write85
<1>8. i1 \in Machines85 /\ i7 \in Machines85 BY <1>4, <1>5, A85, SetOperand85
<1>9. i4 \in Machines85 BY <1>3, <1>4, <1>6, Store85
<1>10. i5 \in Machines85 BY <1>2, <1>4, <1>6, SetRP85
<1> HIDE DEF i0, i1, i4, i5, i6, i7
<1>11. y \in {0, 1, 2, 3, 4, 5, 6, 7} BY SMT
<1> QED BY <1>1, <1>7, <1>8, <1>9, <1>10, <1>11, Zenon
LEMMA Rim85 == ASSUME NEW m \in Machines85 PROVE I85!Rim(m) \in Machines85
<1>1. m.cpu.ie \in Int /\ m.cpu.mask \in Int
  <2>1. m.cpu.ie \in Bits /\ m.cpu.mask \in 0..7 BY Parts85
  <2> QED BY <2>1, BitIsInt
<1>2. 8 * m.cpu.ie + m.cpu.mask \in Int BY <1>1
<1> QED BY <1>2, A85, SetOperand85, Zenon DEF I85!Rim
LEMMA Sim85 == ASSUME NEW m \in Machines85 PROVE I85!Sim(m) \in Machines85
<1> DEFINE ie == I85!Bit(m.cpu.r[I85!A], 3)
           mask == m.cpu.r[I85!A] % 8
<1>1. ie \in Bits BY A85, Bit85, SmallNumbers
<1>2. mask \in 0..7 BY A85, Digit
<1>3. I85!Sim(m) = [m EXCEPT !.cpu.ie = ie, !.cpu.mask = mask] BY Zenon DEF I85!Sim
<1> HIDE DEF ie, mask
<1>4. [m EXCEPT !.cpu.ie = ie, !.cpu.mask = mask] \in Machines85
  BY <1>1, <1>2, Zenon DEF Machines85, Cpu85
<1> QED BY <1>3, <1>4

LEMMA Jumps85 ==
  ASSUME NEW m \in Machines85, NEW met
  PROVE  /\ I85!Jump(m, met) \in Machines85 /\ I85!CallIf(m, met) \in Machines85
         /\ I85!ReturnIf(m, met) \in Machines85
<1> DEFINE t == I85!Past(m, 2)
           w == I85!Word(m, 0)
           u == I85!Push(t, t.cpu.pc)
           d == I85!Drop(m)
<1>1. t \in Machines85 /\ w \in Words16 BY SmallInts, Past85, Ahead85
<1>2. t.cpu.pc \in Int BY <1>1, Parts85, WordIsInt
<1>3. I85!CallIf(m, met) = IF met THEN I85!Goto(u, w) ELSE t BY Zenon DEF I85!CallIf
<1>4. I85!Jump(m, met) = IF met THEN I85!Goto(m, w) ELSE t BY Zenon DEF I85!Jump
<1>5. I85!ReturnIf(m, met) = IF met THEN I85!Goto(d, I85!Top(m)) ELSE m
  BY Zenon DEF I85!ReturnIf
<1> HIDE DEF t, w
<1>6. u \in Machines85 BY <1>1, <1>2, Push85
<1>7. d \in Machines85 /\ I85!Top(m) \in Words16 BY Drop85, Top85
<1> HIDE DEF u, d
<1>8. /\ I85!Goto(u, w) \in Machines85 /\ I85!Goto(m, w) \in Machines85
      /\ I85!Goto(d, I85!Top(m)) \in Machines85
  BY <1>1, <1>6, <1>7, Goto85
<1> QED BY <1>1, <1>3, <1>4, <1>5, <1>8, Zenon
LEMMA Rst85 ==
  ASSUME NEW m \in Machines85, NEW y \in 0..7 PROVE I85!Rst(m, y) \in Machines85
<1>1. m.cpu.pc \in Int BY Parts85, WordIsInt
<1>2. I85!Push(m, m.cpu.pc) \in Machines85 BY <1>1, Push85
<1>3. 8 * y \in Words16
  <2>1. 8 * y \in Bytes BY SMT DEF Bytes
  <2> QED BY <2>1, ByteIsWord
<1> QED BY <1>2, <1>3, Goto85, Zenon DEF I85!Rst

LEMMA FlagByte85 ==
  ASSUME NEW f \in Flags85 PROVE I85!FlagByte(f) \in Int
<1>1. f.c \in Int /\ f.p \in Int /\ f.ac \in Int /\ f.z \in Int /\ f.s \in Int
  BY FlagsAre85, BitIsInt
<1> QED BY <1>1 DEF I85!FlagByte
LEMMA FlagsIn85 == ASSUME NEW v \in Int PROVE I85!FlagsIn(v) \in Flags85
  BY Bit85, SmallNumbers, Zenon DEF I85!FlagsIn, Flags85
LEMMA Pairs85 ==
  ASSUME NEW m \in Machines85, NEW p \in 0..3
  PROVE  I85!PushPair(m, p) \in Machines85 /\ I85!PopPair(m, p) \in Machines85
<1> DEFINE psw == I85!Pair(m.cpu.r[I85!A], I85!FlagByte(m.cpu.f))
           v == IF p = 3 THEN psw ELSE I85!RP(m, p)
           d == I85!Drop(m)
           w == I85!Top(m)
           f == I85!FlagsIn(I85!Low(w))
           s == I85!SetOperand(d, I85!A, I85!High(w))
           t == [s EXCEPT !.cpu.f = f]
<1>1. I85!PushPair(m, p) = I85!Push(m, v) BY Zenon DEF I85!PushPair
<1>2. I85!PopPair(m, p) = IF p = 3 THEN t ELSE I85!SetRP(d, p, w) BY Zenon DEF I85!PopPair
<1>3. psw \in Int
  <2>1. m.cpu.r[I85!A] \in Int /\ I85!FlagByte(m.cpu.f) \in Int BY A85, Parts85, FlagByte85
  <2> QED BY <2>1 DEF I85!Pair
<1>4. I85!RP(m, p) \in Int BY RP85, WordIsInt
<1>5. v \in Int BY <1>3, <1>4, Zenon
<1> HIDE DEF psw, v
<1>6. I85!Push(m, v) \in Machines85 BY <1>5, Push85
<1>7. d \in Machines85 /\ w \in Int BY Drop85, Top85, WordIsInt
<1> HIDE DEF d, w
<1>8. I85!Low(w) \in Int /\ I85!High(w) \in Int BY <1>7, Half85, ByteIsInt
<1>9. f \in Flags85 /\ s \in Machines85 BY <1>7, <1>8, A85, FlagsIn85, SetOperand85
<1> HIDE DEF f, s
<1>10. t \in Machines85 BY <1>9, Set85
<1>11. I85!SetRP(d, p, w) \in Machines85 BY <1>7, SetRP85
<1> QED BY <1>1, <1>2, <1>6, <1>10, <1>11, Zenon
LEMMA Exchanges85 ==
  ASSUME NEW m \in Machines85 PROVE I85!Xthl(m) \in Machines85 /\ I85!Xchg(m) \in Machines85
<1> DEFINE h == I85!HL(m)
           s == I85!Store(m, m.cpu.sp, h)
           t == I85!SetRP(m, 1, h)
<1>1. /\ I85!Xthl(m) = I85!SetRP(s, 2, I85!Top(m))
      /\ I85!Xchg(m) = I85!SetRP(t, 2, I85!RP(m, 1))
  BY Zenon DEF I85!Xthl, I85!Xchg
<1>2. h \in Int /\ m.cpu.sp \in Words16 BY HL85, Parts85, WordIsInt
<1>3. 1 \in 0..3 /\ 2 \in 0..3 OBVIOUS
<1> HIDE DEF h
<1>4. s \in Machines85 /\ t \in Machines85 BY <1>2, <1>3, Store85, SetRP85
<1>5. I85!Top(m) \in Int /\ I85!RP(m, 1) \in Int BY <1>3, Top85, RP85, WordIsInt
<1> HIDE DEF s, t
<1> QED BY <1>1, <1>3, <1>4, <1>5, SetRP85
LEMMA Ports85 ==
  ASSUME NEW m \in Machines85, NEW e, e.in[1] \in Bytes
  PROVE  I85!In(m, e) \in Machines85 /\ I85!Out(m) \in Machines85
<1> DEFINE t == I85!Past(m, 1)
           out == <<<<I85!Byte(m, 0), m.cpu.r[I85!A]>>>>
<1>1. t \in Machines85 BY SmallInts, Past85
<1>2. I85!In(m, e) = I85!SetOperand(t, I85!A, e.in[1]) BY Zenon DEF I85!In
<1>3. I85!Out(m) = [t EXCEPT !.out = out] BY Zenon DEF I85!Out
<1>4. out \in Seq(Words16 \X Bytes)
  <2> DEFINE T == Words16 \X Bytes
             w == <<I85!Byte(m, 0), m.cpu.r[I85!A]>>
  <2>1. w \in T BY Ahead85, A85, ByteIsWord, Zenon
  <2> HIDE DEF T, w
  <2>2. <<w>> \in Seq(T) BY <2>1
  <2> QED BY <2>2, Zenon DEF T, w
<1> HIDE DEF t, out
<1>5. [t EXCEPT !.out = out] \in Machines85 BY <1>1, <1>4, Zenon DEF Machines85
<1>6. I85!SetOperand(t, I85!A, e.in[1]) \in Machines85 BY <1>1, A85, ByteIsInt, SetOperand85
<1> QED BY <1>2, <1>3, <1>5, <1>6

-----------------------------------------------------------------------------
(* One instruction of the 8085. *)

LEMMA Lower85 ==
  ASSUME NEW m \in Machines85, NEW y \in 0..7, NEW z \in 0..7
  PROVE  I85!Lower(m, y, z) \in Machines85
<1> DEFINE p == y \div 2
           w == I85!Word(m, 0)
           t == I85!Past(m, 2)
           d == IF y % 2 = 0 THEN 1 ELSE -1
           v == I85!RP(m, p) + d
           l0 == IF y = 4 THEN I85!Rim(m) ELSE IF y = 6 THEN I85!Sim(m) ELSE m
           l1 == IF y % 2 = 0 THEN I85!SetRP(t, p, w) ELSE I85!Dad(m, p)
           l2 == I85!Indirect(m, y)
           l3 == I85!SetRP(m, p, v)
           l4 == I85!Inr(m, y)
           l5 == I85!Dcr(m, y)
           l6 == I85!SetOperand(I85!Past(m, 1), y, I85!Byte(m, 0))
           l7 == I85!Rotate(m, y)
<1>1. I85!Lower(m, y, z) =
        CASE z = 0 -> l0 [] z = 1 -> l1 [] z = 2 -> l2 [] z = 3 -> l3
          [] z = 4 -> l4 [] z = 5 -> l5 [] z = 6 -> l6 [] z = 7 -> l7
  BY Zenon DEF I85!Lower
<1>2. p \in 0..3 OBVIOUS
<1>3. w \in Int /\ t \in Machines85 BY SmallInts, Ahead85, WordIsInt, Past85
<1>4. v \in Int
  <2>1. d \in Int OBVIOUS
  <2> HIDE DEF d, p
  <2>2. I85!RP(m, p) \in Int BY <1>2, RP85, WordIsInt
  <2> QED BY <2>1, <2>2, IntSum
<1> HIDE DEF p, w, t, d, v
<1>5. l0 \in Machines85 BY Rim85, Sim85, Zenon
<1>6. l1 \in Machines85 BY <1>2, <1>3, SetRP85, Dad85, Zenon
<1>7. l2 \in Machines85 /\ l7 \in Machines85 BY Indirect85, Rotate85
<1>8. l3 \in Machines85 BY <1>2, <1>4, SetRP85
<1>9. l4 \in Machines85 /\ l5 \in Machines85 BY Count85
<1>10. l6 \in Machines85 BY SmallInts, Past85, Ahead85, ByteIsInt, SetOperand85
<1> HIDE DEF l0, l1, l2, l3, l4, l5, l6, l7
<1>11. z \in {0, 1, 2, 3, 4, 5, 6, 7} BY SMT
<1> QED BY <1>1, <1>5, <1>6, <1>7, <1>8, <1>9, <1>10, <1>11, Zenon
LEMMA Upper85 ==
  ASSUME NEW m \in Machines85, NEW op, NEW y \in 0..7, NEW z \in 0..7, NEW e, e.in[1] \in Bytes
  PROVE  I85!Upper(m, op, y, z, e) \in Machines85
<1> DEFINE K(u) == u \in Machines85
           p == y \div 2
           holds == I85!Holds(m.cpu.f, y)
           h == I85!HL(m)
           a == [m EXCEPT !.cpu.sp = h]
           i == [m EXCEPT !.cpu.ie = y % 2]
           j == I85!Alu(I85!Past(m, 1), y, I85!Byte(m, 0), TRUE)
           j0 == I85!ReturnIf(m, holds)
           j1 == I85!PopPair(m, p)
           j2 == I85!ReturnIf(m, TRUE)
           j3 == I85!Goto(m, h)
           j4 == I85!Jump(m, holds)
           j5 == I85!Jump(m, TRUE)
           j6 == I85!Out(m)
           j7 == I85!In(m, e)
           j8 == I85!Xthl(m)
           j9 == I85!Xchg(m)
           k1 == I85!CallIf(m, holds)
           k2 == I85!PushPair(m, p)
           k3 == I85!CallIf(m, TRUE)
           k4 == I85!Rst(m, y)
<1>1. I85!Upper(m, op, y, z, e) =
        CASE z = 0 -> j0 [] z = 1 /\ y % 2 = 0 -> j1 [] op = \hc9 -> j2 [] op = \he9 -> j3
          [] op = \hf9 -> a [] z = 2 -> j4 [] op = \hc3 -> j5 [] op = \hd3 -> j6
          [] op = \hdb -> j7 [] op = \he3 -> j8 [] op = \heb -> j9
          [] op \in {\hf3, \hfb} -> i [] z = 4 -> k1 [] z = 5 /\ y % 2 = 0 -> k2
          [] op = \hcd -> k3 [] z = 6 -> j [] z = 7 -> k4 [] OTHER -> m
  BY Zenon DEF I85!Upper
<1>2. p \in 0..3 /\ y % 2 \in {0, 1} OBVIOUS
<1>3. h \in Words16 BY HL85
<1> HIDE DEF h, p, holds
<1>4. K(a) BY <1>3, Set85
<1>5. K(i)
  <2> DEFINE b == y % 2
  <2>1. b \in Bits BY <1>2 DEF Bits
  <2> HIDE DEF b
  <2>2. [m EXCEPT !.cpu.ie = b] \in Machines85 BY <2>1, Zenon DEF Machines85, Cpu85
  <2> QED BY <2>2 DEF b
<1>6. K(j) BY SmallInts, Past85, Ahead85, Alu85
<1>7. K(j0) /\ K(j2) /\ K(j4) /\ K(j5) /\ K(k1) /\ K(k3) BY Jumps85
<1>8. K(j1) /\ K(k2) BY <1>2, Pairs85
<1>9. K(j3) BY <1>3, Goto85
<1>10. K(j6) /\ K(j7) BY Ports85
<1>11. K(j8) /\ K(j9) /\ K(k4) BY Exchanges85, Rst85
<1> HIDE DEF a, i, j, j0, j1, j2, j3, j4, j5, j6, j7, j8, j9, k1, k2, k3, k4
<1> QED BY <1>1, <1>4, <1>5, <1>6, <1>7, <1>8, <1>9, <1>10, <1>11, SMT
LEMMA Instruction85 ==
  ASSUME NEW m \in Machines85, NEW e, e.in[1] \in Bytes
  PROVE  I85!DoInstruction8085(m, e) \in Machines85
<1> DEFINE op == I85!Byte(m, 0)
           y == (op \div 8) % 8
           z == op % 8
           s == I85!Past(m, 1)
           t == [s EXCEPT !.out = <<>>]
           d0 == [m EXCEPT !.out = <<>>]
           d1 == [t EXCEPT !.cpu.halted = TRUE]
           d2 == I85!Lower(t, y, z)
           d3 == I85!SetOperand(t, y, I85!Operand(t, z))
           d4 == I85!Alu(t, y, I85!Operand(t, z), FALSE)
           d5 == I85!Upper(t, op, y, z, e)
<1>1. I85!DoInstruction8085(m, e) =
        CASE m.cpu.halted -> d0
          [] ~m.cpu.halted /\ op = \h76 -> d1
          [] ~m.cpu.halted /\ op < \h40 -> d2
          [] ~m.cpu.halted /\ op \in (\h40..\h7f) \ {\h76} -> d3
          [] ~m.cpu.halted /\ op \in \h80..\hbf -> d4
          [] ~m.cpu.halted /\ op >= \hc0 -> d5
  BY SMT DEF I85!DoInstruction8085
<1>2. op \in Bytes /\ s \in Machines85 BY SmallInts, Ahead85, Past85
<1> HIDE DEF op, s
<1>3. t \in Machines85 /\ d0 \in Machines85
  <2>1. <<>> \in Seq(Words16 \X Bytes) OBVIOUS
  <2> QED BY <1>2, <2>1, Zenon DEF Machines85
<1>4. y \in 0..7 /\ z \in 0..7 BY <1>2 DEF Bytes
<1> HIDE DEF t, y, z, d0
<1>5. d1 \in Machines85
  <2>1. TRUE \in BOOLEAN OBVIOUS
  <2> QED BY <1>3, <2>1, Zenon DEF Machines85, Cpu85
<1>6. I85!Operand(t, z) \in Bytes /\ I85!Operand(t, z) \in Int
  BY <1>3, <1>4, Operand85, ByteIsInt
<1>7. d2 \in Machines85 /\ d5 \in Machines85 BY <1>3, <1>4, Lower85, Upper85
<1>8. d3 \in Machines85 /\ d4 \in Machines85 BY <1>3, <1>4, <1>6, SetOperand85, Alu85
<1>9. op \in 0..255 /\ m.cpu.halted \in BOOLEAN BY <1>2, Parts85 DEF Bytes
<1> HIDE DEF d1, d2, d3, d4, d5
<1> QED BY <1>1, <1>3, <1>5, <1>7, <1>8, <1>9, SMT

-----------------------------------------------------------------------------
(* The two on one memory. *)

LEMMA MachinesOf ==
  ASSUME TypeOK
  PROVE  /\ Machine86 \in Machines /\ Machine85 \in Machines85
         /\ Machine86.cpu = x86 /\ Machine86.mem = mem
<1>1. <<>> \in Seq(Words16 \X Bytes) OBVIOUS
<1>2. x86 \in Cpu8088 /\ x85 \in Cpu85 /\ mem \in Memories
  BY SameCpu, MemoriesAre, Zenon DEF TypeOK
<1> QED BY <1>1, <1>2, Zenon DEF Machine86, Machine85, Machines, Machines85
LEMMA QueueIs == QueueFollows <=> Follows(Machine86)
  BY Zenon DEF QueueFollows, Follows, At, Place, Read, Machine86

LEMMA Environment86 == ASSUME NEW e \in Environments86 PROVE e \in Givens
<1> DEFINE x == Instruction(Machine86)
           reads == x.op \in {\he4, \he5, \hec, \hed}
           I == IF reads THEN Answers \X Answers ELSE {<<0, 0>>}
           S == IF x.op = \hf7 /\ x.reg = 7 THEN BOOLEAN ELSE {FALSE}
<1>1. e \in [in : I, sign1 : S, sign2 : S, junk : {0}] BY Zenon DEF Environments86
<1>2. I \subseteq Bytes \X Bytes
  <2>1. Answers \subseteq Bytes BY BootAssumption
  <2>2. Answers \X Answers \subseteq Bytes \X Bytes BY <2>1, Zenon
  <2>3. {<<0, 0>>} \subseteq Bytes \X Bytes BY ZeroIsByte
  <2> HIDE DEF reads
  <2> QED BY <2>2, <2>3, Zenon
<1>3. S \subseteq BOOLEAN
  <2>1. {FALSE} \subseteq BOOLEAN BY Zenon
  <2> QED BY <2>1, Zenon
<1>4. {0} \subseteq Int OBVIOUS
<1> HIDE DEF I, S
<1> QED BY <1>1, <1>2, <1>3, <1>4, Zenon DEF Givens
LEMMA Environment85 == ASSUME NEW e \in Environments85 PROVE e.in[1] \in Bytes
<1> DEFINE I == IF I85!Byte(Machine85, 0) = \hdb THEN {<<v, 0>> : v \in Answers} ELSE {<<0, 0>>}
<1>1. e \in [in : I] BY SMT DEF Environments85
<1>2. \A p \in I : p[1] \in Bytes
  <2>1. Answers \subseteq Bytes BY BootAssumption
  <2> QED BY <2>1, ZeroIsByte
<1> HIDE DEF I
<1>3. e.in \in I BY <1>1, Zenon
<1> QED BY <1>2, <1>3

LEMMA SwapSettles ==
  ASSUME NEW m \in Machines, NEW out, NEW n \in SwapAnswers(out)
  PROVE  Settles(m, AnswerSwap(m, n))
<1>1. n \in Vectors \/ n = Silent BY Zenon DEF SwapAnswers
<1>2. n \in Vectors => n \in Bytes BY BootAssumption
<1>3. Settles(m, m) BY StaysSelf, Zenon DEF Settles
<1> QED BY <1>1, <1>2, <1>3, TrapSettles, Zenon DEF AnswerSwap
LEMMA Selected ==
  ASSUME active \in {"8088", "8085"}, NEW out PROVE Select(out) \in {"8088", "8085"}
  BY Zenon DEF Select, Chosen

\* A step that takes the 8088 and the memory from a machine that keeps this one.
LEMMA Taken ==
  ASSUME TypeOK, NEW u, Keeps(Machine86, u), x86' = u.cpu, mem' = u.mem
  PROVE  x86' \in Cpu8088 /\ IsMemory(mem') /\ QueueTracks
<1>1. u \in Machines BY DEF Keeps
<1>2. x86' \in Cpu8088 /\ IsMemory(mem') BY <1>1, Parts, MemoriesAre
<1>3. Follows(u) => QueueFollows'
  <2>1. \A a : Read(Machine86, a)' = Read(u, a) BY Zenon DEF Read, Machine86
  <2>2. \A k : At(Machine86, k)' = Read(u, Place(u, k)) BY <2>1, Zenon DEF At, Place, Machine86, Read
  <2> QED BY <2>2, Zenon DEF QueueFollows, Follows
<1>4. Trails(Machine86, u) => QueueStale BY Zenon DEF Trails, QueueStale, Place
<1> QED BY <1>2, <1>3, <1>4, QueueIs, Zenon DEF Keeps, QueueTracks

Inv == TypeOK /\ program \in Programs
LEMMA InitInv == Init => Inv
<1> SUFFICES ASSUME Init PROVE Inv OBVIOUS
<1> DEFINE b == Boot(program)
           m == [cpu |-> b.x86, mem |-> b.mem, out |-> <<>>]
<1>1. /\ program \in Programs /\ b.x86 \in Cpu8088 /\ b.x85 \in I85!Cpu8085 /\ IsMemory(b.mem)
      /\ b.active \in {"8088", "8085"} /\ program.traps \in Nat
  BY BootAssumption, Zenon DEF Init
<1>2. m \in Machines
  <2>1. <<>> \in Seq(Words16 \X Bytes) OBVIOUS
  <2> QED BY <1>1, <2>1, MemoriesAre, Zenon DEF Machines
<1>3. x86 = PrefetchFlush(m).cpu /\ x85 = b.x85 /\ mem = b.mem /\ active = b.active
  BY Zenon DEF Init
<1> HIDE DEF m, b
<1>4. x86 \in Cpu8088 BY <1>2, <1>3, FlushFollows, Parts
<1>5. cycles \in 0..2 /\ instructions_done \in Bits /\ taken \in 0..program.traps
  BY <1>1 DEF Init, Bits
<1> QED BY <1>1, <1>3, <1>4, <1>5, Zenon DEF Inv, TypeOK

LEMMA Counted ==
  ASSUME TypeOK PROVE 1 - instructions_done \in Bits /\ 1 \in 0..2 /\ 2 \in 0..2 /\ 0 \in 0..2
  BY TwoBits DEF TypeOK, Bits
LEMMA StepInv == Inv /\ [Next]_vars => Inv' /\ QueueTracks
<1> SUFFICES ASSUME Inv, [Next]_vars PROVE Inv' /\ QueueTracks OBVIOUS
<1>1. TypeOK /\ program \in Programs BY DEF Inv
<1>2. Machine86 \in Machines /\ Machine86.cpu = x86 /\ Machine86.mem = mem BY <1>1, MachinesOf
<1>3. Keeps(Machine86, Machine86) BY <1>2, StaysSelf, Zenon DEF Keeps
<1> DEFINE Rest == /\ x85' \in I85!Cpu8085 /\ active' \in {"8088", "8085"} /\ cycles' \in 0..2
                   /\ instructions_done' \in Bits /\ taken' \in 0..program'.traps
                   /\ program' \in Programs
<1>4. ASSUME Rest, NEW u, Keeps(Machine86, u), x86' = u.cpu, mem' = u.mem
      PROVE  Inv' /\ QueueTracks
  BY <1>1, <1>4, Taken, Zenon DEF Inv, TypeOK
<1>5. CASE Wait8088 \/ Wait8085 \/ UNCHANGED vars
  <2>1. x86' = Machine86.cpu /\ mem' = Machine86.mem
    BY <1>2, <1>5, Zenon DEF Wait8088, Wait8085, vars
  <2>2. Rest BY <1>1, <1>5, Counted, Zenon DEF Wait8088, Wait8085, vars, TypeOK
  <2> QED BY <1>3, <1>4, <2>1, <2>2
<1>6. CASE Execute8088
  <2> DEFINE do(e) == PerformInstruction(Machine86, e)
             answer(e, n) == AnswerSwap(do(e), n)
             done(e, n) == HandleOutstandingInterrupts(answer(e, n))
  <2>1. PICK e \in Environments86 : \E n \in SwapAnswers(do(e).out) :
             /\ x86' = done(e, n).cpu /\ mem' = done(e, n).mem /\ active' = Select(do(e).out)
    BY <1>6, Zenon DEF Execute8088
  <2>2. PICK n \in SwapAnswers(do(e).out) :
             /\ x86' = done(e, n).cpu /\ mem' = done(e, n).mem /\ active' = Select(do(e).out)
    BY <2>1
  <2>3. Keeps(Machine86, do(e)) BY <1>2, Environment86, InstructionKeeps
  <2>4. Settles(do(e), answer(e, n)) BY <2>3, SwapSettles, Zenon DEF Keeps
  <2>7. Keeps(Machine86, answer(e, n)) BY <2>3, <2>4, SettlesKeeps
  <2>8. answer(e, n) \in Machines BY <2>7 DEF Keeps
  <2> HIDE DEF answer
  <2>9. Settles(answer(e, n), done(e, n)) BY <2>8, OutstandingSettles, Zenon
  <2>5. Keeps(Machine86, done(e, n)) BY <2>7, <2>9, SettlesKeeps
  <2>6. Rest
    <3>1. active' \in {"8088", "8085"} BY <1>1, <2>2, Selected, Zenon DEF TypeOK
    <3> QED BY <1>1, <1>6, <3>1, Counted, Zenon DEF Execute8088, TypeOK
  <2> QED BY <1>4, <2>2, <2>5, <2>6
<1>7. CASE Execute8085
  <2> DEFINE do(e) == I85!DoInstruction8085(Machine85, e)
             idle(e) == [cpu |-> x86, mem |-> do(e).mem, out |-> <<>>]
             answer(e, n) == AnswerSwap(idle(e), n)
  <2>1. PICK e \in Environments85 : \E n \in SwapAnswers(do(e).out) :
             /\ x85' = do(e).cpu /\ x86' = answer(e, n).cpu /\ mem' = answer(e, n).mem
             /\ active' = Select(do(e).out)
    BY <1>7, Zenon DEF Execute8085
  <2>2. PICK n \in SwapAnswers(do(e).out) :
             /\ x85' = do(e).cpu /\ x86' = answer(e, n).cpu /\ mem' = answer(e, n).mem
             /\ active' = Select(do(e).out)
    BY <2>1
  <2>3. do(e) \in Machines85 BY <1>1, MachinesOf, Environment85, Instruction85
  <2>4. idle(e) \in Machines
    <3>1. <<>> \in Seq(Words16 \X Bytes) OBVIOUS
    <3>2. do(e).mem \in Memories /\ x86 \in Cpu8088 BY <1>1, <2>3, Parts85, Zenon DEF TypeOK
    <3> QED BY <3>1, <3>2, Zenon DEF Machines
  <2>5. idle(e).cpu = x86 OBVIOUS
  <2> HIDE DEF idle
  <2>6. Settles(idle(e), answer(e, n)) BY <2>4, SwapSettles
  <2>7. Keeps(Machine86, answer(e, n))
    <3>1. CASE Follows(answer(e, n)) BY <2>6, <3>1, Zenon DEF Settles, Keeps
    <3>2. CASE Stays(idle(e), answer(e, n))
      <4>1. Stays(Machine86, answer(e, n)) BY <1>2, <2>5, <3>2, Zenon DEF Stays
      <4>2. Led(Machine86, Machine86) BY <1>2, Zenon DEF Led, Trails, Follows
      <4> QED BY <4>1, <4>2, StaysLed, LedMachine
    <3> QED BY <2>6, <3>1, <3>2, Zenon DEF Settles
  <2>8. Rest
    <3>1. active' \in {"8088", "8085"} BY <1>1, <2>2, Selected, Zenon DEF TypeOK
    <3>2. x85' \in I85!Cpu8085 BY <2>2, <2>3, Parts85, SameCpu
    <3> QED BY <1>1, <1>7, <3>1, <3>2, Counted, Zenon DEF Execute8085, TypeOK
  <2> QED BY <1>4, <2>2, <2>7, <2>8
<1>8. CASE Interrupted
  <2> DEFINE trapped(n, maskable) ==
               IF maskable THEN TrapMaskable(Machine86, n) ELSE Trap(Machine86, n)
  <2>1. PICK n \in Vectors, maskable \in BOOLEAN :
             x86' = trapped(n, maskable).cpu /\ mem' = trapped(n, maskable).mem
    BY <1>8, Zenon DEF Interrupted
  <2>2. n \in Bytes BY BootAssumption
  <2>3. Settles(Machine86, trapped(n, maskable)) BY <1>2, <2>2, TrapSettles, Zenon
  <2>4. Keeps(Machine86, trapped(n, maskable)) BY <1>3, <2>3, SettlesKeeps
  <2>5. Rest
    <3>1. taken' \in 0..program'.traps
      <4>1. taken < program.traps /\ taken' = taken + 1 /\ program' = program
        BY <1>8 DEF Interrupted
      <4>2. program.traps \in Nat BY <1>1, BootAssumption
      <4> DEFINE t == program.traps
      <4>3. taken \in 0..t BY <1>1 DEF TypeOK
      <4> HIDE DEF t
      <4>4. taken + 1 \in 0..t BY <4>1, <4>2, <4>3 DEF t
      <4> QED BY <4>1, <4>4 DEF t
    <3> QED BY <1>1, <1>8, <3>1, Zenon DEF Interrupted, TypeOK
  <2> QED BY <1>4, <2>1, <2>4, <2>5
<1> QED BY <1>5, <1>6, <1>7, <1>8, Zenon DEF Next

\* TYPE, QUEUE: whatever the programs, the interrupts and the bytes the ports
\* return, every register, flag and byte of memory stays in its width, and a
\* step of either processor or of a device that begins with the prefetch queue in
\* agreement with memory ends with it in agreement where the 8088 goes on, or
\* with what memory held there when the step began (8088.c:100-116).
THEOREM ProcessorsCoherent == Spec => Coherent
<1>1. Inv => TypeOK BY DEF Inv
<1>2. Spec => []Inv /\ [][QueueTracks]_vars
  <2>1. Inv /\ [Next]_vars => Inv' BY StepInv
  <2>2. Inv /\ [Next]_vars => [QueueTracks]_vars BY StepInv
  <2> QED BY InitInv, <2>1, <2>2, PTL DEF Spec
<1> QED BY <1>1, <1>2, PTL DEF Coherent

\* An interrupt taken from a machine with the 8088 as it is can be undone.
LEMMA UndoneBy ==
  ASSUME x86 \in Cpu8088, NEW m \in Machines, m.cpu = x86, m.out = <<>>,
         NEW t, Reversible(x86, m, t), x86' = t.cpu, mem' = t.mem
  PROVE  Undone
<1>1. t \in Machines /\ t.out = <<>> BY Zenon DEF Reversible
<1>2. t = [cpu |-> t.cpu, mem |-> t.mem, out |-> t.out] BY <1>1 DEF Machines
<1>3. Machine86' = t BY <1>1, <1>2, Zenon DEF Machine86
<1>4. CASE Apart(x86, t.cpu) BY <1>4, Zenon DEF Apart, Undone
<1>5. CASE ~x86.held /\ GivesBack(x86, t)
  <2>1. Instruction(t) \in Decodings BY <1>1, InstructionDecoded
  <2>2. Resumes(x86, t) BY <1>5, <2>1 DEF GivesBack, Resumes
  <2> QED BY <1>3, <1>5, <2>2, Zenon DEF Undone
<1> QED BY <1>4, <1>5, Zenon DEF Reversible
LEMMA ApartSelf == ASSUME NEW c \in Cpu8088 PROVE Apart(c, c)
  BY ZenonT(60) DEF Apart, Cpu8088
LEMMA StepUndone == Inv /\ [Next]_vars => [Undone]_vars
<1> SUFFICES ASSUME Inv, Next PROVE Undone BY Zenon
<1>1. TypeOK BY DEF Inv
<1>2. Machine86 \in Machines /\ Machine86.cpu = x86 /\ Machine86.out = <<>> /\ x86 \in Cpu8088
  BY <1>1, MachinesOf, Zenon DEF Machine86, TypeOK
<1>3. Apart(x86, x86) BY <1>2, ApartSelf
<1>4. CASE Wait8088
  <2>1. taken' = taken /\ active # "8085" BY <1>4 DEF Wait8088
  <2> QED BY <2>1, Zenon DEF Undone
<1>5. CASE Execute8088
  <2>1. taken' = taken /\ active # "8085" BY <1>5 DEF Execute8088
  <2> QED BY <2>1, Zenon DEF Undone
<1>6. CASE Wait8085
  <2>1. x86' = x86 BY <1>6 DEF Wait8085
  <2> QED BY <1>3, <2>1, Zenon DEF Undone, Apart
<1>7. CASE Execute8085
  <2> DEFINE do(e) == I85!DoInstruction8085(Machine85, e)
             idle(e) == [cpu |-> x86, mem |-> do(e).mem, out |-> <<>>]
             answer(e, n) == AnswerSwap(idle(e), n)
  <2>1. PICK e \in Environments85 : \E n \in SwapAnswers(do(e).out) :
             x86' = answer(e, n).cpu /\ mem' = answer(e, n).mem
    BY <1>7, Zenon DEF Execute8085
  <2>2. PICK n \in SwapAnswers(do(e).out) : x86' = answer(e, n).cpu /\ mem' = answer(e, n).mem
    BY <2>1
  <2>3. do(e) \in Machines85 BY <1>1, MachinesOf, Environment85, Instruction85
  <2>4. idle(e) \in Machines
    <3>1. <<>> \in Seq(Words16 \X Bytes) OBVIOUS
    <3>2. do(e).mem \in Memories /\ x86 \in Cpu8088 BY <1>1, <2>3, Parts85, Zenon DEF TypeOK
    <3> QED BY <3>1, <3>2, Zenon DEF Machines
  <2>5. idle(e).cpu = x86 /\ idle(e).out = <<>> OBVIOUS
  <2>6. n \in Bytes \/ n = Silent
    <3>1. n \in Vectors \/ n = Silent BY Zenon DEF SwapAnswers
    <3> QED BY <3>1, BootAssumption
  <2> HIDE DEF idle, do
  <2>7. CASE n = Silent
    <3>1. answer(e, n) = idle(e) BY <2>7, Zenon DEF AnswerSwap
    <3> HIDE DEF answer
    <3>2. x86' = x86 BY <2>2, <2>5, <3>1, Zenon
    <3> QED BY <1>3, <3>2, Zenon DEF Undone, Apart
  <2>8. CASE n \in Bytes /\ n # Silent
    <3>1. answer(e, n) = TrapMaskable(idle(e), n) BY <2>8, Zenon DEF AnswerSwap
    <3>2. Reversible(x86, idle(e), TrapMaskable(idle(e), n)) BY <1>2, <1>3, <2>4, <2>5, <2>8, TrapUndone
    <3> QED BY <1>2, <2>2, <2>4, <2>5, <3>1, <3>2, UndoneBy
  <2> QED BY <2>6, <2>7, <2>8
<1>8. CASE Interrupted
  <2> DEFINE trapped(n, maskable) ==
               IF maskable THEN TrapMaskable(Machine86, n) ELSE Trap(Machine86, n)
  <2>1. PICK n \in Vectors, maskable \in BOOLEAN :
             x86' = trapped(n, maskable).cpu /\ mem' = trapped(n, maskable).mem
    BY <1>8, Zenon DEF Interrupted
  <2>2. n \in Bytes BY BootAssumption
  <2>3. Reversible(x86, Machine86, trapped(n, maskable)) BY <1>2, <1>3, <2>2, TrapUndone, Zenon
  <2> HIDE DEF trapped
  <2> QED BY <1>2, <2>1, <2>3, UndoneBy
<1> QED BY <1>4, <1>5, <1>6, <1>7, <1>8, Zenon DEF Next

\* INTERRUPTS: whatever the programs and whenever a device, the keyboard or the
\* swap port asks, the request waits or is dropped without a trace in registers
\* and flags, or an 8088 free to take it takes it, and an IRET gives back every
\* register, the flags and the place, wherever the stack is (8088.c:118-136,
\* 154-187, 3224-3245).
THEOREM ProcessorsUndone == Spec => InterruptsUndone
<1>1. Inv /\ [Next]_vars => Inv' BY StepInv
<1> QED BY InitInv, <1>1, StepUndone, PTL DEF Spec, InterruptsUndone

-----------------------------------------------------------------------------
(* The stack of the 8085. *)

\* A read gives what was written last.
LEMMA Written85 ==
  ASSUME NEW m \in Machines85, NEW a, NEW b, NEW v
  PROVE  Read(Write(m, a, v), b) = IF b = a THEN v ELSE Read(m, b)
<1> DEFINE new == [x \in {a} \union DOMAIN m.mem |-> IF x = a THEN v ELSE m.mem[x]]
<1>1. Write(m, a, v) = [m EXCEPT !.mem = new] BY Zenon DEF Write, new
<1>2. [m EXCEPT !.mem = new].mem = new BY Zenon DEF Machines85
<1>3. DOMAIN new = {a} \union DOMAIN m.mem
      /\ \A x \in {a} \union DOMAIN m.mem : new[x] = IF x = a THEN v ELSE m.mem[x]
  BY Zenon DEF new
<1> HIDE DEF new
<1> QED BY <1>1, <1>2, <1>3, Zenon DEF Read

\* A push leaves its word on the top of the stack.
LEMMA Pushed85 ==
  ASSUME NEW m \in Machines85, NEW v \in Words16
  PROVE  LET t == I85!Push(m, v)
         IN  t.cpu.sp = (m.cpu.sp - 2) % WordSize /\ I85!Top(t) = v
<1> DEFINE sp == (m.cpu.sp - 2) % WordSize
           sq == (sp + 1) % WordSize
           l == Low(v)
           h == High(v)
           a == Write(m, sp, l)
           b == Write(a, sq, h)
           t == [b EXCEPT !.cpu.sp = sp]
<1>1. I85!Push(m, v) = t
  BY SameSets, SameParts, SameMemory, Zenon DEF I85!Push, I85!Store
<1>2. m.cpu.sp \in Words16 BY Parts85
<1>3. sp \in Words16 /\ sq \in Words16 /\ sp # sq
  <2>1. WordSize = 65536 BY DEF WordSize
  <2>2. m.cpu.sp \in Int /\ 0 <= m.cpu.sp /\ m.cpu.sp <= 65535 BY <1>2, WordRange
  <2>3. sp \in Words16 /\ sq \in Words16
    <3>1. sp \in Words16 BY <2>2, WordCut
    <3> HIDE DEF sp
    <3> QED BY <3>1, WordRange, WordCut
  <2>4. sp # sq
    <3> DEFINE x == m.cpu.sp - 2
    <3>1. x \in Int BY <2>2
    <3> HIDE DEF x
    <3>2. x % 65536 # ((x % 65536) + 1) % 65536 BY <3>1, SMT
    <3> QED BY <2>1, <3>2 DEF x
  <2> QED BY <2>3, <2>4
<1>4. l \in Bytes /\ h \in Bytes /\ Pair(h, l) = v
  <2>1. v \in Int /\ 0 <= v /\ v <= 65535 BY WordRange
  <2>2. l \in Bytes /\ h \in Bytes BY <2>1, HalfIsByte
  <2>3. 256 * ((v \div 256) % 256) + (v % 256) = v BY <2>1, SMT
  <2> QED BY <2>2, <2>3 DEF Pair, Low, High
<1> HIDE DEF sp, sq, l, h
<1>5. a \in Machines85 /\ b \in Machines85
  <2>1. \A n \in Machines85 : \A p \in Words16 : \A w \in Bytes : Write(n, p, w) \in Machines85
    BY Write85, SameMemory, Zenon
  <2> QED BY <1>3, <1>4, <2>1
<1>6. Read(b, sp) = l /\ Read(b, sq) = h
  <2>1. Read(a, sp) = l BY Written85
  <2> HIDE DEF a
  <2>2. Read(b, sq) = h /\ Read(b, sp) = Read(a, sp) BY <1>3, <1>5, Written85
  <2> QED BY <2>1, <2>2
<1> HIDE DEF a, b
<1>7. t.cpu.sp = sp /\ t.mem = b.mem BY <1>5, Zenon DEF Machines85, Cpu85
<1> HIDE DEF t
<1>8. Read(t, sp) = l /\ Read(t, sq) = h BY <1>6, <1>7, Zenon DEF Read
<1>9. I85!Top(t) = Pair(Read(t, sq), Read(t, sp))
  BY <1>7, SameSets, SameParts, SameMemory, Zenon DEF I85!Top, I85!Load, sq
<1>10. I85!Top(t) = v BY <1>4, <1>8, <1>9, Zenon
<1> QED BY <1>1, <1>7, <1>10, Zenon DEF sp

\* Dropping it goes back to where the stack was.
LEMMA Dropped85 ==
  ASSUME NEW m \in Machines85, NEW u \in Machines85, u.cpu.sp = (m.cpu.sp - 2) % WordSize
  PROVE  I85!Drop(u) = [u EXCEPT !.cpu.sp = m.cpu.sp]
<1>1. (u.cpu.sp + 2) % WordSize = m.cpu.sp
  <2>1. m.cpu.sp \in Int /\ 0 <= m.cpu.sp /\ m.cpu.sp <= 65535 BY Parts85, WordRange
  <2>2. WordSize = 65536 BY DEF WordSize
  <2>3. ASSUME NEW x \in Int, 0 <= x, x <= 65535 PROVE (((x - 2) % 65536) + 2) % 65536 = x
    BY <2>3, SMT
  <2> QED BY <2>1, <2>2, <2>3
<1>2. I85!Drop(u) = [u EXCEPT !.cpu.sp = (u.cpu.sp + 2) % WordSize]
  BY SameSets, Zenon DEF I85!Drop
<1> QED BY <1>1, <1>2, Zenon

\* A call of the 8085 comes back. Any machine that reaches the return with the
\* stack pointer and the word on the top that CALL, a conditional call or RST
\* left is, after RET, at the instruction behind the call with the stack pointer
\* it had before, and nothing else has changed, also when the stack wraps
\* around from 0 (8085.c:1056-1068, 1085-1111).
THEOREM SubroutineReturns ==
  ASSUME NEW m \in Machines85, NEW t, NEW place,
         \/ t = I85!CallIf(m, TRUE) /\ place = (m.cpu.pc + 2) % WordSize
         \/ place = m.cpu.pc /\ \E y \in 0..7 : t = I85!Rst(m, y),
         NEW u \in Machines85, u.cpu.sp = t.cpu.sp, I85!Top(u) = I85!Top(t)
  PROVE  I85!ReturnIf(u, TRUE) = [u EXCEPT !.cpu.sp = m.cpu.sp, !.cpu.pc = place]
<1>1. PICK p \in Machines85 :
        /\ p.cpu.sp = m.cpu.sp /\ p.cpu.pc = place /\ place \in Words16
        /\ \E goal : t = I85!Goto(I85!Push(p, place), goal)
  <2>1. CASE t = I85!CallIf(m, TRUE) /\ place = (m.cpu.pc + 2) % WordSize
    <3> DEFINE p == I85!Past(m, 2)
    <3>1. p \in Machines85 BY Past85, SmallInts
    <3>2. p = [m EXCEPT !.cpu.pc = place] BY <2>1, SameSets, Zenon DEF I85!Past
    <3>3. [m EXCEPT !.cpu.pc = place].cpu.pc = place /\ [m EXCEPT !.cpu.pc = place].cpu.sp = m.cpu.sp
      BY Zenon DEF Machines85, Cpu85
    <3>4. p.cpu.pc = place /\ p.cpu.sp = m.cpu.sp BY <3>2, <3>3, Zenon
    <3>5. t = I85!Goto(I85!Push(p, p.cpu.pc), I85!Word(m, 0)) BY <2>1, Zenon DEF I85!CallIf
    <3> HIDE DEF p
    <3> QED BY <3>1, <3>4, <3>5, Parts85, Zenon
  <2>2. CASE place = m.cpu.pc /\ \E y \in 0..7 : t = I85!Rst(m, y)
    BY <2>2, Parts85, Zenon DEF I85!Rst
  <2> QED BY <2>1, <2>2
<1>2. PICK goal : t = I85!Goto(I85!Push(p, place), goal) BY <1>1
<1> DEFINE w == I85!Push(p, place)
           sp == (m.cpu.sp - 2) % WordSize
<1>3. w \in Machines85 /\ w.cpu.sp = sp /\ I85!Top(w) = place
  <2>1. place \in Int BY <1>1, WordRange
  <2>2. w \in Machines85 BY <1>1, <2>1, Push85
  <2>3. w.cpu.sp = (p.cpu.sp - 2) % WordSize /\ I85!Top(w) = place BY <1>1, Pushed85
  <2> QED BY <1>1, <2>2, <2>3
<1> HIDE DEF w, sp
<1>4. t.cpu.sp = sp /\ I85!Top(t) = place
  <2>1. t = [w EXCEPT !.cpu.pc = goal] BY <1>2, Zenon DEF I85!Goto, w
  <2>2. /\ [w EXCEPT !.cpu.pc = goal].cpu.sp = w.cpu.sp
        /\ [w EXCEPT !.cpu.pc = goal].mem = w.mem
    BY <1>3, Zenon DEF Machines85, Cpu85
  <2>3. t.cpu.sp = w.cpu.sp /\ t.mem = w.mem BY <2>1, <2>2, Zenon
  <2>4. I85!Top(t) = I85!Top(w) BY <2>3, Zenon DEF I85!Top, I85!Load, I85!Read
  <2> QED BY <1>3, <2>3, <2>4
<1>5. I85!Drop(u) = [u EXCEPT !.cpu.sp = m.cpu.sp] BY <1>4, Dropped85 DEF sp
<1>6. I85!ReturnIf(u, TRUE) = [[u EXCEPT !.cpu.sp = m.cpu.sp] EXCEPT !.cpu.pc = place]
  BY <1>4, <1>5, Zenon DEF I85!ReturnIf, I85!Goto
<1> QED BY <1>6, Zenon

\* The byte of flags that PUSH stores, and the flags that come back from it.
LEMMA FlagBits85 ==
  ASSUME NEW c \in {0, 1}, NEW p \in {0, 1}, NEW ac \in {0, 1}, NEW z \in {0, 1}, NEW s \in {0, 1},
         NEW v, v = 128 * s + 64 * z + 16 * ac + 4 * p + 2 + c
  PROVE  /\ v \in Bytes
         /\ Bit(v, 0) = c /\ Bit(v, 2) = p /\ Bit(v, 4) = ac /\ Bit(v, 6) = z /\ Bit(v, 7) = s
<1>0. v \in Int /\ c \in Int /\ p \in Int /\ ac \in Int /\ z \in Int /\ s \in Int OBVIOUS
<1>1. v = 2 * (64 * s + 32 * z + 8 * ac + 2 * p + 1) + c OBVIOUS
<1>2. v = 4 * (32 * s + 16 * z + 4 * ac + p) + (2 + c) OBVIOUS
<1>3. v \div 4 = 2 * (16 * s + 8 * z + 2 * ac) + p BY <1>2, SMT
<1>4. v \div 16 = 2 * (4 * s + 2 * z) + ac BY SMT
<1>5. v \div 64 = 2 * s + z BY SMT
<1>6. v \div 128 = s BY SMT
<1>7. \A k \in Int : \A b \in {0, 1} : (2 * k + b) % 2 = b BY SMT
<1>8. v % 2 = c BY <1>0, <1>1, <1>7, SMT
<1>9. (v \div 4) % 2 = p BY <1>0, <1>3, <1>7, SMT
<1>10. (v \div 16) % 2 = ac BY <1>0, <1>4, <1>7, SMT
<1>11. (v \div 64) % 2 = z BY <1>0, <1>5, <1>7, SMT
<1>12. (v \div 128) % 2 = s BY <1>0, <1>6, SMT
<1>13. 2^0 = 1 /\ 2^2 = 4 /\ 2^4 = 16 /\ 2^6 = 64 /\ 2^7 = 128 BY SMT
<1>14. v \div 1 = v BY <1>0, SMT
<1>15. v \in Bytes BY SMT DEF Bytes
<1> QED BY <1>8, <1>9, <1>10, <1>11, <1>12, <1>13, <1>14, <1>15 DEF Bit

LEMMA FlagsReturn85 ==
  ASSUME NEW f \in Flags85
  PROVE  I85!FlagByte(f) \in Bytes /\ I85!FlagsIn(I85!FlagByte(f)) = f
<1>1. f.c \in {0, 1} /\ f.p \in {0, 1} /\ f.ac \in {0, 1} /\ f.z \in {0, 1} /\ f.s \in {0, 1}
  BY Zenon DEF Flags85, Bits
<1>2. f = [c |-> f.c, p |-> f.p, ac |-> f.ac, z |-> f.z, s |-> f.s] BY DEF Flags85
<1>3. PICK v : v = I85!FlagByte(f) OBVIOUS
<1>4. v = 128 * f.s + 64 * f.z + 16 * f.ac + 4 * f.p + 2 + f.c BY <1>3, SMT DEF I85!FlagByte
<1>5. /\ v \in Bytes /\ Bit(v, 0) = f.c /\ Bit(v, 2) = f.p /\ Bit(v, 4) = f.ac
      /\ Bit(v, 6) = f.z /\ Bit(v, 7) = f.s
  BY <1>1, <1>4, FlagBits85, SMT
<1>6. I85!FlagsIn(v) = f BY <1>2, <1>5, SameParts, Zenon DEF I85!FlagsIn
<1> QED BY <1>3, <1>5, <1>6

LEMMA HalvesOf ==
  ASSUME NEW h \in Bytes, NEW l \in Bytes
  PROVE  Low(Pair(h, l)) = l /\ High(Pair(h, l)) = h /\ Pair(h, l) \in Words16
<1>1. h \in Int /\ 0 <= h /\ h <= 255 /\ l \in Int /\ 0 <= l /\ l <= 255 BY DEF Bytes
<1>2. (256 * h + l) % 256 = l /\ ((256 * h + l) \div 256) % 256 = h BY <1>1, SMT
<1> QED BY <1>2, PairIsWord DEF Low, High, Pair

\* POP gives back the pair that PUSH stored, or the accumulator and the flags, and
\* the stack pointer of before, whatever happened in between to the registers and
\* the rest of memory (8085.c:1038-1043, 1069-1074, 1172-1177, 1204-1209).
THEOREM PushedPairReturns ==
  ASSUME NEW m \in Machines85, NEW p \in 0..3, NEW u \in Machines85,
         u.cpu.sp = I85!PushPair(m, p).cpu.sp, I85!Top(u) = I85!Top(I85!PushPair(m, p))
  PROVE  LET r == I85!PopPair(u, p)
         IN  /\ r.cpu.sp = m.cpu.sp /\ r.mem = u.mem
             /\ IF p = 3 THEN r.cpu.r[I85!A] = m.cpu.r[I85!A] /\ r.cpu.f = m.cpu.f
                ELSE I85!RP(r, p) = I85!RP(m, p)
<1> DEFINE r == I85!PopPair(u, p)
           a == m.cpu.r[I85!A]
           g == I85!FlagByte(m.cpu.f)
           v == IF p = 3 THEN Pair(a, g) ELSE I85!RP(m, p)
           d == I85!Drop(u)
<1>1. a \in Bytes /\ g \in Bytes /\ I85!FlagsIn(g) = m.cpu.f /\ I85!A \in 0..7
  BY A85, Parts85, FlagsReturn85
<1> HIDE DEF a, g
<1>2. v \in Words16 BY <1>1, HalvesOf, RP85, Zenon
<1>3. I85!PushPair(m, p) = I85!Push(m, v) BY SameParts, Zenon DEF I85!PushPair, a, g
<1>4. u.cpu.sp = (m.cpu.sp - 2) % WordSize /\ I85!Top(u) = v
  <2> HIDE DEF v
  <2> QED BY <1>2, <1>3, Pushed85
<1>5. d \in Machines85 /\ d.cpu.sp = m.cpu.sp /\ d.mem = u.mem
  <2>1. d = [u EXCEPT !.cpu.sp = m.cpu.sp] BY <1>4, Dropped85
  <2>2. [u EXCEPT !.cpu.sp = m.cpu.sp].cpu.sp = m.cpu.sp /\ [u EXCEPT !.cpu.sp = m.cpu.sp].mem = u.mem
    BY Zenon DEF Machines85, Cpu85
  <2>3. d \in Machines85 BY Drop85
  <2> QED BY <2>1, <2>2, <2>3, Zenon
<1> HIDE DEF d
<1>6. CASE p = 3
  <2> DEFINE s == [d EXCEPT !.cpu.r[I85!A] = Low(High(v))]
  <2>1. v = Pair(a, g) /\ Low(v) = g /\ High(v) = a BY <1>1, <1>6, HalvesOf
  <2>2. Low(High(v)) = a
    <3>1. a \in Int /\ 0 <= a /\ a <= 255 BY <1>1 DEF Bytes
    <3>2. a % 256 = a BY <3>1, SMT
    <3> QED BY <2>1, <3>2 DEF Low
  <2> HIDE DEF v
  <2>3. I85!A # I85!M BY Names85
  <2>4. r = [s EXCEPT !.cpu.f = I85!FlagsIn(Low(v))]
    BY <1>4, <1>6, <2>3, SameParts, Zenon DEF I85!PopPair, I85!SetOperand, d
  <2>5. r = [[d EXCEPT !.cpu.r[I85!A] = a] EXCEPT !.cpu.f = m.cpu.f] BY <1>1, <2>1, <2>2, <2>4, Zenon
  <2> DEFINE q == [[d EXCEPT !.cpu.r[I85!A] = a] EXCEPT !.cpu.f = m.cpu.f]
  <2>6. q.cpu.sp = d.cpu.sp /\ q.mem = d.mem /\ q.cpu.r[I85!A] = a /\ q.cpu.f = m.cpu.f
    BY <1>1, <1>5, Zenon DEF Machines85, Cpu85
  <2> HIDE DEF r, q
  <2>7. r = q BY <2>5, Zenon DEF q
  <2> QED BY <1>5, <1>6, <2>6, <2>7, Zenon DEF r, a
<1>7. CASE p # 3
  <2> DEFINE i == 2 * p
             j == 2 * p + 1
             h == m.cpu.r[i]
             l == m.cpu.r[j]
             q == [d EXCEPT !.cpu.r[i] = h, !.cpu.r[j] = l]
  <2>1. i \in 0..7 /\ j \in 0..7 /\ i # j BY <1>7
  <2>2. I85!RP(m, p) = Pair(h, l) BY <1>7, SameParts, Zenon DEF I85!RP, I85!Joined
  <2>3. h \in Bytes /\ l \in Bytes
    <3> HIDE DEF i, j
    <3> QED BY <2>1, Parts85, Zenon
  <2>4. v = Pair(h, l) BY <1>7, <2>2, Zenon
  <2> HIDE DEF v
  <2>5. Low(v) = l /\ High(v) = h
    <3> HIDE DEF h, l
    <3> QED BY <2>3, <2>4, HalvesOf
  <2>6. r = [d EXCEPT !.cpu.r[i] = High(v), !.cpu.r[j] = Low(v)]
    BY <1>4, <1>7, SameParts, Zenon DEF I85!PopPair, I85!SetRP, d
  <2>7. r = q
    <3> HIDE DEF r, h, l
    <3> QED BY <2>5, <2>6, Zenon
  <2>8. q.cpu.r[i] = h /\ q.cpu.r[j] = l /\ q.cpu.sp = d.cpu.sp /\ q.mem = d.mem
    <3> HIDE DEF i, j, h, l
    <3> QED BY <1>5, <2>1, Zenon DEF Machines85, Cpu85
  <2>9. I85!RP(r, p) = Pair(r.cpu.r[i], r.cpu.r[j]) BY <1>7, SameParts, Zenon DEF I85!RP, I85!Joined
  <2> HIDE DEF r, q, i, j, h, l
  <2> QED BY <1>5, <1>7, <2>2, <2>7, <2>8, <2>9, Zenon DEF r
<1> QED BY <1>6, <1>7

-----------------------------------------------------------------------------
(* The arithmetic of the 8085, for all operands. *)

\* The flags of a sum or a difference, and its byte.
LEMMA SumSets85 ==
  ASSUME NEW f \in Flags85, NEW a, NEW b, NEW k, NEW half
  PROVE  /\ I85!Sum(f, a, b, k, half).v = Low(a + b + k)
         /\ I85!Sum(f, a, b, k, half).f.c = Bit(a + b + k, 8)
  BY SameParts, Zenon DEF I85!Sum, I85!SignZeroParity, Flags85
LEMMA DifferenceSets85 ==
  ASSUME NEW f \in Flags85, NEW a, NEW b, NEW k, NEW half
  PROVE  /\ I85!Difference(f, a, b, k, half).v = Low(a - b - k)
         /\ I85!Difference(f, a, b, k, half).f.c = Bit(a - b - k, 8)
         /\ I85!Difference(f, a, b, k, half).f.z = Flag(Low(a - b - k) = 0)
  BY SameParts, Zenon DEF I85!Difference, I85!SignZeroParity, Flags85
LEMMA CarryBit ==
  ASSUME NEW v \in Int, -256 <= v, v < 512
  PROVE  Bit(v, 8) = Flag(v < 0 \/ v >= 256)
<1>1. (v \div 256) % 2 = IF v < 0 \/ v >= 256 THEN 1 ELSE 0
  <2>1. CASE v < 0 BY <2>1, SMT
  <2>2. CASE 0 <= v /\ v < 256 BY <2>2, SMT
  <2>3. CASE v >= 256 BY <2>3, SMT
  <2> QED BY <2>1, <2>2, <2>3
<1> QED BY <1>1, Halves DEF Bit, Flag

\* ADD of the low bytes and ADC of the high ones make the sum of two words, with
\* its carry, and SUB and SBB their difference, with its borrow; CMP leaves in c
\* and z how two bytes compare (8085.c:538-857, 954-1025).
THEOREM Bytewise8085 ==
  ASSUME NEW f \in Flags85, NEW a \in Words16, NEW b \in Words16, NEW half
  PROVE  LET s == I85!Sum(f, Low(a), Low(b), 0, 0)
             t == I85!Sum(s.f, High(a), High(b), s.f.c, half)
             d == I85!Difference(f, Low(a), Low(b), 0, 0)
             e == I85!Difference(d.f, High(a), High(b), d.f.c, half)
         IN  /\ Pair(t.v, s.v) = (a + b) % WordSize /\ t.f.c = Flag(a + b >= WordSize)
             /\ Pair(e.v, d.v) = (a - b) % WordSize /\ e.f.c = Flag(a < b)
             /\ d.f.c = Flag(Low(a) < Low(b)) /\ d.f.z = Flag(Low(a) = Low(b))
<1> DEFINE s == I85!Sum(f, Low(a), Low(b), 0, 0)
           t == I85!Sum(s.f, High(a), High(b), s.f.c, half)
           d == I85!Difference(f, Low(a), Low(b), 0, 0)
           e == I85!Difference(d.f, High(a), High(b), d.f.c, half)
           l == Low(a) + Low(b)
           k == Flag(l < 0 \/ l >= 256)
           h == High(a) + High(b) + k
           p == Low(a) - Low(b)
           q == Flag(p < 0 \/ p >= 256)
           g == High(a) - High(b) - q
<1>0. a \in Int /\ 0 <= a /\ a < 65536 /\ b \in Int /\ 0 <= b /\ b < 65536 BY WordFacts
<1>1. /\ a \in Int /\ 0 <= a /\ a < 65536 /\ b \in Int /\ 0 <= b /\ b < 65536
      /\ Low(a) = a % 256 /\ High(a) = (a \div 256) % 256
      /\ Low(b) = b % 256 /\ High(b) = (b \div 256) % 256
  BY WordFacts DEF Low, High
<1>2. /\ Low(a) \in Int /\ 0 <= Low(a) /\ Low(a) <= 255 /\ Low(b) \in Int /\ 0 <= Low(b) /\ Low(b) <= 255
      /\ High(a) \in Int /\ 0 <= High(a) /\ High(a) <= 255
      /\ High(b) \in Int /\ 0 <= High(b) /\ High(b) <= 255
  BY <1>1, SMT
<1>3. k \in 0..1 /\ q \in 0..1 BY DEF Flag
<1>4. s.f \in Flags85 /\ d.f \in Flags85
  <2>1. /\ I85!Sum(f, Low(a), Low(b), 0, 0) \in Results85
        /\ I85!Difference(f, Low(a), Low(b), 0, 0) \in Results85
    BY <1>2, SmallInts, Sum85
  <2> QED BY <2>1, Zenon DEF Results85
<1>5. s.v = Low(l) /\ s.f.c = k /\ d.v = Low(p) /\ d.f.c = q /\ d.f.z = Flag(Low(p) = 0)
  <2>1. l + 0 = l /\ p - 0 = p /\ l \in Int /\ p \in Int /\ -256 <= l /\ l < 512 /\ -256 <= p /\ p < 512
    BY <1>2
  <2>2. s.v = Low(l + 0) /\ s.f.c = Bit(l + 0, 8) BY SumSets85
  <2>4. d.v = Low(p - 0) /\ d.f.c = Bit(p - 0, 8) /\ d.f.z = Flag(Low(p - 0) = 0)
    BY DifferenceSets85
  <2> HIDE DEF l, p, s, d
  <2>3. Bit(l, 8) = k /\ Bit(p, 8) = q BY <2>1, CarryBit
  <2> HIDE DEF k, q
  <2> QED BY <2>1, <2>2, <2>3, <2>4, Zenon
<1> HIDE DEF s, d, k, q
<1>6. t.v = Low(h) /\ t.f.c = Flag(h < 0 \/ h >= 256) /\ e.v = Low(g) /\ e.f.c = Flag(g < 0 \/ g >= 256)
  <2>1. h \in Int /\ g \in Int /\ -256 <= h /\ h < 512 /\ -256 <= g /\ g < 512 BY <1>2, <1>3
  <2>2. t.v = Low(h) /\ t.f.c = Bit(h, 8) BY <1>4, <1>5, SumSets85
  <2>4. e.v = Low(g) /\ e.f.c = Bit(g, 8) BY <1>4, <1>5, DifferenceSets85
  <2> HIDE DEF h, g, t, e
  <2>3. Bit(h, 8) = Flag(h < 0 \/ h >= 256) /\ Bit(g, 8) = Flag(g < 0 \/ g >= 256)
    BY <2>1, CarryBit
  <2> QED BY <2>2, <2>3, <2>4
<1>7. /\ 256 * (h % 256) + (l % 256) = (a + b) % 65536
      /\ (h < 0 \/ h >= 256) <=> a + b >= 65536
  BY <1>0, SumOfHalves, SMT DEF k, Low, High
<1>8. /\ 256 * (g % 256) + (p % 256) = (a - b) % 65536
      /\ (g < 0 \/ g >= 256) <=> a < b
  BY <1>0, DifferenceOfHalves, SMT DEF q, Low, High
<1>9. (p < 0 \/ p >= 256 <=> Low(a) < Low(b)) /\ (p % 256 = 0 <=> Low(a) = Low(b))
  BY <1>2, SMT
<1>13. WordSize = 65536 BY DEF WordSize
<1> HIDE DEF t, e, l, h, p, g
<1>10. Pair(t.v, s.v) = (a + b) % WordSize /\ t.f.c = Flag(a + b >= WordSize)
  BY <1>5, <1>13, <1>6, <1>7 DEF Pair, Low, Flag
<1>11. Pair(e.v, d.v) = (a - b) % WordSize /\ e.f.c = Flag(a < b)
  BY <1>5, <1>13, <1>6, <1>8 DEF Pair, Low, Flag
<1>12. d.f.c = Flag(Low(a) < Low(b)) /\ d.f.z = Flag(Low(a) = Low(b))
  <2>1. d.f.c = Flag(p < 0 \/ p >= 256) BY <1>5 DEF q
  <2>2. d.f.z = Flag(p % 256 = 0) BY <1>5 DEF Low
  <2> QED BY <1>9, <2>1, <2>2 DEF Flag
<1> QED BY <1>10, <1>11, <1>12, Zenon DEF s, t, d, e
=============================================================================

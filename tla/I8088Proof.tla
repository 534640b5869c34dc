----------------------------- MODULE I8088Proof -----------------------------
(***************************************************************************)
(* What the instructions of the 8088 (8088.c) do, for every machine.       *)
(*                                                                         *)
(* The first part shows that an instruction keeps the machine's type, and  *)
(* what it does to the prefetch queue, which is what Processors needs:     *)
(* relations between the machines before and after a step that compose     *)
(* (Stays, Led, Follows, Trails, Keeps, Settles), a lemma for each         *)
(* operator, one for each instruction, and InstructionKeeps for the whole  *)
(* of doInstruction8088.  The library's induction theorems take an         *)
(* operator as a parameter; Least and Inductive are induction over a set,  *)
(* and Recursion uses them on the rounds of a repeated string instruction. *)
(*                                                                         *)
(* The second part shows what the arithmetic computes, for all operands.   *)
(*                                                                         *)
(* The third part is about the stack: what an interrupt or a call leaves   *)
(* there, IRET or RET finds again, whatever ran in between (SameStack).    *)
(*                                                                         *)
(* The fourth part shows what a repeated string instruction does, for      *)
(* every count, by induction over its rounds, and the fifth that DAA and   *)
(* DAS make decimal arithmetic of the binary one.                          *)
(***************************************************************************)
EXTENDS I8088, WellFoundedInduction, TLAPS

\* The least element of a set of numbers, and induction.
LEMMA LessFounded == IsWellFoundedOn({xy \in Nat \X Nat : xy[1] < xy[2]}, Nat)
  BY NatLessThanWellFounded, SMT DEF OpToRel
LEMMA Least ==
  ASSUME NEW S, S \subseteq Nat, S # {}
  PROVE  \E n \in S : \A k \in S : n <= k
<1> DEFINE R == {xy \in Nat \X Nat : xy[1] < xy[2]}
<1>1. IsWellFoundedOn(R, Nat) BY LessFounded
<1>2. \A k, n \in Nat : k < n => <<k, n>> \in R OBVIOUS
<1> HIDE DEF R
<1>3. \E n \in S : \A k \in S : ~(<<k, n>> \in R) BY WFMin, <1>1
<1>4. PICK n \in S : \A k \in S : ~(<<k, n>> \in R) BY <1>3
<1>5. ASSUME NEW k \in S PROVE n <= k
  <2>1. n \in Nat /\ k \in Nat BY <1>4
  <2>2. ~(k < n) BY <1>2, <1>4, <2>1
  <2> QED BY <2>1, <2>2
<1> QED BY <1>4, <1>5
LEMMA Inductive ==
  ASSUME NEW S, 0 \in S, \A n \in Nat : n \in S => n + 1 \in S
  PROVE  Nat \subseteq S
<1> SUFFICES ASSUME ~(Nat \subseteq S) PROVE FALSE OBVIOUS
<1> DEFINE T == Nat \ S
<1>1. T \subseteq Nat /\ T # {} OBVIOUS
<1>2. PICK n \in T : \A k \in T : n <= k BY <1>1, Least
<1>3. n # 0 /\ n \in Nat /\ n \notin S BY <1>2
<1>4. n - 1 \in Nat /\ n - 1 + 1 = n /\ n - 1 < n BY <1>3
<1>5. n - 1 \in S BY <1>2, <1>4
<1> QED BY <1>3, <1>4, <1>5

-----------------------------------------------------------------------------
(* Words and bits. *)

LEMMA Powers == \A k \in 0..17 : 2^k \in Nat \ {0}
<1>0. 2^0 \in Nat \ {0} BY SMT
<1>1. 2^1 \in Nat \ {0} BY SMT
<1>2. 2^2 \in Nat \ {0} BY SMT
<1>3. 2^3 \in Nat \ {0} BY SMT
<1>4. 2^4 \in Nat \ {0} BY SMT
<1>5. 2^5 \in Nat \ {0} BY SMT
<1>6. 2^6 \in Nat \ {0} BY SMT
<1>7. 2^7 \in Nat \ {0} BY SMT
<1>8. 2^8 \in Nat \ {0} BY SMT
<1>9. 2^9 \in Nat \ {0} BY SMT
<1>10. 2^10 \in Nat \ {0} BY SMT
<1>11. 2^11 \in Nat \ {0} BY SMT
<1>12. 2^12 \in Nat \ {0} BY SMT
<1>13. 2^13 \in Nat \ {0} BY SMT
<1>14. 2^14 \in Nat \ {0} BY SMT
<1>15. 2^15 \in Nat \ {0} BY SMT
<1>16. 2^16 \in Nat \ {0} BY SMT
<1>17. 2^17 \in Nat \ {0} BY SMT
<1> SUFFICES ASSUME NEW k \in 0..17 PROVE 2^k \in Nat \ {0} OBVIOUS
<1>20. ASSUME k \in 0..5 PROVE 2^k \in Nat \ {0}
  <2>1. k = 0 \/ k = 1 \/ k = 2 \/ k = 3 \/ k = 4 \/ k = 5 BY <1>20, SMT
  <2> QED BY <2>1, <1>0, <1>1, <1>2, <1>3, <1>4, <1>5, Zenon
<1>21. ASSUME k \in 6..11 PROVE 2^k \in Nat \ {0}
  <2>1. k = 6 \/ k = 7 \/ k = 8 \/ k = 9 \/ k = 10 \/ k = 11 BY <1>21, SMT
  <2> QED BY <2>1, <1>6, <1>7, <1>8, <1>9, <1>10, <1>11, Zenon
<1>22. ASSUME k \in 12..17 PROVE 2^k \in Nat \ {0}
  <2>1. k = 12 \/ k = 13 \/ k = 14 \/ k = 15 \/ k = 16 \/ k = 17 BY <1>22, SMT
  <2> QED BY <2>1, <1>12, <1>13, <1>14, <1>15, <1>16, <1>17, Zenon
<1>23. k \in 0..5 \/ k \in 6..11 \/ k \in 12..17 BY SMT
<1> QED BY <1>20, <1>21, <1>22, <1>23

LEMMA Quotient == ASSUME NEW a \in Int, NEW n \in Nat \ {0}
  PROVE a \div n \in Int /\ a % n \in 0..(n - 1) /\ a = n * (a \div n) + (a % n)
  BY SMT

LEMMA BitIsBit ==
  ASSUME NEW v \in Int, NEW k \in 0..17 PROVE Bit(v, k) \in Bits
  BY Powers, SMT DEF Bit, Bits
LEMMA FlagIsBit == ASSUME NEW P PROVE Flag(P) \in Bits
  BY DEF Flag, Bits
LEMMA HalfIsByte ==
  ASSUME NEW v \in Int PROVE Low(v) \in Bytes /\ High(v) \in Bytes
  BY SMT DEF Low, High, Bytes
LEMMA WordSizeIs == WordSize \in Nat \ {0} /\ 65535 < WordSize
  BY SMT DEF WordSize
LEMMA SmallIsWord ==
  ASSUME NEW v \in Int, 0 <= v, v < WordSize PROVE v \in Words16
  BY WordSizeIs DEF Words16
LEMMA PairIsWord ==
  ASSUME NEW h \in Bytes, NEW l \in Bytes PROVE Pair(h, l) \in Words16
<1>1. /\ Pair(h, l) \in Int
      /\ 0 <= Pair(h, l)
      /\ Pair(h, l) <= 65535
  BY SMT DEF Pair, Bytes
<1> QED BY <1>1, WordSizeIs, SmallIsWord
LEMMA WordCut == ASSUME NEW v \in Int PROVE v % WordSize \in Words16
  BY WordSizeIs, Quotient DEF Words16
LEMMA AddressesAre == AddressSpace \in Nat \ {0} BY SMT DEF AddressSpace
LEMMA AddressCut == ASSUME NEW v \in Int PROVE v % AddressSpace \in Addresses
  BY AddressesAre, Quotient DEF Addresses
LEMMA AddressIsInt == ASSUME NEW a \in Addresses PROVE a \in Int
  BY AddressesAre DEF Addresses
LEMMA WordIsInt == ASSUME NEW v \in Words16 PROVE v \in Int
  BY WordSizeIs DEF Words16
LEMMA ByteIsInt == ASSUME NEW v \in Bytes PROVE v \in Int
  BY SMT DEF Bytes
LEMMA IntSum == ASSUME NEW a \in Int, NEW b \in Int PROVE a + b \in Int /\ a - b \in Int
  OBVIOUS
LEMMA ExtendIsWord == ASSUME NEW v \in Bytes PROVE Extend(v) \in Words16
<1>1. Extend(v) = v + 65280 \/ Extend(v) = v BY DEF Extend
<1>2. v \in Int /\ 0 <= v /\ v + 65280 <= 65535 BY SMT DEF Bytes
<1>3. v \in Words16 /\ v + 65280 \in Words16 BY <1>2, WordSizeIs, SmallIsWord
<1> QED BY <1>1, <1>3

LEMMA AndIsInt ==
  ASSUME NEW a \in Int, NEW b \in Int PROVE And(a, b) \in Int
<1>1. \A k \in 0..4 : 16^k \in Nat \ {0}
  <2>1. 16^0 = 1 /\ 16^1 = 16 BY SMT
  <2>2. 16^2 = 256 /\ 16^3 = 4096 BY SMT
  <2>3. 16^4 = 65536 BY SMT
  <2>4. 16^0 \in Nat \ {0} /\ 16^1 \in Nat \ {0} BY <2>1, SMT
  <2>5. 16^2 \in Nat \ {0} /\ 16^3 \in Nat \ {0} /\ 16^4 \in Nat \ {0} BY <2>2, <2>3, SMT
  <2> SUFFICES ASSUME NEW k \in 0..4 PROVE 16^k \in Nat \ {0} OBVIOUS
  <2>6. k = 0 \/ k = 1 \/ k = 2 \/ k = 3 \/ k = 4 BY SMT
  <2> QED BY <2>4, <2>5, <2>6, Zenon
<1>2. \A v \in Int, k \in 0..4 : NibbleOf(v, k) \in Nibbles
  BY <1>1 DEF NibbleOf, Nibbles
<1>3. \A p, q \in Nibbles : AndNibble[p][q] \in Int
  <2> SUFFICES ASSUME NEW p \in Nibbles, NEW q \in Nibbles PROVE AndNibble[p][q] \in Int OBVIOUS
  <2>1. \A k \in 0..3 : Bit(p, k) \in Int /\ Bit(q, k) \in Int BY BitIsBit DEF Bits, Nibbles
  <2>2. AndNibble[p][q] = Bit(p, 0) * Bit(q, 0) + 2 * Bit(p, 1) * Bit(q, 1)
                         + 4 * Bit(p, 2) * Bit(q, 2) + 8 * Bit(p, 3) * Bit(q, 3)
    BY DEF AndNibble
  <2> QED BY <2>1, <2>2
<1>4. \A k \in 0..4 : AndNibble[NibbleOf(a, k)][NibbleOf(b, k)] \in Int BY <1>2, <1>3
<1> QED BY <1>4 DEF And
LEMMA LogicIsInt ==
  ASSUME NEW a \in Int, NEW b \in Int PROVE Or(a, b) \in Int /\ Xor(a, b) \in Int
  BY AndIsInt DEF Or, Xor
LEMMA ParityIsBit == ASSUME NEW v \in Int PROVE Parity(v) \in Bits
<1>1. v % 256 \in Bytes BY DEF Bytes
<1>2. \A u \in Bytes : OnesParity[u] \in Bits
  <2> SUFFICES ASSUME NEW u \in Bytes PROVE OnesParity[u] \in Bits OBVIOUS
  <2>1. \A k \in 0..7 : Bit(u, k) \in Int BY BitIsBit DEF Bits, Bytes
  <2>2. OnesParity[u] = (Bit(u, 0) + Bit(u, 1) + Bit(u, 2) + Bit(u, 3)
                         + Bit(u, 4) + Bit(u, 5) + Bit(u, 6) + Bit(u, 7)) % 2
    BY DEF OnesParity
  <2> QED BY <2>1, <2>2 DEF Bits
<1> QED BY <1>1, <1>2 DEF Parity, Bits

-----------------------------------------------------------------------------
(* Machines, and what an instruction keeps of them. *)

Memories == UNION {[places -> Bytes] : places \in SUBSET Addresses}
Machines == [cpu : Cpu8088, mem : Memories, out : Seq(Words16 \X Bytes)]

\* Where the k-th byte ahead is, and that the queue holds those bytes.
Place(m, k) == Phys(m.cpu.s[CS], (m.cpu.ip + k) % WordSize)
Follows(m) == \A k \in 0..3 : m.cpu.q[k] = Read(m, Place(m, k))

\* The queue of t holds what the memory of m has at its places.
Trails(m, t) == \A k \in 0..3 : t.cpu.q[k] = Read(m, Place(t, k))

\* t is at the place m is at, with its queue.
Stays(m, t) ==
  t \in Machines /\ t.cpu.ip = m.cpu.ip /\ t.cpu.q = m.cpu.q /\ t.cpu.s[CS] = m.cpu.s[CS]
\* t has fetched from m.
Led(m, t) == t \in Machines /\ (Follows(m) => Trails(m, t))
\* t is at a place of its own, its queue loaded there, or has not moved.
Turns(m, t) == t \in Machines /\ (Follows(t) \/ Stays(m, t))
\* What every instruction does.
Keeps(m, t) == t \in Machines /\ (Follows(m) => Follows(t) \/ Trails(m, t))

LEMMA MemoriesAre == ASSUME NEW mem PROVE mem \in Memories <=> IsMemory(mem)
<1>1. ASSUME mem \in Memories PROVE IsMemory(mem)
  BY <1>1, Zenon DEF Memories, IsMemory
<1>2. ASSUME IsMemory(mem) PROVE mem \in Memories
  BY <1>2, Zenon DEF Memories, IsMemory
<1> QED BY <1>1, <1>2

LEMMA ReadIsByte ==
  ASSUME NEW m, m.mem \in Memories, NEW a PROVE Read(m, a) \in Bytes
<1>1. IsMemory(m.mem) BY MemoriesAre
<1>2. 0 \in Bytes BY SMT DEF Bytes
<1> QED BY <1>1, <1>2, Zenon DEF Read, IsMemory

LEMMA MemoryWritten ==
  ASSUME NEW mem \in Memories, NEW a \in Addresses, NEW v \in Bytes
  PROVE  [x \in {a} \union DOMAIN mem |-> IF x = a THEN v ELSE mem[x]] \in Memories
<1> DEFINE new == [x \in {a} \union DOMAIN mem |-> IF x = a THEN v ELSE mem[x]]
<1>1. IsMemory(mem) BY MemoriesAre
<1>2. IsMemory(new) BY <1>1, Zenon DEF IsMemory
<1> QED BY <1>2, MemoriesAre

LEMMA Parts ==
  ASSUME NEW m \in Machines
  PROVE  /\ m.mem \in Memories /\ m.cpu \in Cpu8088
         /\ m.cpu.b \in [0..7 -> Bytes] /\ m.cpu.w \in [4..7 -> Words16]
         /\ m.cpu.s \in [0..3 -> Words16] /\ m.cpu.ip \in Words16 /\ m.cpu.f \in Flags8088
         /\ m.cpu.q \in [0..3 -> Bytes] /\ m.cpu.ea \in Words16 /\ m.cpu.held \in BOOLEAN
         /\ m.cpu.list \in Seq(Bytes) /\ m.out \in Seq(Words16 \X Bytes)
  BY Zenon DEF Machines, Cpu8088

LEMMA WriteStays ==
  ASSUME NEW m \in Machines, NEW a \in Addresses, NEW v \in Bytes
  PROVE  Stays(m, Write(m, a, v)) /\ Write(m, a, v).cpu = m.cpu
<1> DEFINE new == [x \in {a} \union DOMAIN m.mem |-> IF x = a THEN v ELSE m.mem[x]]
<1>1. new \in Memories BY Parts, MemoryWritten
<1> HIDE DEF new
<1>2. [m EXCEPT !.mem = new] \in Machines /\ [m EXCEPT !.mem = new].cpu = m.cpu
  BY <1>1, Zenon DEF Machines
<1>3. Write(m, a, v) = [m EXCEPT !.mem = new] BY Zenon DEF Write, new
<1> QED BY <1>2, <1>3, Zenon DEF Stays

LEMMA PhysIsAddress ==
  ASSUME NEW s \in Words16, NEW o \in Int PROVE Phys(s, o) \in Addresses
<1>1. s \in Int BY WordIsInt
<1>2. 16 * s + o \in Int BY <1>1, SMT
<1> QED BY <1>2, AddressCut, Zenon DEF Phys

LEMMA FetchLed ==
  ASSUME NEW m \in Machines, NEW n \in Nat
  PROVE  Led(m, Fetch(m, n))
<1> DEFINE ip == (m.cpu.ip + n) % WordSize
           q == [k \in 0..3 |-> Ahead(m, n + k)]
           t == Fetch(m, n)
<1>0. m.cpu.ip \in Words16 BY Parts
<1>1. ip \in Words16
  <2>1. m.cpu.ip + n \in Int BY <1>0, WordIsInt, IntSum
  <2> QED BY <2>1, WordCut
<1>2. ASSUME NEW k \in Nat PROVE Ahead(m, k) \in Bytes
  <2>1. CASE k < 4
    <3>1. k \in 0..3 BY <2>1, SMT
    <3> QED BY <2>1, <3>1, Parts, Zenon DEF Ahead
  <2>2. CASE ~(k < 4) BY <2>2, Parts, ReadIsByte, Zenon DEF Ahead, At
  <2> QED BY <2>1, <2>2
<1>3. q \in [0..3 -> Bytes]
  <2>1. \A k \in 0..3 : n + k \in Nat OBVIOUS
  <2> QED BY <2>1, <1>2
<1> HIDE DEF ip, q
<1>4. t = [m EXCEPT !.cpu.ip = ip, !.cpu.q = q] BY DEF Fetch, ip, q
<1> HIDE DEF t
<1>5. t \in Machines
  <2>1. [m EXCEPT !.cpu.ip = ip, !.cpu.q = q] \in Machines
    BY <1>1, <1>3, Zenon DEF Machines, Cpu8088
  <2> QED BY <1>4, <2>1
<1>6. t.cpu.ip = ip /\ t.cpu.q = q /\ t.cpu.s = m.cpu.s
  BY <1>4, Zenon DEF Machines, Cpu8088
<1>7. ASSUME Follows(m), NEW k \in 0..3 PROVE t.cpu.q[k] = Read(m, Place(t, k))
  <2>1. t.cpu.q[k] = Ahead(m, n + k) BY <1>6, Zenon DEF q
  <2>2. Ahead(m, n + k) = Read(m, Place(m, n + k))
    <3>1. CASE n + k < 4
      <4>1. n + k \in 0..3 BY <3>1, SMT
      <4> QED BY <4>1, <3>1, <1>7, Zenon DEF Follows, Ahead
    <3>2. CASE ~(n + k < 4) BY <3>2, Zenon DEF Ahead, At, Place
    <3> QED BY <3>1, <3>2
  <2>3. (m.cpu.ip + (n + k)) % WordSize = (ip + k) % WordSize
    <3>1. m.cpu.ip \in Int BY <1>0, WordIsInt
    <3> QED BY <3>1, SMT DEF ip, WordSize
  <2>4. Place(m, n + k) = Place(t, k) BY <1>6, <2>3, Zenon DEF Place
  <2> QED BY <2>1, <2>2, <2>4
<1> QED BY <1>5, <1>7 DEF Led, Trails, t

LEMMA FlushFollows ==
  ASSUME NEW m \in Machines
  PROVE  PrefetchFlush(m) \in Machines /\ Follows(PrefetchFlush(m))
<1> DEFINE q == [k \in 0..3 |-> At(m, k)]
           t == PrefetchFlush(m)
<1>1. q \in [0..3 -> Bytes] BY Parts, ReadIsByte, Zenon DEF At
<1> HIDE DEF q
<1>2. t = [m EXCEPT !.cpu.q = q] BY Zenon DEF PrefetchFlush, q
<1>3. t \in Machines
  <2>1. [m EXCEPT !.cpu.q = q] \in Machines BY <1>1, ZenonT(40) DEF Machines, Cpu8088
  <2> QED BY <1>2, <2>1
<1>4. t.cpu.q = q /\ t.cpu.ip = m.cpu.ip /\ t.cpu.s = m.cpu.s /\ t.mem = m.mem
  BY <1>2, Zenon DEF Machines, Cpu8088
<1> QED BY <1>3, <1>4, Zenon DEF Follows, q, At, Read, Place

LEMMA StaysLed ==
  ASSUME NEW m, NEW t, NEW u, Led(m, t), Stays(t, u) PROVE Led(m, u)
  BY Zenon DEF Led, Stays, Trails, Place
LEMMA StaysStays ==
  ASSUME NEW m, NEW t, NEW u, Stays(m, t), Stays(t, u) PROVE Stays(m, u)
  BY Zenon DEF Stays
LEMMA TurnsKeeps ==
  ASSUME NEW m, NEW t, NEW u, Led(m, t), Turns(t, u) PROVE Keeps(m, u)
<1>1. CASE Follows(u) BY <1>1, Zenon DEF Turns, Keeps
<1>2. CASE Stays(t, u) BY <1>2, StaysLed, Zenon DEF Keeps, Led
<1> QED BY <1>1, <1>2 DEF Turns

LEMMA GotoFollows ==
  ASSUME NEW m \in Machines, NEW ip \in Words16
  PROVE  Goto(m, ip) \in Machines /\ Follows(Goto(m, ip))
<1>1. [m EXCEPT !.cpu.ip = ip] \in Machines BY Zenon DEF Machines, Cpu8088
<1> QED BY <1>1, FlushFollows, Zenon DEF Goto
LEMMA GotoFarFollows ==
  ASSUME NEW m \in Machines, NEW cs \in Words16, NEW ip \in Words16
  PROVE  GotoFar(m, cs, ip) \in Machines /\ Follows(GotoFar(m, cs, ip))
<1>1. CS \in 0..3 BY SMT DEF CS
<1>2. [m EXCEPT !.cpu.s[CS] = cs, !.cpu.ip = ip] \in Machines
  BY <1>1, Zenon DEF Machines, Cpu8088
<1> QED BY <1>2, FlushFollows, Zenon DEF GotoFar

-----------------------------------------------------------------------------
(* Registers and memory operands. *)

Widths == {8, 16}

LEMMA ByteIsWord == ASSUME NEW v \in Bytes PROVE v \in Words16
<1>1. v \in Int /\ 0 <= v /\ v <= 65535 BY SMT DEF Bytes
<1> QED BY <1>1, WordSizeIs, SmallIsWord
LEMMA RegisterNames ==
  /\ AX \in 0..7 /\ CX \in 0..7 /\ DX \in 0..7 /\ BX \in 0..7 /\ AH \in 0..7
  /\ SP \in 4..7 /\ BP \in 4..7 /\ SI \in 4..7 /\ DI \in 4..7 /\ BX + 4 \in 0..7
  /\ ES \in 0..3 /\ CS \in 0..3 /\ SS \in 0..3 /\ DS \in 0..3
  BY SMT DEF AX, CX, DX, BX, AH, SP, BP, SI, DI, ES, CS, SS, DS

LEMMA ReadWordIsWord ==
  ASSUME NEW m, m.mem \in Memories, NEW a PROVE ReadWord(m, a) \in Words16
  BY ReadIsByte, PairIsWord, Zenon DEF ReadWord

LEMMA RegIsByte ==
  ASSUME NEW m \in Machines, NEW r \in 0..7 PROVE DecodeReg(m, 8, r) \in Bytes
  BY Parts, Zenon DEF DecodeReg
LEMMA RegIsWord ==
  ASSUME NEW m \in Machines, NEW n \in Widths, NEW r \in 0..7
  PROVE  DecodeReg(m, n, r) \in Words16
<1>1. CASE n = 8 BY <1>1, RegIsByte, ByteIsWord
<1>2. CASE n # 8 /\ r < 4
  <2>1. r + 4 \in 0..7 BY <1>2, SMT
  <2>2. DecodeReg(m, n, r) = Pair(m.cpu.b[r + 4], m.cpu.b[r]) BY <1>2, Zenon DEF DecodeReg
  <2>3. m.cpu.b[r + 4] \in Bytes /\ m.cpu.b[r] \in Bytes BY <2>1, Parts
  <2> QED BY <2>2, <2>3, PairIsWord, Zenon
<1>3. CASE n # 8 /\ ~(r < 4)
  <2>1. r \in 4..7 BY <1>3, SMT
  <2>2. DecodeReg(m, n, r) = m.cpu.w[r] BY <1>3, Zenon DEF DecodeReg
  <2> QED BY <2>1, <2>2, Parts, ZenonT(40)
<1> QED BY <1>1, <1>2, <1>3

LEMMA SetB ==
  ASSUME NEW m \in Machines, NEW r \in 0..7, NEW v \in Bytes
  PROVE  Stays(m, [m EXCEPT !.cpu.b[r] = v])
<1>1. [m EXCEPT !.cpu.b[r] = v] \in Machines BY Zenon DEF Machines, Cpu8088
<1>2. /\ [m EXCEPT !.cpu.b[r] = v].cpu.ip = m.cpu.ip
      /\ [m EXCEPT !.cpu.b[r] = v].cpu.q = m.cpu.q
      /\ [m EXCEPT !.cpu.b[r] = v].cpu.s = m.cpu.s
  BY Zenon DEF Machines, Cpu8088
<1> QED BY <1>1, <1>2, Zenon DEF Stays
LEMMA SetW ==
  ASSUME NEW m \in Machines, NEW r \in 4..7, NEW v \in Words16
  PROVE  Stays(m, [m EXCEPT !.cpu.w[r] = v])
<1>1. [m EXCEPT !.cpu.w[r] = v] \in Machines BY Zenon DEF Machines, Cpu8088
<1>2. /\ [m EXCEPT !.cpu.w[r] = v].cpu.ip = m.cpu.ip
      /\ [m EXCEPT !.cpu.w[r] = v].cpu.q = m.cpu.q
      /\ [m EXCEPT !.cpu.w[r] = v].cpu.s = m.cpu.s
  BY Zenon DEF Machines, Cpu8088
<1> QED BY <1>1, <1>2, Zenon DEF Stays
LEMMA SetPair ==
  ASSUME NEW m \in Machines, NEW r \in 0..7, NEW k \in 0..7, NEW v \in Bytes, NEW u \in Bytes
  PROVE  Stays(m, [m EXCEPT !.cpu.b[r] = v, !.cpu.b[k] = u])
<1>1. [m EXCEPT !.cpu.b[r] = v, !.cpu.b[k] = u] \in Machines
  BY Zenon DEF Machines, Cpu8088
<1>2. /\ [m EXCEPT !.cpu.b[r] = v, !.cpu.b[k] = u].cpu.ip = m.cpu.ip
      /\ [m EXCEPT !.cpu.b[r] = v, !.cpu.b[k] = u].cpu.q = m.cpu.q
      /\ [m EXCEPT !.cpu.b[r] = v, !.cpu.b[k] = u].cpu.s = m.cpu.s
  BY Zenon DEF Machines, Cpu8088
<1> QED BY <1>1, <1>2, Zenon DEF Stays
LEMMA SetF ==
  ASSUME NEW m \in Machines, NEW f \in Flags8088
  PROVE  Stays(m, SetFlags(m, f))
<1>1. [m EXCEPT !.cpu.f = f] \in Machines BY Zenon DEF Machines, Cpu8088
<1>2. /\ [m EXCEPT !.cpu.f = f].cpu.ip = m.cpu.ip
      /\ [m EXCEPT !.cpu.f = f].cpu.q = m.cpu.q
      /\ [m EXCEPT !.cpu.f = f].cpu.s = m.cpu.s
  BY Zenon DEF Machines, Cpu8088
<1> QED BY <1>1, <1>2, Zenon DEF Stays, SetFlags

LEMMA WritebackRegStays ==
  ASSUME NEW m \in Machines, NEW n \in Widths, NEW r \in 0..7, NEW v \in Int
  PROVE  Stays(m, WritebackReg(m, n, r, v))
<1>1. Low(v) \in Bytes /\ High(v) \in Bytes /\ v % WordSize \in Words16 BY HalfIsByte, WordCut
<1>2. CASE n = 8 BY <1>1, <1>2, SetB, Zenon DEF WritebackReg
<1>3. CASE n # 8 /\ r < 4
  <2>1. r + 4 \in 0..7 BY <1>3, SMT
  <2>2. WritebackReg(m, n, r, v) = [m EXCEPT !.cpu.b[r] = Low(v), !.cpu.b[r + 4] = High(v)]
    BY <1>3, Zenon DEF WritebackReg
  <2>3. Stays(m, [m EXCEPT !.cpu.b[r] = Low(v), !.cpu.b[r + 4] = High(v)])
    BY <1>1, <2>1, SetPair
  <2> QED BY <2>2, <2>3, Zenon
<1>4. CASE n # 8 /\ ~(r < 4)
  <2>1. r \in 4..7 BY <1>4, SMT
  <2>2. WritebackReg(m, n, r, v) = [m EXCEPT !.cpu.w[r] = v % WordSize]
    BY <1>4, Zenon DEF WritebackReg
  <2>3. Stays(m, [m EXCEPT !.cpu.w[r] = v % WordSize]) BY <1>1, <2>1, SetW
  <2> QED BY <2>2, <2>3, Zenon
<1> QED BY <1>2, <1>3, <1>4

\* A decoded instruction.
Decodings ==
  [op : Bytes, at : Nat, seg : 0..4, rep : Bytes, reg : 0..7, rm : 0..7, direct : BOOLEAN,
   ea : Words16, addr : Addresses, len : Nat]

LEMMA Decoding ==
  ASSUME NEW x \in Decodings
  PROVE  /\ x.op \in Bytes /\ x.at \in Nat /\ x.seg \in 0..4 /\ x.rep \in Bytes
         /\ x.reg \in 0..7 /\ x.rm \in 0..7 /\ x.direct \in BOOLEAN /\ x.ea \in Words16
         /\ x.addr \in Addresses /\ x.len \in Nat /\ Width(x) \in Widths
  BY Zenon DEF Decodings, Width, Widths

LEMMA RMIsWord ==
  ASSUME NEW m \in Machines, NEW x \in Decodings, NEW n \in Widths
  PROVE  DecodeRM(m, x, n) \in Words16
<1>1. m.mem \in Memories BY Parts
<1>2. DecodeReg(m, n, x.rm) \in Words16 BY Decoding, RegIsWord
<1>3. Read(m, x.addr) \in Words16 BY <1>1, ReadIsByte, ByteIsWord
<1>4. ReadWord(m, x.addr) \in Words16 BY <1>1, ReadWordIsWord
<1> QED BY <1>2, <1>3, <1>4, Zenon DEF DecodeRM

LEMMA AddressNext == ASSUME NEW a \in Addresses, NEW k \in Int
  PROVE  (a + k) % AddressSpace \in Addresses
<1>1. a \in Int BY AddressIsInt
<1> QED BY <1>1, IntSum, AddressCut

LEMMA WriteWordStays ==
  ASSUME NEW m \in Machines, NEW a \in Addresses, NEW b \in Addresses, NEW u \in Bytes, NEW v \in Bytes
  PROVE  /\ Stays(m, Write(Write(m, a, u), b, v))
         /\ Write(Write(m, a, u), b, v).cpu = m.cpu
<1>1. Stays(m, Write(m, a, u)) /\ Write(m, a, u).cpu = m.cpu BY WriteStays
<1>2. Write(m, a, u) \in Machines BY <1>1 DEF Stays
<1>3. /\ Stays(Write(m, a, u), Write(Write(m, a, u), b, v))
      /\ Write(Write(m, a, u), b, v).cpu = Write(m, a, u).cpu
  BY <1>2, WriteStays
<1> QED BY <1>1, <1>3, StaysStays, Zenon

LEMMA WritebackRMStays ==
  ASSUME NEW m \in Machines, NEW x \in Decodings, NEW n \in Widths, NEW v \in Int
  PROVE  Stays(m, WritebackRM(m, x, n, v))
<1>1. x.rm \in 0..7 /\ x.addr \in Addresses BY Decoding
<1>2. Low(v) \in Bytes /\ High(v) \in Bytes BY HalfIsByte
<1>3. 1 \in Int BY SMT
<1>4. (x.addr + 1) % AddressSpace \in Addresses BY <1>1, <1>3, AddressNext
<1>5. CASE x.direct BY <1>1, <1>5, WritebackRegStays, Zenon DEF WritebackRM
<1>6. CASE ~x.direct /\ n = 8 BY <1>1, <1>2, <1>6, WriteStays, Zenon DEF WritebackRM
<1>7. CASE ~x.direct /\ n # 8
  BY <1>1, <1>2, <1>4, <1>7, WriteWordStays, Zenon DEF WritebackRM
<1> QED BY <1>5, <1>6, <1>7

-----------------------------------------------------------------------------
(* The decoding of an instruction. *)

LEMMA AheadIsByte ==
  ASSUME NEW m \in Machines, NEW k \in Nat PROVE Ahead(m, k) \in Bytes
<1>1. CASE k < 4
  <2>1. k \in 0..3 BY <1>1, SMT
  <2> QED BY <1>1, <2>1, Parts, Zenon DEF Ahead
<1>2. CASE ~(k < 4) BY <1>2, Parts, ReadIsByte, Zenon DEF Ahead, At
<1> QED BY <1>1, <1>2
LEMMA AheadNIsWord ==
  ASSUME NEW m \in Machines, NEW k \in Nat, NEW n PROVE AheadN(m, k, n) \in Words16
<1>1. k + 1 \in Nat BY SMT
<1>2. Ahead(m, k) \in Bytes /\ Ahead(m, k + 1) \in Bytes BY <1>1, AheadIsByte
<1> QED BY <1>2, ByteIsWord, PairIsWord, Zenon DEF AheadN
LEMMA ImmIsWord ==
  ASSUME NEW m \in Machines, NEW x \in Decodings, NEW n
  PROVE  Imm(m, x, n) \in Words16 /\ ImmRM(m, x, n) \in Words16
<1>1. x.at \in Nat /\ x.len \in Nat BY Decoding
<1>2. x.at + x.len \in Nat BY <1>1, SMT
<1> QED BY <1>1, <1>2, AheadNIsWord, Zenon DEF Imm, ImmRM
LEMMA ImmIsByte ==
  ASSUME NEW m \in Machines, NEW x \in Decodings
  PROVE  Imm(m, x, 8) \in Bytes /\ ImmRM(m, x, 8) \in Bytes
<1>1. x.at \in Nat /\ x.len \in Nat BY Decoding
<1>2. x.at + x.len \in Nat BY <1>1, SMT
<1> QED BY <1>1, <1>2, AheadIsByte, Zenon DEF Imm, ImmRM, AheadN

\* The prefix that counts is one of those that are there.
LEMMA LastOfIs ==
  ASSUME NEW m, NEW n \in Nat, NEW kind, NEW none
  PROVE  LastOf(m, n, kind, none) \in kind \union {none}
<1> DEFINE places == {k \in 0..(n - 1) : Ahead(m, k) \in kind}
<1>1. CASE places = {} BY <1>1, Zenon DEF LastOf
<1>2. CASE places # {}
  <2> DEFINE before == {n - k : k \in places}
  <2>1. before \subseteq Nat /\ before # {} BY <1>2
  <2> HIDE DEF before
  <2>2. PICK d \in before : \A e \in before : d <= e BY <2>1, Least
  <2>3. PICK k \in places : d = n - k BY <2>2 DEF before
  <2>4. \A j \in places : n - j \in before BY DEF before
  <2>5. \A j \in places : j <= k
    <3> SUFFICES ASSUME NEW j \in places PROVE j <= k OBVIOUS
    <3>1. n - k <= n - j BY <2>2, <2>3, <2>4
    <3>2. j \in Int /\ k \in Int OBVIOUS
    <3> QED BY <3>1, <3>2
  <2>6. (CHOOSE i \in places : \A j \in places : j <= i) \in places BY <2>3, <2>5, Zenon
  <2> QED BY <1>2, <2>6, Zenon DEF LastOf
<1> QED BY <1>1, <1>2

\* There is a first byte that is no prefix, or MaxPrefixes prefixes.
PrefixCount(m) ==
  CHOOSE k \in 0..MaxPrefixes :
    /\ k < MaxPrefixes => Ahead(m, k) \notin Prefixes
    /\ \A j \in 0..(k - 1) : Ahead(m, j) \in Prefixes
LEMMA PrefixesCounted == ASSUME NEW m PROVE PrefixCount(m) \in 0..MaxPrefixes
<1> USE PrefixAssumption
<1> DEFINE S == {k \in Nat : k < MaxPrefixes => Ahead(m, k) \notin Prefixes}
<1>1. MaxPrefixes \in S OBVIOUS
<1>2. S \subseteq Nat OBVIOUS
<1>3. PICK k \in S : \A j \in S : k <= j
  <2> HIDE DEF S
  <2> QED BY <1>1, <1>2, Least
<1>4. k \in 0..MaxPrefixes BY <1>1, <1>3
<1>5. \A j \in 0..(k - 1) : Ahead(m, j) \in Prefixes
  <2> SUFFICES ASSUME NEW j \in 0..(k - 1) PROVE Ahead(m, j) \in Prefixes OBVIOUS
  <2>1. j \in Nat /\ ~(k <= j) BY <1>4
  <2>2. j \notin S BY <1>3, <2>1, Zenon
  <2> QED BY <2>1, <2>2
<1>6. k < MaxPrefixes => Ahead(m, k) \notin Prefixes OBVIOUS
<1> QED BY <1>4, <1>5, <1>6, Zenon DEF PrefixCount

LEMMA BaseIsInt ==
  ASSUME NEW c \in Cpu8088, NEW rm \in 0..7 PROVE Base(c, rm) \in Int
<1>1. c.b \in [0..7 -> Bytes] /\ c.w \in [4..7 -> Words16] BY Zenon DEF Cpu8088
<1>2. c.w[SI] \in Words16 /\ c.w[DI] \in Words16 /\ c.w[BP] \in Words16
  BY <1>1, RegisterNames, Zenon
<1>3. c.b[BX + 4] \in Bytes /\ c.b[BX] \in Bytes BY <1>1, RegisterNames, Zenon
<1>4. Pair(c.b[BX + 4], c.b[BX]) \in Int BY <1>3, PairIsWord, WordIsInt
<1> DEFINE bx == Pair(c.b[BX + 4], c.b[BX])
           si == c.w[SI]
           di == c.w[DI]
           bp == c.w[BP]
<1>5. bx \in Int /\ si \in Int /\ di \in Int /\ bp \in Int BY <1>2, <1>4, WordIsInt
<1> HIDE DEF bx, si, di, bp
<1>6. Base(c, rm) = <<bx + si, bx + di, bp + si, bp + di, si, di, bp, bx>>[rm + 1]
  BY Zenon DEF Base, bx, si, di, bp
<1>7. rm \in {0, 1, 2, 3} \/ rm \in {4, 5, 6, 7} BY SMT
<1>8. CASE rm \in {0, 1, 2, 3}
  <2>1. <<bx + si, bx + di, bp + si, bp + di, si, di, bp, bx>>[rm + 1] \in Int
    BY <1>5, <1>8
  <2> QED BY <1>6, <2>1
<1>9. CASE rm \in {4, 5, 6, 7}
  <2>1. <<bx + si, bx + di, bp + si, bp + di, si, di, bp, bx>>[rm + 1] \in Int
    BY <1>5, <1>9
  <2> QED BY <1>6, <2>1
<1> QED BY <1>7, <1>8, <1>9

LEMMA SegIsWord ==
  ASSUME NEW c \in Cpu8088, NEW prefix \in 0..4, NEW default \in 0..3
  PROVE  Seg(c, prefix, default) \in Words16
<1>1. c.s \in [0..3 -> Words16] BY Zenon DEF Cpu8088
<1>2. prefix # NoSegment => prefix \in 0..3 BY SMT DEF NoSegment
<1> QED BY <1>1, <1>2, Zenon DEF Seg

LEMMA InstructionDecoded ==
  ASSUME NEW m \in Machines PROVE Instruction(m) \in Decodings
<1> USE PrefixAssumption
<1> DEFINE n == PrefixCount(m)
           prefix == LastOf(m, n, SegmentPrefixes, -1)
           seg == IF prefix = -1 THEN NoSegment ELSE (prefix - \h26) \div 8
           rep == LastOf(m, n, RepeatPrefixes, 0)
           modrm == Ahead(m, n + 1)
           mod == modrm \div 64
           reg == (modrm \div 8) % 8
           rm == modrm % 8
           base == IF mod = 0 /\ rm = 6 THEN 0 ELSE Base(m.cpu, rm)
           disp == Displacement(m, n + 2, mod, rm)
           ea == IF mod = 3 THEN m.cpu.ea ELSE (base + disp) % WordSize
           seg0 == IF UsesStack(mod, rm) THEN SS ELSE DS
           addr == Phys(Seg(m.cpu, seg, seg0), ea)
           len == 1 + IF mod = 3 THEN 0 ELSE DisplacementLength(mod, rm)
<1>1. n \in Nat /\ n + 1 \in Nat /\ n + 2 \in Nat
  <2>1. n \in 0..MaxPrefixes BY PrefixesCounted
  <2> HIDE DEF n
  <2> QED BY <2>1
<1> HIDE DEF n
<1>2. Ahead(m, n) \in Bytes /\ modrm \in Bytes BY <1>1, AheadIsByte
<1>3. seg \in 0..4
  <2>1. prefix \in SegmentPrefixes \union {-1} BY <1>1, LastOfIs
  <2> HIDE DEF prefix
  <2>2. CASE prefix = -1 BY <2>2, SMT DEF NoSegment
  <2>3. CASE prefix \in SegmentPrefixes BY <2>3, SMT DEF SegmentPrefixes
  <2> QED BY <2>1, <2>2, <2>3
<1>4. rep \in Bytes
  <2>1. rep \in RepeatPrefixes \union {0} BY <1>1, LastOfIs
  <2> HIDE DEF rep
  <2> QED BY <2>1, SMT DEF RepeatPrefixes, Bytes
<1> HIDE DEF seg, rep, modrm
<1>5. mod \in Int /\ reg \in 0..7 /\ rm \in 0..7 BY <1>2, SMT DEF Bytes
<1> HIDE DEF mod, reg, rm
<1>6. base \in Int BY <1>5, Parts, BaseIsInt, Zenon
<1>7. disp \in Int
  <2>1. AheadN(m, n + 2, 16) \in Int BY <1>1, AheadNIsWord, WordIsInt
  <2>2. Extend(Ahead(m, n + 2)) \in Int BY <1>1, AheadIsByte, ExtendIsWord, WordIsInt
  <2>3. 0 \in Int BY SMT
  <2> QED BY <2>1, <2>2, <2>3, Zenon DEF Displacement
<1> HIDE DEF base, disp
<1>8. ea \in Words16
  <2>1. m.cpu.ea \in Words16 BY Parts
  <2>2. (base + disp) % WordSize \in Words16 BY <1>6, <1>7, IntSum, WordCut
  <2> QED BY <2>1, <2>2, Zenon
<1> HIDE DEF ea
<1>9. addr \in Addresses
  <2>1. seg0 \in 0..3 BY RegisterNames, Zenon
  <2>2. Seg(m.cpu, seg, seg0) \in Words16 BY <2>1, <1>3, Parts, SegIsWord
  <2> QED BY <2>2, <1>8, WordIsInt, PhysIsAddress
<1> HIDE DEF addr
<1>10. len \in Nat
  <2>1. DisplacementLength(mod, rm) \in Nat BY DEF DisplacementLength
  <2> QED BY <2>1
<1> HIDE DEF len
<1> DEFINE direct == mod = 3
<1>11. direct \in BOOLEAN BY Zenon
<1> HIDE DEF direct
<1>12. Instruction(m) =
         [op |-> Ahead(m, n), at |-> n + 1, seg |-> seg, rep |-> rep, reg |-> reg, rm |-> rm,
          direct |-> direct, ea |-> ea, addr |-> addr, len |-> len]
  BY Zenon DEF Instruction, PrefixCount, n, prefix, seg, rep, modrm, mod, reg, rm, base, disp,
     ea, seg0, addr, len, direct
<1> DEFINE x == [op |-> Ahead(m, n), at |-> n + 1, seg |-> seg, rep |-> rep, reg |-> reg,
                 rm |-> rm, direct |-> direct, ea |-> ea, addr |-> addr, len |-> len]
<1>13. x \in Decodings
  BY <1>1, <1>2, <1>3, <1>4, <1>5, <1>8, <1>9, <1>10, <1>11, Zenon DEF Decodings
<1> QED BY <1>12, <1>13, Zenon

LEMMA PastLed ==
  ASSUME NEW m \in Machines, NEW x \in Decodings, NEW k \in Nat PROVE Led(m, Past(m, x, k))
<1>1. x.at + k \in Nat
  <2>1. x.at \in Nat BY Decoding
  <2> QED BY <2>1
<1> QED BY <1>1, FetchLed, Zenon DEF Past
LEMMA DecodedLed ==
  ASSUME NEW m \in Machines, NEW x \in Decodings, NEW k \in Nat PROVE Led(m, Decoded(m, x, k))
<1> DEFINE n == x.at + x.len + k
           t == Fetch(m, n)
<1>1. n \in Nat
  <2>1. x.at \in Nat /\ x.len \in Nat BY Decoding
  <2> QED BY <2>1
<1> HIDE DEF n
<1>2. Led(m, t) BY <1>1, FetchLed
<1>3. t \in Machines /\ x.ea \in Words16 BY <1>2, Decoding DEF Led
<1>4. Decoded(m, x, k) = [t EXCEPT !.cpu.ea = x.ea] BY Zenon DEF Decoded, n
<1> HIDE DEF t
<1>5. [t EXCEPT !.cpu.ea = x.ea] \in Machines BY <1>3, Zenon DEF Machines, Cpu8088
<1>6. /\ [t EXCEPT !.cpu.ea = x.ea].cpu.ip = t.cpu.ip
      /\ [t EXCEPT !.cpu.ea = x.ea].cpu.q = t.cpu.q
      /\ [t EXCEPT !.cpu.ea = x.ea].cpu.s = t.cpu.s
  BY <1>3, Zenon DEF Machines, Cpu8088
<1>7. Stays(t, Decoded(m, x, k)) BY <1>4, <1>5, <1>6, Zenon DEF Stays
<1> QED BY <1>2, <1>7, StaysLed

-----------------------------------------------------------------------------
(* The stack and the flags. *)

LEMMA StackPointer ==
  ASSUME NEW m \in Machines, NEW k \in Int
  PROVE  /\ (m.cpu.w[SP] + k) % WordSize \in Words16 /\ (m.cpu.w[SP] - k) % WordSize \in Words16
         /\ Phys(m.cpu.s[SS], (m.cpu.w[SP] + k) % WordSize) \in Addresses
         /\ Phys(m.cpu.s[SS], (m.cpu.w[SP] - k) % WordSize) \in Addresses
<1>1. m.cpu.w[SP] \in Words16 /\ m.cpu.s[SS] \in Words16 BY Parts, RegisterNames, Zenon
<1>2. m.cpu.w[SP] + k \in Int /\ m.cpu.w[SP] - k \in Int BY <1>1, WordIsInt, IntSum
<1> QED BY <1>1, <1>2, WordCut, WordIsInt, PhysIsAddress, Zenon

LEMMA PushStays ==
  ASSUME NEW m \in Machines, NEW v \in Int PROVE Stays(m, Push(m, v))
<1> DEFINE sp == (m.cpu.w[SP] - 2) % WordSize
           hi == Phys(m.cpu.s[SS], (m.cpu.w[SP] - 1) % WordSize)
           lo == Phys(m.cpu.s[SS], sp)
           t == Write(Write(m, hi, High(v)), lo, Low(v))
<1>1. 1 \in Int /\ 2 \in Int BY SMT
<1>2. sp \in Words16 /\ hi \in Addresses /\ lo \in Addresses BY <1>1, StackPointer
<1>3. Low(v) \in Bytes /\ High(v) \in Bytes BY HalfIsByte
<1>4. Push(m, v) = [t EXCEPT !.cpu.w[SP] = sp] BY Zenon DEF Push
<1> HIDE DEF sp, hi, lo
<1>5. Stays(m, t) BY <1>2, <1>3, WriteWordStays
<1> HIDE DEF t
<1>6. t \in Machines BY <1>5 DEF Stays
<1>7. Stays(t, [t EXCEPT !.cpu.w[SP] = sp]) BY <1>2, <1>6, SetW, RegisterNames
<1> QED BY <1>4, <1>5, <1>7, StaysStays, Zenon
LEMMA TopIsWord == ASSUME NEW m \in Machines PROVE Top(m) \in Words16
  BY Parts, ReadIsByte, PairIsWord, Zenon DEF Top
LEMMA DropStays ==
  ASSUME NEW m \in Machines, NEW k \in Int PROVE Stays(m, Drop(m, k))
<1> DEFINE sp == (m.cpu.w[SP] + k) % WordSize
<1>1. sp \in Words16 BY StackPointer
<1>2. Drop(m, k) = [m EXCEPT !.cpu.w[SP] = sp] BY Zenon DEF Drop
<1> HIDE DEF sp
<1>3. Stays(m, [m EXCEPT !.cpu.w[SP] = sp]) BY <1>1, SetW, RegisterNames
<1> QED BY <1>2, <1>3, ZenonT(40)

LEMMA FlagsAre ==
  ASSUME NEW f \in Flags8088
  PROVE  /\ f.c \in Bits /\ f.p \in Bits /\ f.ac \in Bits /\ f.z \in Bits /\ f.s \in Bits
         /\ f.t \in Bits /\ f.i \in Bits /\ f.d \in Bits /\ f.o \in Bits
  BY Zenon DEF Flags8088
LEMMA BitIsInt == ASSUME NEW b \in Bits PROVE b \in Int
  BY SMT DEF Bits
LEMMA FlagWordIsInt == ASSUME NEW f \in Flags8088 PROVE FlagWord(f) \in Int
<1>1. /\ f.c \in Int /\ f.p \in Int /\ f.ac \in Int /\ f.z \in Int /\ f.s \in Int
      /\ f.t \in Int /\ f.i \in Int /\ f.d \in Int /\ f.o \in Int
  BY FlagsAre, BitIsInt
<1> QED BY <1>1, SMTT(40) DEF FlagWord
LEMMA SmallNumbers ==
  /\ 0 \in 0..17 /\ 1 \in 0..17 /\ 2 \in 0..17 /\ 3 \in 0..17 /\ 4 \in 0..17 /\ 5 \in 0..17
  /\ 6 \in 0..17 /\ 7 \in 0..17 /\ 8 \in 0..17 /\ 9 \in 0..17 /\ 10 \in 0..17 /\ 11 \in 0..17
  /\ 15 \in 0..17 /\ 16 \in 0..17
  OBVIOUS
LEMMA FlagsInAre == ASSUME NEW v \in Int PROVE FlagsIn(v) \in Flags8088
  BY BitIsBit, SmallNumbers, Zenon DEF FlagsIn, Flags8088

LEMMA ZSPAreFlags ==
  ASSUME NEW f \in Flags8088, NEW n \in Widths, NEW r \in Int
  PROVE  SetFlagsZSP(f, n, r) \in Flags8088
<1>1. n - 1 \in 0..17 BY SMT DEF Widths
<1>2. Bit(r, n - 1) \in Bits /\ Parity(r) \in Bits BY <1>1, BitIsBit, ParityIsBit
<1>3. Flag(r % 2^n = 0) \in Bits BY FlagIsBit
<1> QED BY <1>2, <1>3, Zenon DEF SetFlagsZSP, Flags8088
LEMMA TwoBits ==
  ASSUME NEW a \in Bits, NEW b \in Bits, NEW c \in Bits
  PROVE  (a + b + c) % 2 \in Bits /\ (a + b) % 2 \in Bits /\ 1 - a \in Bits
  BY SMT DEF Bits
LEMMA CarryAreFlags ==
  ASSUME NEW f \in Flags8088, NEW n \in Widths, NEW a \in Int, NEW b \in Int, NEW r \in Int,
         NEW overflow
  PROVE  SetFlagsCarry(f, n, a, b, r, overflow) \in Flags8088
<1> DEFINE g == SetFlagsZSP(f, n, r)
           o == Flag(overflow)
           ac == (Bit(r, 4) + Bit(a, 4) + Bit(b, 4)) % 2
           c == Flag(r < 0 \/ r >= 2^n)
<1>1. g \in Flags8088 BY ZSPAreFlags
<1>2. o \in Bits /\ c \in Bits BY FlagIsBit
<1>3. ac \in Bits
  <2>1. Bit(r, 4) \in Bits /\ Bit(a, 4) \in Bits /\ Bit(b, 4) \in Bits BY BitIsBit, SmallNumbers
  <2> QED BY <2>1, TwoBits
<1>4. SetFlagsCarry(f, n, a, b, r, overflow) = [g EXCEPT !.o = o, !.ac = ac, !.c = c]
  BY Zenon DEF SetFlagsCarry
<1> HIDE DEF g, o, ac, c
<1>5. [g EXCEPT !.o = o, !.ac = ac, !.c = c] \in Flags8088
  BY <1>1, <1>2, <1>3, Zenon DEF Flags8088
<1> QED BY <1>4, <1>5, Zenon
LEMMA AddSubAreFlags ==
  ASSUME NEW f \in Flags8088, NEW n \in Widths, NEW a \in Int, NEW b \in Int, NEW r \in Int
  PROVE  SetFlagsAdd(f, n, a, b, r) \in Flags8088 /\ SetFlagsSub(f, n, a, b, r) \in Flags8088
  BY CarryAreFlags, Zenon DEF SetFlagsAdd, SetFlagsSub
LEMMA LogicAreFlags ==
  ASSUME NEW f \in Flags8088, NEW n \in Widths, NEW r \in Int
  PROVE  SetFlagsLogic(f, n, r) \in Flags8088
<1> DEFINE g == SetFlagsZSP(f, n, r)
<1>1. g \in Flags8088 BY ZSPAreFlags
<1>2. SetFlagsLogic(f, n, r) = [g EXCEPT !.c = 0, !.o = 0] BY Zenon DEF SetFlagsLogic
<1> HIDE DEF g
<1>3. 0 \in Bits BY DEF Bits
<1>4. [g EXCEPT !.c = 0, !.o = 0] \in Flags8088 BY <1>1, <1>3, Zenon DEF Flags8088
<1> QED BY <1>2, <1>4, Zenon

Results == [r : Int, f : Flags8088]
LEMMA AluResults ==
  ASSUME NEW k \in 0..7, NEW f \in Flags8088, NEW n \in Widths, NEW a \in Int, NEW b \in Int
  PROVE  Alu(k, f, n, a, b) \in Results
<1>1. f.c \in Int BY FlagsAre, BitIsInt
<1>2. /\ a + b \in Int /\ a - b \in Int /\ a + b + f.c \in Int /\ a - b - f.c \in Int
  BY <1>1, IntSum
<1>3. Or(a, b) \in Int /\ And(a, b) \in Int /\ Xor(a, b) \in Int BY AndIsInt, LogicIsInt
<1>4. AddOp(f, n, a, b) \in Results BY <1>2, AddSubAreFlags, Zenon DEF AddOp, Results
<1>5. AdcOp(f, n, a, b) \in Results BY <1>2, AddSubAreFlags, Zenon DEF AdcOp, Results
<1>6. SubOp(f, n, a, b) \in Results BY <1>2, AddSubAreFlags, Zenon DEF SubOp, Results
<1>7. SbbOp(f, n, a, b) \in Results BY <1>2, AddSubAreFlags, Zenon DEF SbbOp, Results
<1>8. OrOp(f, n, a, b) \in Results BY <1>3, LogicAreFlags, Zenon DEF OrOp, Results
<1>9. AndOp(f, n, a, b) \in Results BY <1>3, LogicAreFlags, Zenon DEF AndOp, Results
<1>10. XorOp(f, n, a, b) \in Results BY <1>3, LogicAreFlags, Zenon DEF XorOp, Results
<1>11. CmpOp(f, n, a, b) \in Results BY <1>2, AddSubAreFlags, Zenon DEF CmpOp, Results
<1>12. k \in {0, 1, 2, 3, 4, 5, 6, 7} BY SMT
<1> QED
  BY <1>4, <1>5, <1>6, <1>7, <1>8, <1>9, <1>10, <1>11, <1>12, ZenonT(60) DEF Alu

-----------------------------------------------------------------------------
(* Interrupts. *)

LEMMA InterruptFollows ==
  ASSUME NEW m \in Machines, NEW number \in Int
  PROVE  Interrupt(m, number) \in Machines /\ Follows(Interrupt(m, number))
<1> DEFINE u1 == Push(m, FlagWord(m.cpu.f))
           u2 == Push(u1, m.cpu.s[CS])
           u3 == Push(u2, m.cpu.ip)
           u4 == [u3 EXCEPT !.cpu.f.i = 0, !.cpu.f.t = 0]
           vector == (number % 256) * 4
<1>1. FlagWord(m.cpu.f) \in Int /\ m.cpu.s[CS] \in Int /\ m.cpu.ip \in Int
  BY Parts, RegisterNames, FlagWordIsInt, WordIsInt, Zenon
<1>2. u1 \in Machines BY <1>1, PushStays DEF Stays
<1>3. u2 \in Machines
  <2> HIDE DEF u1
  <2> QED BY <1>1, <1>2, PushStays DEF Stays
<1>4. u3 \in Machines
  <2> HIDE DEF u2
  <2> QED BY <1>1, <1>3, PushStays DEF Stays
<1>5. u4 \in Machines
  <2> HIDE DEF u3
  <2>1. 0 \in Bits BY DEF Bits
  <2> QED BY <2>1, <1>4, Zenon DEF Machines, Cpu8088, Flags8088
<1>6. ReadWord(m, vector + 2) \in Words16 /\ ReadWord(m, vector) \in Words16
  BY Parts, ReadWordIsWord
<1>7. Interrupt(m, number) = GotoFar(u4, ReadWord(m, vector + 2), ReadWord(m, vector))
  BY Zenon DEF Interrupt
<1> HIDE DEF u4, vector
<1> QED BY <1>5, <1>6, <1>7, GotoFarFollows, Zenon

LEMMA ListSet ==
  ASSUME NEW m \in Machines, NEW list \in Seq(Bytes)
  PROVE  Stays(m, [m EXCEPT !.cpu.list = list])
<1>1. [m EXCEPT !.cpu.list = list] \in Machines BY Zenon DEF Machines, Cpu8088
<1>2. /\ [m EXCEPT !.cpu.list = list].cpu.ip = m.cpu.ip
      /\ [m EXCEPT !.cpu.list = list].cpu.q = m.cpu.q
      /\ [m EXCEPT !.cpu.list = list].cpu.s = m.cpu.s
  BY Zenon DEF Machines, Cpu8088
<1> QED BY <1>1, <1>2, Zenon DEF Stays
LEMMA StaysSelf == ASSUME NEW m \in Machines PROVE Stays(m, m)
  BY DEF Stays
LEMMA OutstandingTurns ==
  ASSUME NEW m \in Machines PROVE Turns(m, HandleOutstandingInterrupts(m))
<1> DEFINE t == [m EXCEPT !.cpu.list = Tail(m.cpu.list)]
           h == Head(m.cpu.list)
<1>1. m.cpu.list \in Seq(Bytes) BY Parts
<1>2. CASE m.cpu.held \/ m.cpu.list = <<>>
  BY <1>2, StaysSelf, Zenon DEF HandleOutstandingInterrupts, Turns
<1>3. CASE ~(m.cpu.held \/ m.cpu.list = <<>>)
  <2>1. Tail(m.cpu.list) \in Seq(Bytes) /\ h \in Bytes
    <3> DEFINE l == m.cpu.list
    <3>1. l \in Seq(Bytes) /\ l # <<>> BY <1>1, <1>3
    <3> HIDE DEF l
    <3>2. Tail(l) \in Seq(Bytes) /\ Head(l) \in Bytes BY <3>1
    <3> QED BY <3>2 DEF l
  <2>2. t \in Machines BY <2>1, ListSet DEF Stays
  <2>3. h \in Int BY <2>1, ByteIsInt
  <2>4. HandleOutstandingInterrupts(m) = Interrupt(t, h)
    BY <1>3, Zenon DEF HandleOutstandingInterrupts
  <2> HIDE DEF t, h
  <2> QED BY <2>2, <2>3, <2>4, InterruptFollows, Zenon DEF Turns
<1> QED BY <1>2, <1>3
LEMMA TrapTurns ==
  ASSUME NEW m \in Machines, NEW number \in Bytes PROVE Turns(m, Trap(m, number))
<1> DEFINE l == m.cpu.list
           t == [m EXCEPT !.cpu.list = Append(l, number)]
<1>1. Append(l, number) \in Seq(Bytes)
  <2>1. l \in Seq(Bytes) BY Parts
  <2> HIDE DEF l
  <2> QED BY <2>1
<1>2. Stays(m, t) BY <1>1, ListSet
<1>3. Trap(m, number) = HandleOutstandingInterrupts(t) BY Zenon DEF Trap
<1> HIDE DEF t
<1>4. Turns(t, Trap(m, number)) BY <1>2, <1>3, OutstandingTurns, Zenon DEF Stays
<1> QED BY <1>2, <1>4, StaysStays, Zenon DEF Turns
LEMMA TrapMaskableTurns ==
  ASSUME NEW m \in Machines, NEW number \in Bytes PROVE Turns(m, TrapMaskable(m, number))
  BY TrapTurns, OutstandingTurns, Zenon DEF TrapMaskable

-----------------------------------------------------------------------------
(* What the parts of an instruction keep. *)

LEMMA LedMachine == ASSUME NEW m, NEW t, Led(m, t) PROVE t \in Machines /\ Keeps(m, t)
  BY Zenon DEF Led, Keeps
LEMMA LedFlags ==
  ASSUME NEW m, NEW t, Led(m, t), NEW f \in Flags8088 PROVE Led(m, SetFlags(t, f))
  BY LedMachine, SetF, StaysLed, Zenon
LEMMA LedReg ==
  ASSUME NEW m, NEW t, Led(m, t), NEW n \in Widths, NEW r \in 0..7, NEW v \in Int
  PROVE  Led(m, WritebackReg(t, n, r, v))
  BY LedMachine, WritebackRegStays, StaysLed, Zenon
LEMMA LedRM ==
  ASSUME NEW m, NEW t, Led(m, t), NEW x \in Decodings, NEW n \in Widths, NEW v \in Int
  PROVE  Led(m, WritebackRM(t, x, n, v))
  BY LedMachine, WritebackRMStays, StaysLed, Zenon
LEMMA LedPush ==
  ASSUME NEW m, NEW t, Led(m, t), NEW v \in Int PROVE Led(m, Push(t, v))
  BY LedMachine, PushStays, StaysLed, Zenon
LEMMA LedDrop ==
  ASSUME NEW m, NEW t, Led(m, t), NEW k \in Int PROVE Led(m, Drop(t, k))
  BY LedMachine, DropStays, StaysLed, Zenon
LEMMA LedTrap ==
  ASSUME NEW m, NEW t, Led(m, t), NEW number \in Bytes PROVE Keeps(m, Trap(t, number))
<1>1. m \in {m} /\ Turns(t, Trap(t, number)) BY LedMachine, TrapTurns
<1> QED BY <1>1, TurnsKeeps
LEMMA GotoKeeps ==
  ASSUME NEW m, NEW t \in Machines, NEW ip \in Words16 PROVE Keeps(m, Goto(t, ip))
  BY GotoFollows, Zenon DEF Keeps
LEMMA GotoFarKeeps ==
  ASSUME NEW m, NEW t \in Machines, NEW cs \in Words16, NEW ip \in Words16
  PROVE  Keeps(m, GotoFar(t, cs, ip))
  BY GotoFarFollows, Zenon DEF Keeps
LEMMA FlushKeeps ==
  ASSUME NEW m, NEW t \in Machines PROVE Keeps(m, PrefetchFlush(t))
  BY FlushFollows, Zenon DEF Keeps

LEMMA RMIsInt ==
  ASSUME NEW m \in Machines, NEW x \in Decodings, NEW n \in Widths
  PROVE  DecodeRM(m, x, n) \in Int
  BY RMIsWord, WordIsInt
LEMMA RegIsInt ==
  ASSUME NEW m \in Machines, NEW n \in Widths, NEW r \in 0..7
  PROVE  DecodeReg(m, n, r) \in Int
  BY RegIsWord, WordIsInt
LEMMA ImmIsInt ==
  ASSUME NEW m \in Machines, NEW x \in Decodings, NEW n
  PROVE  Imm(m, x, n) \in Int /\ ImmRM(m, x, n) \in Int
  BY ImmIsWord, WordIsInt
LEMMA WidthsAre ==
  ASSUME NEW n \in Widths
  PROVE  n \div 8 \in Nat /\ n - 1 \in 0..17 /\ n \in 0..17 /\ n + 1 \in 0..17 /\ n \in Int
  BY DEF Widths
LEMMA BothWidths == 8 \in Widths /\ 16 \in Widths
  BY DEF Widths
LEMMA SmallInts == /\ 0 \in Nat /\ 1 \in Nat /\ 2 \in Nat /\ 4 \in Nat
                   /\ 0 \in Int /\ 1 \in Int /\ 2 \in Int /\ 3 \in Int /\ -1 \in Int
  OBVIOUS

-----------------------------------------------------------------------------
(* Arithmetic. *)

LEMMA ArithmeticKeeps ==
  ASSUME NEW m \in Machines, NEW x \in Decodings, x.op < 64, x.op % 8 < 6
  PROVE  Keeps(m, Arithmetic(m, x))
<1> DEFINE n == Width(x)
           k == x.op \div 8
           form == (x.op % 8) \div 2
           rm == DecodeRM(m, x, n)
           reg == DecodeReg(m, n, x.reg)
           ax == DecodeReg(m, n, AX)
           imm == Imm(m, x, n)
           u == CASE form = 0 -> Alu(k, m.cpu.f, n, rm, reg)
                  [] form = 1 -> Alu(k, m.cpu.f, n, reg, rm)
                  [] form = 2 -> Alu(k, m.cpu.f, n, ax, imm)
           s == IF form = 2 THEN Past(m, x, n \div 8) ELSE Decoded(m, x, 0)
           t == SetFlags(s, u.f)
<1>1. n \in Widths /\ x.reg \in 0..7 BY Decoding
<1>2. k \in 0..7 /\ form \in {0, 1, 2}
  <2>1. x.op \in Bytes BY Decoding
  <2> DEFINE op == x.op
  <2>2. op \in Bytes /\ op < 64 /\ op % 8 < 6 BY <2>1
  <2> HIDE DEF op
  <2>3. op \div 8 \in 0..7 /\ (op % 8) \div 2 \in {0, 1, 2} BY <2>2, SMT DEF Bytes
  <2> QED BY <2>3 DEF op
<1> HIDE DEF n, k, form
<1>3. rm \in Int /\ reg \in Int /\ ax \in Int /\ imm \in Int
  BY <1>1, RMIsInt, RegIsInt, ImmIsInt, RegisterNames
<1> HIDE DEF rm, reg, ax, imm
<1>4. u \in Results
  <2>1. m.cpu.f \in Flags8088 BY Parts
  <2>2. /\ Alu(k, m.cpu.f, n, rm, reg) \in Results
        /\ Alu(k, m.cpu.f, n, reg, rm) \in Results
        /\ Alu(k, m.cpu.f, n, ax, imm) \in Results
    BY <1>1, <1>2, <1>3, <2>1, AluResults
  <2> QED BY <1>2, <2>2, Zenon
<1>5. u.r \in Int /\ u.f \in Flags8088 BY <1>4, Zenon DEF Results
<1> HIDE DEF u
<1>6. Led(m, s) BY <1>1, WidthsAre, SmallInts, PastLed, DecodedLed, Zenon
<1> HIDE DEF s
<1>7. Led(m, t) BY <1>5, <1>6, LedFlags
<1> DEFINE v == CASE form = 0 -> WritebackRM(t, x, n, u.r)
                  [] form = 1 -> WritebackReg(t, n, x.reg, u.r)
                  [] form = 2 -> WritebackReg(t, n, AX, u.r)
<1>8. Arithmetic(m, x) = Keeping(k, t, v)
  BY Zenon DEF Arithmetic, n, k, form, rm, reg, ax, imm, u, s
<1> HIDE DEF t
<1>9. Led(m, v)
  BY <1>1, <1>2, <1>5, <1>7, RegisterNames, LedRM, LedReg, Zenon
<1> HIDE DEF v
<1> QED BY <1>7, <1>8, <1>9, LedMachine, Zenon DEF Keeping

LEMMA ImmediateGroupKeeps ==
  ASSUME NEW m \in Machines, NEW x \in Decodings PROVE Keeps(m, ImmediateGroup(m, x))
<1> DEFINE n == Width(x)
           k == IF x.op = \h81 THEN 16 ELSE 8
           b == IF x.op = \h83 THEN Extend(ImmRM(m, x, 8)) ELSE ImmRM(m, x, k)
           u == Alu(x.reg, m.cpu.f, n, DecodeRM(m, x, n), b)
           s == Decoded(m, x, k \div 8)
           t == SetFlags(s, u.f)
           v == WritebackRM(t, x, n, u.r)
<1>1. n \in Widths /\ x.reg \in 0..7 BY Decoding
<1>2. k \in Widths BY BothWidths, Zenon
<1> HIDE DEF n, k
<1>3. b \in Int BY ImmIsByte, ImmIsInt, ExtendIsWord, WordIsInt, Zenon
<1> HIDE DEF b
<1>4. u \in Results BY <1>1, <1>3, Parts, RMIsInt, AluResults
<1>5. u.r \in Int /\ u.f \in Flags8088 BY <1>4, Zenon DEF Results
<1> HIDE DEF u
<1>6. Led(m, s) BY <1>2, WidthsAre, DecodedLed
<1> HIDE DEF s
<1>7. Led(m, t) BY <1>5, <1>6, LedFlags
<1>8. ImmediateGroup(m, x) = Keeping(x.reg, t, v)
  BY Zenon DEF ImmediateGroup, n, k, b, u, s
<1> HIDE DEF t
<1>9. Led(m, v) BY <1>1, <1>5, <1>7, LedRM
<1> HIDE DEF v
<1> QED BY <1>7, <1>8, <1>9, LedMachine, Zenon DEF Keeping

LEMMA TestOpLed ==
  ASSUME NEW m, NEW t, Led(m, t), NEW n \in Widths, NEW a \in Int, NEW b \in Int
  PROVE  Led(m, TestOp(t, n, a, b))
<1>1. t.cpu.f \in Flags8088 BY LedMachine, Parts
<1>2. SetFlagsLogic(t.cpu.f, n, And(a, b)) \in Flags8088 BY <1>1, AndIsInt, LogicAreFlags
<1> QED BY <1>2, LedFlags, Zenon DEF TestOp
LEMMA TestKeeps ==
  ASSUME NEW m \in Machines, NEW x \in Decodings PROVE Keeps(m, Test(m, x))
<1> DEFINE n == Width(x)
<1>1. n \in Widths /\ x.reg \in 0..7 /\ n \div 8 \in Nat BY Decoding, WidthsAre
<1>2. Test(m, x) = IF x.op < \h90
                   THEN TestOp(Decoded(m, x, 0), n, DecodeRM(m, x, n), DecodeReg(m, n, x.reg))
                   ELSE TestOp(Past(m, x, n \div 8), n, DecodeReg(m, n, AX), Imm(m, x, n))
  BY Zenon DEF Test
<1> HIDE DEF n
<1>3. Led(m, TestOp(Decoded(m, x, 0), n, DecodeRM(m, x, n), DecodeReg(m, n, x.reg)))
  BY <1>1, SmallInts, DecodedLed, RMIsInt, RegIsInt, TestOpLed
<1>4. Led(m, TestOp(Past(m, x, n \div 8), n, DecodeReg(m, n, AX), Imm(m, x, n)))
  BY <1>1, PastLed, RegisterNames, RegIsInt, ImmIsInt, TestOpLed
<1> QED BY <1>2, <1>3, <1>4, LedMachine, Zenon

LEMMA CarryKept ==
  ASSUME NEW f \in Flags8088, NEW g \in Flags8088 PROVE KeepCarry(f, g) \in Flags8088
  BY Zenon DEF KeepCarry, Flags8088
\* inc and dec: their flags for any result v.
LEMMA CountFlags ==
  ASSUME NEW m \in Machines, NEW n \in Widths, NEW a \in Int, NEW v \in Int
  PROVE  /\ KeepCarry(m.cpu.f, SetFlagsAdd(m.cpu.f, n, a, 1, v)) \in Flags8088
         /\ KeepCarry(m.cpu.f, SetFlagsSub(m.cpu.f, n, a, 1, v)) \in Flags8088
<1>1. m.cpu.f \in Flags8088 BY Parts
<1>2. 1 \in Int BY SMT
<1> QED BY <1>1, <1>2, AddSubAreFlags, CarryKept
LEMMA CountRegisterKeeps ==
  ASSUME NEW m \in Machines, NEW x \in Decodings
  PROVE  Keeps(m, IncRegister(m, x)) /\ Keeps(m, DecRegister(m, x))
<1> DEFINE r == x.op % 8
           v == DecodeReg(m, 16, r)
           t == Past(m, x, 0)
           f == KeepCarry(m.cpu.f, SetFlagsAdd(m.cpu.f, 16, v, 1, v + 1))
           g == KeepCarry(m.cpu.f, SetFlagsSub(m.cpu.f, 16, v, 1, v - 1))
<1>1. r \in 0..7
  <2>1. x.op \in Int BY Decoding, ByteIsInt
  <2> QED BY <2>1
<1>2. IncRegister(m, x) = WritebackReg(SetFlags(t, f), 16, r, v + 1) BY Zenon DEF IncRegister
<1>3. DecRegister(m, x) = WritebackReg(SetFlags(t, g), 16, r, v - 1) BY Zenon DEF DecRegister
<1> HIDE DEF r
<1>4. v \in Int BY <1>1, BothWidths, RegIsInt
<1> HIDE DEF v
<1>5. v + 1 \in Int /\ v - 1 \in Int BY <1>4
<1>6. f \in Flags8088 /\ g \in Flags8088 BY <1>4, <1>5, BothWidths, CountFlags
<1>7. Led(m, t) BY SmallInts, PastLed
<1> HIDE DEF f, g, t
<1> QED
  BY <1>1, <1>2, <1>3, <1>5, <1>6, <1>7, BothWidths, LedFlags, LedReg, LedMachine, Zenon
LEMMA CountOperandKeeps ==
  ASSUME NEW m \in Machines, NEW x \in Decodings
  PROVE  Keeps(m, IncOperand(m, x)) /\ Keeps(m, DecOperand(m, x))
<1> DEFINE n == Width(x)
           v == DecodeRM(m, x, n)
           t == Decoded(m, x, 0)
           f == KeepCarry(m.cpu.f, SetFlagsAdd(m.cpu.f, n, v, 1, v + 1))
           g == KeepCarry(m.cpu.f, SetFlagsSub(m.cpu.f, n, v, 1, v - 1))
<1>1. n \in Widths BY Decoding
<1>2. IncOperand(m, x) = WritebackRM(SetFlags(t, f), x, n, v + 1) BY Zenon DEF IncOperand
<1>3. DecOperand(m, x) = WritebackRM(SetFlags(t, g), x, n, v - 1) BY Zenon DEF DecOperand
<1> HIDE DEF n
<1>4. v \in Int BY <1>1, RMIsInt
<1> HIDE DEF v
<1>5. v + 1 \in Int /\ v - 1 \in Int BY <1>4
<1>6. f \in Flags8088 /\ g \in Flags8088 BY <1>1, <1>4, <1>5, CountFlags
<1>7. Led(m, t) BY SmallInts, DecodedLed
<1> HIDE DEF f, g, t
<1> QED BY <1>1, <1>2, <1>3, <1>5, <1>6, <1>7, LedFlags, LedRM, LedMachine, Zenon

LEMMA AlIsByte ==
  ASSUME NEW m \in Machines
  PROVE  /\ m.cpu.b[AX] \in Bytes /\ m.cpu.b[AH] \in Bytes /\ m.cpu.b[CX] \in Bytes
         /\ m.cpu.b[AX] \in Int /\ m.cpu.b[AH] \in Int /\ m.cpu.b[CX] \in Int
<1>1. m.cpu.b[AX] \in Bytes /\ m.cpu.b[AH] \in Bytes /\ m.cpu.b[CX] \in Bytes
  BY Parts, RegisterNames, Zenon
<1> QED BY <1>1, ByteIsInt

LEMMA DecimalKeeps ==
  ASSUME NEW m \in Machines, NEW x \in Decodings, NEW sign \in Int
  PROVE  Keeps(m, Decimal(m, x, sign))
<1> DEFINE f == m.cpu.f
           al == m.cpu.b[AX]
           low == al % 16 > 9 \/ f.ac = 1
           half == IF low THEN al + 6 * sign ELSE al
           high == (half \div 16) % 16 > 9 \/ DecimalCarry(f, half, low) = 1
           full == IF high THEN half + 96 * sign ELSE half
           zsp == SetFlagsZSP(f, 8, full)
           fl == Flag(low)
           fh == Flag(high)
           g == [zsp EXCEPT !.ac = fl, !.c = fh]
           t == Past(m, x, 0)
<1>1. Decimal(m, x, sign) = WritebackReg(SetFlags(t, g), 8, AX, full) BY Zenon DEF Decimal
<1>2. f \in Flags8088 /\ al \in Int BY Parts, AlIsByte
<1>3. fl \in Bits /\ fh \in Bits BY FlagIsBit
<1> HIDE DEF f, al, low, fl
<1>4. half \in Int
  <2>1. al + 6 * sign \in Int BY <1>2, SMT
  <2> QED BY <1>2, <2>1, Zenon
<1> HIDE DEF half, high, fh
<1>5. full \in Int
  <2>1. half + 96 * sign \in Int BY <1>4, SMT
  <2> QED BY <1>4, <2>1, Zenon
<1> HIDE DEF full
<1>6. zsp \in Flags8088 BY <1>2, <1>5, BothWidths, ZSPAreFlags
<1> HIDE DEF zsp
<1>7. g \in Flags8088 BY <1>3, <1>6, Zenon DEF Flags8088
<1>8. Led(m, t) BY SmallInts, PastLed
<1> HIDE DEF g, t
<1> QED BY <1>1, <1>5, <1>7, <1>8, BothWidths, RegisterNames, LedFlags, LedReg, LedMachine, Zenon

LEMMA UnpackedKeeps ==
  ASSUME NEW m \in Machines, NEW x \in Decodings, NEW sign \in Int
  PROVE  Keeps(m, Unpacked(m, x, sign))
<1> DEFINE f == m.cpu.f
           al == m.cpu.b[AX]
           ah == m.cpu.b[AH]
           over == al % 16 > 9 \/ f.ac = 1
           step == IF over THEN sign ELSE 0
           fo == Flag(over)
           g == [f EXCEPT !.ac = fo, !.c = fo]
           v == (al + 6 * step) % 16
           t == Past(m, x, 0)
<1>1. Unpacked(m, x, sign) = WritebackReg(WritebackReg(SetFlags(t, g), 8, AX, v), 8, AH, ah + step)
  BY Zenon DEF Unpacked
<1>2. f \in Flags8088 /\ al \in Int /\ ah \in Int BY Parts, AlIsByte
<1>3. fo \in Bits BY FlagIsBit
<1>4. step \in Int BY SmallInts, Zenon
<1> HIDE DEF f, al, ah, over, step, fo
<1>5. v \in Int /\ ah + step \in Int BY <1>2, <1>4, SMT
<1> HIDE DEF v
<1>6. g \in Flags8088 BY <1>2, <1>3, Zenon DEF Flags8088
<1>7. Led(m, t) BY SmallInts, PastLed
<1> HIDE DEF g, t
<1> DEFINE s == WritebackReg(SetFlags(t, g), 8, AX, v)
<1>8. Led(m, s) BY <1>5, <1>6, <1>7, BothWidths, RegisterNames, LedFlags, LedReg, Zenon
<1> HIDE DEF s
<1>9. Led(m, WritebackReg(s, 8, AH, ah + step)) BY <1>5, <1>8, BothWidths, RegisterNames, LedReg, Zenon
<1> QED BY <1>1, <1>9, LedMachine, Zenon DEF s
LEMMA AdjustmentsKeep ==
  ASSUME NEW m \in Machines, NEW x \in Decodings
  PROVE  /\ Keeps(m, Daa(m, x)) /\ Keeps(m, Das(m, x))
         /\ Keeps(m, Aaa(m, x)) /\ Keeps(m, Aas(m, x))
  BY DecimalKeeps, UnpackedKeeps, SmallInts, Zenon DEF Daa, Das, Aaa, Aas

LEMMA AamKeeps ==
  ASSUME NEW m \in Machines, NEW x \in Decodings PROVE Keeps(m, Aam(m, x))
<1> DEFINE k == Imm(m, x, 8)
           al == m.cpu.b[AX]
           r == Pair(Low(al \div k), al % k)
           t == Past(m, x, 1)
           f == SetFlagsZSP(m.cpu.f, 16, r)
<1>1. Aam(m, x) = IF k = 0 THEN Trap(t, 0) ELSE SetFlags(WritebackReg(t, 16, AX, r), f)
  BY Zenon DEF Aam
<1>2. k \in Bytes /\ al \in Bytes BY ImmIsByte, AlIsByte
<1>3. Led(m, t) BY SmallInts, PastLed
<1> HIDE DEF k, al, t
<1>4. CASE k = 0
  <2>1. 0 \in Bytes BY DEF Bytes
  <2> QED BY <1>1, <1>3, <1>4, <2>1, LedTrap, Zenon
<1>5. CASE k # 0
  <2>1. k \in Nat \ {0} /\ al \in Int BY <1>2, <1>5 DEF Bytes
  <2>2. al \div k \in Int /\ al % k \in Int BY <2>1, Quotient
  <2>3. Low(al \div k) \in Int BY <2>2, HalfIsByte, ByteIsInt
  <2>4. r \in Int
    <3>1. \A h, l \in Int : Pair(h, l) \in Int BY DEF Pair
    <3> QED BY <2>2, <2>3, <3>1, Zenon
  <2> HIDE DEF r
  <2>5. f \in Flags8088 BY <2>4, Parts, BothWidths, ZSPAreFlags
  <2> HIDE DEF f
  <2>6. Led(m, SetFlags(WritebackReg(t, 16, AX, r), f))
    BY <1>3, <2>4, <2>5, BothWidths, RegisterNames, LedReg, LedFlags, Zenon
  <2> QED BY <1>1, <1>5, <2>6, LedMachine, Zenon
<1> QED BY <1>4, <1>5
LEMMA AadKeeps ==
  ASSUME NEW m \in Machines, NEW x \in Decodings PROVE Keeps(m, Aad(m, x))
<1> DEFINE ah == m.cpu.b[AH]
           al == m.cpu.b[AX]
           k == Imm(m, x, 8)
           r == ah * k + al
           t == Past(m, x, 1)
           f == SetFlagsZSP(m.cpu.f, 16, r)
<1>1. Aad(m, x) = SetFlags(WritebackReg(t, 16, AX, r), f) BY Zenon DEF Aad
<1>2. k \in Int /\ al \in Int /\ ah \in Int BY ImmIsInt, AlIsByte
<1> HIDE DEF k, al, ah
<1>3. r \in Int BY <1>2
<1> HIDE DEF r
<1>4. f \in Flags8088 BY <1>3, Parts, BothWidths, ZSPAreFlags
<1>5. Led(m, t) BY SmallInts, PastLed
<1> HIDE DEF f, t
<1> QED BY <1>1, <1>3, <1>4, <1>5, BothWidths, RegisterNames, LedReg, LedFlags, LedMachine, Zenon

-----------------------------------------------------------------------------
(* Shifts and rotates. *)

LEMMA PowerIsInt == ASSUME NEW k \in 0..17 PROVE 2^k \in Int /\ 2^k \in Nat \ {0}
<1>1. 2^k \in Nat \ {0} BY Powers, Zenon
<1>2. \A p \in Nat \ {0} : p \in Int OBVIOUS
<1> QED BY <1>1, <1>2, Zenon
LEMMA ProductIsInt == ASSUME NEW a \in Int, NEW b \in Int PROVE a * b \in Int /\ -a \in Int
  OBVIOUS
LEMMA ChangedFlags ==
  ASSUME NEW f \in Flags8088, NEW c \in Bits, NEW o \in Bits
  PROVE  [f EXCEPT !.c = c, !.o = o] \in Flags8088
  BY Zenon DEF Flags8088

LEMMA ShiftByOneKeeps ==
  ASSUME NEW m \in Machines, NEW x \in Decodings, NEW e, e.junk \in Int
  PROVE  Keeps(m, ShiftByOne(m, x, e))
<1> DEFINE n == Width(x)
           v == DecodeRM(m, x, n)
           f == m.cpu.f
           p == 2^(n - 1)
           top == Bit(v, n - 1)
           r == CASE x.reg = 0 -> 2 * v + top
                  [] x.reg = 1 -> v \div 2 + p * (v % 2)
                  [] x.reg = 2 -> 2 * v + f.c
                  [] x.reg = 3 -> v \div 2 + p * f.c
                  [] x.reg = 4 -> 2 * v
                  [] x.reg = 5 -> v \div 2
                  [] x.reg = 6 -> e.junk
                  [] x.reg = 7 -> v \div 2 + p * top
           c == CASE x.reg \in {0, 2, 4} -> top [] x.reg = 6 -> f.c [] OTHER -> v % 2
           g == IF x.reg \in {4, 5, 7} THEN SetFlagsZSP(f, n, r) ELSE f
           o == (Bit(r, n - 1) + top) % 2
           h == [g EXCEPT !.c = c, !.o = o]
           t == Decoded(m, x, 0)
<1>1. ShiftByOne(m, x, e) = WritebackRM(SetFlags(t, h), x, n, r) BY Zenon DEF ShiftByOne
<1>2. n \in Widths /\ n - 1 \in 0..17 /\ x.reg \in 0..7 BY Decoding, WidthsAre
<1> HIDE DEF n
<1>3. v \in Int /\ f \in Flags8088 /\ p \in Int /\ f.c \in Bits /\ f.c \in Int
  BY <1>2, RMIsInt, Parts, FlagsAre, BitIsInt, PowerIsInt
<1> HIDE DEF v
<1>4. top \in Bits /\ top \in Int BY <1>2, <1>3, BitIsBit, BitIsInt
<1> HIDE DEF top, p
<1>5. r \in Int
  <2> DEFINE fc == f.c
             junk == e.junk
  <2>1. fc \in Int /\ junk \in Int BY <1>3
  <2> HIDE DEF fc
  <2>2. /\ 2 * v + top \in Int /\ 2 * v + fc \in Int /\ 2 * v \in Int /\ v \div 2 \in Int
    BY <1>3, <1>4, <2>1, SMT
  <2>3. v % 2 \in Int BY <1>3, SMT
  <2>4. p * (v % 2) \in Int /\ p * fc \in Int /\ p * top \in Int
    BY <1>3, <1>4, <2>1, <2>3, ProductIsInt
  <2>5. /\ v \div 2 + p * (v % 2) \in Int /\ v \div 2 + p * fc \in Int
        /\ v \div 2 + p * top \in Int
    BY <2>2, <2>4, IntSum
  <2>6. x.reg \in {0, 1, 2, 3, 4, 5, 6, 7}
    <3> DEFINE reg == x.reg
    <3>1. reg \in 0..7 BY <1>2
    <3> HIDE DEF reg
    <3>2. reg \in {0, 1, 2, 3, 4, 5, 6, 7} BY <3>1
    <3> QED BY <3>2 DEF reg
  <2> HIDE DEF junk
  <2> QED BY <2>1, <2>2, <2>5, <2>6, Zenon DEF fc, junk
<1>6. c \in Bits
  <2>1. v % 2 \in Bits BY <1>3, SMT DEF Bits
  <2> QED BY <1>3, <1>4, <2>1, Zenon
<1> HIDE DEF r, c
<1>7. g \in Flags8088 BY <1>2, <1>3, <1>5, ZSPAreFlags, Zenon
<1>8. o \in Bits BY <1>2, <1>4, <1>5, BitIsBit, TwoBits
<1> HIDE DEF g, o
<1>9. h \in Flags8088 BY <1>6, <1>7, <1>8, ChangedFlags
<1>10. Led(m, t) BY SmallInts, DecodedLed
<1> HIDE DEF h, t
<1> QED BY <1>1, <1>2, <1>5, <1>9, <1>10, LedFlags, LedRM, LedMachine, Zenon

LEMMA DivIsInt ==
  ASSUME NEW v \in Int, NEW k \in 0..17 PROVE v \div 2^k \in Int /\ v % 2^k \in Int
<1>1. 2^k \in Nat \ {0} BY PowerIsInt
<1> DEFINE p == 2^k
<1> HIDE DEF p
<1>2. p \in Nat \ {0} BY <1>1 DEF p
<1>3. v \div p \in Int /\ v % p \in Int BY <1>2, SMT
<1> QED BY <1>3 DEF p
LEMMA ShiftLeftIsInt ==
  ASSUME NEW v \in Int, NEW w \in 0..17, NEW k \in Nat PROVE ShiftLeft(v, k, w) \in Int
<1>1. CASE k > w BY <1>1, SmallInts, Zenon DEF ShiftLeft
<1>2. CASE ~(k > w)
  <2>1. w - k \in 0..17 /\ k \in 0..17 BY <1>2
  <2>2. v % 2^(w - k) \in Int /\ 2^k \in Int BY <2>1, DivIsInt, PowerIsInt
  <2>3. (v % 2^(w - k)) * 2^k \in Int BY <2>2, ProductIsInt
  <2> QED BY <1>2, <2>3, Zenon DEF ShiftLeft
<1> QED BY <1>1, <1>2

LEMMA RotateIsInt ==
  ASSUME NEW n \in Widths, NEW k \in 0..3, NEW v \in Int, NEW c \in Int, NEW cl \in Bytes
  PROVE  RotateCL(n, k, v, c, cl) \in Int
<1> DEFINE w == n + 1
           wide == v + 2^n * c
           back == IF n = 8 THEN cl % w ELSE cl % 9
           around == w - back
           by == cl % w
           i == cl % n
           j == n - i
<1>1. w \in 0..17 /\ n \in 0..17 BY WidthsAre
<1>2. around \in 0..17 /\ around \in Nat /\ by \in 0..17 /\ by \in Nat
  BY DEF Widths, Bytes
<1>3. i \in 0..17 /\ i \in Nat /\ j \in 0..17 /\ j \in Nat BY DEF Widths, Bytes
<1>4. wide \in Int
  <2>1. 2^n \in Int BY <1>1, PowerIsInt
  <2>2. 2^n * c \in Int BY <2>1, ProductIsInt
  <2> QED BY <2>2, IntSum
<1>5. RotateCL(n, k, v, c, cl) =
        CASE k = 0 -> Or(ShiftLeft(v, i, n), v \div 2^j)
          [] k = 1 -> Or(v \div 2^i, ShiftLeft(v, j, n))
          [] k = 2 -> Or(ShiftLeft(wide, by, w), wide \div 2^around)
          [] k = 3 -> Or(wide \div 2^by, ShiftLeft(wide, around, w))
  BY Zenon DEF RotateCL
<1> HIDE DEF wide, around, by, i, j, w
<1>6. /\ Or(ShiftLeft(v, i, n), v \div 2^j) \in Int
      /\ Or(v \div 2^i, ShiftLeft(v, j, n)) \in Int
      /\ Or(ShiftLeft(wide, by, w), wide \div 2^around) \in Int
      /\ Or(wide \div 2^by, ShiftLeft(wide, around, w)) \in Int
  BY <1>1, <1>2, <1>3, <1>4, DivIsInt, ShiftLeftIsInt, LogicIsInt
<1>7. k \in {0, 1, 2, 3} BY SMT
<1> QED BY <1>5, <1>6, <1>7, Zenon
LEMMA RotateCarryIsBit ==
  ASSUME NEW n \in Widths, NEW k, NEW r \in Int PROVE RotateCarry(n, k, r) \in Bits
<1>1. r % 2 \in Bits BY SMT DEF Bits
<1>2. Bit(r, n - 1) \in Bits /\ Bit(r, n) \in Bits BY WidthsAre, BitIsBit
<1> QED BY <1>1, <1>2, Zenon DEF RotateCarry

Shifted == [c : Bits, r : Int]
LEMMA ShiftIs ==
  ASSUME NEW n \in Widths, NEW k \in {4, 5, 7}, NEW v \in Int, NEW cl \in Bytes, cl # 0
  PROVE  ShiftCL(n, k, v, cl) \in Shifted
<1> DEFINE sign == Signed(n, v)
           out(u, by) == [c |-> (u \div 2^by) % 2, r |-> u \div 2^(by + 1)]
           left == ShiftLeft(v, cl, n + 1)
           most == IF cl >= n THEN n - 1 ELSE cl - 1
<1>1. n + 1 \in 0..17 /\ n \in 0..17 /\ n - 1 \in 0..17 /\ cl \in Nat BY WidthsAre DEF Bytes
<1>2. left \in Int BY <1>1, ShiftLeftIsInt
<1>3. sign \in Int
  <2>1. 2^n \in Int BY <1>1, PowerIsInt
  <2>2. v - 2^n \in Int BY <2>1, IntSum
  <2> QED BY <2>2, Zenon DEF Signed
<1>4. ASSUME NEW u \in Int, NEW by \in 0..16 PROVE out(u, by) \in Shifted
  <2>1. by \in 0..17 /\ by + 1 \in 0..17 BY <1>4
  <2>2. u \div 2^by \in Int /\ u \div 2^(by + 1) \in Int BY <2>1, DivIsInt
  <2>3. \A d \in Int : d % 2 \in Bits BY SMT DEF Bits
  <2> QED BY <2>2, <2>3, Zenon DEF Shifted
<1> DEFINE a == [c |-> Bit(left, n), r |-> left]
           b == IF cl > n THEN [c |-> 0, r |-> 0] ELSE out(v, cl - 1)
           d == out(sign, most)
<1>5. ShiftCL(n, k, v, cl) = CASE k = 4 -> a [] k = 5 -> b [] k = 7 -> d
  BY Zenon DEF ShiftCL
<1>6. a \in Shifted
  <2>1. Bit(left, n) \in Bits BY <1>1, <1>2, BitIsBit
  <2> HIDE DEF left
  <2> QED BY <1>2, <2>1, Zenon DEF Shifted
<1>7. b \in Shifted
  <2>1. [c |-> 0, r |-> 0] \in Shifted
    <3>1. 0 \in Bits /\ 0 \in Int BY SMT DEF Bits
    <3> QED BY <3>1, Zenon DEF Shifted
  <2>2. CASE cl > n BY <2>1, <2>2, Zenon
  <2>3. CASE ~(cl > n)
    <3>1. cl - 1 \in 0..16 BY <2>3, <1>1 DEF Widths
    <3>2. out(v, cl - 1) \in Shifted BY <1>4, <3>1
    <3> QED BY <2>3, <3>2, Zenon
  <2> QED BY <2>2, <2>3
<1>8. d \in Shifted
  <2>1. most \in 0..16 BY <1>1 DEF Widths
  <2> HIDE DEF most
  <2> QED BY <1>3, <1>4, <2>1
<1> HIDE DEF a, b, d
<1> QED BY <1>5, <1>6, <1>7, <1>8, Zenon

LEMMA ShiftByCLKeeps ==
  ASSUME NEW m \in Machines, NEW x \in Decodings, NEW e, e.junk \in Int
  PROVE  Keeps(m, ShiftByCL(m, x, e))
<1> DEFINE n == Width(x)
           k == x.reg
           v == DecodeRM(m, x, n)
           f == m.cpu.f
           cl == m.cpu.b[CX]
           t == Decoded(m, x, 0)
           rotated == RotateCL(n, k, v, f.c, cl)
           moved == ShiftCL(n, k, v, cl)
           r == CASE k < 4 -> rotated [] k = 6 -> e.junk [] OTHER -> moved.r
           c == CASE k < 4 -> RotateCarry(n, k, r) [] k = 6 -> f.c [] OTHER -> moved.c
           g == IF k \in {4, 5, 7} THEN SetFlagsZSP(f, n, r) ELSE f
           o == (Bit(r, n - 1) + Bit(v, n - 1)) % 2
           h == [g EXCEPT !.c = c, !.o = o]
<1>1. ShiftByCL(m, x, e) = IF cl = 0 THEN t ELSE WritebackRM(SetFlags(t, h), x, n, r)
  BY Zenon DEF ShiftByCL
<1>2. n \in Widths /\ n - 1 \in 0..17 /\ k \in 0..7 BY Decoding, WidthsAre
<1> HIDE DEF n, k
<1>3. v \in Int /\ f \in Flags8088 /\ f.c \in Bits /\ f.c \in Int /\ cl \in Bytes
  BY <1>2, RMIsInt, Parts, FlagsAre, BitIsInt, AlIsByte
<1>4. Led(m, t) BY SmallInts, DecodedLed
<1> HIDE DEF v, cl, t
<1>5. CASE cl = 0 BY <1>1, <1>4, <1>5, LedMachine, Zenon
<1>6. CASE cl # 0
  <2>1. k < 4 \/ k = 6 \/ k \in {4, 5, 7} BY <1>2
  <2>2. k < 4 => rotated \in Int
    <3> HAVE k < 4
    <3>1. k \in 0..3 BY <1>2
    <3> QED BY <3>1, <1>2, <1>3, RotateIsInt
  <2>3. k \in {4, 5, 7} => moved \in Shifted /\ ~(k < 4) /\ k # 6
    <3>1. k \in {4, 5, 7} => ~(k < 4) /\ k # 6 OBVIOUS
    <3> QED BY <1>2, <1>3, <1>6, <3>1, ShiftIs
  <2>4. k = 6 => ~(k < 4) OBVIOUS
  <2>5. moved \in Shifted => moved.r \in Int /\ moved.c \in Bits
    <3> HIDE DEF moved
    <3> QED BY Zenon DEF Shifted
  <2>6. \A q \in Int : RotateCarry(n, k, q) \in Bits BY <1>2, RotateCarryIsBit
  <2> HIDE DEF rotated, moved
  <2>7. r \in Int BY <2>1, <2>2, <2>3, <2>4, <2>5, Zenon
  <2> HIDE DEF r
  <2>8. c \in Bits BY <1>3, <2>1, <2>3, <2>4, <2>5, <2>6, <2>7, Zenon
  <2>9. g \in Flags8088 BY <1>2, <1>3, <2>7, ZSPAreFlags, Zenon
  <2>10. o \in Bits BY <1>2, <1>3, <2>7, BitIsBit, TwoBits
  <2> HIDE DEF c, g, o
  <2>11. h \in Flags8088 BY <2>8, <2>9, <2>10, ChangedFlags
  <2>12. Led(m, SetFlags(t, h)) BY <1>4, <2>11, LedFlags
  <2> DEFINE s == SetFlags(t, h)
  <2>13. Led(m, s) BY <2>12
  <2> HIDE DEF h, s
  <2>14. Led(m, WritebackRM(s, x, n, r)) BY <1>2, <2>7, <2>13, LedRM
  <2> QED BY <1>1, <1>6, <2>14, LedMachine, Zenon DEF s
<1> QED BY <1>5, <1>6

-----------------------------------------------------------------------------
(* Products and quotients. *)

Wides == [hi : Int, lo : Int]
\* What a number may be divided by: not zero, and not negative in one word.
Divisors == {d \in Wides : d.hi = 0 => d.lo \in Nat \ {0}}

LEMMA WideIs ==
  ASSUME NEW h \in Int, NEW l \in Int
  PROVE  Wide(h, l) \in Wides /\ Wide(h, l).hi = h /\ Wide(h, l).lo = l
  BY Zenon DEF Wide, Wides
LEMMA WidesAre == ASSUME NEW v \in Wides PROVE v.hi \in Int /\ v.lo \in Int
  BY Zenon DEF Wides
LEMMA WordDivIsInt ==
  ASSUME NEW v \in Int PROVE v \div WordSize \in Int /\ v % WordSize \in Int
  BY WordSizeIs, Quotient
LEMMA HalfIsInt == ASSUME NEW v \in Int PROVE Low(v) \in Int /\ High(v) \in Int
  BY HalfIsByte, ByteIsInt
LEMMA PairIsInt == ASSUME NEW h \in Int, NEW l \in Int PROVE Pair(h, l) \in Int
  BY DEF Pair
LEMMA ByteParts == ASSUME NEW v \in Int PROVE v \div 256 \in Int /\ v % 256 \in Int
  OBVIOUS

LEMMA ProductIsWide ==
  ASSUME NEW a \in Int, NEW b \in Int PROVE Product(a, b) \in Wides
<1> DEFINE upper == a * High(b)
           lower == a * Low(b) + 256 * (upper % 256)
<1>1. upper \in Int BY HalfIsInt, ProductIsInt
<1> HIDE DEF upper
<1>2. upper % 256 \in Int /\ upper \div 256 \in Int BY <1>1, ByteParts
<1>3. lower \in Int
  <2>1. a * Low(b) \in Int BY HalfIsInt, ProductIsInt
  <2>2. 256 * (upper % 256) \in Int BY <1>2, SMT
  <2> QED BY <2>1, <2>2, IntSum
<1>4. Product(a, b) = Wide(upper \div 256 + lower \div WordSize, lower % WordSize)
  BY Zenon DEF Product, upper
<1> HIDE DEF lower
<1>5. upper \div 256 + lower \div WordSize \in Int /\ lower % WordSize \in Int
  BY <1>2, <1>3, WordDivIsInt, IntSum
<1>6. Wide(upper \div 256 + lower \div WordSize, lower % WordSize) \in Wides
  BY <1>5, WideIs
<1> QED BY <1>4, <1>6
LEMMA NegateIsWide ==
  ASSUME NEW v \in Wides
  PROVE  /\ Negate(v) \in Wides
         /\ Negate(v).hi = (-v.hi - Flag(v.lo # 0)) % WordSize
         /\ Negate(v).lo = (-v.lo) % WordSize
<1> DEFINE h == v.hi
           l == v.lo
           f == Flag(l # 0)
<1>1. h \in Int /\ l \in Int BY WidesAre
<1>2. f \in Int BY FlagIsBit, BitIsInt
<1> HIDE DEF h, f
<1>3. -h - f \in Int
  <2>1. -h \in Int BY <1>1
  <2> QED BY <1>2, <2>1, IntSum
<1>4. -l \in Int
  <2> HIDE DEF l
  <2> QED BY <1>1
<1>5. (-h - f) % WordSize \in Int /\ (-l) % WordSize \in Int BY <1>3, <1>4, WordDivIsInt
<1> QED BY <1>5, WideIs, Zenon DEF Negate, h, f

LEMMA NegatedWord ==
  ASSUME NEW v \in Int, 0 < v, v < WordSize PROVE (-v) % WordSize \in Nat \ {0}
<1>1. (-v) % WordSize = WordSize - v BY SMT DEF WordSize
<1> QED BY <1>1, WordSizeIs
LEMMA SignedDivides ==
  ASSUME NEW n \in Widths, NEW v \in 0..(2^n - 1)
  PROVE  /\ SignWide(n, v) \in Wides
         /\ v # 0 => SignWide(n, v) \in Divisors /\ Negate(SignWide(n, v)) \in Divisors
<1> DEFINE s == SignWide(n, v)
           g == Negate(s)
<1>0. 2^7 = 128 /\ 2^8 = 256 /\ 2^15 = 32768 /\ 2^16 = 65536
  <2>1. 2^7 = 128 /\ 2^8 = 256 BY SMT
  <2>2. 2^15 = 32768 BY SMT
  <2>3. 2^16 = 65536 BY SMT
  <2> QED BY <2>1, <2>2, <2>3
<1> DEFINE half == 2^(n - 1)
           full == 2^n
<1>1. (half = 128 /\ full = 256) \/ (half = 32768 /\ full = 65536)
  <2>1. n = 8 \/ n = 16 BY DEF Widths
  <2>2. CASE n = 8
    <3>1. n - 1 = 7 BY <2>2
    <3>2. half = 2^7 /\ full = 2^8 BY <2>2, <3>1, Zenon
    <3> HIDE DEF half, full
    <3> QED BY <3>2, SMT
  <2>3. CASE n = 16
    <3>1. n - 1 = 15 BY <2>3
    <3>2. half = 2^15 /\ full = 2^16 BY <2>3, <3>1, Zenon
    <3> HIDE DEF half, full
    <3> QED BY <3>2, SMT
  <2> QED BY <2>1, <2>2, <2>3
<1>2. v \in Nat /\ v < full
  <2> HIDE DEF full
  <2>1. full \in Nat BY <1>1, SMT
  <2>2. v \in 0..(full - 1) BY DEF full
  <2> QED BY <2>1, <2>2, SMT
<1>3. s = IF v < half THEN Wide(0, v) ELSE Wide(WordSize - 1, v + WordSize - full)
  BY Zenon DEF SignWide
<1> HIDE DEF half, full, s
<1>4. CASE v < half
  <2>1. s = Wide(0, v) BY <1>3, <1>4
  <2>2. v \in Int /\ 0 \in Int BY <1>2
  <2>3. s \in Wides /\ s.hi = 0 /\ s.lo = v BY <2>1, <2>2, WideIs
  <2>4. v # 0 => s \in Divisors
    <3> HAVE v # 0
    <3>1. v \in Nat \ {0} BY <1>2
    <3> QED BY <2>3, <3>1, Zenon DEF Divisors
  <2>5. v # 0 => g \in Divisors
    <3> HAVE v # 0
    <3>1. Flag(v # 0) = 1 BY DEF Flag
    <3>2. g \in Wides /\ g.hi = (-0 - 1) % WordSize BY <2>3, <3>1, NegateIsWide
    <3>3. (-0 - 1) % WordSize # 0 BY SMT DEF WordSize
    <3> QED BY <3>2, <3>3, Zenon DEF Divisors
  <2> QED BY <2>3, <2>4, <2>5 DEF s
<1>5. CASE ~(v < half)
  <2> DEFINE h == WordSize - 1
             l == v + WordSize - full
  <2>1. s = Wide(h, l) BY <1>3, <1>5
  <2>2. l \in Int /\ 0 < l /\ l < WordSize /\ h \in Int
    <3>1. half \in Int /\ full \in Int /\ 0 < half /\ full < WordSize + 1 BY <1>1, SMT DEF WordSize
    <3>2. WordSize \in Int BY WordSizeIs
    <3> QED BY <1>2, <1>5, <3>1, <3>2
  <2>3. s \in Wides /\ s.hi = h /\ s.lo = l
    <3> HIDE DEF h, l
    <3> QED BY <2>1, <2>2, WideIs
  <2>4. s \in Divisors
    <3>1. h # 0 BY SMT DEF WordSize
    <3> HIDE DEF h, l
    <3> QED BY <2>3, <3>1, Zenon DEF Divisors
  <2>5. g \in Divisors
    <3>1. Flag(s.lo # 0) = 1
      <4>1. l # 0
        <5> HIDE DEF l
        <5> QED BY <2>2
      <4> HIDE DEF l
      <4> QED BY <2>3, <4>1 DEF Flag
    <3>2. g \in Wides /\ g.lo = (-s.lo) % WordSize BY <2>3, NegateIsWide
    <3>3. (-l) % WordSize \in Nat \ {0}
      <4> HIDE DEF l
      <4> QED BY <2>2, NegatedWord
    <3> HIDE DEF h, l
    <3> QED BY <2>3, <3>2, <3>3, Zenon DEF Divisors
  <2> QED BY <2>3, <2>4, <2>5 DEF s
<1> QED BY <1>4, <1>5

LEMMA DivideIs ==
  ASSUME NEW v \in Wides, NEW d \in Divisors
  PROVE  Divide(v, d).q \in Wides /\ Divide(v, d).r \in Wides
<1> DEFINE vh == v.hi
           vl == v.lo
           dh == d.hi
           dl == d.lo
           r1 == (vh % dl) * 256 + High(vl)
           r2 == (r1 % dl) * 256 + Low(vl)
           enough == vh > dh \/ (vh = dh /\ vl >= dl)
           direct == [q |-> Wide(vh \div dl, Pair(r1 \div dl, r2 \div dl)), r |-> Wide(0, r2 % dl)]
           once == [q |-> Wide(0, 1), r |-> Wide(vh - dh, vl - dl)]
           none == [q |-> Wide(0, 0), r |-> v]
<1>1. vh \in Int /\ vl \in Int /\ dh \in Int /\ dl \in Int BY WidesAre, Zenon DEF Divisors
<1>2. Divide(v, d) = IF dh = 0 THEN direct ELSE IF enough THEN once ELSE none
  BY Zenon DEF Divide
<1>3. dh = 0 => dl \in Nat \ {0} BY Zenon DEF Divisors
<1>4. dh = 0 => direct.q \in Wides /\ direct.r \in Wides
  <2> HAVE dh = 0
  <2>1. dl \in Nat \ {0} BY <1>3
  <2>2. High(vl) \in Int /\ Low(vl) \in Int BY <1>1, HalfIsInt
  <2> HIDE DEF vh, vl, dl
  <2>3. vh % dl \in Int /\ vh \div dl \in Int BY <1>1, <2>1, Quotient
  <2>4. r1 \in Int
    <3>1. (vh % dl) * 256 \in Int BY <2>3, SMT
    <3> QED BY <2>2, <3>1, IntSum
  <2> HIDE DEF r1
  <2>5. r1 % dl \in Int /\ r1 \div dl \in Int BY <2>1, <2>4, Quotient
  <2>6. r2 \in Int
    <3>1. (r1 % dl) * 256 \in Int BY <2>5, SMT
    <3> QED BY <2>2, <3>1, IntSum
  <2> HIDE DEF r2
  <2>7. r2 % dl \in Int /\ r2 \div dl \in Int BY <2>1, <2>6, Quotient
  <2>8. Wide(vh \div dl, Pair(r1 \div dl, r2 \div dl)) \in Wides
    BY <2>3, <2>5, <2>7, PairIsInt, WideIs
  <2>9. Wide(0, r2 % dl) \in Wides BY <2>7, SmallInts, WideIs
  <2> QED BY <2>8, <2>9, Zenon
<1>5. once.q \in Wides /\ once.r \in Wides
  <2> HIDE DEF vh, vl, dh, dl
  <2>1. vh - dh \in Int /\ vl - dl \in Int BY <1>1, IntSum
  <2>2. Wide(0, 1) \in Wides /\ Wide(vh - dh, vl - dl) \in Wides BY <2>1, SmallInts, WideIs
  <2> QED BY <2>2, Zenon
<1>6. none.q \in Wides /\ none.r \in Wides
  <2>1. Wide(0, 0) \in Wides BY SmallInts, WideIs
  <2> QED BY <2>1, Zenon
<1> HIDE DEF direct, once, none, enough
<1> QED BY <1>2, <1>4, <1>5, <1>6, Zenon

LEMMA RMFits ==
  ASSUME NEW m \in Machines, NEW x \in Decodings, NEW n \in Widths
  PROVE  DecodeRM(m, x, n) \in 0..(2^n - 1)
<1>1. CASE n = 8
  <2>1. m.mem \in Memories /\ x.rm \in 0..7 BY Parts, Decoding
  <2>2. DecodeReg(m, 8, x.rm) \in Bytes /\ Read(m, x.addr) \in Bytes
    BY <2>1, RegIsByte, ReadIsByte
  <2>3. DecodeRM(m, x, 8) \in Bytes BY <2>2, Zenon DEF DecodeRM
  <2>4. Bytes = 0..(2^8 - 1) BY SMT DEF Bytes
  <2> QED BY <1>1, <2>3, <2>4, Zenon
<1>2. CASE n = 16
  <2>1. DecodeRM(m, x, n) \in Words16 BY RMIsWord
  <2>2. WordSize = 2^16 BY SMT DEF WordSize
  <2> QED BY <1>2, <2>1, <2>2, Zenon DEF Words16
<1> QED BY <1>1, <1>2 DEF Widths

LEMMA AXDXLed ==
  ASSUME NEW m, NEW t, Led(m, t), NEW a \in Int, NEW d \in Int PROVE Led(m, SetAXDX(t, a, d))
<1> DEFINE s == WritebackReg(t, 16, AX, a)
<1>1. Led(m, s) BY BothWidths, RegisterNames, LedReg
<1> HIDE DEF s
<1>2. Led(m, WritebackReg(s, 16, DX, d)) BY <1>1, BothWidths, RegisterNames, LedReg
<1> QED BY <1>2, Zenon DEF SetAXDX, s
LEMMA CarryOverflowLed ==
  ASSUME NEW m, NEW t, Led(m, t), NEW set PROVE Led(m, CarryOverflow(t, set))
<1> DEFINE c == Flag(set)
           f == [t.cpu.f EXCEPT !.c = c, !.o = c]
<1>1. t \in Machines /\ c \in Bits BY LedMachine, FlagIsBit
<1> HIDE DEF c
<1>2. f \in Flags8088 BY <1>1, Parts, ChangedFlags
<1>3. CarryOverflow(t, set) = SetFlags(t, f)
  BY <1>1, Zenon DEF CarryOverflow, SetFlags, c, Machines, Cpu8088, Flags8088
<1> HIDE DEF f
<1> QED BY <1>2, <1>3, LedFlags
LEMMA ZeroLed ==
  ASSUME NEW m, NEW t, Led(m, t), NEW z \in Bits PROVE Led(m, [t EXCEPT !.cpu.f.z = z])
<1> DEFINE f == [t.cpu.f EXCEPT !.z = z]
<1>1. t \in Machines BY LedMachine
<1>2. f \in Flags8088 BY <1>1, Parts, Zenon DEF Flags8088
<1>3. [t EXCEPT !.cpu.f.z = z] = SetFlags(t, f)
  BY <1>1, Zenon DEF SetFlags, Machines, Cpu8088, Flags8088
<1> HIDE DEF f
<1> QED BY <1>2, <1>3, LedFlags

\* The word of a product, in AX or in DX and AX.
LEMMA SpreadLed ==
  ASSUME NEW m, NEW t, Led(m, t), NEW n, NEW p \in Wides
  PROVE  Led(m, IF n = 8 THEN WritebackReg(t, 16, AX, p.lo) ELSE SetAXDX(t, p.lo, p.hi))
<1>1. p.lo \in Int /\ p.hi \in Int BY WidesAre
<1>2. Led(m, WritebackReg(t, 16, AX, p.lo)) BY <1>1, BothWidths, RegisterNames, LedReg
<1>3. Led(m, SetAXDX(t, p.lo, p.hi)) BY <1>1, AXDXLed
<1> QED BY <1>2, <1>3, Zenon
LEMMA MulLed ==
  ASSUME NEW m, NEW t, Led(m, t), NEW n \in Widths, NEW v \in Int PROVE Led(m, Mul(t, n, v))
<1> DEFINE p == Product(DecodeReg(t, n, AX), v)
           s == IF n = 8 THEN WritebackReg(t, 16, AX, p.lo) ELSE SetAXDX(t, p.lo, p.hi)
           upper == IF n = 8 THEN High(p.lo) ELSE p.hi
           u == CarryOverflow(s, upper # 0)
           z == Flag(p.lo = 0 /\ p.hi = 0)
<1>1. p \in Wides BY LedMachine, RegisterNames, RegIsInt, ProductIsWide
<1>2. Mul(t, n, v) = [u EXCEPT !.cpu.f.z = z] BY Zenon DEF Mul
<1>3. z \in Bits BY FlagIsBit
<1> HIDE DEF p, z, upper
<1>4. Led(m, s) BY <1>1, SpreadLed
<1> HIDE DEF s
<1>5. Led(m, u) BY <1>4, CarryOverflowLed
<1> HIDE DEF u
<1>6. Led(m, [u EXCEPT !.cpu.f.z = z]) BY <1>3, <1>5, ZeroLed
<1> QED BY <1>2, <1>6, Zenon
LEMMA SignedIsInt ==
  ASSUME NEW n \in Widths, NEW v \in Int PROVE Signed(n, v) \in Int
<1>1. 2^n \in Int BY WidthsAre, PowerIsInt
<1>2. v - 2^n \in Int BY <1>1, IntSum
<1> QED BY <1>2, Zenon DEF Signed
LEMMA ImulLed ==
  ASSUME NEW m, NEW t, Led(m, t), NEW n \in Widths, NEW v \in Int PROVE Led(m, Imul(t, n, v))
<1> DEFINE a == Signed(n, DecodeReg(t, n, AX))
           b == Signed(n, v)
           aa == IF a < 0 THEN -a ELSE a
           bb == IF b < 0 THEN -b ELSE b
           q == Product(aa, bb)
           p == IF n = 8 THEN Wide(0, (a * b) % WordSize)
                ELSE IF (a < 0) = (b < 0) THEN q ELSE Negate(q)
           s == IF n = 8 THEN WritebackReg(t, 16, AX, p.lo) ELSE SetAXDX(t, p.lo, p.hi)
           upper == IF n = 8 THEN High(p.lo) ELSE p.hi
<1>1. Imul(t, n, v) = CarryOverflow(s, upper # 0 /\ upper # 2^n - 1) BY Zenon DEF Imul
<1>2. a \in Int /\ b \in Int BY LedMachine, RegisterNames, RegIsInt, SignedIsInt
<1> HIDE DEF a, b
<1>3. aa \in Int /\ bb \in Int BY <1>2
<1> HIDE DEF aa, bb
<1>4. q \in Wides BY <1>3, ProductIsWide
<1> HIDE DEF q
<1>5. p \in Wides
  <2>1. (a * b) % WordSize \in Int BY <1>2, ProductIsInt, WordDivIsInt
  <2>2. Wide(0, (a * b) % WordSize) \in Wides BY <2>1, SmallInts, WideIs
  <2>3. Negate(q) \in Wides BY <1>4, NegateIsWide
  <2> QED BY <1>4, <2>2, <2>3, Zenon
<1> HIDE DEF p
<1>6. Led(m, s) BY <1>5, SpreadLed
<1> HIDE DEF s
<1> QED BY <1>1, <1>6, CarryOverflowLed, Zenon

LEMMA ZeroIsByte == 0 \in Bytes BY DEF Bytes
LEMMA DivKeeps ==
  ASSUME NEW m, NEW t, Led(m, t), NEW n \in Widths, NEW d \in 0..(2^n - 1)
  PROVE  Keeps(m, Div(t, n, d))
<1> DEFINE ax == DecodeReg(t, 16, AX)
           dx == DecodeReg(t, 16, DX)
           u == Divide(Wide(dx, ax), Wide(0, d))
           a == WritebackReg(t, 16, AX, Pair(ax % d, ax \div d))
           b == SetAXDX(t, u.q.lo, u.r.lo)
<1>1. Div(t, n, d) =
        IF d = 0 THEN Trap(t, 0)
        ELSE IF n = 8 THEN IF ax \div d > 255 THEN Trap(t, 0) ELSE a
        ELSE IF u.q.hi # 0 THEN Trap(t, 0) ELSE b
  BY Zenon DEF Div
<1>2. ax \in Int /\ dx \in Int BY LedMachine, BothWidths, RegisterNames, RegIsInt
<1>3. Keeps(m, Trap(t, 0)) BY ZeroIsByte, LedTrap
<1>4. d \in Nat
  <2>1. 2^n \in Nat \ {0} BY WidthsAre, PowerIsInt
  <2> DEFINE p == 2^n
  <2>2. p \in Nat \ {0} /\ d \in 0..(p - 1) BY <2>1
  <2> HIDE DEF p
  <2> QED BY <2>2
<1> HIDE DEF ax, dx
<1>5. d # 0 => Keeps(m, a)
  <2> HAVE d # 0
  <2>1. d \in Nat \ {0} BY <1>4
  <2>2. ax % d \in Int /\ ax \div d \in Int BY <1>2, <2>1, Quotient
  <2>3. Pair(ax % d, ax \div d) \in Int BY <2>2, PairIsInt
  <2> QED BY <2>3, BothWidths, RegisterNames, LedReg, LedMachine
<1>6. d # 0 => Keeps(m, b)
  <2> HAVE d # 0
  <2>1. d \in Nat \ {0} /\ d \in Int BY <1>4
  <2>2. Wide(0, d) \in Divisors BY <2>1, SmallInts, WideIs, Zenon DEF Divisors
  <2>3. Wide(dx, ax) \in Wides BY <1>2, WideIs
  <2>4. u.q \in Wides /\ u.r \in Wides BY <2>2, <2>3, DivideIs
  <2> HIDE DEF u
  <2>5. u.q.lo \in Int /\ u.r.lo \in Int BY <2>4, WidesAre
  <2> QED BY <2>5, AXDXLed, LedMachine
<1> HIDE DEF u, a, b
<1> QED BY <1>1, <1>3, <1>5, <1>6, Zenon

LEMMA IdivIs ==
  ASSUME NEW n \in Widths, NEW v \in Wides, NEW d \in Divisors, Negate(d) \in Divisors,
         NEW sign1, NEW sign2
  PROVE  /\ IdivOf(n, v, d, sign1, sign2).q \in Int
         /\ IdivOf(n, v, d, sign1, sign2).r \in Int
<1> DEFINE vv == IF sign1 THEN Negate(v) ELSE v
           dd == IF sign2 THEN Negate(d) ELSE d
           u == Divide(vv, dd)
           limit == 2^(n - 1) - Flag(sign1 = sign2)
           fits == u.q.hi = 0 /\ u.q.lo <= limit
           q == IF sign1 # sign2 THEN -u.q.lo ELSE u.q.lo
           r == IF sign1 THEN -u.r.lo ELSE u.r.lo
           p == 2^n
<1>1. vv \in Wides BY NegateIsWide, Zenon
<1>2. dd \in Divisors BY Zenon
<1> HIDE DEF vv, dd
<1>3. u.q \in Wides /\ u.r \in Wides BY <1>1, <1>2, DivideIs
<1>4. IdivOf(n, v, d, sign1, sign2) = [fits |-> fits, q |-> q % p, r |-> r % p]
  BY Zenon DEF IdivOf, vv, dd
<1> HIDE DEF u
<1>5. u.q.lo \in Int /\ u.r.lo \in Int BY <1>3, WidesAre
<1>6. q \in Int /\ r \in Int BY <1>5, ProductIsInt, Zenon
<1>7. p \in Nat \ {0} BY WidthsAre, PowerIsInt
<1> HIDE DEF fits, q, r, p
<1> DEFINE qp == q % p
           rp == r % p
<1>8. qp \in Int /\ rp \in Int BY <1>6, <1>7, Quotient
<1>9. IdivOf(n, v, d, sign1, sign2) = [fits |-> fits, q |-> qp, r |-> rp] BY <1>4, Zenon
<1> HIDE DEF qp, rp
<1> QED BY <1>8, <1>9, SMT
LEMMA DivisorIsWide == ASSUME NEW d \in Divisors PROVE d \in Wides
  BY DEF Divisors
LEMMA IdivKeeps ==
  ASSUME NEW m, NEW t, Led(m, t), NEW n \in Widths, NEW d \in 0..(2^n - 1), NEW e
  PROVE  Keeps(m, Idiv(t, n, d, e))
<1> DEFINE ax == DecodeReg(t, 16, AX)
           dx == DecodeReg(t, 16, DX)
           u8 == IdivOf(8, SignWide(16, ax), SignWide(8, d), ax > 32767, d > 127)
           u16 == IdivOf(16, Wide(dx, ax), SignWide(16, d), e.sign1, e.sign2)
           u == IF n = 8 THEN u8 ELSE u16
           a == WritebackReg(t, 16, AX, Pair(u.r, u.q))
           b == SetAXDX(t, u.q, u.r)
<1>1. Idiv(t, n, d, e) =
        IF d = 0 \/ ~u.fits THEN Trap(t, 0) ELSE IF n = 8 THEN a ELSE b
  BY SMT DEF Idiv
<1>2. ax \in Words16 /\ ax \in Int /\ dx \in Int
  BY LedMachine, BothWidths, RegisterNames, RegIsInt, RegIsWord
<1>3. Keeps(m, Trap(t, 0)) BY ZeroIsByte, LedTrap
<1>4. d # 0 => u.q \in Int /\ u.r \in Int
  <2> HAVE d # 0
  <2>1. n = 8 => u8.q \in Int /\ u8.r \in Int
    <3> HAVE n = 8
    <3>1. WordSize = 2^16 BY SMT DEF WordSize
    <3>2. ax \in 0..(2^16 - 1) BY <1>2, <3>1, Zenon DEF Words16
    <3> HIDE DEF ax
    <3>3. SignWide(16, ax) \in Wides BY <3>2, BothWidths, SignedDivides
    <3>4. SignWide(8, d) \in Divisors /\ Negate(SignWide(8, d)) \in Divisors
      BY BothWidths, SignedDivides
    <3> QED BY <3>3, <3>4, BothWidths, IdivIs
  <2>2. n = 16 => u16.q \in Int /\ u16.r \in Int
    <3> HAVE n = 16
    <3>1. SignWide(16, d) \in Divisors /\ Negate(SignWide(16, d)) \in Divisors
      BY BothWidths, SignedDivides
    <3>2. Wide(dx, ax) \in Wides BY <1>2, WideIs
    <3> QED BY <3>1, <3>2, BothWidths, IdivIs
  <2>3. n = 8 \/ n = 16 BY DEF Widths
  <2> HIDE DEF u8, u16
  <2>4. 16 # 8 OBVIOUS
  <2> QED BY <2>1, <2>2, <2>3, <2>4, Zenon
<1> HIDE DEF u
<1>5. d # 0 => Keeps(m, a) /\ Keeps(m, b)
  <2> HAVE d # 0
  <2>1. Pair(u.r, u.q) \in Int BY <1>4, PairIsInt
  <2> QED BY <1>4, <2>1, BothWidths, RegisterNames, LedReg, AXDXLed, LedMachine
<1> HIDE DEF a, b
<1> QED BY <1>1, <1>3, <1>5, Zenon

LEMMA UnaryGroupKeeps ==
  ASSUME NEW m \in Machines, NEW x \in Decodings, NEW e
  PROVE  Keeps(m, UnaryGroup(m, x, e))
<1> DEFINE n == Width(x)
           v == DecodeRM(m, x, n)
           t == Decoded(m, x, 0)
           test == TestOp(Decoded(m, x, n \div 8), n, v, ImmRM(m, x, n))
<1>1. n \in Widths /\ x.reg \in 0..7 BY Decoding
<1>2. UnaryGroup(m, x, e) =
        CASE x.reg = 0 -> test [] x.reg = 1 -> t [] x.reg = 2 -> Not(m, x)
          [] x.reg = 3 -> Neg(m, x) [] x.reg = 4 -> Mul(t, n, v) [] x.reg = 5 -> Imul(t, n, v)
          [] x.reg = 6 -> Div(t, n, v) [] x.reg = 7 -> Idiv(t, n, v, e)
  BY Zenon DEF UnaryGroup
<1>3. Not(m, x) = WritebackRM(t, x, n, 2^n - 1 - v) BY Zenon DEF Not
<1>4. Neg(m, x) = SetFlags(WritebackRM(t, x, n, -v), SetFlagsSub(m.cpu.f, n, 0, v, -v))
  BY Zenon DEF Neg
<1> HIDE DEF n
<1>5. v \in Int /\ v \in 0..(2^n - 1) BY <1>1, RMIsInt, RMFits
<1> HIDE DEF v
<1>6. Led(m, t) BY SmallInts, DecodedLed
<1>7. Led(m, test)
  <2>1. Led(m, Decoded(m, x, n \div 8)) BY <1>1, WidthsAre, DecodedLed
  <2> QED BY <1>1, <1>5, <2>1, ImmIsInt, TestOpLed
<1> HIDE DEF t, test
<1>8. Led(m, Not(m, x))
  <2>1. 2^n - 1 - v \in Int
    <3>1. 2^n \in Int BY <1>1, WidthsAre, PowerIsInt
    <3>2. 2^n - 1 \in Int BY <3>1, SmallInts, IntSum
    <3> QED BY <1>5, <3>2, IntSum
  <2> QED BY <1>1, <1>3, <1>6, <2>1, LedRM, Zenon
<1>9. Led(m, Neg(m, x))
  <2>1. -v \in Int BY <1>5, ProductIsInt
  <2>2. SetFlagsSub(m.cpu.f, n, 0, v, -v) \in Flags8088
    BY <1>1, <1>5, <2>1, Parts, SmallInts, AddSubAreFlags
  <2> QED BY <1>1, <1>4, <1>6, <2>1, <2>2, LedRM, LedFlags, Zenon
<1>10. Led(m, Mul(t, n, v)) /\ Led(m, Imul(t, n, v)) BY <1>1, <1>5, <1>6, MulLed, ImulLed
<1>11. Keeps(m, Div(t, n, v)) /\ Keeps(m, Idiv(t, n, v, e))
  BY <1>1, <1>5, <1>6, DivKeeps, IdivKeeps
<1>12. x.reg \in {0, 1, 2, 3, 4, 5, 6, 7}
  <2> DEFINE reg == x.reg
  <2>1. reg \in 0..7 BY <1>1
  <2> HIDE DEF reg
  <2>2. reg \in {0, 1, 2, 3, 4, 5, 6, 7} BY <2>1
  <2> QED BY <2>2 DEF reg
<1> QED
  BY <1>2, <1>6, <1>7, <1>8, <1>9, <1>10, <1>11, <1>12, LedMachine, Zenon

-----------------------------------------------------------------------------
(* Moves. *)

LEMMA LedWrite ==
  ASSUME NEW m, NEW t, Led(m, t), NEW a \in Addresses, NEW v \in Bytes
  PROVE  Led(m, Write(t, a, v))
  BY LedMachine, WriteStays, StaysLed, Zenon

Moves == {\h88, \h89, \h8a, \h8b, \hc6, \hc7}
LEMMA MoveKeeps ==
  ASSUME NEW m \in Machines, NEW x \in Decodings, x.op \in Moves
  PROVE  Keeps(m, Move(m, x))
<1> DEFINE n == Width(x)
           t == Decoded(m, x, 0)
           s == Decoded(m, x, n \div 8)
           a == WritebackRM(t, x, n, DecodeReg(m, n, x.reg))
           b == WritebackReg(t, n, x.reg, DecodeRM(m, x, n))
           c == WritebackRM(s, x, n, ImmRM(m, x, n))
<1>1. Move(m, x) = CASE x.op \in {\h88, \h89} -> a [] x.op \in {\h8a, \h8b} -> b
                     [] x.op \in {\hc6, \hc7} -> c
  BY SMT DEF Move
<1>2. n \in Widths /\ x.reg \in 0..7 /\ n \div 8 \in Nat BY Decoding, WidthsAre
<1> HIDE DEF n
<1>3. Led(m, t) /\ Led(m, s) BY <1>2, SmallInts, DecodedLed
<1> HIDE DEF t, s
<1>4. Keeps(m, a) BY <1>2, <1>3, RegIsInt, LedRM, LedMachine
<1>5. Keeps(m, b)
  <2>1. DecodeRM(m, x, n) \in Int BY <1>2, RMIsInt
  <2>2. Led(m, b) BY <1>2, <1>3, <2>1, LedReg, Zenon
  <2> HIDE DEF b
  <2> QED BY <2>2, LedMachine
<1>6. Keeps(m, c) BY <1>2, <1>3, ImmIsInt, LedRM, LedMachine
<1> HIDE DEF a, b, c
<1> QED BY <1>1, <1>4, <1>5, <1>6, SMT DEF Moves

LEMMA RegisterOf ==
  ASSUME NEW x \in Decodings PROVE x.op % 8 \in 0..7
<1>1. x.op \in Int BY Decoding, ByteIsInt
<1> QED BY <1>1
LEMMA MoveImmediateKeeps ==
  ASSUME NEW m \in Machines, NEW x \in Decodings PROVE Keeps(m, MoveImmediate(m, x))
<1> DEFINE n == IF x.op < \hb8 THEN 8 ELSE 16
           t == Past(m, x, n \div 8)
           r == x.op % 8
<1>1. n \in Widths BY DEF Widths
<1>2. MoveImmediate(m, x) = WritebackReg(t, n, r, Imm(m, x, n)) BY SMT DEF MoveImmediate
<1> HIDE DEF n
<1>3. Led(m, t) BY <1>1, WidthsAre, PastLed
<1> HIDE DEF t
<1> QED BY <1>1, <1>2, <1>3, RegisterOf, ImmIsInt, LedReg, LedMachine

LEMMA MoveAccumulatorKeeps ==
  ASSUME NEW m \in Machines, NEW x \in Decodings PROVE Keeps(m, MoveAccumulator(m, x))
<1> DEFINE n == Width(x)
           t == Past(m, x, 2)
           a == Phys(Seg(m.cpu, x.seg, DS), Imm(m, x, 16))
           v == IF n = 8 THEN Read(m, a) ELSE ReadWord(m, a)
           al == m.cpu.b[AX]
           ah == m.cpu.b[AH]
           load == WritebackReg(t, n, AX, v)
           byte == Write(t, a, al)
           word == Write(Write(t, a, al), (a + 1) % AddressSpace, ah)
<1>1. MoveAccumulator(m, x) = CASE x.op < \ha2 -> load [] x.op = \ha2 -> byte [] OTHER -> word
  BY SMT DEF MoveAccumulator
<1>2. n \in Widths /\ x.seg \in 0..4 BY Decoding
<1>3. a \in Addresses
  <2>1. Seg(m.cpu, x.seg, DS) \in Words16 BY <1>2, Parts, RegisterNames, SegIsWord
  <2> QED BY <2>1, ImmIsInt, PhysIsAddress
<1> HIDE DEF n, a
<1>4. v \in Int BY <1>3, Parts, ReadIsByte, ReadWordIsWord, ByteIsInt, WordIsInt, Zenon
<1>5. Led(m, t) BY SmallInts, PastLed
<1>6. al \in Bytes /\ ah \in Bytes BY AlIsByte
<1>7. (a + 1) % AddressSpace \in Addresses BY <1>3, SmallInts, AddressNext
<1> HIDE DEF v, t, al, ah
<1>8. Led(m, load) BY <1>2, <1>4, <1>5, RegisterNames, LedReg
<1>9. Led(m, byte) BY <1>3, <1>5, <1>6, LedWrite
<1>10. Led(m, word)
  <2> DEFINE s == Write(t, a, al)
  <2>1. Led(m, s) BY <1>9
  <2> HIDE DEF s
  <2>2. Led(m, Write(s, (a + 1) % AddressSpace, ah)) BY <1>6, <1>7, <2>1, LedWrite
  <2> QED BY <2>2, Zenon DEF s
<1> HIDE DEF load, byte, word
<1>11. Keeps(m, load) /\ Keeps(m, byte) /\ Keeps(m, word) BY <1>8, <1>9, <1>10, LedMachine
<1> QED BY <1>1, <1>11, SMT

LEMMA SegmentIsInt ==
  ASSUME NEW m \in Machines, NEW r \in 0..3 PROVE m.cpu.s[r] \in Words16 /\ m.cpu.s[r] \in Int
<1>1. m.cpu.s[r] \in Words16 BY Parts, Zenon
<1> QED BY <1>1, WordIsInt
LEMMA MoveFromSegmentKeeps ==
  ASSUME NEW m \in Machines, NEW x \in Decodings PROVE Keeps(m, MoveFromSegment(m, x))
<1> DEFINE r == x.reg % 4
           t == Decoded(m, x, 0)
<1>1. r \in 0..3
  <2> DEFINE reg == x.reg
  <2>1. reg \in 0..7 BY Decoding
  <2> HIDE DEF reg
  <2>2. reg % 4 \in 0..3 BY <2>1
  <2> QED BY <2>2 DEF reg
<1>2. MoveFromSegment(m, x) = WritebackRM(t, x, 16, m.cpu.s[r]) BY Zenon DEF MoveFromSegment
<1> HIDE DEF r
<1>3. Led(m, t) BY SmallInts, DecodedLed
<1> HIDE DEF t
<1>4. m.cpu.s[r] \in Int BY <1>1, SegmentIsInt
<1>5. Led(m, WritebackRM(t, x, 16, m.cpu.s[r])) BY <1>3, <1>4, BothWidths, LedRM
<1> QED BY <1>2, <1>5, LedMachine

\* A segment other than the code's.
LEMMA LedSegment ==
  ASSUME NEW m, NEW t, Led(m, t), NEW r \in 0..3, r # CS, NEW v \in Words16, NEW h \in BOOLEAN
  PROVE  /\ Led(m, [t EXCEPT !.cpu.s[r] = v])
         /\ Led(m, [t EXCEPT !.cpu.s[r] = v, !.cpu.held = h])
<1>1. t \in Machines BY LedMachine
<1>2. /\ [t EXCEPT !.cpu.s[r] = v] \in Machines
      /\ [t EXCEPT !.cpu.s[r] = v, !.cpu.held = h] \in Machines
  BY <1>1, Zenon DEF Machines, Cpu8088
<1>3. /\ [t EXCEPT !.cpu.s[r] = v].cpu.ip = t.cpu.ip
      /\ [t EXCEPT !.cpu.s[r] = v].cpu.q = t.cpu.q
      /\ [t EXCEPT !.cpu.s[r] = v].cpu.s[CS] = t.cpu.s[CS]
  BY <1>1, RegisterNames, Zenon DEF Machines, Cpu8088
<1>4. /\ [t EXCEPT !.cpu.s[r] = v, !.cpu.held = h].cpu.ip = t.cpu.ip
      /\ [t EXCEPT !.cpu.s[r] = v, !.cpu.held = h].cpu.q = t.cpu.q
      /\ [t EXCEPT !.cpu.s[r] = v, !.cpu.held = h].cpu.s[CS] = t.cpu.s[CS]
  BY <1>1, RegisterNames, Zenon DEF Machines, Cpu8088
<1>5. Stays(t, [t EXCEPT !.cpu.s[r] = v]) BY <1>2, <1>3, Zenon DEF Stays
<1>6. Stays(t, [t EXCEPT !.cpu.s[r] = v, !.cpu.held = h]) BY <1>2, <1>4, Zenon DEF Stays
<1> QED BY <1>5, <1>6, StaysLed, Zenon
LEMMA LoadSegmentKeeps ==
  ASSUME NEW m, NEW t, Led(m, t), NEW r \in 0..3, NEW v \in Words16
  PROVE  Keeps(m, LoadSegment(t, r, v))
<1>1. t \in Machines /\ t.cpu.ip \in Words16 BY LedMachine, Parts
<1>2. r = CS => Keeps(m, GotoFar(t, v, t.cpu.ip)) BY <1>1, GotoFarKeeps
<1>3. SS # CS /\ SS \in 0..3 BY SMT DEF SS, CS
<1>4. Keeps(m, [t EXCEPT !.cpu.s[SS] = v, !.cpu.held = TRUE])
  BY <1>3, LedSegment, LedMachine
<1>5. r # CS => Keeps(m, [t EXCEPT !.cpu.s[r] = v]) BY LedSegment, LedMachine
<1> QED BY <1>2, <1>4, <1>5, Zenon DEF LoadSegment
LEMMA MoveToSegmentKeeps ==
  ASSUME NEW m \in Machines, NEW x \in Decodings PROVE Keeps(m, MoveToSegment(m, x))
<1> DEFINE r == x.reg % 4
           t == Decoded(m, x, 0)
<1>1. r \in 0..3
  <2> DEFINE reg == x.reg
  <2>1. reg \in 0..7 BY Decoding
  <2> HIDE DEF reg
  <2>2. reg % 4 \in 0..3 BY <2>1
  <2> QED BY <2>2 DEF reg
<1>2. MoveToSegment(m, x) = LoadSegment(t, r, DecodeRM(m, x, 16)) BY Zenon DEF MoveToSegment
<1> HIDE DEF r
<1>3. Led(m, t) BY SmallInts, DecodedLed
<1> HIDE DEF t
<1>4. DecodeRM(m, x, 16) \in Words16 BY BothWidths, RMIsWord
<1> QED BY <1>1, <1>2, <1>3, <1>4, LoadSegmentKeeps

LEMMA LeaKeeps ==
  ASSUME NEW m \in Machines, NEW x \in Decodings PROVE Keeps(m, Lea(m, x))
<1>1. Led(m, Decoded(m, x, 0)) BY SmallInts, DecodedLed
<1>2. x.reg \in 0..7 /\ x.ea \in Int BY Decoding, WordIsInt
<1>3. Led(m, WritebackReg(Decoded(m, x, 0), 16, x.reg, x.ea)) BY <1>1, <1>2, BothWidths, LedReg
<1> QED BY <1>3, LedMachine, Zenon DEF Lea

LEMMA LoadPointerKeeps ==
  ASSUME NEW m \in Machines, NEW x \in Decodings PROVE Keeps(m, LoadPointer(m, x))
<1> DEFINE t == Decoded(m, x, 0)
           segment == ReadWord(m, (x.addr + 2) % AddressSpace)
           offset == ReadWord(m, x.addr)
           r == IF x.op = \hc4 THEN ES ELSE DS
           s == WritebackReg(t, 16, x.reg, offset)
           u == [s EXCEPT !.cpu.s[r] = segment]
<1>1. LoadPointer(m, x) = IF x.direct THEN t ELSE u BY Zenon DEF LoadPointer
<1>2. Led(m, t) BY SmallInts, DecodedLed
<1>3. segment \in Words16 /\ offset \in Words16 /\ offset \in Int
  BY Parts, ReadWordIsWord, WordIsInt
<1>4. r \in 0..3 /\ r # CS
  <2>1. ES \in 0..3 /\ DS \in 0..3 /\ ES # CS /\ DS # CS BY SMT DEF ES, DS, CS
  <2> QED BY <2>1, Zenon
<1> HIDE DEF t, segment, offset, r
<1>5. Led(m, s) BY <1>2, <1>3, Decoding, BothWidths, LedReg
<1> HIDE DEF s
<1>6. Led(m, u)
  <2>1. TRUE \in BOOLEAN OBVIOUS
  <2> QED BY <1>3, <1>4, <1>5, <2>1, LedSegment
<1> HIDE DEF u
<1> QED BY <1>1, <1>2, <1>6, LedMachine, Zenon

LEMMA ExchangeKeeps ==
  ASSUME NEW m \in Machines, NEW x \in Decodings PROVE Keeps(m, Exchange(m, x))
<1> DEFINE n == Width(x)
           t == WritebackRM(Decoded(m, x, 0), x, n, DecodeReg(m, n, x.reg))
<1>1. Exchange(m, x) = WritebackReg(t, n, x.reg, DecodeRM(m, x, n)) BY Zenon DEF Exchange
<1>2. n \in Widths /\ x.reg \in 0..7 BY Decoding
<1> HIDE DEF n
<1>3. Led(m, t) BY <1>2, SmallInts, DecodedLed, RegIsInt, LedRM
<1> HIDE DEF t
<1>4. Led(m, WritebackReg(t, n, x.reg, DecodeRM(m, x, n))) BY <1>2, <1>3, RMIsInt, LedReg
<1> QED BY <1>1, <1>4, LedMachine
LEMMA ExchangeAXKeeps ==
  ASSUME NEW m \in Machines, NEW x \in Decodings PROVE Keeps(m, ExchangeAX(m, x))
<1> DEFINE r == x.op % 8
           t == WritebackReg(Past(m, x, 0), 16, AX, DecodeReg(m, 16, r))
<1>1. ExchangeAX(m, x) = WritebackReg(t, 16, r, DecodeReg(m, 16, AX)) BY Zenon DEF ExchangeAX
<1>2. r \in 0..7 BY RegisterOf
<1> HIDE DEF r
<1>3. Led(m, t) BY <1>2, SmallInts, BothWidths, RegisterNames, PastLed, RegIsInt, LedReg
<1> HIDE DEF t
<1>4. Led(m, WritebackReg(t, 16, r, DecodeReg(m, 16, AX)))
  BY <1>2, <1>3, BothWidths, RegisterNames, RegIsInt, LedReg
<1> QED BY <1>1, <1>4, LedMachine

LEMMA ConvertKeeps ==
  ASSUME NEW m \in Machines, NEW x \in Decodings PROVE Keeps(m, Convert(m, x))
<1> DEFINE t == Past(m, x, 0)
           a == 255 * Bit(m.cpu.b[AX], 7)
           b == 65535 * Bit(m.cpu.b[AH], 7)
<1>1. Convert(m, x) = IF x.op = \h98 THEN WritebackReg(t, 8, AH, a) ELSE WritebackReg(t, 16, DX, b)
  BY SMT DEF Convert
<1>2. Led(m, t) BY SmallInts, PastLed
<1> HIDE DEF t
<1>3. a \in Int /\ b \in Int
  <2>1. Bit(m.cpu.b[AX], 7) \in Int /\ Bit(m.cpu.b[AH], 7) \in Int
    BY AlIsByte, SmallNumbers, BitIsBit, BitIsInt
  <2>2. \A v \in Int : 255 * v \in Int /\ 65535 * v \in Int OBVIOUS
  <2> QED BY <2>1, <2>2
<1> HIDE DEF a, b
<1>4. Led(m, WritebackReg(t, 8, AH, a)) BY <1>2, <1>3, BothWidths, RegisterNames, LedReg
<1>5. Led(m, WritebackReg(t, 16, DX, b)) BY <1>2, <1>3, BothWidths, RegisterNames, LedReg
<1> QED BY <1>1, <1>4, <1>5, LedMachine, Zenon

LEMMA XlatKeeps ==
  ASSUME NEW m \in Machines, NEW x \in Decodings PROVE Keeps(m, Xlat(m, x))
<1> DEFINE v == Read(m, Phys(Seg(m.cpu, x.seg, DS),
                             (Extend(m.cpu.b[AX]) + DecodeReg(m, 16, BX)) % WordSize))
           t == Past(m, x, 0)
<1>1. Xlat(m, x) = WritebackReg(t, 8, AX, v) BY Zenon DEF Xlat
<1>2. v \in Int BY Parts, ReadIsByte, ByteIsInt
<1>3. Led(m, t) BY SmallInts, PastLed
<1> HIDE DEF v, t
<1>4. Led(m, WritebackReg(t, 8, AX, v)) BY <1>2, <1>3, BothWidths, RegisterNames, LedReg
<1> QED BY <1>1, <1>4, LedMachine

LEMMA SalcKeeps ==
  ASSUME NEW m \in Machines, NEW x \in Decodings PROVE Keeps(m, Salc(m, x))
<1> DEFINE v == 255 * m.cpu.f.c
           t == Past(m, x, 0)
<1>1. Salc(m, x) = WritebackReg(t, 8, AX, v) BY Zenon DEF Salc
<1>2. v \in Int
  <2>1. m.cpu.f.c \in Int BY Parts, FlagsAre, BitIsInt
  <2>2. \A c \in Int : 255 * c \in Int OBVIOUS
  <2> QED BY <2>1, <2>2
<1>3. Led(m, t) BY SmallInts, PastLed
<1> HIDE DEF v, t
<1>4. Led(m, WritebackReg(t, 8, AX, v)) BY <1>2, <1>3, BothWidths, RegisterNames, LedReg
<1> QED BY <1>1, <1>4, LedMachine

LEMMA OneFlagLed ==
  ASSUME NEW m, NEW t, Led(m, t), NEW b \in Bits
  PROVE  /\ Led(m, [t EXCEPT !.cpu.f.c = b]) /\ Led(m, [t EXCEPT !.cpu.f.i = b])
         /\ Led(m, [t EXCEPT !.cpu.f.d = b])
<1>1. t \in Machines /\ t.cpu.f \in Flags8088 BY LedMachine, Parts
<1>2. /\ [t.cpu.f EXCEPT !.c = b] \in Flags8088
      /\ [t.cpu.f EXCEPT !.i = b] \in Flags8088
      /\ [t.cpu.f EXCEPT !.d = b] \in Flags8088
  BY <1>1, Zenon DEF Flags8088
<1>3. /\ [t EXCEPT !.cpu.f.c = b] = SetFlags(t, [t.cpu.f EXCEPT !.c = b])
      /\ [t EXCEPT !.cpu.f.i = b] = SetFlags(t, [t.cpu.f EXCEPT !.i = b])
      /\ [t EXCEPT !.cpu.f.d = b] = SetFlags(t, [t.cpu.f EXCEPT !.d = b])
  BY <1>1, Zenon DEF SetFlags, Machines, Cpu8088, Flags8088
<1>4. /\ Led(m, SetFlags(t, [t.cpu.f EXCEPT !.c = b]))
      /\ Led(m, SetFlags(t, [t.cpu.f EXCEPT !.i = b]))
      /\ Led(m, SetFlags(t, [t.cpu.f EXCEPT !.d = b]))
  BY <1>2, LedFlags
<1> QED BY <1>3, <1>4, Zenon
FlagChanges == {\hf5, \hf8, \hf9, \hfa, \hfb, \hfc, \hfd}
LEMMA ChangeFlagKeeps ==
  ASSUME NEW m \in Machines, NEW x \in Decodings, x.op \in FlagChanges
  PROVE  Keeps(m, ChangeFlag(m, x))
<1> DEFINE t == Past(m, x, 0)
           b == x.op % 2
           n == 1 - t.cpu.f.c
           a1 == [t EXCEPT !.cpu.f.c = n]
           a2 == [t EXCEPT !.cpu.f.c = b]
           a3 == [t EXCEPT !.cpu.f.i = b]
           a4 == [t EXCEPT !.cpu.f.d = b]
<1>1. Led(m, t) BY SmallInts, PastLed
<1>2. b \in Bits
  <2>1. x.op \in Int BY Decoding, ByteIsInt
  <2> QED BY <2>1 DEF Bits
<1>3. t.cpu.f.c \in Bits /\ t \in Machines BY <1>1, LedMachine, Parts, FlagsAre
<1>4. n \in Bits
  <2> DEFINE f == t.cpu.f.c
  <2>1. f \in Bits BY <1>3
  <2> HIDE DEF f
  <2>2. 1 - f \in Bits BY <2>1, TwoBits
  <2> QED BY <2>2 DEF f
<1>5. ChangeFlag(m, x) =
        CASE x.op = \hf5 -> a1 [] x.op \in {\hf8, \hf9} -> a2
          [] x.op \in {\hfa, \hfb} -> a3 [] x.op \in {\hfc, \hfd} -> a4
  BY Zenon DEF ChangeFlag
<1> HIDE DEF t, b, n
<1>6. Led(m, a1) /\ Led(m, a2) /\ Led(m, a3) /\ Led(m, a4)
  <2>1. Led(m, a1) BY <1>1, <1>4, OneFlagLed, Zenon
  <2>2. Led(m, a2) /\ Led(m, a3) /\ Led(m, a4) BY <1>1, <1>2, OneFlagLed, Zenon
  <2> QED BY <2>1, <2>2
<1> HIDE DEF a1, a2, a3, a4
<1>7. Keeps(m, a1) /\ Keeps(m, a2) /\ Keeps(m, a3) /\ Keeps(m, a4) BY <1>6, LedMachine
<1> QED BY <1>5, <1>7, SMT DEF FlagChanges

-----------------------------------------------------------------------------
(* A function on the numbers defined from one number to the next. *)

Iterates(S, t, F) ==
  {f \in [Nat -> S] : f[0] = t /\ \A n \in Nat : f[n + 1] = F[n + 1][f[n]]}

LEMMA Recursion ==
  ASSUME NEW S, NEW t \in S, NEW F \in [Nat -> [S -> S]]
  PROVE  Iterates(S, t, F) # {}
<1> DEFINE Good(N) == {g \in [0..N -> S] : g[0] = t /\ \A k \in 1..N : g[k] = F[k][g[k - 1]]}
           Begun == {N \in Nat : Good(N) # {}}
<1>1. Nat \subseteq Begun
  <2>1. 0 \in Begun
    <3>1. [k \in 0..0 |-> t] \in Good(0) OBVIOUS
    <3> QED BY <3>1
  <2>2. ASSUME NEW N \in Nat, N \in Begun PROVE N + 1 \in Begun
    <3>1. PICK g : g \in Good(N) BY <2>2
    <3> DEFINE h == [k \in 0..(N + 1) |-> IF k = N + 1 THEN F[N + 1][g[N]] ELSE g[k]]
    <3>2. g \in [0..N -> S] /\ g[0] = t /\ \A k \in 1..N : g[k] = F[k][g[k - 1]] BY <3>1
    <3>3. N \in 0..N /\ N + 1 \in Nat /\ g[N] \in S BY <3>2
    <3>4. F[N + 1] \in [S -> S] BY <3>3
    <3>5. F[N + 1][g[N]] \in S BY <3>3, <3>4
    <3>6. h \in [0..(N + 1) -> S]
      <4>1. \A k \in 0..(N + 1) : k # N + 1 => k \in 0..N OBVIOUS
      <4> QED BY <3>2, <3>5, <4>1
    <3>7. h[0] = t
      <4>1. 0 \in 0..(N + 1) /\ 0 # N + 1 OBVIOUS
      <4> QED BY <3>2, <4>1
    <3>8. ASSUME NEW k \in 1..(N + 1) PROVE h[k] = F[k][h[k - 1]]
      <4>1. k \in 0..(N + 1) /\ k - 1 \in 0..(N + 1) /\ k - 1 # N + 1 OBVIOUS
      <4>2. h[k - 1] = g[k - 1] BY <4>1
      <4>3. CASE k = N + 1
        <5>1. k - 1 = N /\ h[k] = F[N + 1][g[N]] BY <4>1, <4>3
        <5> QED BY <4>2, <4>3, <5>1
      <4>4. CASE k # N + 1
        <5>1. k \in 1..N /\ h[k] = g[k] BY <4>1, <4>4
        <5> QED BY <3>2, <4>2, <5>1
      <4> QED BY <4>3, <4>4
    <3>9. h \in Good(N + 1) BY <3>6, <3>7, <3>8
    <3> QED BY <3>3, <3>9
  <2> HIDE DEF Begun
  <2> QED BY <2>1, <2>2, Inductive
<1> DEFINE Agreed ==
             {k \in Nat : \A N, M \in Nat : \A g \in Good(N), h \in Good(M) :
                            k <= N /\ k <= M => g[k] = h[k]}
<1>2. Nat \subseteq Agreed
  <2>1. 0 \in Agreed OBVIOUS
  <2>2. ASSUME NEW k \in Nat, k \in Agreed PROVE k + 1 \in Agreed
    <3>1. ASSUME NEW N \in Nat, NEW M \in Nat, NEW g \in Good(N), NEW h \in Good(M),
                 k + 1 <= N /\ k + 1 <= M
          PROVE  g[k + 1] = h[k + 1]
      <4>1. k <= N /\ k <= M /\ k + 1 \in 1..N /\ k + 1 \in 1..M /\ (k + 1) - 1 = k BY <3>1
      <4>2. g[k] = h[k] BY <2>2, <4>1
      <4>3. g[k + 1] = F[k + 1][g[k]] /\ h[k + 1] = F[k + 1][h[k]] BY <4>1
      <4> QED BY <4>2, <4>3
    <3>2. k + 1 \in Nat OBVIOUS
    <3> HIDE DEF Good
    <3> QED BY <3>1, <3>2, Zenon
  <2> HIDE DEF Agreed
  <2> QED BY <2>1, <2>2, Inductive
<1> DEFINE c(n) == CHOOSE g : g \in Good(n)
           f == [n \in Nat |-> c(n)[n]]
<1>3. ASSUME NEW n \in Nat PROVE c(n) \in Good(n)
  <2>1. \E g : g \in Good(n) BY <1>1
  <2> HIDE DEF Good
  <2> QED BY <2>1, Zenon
<1> HIDE DEF c
<1>4. f \in [Nat -> S]
  <2> SUFFICES ASSUME NEW n \in Nat PROVE c(n)[n] \in S OBVIOUS
  <2>1. c(n) \in [0..n -> S] /\ n \in 0..n BY <1>3
  <2> QED BY <2>1
<1>5. ASSUME NEW n \in Nat PROVE f[n] = IF n = 0 THEN t ELSE F[n][f[n - 1]]
  <2>1. f[n] = c(n)[n] OBVIOUS
  <2>2. CASE n = 0 BY <1>3, <2>1, <2>2
  <2>3. CASE n # 0
    <3>1. n - 1 \in Nat /\ n - 1 <= n /\ n - 1 <= n - 1 /\ n \in 1..n BY <2>3
    <3>2. c(n)[n] = F[n][c(n)[n - 1]] BY <1>3, <3>1
    <3>3. c(n) \in Good(n) /\ c(n - 1) \in Good(n - 1) BY <1>3, <3>1
    <3>4. n - 1 \in Agreed BY <1>2, <3>1
    <3>5. c(n)[n - 1] = c(n - 1)[n - 1]
      <4> HIDE DEF Good
      <4> QED BY <3>1, <3>3, <3>4
    <3>6. f[n - 1] = c(n - 1)[n - 1] BY <3>1
    <3> QED BY <2>1, <2>3, <3>2, <3>5, <3>6
  <2> QED BY <2>2, <2>3
<1> HIDE DEF f
<1>6. f[0] = t BY <1>5
<1>7. ASSUME NEW n \in Nat PROVE f[n + 1] = F[n + 1][f[n]]
  <2>1. n + 1 \in Nat /\ n + 1 # 0 /\ (n + 1) - 1 = n OBVIOUS
  <2> QED BY <1>5, <2>1
<1>8. f \in Iterates(S, t, F) BY <1>4, <1>6, <1>7 DEF Iterates
<1> QED BY <1>8

-----------------------------------------------------------------------------
(* String moves. *)

LEMMA StepIsInt == ASSUME NEW m, NEW n \in Widths PROVE Step(m, n) \in Int
  BY WidthsAre DEF Step
LEMMA AlongStays ==
  ASSUME NEW m \in Machines, NEW r \in 4..7, NEW n \in Widths PROVE Stays(m, Along(m, r, n))
<1> DEFINE v == (m.cpu.w[r] + Step(m, n)) % WordSize
<1>1. m.cpu.w[r] \in Int BY Parts, WordIsInt, Zenon
<1>2. v \in Words16 BY <1>1, StepIsInt, IntSum, WordCut
<1>3. Along(m, r, n) = [m EXCEPT !.cpu.w[r] = v] BY Zenon DEF Along
<1> HIDE DEF v
<1> QED BY <1>2, <1>3, SetW
LEMMA ReadAtIsInt ==
  ASSUME NEW m \in Machines, NEW s, NEW o, NEW n PROVE ReadAt(m, s, o, n) \in Int
  BY Parts, ReadIsByte, PairIsWord, ByteIsInt, WordIsInt, Zenon DEF ReadAt
LEMMA WriteAtStays ==
  ASSUME NEW m \in Machines, NEW s \in Words16, NEW o \in Words16, NEW n, NEW v \in Int
  PROVE  Stays(m, WriteAt(m, s, o, n, v))
<1> DEFINE a == Phys(s, o)
           b == Phys(s, (o + 1) % WordSize)
           low == Write(m, a, Low(v))
           both == Write(low, b, High(v))
<1>1. o \in Int /\ 1 \in Int BY SmallInts, WordIsInt
<1>2. (o + 1) % WordSize \in Int BY <1>1, IntSum, WordDivIsInt
<1>3. a \in Addresses /\ b \in Addresses BY <1>1, <1>2, PhysIsAddress
<1>4. WriteAt(m, s, o, n, v) = IF n = 8 THEN low ELSE both BY Zenon DEF WriteAt
<1> HIDE DEF a, b
<1>5. Low(v) \in Bytes /\ High(v) \in Bytes BY HalfIsByte
<1>6. Stays(m, low) BY <1>3, <1>5, WriteStays
<1>7. Stays(m, both) BY <1>3, <1>5, WriteWordStays
<1> HIDE DEF low, both
<1> QED BY <1>4, <1>6, <1>7, Zenon
LEMMA StaysMachine == ASSUME NEW m, NEW t, Stays(m, t) PROVE t \in Machines
  BY DEF Stays
LEMMA AlongBoth ==
  ASSUME NEW m, NEW t, Stays(m, t), NEW n \in Widths
  PROVE  /\ Stays(m, Along(t, DI, n)) /\ Stays(m, Along(t, SI, n))
         /\ Stays(m, Along(Along(t, SI, n), DI, n))
<1>1. SI \in 4..7 /\ DI \in 4..7 /\ t \in Machines BY RegisterNames, StaysMachine
<1>2. Stays(t, Along(t, DI, n)) /\ Stays(t, Along(t, SI, n)) BY <1>1, AlongStays
<1> DEFINE u == Along(t, SI, n)
<1>3. Stays(t, u) BY <1>2
<1> HIDE DEF u
<1>4. Stays(u, Along(u, DI, n)) BY <1>1, <1>3, StaysMachine, AlongStays
<1>5. Stays(m, Along(t, DI, n)) /\ Stays(m, Along(t, SI, n)) BY <1>2, StaysStays
<1>6. Stays(m, Along(u, DI, n)) BY <1>3, <1>4, StaysStays
<1> QED BY <1>5, <1>6, Zenon DEF u

LEMMA ElementsAre ==
  ASSUME NEW m \in Machines, NEW x \in Decodings, NEW n \in Widths
  PROVE  /\ Source(m, x, n) \in Int /\ Target(m, n) \in Int
         /\ m.cpu.s[ES] \in Words16 /\ m.cpu.w[DI] \in Words16
<1>1. m.cpu.s[ES] \in Words16 /\ m.cpu.w[DI] \in Words16 BY Parts, RegisterNames, Zenon
<1> QED BY <1>1, ReadAtIsInt, Zenon DEF Source, Target
LEMMA ComparedFlags ==
  ASSUME NEW m \in Machines, NEW n \in Widths, NEW a \in Int, NEW b \in Int
  PROVE  SubOp(m.cpu.f, n, a, b).f \in Flags8088
<1>1. a - b \in Int BY IntSum
<1>2. SetFlagsSub(m.cpu.f, n, a, b, a - b) \in Flags8088 BY <1>1, Parts, AddSubAreFlags
<1> QED BY <1>2, Zenon DEF SubOp
LEMMA StaysFlags ==
  ASSUME NEW m, NEW t, Stays(m, t), NEW f \in Flags8088 PROVE Stays(m, SetFlags(t, f))
<1>1. Stays(t, SetFlags(t, f)) BY StaysMachine, SetF
<1> QED BY <1>1, StaysStays

StringOps == (\ha4..\ha7) \union (\haa..\haf)
LEMMA OnceStays ==
  ASSUME NEW m \in Machines, NEW x \in Decodings, x.op \in StringOps PROVE Stays(m, Once(m, x))
<1> DEFINE n == Width(x)
<1>1. n \in Widths BY Decoding
<1>2. Once(m, x) = CASE x.op \in {\ha4, \ha5} -> Movs(m, x, n)
                     [] x.op \in {\ha6, \ha7} -> Cmps(m, x, n)
                     [] x.op \in {\haa, \hab} -> Stos(m, x, n)
                     [] x.op \in {\hac, \had} -> Lods(m, x, n)
                     [] x.op \in {\hae, \haf} -> Scas(m, x, n)
  BY SMT DEF Once
<1> HIDE DEF n
<1>3. Stays(m, Movs(m, x, n))
  <2>1. Stays(m, WriteAt(m, m.cpu.s[ES], m.cpu.w[DI], n, Source(m, x, n)))
    BY <1>1, ElementsAre, WriteAtStays
  <2> QED BY <1>1, <2>1, AlongBoth, Zenon DEF Movs
<1>4. Stays(m, Cmps(m, x, n))
  <2>1. SubOp(m.cpu.f, n, Source(m, x, n), Target(m, n)).f \in Flags8088
    BY <1>1, ElementsAre, ComparedFlags
  <2>2. Stays(m, Along(Along(m, SI, n), DI, n)) BY <1>1, StaysSelf, AlongBoth
  <2> QED BY <2>1, <2>2, StaysFlags, Zenon DEF Cmps
<1>5. Stays(m, Stos(m, x, n))
  <2>1. DecodeReg(m, n, AX) \in Int BY <1>1, RegisterNames, RegIsInt
  <2>2. Stays(m, WriteAt(m, m.cpu.s[ES], m.cpu.w[DI], n, DecodeReg(m, n, AX)))
    BY <1>1, <2>1, ElementsAre, WriteAtStays
  <2> QED BY <1>1, <2>2, AlongBoth, Zenon DEF Stos
<1>6. Stays(m, Lods(m, x, n))
  <2>1. Stays(m, WritebackReg(m, n, AX, Source(m, x, n)))
    BY <1>1, ElementsAre, RegisterNames, WritebackRegStays
  <2> QED BY <1>1, <2>1, AlongBoth, Zenon DEF Lods
<1>7. Stays(m, Scas(m, x, n))
  <2>1. DecodeReg(m, n, AX) \in Int BY <1>1, RegisterNames, RegIsInt
  <2>2. SubOp(m.cpu.f, n, DecodeReg(m, n, AX), Target(m, n)).f \in Flags8088
    BY <1>1, <2>1, ElementsAre, ComparedFlags
  <2>3. Stays(m, Along(m, DI, n)) BY <1>1, StaysSelf, AlongBoth
  <2> QED BY <2>2, <2>3, StaysFlags, Zenon DEF Scas
<1>8. \/ x.op \in {\ha4, \ha5} \/ x.op \in {\ha6, \ha7} \/ x.op \in {\haa, \hab}
      \/ x.op \in {\hac, \had} \/ x.op \in {\hae, \haf}
  <2> DEFINE op == x.op
  <2>1. op \in StringOps OBVIOUS
  <2> HIDE DEF op
  <2>2. \/ op \in {\ha4, \ha5} \/ op \in {\ha6, \ha7} \/ op \in {\haa, \hab}
        \/ op \in {\hac, \had} \/ op \in {\hae, \haf}
    BY <2>1, SMT DEF StringOps
  <2> QED BY <2>2, SMT DEF op
<1> QED BY <1>2, <1>3, <1>4, <1>5, <1>6, <1>7, <1>8, SMT

\* A round of a repetition, and that the rounds follow one another.
RoundOf(u, x, k) ==
  IF k > 1 /\ Ends(u, x) THEN u
  ELSE WritebackReg(Once(u, x), 16, CX, DecodeReg(u, 16, CX) - 1)
LEMMA RoundOfStays ==
  ASSUME NEW t, NEW u \in Machines, Stays(t, u), NEW x \in Decodings, x.op \in StringOps, NEW k
  PROVE  Stays(t, RoundOf(u, x, k)) /\ RoundOf(u, x, k) \in Machines
<1>1. Stays(t, Once(u, x)) BY OnceStays, StaysStays
<1>2. DecodeReg(u, 16, CX) - 1 \in Int
  BY BothWidths, RegisterNames, RegIsInt, SmallInts, IntSum
<1> DEFINE w == WritebackReg(Once(u, x), 16, CX, DecodeReg(u, 16, CX) - 1)
<1>3. Stays(Once(u, x), w)
  BY <1>1, <1>2, StaysMachine, BothWidths, RegisterNames, WritebackRegStays
<1> HIDE DEF w
<1>4. Stays(t, w) /\ w \in Machines BY <1>1, <1>3, StaysStays, StaysMachine
<1> QED BY <1>4, Zenon DEF RoundOf, w
LEMMA RoundsAre ==
  ASSUME NEW t \in Machines, NEW x \in Decodings, x.op \in StringOps
  PROVE  /\ Rounds(t, x)[0] = t
         /\ \A k \in Nat : Rounds(t, x)[k + 1] = RoundOf(Rounds(t, x)[k], x, k + 1)
<1> DEFINE S == {u \in Machines : Stays(t, u)}
           F == [k \in Nat |-> [u \in S |-> RoundOf(u, x, k)]]
           R == Rounds(t, x)
<1>1. \A u \in S : \A k \in Nat : RoundOf(u, x, k) \in S BY RoundOfStays, Zenon
<1>2. t \in S BY StaysSelf
<1> HIDE DEF S
<1>3. F \in [Nat -> [S -> S]] BY <1>1, Zenon
<1>4. PICK f \in [Nat -> S] : f[0] = t /\ \A k \in Nat : f[k + 1] = F[k + 1][f[k]]
  <2> HIDE DEF F
  <2>1. Iterates(S, t, F) # {} BY <1>2, <1>3, Recursion, Zenon
  <2>2. PICK f : f \in Iterates(S, t, F) BY <2>1
  <2>3. f \in [Nat -> S] /\ f[0] = t /\ \A k \in Nat : f[k + 1] = F[k + 1][f[k]]
    BY <2>2, Zenon DEF Iterates
  <2> QED BY <2>3, Zenon
<1>5. f = [k \in Nat |-> IF k = 0 THEN t ELSE RoundOf(f[k - 1], x, k)]
  <2>1. ASSUME NEW k \in Nat PROVE f[k] = IF k = 0 THEN t ELSE RoundOf(f[k - 1], x, k)
    <3>1. CASE k = 0 BY <1>4, <3>1
    <3>2. CASE k # 0
      <4>1. k - 1 \in Nat /\ (k - 1) + 1 = k BY <3>2
      <4>2. f[k - 1] \in S BY <1>4, <4>1
      <4>3. F[k][f[k - 1]] = RoundOf(f[k - 1], x, k) BY <4>2, Zenon
      <4>4. f[k] = F[k][f[k - 1]]
        <5> HIDE DEF F
        <5> QED BY <1>4, <4>1
      <4> QED BY <3>2, <4>3, <4>4
    <3> QED BY <3>1, <3>2
  <2> HIDE DEF F
  <2>2. f = [k \in Nat |-> f[k]] BY <1>4
  <2> QED BY <2>1, <2>2, Zenon
<1>6. R = CHOOSE g : g = [k \in Nat |-> IF k = 0 THEN t ELSE RoundOf(g[k - 1], x, k)]
  BY Zenon DEF Rounds, RoundOf
<1> HIDE DEF R
<1>7. R = [k \in Nat |-> IF k = 0 THEN t ELSE RoundOf(R[k - 1], x, k)] BY <1>5, <1>6, Zenon
<1>8. R[0] = t BY <1>7
<1>9. ASSUME NEW k \in Nat PROVE R[k + 1] = RoundOf(R[k], x, k + 1)
  <2>1. k + 1 \in Nat /\ (k + 1) - 1 = k /\ k + 1 # 0 OBVIOUS
  <2> QED BY <1>7, <2>1
<1> QED BY <1>8, <1>9 DEF R

\* Any number of rounds of a repetition leaves the place and the queue alone.
LEMMA RoundsStay ==
  ASSUME NEW t \in Machines, NEW x \in Decodings, x.op \in StringOps, NEW n \in Nat
  PROVE  Stays(t, Rounds(t, x)[n])
<1> DEFINE R == Rounds(t, x)
           Kept == {k \in Nat : R[k] \in Machines /\ Stays(t, R[k])}
<1>1. R[0] = t /\ \A k \in Nat : R[k + 1] = RoundOf(R[k], x, k + 1) BY RoundsAre
<1> HIDE DEF R
<1>2. 0 \in Kept BY <1>1, StaysSelf
<1>3. ASSUME NEW k \in Nat, k \in Kept PROVE k + 1 \in Kept
  <2>1. k + 1 \in Nat OBVIOUS
  <2>2. R[k] \in Machines /\ Stays(t, R[k]) BY <1>3
  <2>3. Stays(t, RoundOf(R[k], x, k + 1)) /\ RoundOf(R[k], x, k + 1) \in Machines
    BY <2>2, RoundOfStays
  <2> QED BY <1>1, <2>1, <2>3
<1> HIDE DEF Kept
<1>4. Nat \subseteq Kept BY <1>2, <1>3, Inductive
<1> QED BY <1>4 DEF Kept, R

LEMMA StringOpKeeps ==
  ASSUME NEW m \in Machines, NEW x \in Decodings, x.op \in StringOps
  PROVE  Keeps(m, StringOp(m, x))
<1> DEFINE t == Past(m, x, 0)
           n == DecodeReg(t, 16, CX)
<1>1. Led(m, t) BY SmallInts, PastLed
<1>2. t \in Machines BY <1>1, LedMachine
<1>3. StringOp(m, x) = IF x.rep = 0 THEN Once(t, x) ELSE Rounds(t, x)[n] BY Zenon DEF StringOp
<1> HIDE DEF t
<1>4. n \in Nat
  <2>1. n \in Words16 BY <1>2, BothWidths, RegisterNames, RegIsWord
  <2>2. \A v \in Words16 : v \in Nat BY WordSizeIs DEF Words16
  <2> QED BY <2>1, <2>2, Zenon
<1> HIDE DEF n
<1>5. Stays(t, Once(t, x)) /\ Stays(t, Rounds(t, x)[n]) BY <1>2, <1>4, OnceStays, RoundsStay
<1>6. Led(m, Once(t, x)) /\ Led(m, Rounds(t, x)[n]) BY <1>1, <1>5, StaysLed
<1> QED BY <1>3, <1>6, LedMachine, Zenon

-----------------------------------------------------------------------------
(* The stack. *)

\* The segment an opcode of the first thirty-two names.
SegmentPushes == {\h06, \h0e, \h16, \h1e}
SegmentPops == {\h07, \h0f, \h17, \h1f}
LEMMA SegmentNamed ==
  ASSUME NEW op, op \in SegmentPushes \union SegmentPops PROVE op \div 8 \in 0..3
  BY SMT DEF SegmentPushes, SegmentPops

LEMMA PushSegmentKeeps ==
  ASSUME NEW m \in Machines, NEW x \in Decodings, x.op \in SegmentPushes
  PROVE  Keeps(m, PushSegment(m, x))
<1> DEFINE r == x.op \div 8
           t == Past(m, x, 0)
<1>1. r \in 0..3 BY SegmentNamed
<1>2. PushSegment(m, x) = Push(t, m.cpu.s[r]) BY Zenon DEF PushSegment
<1> HIDE DEF r, t
<1>3. Led(m, t) BY SmallInts, PastLed DEF t
<1>4. Led(m, Push(t, m.cpu.s[r])) BY <1>1, <1>3, SegmentIsInt, LedPush
<1> QED BY <1>2, <1>4, LedMachine
LEMMA PopSegmentKeeps ==
  ASSUME NEW m \in Machines, NEW x \in Decodings, x.op \in SegmentPops
  PROVE  Keeps(m, PopSegment(m, x))
<1> DEFINE r == x.op \div 8
           t == Past(m, x, 0)
           u == Drop(t, 2)
           v == Top(t)
<1>1. r \in 0..3 BY SegmentNamed
<1>2. PopSegment(m, x) = LoadSegment(u, r, v) BY Zenon DEF PopSegment
<1>3. Led(m, t) BY SmallInts, PastLed
<1> HIDE DEF t, r
<1>4. Led(m, u) BY <1>3, SmallInts, LedDrop
<1>5. v \in Words16 BY <1>3, LedMachine, TopIsWord
<1> HIDE DEF u, v
<1> QED BY <1>1, <1>2, <1>4, <1>5, LoadSegmentKeeps

LEMMA PushRegisterKeeps ==
  ASSUME NEW m \in Machines, NEW x \in Decodings PROVE Keeps(m, PushRegister(m, x))
<1> DEFINE r == x.op % 8
           t == Past(m, x, 0)
<1>1. r \in 0..7 BY RegisterOf
<1>2. PushRegister(m, x) = Push(t, DecodeReg(m, 16, r)) BY Zenon DEF PushRegister
<1>3. Led(m, t) BY SmallInts, PastLed
<1> HIDE DEF r, t
<1>4. DecodeReg(m, 16, r) \in Int BY <1>1, BothWidths, RegIsInt
<1>5. Led(m, Push(t, DecodeReg(m, 16, r))) BY <1>3, <1>4, LedPush
<1> QED BY <1>2, <1>5, LedMachine
LEMMA PopRegisterKeeps ==
  ASSUME NEW m \in Machines, NEW x \in Decodings PROVE Keeps(m, PopRegister(m, x))
<1> DEFINE r == x.op % 8
           t == Past(m, x, 0)
           u == Drop(t, 2)
           v == Top(t)
<1>1. r \in 0..7 BY RegisterOf
<1>2. PopRegister(m, x) = WritebackReg(u, 16, r, v) BY Zenon DEF PopRegister
<1>3. Led(m, t) BY SmallInts, PastLed
<1> HIDE DEF r, t
<1>4. Led(m, u) BY <1>3, SmallInts, LedDrop
<1>5. v \in Int BY <1>3, LedMachine, TopIsWord, WordIsInt
<1> HIDE DEF u, v
<1>6. Led(m, WritebackReg(u, 16, r, v)) BY <1>1, <1>4, <1>5, BothWidths, LedReg
<1> QED BY <1>2, <1>6, LedMachine
LEMMA PopOperandKeeps ==
  ASSUME NEW m \in Machines, NEW x \in Decodings PROVE Keeps(m, PopOperand(m, x))
<1> DEFINE t == Decoded(m, x, 0)
           u == Drop(t, 2)
           v == Top(t)
<1>2. PopOperand(m, x) = WritebackRM(u, x, 16, v) BY Zenon DEF PopOperand
<1>3. Led(m, t) BY SmallInts, DecodedLed
<1> HIDE DEF t
<1>4. Led(m, u) BY <1>3, SmallInts, LedDrop
<1>5. v \in Int BY <1>3, LedMachine, TopIsWord, WordIsInt
<1> HIDE DEF u, v
<1>6. Led(m, WritebackRM(u, x, 16, v)) BY <1>4, <1>5, BothWidths, LedRM
<1> QED BY <1>2, <1>6, LedMachine
LEMMA PushFlagsKeeps ==
  ASSUME NEW m \in Machines, NEW x \in Decodings PROVE Keeps(m, PushFlags(m, x))
<1>1. Led(m, Past(m, x, 0)) BY SmallInts, PastLed
<1>2. FlagWord(m.cpu.f) \in Int BY Parts, FlagWordIsInt
<1>3. Led(m, Push(Past(m, x, 0), FlagWord(m.cpu.f))) BY <1>1, <1>2, LedPush
<1> QED BY <1>3, LedMachine, Zenon DEF PushFlags
LEMMA PopFlagsKeeps ==
  ASSUME NEW m \in Machines, NEW x \in Decodings PROVE Keeps(m, PopFlags(m, x))
<1> DEFINE t == Past(m, x, 0)
           u == Drop(t, 2)
           f == FlagsIn(Top(t))
<1>1. PopFlags(m, x) = SetFlags(u, f) BY Zenon DEF PopFlags
<1>2. Led(m, t) BY SmallInts, PastLed
<1> HIDE DEF t
<1>3. Led(m, u) BY <1>2, SmallInts, LedDrop
<1>4. f \in Flags8088 BY <1>2, LedMachine, TopIsWord, WordIsInt, FlagsInAre
<1> HIDE DEF u, f
<1> QED BY <1>1, <1>3, <1>4, LedFlags, LedMachine
LEMMA SahfKeeps ==
  ASSUME NEW m \in Machines, NEW x \in Decodings PROVE Keeps(m, Sahf(m, x))
<1> DEFINE g == FlagsIn(m.cpu.b[AH])
           f == [g EXCEPT !.o = m.cpu.f.o, !.d = m.cpu.f.d, !.i = m.cpu.f.i, !.t = m.cpu.f.t]
           t == Past(m, x, 0)
<1>1. Sahf(m, x) = SetFlags(t, f) BY Zenon DEF Sahf
<1>2. m.cpu.b[AH] \in Int /\ m.cpu.f \in Flags8088
  BY Parts, RegisterNames, ByteIsInt, Zenon
<1>3. g \in Flags8088 BY <1>2, FlagsInAre
<1> HIDE DEF g
<1>4. f \in Flags8088 BY <1>2, <1>3, Zenon DEF Flags8088
<1> HIDE DEF f
<1>5. Led(m, t) BY SmallInts, PastLed
<1> HIDE DEF t
<1> QED BY <1>1, <1>4, <1>5, LedFlags, LedMachine
LEMMA LahfKeeps ==
  ASSUME NEW m \in Machines, NEW x \in Decodings PROVE Keeps(m, Lahf(m, x))
<1>1. Led(m, Past(m, x, 0)) BY SmallInts, PastLed
<1>2. Low(FlagWord(m.cpu.f)) \in Int BY Parts, FlagWordIsInt, HalfIsInt
<1>3. Led(m, WritebackReg(Past(m, x, 0), 8, AH, Low(FlagWord(m.cpu.f))))
  BY <1>1, <1>2, BothWidths, RegisterNames, LedReg
<1> QED BY <1>3, LedMachine, Zenon DEF Lahf

-----------------------------------------------------------------------------
(* Jumps, calls and returns. *)

LEMMA ShortJumpKeeps ==
  ASSUME NEW m \in Machines, NEW x \in Decodings, NEW taken PROVE Keeps(m, ShortJump(m, x, taken))
<1> DEFINE t == Past(m, x, 1)
           ip == (t.cpu.ip + Extend(Imm(m, x, 8))) % WordSize
<1>1. ShortJump(m, x, taken) = IF taken THEN Goto(t, ip) ELSE t BY Zenon DEF ShortJump
<1>2. Led(m, t) BY SmallInts, PastLed
<1> HIDE DEF t
<1>3. t \in Machines /\ t.cpu.ip \in Int BY <1>2, LedMachine, Parts, WordIsInt
<1>4. Extend(Imm(m, x, 8)) \in Int BY ImmIsByte, ExtendIsWord, WordIsInt
<1>5. ip \in Words16 BY <1>3, <1>4, IntSum, WordCut
<1> HIDE DEF ip
<1>6. Keeps(m, Goto(t, ip)) BY <1>3, <1>5, GotoKeeps
<1> QED BY <1>1, <1>2, <1>6, LedMachine, Zenon
LEMMA ConditionalJumpKeeps ==
  ASSUME NEW m \in Machines, NEW x \in Decodings PROVE Keeps(m, ConditionalJump(m, x))
  BY ShortJumpKeeps, Zenon DEF ConditionalJump

\* What follows a change of registers alone.
LEMMA StaysFollow ==
  ASSUME NEW m, NEW t, Stays(m, t), t.mem = m.mem, NEW u, Keeps(t, u) PROVE Keeps(m, u)
<1>1. \A a : Read(t, a) = Read(m, a) BY Zenon DEF Read
<1>2. \A k : Place(t, k) = Place(m, k) BY Zenon DEF Stays, Place
<1>3. Follows(m) => Follows(t) BY <1>1, <1>2, Zenon DEF Stays, Follows
<1>4. Trails(t, u) => Trails(m, u) BY <1>1, Zenon DEF Trails
<1> QED BY <1>3, <1>4, Zenon DEF Keeps
LEMMA RegisterMemory ==
  ASSUME NEW m \in Machines, NEW n \in Widths, NEW r \in 0..7, NEW v \in Int
  PROVE  WritebackReg(m, n, r, v).mem = m.mem
  BY Zenon DEF WritebackReg, Machines
Loops == {\he0, \he1, \he2, \he3}
LEMMA LoopKeeps ==
  ASSUME NEW m \in Machines, NEW x \in Decodings, x.op \in Loops PROVE Keeps(m, Loop(m, x))
<1> DEFINE c == DecodeReg(m, 16, CX)
           t == WritebackReg(m, 16, CX, c - 1)
           j0 == ShortJump(t, x, c # 1 /\ ~(m.cpu.f.z = 1))
           j1 == ShortJump(t, x, c # 1 /\ m.cpu.f.z = 1)
           j2 == ShortJump(t, x, c # 1)
           j3 == ShortJump(m, x, c = 0)
<1>1. /\ x.op = \he0 => Loop(m, x) = j0
      /\ x.op = \he1 => Loop(m, x) = j1
      /\ x.op = \he2 => Loop(m, x) = j2
      /\ x.op = \he3 => Loop(m, x) = j3
  BY SMT DEF Loop
<1>2. c - 1 \in Int BY BothWidths, RegisterNames, RegIsInt, SmallInts, IntSum
<1>3. Stays(m, t) /\ t.mem = m.mem
  <2> HIDE DEF c
  <2> QED BY <1>2, BothWidths, RegisterNames, WritebackRegStays, RegisterMemory
<1>4. t \in Machines BY <1>3, StaysMachine
<1> HIDE DEF t, c
<1>5. Keeps(t, j0) /\ Keeps(t, j1) /\ Keeps(t, j2) /\ Keeps(m, j3) BY <1>4, ShortJumpKeeps
<1> HIDE DEF j0, j1, j2, j3
<1>6. Keeps(m, j0) /\ Keeps(m, j1) /\ Keeps(m, j2) BY <1>3, <1>5, StaysFollow
<1> QED BY <1>1, <1>5, <1>6, SMT DEF Loops

LEMMA AheadWord ==
  ASSUME NEW m \in Machines, NEW x \in Decodings, NEW k \in Nat
  PROVE  AheadN(m, x.at + k, 16) \in Words16 /\ Imm(m, x, 16) \in Words16
<1>1. x.at + k \in Nat
  <2>1. x.at \in Nat BY Decoding
  <2> QED BY <2>1
<1> QED BY <1>1, AheadNIsWord, ImmIsWord
LEMMA CallFarKeeps ==
  ASSUME NEW m \in Machines, NEW x \in Decodings PROVE Keeps(m, CallFar(m, x))
<1> DEFINE t == Past(m, x, 4)
           u == Push(t, t.cpu.s[CS])
           v == Push(u, t.cpu.ip)
           s == AheadN(m, x.at + 2, 16)
           o == Imm(m, x, 16)
<1>1. CallFar(m, x) = GotoFar(v, s, o) BY Zenon DEF CallFar
<1>2. Led(m, t) BY SmallInts, PastLed
<1> HIDE DEF t
<1>3. t.cpu.ip \in Int /\ t.cpu.s[CS] \in Int
  BY <1>2, LedMachine, Parts, WordIsInt, RegisterNames, SegmentIsInt
<1>4. Led(m, u) BY <1>2, <1>3, LedPush
<1> HIDE DEF u
<1>5. Led(m, v) BY <1>3, <1>4, LedPush
<1>6. s \in Words16 /\ o \in Words16 BY SmallInts, AheadWord
<1> HIDE DEF v, s, o
<1> QED BY <1>1, <1>5, <1>6, LedMachine, GotoFarKeeps
LEMMA CallKeeps ==
  ASSUME NEW m \in Machines, NEW x \in Decodings PROVE Keeps(m, Call(m, x))
<1> DEFINE t == Past(m, x, 2)
           u == Push(t, t.cpu.ip)
           ip == (t.cpu.ip + Imm(m, x, 16)) % WordSize
<1>1. Call(m, x) = Goto(u, ip) BY Zenon DEF Call
<1>2. Led(m, t) BY SmallInts, PastLed
<1> HIDE DEF t
<1>3. t.cpu.ip \in Int BY <1>2, LedMachine, Parts, WordIsInt
<1>4. Led(m, u) BY <1>2, <1>3, LedPush
<1>5. ip \in Words16 BY <1>3, ImmIsInt, IntSum, WordCut
<1> HIDE DEF u, ip
<1> QED BY <1>1, <1>4, <1>5, LedMachine, GotoKeeps
NearJumps == {\he9, \hea, \heb}
LEMMA JumpKeeps ==
  ASSUME NEW m \in Machines, NEW x \in Decodings, x.op \in NearJumps PROVE Keeps(m, Jump(m, x))
<1> DEFINE t == Past(m, x, 2)
           ip == (t.cpu.ip + Imm(m, x, 16)) % WordSize
           u == Past(m, x, 4)
           s == AheadN(m, x.at + 2, 16)
           o == Imm(m, x, 16)
           j0 == Goto(t, ip)
           j1 == GotoFar(u, s, o)
           j2 == ShortJump(m, x, TRUE)
<1>1. Jump(m, x) = CASE x.op = \he9 -> j0 [] x.op = \hea -> j1 [] x.op = \heb -> j2
  BY Zenon DEF Jump
<1>2. Led(m, t) /\ Led(m, u) BY SmallInts, PastLed
<1> HIDE DEF t, u
<1>3. t.cpu.ip \in Int BY <1>2, LedMachine, Parts, WordIsInt
<1>4. ip \in Words16 BY <1>3, ImmIsInt, IntSum, WordCut
<1>5. s \in Words16 /\ o \in Words16 BY SmallInts, AheadWord
<1> HIDE DEF ip, s, o
<1>6. Keeps(m, j0) /\ Keeps(m, j1) BY <1>2, <1>4, <1>5, LedMachine, GotoKeeps, GotoFarKeeps
<1>7. Keeps(m, j2) BY ShortJumpKeeps
<1> HIDE DEF j0, j1, j2
<1> QED BY <1>1, <1>6, <1>7, SMT DEF NearJumps
LEMMA ReturnKeeps ==
  ASSUME NEW m \in Machines, NEW x \in Decodings PROVE Keeps(m, Return(m, x))
<1> DEFINE extra == IF x.op % 2 = 0 THEN Imm(m, x, 16) ELSE 0
           t == IF x.op % 2 = 0 THEN Past(m, x, 2) ELSE Past(m, x, 0)
           far == Drop(t, 2)
           near == Drop(t, 2 + extra)
           gone == Drop(far, 2 + extra)
<1>1. Return(m, x) = IF x.op < \hc8 THEN Goto(near, Top(t)) ELSE GotoFar(gone, Top(far), Top(t))
  BY SMT DEF Return
<1>2. 2 + extra \in Int
  <2>1. extra \in Int BY SmallInts, ImmIsInt
  <2> QED BY <2>1, SmallInts, IntSum
<1>3. Led(m, t) BY SmallInts, PastLed, Zenon
<1> HIDE DEF extra, t
<1>4. Led(m, far) /\ Led(m, near) BY <1>2, <1>3, SmallInts, LedDrop
<1> HIDE DEF far
<1>5. Led(m, gone) BY <1>2, <1>4, LedDrop
<1>6. Top(t) \in Words16 /\ Top(far) \in Words16 BY <1>3, <1>4, LedMachine, TopIsWord
<1> HIDE DEF near, gone
<1>7. Keeps(m, Goto(near, Top(t))) BY <1>4, <1>6, LedMachine, GotoKeeps
<1>8. Keeps(m, GotoFar(gone, Top(far), Top(t))) BY <1>5, <1>6, LedMachine, GotoFarKeeps
<1> QED BY <1>1, <1>7, <1>8, Zenon
Traps == {\hcc, \hcd, \hce}
LEMMA SoftwareInterruptKeeps ==
  ASSUME NEW m \in Machines, NEW x \in Decodings, x.op \in Traps
  PROVE  Keeps(m, SoftwareInterrupt(m, x))
<1> DEFINE t == Past(m, x, 0)
           u == Past(m, x, 1)
           k == Imm(m, x, 8)
           i0 == PrefetchFlush(Trap(t, 3))
           i1 == PrefetchFlush(Trap(u, k))
           i2 == PrefetchFlush(Trap(t, 4))
<1>1. /\ x.op = \hcc => SoftwareInterrupt(m, x) = i0
      /\ x.op = \hcd => SoftwareInterrupt(m, x) = i1
      /\ x.op = \hce => SoftwareInterrupt(m, x) = IF m.cpu.f.o = 1 THEN i2 ELSE t
  BY SMT DEF SoftwareInterrupt
<1>2. Led(m, t) /\ Led(m, u) BY SmallInts, PastLed
<1>3. k \in Bytes /\ 3 \in Bytes /\ 4 \in Bytes
  <2>1. 3 \in Bytes /\ 4 \in Bytes BY SMT DEF Bytes
  <2> QED BY <2>1, ImmIsByte
<1> HIDE DEF t, u, k
<1>4. Trap(t, 3) \in Machines /\ Trap(u, k) \in Machines /\ Trap(t, 4) \in Machines
  BY <1>2, <1>3, LedMachine, TrapTurns, Zenon DEF Turns
<1>5. Keeps(m, i0) /\ Keeps(m, i1) /\ Keeps(m, i2) BY <1>4, FlushKeeps
<1> HIDE DEF i0, i1, i2
<1>6. Keeps(m, t) BY <1>2, LedMachine
<1> QED BY <1>1, <1>5, <1>6, SMT DEF Traps
LEMMA HeldStays ==
  ASSUME NEW m \in Machines, NEW h \in BOOLEAN
  PROVE  Stays(m, [m EXCEPT !.cpu.held = h]) /\ [m EXCEPT !.cpu.held = h].mem = m.mem
<1>1. [m EXCEPT !.cpu.held = h] \in Machines BY Zenon DEF Machines, Cpu8088
<1>2. /\ [m EXCEPT !.cpu.held = h].cpu.ip = m.cpu.ip
      /\ [m EXCEPT !.cpu.held = h].cpu.q = m.cpu.q
      /\ [m EXCEPT !.cpu.held = h].cpu.s = m.cpu.s
      /\ [m EXCEPT !.cpu.held = h].mem = m.mem
  BY Zenon DEF Machines, Cpu8088
<1> QED BY <1>1, <1>2, Zenon DEF Stays
LEMMA IretKeeps ==
  ASSUME NEW m \in Machines, NEW x \in Decodings PROVE Keeps(m, Iret(m, x))
<1> DEFINE t1 == Past(m, x, 0)
           t2 == Drop(t1, 2)
           t3 == Drop(t2, 2)
           t4 == SetFlags(Drop(t3, 2), FlagsIn(Top(t3)))
           t5 == [t4 EXCEPT !.cpu.held = TRUE]
<1>1. Iret(m, x) = GotoFar(t5, Top(t2), Top(t1)) BY Zenon DEF Iret
<1>2. Led(m, t1) BY SmallInts, PastLed
<1> HIDE DEF t1
<1>3. Led(m, t2) BY <1>2, SmallInts, LedDrop
<1> HIDE DEF t2
<1>4. Led(m, t3) BY <1>3, SmallInts, LedDrop
<1> HIDE DEF t3
<1>5. Led(m, Drop(t3, 2)) BY <1>4, SmallInts, LedDrop
<1>6. FlagsIn(Top(t3)) \in Flags8088 BY <1>4, LedMachine, TopIsWord, WordIsInt, FlagsInAre
<1>7. Led(m, t4) BY <1>5, <1>6, LedFlags
<1> HIDE DEF t4
<1>8. t5 \in Machines
  <2>1. TRUE \in BOOLEAN OBVIOUS
  <2> QED BY <1>7, <2>1, LedMachine, HeldStays, StaysMachine
<1> HIDE DEF t5
<1>9. Top(t1) \in Words16 /\ Top(t2) \in Words16 BY <1>2, <1>3, LedMachine, TopIsWord
<1> QED BY <1>1, <1>8, <1>9, GotoFarKeeps

\* fe and ff.
LEMMA IndirectGroupKeeps ==
  ASSUME NEW m \in Machines, NEW x \in Decodings PROVE Keeps(m, IndirectGroup(m, x))
<1> DEFINE t == Decoded(m, x, 0)
           v == DecodeRM(m, x, 16)
           segment == ReadWord(m, (x.addr + 2) % AddressSpace)
           offset == ReadWord(m, x.addr)
           p1 == Push(t, t.cpu.ip)
           p2 == Push(t, t.cpu.s[CS])
           p3 == Push(p2, t.cpu.ip)
           s3 == ReadWord(p3, (x.addr + 2) % AddressSpace)
           o3 == ReadWord(p3, x.addr)
           i0 == IncOperand(m, x)
           i1 == DecOperand(m, x)
           i2 == Goto(p1, v)
           i3 == GotoFar(p3, s3, o3)
           i4 == Goto(t, v)
           i5 == GotoFar(t, segment, offset)
           i6 == Push(t, v)
<1>1. IndirectGroup(m, x) =
        CASE x.reg = 0 -> i0 [] x.reg = 1 -> i1
          [] x.op = \hff /\ x.reg = 2 -> i2 [] x.op = \hff /\ x.reg = 4 -> i4
          [] x.op = \hff /\ x.reg = 6 -> i6
          [] x.op = \hff /\ x.reg = 3 /\ ~x.direct -> i3
          [] x.op = \hff /\ x.reg = 5 /\ ~x.direct -> i5
          [] OTHER -> t
  BY Zenon DEF IndirectGroup
<1>2. Led(m, t) BY SmallInts, DecodedLed
<1> HIDE DEF t
<1>3. v \in Words16 /\ v \in Int BY BothWidths, RMIsWord, WordIsInt
<1>4. t \in Machines /\ t.cpu.ip \in Int /\ t.cpu.s[CS] \in Int
  BY <1>2, LedMachine, Parts, WordIsInt, RegisterNames, SegmentIsInt
<1> HIDE DEF v
<1>5. Led(m, p1) /\ Led(m, p2) /\ Led(m, i6) BY <1>2, <1>3, <1>4, LedPush
<1> HIDE DEF p2
<1>6. Led(m, p3) BY <1>4, <1>5, LedPush
<1> HIDE DEF p1, p3
<1>7. p1 \in Machines /\ p3 \in Machines BY <1>5, <1>6, LedMachine
<1>8. segment \in Words16 /\ offset \in Words16 /\ s3 \in Words16 /\ o3 \in Words16
  BY <1>7, Parts, ReadWordIsWord
<1> HIDE DEF segment, offset, s3, o3
<1>9. Keeps(m, i2) /\ Keeps(m, i4) BY <1>3, <1>4, <1>7, GotoKeeps
<1>10. Keeps(m, i3) /\ Keeps(m, i5) BY <1>4, <1>7, <1>8, GotoFarKeeps
<1>11. Keeps(m, i0) /\ Keeps(m, i1) BY CountOperandKeeps
<1>12. Keeps(m, i6) /\ Keeps(m, t) BY <1>2, <1>5, LedMachine
<1>13. x.reg \in 0..7 BY Decoding
<1> HIDE DEF i0, i1, i2, i3, i4, i5, i6
<1> QED BY <1>1, <1>9, <1>10, <1>11, <1>12, <1>13, SMT

-----------------------------------------------------------------------------
(* Ports. *)

\* What an instruction takes from outside.
Givens == [in : Bytes \X Bytes, sign1 : BOOLEAN, sign2 : BOOLEAN, junk : Int]
LEMMA Given ==
  ASSUME NEW e \in Givens PROVE e.in[1] \in Int /\ e.in[2] \in Int /\ e.junk \in Int
<1>1. e.in \in Bytes \X Bytes /\ e.junk \in Int BY Zenon DEF Givens
<1>2. e.in[1] \in Bytes /\ e.in[2] \in Bytes BY <1>1
<1> QED BY <1>1, <1>2, ByteIsInt

LEMMA PastPortLed ==
  ASSUME NEW m \in Machines, NEW x \in Decodings PROVE Led(m, PastPort(m, x))
<1> DEFINE k == IF x.op % 16 < 8 THEN 1 ELSE 0
<1>1. k \in Nat OBVIOUS
<1>2. PastPort(m, x) = Past(m, x, k) BY DEF PastPort
<1> HIDE DEF k
<1> QED BY <1>1, <1>2, PastLed
LEMMA InKeeps ==
  ASSUME NEW m \in Machines, NEW x \in Decodings, NEW e \in Givens PROVE Keeps(m, In(m, x, e))
<1> DEFINE t == WritebackReg(PastPort(m, x), 8, AX, e.in[1])
           u == WritebackReg(t, 8, AH, e.in[2])
<1>1. In(m, x, e) = IF Width(x) = 8 THEN t ELSE u BY Zenon DEF In
<1>2. Led(m, t) BY Given, PastPortLed, BothWidths, RegisterNames, LedReg
<1> HIDE DEF t
<1>3. Led(m, u) BY <1>2, Given, BothWidths, RegisterNames, LedReg
<1> HIDE DEF u
<1> QED BY <1>1, <1>2, <1>3, LedMachine, Zenon
LEMMA OutSet ==
  ASSUME NEW m \in Machines, NEW out \in Seq(Words16 \X Bytes)
  PROVE  Stays(m, [m EXCEPT !.out = out]) /\ [m EXCEPT !.out = out].mem = m.mem
<1>1. [m EXCEPT !.out = out] \in Machines BY Zenon DEF Machines
<1>2. [m EXCEPT !.out = out].cpu = m.cpu /\ [m EXCEPT !.out = out].mem = m.mem
  BY Zenon DEF Machines
<1> QED BY <1>1, <1>2, Zenon DEF Stays
LEMMA PortIsWord ==
  ASSUME NEW m \in Machines, NEW x \in Decodings PROVE Port(m, x) \in Words16
  BY ImmIsWord, BothWidths, RegisterNames, RegIsWord, Zenon DEF Port
LEMMA OutKeeps ==
  ASSUME NEW m \in Machines, NEW x \in Decodings PROVE Keeps(m, Out(m, x))
<1> DEFINE al == <<Port(m, x), m.cpu.b[AX]>>
           ah == <<Port(m, x), m.cpu.b[AH]>>
           out == IF Width(x) = 8 THEN <<al>> ELSE <<al, ah>>
           t == PastPort(m, x)
<1>1. Out(m, x) = [t EXCEPT !.out = out] BY Zenon DEF Out
<1>2. al \in Words16 \X Bytes /\ ah \in Words16 \X Bytes
  BY PortIsWord, Parts, RegisterNames, Zenon
<1> HIDE DEF al, ah
<1>3. out \in Seq(Words16 \X Bytes)
  <2> DEFINE T == Words16 \X Bytes
  <2>1. al \in T /\ ah \in T BY <1>2
  <2> HIDE DEF T
  <2>2. <<al>> \in Seq(T) /\ <<al, ah>> \in Seq(T) BY <2>1
  <2> QED BY <2>2, Zenon DEF T
<1>4. Led(m, t) BY PastPortLed
<1> HIDE DEF out, t
<1>5. Led(m, [t EXCEPT !.out = out]) BY <1>3, <1>4, LedMachine, OutSet, StaysLed
<1> QED BY <1>1, <1>5, LedMachine

-----------------------------------------------------------------------------
(* One instruction. *)

LEMMA ExecuteKeeps ==
  ASSUME NEW m \in Machines, NEW x \in Decodings, NEW e \in Givens
  PROVE  Keeps(m, Execute(m, x, e))
<1> DEFINE op == x.op
           K(u) == Keeps(m, u)
<1>1. /\ op < 64 /\ op % 8 < 6 => K(Arithmetic(m, x))
      /\ op \in {\h06, \h0e, \h16, \h1e} => K(PushSegment(m, x))
      /\ op \in {\h07, \h0f, \h17, \h1f} => K(PopSegment(m, x))
  BY ArithmeticKeeps, PushSegmentKeeps, PopSegmentKeeps DEF SegmentPushes, SegmentPops
<1>2. K(Daa(m, x)) /\ K(Das(m, x)) /\ K(Aaa(m, x)) /\ K(Aas(m, x)) /\ K(Aam(m, x)) /\ K(Aad(m, x))
  BY AdjustmentsKeep, AamKeeps, AadKeeps
<1>3. K(IncRegister(m, x)) /\ K(DecRegister(m, x)) /\ K(PushRegister(m, x)) /\ K(PopRegister(m, x))
  BY CountRegisterKeeps, PushRegisterKeeps, PopRegisterKeeps
<1>4. K(ConditionalJump(m, x)) /\ K(ImmediateGroup(m, x)) /\ K(Test(m, x)) /\ K(Exchange(m, x))
  BY ConditionalJumpKeeps, ImmediateGroupKeeps, TestKeeps, ExchangeKeeps
<1>5. /\ op \in (\h88..\h8b) \union {\hc6, \hc7} => K(Move(m, x))
      /\ op \in (\ha4..\ha7) \union (\haa..\haf) => K(StringOp(m, x))
      /\ op \in {\hcc, \hcd, \hce} => K(SoftwareInterrupt(m, x))
      /\ op \in \he0..\he3 => K(Loop(m, x))
      /\ op \in {\he9, \hea, \heb} => K(Jump(m, x))
      /\ op \in {\hf5} \union (\hf8..\hfd) => K(ChangeFlag(m, x))
  <2>1. op \in (\h88..\h8b) \union {\hc6, \hc7} => K(Move(m, x)) BY MoveKeeps, SMT DEF Moves
  <2>2. op \in (\ha4..\ha7) \union (\haa..\haf) => K(StringOp(m, x))
    BY StringOpKeeps, SMT DEF StringOps
  <2>3. op \in {\hcc, \hcd, \hce} => K(SoftwareInterrupt(m, x))
    BY SoftwareInterruptKeeps, SMT DEF Traps
  <2>4. op \in \he0..\he3 => K(Loop(m, x)) BY LoopKeeps, SMT DEF Loops
  <2>5. op \in {\he9, \hea, \heb} => K(Jump(m, x)) BY JumpKeeps, SMT DEF NearJumps
  <2>6. op \in {\hf5} \union (\hf8..\hfd) => K(ChangeFlag(m, x))
    BY ChangeFlagKeeps, SMT DEF FlagChanges
  <2> QED BY <2>1, <2>2, <2>3, <2>4, <2>5, <2>6
<1>6. K(MoveFromSegment(m, x)) /\ K(MoveToSegment(m, x)) /\ K(Lea(m, x)) /\ K(PopOperand(m, x))
  BY MoveFromSegmentKeeps, MoveToSegmentKeeps, LeaKeeps, PopOperandKeeps
<1>7. K(ExchangeAX(m, x)) /\ K(Convert(m, x)) /\ K(CallFar(m, x)) /\ K(PushFlags(m, x))
  BY ExchangeAXKeeps, ConvertKeeps, CallFarKeeps, PushFlagsKeeps
<1>8. K(PopFlags(m, x)) /\ K(Sahf(m, x)) /\ K(Lahf(m, x)) /\ K(MoveAccumulator(m, x))
  BY PopFlagsKeeps, SahfKeeps, LahfKeeps, MoveAccumulatorKeeps
<1>9. K(MoveImmediate(m, x)) /\ K(Return(m, x)) /\ K(LoadPointer(m, x)) /\ K(Iret(m, x))
  BY MoveImmediateKeeps, ReturnKeeps, LoadPointerKeeps, IretKeeps
<1>10. K(ShiftByOne(m, x, e)) /\ K(ShiftByCL(m, x, e)) /\ K(UnaryGroup(m, x, e)) /\ K(In(m, x, e))
  BY Given, ShiftByOneKeeps, ShiftByCLKeeps, UnaryGroupKeeps, InKeeps
<1>11. K(Salc(m, x)) /\ K(Xlat(m, x)) /\ K(Out(m, x)) /\ K(Call(m, x)) /\ K(IndirectGroup(m, x))
  BY SalcKeeps, XlatKeeps, OutKeeps, CallKeeps, IndirectGroupKeeps
<1>12. K(Decoded(m, x, 0)) /\ K(Past(m, x, 0)) BY SmallInts, DecodedLed, PastLed, LedMachine
<1> QED
  <2> HIDE DEF K
  <2>1. K(Execute(m, x, e))
    BY <1>1, <1>2, <1>3, <1>4, <1>5, <1>6, <1>7, <1>8, <1>9, <1>10, <1>11, <1>12, SMTT(40) DEF Execute
  <2> QED BY <2>1 DEF K

\* An interrupt goes elsewhere, or nothing happens.
Settles(t, u) == u \in Machines /\ (Follows(u) \/ (Stays(t, u) /\ u.mem = t.mem))
LEMMA SettlesKeeps ==
  ASSUME NEW m, NEW t, Keeps(m, t), NEW u, Settles(t, u) PROVE Keeps(m, u)
<1>1. CASE Follows(u) BY <1>1, Zenon DEF Settles, Keeps
<1>2. CASE Stays(t, u) /\ u.mem = t.mem
  <2>1. \A a : Read(u, a) = Read(t, a) BY <1>2, Zenon DEF Read
  <2>2. \A k : Place(u, k) = Place(t, k) BY <1>2, Zenon DEF Stays, Place
  <2>3. Follows(t) => Follows(u) BY <1>2, <2>1, <2>2, Zenon DEF Stays, Follows
  <2>4. Trails(m, t) => Trails(m, u) BY <1>2, <2>2, Zenon DEF Stays, Trails
  <2> QED BY <2>3, <2>4, Zenon DEF Keeps, Settles
<1> QED BY <1>1, <1>2, Zenon DEF Settles
LEMMA OutstandingSettles ==
  ASSUME NEW m \in Machines PROVE Settles(m, HandleOutstandingInterrupts(m))
<1>1. CASE m.cpu.held \/ m.cpu.list = <<>>
  BY <1>1, StaysSelf, Zenon DEF HandleOutstandingInterrupts, Settles
<1>2. CASE ~(m.cpu.held \/ m.cpu.list = <<>>)
  <2> DEFINE l == m.cpu.list
             t == [m EXCEPT !.cpu.list = Tail(l)]
             h == Head(l)
  <2>1. Tail(l) \in Seq(Bytes) /\ h \in Bytes
    <3>1. l \in Seq(Bytes) /\ l # <<>> BY <1>2, Parts
    <3> HIDE DEF l
    <3> QED BY <3>1
  <2>2. t \in Machines BY <2>1, ListSet DEF Stays
  <2>3. HandleOutstandingInterrupts(m) = Interrupt(t, h)
    BY <1>2, Zenon DEF HandleOutstandingInterrupts
  <2> HIDE DEF t, h
  <2> QED BY <2>1, <2>2, <2>3, ByteIsInt, InterruptFollows, Zenon DEF Settles
<1> QED BY <1>1, <1>2
LEMMA TrapSettles ==
  ASSUME NEW m \in Machines, NEW number \in Bytes
  PROVE  Settles(m, Trap(m, number)) /\ Settles(m, TrapMaskable(m, number))
<1> DEFINE l == m.cpu.list
           t == [m EXCEPT !.cpu.list = Append(l, number)]
<1>1. Append(l, number) \in Seq(Bytes)
  <2>1. l \in Seq(Bytes) BY Parts
  <2> HIDE DEF l
  <2> QED BY <2>1
<1>2. Stays(m, t) BY <1>1, ListSet
<1>3. t.mem = m.mem BY Zenon DEF Machines
<1>4. Trap(m, number) = HandleOutstandingInterrupts(t) BY Zenon DEF Trap
<1> HIDE DEF t
<1>5. Settles(t, Trap(m, number)) BY <1>2, <1>4, StaysMachine, OutstandingSettles
<1>6. Settles(m, Trap(m, number)) BY <1>2, <1>3, <1>5, StaysStays, Zenon DEF Settles
<1> QED BY <1>6, OutstandingSettles, Zenon DEF TrapMaskable

\* What an instruction of the 8088 does to its prefetch queue.
LEMMA InstructionKeeps ==
  ASSUME NEW m \in Machines, NEW e \in Givens PROVE Keeps(m, PerformInstruction(m, e))
<1> DEFINE t1 == [m EXCEPT !.cpu.held = FALSE]
           t == [m EXCEPT !.cpu.held = FALSE, !.out = <<>>]
           u == Execute(t, Instruction(t), e)
<1>1. Stays(m, t1) /\ t1.mem = m.mem
  <2>1. FALSE \in BOOLEAN OBVIOUS
  <2> QED BY <2>1, HeldStays
<1>2. t = [t1 EXCEPT !.out = <<>>] BY Zenon DEF Machines
<1> HIDE DEF t1
<1>3. Stays(t1, t) /\ t.mem = t1.mem
  <2>1. <<>> \in Seq(Words16 \X Bytes) OBVIOUS
  <2> QED BY <1>1, <1>2, <2>1, StaysMachine, OutSet
<1>4. Stays(m, t) /\ t.mem = m.mem BY <1>1, <1>3, StaysStays
<1>5. t \in Machines BY <1>4, StaysMachine
<1>6. PerformInstruction(m, e) = u BY Zenon DEF PerformInstruction
<1> HIDE DEF t
<1>7. Keeps(t, u) BY <1>5, InstructionDecoded, ExecuteKeeps
<1> HIDE DEF u
<1> QED BY <1>4, <1>6, <1>7, StaysFollow

-----------------------------------------------------------------------------
(* Arithmetic: what the operators of the instructions compute. *)

\* The n-bit numbers.
Numbers(n) == 0..(2^n - 1)

LEMMA Halves == 2^7 = 128 /\ 2^8 = 256 /\ 2^15 = 32768 /\ 2^16 = 65536 /\ 8 - 1 = 7 /\ 16 - 1 = 15
<1>1. 2^7 = 128 /\ 2^8 = 256 BY SMT
<1>2. 2^15 = 32768 BY SMT
<1>3. 2^16 = 65536 BY SMT
<1> QED BY <1>1, <1>2, <1>3

LEMMA SubFlags ==
  ASSUME NEW f \in Flags8088, NEW n, NEW a, NEW b, NEW r
  PROVE  LET g == SetFlagsSub(f, n, a, b, r)
         IN  /\ g.z = Flag(r % 2^n = 0) /\ g.s = Bit(r, n - 1)
             /\ g.c = Flag(r < 0 \/ r >= 2^n)
             /\ g.o = Flag(Bit(r, n - 1) # Bit(a, n - 1) /\ Bit(a, n - 1) # Bit(b, n - 1))
  BY Zenon DEF SetFlagsSub, SetFlagsCarry, SetFlagsZSP, Flags8088

LEMMA Flagged == ASSUME NEW P \in BOOLEAN PROVE (Flag(P) = 1) = P
  BY DEF Flag

LEMMA ConditionsOf ==
  ASSUME NEW g
  PROVE  /\ UnsignedCondition(g, 0) = (g.o = 1) /\ UnsignedCondition(g, 1) = (g.c = 1)
         /\ UnsignedCondition(g, 2) = (g.z = 1)
         /\ UnsignedCondition(g, 3) = (g.c = 1 \/ g.z = 1)
         /\ SignedCondition(g, 4) = (g.s = 1)
         /\ SignedCondition(g, 6) = (g.s # g.o)
         /\ SignedCondition(g, 7) = (g.s # g.o \/ g.z = 1)
  BY SMT DEF UnsignedCondition, SignedCondition

\* Whether v is an n-bit number in two's complement.
Fits(n, v) == -(2^(n - 1)) <= v /\ v < 2^(n - 1)

LEMMA DifferencesOrder ==
  ASSUME NEW n \in Widths, NEW a \in Numbers(n), NEW b \in Numbers(n)
  PROVE  LET d == Signed(n, a) - Signed(n, b)
             top(v) == Bit(v, n - 1)
             o == top(a - b) # top(a) /\ top(a) # top(b)
         IN  /\ a \in Int /\ b \in Int /\ d \in Int
             /\ o <=> ~Fits(n, d)
             /\ top(a - b) # Flag(o) <=> d < 0
             /\ d = 0 <=> a = b
             /\ (a - b) % 2^n = 0 <=> a = b
             /\ (a - b < 0 \/ a - b >= 2^n) <=> a < b
             /\ top(a - b) = 1 <=> 2^(n - 1) <= (a - b) % 2^n
<1>1. CASE n = 8
  <2>1. 2^n = 256 /\ 2^(n - 1) = 128 /\ n - 1 = 7 BY <1>1, Halves, SMT
  <2>2. a \in Int /\ b \in Int /\ 0 <= a /\ a < 256 /\ 0 <= b /\ b < 256 BY <2>1, SMT DEF Numbers
  <2>3. /\ Signed(n, a) = (IF a >= 128 THEN a - 256 ELSE a)
        /\ Signed(n, b) = (IF b >= 128 THEN b - 256 ELSE b)
    BY <2>1, SMT DEF Signed
  <2>4. \A v \in Int : Bit(v, n - 1) = (v \div 128) % 2 BY <2>1, SMT DEF Bit
  <2> QED BY <2>1, <2>2, <2>3, <2>4, SMT DEF Fits, Flag
<1>2. CASE n = 16
  <2>1. 2^n = 65536 /\ 2^(n - 1) = 32768 /\ n - 1 = 15 BY <1>2, Halves, SMT
  <2>2. a \in Int /\ b \in Int /\ 0 <= a /\ a < 65536 /\ 0 <= b /\ b < 65536 BY <2>1, SMT DEF Numbers
  <2>3. /\ Signed(n, a) = (IF a >= 32768 THEN a - 65536 ELSE a)
        /\ Signed(n, b) = (IF b >= 32768 THEN b - 65536 ELSE b)
    BY <2>1, SMT DEF Signed
  <2>4. \A v \in Int : Bit(v, n - 1) = (v \div 32768) % 2 BY <2>1, SMT DEF Bit
  <2> QED BY <2>1, <2>2, <2>3, <2>4, SMT DEF Fits, Flag
<1> QED BY <1>1, <1>2 DEF Widths

\* CMP orders its operands: after it, for every two bytes and every two words,
\* the jumps see overflow when the signed difference does not fit, carry when
\* the first is below the second, zero when they are equal, the sign of the
\* difference as it is stored, and signed less exactly when the first number is
\* less than the second in two's complement, though the difference itself may
\* overflow (set_flags_sub_8 and _16, 8088.c:503-522, CMP, 1298-1361, and
\* the jumps, 1736-2056).
THEOREM ComparisonsDecide ==
  ASSUME NEW f \in Flags8088, NEW n \in Widths, NEW a \in Numbers(n), NEW b \in Numbers(n)
  PROVE  LET g == CmpOp(f, n, a, b).f
             d == Signed(n, a) - Signed(n, b)
         IN  /\ UnsignedCondition(g, 0) <=> ~Fits(n, d)
             /\ UnsignedCondition(g, 1) <=> a < b
             /\ UnsignedCondition(g, 2) <=> a = b
             /\ UnsignedCondition(g, 3) <=> a <= b
             /\ SignedCondition(g, 4) <=> 2^(n - 1) <= (a - b) % 2^n
             /\ SignedCondition(g, 6) <=> d < 0
             /\ SignedCondition(g, 7) <=> d <= 0
<1> DEFINE g == CmpOp(f, n, a, b).f
           d == Signed(n, a) - Signed(n, b)
           r == a - b
           o == Bit(r, n - 1) # Bit(a, n - 1) /\ Bit(a, n - 1) # Bit(b, n - 1)
           s == Bit(r, n - 1)
           h == 2^(n - 1) <= r % 2^n
           z == r % 2^n = 0
           c == r < 0 \/ r >= 2^n
           F == Fits(n, d)
<1>1. g.z = Flag(z) /\ g.s = s /\ g.c = Flag(c) /\ g.o = Flag(o)
  <2>1. g = SetFlagsSub(f, n, a, b, r) BY Zenon DEF CmpOp
  <2> HIDE DEF g, r
  <2> QED BY <2>1, SubFlags, SMT
<1>2. /\ a \in Int /\ b \in Int /\ d \in Int
      /\ (o <=> ~F) /\ (s # Flag(o) <=> d < 0) /\ (d = 0 <=> a = b)
      /\ (z <=> a = b) /\ (c <=> a < b) /\ (s = 1 <=> h)
  BY DifferencesOrder, Zenon
<1>3. z \in BOOLEAN /\ c \in BOOLEAN /\ o \in BOOLEAN OBVIOUS
<1>4. /\ UnsignedCondition(g, 0) <=> ~F
      /\ UnsignedCondition(g, 1) <=> a < b
      /\ UnsignedCondition(g, 2) <=> a = b
      /\ UnsignedCondition(g, 3) <=> (a < b \/ a = b)
      /\ SignedCondition(g, 4) <=> h
      /\ SignedCondition(g, 6) <=> d < 0
      /\ SignedCondition(g, 7) <=> (d < 0 \/ d = 0)
  <2> HIDE DEF g, d, r, o, s, h, z, c, F
  <2>1. /\ g.z = 1 <=> a = b
        /\ g.c = 1 <=> a < b
        /\ g.o = 1 <=> ~F
        /\ g.s = 1 <=> h
        /\ g.s # g.o <=> d < 0
    BY <1>1, <1>2, <1>3, Flagged, Zenon
  <2> QED BY <1>2, <2>1, ConditionsOf, Zenon
<1>5. (a < b \/ a = b <=> a <= b) /\ (d < 0 \/ d = 0 <=> d <= 0)
  <2> HIDE DEF d
  <2> QED BY <1>2
<1> QED BY <1>4, <1>5, Zenon

LEMMA AddFlags ==
  ASSUME NEW f \in Flags8088, NEW n, NEW a, NEW b, NEW r
  PROVE  LET g == SetFlagsAdd(f, n, a, b, r)
         IN  /\ g.s = Bit(r, n - 1) /\ g.c = Flag(r < 0 \/ r >= 2^n)
             /\ g.o = Flag(Bit(r, n - 1) # Bit(a, n - 1) /\ Bit(r, n - 1) # Bit(b, n - 1))
  BY Zenon DEF SetFlagsAdd, SetFlagsCarry, SetFlagsZSP, Flags8088

\* The numbers: l, h the halves, k the carry between them.
LEMMA SumOfHalves ==
  ASSUME NEW a \in Int, NEW b \in Int, 0 <= a, a < 65536, 0 <= b, b < 65536
  PROVE  LET l == (a % 256) + (b % 256)
             k == Flag(l < 0 \/ l >= 256)
             h == ((a \div 256) % 256) + ((b \div 256) % 256) + k
         IN  /\ 256 * (h % 256) + (l % 256) = (a + b) % 65536
             /\ (h < 0 \/ h >= 256) <=> a + b >= 65536
             /\ (h \div 128) % 2 = ((a + b) \div 32768) % 2
             /\ (((a \div 256) % 256) \div 128) % 2 = (a \div 32768) % 2
  BY SMT DEF Flag
LEMMA DifferenceOfHalves ==
  ASSUME NEW a \in Int, NEW b \in Int, 0 <= a, a < 65536, 0 <= b, b < 65536
  PROVE  LET l == (a % 256) - (b % 256)
             k == Flag(l < 0 \/ l >= 256)
             h == ((a \div 256) % 256) - ((b \div 256) % 256) - k
         IN  /\ 256 * (h % 256) + (l % 256) = (a - b) % 65536
             /\ (h < 0 \/ h >= 256) <=> a < b
             /\ (h \div 128) % 2 = ((a - b) \div 32768) % 2
  BY SMT DEF Flag
LEMMA WordFacts ==
  ASSUME NEW a \in Words16
  PROVE  /\ a \in Int /\ 0 <= a /\ a < 65536
         /\ Signed(16, a) = IF a >= 32768 THEN a - 65536 ELSE a
<1>1. a \in Int /\ 0 <= a /\ a < 65536
  <2>1. WordSize = 65536 BY SMT DEF WordSize
  <2>2. a \in 0..(WordSize - 1) /\ WordSize \in Nat BY WordSizeIs DEF Words16
  <2> HIDE DEF WordSize
  <2> QED BY <2>1, <2>2
<1>2. Signed(16, a) = IF a >= 32768 THEN a - 65536 ELSE a
  BY Halves, SMT DEF Signed
<1> QED BY <1>1, <1>2

LEMMA WordParts ==
  ASSUME NEW a \in Words16
  PROVE  /\ Low(a) \in Int /\ High(a) \in Int
         /\ Bit(High(a), 7) = Bit(a, 15) /\ Bit(a, 15) = (a \div 32768) % 2
<1>1. a \in Int /\ 0 <= a /\ a < 65536 BY WordFacts
<1>2. Low(a) \in Int /\ High(a) \in Int BY <1>1, SMT DEF Low, High
<1>3. Bit(High(a), 7) = ((((a \div 256) % 256)) \div 128) % 2 /\ Bit(a, 15) = (a \div 32768) % 2
  BY Halves, SMT DEF Bit, High
<1>4. ((((a \div 256) % 256)) \div 128) % 2 = (a \div 32768) % 2 BY <1>1, SMT
<1> QED BY <1>2, <1>3, <1>4

LEMMA AddByteFlags ==
  ASSUME NEW f \in Flags8088, NEW a, NEW b, NEW r
  PROVE  /\ SetFlagsAdd(f, 8, a, b, r).c = Flag(r < 0 \/ r >= 256)
         /\ SetFlagsAdd(f, 8, a, b, r).o = Flag(Bit(r, 7) # Bit(a, 7) /\ Bit(r, 7) # Bit(b, 7))
<1> DEFINE n == 8
<1>1. n - 1 = 7 /\ 2^n = 256 BY Halves
<1> HIDE DEF n
<1>2. /\ SetFlagsAdd(f, n, a, b, r).c = Flag(r < 0 \/ r >= 2^n)
      /\ SetFlagsAdd(f, n, a, b, r).o =
           Flag(Bit(r, n - 1) # Bit(a, n - 1) /\ Bit(r, n - 1) # Bit(b, n - 1))
  BY AddFlags
<1> QED BY <1>1, <1>2, Zenon DEF n
LEMMA SubByteFlags ==
  ASSUME NEW f \in Flags8088, NEW a, NEW b, NEW r
  PROVE  /\ SetFlagsSub(f, 8, a, b, r).c = Flag(r < 0 \/ r >= 256)
         /\ SetFlagsSub(f, 8, a, b, r).o = Flag(Bit(r, 7) # Bit(a, 7) /\ Bit(a, 7) # Bit(b, 7))
<1> DEFINE n == 8
<1>1. n - 1 = 7 /\ 2^n = 256 BY Halves
<1> HIDE DEF n
<1>2. /\ SetFlagsSub(f, n, a, b, r).c = Flag(r < 0 \/ r >= 2^n)
      /\ SetFlagsSub(f, n, a, b, r).o =
           Flag(Bit(r, n - 1) # Bit(a, n - 1) /\ Bit(a, n - 1) # Bit(b, n - 1))
  BY SubFlags
<1> QED BY <1>1, <1>2, Zenon DEF n


\* A program that adds words a byte at a time, ADD the low halves and ADC the
\* high ones, gets their sum, its carry, and overflow exactly when the signed
\* sum does not fit a word: the carry flag carries (set_flags_add_8,
\* 8088.c:481-501, ADD, 659-718, and ADC, 835-905).
THEOREM BytewiseSum ==
  ASSUME NEW f \in Flags8088, NEW a \in Words16, NEW b \in Words16
  PROVE  LET s == AddOp(f, 8, Low(a), Low(b))
             t == AdcOp(s.f, 8, High(a), High(b))
         IN  /\ Pair(Low(t.r), Low(s.r)) = (a + b) % WordSize
             /\ t.f.c = Flag(a + b >= WordSize)
             /\ t.f.o = Flag(~Fits(16, Signed(16, a) + Signed(16, b)))
<1> DEFINE s == AddOp(f, 8, Low(a), Low(b))
           t == AdcOp(s.f, 8, High(a), High(b))
           l == Low(a) + Low(b)
           k == Flag(l < 0 \/ l >= 256)
           h == High(a) + High(b) + k
           d == Signed(16, a) + Signed(16, b)
           o == Bit(h, 7) # Bit(a, 15) /\ Bit(h, 7) # Bit(b, 15)
<1>0. /\ a \in Int /\ 0 <= a /\ a < 65536 /\ b \in Int /\ 0 <= b /\ b < 65536
      /\ Low(a) \in Int /\ Low(b) \in Int /\ High(a) \in Int /\ High(b) \in Int
  BY WordFacts, WordParts
<1>1. s.r = l /\ s.f \in Flags8088 /\ s.f.c = k
  <2>1. s.r = l /\ s.f = SetFlagsAdd(f, 8, Low(a), Low(b), l) BY Zenon DEF AddOp
  <2>2. l \in Int /\ 8 \in Widths BY <1>0 DEF Widths
  <2> HIDE DEF l
  <2>3. SetFlagsAdd(f, 8, Low(a), Low(b), l) \in Flags8088 BY <1>0, <2>2, AddSubAreFlags
  <2>4. SetFlagsAdd(f, 8, Low(a), Low(b), l).c = k BY AddByteFlags
  <2> HIDE DEF s, k
  <2> QED BY <2>1, <2>3, <2>4
<1>2. t.r = h /\ t.f.c = Flag(h < 0 \/ h >= 256) /\ t.f.o = Flag(o)
  <2> HIDE DEF s, k, l
  <2>1. t = [r |-> High(a) + High(b) + s.f.c,
             f |-> SetFlagsAdd(s.f, 8, High(a), High(b), High(a) + High(b) + s.f.c)]
    BY Zenon DEF AdcOp
  <2>2. t.r = h /\ t.f = SetFlagsAdd(s.f, 8, High(a), High(b), h) BY <1>1, <2>1
  <2> HIDE DEF h, t
  <2>3. Bit(High(a), 7) = Bit(a, 15) /\ Bit(High(b), 7) = Bit(b, 15) BY WordParts
  <2>4. /\ SetFlagsAdd(s.f, 8, High(a), High(b), h).c = Flag(h < 0 \/ h >= 256)
        /\ SetFlagsAdd(s.f, 8, High(a), High(b), h).o = Flag(o)
    BY <1>1, <2>3, AddByteFlags
  <2> QED BY <2>2, <2>4
<1>3. /\ 256 * (h % 256) + (l % 256) = (a + b) % 65536
      /\ (h < 0 \/ h >= 256) <=> a + b >= 65536
      /\ (h \div 128) % 2 = ((a + b) \div 32768) % 2
  BY <1>0, SumOfHalves, SMT DEF Low, High
<1>4. o <=> ~Fits(16, d)
  <2>1. Bit(a, 15) = (a \div 32768) % 2 /\ Bit(b, 15) = (b \div 32768) % 2 BY WordParts
  <2>2. Bit(h, 7) = ((a + b) \div 32768) % 2 BY <1>3, Halves, SMT DEF Bit
  <2>3. Fits(16, d) <=> (-32768 <= d /\ d < 32768) BY Halves, SMT DEF Fits
  <2>4. d = (IF a >= 32768 THEN a - 65536 ELSE a) + (IF b >= 32768 THEN b - 65536 ELSE b)
    BY WordFacts
  <2> HIDE DEF h
  <2>5. o <=> (d < -32768 \/ d > 32767)
    BY <1>0, <2>1, <2>2, <2>4, SMT
  <2>6. d \in Int BY <1>0, <2>4
  <2> HIDE DEF d, o
  <2> QED BY <2>3, <2>5, <2>6
<1> HIDE DEF s, t, l, h, k, o, d
<1>5. Pair(Low(t.r), Low(s.r)) = (a + b) % WordSize
  BY <1>1, <1>2, <1>3, SMT DEF Pair, Low, WordSize
<1>6. t.f.c = Flag(a + b >= WordSize)
  BY <1>2, <1>3, SMT DEF Flag, WordSize
<1>7. t.f.o = Flag(~Fits(16, d))
  BY <1>2, <1>4, SMT DEF Flag
<1> QED BY <1>5, <1>6, <1>7 DEF s, t, d

\* SUB of the low halves and SBB of the high ones subtract words, with borrow
\* and signed overflow (set_flags_sub_8, 8088.c:503-522, SUB, 1107-1177, and
\* SBB, 923-993).
THEOREM BytewiseDifference ==
  ASSUME NEW f \in Flags8088, NEW a \in Words16, NEW b \in Words16
  PROVE  LET s == SubOp(f, 8, Low(a), Low(b))
             t == SbbOp(s.f, 8, High(a), High(b))
         IN  /\ Pair(Low(t.r), Low(s.r)) = (a - b) % WordSize
             /\ t.f.c = Flag(a < b)
             /\ t.f.o = Flag(~Fits(16, Signed(16, a) - Signed(16, b)))
<1> DEFINE s == SubOp(f, 8, Low(a), Low(b))
           t == SbbOp(s.f, 8, High(a), High(b))
           l == Low(a) - Low(b)
           k == Flag(l < 0 \/ l >= 256)
           h == High(a) - High(b) - k
           d == Signed(16, a) - Signed(16, b)
           o == Bit(h, 7) # Bit(a, 15) /\ Bit(a, 15) # Bit(b, 15)
<1>0. /\ a \in Int /\ 0 <= a /\ a < 65536 /\ b \in Int /\ 0 <= b /\ b < 65536
      /\ Low(a) \in Int /\ Low(b) \in Int /\ High(a) \in Int /\ High(b) \in Int
  BY WordFacts, WordParts
<1>1. s.r = l /\ s.f \in Flags8088 /\ s.f.c = k
  <2>1. s.r = l /\ s.f = SetFlagsSub(f, 8, Low(a), Low(b), l) BY Zenon DEF SubOp
  <2>2. l \in Int /\ 8 \in Widths BY <1>0 DEF Widths
  <2> HIDE DEF l
  <2>3. SetFlagsSub(f, 8, Low(a), Low(b), l) \in Flags8088 BY <1>0, <2>2, AddSubAreFlags
  <2>4. SetFlagsSub(f, 8, Low(a), Low(b), l).c = k BY SubByteFlags
  <2> HIDE DEF s, k
  <2> QED BY <2>1, <2>3, <2>4
<1>2. t.r = h /\ t.f.c = Flag(h < 0 \/ h >= 256) /\ t.f.o = Flag(o)
  <2> HIDE DEF s, k, l
  <2>1. t = [r |-> High(a) - High(b) - s.f.c,
             f |-> SetFlagsSub(s.f, 8, High(a), High(b), High(a) - High(b) - s.f.c)]
    BY Zenon DEF SbbOp
  <2>2. t.r = h /\ t.f = SetFlagsSub(s.f, 8, High(a), High(b), h) BY <1>1, <2>1
  <2> HIDE DEF h, t
  <2>3. Bit(High(a), 7) = Bit(a, 15) /\ Bit(High(b), 7) = Bit(b, 15) BY WordParts
  <2>4. /\ SetFlagsSub(s.f, 8, High(a), High(b), h).c = Flag(h < 0 \/ h >= 256)
        /\ SetFlagsSub(s.f, 8, High(a), High(b), h).o = Flag(o)
    BY <1>1, <2>3, SubByteFlags
  <2> QED BY <2>2, <2>4
<1>3. /\ 256 * (h % 256) + (l % 256) = (a - b) % 65536
      /\ (h < 0 \/ h >= 256) <=> a < b
      /\ (h \div 128) % 2 = ((a - b) \div 32768) % 2
  BY <1>0, DifferenceOfHalves, SMT DEF Low, High
<1>4. o <=> ~Fits(16, d)
  <2>1. Bit(a, 15) = (a \div 32768) % 2 /\ Bit(b, 15) = (b \div 32768) % 2 BY WordParts
  <2>2. Bit(h, 7) = ((a - b) \div 32768) % 2 BY <1>3, Halves, SMT DEF Bit
  <2>3. Fits(16, d) <=> (-32768 <= d /\ d < 32768) BY Halves, SMT DEF Fits
  <2>4. d = (IF a >= 32768 THEN a - 65536 ELSE a) - (IF b >= 32768 THEN b - 65536 ELSE b)
    BY WordFacts
  <2> HIDE DEF h
  <2>5. o <=> (d < -32768 \/ d > 32767)
    BY <1>0, <2>1, <2>2, <2>4, SMT
  <2>6. d \in Int BY <1>0, <2>4
  <2> HIDE DEF d, o
  <2> QED BY <2>3, <2>5, <2>6
<1> HIDE DEF s, t, l, h, k, o, d
<1>5. Pair(Low(t.r), Low(s.r)) = (a - b) % WordSize
  BY <1>1, <1>2, <1>3, SMT DEF Pair, Low, WordSize
<1>6. t.f.c = Flag(a < b)
  BY <1>2, <1>3, SMT DEF Flag, WordSize
<1>7. t.f.o = Flag(~Fits(16, d))
  BY <1>2, <1>4, SMT DEF Flag
<1> QED BY <1>5, <1>6, <1>7 DEF s, t, d

\* The number a pair of words stands for.
Whole(v) == WordSize * v.hi + v.lo

LEMMA Distribute ==
  ASSUME NEW a \in Int, NEW b \in Int, NEW c \in Int PROVE a * (256 * b + c) = 256 * (a * b) + a * c
  BY SMT
LEMMA WordOfHalves == ASSUME NEW b \in Words16 PROVE b = 256 * High(b) + Low(b)
<1>1. b \in Int /\ 0 <= b /\ b < 65536 BY WordFacts
<1> QED BY <1>1, SMT DEF High, Low

LEMMA Divided ==
  ASSUME NEW a \in Int, NEW n \in Nat \ {0}
  PROVE  a \div n \in Int /\ a % n \in 0..(n - 1) /\ a = n * (a \div n) + (a % n) /\ a % n \in Int
<1>1. a \div n \in Int /\ a % n \in 0..(n - 1) /\ a = n * (a \div n) + (a % n) BY Quotient
<1>2. a % n \in Int BY <1>1
<1> QED BY <1>1, <1>2

\* MUL's two halves of a product, which the model forms from products of words
\* and bytes, make the product (MUL by a word, 8088.c:4012-4028).
THEOREM ProductMultiplies ==
  ASSUME NEW a \in Int, NEW b \in Words16
  PROVE  Whole(Product(a, b)) = a * b /\ Product(a, b).lo \in Words16
<1> DEFINE h == High(b)
           l == Low(b)
           u == a * h
           p == a * l
           lower == p + 256 * (u % 256)
           hi == u \div 256 + lower \div WordSize
           lo == lower % WordSize
<1>1. Product(a, b) = Wide(hi, lo) BY Zenon DEF Product
<1>2. h \in Int /\ l \in Int /\ b = 256 * h + l BY WordParts, WordOfHalves
<1> HIDE DEF h, l
<1>3. u \in Int /\ p \in Int BY <1>2, ProductIsInt
<1>4. a * b = 256 * u + p BY <1>2, Distribute
<1> HIDE DEF u, p
<1>5. lower \in Int /\ u \div 256 \in Int /\ u = 256 * (u \div 256) + (u % 256) /\ u % 256 \in Int
  BY <1>3, Quotient
<1>6. /\ lower \div WordSize \in Int /\ lo \in Int
      /\ lower = WordSize * (lower \div WordSize) + lo
  <2> HIDE DEF lower
  <2>1. WordSize \in Nat \ {0} BY WordSizeIs
  <2> QED BY <1>5, <2>1, Divided, Zenon
<1>7. lo \in Words16 BY <1>5, WordCut
<1>8. WordSize * hi + lo = a * b
  <2>1. WordSize = 65536 BY SMT DEF WordSize
  <2> DEFINE k == lower \div WordSize
  <2>2. lower = 65536 * k + lo /\ k \in Int BY <1>6, <2>1
  <2> HIDE DEF lo, k
  <2>3. 65536 * (u \div 256 + k) + lo = 256 * u + p BY <1>3, <1>5, <1>6, <2>2, SMT
  <2> QED BY <1>4, <2>1, <2>3 DEF k
<1> HIDE DEF hi, lo
<1>9. Wide(hi, lo).hi = hi /\ Wide(hi, lo).lo = lo BY Zenon DEF Wide
<1> QED BY <1>1, <1>7, <1>8, <1>9, Zenon DEF Whole

LEMMA DigitOfQuotient ==
  ASSUME NEW d \in Nat \ {0}, NEW r \in 0..(d - 1), NEW b \in Bytes
  PROVE  (256 * r + b) \div d \in Bytes
<1> DEFINE v == 256 * r + b
           q == v \div d
<1>1. v \in Int /\ 0 <= v /\ v < 256 * d BY SMT DEF Bytes
<1> HIDE DEF v
<1>2. q \in Int /\ v % d \in 0..(d - 1) /\ v = d * q + (v % d) BY <1>1, Quotient
<1> HIDE DEF q
<1>3. d * q <= v /\ v < d * (q + 1) BY <1>2, SMT
<1>4. 0 <= q
  <2> SUFFICES ASSUME q <= -1 PROVE FALSE BY <1>2
  <2>1. d * (q + 1) <= 0 BY <1>2, SMT
  <2> QED BY <1>1, <1>2, <1>3, <2>1
<1>5. q <= 255
  <2> SUFFICES ASSUME 256 <= q PROVE FALSE BY <1>2
  <2>1. d * q >= 256 * d BY <1>2, SMT
  <2> QED BY <1>1, <1>2, <1>3, <2>1
<1> QED BY <1>2, <1>4, <1>5 DEF Bytes, q, v

\* Divides two words by one, a digit of 256 at a time: the quotient and the
\* remainder of the 32-bit number, the remainder smaller than the divisor
\* (DIV by a word, 8088.c:4052-4078).
THEOREM DivisionDivides ==
  ASSUME NEW h \in Words16, NEW l \in Words16, NEW d \in Words16, d # 0
  PROVE  LET u == Divide(Wide(h, l), Wide(0, d))
         IN  /\ Whole(Wide(h, l)) = d * Whole(u.q) + u.r.lo
             /\ u.q.lo \in Words16 /\ u.q.hi \in Nat /\ u.r.lo \in 0..(d - 1)
<1> DEFINE b == High(l)
           c == Low(l)
           q0 == h \div d
           r0 == h % d
           v1 == r0 * 256 + b
           q1 == v1 \div d
           r1 == v1 % d
           v2 == r1 * 256 + c
           q2 == v2 \div d
           r2 == v2 % d
           u == Divide(Wide(h, l), Wide(0, d))
<1>0. d \in Nat \ {0} /\ h \in Int /\ h >= 0 BY WordFacts
<1>1. u.q.hi = q0 /\ u.q.lo = Pair(q1, q2) /\ u.r.lo = r2
  BY Zenon DEF Divide, Wide
<1>2. b \in Bytes /\ c \in Bytes /\ b \in Int /\ c \in Int /\ l = 256 * b + c
  BY WordFacts, HalfIsByte, ByteIsInt, WordOfHalves
<1> HIDE DEF u, b, c
<1>3. q0 \in Int /\ r0 \in 0..(d - 1) /\ h = d * q0 + r0 /\ r0 \in Int BY <1>0, Divided, Zenon
<1>4. q0 \in Nat
  <2> HIDE DEF q0
  <2> SUFFICES ASSUME q0 <= -1 PROVE FALSE BY <1>3
  <2>1. d * (q0 + 1) <= 0 BY <1>0, <1>3, SMT
  <2>2. d * (q0 + 1) = d * q0 + d BY <1>0, <1>3, SMT
  <2> QED BY <1>0, <1>3, <2>1, <2>2
<1> HIDE DEF q0, r0
<1>5. v1 \in Int /\ v1 = 256 * r0 + b BY <1>2, <1>3
<1>6. q1 \in Bytes BY <1>0, <1>2, <1>3, <1>5, DigitOfQuotient
<1> HIDE DEF v1
<1>7. q1 \in Int /\ r1 \in 0..(d - 1) /\ v1 = d * q1 + r1 /\ r1 \in Int 
  <2>1. v1 \in Int BY <1>5
  <2> QED BY <1>0, <2>1, Divided, Zenon
<1> HIDE DEF q1, r1
<1>8. v2 \in Int /\ v2 = 256 * r1 + c BY <1>2, <1>7
<1>9. q2 \in Bytes BY <1>0, <1>2, <1>7, <1>8, DigitOfQuotient
<1> HIDE DEF v2
<1>10. q2 \in Int /\ r2 \in 0..(d - 1) /\ v2 = d * q2 + r2 /\ r2 \in Int 
  <2>1. v2 \in Int BY <1>8
  <2> QED BY <1>0, <2>1, Divided, Zenon
<1> HIDE DEF q2, r2
<1>11. 65536 * h + l = d * (65536 * q0 + (256 * q1 + q2)) + r2
  <2> DEFINE p0 == d * q0
             p1 == d * q1
             p2 == d * q2
  <2>1. p0 \in Int /\ p1 \in Int /\ p2 \in Int BY <1>0, <1>3, <1>7, <1>10, ProductIsInt
  <2>2. d * (256 * q1 + q2) = 256 * p1 + p2 BY <1>0, <1>7, <1>10, Distribute
  <2>3. 256 * q0 \in Int /\ d * (256 * q0) = 256 * p0 + d * 0 BY <1>0, <1>3, Distribute
  <2>4. d * (256 * (256 * q0) + (256 * q1 + q2)) = 256 * (d * (256 * q0)) + d * (256 * q1 + q2)
    <3>1. 256 * q1 + q2 \in Int BY <1>7, <1>10
    <3> QED BY <1>0, <2>3, <3>1, Distribute
  <2>5. d * 0 = 0 BY <1>0
  <2>6. 65536 * q0 + (256 * q1 + q2) = 256 * (256 * q0) + (256 * q1 + q2) BY <1>3, <1>7, <1>10, SMT
  <2>7. h = p0 + r0 /\ v1 = p1 + r1 /\ v2 = p2 + r2 BY <1>3, <1>7, <1>10
  <2>8. d * (65536 * q0 + (256 * q1 + q2)) = 65536 * p0 + 256 * p1 + p2
    <3>1. d * (65536 * q0 + (256 * q1 + q2)) = d * (256 * (256 * q0) + (256 * q1 + q2)) BY <2>6
    <3>2. 256 * (256 * p0) = 65536 * p0 BY <2>1, SMT
    <3> HIDE DEF p0, p1, p2
    <3> QED BY <2>1, <2>2, <2>3, <2>4, <2>5, <3>1, <3>2
  <2> HIDE DEF p0, p1, p2
  <2> QED BY <1>0, <1>2, <1>3, <1>5, <1>7, <1>8, <1>10, <2>1, <2>7, <2>8, SMT
<1>12. WordSize = 65536 BY SMT DEF WordSize
<1>13. Whole(Wide(h, l)) = 65536 * h + l
  <2>1. Wide(h, l).hi = h /\ Wide(h, l).lo = l BY Zenon DEF Wide
  <2> QED BY <1>12, <2>1, SMT DEF Whole
<1>14. Whole(u.q) = 65536 * q0 + (256 * q1 + q2)
  <2>1. Whole(u.q) = WordSize * q0 + Pair(q1, q2) BY <1>1, Zenon DEF Whole
  <2> QED BY <1>12, <2>1, SMT DEF Pair
<1>15. Pair(q1, q2) \in Words16 BY <1>6, <1>9, PairIsWord
<1>16. Whole(Wide(h, l)) = d * Whole(u.q) + u.r.lo BY <1>1, <1>11, <1>13, <1>14
<1> QED BY <1>1, <1>4, <1>10, <1>15, <1>16, Zenon DEF u

LEMMA QuotientBelow ==
  ASSUME NEW d \in Nat \ {0}, NEW q \in Int, NEW r \in 0..(d - 1), NEW n \in Int
  PROVE  d * q + r < d * n <=> q < n
<1>1. d * q \in Int /\ d * n \in Int BY ProductIsInt
<1>2. CASE q < n
  <2>1. d * (n - q - 1) >= 0 BY <1>2, SMT
  <2>2. d * (n - q - 1) = d * n - d * q - d BY SMT
  <2> QED BY <1>1, <1>2, <2>1, <2>2
<1>3. CASE ~(q < n)
  <2>1. d * (q - n) >= 0 BY <1>3, SMT
  <2>2. d * (q - n) = d * q - d * n BY SMT
  <2> QED BY <1>1, <1>3, <2>1, <2>2
<1> QED BY <1>2, <1>3

\* What a division by d of m's accumulator is of: AX, or DX and AX.
Dividend(m, n) ==
  IF n = 8 THEN DecodeReg(m, 16, AX) ELSE Whole(Wide(DecodeReg(m, 16, DX), DecodeReg(m, 16, AX)))
\* The quotient and the remainder in the accumulator.
Divides(m, n, q, r) ==
  IF n = 8 THEN WritebackReg(m, 16, AX, Pair(r, q)) ELSE SetAXDX(m, q, r)

\* DIV, by bytes and by words, traps to interrupt 0 exactly when the divisor is
\* zero or the quotient does not fit, and otherwise leaves the quotient and the
\* remainder of the division in the accumulator (8088.c:3897-3919, 4052-4078).
THEOREM DivisionsDivideOrTrap ==
  ASSUME NEW m \in Machines, NEW n \in Widths, NEW d \in Numbers(n)
  PROVE  LET v == Dividend(m, n)
         IN  /\ d = 0 \/ v >= d * 2^n => Div(m, n, d) = Trap(m, 0)
             /\ d # 0 /\ v < d * 2^n =>
                  \E q, r \in Numbers(n) :
                    v = d * q + r /\ r < d /\ Div(m, n, d) = Divides(m, n, q, r)
<1> DEFINE ax == DecodeReg(m, 16, AX)
           dx == DecodeReg(m, 16, DX)
           u == Divide(Wide(dx, ax), Wide(0, d))
           v == Dividend(m, n)
           N == 2^n
<1>0. ax \in Words16 /\ dx \in Words16
  BY RegIsWord, BothWidths, RegisterNames
<1>1. CASE d = 0
  <2>1. Div(m, n, d) = Trap(m, 0) BY <1>1, Zenon DEF Div
  <2> QED BY <1>1, <2>1
<1>2. CASE n = 8 /\ d # 0
  <2> DEFINE q == ax \div d
             r == ax % d
  <2>1. v = ax /\ N = 256 BY <1>2, Halves DEF Dividend
  <2>2. d \in Nat \ {0} /\ d < 256 /\ Numbers(n) = 0..255
    <3>1. Numbers(n) = 0..(256 - 1) BY <1>2, Halves DEF Numbers
    <3> QED BY <1>2, <3>1
  <2>3. Div(m, n, d) = IF q > 255 THEN Trap(m, 0) ELSE Divides(m, n, q, r)
    BY <1>2, Zenon DEF Div, Divides
  <2>4. ax \in Int /\ ax >= 0 BY <1>0, WordFacts
  <2> HIDE DEF ax, v, N
  <2>5. q \in Int /\ r \in 0..(d - 1) /\ ax = d * q + r /\ r \in Int BY <2>2, <2>4, Divided, Zenon
  <2> HIDE DEF q, r
  <2>6. ax < d * 256 <=> q < 256 BY <2>2, <2>5, QuotientBelow
  <2>7. ~(ax < d * 0)  BY <2>2, <2>4
  <2>8. ~(q < 0) BY <2>2, <2>5, <2>7, QuotientBelow
  <2>9. d * N \in Int /\ d * N = d * 256 BY <2>1, <2>2
  <2> SUFFICES /\ v >= d * N => Div(m, n, d) = Trap(m, 0)
               /\ v < d * N => \E a, b \in Numbers(n) :
                    v = d * a + b /\ b < d /\ Div(m, n, d) = Divides(m, n, a, b)
    BY <1>2 DEF v, N
  <2>10. ASSUME v >= d * N PROVE Div(m, n, d) = Trap(m, 0)
    <3>1. q > 255 BY <2>1, <2>2, <2>4, <2>5, <2>6, <2>9, <2>10
    <3> QED BY <2>3, <3>1
  <2>11. ASSUME v < d * N
         PROVE  \E a, b \in Numbers(n) :
                  v = d * a + b /\ b < d /\ Div(m, n, d) = Divides(m, n, a, b)
    <3>1. q < 256 BY <2>1, <2>6, <2>9, <2>11
    <3>2. q \in Numbers(n) /\ r \in Numbers(n) /\ r < d /\ ~(q > 255) BY <2>2, <2>5, <2>8, <3>1
    <3> QED BY <2>1, <2>3, <2>5, <3>2
  <2> QED BY <2>10, <2>11
<1>3. CASE n = 16 /\ d # 0
  <2> DEFINE q == u.q.lo
             r == u.r.lo
             h == u.q.hi
  <2>1. v = Whole(Wide(dx, ax)) /\ N = WordSize BY <1>3, Halves DEF Dividend, WordSize
  <2>2. d \in Nat \ {0} /\ d <= WordSize - 1 /\ Numbers(n) = Words16 /\ d \in Words16
    <3>1. Numbers(n) = Words16 BY <1>3, Halves DEF Numbers, Words16, WordSize
    <3> QED BY <1>3, <3>1, WordSizeIs DEF Words16
  <2>3. Div(m, n, d) = IF h # 0 THEN Trap(m, 0) ELSE Divides(m, n, q, r)
    <3>1. n # 8 /\ d # 0 BY <1>3
    <3> QED BY <3>1, Zenon DEF Div, Divides
  <2>4. /\ v = d * Whole(u.q) + r
        /\ q \in Words16 /\ h \in Nat /\ r \in 0..(d - 1)
    <3>1. d # 0 BY <1>3
    <3> HIDE DEF ax, dx, v
    <3> QED BY <1>0, <2>1, <2>2, <3>1, DivisionDivides, Zenon
  <2>5. Whole(u.q) = WordSize * h + q BY Zenon DEF Whole
  <2> HIDE DEF v, N, q, r, h, u
  <2>6. WordSize * h + q \in Int /\ q \in 0..(WordSize - 1) /\ WordSize \in Nat \ {0}
    BY <2>4, WordSizeIs DEF Words16
  <2>7. v < d * N <=> WordSize * h + q < WordSize BY <2>1, <2>2, <2>4, <2>5, <2>6, QuotientBelow
  <2>8. WordSize * h + q < WordSize <=> h = 0
    <3>1. WordSize * h + q < WordSize * 1 <=> h < 1 BY <2>4, <2>6, QuotientBelow
    <3> QED BY <2>4, <2>6, <3>1
  <2>9. d * N \in Int /\ v \in Int BY <2>1, <2>2, <2>4, <2>5, <2>6
  <2> SUFFICES /\ v >= d * N => Div(m, n, d) = Trap(m, 0)
               /\ v < d * N => \E a, b \in Numbers(n) :
                    v = d * a + b /\ b < d /\ Div(m, n, d) = Divides(m, n, a, b)
    BY <1>3 DEF v, N
  <2>10. ASSUME v >= d * N PROVE Div(m, n, d) = Trap(m, 0)
    BY <2>3, <2>7, <2>8, <2>9, <2>10
  <2>11. ASSUME v < d * N
         PROVE  \E a, b \in Numbers(n) :
                  v = d * a + b /\ b < d /\ Div(m, n, d) = Divides(m, n, a, b)
    <3>1. h = 0 BY <2>7, <2>8, <2>11
    <3>2. v = d * q + r BY <2>4, <2>5, <2>6, <3>1
    <3>3. r \in Words16 /\ r < d BY <2>2, <2>4, <2>6 DEF Words16
    <3> QED BY <2>2, <2>3, <2>4, <3>1, <3>2, <3>3
  <2> QED BY <2>10, <2>11
<1> QED BY <1>1, <1>2, <1>3 DEF Widths

LEMMA MagnitudeOfWord ==
  ASSUME NEW a \in Words16
  PROVE  LET v == Signed(16, a)
             g == IF a > 32767 THEN -v ELSE v
         IN  /\ (IF a > 32767 THEN Negate(SignWide(16, a)) ELSE SignWide(16, a)) = Wide(0, g)
             /\ v \in Int /\ g \in Words16 /\ g <= 32768
<1> DEFINE v == Signed(16, a)
<1>0. a \in Int /\ 0 <= a /\ a < 65536 /\ WordSize = 65536 BY WordFacts DEF WordSize
<1>1. v = IF a >= 32768 THEN a - 65536 ELSE a BY WordFacts
<1> HIDE DEF v
<1>2. CASE a > 32767
  <2>1. SignWide(16, a) = Wide(65535, a)
    <3>1. ~(a < 2^(16 - 1)) /\ 2^16 = 65536 /\ WordSize - 1 = 65535 /\ a + WordSize - 65536 = a
      BY <1>0, <1>2, Halves
    <3> QED BY <3>1, SMT DEF SignWide
  <2>2. Wide(65535, a).hi = 65535 /\ Wide(65535, a).lo = a BY SMT DEF Wide
  <2>3. Negate(Wide(65535, a)) = Wide((-65535 - Flag(a # 0)) % 65536, (-a) % 65536)
    BY <1>0, <2>2, SMT DEF Negate
  <2>4. (-65535 - Flag(a # 0)) % 65536 = 0 /\ (-a) % 65536 = 65536 - a BY <1>0, <1>2, SMT DEF Flag
  <2>5. -v = 65536 - a /\ v \in Int BY <1>0, <1>1, <1>2
  <2>6. 65536 - a \in Words16 BY <1>0, <1>2, SmallIsWord
  <2>7. 65536 - a <= 32768 BY <1>0, <1>2
  <2> QED BY <1>2, <2>1, <2>3, <2>4, <2>5, <2>6, <2>7, SMT DEF v
<1>3. CASE ~(a > 32767)
  <2>1. SignWide(16, a) = Wide(0, a)
    <3>1. a < 2^(16 - 1) BY <1>0, <1>3, Halves
    <3> QED BY <3>1, SMT DEF SignWide
  <2>2. v = a /\ a <= 32768 BY <1>0, <1>1, <1>3
  <2> QED BY <1>0, <1>3, <2>1, <2>2, SMT DEF v
<1> QED BY <1>2, <1>3
LEMMA MagnitudeOfByte ==
  ASSUME NEW d \in Bytes, d # 0
  PROVE  LET w == Signed(8, d)
             g == IF d > 127 THEN -w ELSE w
         IN  /\ (IF d > 127 THEN Negate(SignWide(8, d)) ELSE SignWide(8, d)) = Wide(0, g)
             /\ w \in Int /\ g \in Words16 /\ g # 0
<1> DEFINE w == Signed(8, d)
<1>0. d \in Int /\ 0 < d /\ d < 256 /\ WordSize = 65536 BY DEF Bytes, WordSize
<1>1. w = IF d >= 128 THEN d - 256 ELSE d BY Halves, SMT DEF Signed
<1> HIDE DEF w
<1>2. CASE d > 127
  <2> DEFINE l == d + 65280
  <2>1. SignWide(8, d) = Wide(65535, l)
    <3>1. ~(d < 2^(8 - 1)) /\ 2^8 = 256 /\ WordSize - 1 = 65535 /\ d + WordSize - 256 = l
      BY <1>0, <1>2, Halves
    <3> HIDE DEF l
    <3> QED BY <3>1, SMT DEF SignWide
  <2>2. Wide(65535, l).hi = 65535 /\ Wide(65535, l).lo = l BY SMT DEF Wide
  <2>3. Negate(Wide(65535, l)) = Wide((-65535 - Flag(l # 0)) % 65536, (-l) % 65536)
    BY <1>0, <2>2, SMT DEF Negate
  <2>4. (-65535 - Flag(l # 0)) % 65536 = 0 /\ (-l) % 65536 = 256 - d BY <1>0, <1>2, SMT DEF Flag
  <2>5. -w = 256 - d /\ w \in Int /\ 256 - d # 0 BY <1>0, <1>1, <1>2
  <2>6. 256 - d \in Words16 BY <1>0, <1>2, SmallIsWord
  <2> HIDE DEF l
  <2> QED BY <1>2, <2>1, <2>3, <2>4, <2>5, <2>6, SMT DEF w
<1>3. CASE ~(d > 127)
  <2>1. SignWide(8, d) = Wide(0, d)
    <3>1. d < 2^(8 - 1) BY <1>0, <1>3, Halves
    <3> QED BY <3>1, SMT DEF SignWide
  <2>2. w = d BY <1>0, <1>1, <1>3
  <2>3. d \in Words16 BY ByteIsWord
  <2> QED BY <1>0, <1>3, <2>1, <2>2, <2>3, SMT DEF w
<1> QED BY <1>2, <1>3

\* The magnitude of v.
Size(v) == IF v < 0 THEN -v ELSE v
\* q and r are the quotient towards zero and the remainder of v by w: the
\* remainder is smaller than w and has the sign of v.
Towards(v, w, q, r) ==
  /\ q \in Int /\ r \in Int
  /\ v = w * q + r
  /\ Size(r) < Size(w)
  /\ (r < 0 => v < 0) /\ (r > 0 => v > 0)

LEMMA SignsOfQuotient ==
  ASSUME NEW v \in Int, NEW w \in Int, w # 0, NEW Q \in Nat, NEW R \in Int,
         0 <= R, R < (IF w < 0 THEN -w ELSE w),
         (IF v < 0 THEN -v ELSE v) = (IF w < 0 THEN -w ELSE w) * Q + R
  PROVE  Towards(v, w, IF (v < 0) # (w < 0) THEN -Q ELSE Q, IF v < 0 THEN -R ELSE R)
<1> DEFINE p == w * Q
<1>1. p \in Int /\ w * (-Q) = -p /\ (-w) * Q = -p /\ -Q \in Int BY ProductIsInt, SMT
<1>2. CASE v < 0 /\ w < 0
  <2>1. -v = -p + R BY <1>1, <1>2
  <2> HIDE DEF p
  <2>2. v = p - R BY <1>1, <2>1
  <2> QED BY <1>1, <1>2, <2>2, SMT DEF Towards, Size, p
<1>3. CASE v < 0 /\ ~(w < 0)
  <2>1. -v = p + R BY <1>3
  <2> HIDE DEF p
  <2>2. v = w * (-Q) - R BY <1>1, <2>1
  <2> QED BY <1>1, <1>3, <2>2, SMT DEF Towards, Size
<1>4. CASE ~(v < 0) /\ w < 0
  <2>1. v = -p + R BY <1>1, <1>4
  <2> HIDE DEF p
  <2>2. v = w * (-Q) + R BY <1>1, <2>1
  <2>3. R > 0 => v > 0
    <3>1. -p >= 0
      <4>1. (-w) * Q >= 0 BY <1>4, SMT
      <4> QED BY <1>1, <4>1
    <3> QED BY <1>1, <2>1, <3>1
  <2> QED BY <1>1, <1>4, <2>2, <2>3, SMT DEF Towards, Size
<1>5. CASE ~(v < 0) /\ ~(w < 0)
  <2>1. v = p + R BY <1>5
  <2> HIDE DEF p
  <2>2. v = w * Q + R BY <2>1 DEF p
  <2>3. R > 0 => v > 0
    <3>1. p >= 0 BY <1>5, SMT DEF p
    <3> QED BY <1>1, <2>1, <3>1
  <2> QED BY <1>1, <1>5, <2>2, <2>3, SMT DEF Towards, Size
<1> QED BY <1>2, <1>3, <1>4, <1>5

LEMMA MagnitudesDivided ==
  ASSUME NEW g \in Words16, NEW k \in Words16, k # 0
  PROVE  LET u == Divide(Wide(0, g), Wide(0, k))
         IN  /\ u.q.hi = 0 /\ u.q.lo \in Nat /\ u.r.lo \in 0..(k - 1)
             /\ g = k * u.q.lo + u.r.lo
<1> DEFINE u == Divide(Wide(0, g), Wide(0, k))
           Q == u.q.lo
           R == u.r.lo
           h == u.q.hi
<1>1. /\ Whole(Wide(0, g)) = k * Whole(u.q) + R
      /\ Q \in Words16 /\ h \in Nat /\ R \in 0..(k - 1)
  <2>1. 0 \in Words16 BY WordSizeIs, SmallIsWord
  <2> QED BY <2>1, DivisionDivides, Zenon
<1>2. Whole(u.q) = WordSize * h + Q BY Zenon DEF Whole
<1>3. Whole(Wide(0, g)) = WordSize * 0 + g
  <2>1. Wide(0, g).hi = 0 /\ Wide(0, g).lo = g BY Zenon DEF Wide
  <2> QED BY <2>1, Zenon DEF Whole
<1> HIDE DEF u, Q, R, h
<1>4. WordSize \in Nat \ {0} BY WordSizeIs
<1>5. k \in Nat \ {0} /\ g \in Nat /\ g < WordSize /\ Q \in Nat /\ Q \in 0..(WordSize - 1)
  BY <1>1, <1>4 DEF Words16
<1>6. WordSize * 0 = 0 BY <1>4
<1>7. g = k * Whole(u.q) + R BY <1>1, <1>3, <1>5, <1>6
<1>8. Whole(u.q) \in Int
  <2>1. WordSize * h \in Int BY <1>1, <1>4, ProductIsInt
  <2> QED BY <1>2, <1>5, <2>1
<1>9. g < k * WordSize
  <2>1. k * WordSize >= WordSize /\ k * WordSize \in Int BY <1>4, <1>5, SMT
  <2> QED BY <1>4, <1>5, <2>1
<1>10. Whole(u.q) < WordSize
  <2> DEFINE W == Whole(u.q)
  <2>1. W \in Int BY <1>8
  <2>2. k * W + R < k * WordSize BY <1>7, <1>9
  <2> HIDE DEF W
  <2>3. W < WordSize BY <1>1, <1>4, <1>5, <2>1, <2>2, QuotientBelow
  <2> QED BY <2>3 DEF W
<1>11. h = 0
  <2>1. WordSize * h + Q < WordSize * 1 <=> h < 1 BY <1>1, <1>4, <1>5, QuotientBelow
  <2> QED BY <1>1, <1>2, <1>4, <1>10, <2>1
<1>12. Whole(u.q) = Q BY <1>2, <1>5, <1>6, <1>11
<1>13. g = k * Q + R BY <1>7, <1>12
<1> QED BY <1>1, <1>5, <1>11, <1>13, Zenon DEF u, Q, R, h


\* What IDIV makes of the division u of magnitudes, with the signs s and t.
WithSigns(i, u, s, t) ==
  /\ i.fits <=> (u.q.hi = 0 /\ u.q.lo <= 2^(8 - 1) - Flag(s = t))
  /\ i.q = (IF s # t THEN -u.q.lo ELSE u.q.lo) % 2^8
  /\ i.r = (IF s THEN -u.r.lo ELSE u.r.lo) % 2^8
LEMMA QuotientIs ==
  ASSUME NEW v \in Int, NEW w \in Int, w # 0, NEW i, NEW u,
         Size(v) \in Words16, Size(w) \in Words16,
         u = Divide(Wide(0, Size(v)), Wide(0, Size(w))),
         WithSigns(i, u, v < 0, w < 0)
  PROVE  \E q, r \in Int : /\ Towards(v, w, q, r)
                           /\ i.fits <=> Fits(8, q)
                           /\ i.q = q % 2^8 /\ i.r = r % 2^8
<1> DEFINE g == Size(v)
           k == Size(w)
           Q == u.q.lo
           R == u.r.lo
           q == IF (v < 0) # (w < 0) THEN -Q ELSE Q
           r == IF v < 0 THEN -R ELSE R
<1>1. k # 0 BY SMT DEF Size
<1>2. u.q.hi = 0 /\ Q \in Nat /\ R \in 0..(k - 1) /\ g = k * Q + R
  <2>1. g \in Words16 /\ k \in Words16 /\ u = Divide(Wide(0, g), Wide(0, k)) OBVIOUS
  <2> HIDE DEF g, k
  <2> QED BY <1>1, <2>1, MagnitudesDivided
<1>3. /\ i.fits <=> (u.q.hi = 0 /\ Q <= 2^(8 - 1) - Flag((v < 0) = (w < 0)))
      /\ i.q = q % 2^8
      /\ i.r = r % 2^8
  BY DEF WithSigns
<1>4. /\ g = (IF v < 0 THEN -v ELSE v) /\ k = (IF w < 0 THEN -w ELSE w)
      /\ g \in Words16 /\ k \in Words16
  BY DEF Size
<1> HIDE DEF Q, R, g, k
<1>5. R \in Int /\ 0 <= R /\ R < k BY <1>1, <1>2, <1>4, WordFacts
<1>6. Towards(v, w, q, r)
  <2>1. R < (IF w < 0 THEN -w ELSE w) BY <1>4, <1>5
  <2>2. (IF v < 0 THEN -v ELSE v) = (IF w < 0 THEN -w ELSE w) * Q + R BY <1>2, <1>4
  <2> QED BY <1>2, <1>5, <2>1, <2>2, SignsOfQuotient
<1>7. q \in Int /\ r \in Int BY <1>2, <1>5
<1>8. i.fits <=> Fits(8, q)
  <2>1. 2^(8 - 1) = 128 BY Halves
  <2>2. Fits(8, q) <=> (-128 <= q /\ q < 128) BY <2>1 DEF Fits
  <2>3. i.fits <=> Q <= 128 - Flag((v < 0) = (w < 0)) BY <1>2, <1>3, <2>1
  <2>4. CASE (v < 0) = (w < 0)
    <3>1. q = Q /\ Flag((v < 0) = (w < 0)) = 1 BY <2>4 DEF Flag
    <3> QED BY <1>2, <2>2, <2>3, <3>1
  <2>5. CASE ~((v < 0) = (w < 0))
    <3>1. q = -Q /\ Flag((v < 0) = (w < 0)) = 0 BY <2>5 DEF Flag
    <3> QED BY <1>2, <2>2, <2>3, <3>1
  <2> QED BY <2>4, <2>5
<1> HIDE DEF q, r
<1> QED BY <1>3, <1>6, <1>7, <1>8

\* IDIV by a byte traps exactly when the divisor is zero or the quotient is not
\* a signed byte, so that -128 does not trap, and otherwise leaves the quotient
\* towards zero and the remainder with the dividend's sign (8088.c:3921-3971).
THEOREM SignedDivisionsDivideOrTrap ==
  ASSUME NEW m \in Machines, NEW d \in Bytes, NEW e
  PROVE  LET v == Signed(16, DecodeReg(m, 16, AX))
             w == Signed(8, d)
         IN  /\ d = 0 => Idiv(m, 8, d, e) = Trap(m, 0)
             /\ d # 0 => \E q, r \in Int :
                  /\ Towards(v, w, q, r)
                  /\ Idiv(m, 8, d, e) =
                       IF Fits(8, q) THEN WritebackReg(m, 16, AX, Pair(r % 256, q % 256))
                       ELSE Trap(m, 0)
<1>1. CASE d = 0
  <2>1. Idiv(m, 8, 0, e) = Trap(m, 0) BY SMT DEF Idiv
  <2> QED BY <1>1, <2>1
<1>2. CASE d # 0
  <2> DEFINE ax == DecodeReg(m, 16, AX)
             v == Signed(16, ax)
             w == Signed(8, d)
             g == Size(v)
             k == Size(w)
             a == SignWide(16, ax)
             b == SignWide(8, d)
             s == ax > 32767
             t == d > 127
             i == IdivOf(8, a, b, s, t)
             x == IF s THEN Negate(a) ELSE a
             y == IF t THEN Negate(b) ELSE b
             u == Divide(x, y)
  <2>1. ax \in Words16 BY RegIsWord, BothWidths, RegisterNames
  <2>2. Idiv(m, 8, d, e) = IF ~i.fits THEN Trap(m, 0) ELSE WritebackReg(m, 16, AX, Pair(i.r, i.q))
    BY <1>2, SMT DEF Idiv
  <2> HIDE DEF ax
  <2>3. s = (v < 0) /\ t = (w < 0)
    <3>1. ax \in Int /\ 0 <= ax /\ ax < 65536 /\ v = IF ax >= 32768 THEN ax - 65536 ELSE ax
      BY <2>1, WordFacts
    <3>2. d \in Int /\ 0 <= d /\ d < 256 BY DEF Bytes
    <3>3. w = IF d >= 128 THEN d - 256 ELSE d BY Halves, SMT DEF Signed
    <3> HIDE DEF v, w
    <3> QED BY <3>1, <3>2, <3>3
  <2>4. x = Wide(0, g) /\ v \in Int /\ g \in Words16
    BY <2>1, <2>3, MagnitudeOfWord DEF Size
  <2>5. y = Wide(0, k) /\ w \in Int /\ k \in Words16 /\ w # 0
    BY <1>2, <2>3, MagnitudeOfByte DEF Size
  <2> HIDE DEF a, b, s, t
  <2>8. WithSigns(i, u, s, t) BY Zenon DEF IdivOf, WithSigns
  <2> HIDE DEF i
  <2> HIDE DEF x, y, u
  <2>9. u = Divide(Wide(0, g), Wide(0, k)) BY <2>4, <2>5 DEF u
  <2>10. WithSigns(i, u, v < 0, w < 0) BY <2>3, <2>8, Zenon
  <2>6. PICK q \in Int, r \in Int :
          /\ Towards(v, w, q, r)
          /\ i.fits <=> Fits(8, q)
          /\ i.q = q % 2^8 /\ i.r = r % 2^8
    <3> HIDE DEF v, w
    <3> QED BY <2>4, <2>5, <2>9, <2>10, QuotientIs, Zenon
  <2>7. Idiv(m, 8, d, e) =
          IF Fits(8, q) THEN WritebackReg(m, 16, AX, Pair(r % 256, q % 256)) ELSE Trap(m, 0)
    BY <2>2, <2>6, Halves
  <2> QED BY <1>2, <2>6, <2>7 DEF ax
<1> QED BY <1>1, <1>2

-----------------------------------------------------------------------------
(* The stack: what an interrupt or a call leaves there, and a return finds. *)

LEMMA FlagBits ==
  ASSUME NEW c \in {0, 1}, NEW p \in {0, 1}, NEW ac \in {0, 1}, NEW z \in {0, 1}, NEW s \in {0, 1},
         NEW t \in {0, 1}, NEW i \in {0, 1}, NEW d \in {0, 1}, NEW o \in {0, 1}, NEW v,
         v = 2048 * o + 1024 * d + 512 * i + 256 * t + 128 * s + 64 * z + 16 * ac + 4 * p + c + \hf002
  PROVE  /\ v \in Words16
         /\ Bit(v, 0) = c /\ Bit(v, 2) = p /\ Bit(v, 4) = ac /\ Bit(v, 6) = z /\ Bit(v, 7) = s
         /\ Bit(v, 8) = t /\ Bit(v, 9) = i /\ Bit(v, 10) = d /\ Bit(v, 11) = o
<1>1. v \in Int OBVIOUS
<1>2. 0 <= v /\ v <= 65535 OBVIOUS
<1>3. v \in Words16
  <2>1. v < WordSize BY <1>1, <1>2, WordSizeIs
  <2> QED BY <1>1, <1>2, <2>1, SmallIsWord
<1>4. Bit(v, 0) = c
  <2>1. (v \div 1) % 2 = c BY SMT
  <2>2. 2^0 = 1 BY SMT
  <2> QED BY <2>1, <2>2, SMT DEF Bit
<1>5. Bit(v, 2) = p
  <2>1. (v \div 4) % 2 = p BY SMT
  <2>2. 2^2 = 4 BY SMT
  <2> QED BY <2>1, <2>2, SMT DEF Bit
<1>6. Bit(v, 4) = ac
  <2>1. (v \div 16) % 2 = ac BY SMT
  <2>2. 2^4 = 16 BY SMT
  <2> QED BY <2>1, <2>2, SMT DEF Bit
<1>7. Bit(v, 6) = z
  <2>1. (v \div 64) % 2 = z BY SMT
  <2>2. 2^6 = 64 BY SMT
  <2> QED BY <2>1, <2>2, SMT DEF Bit
<1>8. Bit(v, 7) = s
  <2>1. (v \div 128) % 2 = s BY SMT
  <2>2. 2^7 = 128 BY SMT
  <2> QED BY <2>1, <2>2, SMT DEF Bit
<1>9. Bit(v, 8) = t
  <2>1. (v \div 256) % 2 = t BY SMT
  <2>2. 2^8 = 256 BY SMT
  <2> QED BY <2>1, <2>2, SMT DEF Bit
<1>10. Bit(v, 9) = i
  <2>1. (v \div 512) % 2 = i BY SMT
  <2>2. 2^9 = 512 BY SMT
  <2> QED BY <2>1, <2>2, SMT DEF Bit
<1>11. Bit(v, 10) = d
  <2>1. (v \div 1024) % 2 = d BY SMT
  <2>2. 2^10 = 1024 BY SMT
  <2> QED BY <2>1, <2>2, SMT DEF Bit
<1>12. Bit(v, 11) = o
  <2>1. (v \div 2048) % 2 = o BY SMT
  <2>2. 2^11 = 2048 BY SMT
  <2> QED BY <2>1, <2>2, SMT DEF Bit
<1> QED BY <1>3, <1>4, <1>5, <1>6, <1>7, <1>8, <1>9, <1>10, <1>11, <1>12, SMT

\* The flags come back from the word they were stored in.
LEMMA FlagsReturn ==
  ASSUME NEW f \in Flags8088 PROVE FlagsIn(FlagWord(f)) = f /\ FlagWord(f) \in Words16
<1>1. /\ f.c \in {0, 1} /\ f.p \in {0, 1} /\ f.ac \in {0, 1} /\ f.z \in {0, 1} /\ f.s \in {0, 1}
      /\ f.t \in {0, 1} /\ f.i \in {0, 1} /\ f.d \in {0, 1} /\ f.o \in {0, 1}
  BY Zenon DEF Flags8088, Bits
<1>2. f = [c |-> f.c, p |-> f.p, ac |-> f.ac, z |-> f.z, s |-> f.s,
           t |-> f.t, i |-> f.i, d |-> f.d, o |-> f.o]
  BY DEF Flags8088
<1>3. PICK v : v = FlagWord(f) OBVIOUS
<1>4. v = 2048 * f.o + 1024 * f.d + 512 * f.i + 256 * f.t + 128 * f.s + 64 * f.z
            + 16 * f.ac + 4 * f.p + f.c + \hf002
  BY <1>3, SMT DEF FlagWord
<1>5. /\ v \in Words16
      /\ Bit(v, 0) = f.c /\ Bit(v, 2) = f.p /\ Bit(v, 4) = f.ac /\ Bit(v, 6) = f.z /\ Bit(v, 7) = f.s
      /\ Bit(v, 8) = f.t /\ Bit(v, 9) = f.i /\ Bit(v, 10) = f.d /\ Bit(v, 11) = f.o
  BY <1>1, <1>4, FlagBits, SMT
<1>6. FlagsIn(v) = f BY <1>2, <1>5, Zenon DEF FlagsIn
<1> QED BY <1>3, <1>5, <1>6, Zenon

\* The n-th byte from the top of the stack of m.
StackByte(m, k) == Read(m, Phys(m.cpu.s[SS], (m.cpu.w[SP] + k) % WordSize))
\* u has the stack of m, down to the n-th byte.
SameStack(m, u, n) ==
  /\ u.cpu.s[SS] = m.cpu.s[SS] /\ u.cpu.w[SP] = m.cpu.w[SP]
  /\ \A k \in 0..(n - 1) : StackByte(u, k) = StackByte(m, k)

LEMMA WordRange == ASSUME NEW p \in Words16 PROVE p \in Int /\ 0 <= p /\ p <= 65535
<1>0. WordSize = 65536 BY DEF WordSize
<1> QED BY <1>0, SMT DEF Words16

LEMMA OffsetsDiffer ==
  ASSUME NEW p \in Words16, NEW k \in 0..9
  PROVE  /\ (p + k) % WordSize # (p - 1) % WordSize
         /\ (p + k) % WordSize # (p - 2) % WordSize
         /\ (p - 1) % WordSize # (p - 2) % WordSize
<1>0. WordSize = 65536 BY DEF WordSize
<1>1. p \in Int /\ 0 <= p /\ p <= 65535 BY WordRange
<1>2. PICK x \in Int : x = p + k BY <1>1
<1>3. PICK y \in Int : y = p - 1 BY <1>1
<1>4. PICK z \in Int : z = p - 2 BY <1>1
<1>5. x - y >= 1 /\ x - y <= 10 BY <1>1, <1>2, <1>3, SMT
<1>6. x - z >= 2 /\ x - z <= 11 BY <1>1, <1>2, <1>4, SMT
<1>7. y - z = 1 BY <1>1, <1>3, <1>4, SMT
<1>8. x % 65536 # y % 65536 BY <1>5, SMT
<1>9. x % 65536 # z % 65536 BY <1>6, SMT
<1>10. y % 65536 # z % 65536 BY <1>7, SMT
<1>11. (p + k) % 65536 # (p - 1) % 65536 BY <1>2, <1>3, <1>8
<1>12. (p + k) % 65536 # (p - 2) % 65536 BY <1>2, <1>4, <1>9
<1>13. (p - 1) % 65536 # (p - 2) % 65536 BY <1>3, <1>4, <1>10
<1> QED BY <1>0, <1>11, <1>12, <1>13

LEMMA PhysDiffer ==
  ASSUME NEW s \in Words16, NEW a \in Words16, NEW b \in Words16, a # b
  PROVE  Phys(s, a) # Phys(s, b)
<1>0. AddressSpace = 1048576 BY DEF AddressSpace
<1>1. s \in Int /\ a \in Int /\ b \in Int BY WordRange
<1>2. 0 <= a /\ a <= 65535 /\ 0 <= b /\ b <= 65535 BY WordRange
<1>3. PICK x \in Int : x = 16 * s + a BY <1>1
<1>4. PICK y \in Int : y = 16 * s + b BY <1>1
<1>5. x # y /\ x - y < 65536 /\ y - x < 65536 BY <1>1, <1>2, <1>3, <1>4, SMT
<1>6. x % 1048576 # y % 1048576 BY <1>5, SMT
<1> QED BY <1>0, <1>3, <1>4, <1>6 DEF Phys

LEMMA PointerMoves ==
  ASSUME NEW p \in Words16, NEW k \in 0..9
  PROVE  /\ (((p - 2) % WordSize) + (k + 2)) % WordSize = (p + k) % WordSize
         /\ (((p + 2) % WordSize) + k) % WordSize = (p + (k + 2)) % WordSize
         /\ (((p - 2) % WordSize) + 1) % WordSize = (p - 1) % WordSize
         /\ (((p - 2) % WordSize) + 0) % WordSize = (p - 2) % WordSize
         /\ (((p - 2) % WordSize) + 2) % WordSize = p
<1>0. WordSize = 65536 BY DEF WordSize
<1>1. p \in Int /\ k \in Int /\ 0 <= p /\ p <= 65535 BY WordRange
<1>2. (((p - 2) % 65536) + (k + 2)) % 65536 = (p + k) % 65536 BY <1>1, SMT
<1>3. (((p + 2) % 65536) + k) % 65536 = (p + (k + 2)) % 65536 BY <1>1, SMT
<1>4. (((p - 2) % 65536) + 1) % 65536 = (p - 1) % 65536 BY <1>1, SMT
<1>5. (((p - 2) % 65536) + 0) % 65536 = (p - 2) % 65536 BY <1>1, SMT
<1>6. (((p - 2) % 65536) + 2) % 65536 = p BY <1>1, SMT
<1> QED BY <1>0, <1>2, <1>3, <1>4, <1>5, <1>6

LEMMA Halved == ASSUME NEW v \in Words16 PROVE Pair(High(v), Low(v)) = v
<1>1. v \in Int /\ 0 <= v /\ v <= 65535 BY WordRange
<1>2. 256 \in Nat \ {0} BY SMT
<1> DEFINE h == v \div 256
           l == v % 256
<1>3. h \in Int /\ l \in 0..(256 - 1) /\ v = 256 * h + l BY <1>1, <1>2, Quotient
<1>4. Low(v) = l /\ High(v) = h % 256 BY DEF Low, High
<1> HIDE DEF h, l
<1>5. 0 <= h /\ h <= 255 BY <1>1, <1>3, SMT
<1>6. h % 256 = h BY <1>3, <1>5, SMT
<1> QED BY <1>3, <1>4, <1>6 DEF Pair

\* A store is read again, and leaves the other bytes.
LEMMA ReadWritten ==
  ASSUME NEW m \in Machines, NEW a, NEW b, NEW v
  PROVE  Read(Write(m, a, v), b) = IF b = a THEN v ELSE Read(m, b)
<1> DEFINE new == [x \in {a} \union DOMAIN m.mem |-> IF x = a THEN v ELSE m.mem[x]]
<1>1. Write(m, a, v) = [m EXCEPT !.mem = new] BY Zenon DEF Write, new
<1>2. [m EXCEPT !.mem = new].mem = new BY Zenon DEF Machines
<1>3. DOMAIN new = {a} \union DOMAIN m.mem
      /\ \A x \in {a} \union DOMAIN m.mem : new[x] = IF x = a THEN v ELSE m.mem[x]
  BY Zenon DEF new
<1> HIDE DEF new
<1> QED BY <1>1, <1>2, <1>3, Zenon DEF Read

\* A push leaves the word on the top, what was there below it, and the rest of
\* the machine as it was.
LEMMA Pushed ==
  ASSUME NEW m \in Machines, NEW v \in Int
  PROVE  /\ Push(m, v) \in Machines
         /\ Push(m, v).cpu.s = m.cpu.s /\ Push(m, v).cpu.ip = m.cpu.ip /\ Push(m, v).cpu.f = m.cpu.f
         /\ Push(m, v).cpu.w[SP] = (m.cpu.w[SP] - 2) % WordSize
         /\ StackByte(Push(m, v), 0) = Low(v)
         /\ StackByte(Push(m, v), 1) = High(v)
         /\ \A k \in 0..9 : StackByte(Push(m, v), k + 2) = StackByte(m, k)
<1> DEFINE p0 == m.cpu.w[SP]
           s0 == m.cpu.s[SS]
           sp == (p0 - 2) % WordSize
           hi == Phys(s0, (p0 - 1) % WordSize)
           lo == Phys(s0, sp)
           at(k) == Phys(s0, (p0 + k) % WordSize)
           u == Write(m, hi, High(v))
           t == Write(u, lo, Low(v))
           p == [t EXCEPT !.cpu.w[SP] = sp]
<1>1. Push(m, v) = p BY Zenon DEF Push
<1>2. p \in Machines BY <1>1, PushStays, Zenon DEF Stays
<1>3. p0 \in Words16 /\ s0 \in Words16 BY Parts, RegisterNames, Zenon
<1>4. /\ sp \in Words16 /\ (p0 - 1) % WordSize \in Words16
      /\ hi \in Addresses /\ lo \in Addresses
      /\ \A k \in 0..9 : (p0 + k) % WordSize \in Words16
  <2>1. 1 \in Int /\ 2 \in Int /\ \A k \in 0..9 : k \in Int OBVIOUS
  <2> QED BY <2>1, StackPointer, Zenon
<1>5. hi # lo
  <2>1. 0 \in 0..9 BY SMT
  <2>2. (p0 - 1) % WordSize # sp BY <1>3, <2>1, OffsetsDiffer, Zenon
  <2> QED BY <1>3, <1>4, <2>2, PhysDiffer, Zenon
<1>6. ASSUME NEW k \in 0..9 PROVE at(k) # hi /\ at(k) # lo
  <2>1. (p0 + k) % WordSize # (p0 - 1) % WordSize /\ (p0 + k) % WordSize # sp
    BY <1>3, OffsetsDiffer, Zenon
  <2> QED BY <1>3, <1>4, <2>1, PhysDiffer, Zenon
<1>7. High(v) \in Bytes /\ Low(v) \in Bytes BY HalfIsByte
<1>8. /\ \A k \in 0..9 : Phys(s0, (sp + (k + 2)) % WordSize) = at(k)
      /\ Phys(s0, (sp + 0) % WordSize) = lo /\ Phys(s0, (sp + 1) % WordSize) = hi
  <2>1. 0 \in 0..9 BY SMT
  <2>2. /\ \A k \in 0..9 : (sp + (k + 2)) % WordSize = (p0 + k) % WordSize
        /\ (sp + 0) % WordSize = sp /\ (sp + 1) % WordSize = (p0 - 1) % WordSize
    BY <1>3, <2>1, PointerMoves, Zenon
  <2> QED BY <2>2, Zenon
<1>9. \A k : StackByte(m, k) = Read(m, at(k)) BY Zenon DEF StackByte
<1> SUFFICES /\ p.cpu.s = m.cpu.s /\ p.cpu.ip = m.cpu.ip /\ p.cpu.f = m.cpu.f
             /\ p.cpu.w[SP] = sp
             /\ StackByte(p, 0) = Low(v) /\ StackByte(p, 1) = High(v)
             /\ \A k \in 0..9 : StackByte(p, k + 2) = StackByte(m, k)
  BY <1>1, <1>2, Zenon
<1> HIDE DEF hi, lo, sp, at
<1>10. u \in Machines /\ u.cpu = m.cpu BY <1>4, <1>7, WriteStays, Zenon DEF Stays
<1>11. \A a : Read(u, a) = IF a = hi THEN High(v) ELSE Read(m, a) BY ReadWritten
<1> HIDE DEF u
<1>12. t \in Machines /\ t.cpu = m.cpu BY <1>4, <1>7, <1>10, WriteStays, Zenon DEF Stays
<1>13. \A a : Read(t, a) = IF a = lo THEN Low(v) ELSE Read(u, a) BY <1>10, ReadWritten
<1> HIDE DEF t
<1>14. p.cpu.s = t.cpu.s /\ p.cpu.ip = t.cpu.ip /\ p.cpu.f = t.cpu.f /\ p.mem = t.mem /\ p.cpu.w[SP] = sp
  <2>1. SP \in 4..7 BY RegisterNames
  <2> QED BY <1>12, <2>1, ZenonT(60) DEF Machines, Cpu8088
<1> HIDE DEF p
<1>15. \A a : Read(p, a) = Read(t, a) BY <1>14, Zenon DEF Read
<1>16. Read(p, hi) = High(v) /\ Read(p, lo) = Low(v) BY <1>5, <1>11, <1>13, <1>15, Zenon
<1>17. \A k \in 0..9 : Read(p, at(k)) = Read(m, at(k)) BY <1>6, <1>11, <1>13, <1>15, Zenon
<1>18. \A k : StackByte(p, k) = Read(p, Phys(s0, (sp + k) % WordSize))
  BY <1>12, <1>14, Zenon DEF StackByte
<1> QED BY <1>8, <1>9, <1>12, <1>14, <1>16, <1>17, <1>18, Zenon

\* What is dropped uncovers what is below it.
LEMMA Dropped ==
  ASSUME NEW m \in Machines
  PROVE  /\ Drop(m, 2) \in Machines
         /\ Drop(m, 2).cpu.s = m.cpu.s
         /\ Drop(m, 2).cpu.w[SP] = (m.cpu.w[SP] + 2) % WordSize
         /\ \A k \in 0..9 : StackByte(Drop(m, 2), k) = StackByte(m, k + 2)
<1> DEFINE p0 == m.cpu.w[SP]
           s0 == m.cpu.s[SS]
           sp == (p0 + 2) % WordSize
           d == [m EXCEPT !.cpu.w[SP] = sp]
<1>1. Drop(m, 2) = d BY Zenon DEF Drop
<1>2. d \in Machines
  <2>1. 2 \in Int OBVIOUS
  <2> QED BY <1>1, <2>1, DropStays, Zenon DEF Stays
<1>3. p0 \in Words16 BY Parts, RegisterNames, Zenon
<1>4. \A k \in 0..9 : (sp + k) % WordSize = (p0 + (k + 2)) % WordSize
  BY <1>3, PointerMoves, Zenon
<1> SUFFICES /\ d.cpu.s = m.cpu.s /\ d.cpu.w[SP] = sp
             /\ \A k \in 0..9 : StackByte(d, k) = StackByte(m, k + 2)
  BY <1>1, <1>2, Zenon
<1> HIDE DEF sp
<1>5. d.cpu.s = m.cpu.s /\ d.cpu.w[SP] = sp /\ d.mem = m.mem
  <2>1. SP \in 4..7 BY RegisterNames
  <2> QED BY <2>1, ZenonT(60) DEF Machines, Cpu8088
<1> HIDE DEF d
<1>6. \A a : Read(d, a) = Read(m, a) BY <1>5, Zenon DEF Read
<1> QED BY <1>4, <1>5, <1>6, Zenon DEF StackByte

LEMMA TopOfBytes == ASSUME NEW m PROVE Top(m) = Pair(StackByte(m, 1), StackByte(m, 0))
  BY Zenon DEF Top, StackByte

\* A machine that keeps its memory, its stack segment and its stack pointer
\* keeps its stack.
Beside(m, t) ==
  t \in Machines /\ t.mem = m.mem /\ t.cpu.s[SS] = m.cpu.s[SS] /\ t.cpu.w = m.cpu.w

LEMMA BesideStack ==
  ASSUME NEW m, NEW t, Beside(m, t)
  PROVE  t.cpu.w[SP] = m.cpu.w[SP] /\ \A k : StackByte(t, k) = StackByte(m, k)
  BY Zenon DEF Beside, StackByte, Read

\* The address of the instruction after the one at hand, n bytes after its opcode.
After(m, x, n) == (m.cpu.ip + (x.at + n)) % WordSize

LEMMA FetchBeside ==
  ASSUME NEW m \in Machines, NEW x \in Decodings, NEW n \in Nat
  PROVE  Beside(m, Past(m, x, n)) /\ Past(m, x, n).cpu.s = m.cpu.s
         /\ Past(m, x, n).cpu.ip = After(m, x, n)
<1> DEFINE ip == After(m, x, n)
           q == [k \in 0..3 |-> Ahead(m, (x.at + n) + k)]
           t == Past(m, x, n)
<1>1. t = [m EXCEPT !.cpu.ip = ip, !.cpu.q = q] BY Zenon DEF Past, Fetch, After
<1>2. t \in Machines BY PastLed, Zenon DEF Led
<1> SUFFICES Beside(m, t) /\ t.cpu.s = m.cpu.s /\ t.cpu.ip = ip OBVIOUS
<1> HIDE DEF t, ip, q
<1>3. t.mem = m.mem /\ t.cpu.s = m.cpu.s /\ t.cpu.w = m.cpu.w /\ t.cpu.ip = ip
  BY <1>1, ZenonT(60) DEF Machines, Cpu8088
<1> QED BY <1>2, <1>3, Zenon DEF Beside

LEMMA GotoFarBeside ==
  ASSUME NEW m \in Machines, NEW cs \in Words16, NEW ip \in Words16
  PROVE  /\ Beside(m, GotoFar(m, cs, ip))
         /\ GotoFar(m, cs, ip).cpu.s[CS] = cs /\ GotoFar(m, cs, ip).cpu.ip = ip
         /\ GotoFar(m, cs, ip).cpu.f = m.cpu.f /\ GotoFar(m, cs, ip).cpu.held = m.cpu.held
<1> DEFINE u == [m EXCEPT !.cpu.s[CS] = cs, !.cpu.ip = ip]
           q == [k \in 0..3 |-> At(u, k)]
           t == [u EXCEPT !.cpu.q = q]
<1>1. GotoFar(m, cs, ip) = t BY Zenon DEF GotoFar, PrefetchFlush
<1>2. t \in Machines BY <1>1, GotoFarFollows, Zenon
<1>3. CS \in 0..3 /\ SS \in 0..3 BY RegisterNames
<1>4. CS # SS BY SMT DEF CS, SS
<1> SUFFICES Beside(m, t) /\ t.cpu.s[CS] = cs /\ t.cpu.ip = ip /\ t.cpu.f = m.cpu.f /\ t.cpu.held = m.cpu.held
  BY <1>1, Zenon
<1>5. /\ u \in Machines
      /\ u.mem = m.mem /\ u.cpu.w = m.cpu.w /\ u.cpu.s[CS] = cs /\ u.cpu.s[SS] = m.cpu.s[SS]
      /\ u.cpu.ip = ip /\ u.cpu.f = m.cpu.f /\ u.cpu.held = m.cpu.held
  BY <1>3, <1>4, ZenonT(60) DEF Machines, Cpu8088
<1> HIDE DEF u, q
<1>6. t.mem = u.mem /\ t.cpu.w = u.cpu.w /\ t.cpu.s = u.cpu.s /\ t.cpu.ip = u.cpu.ip
      /\ t.cpu.f = u.cpu.f /\ t.cpu.held = u.cpu.held
  BY <1>5, ZenonT(60) DEF Machines, Cpu8088
<1> HIDE DEF t
<1> QED BY <1>2, <1>5, <1>6, Zenon DEF Beside

\* On top of the stack of e are the place, the segment and the flags of m.
Saves(m, e) ==
  /\ e \in Machines
  /\ e.cpu.s[SS] = m.cpu.s[SS]
  /\ e.cpu.w[SP] = (((((m.cpu.w[SP] - 2) % WordSize) - 2) % WordSize) - 2) % WordSize
  /\ StackByte(e, 0) = Low(m.cpu.ip) /\ StackByte(e, 1) = High(m.cpu.ip)
  /\ StackByte(e, 2) = Low(m.cpu.s[CS]) /\ StackByte(e, 3) = High(m.cpu.s[CS])
  /\ StackByte(e, 4) = Low(FlagWord(m.cpu.f)) /\ StackByte(e, 5) = High(FlagWord(m.cpu.f))

LEMMA InterruptSaves ==
  ASSUME NEW m \in Machines, NEW number \in Nat
  PROVE  Saves(m, Interrupt(m, number))
<1> DEFINE w == FlagWord(m.cpu.f)
           p1 == Push(m, w)
           p2 == Push(p1, m.cpu.s[CS])
           p3 == Push(p2, m.cpu.ip)
           d == [p3 EXCEPT !.cpu.f.i = 0, !.cpu.f.t = 0]
           seg == ReadWord(m, ((number % 256) * 4) + 2)
           ofs == ReadWord(m, (number % 256) * 4)
           e == GotoFar(d, seg, ofs)
<1>1. Interrupt(m, number) = e BY Zenon DEF Interrupt
<1>2. w \in Int /\ m.cpu.s[CS] \in Int /\ m.cpu.ip \in Int
  BY Parts, RegisterNames, FlagsReturn, WordIsInt, Zenon
<1>3. seg \in Words16 /\ ofs \in Words16 BY Parts, ReadWordIsWord, Zenon
<1> HIDE DEF w, seg, ofs
<1>4. /\ p1 \in Machines /\ p1.cpu.s = m.cpu.s /\ p1.cpu.ip = m.cpu.ip
      /\ p1.cpu.w[SP] = (m.cpu.w[SP] - 2) % WordSize
      /\ StackByte(p1, 0) = Low(w) /\ StackByte(p1, 1) = High(w)
  BY <1>2, Pushed, Zenon
<1> HIDE DEF p1
<1>5. /\ p2 \in Machines /\ p2.cpu.s = m.cpu.s /\ p2.cpu.ip = m.cpu.ip
      /\ p2.cpu.w[SP] = (p1.cpu.w[SP] - 2) % WordSize
      /\ StackByte(p2, 0) = Low(m.cpu.s[CS]) /\ StackByte(p2, 1) = High(m.cpu.s[CS])
      /\ \A k \in 0..9 : StackByte(p2, k + 2) = StackByte(p1, k)
  BY <1>2, <1>4, Pushed, Zenon
<1> HIDE DEF p2
<1>6. /\ p3 \in Machines /\ p3.cpu.s = m.cpu.s
      /\ p3.cpu.w[SP] = (p2.cpu.w[SP] - 2) % WordSize
      /\ StackByte(p3, 0) = Low(m.cpu.ip) /\ StackByte(p3, 1) = High(m.cpu.ip)
      /\ \A k \in 0..9 : StackByte(p3, k + 2) = StackByte(p2, k)
  BY <1>2, <1>5, Pushed, Zenon
<1> HIDE DEF p3
<1>7. /\ StackByte(p3, 2) = StackByte(p2, 0) /\ StackByte(p3, 3) = StackByte(p2, 1)
      /\ StackByte(p3, 4) = StackByte(p1, 0) /\ StackByte(p3, 5) = StackByte(p1, 1)
  <2>1. 0 \in 0..9 /\ 1 \in 0..9 /\ 2 \in 0..9 /\ 3 \in 0..9 BY SMT
  <2>2. 0 + 2 = 2 /\ 1 + 2 = 3 /\ 2 + 2 = 4 /\ 3 + 2 = 5 BY SMT
  <2>3. StackByte(p3, 2) = StackByte(p2, 0) /\ StackByte(p2, 2) = StackByte(p1, 0) BY <1>5, <1>6, <2>1, <2>2, Zenon
  <2>4. StackByte(p3, 3) = StackByte(p2, 1) /\ StackByte(p2, 3) = StackByte(p1, 1) BY <1>5, <1>6, <2>1, <2>2, Zenon
  <2>5. StackByte(p3, 4) = StackByte(p2, 2) /\ StackByte(p3, 5) = StackByte(p2, 3) BY <1>6, <2>1, <2>2, Zenon
  <2> QED BY <2>3, <2>4, <2>5, Zenon
<1>8. Beside(p3, d)
  <2>1. d \in Machines
    <3>1. 0 \in Bits BY DEF Bits
    <3> QED BY <1>6, <3>1, ZenonT(60) DEF Machines, Cpu8088, Flags8088
  <2>2. d.mem = p3.mem /\ d.cpu.s = p3.cpu.s /\ d.cpu.w = p3.cpu.w
    BY <1>6, ZenonT(60) DEF Machines, Cpu8088
  <2> QED BY <2>1, <2>2, Zenon DEF Beside
<1> HIDE DEF d
<1>9. d \in Machines BY <1>8, Zenon DEF Beside
<1>10. Beside(d, e) BY <1>3, <1>9, GotoFarBeside, Zenon
<1> HIDE DEF e
<1>11. /\ e \in Machines /\ e.cpu.s[SS] = m.cpu.s[SS] /\ e.cpu.w[SP] = p3.cpu.w[SP]
       /\ \A k : StackByte(e, k) = StackByte(p3, k)
  <2>1. \A k : StackByte(d, k) = StackByte(p3, k) BY <1>8, BesideStack
  <2>2. \A k : StackByte(e, k) = StackByte(d, k) BY <1>10, BesideStack
  <2> QED BY <1>6, <1>8, <1>10, <2>1, <2>2, Zenon DEF Beside
<1> QED BY <1>1, <1>4, <1>5, <1>6, <1>7, <1>11, Zenon DEF w, Saves

LEMMA DroppedBack ==
  ASSUME NEW p \in Words16
  PROVE  /\ (((p - 2) % WordSize) + 2) % WordSize = p
         /\ (p - 2) % WordSize \in Words16
<1>1. 0 \in 0..9 BY SMT
<1>2. p - 2 \in Int BY WordRange
<1> QED BY <1>1, <1>2, PointerMoves, WordCut, Zenon

LEMMA IretRestores ==
  ASSUME NEW m \in Machines, NEW h \in Machines, Saves(m, h), NEW x \in Decodings
  PROVE  /\ Iret(h, x).cpu.ip = m.cpu.ip /\ Iret(h, x).cpu.s[CS] = m.cpu.s[CS]
         /\ Iret(h, x).cpu.s[SS] = m.cpu.s[SS] /\ Iret(h, x).cpu.w[SP] = m.cpu.w[SP]
         /\ Iret(h, x).cpu.f = m.cpu.f /\ Iret(h, x).cpu.held = TRUE
<1> DEFINE t1 == Past(h, x, 0)
           t2 == Drop(t1, 2)
           t3 == Drop(t2, 2)
           t4 == Drop(t3, 2)
           f == FlagsIn(Top(t3))
           t5 == SetFlags(t4, f)
           t6 == [t5 EXCEPT !.cpu.held = TRUE]
           r == GotoFar(t6, Top(t2), Top(t1))
<1>1. Iret(h, x) = r BY Zenon DEF Iret
<1> SUFFICES /\ r.cpu.ip = m.cpu.ip /\ r.cpu.s[CS] = m.cpu.s[CS]
             /\ r.cpu.s[SS] = m.cpu.s[SS] /\ r.cpu.w[SP] = m.cpu.w[SP]
             /\ r.cpu.f = m.cpu.f /\ r.cpu.held = TRUE
  BY <1>1, Zenon
<1>2. /\ t1 \in Machines /\ t1.cpu.s[SS] = h.cpu.s[SS] /\ t1.cpu.w[SP] = h.cpu.w[SP]
      /\ \A k : StackByte(t1, k) = StackByte(h, k)
  <2>1. 0 \in Nat OBVIOUS
  <2>2. Beside(h, t1) BY <2>1, FetchBeside, Zenon
  <2> QED BY <2>2, BesideStack, Zenon DEF Beside
<1> HIDE DEF t1
<1>3. /\ t2 \in Machines /\ t2.cpu.s = t1.cpu.s /\ t2.cpu.w[SP] = (t1.cpu.w[SP] + 2) % WordSize
      /\ \A k \in 0..9 : StackByte(t2, k) = StackByte(t1, k + 2)
  BY <1>2, Dropped, Zenon
<1> HIDE DEF t2
<1>4. /\ t3 \in Machines /\ t3.cpu.s = t2.cpu.s /\ t3.cpu.w[SP] = (t2.cpu.w[SP] + 2) % WordSize
      /\ \A k \in 0..9 : StackByte(t3, k) = StackByte(t2, k + 2)
  BY <1>3, Dropped, Zenon
<1> HIDE DEF t3
<1>5. t4 \in Machines /\ t4.cpu.s = t3.cpu.s /\ t4.cpu.w[SP] = (t3.cpu.w[SP] + 2) % WordSize
  BY <1>4, Dropped, Zenon
<1> HIDE DEF t4
<1>6. /\ StackByte(t1, 0) = Low(m.cpu.ip) /\ StackByte(t1, 1) = High(m.cpu.ip)
      /\ StackByte(t2, 0) = Low(m.cpu.s[CS]) /\ StackByte(t2, 1) = High(m.cpu.s[CS])
      /\ StackByte(t3, 0) = Low(FlagWord(m.cpu.f)) /\ StackByte(t3, 1) = High(FlagWord(m.cpu.f))
  <2>1. 0 \in 0..9 /\ 1 \in 0..9 /\ 2 \in 0..9 /\ 3 \in 0..9 BY SMT
  <2>2. 0 + 2 = 2 /\ 1 + 2 = 3 /\ 2 + 2 = 4 /\ 3 + 2 = 5 BY SMT
  <2>3. StackByte(t2, 0) = StackByte(t1, 2) /\ StackByte(t2, 1) = StackByte(t1, 3) BY <1>3, <2>1, <2>2, Zenon
  <2>4. StackByte(t3, 0) = StackByte(t2, 2) /\ StackByte(t3, 1) = StackByte(t2, 3) BY <1>4, <2>1, <2>2, Zenon
  <2>5. StackByte(t2, 2) = StackByte(t1, 4) /\ StackByte(t2, 3) = StackByte(t1, 5) BY <1>3, <2>1, <2>2, Zenon
  <2> QED BY <1>2, <2>3, <2>4, <2>5, Zenon DEF Saves
<1>7. /\ m.cpu.ip \in Words16 /\ m.cpu.s[CS] \in Words16 /\ m.cpu.f \in Flags8088
      /\ m.cpu.w[SP] \in Words16
  BY Parts, RegisterNames, Zenon
<1>8. Top(t1) = m.cpu.ip /\ Top(t2) = m.cpu.s[CS] BY <1>6, <1>7, TopOfBytes, Halved, Zenon
<1>9. f = m.cpu.f
  <2>1. FlagWord(m.cpu.f) \in Words16 /\ FlagsIn(FlagWord(m.cpu.f)) = m.cpu.f BY <1>7, FlagsReturn, Zenon
  <2>2. Top(t3) = FlagWord(m.cpu.f) BY <1>6, <2>1, TopOfBytes, Halved, Zenon
  <2> QED BY <2>1, <2>2, Zenon
<1> HIDE DEF f
<1>10. /\ t6 \in Machines /\ t6.cpu.s = t4.cpu.s /\ t6.cpu.w = t4.cpu.w
       /\ t6.cpu.f = f /\ t6.cpu.held = TRUE
  <2>1. t5 = [t4 EXCEPT !.cpu.f = f] BY Zenon DEF SetFlags
  <2>2. f \in Flags8088 BY <1>7, <1>9
  <2>3. t5 \in Machines /\ t5.cpu.s = t4.cpu.s /\ t5.cpu.w = t4.cpu.w /\ t5.cpu.f = f
    BY <1>5, <2>1, <2>2, ZenonT(60) DEF Machines, Cpu8088
  <2> HIDE DEF t5
  <2>4. TRUE \in BOOLEAN OBVIOUS
  <2> QED BY <2>3, <2>4, ZenonT(60) DEF Machines, Cpu8088
<1> HIDE DEF t6
<1>11. /\ Beside(t6, r) /\ r.cpu.s[CS] = m.cpu.s[CS] /\ r.cpu.ip = m.cpu.ip
       /\ r.cpu.f = t6.cpu.f /\ r.cpu.held = t6.cpu.held
  <2>1. r = GotoFar(t6, m.cpu.s[CS], m.cpu.ip) BY <1>8, Zenon
  <2>2. m.cpu.s[CS] \in Words16 /\ m.cpu.ip \in Words16 /\ t6 \in Machines BY <1>7, <1>10, Zenon
  <2>3. PICK cs \in Words16, ip \in Words16 : cs = m.cpu.s[CS] /\ ip = m.cpu.ip BY <2>2, Zenon
  <2>4. r = GotoFar(t6, cs, ip) BY <2>1, <2>3, Zenon
  <2> HIDE DEF r
  <2>5. Beside(t6, r) /\ r.cpu.s[CS] = cs /\ r.cpu.ip = ip /\ r.cpu.f = t6.cpu.f /\ r.cpu.held = t6.cpu.held
    BY <2>2, <2>4, GotoFarBeside
  <2> QED BY <2>3, <2>5, Zenon
<1> HIDE DEF r
<1>12. t4.cpu.w[SP] = m.cpu.w[SP]
  <2>1. PICK a \in Words16 : a = (m.cpu.w[SP] - 2) % WordSize BY <1>7, DroppedBack, Zenon
  <2>2. PICK b \in Words16 : b = (a - 2) % WordSize BY DroppedBack, Zenon
  <2>3. PICK c \in Words16 : c = (b - 2) % WordSize BY DroppedBack, Zenon
  <2>4. h.cpu.w[SP] = c BY <2>1, <2>2, <2>3, Zenon DEF Saves
  <2>5. (c + 2) % WordSize = b /\ (b + 2) % WordSize = a /\ (a + 2) % WordSize = m.cpu.w[SP]
    BY <1>7, <2>1, <2>2, <2>3, DroppedBack, Zenon
  <2> QED BY <1>2, <1>3, <1>4, <1>5, <2>4, <2>5, Zenon
<1>13. t4.cpu.s[SS] = m.cpu.s[SS] BY <1>2, <1>3, <1>4, <1>5, Zenon DEF Saves
<1> QED BY <1>9, <1>10, <1>11, <1>12, <1>13, Zenon DEF Beside

\* IRET undoes an interrupt. Whatever the machine was doing when an interrupt
\* was taken, and whatever the handler does to registers, flags and memory, if
\* at its IRET the stack is the one the interrupt left, the processor is back
\* at the instruction it was about to execute, in its segment, with its flags
\* and its stack pointer, also when the stack wraps around its segment; and no
\* interrupt is taken until one instruction has been executed (interrupt,
\* 8088.c:118-136, and IRET, 3224-3245).
THEOREM InterruptReturns ==
  ASSUME NEW m \in Machines, NEW number \in Nat, NEW h \in Machines,
         SameStack(Interrupt(m, number), h, 6), NEW x \in Decodings
  PROVE  LET r == Iret(h, x)
         IN  /\ r.cpu.ip = m.cpu.ip /\ r.cpu.s[CS] = m.cpu.s[CS] /\ r.cpu.f = m.cpu.f
             /\ r.cpu.s[SS] = m.cpu.s[SS] /\ r.cpu.w[SP] = m.cpu.w[SP]
             /\ r.cpu.held = TRUE
<1>1. PICK e : e = Interrupt(m, number) OBVIOUS
<1>2. Saves(m, e) BY <1>1, InterruptSaves, Zenon
<1>3. /\ h.cpu.s[SS] = e.cpu.s[SS] /\ h.cpu.w[SP] = e.cpu.w[SP]
      /\ \A k \in 0..(6 - 1) : StackByte(h, k) = StackByte(e, k)
  BY <1>1, Zenon DEF SameStack
<1>4. /\ 0 \in 0..(6 - 1) /\ 1 \in 0..(6 - 1) /\ 2 \in 0..(6 - 1)
      /\ 3 \in 0..(6 - 1) /\ 4 \in 0..(6 - 1) /\ 5 \in 0..(6 - 1)
  BY SMT
<1>5. Saves(m, h) BY <1>2, <1>3, <1>4, Zenon DEF Saves
<1> DEFINE r == Iret(h, x)
<1>6. r.cpu.ip = m.cpu.ip BY <1>5, IretRestores, Zenon
<1>7. r.cpu.s[CS] = m.cpu.s[CS] BY <1>5, IretRestores, Zenon
<1>8. r.cpu.f = m.cpu.f BY <1>5, IretRestores, Zenon
<1>9. r.cpu.s[SS] = m.cpu.s[SS] BY <1>5, IretRestores, Zenon
<1>10. r.cpu.w[SP] = m.cpu.w[SP] BY <1>5, IretRestores, Zenon
<1>11. r.cpu.held = TRUE BY <1>5, IretRestores, Zenon
<1> HIDE DEF r
<1> QED BY <1>6, <1>7, <1>8, <1>9, <1>10, <1>11, Zenon DEF r

\* What a return takes off the stack besides the address.
Arguments(h, y) == IF y.op % 2 = 0 THEN Imm(h, y, 16) ELSE 0

LEMMA GotoBeside ==
  ASSUME NEW m \in Machines, NEW ip \in Words16
  PROVE  Beside(m, Goto(m, ip)) /\ Goto(m, ip).cpu.s = m.cpu.s /\ Goto(m, ip).cpu.ip = ip
<1> DEFINE u == [m EXCEPT !.cpu.ip = ip]
           q == [k \in 0..3 |-> At(u, k)]
           t == [u EXCEPT !.cpu.q = q]
<1>1. Goto(m, ip) = t BY Zenon DEF Goto, PrefetchFlush
<1>2. t \in Machines BY <1>1, GotoFollows, Zenon
<1> SUFFICES Beside(m, t) /\ t.cpu.s = m.cpu.s /\ t.cpu.ip = ip BY <1>1, Zenon
<1>3. u \in Machines /\ u.mem = m.mem /\ u.cpu.w = m.cpu.w /\ u.cpu.s = m.cpu.s /\ u.cpu.ip = ip
  BY ZenonT(60) DEF Machines, Cpu8088
<1> HIDE DEF u, q
<1>4. t.mem = u.mem /\ t.cpu.w = u.cpu.w /\ t.cpu.s = u.cpu.s /\ t.cpu.ip = u.cpu.ip
  BY <1>3, ZenonT(60) DEF Machines, Cpu8088
<1> HIDE DEF t
<1> QED BY <1>2, <1>3, <1>4, Zenon DEF Beside

\* A drop of any number of bytes.
LEMMA DroppedAny ==
  ASSUME NEW m \in Machines, NEW k \in Int
  PROVE  /\ Drop(m, k) \in Machines /\ Drop(m, k).cpu.s = m.cpu.s
         /\ Drop(m, k).cpu.w[SP] = (m.cpu.w[SP] + k) % WordSize
<1> DEFINE sp == (m.cpu.w[SP] + k) % WordSize
           d == [m EXCEPT !.cpu.w[SP] = sp]
<1>1. Drop(m, k) = d BY Zenon DEF Drop
<1>2. d \in Machines BY <1>1, DropStays, Zenon DEF Stays
<1> SUFFICES d.cpu.s = m.cpu.s /\ d.cpu.w[SP] = sp BY <1>1, <1>2, Zenon
<1> HIDE DEF sp
<1>3. SP \in 4..7 BY RegisterNames
<1> QED BY <1>3, ZenonT(60) DEF Machines, Cpu8088

NearReturns == {\hc2, \hc3}
FarReturns == {\hca, \hcb}
LEMMA NearReturn == ASSUME NEW o \in NearReturns PROVE o < \hc8
  BY SMT DEF NearReturns
LEMMA FarReturn == ASSUME NEW o \in FarReturns PROVE ~(o < \hc8)
  BY SMT DEF FarReturns
LEMMA ReturnsAre ==
  ASSUME NEW h \in Machines, NEW y \in Decodings
  PROVE  LET t == IF y.op % 2 = 0 THEN Past(h, y, 2) ELSE Past(h, y, 0)
         IN  /\ y.op < \hc8 => Return(h, y) = Goto(Drop(t, 2 + Arguments(h, y)), Top(t))
             /\ ~(y.op < \hc8) =>
                  Return(h, y) = GotoFar(Drop(Drop(t, 2), 2 + Arguments(h, y)), Top(Drop(t, 2)), Top(t))
<1> DEFINE extra == IF y.op % 2 = 0 THEN Imm(h, y, 16) ELSE 0
           t == IF y.op % 2 = 0 THEN Past(h, y, 2) ELSE Past(h, y, 0)
           far == Drop(t, 2)
           near == Drop(t, 2 + extra)
           gone == Drop(far, 2 + extra)
<1>1. Return(h, y) = IF y.op < \hc8 THEN Goto(near, Top(t)) ELSE GotoFar(gone, Top(far), Top(t))
  BY SMT DEF Return
<1>2. extra = Arguments(h, y) BY Zenon DEF Arguments
<1> HIDE DEF extra
<1>3. near = Drop(t, 2 + Arguments(h, y)) /\ gone = Drop(far, 2 + Arguments(h, y)) BY <1>2, Zenon
<1> HIDE DEF near, gone
<1> QED BY <1>1, <1>3, SMT
LEMMA ArgumentsAre ==
  ASSUME NEW h \in Machines, NEW y \in Decodings
  PROVE  Arguments(h, y) \in Words16
<1>1. 0 \in Words16
  <2>1. 0 < WordSize BY WordSizeIs
  <2> QED BY <2>1, SmallIsWord
<1> QED BY <1>1, ImmIsWord, Zenon DEF Arguments

LEMMA DropsAdd ==
  ASSUME NEW p \in Words16, NEW n \in Words16
  PROVE  /\ (((p - 2) % WordSize) + (2 + n)) % WordSize = (p + n) % WordSize
         /\ (((((p - 2) % WordSize) - 2) % WordSize) + 2) % WordSize = (p - 2) % WordSize
<1>0. WordSize = 65536 BY DEF WordSize
<1>1. p \in Int BY WordRange
<1>2. n \in Int BY WordRange
<1>3. (((p - 2) % 65536) + (2 + n)) % 65536 = (p + n) % 65536 BY <1>1, <1>2, SMT
<1>4. (((((p - 2) % 65536) - 2) % 65536) + 2) % 65536 = (p - 2) % 65536 BY <1>1, SMT
<1> QED BY <1>0, <1>3, <1>4

\* The machine a return starts from, after its fetches.
LEMMA ReturnFetches ==
  ASSUME NEW h \in Machines, NEW y \in Decodings
  PROVE  LET t == IF y.op % 2 = 0 THEN Past(h, y, 2) ELSE Past(h, y, 0)
         IN  /\ t \in Machines /\ t.cpu.s = h.cpu.s /\ t.cpu.w[SP] = h.cpu.w[SP]
             /\ \A k : StackByte(t, k) = StackByte(h, k)
<1>1. 0 \in Nat /\ 2 \in Nat OBVIOUS
<1>2. ASSUME NEW n \in Nat
      PROVE  /\ Past(h, y, n) \in Machines /\ Past(h, y, n).cpu.s = h.cpu.s
             /\ Past(h, y, n).cpu.w[SP] = h.cpu.w[SP]
             /\ \A k : StackByte(Past(h, y, n), k) = StackByte(h, k)
  <2>1. Beside(h, Past(h, y, n)) /\ Past(h, y, n).cpu.s = h.cpu.s BY FetchBeside, Zenon
  <2> QED BY <2>1, BesideStack, Zenon DEF Beside
<1> QED BY <1>1, <1>2, Zenon

\* A near return undoes a near call: whatever the called code does to registers
\* and memory, if at its RET the stack is the one the call left, the processor
\* is at the instruction after the call, and the stack pointer is where it was
\* before the call, past the arguments RET n drops (CALL e8, 8088.c:3729-3741, and
\* RET c2 and c3, 3076-3190).
THEOREM CallReturns ==
  ASSUME NEW m \in Machines, NEW x \in Decodings, NEW h \in Machines,
         SameStack(Call(m, x), h, 2), NEW y \in Decodings, y.op \in NearReturns
  PROVE  LET r == Return(h, y)
         IN  /\ r.cpu.ip = After(m, x, 2)
             /\ r.cpu.s = h.cpu.s
             /\ r.cpu.w[SP] = (m.cpu.w[SP] + Arguments(h, y)) % WordSize
<1> DEFINE p == Past(m, x, 2)
           u == Push(p, p.cpu.ip)
           ip == (p.cpu.ip + Imm(m, x, 16)) % WordSize
           e == Goto(u, ip)
           t == IF y.op % 2 = 0 THEN Past(h, y, 2) ELSE Past(h, y, 0)
           n == Arguments(h, y)
           d == Drop(t, 2 + n)
           r == Return(h, y)
<1>1. Call(m, x) = e BY Zenon DEF Call
<1>2. /\ p \in Machines /\ p.cpu.s = m.cpu.s /\ p.cpu.w[SP] = m.cpu.w[SP]
      /\ p.cpu.ip = After(m, x, 2)
  <2>1. 2 \in Nat OBVIOUS
  <2>2. Beside(m, p) /\ p.cpu.s = m.cpu.s /\ p.cpu.ip = After(m, x, 2)
    BY <2>1, FetchBeside, Zenon
  <2> QED BY <2>2, Zenon DEF Beside
<1> HIDE DEF p
<1>3. p.cpu.ip \in Words16 /\ p.cpu.ip \in Int /\ p.cpu.w[SP] \in Words16
  <2>1. p.cpu.ip \in Words16 /\ p.cpu.w[SP] \in Words16 BY <1>2, Parts, RegisterNames, Zenon
  <2> QED BY <2>1, WordIsInt, Zenon
<1>4. ip \in Words16
  <2>1. Imm(m, x, 16) \in Int BY ImmIsInt
  <2>2. p.cpu.ip + Imm(m, x, 16) \in Int BY <1>3, <2>1, IntSum
  <2> QED BY <2>2, WordCut
<1> HIDE DEF ip
<1>5. /\ u \in Machines /\ u.cpu.w[SP] = (p.cpu.w[SP] - 2) % WordSize
      /\ StackByte(u, 0) = Low(p.cpu.ip) /\ StackByte(u, 1) = High(p.cpu.ip)
  BY <1>2, <1>3, Pushed, Zenon
<1> HIDE DEF u
<1>6. Beside(u, e) BY <1>4, <1>5, GotoBeside, Zenon
<1> HIDE DEF e
<1>7. /\ h.cpu.w[SP] = (m.cpu.w[SP] - 2) % WordSize
      /\ StackByte(h, 0) = Low(p.cpu.ip) /\ StackByte(h, 1) = High(p.cpu.ip)
  <2>1. e.cpu.w[SP] = u.cpu.w[SP] /\ \A k : StackByte(e, k) = StackByte(u, k) BY <1>6, BesideStack
  <2>2. h.cpu.w[SP] = e.cpu.w[SP] /\ \A k \in 0..(2 - 1) : StackByte(h, k) = StackByte(e, k)
    BY <1>1, Zenon DEF SameStack
  <2>3. 0 \in 0..(2 - 1) /\ 1 \in 0..(2 - 1) BY SMT
  <2> QED BY <1>2, <1>5, <2>1, <2>2, <2>3, Zenon
<1>8. y.op < \hc8 BY NearReturn
<1>9. r = Goto(d, Top(t)) BY <1>8, ReturnsAre
<1>10. /\ t \in Machines /\ t.cpu.s = h.cpu.s /\ t.cpu.w[SP] = h.cpu.w[SP]
       /\ \A k : StackByte(t, k) = StackByte(h, k)
  BY ReturnFetches
<1> HIDE DEF t, r
<1>11. n \in Words16 BY ArgumentsAre
<1> HIDE DEF n
<1>12. d \in Machines /\ d.cpu.s = t.cpu.s /\ d.cpu.w[SP] = (t.cpu.w[SP] + (2 + n)) % WordSize
  <2>1. n \in Int BY <1>11, WordIsInt
  <2>2. 2 + n \in Int BY <2>1
  <2> QED BY <1>10, <2>2, DroppedAny, Zenon
<1> HIDE DEF d
<1>13. Top(t) = p.cpu.ip BY <1>3, <1>7, <1>10, TopOfBytes, Halved, Zenon
<1>14. PICK a \in Words16 : a = p.cpu.ip BY <1>3, Zenon
<1>15. r = Goto(d, a) BY <1>9, <1>13, <1>14, Zenon
<1>16. Beside(d, r) /\ r.cpu.s = d.cpu.s /\ r.cpu.ip = a BY <1>12, <1>15, GotoBeside
<1>17. r.cpu.w[SP] = d.cpu.w[SP] BY <1>16, BesideStack
<1>18. r.cpu.ip = After(m, x, 2) /\ r.cpu.s = h.cpu.s BY <1>2, <1>10, <1>12, <1>14, <1>16, Zenon
<1>19. r.cpu.w[SP] = (m.cpu.w[SP] + n) % WordSize
  <2>1. m.cpu.w[SP] \in Words16 BY <1>2, <1>3
  <2>2. (((m.cpu.w[SP] - 2) % WordSize) + (2 + n)) % WordSize = (m.cpu.w[SP] + n) % WordSize
    BY <1>11, <2>1, DropsAdd, Zenon
  <2> QED BY <1>7, <1>10, <1>12, <1>17, <2>2, Zenon
<1> QED BY <1>18, <1>19, Zenon DEF r, n

\* A far return undoes a far call the same way, and is back in the segment of
\* the call (CALL 9a, 8088.c:2530-2545, and RET ca and cb, 3076-3190).
THEOREM FarCallReturns ==
  ASSUME NEW m \in Machines, NEW x \in Decodings, NEW h \in Machines,
         SameStack(CallFar(m, x), h, 4), NEW y \in Decodings, y.op \in FarReturns
  PROVE  LET r == Return(h, y)
         IN  /\ r.cpu.ip = After(m, x, 4) /\ r.cpu.s[CS] = m.cpu.s[CS]
             /\ r.cpu.s[SS] = m.cpu.s[SS]
             /\ r.cpu.w[SP] = (m.cpu.w[SP] + Arguments(h, y)) % WordSize
<1> DEFINE p == Past(m, x, 4)
           u1 == Push(p, p.cpu.s[CS])
           u2 == Push(u1, p.cpu.ip)
           seg == AheadN(m, x.at + 2, 16)
           ofs == Imm(m, x, 16)
           e == GotoFar(u2, seg, ofs)
           t == IF y.op % 2 = 0 THEN Past(h, y, 2) ELSE Past(h, y, 0)
           n == Arguments(h, y)
           far == Drop(t, 2)
           d == Drop(far, 2 + n)
           r == Return(h, y)
<1>1. CallFar(m, x) = e BY Zenon DEF CallFar
<1>2. /\ p \in Machines /\ p.cpu.s = m.cpu.s /\ p.cpu.w[SP] = m.cpu.w[SP]
      /\ p.cpu.ip = After(m, x, 4)
  <2>1. 4 \in Nat OBVIOUS
  <2>2. Beside(m, p) /\ p.cpu.s = m.cpu.s /\ p.cpu.ip = After(m, x, 4)
    BY <2>1, FetchBeside, Zenon
  <2> QED BY <2>2, Zenon DEF Beside
<1> HIDE DEF p
<1>3. /\ p.cpu.ip \in Words16 /\ p.cpu.s[CS] \in Words16 /\ p.cpu.w[SP] \in Words16
      /\ p.cpu.ip \in Int /\ p.cpu.s[CS] \in Int
  <2>1. p.cpu.ip \in Words16 /\ p.cpu.s[CS] \in Words16 /\ p.cpu.w[SP] \in Words16
    BY <1>2, Parts, RegisterNames, Zenon
  <2> QED BY <2>1, WordIsInt, Zenon
<1>4. seg \in Words16 /\ ofs \in Words16 BY SmallInts, AheadWord, ImmIsWord
<1> HIDE DEF seg, ofs
<1>5. /\ u1 \in Machines /\ u1.cpu.s = p.cpu.s /\ u1.cpu.w[SP] = (p.cpu.w[SP] - 2) % WordSize
      /\ StackByte(u1, 0) = Low(p.cpu.s[CS]) /\ StackByte(u1, 1) = High(p.cpu.s[CS])
  BY <1>2, <1>3, Pushed, Zenon
<1> HIDE DEF u1
<1>6. /\ u2 \in Machines /\ u2.cpu.s = u1.cpu.s /\ u2.cpu.w[SP] = (u1.cpu.w[SP] - 2) % WordSize
      /\ StackByte(u2, 0) = Low(p.cpu.ip) /\ StackByte(u2, 1) = High(p.cpu.ip)
      /\ \A k \in 0..9 : StackByte(u2, k + 2) = StackByte(u1, k)
  BY <1>3, <1>5, Pushed, Zenon
<1> HIDE DEF u2
<1>7. Beside(u2, e) BY <1>4, <1>6, GotoFarBeside, Zenon
<1> HIDE DEF e
<1>8. /\ h.cpu.w[SP] = (((p.cpu.w[SP] - 2) % WordSize) - 2) % WordSize
      /\ h.cpu.s[SS] = m.cpu.s[SS]
      /\ StackByte(h, 0) = Low(p.cpu.ip) /\ StackByte(h, 1) = High(p.cpu.ip)
      /\ StackByte(h, 2) = Low(p.cpu.s[CS]) /\ StackByte(h, 3) = High(p.cpu.s[CS])
  <2>1. e.cpu.w[SP] = u2.cpu.w[SP] /\ \A k : StackByte(e, k) = StackByte(u2, k) BY <1>7, BesideStack
  <2>2. /\ h.cpu.w[SP] = e.cpu.w[SP] /\ h.cpu.s[SS] = e.cpu.s[SS]
        /\ \A k \in 0..(4 - 1) : StackByte(h, k) = StackByte(e, k)
    BY <1>1, Zenon DEF SameStack
  <2>3. 0 \in 0..(4 - 1) /\ 1 \in 0..(4 - 1) /\ 2 \in 0..(4 - 1) /\ 3 \in 0..(4 - 1) BY SMT
  <2>4. 0 \in 0..9 /\ 1 \in 0..9 /\ 0 + 2 = 2 /\ 1 + 2 = 3 BY SMT
  <2>5. StackByte(u2, 2) = StackByte(u1, 0) /\ StackByte(u2, 3) = StackByte(u1, 1) BY <1>6, <2>4, Zenon
  <2>6. StackByte(h, 0) = StackByte(u2, 0) /\ StackByte(h, 1) = StackByte(u2, 1) BY <2>1, <2>2, <2>3, Zenon
  <2>7. StackByte(h, 2) = StackByte(u2, 2) /\ StackByte(h, 3) = StackByte(u2, 3) BY <2>1, <2>2, <2>3, Zenon
  <2>8. h.cpu.s[SS] = m.cpu.s[SS] BY <1>2, <1>5, <1>6, <1>7, <2>2, Zenon DEF Beside
  <2>9. h.cpu.w[SP] = (((p.cpu.w[SP] - 2) % WordSize) - 2) % WordSize BY <1>5, <1>6, <2>1, <2>2, Zenon
  <2> QED BY <1>5, <1>6, <2>5, <2>6, <2>7, <2>8, <2>9, Zenon
<1>9. ~(y.op < \hc8) BY FarReturn
<1>10. r = GotoFar(d, Top(far), Top(t)) BY <1>9, ReturnsAre
<1>11. /\ t \in Machines /\ t.cpu.s = h.cpu.s /\ t.cpu.w[SP] = h.cpu.w[SP]
       /\ \A k : StackByte(t, k) = StackByte(h, k)
  BY ReturnFetches
<1> HIDE DEF t, r
<1>12. n \in Words16 BY ArgumentsAre
<1> HIDE DEF n
<1>13. /\ far \in Machines /\ far.cpu.s = t.cpu.s /\ far.cpu.w[SP] = (t.cpu.w[SP] + 2) % WordSize
       /\ \A k \in 0..9 : StackByte(far, k) = StackByte(t, k + 2)
  BY <1>11, Dropped, Zenon
<1> HIDE DEF far
<1>14. d \in Machines /\ d.cpu.s = far.cpu.s /\ d.cpu.w[SP] = (far.cpu.w[SP] + (2 + n)) % WordSize
  <2>1. n \in Int BY <1>12, WordIsInt
  <2>2. 2 + n \in Int BY <2>1
  <2> QED BY <1>13, <2>2, DroppedAny, Zenon
<1> HIDE DEF d
<1>15. Top(t) = p.cpu.ip BY <1>3, <1>8, <1>11, TopOfBytes, Halved, Zenon
<1>16. Top(far) = p.cpu.s[CS]
  <2>1. 0 \in 0..9 /\ 1 \in 0..9 /\ 0 + 2 = 2 /\ 1 + 2 = 3 BY SMT
  <2>2. StackByte(far, 0) = StackByte(t, 2) /\ StackByte(far, 1) = StackByte(t, 3) BY <1>13, <2>1, Zenon
  <2>3. StackByte(far, 0) = Low(p.cpu.s[CS]) /\ StackByte(far, 1) = High(p.cpu.s[CS])
    BY <1>8, <1>11, <2>2, Zenon
  <2> QED BY <1>3, <2>3, TopOfBytes, Halved, Zenon
<1>17. PICK cs \in Words16, ip \in Words16 : cs = p.cpu.s[CS] /\ ip = p.cpu.ip BY <1>3, Zenon
<1>18. r = GotoFar(d, cs, ip) BY <1>10, <1>15, <1>16, <1>17, Zenon
<1>19. Beside(d, r) /\ r.cpu.s[CS] = cs /\ r.cpu.ip = ip BY <1>14, <1>18, GotoFarBeside
<1>20. r.cpu.w[SP] = d.cpu.w[SP] BY <1>19, BesideStack
<1>21. r.cpu.ip = After(m, x, 4) /\ r.cpu.s[CS] = m.cpu.s[CS] BY <1>2, <1>17, <1>19, Zenon
<1>22. r.cpu.s[SS] = m.cpu.s[SS] BY <1>8, <1>11, <1>13, <1>14, <1>19, Zenon DEF Beside
<1>23. r.cpu.w[SP] = (m.cpu.w[SP] + n) % WordSize
  <2>1. PICK w \in Words16 : w = m.cpu.w[SP] BY <1>2, <1>3, Zenon
  <2>2. (((w - 2) % WordSize) + (2 + n)) % WordSize = (w + n) % WordSize BY <1>12, DropsAdd, Zenon
  <2>3. (((((w - 2) % WordSize) - 2) % WordSize) + 2) % WordSize = (w - 2) % WordSize
    BY <1>12, DropsAdd, Zenon
  <2>4. far.cpu.w[SP] = (w - 2) % WordSize BY <1>2, <1>8, <1>11, <1>13, <2>1, <2>3, Zenon
  <2>5. d.cpu.w[SP] = (w + n) % WordSize BY <1>14, <2>2, <2>4, Zenon
  <2> QED BY <1>20, <2>1, <2>5, Zenon
<1> QED BY <1>21, <1>22, <1>23, Zenon DEF r, n

\* t has the registers of m, those apart that an interrupt and its return set.
Others(m, t) ==
  /\ t.cpu.b = m.cpu.b /\ t.cpu.ea = m.cpu.ea /\ t.out = m.out
  /\ \A r \in 4..7 : r # SP => t.cpu.w[r] = m.cpu.w[r]
  /\ \A r \in 0..3 : r # CS => t.cpu.s[r] = m.cpu.s[r]

LEMMA OthersOthers ==
  ASSUME NEW m, NEW t, NEW u, Others(m, t), Others(t, u) PROVE Others(m, u)
  BY Zenon DEF Others
LEMMA WriteOut ==
  ASSUME NEW m \in Machines, NEW a, NEW v PROVE Write(m, a, v).out = m.out
<1> DEFINE new == [x \in {a} \union DOMAIN m.mem |-> IF x = a THEN v ELSE m.mem[x]]
<1>1. Write(m, a, v) = [m EXCEPT !.mem = new] BY Zenon DEF Write, new
<1> HIDE DEF new
<1> QED BY <1>1, Zenon DEF Machines
LEMMA OthersPush ==
  ASSUME NEW m \in Machines, NEW v \in Int PROVE Others(m, Push(m, v))
<1> DEFINE sp == (m.cpu.w[SP] - 2) % WordSize
           hi == Phys(m.cpu.s[SS], (m.cpu.w[SP] - 1) % WordSize)
           lo == Phys(m.cpu.s[SS], sp)
           u == Write(m, hi, High(v))
           t == Write(u, lo, Low(v))
           p == [t EXCEPT !.cpu.w[SP] = sp]
<1>1. Push(m, v) = p BY Zenon DEF Push
<1>2. High(v) \in Bytes /\ Low(v) \in Bytes BY HalfIsByte
<1>3. hi \in Addresses /\ lo \in Addresses BY SmallInts, StackPointer, Zenon
<1> HIDE DEF hi, lo, sp
<1>4. u \in Machines /\ u.cpu = m.cpu /\ u.out = m.out
  <2>1. u.out = m.out BY WriteOut
  <2> QED BY <1>2, <1>3, <2>1, WriteStays, Zenon DEF Stays
<1> HIDE DEF u
<1>5. t \in Machines /\ t.cpu = m.cpu /\ t.out = m.out
  <2>1. t.out = u.out BY <1>4, WriteOut
  <2> QED BY <1>2, <1>3, <1>4, <2>1, WriteStays, Zenon DEF Stays
<1> HIDE DEF t
<1>6. SP \in 4..7 BY RegisterNames
<1>7. p.cpu.b = t.cpu.b /\ p.cpu.ea = t.cpu.ea /\ p.out = t.out /\ p.cpu.s = t.cpu.s
      /\ \A r \in 4..7 : r # SP => p.cpu.w[r] = t.cpu.w[r]
  BY <1>5, <1>6, ZenonT(60) DEF Machines, Cpu8088
<1> HIDE DEF p
<1> QED BY <1>1, <1>5, <1>7, Zenon DEF Others
LEMMA OthersDrop ==
  ASSUME NEW m \in Machines, NEW k \in Int PROVE Others(m, Drop(m, k))
<1> DEFINE sp == (m.cpu.w[SP] + k) % WordSize
           p == [m EXCEPT !.cpu.w[SP] = sp]
<1>1. Drop(m, k) = p BY Zenon DEF Drop
<1> HIDE DEF sp
<1>2. SP \in 4..7 BY RegisterNames
<1>3. p.cpu.b = m.cpu.b /\ p.cpu.ea = m.cpu.ea /\ p.out = m.out /\ p.cpu.s = m.cpu.s
      /\ \A r \in 4..7 : r # SP => p.cpu.w[r] = m.cpu.w[r]
  BY <1>2, ZenonT(60) DEF Machines, Cpu8088
<1> HIDE DEF p
<1> QED BY <1>1, <1>3, Zenon DEF Others
LEMMA OthersPast ==
  ASSUME NEW m \in Machines, NEW x \in Decodings, NEW n \in Nat PROVE Others(m, Past(m, x, n))
<1> DEFINE ip == After(m, x, n)
           q == [k \in 0..3 |-> Ahead(m, (x.at + n) + k)]
           t == [m EXCEPT !.cpu.ip = ip, !.cpu.q = q]
<1>1. Past(m, x, n) = t BY Zenon DEF Past, Fetch, After
<1> HIDE DEF ip, q
<1>2. t.cpu.b = m.cpu.b /\ t.cpu.ea = m.cpu.ea /\ t.out = m.out /\ t.cpu.s = m.cpu.s /\ t.cpu.w = m.cpu.w
  BY ZenonT(60) DEF Machines, Cpu8088
<1> HIDE DEF t
<1> QED BY <1>1, <1>2, Zenon DEF Others
LEMMA OthersGotoFar ==
  ASSUME NEW m \in Machines, NEW cs \in Words16, NEW ip \in Words16
  PROVE  Others(m, GotoFar(m, cs, ip))
<1> DEFINE u == [m EXCEPT !.cpu.s[CS] = cs, !.cpu.ip = ip]
           q == [k \in 0..3 |-> At(u, k)]
           t == [u EXCEPT !.cpu.q = q]
<1>1. GotoFar(m, cs, ip) = t BY Zenon DEF GotoFar, PrefetchFlush
<1>2. CS \in 0..3 BY RegisterNames
<1>3. /\ u \in Machines
      /\ u.cpu.b = m.cpu.b /\ u.cpu.ea = m.cpu.ea /\ u.out = m.out /\ u.cpu.w = m.cpu.w
      /\ \A r \in 0..3 : r # CS => u.cpu.s[r] = m.cpu.s[r]
  BY <1>2, ZenonT(60) DEF Machines, Cpu8088
<1> HIDE DEF u, q
<1>4. t.cpu.b = u.cpu.b /\ t.cpu.ea = u.cpu.ea /\ t.out = u.out /\ t.cpu.w = u.cpu.w /\ t.cpu.s = u.cpu.s
  BY <1>3, ZenonT(60) DEF Machines, Cpu8088
<1> HIDE DEF t
<1> QED BY <1>1, <1>3, <1>4, Zenon DEF Others

LEMMA InterruptOthers ==
  ASSUME NEW m \in Machines, NEW number \in Nat PROVE Others(m, Interrupt(m, number))
<1> DEFINE w == FlagWord(m.cpu.f)
           p1 == Push(m, w)
           p2 == Push(p1, m.cpu.s[CS])
           p3 == Push(p2, m.cpu.ip)
           d == [p3 EXCEPT !.cpu.f.i = 0, !.cpu.f.t = 0]
           seg == ReadWord(m, ((number % 256) * 4) + 2)
           ofs == ReadWord(m, (number % 256) * 4)
           e == GotoFar(d, seg, ofs)
<1>1. Interrupt(m, number) = e BY Zenon DEF Interrupt
<1>2. w \in Int /\ m.cpu.s[CS] \in Int /\ m.cpu.ip \in Int
  BY Parts, RegisterNames, FlagsReturn, WordIsInt, Zenon
<1>3. seg \in Words16 /\ ofs \in Words16 BY Parts, ReadWordIsWord, Zenon
<1> HIDE DEF w, seg, ofs
<1>4. p1 \in Machines /\ Others(m, p1) BY <1>2, Pushed, OthersPush, Zenon
<1> HIDE DEF p1
<1>5. p2 \in Machines /\ Others(p1, p2) BY <1>2, <1>4, Pushed, OthersPush, Zenon
<1> HIDE DEF p2
<1>6. p3 \in Machines /\ Others(p2, p3) BY <1>2, <1>5, Pushed, OthersPush, Zenon
<1> HIDE DEF p3
<1>7. d \in Machines
  <2>1. 0 \in Bits BY DEF Bits
  <2> QED BY <1>6, <2>1, ZenonT(60) DEF Machines, Cpu8088, Flags8088
<1>8. Others(p3, d)
  <2>1. d.cpu.b = p3.cpu.b /\ d.cpu.ea = p3.cpu.ea /\ d.out = p3.out /\ d.cpu.s = p3.cpu.s /\ d.cpu.w = p3.cpu.w
    BY <1>6, ZenonT(60) DEF Machines, Cpu8088
  <2> HIDE DEF d
  <2> QED BY <2>1, Zenon DEF Others
<1> HIDE DEF d
<1>9. Others(d, e) BY <1>3, <1>7, OthersGotoFar
<1> HIDE DEF e
<1>10. Others(m, p3) BY <1>4, <1>5, <1>6, OthersOthers
<1>11. Others(m, d) BY <1>8, <1>10, OthersOthers
<1> QED BY <1>1, <1>9, <1>11, OthersOthers

LEMMA IretOthers ==
  ASSUME NEW h \in Machines, NEW x \in Decodings PROVE Others(h, Iret(h, x))
<1> DEFINE t1 == Past(h, x, 0)
           t2 == Drop(t1, 2)
           t3 == Drop(t2, 2)
           t4 == Drop(t3, 2)
           f == FlagsIn(Top(t3))
           t5 == [t4 EXCEPT !.cpu.f = f]
           t6 == [t5 EXCEPT !.cpu.held = TRUE]
           cs == Top(t2)
           ip == Top(t1)
           r == GotoFar(t6, cs, ip)
<1>1. Iret(h, x) = r BY Zenon DEF Iret, SetFlags
<1>2. t1 \in Machines /\ Others(h, t1)
  <2>1. 0 \in Nat OBVIOUS
  <2> QED BY <2>1, FetchBeside, OthersPast, Zenon DEF Beside
<1>3. ip \in Words16 BY <1>2, TopIsWord
<1> HIDE DEF t1
<1>4. t2 \in Machines /\ Others(t1, t2) BY <1>2, SmallInts, DroppedAny, OthersDrop
<1>5. cs \in Words16 BY <1>4, TopIsWord
<1> HIDE DEF t2
<1>6. t3 \in Machines /\ Others(t2, t3) BY <1>4, SmallInts, DroppedAny, OthersDrop
<1>7. f \in Flags8088 BY <1>6, TopIsWord, WordIsInt, FlagsInAre
<1> HIDE DEF t3
<1>8. t4 \in Machines /\ Others(t3, t4) BY <1>6, SmallInts, DroppedAny, OthersDrop
<1> HIDE DEF t4, f, cs, ip
<1>9. t6 \in Machines /\ Others(t4, t6)
  <2>1. t5 \in Machines /\ t5.cpu.b = t4.cpu.b /\ t5.cpu.ea = t4.cpu.ea /\ t5.out = t4.out /\ t5.cpu.s = t4.cpu.s /\ t5.cpu.w = t4.cpu.w
    BY <1>7, <1>8, ZenonT(60) DEF Machines, Cpu8088
  <2> HIDE DEF t5
  <2>2. TRUE \in BOOLEAN OBVIOUS
  <2>3. t6 \in Machines /\ t6.cpu.b = t5.cpu.b /\ t6.cpu.ea = t5.cpu.ea /\ t6.out = t5.out /\ t6.cpu.s = t5.cpu.s /\ t6.cpu.w = t5.cpu.w
    BY <2>1, <2>2, ZenonT(60) DEF Machines, Cpu8088
  <2> HIDE DEF t6
  <2> QED BY <2>1, <2>3, Zenon DEF Others
<1> HIDE DEF t6
<1>10. Others(t6, r) BY <1>3, <1>5, <1>9, OthersGotoFar
<1> HIDE DEF r
<1>11. Others(h, t3) BY <1>2, <1>4, <1>6, OthersOthers
<1>12. Others(h, t6) BY <1>8, <1>9, <1>11, OthersOthers
<1> QED BY <1>1, <1>10, <1>12, OthersOthers

\* An IRET right after an interrupt gives back the whole processor.
LEMMA IretUndoes ==
  ASSUME NEW m \in Machines, NEW number \in Nat, NEW x \in Decodings
  PROVE  LET r == Iret(Interrupt(m, number), x).cpu
         IN  /\ r \in Cpu8088 /\ r.held = TRUE
             /\ r.b = m.cpu.b /\ r.w = m.cpu.w /\ r.s = m.cpu.s /\ r.ip = m.cpu.ip
             /\ r.f = m.cpu.f /\ r.ea = m.cpu.ea
<1>1. PICK e : e = Interrupt(m, number) OBVIOUS
<1>2. Saves(m, e) /\ Others(m, e) BY <1>1, InterruptSaves, InterruptOthers, Zenon
<1>3. e \in Machines BY <1>2, Zenon DEF Saves
<1>4. PICK t : t = Iret(e, x) OBVIOUS
<1>5. t \in Machines BY <1>3, <1>4, IretKeeps, Zenon DEF Keeps
<1>6. Others(m, t)
  <2>1. Others(e, t) BY <1>3, <1>4, IretOthers, Zenon
  <2> QED BY <1>2, <2>1, OthersOthers
<1>7. t.cpu.ip = m.cpu.ip BY <1>2, <1>3, <1>4, IretRestores, Zenon
<1>8. t.cpu.s[CS] = m.cpu.s[CS] BY <1>2, <1>3, <1>4, IretRestores, Zenon
<1>9. t.cpu.w[SP] = m.cpu.w[SP] BY <1>2, <1>3, <1>4, IretRestores, Zenon
<1>10. t.cpu.f = m.cpu.f BY <1>2, <1>3, <1>4, IretRestores, Zenon
<1>11. t.cpu.held = TRUE BY <1>2, <1>3, <1>4, IretRestores, Zenon
<1>12. t.cpu.w = m.cpu.w
  <2>1. t.cpu.w \in [4..7 -> Words16] /\ m.cpu.w \in [4..7 -> Words16] BY <1>5, Parts
  <2>2. \A r \in 4..7 : t.cpu.w[r] = m.cpu.w[r] BY <1>6, <1>9, Zenon DEF Others
  <2> QED BY <2>1, <2>2, SMT
<1>13. t.cpu.s = m.cpu.s
  <2>1. t.cpu.s \in [0..3 -> Words16] /\ m.cpu.s \in [0..3 -> Words16] BY <1>5, Parts
  <2>2. \A r \in 0..3 : t.cpu.s[r] = m.cpu.s[r] BY <1>6, <1>8, Zenon DEF Others
  <2> QED BY <2>1, <2>2, SMT
<1>14. t.cpu \in Cpu8088 /\ t.cpu.b = m.cpu.b /\ t.cpu.ea = m.cpu.ea
  BY <1>5, <1>6, Parts, Zenon DEF Others
<1>15. t.cpu = Iret(Interrupt(m, number), x).cpu BY <1>1, <1>4, Zenon
<1> QED BY <1>7, <1>10, <1>11, <1>12, <1>13, <1>14, <1>15, Zenon

\* t gives c back at once, but for the queue and the requests that wait.
GivesBack(c, t) ==
  \A x \in Decodings :
    LET r == Iret(t, x).cpu
    IN  r.held /\ [r EXCEPT !.q = c.q, !.held = c.held, !.list = c.list] = c
\* d is c with other requests waiting.
Apart(c, d) == [d EXCEPT !.list = c.list] = c

LEMMA SameProcessor ==
  ASSUME NEW c \in Cpu8088, NEW d \in Cpu8088,
         c.b = d.b, c.w = d.w, c.s = d.s, c.ip = d.ip, c.f = d.f, c.q = d.q, c.ea = d.ea,
         c.held = d.held, c.list = d.list
  PROVE  c = d
<1>1. c = [b |-> c.b, w |-> c.w, s |-> c.s, ip |-> c.ip, f |-> c.f, q |-> c.q, ea |-> c.ea,
           held |-> c.held, list |-> c.list]
  BY DEF Cpu8088
<1>2. d = [b |-> d.b, w |-> d.w, s |-> d.s, ip |-> d.ip, f |-> d.f, q |-> d.q, ea |-> d.ea,
           held |-> d.held, list |-> d.list]
  BY DEF Cpu8088
<1> QED BY <1>1, <1>2, Zenon
LEMMA ApartFields ==
  ASSUME NEW c \in Cpu8088, NEW d \in Cpu8088, Apart(c, d)
  PROVE  /\ d.b = c.b /\ d.w = c.w /\ d.s = c.s /\ d.ip = c.ip /\ d.f = c.f /\ d.q = c.q
         /\ d.ea = c.ea /\ d.held = c.held
<1> DEFINE e == [d EXCEPT !.list = c.list]
<1>1. /\ e.b = d.b /\ e.w = d.w /\ e.s = d.s /\ e.ip = d.ip /\ e.f = d.f /\ e.q = d.q
      /\ e.ea = d.ea /\ e.held = d.held
  BY ZenonT(60) DEF Cpu8088
<1>2. e = c BY Zenon DEF Apart
<1> QED BY <1>1, <1>2, Zenon
LEMMA ApartList ==
  ASSUME NEW c \in Cpu8088, NEW m \in Machines, Apart(c, m.cpu), NEW l \in Seq(Bytes)
  PROVE  /\ [m EXCEPT !.cpu.list = l] \in Machines
         /\ [m EXCEPT !.cpu.list = l].out = m.out
         /\ Apart(c, [m EXCEPT !.cpu.list = l].cpu)
<1> DEFINE t == [m EXCEPT !.cpu.list = l]
           d == m.cpu
           e == [t.cpu EXCEPT !.list = c.list]
<1>1. t \in Machines BY ListSet, Zenon DEF Stays
<1>2. t.out = m.out BY ZenonT(60) DEF Machines
<1>3. /\ t.cpu.b = d.b /\ t.cpu.w = d.w /\ t.cpu.s = d.s /\ t.cpu.ip = d.ip /\ t.cpu.f = d.f
      /\ t.cpu.q = d.q /\ t.cpu.ea = d.ea /\ t.cpu.held = d.held
  BY ZenonT(60) DEF Machines, Cpu8088
<1> HIDE DEF t
<1>4. t.cpu \in Cpu8088 /\ d \in Cpu8088 BY <1>1, Parts
<1>5. c.list \in Seq(Bytes) BY Zenon DEF Cpu8088
<1>6. e \in Cpu8088 BY <1>4, <1>5, ZenonT(60) DEF Cpu8088
<1>7. /\ e.b = t.cpu.b /\ e.w = t.cpu.w /\ e.s = t.cpu.s /\ e.ip = t.cpu.ip /\ e.f = t.cpu.f
      /\ e.q = t.cpu.q /\ e.ea = t.cpu.ea /\ e.held = t.cpu.held /\ e.list = c.list
  BY <1>4, ZenonT(60) DEF Cpu8088
<1>8. /\ d.b = c.b /\ d.w = c.w /\ d.s = c.s /\ d.ip = c.ip /\ d.f = c.f /\ d.q = c.q
      /\ d.ea = c.ea /\ d.held = c.held
  BY <1>4, ApartFields, Zenon
<1> HIDE DEF d
<1>9. Apart(c, t.cpu)
  <2> SUFFICES e = c BY Zenon DEF Apart
  <2> HIDE DEF e
  <2> QED BY <1>3, <1>6, <1>7, <1>8, SameProcessor
<1> QED BY <1>1, <1>2, <1>9, Zenon DEF t

LEMMA InterruptGivesBack ==
  ASSUME NEW c \in Cpu8088, NEW m \in Machines, Apart(c, m.cpu), NEW number \in Nat
  PROVE  GivesBack(c, Interrupt(m, number))
<1> SUFFICES ASSUME NEW x \in Decodings
             PROVE  LET r == Iret(Interrupt(m, number), x).cpu
                    IN  r.held /\ [r EXCEPT !.q = c.q, !.held = c.held, !.list = c.list] = c
  BY Zenon DEF GivesBack
<1>1. PICK r : r = Iret(Interrupt(m, number), x).cpu OBVIOUS
<1>2. /\ r \in Cpu8088 /\ r.held = TRUE
      /\ r.b = m.cpu.b /\ r.w = m.cpu.w /\ r.s = m.cpu.s /\ r.ip = m.cpu.ip
      /\ r.f = m.cpu.f /\ r.ea = m.cpu.ea
  BY <1>1, IretUndoes
<1>3. m.cpu \in Cpu8088 BY Parts
<1>4. /\ m.cpu.b = c.b /\ m.cpu.w = c.w /\ m.cpu.s = c.s /\ m.cpu.ip = c.ip /\ m.cpu.f = c.f
      /\ m.cpu.ea = c.ea
  BY <1>3, ApartFields, Zenon
<1> DEFINE e == [r EXCEPT !.q = c.q, !.held = c.held, !.list = c.list]
<1>5. e \in Cpu8088 BY <1>2, ZenonT(60) DEF Cpu8088
<1>6. /\ e.b = r.b /\ e.w = r.w /\ e.s = r.s /\ e.ip = r.ip /\ e.f = r.f /\ e.ea = r.ea
      /\ e.q = c.q /\ e.held = c.held /\ e.list = c.list
  BY <1>2, ZenonT(60) DEF Cpu8088
<1> HIDE DEF e
<1>7. e = c BY <1>2, <1>4, <1>5, <1>6, SameProcessor
<1> QED BY <1>1, <1>2, <1>7, Zenon DEF e

\* An interrupt asked for waits, or is taken by a processor free to take it, and
\* can be undone.
Reversible(c, m, t) ==
  t \in Machines /\ t.out = m.out /\ (Apart(c, t.cpu) \/ (~c.held /\ GivesBack(c, t)))
LEMMA OutstandingUndone ==
  ASSUME NEW c \in Cpu8088, NEW m \in Machines, Apart(c, m.cpu)
  PROVE  Reversible(c, m, HandleOutstandingInterrupts(m))
<1>1. CASE m.cpu.held \/ m.cpu.list = <<>>
  BY <1>1, Zenon DEF HandleOutstandingInterrupts, Reversible
<1>2. CASE ~(m.cpu.held \/ m.cpu.list = <<>>)
  <2> DEFINE l == m.cpu.list
             t == [m EXCEPT !.cpu.list = Tail(l)]
             h == Head(l)
  <2>1. Tail(l) \in Seq(Bytes) /\ h \in Bytes
    <3>1. l \in Seq(Bytes) /\ l # <<>> BY <1>2, Parts
    <3> HIDE DEF l
    <3> QED BY <3>1
  <2>2. t \in Machines /\ t.out = m.out /\ Apart(c, t.cpu) BY <2>1, ApartList
  <2>3. HandleOutstandingInterrupts(m) = Interrupt(t, h)
    BY <1>2, Zenon DEF HandleOutstandingInterrupts
  <2> HIDE DEF t, h, l
  <2>4. h \in Nat BY <2>1 DEF Bytes
  <2>5. GivesBack(c, Interrupt(t, h)) BY <2>2, <2>4, InterruptGivesBack
  <2>6. Interrupt(t, h) \in Machines BY <2>2, <2>4, InterruptSaves, Zenon DEF Saves
  <2>7. Interrupt(t, h).out = m.out BY <2>2, <2>4, InterruptOthers, Zenon DEF Others
  <2>8. ~c.held
    <3>1. m.cpu \in Cpu8088 BY Parts
    <3>2. m.cpu.held = c.held BY <3>1, ApartFields, Zenon
    <3> QED BY <1>2, <3>2, Zenon
  <2> QED BY <2>3, <2>5, <2>6, <2>7, <2>8, Zenon DEF Reversible
<1> QED BY <1>1, <1>2
LEMMA TrapUndone ==
  ASSUME NEW c \in Cpu8088, NEW m \in Machines, Apart(c, m.cpu), NEW number \in Bytes
  PROVE  Reversible(c, m, Trap(m, number)) /\ Reversible(c, m, TrapMaskable(m, number))
<1> DEFINE l == m.cpu.list
           t == [m EXCEPT !.cpu.list = Append(l, number)]
<1>1. Append(l, number) \in Seq(Bytes)
  <2>1. l \in Seq(Bytes) BY Parts
  <2> HIDE DEF l
  <2> QED BY <2>1
<1>2. t \in Machines /\ t.out = m.out /\ Apart(c, t.cpu) BY <1>1, ApartList
<1>3. Trap(m, number) = HandleOutstandingInterrupts(t) BY Zenon DEF Trap
<1> HIDE DEF t
<1>4. Reversible(c, t, Trap(m, number)) BY <1>2, <1>3, OutstandingUndone, Zenon
<1>5. Reversible(c, m, Trap(m, number)) BY <1>2, <1>4, Zenon DEF Reversible
<1> QED BY <1>5, OutstandingUndone, Zenon DEF TrapMaskable

-----------------------------------------------------------------------------
(* Repeated string instructions, for every count. *)

BlockMoves == {\ha4, \ha5}
BlockStores == {\haa, \hab}
Scans == {\ha6, \ha7, \hae, \haf}
\* Those that take an element at DS:SI; the other ones take AL or AX.
FromMemory == {\ha4, \ha5, \ha6, \ha7}

\* The bytes of an element, and where the i-th element from here has its byte b.
Span(n) == IF n = 8 THEN {0} ELSE {0, 1}
Cell(s, o, b) == Phys(s, (o + b) % WordSize)
Offset(m, x, r, i) == (m.cpu.w[r] + i * Step(m, Width(x))) % WordSize
SourceCell(m, x, i, b) == Cell(Seg(m.cpu, x.seg, DS), Offset(m, x, SI, i), b)
TargetCell(m, x, i, b) == Cell(m.cpu.s[ES], Offset(m, x, DI, i), b)
\* What the i-th round moves, stores or looks for.
Supplied(m, x, i, b) ==
  IF x.op \in FromMemory THEN Read(m, SourceCell(m, x, i, b)) ELSE m.cpu.b[IF b = 0 THEN AX ELSE AH]
Same(m, x, i) == \A b \in Span(Width(x)) : Supplied(m, x, i, b) = Read(m, TargetCell(m, x, i, b))
Count(m) == DecodeReg(m, 16, CX)

LEMMA StepIs ==
  ASSUME NEW m, NEW n \in Widths
  PROVE  Step(m, n) = n \div 8 \/ Step(m, n) = -(n \div 8)
  BY Zenon DEF Step
LEMMA ElementBytes == 8 \div 8 = 1 /\ 16 \div 8 = 2
  BY SMT
LEMMA OffsetIsWord ==
  ASSUME NEW m \in Machines, NEW x \in Decodings, NEW r \in 4..7, NEW i \in Int
  PROVE  Offset(m, x, r, i) \in Words16
<1>1. Width(x) \in Widths BY Decoding
<1>2. Step(m, Width(x)) \in Int BY <1>1, StepIsInt
<1>3. i * Step(m, Width(x)) \in Int BY <1>2, ProductIsInt
<1>4. m.cpu.w[r] \in Int BY Parts, WordIsInt, Zenon
<1>5. m.cpu.w[r] + i * Step(m, Width(x)) \in Int BY <1>3, <1>4, IntSum
<1> QED BY <1>5, WordCut, Zenon DEF Offset
LEMMA OffsetNext ==
  ASSUME NEW m \in Machines, NEW x \in Decodings, NEW r \in 4..7, NEW i \in Int
  PROVE  /\ (Offset(m, x, r, i) + Step(m, Width(x))) % WordSize = Offset(m, x, r, i + 1)
         /\ Offset(m, x, r, 0) = m.cpu.w[r]
<1>1. Width(x) \in Widths BY Decoding
<1> DEFINE s == Step(m, Width(x))
           p == m.cpu.w[r]
<1>2. s \in Int BY <1>1, StepIsInt
<1>3. p \in Int /\ p \in Words16 BY Parts, WordIsInt, Zenon
<1>4. Offset(m, x, r, i) = (p + i * s) % WordSize /\ Offset(m, x, r, i + 1) = (p + (i + 1) * s) % WordSize
      /\ Offset(m, x, r, 0) = (p + 0 * s) % WordSize
  BY DEF Offset
<1> HIDE DEF s, p
<1>5. i * s \in Int BY <1>2, ProductIsInt
<1>6. (i + 1) * s = i * s + s BY <1>2, SMT
<1>7. 0 * s = 0 BY <1>2, SMT
<1>8. PICK y \in Int : y = p + i * s BY <1>3, <1>5
<1>9. p + (i + 1) * s = y + s BY <1>2, <1>3, <1>5, <1>6, <1>8
<1>10. WordSize = 65536 BY DEF WordSize
<1>11. ((y % WordSize) + s) % WordSize = (y + s) % WordSize
  <2>1. ((y % 65536) + s) % 65536 = (y + s) % 65536 BY <1>2, <1>8, SMT
  <2> QED BY <1>10, <2>1
<1>12. p % WordSize = p /\ p + 0 = p
  <2>1. p \in Int /\ 0 <= p /\ p <= 65535 BY <1>3, WordRange
  <2> QED BY <1>10, <2>1, SMT
<1> QED BY <1>4, <1>7, <1>8, <1>9, <1>11, <1>12, Zenon DEF s, p

\* One step along a string moves one register.
LEMMA AlongSets ==
  ASSUME NEW m \in Machines, NEW r \in 4..7, NEW n \in Widths
  PROVE  /\ Along(m, r, n) \in Machines /\ Along(m, r, n).mem = m.mem
         /\ Along(m, r, n).cpu.s = m.cpu.s /\ Along(m, r, n).cpu.b = m.cpu.b
         /\ Along(m, r, n).cpu.f = m.cpu.f
         /\ Along(m, r, n).cpu.w[r] = (m.cpu.w[r] + Step(m, n)) % WordSize
         /\ \A k \in 4..7 : k # r => Along(m, r, n).cpu.w[k] = m.cpu.w[k]
<1> DEFINE v == (m.cpu.w[r] + Step(m, n)) % WordSize
           t == [m EXCEPT !.cpu.w[r] = v]
<1>1. Along(m, r, n) = t BY Zenon DEF Along
<1>2. t \in Machines BY <1>1, AlongStays, StaysMachine
<1> SUFFICES /\ t.mem = m.mem /\ t.cpu.s = m.cpu.s /\ t.cpu.b = m.cpu.b /\ t.cpu.f = m.cpu.f
             /\ t.cpu.w[r] = v /\ \A k \in 4..7 : k # r => t.cpu.w[k] = m.cpu.w[k]
  BY <1>1, <1>2, Zenon
<1> HIDE DEF v
<1>3. t.mem = m.mem /\ t.cpu.s = m.cpu.s /\ t.cpu.b = m.cpu.b /\ t.cpu.f = m.cpu.f
  BY Zenon DEF Machines, Cpu8088
<1>4. t.cpu.w[r] = v BY Zenon DEF Machines, Cpu8088
<1>5. ASSUME NEW k \in 4..7, k # r PROVE t.cpu.w[k] = m.cpu.w[k]
  BY <1>5, Zenon DEF Machines, Cpu8088
<1> HIDE DEF t
<1> QED BY <1>3, <1>4, <1>5

LEMMA FlagsSet ==
  ASSUME NEW m \in Machines, NEW f \in Flags8088
  PROVE  /\ SetFlags(m, f) \in Machines /\ SetFlags(m, f).mem = m.mem
         /\ SetFlags(m, f).cpu.s = m.cpu.s /\ SetFlags(m, f).cpu.b = m.cpu.b
         /\ SetFlags(m, f).cpu.w = m.cpu.w /\ SetFlags(m, f).cpu.f = f
<1>1. SetFlags(m, f) \in Machines BY SetF, StaysMachine
<1> QED BY <1>1, Zenon DEF SetFlags, Machines, Cpu8088

LEMMA WholeOfHalves ==
  ASSUME NEW v \in Int PROVE Pair(High(v), Low(v)) = v % WordSize
<1>0. WordSize = 65536 BY DEF WordSize
<1> QED BY <1>0, SMT DEF Pair, High, Low

\* The count is kept in CX, beside what is in AX.
LEMMA CountSets ==
  ASSUME NEW m \in Machines, NEW v \in Int
  PROVE  LET t == WritebackReg(m, 16, CX, v)
         IN  /\ t \in Machines /\ t.mem = m.mem /\ t.cpu.s = m.cpu.s /\ t.cpu.w = m.cpu.w
             /\ t.cpu.f = m.cpu.f /\ t.cpu.b[AX] = m.cpu.b[AX] /\ t.cpu.b[AH] = m.cpu.b[AH]
             /\ Count(t) = v % WordSize
<1> DEFINE l == Low(v)
           h == High(v)
           t == [m EXCEPT !.cpu.b[1] = l, !.cpu.b[5] = h]
<1>1. WritebackReg(m, 16, CX, v) = t BY SMT DEF WritebackReg, CX
<1>2. t \in Machines
  BY <1>1, BothWidths, RegisterNames, WritebackRegStays, StaysMachine, Zenon
<1>3. \A u : Count(u) = Pair(u.cpu.b[5], u.cpu.b[1]) BY SMT DEF Count, DecodeReg, CX
<1>4. Pair(h, l) = v % WordSize BY WholeOfHalves
<1> HIDE DEF l, h
<1>5. 0 \in 0..7 /\ 1 \in 0..7 /\ 4 \in 0..7 /\ 5 \in 0..7 /\ 0 # 1 /\ 0 # 5 /\ 4 # 1 /\ 4 # 5 /\ 5 # 1
  BY SMT
<1>6. t.mem = m.mem /\ t.cpu.s = m.cpu.s /\ t.cpu.w = m.cpu.w /\ t.cpu.f = m.cpu.f
  BY Zenon DEF Machines, Cpu8088
<1>7. t.cpu.b[0] = m.cpu.b[0] /\ t.cpu.b[4] = m.cpu.b[4] BY <1>5, Zenon DEF Machines, Cpu8088
<1>8. t.cpu.b[1] = l /\ t.cpu.b[5] = h BY <1>5, Zenon DEF Machines, Cpu8088
<1> HIDE DEF t
<1>9. Count(t) = v % WordSize BY <1>3, <1>4, <1>8, Zenon
<1>10. t.cpu.b[AX] = m.cpu.b[AX] /\ t.cpu.b[AH] = m.cpu.b[AH] BY <1>7, Zenon DEF AX, AH
<1> QED BY <1>1, <1>2, <1>6, <1>9, <1>10, Zenon

\* A string starts at the machine that has fetched it.
LEMMA FetchedIs ==
  ASSUME NEW m \in Machines, NEW x \in Decodings
  PROVE  LET t == Past(m, x, 0)
         IN  /\ t \in Machines /\ t.mem = m.mem /\ t.cpu.s = m.cpu.s /\ t.cpu.w = m.cpu.w
             /\ t.cpu.f = m.cpu.f /\ t.cpu.b = m.cpu.b
<1> DEFINE ip == (m.cpu.ip + (x.at + 0)) % WordSize
           q == [k \in 0..3 |-> Ahead(m, (x.at + 0) + k)]
           t == [m EXCEPT !.cpu.ip = ip, !.cpu.q = q]
<1>1. Past(m, x, 0) = t BY Zenon DEF Past, Fetch
<1>2. t \in Machines BY <1>1, SmallInts, PastLed, LedMachine
<1> HIDE DEF ip, q
<1>3. t.mem = m.mem /\ t.cpu.s = m.cpu.s /\ t.cpu.w = m.cpu.w /\ t.cpu.f = m.cpu.f /\ t.cpu.b = m.cpu.b
  BY ZenonT(60) DEF Machines, Cpu8088
<1> HIDE DEF t
<1> QED BY <1>1, <1>2, <1>3, Zenon

\* A comparison of elements.
LEMMA ZeroDifference ==
  ASSUME NEW n \in Widths, NEW a \in Numbers(n), NEW b \in Numbers(n)
  PROVE  ((a - b) % 2^n = 0) = (a = b)
<1>1. CASE n = 8
  <2>1. a \in Int /\ 0 <= a /\ a < 256 /\ b \in Int /\ 0 <= b /\ b < 256
    BY <1>1, Halves, SMT DEF Numbers
  <2>2. ((a - b) % 256 = 0) = (a = b) BY <2>1, SMT
  <2> QED BY <1>1, <2>2, Halves
<1>2. CASE n = 16
  <2>1. a \in Int /\ 0 <= a /\ a < 65536 /\ b \in Int /\ 0 <= b /\ b < 65536
    BY <1>2, Halves, SMT DEF Numbers
  <2>2. ((a - b) % 65536 = 0) = (a = b) BY <2>1, SMT
  <2> QED BY <1>2, <2>2, Halves
<1> QED BY <1>1, <1>2, Zenon DEF Widths
LEMMA ComparedBy ==
  ASSUME NEW f \in Flags8088, NEW n \in Widths, NEW a \in Numbers(n), NEW b \in Numbers(n)
  PROVE  /\ SubOp(f, n, a, b).f \in Flags8088 /\ SubOp(f, n, a, b).f.d = f.d
         /\ SubOp(f, n, a, b).f.z = Flag(a = b)
<1> DEFINE g == SetFlagsSub(f, n, a, b, a - b)
<1>1. SubOp(f, n, a, b).f = g BY Zenon DEF SubOp
<1>2. a \in Int /\ b \in Int BY DEF Numbers
<1>3. g \in Flags8088
  <2>1. a - b \in Int BY <1>2, IntSum
  <2> QED BY <1>2, <2>1, AddSubAreFlags
<1>4. g.d = f.d BY Zenon DEF SetFlagsSub, SetFlagsCarry, SetFlagsZSP, Flags8088
<1>5. g.z = Flag((a - b) % 2^n = 0) BY SubFlags
<1> HIDE DEF g
<1>6. ((a - b) % 2^n = 0) = (a = b) BY ZeroDifference
<1>7. g.z = Flag(a = b) BY <1>5, <1>6
<1> QED BY <1>1, <1>3, <1>4, <1>7, Zenon

\* An element is a number of its width, and two are equal when their bytes are.
LEMMA ByteRange == ASSUME NEW v \in Bytes PROVE v \in Int /\ 0 <= v /\ v <= 255
  BY SMT DEF Bytes
LEMMA PairsEqual ==
  ASSUME NEW a \in Bytes, NEW b \in Bytes, NEW c \in Bytes, NEW d \in Bytes
  PROVE  (Pair(a, b) = Pair(c, d)) = (a = c /\ b = d)
  BY ByteRange, SMT DEF Pair
LEMMA PairParts ==
  ASSUME NEW a \in Bytes, NEW b \in Bytes PROVE High(Pair(a, b)) = a /\ Low(Pair(a, b)) = b
<1>1. a \in Int /\ 0 <= a /\ a <= 255 /\ b \in Int /\ 0 <= b /\ b <= 255 BY ByteRange
<1>2. ((256 * a + b) \div 256) % 256 = a /\ (256 * a + b) % 256 = b BY <1>1, SMT
<1> QED BY <1>2, SMT DEF Pair, High, Low
LEMMA WordNumber == ASSUME NEW v \in Int, 0 <= v, v <= 65535 PROVE v \in Numbers(16)
<1>1. 2^16 = 65536 BY Halves
<1> QED BY <1>1, SMT DEF Numbers
LEMMA PairIsNumber ==
  ASSUME NEW a \in Bytes, NEW b \in Bytes PROVE Pair(a, b) \in Numbers(16)
<1>1. a \in Int /\ 0 <= a /\ a <= 255 /\ b \in Int /\ 0 <= b /\ b <= 255 BY ByteRange
<1> DEFINE v == 256 * a + b
<1>2. v \in Int /\ 0 <= v /\ v <= 65535 BY <1>1, SMT
<1>3. Pair(a, b) = v BY DEF Pair
<1> HIDE DEF v
<1> QED BY <1>2, <1>3, WordNumber
LEMMA ByteIsNumber == ASSUME NEW a \in Bytes PROVE a \in Numbers(8)
  BY Halves, SMT DEF Bytes, Numbers

LEMMA SpanIs == Span(8) = {0} /\ Span(16) = {0, 1} BY SMT DEF Span
LEMMA CellOfWord ==
  ASSUME NEW s, NEW o \in Words16 PROVE Cell(s, o, 0) = Phys(s, o)
<1>0. WordSize = 65536 BY DEF WordSize
<1>1. o \in Int /\ 0 <= o /\ o <= 65535 BY WordRange
<1>2. (o + 0) % WordSize = o BY <1>0, <1>1, SMT
<1> QED BY <1>2, Zenon DEF Cell

\* An element as the bytes it consists of.
LEMMA ReadAtBytes ==
  ASSUME NEW m \in Machines, NEW s, NEW o \in Words16
  PROVE  /\ ReadAt(m, s, o, 8) = Read(m, Cell(s, o, 0))
         /\ ReadAt(m, s, o, 16) = Pair(Read(m, Cell(s, o, 1)), Read(m, Cell(s, o, 0)))
<1>1. Cell(s, o, 0) = Phys(s, o) BY CellOfWord
<1>2. ReadAt(m, s, o, 8) = Read(m, Phys(s, o)) BY SMT DEF ReadAt
<1>3. ReadAt(m, s, o, 16) = Pair(Read(m, Phys(s, (o + 1) % WordSize)), Read(m, Phys(s, o))) BY SMT DEF ReadAt
<1> QED BY <1>1, <1>2, <1>3, Zenon DEF Cell
LEMMA AXBytes ==
  ASSUME NEW m \in Machines
  PROVE  /\ DecodeReg(m, 8, AX) = m.cpu.b[AX] /\ DecodeReg(m, 16, AX) = Pair(m.cpu.b[AH], m.cpu.b[AX])
         /\ m.cpu.b[AX] \in Bytes /\ m.cpu.b[AH] \in Bytes
<1>1. DecodeReg(m, 8, AX) = m.cpu.b[AX] BY SMT DEF DecodeReg
<1>2. DecodeReg(m, 16, AX) = Pair(m.cpu.b[AX + 4], m.cpu.b[AX]) BY SMT DEF DecodeReg, AX
<1>3. AX + 4 = AH BY DEF AX, AH
<1> QED BY <1>1, <1>2, <1>3, AlIsByte, Zenon

\* The element a string instruction takes, and the one it compares or replaces.
Element(m, x) ==
  IF x.op \in FromMemory THEN Source(m, x, Width(x)) ELSE DecodeReg(m, Width(x), AX)
LEMMA Elements ==
  ASSUME NEW m \in Machines, NEW x \in Decodings
  PROVE  /\ Element(m, x) \in Numbers(Width(x)) /\ Target(m, Width(x)) \in Numbers(Width(x))
         /\ (Element(m, x) = Target(m, Width(x))) = Same(m, x, 0)
         /\ Low(Element(m, x)) = Supplied(m, x, 0, 0)
         /\ Width(x) = 16 => High(Element(m, x)) = Supplied(m, x, 0, 1)
<1> DEFINE n == Width(x)
           E(b) == Supplied(m, x, 0, b)
           T(b) == Read(m, TargetCell(m, x, 0, b))
<1>1. n \in Widths BY Decoding
<1>2. SI \in 4..7 /\ DI \in 4..7 /\ 0 \in Int BY RegisterNames, SmallInts
<1>3. m.cpu.w[SI] \in Words16 /\ m.cpu.w[DI] \in Words16 BY <1>2, Parts, Zenon
<1>4. Offset(m, x, SI, 0) = m.cpu.w[SI] /\ Offset(m, x, DI, 0) = m.cpu.w[DI] BY <1>2, OffsetNext
<1>5. \A b : SourceCell(m, x, 0, b) = Cell(Seg(m.cpu, x.seg, DS), m.cpu.w[SI], b)
             /\ TargetCell(m, x, 0, b) = Cell(m.cpu.s[ES], m.cpu.w[DI], b)
  BY <1>4, Zenon DEF SourceCell, TargetCell
<1>6. Target(m, 8) = T(0) /\ Target(m, 16) = Pair(T(1), T(0))
  BY <1>3, <1>5, ReadAtBytes, Zenon DEF Target
<1>7. \A b : Read(m, b) \in Bytes BY Parts, ReadIsByte, Zenon
<1>8. n = 8 \/ n = 16 BY <1>1, Zenon DEF Widths
<1>9. /\ E(0) \in Bytes /\ E(1) \in Bytes
      /\ n = 8 => Element(m, x) = E(0)
      /\ n = 16 => Element(m, x) = Pair(E(1), E(0))
  <2>1. CASE x.op \in FromMemory
    <3>1. \A b : E(b) = Read(m, Cell(Seg(m.cpu, x.seg, DS), m.cpu.w[SI], b))
      BY <1>5, <2>1, Zenon DEF Supplied
    <3>2. Element(m, x) = ReadAt(m, Seg(m.cpu, x.seg, DS), m.cpu.w[SI], n)
      BY <2>1, Zenon DEF Element, Source
    <3> HIDE DEF E, n
    <3> QED BY <1>3, <1>7, <3>1, <3>2, ReadAtBytes, Zenon
  <2>2. CASE x.op \notin FromMemory
    <3>1. Element(m, x) = DecodeReg(m, n, AX) BY <2>2, Zenon DEF Element
    <3>2. E(0) = m.cpu.b[AX] BY <2>2, Zenon DEF Supplied
    <3>3. E(1) = m.cpu.b[AH]
      <4>1. 1 # 0 BY SMT
      <4> QED BY <2>2, <4>1, Zenon DEF Supplied
    <3> HIDE DEF E, n
    <3> QED BY <3>1, <3>2, <3>3, AXBytes, Zenon
  <2> QED BY <2>1, <2>2
<1>10. T(0) \in Bytes /\ T(1) \in Bytes BY <1>7, Zenon
<1>11. Same(m, x, 0) = \A b \in Span(n) : E(b) = T(b) BY Zenon DEF Same
<1> HIDE DEF E, T
<1>12. CASE n = 8
  <2>1. Element(m, x) = E(0) /\ Target(m, n) = T(0) BY <1>6, <1>9, <1>12
  <2>2. Span(n) = {0} BY <1>12, SpanIs
  <2>3. Same(m, x, 0) = (E(0) = T(0)) BY <1>11, <2>2, Zenon
  <2>4. E(0) \in Numbers(n) /\ T(0) \in Numbers(n) BY <1>9, <1>10, <1>12, ByteIsNumber
  <2>5. Low(E(0)) = E(0)
    <3>1. E(0) \in Int /\ 0 <= E(0) /\ E(0) <= 255 BY <1>9, ByteRange
    <3> QED BY <3>1, SMT DEF Low
  <2>6. n # 16 BY <1>12
  <2> QED BY <2>1, <2>3, <2>4, <2>5, <2>6, Zenon DEF E, n
<1>13. CASE n = 16
  <2>1. Element(m, x) = Pair(E(1), E(0)) /\ Target(m, n) = Pair(T(1), T(0)) BY <1>6, <1>9, <1>13
  <2>2. Span(n) = {0, 1} BY <1>13, SpanIs
  <2>3. Same(m, x, 0) = (E(1) = T(1) /\ E(0) = T(0))
    <3>1. (\A b \in {0, 1} : E(b) = T(b)) = (E(1) = T(1) /\ E(0) = T(0)) OBVIOUS
    <3>2. Same(m, x, 0) = \A b \in {0, 1} : E(b) = T(b) BY <1>11, <2>2, Zenon
    <3> QED BY <3>1, <3>2, Zenon
  <2>4. Pair(E(1), E(0)) \in Numbers(n) /\ Pair(T(1), T(0)) \in Numbers(n)
    BY <1>9, <1>10, <1>13, PairIsNumber
  <2>5. Low(Pair(E(1), E(0))) = E(0) /\ High(Pair(E(1), E(0))) = E(1) BY <1>9, PairParts
  <2>6. (Pair(E(1), E(0)) = Pair(T(1), T(0))) = (E(1) = T(1) /\ E(0) = T(0)) BY <1>9, <1>10, PairsEqual
  <2> QED BY <2>1, <2>3, <2>4, <2>5, <2>6, Zenon DEF E, n
<1> QED BY <1>8, <1>12, <1>13, Zenon DEF n

\* The indices after a round.
LEMMA IndicesMove ==
  ASSUME NEW m \in Machines, NEW x \in Decodings, NEW u \in Machines, u.cpu = m.cpu
  PROVE  LET n == Width(x)
             v == IF x.op \in FromMemory THEN Along(Along(u, SI, n), DI, n) ELSE Along(u, DI, n)
         IN  /\ v \in Machines /\ v.mem = u.mem /\ v.cpu.s = m.cpu.s /\ v.cpu.b = m.cpu.b
             /\ v.cpu.f = m.cpu.f /\ v.cpu.w[DI] = Offset(m, x, DI, 1)
             /\ v.cpu.w[SI] = IF x.op \in FromMemory THEN Offset(m, x, SI, 1) ELSE m.cpu.w[SI]
<1> DEFINE n == Width(x)
           w == Along(u, SI, n)
           d == Along(w, DI, n)
           e == Along(u, DI, n)
           v == IF x.op \in FromMemory THEN d ELSE e
<1>1. n \in Widths BY Decoding
<1>2. SI \in 4..7 /\ DI \in 4..7 /\ SI # DI BY RegisterNames, SMT DEF SI, DI
<1>3. /\ (m.cpu.w[DI] + Step(m, n)) % WordSize = Offset(m, x, DI, 1)
      /\ (m.cpu.w[SI] + Step(m, n)) % WordSize = Offset(m, x, SI, 1)
  <2>1. 0 \in Int /\ 0 + 1 = 1 BY SMT
  <2> QED BY <1>2, <2>1, OffsetNext, Zenon
<1> HIDE DEF n
<1>4. Step(u, n) = Step(m, n) BY Zenon DEF Step
<1>5. /\ w \in Machines /\ w.mem = u.mem /\ w.cpu.s = u.cpu.s /\ w.cpu.b = u.cpu.b
      /\ w.cpu.f = u.cpu.f /\ w.cpu.w[SI] = (u.cpu.w[SI] + Step(u, n)) % WordSize
      /\ w.cpu.w[DI] = u.cpu.w[DI]
  BY <1>1, <1>2, AlongSets, Zenon
<1>6. /\ e \in Machines /\ e.mem = u.mem /\ e.cpu.s = u.cpu.s /\ e.cpu.b = u.cpu.b
      /\ e.cpu.f = u.cpu.f /\ e.cpu.w[DI] = (u.cpu.w[DI] + Step(u, n)) % WordSize
      /\ e.cpu.w[SI] = u.cpu.w[SI]
  BY <1>1, <1>2, AlongSets, Zenon
<1> HIDE DEF w, e
<1>7. /\ d \in Machines /\ d.mem = w.mem /\ d.cpu.s = w.cpu.s /\ d.cpu.b = w.cpu.b
      /\ d.cpu.f = w.cpu.f /\ d.cpu.w[DI] = (w.cpu.w[DI] + Step(w, n)) % WordSize
      /\ d.cpu.w[SI] = w.cpu.w[SI]
  BY <1>1, <1>2, <1>5, AlongSets, Zenon
<1>8. Step(w, n) = Step(u, n) BY <1>5, Zenon DEF Step
<1> HIDE DEF d
<1>9. CASE x.op \in FromMemory
  <2>1. v = d BY <1>9, Zenon
  <2> HIDE DEF v
  <2> QED BY <1>3, <1>4, <1>5, <1>7, <1>8, <1>9, <2>1, Zenon DEF v, d, w, e, n
<1>10. CASE x.op \notin FromMemory
  <2>1. v = e BY <1>10, Zenon
  <2> HIDE DEF v
  <2> QED BY <1>3, <1>4, <1>6, <1>10, <2>1, Zenon DEF v, d, w, e, n
<1> QED BY <1>9, <1>10

\* A scan compares one element and moves on.
LEMMA ScanOnce ==
  ASSUME NEW m \in Machines, NEW x \in Decodings, x.op \in Scans
  PROVE  LET t == Once(m, x)
         IN  /\ t \in Machines /\ t.mem = m.mem /\ t.cpu.s = m.cpu.s /\ t.cpu.b = m.cpu.b
             /\ t.cpu.f.d = m.cpu.f.d /\ t.cpu.f.z = Flag(Same(m, x, 0))
             /\ t.cpu.w[DI] = Offset(m, x, DI, 1)
             /\ t.cpu.w[SI] = IF x.op \in FromMemory THEN Offset(m, x, SI, 1) ELSE m.cpu.w[SI]
<1> DEFINE n == Width(x)
           a == Element(m, x)
           b == Target(m, n)
           f == SubOp(m.cpu.f, n, a, b).f
           v == IF x.op \in FromMemory THEN Along(Along(m, SI, n), DI, n) ELSE Along(m, DI, n)
<1>1. n \in Widths BY Decoding
<1>2. f \in Flags8088 /\ f.d = m.cpu.f.d /\ f.z = Flag(Same(m, x, 0))
  <2>1. a \in Numbers(n) /\ b \in Numbers(n) /\ (a = b) = Same(m, x, 0) BY Elements
  <2>2. m.cpu.f \in Flags8088 BY Parts
  <2> HIDE DEF a, b, n
  <2>3. f \in Flags8088 /\ f.d = m.cpu.f.d /\ f.z = Flag(a = b) BY <1>1, <2>1, <2>2, ComparedBy
  <2> QED BY <2>1, <2>3, Zenon
<1>3. Once(m, x) = SetFlags(v, f)
  <2> DEFINE op == x.op
  <2>1. op \in Scans OBVIOUS
  <2>2. Once(m, x) = CASE op \in {\ha4, \ha5} -> Movs(m, x, n)
                     [] op \in {\ha6, \ha7} -> Cmps(m, x, n)
                     [] op \in {\haa, \hab} -> Stos(m, x, n)
                     [] op \in {\hac, \had} -> Lods(m, x, n)
                     [] op \in {\hae, \haf} -> Scas(m, x, n)
    BY SMT DEF Once
  <2>3. op \in FromMemory => a = Source(m, x, n) BY Zenon DEF Element
  <2>4. op \notin FromMemory => a = DecodeReg(m, n, AX) BY Zenon DEF Element
  <2>5. Cmps(m, x, n) = SetFlags(Along(Along(m, SI, n), DI, n), SubOp(m.cpu.f, n, Source(m, x, n), b).f)
    BY Zenon DEF Cmps
  <2>6. Scas(m, x, n) = SetFlags(Along(m, DI, n), SubOp(m.cpu.f, n, DecodeReg(m, n, AX), b).f)
    BY Zenon DEF Scas
  <2> HIDE DEF op, a, b, n
  <2>7. \/ op \in FromMemory /\ Once(m, x) = Cmps(m, x, n)
        \/ op \notin FromMemory /\ Once(m, x) = Scas(m, x, n)
    BY <2>1, <2>2, SMT DEF Scans, FromMemory
  <2> QED BY <2>3, <2>4, <2>5, <2>6, <2>7, Zenon DEF op
<1>4. /\ v \in Machines /\ v.mem = m.mem /\ v.cpu.s = m.cpu.s /\ v.cpu.b = m.cpu.b
      /\ v.cpu.w[DI] = Offset(m, x, DI, 1)
      /\ v.cpu.w[SI] = IF x.op \in FromMemory THEN Offset(m, x, SI, 1) ELSE m.cpu.w[SI]
  BY IndicesMove
<1> HIDE DEF n, f, v
<1> DEFINE t == SetFlags(v, f)
<1>5. /\ t \in Machines /\ t.mem = v.mem /\ t.cpu.s = v.cpu.s /\ t.cpu.b = v.cpu.b
      /\ t.cpu.w = v.cpu.w /\ t.cpu.f = f
  BY <1>2, <1>4, FlagsSet
<1> HIDE DEF t
<1> QED BY <1>2, <1>3, <1>4, <1>5, Zenon DEF t

\* The i-th comparison lets the repetition go on.
GoesOn(m, x, i) == Same(m, x, i) <=> x.rep = \hf3

\* Where j rounds of x lead from t: all of u but memory and the flags of arithmetic.
AfterRounds(t, x, u, j) ==
  /\ u \in Machines /\ u.cpu.s = t.cpu.s /\ u.cpu.f.d = t.cpu.f.d
  /\ u.cpu.b[AX] = t.cpu.b[AX] /\ u.cpu.b[AH] = t.cpu.b[AH]
  /\ u.cpu.w[DI] = Offset(t, x, DI, j)
  /\ u.cpu.w[SI] = IF x.op \in FromMemory THEN Offset(t, x, SI, j) ELSE t.cpu.w[SI]
  /\ Count(u) = (Count(t) - j) % WordSize

\* The elements ahead of u are those of t, j elements on.
LEMMA CellsLater ==
  ASSUME NEW t \in Machines, NEW x \in Decodings, NEW u, NEW j \in Int, AfterRounds(t, x, u, j)
  PROVE  /\ \A b : TargetCell(u, x, 0, b) = TargetCell(t, x, j, b)
         /\ x.op \in FromMemory => \A b : SourceCell(u, x, 0, b) = SourceCell(t, x, j, b)
         /\ Offset(u, x, DI, 1) = Offset(t, x, DI, j + 1)
         /\ x.op \in FromMemory => Offset(u, x, SI, 1) = Offset(t, x, SI, j + 1)
<1> DEFINE n == Width(x)
<1>1. SI \in 4..7 /\ DI \in 4..7 /\ 0 \in Int BY RegisterNames, SmallInts
<1>2. u \in Machines /\ u.cpu.s = t.cpu.s /\ u.cpu.f.d = t.cpu.f.d BY DEF AfterRounds
<1>3. Step(u, n) = Step(t, n) BY <1>2, Zenon DEF Step
<1>4. \A r \in 4..7 : Offset(u, x, r, 0) = u.cpu.w[r] BY <1>1, <1>2, OffsetNext
<1>5. \A s : Seg(u.cpu, x.seg, s) = Seg(t.cpu, x.seg, s) BY <1>2, Zenon DEF Seg
<1>6. u.cpu.w[DI] = Offset(t, x, DI, j) BY DEF AfterRounds
<1>7. x.op \in FromMemory => u.cpu.w[SI] = Offset(t, x, SI, j) BY Zenon DEF AfterRounds
<1>8. 0 + 1 = 1 BY SMT
<1>9. \A r \in 4..7 : (u.cpu.w[r] + Step(u, n)) % WordSize = Offset(u, x, r, 1)
  BY <1>1, <1>2, <1>4, <1>8, OffsetNext, Zenon
<1>10. \A r \in 4..7 : (Offset(t, x, r, j) + Step(t, n)) % WordSize = Offset(t, x, r, j + 1)
  BY OffsetNext
<1> HIDE DEF n
<1>11. \A b : TargetCell(u, x, 0, b) = TargetCell(t, x, j, b)
  BY <1>1, <1>2, <1>4, <1>6, Zenon DEF TargetCell
<1>12. ASSUME x.op \in FromMemory PROVE \A b : SourceCell(u, x, 0, b) = SourceCell(t, x, j, b)
  BY <1>1, <1>4, <1>5, <1>7, <1>12, Zenon DEF SourceCell
<1>13. Offset(u, x, DI, 1) = Offset(t, x, DI, j + 1) BY <1>1, <1>3, <1>6, <1>9, <1>10, Zenon
<1>14. x.op \in FromMemory => Offset(u, x, SI, 1) = Offset(t, x, SI, j + 1)
  BY <1>1, <1>3, <1>7, <1>9, <1>10, Zenon
<1> QED BY <1>11, <1>12, <1>13, <1>14, Zenon
LEMMA SameLater ==
  ASSUME NEW t \in Machines, NEW x \in Decodings, NEW u, NEW j \in Int, AfterRounds(t, x, u, j),
         u.mem = t.mem
  PROVE  Same(u, x, 0) = Same(t, x, j)
<1>1. \A a : Read(u, a) = Read(t, a) BY Zenon DEF Read
<1>2. \A b : TargetCell(u, x, 0, b) = TargetCell(t, x, j, b) BY CellsLater
<1>3. \A b : Supplied(u, x, 0, b) = Supplied(t, x, j, b)
  <2>1. CASE x.op \in FromMemory
    <3>1. \A b : SourceCell(u, x, 0, b) = SourceCell(t, x, j, b) BY <2>1, CellsLater
    <3> QED BY <1>1, <2>1, <3>1, Zenon DEF Supplied
  <2>2. CASE x.op \notin FromMemory
    <3>1. u.cpu.b[AX] = t.cpu.b[AX] /\ u.cpu.b[AH] = t.cpu.b[AH] BY DEF AfterRounds
    <3>2. \A b : u.cpu.b[IF b = 0 THEN AX ELSE AH] = t.cpu.b[IF b = 0 THEN AX ELSE AH] BY <3>1, Zenon
    <3> QED BY <2>2, <3>2, Zenon DEF Supplied
  <2> QED BY <2>1, <2>2
<1> DEFINE E(b) == Supplied(t, x, j, b)
           T(b) == Read(t, TargetCell(t, x, j, b))
<1>4. Same(t, x, j) = \A b \in Span(Width(x)) : E(b) = T(b) BY Zenon DEF Same
<1>5. Same(u, x, 0) = \A b \in Span(Width(x)) : E(b) = T(b)
  <2>1. \A b : Supplied(u, x, 0, b) = E(b) /\ Read(u, TargetCell(u, x, 0, b)) = T(b) BY <1>1, <1>2, <1>3, Zenon
  <2> HIDE DEF E, T
  <2> QED BY <2>1, Zenon DEF Same
<1> QED BY <1>4, <1>5, Zenon

LEMMA CountIsWord == ASSUME NEW m \in Machines PROVE Count(m) \in Words16 /\ Count(m) \in Int
  BY BothWidths, RegisterNames, RegIsWord, WordIsInt, Zenon DEF Count
LEMMA CountLess ==
  ASSUME NEW c \in Int, NEW j \in Int
  PROVE  (((c - j) % WordSize) - 1) % WordSize = (c - (j + 1)) % WordSize
<1>1. WordSize = 65536 BY DEF WordSize
<1>2. (((c - j) % 65536) - 1) % 65536 = (c - (j + 1)) % 65536 BY SMT
<1> QED BY <1>1, <1>2

\* A round ends with the count one less.
LEMMA RoundCounts ==
  ASSUME NEW t \in Machines, NEW x \in Decodings, NEW u, NEW j \in Int, AfterRounds(t, x, u, j),
         NEW o \in Machines, o.cpu.s = u.cpu.s, o.cpu.b = u.cpu.b, o.cpu.f.d = u.cpu.f.d,
         o.cpu.w[DI] = Offset(u, x, DI, 1),
         o.cpu.w[SI] = IF x.op \in FromMemory THEN Offset(u, x, SI, 1) ELSE u.cpu.w[SI]
  PROVE  LET w == WritebackReg(o, 16, CX, DecodeReg(u, 16, CX) - 1)
         IN  AfterRounds(t, x, w, j + 1) /\ w.mem = o.mem /\ w.cpu.f = o.cpu.f
<1> DEFINE v == DecodeReg(u, 16, CX) - 1
           w == WritebackReg(o, 16, CX, v)
<1>1. u \in Machines BY DEF AfterRounds
<1>2. v = Count(u) - 1 BY Zenon DEF Count
<1>3. Count(u) \in Int /\ Count(t) \in Int BY <1>1, CountIsWord
<1>4. v \in Int BY <1>2, <1>3, SMT
<1> HIDE DEF v
<1>5. /\ w \in Machines /\ w.mem = o.mem /\ w.cpu.s = o.cpu.s /\ w.cpu.w = o.cpu.w
      /\ w.cpu.f = o.cpu.f /\ w.cpu.b[AX] = o.cpu.b[AX] /\ w.cpu.b[AH] = o.cpu.b[AH]
      /\ Count(w) = v % WordSize
  BY <1>4, CountSets
<1> HIDE DEF w
<1>6. Count(w) = (Count(t) - (j + 1)) % WordSize
  <2>1. Count(u) = (Count(t) - j) % WordSize BY DEF AfterRounds
  <2>2. (((Count(t) - j) % WordSize) - 1) % WordSize = (Count(t) - (j + 1)) % WordSize
    BY <1>3, CountLess
  <2> QED BY <1>2, <1>5, <2>1, <2>2, Zenon
<1>7. Offset(u, x, DI, 1) = Offset(t, x, DI, j + 1)
      /\ (x.op \in FromMemory => Offset(u, x, SI, 1) = Offset(t, x, SI, j + 1))
  BY CellsLater
<1>8. w.cpu.s = t.cpu.s /\ w.cpu.f.d = t.cpu.f.d /\ w.cpu.b[AX] = t.cpu.b[AX]
      /\ w.cpu.b[AH] = t.cpu.b[AH]
  BY <1>5, Zenon DEF AfterRounds
<1>9. w.cpu.w[DI] = Offset(t, x, DI, j + 1) BY <1>5, <1>7, Zenon
<1>10. w.cpu.w[SI] = IF x.op \in FromMemory THEN Offset(t, x, SI, j + 1) ELSE t.cpu.w[SI]
  <2>1. CASE x.op \in FromMemory BY <1>5, <1>7, <2>1, Zenon
  <2>2. CASE x.op \notin FromMemory
    <3>1. u.cpu.w[SI] = t.cpu.w[SI] BY <2>2, Zenon DEF AfterRounds
    <3> QED BY <1>5, <2>2, <3>1, Zenon
  <2> QED BY <2>1, <2>2
<1>11. AfterRounds(t, x, w, j + 1) BY <1>5, <1>6, <1>8, <1>9, <1>10, Zenon DEF AfterRounds
<1> QED BY <1>5, <1>11, Zenon DEF w, v

\* A round of a scan.
LEMMA ScanRound ==
  ASSUME NEW t \in Machines, NEW x \in Decodings, x.op \in Scans, NEW u, NEW j \in Int,
         AfterRounds(t, x, u, j), u.mem = t.mem
  PROVE  LET w == WritebackReg(Once(u, x), 16, CX, DecodeReg(u, 16, CX) - 1)
         IN  AfterRounds(t, x, w, j + 1) /\ w.mem = t.mem /\ w.cpu.f.z = Flag(Same(t, x, j))
<1> DEFINE o == Once(u, x)
           w == WritebackReg(o, 16, CX, DecodeReg(u, 16, CX) - 1)
<1>1. u \in Machines BY DEF AfterRounds
<1>2. /\ o \in Machines /\ o.mem = u.mem /\ o.cpu.s = u.cpu.s /\ o.cpu.b = u.cpu.b
      /\ o.cpu.f.d = u.cpu.f.d /\ o.cpu.f.z = Flag(Same(u, x, 0))
      /\ o.cpu.w[DI] = Offset(u, x, DI, 1)
      /\ o.cpu.w[SI] = IF x.op \in FromMemory THEN Offset(u, x, SI, 1) ELSE u.cpu.w[SI]
  BY <1>1, ScanOnce
<1> HIDE DEF o
<1>3. AfterRounds(t, x, w, j + 1) /\ w.mem = o.mem /\ w.cpu.f = o.cpu.f BY <1>2, RoundCounts
<1> HIDE DEF w
<1>4. Same(u, x, 0) = Same(t, x, j) BY SameLater
<1> QED BY <1>2, <1>3, <1>4, Zenon DEF w, o

LEMMA ScanEnds ==
  ASSUME NEW t, NEW x, x.op \in Scans, x.rep \in RepeatPrefixes, NEW u, NEW j,
         u.cpu.f.z = Flag(Same(t, x, j))
  PROVE  Ends(u, x) <=> ~GoesOn(t, x, j)
<1> DEFINE P == Same(t, x, j)
           rep == x.rep
           op == x.op
<1>1. u.cpu.f.z = IF P THEN 1 ELSE 0 BY Zenon DEF Flag
<1>2. rep \in {\hf2, \hf3} BY DEF RepeatPrefixes
<1>3. op \in {\ha6, \ha7, \hae, \haf} BY DEF Scans
<1>4. Ends(u, x) <=> op \in {\ha6, \ha7, \hae, \haf} /\ rep = (IF u.cpu.f.z = 1 THEN \hf2 ELSE \hf3)
  BY Zenon DEF Ends
<1>5. GoesOn(t, x, j) <=> (P <=> rep = \hf3) BY Zenon DEF GoesOn
<1> HIDE DEF P, rep, op
<1>6. \hf2 # \hf3 /\ 0 # 1 BY SMT
<1>7. CASE P
  <2>1. u.cpu.f.z = 1 BY <1>1, <1>7, Zenon
  <2> QED BY <1>2, <1>3, <1>4, <1>5, <1>6, <1>7, <2>1, SMT
<1>8. CASE ~P
  <2>1. u.cpu.f.z = 0 BY <1>1, <1>8, Zenon
  <2> QED BY <1>2, <1>3, <1>4, <1>5, <1>6, <1>8, <2>1, SMT
<1> QED BY <1>7, <1>8

LEMMA StartsAlong ==
  ASSUME NEW t \in Machines, NEW x \in Decodings PROVE AfterRounds(t, x, t, 0)
<1>1. Count(t) \in Int /\ Count(t) \in Words16 BY CountIsWord
<1>2. (Count(t) - 0) % WordSize = Count(t)
  <2>1. PICK c \in Words16 : c = Count(t) BY <1>1
  <2>2. c \in Int /\ 0 <= c /\ c <= 65535 BY WordRange
  <2>3. WordSize = 65536 BY DEF WordSize
  <2> QED BY <2>1, <2>2, <2>3, SMT
<1>3. SI \in 4..7 /\ DI \in 4..7 /\ 0 \in Int BY RegisterNames, SmallInts
<1>4. Offset(t, x, SI, 0) = t.cpu.w[SI] /\ Offset(t, x, DI, 0) = t.cpu.w[DI] BY <1>3, OffsetNext
<1> QED BY <1>2, <1>4, Zenon DEF AfterRounds

\* Where a scan is after k rounds: it has looked at j elements, all of which but
\* the last let it go on, and the last too unless the rounds after it did nothing.
LookedAt(t, x, u, k, j) ==
  /\ AfterRounds(t, x, u, j) /\ u.mem = t.mem
  /\ k # 0 => j # 0 /\ u.cpu.f.z = Flag(Same(t, x, j - 1))
  /\ \A i \in 0..(j - 2) : GoesOn(t, x, i)
  /\ j # k => ~GoesOn(t, x, j - 1)
LEMMA ScansFor ==
  ASSUME NEW t \in Machines, NEW x \in Decodings, x.op \in Scans, x.rep \in RepeatPrefixes,
         NEW n \in Nat
  PROVE  \E j \in 0..n : LookedAt(t, x, Rounds(t, x)[n], n, j)
<1> DEFINE R == Rounds(t, x)
           Good == {k \in Nat : \E j \in 0..k : LookedAt(t, x, R[k], k, j)}
<1>1. x.op \in StringOps
  <2> DEFINE op == x.op
  <2>1. op \in Scans OBVIOUS
  <2> HIDE DEF op
  <2>2. op \in StringOps BY <2>1, SMT DEF Scans, StringOps
  <2> QED BY <2>2 DEF op
<1>2. R[0] = t /\ \A k \in Nat : R[k + 1] = RoundOf(R[k], x, k + 1) BY <1>1, RoundsAre
<1> HIDE DEF R
<1>3. 0 \in Good
  <2>1. LookedAt(t, x, t, 0, 0)
    <3>1. 0..(0 - 2) = {} BY SMT
    <3> QED BY <3>1, StartsAlong, Zenon DEF LookedAt
  <2>2. 0 \in 0..0 /\ 0 \in Nat BY SMT
  <2> QED BY <1>2, <2>1, <2>2
<1>4. ASSUME NEW k \in Nat, k \in Good PROVE k + 1 \in Good
  <2>1. PICK j \in 0..k : LookedAt(t, x, R[k], k, j) BY <1>4
  <2> DEFINE u == R[k]
  <2>2. j \in Int /\ k + 1 \in Nat /\ R[k + 1] = RoundOf(u, x, k + 1) BY <1>2
  <2> HIDE DEF u
  <2>3. /\ AfterRounds(t, x, u, j) /\ u.mem = t.mem
        /\ k # 0 => j # 0 /\ u.cpu.f.z = Flag(Same(t, x, j - 1))
        /\ \A i \in 0..(j - 2) : GoesOn(t, x, i)
        /\ j # k => ~GoesOn(t, x, j - 1)
    BY <2>1, Zenon DEF LookedAt, u
  <2>4. k # 0 => (Ends(u, x) <=> ~GoesOn(t, x, j - 1)) BY <2>3, ScanEnds
  <2> SUFFICES \E i \in 0..(k + 1) : LookedAt(t, x, R[k + 1], k + 1, i) BY <2>2
  <2>5. CASE k # 0 /\ Ends(u, x)
    <3>1. k + 1 > 1 BY <2>5
    <3>2. R[k + 1] = u BY <2>2, <2>5, <3>1, Zenon DEF RoundOf
    <3>3. j # 0 /\ u.cpu.f.z = Flag(Same(t, x, j - 1)) /\ ~GoesOn(t, x, j - 1)
      BY <2>3, <2>4, <2>5, Zenon
    <3>4. LookedAt(t, x, R[k + 1], k + 1, j) BY <2>3, <3>2, <3>3, Zenon DEF LookedAt
    <3>5. j \in 0..(k + 1) OBVIOUS
    <3> QED BY <3>4, <3>5
  <2>6. CASE ~(k # 0 /\ Ends(u, x))
    <3> DEFINE w == WritebackReg(Once(u, x), 16, CX, DecodeReg(u, 16, CX) - 1)
    <3>1. ~(k + 1 > 1 /\ Ends(u, x)) BY <2>6
    <3>2. R[k + 1] = w BY <2>2, <3>1, Zenon DEF RoundOf
    <3>3. AfterRounds(t, x, w, j + 1) /\ w.mem = t.mem /\ w.cpu.f.z = Flag(Same(t, x, j))
      BY <2>2, <2>3, ScanRound
    <3> HIDE DEF w
    <3>4. j = k
      <4>1. CASE k = 0 BY <4>1
      <4>2. CASE k # 0 BY <2>3, <2>4, <2>6, <4>2, Zenon
      <4> QED BY <4>1, <4>2
    <3>5. j + 1 \in 0..(k + 1) /\ j + 1 # 0 /\ (j + 1) - 1 = j /\ (j + 1) - 2 = j - 1 /\ j + 1 = k + 1
      BY <3>4
    <3>6. \A i \in 0..(j - 1) : GoesOn(t, x, i)
      <4>1. CASE k = 0
        <5>1. 0..(j - 1) = {} BY <3>4, <4>1
        <5> QED BY <5>1, Zenon
      <4>2. CASE k # 0
        <5>1. GoesOn(t, x, j - 1) BY <2>4, <2>6, <4>2, Zenon
        <5>2. \A i \in 0..(j - 1) : i = j - 1 \/ i \in 0..(j - 2) BY <2>2
        <5> QED BY <2>3, <5>1, <5>2, Zenon
      <4> QED BY <4>1, <4>2
    <3>7. LookedAt(t, x, w, k + 1, j + 1) BY <3>3, <3>5, <3>6, Zenon DEF LookedAt
    <3> QED BY <3>2, <3>5, <3>7, Zenon
  <2> QED BY <2>5, <2>6
<1> HIDE DEF Good
<1>5. Nat \subseteq Good BY <1>3, <1>4, Inductive
<1> QED BY <1>5 DEF Good, R

\* Fetching the instruction changes nothing of what it works on.
LEMMA FetchedSame ==
  ASSUME NEW m \in Machines, NEW x \in Decodings
  PROVE  LET t == Past(m, x, 0)
         IN  /\ t \in Machines /\ Count(t) = Count(m)
             /\ \A a : Read(t, a) = Read(m, a)
             /\ \A r, i : Offset(t, x, r, i) = Offset(m, x, r, i)
             /\ \A i, b : TargetCell(t, x, i, b) = TargetCell(m, x, i, b)
             /\ \A i, b : SourceCell(t, x, i, b) = SourceCell(m, x, i, b)
             /\ \A i, b : Supplied(t, x, i, b) = Supplied(m, x, i, b)
             /\ \A i : Same(t, x, i) = Same(m, x, i)
             /\ \A i : GoesOn(t, x, i) <=> GoesOn(m, x, i)
<1> DEFINE t == Past(m, x, 0)
<1>1. /\ t \in Machines /\ t.mem = m.mem /\ t.cpu.s = m.cpu.s /\ t.cpu.w = m.cpu.w
      /\ t.cpu.f = m.cpu.f /\ t.cpu.b = m.cpu.b
  BY FetchedIs
<1> HIDE DEF t
<1>2. Count(t) = Count(m)
  <2>1. \A u : Count(u) = Pair(u.cpu.b[5], u.cpu.b[1]) BY SMT DEF Count, DecodeReg, CX
  <2> QED BY <1>1, <2>1, Zenon
<1>3. \A a : Read(t, a) = Read(m, a) BY <1>1, Zenon DEF Read
<1>4. Step(t, Width(x)) = Step(m, Width(x)) BY <1>1, Zenon DEF Step
<1>5. \A r, i : Offset(t, x, r, i) = Offset(m, x, r, i) BY <1>1, <1>4, Zenon DEF Offset
<1>6. \A i, b : TargetCell(t, x, i, b) = TargetCell(m, x, i, b) BY <1>1, <1>5, Zenon DEF TargetCell
<1>7. Seg(t.cpu, x.seg, DS) = Seg(m.cpu, x.seg, DS) BY <1>1, Zenon DEF Seg
<1>8. \A i, b : SourceCell(t, x, i, b) = SourceCell(m, x, i, b) BY <1>5, <1>7, Zenon DEF SourceCell
<1>9. \A i, b : Supplied(t, x, i, b) = Supplied(m, x, i, b) BY <1>1, <1>3, <1>8, Zenon DEF Supplied
<1>10. \A i : Same(t, x, i) = Same(m, x, i)
  <2> TAKE i
  <2> DEFINE E(b) == Supplied(m, x, i, b)
             T(b) == Read(m, TargetCell(m, x, i, b))
  <2>1. Same(m, x, i) = \A b \in Span(Width(x)) : E(b) = T(b) BY Zenon DEF Same
  <2>2. \A b : Supplied(t, x, i, b) = E(b) /\ Read(t, TargetCell(t, x, i, b)) = T(b)
    BY <1>3, <1>6, <1>9, Zenon
  <2> HIDE DEF E, T
  <2>3. Same(t, x, i) = \A b \in Span(Width(x)) : E(b) = T(b) BY <2>2, Zenon DEF Same
  <2> QED BY <2>1, <2>3, Zenon
<1>11. \A i : GoesOn(t, x, i) <=> GoesOn(m, x, i) BY <1>10, Zenon DEF GoesOn
<1> QED BY <1>1, <1>2, <1>3, <1>5, <1>6, <1>8, <1>9, <1>10, <1>11, Zenon DEF t

LEMMA CountLeft ==
  ASSUME NEW c \in Words16, NEW k \in 0..c PROVE (c - k) % WordSize = c - k
<1>0. WordSize = 65536 BY DEF WordSize
<1>1. c \in Int /\ 0 <= c /\ c <= 65535 BY WordRange
<1>2. c - k \in Int /\ 0 <= c - k /\ c - k <= 65535 BY <1>1
<1> QED BY <1>0, <1>2, SMT

\* A repeated CMPS or SCAS stops where it should. For every count, and for bytes
\* and words, in either direction and over the end of a segment: it has compared
\* k elements, all of them but the last were equal (under f3; different under
\* f2), and the last was not, or the count was used up. The indices are behind
\* the last element, CX is what is left, the zero flag tells how the last
\* comparison came out, and memory is as it was (8088.c:2640-2954).
THEOREM ScansStop ==
  ASSUME NEW m \in Machines, NEW x \in Decodings, x.op \in Scans, x.rep \in RepeatPrefixes,
         Count(m) # 0
  PROVE  \E k \in 1..Count(m) :
           LET r == StringOp(m, x)
           IN  /\ \A i \in 0..(k - 2) : GoesOn(m, x, i)
               /\ k = Count(m) \/ ~GoesOn(m, x, k - 1)
               /\ Count(r) = Count(m) - k
               /\ r.cpu.w[DI] = Offset(m, x, DI, k)
               /\ r.cpu.w[SI] = IF x.op \in FromMemory THEN Offset(m, x, SI, k) ELSE m.cpu.w[SI]
               /\ r.cpu.f.z = Flag(Same(m, x, k - 1))
               /\ r.mem = m.mem
<1> DEFINE t == Past(m, x, 0)
           c == Count(m)
           r == StringOp(m, x)
<1>1. /\ t \in Machines /\ Count(t) = c
      /\ \A q, i : Offset(t, x, q, i) = Offset(m, x, q, i)
      /\ \A i : Same(t, x, i) = Same(m, x, i)
      /\ \A i : GoesOn(t, x, i) <=> GoesOn(m, x, i)
  BY FetchedSame
<1>2. t.mem = m.mem /\ t.cpu.w = m.cpu.w BY FetchedIs
<1>3. c \in Words16 /\ c \in Int /\ c # 0 BY CountIsWord
<1>4. c \in Nat
  <2>1. c \in Int /\ 0 <= c BY <1>3, WordRange
  <2> QED BY <2>1
<1>5. r = Rounds(t, x)[c]
  <2>1. x.rep # 0
    <3> DEFINE rep == x.rep
    <3>1. rep \in RepeatPrefixes OBVIOUS
    <3> HIDE DEF rep
    <3>2. rep # 0 BY <3>1, SMT DEF RepeatPrefixes
    <3> QED BY <3>2 DEF rep
  <2>2. r = IF x.rep = 0 THEN Once(t, x) ELSE Rounds(t, x)[Count(t)] BY Zenon DEF StringOp, Count
  <2> QED BY <1>1, <2>1, <2>2, Zenon
<1> HIDE DEF t, c, r
<1>6. PICK k \in 0..c : LookedAt(t, x, r, c, k) BY <1>1, <1>4, <1>5, ScansFor
<1>7. /\ AfterRounds(t, x, r, k) /\ r.mem = t.mem
      /\ k # 0 /\ r.cpu.f.z = Flag(Same(t, x, k - 1))
      /\ \A i \in 0..(k - 2) : GoesOn(t, x, i)
      /\ k # c => ~GoesOn(t, x, k - 1)
  BY <1>3, <1>6, Zenon DEF LookedAt
<1>8. k \in 1..c BY <1>4, <1>7
<1>9. Count(r) = c - k
  <2>1. Count(r) = (Count(t) - k) % WordSize BY <1>7, Zenon DEF AfterRounds
  <2>2. (c - k) % WordSize = c - k BY <1>3, CountLeft
  <2> QED BY <1>1, <2>1, <2>2, Zenon
<1>10. r.cpu.w[DI] = Offset(m, x, DI, k) BY <1>1, <1>7, Zenon DEF AfterRounds
<1>11. r.cpu.w[SI] = IF x.op \in FromMemory THEN Offset(m, x, SI, k) ELSE m.cpu.w[SI]
  BY <1>1, <1>2, <1>7, Zenon DEF AfterRounds
<1>12. r.cpu.f.z = Flag(Same(m, x, k - 1)) BY <1>1, <1>7, Zenon
<1>13. \A i \in 0..(k - 2) : GoesOn(m, x, i) BY <1>1, <1>7, Zenon
<1>14. k = c \/ ~GoesOn(m, x, k - 1) BY <1>1, <1>7, Zenon
<1>15. r.mem = m.mem BY <1>2, <1>7, Zenon
<1>16. k \in 1..Count(m) BY <1>8 DEF c
<1> QED BY <1>16, <1>9, <1>10, <1>11, <1>12, <1>13, <1>14, <1>15, Zenon DEF r, c

\* The cells of one element, and those of two, are different.
LEMMA CellsDiffer ==
  ASSUME NEW s \in Words16, NEW o \in Words16, NEW p \in Words16, NEW b \in {0, 1}, NEW d \in {0, 1},
         (o + b) % WordSize # (p + d) % WordSize
  PROVE  Cell(s, o, b) # Cell(s, p, d)
<1>1. o + b \in Int /\ p + d \in Int BY WordIsInt, SMT
<1>2. (o + b) % WordSize \in Words16 /\ (p + d) % WordSize \in Words16 BY <1>1, WordCut
<1> QED BY <1>2, PhysDiffer, Zenon DEF Cell
LEMMA SpreadByBytes ==
  ASSUME NEW p \in Int, NEW i \in Int, NEW j \in Int, i < j, j - i < 65536
  PROVE  /\ (p + i * 1) % 65536 # (p + j * 1) % 65536
         /\ (p + i * (-1)) % 65536 # (p + j * (-1)) % 65536
<1> DEFINE k == j - i
<1>1. PICK y \in Int : y = p + i * 1 BY SMT
<1>2. PICK z \in Int : z = p + i * (-1) BY SMT
<1>3. k \in Int /\ 1 <= k /\ k < 65536 BY SMT
<1>4. p + j * 1 = y + k /\ p + j * (-1) = z - k BY <1>1, <1>2, SMT
<1> HIDE DEF k
<1>5. y % 65536 # (y + k) % 65536 BY <1>1, <1>3, SMT
<1>6. z % 65536 # (z - k) % 65536 BY <1>2, <1>3, SMT
<1> QED BY <1>1, <1>2, <1>4, <1>5, <1>6
LEMMA SpreadByWords ==
  ASSUME NEW p \in Int, NEW i \in Int, NEW j \in Int, i < j, 2 * (j - i) < 65535,
         NEW b \in {0, 1}, NEW d \in {0, 1}
  PROVE  /\ (((p + i * 2) % 65536) + b) % 65536 # (((p + j * 2) % 65536) + d) % 65536
         /\ (((p + i * (-2)) % 65536) + b) % 65536 # (((p + j * (-2)) % 65536) + d) % 65536
<1> DEFINE k == 2 * (j - i)
<1>1. PICK y \in Int : y = p + i * 2 BY SMT
<1>2. PICK z \in Int : z = p + i * (-2) BY SMT
<1>3. k \in Int /\ 2 <= k /\ k < 65535 BY SMT
<1>4. p + j * 2 = y + k /\ p + j * (-2) = z - k BY <1>1, <1>2, SMT
<1> HIDE DEF k
<1>5. ((y % 65536) + b) % 65536 # (((y + k) % 65536) + d) % 65536 BY <1>1, <1>3, SMT
<1>6. ((z % 65536) + b) % 65536 # (((z - k) % 65536) + d) % 65536 BY <1>2, <1>3, SMT
<1> QED BY <1>1, <1>2, <1>4, <1>5, <1>6
LEMMA TargetsDiffer ==
  ASSUME NEW m \in Machines, NEW x \in Decodings, Count(m) * (Width(x) \div 8) <= WordSize,
         NEW i \in 0..(Count(m) - 1), NEW j \in 0..(Count(m) - 1), i < j,
         NEW b \in Span(Width(x)), NEW d \in Span(Width(x))
  PROVE  TargetCell(m, x, i, b) # TargetCell(m, x, j, d)
<1> DEFINE n == Width(x)
           p == m.cpu.w[DI]
           s == Step(m, n)
           at(k) == Offset(m, x, DI, k)
           c == Count(m)
<1>0. WordSize = 65536 BY DEF WordSize
<1>1. n \in Widths BY Decoding
<1>2. DI \in 4..7 /\ ES \in 0..3 BY RegisterNames
<1>3. p \in Int /\ m.cpu.s[ES] \in Words16 BY <1>2, Parts, WordIsInt, Zenon
<1>4. c \in Int BY CountIsWord
<1>5. i \in Int /\ j \in Int /\ j - i <= c - 1 BY <1>4
<1>6. at(i) \in Words16 /\ at(j) \in Words16 BY <1>2, <1>5, OffsetIsWord
<1>7. at(i) = (p + i * s) % WordSize /\ at(j) = (p + j * s) % WordSize BY Zenon DEF Offset
<1>8. s = n \div 8 \/ s = -(n \div 8) BY <1>1, StepIs
<1>9. c * (n \div 8) <= 65536 BY <1>0
<1>10. b \in Span(n) /\ d \in Span(n) OBVIOUS
<1>11. /\ TargetCell(m, x, i, b) = Cell(m.cpu.s[ES], at(i), b)
       /\ TargetCell(m, x, j, d) = Cell(m.cpu.s[ES], at(j), d)
  BY Zenon DEF TargetCell
<1> HIDE DEF n, p, s, at, c
<1>12. b \in {0, 1} /\ d \in {0, 1} /\ (at(i) + b) % 65536 # (at(j) + d) % 65536
  <2>1. CASE n = 8
    <3>1. b = 0 /\ d = 0 BY <1>10, <2>1, SpanIs
    <3>2. s = 1 \/ s = -1 BY <1>8, <2>1, ElementBytes
    <3>3. c <= 65536 BY <1>4, <1>9, <2>1, ElementBytes
    <3>4. j - i < 65536 BY <1>4, <1>5, <3>3
    <3>5. (p + i * s) % 65536 # (p + j * s) % 65536
      <4>1. /\ (p + i * 1) % 65536 # (p + j * 1) % 65536
            /\ (p + i * (-1)) % 65536 # (p + j * (-1)) % 65536
        BY <1>3, <1>5, <3>4, SpreadByBytes
      <4> QED BY <3>2, <4>1
    <3>6. at(i) # at(j) BY <1>0, <1>7, <3>5
    <3>7. (at(i) + 0) % 65536 = at(i) /\ (at(j) + 0) % 65536 = at(j)
      <4>1. at(i) \in Int /\ 0 <= at(i) /\ at(i) <= 65535 BY <1>6, WordRange
      <4>2. at(j) \in Int /\ 0 <= at(j) /\ at(j) <= 65535 BY <1>6, WordRange
      <4> QED BY <4>1, <4>2, SMT
    <3> QED BY <3>1, <3>6, <3>7
  <2>2. CASE n = 16
    <3>1. b \in {0, 1} /\ d \in {0, 1} BY <1>10, <2>2, SpanIs
    <3>2. s = 2 \/ s = -2 BY <1>8, <2>2, ElementBytes
    <3>3. c * 2 <= 65536 BY <1>9, <2>2, ElementBytes
    <3>4. 2 * (j - i) < 65535 BY <1>4, <1>5, <3>3
    <3>5. /\ (((p + i * 2) % 65536) + b) % 65536 # (((p + j * 2) % 65536) + d) % 65536
          /\ (((p + i * (-2)) % 65536) + b) % 65536 # (((p + j * (-2)) % 65536) + d) % 65536
      BY <1>3, <1>5, <3>1, <3>4, SpreadByWords
    <3>6. (((p + i * s) % 65536) + b) % 65536 # (((p + j * s) % 65536) + d) % 65536
      BY <3>2, <3>5
    <3> QED BY <1>0, <1>7, <3>1, <3>6
  <2> QED BY <1>1, <2>1, <2>2 DEF Widths
<1>13. (at(i) + b) % WordSize # (at(j) + d) % WordSize BY <1>0, <1>12
<1>14. b \in {0, 1} /\ d \in {0, 1} BY <1>12
<1> QED BY <1>3, <1>6, <1>11, <1>13, <1>14, CellsDiffer, Zenon

\* What writing an element leaves in memory.
LEMMA WriteAtBytes ==
  ASSUME NEW m \in Machines, NEW s \in Words16, NEW o \in Words16, NEW n \in Widths, NEW v \in Int
  PROVE  LET t == WriteAt(m, s, o, n, v)
         IN  /\ t \in Machines /\ t.cpu = m.cpu
             /\ Read(t, Cell(s, o, 0)) = Low(v)
             /\ n = 16 => Read(t, Cell(s, o, 1)) = High(v)
             /\ \A a : (\A b \in Span(n) : a # Cell(s, o, b)) => Read(t, a) = Read(m, a)
<1> DEFINE lo == Cell(s, o, 0)
           hi == Cell(s, o, 1)
           l == Low(v)
           h == High(v)
           low == Write(m, lo, l)
           both == Write(low, hi, h)
           t == WriteAt(m, s, o, n, v)
<1>1. l \in Bytes /\ h \in Bytes BY HalfIsByte
<1>2. lo = Phys(s, o) BY CellOfWord
<1>3. lo \in Addresses /\ hi \in Addresses
  <2>1. 0 \in Int /\ 1 \in Int /\ o \in Int BY SmallInts, WordIsInt
  <2>2. \A b \in Int : (o + b) % WordSize \in Int BY <2>1, IntSum, WordDivIsInt
  <2> QED BY <2>1, <2>2, PhysIsAddress, Zenon DEF Cell
<1>4. lo # hi
  <2>1. WordSize = 65536 BY DEF WordSize
  <2>2. o \in Int /\ 0 <= o /\ o <= 65535 BY WordRange
  <2>3. (o + 0) % 65536 # (o + 1) % 65536 BY <2>2, SMT
  <2>4. (o + 0) % WordSize # (o + 1) % WordSize BY <2>1, <2>3
  <2>5. 0 \in {0, 1} /\ 1 \in {0, 1} BY SMT
  <2> QED BY <2>4, <2>5, CellsDiffer, Zenon
<1>5. t = IF n = 8 THEN low ELSE both BY <1>2, Zenon DEF WriteAt, Cell
<1>6. n = 8 \/ n = 16 BY Zenon DEF Widths
<1>7. 8 # 16 /\ Span(8) = {0} /\ Span(16) = {0, 1} BY SpanIs
<1> HIDE DEF l, h, t
<1>8. low \in Machines /\ low.cpu = m.cpu
      /\ \A a : Read(low, a) = IF a = lo THEN l ELSE Read(m, a)
  <2>1. Stays(m, low) /\ low.cpu = m.cpu BY <1>1, <1>3, WriteStays
  <2>2. \A a : Read(low, a) = IF a = lo THEN l ELSE Read(m, a) BY <1>3, ReadWritten
  <2> QED BY <2>1, <2>2, StaysMachine
<1> HIDE DEF low
<1>9. both \in Machines /\ both.cpu = m.cpu
      /\ \A a : Read(both, a) = IF a = hi THEN h ELSE Read(low, a)
  <2>1. Stays(low, both) /\ both.cpu = low.cpu BY <1>1, <1>3, <1>8, WriteStays
  <2>2. \A a : Read(both, a) = IF a = hi THEN h ELSE Read(low, a) BY <1>3, <1>8, ReadWritten
  <2> QED BY <1>8, <2>1, <2>2, StaysMachine
<1> HIDE DEF both
<1> DEFINE cell(b) == Cell(s, o, b)
<1>10. lo = cell(0) /\ hi = cell(1) OBVIOUS
<1> HIDE DEF lo, hi, cell
<1>11. CASE n = 8
  <2>1. t = low BY <1>5, <1>11, Zenon
  <2>2. \A a : (\A b \in {0} : a # cell(b)) => Read(t, a) = Read(m, a) BY <1>8, <1>10, <2>1, Zenon
  <2> QED BY <1>7, <1>8, <1>10, <1>11, <2>1, <2>2, Zenon DEF l, h, t, cell
<1>12. CASE n = 16
  <2>1. t = both BY <1>5, <1>7, <1>12, Zenon
  <2>2. \A a : (\A b \in {0, 1} : a # cell(b)) => Read(t, a) = Read(m, a)
    BY <1>8, <1>9, <1>10, <2>1, Zenon
  <2>3. Read(t, cell(0)) = l /\ Read(t, cell(1)) = h BY <1>4, <1>8, <1>9, <1>10, <2>1, Zenon
  <2> QED BY <1>7, <1>9, <1>12, <2>1, <2>2, <2>3, Zenon DEF l, h, t, cell
<1> QED BY <1>6, <1>11, <1>12

\* A round of MOVS or STOS puts one element in its place.
LEMMA BlockOnce ==
  ASSUME NEW m \in Machines, NEW x \in Decodings, x.op \in BlockMoves \union BlockStores
  PROVE  LET t == Once(m, x)
         IN  /\ t \in Machines /\ t.cpu.s = m.cpu.s /\ t.cpu.b = m.cpu.b /\ t.cpu.f = m.cpu.f
             /\ t.cpu.w[DI] = Offset(m, x, DI, 1)
             /\ t.cpu.w[SI] = IF x.op \in FromMemory THEN Offset(m, x, SI, 1) ELSE m.cpu.w[SI]
             /\ \A b \in Span(Width(x)) : Read(t, TargetCell(m, x, 0, b)) = Supplied(m, x, 0, b)
             /\ \A a : (\A b \in Span(Width(x)) : a # TargetCell(m, x, 0, b)) => Read(t, a) = Read(m, a)
<1> DEFINE n == Width(x)
           v == Element(m, x)
           s == m.cpu.s[ES]
           o == m.cpu.w[DI]
           u == WriteAt(m, s, o, n, v)
           t == IF x.op \in FromMemory THEN Along(Along(u, SI, n), DI, n) ELSE Along(u, DI, n)
<1>1. n \in Widths /\ (n = 8 \/ n = 16) BY Decoding, Zenon DEF Widths
<1>2. DI \in 4..7 /\ ES \in 0..3 /\ 0 \in Int BY RegisterNames, SmallInts
<1>3. s \in Words16 /\ o \in Words16 BY <1>2, Parts, Zenon
<1>4. Once(m, x) = t
  <2> DEFINE op == x.op
  <2>1. op \in BlockMoves \union BlockStores OBVIOUS
  <2>2. Once(m, x) = CASE op \in {\ha4, \ha5} -> Movs(m, x, n)
                     [] op \in {\ha6, \ha7} -> Cmps(m, x, n)
                     [] op \in {\haa, \hab} -> Stos(m, x, n)
                     [] op \in {\hac, \had} -> Lods(m, x, n)
                     [] op \in {\hae, \haf} -> Scas(m, x, n)
    BY SMT DEF Once
  <2>3. op \in FromMemory => v = Source(m, x, n) BY Zenon DEF Element
  <2>4. op \notin FromMemory => v = DecodeReg(m, n, AX) BY Zenon DEF Element
  <2>5. Movs(m, x, n) = Along(Along(WriteAt(m, s, o, n, Source(m, x, n)), SI, n), DI, n)
    BY Zenon DEF Movs
  <2>6. Stos(m, x, n) = Along(WriteAt(m, s, o, n, DecodeReg(m, n, AX)), DI, n) BY Zenon DEF Stos
  <2> HIDE DEF op, v, n, s, o
  <2>7. \/ op \in FromMemory /\ Once(m, x) = Movs(m, x, n)
        \/ op \notin FromMemory /\ Once(m, x) = Stos(m, x, n)
    BY <2>1, <2>2, SMT DEF BlockMoves, BlockStores, FromMemory
  <2> QED BY <2>3, <2>4, <2>5, <2>6, <2>7, Zenon DEF op
<1>5. v \in Int /\ Low(v) = Supplied(m, x, 0, 0) /\ (n = 16 => High(v) = Supplied(m, x, 0, 1))
  <2>1. v \in Numbers(n) /\ Low(v) = Supplied(m, x, 0, 0) /\ (n = 16 => High(v) = Supplied(m, x, 0, 1))
    BY Elements
  <2>2. \A w \in Numbers(n) : w \in Int BY DEF Numbers
  <2> QED BY <2>1, <2>2
<1>6. \A b : TargetCell(m, x, 0, b) = Cell(s, o, b)
  <2>1. Offset(m, x, DI, 0) = o BY <1>2, OffsetNext
  <2> QED BY <2>1, Zenon DEF TargetCell
<1>7. Span(8) = {0} /\ Span(16) = {0, 1} BY SpanIs
<1> HIDE DEF v, s, o
<1>8. /\ u \in Machines /\ u.cpu = m.cpu
      /\ Read(u, Cell(s, o, 0)) = Low(v)
      /\ n = 16 => Read(u, Cell(s, o, 1)) = High(v)
      /\ \A a : (\A b \in Span(n) : a # Cell(s, o, b)) => Read(u, a) = Read(m, a)
  BY <1>1, <1>3, <1>5, WriteAtBytes
<1> HIDE DEF u
<1>9. /\ t \in Machines /\ t.mem = u.mem /\ t.cpu.s = m.cpu.s /\ t.cpu.b = m.cpu.b
      /\ t.cpu.f = m.cpu.f /\ t.cpu.w[DI] = Offset(m, x, DI, 1)
      /\ t.cpu.w[SI] = IF x.op \in FromMemory THEN Offset(m, x, SI, 1) ELSE m.cpu.w[SI]
  BY <1>8, IndicesMove
<1> HIDE DEF t
<1>10. \A a : Read(t, a) = Read(u, a) BY <1>9, Zenon DEF Read
<1>11. \A b \in Span(n) : Read(t, TargetCell(m, x, 0, b)) = Supplied(m, x, 0, b)
  <2> DEFINE E(b) == Supplied(m, x, 0, b)
             C(b) == TargetCell(m, x, 0, b)
  <2>1. Read(t, C(0)) = E(0) /\ (n = 16 => Read(t, C(1)) = E(1))
    BY <1>5, <1>6, <1>8, <1>10, Zenon
  <2> HIDE DEF E, C
  <2>2. \A b \in Span(n) : Read(t, C(b)) = E(b)
    <3>1. CASE n = 8
      <4>1. Span(n) = {0} BY <1>7, <3>1, Zenon
      <4> QED BY <2>1, <4>1, Zenon
    <3>2. CASE n = 16
      <4>1. Span(n) = {0, 1} BY <1>7, <3>2, Zenon
      <4> QED BY <2>1, <3>2, <4>1, Zenon
    <3> QED BY <1>1, <3>1, <3>2
  <2> QED BY <2>2, Zenon DEF E, C
<1>12. \A a : (\A b \in Span(n) : a # TargetCell(m, x, 0, b)) => Read(t, a) = Read(m, a)
  BY <1>6, <1>8, <1>10, Zenon
<1> QED BY <1>4, <1>9, <1>11, <1>12, Zenon DEF n

\* No byte is overwritten before it is moved.
Unspoilt(m, x) ==
  x.op \in FromMemory =>
    \A i, j \in 0..(Count(m) - 1) : i < j =>
      \A b, d \in Span(Width(x)) : TargetCell(m, x, i, b) # SourceCell(m, x, j, d)
\* The cells of the first k elements hold what was supplied, the other ones what they did.
Filled(t, x, u, k) ==
  /\ \A i \in 0..(k - 1) : \A b \in Span(Width(x)) :
       Read(u, TargetCell(t, x, i, b)) = Supplied(t, x, i, b)
  /\ \A a : (\A i \in 0..(k - 1) : \A b \in Span(Width(x)) : a # TargetCell(t, x, i, b))
             => Read(u, a) = Read(t, a)

LEMMA BlockRound ==
  ASSUME NEW t \in Machines, NEW x \in Decodings, x.op \in BlockMoves \union BlockStores,
         Count(t) * (Width(x) \div 8) <= WordSize, Unspoilt(t, x),
         NEW k \in 0..(Count(t) - 1), NEW u, AfterRounds(t, x, u, k), Filled(t, x, u, k)
  PROVE  LET w == WritebackReg(Once(u, x), 16, CX, DecodeReg(u, 16, CX) - 1)
         IN  AfterRounds(t, x, w, k + 1) /\ Filled(t, x, w, k + 1) /\ w.cpu.f = u.cpu.f
<1> DEFINE o == Once(u, x)
           w == WritebackReg(o, 16, CX, DecodeReg(u, 16, CX) - 1)
           S == Span(Width(x))
           C(i, b) == TargetCell(t, x, i, b)
           E(i, b) == Supplied(t, x, i, b)
<1>1. u \in Machines /\ k \in Int BY DEF AfterRounds
<1>2. /\ o \in Machines /\ o.cpu.s = u.cpu.s /\ o.cpu.b = u.cpu.b /\ o.cpu.f = u.cpu.f
      /\ o.cpu.w[DI] = Offset(u, x, DI, 1)
      /\ o.cpu.w[SI] = IF x.op \in FromMemory THEN Offset(u, x, SI, 1) ELSE u.cpu.w[SI]
      /\ \A b \in S : Read(o, TargetCell(u, x, 0, b)) = Supplied(u, x, 0, b)
      /\ \A a : (\A b \in S : a # TargetCell(u, x, 0, b)) => Read(o, a) = Read(u, a)
  BY <1>1, BlockOnce
<1> HIDE DEF o
<1>3. AfterRounds(t, x, w, k + 1) /\ w.mem = o.mem /\ w.cpu.f = o.cpu.f BY <1>1, <1>2, RoundCounts
<1> HIDE DEF w
<1>4. \A a : Read(w, a) = Read(o, a) BY <1>3, Zenon DEF Read
<1>5. \A b : TargetCell(u, x, 0, b) = C(k, b) BY <1>1, CellsLater, Zenon
<1>6. \A i \in 0..(k - 1) : \A b \in S : Read(u, C(i, b)) = E(i, b)
  BY Zenon DEF Filled
<1>7. \A a : (\A i \in 0..(k - 1) : \A b \in S : a # C(i, b)) => Read(u, a) = Read(t, a)
  BY Zenon DEF Filled
<1>8. \A i \in 0..(k - 1) : i \in 0..(Count(t) - 1) /\ i < k
  <2>1. Count(t) \in Int BY CountIsWord
  <2> QED BY <2>1
<1>9. \A b \in S : Supplied(u, x, 0, b) = E(k, b)
  <2> TAKE b \in S
  <2>1. CASE x.op \in FromMemory
    <3>1. SourceCell(u, x, 0, b) = SourceCell(t, x, k, b) BY <1>1, <2>1, CellsLater
    <3>2. \A i \in 0..(k - 1) : \A d \in S : SourceCell(t, x, k, b) # C(i, d)
      BY <1>8, <2>1, Zenon DEF Unspoilt
    <3>3. Read(u, SourceCell(t, x, k, b)) = Read(t, SourceCell(t, x, k, b)) BY <1>7, <3>2, Zenon
    <3> QED BY <2>1, <3>1, <3>3, Zenon DEF Supplied
  <2>2. CASE x.op \notin FromMemory
    <3>1. u.cpu.b[AX] = t.cpu.b[AX] /\ u.cpu.b[AH] = t.cpu.b[AH] BY DEF AfterRounds
    <3>2. u.cpu.b[IF b = 0 THEN AX ELSE AH] = t.cpu.b[IF b = 0 THEN AX ELSE AH] BY <3>1, Zenon
    <3> QED BY <2>2, <3>2, Zenon DEF Supplied
  <2> QED BY <2>1, <2>2
<1>10. \A i \in 0..(k - 1) : \A b, d \in S : C(i, b) # C(k, d)
  BY <1>8, TargetsDiffer
<1>11. \A b \in S : Read(w, C(k, b)) = E(k, b) BY <1>2, <1>4, <1>5, <1>9, Zenon
<1>12. \A a : (\A b \in S : a # C(k, b)) => Read(w, a) = Read(u, a) BY <1>2, <1>4, <1>5, Zenon
<1> HIDE DEF C, E, S
<1>13. \A i \in 0..(k - 1) : \A b \in S : Read(w, C(i, b)) = E(i, b)
  BY <1>6, <1>10, <1>12, Zenon
<1>14. \A i \in 0..((k + 1) - 1) : i = k \/ i \in 0..(k - 1) OBVIOUS
<1>15. k \in 0..((k + 1) - 1) /\ \A i \in 0..(k - 1) : i \in 0..((k + 1) - 1) OBVIOUS
<1>16. \A i \in 0..((k + 1) - 1) : \A b \in S : Read(w, C(i, b)) = E(i, b)
  BY <1>11, <1>13, <1>14, Zenon
<1>17. \A a : (\A i \in 0..((k + 1) - 1) : \A b \in S : a # C(i, b)) => Read(w, a) = Read(t, a)
  BY <1>7, <1>12, <1>15, Zenon
<1>18. Filled(t, x, w, k + 1) BY <1>16, <1>17, Zenon DEF Filled, C, E, S
<1> QED BY <1>2, <1>3, <1>18, Zenon DEF w, o

LEMMA BlocksFor ==
  ASSUME NEW t \in Machines, NEW x \in Decodings, x.op \in BlockMoves \union BlockStores,
         Count(t) * (Width(x) \div 8) <= WordSize, Unspoilt(t, x), NEW n \in 0..Count(t)
  PROVE  LET u == Rounds(t, x)[n]
         IN  AfterRounds(t, x, u, n) /\ Filled(t, x, u, n) /\ u.cpu.f = t.cpu.f
<1> DEFINE R == Rounds(t, x)
           P(k) == AfterRounds(t, x, R[k], k) /\ Filled(t, x, R[k], k) /\ R[k].cpu.f = t.cpu.f
           Good == {k \in Nat : k <= Count(t) => P(k)}
<1>1. x.op \in StringOps /\ x.op \notin Scans
  <2> DEFINE op == x.op
  <2>1. op \in BlockMoves \union BlockStores OBVIOUS
  <2> HIDE DEF op
  <2>2. op \in StringOps /\ op \notin Scans BY <2>1, SMT DEF Scans, StringOps, BlockMoves, BlockStores
  <2> QED BY <2>2 DEF op
<1>2. R[0] = t /\ \A k \in Nat : R[k + 1] = RoundOf(R[k], x, k + 1) BY <1>1, RoundsAre
<1>3. \A u : ~Ends(u, x) BY <1>1, Zenon DEF Ends, Scans
<1>4. Count(t) \in Int BY CountIsWord
<1> HIDE DEF R
<1>5. 0 \in Good
  <2>1. AfterRounds(t, x, t, 0) BY StartsAlong
  <2>2. Filled(t, x, t, 0)
    <3>1. 0..(0 - 1) = {} BY SMT
    <3> QED BY <3>1, Zenon DEF Filled
  <2> QED BY <1>2, <2>1, <2>2
<1>6. ASSUME NEW k \in Nat, k \in Good PROVE k + 1 \in Good
  <2> SUFFICES ASSUME k + 1 <= Count(t) PROVE P(k + 1) OBVIOUS
  <2>1. k \in 0..(Count(t) - 1) /\ k <= Count(t) BY <1>4
  <2>2. P(k) BY <1>6, <2>1
  <2> DEFINE u == R[k]
             w == WritebackReg(Once(u, x), 16, CX, DecodeReg(u, 16, CX) - 1)
  <2>3. R[k + 1] = w BY <1>2, <1>3, Zenon DEF RoundOf
  <2>4. AfterRounds(t, x, u, k) /\ Filled(t, x, u, k) /\ u.cpu.f = t.cpu.f BY <2>2
  <2> HIDE DEF u
  <2>5. AfterRounds(t, x, w, k + 1) /\ Filled(t, x, w, k + 1) /\ w.cpu.f = u.cpu.f
    BY <2>1, <2>4, BlockRound
  <2> HIDE DEF w
  <2> QED BY <2>3, <2>4, <2>5, Zenon
<1> HIDE DEF Good
<1>7. Nat \subseteq Good BY <1>5, <1>6, Inductive
<1>8. n \in Nat /\ n <= Count(t) BY <1>4
<1>9. P(n) BY <1>7, <1>8 DEF Good
<1> QED BY <1>9, Zenon DEF R

LEMMA NoneLeft == ASSUME NEW c \in Int PROVE (c - c) % WordSize = 0
<1>0. WordSize = 65536 BY DEF WordSize
<1> QED BY <1>0, SMT

\* A repeated MOVS or STOS moves or fills the whole block. For every count whose
\* elements fit in a segment, for bytes and words, in either direction and over
\* the end of a segment: if no byte is overwritten before it is moved, every byte
\* of the destination is the one of the source, or of AX, every other byte of
\* memory is as it was, the indices are behind the block, CX is zero and the
\* flags have not changed (8088.c:2640-2954).
THEOREM BlocksFilled ==
  ASSUME NEW m \in Machines, NEW x \in Decodings, x.op \in BlockMoves \union BlockStores,
         x.rep \in RepeatPrefixes,
         Count(m) * (Width(x) \div 8) <= WordSize, Unspoilt(m, x)
  PROVE  LET r == StringOp(m, x)
         IN  /\ Filled(m, x, r, Count(m))
             /\ Count(r) = 0 /\ r.cpu.f = m.cpu.f
             /\ r.cpu.w[DI] = Offset(m, x, DI, Count(m))
             /\ r.cpu.w[SI] = IF x.op \in FromMemory THEN Offset(m, x, SI, Count(m)) ELSE m.cpu.w[SI]
<1> DEFINE t == Past(m, x, 0)
           c == Count(m)
           r == StringOp(m, x)
<1>1. /\ t \in Machines /\ Count(t) = c
      /\ \A a : Read(t, a) = Read(m, a)
      /\ \A q, i : Offset(t, x, q, i) = Offset(m, x, q, i)
      /\ \A i, b : TargetCell(t, x, i, b) = TargetCell(m, x, i, b)
      /\ \A i, b : SourceCell(t, x, i, b) = SourceCell(m, x, i, b)
      /\ \A i, b : Supplied(t, x, i, b) = Supplied(m, x, i, b)
  BY FetchedSame
<1>2. t.cpu.w = m.cpu.w /\ t.cpu.f = m.cpu.f BY FetchedIs
<1>3. c \in Words16 /\ c \in Int BY CountIsWord
<1>4. c \in 0..c
  <2>1. c \in Int /\ 0 <= c BY <1>3, WordRange
  <2> QED BY <2>1
<1>5. r = Rounds(t, x)[c]
  <2>1. x.rep # 0
    <3> DEFINE rep == x.rep
    <3>1. rep \in RepeatPrefixes OBVIOUS
    <3> HIDE DEF rep
    <3>2. rep # 0 BY <3>1, SMT DEF RepeatPrefixes
    <3> QED BY <3>2 DEF rep
  <2>2. r = IF x.rep = 0 THEN Once(t, x) ELSE Rounds(t, x)[Count(t)] BY Zenon DEF StringOp, Count
  <2> QED BY <1>1, <2>1, <2>2, Zenon
<1> HIDE DEF t, r
<1>6. Count(t) * (Width(x) \div 8) <= WordSize BY <1>1
<1>7. Unspoilt(t, x)
  <2> SUFFICES ASSUME x.op \in FromMemory, NEW i \in 0..(Count(t) - 1), NEW j \in 0..(Count(t) - 1), i < j,
                      NEW b \in Span(Width(x)), NEW d \in Span(Width(x))
               PROVE  TargetCell(t, x, i, b) # SourceCell(t, x, j, d)
    BY Zenon DEF Unspoilt
  <2>1. i \in 0..(Count(m) - 1) /\ j \in 0..(Count(m) - 1) BY <1>1, Zenon
  <2>2. TargetCell(m, x, i, b) # SourceCell(m, x, j, d) BY <2>1, Zenon DEF Unspoilt
  <2> QED BY <1>1, <2>2, Zenon
<1> HIDE DEF c
<1>8. AfterRounds(t, x, r, c) /\ Filled(t, x, r, c) /\ r.cpu.f = t.cpu.f
  BY <1>1, <1>4, <1>5, <1>6, <1>7, BlocksFor
<1>9. Filled(m, x, r, c)
  <2> DEFINE S == Span(Width(x))
             C(i, b) == TargetCell(m, x, i, b)
             E(i, b) == Supplied(m, x, i, b)
  <2>1. \A i, b : TargetCell(t, x, i, b) = C(i, b) /\ Supplied(t, x, i, b) = E(i, b) BY <1>1, Zenon
  <2> HIDE DEF C, E
  <2>2. \A i \in 0..(c - 1) : \A b \in S : Read(r, C(i, b)) = E(i, b) BY <1>8, <2>1, Zenon DEF Filled
  <2>3. \A a : (\A i \in 0..(c - 1) : \A b \in S : a # C(i, b)) => Read(r, a) = Read(t, a)
    <3>1. \A a : (\A i \in 0..(c - 1) : \A b \in S : a # TargetCell(t, x, i, b)) => Read(r, a) = Read(t, a)
      BY <1>8, Zenon DEF Filled
    <3> QED BY <2>1, <3>1, Zenon
  <2>4. \A a : (\A i \in 0..(c - 1) : \A b \in S : a # C(i, b)) => Read(r, a) = Read(m, a)
    BY <1>1, <2>3, Zenon
  <2> HIDE DEF S
  <2> QED BY <2>2, <2>4, Zenon DEF Filled, C, E, S
<1>10. Count(r) = 0
  <2>1. Count(r) = (Count(t) - c) % WordSize BY <1>8, Zenon DEF AfterRounds
  <2>2. (c - c) % WordSize = 0 BY <1>3, NoneLeft
  <2> QED BY <1>1, <2>1, <2>2, Zenon
<1>11. r.cpu.w[DI] = Offset(m, x, DI, c) BY <1>1, <1>8, Zenon DEF AfterRounds
<1>12. r.cpu.w[SI] = IF x.op \in FromMemory THEN Offset(m, x, SI, c) ELSE m.cpu.w[SI]
  BY <1>1, <1>2, <1>8, Zenon DEF AfterRounds
<1> QED BY <1>2, <1>8, <1>9, <1>10, <1>11, <1>12, Zenon DEF r, c

-----------------------------------------------------------------------------
(* Decimal arithmetic. *)

\* Two decimal digits in a byte, and their number.
Packed == {v \in Bytes : v % 16 <= 9 /\ v \div 16 <= 9}
Decimal2(v) == 10 * (v \div 16) + (v % 16)

LEMMA PackedIs ==
  ASSUME NEW v \in Packed
  PROVE  /\ v \in Bytes /\ v \in Int /\ v % 16 \in 0..9 /\ v \div 16 \in 0..9
         /\ v = 16 * (v \div 16) + (v % 16) /\ Bit(v, 4) = (v \div 16) % 2
<1>1. v \in Bytes /\ v % 16 <= 9 /\ v \div 16 <= 9 BY DEF Packed
<1>2. v \in Int /\ 0 <= v /\ v < 256 BY <1>1, SMT DEF Bytes
<1>3. 2^4 = 16 BY SMT
<1> QED BY <1>1, <1>2, <1>3, SMT DEF Bit
LEMMA PackedFrom ==
  ASSUME NEW v \in Int, 0 <= v, v < 256, NEW n \in 0..99,
         v \div 16 = n \div 10, v % 16 = n % 10
  PROVE  v \in Packed /\ Decimal2(v) = n
<1>1. n % 10 <= 9 /\ n \div 10 <= 9 /\ 10 * (n \div 10) + (n % 10) = n BY SMT
<1>2. v \in Bytes BY SMT DEF Bytes
<1> QED BY <1>1, <1>2 DEF Packed, Decimal2

\* Adding digits: the sum of bytes, corrected by 6 and by 96, has the digits of
\* the sum of the numbers.
AddsDigits(ah, al, bh, bl, k) ==
  LET s == (16 * ah + al) + (16 * bh + bl) + k
      ac == (((s \div 16) % 2) + (ah % 2) + (bh % 2)) % 2
      v == s % 256
      low == v % 16 > 9 \/ ac = 1
      half == IF low THEN v + 6 ELSE v
      high == (half \div 16) % 16 > 9 \/ s >= 256 \/ half > 255
      full == IF high THEN half + 96 ELSE half
      sum == (10 * ah + al) + (10 * bh + bl) + k
  IN  /\ (full % 256) \div 16 = (sum \div 10) % 10 /\ full % 16 = sum % 10
      /\ high <=> sum > 99
LEMMA DigitsAdded ==
  ASSUME NEW ah \in 0..9, NEW al \in 0..9, NEW bh \in 0..9, NEW bl \in 0..9, NEW k \in 0..1
  PROVE  AddsDigits(ah, al, bh, bl, k)
<1> DEFINE L == al + bl + k
           H == ah + bh
           s == (16 * ah + al) + (16 * bh + bl) + k
           ac == (((s \div 16) % 2) + (ah % 2) + (bh % 2)) % 2
           v == s % 256
           low == v % 16 > 9 \/ ac = 1
           half == IF low THEN v + 6 ELSE v
           high == (half \div 16) % 16 > 9 \/ s >= 256 \/ half > 255
           full == IF high THEN half + 96 ELSE half
           sum == (10 * ah + al) + (10 * bh + bl) + k
<1>1. L \in 0..19 /\ H \in 0..18 /\ s = 16 * H + L /\ sum = 10 * H + L BY SMT
<1>2. ac = IF L >= 16 THEN 1 ELSE 0
  <2>1. PICK c \in 0..1 : c = IF L >= 16 THEN 1 ELSE 0 BY SMT
  <2>2. s \div 16 = H + c
    <3> HIDE DEF s, H, L
    <3> QED BY <1>1, <2>1, SMT
  <2>3. (((H + c) % 2) + (ah % 2) + (bh % 2)) % 2 = c
    <3> HIDE DEF L
    <3> QED BY <2>1, SMT
  <2> HIDE DEF s, H, L
  <2> QED BY <2>1, <2>2, <2>3
<1> HIDE DEF s, H, L, sum, ac
<1> DEFINE Right == /\ (full % 256) \div 16 = (sum \div 10) % 10 /\ full % 16 = sum % 10
                    /\ high <=> sum > 99
<1>3. ASSUME L <= 9 PROVE Right
  <2>1. s % 16 = L /\ (s % 256) % 16 = L BY <1>1, <1>3, SMT
  <2>2. ~low /\ half = v BY <1>1, <1>2, <1>3, <2>1
  <2>3. v = IF H > 15 THEN 16 * (H - 16) + L ELSE 16 * H + L BY <1>1, <1>3, SMT
  <2>4. s >= 256 <=> H > 15 BY <1>1, <1>3, SMT
  <2>5. high <=> H > 9 BY <1>1, <1>3, <2>2, <2>3, <2>4, SMT
  <2>6. PICK d \in 0..9 : H = d \/ H = 10 + d
    <3> HIDE DEF high, full, half, low, v
    <3> QED BY <1>1, SMT
  <2>7. full % 256 = 16 * d + L /\ full % 16 = L
    BY <1>1, <1>3, <2>2, <2>3, <2>5, <2>6, SMT
  <2>8. sum % 10 = L /\ (sum \div 10) % 10 = d /\ (sum > 99 <=> H > 9)
    <3> HIDE DEF high, full, half, low, v
    <3> QED BY <1>1, <1>3, <2>6, SMT
  <2>9. (16 * d + L) \div 16 = d
    <3> HIDE DEF high, full, half, low, v
    <3> QED BY <1>1, <1>3, SMT
  <2> HIDE DEF high, full, half, low, v
  <2> QED BY <2>5, <2>7, <2>8, <2>9
<1>4. ASSUME L > 9 PROVE Right
  <2>1. low /\ half = v + 6 BY <1>1, <1>2, <1>4, SMT
  <2>2. v = IF s >= 256 THEN s - 256 ELSE s BY <1>1, SMT
  <2>3. high <=> H + 1 > 9 BY <1>1, <1>4, <2>1, <2>2, SMT
  <2>6. PICK d \in 0..9 : H + 1 = d \/ H + 1 = 10 + d
    <3> HIDE DEF high, full, half, low, v
    <3> QED BY <1>1, SMT
  <2> DEFINE l == L - 10
  <2>4. half = IF s >= 256 THEN 16 * (H - 15) + l ELSE 16 * (H + 1) + l
    BY <1>1, <2>1, <2>2, SMT
  <2>7. full % 256 = 16 * d + l /\ full % 16 = l
    <3> HIDE DEF v, low, high, half
    <3>1. CASE s >= 256 BY <1>1, <1>4, <2>3, <2>4, <2>6, <3>1, SMT
    <3>2. CASE ~(s >= 256) BY <1>1, <1>4, <2>3, <2>4, <2>6, <3>2, SMT
    <3> QED BY <3>1, <3>2
  <2>8. sum % 10 = l /\ (sum \div 10) % 10 = d /\ (sum > 99 <=> H + 1 > 9)
    <3> HIDE DEF high, full, half, low, v
    <3> QED BY <1>1, <1>4, <2>6, SMT
  <2>9. (16 * d + l) \div 16 = d
    <3> HIDE DEF high, full, half, low, v
    <3> QED BY <1>1, <1>4, SMT
  <2> HIDE DEF high, full, half, low, v, l
  <2> QED BY <2>3, <2>7, <2>8, <2>9
<1>5. L <= 9 \/ L > 9 BY <1>1
<1>6. Right
  <2> HIDE DEF Right
  <2> QED BY <1>3, <1>4, <1>5
<1> QED BY <1>6, Zenon DEF AddsDigits, sum, high, full, half, low, v, ac, s

\* The same of a difference, corrected downwards, and its borrow.
SubtractsDigits(ah, al, bh, bl, k) ==
  LET s == (16 * ah + al) - (16 * bh + bl) - k
      ac == (((s \div 16) % 2) + (ah % 2) + (bh % 2)) % 2
      v == s % 256
      low == v % 16 > 9 \/ ac = 1
      half == IF low THEN v - 6 ELSE v
      high == (half \div 16) % 16 > 9 \/ s < 0 \/ half < 0
      full == IF high THEN half - 96 ELSE half
      sum == (10 * ah + al) - (10 * bh + bl) - k
  IN  /\ (full % 256) \div 16 = (sum % 100) \div 10 /\ full % 16 = sum % 10
      /\ high <=> sum < 0
LEMMA DigitsSubtracted ==
  ASSUME NEW ah \in 0..9, NEW al \in 0..9, NEW bh \in 0..9, NEW bl \in 0..9, NEW k \in 0..1
  PROVE  SubtractsDigits(ah, al, bh, bl, k)
<1> DEFINE L == al - bl - k
           H == ah - bh
           s == (16 * ah + al) - (16 * bh + bl) - k
           ac == (((s \div 16) % 2) + (ah % 2) + (bh % 2)) % 2
           v == s % 256
           low == v % 16 > 9 \/ ac = 1
           half == IF low THEN v - 6 ELSE v
           high == (half \div 16) % 16 > 9 \/ s < 0 \/ half < 0
           full == IF high THEN half - 96 ELSE half
           sum == (10 * ah + al) - (10 * bh + bl) - k
<1>1. L \in -10..9 /\ H \in -9..9 /\ s = 16 * H + L /\ sum = 10 * H + L BY SMT
<1>2. ac = IF L < 0 THEN 1 ELSE 0
  <2>1. PICK c \in 0..1 : c = IF L < 0 THEN 1 ELSE 0 BY SMT
  <2>2. s \div 16 = H - c
    <3> HIDE DEF s, H, L
    <3> QED BY <1>1, <2>1, SMT
  <2>3. (((H - c) % 2) + (ah % 2) + (bh % 2)) % 2 = c
    <3> HIDE DEF L
    <3> QED BY <2>1, SMT
  <2> HIDE DEF s, H, L
  <2> QED BY <2>1, <2>2, <2>3
<1> HIDE DEF s, H, L, sum, ac
<1> DEFINE Right == /\ (full % 256) \div 16 = (sum % 100) \div 10 /\ full % 16 = sum % 10
                    /\ high <=> sum < 0
<1>3. ASSUME L >= 0 PROVE Right
  <2>1. s % 16 = L /\ (s % 256) % 16 = L BY <1>1, <1>3, SMT
  <2>2. ~low /\ half = v BY <1>1, <1>2, <1>3, <2>1
  <2>3. v = IF H < 0 THEN 16 * (H + 16) + L ELSE 16 * H + L BY <1>1, <1>3, SMT
  <2>4. s < 0 <=> H < 0 BY <1>1, <1>3, SMT
  <2>5. high <=> H < 0 BY <1>1, <1>3, <2>2, <2>3, <2>4, SMT
  <2>6. PICK d \in 0..9 : H = d \/ H = d - 10
    <3> HIDE DEF high, full, half, low, v
    <3> QED BY <1>1, SMT
  <2>7. full % 256 = 16 * d + L /\ full % 16 = L
    BY <1>1, <1>3, <2>2, <2>3, <2>5, <2>6, SMT
  <2>8. sum % 10 = L /\ (sum % 100) \div 10 = d /\ (sum < 0 <=> H < 0)
    <3> HIDE DEF high, full, half, low, v
    <3> QED BY <1>1, <1>3, <2>6, SMT
  <2>9. (16 * d + L) \div 16 = d
    <3> HIDE DEF high, full, half, low, v
    <3> QED BY <1>1, <1>3, SMT
  <2> HIDE DEF high, full, half, low, v
  <2> QED BY <2>5, <2>7, <2>8, <2>9
<1>4. ASSUME L < 0 PROVE Right
  <2>1. low /\ half = v - 6 BY <1>1, <1>2, <1>4, SMT
  <2>2. v = IF s < 0 THEN s + 256 ELSE s BY <1>1, SMT
  <2>5. s < 0 <=> H - 1 < 0 BY <1>1, <1>4, SMT
  <2>3. high <=> H - 1 < 0 BY <1>1, <1>4, <2>1, <2>2, <2>5, SMT
  <2>6. PICK d \in 0..9 : H - 1 = d \/ H - 1 = d - 10
    <3> HIDE DEF high, full, half, low, v
    <3> QED BY <1>1, SMT
  <2> DEFINE l == L + 10
  <2>4. half = IF s < 0 THEN 16 * (H + 15) + l ELSE 16 * (H - 1) + l
    BY <1>1, <2>1, <2>2, SMT
  <2>7. full % 256 = 16 * d + l /\ full % 16 = l
    <3> HIDE DEF v, low, high, half
    <3>1. CASE s < 0 BY <1>1, <1>4, <2>3, <2>4, <2>5, <2>6, <3>1, SMT
    <3>2. CASE ~(s < 0) BY <1>1, <1>4, <2>3, <2>4, <2>5, <2>6, <3>2, SMT
    <3> QED BY <3>1, <3>2
  <2>8. sum % 10 = l /\ (sum % 100) \div 10 = d /\ (sum < 0 <=> H - 1 < 0)
    <3> HIDE DEF high, full, half, low, v
    <3> QED BY <1>1, <1>4, <2>6, SMT
  <2>9. (16 * d + l) \div 16 = d
    <3> HIDE DEF high, full, half, low, v
    <3> QED BY <1>1, <1>4, SMT
  <2> HIDE DEF high, full, half, low, v, l
  <2> QED BY <2>3, <2>7, <2>8, <2>9
<1>5. L < 0 \/ L >= 0 BY <1>1
<1>6. Right
  <2> HIDE DEF Right
  <2> QED BY <1>3, <1>4, <1>5
<1> QED BY <1>6, Zenon DEF SubtractsDigits, sum, high, full, half, low, v, ac, s

\* What DAA and DAS leave in AL and in the carry.
LEMMA DecimalGives ==
  ASSUME NEW m \in Machines, NEW x \in Decodings, NEW sign \in Int
  PROVE  LET al == m.cpu.b[AX]
             low == al % 16 > 9 \/ m.cpu.f.ac = 1
             half == IF low THEN al + 6 * sign ELSE al
             high == (half \div 16) % 16 > 9 \/ DecimalCarry(m.cpu.f, half, low) = 1
             full == IF high THEN half + 96 * sign ELSE half
         IN  /\ Decimal(m, x, sign).cpu.b[AX] = Low(full)
             /\ Decimal(m, x, sign).cpu.f.c = Flag(high)
<1> DEFINE f == m.cpu.f
           al == m.cpu.b[AX]
           low == al % 16 > 9 \/ f.ac = 1
           half == IF low THEN al + 6 * sign ELSE al
           high == (half \div 16) % 16 > 9 \/ DecimalCarry(f, half, low) = 1
           full == IF high THEN half + 96 * sign ELSE half
           zsp == SetFlagsZSP(f, 8, full)
           fl == Flag(low)
           fh == Flag(high)
           g == [zsp EXCEPT !.ac = fl, !.c = fh]
           t == SetFlags(Past(m, x, 0), g)
<1>1. Decimal(m, x, sign) = WritebackReg(t, 8, AX, full) BY Zenon DEF Decimal
<1>2. f \in Flags8088 /\ al \in Int BY Parts, AlIsByte
<1>3. fl \in Bits /\ fh \in Bits BY FlagIsBit
<1> HIDE DEF f, al, low, fl
<1>4. half \in Int
  <2>1. al + 6 * sign \in Int BY <1>2, SMT
  <2> QED BY <1>2, <2>1, Zenon
<1> HIDE DEF half, high, fh
<1>5. full \in Int
  <2>1. half + 96 * sign \in Int BY <1>4, SMT
  <2> QED BY <1>4, <2>1, Zenon
<1> HIDE DEF full
<1>6. zsp \in Flags8088 BY <1>2, <1>5, BothWidths, ZSPAreFlags
<1> HIDE DEF zsp
<1>7. g \in Flags8088 /\ g.c = fh BY <1>3, <1>6, Zenon DEF Flags8088
<1> HIDE DEF g
<1>8. Past(m, x, 0) \in Machines BY SmallInts, PastLed, LedMachine
<1>9. t \in Machines /\ t.cpu.f = g
  <2> DEFINE p == Past(m, x, 0)
  <2> HIDE DEF p
  <2>1. p \in Machines => [p EXCEPT !.cpu.f = g] \in Machines /\ [p EXCEPT !.cpu.f = g].cpu.f = g
    BY <1>7, Zenon DEF Machines, Cpu8088
  <2> QED BY <1>8, <2>1, Zenon DEF SetFlags, p
<1> HIDE DEF t
<1>10. WritebackReg(t, 8, AX, full) = [t EXCEPT !.cpu.b[AX] = Low(full)] BY SMT DEF WritebackReg
<1>11. /\ [t EXCEPT !.cpu.b[AX] = Low(full)].cpu.b[AX] = Low(full)
       /\ [t EXCEPT !.cpu.b[AX] = Low(full)].cpu.f = t.cpu.f
  BY <1>9, RegisterNames, Zenon DEF Machines, Cpu8088
<1> QED BY <1>1, <1>7, <1>9, <1>10, <1>11, Zenon DEF full, high, half, low, al, f, fh

LEMMA HalfCarry ==
  ASSUME NEW f \in Flags8088, NEW a, NEW b, NEW r
  PROVE  /\ SetFlagsAdd(f, 8, a, b, r).ac = (Bit(r, 4) + Bit(a, 4) + Bit(b, 4)) % 2
         /\ SetFlagsSub(f, 8, a, b, r).ac = (Bit(r, 4) + Bit(a, 4) + Bit(b, 4)) % 2
  BY Zenon DEF SetFlagsAdd, SetFlagsSub, SetFlagsCarry, SetFlagsZSP, Flags8088

\* DAA after an ADD (k = 0) or an ADC (k the carry) of two bytes of decimal
\* digits leaves the digits of their sum in AL and its carry in c, whatever they
\* are: sums of any length can be made a byte at a time (8088.c:1081-1105, with
\* the flags of set_flags_add_8, 481-501).
THEOREM DecimalSum ==
  ASSUME NEW f \in Flags8088, NEW a \in Packed, NEW b \in Packed, NEW k, NEW u,
         (k = 0 /\ u = AddOp(f, 8, a, b)) \/ (k = f.c /\ u = AdcOp(f, 8, a, b)),
         NEW m \in Machines, m.cpu.f = u.f, m.cpu.b[AX] = Low(u.r), NEW x \in Decodings
  PROVE  LET t == Daa(m, x)
             sum == Decimal2(a) + Decimal2(b) + k
         IN  /\ t.cpu.b[AX] \in Packed /\ Decimal2(t.cpu.b[AX]) = sum % 100
             /\ t.cpu.f.c = Flag(sum > 99)
<1> DEFINE t == Daa(m, x)
           ah == a \div 16
           al == a % 16
           bh == b \div 16
           bl == b % 16
           s == (16 * ah + al) + (16 * bh + bl) + k
           ac == (((s \div 16) % 2) + (ah % 2) + (bh % 2)) % 2
           v == s % 256
           low == v % 16 > 9 \/ ac = 1
           half == IF low THEN v + 6 ELSE v
           high == (half \div 16) % 16 > 9 \/ s >= 256 \/ half > 255
           full == IF high THEN half + 96 ELSE half
           sum == (10 * ah + al) + (10 * bh + bl) + k
           c == Flag(s < 0 \/ s >= 256)
<1>1. k \in 0..1
  <2>1. f.c \in Bits BY Zenon DEF Flags8088
  <2> QED BY <2>1, SMT DEF Bits
<1>2. /\ ah \in 0..9 /\ al \in 0..9 /\ bh \in 0..9 /\ bl \in 0..9
      /\ a = 16 * ah + al /\ b = 16 * bh + bl /\ a \in Int /\ b \in Int
      /\ Bit(a, 4) = ah % 2 /\ Bit(b, 4) = bh % 2
  BY PackedIs
<1>3. /\ (full % 256) \div 16 = (sum \div 10) % 10 /\ full % 16 = sum % 10
      /\ high <=> sum > 99
  <2> HIDE DEF ah, al, bh, bl
  <2>1. AddsDigits(ah, al, bh, bl, k) BY <1>1, <1>2, DigitsAdded
  <2> QED BY <2>1, Zenon DEF AddsDigits
<1> HIDE DEF ah, al, bh, bl
<1>4. u.r = s /\ u.f = SetFlagsAdd(f, 8, a, b, s)
  <2>1. a + b + k = s /\ (k = 0 => a + b = s) BY <1>1, <1>2
  <2> HIDE DEF s
  <2>2. CASE k = 0 /\ u = AddOp(f, 8, a, b) BY <2>1, <2>2, Zenon DEF AddOp
  <2>3. CASE k = f.c /\ u = AdcOp(f, 8, a, b) BY <2>1, <2>3, Zenon DEF AdcOp
  <2> QED BY <2>2, <2>3
<1>5. s \in 0..511 BY <1>1, <1>2, SMT
<1>6. m.cpu.f.ac = ac /\ m.cpu.f.c = c /\ m.cpu.b[AX] = v
  <2>1. Bit(s, 4) = (s \div 16) % 2
    <3> HIDE DEF s
    <3>1. 2^4 = 16 BY SMT
    <3> QED BY <1>5, <3>1 DEF Bit
  <2> HIDE DEF s
  <2>2. m.cpu.f.ac = ac
    <3>1. SetFlagsAdd(f, 8, a, b, s).ac = (Bit(s, 4) + Bit(a, 4) + Bit(b, 4)) % 2 BY HalfCarry
    <3> QED BY <1>2, <1>4, <2>1, <3>1
  <2>3. m.cpu.f.c = c BY <1>4, AddByteFlags
  <2>4. m.cpu.b[AX] = v BY <1>4 DEF Low
  <2> QED BY <2>2, <2>3, <2>4
<1> HIDE DEF s, ac
<1>7. v \in 0..255 /\ half \in Int /\ 0 <= half /\ full \in Int BY <1>5, SMT
<1>8. t.cpu.b[AX] = full % 256 /\ t.cpu.f.c = Flag(high)
  <2> DEFINE lo == m.cpu.b[AX] % 16 > 9 \/ m.cpu.f.ac = 1
             ha == IF lo THEN m.cpu.b[AX] + 6 * 1 ELSE m.cpu.b[AX]
             hi == (ha \div 16) % 16 > 9 \/ DecimalCarry(m.cpu.f, ha, lo) = 1
             fu == IF hi THEN ha + 96 * 1 ELSE ha
  <2>1. t.cpu.b[AX] = Low(fu) /\ t.cpu.f.c = Flag(hi) BY DecimalGives, SmallInts, Zenon DEF Daa
  <2>2. lo = low BY <1>6
  <2> HIDE DEF lo, low, t
  <2>3. ha = half BY <1>6, <1>7, <2>2
  <2> HIDE DEF ha
  <2>4. hi = high
    <3>1. DecimalCarry(m.cpu.f, half, low) = 1 <=> s >= 256 \/ half > 255
      <4>1. half \notin Bytes <=> half > 255 BY <1>7, SMT DEF Bytes
      <4>2. m.cpu.f.c = 1 <=> s >= 256 BY <1>5, <1>6, SMT DEF Flag
      <4>3. half > 255 => low BY <1>7 DEF low
      <4> HIDE DEF half, v
      <4>4. DecimalCarry(m.cpu.f, half, low) = 1 <=> (m.cpu.f.c = 1 \/ (low /\ half \notin Bytes))
        <5> DEFINE P == m.cpu.f.c = 1 \/ (low /\ half \notin Bytes)
        <5>1. P \in BOOLEAN OBVIOUS
        <5>2. DecimalCarry(m.cpu.f, half, low) = Flag(P) BY Zenon DEF DecimalCarry
        <5>3. (Flag(P) = 1) = P
          <6> HIDE DEF P
          <6> QED BY <5>1, Flagged
        <5> HIDE DEF P
        <5>4. (DecimalCarry(m.cpu.f, half, low) = 1) = P BY <5>2, <5>3, Zenon
        <5> QED BY <5>4, Zenon DEF P
      <4> QED BY <4>1, <4>2, <4>3, <4>4, Zenon
    <3> HIDE DEF half
    <3> QED BY <2>2, <2>3, <3>1, Zenon
  <2> HIDE DEF hi, high
  <2>5. fu = full BY <2>3, <2>4, <1>7
  <2> HIDE DEF fu, full
  <2> QED BY <2>1, <2>4, <2>5 DEF Low
<1>9. sum % 100 \in 0..99 /\ (sum % 100) \div 10 = (sum \div 10) % 10 /\ (sum % 100) % 10 = sum % 10
  <2>1. sum \in 0..199 BY <1>1, <1>2, SMT
  <2> HIDE DEF sum
  <2> QED BY <2>1, SMT
<1>10. t.cpu.b[AX] \in Packed /\ Decimal2(t.cpu.b[AX]) = sum % 100
  <2> HIDE DEF full, sum, t
  <2>1. full % 256 \in Int /\ 0 <= full % 256 /\ full % 256 < 256 /\ (full % 256) % 16 = full % 16
    BY <1>7, SMT
  <2>2. (full % 256) \div 16 = (sum % 100) \div 10 /\ (full % 256) % 16 = (sum % 100) % 10
    BY <1>3, <1>9, <2>1
  <2> QED BY <1>8, <1>9, <2>1, <2>2, PackedFrom
<1>11. t.cpu.f.c = Flag(sum > 99)
  <2> HIDE DEF full, sum, t, high
  <2> QED BY <1>3, <1>8, Zenon DEF Flag
<1>12. sum = Decimal2(a) + Decimal2(b) + k BY DEF Decimal2, ah, al, bh, bl
<1> HIDE DEF sum, t, full, high
<1> QED BY <1>10, <1>11, <1>12, Zenon DEF t

\* DAS after a SUB or an SBB of them leaves the digits of their difference, and
\* in c whether it borrows (8088.c:1179-1203, with set_flags_sub_8, 503-522).
THEOREM DecimalDifference ==
  ASSUME NEW f \in Flags8088, NEW a \in Packed, NEW b \in Packed, NEW k, NEW u,
         (k = 0 /\ u = SubOp(f, 8, a, b)) \/ (k = f.c /\ u = SbbOp(f, 8, a, b)),
         NEW m \in Machines, m.cpu.f = u.f, m.cpu.b[AX] = Low(u.r), NEW x \in Decodings
  PROVE  LET t == Das(m, x)
             diff == Decimal2(a) - Decimal2(b) - k
         IN  /\ t.cpu.b[AX] \in Packed /\ Decimal2(t.cpu.b[AX]) = diff % 100
             /\ t.cpu.f.c = Flag(diff < 0)
<1> DEFINE t == Das(m, x)
           ah == a \div 16
           al == a % 16
           bh == b \div 16
           bl == b % 16
           s == (16 * ah + al) - (16 * bh + bl) - k
           ac == (((s \div 16) % 2) + (ah % 2) + (bh % 2)) % 2
           v == s % 256
           low == v % 16 > 9 \/ ac = 1
           half == IF low THEN v - 6 ELSE v
           high == (half \div 16) % 16 > 9 \/ s < 0 \/ half < 0
           full == IF high THEN half - 96 ELSE half
           diff == (10 * ah + al) - (10 * bh + bl) - k
           c == Flag(s < 0 \/ s >= 256)
<1>1. k \in 0..1
  <2>1. f.c \in Bits BY Zenon DEF Flags8088
  <2> QED BY <2>1, SMT DEF Bits
<1>2. /\ ah \in 0..9 /\ al \in 0..9 /\ bh \in 0..9 /\ bl \in 0..9
      /\ a = 16 * ah + al /\ b = 16 * bh + bl /\ a \in Int /\ b \in Int
      /\ Bit(a, 4) = ah % 2 /\ Bit(b, 4) = bh % 2
  BY PackedIs
<1>3. /\ (full % 256) \div 16 = (diff % 100) \div 10 /\ full % 16 = diff % 10
      /\ high <=> diff < 0
  <2> HIDE DEF ah, al, bh, bl
  <2>1. SubtractsDigits(ah, al, bh, bl, k) BY <1>1, <1>2, DigitsSubtracted
  <2> QED BY <2>1, Zenon DEF SubtractsDigits
<1> HIDE DEF ah, al, bh, bl
<1>4. u.r = s /\ u.f = SetFlagsSub(f, 8, a, b, s)
  <2>1. a - b - k = s /\ (k = 0 => a - b = s) BY <1>1, <1>2
  <2> HIDE DEF s
  <2>2. CASE k = 0 /\ u = SubOp(f, 8, a, b) BY <2>1, <2>2, Zenon DEF SubOp
  <2>3. CASE k = f.c /\ u = SbbOp(f, 8, a, b) BY <2>1, <2>3, Zenon DEF SbbOp
  <2> QED BY <2>2, <2>3
<1>5. s \in -256..255 BY <1>1, <1>2, SMT
<1>6. m.cpu.f.ac = ac /\ m.cpu.f.c = c /\ m.cpu.b[AX] = v
  <2>1. Bit(s, 4) = (s \div 16) % 2
    <3> HIDE DEF s
    <3>1. 2^4 = 16 BY SMT
    <3> QED BY <1>5, <3>1 DEF Bit
  <2> HIDE DEF s
  <2>2. m.cpu.f.ac = ac
    <3>1. SetFlagsSub(f, 8, a, b, s).ac = (Bit(s, 4) + Bit(a, 4) + Bit(b, 4)) % 2 BY HalfCarry
    <3> QED BY <1>2, <1>4, <2>1, <3>1
  <2>3. m.cpu.f.c = c BY <1>4, SubByteFlags
  <2>4. m.cpu.b[AX] = v BY <1>4 DEF Low
  <2> QED BY <2>2, <2>3, <2>4
<1> HIDE DEF s, ac
<1>7. v \in 0..255 /\ half \in Int /\ half <= 255 /\ full \in Int BY <1>5, SMT
<1>8. t.cpu.b[AX] = full % 256 /\ t.cpu.f.c = Flag(high)
  <2> DEFINE lo == m.cpu.b[AX] % 16 > 9 \/ m.cpu.f.ac = 1
             ha == IF lo THEN m.cpu.b[AX] + 6 * (-1) ELSE m.cpu.b[AX]
             hi == (ha \div 16) % 16 > 9 \/ DecimalCarry(m.cpu.f, ha, lo) = 1
             fu == IF hi THEN ha + 96 * (-1) ELSE ha
  <2>1. t.cpu.b[AX] = Low(fu) /\ t.cpu.f.c = Flag(hi) BY DecimalGives, SmallInts, Zenon DEF Das
  <2>2. lo = low BY <1>6
  <2> HIDE DEF lo, low, t
  <2>3. ha = half BY <1>6, <1>7, <2>2
  <2> HIDE DEF ha
  <2>4. hi = high
    <3>1. DecimalCarry(m.cpu.f, half, low) = 1 <=> s < 0 \/ half < 0
      <4>1. half \notin Bytes <=> half < 0 BY <1>7, SMT DEF Bytes
      <4>2. m.cpu.f.c = 1 <=> s < 0 BY <1>5, <1>6, SMT DEF Flag
      <4>3. half < 0 => low BY <1>7 DEF low
      <4> HIDE DEF half, v
      <4>4. DecimalCarry(m.cpu.f, half, low) = 1 <=> (m.cpu.f.c = 1 \/ (low /\ half \notin Bytes))
        <5> DEFINE P == m.cpu.f.c = 1 \/ (low /\ half \notin Bytes)
        <5>1. P \in BOOLEAN OBVIOUS
        <5>2. DecimalCarry(m.cpu.f, half, low) = Flag(P) BY Zenon DEF DecimalCarry
        <5>3. (Flag(P) = 1) = P
          <6> HIDE DEF P
          <6> QED BY <5>1, Flagged
        <5> HIDE DEF P
        <5>4. (DecimalCarry(m.cpu.f, half, low) = 1) = P BY <5>2, <5>3, Zenon
        <5> QED BY <5>4, Zenon DEF P
      <4> QED BY <4>1, <4>2, <4>3, <4>4, Zenon
    <3> HIDE DEF half
    <3> QED BY <2>2, <2>3, <3>1, Zenon
  <2> HIDE DEF hi, high
  <2>5. fu = full BY <2>3, <2>4, <1>7
  <2> HIDE DEF fu, full
  <2> QED BY <2>1, <2>4, <2>5 DEF Low
<1>9. diff % 100 \in 0..99 /\ (diff % 100) % 10 = diff % 10
  <2>1. diff \in -100..99 BY <1>1, <1>2, SMT
  <2> HIDE DEF diff
  <2> QED BY <2>1, SMT
<1>10. t.cpu.b[AX] \in Packed /\ Decimal2(t.cpu.b[AX]) = diff % 100
  <2> HIDE DEF full, diff, t
  <2>1. full % 256 \in Int /\ 0 <= full % 256 /\ full % 256 < 256 /\ (full % 256) % 16 = full % 16
    BY <1>7, SMT
  <2>2. (full % 256) \div 16 = (diff % 100) \div 10 /\ (full % 256) % 16 = (diff % 100) % 10
    BY <1>3, <1>9, <2>1
  <2> QED BY <1>8, <1>9, <2>1, <2>2, PackedFrom
<1>11. t.cpu.f.c = Flag(diff < 0)
  <2> HIDE DEF full, diff, t, high
  <2> QED BY <1>3, <1>8, Zenon DEF Flag
<1>12. diff = Decimal2(a) - Decimal2(b) - k BY DEF Decimal2, ah, al, bh, bl
<1> HIDE DEF diff, t, full, high
<1> QED BY <1>10, <1>11, <1>12, Zenon DEF t
=============================================================================

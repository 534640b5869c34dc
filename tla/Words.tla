------------------------------- MODULE Words -------------------------------
(***************************************************************************)
(* Bytes and 16-bit words as the two processors of the board use them:     *)
(* numbers, with the bitwise operators of C on operands of up to 20 bits;  *)
(* and the memory the two share.                                           *)
(***************************************************************************)
EXTENDS Integers

Bits == {0, 1}
Bytes == 0..255
WordSize == 65536
Words16 == 0..(WordSize - 1)
AddressSpace == 1048576
Addresses == 0..(AddressSpace - 1)

\* Bit k of v, also of a negative v in two's complement.
Bit(v, k) == (v \div 2^k) % 2

Low(v) == v % 256
High(v) == (v \div 256) % 256
Pair(high, low) == 256 * high + low

\* A byte with its sign in the upper half of the word: imm |= 0xff00.
Extend(v) == IF v > 127 THEN v + 65280 ELSE v

\* The number an n-bit pattern stands for in two's complement.
Signed(n, v) == IF v >= 2^(n - 1) THEN v - 2^n ELSE v

\* The low w bits of v << k, without the bits that leave the machine word.
ShiftLeft(v, k, w) == IF k > w THEN 0 ELSE (v % 2^(w - k)) * 2^k

Nibbles == 0..15
AndNibble ==
  [a \in Nibbles |-> [b \in Nibbles |->
     Bit(a, 0) * Bit(b, 0) + 2 * Bit(a, 1) * Bit(b, 1)
       + 4 * Bit(a, 2) * Bit(b, 2) + 8 * Bit(a, 3) * Bit(b, 3)]]
NibbleOf(v, k) == (v \div 16^k) % 16

And(a, b) ==
  LET part(k) == AndNibble[NibbleOf(a, k)][NibbleOf(b, k)]
  IN  part(0) + 16 * part(1) + 256 * part(2) + 4096 * part(3) + 65536 * part(4)
Or(a, b)  == a + b - And(a, b)
Xor(a, b) == a + b - 2 * And(a, b)

\* The parity flag: 1 when the low byte has an even number of ones.
OnesParity ==
  [v \in Bytes |->
     (Bit(v, 0) + Bit(v, 1) + Bit(v, 2) + Bit(v, 3)
        + Bit(v, 4) + Bit(v, 5) + Bit(v, 6) + Bit(v, 7)) % 2]
Parity(v) == 1 - OnesParity[v % 256]

\* A machine m has a memory m.mem: bytes by address; those not listed are zero.
IsMemory(mem) == DOMAIN mem \subseteq Addresses /\ mem \in [DOMAIN mem -> Bytes]
Read(m, a) == IF a \in DOMAIN m.mem THEN m.mem[a] ELSE 0
Write(m, a, v) ==
  [m EXCEPT !.mem = [x \in {a} \union DOMAIN @ |-> IF x = a THEN v ELSE @[x]]]

Flag(condition) == IF condition THEN 1 ELSE 0
=============================================================================

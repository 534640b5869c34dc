--------------------------- MODULE InterruptsProof ---------------------------
(***************************************************************************)
(* The invariants of Interrupts, for every size of the interrupt list,     *)
(* every set of devices, instructions and port writes, and either build.   *)
(*                                                                         *)
(* The actions of Interrupts are call chains on a board record, so the     *)
(* inductive invariant is stated of a board: Good holds of the board       *)
(* between two functions of the emulator loop, and every operator keeps    *)
(* the part of it that it may rely on.  Wired holds at every point of a    *)
(* call chain; Sound, whenever the secondary is not being changed; and     *)
(* Good, whenever the master is not.                                       *)
(*                                                                         *)
(* The action properties speak of the history a step leaves.  Carries says *)
(* that a piece of a chain keeps the order of the interrupts and takes     *)
(* none while they are held off, and makes the list no longer unless they  *)
(* are; Descends holds all along a chain of acknowledgements; Story        *)
(* relates the boards before and after one chain; Told is what a step may  *)
(* claim at its end, and Tells says it of the step itself.                 *)
(***************************************************************************)
EXTENDS Interrupts, FiniteSetTheorems, SequenceTheorems, TLAPS

-----------------------------------------------------------------------------
(* The operators of E8259: they keep the registers typed, and keep every   *)
(* request on a line whose input is high.                                  *)

Latched(p) == p.irr \subseteq p.inp

\* A non-empty set of lines has a member that e8259_get_priority ranks first.
LEMMA SmallestExists ==
  ASSUME NEW R \in SUBSET (0..7), R # {}
  PROVE  \E r \in R : \A q \in R : r <= q
PROOF
  <1>1. CASE 0 \in R  BY <1>1
  <1>2. CASE 0 \notin R /\ 1 \in R  BY <1>2
  <1>3. CASE {0, 1} \cap R = {} /\ 2 \in R  BY <1>3
  <1>4. CASE {0, 1, 2} \cap R = {} /\ 3 \in R  BY <1>4
  <1>5. CASE {0, 1, 2, 3} \cap R = {} /\ 4 \in R  BY <1>5
  <1>6. CASE {0, 1, 2, 3, 4} \cap R = {} /\ 5 \in R  BY <1>6
  <1>7. CASE {0, 1, 2, 3, 4, 5} \cap R = {} /\ 6 \in R  BY <1>7
  <1>8. CASE {0, 1, 2, 3, 4, 5, 6} \cap R = {}
    <2>1. \A r \in R : r = 7
      <3>. TAKE r \in R
      <3>1. r \in 0..7 /\ r \notin {0, 1, 2, 3, 4, 5, 6}  BY <1>8
      <3>. QED  BY <3>1
    <2>2. PICK r \in R : TRUE  OBVIOUS
    <2>3. \A q \in R : r <= q  BY <2>1
    <2>. QED  BY <2>3
  <1>. QED  BY <1>1, <1>2, <1>3, <1>4, <1>5, <1>6, <1>7, <1>8

LEMMA RankType ==
  ASSUME NEW p \in Pics, NEW l \in Lines
  PROVE  Rank(p, l) \in 0..7
  BY DEF Rank, Pics, Lines

\* e8259_get_priority returns a line of the set it is given.
LEMMA HighestMember ==
  ASSUME NEW p \in Pics, NEW S \in SUBSET Lines, S # {}
  PROVE  /\ Highest(p, S) \in S
         /\ \A k \in S : Rank(p, Highest(p, S)) <= Rank(p, k)
PROOF
  <1>. DEFINE R == {Rank(p, l) : l \in S}
  <1>1. R \in SUBSET (0..7) /\ R # {}  BY RankType
  <1>2. PICK r \in R : \A q \in R : r <= q  BY <1>1, SmallestExists
  <1>3. \E l \in S : \A k \in S : Rank(p, l) <= Rank(p, k)  BY <1>2
  <1>. QED  BY <1>3 DEF Highest

LEMMA PendingLines ==
  ASSUME NEW p \in Pics
  PROVE  Pending(p) \in SUBSET Lines /\ Pending(p) \subseteq p.irr
  BY DEF Pending, Pics

\* An edge on an input changes only that line's level and request.
LEMMA RaisePic ==
  ASSUME NEW p \in Pics, NEW l \in Lines, Latched(p)
  PROVE  /\ Raise(p, l) \in Pics
         /\ Latched(Raise(p, l))
         /\ Raise(p, l).inp = p.inp \cup {l}
         /\ Raise(p, l).int = p.int
  BY DEF Raise, Pics, Latched

LEMMA LowerPic ==
  ASSUME NEW p \in Pics, NEW l \in Lines, Latched(p)
  PROVE  /\ Lower(p, l) \in Pics
         /\ Latched(Lower(p, l))
         /\ Lower(p, l).inp = p.inp \ {l}
         /\ Lower(p, l).int = p.int
  BY DEF Lower, Pics, Latched

\* An acknowledge takes one line out of the pending requests.
LEMMA AcknowledgePic ==
  ASSUME NEW p \in Pics, Latched(p), Pending(p) # {}
  PROVE  /\ Acknowledge(p) \in Pics
         /\ Latched(Acknowledge(p))
         /\ Acknowledge(p).inp = p.inp
         /\ Acknowledge(p).int = FALSE
         /\ Pending(Acknowledge(p)) = Pending(p) \ {Highest(p, Pending(p))}
PROOF
  <1>. DEFINE l     == Highest(p, Pending(p))
              isr   == IF p.aeoi THEN p.isr ELSE p.isr \cup {l}
              prio  == IF p.aeoi /\ p.rot THEN (l + 1) % 8 ELSE p.prio
  <1>1. l \in Pending(p) /\ l \in Lines  BY HighestMember, PendingLines
  <1>2. Acknowledge(p) =
          [p EXCEPT !.int = FALSE, !.irr = @ \ {l}, !.isr = isr, !.prio = prio]
    BY DEF Acknowledge
  <1>. HIDE DEF l
  <1>3. isr \in SUBSET Lines /\ prio \in Lines
    <2>1. (l + 1) % 8 \in Lines  BY <1>1 DEF Lines
    <2>. QED  BY <1>1, <2>1 DEF Pics
  <1>. HIDE DEF isr, prio
  <1>4. Acknowledge(p) \in Pics  BY <1>1, <1>2, <1>3 DEF Pics
  <1>5. /\ Acknowledge(p).irr = p.irr \ {l}
        /\ Acknowledge(p).imr = p.imr
        /\ Acknowledge(p).inp = p.inp
        /\ Acknowledge(p).int = FALSE
    BY <1>2 DEF Pics
  <1>6. Pending(Acknowledge(p)) = Pending(p) \ {l}  BY <1>5 DEF Pending
  <1>. QED  BY <1>4, <1>5, <1>6 DEF Latched, l

\* Setting the INT output keeps everything else.
LEMMA SetInt ==
  ASSUME NEW p \in Pics, Latched(p), NEW v \in BOOLEAN
  PROVE  LET q == [p EXCEPT !.int = v]
         IN /\ q \in Pics /\ Latched(q) /\ q.inp = p.inp /\ q.int = v
            /\ IntRequested(q) = IntRequested(p)
            /\ Pending(q) = Pending(p)
  BY DEF Pics, Latched, IntRequested, Pending, InService, Rank

LEMMA SetNext ==
  ASSUME NEW p \in Pics, NEW n \in 0..3
  PROVE  [p EXCEPT !.next = n] \in Pics
  BY DEF Pics

\* Every control word keeps the registers typed, and the levels of the
\* inputs and of INT; none puts a line in service.
LEMMA WriteRegPic ==
  ASSUME NEW p \in Pics, Latched(p), NEW a \in {0, 1}, NEW d \in Byte
  PROVE  /\ WriteReg(p, a, d) \in Pics
         /\ Latched(WriteReg(p, a, d))
         /\ WriteReg(p, a, d).inp = p.inp
         /\ WriteReg(p, a, d).int = p.int
         /\ WriteReg(p, a, d).isr \subseteq p.isr
PROOF
  <1>. DEFINE Kept(q) == q \in Pics /\ q.irr = p.irr /\ q.inp = p.inp
                      /\ q.int = p.int /\ q.isr \subseteq p.isr
  <1>0. Bits(d) \in SUBSET Lines  BY DEF Bits
  <1>1. Kept(p)  OBVIOUS
  <1>2. Kept(ICW1(p, d))
    <2>1. 0 \in Bases  BY DEF Bases
    <2>2. ASSUME NEW x \in BOOLEAN, NEW y \in BOOLEAN
          PROVE  Kept([p EXCEPT !.sngl = x, !.ic4 = y, !.aeoi = FALSE, !.base = 0,
                                !.next = 1, !.readIrr = TRUE, !.prio = 0,
                                !.rot = FALSE, !.imr = {}, !.isr = {}])
      <3>. DEFINE q1 == [p EXCEPT !.sngl = x, !.ic4 = y, !.aeoi = FALSE]
                  q2 == [q1 EXCEPT !.base = 0]
                  q3 == [q2 EXCEPT !.next = 1]
                  q4 == [q3 EXCEPT !.readIrr = TRUE, !.prio = 0]
                  q5 == [q4 EXCEPT !.rot = FALSE, !.imr = {}, !.isr = {}]
      <3>0. 0 \in Lines  BY DEF Lines
      <3>1. Kept(q1)  BY DEF Pics
      <3>. HIDE DEF q1
      <3>2. Kept(q2)  BY <2>1, <3>1 DEF Pics
      <3>. HIDE DEF q2
      <3>3. Kept(q3)
        <4>1. 1 \in 0..3 /\ q2 \in Pics  BY <3>2
        <4>2. q3 \in Pics  BY <4>1, SetNext
        <4>. QED  BY <3>2, <4>2 DEF Pics
      <3>. HIDE DEF q3
      <3>4. Kept(q4)  BY <3>0, <3>3 DEF Pics
      <3>. HIDE DEF q4
      <3>5. Kept(q5)  BY <3>4 DEF Pics
      <3>. HIDE DEF Kept
      <3>. QED  BY <3>5 DEF q1, q2, q3, q4
    <2>. HIDE DEF Kept
    <2>3. (1 \in Bits(d)) \in BOOLEAN /\ (0 \in Bits(d)) \in BOOLEAN  OBVIOUS
    <2>. QED  BY <2>2, <2>3, Zenon DEF ICW1
  <1>3. Kept(ICWn(p, d))
    <2>1. 8 * (d \div 8) \in Bases
      <3>1. d \div 8 \in 0..31  BY DEF Byte
      <3>. QED  BY <3>1 DEF Bases
    <2>2. ASSUME NEW x \in BOOLEAN, NEW b \in Bases, NEW n \in 0..3
          PROVE  /\ Kept([p EXCEPT !.base = b, !.next = n])
                 /\ Kept([p EXCEPT !.next = n])
                 /\ Kept([p EXCEPT !.aeoi = x, !.next = n])
      BY DEF Pics
    <2>. DEFINE next3 == IF p.ic4 THEN 3 ELSE 0
                next2 == IF ~p.sngl THEN 2 ELSE next3
    <2>3. next2 \in 0..3  OBVIOUS
    <2>4. next3 \in 0..3 /\ 0 \in 0..3  OBVIOUS
    <2>. HIDE DEF Kept
    <2>5. CASE p.next = 1
      <3>1. ICWn(p, d) =
              [p EXCEPT !.base = 8 * (d \div 8), !.next = next2]
        BY <2>5 DEF ICWn
      <3>. HIDE DEF next2
      <3>. QED  BY <2>1, <2>2, <2>3, <3>1, Zenon
    <2>6. CASE p.next = 2
      <3>1. ICWn(p, d) = [p EXCEPT !.next = next3]  BY <2>6 DEF ICWn
      <3>. HIDE DEF next3
      <3>. QED  BY <2>1, <2>2, <2>4, <3>1, Zenon
    <2>7. CASE p.next # 1 /\ p.next # 2
      <3>1. ICWn(p, d) = [p EXCEPT !.aeoi = 1 \in Bits(d), !.next = 0]
        BY <2>7 DEF ICWn
      <3>2. (1 \in Bits(d)) \in BOOLEAN  OBVIOUS
      <3>. QED  BY <2>1, <2>2, <2>4, <3>1, <3>2, Zenon
    <2>. QED  BY <2>5, <2>6, <2>7
  <1>4. Kept(OCW1(p, d))  BY <1>0 DEF OCW1, Pics
  <1>5. Kept(OCW2(p, d))
    <2>. DEFINE l == d % 8  next == (l + 1) % 8  top == Highest(p, p.isr)
    <2>1. next \in Lines  BY DEF Byte, Lines
    <2>2. p.isr # {} => (top + 1) % 8 \in Lines
      <3>1. p.isr \in SUBSET Lines  BY DEF Pics
      <3>2. p.isr # {} => top \in Lines  BY <3>1, HighestMember
      <3>. QED  BY <3>2 DEF Lines
    <2>3. d \div 32 \in 0..7  BY DEF Byte
    <2>4. ASSUME NEW x \in Lines, NEW n \in Lines, NEW v \in BOOLEAN
          PROVE  /\ Kept([p EXCEPT !.rot = v])
                 /\ Kept([p EXCEPT !.isr = p.isr \ {x}])
                 /\ Kept([p EXCEPT !.isr = p.isr \ {x}, !.prio = n])
                 /\ Kept([p EXCEPT !.prio = n])
      BY DEF Pics
    <2>5. l \in Lines  BY DEF Byte, Lines
    <2>6. p.isr # {} => top \in Lines
      <3>1. p.isr \in SUBSET Lines  BY DEF Pics
      <3>. QED  BY <3>1, HighestMember
    <2>. HIDE DEF Kept, next, l, top
    <2>7. CASE d \div 32 = 0
      <3>1. OCW2(p, d) = [p EXCEPT !.rot = FALSE]  BY <2>7 DEF OCW2
      <3>. QED  BY <2>4, <2>5, <3>1, Zenon
    <2>8. CASE d \div 32 = 1
      <3>1. OCW2(p, d) = IF p.isr = {} THEN p ELSE [p EXCEPT !.isr = p.isr \ {top}]
        BY <2>8 DEF OCW2, top
      <3>. QED  BY <1>1, <2>4, <2>6, <3>1, Zenon
    <2>9. CASE d \div 32 = 2
      <3>1. OCW2(p, d) = p  BY <2>9 DEF OCW2
      <3>. QED  BY <1>1, <3>1
    <2>10. CASE d \div 32 = 3
      <3>1. OCW2(p, d) = [p EXCEPT !.isr = p.isr \ {l}]  BY <2>10 DEF OCW2, l
      <3>. QED  BY <2>4, <2>5, <3>1, Zenon
    <2>11. CASE d \div 32 = 4
      <3>1. OCW2(p, d) = [p EXCEPT !.rot = TRUE]  BY <2>11 DEF OCW2
      <3>. QED  BY <2>4, <2>5, <3>1, Zenon
    <2>12. CASE d \div 32 = 5
      <3>1. OCW2(p, d) =
              IF p.isr = {} THEN p
              ELSE [p EXCEPT !.isr = p.isr \ {top}, !.prio = (top + 1) % 8]
        BY <2>12 DEF OCW2, top
      <3>. QED  BY <1>1, <2>2, <2>4, <2>6, <3>1, Zenon DEF top
    <2>13. CASE d \div 32 = 6
      <3>1. OCW2(p, d) = [p EXCEPT !.prio = next]  BY <2>13 DEF OCW2, next, l
      <3>. QED  BY <2>1, <2>4, <2>5, <3>1, Zenon
    <2>14. CASE d \div 32 = 7
      <3>1. OCW2(p, d) = [p EXCEPT !.isr = p.isr \ {l}, !.prio = next]
        BY <2>14 DEF OCW2, next, l
      <3>. QED  BY <2>1, <2>4, <2>5, <3>1, Zenon
    <2>. QED  BY <2>3, <2>7, <2>8, <2>9, <2>10, <2>11, <2>12, <2>13, <2>14
  <1>6. Kept(OCW3(p, d))  BY DEF OCW3, Pics
  <1>7. Kept(WriteReg(p, a, d))
    <2>1. WriteReg(p, a, d) \in
            {p, ICW1(p, d), ICWn(p, d), OCW1(p, d), OCW2(p, d), OCW3(p, d)}
      <3>1. p.next \in 0..3  BY DEF Pics
      <3>. QED  BY <3>1 DEF WriteReg
    <2>. QED  BY <2>1, <1>1, <1>2, <1>3, <1>4, <1>5, <1>6
  <1>. QED  BY <1>7 DEF Latched

\* A reset keeps the input levels and leaves nothing pending.
LEMMA ResetPicPic ==
  ASSUME NEW p \in Pics, Latched(p)
  PROVE  LET q == [ResetPic(p) EXCEPT !.int = FALSE]
         IN q \in Pics /\ Latched(q) /\ q.inp = p.inp /\ ~q.int /\ ~IntRequested(q)
PROOF
  <1>. DEFINE q == [ResetPic(p) EXCEPT !.int = FALSE]
  <1>0. 0 \in Lines  BY DEF Lines
  <1>1. q \in Pics
    <2>. DEFINE q1 == [p EXCEPT !.irr = {}, !.imr = Lines, !.isr = {}, !.prio = 0]
                q2 == [q1 EXCEPT !.rot = FALSE, !.aeoi = FALSE, !.sngl = FALSE]
                q3 == [[q2 EXCEPT !.ic4 = FALSE] EXCEPT !.next = 0]
                q4 == [q3 EXCEPT !.readIrr = TRUE, !.int = FALSE]
    <2>1. q1 \in Pics  BY <1>0 DEF Pics
    <2>. HIDE DEF q1
    <2>2. q2 \in Pics  BY <2>1 DEF Pics
    <2>. HIDE DEF q2
    <2>3. q3 \in Pics
      <3>1. [q2 EXCEPT !.ic4 = FALSE] \in Pics  BY <2>2 DEF Pics
      <3>2. 0 \in 0..3  OBVIOUS
      <3>. QED  BY <3>1, <3>2, SetNext
    <2>. HIDE DEF q3
    <2>4. q4 \in Pics  BY <2>3 DEF Pics
    <2>. QED  BY <2>4 DEF q1, q2, q3, ResetPic
  <1>2. q.irr = {} /\ q.inp = p.inp /\ q.int = FALSE  BY DEF ResetPic, Pics
  <1>3. ~IntRequested(q)
    <2>1. Pending(q) = {}  BY <1>2 DEF Pending
    <2>. QED  BY <2>1 DEF IntRequested
  <1>. QED  BY <1>1, <1>2, <1>3 DEF Latched

-----------------------------------------------------------------------------
(* The board. *)

Cpus == [if : BOOLEAN, enabled : BOOLEAN, queue : Seq(Byte)]

Boards == [m : Pics, s : Pics, cpu : Cpus, active : {"8085", "8088"},
           parity : [zero : BOOLEAN, kill : BOOLEAN], request : BOOLEAN,
           frames : Seq(Lines), log : Logs]

\* A line 3 whose acknowledge has not returned is still high.
FramesLatched(b) ==
  \A i \in DOMAIN b.frames : b.frames[i] = CascadeLine => CascadeLine \in b.m.inp

Wired(b) ==
  /\ b \in Boards
  /\ Len(b.cpu.queue) < QueueSize
  /\ Latched(b.m)
  /\ Latched(b.s)
  /\ b.s.int => CascadeLine \in b.m.inp
  /\ FramesLatched(b)

Sound(b) == Wired(b) /\ b.s.int = IntRequested(b.s)

Settled(p) == ~IntRequested(p) /\ ~p.int

Good(b) == Sound(b) /\ Settled(b.m)

\* The inductive invariant.
IInv == /\ TypeOK /\ MasterSettled /\ SecondarySettled /\ LinesLatched
        /\ QueueBounded

-----------------------------------------------------------------------------
(* The trap entry changes the 8088 and the history only.                   *)

SameWiring(b, c) == c.m = b.m /\ c.s = b.s /\ c.frames = b.frames

LEMMA WiringKept ==
  ASSUME NEW b, NEW c, Wired(b), c \in Boards, SameWiring(b, c),
         Len(c.cpu.queue) < QueueSize
  PROVE  Wired(c) /\ (Sound(b) => Sound(c)) /\ (Good(b) => Good(c))
  BY DEF Wired, Sound, Good, SameWiring, FramesLatched

LEMMA CpuLog ==
  ASSUME NEW b, Wired(b), NEW u \in Cpus, NEW g \in Logs, Len(u.queue) < QueueSize,
         NEW c, c = [b EXCEPT !.cpu = u, !.log = g]
  PROVE  Wired(c) /\ SameWiring(b, c)
PROOF
  <1>1. c \in Boards /\ SameWiring(b, c) /\ c.cpu = u
    BY DEF Wired, Boards, SameWiring
  <1>. QED  BY <1>1, WiringKept

LEMMA AcceptLog ==
  ASSUME NEW g \in Logs, NEW n \in Byte, NEW w \in BOOLEAN
  PROVE  /\ [g EXCEPT !.accepted = Append(@, n), !.wrapped = w] \in Logs
         /\ [g EXCEPT !.taken = Append(@, n)] \in Logs
         /\ [g EXCEPT !.dropped = Append(@, n)] \in Logs
PROOF
  <1>. DEFINE Appended(s) == Append(s, n)
  <1>1. ASSUME NEW s \in Seq(Byte)  PROVE Appended(s) \in Seq(Byte)  OBVIOUS
  <1>2. /\ g.accepted \in Seq(Byte) /\ g.taken \in Seq(Byte)
        /\ g.dropped \in Seq(Byte)
    BY DEF Logs
  <1>. HIDE DEF Appended
  <1>3. [g EXCEPT !.accepted = Appended(g.accepted), !.wrapped = w] \in Logs
    BY <1>1, <1>2 DEF Logs
  <1>4. [g EXCEPT !.taken = Appended(g.taken)] \in Logs  BY <1>1, <1>2 DEF Logs
  <1>5. [g EXCEPT !.dropped = Appended(g.dropped)] \in Logs  BY <1>1, <1>2 DEF Logs
  <1>. QED  BY <1>3, <1>4, <1>5 DEF Appended

LEMMA PutWired ==
  ASSUME NEW b, Wired(b), NEW n \in Byte
  PROVE  Wired(Put(b, n)) /\ SameWiring(b, Put(b, n))
PROOF
  <1>. DEFINE full == Len(b.cpu.queue) = QueueSize - 1
              q == IF full THEN <<>> ELSE Append(b.cpu.queue, n)
              w == b.log.wrapped \/ full
              u == [b.cpu EXCEPT !.queue = q]
              g == [b.log EXCEPT !.accepted = Append(@, n), !.wrapped = w]
  <1>1. b.cpu \in Cpus /\ b.log \in Logs /\ Len(b.cpu.queue) < QueueSize
    BY DEF Wired, Boards
  <1>2. q \in Seq(Byte) /\ Len(q) < QueueSize
    BY <1>1, QueueAssumption DEF Cpus
  <1>3. w \in BOOLEAN  OBVIOUS
  <1>. HIDE DEF full, q, w
  <1>4. u \in Cpus /\ u.queue = q  BY <1>1, <1>2 DEF Cpus
  <1>5. g \in Logs  BY <1>1, <1>3, AcceptLog
  <1>6. Put(b, n) = [b EXCEPT !.cpu = u, !.log = g]
    BY DEF Put, Wired, Boards, q, w, full
  <1>. HIDE DEF u, g
  <1>. QED  BY <1>2, <1>4, <1>5, <1>6, CpuLog

LEMMA TakeIfWaitingWired ==
  ASSUME NEW b, Wired(b)
  PROVE  Wired(TakeIfWaiting(b)) /\ SameWiring(b, TakeIfWaiting(b))
PROOF
  <1>1. CASE b.cpu.enabled /\ b.cpu.queue # <<>>
    <2>. DEFINE q == Tail(b.cpu.queue)
                u == [b.cpu EXCEPT !.queue = q, !.if = FALSE]
                g == [b.log EXCEPT !.taken = Append(@, Head(b.cpu.queue))]
    <2>1. b.cpu \in Cpus /\ b.log \in Logs /\ Len(b.cpu.queue) < QueueSize
      BY DEF Wired, Boards
    <2>2. /\ q \in Seq(Byte) /\ Len(q) < QueueSize
          /\ Head(b.cpu.queue) \in Byte
      BY <1>1, <2>1, QueueAssumption DEF Cpus
    <2>3. u \in Cpus /\ u.queue = q  BY <2>1, <2>2 DEF Cpus
    <2>4. g \in Logs  BY <2>1, <2>2, AcceptLog
    <2>5. Take(b) = [b EXCEPT !.cpu = u, !.log = g]
      BY DEF Take, Wired, Boards
    <2>. HIDE DEF q, u, g
    <2>6. Wired(Take(b)) /\ SameWiring(b, Take(b))
      BY <2>2, <2>3, <2>4, <2>5, CpuLog
    <2>. QED  BY <1>1, <2>6 DEF TakeIfWaiting
  <1>2. CASE ~(b.cpu.enabled /\ b.cpu.queue # <<>>)
    BY <1>2 DEF TakeIfWaiting, SameWiring
  <1>. QED  BY <1>1, <1>2

LEMMA TrapWired ==
  ASSUME NEW b, Wired(b), NEW n \in Byte, NEW x \in BOOLEAN
  PROVE  Wired(Trap(b, n, x)) /\ SameWiring(b, Trap(b, n, x))
PROOF
  <1>. DEFINE d == [b EXCEPT !.log.dropped = Append(@, n)]
              c == IF b.cpu.if \/ x THEN Put(b, n) ELSE d
  <1>1. Wired(d) /\ SameWiring(b, d)
    <2>. DEFINE g == [b.log EXCEPT !.dropped = Append(@, n)]
    <2>1. b.cpu \in Cpus /\ b.log \in Logs /\ Len(b.cpu.queue) < QueueSize
      BY DEF Wired, Boards
    <2>2. g \in Logs  BY <2>1, AcceptLog
    <2>3. d = [b EXCEPT !.cpu = b.cpu, !.log = g]  BY DEF Wired, Boards
    <2>. HIDE DEF d, g
    <2>. QED  BY <2>1, <2>2, <2>3, CpuLog
  <1>2. Wired(c) /\ SameWiring(b, c)  BY <1>1, PutWired
  <1>3. Trap(b, n, x) = TakeIfWaiting(c)  BY DEF Trap
  <1>. HIDE DEF c
  <1>. QED  BY <1>2, <1>3, TakeIfWaitingWired DEF SameWiring

\* What only changes the 8088 and the history keeps every invariant.
LEMMA SameWiringKeeps ==
  ASSUME NEW b, NEW c, Wired(c), SameWiring(b, c)
  PROVE  (Sound(b) => Sound(c)) /\ (Good(b) => Good(c))
  BY DEF Sound, Good, SameWiring

-----------------------------------------------------------------------------
(* The chain of acknowledgements.  Budget(b, n): n more acknowledgements   *)
(* are enough.                                                             *)

Budget(b, n) == IntRequested(b.m) => Cardinality(Pending(b.m)) <= n

LEMMA PendingFinite ==
  ASSUME NEW p \in Pics
  PROVE  /\ IsFiniteSet(Pending(p)) /\ Cardinality(Pending(p)) \in Nat
         /\ Cardinality(Pending(p)) <= 8
         /\ Cardinality(Pending(p)) = 0 => ~IntRequested(p)
PROOF
  <1>1. IsFiniteSet(Lines) /\ Cardinality(Lines) = 8
    <2>1. IsFiniteSet(0..7) /\ Cardinality(0..7) = 7 - 0 + 1
      <3>1. 0 \in Int /\ 7 \in Int /\ ~(0 > 7)  OBVIOUS
      <3>. QED  BY <3>1, FS_Interval, Zenon
    <2>. QED  BY <2>1 DEF Lines
  <1>2. Pending(p) \subseteq Lines  BY PendingLines
  <1>3. /\ IsFiniteSet(Pending(p))
        /\ Cardinality(Pending(p)) <= 8
    BY <1>1, <1>2, FS_Subset
  <1>4. Cardinality(Pending(p)) \in Nat  BY <1>3, FS_CardinalityType
  <1>5. Cardinality(Pending(p)) = 0 => Pending(p) = {}
    BY <1>3, FS_EmptySet
  <1>. QED  BY <1>3, <1>4, <1>5 DEF IntRequested

\* One check of the master acknowledges one request or leaves INT low.
LEMMA AckStepSound ==
  ASSUME NEW b, Sound(b), NEW n \in Nat, Budget(b, n + 1)
  PROVE  LET c == AckStep(b)
         IN Sound(c) /\ ~c.m.int /\ c.m.inp = b.m.inp /\ Budget(c, n)
PROOF
  <1>. DEFINE c == AckStep(b)
              l == Highest(b.m, Pending(b.m))
  <1>0. b \in Boards /\ b.m \in Pics /\ Latched(b.m) /\ b.log \in Logs
        /\ b.frames \in Seq(Lines)
    BY DEF Sound, Wired, Boards
  <1>1. CASE IntRequested(b.m)
    <2>1. Pending(b.m) # {}  BY <1>1 DEF IntRequested
    <2>2. l \in Pending(b.m) /\ l \in Lines /\ l \in b.m.inp
      BY <1>0, <2>1, HighestMember, PendingLines DEF Latched
    <2>. DEFINE m == Acknowledge(b.m)
                fr == Append(b.frames, l)
                ac == Append(b.log.acked, l)
                g == [b.log EXCEPT !.acked = ac]
    <2>3. /\ m \in Pics /\ Latched(m) /\ m.inp = b.m.inp /\ m.int = FALSE
          /\ Pending(m) = Pending(b.m) \ {l}
      BY <1>0, <2>1, AcknowledgePic
    <2>4. fr \in Seq(Lines)  BY <1>0, <2>2
    <2>5. g \in Logs
      <3>1. ac \in Seq(Lines)  BY <1>0, <2>2 DEF Logs
      <3>. HIDE DEF ac
      <3>. QED  BY <1>0, <3>1 DEF Logs
    <2>6. c = [b EXCEPT !.m = m, !.frames = fr, !.log = g]
      BY <1>0, <1>1 DEF AckStep, Boards
    <2>7. \A i \in DOMAIN fr : fr[i] = CascadeLine => CascadeLine \in b.m.inp
      BY <1>0, <2>2 DEF Sound, Wired, FramesLatched
    <2>. HIDE DEF m, fr, ac, g, c
    <2>8. /\ c \in Boards /\ c.m = m /\ c.frames = fr /\ c.s = b.s
          /\ c.cpu = b.cpu
      BY <1>0, <2>3, <2>4, <2>5, <2>6 DEF Boards
    <2>9. Sound(c)
      BY <2>3, <2>7, <2>8 DEF Sound, Wired, FramesLatched
    <2>10. Budget(c, n)
      <3>1. Cardinality(Pending(m)) = Cardinality(Pending(b.m)) - 1
        <4>1. IsFiniteSet(Pending(b.m))  BY <1>0, PendingFinite
        <4>. HIDE DEF l
        <4>. QED  BY <4>1, <2>2, <2>3, FS_RemoveElement
      <3>. QED  BY <1>0, <1>1, <2>8, <3>1, PendingFinite DEF Budget
    <2>. QED  BY <2>3, <2>8, <2>9, <2>10 DEF c
  <1>2. CASE ~IntRequested(b.m)
    <2>. DEFINE m == [b.m EXCEPT !.int = FALSE]
    <2>1. /\ m \in Pics /\ Latched(m) /\ m.inp = b.m.inp /\ m.int = FALSE
          /\ ~IntRequested(m)
      BY <1>0, <1>2, SetInt
    <2>2. c = [b EXCEPT !.m = m]  BY <1>0, <1>2 DEF AckStep, Boards
    <2>. HIDE DEF m, c
    <2>3. /\ c \in Boards /\ c.m = m /\ c.frames = b.frames /\ c.s = b.s
          /\ c.cpu = b.cpu
      BY <1>0, <2>1, <2>2 DEF Boards
    <2>4. Sound(c)  BY <2>1, <2>3 DEF Sound, Wired, FramesLatched
    <2>. QED  BY <2>1, <2>3, <2>4 DEF Budget, c
  <1>. QED  BY <1>1, <1>2

\* Eight checks leave nothing to acknowledge.
LEMMA AckAllSound ==
  ASSUME NEW b, Sound(b)
  PROVE  LET c == AckAll(b) IN Good(c) /\ c.m.inp = b.m.inp
PROOF
  <1>. DEFINE b1 == AckStep(b)   b2 == AckStep(b1)  b3 == AckStep(b2)
              b4 == AckStep(b3)  b5 == AckStep(b4)  b6 == AckStep(b5)
              b7 == AckStep(b6)  b8 == AckStep(b7)
              Kept(c, n) == Sound(c) /\ c.m.inp = b.m.inp /\ Budget(c, n)
  <1>1. AckAll(b) = b8  BY DEF AckAll, AckTwice
  <1>2. b.m \in Pics  BY DEF Sound, Wired, Boards
  <1>3. Kept(b, 7 + 1)  BY <1>2, PendingFinite DEF Budget
  <1>4. ASSUME NEW c, NEW n \in Nat, Kept(c, n + 1)
        PROVE  Kept(AckStep(c), n) /\ ~AckStep(c).m.int
    BY <1>4, AckStepSound
  <1>. HIDE DEF Kept, b1, b2, b3, b4, b5, b6, b7, b8
  <1>5. Kept(b1, 6 + 1)  BY <1>3, <1>4 DEF b1
  <1>6. Kept(b2, 5 + 1)  BY <1>5, <1>4 DEF b2
  <1>7. Kept(b3, 4 + 1)  BY <1>6, <1>4 DEF b3
  <1>8. Kept(b4, 3 + 1)  BY <1>7, <1>4 DEF b4
  <1>9. Kept(b5, 2 + 1)  BY <1>8, <1>4 DEF b5
  <1>10. Kept(b6, 1 + 1)  BY <1>9, <1>4 DEF b6
  <1>11. Kept(b7, 0 + 1)  BY <1>10, <1>4 DEF b7
  <1>12. Kept(b8, 0) /\ ~b8.m.int  BY <1>11, <1>4 DEF b8
  <1>13. b8.m \in Pics  BY <1>12 DEF Kept, Sound, Wired, Boards
  <1>14. ~IntRequested(b8.m)
    BY <1>12, <1>13, PendingFinite DEF Kept, Budget
  <1>. QED  BY <1>1, <1>12, <1>14 DEF Kept, Good, Settled

-----------------------------------------------------------------------------
(* The returns of the acknowledgements.                                    *)

LEMMA VectorType ==
  ASSUME NEW p \in Pics, NEW l \in Lines
  PROVE  p.base + l \in Byte
PROOF
  <1>1. p.base \in Bases  BY DEF Pics
  <1>2. PICK k \in 0..31 : p.base = 8 * k  BY <1>1 DEF Bases
  <1>. QED  BY <1>2 DEF Lines, Byte

LEMMA SecondaryVectorType ==
  ASSUME NEW p \in Pics
  PROVE  SecondaryVector(p) \in Byte
PROOF
  <1>1. CASE Pending(p) = {}
    <2>1. 7 \in Lines  BY DEF Lines
    <2>2. SecondaryVector(p) = p.base + 7  BY <1>1 DEF SecondaryVector
    <2>. QED  BY <2>1, <2>2, VectorType
  <1>2. CASE Pending(p) # {}
    <2>1. Highest(p, Pending(p)) \in Lines  BY <1>2, HighestMember, PendingLines
    <2>2. SecondaryVector(p) = p.base + Highest(p, Pending(p))
      BY <1>2 DEF SecondaryVector
    <2>. QED  BY <2>1, <2>2, VectorType
  <1>. QED  BY <1>1, <1>2

\* A new state of the secondary, when its request can reach the master.
LEMMA SecondaryWired ==
  ASSUME NEW b, Wired(b), NEW s \in Pics, Latched(s),
         s.int => CascadeLine \in b.m.inp,
         NEW c, c = [b EXCEPT !.s = s]
  PROVE  Wired(c) /\ c.m = b.m /\ c.s = s /\ c.frames = b.frames
PROOF
  <1>1. /\ c \in Boards /\ c.m = b.m /\ c.s = s /\ c.frames = b.frames
        /\ c.cpu = b.cpu
    BY DEF Wired, Boards
  <1>. QED  BY <1>1 DEF Wired, FramesLatched

\* Acknowledging the secondary keeps its INT output in step, whether or not
\* it has a request.
LEMMA IntaSecondarySound ==
  ASSUME NEW b, Sound(b), CascadeLine \in b.m.inp
  PROVE  LET c == IntaSecondary(b)
         IN Sound(c) /\ c.m = b.m /\ c.frames = b.frames
PROOF
  <1>. DEFINE c == IntaSecondary(b)
  <1>0. b \in Boards /\ b.s \in Pics /\ Latched(b.s) /\ b.log \in Logs /\ Wired(b)
    BY DEF Sound, Wired, Boards
  <1>1. CASE Pending(b.s) = {}
    <2>. DEFINE s == [b.s EXCEPT !.int = FALSE]
                d == [b EXCEPT !.s = s]
    <2>1. s \in Pics /\ Latched(s) /\ s.int = FALSE /\ ~IntRequested(s)
      <3>1. ~IntRequested(b.s)  BY <1>1 DEF IntRequested
      <3>. QED  BY <1>0, <3>1, SetInt
    <2>3. c = d  BY <1>0, <1>1 DEF IntaSecondary, Boards
    <2>4. Wired(d) /\ d.m = b.m /\ d.s = s /\ d.frames = b.frames
      <3>. HIDE DEF s, d
      <3>1. d = [b EXCEPT !.s = s]  BY DEF d
      <3>. QED  BY <1>0, <2>1, <3>1, SecondaryWired
    <2>. HIDE DEF s, d, c
    <2>5. Wired(c) /\ c.m = b.m /\ c.s = s /\ c.frames = b.frames
      BY <2>3, <2>4
    <2>6. s.int = IntRequested(s)  BY <2>1 DEF IntRequested
    <2>7. Sound(c)  BY <2>5, <2>6 DEF Sound
    <2>. QED  BY <2>5, <2>7 DEF c
  <1>2. CASE Pending(b.s) # {}
    <2>. DEFINE a == Acknowledge(b.s)
                v == IntRequested(a)
                s == [a EXCEPT !.int = v]
    <2>1. a \in Pics /\ Latched(a)  BY <1>0, <1>2, AcknowledgePic
    <2>2. v \in BOOLEAN  BY DEF IntRequested
    <2>3. s \in Pics /\ Latched(s) /\ s.int = IntRequested(s)
      <3>. HIDE DEF a
      <3>1. v = IntRequested(a)  OBVIOUS
      <3>. HIDE DEF v
      <3>2. IntRequested(s) = v /\ s \in Pics /\ Latched(s) /\ s.int = v
        BY <2>1, <2>2, <3>1, SetInt
      <3>. QED  BY <3>2
    <2>4. c = [b EXCEPT !.s = s]  BY <1>2 DEF IntaSecondary
    <2>. HIDE DEF a, v, s, c
    <2>5. Wired(c) /\ c.m = b.m /\ c.s = s /\ c.frames = b.frames
      BY <1>0, <2>3, <2>4, SecondaryWired
    <2>. QED  BY <2>3, <2>5 DEF Sound, c
  <1>. QED  BY <1>1, <1>2

LEMMA ReturnStepSound ==
  ASSUME NEW b, Sound(b)
  PROVE  Sound(ReturnStep(b)) /\ ReturnStep(b).m = b.m
PROOF
  <1>0. Wired(b) /\ b \in Boards /\ b.m \in Pics /\ b.s \in Pics
        /\ b.frames \in Seq(Lines)
    BY DEF Sound, Wired, Boards
  <1>1. CASE b.frames = <<>>  BY <1>1 DEF ReturnStep
  <1>2. CASE b.frames # <<>>
    <2>. DEFINE k == Len(b.frames)
                l == b.frames[k]
                fr == SubSeq(b.frames, 1, k - 1)
                c == [b EXCEPT !.frames = fr]
    <2>1. l \in Lines /\ (l = CascadeLine => CascadeLine \in b.m.inp)
      BY <1>0, <1>2 DEF Sound, Wired, FramesLatched
    <2>2. fr \in Seq(Lines) /\ DOMAIN fr \subseteq DOMAIN b.frames
          /\ \A i \in DOMAIN fr : fr[i] = b.frames[i]
      BY <1>0, <1>2
    <2>. HIDE DEF k, l, fr
    <2>3. /\ c \in Boards /\ c.m = b.m /\ c.s = b.s /\ c.frames = fr
          /\ c.cpu = b.cpu
      BY <1>0, <2>2 DEF Boards
    <2>4. Sound(c)  BY <2>2, <2>3 DEF Sound, Wired, FramesLatched
    <2>5. ReturnStep(b) = IF l = CascadeLine /\ SameLabel
                            THEN Trap(IntaSecondary(c), SecondaryVector(b.s), FALSE)
                            ELSE Trap(c, b.m.base + l, FALSE)
      BY <1>2 DEF ReturnStep, l, k, fr
    <2>. HIDE DEF c
    <2>6. CASE l = CascadeLine /\ SameLabel
      <3>1. Sound(IntaSecondary(c)) /\ IntaSecondary(c).m = b.m
        BY <2>1, <2>3, <2>4, <2>6, IntaSecondarySound
      <3>2. SecondaryVector(b.s) \in Byte  BY <1>0, SecondaryVectorType
      <3>. DEFINE r == Trap(IntaSecondary(c), SecondaryVector(b.s), FALSE)
      <3>3. Wired(r) /\ SameWiring(IntaSecondary(c), r)
        BY <3>1, <3>2, TrapWired DEF Sound
      <3>. HIDE DEF r
      <3>4. Sound(r) /\ r.m = b.m  BY <3>1, <3>3, SameWiringKeeps DEF SameWiring
      <3>. QED  BY <2>5, <2>6, <3>4 DEF r
    <2>7. CASE ~(l = CascadeLine /\ SameLabel)
      <3>1. b.m.base + l \in Byte  BY <1>0, <2>1, VectorType
      <3>. DEFINE r == Trap(c, b.m.base + l, FALSE)
      <3>2. Wired(r) /\ SameWiring(c, r)  BY <2>4, <3>1, TrapWired DEF Sound
      <3>. HIDE DEF r
      <3>3. Sound(r) /\ r.m = b.m
        BY <2>3, <2>4, <3>2, SameWiringKeeps DEF SameWiring
      <3>. QED  BY <2>5, <2>7, <3>3 DEF r
    <2>. QED  BY <2>6, <2>7
  <1>. QED  BY <1>1, <1>2

LEMMA ReturnAllSound ==
  ASSUME NEW b, Sound(b)
  PROVE  Sound(ReturnAll(b)) /\ ReturnAll(b).m = b.m
PROOF
  <1>1. ASSUME NEW c, Sound(c)
        PROVE  Sound(ReturnTwice(c)) /\ ReturnTwice(c).m = c.m
    BY <1>1, ReturnStepSound DEF ReturnTwice
  <1>. QED  BY <1>1 DEF ReturnAll

\* e8259_check_int of the master leaves it with nothing to deliver, and the
\* rest of the board sound.
LEMMA CheckMasterGood ==
  ASSUME NEW b, Sound(b)
  PROVE  Good(CheckMaster(b)) /\ CheckMaster(b).m.inp = b.m.inp
PROOF
  <1>1. Good(AckAll(b)) /\ AckAll(b).m.inp = b.m.inp  BY AckAllSound
  <1>2. Sound(CheckMaster(b)) /\ CheckMaster(b).m = AckAll(b).m
    BY <1>1, ReturnAllSound DEF CheckMaster, Good
  <1>. QED  BY <1>1, <1>2 DEF Good

-----------------------------------------------------------------------------
(* Changes of the lines and of the registers.                              *)

\* A new state of the master before its check.
LEMMA MasterSound ==
  ASSUME NEW b, Sound(b), NEW m \in Pics, Latched(m),
         CascadeLine \in b.m.inp => CascadeLine \in m.inp,
         NEW c, c = [b EXCEPT !.m = m]
  PROVE  Sound(c) /\ c.m = m
PROOF
  <1>1. /\ c \in Boards /\ c.m = m /\ c.s = b.s /\ c.frames = b.frames
        /\ c.cpu = b.cpu
    BY DEF Sound, Wired, Boards
  <1>. QED  BY <1>1 DEF Sound, Wired, FramesLatched

LEMMA BoardPics ==
  ASSUME NEW b, Wired(b)
  PROVE  b \in Boards /\ b.m \in Pics /\ b.s \in Pics /\ Latched(b.m) /\ Latched(b.s)
  BY DEF Wired, Boards

LEMMA RaiseMasterGood ==
  ASSUME NEW b, Good(b), NEW l \in Lines
  PROVE  Good(RaiseMaster(b, l))
PROOF
  <1>1. CASE l \in b.m.inp  BY <1>1 DEF RaiseMaster
  <1>2. CASE l \notin b.m.inp
    <2>. DEFINE m == Raise(b.m, l)
                c == [b EXCEPT !.m = m]
    <2>1. b.m \in Pics /\ Latched(b.m)  BY BoardPics DEF Good, Sound
    <2>2. m \in Pics /\ Latched(m) /\ m.inp = b.m.inp \cup {l}  BY <2>1, RaisePic
    <2>. HIDE DEF m
    <2>3. Sound(c)  BY <2>2, MasterSound DEF Good
    <2>. HIDE DEF c
    <2>4. Good(CheckMaster(c))  BY <2>3, CheckMasterGood
    <2>. QED  BY <1>2, <2>4 DEF RaiseMaster, m, c
  <1>. QED  BY <1>1, <1>2

LEMMA LowerMasterGood ==
  ASSUME NEW b, Good(b), NEW l \in Lines, l # CascadeLine
  PROVE  Good(LowerMaster(b, l))
PROOF
  <1>1. CASE l \notin b.m.inp  BY <1>1 DEF LowerMaster
  <1>2. CASE l \in b.m.inp
    <2>. DEFINE m == Lower(b.m, l)
                c == [b EXCEPT !.m = m]
    <2>1. b.m \in Pics /\ Latched(b.m)  BY BoardPics DEF Good, Sound
    <2>2. m \in Pics /\ Latched(m) /\ m.inp = b.m.inp \ {l}  BY <2>1, LowerPic
    <2>. HIDE DEF m
    <2>3. Sound(c)  BY <2>2, MasterSound DEF Good
    <2>. HIDE DEF c
    <2>4. Good(CheckMaster(c))  BY <2>3, CheckMasterGood
    <2>. QED  BY <1>2, <2>4 DEF LowerMaster, m, c
  <1>. QED  BY <1>1, <1>2

\* A new state of the secondary, followed by its check.
LEMMA CheckSecondaryGood ==
  ASSUME NEW b, Wired(b), Settled(b.m)
  PROVE  Good(CheckSecondary(b))
PROOF
  <1>. DEFINE v == IntRequested(b.s)
              s == [b.s EXCEPT !.int = v]
              c == [b EXCEPT !.s = s]
  <1>0. b \in Boards /\ b.m \in Pics /\ b.s \in Pics /\ Latched(b.m) /\ Latched(b.s)
    BY BoardPics
  <1>1. v \in BOOLEAN  BY DEF IntRequested
  <1>2. s \in Pics /\ Latched(s) /\ s.int = v /\ IntRequested(s) = v
    <2>1. v = IntRequested(b.s)  OBVIOUS
    <2>. HIDE DEF v
    <2>. QED  BY <1>0, <1>1, <2>1, SetInt
  <1>3. c = [b EXCEPT !.s.int = IntRequested(b.s)]  BY <1>0 DEF Boards
  <1>4. CheckSecondary(b) = IF v /\ ~b.s.int THEN RaiseMaster(c, CascadeLine) ELSE c
    BY <1>3 DEF CheckSecondary
  <1>. HIDE DEF v, s
  <1>5. c \in Boards /\ c.m = b.m /\ c.s = s /\ c.frames = b.frames /\ c.cpu = b.cpu
    BY <1>0, <1>2 DEF Boards
  <1>6. CASE CascadeLine \in b.m.inp \/ ~v
    <2>. HIDE DEF c
    <2>1. Wired(c)  BY <1>2, <1>5, <1>6 DEF Wired, FramesLatched
    <2>2. Good(c)  BY <1>2, <1>5, <2>1 DEF Good, Sound
    <2>3. CascadeLine \in Lines  BY DEF CascadeLine, Lines
    <2>. QED  BY <1>4, <2>2, <2>3, RaiseMasterGood
  <1>7. CASE CascadeLine \notin b.m.inp /\ v
    <2>1. ~b.s.int  BY <1>7 DEF Wired
    <2>. DEFINE m == Raise(b.m, CascadeLine)
                d == [c EXCEPT !.m = m]
    <2>2. CascadeLine \in Lines  BY DEF CascadeLine, Lines
    <2>3. m \in Pics /\ Latched(m) /\ m.inp = b.m.inp \cup {CascadeLine}
      BY <1>0, <2>2, RaisePic
    <2>4. RaiseMaster(c, CascadeLine) = CheckMaster(d)
      BY <1>5, <1>7 DEF RaiseMaster
    <2>. HIDE DEF m, c
    <2>5. d \in Boards /\ d.m = m /\ d.s = s /\ d.frames = b.frames /\ d.cpu = b.cpu
      BY <1>5, <2>3 DEF Boards
    <2>. HIDE DEF d
    <2>6. Wired(d)  BY <1>2, <2>3, <2>5 DEF Wired, FramesLatched
    <2>7. Sound(d)  BY <1>2, <2>5, <2>6 DEF Sound
    <2>. QED  BY <1>4, <1>7, <2>1, <2>4, <2>7, CheckMasterGood
  <1>. QED  BY <1>6, <1>7

\* A register change of the secondary, followed by its check.
LEMMA SecondaryChanged ==
  ASSUME NEW b, Good(b), NEW s \in Pics, Latched(s), s.int = b.s.int,
         NEW c, c = [b EXCEPT !.s = s]
  PROVE  Good(CheckSecondary(c))
PROOF
  <1>1. s.int => CascadeLine \in b.m.inp  BY DEF Good, Sound, Wired
  <1>2. Wired(c) /\ c.m = b.m  BY <1>1, SecondaryWired DEF Good, Sound
  <1>. QED  BY <1>2, CheckSecondaryGood DEF Good

LEMMA LineSecondaryGood ==
  ASSUME NEW b, Good(b), NEW l \in Lines
  PROVE  Good(RaiseSecondary(b, l)) /\ Good(LowerSecondary(b, l))
PROOF
  <1>0. b.s \in Pics /\ Latched(b.s)  BY BoardPics DEF Good, Sound
  <1>1. Good(RaiseSecondary(b, l))
    <2>1. Good(CheckSecondary([b EXCEPT !.s = Raise(b.s, l)]))
      BY <1>0, RaisePic, SecondaryChanged
    <2>. QED  BY <2>1 DEF RaiseSecondary
  <1>2. Good(LowerSecondary(b, l))
    <2>1. Good(CheckSecondary([b EXCEPT !.s = Lower(b.s, l)]))
      BY <1>0, LowerPic, SecondaryChanged
    <2>. QED  BY <2>1 DEF LowerSecondary
  <1>. QED  BY <1>1, <1>2

-----------------------------------------------------------------------------
(* Port writes.                                                            *)

LEMMA WriteGood ==
  ASSUME NEW b, Good(b), NEW a \in {0, 1}, NEW d \in Byte
  PROVE  Good(WriteMaster(b, a, d)) /\ Good(WriteSecondary(b, a, d))
PROOF
  <1>0. b.m \in Pics /\ Latched(b.m) /\ b.s \in Pics /\ Latched(b.s)
    BY BoardPics DEF Good, Sound
  <1>1. Good(WriteMaster(b, a, d))
    <2>1. Sound([b EXCEPT !.m = WriteReg(b.m, a, d)])
      BY <1>0, WriteRegPic, MasterSound DEF Good
    <2>. QED  BY <2>1, CheckMasterGood DEF WriteMaster
  <1>2. Good(WriteSecondary(b, a, d))
    <2>1. Good(CheckSecondary([b EXCEPT !.s = WriteReg(b.s, a, d)]))
      BY <1>0, WriteRegPic, SecondaryChanged
    <2>. QED  BY <2>1 DEF WriteSecondary
  <1>. QED  BY <1>1, <1>2

\* Changes of the board that neither a controller nor the 8088 sees.
LEMMA ElsewhereGood ==
  ASSUME NEW b, Good(b), NEW x \in {"8085", "8088"}, NEW k \in BOOLEAN
  PROVE  /\ Good([b EXCEPT !.active = x])
         /\ Good([b EXCEPT !.request = k])
         /\ Good([b EXCEPT !.parity.zero = k])
         /\ Good([b EXCEPT !.parity.kill = k])
PROOF
  <1>1. ASSUME NEW c \in Boards, c.m = b.m, c.s = b.s, c.frames = b.frames,
               c.cpu = b.cpu
        PROVE  Good(c)
    BY <1>1 DEF Good, Sound, Wired, FramesLatched
  <1>2. b \in Boards  BY DEF Good, Sound, Wired
  <1>3. Good([b EXCEPT !.active = x])  BY <1>1, <1>2 DEF Boards
  <1>4. Good([b EXCEPT !.request = k])  BY <1>1, <1>2 DEF Boards
  <1>5. Good([b EXCEPT !.parity.zero = k])  BY <1>1, <1>2 DEF Boards
  <1>6. Good([b EXCEPT !.parity.kill = k])  BY <1>1, <1>2 DEF Boards
  <1>. QED  BY <1>3, <1>4, <1>5, <1>6

LEMMA SwapPortGood ==
  ASSUME NEW b, Good(b), NEW d \in Byte
  PROVE  Good(SwapPort(b, d))
PROOF
  <1>. DEFINE c == [b EXCEPT !.active = IF 7 \in Bits(d) THEN "8088" ELSE "8085"]
              r == IF 1 \in Bits(d) THEN RaiseMaster(c, SwapLine) ELSE c
  <1>1. Good(c)  BY ElsewhereGood
  <1>2. SwapLine \in Lines  BY DEF SwapLine, Lines
  <1>3. Good(r)  BY <1>1, <1>2, RaiseMasterGood
  <1>4. SwapPort(b, d) = IF 0 \in Bits(d) THEN [r EXCEPT !.active = "8088"] ELSE r
    BY DEF SwapPort
  <1>. HIDE DEF c, r
  <1>5. Good([r EXCEPT !.active = "8088"])  BY <1>3, ElsewhereGood
  <1>. QED  BY <1>3, <1>4, <1>5

LEMMA MemoryLatchGood ==
  ASSUME NEW b, Good(b), NEW d \in Byte
  PROVE  Good(MemoryLatch(b, d))
PROOF
  <1>. DEFINE z == 4 \notin Bits(d)
              tokill == 5 \notin Bits(d)
              c == [b EXCEPT !.parity.zero = z]
              r == IF ~tokill /\ b.parity.kill THEN LowerMaster(c, ParityLine) ELSE c
  <1>1. z \in BOOLEAN /\ tokill \in BOOLEAN  OBVIOUS
  <1>2. MemoryLatch(b, d) = [r EXCEPT !.parity.kill = tokill]  BY DEF MemoryLatch
  <1>. HIDE DEF z, tokill
  <1>3. Good(c)  BY <1>1, ElsewhereGood
  <1>4. ParityLine \in Lines /\ ParityLine # CascadeLine
    BY DEF ParityLine, CascadeLine, Lines
  <1>5. Good(r)  BY <1>3, <1>4, LowerMasterGood
  <1>. HIDE DEF c, r
  <1>. QED  BY <1>1, <1>2, <1>5, ElsewhereGood

LEMMA PortWriteGood ==
  ASSUME NEW b, Good(b), NEW port \in Ports, NEW d \in Byte
  PROVE  Good(PortWrite(b, port, d))
PROOF
  <1>1. CASE port = "F0"  BY <1>1, WriteGood DEF PortWrite
  <1>2. CASE port = "F1"  BY <1>2, WriteGood DEF PortWrite
  <1>3. CASE port = "F2"  BY <1>3, WriteGood DEF PortWrite
  <1>4. CASE port = "F3"  BY <1>4, WriteGood DEF PortWrite
  <1>5. CASE port = "F5"
    <2>1. Good([b EXCEPT !.request = FALSE])  BY ElsewhereGood
    <2>2. PortWrite(b, port, d) = IF d = 0 THEN [b EXCEPT !.request = FALSE] ELSE b
      BY <1>5 DEF PortWrite
    <2>. QED  BY <2>1, <2>2
  <1>6. CASE port = "FC"  BY <1>6, MemoryLatchGood DEF PortWrite
  <1>7. CASE port = "FE"  BY <1>7, SwapPortGood DEF PortWrite
  <1>. QED  BY <1>1, <1>2, <1>3, <1>4, <1>5, <1>6, <1>7 DEF Ports

-----------------------------------------------------------------------------
(* The parts of an instruction.                                            *)

LEMMA ReadOddGood ==
  ASSUME NEW b, Good(b), NEW odd
  PROVE  Good(ReadOdd(b, odd))
PROOF
  <1>1. ParityLine \in Lines  BY DEF ParityLine, Lines
  <1>. QED  BY <1>1, RaiseMasterGood DEF ReadOdd

LEMMA CpuGood ==
  ASSUME NEW b, Good(b), NEW i \in BOOLEAN, NEW e \in BOOLEAN
  PROVE  /\ Good([b EXCEPT !.cpu.if = i])
         /\ Good([b EXCEPT !.cpu.enabled = e])
         /\ Good([b EXCEPT !.cpu.if = i, !.cpu.enabled = e])
PROOF
  <1>1. ASSUME NEW c \in Boards, c.m = b.m, c.s = b.s, c.frames = b.frames,
               c.cpu.queue = b.cpu.queue
        PROVE  Good(c)
    BY <1>1 DEF Good, Sound, Wired, FramesLatched
  <1>2. b \in Boards  BY DEF Good, Sound, Wired
  <1>3. Good([b EXCEPT !.cpu.if = i])  BY <1>1, <1>2 DEF Boards, Cpus
  <1>4. Good([b EXCEPT !.cpu.enabled = e])  BY <1>1, <1>2 DEF Boards, Cpus
  <1>5. Good([b EXCEPT !.cpu.if = i, !.cpu.enabled = e])
    BY <1>1, <1>2 DEF Boards, Cpus
  <1>. QED  BY <1>3, <1>4, <1>5

LEMMA TrapGood ==
  ASSUME NEW b, Good(b), NEW n \in Byte, NEW x \in BOOLEAN
  PROVE  Good(Trap(b, n, x))
  BY TrapWired, SameWiringKeeps DEF Good, Sound

LEMMA FetchGood ==
  ASSUME Good(Board), NEW odd
  PROVE  Good(Fetch8088(odd)) /\ Good(Fetch8085(odd))
PROOF
  <1>. DEFINE b == ReadOdd(Board, odd = "early")
              c == [b EXCEPT !.cpu.enabled = TRUE]
  <1>1. Good(b)  BY ReadOddGood
  <1>2. Fetch8088(odd) = ReadOdd(c, odd = "late")  BY DEF Fetch8088
  <1>. HIDE DEF b
  <1>3. Good(c)  BY <1>1, CpuGood
  <1>. HIDE DEF c
  <1>. QED  BY <1>2, <1>3, ReadOddGood DEF Fetch8085

-----------------------------------------------------------------------------
(* From boards to states, and back.                                        *)

LEMMA NoLogType == NoLog \in Logs
  BY DEF NoLog, Logs

LEMMA BoardGood ==
  ASSUME IInv
  PROVE  Good(Board)
PROOF
  <1>1. Board \in Boards
    <2>1. <<>> \in Seq(Lines)  OBVIOUS
    <2>. QED  BY <2>1, NoLogType DEF IInv, TypeOK, Board, Boards, Cpus
  <1>2. /\ Board.m = master /\ Board.s = secondary /\ Board.cpu = cpu
        /\ Board.frames = <<>>
    BY DEF Board
  <1>3. FramesLatched(Board)  BY <1>2 DEF FramesLatched
  <1>. QED  BY <1>1, <1>2, <1>3
       DEF IInv, MasterSettled, SecondarySettled, LinesLatched, QueueBounded,
           Good, Sound, Wired, Settled, Latched

LEMMA BecomeInv ==
  ASSUME NEW b, Good(b), Become(b), phase' \in Phases
  PROVE  IInv'
PROOF
  <1>1. b \in Boards  BY DEF Good, Sound, Wired
  <1>2. TypeOK'  BY <1>1 DEF TypeOK, Become, Boards, Cpus
  <1>. QED  BY <1>2
       DEF IInv, MasterSettled, SecondarySettled, LinesLatched, QueueBounded,
           Good, Sound, Wired, Settled, Latched, Become

LEMMA RetireInv ==
  ASSUME NEW b, Good(b)
  PROVE  Retire8088(b) \/ Retire8085(b) => IInv'
PROOF
  <1>1. Good(TakeIfWaiting(b))
    BY TakeIfWaitingWired, SameWiringKeeps DEF Good, Sound
  <1>2. phase' = "vsync" => phase' \in Phases  BY DEF Phases
  <1>. QED  BY <1>1, <1>2, BecomeInv DEF Retire8088, Retire8085, GoTo

-----------------------------------------------------------------------------
(* Each action keeps the invariant.                                        *)

LEMMA KeyboardCheckInv ==
  ASSUME IInv, KeyboardCheck
  PROVE  IInv'
PROOF
  <1>1. phase' \in Phases  BY DEF KeyboardCheck, GoTo, Phases
  <1>2. Good(Board)  BY BoardGood
  <1>. DEFINE b == [Board EXCEPT !.request = FALSE]
  <1>3. Good(b)  BY <1>2, ElsewhereGood
  <1>4. KeyVector \in Byte  BY DEF KeyVector, Byte
  <1>5. Good(Trap(b, KeyVector, TRUE))  BY <1>3, <1>4, TrapGood
  <1>6. Become(b) \/ Become(Trap(b, KeyVector, TRUE)) \/ Become(Board)
    BY DEF KeyboardCheck
  <1>. HIDE DEF b
  <1>. QED  BY <1>1, <1>2, <1>3, <1>5, <1>6, BecomeInv

LEMMA Execute8088Inv ==
  ASSUME IInv
  PROVE  /\ Wait8088 \/ Plain8088 \/ Sti8088 \/ Cli8088 \/ LoadSS8088 => IInv'
         /\ Popf8088 \/ Iret8088 \/ Int8088 => IInv'
         /\ AckFdc8088 \/ SetTimer8088 => IInv'
         /\ \A w \in PortWrites : Out8088(w) => IInv'
PROOF
  <1>1. Good(Board)  BY BoardGood
  <1>2. \A odd : Good(Fetch8088(odd))  BY <1>1, FetchGood
  <1>3. ASSUME Wait8088  PROVE IInv'
    <2>1. PICK odd : Become(ReadOdd(Board, odd = "early"))  BY <1>3 DEF Wait8088
    <2>2. Good(ReadOdd(Board, odd = "early"))  BY <1>1, ReadOddGood
    <2>3. phase' \in Phases  BY <1>3 DEF Wait8088, GoTo, Phases
    <2>. QED  BY <2>1, <2>2, <2>3, BecomeInv
  <1>4. ASSUME Plain8088  PROVE IInv'
    BY <1>2, <1>4, RetireInv DEF Plain8088
  <1>5. ASSUME Sti8088  PROVE IInv'
    <2>1. PICK odd : Retire8088([Fetch8088(odd) EXCEPT !.cpu.if = TRUE])
      BY <1>5 DEF Sti8088
    <2>. QED  BY <1>2, <2>1, CpuGood, RetireInv
  <1>6. ASSUME Cli8088  PROVE IInv'
    <2>1. PICK odd : Retire8088([Fetch8088(odd) EXCEPT !.cpu.if = FALSE])
      BY <1>6 DEF Cli8088
    <2>. QED  BY <1>2, <2>1, CpuGood, RetireInv
  <1>7. ASSUME LoadSS8088  PROVE IInv'
    <2>1. PICK odd : Retire8088([Fetch8088(odd) EXCEPT !.cpu.enabled = FALSE])
      BY <1>7 DEF LoadSS8088
    <2>. QED  BY <1>2, <2>1, CpuGood, RetireInv
  <1>8. ASSUME Popf8088  PROVE IInv'
    <2>1. PICK odd \in OddReads, i \in BOOLEAN :
            Retire8088([Fetch8088(odd) EXCEPT !.cpu.if = i])
      BY <1>8 DEF Popf8088
    <2>. QED  BY <1>2, <2>1, CpuGood, RetireInv
  <1>9. ASSUME Iret8088  PROVE IInv'
    <2>1. PICK odd \in OddReads, i \in BOOLEAN :
            Retire8088([Fetch8088(odd) EXCEPT !.cpu.if = i, !.cpu.enabled = FALSE])
      BY <1>9 DEF Iret8088
    <2>. QED  BY <1>2, <2>1, CpuGood, RetireInv
  <1>10. ASSUME Int8088  PROVE IInv'
    <2>1. PICK odd \in OddReads, n \in SoftInts :
            Retire8088(Trap(Fetch8088(odd), n, TRUE))
      BY <1>10 DEF Int8088
    <2>2. n \in Byte  BY EnvAssumption
    <2>3. Good(Trap(Fetch8088(odd), n, TRUE))  BY <1>2, <2>2, TrapGood
    <2>. QED  BY <2>1, <2>3, RetireInv
  <1>11. ASSUME AckFdc8088  PROVE IInv'
    <2>1. PICK odd : Retire8088(LowerSecondary(Fetch8088(odd), FdcLine))
      BY <1>11 DEF AckFdc8088
    <2>2. FdcLine \in Lines  BY DEF FdcLine, Lines
    <2>3. Good(LowerSecondary(Fetch8088(odd), FdcLine))
      BY <1>2, <2>2, LineSecondaryGood
    <2>. QED  BY <2>1, <2>3, RetireInv
  <1>12. ASSUME SetTimer8088  PROVE IInv'
    <2>1. PICK odd : Retire8088(RaiseMaster(Fetch8088(odd), TimerLine))
      BY <1>12 DEF SetTimer8088
    <2>2. TimerLine \in Lines  BY DEF TimerLine, Lines
    <2>3. Good(RaiseMaster(Fetch8088(odd), TimerLine))
      BY <1>2, <2>2, RaiseMasterGood
    <2>. QED  BY <2>1, <2>3, RetireInv
  <1>13. ASSUME NEW w \in PortWrites, Out8088(w)  PROVE IInv'
    <2>1. PICK odd : Retire8088(PortWrite(Fetch8088(odd), w[1], w[2]))
      BY <1>13 DEF Out8088
    <2>2. w[1] \in Ports /\ w[2] \in Byte  BY EnvAssumption
    <2>3. Good(PortWrite(Fetch8088(odd), w[1], w[2]))  BY <1>2, <2>2, PortWriteGood
    <2>. QED  BY <2>1, <2>3, RetireInv
  <1>. QED  BY <1>3, <1>4, <1>5, <1>6, <1>7, <1>8, <1>9, <1>10, <1>11, <1>12, <1>13

LEMMA Execute8085Inv ==
  ASSUME IInv
  PROVE  /\ Plain8085 \/ AckFdc8085 \/ SetTimer8085 => IInv'
         /\ \A w \in PortWrites : Out8085(w) => IInv'
PROOF
  <1>1. \A odd : Good(Fetch8085(odd))  BY BoardGood, FetchGood
  <1>2. ASSUME Plain8085  PROVE IInv'
    BY <1>1, <1>2, RetireInv DEF Plain8085
  <1>3. ASSUME AckFdc8085  PROVE IInv'
    <2>1. PICK odd : Retire8085(LowerSecondary(Fetch8085(odd), FdcLine))
      BY <1>3 DEF AckFdc8085
    <2>2. FdcLine \in Lines  BY DEF FdcLine, Lines
    <2>3. Good(LowerSecondary(Fetch8085(odd), FdcLine))
      BY <1>1, <2>2, LineSecondaryGood
    <2>. QED  BY <2>1, <2>3, RetireInv
  <1>4. ASSUME SetTimer8085  PROVE IInv'
    <2>1. PICK odd : Retire8085(RaiseMaster(Fetch8085(odd), TimerLine))
      BY <1>4 DEF SetTimer8085
    <2>2. TimerLine \in Lines  BY DEF TimerLine, Lines
    <2>3. Good(RaiseMaster(Fetch8085(odd), TimerLine))
      BY <1>1, <2>2, RaiseMasterGood
    <2>. QED  BY <2>1, <2>3, RetireInv
  <1>5. ASSUME NEW w \in PortWrites, Out8085(w)  PROVE IInv'
    <2>1. PICK odd : Retire8085(PortWrite(Fetch8085(odd), w[1], w[2]))
      BY <1>5 DEF Out8085
    <2>2. w[1] \in Ports /\ w[2] \in Byte  BY EnvAssumption
    <2>3. Good(PortWrite(Fetch8085(odd), w[1], w[2]))  BY <1>1, <2>2, PortWriteGood
    <2>. QED  BY <2>1, <2>3, RetireInv
  <1>. QED  BY <1>2, <1>3, <1>4, <1>5

LEMMA DevicesInv ==
  ASSUME IInv
  PROVE  SimulateVSYNC \/ ClockTimer \/ CycleFdc => IInv'
PROOF
  <1>1. Good(Board)  BY BoardGood
  <1>2. /\ VsyncLine \in Lines /\ VsyncLine # CascadeLine
        /\ TimerLine \in Lines /\ FdcLine \in Lines
    BY DEF VsyncLine, CascadeLine, TimerLine, FdcLine, Lines
  <1>3. Good(LowerMaster(RaiseMaster(Board, VsyncLine), VsyncLine))
    BY <1>1, <1>2, RaiseMasterGood, LowerMasterGood
  <1>4. Good(RaiseMaster(Board, TimerLine))  BY <1>1, <1>2, RaiseMasterGood
  <1>5. Good(RaiseSecondary(Board, FdcLine))  BY <1>1, <1>2, LineSecondaryGood
  <1>6. SimulateVSYNC => IInv'
    <2>. SUFFICES ASSUME SimulateVSYNC PROVE IInv'  OBVIOUS
    <2>1. phase' \in Phases  BY DEF SimulateVSYNC, GoTo, Phases
    <2>2. \/ Become(LowerMaster(RaiseMaster(Board, VsyncLine), VsyncLine))
          \/ Become(Board)
      BY DEF SimulateVSYNC
    <2>. QED  BY <1>1, <1>3, <2>1, <2>2, BecomeInv
  <1>7. ClockTimer => IInv'
    <2>. SUFFICES ASSUME ClockTimer PROVE IInv'  OBVIOUS
    <2>1. phase' \in Phases  BY DEF ClockTimer, GoTo, Phases
    <2>2. Become(RaiseMaster(Board, TimerLine)) \/ Become(Board)
      BY DEF ClockTimer
    <2>. QED  BY <1>1, <1>4, <2>1, <2>2, BecomeInv
  <1>8. CycleFdc => IInv'
    <2>. SUFFICES ASSUME CycleFdc PROVE IInv'  OBVIOUS
    <2>1. phase' \in Phases  BY DEF CycleFdc, GoTo, Phases
    <2>2. Become(RaiseSecondary(Board, FdcLine)) \/ Become(Board)
      BY DEF CycleFdc
    <2>. QED  BY <1>1, <1>5, <2>1, <2>2, BecomeInv
  <1>. QED  BY <1>6, <1>7, <1>8

LEMMA ResetInv ==
  ASSUME IInv, Reset
  PROVE  IInv'
PROOF
  <1>. DEFINE a == [Board EXCEPT !.cpu.if = FALSE, !.cpu.queue = <<>>]
              b(odd) == ReadOdd(a, odd)
              m(odd) == [ResetPic(b(odd).m) EXCEPT !.int = FALSE]
              s(odd) == [ResetPic(b(odd).s) EXCEPT !.int = FALSE]
              c(odd) == [b(odd) EXCEPT !.active = "8085",
                                       !.parity = [zero |-> FALSE, kill |-> FALSE],
                                       !.m = m(odd), !.s = s(odd)]
  <1>1. phase' \in Phases
    BY DEF Reset, IInv, TypeOK
  <1>2. PICK odd : Become(c(odd))  BY DEF Reset
  <1>3. Good(a)
    <2>1. Good(Board)  BY BoardGood
    <2>2. Board \in Boards  BY <2>1 DEF Good, Sound, Wired
    <2>3. /\ a \in Boards /\ a.m = Board.m /\ a.s = Board.s
          /\ a.frames = Board.frames /\ a.cpu.queue = <<>>
      <3>1. <<>> \in Seq(Byte)  OBVIOUS
      <3>. QED  BY <2>2, <3>1 DEF Boards, Cpus
    <2>4. Len(a.cpu.queue) < QueueSize  BY <2>3, QueueAssumption
    <2>. HIDE DEF a
    <2>. QED  BY <2>1, <2>3, <2>4 DEF Good, Sound, Wired, FramesLatched
  <1>. HIDE DEF a
  <1>4. Good(b(odd))  BY <1>3, ReadOddGood
  <1>5. b(odd) \in Boards /\ b(odd).m \in Pics /\ b(odd).s \in Pics
        /\ Latched(b(odd).m) /\ Latched(b(odd).s)
    BY <1>4, BoardPics DEF Good, Sound
  <1>. HIDE DEF b
  <1>6. /\ m(odd) \in Pics /\ Latched(m(odd)) /\ m(odd).inp = b(odd).m.inp
        /\ Settled(m(odd))
    BY <1>5, ResetPicPic DEF Settled
  <1>7. /\ s(odd) \in Pics /\ Latched(s(odd)) /\ Settled(s(odd))
    BY <1>5, ResetPicPic DEF Settled
  <1>. HIDE DEF m, s
  <1>8. /\ c(odd) \in Boards /\ c(odd).m = m(odd) /\ c(odd).s = s(odd)
        /\ c(odd).frames = b(odd).frames /\ c(odd).cpu = b(odd).cpu
    BY <1>5, <1>6, <1>7 DEF Boards
  <1>. HIDE DEF c
  <1>9. Wired(c(odd))
    BY <1>4, <1>6, <1>7, <1>8 DEF Good, Sound, Wired, FramesLatched, Settled
  <1>10. c(odd).s.int = IntRequested(c(odd).s)
    <2>1. s(odd).int = FALSE  BY <1>7 DEF Settled, Pics
    <2>2. ~IntRequested(s(odd))  BY <1>7 DEF Settled
    <2>. QED  BY <1>8, <2>1, <2>2 DEF IntRequested
  <1>11. Good(c(odd))  BY <1>6, <1>8, <1>9, <1>10 DEF Good, Sound
  <1>. QED  BY <1>1, <1>2, <1>11, BecomeInv

\* The user interface thread touches only the request flag.
LEMMA KeyActionInv ==
  ASSUME IInv, KeyAction
  PROVE  IInv'
  BY NoLogType DEF IInv, TypeOK, MasterSettled, SecondarySettled, LinesLatched,
                   QueueBounded, KeyAction

LEMMA InitInv ==
  ASSUME Init
  PROVE  IInv
PROOF
  <1>1. InitPic \in Pics
    <2>1. 0 \in Bases  BY DEF Bases
    <2>2. 0 \in Lines /\ 0 \in 0..3  BY DEF Lines
    <2>. QED  BY <2>1, <2>2 DEF InitPic, Pics
  <1>2. ~IntRequested(InitPic) /\ InitPic.int = FALSE /\ InitPic.irr = {}
    BY DEF InitPic, IntRequested, Pending
  <1>3. cpu \in [if : BOOLEAN, enabled : BOOLEAN, queue : Seq(Byte)]
        /\ Len(cpu.queue) = 0
    BY DEF Init
  <1>4. TypeOK  BY <1>1, <1>3, NoLogType DEF Init, TypeOK, Phases
  <1>5. InitPic.int = IntRequested(InitPic)  BY <1>2 DEF IntRequested
  <1>. QED  BY <1>2, <1>3, <1>4, <1>5, QueueAssumption
       DEF Init, IInv, MasterSettled, SecondarySettled, LinesLatched, QueueBounded

LEMMA NextInv ==
  ASSUME IInv, [Next]_vars
  PROVE  IInv'
PROOF
  <1>1. CASE KeyboardCheck  BY <1>1, KeyboardCheckInv
  <1>2. CASE Execute  BY <1>2, Execute8088Inv, Execute8085Inv DEF Execute
  <1>3. CASE SimulateVSYNC \/ ClockTimer \/ CycleFdc  BY <1>3, DevicesInv
  <1>4. CASE KeyAction  BY <1>4, KeyActionInv
  <1>5. CASE Reset  BY <1>5, ResetInv
  <1>6. CASE UNCHANGED vars
    BY <1>6 DEF vars, IInv, TypeOK, MasterSettled, SecondarySettled, LinesLatched,
                QueueBounded
  <1>. QED  BY <1>1, <1>2, <1>3, <1>4, <1>5, <1>6 DEF Next, EmulatorStep

-----------------------------------------------------------------------------
(* The history of a call chain.  A chain that begins with interrupt list q *)
(* has so far kept the order (InOrder); one that begins while interrupts   *)
(* are held off has so far taken none (Quiet); one that begins otherwise,  *)
(* with n numbers in the list, has n at most now, and the list has wrapped *)
(* only if n filled it (Room).  Carries says that a piece of a chain keeps *)
(* all three, whatever came before it.                                     *)

InOrder(b, q) ==
  ~b.log.wrapped => b.log.taken \o b.cpu.queue = q \o b.log.accepted

Quiet(b) == ~b.cpu.enabled /\ b.log.taken = <<>>

Within(b, n) == Len(b.cpu.queue) <= n /\ (b.log.wrapped => n >= QueueSize - 1)

Room(b, n) == b.cpu.enabled /\ Within(b, n)

Orders(b, c) ==
  /\ \A q \in Seq(Byte) : InOrder(b, q) => InOrder(c, q)
  /\ Quiet(b) => Quiet(c)

Carries(b, c) == Orders(b, c) /\ \A n \in Nat : Room(b, n) => Room(c, n)

\* What acknowledges, returns and line changes leave alone.
SameCpu(b, c) == /\ c.cpu = b.cpu
                 /\ c.log.taken = b.log.taken
                 /\ c.log.accepted = b.log.accepted
                 /\ c.log.dropped = b.log.dropped
                 /\ c.log.wrapped = b.log.wrapped

LEMMA CarriesSame ==
  ASSUME NEW b, NEW c, SameCpu(b, c)
  PROVE  Carries(b, c)
  BY DEF SameCpu, Carries, Orders, InOrder, Quiet, Room, Within

LEMMA CarriesTrans ==
  ASSUME NEW b, NEW c, NEW d, Carries(b, c), Carries(c, d)
  PROVE  Carries(b, d)
  BY DEF Carries, Orders

LEMMA AppendConcat ==
  ASSUME NEW S, NEW s \in Seq(S), NEW t \in Seq(S), NEW n \in S
  PROVE  s \o Append(t, n) = Append(s \o t, n)
PROOF
  <1>1. <<n>> \in Seq(S)  OBVIOUS
  <1>2. Append(t, n) = t \o <<n>>  BY AppendIsConcat, Zenon
  <1>3. s \o t \in Seq(S)  BY ConcatProperties, Zenon
  <1>4. Append(s \o t, n) = (s \o t) \o <<n>>  BY <1>3, AppendIsConcat, Zenon
  <1>5. (s \o t) \o <<n>> = s \o (t \o <<n>>)  BY <1>1, ConcatAssociative
  <1>. QED  BY <1>2, <1>4, <1>5, Zenon

LEMMA ConcatHeadTail ==
  ASSUME NEW S, NEW s \in Seq(S), NEW t \in Seq(S), t # <<>>
  PROVE  Append(s, Head(t)) \o Tail(t) = s \o t
PROOF
  <1>1. Head(t) \in S /\ Tail(t) \in Seq(S)  OBVIOUS
  <1>2. <<Head(t)>> \in Seq(S)  BY <1>1
  <1>3. t = <<Head(t)>> \o Tail(t)
    <2>1. /\ Len(t) \in Nat /\ Len(t) > 0 /\ Len(Tail(t)) = Len(t) - 1
          /\ \A i \in 1 .. Len(t) - 1 : Tail(t)[i] = t[i + 1]
      OBVIOUS
    <2>2. Head(t) = t[1]  OBVIOUS
    <2>3. Len(<<Head(t)>>) = 1 /\ <<Head(t)>>[1] = Head(t)  BY <1>1
    <2>. DEFINE h == <<Head(t)>>  r == Tail(t)
    <2>4. h \in Seq(S) /\ r \in Seq(S)  BY <1>1, <1>2
    <2>5. /\ h \o r \in Seq(S) /\ Len(h \o r) = Len(h) + Len(r)
          /\ \A i \in 1 .. Len(h) + Len(r) :
               (h \o r)[i] = IF i <= Len(h) THEN h[i] ELSE r[i - Len(h)]
      <3>. HIDE DEF h, r
      <3>. QED  BY <2>4, ConcatProperties, Zenon
    <2>6. Len(h) = 1 /\ h[1] = t[1]  BY <2>2, <2>3
    <2>7. Len(r) = Len(t) - 1 /\ \A i \in 1 .. Len(t) - 1 : r[i] = t[i + 1]  BY <2>1
    <2>. HIDE DEF h, r
    <2>8. Len(h \o r) = Len(t)  BY <2>1, <2>5, <2>6, <2>7
    <2>9. ASSUME NEW i \in 1 .. Len(t)  PROVE t[i] = (h \o r)[i]
      <3>. DEFINE n == Len(t)
      <3>1. n \in Nat /\ Len(h) + Len(r) = n /\ i \in 1 .. n
        BY <2>1, <2>6, <2>7, <2>9
      <3>2. (h \o r)[i] = IF i <= 1 THEN h[i] ELSE r[i - 1]  BY <2>5, <2>6, <3>1
      <3>3. CASE i = 1  BY <2>6, <3>2, <3>3
      <3>4. CASE i # 1
        <4>1. i > 1 /\ ~(i <= 1) /\ i - 1 \in 1 .. n - 1 /\ (i - 1) + 1 = i
          BY <3>1, <3>4
        <4>. HIDE DEF n
        <4>2. r[i - 1] = t[(i - 1) + 1]  BY <2>7, <4>1 DEF n
        <4>. QED  BY <3>2, <4>1, <4>2
      <3>. QED  BY <3>3, <3>4
    <2>10. t = h \o r  BY <2>5, <2>8, <2>9, SeqEqual, Zenon
    <2>. QED  BY <2>10 DEF h, r
  <1>4. Append(s, Head(t)) = s \o <<Head(t)>>  BY <1>1, AppendIsConcat, Zenon
  <1>5. (s \o <<Head(t)>>) \o Tail(t) = s \o (<<Head(t)>> \o Tail(t))
    BY <1>1, <1>2, ConcatAssociative
  <1>. QED  BY <1>3, <1>4, <1>5, Zenon

(* What putinterrupt, the taking of an interrupt and the drop in trap      *)
(* write in the history.                                                   *)
LEMMA AcceptFields ==
  ASSUME NEW g \in Logs, NEW a \in Seq(Byte), NEW w \in BOOLEAN
  PROVE  /\ LET h == [g EXCEPT !.accepted = a, !.wrapped = w]
            IN /\ h.accepted = a /\ h.wrapped = w /\ h.acked = g.acked
               /\ h.taken = g.taken /\ h.dropped = g.dropped
         /\ LET h == [g EXCEPT !.taken = a]
            IN /\ h.taken = a /\ h.acked = g.acked /\ h.wrapped = g.wrapped
               /\ h.accepted = g.accepted /\ h.dropped = g.dropped
         /\ LET h == [g EXCEPT !.dropped = a]
            IN /\ h.dropped = a /\ h.acked = g.acked /\ h.wrapped = g.wrapped
               /\ h.accepted = g.accepted /\ h.taken = g.taken
  BY DEF Logs

LEMMA PutHistory ==
  ASSUME NEW b, Wired(b), NEW n \in Byte
  PROVE  LET c == Put(b, n)
         IN /\ Orders(b, c)
            /\ c.log.acked = b.log.acked
            /\ c.log.dropped = b.log.dropped
            /\ c.cpu.enabled = b.cpu.enabled
            /\ Len(b.cpu.queue) # QueueSize - 1 =>
                 /\ Len(c.cpu.queue) = Len(b.cpu.queue) + 1
                 /\ c.log.wrapped = b.log.wrapped
            /\ Len(b.cpu.queue) = QueueSize - 1 => Len(c.cpu.queue) = 0
PROOF
  <1>. DEFINE full == Len(b.cpu.queue) = QueueSize - 1
              q == IF full THEN <<>> ELSE Append(b.cpu.queue, n)
              w == b.log.wrapped \/ full
              u == [b.cpu EXCEPT !.queue = q]
              a == Append(b.log.accepted, n)
              g == [b.log EXCEPT !.accepted = a, !.wrapped = w]
              c == Put(b, n)
  <1>1. b \in Boards /\ b.cpu \in Cpus /\ b.log \in Logs  BY DEF Wired, Boards
  <1>2. /\ b.cpu.queue \in Seq(Byte) /\ b.log.accepted \in Seq(Byte)
        /\ b.log.taken \in Seq(Byte)
    BY <1>1 DEF Cpus, Logs
  <1>3. a \in Seq(Byte)  BY <1>2
  <1>4. w \in BOOLEAN  OBVIOUS
  <1>5. c = [b EXCEPT !.cpu = u, !.log = g]
    BY <1>1 DEF Put, Boards
  <1>6. ASSUME ~full, NEW q0 \in Seq(Byte),
               b.log.taken \o b.cpu.queue = q0 \o b.log.accepted
        PROVE  b.log.taken \o q = q0 \o a
    <2>1. q = Append(b.cpu.queue, n)  BY <1>6
    <2>2. b.log.taken \o Append(b.cpu.queue, n) = Append(b.log.taken \o b.cpu.queue, n)
      <3>. DEFINE s == b.log.taken  t == b.cpu.queue
      <3>1. s \in Seq(Byte) /\ t \in Seq(Byte)  BY <1>2
      <3>. HIDE DEF s, t
      <3>2. s \o Append(t, n) = Append(s \o t, n)  BY <3>1, AppendConcat
      <3>. QED  BY <3>2 DEF s, t
    <2>3. q0 \o Append(b.log.accepted, n) = Append(q0 \o b.log.accepted, n)
      BY <1>2, AppendConcat
    <2>. QED  BY <1>6, <2>1, <2>2, <2>3
  <1>7. w => b.log.wrapped \/ full  OBVIOUS
  <1>8. ~w => ~b.log.wrapped /\ ~full  OBVIOUS
  <1>. HIDE DEF full, q, w, a
  <1>9. u.queue = q /\ u.enabled = b.cpu.enabled  BY <1>1 DEF Cpus
  <1>10. /\ g.accepted = a /\ g.wrapped = w /\ g.acked = b.log.acked
         /\ g.taken = b.log.taken /\ g.dropped = b.log.dropped
    BY <1>1, <1>3, <1>4, AcceptFields
  <1>. HIDE DEF u, g
  <1>11. c.cpu = u /\ c.log = g  BY <1>1, <1>5 DEF Boards
  <1>. HIDE DEF c
  <1>12. ASSUME NEW q0 \in Seq(Byte), InOrder(b, q0)  PROVE InOrder(c, q0)
    BY <1>6, <1>8, <1>9, <1>10, <1>11, <1>12 DEF InOrder
  <1>13. Quiet(b) => Quiet(c)  BY <1>9, <1>10, <1>11 DEF Quiet
  <1>14. ~full => Len(q) = Len(b.cpu.queue) + 1 /\ w = b.log.wrapped
    BY <1>1, <1>2 DEF full, q, w, Logs
  <1>15. full => Len(q) = 0  BY DEF q
  <1>16. /\ Len(b.cpu.queue) # QueueSize - 1 =>
              Len(c.cpu.queue) = Len(b.cpu.queue) + 1 /\ c.log.wrapped = b.log.wrapped
         /\ Len(b.cpu.queue) = QueueSize - 1 => Len(c.cpu.queue) = 0
    BY <1>9, <1>10, <1>11, <1>14, <1>15 DEF full
  <1>. QED  BY <1>9, <1>10, <1>11, <1>12, <1>13, <1>16 DEF Orders, c, a

(* Taking an interrupt shortens the list by one; it never lengthens it.    *)
LEMMA TakeIfWaitingHistory ==
  ASSUME NEW b, Wired(b)
  PROVE  LET c == TakeIfWaiting(b)
         IN /\ Carries(b, c)
            /\ c.log.acked = b.log.acked
            /\ c.log.dropped = b.log.dropped
            /\ c.log.accepted = b.log.accepted
            /\ c.log.wrapped = b.log.wrapped
            /\ c.cpu.enabled = b.cpu.enabled
            /\ Len(c.cpu.queue) <= Len(b.cpu.queue)
            /\ b.cpu.enabled /\ Len(b.cpu.queue) > 0 =>
                 Len(c.cpu.queue) = Len(b.cpu.queue) - 1
PROOF
  <1>0. b.cpu.queue \in Seq(Byte)  BY DEF Wired, Boards, Cpus
  <1>1. CASE b.cpu.enabled /\ b.cpu.queue # <<>>
    <2>. DEFINE q == Tail(b.cpu.queue)
                a == Append(b.log.taken, Head(b.cpu.queue))
                u == [b.cpu EXCEPT !.queue = q, !.if = FALSE]
                g == [b.log EXCEPT !.taken = a]
                c == Take(b)
    <2>1. b \in Boards /\ b.cpu \in Cpus /\ b.log \in Logs  BY DEF Wired, Boards
    <2>2. b.cpu.queue \in Seq(Byte) /\ b.log.taken \in Seq(Byte)
      BY <2>1 DEF Cpus, Logs
    <2>3. q \in Seq(Byte) /\ Head(b.cpu.queue) \in Byte
      BY <1>1, <2>2
    <2>4. a \in Seq(Byte) /\ a \o q = b.log.taken \o b.cpu.queue
      <3>1. a \in Seq(Byte)  BY <2>2, <2>3
      <3>2. a \o q = b.log.taken \o b.cpu.queue  BY <1>1, <2>2, ConcatHeadTail
      <3>. QED  BY <3>1, <3>2
    <2>5. c = [b EXCEPT !.cpu = u, !.log = g]  BY <2>1 DEF Take, Boards
    <2>. HIDE DEF q, a
    <2>6. u.queue = q /\ u.enabled = b.cpu.enabled  BY <2>1 DEF Cpus
    <2>7. /\ g.taken = a /\ g.acked = b.log.acked /\ g.wrapped = b.log.wrapped
          /\ g.accepted = b.log.accepted /\ g.dropped = b.log.dropped
      BY <2>1, <2>4, AcceptFields
    <2>. HIDE DEF u, g
    <2>8. c.cpu = u /\ c.log = g  BY <2>1, <2>5 DEF Boards
    <2>9. TakeIfWaiting(b) = c  BY <1>1 DEF TakeIfWaiting
    <2>. HIDE DEF c
    <2>10. ASSUME NEW q0 \in Seq(Byte), InOrder(b, q0)  PROVE InOrder(c, q0)
      BY <2>4, <2>6, <2>7, <2>8, <2>10 DEF InOrder
    <2>11. ~Quiet(b)  BY <1>1 DEF Quiet
    <2>12. Len(q) = Len(b.cpu.queue) - 1 /\ Len(q) \in Nat
      BY <1>1, <2>2 DEF q
    <2>13. Len(c.cpu.queue) = Len(b.cpu.queue) - 1 /\ Len(b.cpu.queue) \in Nat
      BY <1>0, <2>6, <2>8, <2>12
    <2>14. ASSUME NEW n \in Nat, Room(b, n)  PROVE Room(c, n)
      <3>1. Len(b.cpu.queue) <= n  BY <2>14 DEF Room, Within
      <3>2. Len(c.cpu.queue) <= n  BY <2>13, <3>1
      <3>3. c.log.wrapped = b.log.wrapped /\ c.cpu.enabled = b.cpu.enabled
        BY <2>6, <2>7, <2>8
      <3>. QED  BY <2>14, <3>2, <3>3 DEF Room, Within
    <2>15. Carries(b, c)  BY <2>10, <2>11, <2>14 DEF Carries, Orders
    <2>16. Len(c.cpu.queue) <= Len(b.cpu.queue)  BY <2>13
    <2>17. /\ c.log.acked = b.log.acked /\ c.log.dropped = b.log.dropped
           /\ c.log.accepted = b.log.accepted /\ c.log.wrapped = b.log.wrapped
           /\ c.cpu.enabled = b.cpu.enabled
      BY <2>6, <2>7, <2>8
    <2>. QED  BY <2>9, <2>13, <2>15, <2>16, <2>17
  <1>2. CASE ~(b.cpu.enabled /\ b.cpu.queue # <<>>)
    <2>1. TakeIfWaiting(b) = b  BY <1>2 DEF TakeIfWaiting
    <2>2. Len(b.cpu.queue) > 0 => ~b.cpu.enabled  BY <1>0, <1>2
    <2>3. Len(b.cpu.queue) <= Len(b.cpu.queue)  BY <1>0
    <2>. QED  BY <2>1, <2>2, <2>3 DEF Carries, Orders
  <1>. QED  BY <1>1, <1>2

(* trap delivers its vector or drops it, and drops it only when IF is      *)
(* clear; unless interrupts are held off it takes as many as it queues.    *)
LEMMA TrapHistory ==
  ASSUME NEW b, Wired(b), NEW n \in Byte, NEW x \in BOOLEAN
  PROVE  LET c == Trap(b, n, x)
         IN /\ Carries(b, c)
            /\ c.log.acked = b.log.acked
            /\ b.cpu.if \/ x => c.log.dropped = b.log.dropped
PROOF
  <1>. DEFINE a == Append(b.log.dropped, n)
              g == [b.log EXCEPT !.dropped = a]
              d == [b EXCEPT !.log.dropped = Append(@, n)]
              p == IF b.cpu.if \/ x THEN Put(b, n) ELSE d
              c == TakeIfWaiting(p)
  <1>1. b \in Boards /\ b.cpu \in Cpus /\ b.log \in Logs  BY DEF Wired, Boards
  <1>2. b.log.accepted \in Seq(Byte) /\ b.log.dropped \in Seq(Byte)
    BY <1>1 DEF Logs
  <1>3. a \in Seq(Byte)  BY <1>2
  <1>4. d = [b EXCEPT !.cpu = b.cpu, !.log = g]  BY <1>1 DEF Boards
  <1>5. g \in Logs  BY <1>1, AcceptLog
  <1>. HIDE DEF a
  <1>6. /\ g.dropped = a /\ g.acked = b.log.acked /\ g.wrapped = b.log.wrapped
        /\ g.accepted = b.log.accepted /\ g.taken = b.log.taken
    BY <1>1, <1>3, AcceptFields
  <1>. HIDE DEF d, g
  <1>7. d.cpu = b.cpu /\ d.log = g  BY <1>1, <1>4 DEF Boards
  <1>8. Carries(b, d)
    BY <1>6, <1>7 DEF Carries, Orders, InOrder, Quiet, Room, Within
  <1>9. Wired(d)
    <2>1. Len(b.cpu.queue) < QueueSize  BY DEF Wired
    <2>. QED  BY <1>1, <1>4, <1>5, <2>1, CpuLog
  <1>. HIDE DEF c
  <1>10. Trap(b, n, x) = c  BY DEF Trap, c, p, d
  <1>11. CASE b.cpu.if \/ x
    <2>. DEFINE e == Put(b, n)
    <2>1. p = e /\ c = TakeIfWaiting(e)  BY <1>11 DEF c
    <2>2. /\ Orders(b, e) /\ e.log.acked = b.log.acked
          /\ e.log.dropped = b.log.dropped /\ e.cpu.enabled = b.cpu.enabled
          /\ Len(b.cpu.queue) # QueueSize - 1 =>
               Len(e.cpu.queue) = Len(b.cpu.queue) + 1 /\ e.log.wrapped = b.log.wrapped
          /\ Len(b.cpu.queue) = QueueSize - 1 => Len(e.cpu.queue) = 0
      BY PutHistory
    <2>3. Wired(e)  BY PutWired
    <2>. HIDE DEF e
    <2>4. /\ Carries(e, c) /\ c.log.acked = e.log.acked
          /\ c.log.dropped = e.log.dropped /\ c.log.wrapped = e.log.wrapped
          /\ c.cpu.enabled = e.cpu.enabled /\ Len(c.cpu.queue) <= Len(e.cpu.queue)
          /\ e.cpu.enabled /\ Len(e.cpu.queue) > 0 =>
               Len(c.cpu.queue) = Len(e.cpu.queue) - 1
      BY <2>1, <2>3, TakeIfWaitingHistory
    <2>5. Orders(b, c)  BY <2>2, <2>4 DEF Carries, Orders
    <2>6. ASSUME NEW k \in Nat, Room(b, k)  PROVE Room(c, k)
      <3>1. c.cpu.enabled  BY <2>2, <2>4, <2>6 DEF Room
      <3>2. /\ Len(b.cpu.queue) \in Nat /\ Len(e.cpu.queue) \in Nat
            /\ Len(c.cpu.queue) \in Nat
        <4>1. Wired(c)  BY <2>1, <2>3, TakeIfWaitingWired
        <4>. QED  BY <2>3, <4>1 DEF Wired, Boards, Cpus
      <3>3. CASE Len(b.cpu.queue) = QueueSize - 1
        <4>1. Len(c.cpu.queue) <= k /\ k >= QueueSize - 1
          BY <2>2, <2>4, <2>6, <3>2, <3>3 DEF Room, Within
        <4>. QED  BY <3>1, <4>1 DEF Room, Within
      <3>4. CASE Len(b.cpu.queue) # QueueSize - 1
        <4>1. Len(c.cpu.queue) = Len(b.cpu.queue)
          BY <2>2, <2>4, <3>1, <3>2, <3>4
        <4>2. c.log.wrapped = b.log.wrapped  BY <2>2, <2>4, <3>4
        <4>. QED  BY <2>6, <3>1, <4>1, <4>2 DEF Room, Within
      <3>. QED  BY <3>3, <3>4
    <2>7. Carries(b, c)  BY <2>5, <2>6 DEF Carries
    <2>. QED  BY <1>10, <2>2, <2>4, <2>7
  <1>12. CASE ~(b.cpu.if \/ x)
    <2>1. p = d /\ c = TakeIfWaiting(d)  BY <1>12 DEF c
    <2>2. Carries(d, c) /\ c.log.acked = d.log.acked
      BY <1>9, <2>1, TakeIfWaitingHistory
    <2>3. Carries(b, c)  BY <1>8, <2>2, CarriesTrans
    <2>. QED  BY <1>6, <1>7, <1>10, <1>12, <2>2, <2>3
  <1>. QED  BY <1>11, <1>12

\* The other registers that an acknowledge and a change of INT leave alone.
LEMMA AcknowledgeFields ==
  ASSUME NEW p \in Pics, Pending(p) # {}
  PROVE  LET l == Highest(p, Pending(p))
             q == Acknowledge(p)
         IN /\ q.imr = p.imr /\ q.rot = p.rot /\ q.aeoi = p.aeoi /\ q.base = p.base
            /\ q.isr = IF p.aeoi THEN p.isr ELSE p.isr \cup {l}
            /\ q.prio = IF p.aeoi /\ p.rot THEN (l + 1) % 8 ELSE p.prio
  BY DEF Acknowledge, Pics

LEMMA SetIntFields ==
  ASSUME NEW p \in Pics, NEW v \in BOOLEAN
  PROVE  LET q == [p EXCEPT !.int = v]
         IN /\ q.imr = p.imr /\ q.rot = p.rot /\ q.aeoi = p.aeoi /\ q.base = p.base
            /\ q.isr = p.isr /\ q.prio = p.prio
  BY DEF Pics

\* What one check of the master changes on the board.
LEMMA AckStepHistory ==
  ASSUME NEW b, Sound(b)
  PROVE  LET c == AckStep(b)
             l == Highest(b.m, Pending(b.m))
         IN /\ SameCpu(b, c) /\ c.s = b.s
            /\ IntRequested(b.m) =>
                 /\ l \in Lines /\ c.m = Acknowledge(b.m)
                 /\ c.frames = Append(b.frames, l)
                 /\ c.log.acked = Append(b.log.acked, l)
            /\ ~IntRequested(b.m) =>
                 /\ c.m = [b.m EXCEPT !.int = FALSE]
                 /\ c.frames = b.frames /\ c.log = b.log
PROOF
  <1>. DEFINE c == AckStep(b)
              l == Highest(b.m, Pending(b.m))
  <1>0. b \in Boards /\ b.m \in Pics /\ Latched(b.m) /\ b.log \in Logs
    BY DEF Sound, Wired, Boards
  <1>1. CASE IntRequested(b.m)
    <2>. DEFINE m == Acknowledge(b.m)
                fr == Append(b.frames, l)
                ac == Append(b.log.acked, l)
                g == [b.log EXCEPT !.acked = ac]
    <2>1. c = [b EXCEPT !.m = m, !.frames = fr, !.log = g]
      BY <1>0, <1>1 DEF AckStep, Boards
    <2>2. l \in Lines
      <3>1. Pending(b.m) # {}  BY <1>1 DEF IntRequested
      <3>. QED  BY <1>0, <3>1, HighestMember, PendingLines
    <2>. HIDE DEF m, fr, ac
    <2>3. /\ g.acked = ac /\ g.taken = b.log.taken /\ g.accepted = b.log.accepted
          /\ g.dropped = b.log.dropped /\ g.wrapped = b.log.wrapped
      BY <1>0 DEF Logs
    <2>. HIDE DEF g, c
    <2>4. /\ c.m = m /\ c.frames = fr /\ c.log = g /\ c.s = b.s /\ c.cpu = b.cpu
      BY <1>0, <2>1 DEF Boards
    <2>5. SameCpu(b, c) /\ c.log.acked = ac  BY <2>3, <2>4 DEF SameCpu
    <2>. QED  BY <1>1, <2>2, <2>4, <2>5 DEF c, m, fr, ac
  <1>2. CASE ~IntRequested(b.m)
    <2>. DEFINE m == [b.m EXCEPT !.int = FALSE]
    <2>1. c = [b EXCEPT !.m = m]  BY <1>0, <1>2 DEF AckStep, Boards
    <2>. HIDE DEF m, c
    <2>2. /\ c.m = m /\ c.frames = b.frames /\ c.log = b.log /\ c.s = b.s
          /\ c.cpu = b.cpu
      BY <1>0, <2>1 DEF Boards
    <2>. QED  BY <1>2, <2>2 DEF SameCpu, c, m
  <1>. QED  BY <1>1, <1>2

\* Acknowledging the secondary changes nothing of the 8088.
LEMMA IntaSecondaryHistory ==
  ASSUME NEW b, Sound(b)
  PROVE  LET c == IntaSecondary(b)
         IN c.cpu = b.cpu /\ c.log = b.log
PROOF
  <1>. DEFINE c == IntaSecondary(b)
  <1>0. b \in Boards  BY DEF Sound, Wired
  <1>1. ASSUME NEW s, c = [b EXCEPT !.s = s]
        PROVE  c.cpu = b.cpu /\ c.log = b.log
    <2>. HIDE DEF c
    <2>. QED  BY <1>0, <1>1 DEF Boards
  <1>2. CASE Pending(b.s) = {}
    <2>. DEFINE s == [b.s EXCEPT !.int = FALSE]
    <2>1. c = [b EXCEPT !.s = s]  BY <1>0, <1>2 DEF IntaSecondary, Boards
    <2>. HIDE DEF s, c
    <2>. QED  BY <1>1, <2>1 DEF c
  <1>3. CASE Pending(b.s) # {}
    <2>. DEFINE a == Acknowledge(b.s)
                s == [a EXCEPT !.int = IntRequested(a)]
    <2>1. c = [b EXCEPT !.s = s]  BY <1>3 DEF IntaSecondary
    <2>. HIDE DEF s, c
    <2>. QED  BY <1>1, <2>1 DEF c
  <1>. QED  BY <1>2, <1>3

(* A return traps once: nothing is dropped if IF was set.                  *)
LEMMA ReturnStepHistory ==
  ASSUME NEW b, Sound(b), b.frames # <<>>
  PROVE  LET c == ReturnStep(b)
         IN /\ Carries(b, c)
            /\ c.log.acked = b.log.acked
            /\ c.frames = SubSeq(b.frames, 1, Len(b.frames) - 1)
            /\ b.cpu.if => c.log.dropped = b.log.dropped
PROOF
  <1>0. Wired(b) /\ b \in Boards /\ b.m \in Pics /\ b.s \in Pics
        /\ b.frames \in Seq(Lines)
    BY DEF Sound, Wired, Boards
  <1>. DEFINE k == Len(b.frames)
              l == b.frames[k]
              fr == SubSeq(b.frames, 1, k - 1)
              d == [b EXCEPT !.frames = fr]
              c == ReturnStep(b)
  <1>1. l \in Lines /\ (l = CascadeLine => CascadeLine \in b.m.inp)
    BY <1>0 DEF Sound, Wired, FramesLatched
  <1>2. fr \in Seq(Lines) /\ DOMAIN fr \subseteq DOMAIN b.frames
        /\ \A i \in DOMAIN fr : fr[i] = b.frames[i]
    BY <1>0
  <1>. HIDE DEF k, l, fr
  <1>3. /\ d \in Boards /\ d.m = b.m /\ d.s = b.s /\ d.frames = fr
        /\ d.cpu = b.cpu /\ d.log = b.log
    BY <1>0, <1>2 DEF Boards
  <1>4. Sound(d)  BY <1>2, <1>3 DEF Sound, Wired, FramesLatched
  <1>5. c = IF l = CascadeLine /\ SameLabel
              THEN Trap(IntaSecondary(d), SecondaryVector(b.s), FALSE)
              ELSE Trap(d, b.m.base + l, FALSE)
    BY DEF ReturnStep, l, k, fr
  <1>. HIDE DEF d, c
  <1>. DEFINE Result == /\ Carries(b, c) /\ c.log.acked = b.log.acked
                        /\ c.frames = fr
                        /\ b.cpu.if => c.log.dropped = b.log.dropped
  <1>6. ASSUME NEW e, Sound(e), e.cpu = b.cpu, e.log = b.log, e.frames = fr,
               NEW n \in Byte, c = Trap(e, n, FALSE)
        PROVE  Result
    <2>1. Wired(e)  BY <1>6 DEF Sound
    <2>2. /\ Carries(e, c) /\ c.log.acked = e.log.acked
          /\ e.cpu.if => c.log.dropped = e.log.dropped
      BY <1>6, <2>1, TrapHistory
    <2>3. c.frames = fr  BY <1>6, <2>1, TrapWired DEF SameWiring
    <2>4. Carries(b, e)  BY <1>6, CarriesSame DEF SameCpu
    <2>5. Carries(b, c)  BY <2>2, <2>4, CarriesTrans
    <2>. QED  BY <1>6, <2>2, <2>3, <2>5
  <1>7. CASE l = CascadeLine /\ SameLabel
    <2>. DEFINE e == IntaSecondary(d)
                n == SecondaryVector(b.s)
    <2>1. Sound(e) /\ e.frames = fr
      BY <1>1, <1>3, <1>4, <1>7, IntaSecondarySound
    <2>2. e.cpu = b.cpu /\ e.log = b.log
      BY <1>3, <1>4, IntaSecondaryHistory
    <2>3. n \in Byte  BY <1>0, SecondaryVectorType
    <2>4. c = Trap(e, n, FALSE)  BY <1>5, <1>7
    <2>. HIDE DEF e, n, Result
    <2>5. Result  BY <1>6, <2>1, <2>2, <2>3, <2>4
    <2>. QED  BY <2>5 DEF Result, c, fr, k
  <1>8. CASE ~(l = CascadeLine /\ SameLabel)
    <2>. DEFINE n == b.m.base + l
    <2>1. n \in Byte  BY <1>0, <1>1, VectorType
    <2>2. c = Trap(d, n, FALSE)  BY <1>5, <1>8
    <2>. HIDE DEF n, Result
    <2>3. Result  BY <1>3, <1>4, <1>6, <2>1, <2>2
    <2>. QED  BY <2>3 DEF Result, c, fr, k
  <1>. QED  BY <1>7, <1>8

-----------------------------------------------------------------------------
(* Ranks: distinct lines have distinct ranks, and a rotation to behind l   *)
(* keeps the order of the lines that l outranks.                           *)

LEMMA RankCases ==
  ASSUME NEW p \in Pics, NEW l \in Lines
  PROVE  Rank(p, l) = IF l >= p.prio THEN l - p.prio ELSE l + 8 - p.prio
PROOF
  <1>1. p.prio \in 0..7 /\ l \in 0..7  BY DEF Pics, Lines
  <1>. QED  BY <1>1 DEF Rank

LEMMA RankInjective ==
  ASSUME NEW p \in Pics, NEW l \in Lines, NEW k \in Lines, Rank(p, l) = Rank(p, k)
  PROVE  l = k
PROOF
  <1>1. p.prio \in 0..7 /\ l \in 0..7 /\ k \in 0..7  BY DEF Pics, Lines
  <1>. QED  BY <1>1, RankCases

LEMMA RankRotated ==
  ASSUME NEW p \in Pics, NEW q \in Pics, NEW l \in Lines, q.prio = (l + 1) % 8,
         NEW s \in Lines, NEW k \in Lines,
         Rank(p, l) < Rank(p, s), Rank(p, s) <= Rank(p, k)
  PROVE  Rank(q, s) <= Rank(q, k)
PROOF
  <1>1. p.prio \in 0..7 /\ l \in 0..7 /\ s \in 0..7 /\ k \in 0..7
    BY DEF Pics, Lines
  <1>2. q.prio = IF l = 7 THEN 0 ELSE l + 1  BY <1>1
  <1>3. /\ Rank(p, l) = IF l >= p.prio THEN l - p.prio ELSE l + 8 - p.prio
        /\ Rank(p, s) = IF s >= p.prio THEN s - p.prio ELSE s + 8 - p.prio
        /\ Rank(p, k) = IF k >= p.prio THEN k - p.prio ELSE k + 8 - p.prio
    BY RankCases
  <1>4. /\ Rank(q, s) = IF s >= q.prio THEN s - q.prio ELSE s + 8 - q.prio
        /\ Rank(q, k) = IF k >= q.prio THEN k - q.prio ELSE k + 8 - q.prio
    BY RankCases
  <1>. QED  BY <1>1, <1>2, <1>3, <1>4

(* Outside AEOI mode the line acknowledged hides every other request; and  *)
(* from a settled controller a line that rises is the only request that    *)
(* can be acknowledged, in AEOI mode too.                                  *)
LEMMA OneAcknowledge ==
  ASSUME NEW p \in Pics, Latched(p), IntRequested(p), ~p.aeoi
  PROVE  ~IntRequested(Acknowledge(p))
PROOF
  <1>. DEFINE l == Highest(p, Pending(p))  q == Acknowledge(p)
  <1>1. Pending(p) # {} /\ Pending(p) \in SUBSET Lines
    BY PendingLines DEF IntRequested
  <1>2. l \in Pending(p) /\ \A k \in Pending(p) : Rank(p, l) <= Rank(p, k)
    BY <1>1, HighestMember
  <1>3. /\ q \in Pics /\ Pending(q) = Pending(p) \ {l}
        /\ q.imr = p.imr /\ q.isr = p.isr \cup {l} /\ q.prio = p.prio
    BY <1>1, AcknowledgePic, AcknowledgeFields
  <1>. HIDE DEF l, q
  <1>4. l \in InService(q)  BY <1>2, <1>3 DEF InService, Pending
  <1>5. \A k \in Pending(q) : ~(Rank(q, k) < Rank(q, l))
    <2>. TAKE k \in Pending(q)
    <2>1. Rank(q, k) = Rank(p, k) /\ Rank(q, l) = Rank(p, l)
      BY <1>3 DEF Rank
    <2>2. Rank(p, l) <= Rank(p, k)  BY <1>2, <1>3
    <2>3. Rank(p, l) \in 0..7 /\ Rank(p, k) \in 0..7  BY <1>1, <1>2, <1>3, RankType
    <2>. QED  BY <2>1, <2>2, <2>3
  <1>. QED  BY <1>4, <1>5 DEF IntRequested, q

LEMMA RaisedOnly ==
  ASSUME NEW p \in Pics, Latched(p), ~IntRequested(p), NEW l \in Lines,
         IntRequested(Raise(p, l))
  PROVE  LET q == Raise(p, l)
         IN Highest(q, Pending(q)) = l /\ ~IntRequested(Acknowledge(q))
PROOF
  <1>. DEFINE q == Raise(p, l)
              h == Highest(q, Pending(q))
              r == Acknowledge(q)
  <1>1. q \in Pics /\ Latched(q)  BY RaisePic
  <1>2. /\ Pending(q) \subseteq Pending(p) \cup {l}
        /\ InService(q) = InService(p) /\ q.prio = p.prio /\ q.imr = p.imr
        /\ q.isr = p.isr /\ q.aeoi = p.aeoi /\ q.rot = p.rot
    BY DEF Raise, Pics, Pending, InService
  <1>. HIDE DEF q
  <1>3. \A k \in Lines : Rank(q, k) = Rank(p, k) /\ Rank(p, k) \in 0..7
    BY <1>2, RankType DEF Rank
  <1>4. Pending(p) \in SUBSET Lines /\ Pending(q) \in SUBSET Lines
    BY <1>1, PendingLines
  <1>5. InService(p) \in SUBSET Lines  BY DEF InService, Pics
  <1>6. \A k \in Pending(p) : \E s \in InService(p) : Rank(p, s) <= Rank(p, k)
    <2>. TAKE k \in Pending(p)
    <2>1. PICK s \in InService(p) : ~(Rank(p, k) < Rank(p, s))
      BY DEF IntRequested
    <2>2. Rank(p, k) \in 0..7 /\ Rank(p, s) \in 0..7  BY <1>3, <1>4, <1>5
    <2>. QED  BY <2>1, <2>2
  <1>7. l \in Pending(q) /\ \A s \in InService(p) : Rank(p, l) < Rank(p, s)
    <2>1. PICK x \in Pending(q) : \A s \in InService(q) : Rank(q, x) < Rank(q, s)
      BY DEF IntRequested, q
    <2>2. x \notin Pending(p)
      <3>. SUFFICES ASSUME x \in Pending(p) PROVE FALSE  OBVIOUS
      <3>1. \A s \in InService(p) : Rank(p, x) < Rank(p, s)
        BY <1>2, <1>3, <1>4, <1>5, <2>1
      <3>. QED  BY <3>1 DEF IntRequested
    <2>3. x = l  BY <1>2, <2>1, <2>2
    <2>. QED  BY <1>2, <1>3, <1>5, <2>1, <2>3
  <1>8. h \in Pending(q) /\ \A k \in Pending(q) : Rank(q, h) <= Rank(q, k)
    BY <1>1, <1>4, <1>7, HighestMember
  <1>. HIDE DEF h
  <1>9. h = l
    <2>. SUFFICES ASSUME h # l PROVE FALSE  OBVIOUS
    <2>1. h \in Pending(p) /\ h \in Lines  BY <1>2, <1>4, <1>8
    <2>2. PICK s \in InService(p) : Rank(p, s) <= Rank(p, h)  BY <1>6, <2>1
    <2>3. Rank(p, l) < Rank(p, s) /\ Rank(q, h) <= Rank(q, l)  BY <1>7, <1>8, <2>2
    <2>4. Rank(q, h) = Rank(p, h) /\ Rank(q, l) = Rank(p, l)  BY <1>3, <2>1
    <2>5. Rank(p, l) \in 0..7 /\ Rank(p, s) \in 0..7 /\ Rank(p, h) \in 0..7
      BY <1>3, <1>5, <2>1
    <2>. QED  BY <2>2, <2>3, <2>4, <2>5
  <1>10. /\ r \in Pics /\ Pending(r) = Pending(q) \ {l} /\ r.imr = q.imr
         /\ r.isr = IF q.aeoi THEN q.isr ELSE q.isr \cup {l}
         /\ r.prio = IF q.aeoi /\ q.rot THEN (l + 1) % 8 ELSE q.prio
    BY <1>1, <1>7, <1>9, AcknowledgePic, AcknowledgeFields DEF h
  <1>. HIDE DEF r
  <1>11. ASSUME NEW k \in Pending(r)
         PROVE  \E s \in InService(r) : ~(Rank(r, k) < Rank(r, s))
    <2>1. k \in Pending(p) /\ k \in Lines  BY <1>2, <1>4, <1>10
    <2>2. PICK s \in InService(p) : Rank(p, s) <= Rank(p, k)  BY <1>6, <2>1
    <2>3. s \in InService(r) /\ s \in Lines
      BY <1>2, <1>5, <1>10, <2>2 DEF InService
    <2>4. Rank(p, l) < Rank(p, s)  BY <1>7, <2>2
    <2>5. Rank(r, s) <= Rank(r, k)
      <3>1. CASE r.prio = (l + 1) % 8
        BY <1>10, <2>1, <2>2, <2>3, <2>4, <3>1, RankRotated
      <3>2. CASE r.prio = p.prio  BY <2>2, <3>2 DEF Rank
      <3>. QED  BY <1>2, <1>10, <3>1, <3>2
    <2>6. Rank(r, s) \in 0..7 /\ Rank(r, k) \in 0..7  BY <1>10, <2>1, <2>3, RankType
    <2>7. ~(Rank(r, k) < Rank(r, s))  BY <2>5, <2>6
    <2>. QED  BY <2>3, <2>7
  <1>12. ~IntRequested(r)  BY <1>11 DEF IntRequested
  <1>. QED  BY <1>9, <1>12 DEF h, r, q

-----------------------------------------------------------------------------
(* What holds all along a chain of acknowledgements and returns.           *)

\* Unless the priorities rotate, the lines acknowledged so far are ranked in
\* order, and outrank every request that is left.
Descends(b) ==
  ~b.m.rot =>
    /\ \A i, j \in DOMAIN b.log.acked :
         i < j => Rank(b.m, b.log.acked[i]) < Rank(b.m, b.log.acked[j])
    /\ \A i \in DOMAIN b.log.acked : \A k \in Pending(b.m) :
         Rank(b.m, b.log.acked[i]) < Rank(b.m, k)

\* The registers no acknowledge changes, nor in AEOI mode the lines in service.
SameModes(p, q) == /\ q.rot = p.rot /\ q.aeoi = p.aeoi /\ q.imr = p.imr
                   /\ p.aeoi => q.isr = p.isr

LEMMA AckStepDescends ==
  ASSUME NEW b, Sound(b), Descends(b)
  PROVE  Descends(AckStep(b))
PROOF
  <1>. DEFINE c == AckStep(b)
              l == Highest(b.m, Pending(b.m))
              m == [b.m EXCEPT !.int = FALSE]
  <1>0. b.m \in Pics /\ Latched(b.m) /\ b.log \in Logs  BY DEF Sound, Wired, Boards
  <1>1. b.log.acked \in Seq(Lines)  BY <1>0 DEF Logs
  <1>2. CASE IntRequested(b.m)
    <2>1. Pending(b.m) # {} /\ Pending(b.m) \in SUBSET Lines
      BY <1>0, <1>2, PendingLines DEF IntRequested
    <2>2. /\ l \in Pending(b.m) /\ l \in Lines
          /\ \A k \in Pending(b.m) : Rank(b.m, l) <= Rank(b.m, k)
      BY <1>0, <2>1, HighestMember
    <2>3. /\ c.m = Acknowledge(b.m) /\ c.log.acked = Append(b.log.acked, l)
      BY <1>2, AckStepHistory
    <2>4. /\ Pending(c.m) = Pending(b.m) \ {l} /\ c.m.rot = b.m.rot
          /\ ~b.m.rot => c.m.prio = b.m.prio
      BY <1>0, <2>1, <2>3, AcknowledgePic, AcknowledgeFields
    <2>. HIDE DEF c, l
    <2>5. ASSUME ~c.m.rot
          PROVE  /\ \A i, j \in DOMAIN c.log.acked :
                      i < j => Rank(c.m, c.log.acked[i]) < Rank(c.m, c.log.acked[j])
                 /\ \A i \in DOMAIN c.log.acked : \A k \in Pending(c.m) :
                      Rank(c.m, c.log.acked[i]) < Rank(c.m, k)
      <3>. DEFINE a == b.log.acked  n == Len(a)
      <3>1. \A k : Rank(c.m, k) = Rank(b.m, k)  BY <2>4, <2>5 DEF Rank
      <3>2. /\ n \in Nat /\ DOMAIN a = 1 .. n /\ DOMAIN c.log.acked = 1 .. n + 1
            /\ c.log.acked[n + 1] = l /\ \A i \in 1 .. n : c.log.acked[i] = a[i]
        BY <1>1, <2>2, <2>3
      <3>3. /\ \A i, j \in 1 .. n : i < j => Rank(b.m, a[i]) < Rank(b.m, a[j])
            /\ \A i \in 1 .. n : \A k \in Pending(b.m) : Rank(b.m, a[i]) < Rank(b.m, k)
        BY <2>4, <2>5, <3>2 DEF Descends
      <3>4. \A i \in 1 .. n : a[i] \in Lines  BY <1>1, <3>2
      <3>. HIDE DEF a, n
      <3>5. \A k \in Pending(c.m) : Rank(b.m, l) < Rank(b.m, k)
        <4>. TAKE k \in Pending(c.m)
        <4>1. k \in Pending(b.m) /\ k \in Lines /\ k # l  BY <2>1, <2>4
        <4>2. Rank(b.m, l) # Rank(b.m, k)  BY <1>0, <2>2, <4>1, RankInjective
        <4>3. Rank(b.m, l) \in 0..7 /\ Rank(b.m, k) \in 0..7
          BY <1>0, <2>2, <4>1, RankType
        <4>. QED  BY <2>2, <4>1, <4>2, <4>3
      <3>6. ASSUME NEW i \in 1 .. n + 1, NEW j \in 1 .. n + 1, i < j
            PROVE  Rank(c.m, c.log.acked[i]) < Rank(c.m, c.log.acked[j])
        <4>1. i \in 1 .. n /\ (j \in 1 .. n \/ j = n + 1)  BY <3>2, <3>6
        <4>. QED  BY <2>2, <3>1, <3>2, <3>3, <3>6, <4>1
      <3>7. ASSUME NEW i \in 1 .. n + 1, NEW k \in Pending(c.m)
            PROVE  Rank(c.m, c.log.acked[i]) < Rank(c.m, k)
        <4>1. i \in 1 .. n \/ i = n + 1  BY <3>2
        <4>2. k \in Pending(b.m)  BY <2>4
        <4>. QED  BY <3>1, <3>2, <3>3, <3>5, <4>1, <4>2
      <3>. QED  BY <3>2, <3>6, <3>7
    <2>. QED  BY <2>5 DEF Descends, c
  <1>3. CASE ~IntRequested(b.m)
    <2>1. c.m = m /\ c.log = b.log  BY <1>3, AckStepHistory
    <2>2. Pending(m) = Pending(b.m) /\ m.rot = b.m.rot /\ m.prio = b.m.prio
      BY <1>0, SetInt, SetIntFields
    <2>. HIDE DEF c, m
    <2>3. \A k : Rank(c.m, k) = Rank(b.m, k)  BY <2>1, <2>2 DEF Rank
    <2>4. Descends(c)  BY <2>1, <2>2, <2>3 DEF Descends
    <2>. QED  BY <2>4 DEF c
  <1>. QED  BY <1>2, <1>3

LEMMA AckStepKeeps ==
  ASSUME NEW b, Sound(b)
  PROVE  LET c == AckStep(b)
         IN /\ SameCpu(b, c) /\ c.s = b.s
            /\ c.frames \in Seq(Lines) /\ Len(c.frames) <= Len(b.frames) + 1
            /\ SameModes(b.m, c.m)
PROOF
  <1>. DEFINE c == AckStep(b)
              l == Highest(b.m, Pending(b.m))
              m == [b.m EXCEPT !.int = FALSE]
  <1>0. /\ b.m \in Pics /\ Latched(b.m) /\ b.log \in Logs /\ b.frames \in Seq(Lines)
        /\ Sound(c)
    <2>1. Budget(b, 7 + 1)
      BY PendingFinite DEF Budget, Sound, Wired, Boards
    <2>. QED  BY <2>1, AckStepSound DEF Sound, Wired, Boards
  <1>1. SameCpu(b, c) /\ c.s = b.s  BY AckStepHistory
  <1>2. c.frames \in Seq(Lines)  BY <1>0 DEF Sound, Wired, Boards
  <1>3. CASE IntRequested(b.m)
    <2>1. /\ l \in Lines /\ c.m = Acknowledge(b.m) /\ c.frames = Append(b.frames, l)
          /\ c.log.acked = Append(b.log.acked, l)
      BY <1>3, AckStepHistory
    <2>2. SameModes(b.m, c.m)
      <3>1. Pending(b.m) # {}  BY <1>3 DEF IntRequested
      <3>. QED  BY <1>0, <2>1, <3>1, AcknowledgeFields DEF SameModes
    <2>. HIDE DEF c, l
    <2>3. Len(c.frames) <= Len(b.frames) + 1  BY <1>0, <2>1
    <2>. QED  BY <1>1, <1>2, <2>2, <2>3 DEF c
  <1>4. CASE ~IntRequested(b.m)
    <2>1. c.m = m /\ c.frames = b.frames /\ c.log = b.log  BY <1>4, AckStepHistory
    <2>2. SameModes(b.m, m)  BY <1>0, SetIntFields DEF SameModes
    <2>. HIDE DEF c, m
    <2>3. Len(c.frames) <= Len(b.frames) + 1  BY <1>0, <2>1
    <2>. QED  BY <1>1, <1>2, <2>1, <2>2, <2>3 DEF c
  <1>. QED  BY <1>3, <1>4

LEMMA ReturnStepKeeps ==
  ASSUME NEW b, Sound(b), NEW n \in Nat, Len(b.frames) <= n + 1
  PROVE  LET c == ReturnStep(b)
         IN Carries(b, c) /\ c.log.acked = b.log.acked /\ Len(c.frames) <= n
PROOF
  <1>. DEFINE c == ReturnStep(b)
  <1>0. b.frames \in Seq(Lines)  BY DEF Sound, Wired, Boards
  <1>1. CASE b.frames = <<>>
    <2>1. c = b  BY <1>1 DEF ReturnStep
    <2>2. Len(b.frames) <= n  BY <1>1
    <2>. QED  BY <2>1, <2>2 DEF Carries, Orders
  <1>2. CASE b.frames # <<>>
    <2>1. /\ Carries(b, c) /\ c.log.acked = b.log.acked
          /\ c.frames = SubSeq(b.frames, 1, Len(b.frames) - 1)
      BY <1>2, ReturnStepHistory
    <2>. HIDE DEF c
    <2>2. Len(c.frames) <= n  BY <1>0, <1>2, <2>1
    <2>. QED  BY <2>1, <2>2 DEF c
  <1>. QED  BY <1>1, <1>2

LEMMA AckStepStaysSound ==
  ASSUME NEW b, Sound(b)
  PROVE  Sound(AckStep(b))
PROOF
  <1>1. Budget(b, 7 + 1)  BY PendingFinite DEF Budget, Sound, Wired, Boards
  <1>. QED  BY <1>1, AckStepSound

(* A chain ends with every frame returned.                                 *)
LEMMA CheckMasterHistory ==
  ASSUME NEW b, Sound(b), b.frames = <<>>
  PROVE  LET c == CheckMaster(b)
         IN /\ c.frames = <<>> /\ Carries(b, c)
            /\ SameModes(b.m, c.m)
            /\ Descends(b) => Descends(c)
PROOF
  <1>. DEFINE Rose(c, n) == /\ Sound(c) /\ SameCpu(b, c)
                            /\ c.frames \in Seq(Lines) /\ Len(c.frames) <= n
                            /\ SameModes(b.m, c.m)
                            /\ Descends(b) => Descends(c)
              a1 == AckStep(b)   a2 == AckStep(a1)  a3 == AckStep(a2)
              a4 == AckStep(a3)  a5 == AckStep(a4)  a6 == AckStep(a5)
              a7 == AckStep(a6)  a8 == AckStep(a7)
  <1>1. AckAll(b) = a8  BY DEF AckAll, AckTwice
  <1>2. Rose(b, 0)  BY DEF SameCpu, SameModes
  <1>3. ASSUME NEW c, NEW n \in Nat, Rose(c, n)  PROVE Rose(AckStep(c), n + 1)
    <2>. DEFINE d == AckStep(c)
    <2>1. Sound(d)  BY <1>3, AckStepStaysSound
    <2>2. /\ SameCpu(c, d)
          /\ d.frames \in Seq(Lines) /\ Len(d.frames) <= Len(c.frames) + 1
      BY <1>3, AckStepKeeps
    <2>3. SameModes(c.m, d.m)  BY <1>3, AckStepKeeps
    <2>4. Descends(c) => Descends(d)  BY <1>3, AckStepDescends
    <2>. HIDE DEF d
    <2>5. SameCpu(b, d)  BY <1>3, <2>2 DEF SameCpu
    <2>6. SameModes(b.m, d.m)  BY <1>3, <2>3 DEF SameModes
    <2>7. Len(d.frames) <= n + 1
      <3>1. Len(c.frames) \in Nat /\ Len(d.frames) \in Nat  BY <1>3, <2>2
      <3>. QED  BY <1>3, <2>2, <3>1
    <2>8. Rose(d, n + 1)  BY <1>3, <2>1, <2>2, <2>4, <2>5, <2>6, <2>7
    <2>. QED  BY <2>8 DEF d
  <1>. HIDE DEF Rose, a1, a2, a3, a4, a5, a6, a7, a8
  <1>4. Rose(a1, 0 + 1)  BY <1>2, <1>3 DEF a1
  <1>5. Rose(a2, 1 + 1)  BY <1>4, <1>3 DEF a2
  <1>6. Rose(a3, 2 + 1)  BY <1>5, <1>3 DEF a3
  <1>7. Rose(a4, 3 + 1)  BY <1>6, <1>3 DEF a4
  <1>8. Rose(a5, 4 + 1)  BY <1>7, <1>3 DEF a5
  <1>9. Rose(a6, 5 + 1)  BY <1>8, <1>3 DEF a6
  <1>10. Rose(a7, 6 + 1)  BY <1>9, <1>3 DEF a7
  <1>11. Rose(a8, 7 + 1)  BY <1>10, <1>3 DEF a8
  <1>. DEFINE Fell(c, n) == /\ Sound(c) /\ Carries(a8, c)
                            /\ c.m = a8.m /\ c.log.acked = a8.log.acked
                            /\ Len(c.frames) <= n
              r1 == ReturnStep(a8)  r2 == ReturnStep(r1)  r3 == ReturnStep(r2)
              r4 == ReturnStep(r3)  r5 == ReturnStep(r4)  r6 == ReturnStep(r5)
              r7 == ReturnStep(r6)  r8 == ReturnStep(r7)
  <1>12. ReturnAll(a8) = r8  BY DEF ReturnAll, ReturnTwice
  <1>13. Fell(a8, 7 + 1)  BY <1>11 DEF Rose, Carries, Orders
  <1>14. ASSUME NEW c, NEW n \in Nat, Fell(c, n + 1)  PROVE Fell(ReturnStep(c), n)
    <2>. DEFINE d == ReturnStep(c)
    <2>1. Sound(d) /\ d.m = c.m  BY <1>14, ReturnStepSound
    <2>2. Carries(c, d) /\ d.log.acked = c.log.acked /\ Len(d.frames) <= n
      BY <1>14, ReturnStepKeeps
    <2>. HIDE DEF d
    <2>3. Carries(a8, d)  BY <1>14, <2>2, CarriesTrans
    <2>4. Fell(d, n)  BY <1>14, <2>1, <2>2, <2>3
    <2>. QED  BY <2>4 DEF d
  <1>. HIDE DEF Fell, r1, r2, r3, r4, r5, r6, r7, r8
  <1>15. Fell(r1, 6 + 1)  BY <1>13, <1>14 DEF r1
  <1>16. Fell(r2, 5 + 1)  BY <1>15, <1>14 DEF r2
  <1>17. Fell(r3, 4 + 1)  BY <1>16, <1>14 DEF r3
  <1>18. Fell(r4, 3 + 1)  BY <1>17, <1>14 DEF r4
  <1>19. Fell(r5, 2 + 1)  BY <1>18, <1>14 DEF r5
  <1>20. Fell(r6, 1 + 1)  BY <1>19, <1>14 DEF r6
  <1>21. Fell(r7, 0 + 1)  BY <1>20, <1>14 DEF r7
  <1>22. Fell(r8, 0)  BY <1>21, <1>14 DEF r8
  <1>23. CheckMaster(b) = r8  BY <1>1, <1>12 DEF CheckMaster
  <1>24. r8.frames = <<>>
    <2>1. r8.frames \in Seq(Lines)  BY <1>22 DEF Fell, Sound, Wired, Boards
    <2>. QED  BY <1>22, <2>1 DEF Fell
  <1>25. Carries(b, r8)
    <2>1. Carries(b, a8)  BY <1>11, CarriesSame DEF Rose
    <2>. QED  BY <1>22, <2>1, CarriesTrans DEF Fell
  <1>26. SameModes(b.m, r8.m)
    BY <1>11, <1>22 DEF Rose, Fell
  <1>27. Descends(b) => Descends(r8)
    BY <1>11, <1>22 DEF Rose, Fell, Descends
  <1>. QED  BY <1>23, <1>24, <1>25, <1>26, <1>27

-----------------------------------------------------------------------------
(* Chains of at most one acknowledgement.                                  *)

SameRegs(p, q) == /\ Pending(q) = Pending(p) /\ q.isr = p.isr /\ q.imr = p.imr
                  /\ q.prio = p.prio /\ q.rot = p.rot /\ q.aeoi = p.aeoi

LEMMA SameRegsRank ==
  ASSUME NEW p, NEW q, SameRegs(p, q)
  PROVE  /\ \A k : Rank(q, k) = Rank(p, k)
         /\ IntRequested(q) = IntRequested(p)
PROOF
  <1>1. \A k : Rank(q, k) = Rank(p, k)  BY DEF SameRegs, Rank
  <1>2. InService(q) = InService(p) /\ Pending(q) = Pending(p)
    BY DEF SameRegs, InService
  <1>. QED  BY <1>1, <1>2 DEF IntRequested

\* Checks of a master with nothing to deliver.
LEMMA AckAllIdle ==
  ASSUME NEW b, Sound(b), ~IntRequested(b.m)
  PROVE  LET c == AckTwice(AckTwice(AckTwice(AckStep(b))))
         IN /\ SameRegs(b.m, c.m) /\ c.frames = b.frames /\ c.log = b.log
            /\ c.cpu = b.cpu
            /\ LET d == AckStep(c)
               IN /\ SameRegs(b.m, d.m) /\ d.frames = b.frames /\ d.log = b.log
                  /\ d.cpu = b.cpu
PROOF
  <1>. DEFINE Idle(c) == /\ Sound(c) /\ SameRegs(b.m, c.m) /\ c.frames = b.frames
                         /\ c.log = b.log /\ c.cpu = b.cpu
              a1 == AckStep(b)   a2 == AckStep(a1)  a3 == AckStep(a2)
              a4 == AckStep(a3)  a5 == AckStep(a4)  a6 == AckStep(a5)
              a7 == AckStep(a6)  a8 == AckStep(a7)
  <1>1. Idle(b)  BY DEF SameRegs
  <1>2. ASSUME NEW c, Idle(c)  PROVE Idle(AckStep(c))
    <2>. DEFINE d == AckStep(c)  m == [c.m EXCEPT !.int = FALSE]
    <2>1. ~IntRequested(c.m)  BY <1>2, SameRegsRank
    <2>2. /\ d.m = m /\ d.frames = c.frames /\ d.log = c.log /\ SameCpu(c, d)
      BY <1>2, <2>1, AckStepHistory
    <2>3. c.m \in Pics /\ Latched(c.m)  BY <1>2 DEF Sound, Wired, Boards
    <2>4. SameRegs(c.m, m)  BY <2>3, SetInt, SetIntFields DEF SameRegs
    <2>5. Sound(d)  BY <1>2, AckStepStaysSound
    <2>. HIDE DEF d, m
    <2>6. SameRegs(b.m, d.m)  BY <1>2, <2>2, <2>4 DEF SameRegs
    <2>7. Idle(d)  BY <1>2, <2>2, <2>5, <2>6 DEF SameCpu
    <2>. QED  BY <2>7 DEF d
  <1>. HIDE DEF Idle, a1, a2, a3, a4, a5, a6, a7, a8
  <1>3. Idle(a1)  BY <1>1, <1>2 DEF a1
  <1>4. Idle(a2)  BY <1>3, <1>2 DEF a2
  <1>5. Idle(a3)  BY <1>4, <1>2 DEF a3
  <1>6. Idle(a4)  BY <1>5, <1>2 DEF a4
  <1>7. Idle(a5)  BY <1>6, <1>2 DEF a5
  <1>8. Idle(a6)  BY <1>7, <1>2 DEF a6
  <1>9. Idle(a7)  BY <1>8, <1>2 DEF a7
  <1>10. Idle(a8)  BY <1>9, <1>2 DEF a8
  <1>11. AckTwice(AckTwice(AckTwice(AckStep(b)))) = a7
    BY DEF AckTwice, a1, a2, a3, a4, a5, a6, a7
  <1>. QED  BY <1>9, <1>10, <1>11 DEF Idle, a8

(* If acknowledging the highest request leaves nothing to deliver, the     *)
(* chain is one acknowledgement and one return: with IF set it drops       *)
(* nothing.                                                                *)
LEMMA CheckMasterOnce ==
  ASSUME NEW b, Sound(b), b.frames = <<>>,
         IntRequested(b.m) => ~IntRequested(Acknowledge(b.m))
  PROVE  LET c == CheckMaster(b)
             l == Highest(b.m, Pending(b.m))
         IN /\ IntRequested(b.m) =>
                 /\ SameRegs(Acknowledge(b.m), c.m)
                 /\ c.log.acked = Append(b.log.acked, l)
                 /\ b.cpu.if => c.log.dropped = b.log.dropped
            /\ ~IntRequested(b.m) =>
                 SameRegs(b.m, c.m) /\ c.log = b.log /\ c.cpu = b.cpu
PROOF
  <1>. DEFINE a == AckStep(b)
              e == AckAll(b)
              c == CheckMaster(b)
              l == Highest(b.m, Pending(b.m))
  <1>1. e = AckStep(AckTwice(AckTwice(AckTwice(AckStep(b)))))
    BY DEF AckAll, AckTwice
  <1>2. e = AckTwice(AckTwice(AckTwice(AckStep(a))))
    BY DEF AckAll, AckTwice
  <1>3. c = ReturnAll(e)  BY DEF CheckMaster
  <1>4. Sound(a)  BY AckStepStaysSound
  <1>5. Sound(e)  BY AckAllSound DEF Good
  <1>6. ASSUME NEW r, r.frames = <<>>  PROVE ReturnTwice(r) = r /\ ReturnStep(r) = r
    <2>1. ReturnStep(r) = r  BY <1>6 DEF ReturnStep
    <2>. QED  BY <2>1 DEF ReturnTwice
  <1>7. ReturnAll(e) = ReturnTwice(ReturnTwice(ReturnTwice(ReturnStep(ReturnStep(e)))))
    BY DEF ReturnAll, ReturnTwice
  <1>8. CASE ~IntRequested(b.m)
    <2>1. SameRegs(b.m, e.m) /\ e.frames = b.frames /\ e.log = b.log /\ e.cpu = b.cpu
      BY <1>1, <1>8, AckAllIdle
    <2>. HIDE DEF e
    <2>2. ReturnStep(e) = e /\ ReturnTwice(e) = e  BY <1>6, <2>1
    <2>3. c = e  BY <1>3, <1>7, <2>2
    <2>. HIDE DEF c
    <2>. QED  BY <1>8, <2>1, <2>3 DEF c
  <1>9. CASE IntRequested(b.m)
    <2>1. /\ a.m = Acknowledge(b.m) /\ a.frames = Append(b.frames, l)
          /\ a.log.acked = Append(b.log.acked, l) /\ SameCpu(b, a) /\ l \in Lines
      BY <1>9, AckStepHistory
    <2>2. ~IntRequested(a.m)  BY <1>9, <2>1
    <2>3. SameRegs(a.m, e.m) /\ e.frames = a.frames /\ e.log = a.log /\ e.cpu = a.cpu
      BY <1>2, <1>4, <2>2, AckAllIdle
    <2>. HIDE DEF a, e, l
    <2>4. e.frames \in Seq(Lines) /\ Len(e.frames) = 1 /\ e.frames # <<>>
      BY <2>1, <2>3
    <2>. DEFINE r == ReturnStep(e)
    <2>5. /\ r.log.acked = e.log.acked
          /\ r.frames = SubSeq(e.frames, 1, Len(e.frames) - 1)
          /\ e.cpu.if => r.log.dropped = e.log.dropped
      BY <1>5, <2>4, ReturnStepHistory
    <2>6. r.m = e.m  BY <1>5, ReturnStepSound
    <2>7. r.frames = <<>>  BY <2>4, <2>5
    <2>8. ReturnStep(r) = r /\ ReturnTwice(r) = r  BY <1>6, <2>7
    <2>9. c = r  BY <1>3, <1>7, <2>8
    <2>. HIDE DEF c, r
    <2>10. /\ SameRegs(Acknowledge(b.m), c.m)
           /\ c.log.acked = Append(b.log.acked, l)
           /\ b.cpu.if => c.log.dropped = b.log.dropped
      BY <2>1, <2>3, <2>5, <2>6, <2>9 DEF SameCpu
    <2>. QED  BY <1>9, <2>10 DEF c, l
  <1>. QED  BY <1>8, <1>9

-----------------------------------------------------------------------------
(* What a call from the emulator loop or from a port write may do to the   *)
(* history, wherever in a step it comes (Follows), and if it is the first  *)
(* of the step to reach the controllers (OneChain).                        *)

\* Lines that entered service since the lines in I were in service outrank
\* those of them that still are.
NestsIn(b, I) ==
  \A l \in b.m.isr \ I : \A s \in (I \cap b.m.isr) \ b.m.imr :
    Rank(b.m, l) < Rank(b.m, s)

Follows(b, c) == /\ c.frames = <<>>
                 /\ Carries(b, c)

OneChain(b, c) == /\ NestsIn(c, b.m.isr)
                  /\ Descends(c)
                  /\ b.cpu.if /\ ~b.m.aeoi /\ ~c.m.aeoi => c.log.dropped = <<>>

Fresh(b) == b.log.acked = <<>> /\ b.log.dropped = <<>>

Story(b, c) == Follows(b, c) /\ (Fresh(b) => OneChain(b, c))

\* Nothing was acknowledged, nothing changed for the 8088.
LEMMA StillStory ==
  ASSUME NEW b, NEW c, c.frames = <<>>, c.cpu = b.cpu, c.log = b.log,
         c.m.isr = b.m.isr
  PROVE  Story(b, c)
PROOF
  <1>1. Carries(b, c)  BY CarriesSame DEF SameCpu
  <1>3. Fresh(b) => Descends(c)
    <2>. SUFFICES ASSUME Fresh(b) PROVE Descends(c)  OBVIOUS
    <2>1. DOMAIN c.log.acked = {}  BY DEF Fresh
    <2>. QED  BY <2>1 DEF Descends
  <1>4. NestsIn(c, b.m.isr)  BY DEF NestsIn
  <1>. QED  BY <1>1, <1>3, <1>4 DEF Story, Follows, OneChain, Fresh

\* Only what the chain reads matters of the board it started from.
LEMMA StoryFrom ==
  ASSUME NEW b, NEW d, NEW c, Story(d, c), d.cpu = b.cpu, d.log = b.log,
         d.m.isr = b.m.isr, d.m.aeoi = b.m.aeoi
  PROVE  Story(b, c)
PROOF
  <1>1. Carries(b, d)  BY CarriesSame DEF SameCpu
  <1>2. Follows(b, c)  BY <1>1, CarriesTrans DEF Story, Follows
  <1>. QED  BY <1>2 DEF Story, OneChain, Fresh

\* A change elsewhere on the board after the chain.
LEMMA StoryTo ==
  ASSUME NEW b, NEW c, NEW d, Story(b, c), d.cpu = c.cpu, d.log = c.log,
         d.m = c.m, d.s = c.s, d.frames = c.frames
  PROVE  Story(b, d)
PROOF
  <1>1. Carries(c, d)  BY CarriesSame DEF SameCpu
  <1>2. Follows(b, d)  BY <1>1, CarriesTrans DEF Story, Follows
  <1>3. OneChain(b, c) => OneChain(b, d)  BY DEF OneChain, NestsIn, Descends
  <1>. QED  BY <1>2, <1>3 DEF Story

LEMMA ChainStory ==
  ASSUME NEW b, NEW d, Sound(d), d.frames = <<>>, d.cpu = b.cpu, d.log = b.log,
         d.m.isr \subseteq b.m.isr
  PROVE  Story(b, CheckMaster(d))
PROOF
  <1>. DEFINE c == CheckMaster(d)  p == d.m  l == Highest(p, Pending(p))
  <1>0. p \in Pics /\ Latched(p) /\ p.isr \in SUBSET Lines
    BY DEF Sound, Wired, Boards, Pics
  <1>1. /\ c.frames = <<>> /\ Carries(d, c) /\ SameModes(p, c.m)
        /\ Descends(d) => Descends(c)
    BY CheckMasterHistory
  <1>2. Follows(b, c)
    <2>1. Carries(b, d)  BY CarriesSame DEF SameCpu
    <2>2. Carries(b, c)  BY <1>1, <2>1, CarriesTrans
    <2>. QED  BY <1>1, <2>2 DEF Follows
  <1>3. ~p.aeoi =>
          /\ IntRequested(p) =>
               /\ SameRegs(Acknowledge(p), c.m)
               /\ d.cpu.if => c.log.dropped = d.log.dropped
          /\ ~IntRequested(p) => SameRegs(p, c.m) /\ c.log = d.log
    BY <1>0, OneAcknowledge, CheckMasterOnce
  <1>. HIDE DEF c
  <1>4. Fresh(b) => Descends(c)
    <2>. SUFFICES ASSUME Fresh(b) PROVE Descends(c)  OBVIOUS
    <2>1. DOMAIN d.log.acked = {}  BY DEF Fresh
    <2>. QED  BY <1>1, <2>1 DEF Descends
  <1>5. NestsIn(c, b.m.isr)
    <2>1. CASE p.aeoi \/ ~IntRequested(p)
      <3>1. c.m.isr = p.isr  BY <1>1, <1>3, <2>1 DEF SameModes, SameRegs
      <3>. QED  BY <3>1 DEF NestsIn
    <2>2. CASE ~p.aeoi /\ IntRequested(p)
      <3>1. Pending(p) # {} /\ Pending(p) \in SUBSET Lines
        BY <1>0, <2>2, PendingLines DEF IntRequested
      <3>2. l \in Lines /\ \A k \in Pending(p) : Rank(p, l) <= Rank(p, k)
        BY <1>0, <3>1, HighestMember
      <3>3. /\ c.m.isr = p.isr \cup {l} /\ c.m.imr = p.imr /\ c.m.prio = p.prio
        BY <1>0, <1>3, <2>2, <3>1, AcknowledgeFields DEF SameRegs
      <3>. HIDE DEF l, p
      <3>4. ASSUME NEW s \in InService(p)  PROVE Rank(p, l) < Rank(p, s)
        <4>1. PICK x \in Pending(p) : \A t \in InService(p) : Rank(p, x) < Rank(p, t)
          BY <2>2 DEF IntRequested
        <4>2. Rank(p, x) < Rank(p, s) /\ Rank(p, l) <= Rank(p, x)
          BY <3>2, <3>4, <4>1
        <4>3. Rank(p, x) \in 0..7 /\ Rank(p, l) \in 0..7 /\ Rank(p, s) \in 0..7
          <5>1. s \in Lines /\ x \in Lines  BY <1>0, <3>1, <3>4 DEF InService
          <5>. QED  BY <1>0, <3>2, <5>1, RankType
        <4>. QED  BY <4>2, <4>3
      <3>5. ASSUME NEW x \in c.m.isr \ b.m.isr,
                   NEW s \in (b.m.isr \cap c.m.isr) \ c.m.imr
            PROVE  Rank(c.m, x) < Rank(c.m, s)
        <4>1. x = l /\ s # l  BY <3>3, <3>5 DEF p
        <4>2. s \in InService(p)  BY <3>3, <3>5, <4>1 DEF InService
        <4>3. \A k : Rank(c.m, k) = Rank(p, k)  BY <3>3 DEF Rank
        <4>. QED  BY <3>4, <4>1, <4>2, <4>3
      <3>. QED  BY <3>5 DEF NestsIn
    <2>. QED  BY <2>1, <2>2
  <1>6. Fresh(b) /\ b.cpu.if /\ ~c.m.aeoi => c.log.dropped = <<>>
    BY <1>1, <1>3 DEF Fresh, SameModes
  <1>. QED  BY <1>2, <1>4, <1>5, <1>6 DEF Story, OneChain, c

-----------------------------------------------------------------------------
(* The lines of the master.                                                *)

LEMMA MasterBoard ==
  ASSUME NEW b, Good(b), NEW m, NEW c, c = [b EXCEPT !.m = m]
  PROVE  c.frames = b.frames /\ c.cpu = b.cpu /\ c.log = b.log /\ c.m = m /\ c.s = b.s
PROOF
  <1>1. b \in Boards  BY DEF Good, Sound, Wired
  <1>. QED  BY <1>1 DEF Boards

LEMMA RaiseMasterStory ==
  ASSUME NEW b, Good(b), b.frames = <<>>, NEW l \in Lines
  PROVE  Story(b, RaiseMaster(b, l))
PROOF
  <1>. DEFINE m == Raise(b.m, l)
              d == [b EXCEPT !.m = m]
              c == CheckMaster(d)
  <1>0. b.m \in Pics /\ Latched(b.m) /\ ~IntRequested(b.m) /\ Sound(b)
    BY BoardPics DEF Good, Sound, Settled
  <1>1. CASE l \in b.m.inp
    <2>1. RaiseMaster(b, l) = b  BY <1>1 DEF RaiseMaster
    <2>. QED  BY <2>1, StillStory
  <1>2. CASE l \notin b.m.inp
    <2>1. RaiseMaster(b, l) = c  BY <1>2 DEF RaiseMaster
    <2>2. m \in Pics /\ Latched(m) /\ m.inp = b.m.inp \cup {l} /\ m.isr = b.m.isr
      <3>1. m.isr = b.m.isr  BY <1>0 DEF Raise, Pics
      <3>. QED  BY <1>0, <3>1, RaisePic
    <2>. HIDE DEF m
    <2>3. Sound(d) /\ d.m = m  BY <1>0, <2>2, MasterSound
    <2>4. d.frames = <<>> /\ d.cpu = b.cpu /\ d.log = b.log  BY MasterBoard
    <2>. HIDE DEF d
    <2>5. Story(b, c)  BY <2>2, <2>3, <2>4, ChainStory
    <2>. QED  BY <2>1, <2>5
  <1>. QED  BY <1>1, <1>2

(* A line that falls takes its request away and delivers nothing.          *)
LEMMA LowerMasterStory ==
  ASSUME NEW b, Good(b), b.frames = <<>>, NEW l \in Lines, l # CascadeLine
  PROVE  LET c == LowerMaster(b, l)
         IN /\ Story(b, c) /\ c.log = b.log /\ c.cpu = b.cpu
            /\ Pending(c.m) \subseteq Pending(b.m) /\ c.m.isr = b.m.isr
            /\ c.m.imr = b.m.imr /\ c.m.prio = b.m.prio /\ c.m.rot = b.m.rot
            /\ c.m.aeoi = b.m.aeoi
PROOF
  <1>. DEFINE m == Lower(b.m, l)
              d == [b EXCEPT !.m = m]
              c == CheckMaster(d)
  <1>0. b.m \in Pics /\ Latched(b.m) /\ ~IntRequested(b.m) /\ Sound(b)
    BY BoardPics DEF Good, Sound, Settled
  <1>1. CASE l \notin b.m.inp
    <2>1. LowerMaster(b, l) = b  BY <1>1 DEF LowerMaster
    <2>. QED  BY <2>1, StillStory
  <1>2. CASE l \in b.m.inp
    <2>1. LowerMaster(b, l) = c  BY <1>2 DEF LowerMaster
    <2>2. m \in Pics /\ Latched(m) /\ m.inp = b.m.inp \ {l}  BY <1>0, LowerPic
    <2>3. /\ Pending(m) \subseteq Pending(b.m) /\ InService(m) = InService(b.m)
          /\ m.isr = b.m.isr /\ m.imr = b.m.imr /\ m.prio = b.m.prio
          /\ m.rot = b.m.rot /\ m.aeoi = b.m.aeoi
      BY <1>0 DEF Lower, Pics, Pending, InService
    <2>. HIDE DEF m
    <2>4. ~IntRequested(m)
      <3>1. \A k : Rank(m, k) = Rank(b.m, k)  BY <2>3 DEF Rank
      <3>. QED  BY <1>0, <2>3, <3>1 DEF IntRequested
    <2>5. Sound(d) /\ d.m = m  BY <1>0, <2>2, MasterSound
    <2>6. d.frames = <<>> /\ d.cpu = b.cpu /\ d.log = b.log  BY MasterBoard
    <2>. HIDE DEF d
    <2>7. SameRegs(m, c.m) /\ c.log = d.log /\ c.cpu = d.cpu
      BY <2>4, <2>5, <2>6, CheckMasterOnce
    <2>8. c.frames = <<>>  BY <2>5, <2>6, CheckMasterHistory
    <2>. HIDE DEF c
    <2>9. c.m.isr = b.m.isr  BY <2>3, <2>7 DEF SameRegs
    <2>10. Story(b, c)  BY <2>6, <2>7, <2>8, <2>9, StillStory
    <2>. QED  BY <2>1, <2>3, <2>6, <2>7, <2>10 DEF SameRegs
  <1>. QED  BY <1>1, <1>2

-----------------------------------------------------------------------------
(* The secondary and the port writes.                                      *)

\* A rising INT of the secondary starts a chain of the master.
LEMMA CheckSecondaryStory ==
  ASSUME NEW b, Wired(b), Settled(b.m), b.frames = <<>>
  PROVE  Story(b, CheckSecondary(b))
PROOF
  <1>. DEFINE v == IntRequested(b.s)
              s == [b.s EXCEPT !.int = v]
              c == [b EXCEPT !.s = s]
              m == Raise(b.m, CascadeLine)
              d == [c EXCEPT !.m = m]
  <1>0. b \in Boards /\ b.m \in Pics /\ b.s \in Pics /\ Latched(b.m) /\ Latched(b.s)
    BY BoardPics
  <1>1. v \in BOOLEAN /\ v = IntRequested(b.s)  BY DEF IntRequested
  <1>2. s \in Pics /\ Latched(s) /\ s.int = v /\ IntRequested(s) = v
    <2>. HIDE DEF v
    <2>. QED  BY <1>0, <1>1, SetInt
  <1>3. c = [b EXCEPT !.s.int = IntRequested(b.s)]  BY <1>0 DEF Boards
  <1>4. CascadeLine \in Lines  BY DEF CascadeLine, Lines
  <1>5. CheckSecondary(b) = IF v /\ ~b.s.int
                              THEN IF CascadeLine \in c.m.inp THEN c
                                   ELSE CheckMaster([c EXCEPT !.m = Raise(c.m, CascadeLine)])
                              ELSE c
    BY <1>3 DEF CheckSecondary, RaiseMaster
  <1>. HIDE DEF v, s
  <1>6. /\ c \in Boards /\ c.m = b.m /\ c.s = s /\ c.frames = b.frames /\ c.cpu = b.cpu
        /\ c.log = b.log
    BY <1>0, <1>2 DEF Boards
  <1>. HIDE DEF c
  <1>7. Story(b, c)  BY <1>6, StillStory
  <1>8. CASE v /\ ~b.s.int /\ CascadeLine \notin b.m.inp
    <2>1. m \in Pics /\ Latched(m) /\ m.inp = b.m.inp \cup {CascadeLine} /\ m.isr = b.m.isr
      <3>1. m.isr = b.m.isr  BY <1>0 DEF Raise, Pics
      <3>. QED  BY <1>0, <1>4, <3>1, RaisePic
    <2>2. CheckSecondary(b) = CheckMaster(d)  BY <1>5, <1>6, <1>8
    <2>. HIDE DEF m
    <2>3. /\ d \in Boards /\ d.m = m /\ d.s = s /\ d.frames = b.frames /\ d.cpu = b.cpu
          /\ d.log = b.log
      BY <1>6, <2>1 DEF Boards
    <2>. HIDE DEF d
    <2>4. Wired(d)  BY <1>2, <2>1, <2>3 DEF Wired, FramesLatched
    <2>5. Sound(d)  BY <1>2, <2>3, <2>4 DEF Sound
    <2>. QED  BY <2>1, <2>2, <2>3, <2>5, ChainStory
  <1>9. CASE ~(v /\ ~b.s.int /\ CascadeLine \notin b.m.inp)
    <2>1. CheckSecondary(b) = c  BY <1>5, <1>6, <1>9
    <2>. QED  BY <1>7, <2>1
  <1>. QED  BY <1>8, <1>9

LEMMA SecondaryChangedStory ==
  ASSUME NEW b, Good(b), b.frames = <<>>, NEW s \in Pics, Latched(s),
         s.int = b.s.int, NEW c, c = [b EXCEPT !.s = s]
  PROVE  Story(b, CheckSecondary(c))
PROOF
  <1>1. s.int => CascadeLine \in b.m.inp  BY DEF Good, Sound, Wired
  <1>2. Wired(c) /\ c.m = b.m  BY <1>1, SecondaryWired DEF Good, Sound
  <1>3. b \in Boards  BY DEF Good, Sound, Wired
  <1>4. c.frames = <<>> /\ c.cpu = b.cpu /\ c.log = b.log  BY <1>3 DEF Boards
  <1>5. Story(c, CheckSecondary(c))
    BY <1>2, <1>4, CheckSecondaryStory DEF Good
  <1>. DEFINE e == CheckSecondary(c)
  <1>. HIDE DEF e
  <1>6. Story(c, e) => Story(b, e)  BY <1>2, <1>4, StoryFrom
  <1>. QED  BY <1>5, <1>6 DEF e

LEMMA LineSecondaryStory ==
  ASSUME NEW b, Good(b), b.frames = <<>>, NEW l \in Lines
  PROVE  Story(b, RaiseSecondary(b, l)) /\ Story(b, LowerSecondary(b, l))
PROOF
  <1>0. b.s \in Pics /\ Latched(b.s)  BY BoardPics DEF Good, Sound
  <1>1. Story(b, b)  BY StillStory
  <1>2. Story(b, CheckSecondary([b EXCEPT !.s = Raise(b.s, l)]))
    BY <1>0, RaisePic, SecondaryChangedStory
  <1>3. Story(b, CheckSecondary([b EXCEPT !.s = Lower(b.s, l)]))
    BY <1>0, LowerPic, SecondaryChangedStory
  <1>. QED  BY <1>1, <1>2, <1>3 DEF RaiseSecondary, LowerSecondary

LEMMA WriteStory ==
  ASSUME NEW b, Good(b), b.frames = <<>>, NEW a \in {0, 1}, NEW d \in Byte
  PROVE  Story(b, WriteMaster(b, a, d)) /\ Story(b, WriteSecondary(b, a, d))
PROOF
  <1>0. b.m \in Pics /\ Latched(b.m) /\ b.s \in Pics /\ Latched(b.s)
    BY BoardPics DEF Good, Sound
  <1>1. Story(b, WriteMaster(b, a, d))
    <2>. DEFINE m == WriteReg(b.m, a, d)  c == [b EXCEPT !.m = m]
    <2>1. /\ m \in Pics /\ Latched(m) /\ m.inp = b.m.inp
          /\ m.isr \subseteq b.m.isr
      BY <1>0, WriteRegPic
    <2>2. WriteMaster(b, a, d) = CheckMaster(c)  BY DEF WriteMaster
    <2>. HIDE DEF m
    <2>3. Sound(c) /\ c.m = m  BY <2>1, MasterSound DEF Good
    <2>4. c.frames = <<>> /\ c.cpu = b.cpu /\ c.log = b.log  BY MasterBoard
    <2>. HIDE DEF c
    <2>. QED  BY <2>1, <2>2, <2>3, <2>4, ChainStory
  <1>2. Story(b, WriteSecondary(b, a, d))
    <2>1. Story(b, CheckSecondary([b EXCEPT !.s = WriteReg(b.s, a, d)]))
      BY <1>0, WriteRegPic, SecondaryChangedStory
    <2>. QED  BY <2>1 DEF WriteSecondary
  <1>. QED  BY <1>1, <1>2

\* The latches of the board are no part of a chain.
SameChain(b, c) == /\ c.m = b.m /\ c.s = b.s /\ c.frames = b.frames
                   /\ c.cpu = b.cpu /\ c.log = b.log

LEMMA ElsewhereSame ==
  ASSUME NEW b, Good(b), NEW x, NEW k
  PROVE  /\ SameChain(b, [b EXCEPT !.active = x])
         /\ SameChain(b, [b EXCEPT !.request = k])
         /\ SameChain(b, [b EXCEPT !.parity.zero = k])
         /\ SameChain(b, [b EXCEPT !.parity.kill = k])
PROOF
  <1>1. b \in Boards  BY DEF Good, Sound, Wired
  <1>. QED  BY <1>1 DEF Boards, SameChain

LEMMA SameChainStory ==
  ASSUME NEW b, NEW c, NEW d, b.frames = <<>>
  PROVE  /\ SameChain(b, c) => Story(b, c)
         /\ SameChain(b, c) /\ Story(c, d) => Story(b, d)
         /\ Story(b, c) /\ SameChain(c, d) => Story(b, d)
PROOF
  <1>1. SameChain(b, c) => Story(b, c)  BY StillStory DEF SameChain
  <1>2. SameChain(b, c) /\ Story(c, d) => Story(b, d)
    BY StoryFrom DEF SameChain
  <1>3. Story(b, c) /\ SameChain(c, d) => Story(b, d)
    BY StoryTo DEF SameChain
  <1>. QED  BY <1>1, <1>2, <1>3

LEMMA SwapPortStory ==
  ASSUME NEW b, Good(b), b.frames = <<>>, NEW d \in Byte
  PROVE  Story(b, SwapPort(b, d))
PROOF
  <1>. DEFINE c == [b EXCEPT !.active = IF 7 \in Bits(d) THEN "8088" ELSE "8085"]
              r == IF 1 \in Bits(d) THEN RaiseMaster(c, SwapLine) ELSE c
              e == [r EXCEPT !.active = "8088"]
  <1>1. Good(c) /\ SameChain(b, c)  BY ElsewhereGood, ElsewhereSame
  <1>2. SwapLine \in Lines  BY DEF SwapLine, Lines
  <1>3. SwapPort(b, d) = IF 0 \in Bits(d) THEN e ELSE r  BY DEF SwapPort
  <1>. HIDE DEF c
  <1>4. c.frames = <<>>  BY <1>1 DEF SameChain
  <1>5. Story(c, c) /\ Story(c, RaiseMaster(c, SwapLine))
    BY <1>1, <1>2, <1>4, StillStory, RaiseMasterStory
  <1>6. Good(r) /\ Story(c, r)  BY <1>1, <1>2, <1>5, RaiseMasterGood
  <1>. HIDE DEF r
  <1>7. SameChain(r, e)  BY <1>6, ElsewhereSame
  <1>. HIDE DEF e
  <1>8. Story(b, r)  BY <1>1, <1>6, SameChainStory
  <1>9. Story(b, e)  BY <1>7, <1>8, SameChainStory
  <1>. QED  BY <1>3, <1>8, <1>9

LEMMA MemoryLatchStory ==
  ASSUME NEW b, Good(b), b.frames = <<>>, NEW d \in Byte
  PROVE  Story(b, MemoryLatch(b, d))
PROOF
  <1>. DEFINE z == 4 \notin Bits(d)
              tokill == 5 \notin Bits(d)
              c == [b EXCEPT !.parity.zero = z]
              r == IF ~tokill /\ b.parity.kill THEN LowerMaster(c, ParityLine) ELSE c
              e == [r EXCEPT !.parity.kill = tokill]
  <1>1. z \in BOOLEAN /\ tokill \in BOOLEAN  OBVIOUS
  <1>2. MemoryLatch(b, d) = e  BY DEF MemoryLatch
  <1>. HIDE DEF z, tokill
  <1>3. Good(c) /\ SameChain(b, c)  BY <1>1, ElsewhereGood, ElsewhereSame
  <1>4. ParityLine \in Lines /\ ParityLine # CascadeLine
    BY DEF ParityLine, CascadeLine, Lines
  <1>. HIDE DEF c
  <1>5. c.frames = <<>>  BY <1>3 DEF SameChain
  <1>6. Good(r) /\ Story(c, r)
    BY <1>3, <1>4, <1>5, LowerMasterGood, LowerMasterStory, StillStory
  <1>. HIDE DEF r
  <1>7. SameChain(r, e)  BY <1>6, ElsewhereSame
  <1>. HIDE DEF e
  <1>8. Story(b, r)  BY <1>3, <1>6, SameChainStory
  <1>. QED  BY <1>2, <1>7, <1>8, SameChainStory

LEMMA PortWriteStory ==
  ASSUME NEW b, Good(b), b.frames = <<>>, NEW port \in Ports, NEW d \in Byte
  PROVE  Story(b, PortWrite(b, port, d))
PROOF
  <1>1. CASE port = "F0"  BY <1>1, WriteStory DEF PortWrite
  <1>2. CASE port = "F1"  BY <1>2, WriteStory DEF PortWrite
  <1>3. CASE port = "F2"  BY <1>3, WriteStory DEF PortWrite
  <1>4. CASE port = "F3"  BY <1>4, WriteStory DEF PortWrite
  <1>5. CASE port = "F5"
    <2>1. SameChain(b, [b EXCEPT !.request = FALSE])  BY ElsewhereSame
    <2>2. PortWrite(b, port, d) = IF d = 0 THEN [b EXCEPT !.request = FALSE] ELSE b
      BY <1>5 DEF PortWrite
    <2>3. Story(b, b)  BY StillStory
    <2>. QED  BY <2>1, <2>2, <2>3, SameChainStory
  <1>6. CASE port = "FC"  BY <1>6, MemoryLatchStory DEF PortWrite
  <1>7. CASE port = "FE"  BY <1>7, SwapPortStory DEF PortWrite
  <1>. QED  BY <1>1, <1>2, <1>3, <1>4, <1>5, <1>6, <1>7 DEF Ports

-----------------------------------------------------------------------------
(* The history of a whole step.                                            *)

\* What the step may tell of itself once its last call has returned.
Told(b) ==
  /\ InOrder(b, cpu.queue)
  /\ cpu.enabled => Within(b, Len(cpu.queue))
  /\ ~ParityArmed =>
       /\ NestsIn(b, master.isr)
       /\ Descends(b)
       /\ cpu.if /\ ~master.aeoi /\ ~b.m.aeoi => b.log.dropped = <<>>

\* A board in the middle of a step, whose next call may start a chain.
Begun(b) ==
  /\ Good(b) /\ b.frames = <<>>
  /\ InOrder(b, cpu.queue)
  /\ cpu.enabled => Room(b, Len(cpu.queue))
  /\ ~ParityArmed => Fresh(b) /\ b.m = master /\ b.cpu.if = cpu.if

LEMMA BoardBegun ==
  ASSUME IInv
  PROVE  Begun(Board) /\ (~cpu.enabled => Quiet(Board))
PROOF
  <1>1. Good(Board)  BY BoardGood
  <1>2. /\ Board.frames = <<>> /\ Board.m = master /\ Board.cpu = cpu
        /\ Board.log = NoLog
    BY DEF Board
  <1>3. /\ NoLog.acked = <<>> /\ NoLog.dropped = <<>> /\ NoLog.taken = <<>>
        /\ NoLog.accepted = <<>> /\ ~NoLog.wrapped
    BY DEF NoLog
  <1>4. InOrder(Board, cpu.queue)
    <2>1. cpu.queue \in Seq(Byte)  BY DEF IInv, TypeOK
    <2>2. <<>> \o cpu.queue = cpu.queue \o <<>>  BY <2>1
    <2>. QED  BY <1>2, <1>3, <2>2 DEF InOrder
  <1>5. cpu.enabled => Room(Board, Len(cpu.queue))
    <2>1. Len(cpu.queue) <= Len(cpu.queue)  BY DEF IInv, TypeOK
    <2>. QED  BY <1>2, <1>3, <2>1 DEF Room, Within
  <1>. QED  BY <1>1, <1>2, <1>3, <1>4, <1>5 DEF Begun, Fresh, Quiet

\* The chain that a call of the step runs.
LEMMA StoryTold ==
  ASSUME IInv, NEW b, Begun(b), NEW c, Story(b, c)
  PROVE  /\ Told(c) /\ (Quiet(b) => Quiet(c))
         /\ cpu.enabled => Room(c, Len(cpu.queue))
PROOF
  <1>1. cpu.queue \in Seq(Byte) /\ Len(cpu.queue) \in Nat  BY DEF IInv, TypeOK
  <1>2. InOrder(c, cpu.queue) /\ (Quiet(b) => Quiet(c))
    BY <1>1 DEF Begun, Story, Follows, Carries, Orders
  <1>3. cpu.enabled => Room(c, Len(cpu.queue))
    BY <1>1 DEF Begun, Story, Follows, Carries
  <1>4. ~ParityArmed => OneChain(b, c) /\ b.m = master /\ b.cpu.if = cpu.if
    BY DEF Begun, Story
  <1>. QED  BY <1>2, <1>3, <1>4 DEF Told, OneChain, Room

LEMMA BegunTold ==
  ASSUME IInv, NEW b, Begun(b)
  PROVE  Told(b)
PROOF
  <1>1. Story(b, b)  BY StillStory DEF Begun
  <1>. QED  BY <1>1, StoryTold

\* A read with odd parity before anything else reaches the controllers.
LEMMA ReadOddBegun ==
  ASSUME IInv, NEW b, Begun(b), NEW odd \in BOOLEAN, odd => ParityArmed
  PROVE  Begun(ReadOdd(b, odd)) /\ (Quiet(b) => Quiet(ReadOdd(b, odd)))
PROOF
  <1>1. CASE ~odd  BY <1>1 DEF ReadOdd
  <1>2. CASE odd
    <2>. DEFINE c == RaiseMaster(b, ParityLine)
    <2>1. ParityLine \in Lines  BY DEF ParityLine, Lines
    <2>2. Good(b) /\ b.frames = <<>>  BY DEF Begun
    <2>3. Good(c) /\ Story(b, c)
      BY <2>1, <2>2, RaiseMasterGood, RaiseMasterStory
    <2>. HIDE DEF c
    <2>4. /\ InOrder(c, cpu.queue) /\ c.frames = <<>> /\ (Quiet(b) => Quiet(c))
          /\ cpu.enabled => Room(c, Len(cpu.queue))
      <3>1. /\ InOrder(c, cpu.queue) /\ (Quiet(b) => Quiet(c))
            /\ cpu.enabled => Room(c, Len(cpu.queue))
        BY <2>3, StoryTold DEF Told
      <3>. QED  BY <2>3, <3>1 DEF Story, Follows
    <2>5. Begun(c)  BY <1>2, <2>3, <2>4 DEF Begun
    <2>6. ReadOdd(b, odd) = c  BY <1>2 DEF ReadOdd, c
    <2>. QED  BY <2>4, <2>5, <2>6
  <1>. QED  BY <1>1, <1>2

\* The flags of the 8088 are no part of the history.
SameButFlags(b, c) == /\ c.m = b.m /\ c.s = b.s /\ c.frames = b.frames
                      /\ c.log = b.log /\ c.cpu.queue = b.cpu.queue

LEMMA CpuFields ==
  ASSUME NEW b, Good(b), NEW i \in BOOLEAN, NEW e \in BOOLEAN
  PROVE  /\ SameButFlags(b, [b EXCEPT !.cpu.if = i])
         /\ SameButFlags(b, [b EXCEPT !.cpu.enabled = e])
         /\ SameButFlags(b, [b EXCEPT !.cpu.if = i, !.cpu.enabled = e])
         /\ [b EXCEPT !.cpu.enabled = e].cpu.if = b.cpu.if
PROOF
  <1>0. b \in Boards /\ b.cpu \in Cpus  BY DEF Good, Sound, Wired, Boards
  <1>. QED  BY <1>0 DEF Boards, Cpus, SameButFlags

LEMMA ToldCpu ==
  ASSUME NEW b, Good(b), Told(b), NEW i \in BOOLEAN, NEW e \in BOOLEAN
  PROVE  /\ Told([b EXCEPT !.cpu.if = i])
         /\ Told([b EXCEPT !.cpu.enabled = e])
         /\ Told([b EXCEPT !.cpu.if = i, !.cpu.enabled = e])
PROOF
  <1>1. ASSUME NEW c, SameButFlags(b, c)  PROVE Told(c)
    BY <1>1 DEF SameButFlags, Told, InOrder, Within, NestsIn, Descends
  <1>. QED  BY <1>1, CpuFields

LEMMA FetchBegun ==
  ASSUME IInv
  PROVE  /\ \A odd \in OddReads : Begun(Fetch8088(odd))
         /\ \A odd \in {FALSE, ParityArmed} : Begun(Fetch8085(odd))
PROOF
  <1>1. Begun(Board)  BY BoardBegun
  <1>2. ASSUME NEW odd \in OddReads  PROVE Begun(Fetch8088(odd))
    <2>. DEFINE b == ReadOdd(Board, odd = "early")
                c == [b EXCEPT !.cpu.enabled = TRUE]
    <2>1. odd = "early" \/ odd = "late" => ParityArmed  BY DEF OddReads
    <2>2. Begun(b)
      <3>1. (odd = "early") \in BOOLEAN  OBVIOUS
      <3>. QED  BY <1>1, <2>1, <3>1, ReadOddBegun
    <2>3. Fetch8088(odd) = ReadOdd(c, odd = "late")  BY DEF Fetch8088
    <2>. HIDE DEF b
    <2>4. Good(b)  BY <2>2 DEF Begun
    <2>5. /\ Good(c) /\ c.m = b.m /\ c.frames = b.frames /\ c.log = b.log
          /\ c.cpu.queue = b.cpu.queue /\ c.cpu.if = b.cpu.if
      BY <2>4, CpuGood, CpuFields DEF SameButFlags
    <2>6. c.cpu.enabled  BY <2>4 DEF c, Good, Sound, Wired, Boards, Cpus
    <2>. HIDE DEF c
    <2>7. Begun(c)  BY <2>2, <2>5, <2>6 DEF Begun, InOrder, Room, Within, Fresh
    <2>8. (odd = "late") \in BOOLEAN  OBVIOUS
    <2>. QED  BY <2>1, <2>3, <2>7, <2>8, ReadOddBegun
  <1>3. ASSUME NEW odd \in {FALSE, ParityArmed}  PROVE Begun(Fetch8085(odd))
    <2>1. odd \in BOOLEAN /\ (odd => ParityArmed)
      BY DEF ParityArmed, IInv, TypeOK
    <2>. QED  BY <1>1, <2>1, ReadOddBegun DEF Fetch8085
  <1>. QED  BY <1>2, <1>3

\* The int instruction traps without being masked.
LEMMA ToldTrap ==
  ASSUME IInv, NEW b, Wired(b), Told(b), cpu.enabled => b.cpu.enabled, NEW n \in Byte
  PROVE  Told(Trap(b, n, TRUE)) /\ (Quiet(b) => Quiet(Trap(b, n, TRUE)))
PROOF
  <1>. DEFINE c == Trap(b, n, TRUE)
  <1>1. /\ Carries(b, c) /\ c.log.acked = b.log.acked
        /\ c.log.dropped = b.log.dropped
    BY TrapHistory
  <1>2. c.m = b.m /\ c.s = b.s  BY TrapWired DEF SameWiring
  <1>. HIDE DEF c
  <1>3. cpu.queue \in Seq(Byte) /\ Len(cpu.queue) \in Nat  BY DEF IInv, TypeOK
  <1>4. InOrder(c, cpu.queue) /\ (Quiet(b) => Quiet(c))
    BY <1>1, <1>3 DEF Told, Carries, Orders
  <1>5. cpu.enabled => Within(c, Len(cpu.queue))
    BY <1>1, <1>3 DEF Told, Carries, Room
  <1>6. Told(c)  BY <1>1, <1>2, <1>4, <1>5 DEF Told, NestsIn, Descends
  <1>. QED  BY <1>4, <1>6 DEF c

LEMMA ToldRetire ==
  ASSUME IInv, NEW b, Good(b), Told(b)
  PROVE  Told(TakeIfWaiting(b))
PROOF
  <1>. DEFINE c == TakeIfWaiting(b)
  <1>0. Wired(b)  BY DEF Good, Sound
  <1>1. /\ Carries(b, c) /\ c.log.acked = b.log.acked
        /\ c.log.dropped = b.log.dropped /\ c.log.wrapped = b.log.wrapped
        /\ Len(c.cpu.queue) <= Len(b.cpu.queue)
    BY <1>0, TakeIfWaitingHistory
  <1>2. c.m = b.m /\ c.s = b.s  BY <1>0, TakeIfWaitingWired DEF SameWiring
  <1>. HIDE DEF c
  <1>3. cpu.queue \in Seq(Byte) /\ Len(cpu.queue) \in Nat  BY DEF IInv, TypeOK
  <1>4. InOrder(c, cpu.queue)  BY <1>1, <1>3 DEF Told, Carries, Orders
  <1>5. cpu.enabled => Within(c, Len(cpu.queue))
    <2>1. Len(b.cpu.queue) \in Nat  BY <1>0 DEF Wired, Boards, Cpus
    <2>2. Len(c.cpu.queue) \in Nat
      <3>1. Wired(c)  BY <1>0, TakeIfWaitingWired DEF c
      <3>. QED  BY <3>1 DEF Wired, Boards, Cpus
    <2>. QED  BY <1>1, <1>3, <2>1, <2>2 DEF Told, Within
  <1>6. Told(c)  BY <1>1, <1>2, <1>4, <1>5 DEF Told, NestsIn, Descends
  <1>. QED  BY <1>6 DEF c

-----------------------------------------------------------------------------
(* What a step tells, action by action.                                    *)

\* The bodies of the action properties.
KeepsOrder ==
  phase' # phase /\ ~log'.wrapped =>
    log'.taken \o cpu'.queue = cpu.queue \o log'.accepted
KeepsOff == ~cpu.enabled /\ phase # "cpu" => Len(log'.taken) = 0
Nests ==
  master'.prio = master.prio /\ ~ParityArmed =>
    \A l \in master'.isr \ master.isr :
      \A s \in (master.isr \cap master'.isr) \ master'.imr :
        Rank(master', l) < Rank(master', s)
Descended ==
  ~master'.rot /\ master'.prio = master.prio /\ ~ParityArmed =>
    \A i, j \in DOMAIN log'.acked :
      i < j => Rank(master', log'.acked[i]) < Rank(master', log'.acked[j])
KeepsAll ==
  cpu.if /\ ~master.aeoi /\ ~master'.aeoi /\ ~ParityArmed => Len(log'.dropped) = 0
Fills ==
  cpu.enabled => /\ Len(cpu'.queue) <= Len(cpu.queue)
                 /\ log'.wrapped => Len(cpu.queue) = QueueSize - 1

Tells == KeepsOrder /\ KeepsOff /\ Nests /\ Descended /\ KeepsAll /\ Fills

LEMMA TellsOf ==
  ASSUME IInv, NEW b, Good(b), Told(b), Become(b),
         ~cpu.enabled /\ phase # "cpu" => b.log.taken = <<>>
  PROVE  Tells
PROOF
  <1>1. /\ master' = b.m /\ secondary' = b.s /\ cpu' = b.cpu /\ log' = b.log
    BY DEF Become
  <1>2. KeepsOrder  BY <1>1 DEF Told, InOrder, KeepsOrder
  <1>3. KeepsOff  BY <1>1 DEF KeepsOff
  <1>4. Nests  BY <1>1 DEF Told, NestsIn, Nests
  <1>5. Descended  BY <1>1 DEF Told, Descends, Descended
  <1>6. KeepsAll  BY <1>1 DEF Told, KeepsAll
  <1>7. Fills
    <2>1. Len(cpu.queue) \in Nat /\ Len(cpu.queue) < QueueSize
      BY DEF IInv, TypeOK, QueueBounded
    <2>2. cpu.enabled => Within(b, Len(cpu.queue))  BY DEF Told
    <2>. QED  BY <1>1, <2>1, <2>2, QueueAssumption DEF Within, Fills
  <1>. QED  BY <1>2, <1>3, <1>4, <1>5, <1>6, <1>7 DEF Tells

LEMMA BegunTells ==
  ASSUME IInv, NEW b, Begun(b), Become(b),
         (~cpu.enabled => Quiet(b)) \/ phase = "cpu"
  PROVE  Tells
  BY BegunTold, TellsOf DEF Begun, Quiet

LEMMA StoryTells ==
  ASSUME IInv, NEW b, Begun(b), NEW c, Good(c), Story(b, c), Become(c),
         (~cpu.enabled => Quiet(b)) \/ phase = "cpu"
  PROVE  Tells
  BY StoryTold, TellsOf DEF Quiet

LEMMA RetireTells ==
  ASSUME IInv, NEW b, Good(b), Told(b)
  PROVE  Retire8088(b) \/ Retire8085(b) => Tells
PROOF
  <1>1. Good(TakeIfWaiting(b))
    BY TakeIfWaitingWired, SameWiringKeeps DEF Good, Sound
  <1>2. Told(TakeIfWaiting(b))  BY ToldRetire
  <1>. QED  BY <1>1, <1>2, TellsOf DEF Retire8088, Retire8085, AtPhase

LEMMA KeyboardCheckTells ==
  ASSUME IInv, KeyboardCheck
  PROVE  Tells
PROOF
  <1>. DEFINE b == [Board EXCEPT !.request = FALSE]  c == Trap(b, KeyVector, TRUE)
  <1>1. Begun(Board) /\ (~cpu.enabled => Quiet(Board))  BY BoardBegun
  <1>2. Good(Board)  BY BoardGood
  <1>3. Good(b) /\ SameChain(Board, b)  BY <1>2, ElsewhereGood, ElsewhereSame
  <1>4. Become(b) \/ Become(c) \/ Become(Board)  BY DEF KeyboardCheck
  <1>. HIDE DEF b
  <1>5. KeyVector \in Byte  BY DEF KeyVector, Byte
  <1>6. Good(c)  BY <1>3, <1>5, TrapGood
  <1>7. Story(Board, b)  BY <1>1, <1>3, SameChainStory DEF Begun
  <1>8. Told(b) /\ (Quiet(Board) => Quiet(b))  BY <1>1, <1>7, StoryTold
  <1>9. /\ Wired(b) /\ (cpu.enabled => b.cpu.enabled)
    <2>1. cpu.enabled => Room(b, Len(cpu.queue))  BY <1>1, <1>7, StoryTold
    <2>. QED  BY <1>3, <2>1 DEF Good, Sound, Room
  <1>10. Told(c) /\ (Quiet(b) => Quiet(c))  BY <1>5, <1>8, <1>9, ToldTrap
  <1>. HIDE DEF c
  <1>11. CASE Become(b)  BY <1>1, <1>3, <1>8, <1>11, TellsOf DEF Quiet
  <1>12. CASE Become(c)  BY <1>1, <1>6, <1>8, <1>10, <1>12, TellsOf DEF Quiet
  <1>13. CASE Become(Board)  BY <1>1, <1>13, BegunTells
  <1>. QED  BY <1>4, <1>11, <1>12, <1>13

LEMMA Execute8088Tells ==
  ASSUME IInv
  PROVE  /\ Wait8088 \/ Plain8088 \/ Sti8088 \/ Cli8088 \/ LoadSS8088 => Tells
         /\ Popf8088 \/ Iret8088 \/ Int8088 => Tells
         /\ AckFdc8088 \/ SetTimer8088 => Tells
         /\ \A w \in PortWrites : Out8088(w) => Tells
PROOF
  <1>1. \A odd \in OddReads : Begun(Fetch8088(odd))  BY FetchBegun
  <1>2. \A odd \in OddReads : /\ Good(Fetch8088(odd)) /\ Told(Fetch8088(odd))
                              /\ Fetch8088(odd).frames = <<>>
    BY <1>1, BegunTold DEF Begun
  <1>3. ASSUME Wait8088  PROVE Tells
    <2>1. PICK odd \in OddReads : Become(ReadOdd(Board, odd = "early"))
      BY <1>3 DEF Wait8088
    <2>2. Begun(ReadOdd(Board, odd = "early"))
      <3>1. (odd = "early") \in BOOLEAN /\ (odd = "early" => ParityArmed)
        BY DEF OddReads
      <3>. QED  BY <3>1, BoardBegun, ReadOddBegun
    <2>3. phase = "cpu"  BY <1>3 DEF Wait8088, AtPhase
    <2>. QED  BY <2>1, <2>2, <2>3, BegunTells
  <1>4. ASSUME Plain8088  PROVE Tells
    BY <1>2, <1>4, RetireTells DEF Plain8088
  <1>5. ASSUME Sti8088  PROVE Tells
    <2>1. PICK odd \in OddReads : Retire8088([Fetch8088(odd) EXCEPT !.cpu.if = TRUE])
      BY <1>5 DEF Sti8088
    <2>. QED  BY <1>2, <2>1, CpuGood, ToldCpu, RetireTells
  <1>6. ASSUME Cli8088  PROVE Tells
    <2>1. PICK odd \in OddReads : Retire8088([Fetch8088(odd) EXCEPT !.cpu.if = FALSE])
      BY <1>6 DEF Cli8088
    <2>. QED  BY <1>2, <2>1, CpuGood, ToldCpu, RetireTells
  <1>7. ASSUME LoadSS8088  PROVE Tells
    <2>1. PICK odd \in OddReads :
            Retire8088([Fetch8088(odd) EXCEPT !.cpu.enabled = FALSE])
      BY <1>7 DEF LoadSS8088
    <2>. QED  BY <1>2, <2>1, CpuGood, ToldCpu, RetireTells
  <1>8. ASSUME Popf8088  PROVE Tells
    <2>1. PICK odd \in OddReads, i \in BOOLEAN :
            Retire8088([Fetch8088(odd) EXCEPT !.cpu.if = i])
      BY <1>8 DEF Popf8088
    <2>. QED  BY <1>2, <2>1, CpuGood, ToldCpu, RetireTells
  <1>9. ASSUME Iret8088  PROVE Tells
    <2>1. PICK odd \in OddReads, i \in BOOLEAN :
            Retire8088([Fetch8088(odd) EXCEPT !.cpu.if = i, !.cpu.enabled = FALSE])
      BY <1>9 DEF Iret8088
    <2>. QED  BY <1>2, <2>1, CpuGood, ToldCpu, RetireTells
  <1>10. ASSUME Int8088  PROVE Tells
    <2>1. PICK odd \in OddReads, n \in SoftInts :
            Retire8088(Trap(Fetch8088(odd), n, TRUE))
      BY <1>10 DEF Int8088
    <2>2. n \in Byte  BY EnvAssumption
    <2>3. Good(Trap(Fetch8088(odd), n, TRUE))  BY <1>2, <2>2, TrapGood
    <2>4. Told(Trap(Fetch8088(odd), n, TRUE))
      <3>1. cpu.enabled => Fetch8088(odd).cpu.enabled  BY <1>1 DEF Begun, Room
      <3>. QED  BY <1>2, <2>2, <3>1, ToldTrap DEF Good, Sound
    <2>. QED  BY <2>1, <2>3, <2>4, RetireTells
  <1>11. ASSUME AckFdc8088  PROVE Tells
    <2>1. PICK odd \in OddReads :
            Retire8088(LowerSecondary(Fetch8088(odd), FdcLine))
      BY <1>11 DEF AckFdc8088
    <2>2. FdcLine \in Lines  BY DEF FdcLine, Lines
    <2>3. Good(LowerSecondary(Fetch8088(odd), FdcLine))
      BY <1>2, <2>2, LineSecondaryGood
    <2>4. Told(LowerSecondary(Fetch8088(odd), FdcLine))
      BY <1>1, <1>2, <2>2, LineSecondaryStory, StoryTold
    <2>. QED  BY <2>1, <2>3, <2>4, RetireTells
  <1>12. ASSUME SetTimer8088  PROVE Tells
    <2>1. PICK odd \in OddReads : Retire8088(RaiseMaster(Fetch8088(odd), TimerLine))
      BY <1>12 DEF SetTimer8088
    <2>2. TimerLine \in Lines  BY DEF TimerLine, Lines
    <2>3. Good(RaiseMaster(Fetch8088(odd), TimerLine))
      BY <1>2, <2>2, RaiseMasterGood
    <2>4. Told(RaiseMaster(Fetch8088(odd), TimerLine))
      BY <1>1, <1>2, <2>2, RaiseMasterStory, StoryTold
    <2>. QED  BY <2>1, <2>3, <2>4, RetireTells
  <1>13. ASSUME NEW w \in PortWrites, Out8088(w)  PROVE Tells
    <2>1. PICK odd \in OddReads : Retire8088(PortWrite(Fetch8088(odd), w[1], w[2]))
      BY <1>13 DEF Out8088
    <2>2. w[1] \in Ports /\ w[2] \in Byte  BY EnvAssumption
    <2>3. Good(PortWrite(Fetch8088(odd), w[1], w[2]))  BY <1>2, <2>2, PortWriteGood
    <2>4. Told(PortWrite(Fetch8088(odd), w[1], w[2]))
      BY <1>1, <1>2, <2>2, PortWriteStory, StoryTold
    <2>. QED  BY <2>1, <2>3, <2>4, RetireTells
  <1>. QED  BY <1>3, <1>4, <1>5, <1>6, <1>7, <1>8, <1>9, <1>10, <1>11, <1>12, <1>13

LEMMA Execute8085Tells ==
  ASSUME IInv
  PROVE  /\ Plain8085 \/ AckFdc8085 \/ SetTimer8085 => Tells
         /\ \A w \in PortWrites : Out8085(w) => Tells
PROOF
  <1>1. \A odd \in {FALSE, ParityArmed} : Begun(Fetch8085(odd))  BY FetchBegun
  <1>2. \A odd \in {FALSE, ParityArmed} :
          /\ Good(Fetch8085(odd)) /\ Told(Fetch8085(odd))
          /\ Fetch8085(odd).frames = <<>>
    BY <1>1, BegunTold DEF Begun
  <1>3. ASSUME Plain8085  PROVE Tells
    BY <1>2, <1>3, RetireTells DEF Plain8085
  <1>4. ASSUME AckFdc8085  PROVE Tells
    <2>1. PICK odd \in {FALSE, ParityArmed} :
            Retire8085(LowerSecondary(Fetch8085(odd), FdcLine))
      BY <1>4 DEF AckFdc8085
    <2>2. FdcLine \in Lines  BY DEF FdcLine, Lines
    <2>3. Good(LowerSecondary(Fetch8085(odd), FdcLine))
      BY <1>2, <2>2, LineSecondaryGood
    <2>4. Told(LowerSecondary(Fetch8085(odd), FdcLine))
      BY <1>1, <1>2, <2>2, LineSecondaryStory, StoryTold
    <2>. QED  BY <2>1, <2>3, <2>4, RetireTells
  <1>5. ASSUME SetTimer8085  PROVE Tells
    <2>1. PICK odd \in {FALSE, ParityArmed} :
            Retire8085(RaiseMaster(Fetch8085(odd), TimerLine))
      BY <1>5 DEF SetTimer8085
    <2>2. TimerLine \in Lines  BY DEF TimerLine, Lines
    <2>3. Good(RaiseMaster(Fetch8085(odd), TimerLine))
      BY <1>2, <2>2, RaiseMasterGood
    <2>4. Told(RaiseMaster(Fetch8085(odd), TimerLine))
      BY <1>1, <1>2, <2>2, RaiseMasterStory, StoryTold
    <2>. QED  BY <2>1, <2>3, <2>4, RetireTells
  <1>6. ASSUME NEW w \in PortWrites, Out8085(w)  PROVE Tells
    <2>1. PICK odd \in {FALSE, ParityArmed} :
            Retire8085(PortWrite(Fetch8085(odd), w[1], w[2]))
      BY <1>6 DEF Out8085
    <2>2. w[1] \in Ports /\ w[2] \in Byte  BY EnvAssumption
    <2>3. Good(PortWrite(Fetch8085(odd), w[1], w[2]))  BY <1>2, <2>2, PortWriteGood
    <2>4. Told(PortWrite(Fetch8085(odd), w[1], w[2]))
      BY <1>1, <1>2, <2>2, PortWriteStory, StoryTold
    <2>. QED  BY <2>1, <2>3, <2>4, RetireTells
  <1>. QED  BY <1>3, <1>4, <1>5, <1>6

\* The pulse of the vertical retrace: the chain of its rise is the history of
\* the step, its fall only takes requests away.
LEMMA PulseTells ==
  ASSUME IInv, Become(LowerMaster(RaiseMaster(Board, VsyncLine), VsyncLine))
  PROVE  Tells
PROOF
  <1>. DEFINE b == RaiseMaster(Board, VsyncLine)  c == LowerMaster(b, VsyncLine)
  <1>1. Begun(Board) /\ (~cpu.enabled => Quiet(Board))  BY BoardBegun
  <1>2. VsyncLine \in Lines /\ VsyncLine # CascadeLine
    BY DEF VsyncLine, CascadeLine, Lines
  <1>3. Good(b) /\ Story(Board, b)
    BY <1>1, <1>2, RaiseMasterGood, RaiseMasterStory DEF Begun
  <1>. HIDE DEF b
  <1>4. Told(b) /\ (Quiet(Board) => Quiet(b))  BY <1>1, <1>3, StoryTold
  <1>5. b.frames = <<>>  BY <1>3 DEF Story, Follows
  <1>6. Good(c)  BY <1>2, <1>3, LowerMasterGood
  <1>7. /\ Story(b, c) /\ c.log = b.log /\ c.cpu = b.cpu
        /\ Pending(c.m) \subseteq Pending(b.m) /\ c.m.isr = b.m.isr
        /\ c.m.imr = b.m.imr /\ c.m.prio = b.m.prio /\ c.m.rot = b.m.rot
        /\ c.m.aeoi = b.m.aeoi
    BY <1>2, <1>3, <1>5, LowerMasterStory
  <1>8. Become(c)  BY DEF b
  <1>. HIDE DEF c
  <1>9. \A k : Rank(c.m, k) = Rank(b.m, k)  BY <1>7 DEF Rank
  <1>10. NestsIn(b, master.isr) => NestsIn(c, master.isr)
    BY <1>7, <1>9 DEF NestsIn
  <1>11. Descends(b) => Descends(c)
    <2>. SUFFICES ASSUME Descends(b), ~c.m.rot  PROVE Descends(c)
      BY DEF Descends
    <2>1. /\ \A i, j \in DOMAIN b.log.acked :
               i < j => Rank(b.m, b.log.acked[i]) < Rank(b.m, b.log.acked[j])
          /\ \A i \in DOMAIN b.log.acked : \A k \in Pending(b.m) :
               Rank(b.m, b.log.acked[i]) < Rank(b.m, k)
      BY <1>7 DEF Descends
    <2>. QED  BY <1>7, <1>9, <2>1 DEF Descends
  <1>12. Told(c)  BY <1>4, <1>7, <1>10, <1>11 DEF Told, InOrder, Within
  <1>. QED  BY <1>1, <1>4, <1>6, <1>7, <1>8, <1>12, TellsOf DEF Quiet

LEMMA DevicesTell ==
  ASSUME IInv
  PROVE  SimulateVSYNC \/ ClockTimer \/ CycleFdc => Tells
PROOF
  <1>1. Begun(Board) /\ (~cpu.enabled => Quiet(Board))  BY BoardBegun
  <1>2. Good(Board) /\ Board.frames = <<>>  BY <1>1 DEF Begun
  <1>3. TimerLine \in Lines /\ FdcLine \in Lines  BY DEF TimerLine, FdcLine, Lines
  <1>4. /\ Good(RaiseMaster(Board, TimerLine))
        /\ Story(Board, RaiseMaster(Board, TimerLine))
    BY <1>2, <1>3, RaiseMasterGood, RaiseMasterStory
  <1>5. /\ Good(RaiseSecondary(Board, FdcLine))
        /\ Story(Board, RaiseSecondary(Board, FdcLine))
    BY <1>2, <1>3, LineSecondaryGood, LineSecondaryStory
  <1>6. Become(Board) => Tells  BY <1>1, BegunTells
  <1>7. SimulateVSYNC => Tells  BY <1>6, PulseTells DEF SimulateVSYNC
  <1>8. ClockTimer => Tells  BY <1>1, <1>4, <1>6, StoryTells DEF ClockTimer
  <1>9. CycleFdc => Tells  BY <1>1, <1>5, <1>6, StoryTells DEF CycleFdc
  <1>. QED  BY <1>7, <1>8, <1>9

LEMMA NoLogTells ==
  ASSUME phase' = phase, log' = NoLog, master'.isr \subseteq master.isr, Fills
  PROVE  Tells
PROOF
  <1>1. /\ NoLog.acked = <<>> /\ NoLog.dropped = <<>> /\ NoLog.taken = <<>>
    BY DEF NoLog
  <1>2. DOMAIN log'.acked = {} /\ Elements(log'.acked) = {}
    BY <1>1 DEF Elements
  <1>. QED  BY <1>1, <1>2 DEF Tells, KeepsOrder, KeepsOff, Nests, Descended, KeepsAll

\* reset() reads memory once, which may end in a chain of its own.
LEMMA ResetTells ==
  ASSUME IInv, Reset
  PROVE  Tells
PROOF
  <1>. DEFINE a == [Board EXCEPT !.cpu.if = FALSE, !.cpu.queue = <<>>]
              b(odd) == ReadOdd(a, odd)
              m(odd) == [ResetPic(b(odd).m) EXCEPT !.int = FALSE]
              s(odd) == [ResetPic(b(odd).s) EXCEPT !.int = FALSE]
              c(odd) == [b(odd) EXCEPT !.active = "8085",
                                       !.parity = [zero |-> FALSE, kill |-> FALSE],
                                       !.m = m(odd), !.s = s(odd)]
  <1>1. phase' = phase /\ phase = "keyboard"  BY DEF Reset, AtPhase
  <1>2. PICK odd \in {FALSE, ParityArmed} : Become(c(odd))  BY DEF Reset
  <1>3. /\ Good(a) /\ a.frames = <<>> /\ a.log = NoLog
        /\ a.cpu.enabled = cpu.enabled /\ a.cpu.queue = <<>>
    <2>1. Good(Board)  BY BoardGood
    <2>2. Board \in Boards /\ Board.cpu = cpu /\ Board.log = NoLog /\ Board.frames = <<>>
      BY <2>1 DEF Good, Sound, Wired, Board
    <2>3. /\ a \in Boards /\ a.m = Board.m /\ a.s = Board.s
          /\ a.frames = Board.frames /\ a.cpu.queue = <<>>
          /\ a.log = NoLog /\ a.cpu.enabled = cpu.enabled
      <3>1. <<>> \in Seq(Byte)  OBVIOUS
      <3>. QED  BY <2>2, <3>1 DEF Boards, Cpus
    <2>4. Len(a.cpu.queue) < QueueSize  BY <2>3, QueueAssumption
    <2>. HIDE DEF a
    <2>. QED  BY <2>1, <2>2, <2>3, <2>4 DEF Good, Sound, Wired, FramesLatched
  <1>. HIDE DEF a
  <1>4. NoLog.taken = <<>> /\ ~NoLog.wrapped  BY DEF NoLog
  <1>5. /\ ~cpu.enabled => Quiet(a)
        /\ cpu.enabled => Room(a, Len(cpu.queue))
    <2>1. Len(cpu.queue) >= 0  BY DEF IInv, TypeOK
    <2>. QED  BY <1>3, <1>4, <2>1 DEF Quiet, Room, Within
  <1>6. /\ Good(b(odd)) /\ (Quiet(a) => Quiet(b(odd)))
        /\ cpu.enabled => Room(b(odd), Len(cpu.queue))
        /\ ~ParityArmed => b(odd).log = NoLog
    <2>1. CASE ~odd
      <3>1. b(odd) = a  BY <2>1 DEF ReadOdd
      <3>. QED  BY <1>3, <1>5, <3>1
    <2>2. CASE odd
      <3>1. b(odd) = RaiseMaster(a, ParityLine)  BY <2>2 DEF ReadOdd
      <3>2. ParityLine \in Lines  BY DEF ParityLine, Lines
      <3>3. Story(a, b(odd))
        BY <1>3, <3>1, <3>2, RaiseMasterStory
      <3>4. Good(b(odd))  BY <1>3, <3>1, <3>2, RaiseMasterGood
      <3>5. ParityArmed  BY <1>2, <2>2
      <3>6. Carries(a, b(odd)) /\ Len(cpu.queue) \in Nat
        BY <3>3 DEF Story, Follows, IInv, TypeOK
      <3>. QED  BY <1>5, <3>4, <3>5, <3>6 DEF Carries, Orders
    <2>3. odd \in BOOLEAN  BY <1>2 DEF ParityArmed, IInv, TypeOK
    <2>. QED  BY <2>1, <2>2, <2>3
  <1>7. b(odd) \in Boards /\ b(odd).m \in Pics
    BY <1>6, BoardPics DEF Good, Sound
  <1>. HIDE DEF b
  <1>8. m(odd).isr = {}  BY <1>7 DEF ResetPic, Pics
  <1>. HIDE DEF m, s
  <1>9. c(odd).m = m(odd) /\ c(odd).log = b(odd).log /\ c(odd).cpu = b(odd).cpu
    BY <1>7 DEF Boards
  <1>. HIDE DEF c
  <1>10. master'.isr = {} /\ log' = b(odd).log /\ cpu' = b(odd).cpu
    BY <1>2, <1>8, <1>9 DEF Become
  <1>11. Fills
    <2>1. Len(cpu.queue) \in Nat /\ Len(cpu.queue) < QueueSize
      BY DEF IInv, TypeOK, QueueBounded
    <2>. QED  BY <1>6, <1>10, <2>1, QueueAssumption DEF Room, Within, Fills
  <1>12. CASE ~ParityArmed  BY <1>1, <1>6, <1>10, <1>12, <1>11, NoLogTells
  <1>13. CASE ParityArmed
    <2>1. KeepsOff  BY <1>5, <1>6, <1>10 DEF KeepsOff, Quiet
    <2>. QED  BY <1>1, <1>13, <1>11, <2>1 DEF Tells, KeepsOrder, Nests, Descended, KeepsAll
  <1>. QED  BY <1>12, <1>13

LEMMA NextTells ==
  ASSUME IInv, Next
  PROVE  Tells
PROOF
  <1>1. CASE KeyboardCheck  BY <1>1, KeyboardCheckTells
  <1>2. CASE Execute  BY <1>2, Execute8088Tells, Execute8085Tells DEF Execute
  <1>3. CASE SimulateVSYNC \/ ClockTimer \/ CycleFdc  BY <1>3, DevicesTell
  <1>4. CASE KeyAction
    <2>1. Len(cpu.queue) <= Len(cpu.queue)  BY DEF IInv, TypeOK
    <2>2. Fills  BY <1>4, <2>1 DEF KeyAction, Fills, NoLog
    <2>. QED  BY <1>4, <2>2, NoLogTells DEF KeyAction
  <1>5. CASE Reset  BY <1>5, ResetTells
  <1>. QED  BY <1>1, <1>2, <1>3, <1>4, <1>5 DEF Next, EmulatorStep

(***************************************************************************)
(* Theorems.                                                               *)
(***************************************************************************)

(* The inductive invariant holds in every reachable state.                 *)
THEOREM Invariance == Spec => []IInv
  <1>. QED  BY InitInv, NextInv, PTL DEF Spec

(* The registers of both controllers, the interrupt list and the history   *)
(* keep their types: vectors are bytes and priorities are lines.           *)
THEOREM TypeCorrect == Spec => []TypeOK
  <1>1. IInv => TypeOK  BY DEF IInv
  <1>. QED  BY <1>1, Invariance, PTL

(* Whatever software and the devices do, no function of the emulator loop  *)
(* returns with a request of the master undelivered: the chain of nested   *)
(* calls of e8259_check_int, e8259_inta and interruptFunctionCall always   *)
(* runs to its end.                                                        *)
THEOREM MasterAlwaysSettled == Spec => []MasterSettled
  <1>1. IInv => MasterSettled  BY DEF IInv
  <1>. QED  BY <1>1, Invariance, PTL

(* The INT output of the secondary always tells whether it has a request.  *)
THEOREM SecondaryAlwaysSettled == Spec => []SecondarySettled
  <1>1. IInv => SecondarySettled  BY DEF IInv
  <1>. QED  BY <1>1, Invariance, PTL

(* Requests stay on lines that are high, and the cascade line is high      *)
(* whenever the secondary asks for service.                                *)
THEOREM LinesAlwaysLatched == Spec => []LinesLatched
  <1>1. IInv => LinesLatched  BY DEF IInv
  <1>. QED  BY <1>1, Invariance, PTL

(* The 8088 takes interrupts in the order trap accepted them, none twice   *)
(* and none lost, whatever the chains of nested acknowledgements did, until *)
(* the list wraps or reset() empties it.                                   *)
THEOREM InterruptsTakenInOrder == Spec => TakenInOrder
  <1>1. IInv /\ [Next]_vars =>
          [phase' # phase /\ ~log'.wrapped =>
             log'.taken \o cpu'.queue = cpu.queue \o log'.accepted]_vars
    BY NextTells DEF Tells, KeepsOrder
  <1>. QED  BY <1>1, Invariance, PTL DEF Spec, TakenInOrder

(* A step that does not begin with interrupts held off takes as many       *)
(* numbers as it queues, through every chain of nested acknowledgements it *)
(* runs, so the ring of interrupts overflows (and loses all it holds) only *)
(* while software holds interrupts off, or full as that left it.           *)
THEOREM ListFillsHeldOff == Spec => FillsHeldOff
  <1>1. IInv /\ [Next]_vars =>
          [cpu.enabled => /\ Len(cpu'.queue) <= Len(cpu.queue)
                          /\ log'.wrapped => Len(cpu.queue) = QueueSize - 1]_vars
    BY NextTells DEF Tells, Fills
  <1>. QED  BY <1>1, Invariance, PTL DEF Spec, FillsHeldOff

(* After an instruction that loads SS, or an iret, the 8088 takes nothing  *)
(* until the next instruction has begun, not even the keyboard's trap.     *)
THEOREM InterruptsHeldOff == Spec => HeldOff
  <1>1. IInv /\ [Next]_vars =>
          [~cpu.enabled /\ phase # "cpu" => Len(log'.taken) = 0]_vars
    BY NextTells DEF Tells, KeepsOff
  <1>. QED  BY <1>1, Invariance, PTL DEF Spec, HeldOff

(* A line enters service only if it outranks every unmasked line that was  *)
(* in service before the step and still is: at most one line outside AEOI  *)
(* mode, and none in it.                                                   *)
THEOREM NestingByPriority == Spec => NestsByPriority
  <1>1. IInv /\ [Next]_vars =>
          [master'.prio = master.prio /\ ~ParityArmed =>
             \A l \in master'.isr \ master.isr :
               \A s \in (master.isr \cap master'.isr) \ master'.imr :
                 Rank(master', l) < Rank(master', s)]_vars
    BY NextTells DEF Tells, Nests
  <1>. QED  BY <1>1, Invariance, PTL DEF Spec, NestsByPriority

(* One chain acknowledges requests from the highest ranked down, however   *)
(* deep the calls nest.                                                    *)
THEOREM AcknowledgesDescend == Spec => AcksDescend
  <1>1. IInv /\ [Next]_vars =>
          [~master'.rot /\ master'.prio = master.prio /\ ~ParityArmed =>
             \A i, j \in DOMAIN log'.acked :
               i < j => Rank(master', log'.acked[i]) < Rank(master', log'.acked[j])]_vars
    BY NextTells DEF Tells, Descended
  <1>. QED  BY <1>1, Invariance, PTL DEF Spec, AcksDescend

(* Outside AEOI mode no interrupt that the master acknowledges is lost in  *)
(* a step that begins with IF set: the chain acknowledges one request.     *)
THEOREM NothingLostWithIF == Spec => NoLossWithIF
  <1>1. IInv /\ [Next]_vars =>
          [cpu.if /\ ~master.aeoi /\ ~master'.aeoi /\ ~ParityArmed =>
             Len(log'.dropped) = 0]_vars
    BY NextTells DEF Tells, KeepsAll
  <1>. QED  BY <1>1, Invariance, PTL DEF Spec, NoLossWithIF

=============================================================================

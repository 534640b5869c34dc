----------------------------- MODULE TimersProof -----------------------------
(***************************************************************************)
(* Theorems about Timers for every Radix, every program and every cost of  *)
(* an instruction: type correctness, whole latched reads, and outputs that *)
(* change on time.  Size is Radix squared; only the lemmas on words look   *)
(* inside it.                                                              *)
(***************************************************************************)
EXTENDS Timers, TLAPS

-----------------------------------------------------------------------------
(* Words and their halves.                                                 *)

LEMMA SizeFacts == Size \in Nat /\ Size > 1 /\ Radix \in Nat /\ Radix > 1
<1>1. Radix \in Nat /\ Radix > 1
  BY RadixAssumption
<1>2. Radix * Radix \in Nat /\ Radix * Radix >= Radix
  BY <1>1, SMT
<1> QED
  BY <1>1, <1>2 DEF Size

\* A word put together from two bytes.
LEMMA Joined == ASSUME NEW h \in Byte, NEW l \in Byte PROVE h * Radix + l \in Word
<1>1. Radix \in Nat /\ Radix > 1
  BY RadixAssumption
<1>2. h \in Nat /\ l \in Nat /\ h + 1 <= Radix /\ l < Radix
  BY <1>1 DEF Byte
<1>3. h * Radix \in Nat /\ (h + 1) * Radix = h * Radix + Radix
  BY <1>1, <1>2, SMT
<1>4. (h + 1) * Radix <= Radix * Radix
  BY <1>1, <1>2, SMT
<1> QED
  BY <1>1, <1>2, <1>3, <1>4 DEF Word, Size

\* The halves of a word are bytes.
LEMMA Halved == ASSUME NEW v \in Word PROVE v % Radix \in Byte /\ v \div Radix \in Byte
<1>1. Radix \in Nat /\ Radix > 1
  BY RadixAssumption
<1>2. v \in Nat /\ v < Radix * Radix
  BY <1>1, SizeFacts DEF Word, Size
<1>3. v % Radix \in 0 .. Radix - 1
  BY <1>1, <1>2
<1> DEFINE q == v \div Radix
<1>4. q \in Nat /\ q * Radix <= v
  BY <1>1, <1>2, SMT
<1>5. q < Radix
  <2>1. SUFFICES ASSUME q >= Radix PROVE FALSE
    BY <1>1, <1>4
  <2>2. q * Radix >= Radix * Radix
    BY <1>1, <1>4, <2>1, SMT
  <2> QED
    BY <1>1, <1>2, <1>4, <2>2, SMT
<1> QED
  BY <1>1, <1>3, <1>4, <1>5 DEF Byte

\* Single-byte counts are words too.
LEMMA ByteIsWord == ASSUME NEW d \in Byte PROVE d \in Word /\ d * Radix \in Word
<1>1. 0 \in Byte
  BY RadixAssumption DEF Byte
<1>2. d \in Nat /\ Radix \in Nat
  BY RadixAssumption DEF Byte
<1>3. 0 * Radix + d = d /\ d * Radix + 0 = d * Radix
  BY <1>2
<1> QED
  BY <1>1, <1>3, Joined

LEMMA Wrapped == ASSUME NEW i \in Int PROVE i % Size \in Word
BY SizeFacts DEF Word

LEMMA EvenWord == ASSUME NEW v \in Word PROVE Even(v) \in Word
<1>1. v \in Nat /\ v % 2 \in 0 .. 1 /\ v % 2 <= v
  BY SizeFacts DEF Word
<1> QED
  BY <1>1, SizeFacts DEF Word, Even

LEMMA CountWord == ASSUME NEW c \in Counters PROVE Count(c) \in Word
<1>1. c.cr["hi"] \in Byte /\ c.cr["lo"] \in Byte
  BY DEF Counters, Halves
<1> QED
  BY <1>1, Joined DEF Count

-----------------------------------------------------------------------------
(* Counters.  An operator of E8253 keeps a counter well formed; those that *)
(* neither latch nor program it leave the latched halves as they are.      *)

Keeps(k, c) == k \in Counters /\ k.ol = c.ol /\ k.olRd = c.olRd

\* Loading a word into a running counter.
LEMMA Counted ==
  ASSUME NEW c \in Counters, NEW v \in Word, NEW o \in BOOLEAN, NEW r \in BOOLEAN
  PROVE  LET k == [c EXCEPT !.out = o, !.val = v, !.counting = r]
         IN Keeps(k, c)
BY DEF Counters, Keeps

LEMMA Unchanged == ASSUME NEW c \in Counters PROVE Keeps(c, c)
BY DEF Keeps

LEMMA KeepsTrans ==
  ASSUME NEW c, NEW k, NEW j, Keeps(k, c), Keeps(j, k) PROVE Keeps(j, c)
BY DEF Keeps

LEMMA Valued ==
  ASSUME NEW c \in Counters, NEW v \in Word, NEW o \in BOOLEAN
  PROVE  /\ Keeps([c EXCEPT !.val = v], c)
         /\ Keeps([c EXCEPT !.val = v, !.out = o], c)
BY DEF Counters, Keeps

LEMMA LoadKeeps == ASSUME NEW c \in Counters PROVE Keeps(Load(c), c)
<1>1. Count(c) \in Word /\ Even(Count(c)) \in Word
  BY CountWord, EvenWord
<1>2. CASE c.mode \in {0, 2}
  <2> DEFINE o == c.mode = 2
  <2>1. o \in BOOLEAN
    OBVIOUS
  <2>2. Load(c) = [c EXCEPT !.out = o, !.val = Count(c), !.counting = TRUE]
    BY <1>2 DEF Load
  <2> HIDE DEF o
  <2> QED
    BY <1>1, <2>1, <2>2, Counted
<1>3. CASE c.mode = 3 /\ ~c.counting
  <2>1. Load(c) = [c EXCEPT !.out = TRUE, !.val = Even(Count(c)), !.counting = TRUE]
    BY <1>3 DEF Load
  <2> QED
    BY <1>1, <2>1, Counted
<1>4. CASE c.mode \notin {0, 2} /\ ~(c.mode = 3 /\ ~c.counting)
  <2>1. Load(c) = c
    BY <1>4 DEF Load
  <2> QED
    BY <2>1, Unchanged
<1> QED
  BY <1>2, <1>3, <1>4

LEMMA TickOnceKeeps == ASSUME NEW c \in Counters PROVE Keeps(TickOnce(c), c)
<1> DEFINE v == (c.val - 1) % Size
<1> DEFINE o == v = 0
<1>1. v \in Word
  BY SizeFacts, Wrapped DEF Counters, Word
<1>2. o \in BOOLEAN
  OBVIOUS
<1>3. TickOnce(c) = c \/ TickOnce(c) = [c EXCEPT !.val = v, !.out = o]
  BY DEF TickOnce
<1> HIDE DEF v, o
<1> QED
  BY <1>1, <1>2, <1>3, Unchanged, Valued

LEMMA TickRateKeeps == ASSUME NEW c \in Counters PROVE Keeps(TickRate(c), c)
<1> DEFINE v == (c.val - 1) % Size
<1> DEFINE o == c.out /\ v # 1
<1>1. v \in Word
  BY SizeFacts, Wrapped DEF Counters, Word
<1>2. o \in BOOLEAN
  BY DEF Counters
<1>3. \/ TickRate(c) = Load([c EXCEPT !.val = v])
      \/ TickRate(c) = [c EXCEPT !.val = v, !.out = o]
  BY DEF TickRate
<1> HIDE DEF v, o
<1>4. Keeps([c EXCEPT !.val = v], c)
  BY <1>1, Valued
<1>5. Keeps(Load([c EXCEPT !.val = v]), [c EXCEPT !.val = v])
  BY <1>4, LoadKeeps DEF Keeps
<1>6. Keeps(Load([c EXCEPT !.val = v]), c)
  BY <1>4, <1>5, KeepsTrans
<1>7. Keeps([c EXCEPT !.val = v, !.out = o], c)
  BY <1>1, <1>2, Valued
<1> QED
  BY <1>3, <1>6, <1>7

LEMMA TickSquareKeeps == ASSUME NEW c \in Counters PROVE Keeps(TickSquare(c), c)
<1> DEFINE v == IF c.val = 0 THEN Even((Count(c) - 2) % Size) ELSE (c.val - 2) % Size
<1> DEFINE o == IF v = 0 THEN ~c.out ELSE c.out
<1>1. v \in Word
  <2>1. c.val - 2 \in Int /\ Count(c) - 2 \in Int
    BY SizeFacts, CountWord DEF Counters, Word
  <2> QED
    BY <2>1, Wrapped, EvenWord
<1>2. o \in BOOLEAN
  BY DEF Counters
<1>3. TickSquare(c) = [c EXCEPT !.val = v, !.out = o]
  BY DEF TickSquare
<1> HIDE DEF v, o
<1> QED
  BY <1>1, <1>2, <1>3, Valued

LEMMA TickKeeps == ASSUME NEW c \in Counters PROVE Keeps(Tick(c), c)
<1>1. Tick(c) \in {c, TickOnce(c), TickRate(c), TickSquare(c)}
  BY DEF Tick
<1> QED
  BY <1>1, Unchanged, TickOnceKeeps, TickRateKeeps, TickSquareKeeps

LEMMA WriteKeeps ==
  ASSUME NEW c \in Counters, NEW d \in Byte PROVE Keeps(Write(c, d), c)
<1> DEFINE wanted == IF c.crWr = {} THEN c.rw ELSE c.crWr
<1> DEFINE h == IF "lo" \in wanted THEN "lo" ELSE "hi"
<1> DEFINE stored == [c EXCEPT !.crWr = wanted \ {h}, !.cr[h] = d]
<1> DEFINE loaded == IF stored.crWr = {} THEN Load(stored) ELSE stored
<1>1. Write(c, d) = IF loaded.counting THEN loaded
                    ELSE [loaded EXCEPT !.val = Count(loaded)]
  BY DEF Write
<1>2. Keeps(stored, c)
  <2>1. h \in Halves /\ wanted \ {h} \in SUBSET Halves
    BY DEF Counters, Halves
  <2> HIDE DEF h, wanted
  <2> QED
    BY <2>1 DEF Counters, Keeps
<1> HIDE DEF stored
<1>3. Keeps(loaded, stored)
  BY <1>2, LoadKeeps, Unchanged DEF Keeps
<1> HIDE DEF loaded
<1>4. loaded \in Counters
  BY <1>3 DEF Keeps
<1>5. Keeps(Write(c, d), loaded)
  BY <1>1, <1>4, CountWord, Valued, Unchanged
<1> QED
  BY <1>2, <1>3, <1>5, KeepsTrans

-----------------------------------------------------------------------------
(* Latched halves.  While a latched value has not been read completely,    *)
(* the output latch holds both halves of the word s it was taken from.     *)
Holds(c, s) ==
  c.olRd # {} => c.ol["lo"] = s % Radix /\ c.ol["hi"] = s \div Radix

LEMMA KeepsHolds ==
  ASSUME NEW c, NEW k, NEW s, Keeps(k, c), Holds(c, s) PROVE Holds(k, s)
BY DEF Keeps, Holds

LEMMA LatchHolds ==
  ASSUME NEW c \in Counters, NEW s \in Word, Holds(c, s)
  PROVE  /\ Latch(c) \in Counters
         /\ Holds(Latch(c), IF c.olRd = {} THEN c.val ELSE s)
<1> DEFINE f == [h \in Halves |-> IF h = "lo" THEN c.val % Radix ELSE c.val \div Radix]
<1>1. /\ f \in [Halves -> Byte]
      /\ f["lo"] = c.val % Radix
      /\ f["hi"] = c.val \div Radix
  BY Halved DEF Counters, Halves
<1>2. CASE c.olRd # {}
  BY <1>2 DEF Latch
<1>3. CASE c.olRd = {}
  <2>1. Latch(c) = [c EXCEPT !.olRd = c.rw, !.ol = f]
    BY <1>3 DEF Latch
  <2> HIDE DEF f
  <2>2. Latch(c) \in Counters
    BY <1>1, <2>1 DEF Counters
  <2>3. Latch(c).ol = f
    BY <2>1 DEF Counters
  <2> QED
    BY <1>1, <1>3, <2>2, <2>3 DEF Holds
<1> QED
  BY <1>2, <1>3

LEMMA ControlHolds ==
  ASSUME NEW c \in Counters, NEW s \in Word, Holds(c, s),
         NEW rw \in SUBSET Halves, NEW mode \in Modes
  PROVE  /\ Control(c, rw, mode) \in Counters
         /\ Holds(Control(c, rw, mode), IF rw = {} /\ c.olRd = {} THEN c.val ELSE s)
<1>1. CASE rw = {}
  BY <1>1, LatchHolds DEF Control
<1>2. CASE rw # {}
  <2>1. Zeros \in [Halves -> Byte]
    BY RadixAssumption DEF Zeros, Byte
  <2> DEFINE q1 == [c EXCEPT !.crWr = rw, !.olRd = {}, !.cntRd = rw]
  <2> DEFINE q2 == [q1 EXCEPT !.cr = Zeros, !.counting = FALSE]
  <2> DEFINE q3 == [q2 EXCEPT !.rw = rw, !.mode = mode]
  <2>2. Control(c, rw, mode) = q3
    BY <1>2 DEF Control
  <2>3. q1 \in Counters /\ q1.olRd = {}
    BY DEF Counters
  <2> HIDE DEF q1
  <2>4. q2 \in Counters /\ q2.olRd = {}
    BY <2>1, <2>3 DEF Counters
  <2> HIDE DEF q2
  <2>5. q3 \in Counters /\ q3.olRd = {}
    BY <2>4 DEF Counters
  <2> HIDE DEF q3
  <2> QED
    BY <2>2, <2>5 DEF Holds
<1> QED
  BY <1>1, <1>2

LEMMA ReadHolds ==
  ASSUME NEW c \in Counters, NEW s \in Word, Holds(c, s)
  PROVE  Read(c) \in Counters /\ Holds(Read(c), s)
<1>1. CASE c.olRd # {}
  <2> DEFINE r == c.olRd \ {IF "lo" \in c.olRd THEN "lo" ELSE "hi"}
  <2>1. Read(c) = [c EXCEPT !.olRd = r]
    BY <1>1 DEF Read
  <2>2. r \in SUBSET Halves
    BY DEF Counters
  <2> HIDE DEF r
  <2> QED
    BY <1>1, <2>1, <2>2 DEF Counters, Holds
<1>2. CASE c.olRd = {}
  <2> DEFINE wanted == IF c.cntRd = {} THEN c.rw ELSE c.cntRd
  <2> DEFINE r == wanted \ {IF "lo" \in wanted THEN "lo" ELSE "hi"}
  <2>1. Read(c) = [c EXCEPT !.cntRd = r]
    BY <1>2 DEF Read, ReadLive
  <2>2. r \in SUBSET Halves
    BY DEF Counters
  <2> HIDE DEF r
  <2> QED
    BY <1>2, <2>1, <2>2 DEF Counters, Holds
<1> QED
  BY <1>1, <1>2

-----------------------------------------------------------------------------
(* The unit: everything an instruction or a clock may change.              *)
Units ==
  [cnt : [Channels -> Counters], line : BOOLEAN, age : [Channels -> 0 .. Size],
   part : [Channels -> Byte \cup {None}], count : [Channels -> Word \cup {None}],
   snap : [Channels -> Word], ticked : SUBSET Channels]

Sound(u) ==
  u \in Units /\ \A ch \in Channels : Holds(u.cnt[ch], u.snap[ch])

\* A counter replaced by one with the same latched halves.
LEMMA Replaced ==
  ASSUME NEW u, Sound(u), NEW ch \in Channels, NEW k, Keeps(k, u.cnt[ch])
  PROVE  Sound([u EXCEPT !.cnt[ch] = k])
<1> DEFINE w == [u EXCEPT !.cnt[ch] = k]
<1>1. k \in Counters /\ Holds(k, u.snap[ch])
  BY KeepsHolds DEF Keeps, Sound
<1>2. w \in Units
  BY <1>1 DEF Units, Sound
<1>3. \A x \in Channels : w.cnt[x] = (IF x = ch THEN k ELSE u.cnt[x]) /\ w.snap[x] = u.snap[x]
  BY DEF Units, Sound
<1> HIDE DEF w
<1>4. \A x \in Channels : Holds(w.cnt[x], w.snap[x])
  BY <1>1, <1>3 DEF Sound
<1>5. Sound(w)
  BY <1>2, <1>4 DEF Sound
<1> QED
  BY <1>5 DEF w

\* The history that goes with a clock, with a write, and the timer line.
LEMMA SameLatches ==
  ASSUME NEW u, Sound(u), NEW w \in Units, w.cnt = u.cnt, w.snap = u.snap
  PROVE  Sound(w)
BY DEF Sound

LEMMA Aged ==
  ASSUME NEW u, Sound(u), NEW ch \in Channels, NEW a \in 0 .. Size,
         NEW t \in SUBSET Channels
  PROVE  Sound([u EXCEPT !.age[ch] = a, !.ticked = t])
<1> DEFINE w == [u EXCEPT !.age[ch] = a, !.ticked = t]
<1>1. w \in Units /\ w.cnt = u.cnt /\ w.snap = u.snap
  BY DEF Sound, Units
<1> HIDE DEF w
<1>2. Sound(w)
  BY <1>1, SameLatches
<1> QED
  BY <1>2 DEF w

LEMMA Noted ==
  ASSUME NEW u, Sound(u), NEW ch \in Channels, NEW p \in Byte \cup {None},
         NEW n \in Word \cup {None}
  PROVE  Sound([u EXCEPT !.part[ch] = p, !.count[ch] = n])
<1> DEFINE w == [u EXCEPT !.part[ch] = p, !.count[ch] = n]
<1>1. w \in Units /\ w.cnt = u.cnt /\ w.snap = u.snap
  BY DEF Sound, Units
<1> HIDE DEF w
<1>2. Sound(w)
  BY <1>1, SameLatches
<1> QED
  BY <1>2 DEF w

LEMMA Raised == ASSUME NEW u, Sound(u) PROVE Sound([u EXCEPT !.line = TRUE])
<1> DEFINE w == [u EXCEPT !.line = TRUE]
<1>1. w \in Units /\ w.cnt = u.cnt /\ w.snap = u.snap
  BY DEF Sound, Units
<1> HIDE DEF w
<1>2. Sound(w)
  BY <1>1, SameLatches
<1> QED
  BY <1>2 DEF w

LEMMA AdvanceSound ==
  ASSUME NEW u, Sound(u), NEW ch \in Channels, NEW k, Keeps(k, u.cnt[ch])
  PROVE  Sound(Advance(u, ch, k))
<1> DEFINE w == [u EXCEPT !.cnt[ch] = k]
<1> DEFINE a == IF k.out # u.cnt[ch].out THEN 0
                ELSE IF u.age[ch] < Size THEN u.age[ch] + 1 ELSE u.age[ch]
<1> DEFINE t == u.ticked \cup {ch}
<1>1. Sound(w)
  BY Replaced
<1>2. u \in Units
  BY DEF Sound
<1>3. a \in 0 .. Size /\ t \in SUBSET Channels
  BY <1>2, SizeFacts DEF Units
<1>4. Advance(u, ch, k) = [w EXCEPT !.age[ch] = a, !.ticked = t]
  BY <1>2 DEF Advance, Units
<1> HIDE DEF a, t, w
<1>5. Sound([w EXCEPT !.age[ch] = a, !.ticked = t])
  BY <1>1, <1>3, Aged
<1> QED
  BY <1>4, <1>5

LEMMA CascadeSound == ASSUME NEW u, Sound(u) PROVE Sound(Cascade(u))
<1>1. 1 \in Channels /\ u.cnt[1] \in Counters
  BY DEF Channels, Sound, Units
<1>2. Keeps(Tick(u.cnt[1]), u.cnt[1])
  BY <1>1, TickKeeps
<1> QED
  BY <1>1, <1>2, AdvanceSound DEF Cascade

LEMMA OutSound ==
  ASSUME NEW u, Sound(u), NEW ch \in Channels, NEW changed \in BOOLEAN
  PROVE  Sound(Out(u, ch, changed))
<1>1. Sound([u EXCEPT !.line = TRUE])
  BY Raised
<1> QED
  BY <1>1, CascadeSound DEF Out

LEMMA ClockSound ==
  ASSUME NEW u, Sound(u), NEW ch \in Channels PROVE Sound(Clock(u, ch))
<1> DEFINE k == Tick(u.cnt[ch])
<1> DEFINE changed == k.out # u.cnt[ch].out
<1>1. Keeps(k, u.cnt[ch])
  BY TickKeeps DEF Sound, Units
<1>2. Clock(u, ch) = u \/ Clock(u, ch) = Out(Advance(u, ch, k), ch, changed)
  BY DEF Clock
<1>3. changed \in BOOLEAN
  OBVIOUS
<1> HIDE DEF k, changed
<1> QED
  BY <1>1, <1>2, <1>3, AdvanceSound, OutSound

\* What PutByte stores, before the callback of the pin.
Stores(u, ch, d) ==
  [u EXCEPT !.cnt[ch] = Write(u.cnt[ch], d), !.age[ch] = 0, !.ticked = u.ticked \ {ch},
            !.part[ch] = PartAfter(u, ch, d), !.count[ch] = CountAfter(u, ch, d)]

LEMMA StoresSound ==
  ASSUME NEW u, Sound(u), NEW ch \in Channels, NEW d \in Byte
  PROVE  Sound(Stores(u, ch, d))
<1> DEFINE c == u.cnt[ch]
<1> DEFINE k == Write(c, d)
<1> DEFINE p == PartAfter(u, ch, d)
<1> DEFINE n == CountAfter(u, ch, d)
<1> DEFINE t == u.ticked \ {ch}
<1> DEFINE w == [u EXCEPT !.cnt[ch] = k]
<1> DEFINE x == [w EXCEPT !.age[ch] = 0, !.ticked = t]
<1> DEFINE v == [x EXCEPT !.part[ch] = p, !.count[ch] = n]
<1>1. u \in Units /\ c \in Counters
  BY DEF Sound, Units
<1>2. Keeps(k, c)
  BY <1>1, WriteKeeps
<1>3. p \in Byte \cup {None}
  BY DEF PartAfter
<1>4. n \in Word \cup {None}
  <2>1. d \in Word /\ d * Radix \in Word
    BY ByteIsWord
  <2>2. CASE ~LowFirst(u, ch) /\ c.rw = Halves
    <3>1. u.part[ch] \in Byte
      BY <1>1, <2>2 DEF LowFirst, Units
    <3>2. d * Radix + u.part[ch] \in Word
      BY <3>1, Joined
    <3> QED
      BY <2>1, <2>2, <3>2 DEF CountAfter, LowFirst
  <2>3. CASE ~(~LowFirst(u, ch) /\ c.rw = Halves)
    BY <2>1, <2>3 DEF CountAfter, LowFirst
  <2> QED
    BY <2>2, <2>3
<1>5. 0 \in 0 .. Size /\ t \in SUBSET Channels
  BY <1>1, SizeFacts DEF Units
<1>6. v = Stores(u, ch, d)
  BY <1>1, Zenon DEF Stores, Units
<1> HIDE DEF k, p, n, t
<1>8. Sound(w)
  BY <1>2, Replaced
<1> HIDE DEF w
<1>9. Sound(x)
  BY <1>5, <1>8, Aged
<1> HIDE DEF x
<1>10. Sound(v)
  BY <1>3, <1>4, <1>9, Noted
<1> HIDE DEF v
<1> QED
  BY <1>6, <1>10

LEMMA PutByteSound ==
  ASSUME NEW u, Sound(u), NEW ch \in Channels, NEW d \in Byte
  PROVE  Sound(PutByte(u, ch, d))
<1> DEFINE changed == Write(u.cnt[ch], d).out # u.cnt[ch].out
<1>1. u \in Units
  BY DEF Sound
<1>2. PutByte(u, ch, d) = Out(Stores(u, ch, d), ch, changed)
  BY <1>1 DEF PutByte, Stores, Units
<1>3. Sound(Stores(u, ch, d)) /\ changed \in BOOLEAN
  BY StoresSound
<1> HIDE DEF changed
<1> QED
  BY <1>2, <1>3, OutSound

-----------------------------------------------------------------------------
(* The invariant: the state is well typed and the latches are whole.       *)
IInv == TypeOK /\ \A ch \in Channels : Holds(cnt[ch], snap[ch])

LEMMA UnitSound == ASSUME IInv PROVE Sound(Unit)
BY DEF IInv, TypeOK, Sound, Unit, Units

\* An action that assigns a sound unit keeps the invariant.
LEMMA BecomeSound ==
  ASSUME IInv, NEW u, Sound(u), Become(u),
         flags' \in [zero : BOOLEAN, two : BOOLEAN], cycles' \in Nat,
         phase' \in {"cpu", "timer"}
  PROVE  IInv'
<1>1. TypeOK'
  BY DEF Become, Sound, Units, TypeOK
<1>2. \A ch \in Channels : Holds(cnt'[ch], snap'[ch])
  BY DEF Become, Sound
<1> QED
  BY <1>1, <1>2 DEF IInv, Holds

-----------------------------------------------------------------------------
(* Every step keeps the invariant.                                         *)

LEMMA Initially == Init => IInv
<1> SUFFICES ASSUME Init PROVE IInv
  OBVIOUS
<1>1. InitCounter \in Counters /\ InitCounter.olRd = {}
  <2>1. Zeros \in [Halves -> Byte] /\ 0 \in Word
    BY RadixAssumption, SizeFacts DEF Zeros, Byte, Word
  <2> QED
    BY <2>1 DEF InitCounter, Counters, Modes
<1>2. TypeOK
  <2>1. 0 \in Word /\ 0 \in 0 .. Size
    BY SizeFacts DEF Word
  <2>2. cnt \in [Channels -> Counters] /\ snap \in [Channels -> Word]
    BY <1>1, <2>1 DEF Init
  <2>3. /\ age \in [Channels -> 0 .. Size]
        /\ part \in [Channels -> Byte \cup {None}]
        /\ count \in [Channels -> Word \cup {None}]
    BY <2>1 DEF Init
  <2> QED
    BY <2>2, <2>3 DEF Init, TypeOK
<1>3. \A ch \in Channels : Holds(cnt[ch], snap[ch])
  BY <1>1 DEF Init, Holds
<1> QED
  BY <1>2, <1>3 DEF IInv

\* A port access: the unit it assigns is sound and the flags are flags.
LEMMA InstructionKeeps ==
  ASSUME IInv, NEW u, Sound(u), Instruction(u),
         flags' \in [zero : BOOLEAN, two : BOOLEAN]
  PROVE  IInv'
<1>1. Become(u) /\ cycles' \in Nat /\ phase' \in {"cpu", "timer"}
  BY DEF Instruction, IInv, TypeOK
<1> QED
  BY <1>1, BecomeSound

LEMMA FlagsType ==
  ASSUME IInv
  PROVE  /\ flags \in [zero : BOOLEAN, two : BOOLEAN]
         /\ \A ch \in Channels : FlagsAfter(ch) \in [zero : BOOLEAN, two : BOOLEAN]
BY DEF IInv, TypeOK, FlagsAfter

\* A counter replaced together with its latched word.
LEMMA Reprogrammed ==
  ASSUME NEW u, Sound(u), NEW ch \in Channels, NEW k \in Counters, NEW s \in Word,
         NEW p \in Byte \cup {None}, NEW n \in Word \cup {None}, Holds(k, s)
  PROVE  Sound([u EXCEPT !.cnt[ch] = k, !.part[ch] = p, !.count[ch] = n, !.snap[ch] = s])
<1> DEFINE v == [u EXCEPT !.cnt[ch] = k, !.snap[ch] = s]
<1> DEFINE w == [v EXCEPT !.part[ch] = p, !.count[ch] = n]
<1>1. v \in Units
  BY DEF Sound, Units
<1>2. \A x \in Channels : /\ v.cnt[x] = IF x = ch THEN k ELSE u.cnt[x]
                          /\ v.snap[x] = IF x = ch THEN s ELSE u.snap[x]
  BY DEF Sound, Units
<1>3. w = [u EXCEPT !.cnt[ch] = k, !.part[ch] = p, !.count[ch] = n, !.snap[ch] = s]
  BY DEF Sound, Units
<1> HIDE DEF v
<1>4. \A x \in Channels : Holds(v.cnt[x], v.snap[x])
  BY <1>2 DEF Sound
<1>5. Sound(v)
  BY <1>1, <1>4 DEF Sound
<1>6. Sound(w)
  BY <1>5, Noted
<1> HIDE DEF w
<1> QED
  BY <1>3, <1>6

LEMMA ControlWordKeeps ==
  ASSUME IInv, NEW p \in Programs, ControlWord(p[1], p[2], p[3]) PROVE IInv'
<1> DEFINE ch == p[1]
<1> DEFINE rw == p[2]
<1> DEFINE mode == p[3]
<1> DEFINE k == Control(cnt[ch], rw, mode)
<1> DEFINE s == IF rw = {} /\ cnt[ch].olRd = {} THEN cnt[ch].val ELSE snap[ch]
<1> DEFINE b == IF rw = {} THEN part[ch] ELSE None
<1> DEFINE n == IF rw = {} THEN count[ch] ELSE None
<1> DEFINE u == [Unit EXCEPT !.cnt[ch] = k, !.part[ch] = b, !.count[ch] = n, !.snap[ch] = s]
<1>1. ch \in Channels /\ rw \in SUBSET Halves /\ mode \in Modes
  BY SoftwareAssumption
<1>2. cnt[ch] \in Counters /\ snap[ch] \in Word /\ Holds(cnt[ch], snap[ch])
  BY <1>1 DEF IInv, TypeOK
<1>3. k \in Counters /\ Holds(k, s)
  BY <1>1, <1>2, ControlHolds
<1>4. s \in Word
  BY <1>2 DEF Counters
<1>5. b \in Byte \cup {None} /\ n \in Word \cup {None}
  BY <1>1 DEF IInv, TypeOK
<1>6. Instruction(u) /\ flags' = flags
  BY DEF ControlWord, Unit
<1> HIDE DEF k, s, b, n
<1>7. Sound(u)
  BY <1>1, <1>3, <1>4, <1>5, UnitSound, Reprogrammed
<1> HIDE DEF u
<1> QED
  BY <1>6, <1>7, InstructionKeeps, FlagsType

LEMMA WriteKeepsInv ==
  ASSUME IInv, NEW p \in Programs, NEW d \in Values,
         WriteByte(p[1], d) \/ \E e \in Values : WriteWord(p[1], d, e)
  PROVE  IInv'
<1> DEFINE ch == p[1]
<1>1. ch \in Channels /\ Values \subseteq Byte
  BY SoftwareAssumption
<1> HIDE DEF ch
<1>2. Sound(PutByte(Unit, ch, d))
  BY <1>1, UnitSound, PutByteSound
<1>3. FlagsAfter(ch) \in [zero : BOOLEAN, two : BOOLEAN]
  BY <1>1, FlagsType
<1>4. CASE WriteByte(ch, d)
  BY <1>2, <1>3, <1>4, InstructionKeeps DEF WriteByte
<1>5. ASSUME NEW e \in Values, WriteWord(ch, d, e) PROVE IInv'
  <2>1. Sound(PutByte(PutByte(Unit, ch, d), ch, e))
    BY <1>1, <1>2, PutByteSound
  <2> QED
    BY <1>3, <1>5, <2>1, InstructionKeeps DEF WriteWord
<1> QED
  BY <1>4, <1>5 DEF ch

\* A counter read once or twice.
LEMMA ReadSound ==
  ASSUME NEW u, Sound(u), NEW ch \in Channels, NEW k \in Counters, Holds(k, u.snap[ch])
  PROVE  Sound([u EXCEPT !.cnt[ch] = k])
<1> DEFINE w == [u EXCEPT !.cnt[ch] = k]
<1>1. w \in Units
  BY DEF Units, Sound
<1>2. \A x \in Channels : w.cnt[x] = (IF x = ch THEN k ELSE u.cnt[x]) /\ w.snap[x] = u.snap[x]
  BY DEF Units, Sound
<1> HIDE DEF w
<1>3. \A x \in Channels : Holds(w.cnt[x], w.snap[x])
  BY <1>2 DEF Sound
<1>4. Sound(w)
  BY <1>1, <1>3 DEF Sound
<1> QED
  BY <1>4 DEF w

LEMMA ReadKeepsInv ==
  ASSUME IInv, NEW ch \in Readers, ReadByte(ch) \/ ReadWord(ch) PROVE IInv'
<1>1. ch \in Channels
  BY SoftwareAssumption
<1>2. cnt[ch] \in Counters /\ snap[ch] \in Word /\ Holds(cnt[ch], snap[ch])
  BY <1>1 DEF IInv, TypeOK
<1>3. Read(cnt[ch]) \in Counters /\ Holds(Read(cnt[ch]), snap[ch])
  BY <1>2, ReadHolds
<1>4. Read(Read(cnt[ch])) \in Counters /\ Holds(Read(Read(cnt[ch])), snap[ch])
  BY <1>2, <1>3, ReadHolds
<1>5. Unit.snap = snap /\ Unit.cnt = cnt
  BY DEF Unit
<1>6. /\ Sound([Unit EXCEPT !.cnt[ch] = Read(cnt[ch])])
      /\ Sound([Unit EXCEPT !.cnt[ch] = Read(Read(cnt[ch]))])
  BY <1>1, <1>3, <1>4, <1>5, UnitSound, ReadSound
<1>7. /\ flags' = flags
      /\ \/ Instruction([Unit EXCEPT !.cnt[ch] = Read(cnt[ch])])
         \/ Instruction([Unit EXCEPT !.cnt[ch] = Read(Read(cnt[ch]))])
  BY <1>5 DEF ReadByte, ReadWord
<1> QED
  BY <1>6, <1>7, InstructionKeeps, FlagsType

LEMMA StatusKeeps ==
  ASSUME IInv, NEW keep \in BOOLEAN, WriteStatus(keep) PROVE IInv'
<1> DEFINE k == [cnt[2] EXCEPT !.out = FALSE]
<1> DEFINE v == [Unit EXCEPT !.cnt[2] = k]
<1> DEFINE w == [v EXCEPT !.count[2] = None]
<1>1. 2 \in Channels /\ cnt[2] \in Counters
  BY DEF Channels, IInv, TypeOK
<1>2. Keeps(k, cnt[2])
  BY <1>1 DEF Counters, Keeps
<1>3. Unit.cnt = cnt
  BY DEF Unit
<1>4. Instruction(w)
  <2>1. w = [Unit EXCEPT !.cnt[2].out = FALSE, !.count[2] = None]
    BY DEF Unit
  <2> QED
    BY <2>1 DEF WriteStatus
<1>5. flags' \in [zero : BOOLEAN, two : BOOLEAN]
  BY DEF WriteStatus, IInv, TypeOK
<1> HIDE DEF k
<1>6. Sound(v)
  BY <1>1, <1>2, <1>3, UnitSound, Replaced
<1> HIDE DEF v
<1>7. w \in Units /\ w.cnt = v.cnt /\ w.snap = v.snap
  BY <1>1, <1>6 DEF Sound, Units
<1> HIDE DEF w
<1>8. Sound(w)
  BY <1>6, <1>7, SameLatches
<1> QED
  BY <1>4, <1>5, <1>8, InstructionKeeps

LEMMA AccessKeeps == ASSUME IInv, Access PROVE IInv'
<1>1. ASSUME NEW p \in Programs, ControlWord(p[1], p[2], p[3]) PROVE IInv'
  BY <1>1, ControlWordKeeps
<1>2. ASSUME NEW p \in Programs, NEW d \in Values,
             WriteByte(p[1], d) \/ \E e \in Values : WriteWord(p[1], d, e)
      PROVE  IInv'
  BY <1>2, WriteKeepsInv
<1>3. ASSUME NEW ch \in Readers, ReadByte(ch) \/ ReadWord(ch) PROVE IInv'
  BY <1>3, ReadKeepsInv
<1>4. ASSUME NEW keep \in BOOLEAN, WriteStatus(keep) PROVE IInv'
  BY <1>4, StatusKeeps
<1>5. CASE Other
  BY <1>5, UnitSound, InstructionKeeps, FlagsType DEF Other
<1> QED
  BY <1>1, <1>2, <1>3, <1>4, <1>5 DEF Access

LEMMA ClockTimerKeeps ==
  ASSUME IInv, NEW cost \in Costs, ClockTimer(cost) PROVE IInv'
<1> DEFINE total == cycles + cost
<1> DEFINE u == IF total >= Limit THEN Clock(Clock(Unit, 0), 2) ELSE Unit
<1>1. total \in Nat /\ Limit \in Nat
  BY LimitAssumption DEF IInv, TypeOK
<1>2. Become(u) /\ phase' \in {"cpu", "timer"}
  BY DEF ClockTimer
<1>3. cycles' \in Nat
  BY <1>1 DEF ClockTimer
<1>4. flags' \in [zero : BOOLEAN, two : BOOLEAN]
  BY Zenon DEF ClockTimer, IInv, TypeOK
<1>5. 0 \in Channels /\ 2 \in Channels
  BY DEF Channels
<1>6. Sound(u)
  BY <1>5, UnitSound, ClockSound
<1> HIDE DEF u
<1> QED
  BY <1>2, <1>3, <1>4, <1>6, BecomeSound

LEMMA ResetKeeps == ASSUME IInv, Reset PROVE IInv'
<1>1. /\ Become(Unit) /\ cycles' \in Nat /\ phase' \in {"cpu", "timer"}
      /\ flags' \in [zero : BOOLEAN, two : BOOLEAN]
  BY DEF Reset, IInv, TypeOK
<1> QED
  BY <1>1, UnitSound, BecomeSound

LEMMA StutterKeeps == ASSUME IInv, UNCHANGED vars PROVE IInv'
<1>1. TypeOK'
  BY DEF IInv, TypeOK, vars
<1>2. \A ch \in Channels : Holds(cnt'[ch], snap'[ch])
  BY DEF IInv, vars
<1> QED
  BY <1>1, <1>2 DEF IInv, Holds

-----------------------------------------------------------------------------
(* The invariant holds in every reachable state, for every Radix and for   *)
(* every software.                                                         *)
THEOREM Invariance == Spec => []IInv
<1>1. Init => IInv
  BY Initially
<1>2. IInv /\ [Next]_vars => IInv'
  <2> SUFFICES ASSUME IInv, [Next]_vars PROVE IInv'
    OBVIOUS
  <2>1. CASE Access
    BY <2>1, AccessKeeps
  <2>2. CASE Reset
    BY <2>2, ResetKeeps
  <2>3. ASSUME NEW cost \in Costs, ClockTimer(cost) PROVE IInv'
    BY <2>3, ClockTimerKeeps
  <2>4. CASE UNCHANGED vars
    BY <2>4, StutterKeeps
  <2> QED
    BY <2>1, <2>2, <2>3, <2>4 DEF Next
<1> QED
  BY <1>1, <1>2, PTL DEF Spec

(* The counters, registers and values of the 8253 stay within their widths *)
(* whatever software writes and however its accesses fall between clocks.  *)
THEOREM TypeCorrect == Spec => []TypeOK
<1>1. IInv => TypeOK
  BY DEF IInv
<1> QED
  BY <1>1, Invariance, PTL

(* A latched counter is read whole: the halves that e8253_cnt_get_uint8    *)
(* returns after a latch command are those of one value of the counter,    *)
(* the one at the last latch command that took effect, whatever clocks,    *)
(* writes and further commands come in between.                            *)
THEOREM LatchIsWhole == Spec => []LatchedReads
<1>1. IInv => LatchedReads
  <2> SUFFICES ASSUME IInv, NEW ch \in Channels, cnt[ch].olRd # {}
               PROVE  ReadValue(cnt[ch]) = IF "lo" \in cnt[ch].olRd
                                             THEN snap[ch] % Radix
                                             ELSE snap[ch] \div Radix
    BY DEF LatchedReads
  <2>1. /\ cnt[ch].ol["lo"] = snap[ch] % Radix
        /\ cnt[ch].ol["hi"] = snap[ch] \div Radix
    BY DEF IInv, Holds
  <2>2. cnt[ch].olRd \subseteq Halves
    BY DEF IInv, TypeOK, Counters
  <2>3. CASE "lo" \in cnt[ch].olRd
    <3>1. ReadValue(cnt[ch]) = cnt[ch].ol["lo"]
      BY <2>3 DEF ReadValue
    <3> QED
      BY <2>1, <2>3, <3>1
  <2>4. CASE "lo" \notin cnt[ch].olRd
    <3>1. cnt[ch].olRd = {"hi"}
      BY <2>2, <2>4 DEF Halves
    <3>2. ReadValue(cnt[ch]) = cnt[ch].ol["hi"]
      BY <2>4, <3>1 DEF ReadValue
    <3> QED
      BY <2>1, <2>4, <3>2
  <2> QED
    BY <2>3, <2>4
<1> QED
  BY <1>1, Invariance, PTL

-----------------------------------------------------------------------------
(* When OUT changes.  Each mode relates what is left of the count, the age *)
(* a (clocks since the load or the last change of OUT) and the value v the *)
(* counter shows: the three relations below, each kept by a clock until    *)
(* the one at which OUT has to change.  First the arithmetic of words.     *)

LEMMA SizeEven == Size % 2 = 0 /\ Size >= 4 /\ Size = 2 * (Size \div 2)
<1>1. Radix \in Nat /\ Radix > 1 /\ Radix % 2 = 0 BY RadixAssumption
<1> DEFINE k == Radix \div 2
<1>2. Radix = 2 * k /\ k >= 1 /\ k \in Nat BY <1>1
<1> HIDE DEF k
<1> DEFINE j == k * Radix
<1>3. j \in Nat /\ j >= 2 BY <1>1, <1>2, SMT
<1>4. Size = 2 * j BY <1>1, <1>2, SMT DEF Size
<1> HIDE DEF j
<1> QED BY <1>3, <1>4

\* A remainder within one turn of the counter.
LEMMA Remainder ==
  ASSUME NEW i \in Int, -Size <= i, i <= Size
  PROVE  i % Size = IF i < 0 THEN i + Size ELSE IF i = Size THEN 0 ELSE i
<1>1. Size \in Nat /\ Size > 1 BY SizeFacts
<1> DEFINE q == i \div Size
           r == i % Size
<1>2. q \in Int /\ r \in 0..(Size - 1) /\ i = Size * q + r BY <1>1, SMT
<1> HIDE DEF q, r
<1>3. CASE q >= 2
  <2>1. Size * q >= Size * 2 BY <1>1, <1>2, <1>3, SMT
  <2> QED BY <1>1, <1>2, <2>1
<1>4. CASE q <= -2
  <2>1. Size * q <= Size * (-2) BY <1>1, <1>2, <1>4, SMT
  <2> QED BY <1>1, <1>2, <2>1
<1>5. q \in {-1, 0, 1} \/ q >= 2 \/ q <= -2 BY <1>2
<1>6. CASE q \in {-1, 0, 1}
  <2>1. Size * 0 = 0 /\ Size * 1 = Size /\ Size * (-1) = -Size BY <1>1
  <2> QED BY <1>1, <1>2, <1>6, <2>1 DEF r
<1> QED BY <1>3, <1>4, <1>5, <1>6

\* Counter c has stored what software wrote, p being the low byte it still
\* owes the high one of: the halves not selected are zero.
Written(c, p) ==
  /\ c.rw # {} /\ c.crWr \subseteq c.rw
  /\ \A h \in Halves \ c.rw : c.cr[h] = 0
  /\ p # None => c.rw = Halves /\ c.crWr = {"hi"} /\ c.cr["lo"] = p
  /\ p = None => c.crWr \in {{}, c.rw}

\* Mode 0 counts n down to zero, from Size when n is zero; mode 2 shows one
\* more than the clocks left; mode 3 goes two at a time, and shows zero or the
\* even count at the start of a half period.
Falling(n, a, v) ==
  LET D == IF n = 0 THEN Size ELSE n IN D - a > 0 /\ v = (D - a) % Size
Dividing(n, a, v) ==
  LET D == IF n = 0 THEN Size - 1 ELSE n - 1 IN D - a > 0 /\ v = (D - a + 1) % Size
Halving(n, a, v) ==
  /\ HalfPeriod(n) - a > 0
  /\ \/ a = 0 /\ v \in {0, Even(n)}
     \/ a > 0 /\ v = 2 * (HalfPeriod(n) - a)

\* Counter c runs on schedule with count n at age a.
Schedule(c, n, a) ==
  /\ n = Count(c)
  /\ c.mode \in {0, 2, 3} => c.counting
  /\ c.mode = 0 /\ c.out = FALSE => Falling(n, a, c.val)
  /\ c.mode = 2 /\ c.out = FALSE => n # 1 /\ a = 0 /\ c.val = 1
  /\ c.mode = 2 /\ c.out = TRUE /\ n = 1 => c.val = 1
  /\ c.mode = 2 /\ c.out = TRUE /\ n # 1 => Dividing(n, a, c.val)
  /\ c.mode = 3 => Halving(n, a, c.val)

\* What a clock does to a counter of each mode.
Same(k, c) ==
  /\ k \in Counters
  /\ k.cr = c.cr /\ k.crWr = c.crWr /\ k.rw = c.rw /\ k.mode = c.mode /\ k.counting = c.counting

LEMMA SameCount == ASSUME NEW k, NEW c, Same(k, c) PROVE Count(k) = Count(c)
  BY DEF Same, Count

LEMMA TickOnceIs ==
  ASSUME NEW c \in Counters, c.counting, c.mode = 0
  PROVE  LET k == Tick(c)
         IN  /\ Same(k, c)
             /\ c.out => k.out = c.out
             /\ ~c.out => k.val = (c.val - 1) % Size /\ k.out = (k.val = 0)
<1>1. Tick(c) = TickOnce(c) BY DEF Tick
<1>2. Tick(c) \in Counters BY TickKeeps DEF Keeps
<1> DEFINE v == (c.val - 1) % Size
<1>3. CASE c.out
  <2>1. TickOnce(c) = c BY <1>3, Zenon DEF TickOnce
  <2> QED BY <1>1, <1>2, <1>3, <2>1, Zenon DEF Same
<1>4. CASE ~c.out
  <2>1. TickOnce(c) = [c EXCEPT !.val = v, !.out = (v = 0)] BY <1>4, Zenon DEF TickOnce
  <2> HIDE DEF v
  <2>2. LET k == [c EXCEPT !.val = v, !.out = (v = 0)]
        IN k.val = v /\ k.out = (v = 0) /\ k.cr = c.cr /\ k.crWr = c.crWr /\ k.rw = c.rw
           /\ k.mode = c.mode /\ k.counting = c.counting
    BY Zenon DEF Counters
  <2> QED BY <1>1, <1>2, <1>4, <2>1, <2>2, Zenon DEF Same, v
<1> QED BY <1>3, <1>4

LEMMA TickRateIs ==
  ASSUME NEW c \in Counters, c.counting, c.mode = 2
  PROVE  LET k == Tick(c)
             v == (c.val - 1) % Size
         IN  /\ Same(k, c)
             /\ v = 0 => k.val = Count(c) /\ k.out = TRUE
             /\ v # 0 => k.val = v /\ k.out = (c.out /\ v # 1)
<1> DEFINE v == (c.val - 1) % Size
           b == [c EXCEPT !.val = v]
<1>1. Tick(c) = TickRate(c) BY DEF Tick
<1>2. Tick(c) \in Counters BY TickKeeps DEF Keeps
<1>3. CASE v = 0
  <2>1. TickRate(c) = Load(b) BY <1>3, Zenon DEF TickRate
  <2> HIDE DEF v
  <2>2. /\ b.cr = c.cr /\ b.crWr = c.crWr /\ b.rw = c.rw /\ b.mode = c.mode
        /\ b.counting = c.counting /\ b.out = c.out
    BY Zenon DEF Counters
  <2>3. Load(b) = [b EXCEPT !.out = (b.mode = 2), !.val = Count(b), !.counting = TRUE]
    BY <2>2, Zenon DEF Load
  <2>4. Count(b) = Count(c) BY <2>2, Zenon DEF Count
  <2>5. LET k == [b EXCEPT !.out = (b.mode = 2), !.val = Count(b), !.counting = TRUE]
        IN /\ k.val = Count(b) /\ k.out = (b.mode = 2) /\ k.counting = TRUE
           /\ k.cr = b.cr /\ k.crWr = b.crWr /\ k.rw = b.rw /\ k.mode = b.mode
    BY Zenon DEF Counters
  <2>6. (b.mode = 2) = TRUE BY <2>2
  <2>7. c.counting = TRUE BY Zenon DEF Counters
  <2> QED BY <1>1, <1>2, <1>3, <2>1, <2>2, <2>3, <2>4, <2>5, <2>6, <2>7, Zenon DEF Same, v
<1>4. CASE v # 0
  <2> DEFINE o == c.out /\ v # 1
  <2>1. TickRate(c) = [c EXCEPT !.val = v, !.out = o] BY <1>4, Zenon DEF TickRate
  <2> HIDE DEF v
  <2>2. LET k == [c EXCEPT !.val = v, !.out = o]
        IN k.val = v /\ k.out = o /\ k.cr = c.cr /\ k.crWr = c.crWr /\ k.rw = c.rw
           /\ k.mode = c.mode /\ k.counting = c.counting
    BY Zenon DEF Counters
  <2> QED BY <1>1, <1>2, <1>4, <2>1, <2>2, Zenon DEF Same, v
<1> QED BY <1>3, <1>4

LEMMA TickSquareIs ==
  ASSUME NEW c \in Counters, c.counting, c.mode = 3
  PROVE  LET k == Tick(c)
             v == IF c.val = 0 THEN Even((Count(c) - 2) % Size) ELSE (c.val - 2) % Size
         IN  /\ Same(k, c) /\ k.val = v
             /\ v = 0 => k.out = ~c.out
             /\ v # 0 => k.out = c.out
<1> DEFINE v == IF c.val = 0 THEN Even((Count(c) - 2) % Size) ELSE (c.val - 2) % Size
           o == IF v = 0 THEN ~c.out ELSE c.out
<1>1. Tick(c) = TickSquare(c) BY DEF Tick
<1>2. Tick(c) \in Counters BY TickKeeps DEF Keeps
<1>3. TickSquare(c) = [c EXCEPT !.val = v, !.out = o] BY Zenon DEF TickSquare
<1> HIDE DEF v
<1>4. LET k == [c EXCEPT !.val = v, !.out = o]
      IN k.val = v /\ k.out = o /\ k.cr = c.cr /\ k.crWr = c.crWr /\ k.rw = c.rw
         /\ k.mode = c.mode /\ k.counting = c.counting
  BY Zenon DEF Counters
<1> QED BY <1>1, <1>2, <1>3, <1>4, Zenon DEF Same, v

LEMMA Words == \A v \in Word : v \in Int /\ 0 <= v /\ v < Size
  BY SizeFacts DEF Word

\* The arithmetic of a clock, for each mode: D is the number of clocks from
\* one change of OUT to the next, w the value after the clock.
LEMMA OnceOnTime ==
  ASSUME NEW n \in Word, NEW a \in 0 .. Size, NEW v \in Word,
         NEW D, D = (IF n = 0 THEN Size ELSE n), D - a > 0, v = (D - a) % Size,
         NEW w, w = (v - 1) % Size
  PROVE  /\ w = 0 <=> a + 1 = D
         /\ w # 0 => D - (a + 1) > 0 /\ w = (D - (a + 1)) % Size
         /\ a < Size
<1>1. Size \in Nat /\ Size >= 4 /\ n \in Int /\ 0 <= n /\ n < Size BY SizeFacts, SizeEven, Words
<1>2. D \in Int /\ 0 < D /\ D <= Size /\ a \in Int /\ 0 <= a BY <1>1
<1>3. v = IF D - a = Size THEN 0 ELSE D - a BY <1>1, <1>2, Remainder
<1>4. w = IF v = 0 THEN Size - 1 ELSE v - 1 BY <1>1, <1>2, <1>3, Remainder
<1>5. D - (a + 1) > 0 => (D - (a + 1)) % Size = D - (a + 1) BY <1>1, <1>2, Remainder
<1> QED BY <1>1, <1>2, <1>3, <1>4, <1>5

LEMMA RateOnTime ==
  ASSUME NEW n \in Word, n # 1, NEW a \in 0 .. Size, NEW v \in Word,
         NEW D, D = (IF n = 0 THEN Size - 1 ELSE n - 1), D - a > 0, v = (D - a + 1) % Size,
         NEW w, w = (v - 1) % Size
  PROVE  /\ w # 0
         /\ w = 1 <=> a + 1 = D
         /\ w # 1 => D - (a + 1) > 0 /\ w = (D - (a + 1) + 1) % Size
         /\ a < Size
<1>1. Size \in Nat /\ Size >= 4 /\ n \in Int /\ 0 <= n /\ n < Size BY SizeFacts, SizeEven, Words
<1>2. D \in Int /\ 0 < D /\ D < Size /\ a \in Int /\ 0 <= a BY <1>1
<1>3. v = IF D - a + 1 = Size THEN 0 ELSE D - a + 1 BY <1>1, <1>2, Remainder
<1>4. w = IF v = 0 THEN Size - 1 ELSE v - 1 BY <1>1, <1>2, <1>3, Remainder
<1>5. D - (a + 1) > 0 => (D - (a + 1) + 1) % Size = D - (a + 1) + 1 BY <1>1, <1>2, Remainder
<1> QED BY <1>1, <1>2, <1>3, <1>4, <1>5

LEMMA Doubled ==
  ASSUME NEW D \in Int, NEW a \in Int, NEW w, w = 2 * (D - (a + 1)), D - a > 0
  PROVE  (w = 0 <=> a + 1 = D) /\ (w # 0 => D - (a + 1) > 0)
OBVIOUS

LEMMA SquareOnTime ==
  ASSUME NEW n \in Word, NEW a \in 0 .. Size, NEW v \in Word,
         NEW D, D = HalfPeriod(n), D - a > 0,
         \/ a = 0 /\ v \in {0, Even(n)}
         \/ a > 0 /\ v = 2 * (D - a),
         NEW w, w = (IF v = 0 THEN Even((n - 2) % Size) ELSE (v - 2) % Size)
  PROVE  /\ w = 0 <=> a + 1 = D
         /\ w # 0 => D - (a + 1) > 0 /\ w = 2 * (D - (a + 1))
         /\ D > 0 /\ a < Size
<1>1. /\ Size \in Nat /\ Size >= 4 /\ n \in Int /\ 0 <= n /\ n < Size /\ a \in Int /\ 0 <= a
      /\ v \in Int /\ 0 <= v /\ v < Size
  BY SizeFacts, SizeEven, Words
<1> DEFINE h == Size \div 2
<1>2. Size = 2 * h /\ h \in Int BY <1>1, SizeEven
<1>3. D = IF n < 2 THEN h ELSE n \div 2 BY DEF HalfPeriod
<1> HIDE DEF h
<1>4. Even(n) = n - (n % 2) /\ n % 2 \in {0, 1} /\ n = 2 * (n \div 2) + (n % 2) BY <1>1 DEF Even
<1>5. D \in Int /\ D <= h /\ D >= 1 BY <1>1, <1>2, <1>3, <1>4
<1>6. w = 2 * (D - (a + 1))
  <2>1. CASE v # 0
    <3>1. v = 2 * (D - a)
      <4>1. CASE a = 0 /\ v = Even(n)
        <5>1. n >= 2 BY <1>1, <1>4, <2>1, <4>1
        <5> QED BY <1>1, <1>3, <1>4, <4>1, <5>1
      <4> QED BY <1>1, <2>1, <4>1
    <3>2. (v - 2) % Size = v - 2 BY <1>1, <1>5, <3>1, Remainder
    <3> QED BY <1>1, <1>5, <2>1, <3>1, <3>2
  <2>2. CASE v = 0
    <3>1. a = 0 BY <1>1, <1>5, <2>2
    <3>2. w = Even((n - 2) % Size) BY <2>2
    <3>3. CASE n >= 2
      <4>1. (n - 2) % Size = n - 2 BY <1>1, <3>3, Remainder
      <4>2. Even(n - 2) = 2 * (n \div 2) - 2 BY <1>1 DEF Even
      <4> QED BY <1>1, <1>3, <3>1, <3>2, <3>3, <4>1, <4>2
    <3>4. CASE n < 2
      <4>1. (n - 2) % Size = n - 2 + Size BY <1>1, <3>4, Remainder
      <4>2. Even(n - 2 + Size) = Size - 2
        <5>1. n - 2 + Size = n + 2 * (h - 1) BY <1>1, <1>2
        <5>2. (n + 2 * (h - 1)) % 2 = n BY <1>1, <1>2, <3>4
        <5> QED BY <1>1, <5>1, <5>2 DEF Even
      <4> QED BY <1>1, <1>2, <1>3, <3>1, <3>2, <3>4, <4>1, <4>2
    <3> QED BY <1>1, <3>3, <3>4
  <2> QED BY <2>1, <2>2
<1>7. a < Size BY <1>1, <1>2, <1>5
<1>8. (w = 0 <=> a + 1 = D) /\ (w # 0 => D - (a + 1) > 0) BY <1>1, <1>5, <1>6, Doubled
<1>9. D > 0 BY <1>5
<1> QED BY <1>6, <1>7, <1>8, <1>9, Zenon

LEMMA FallingMoves ==
  ASSUME NEW n \in Word, NEW a \in 0 .. Size, NEW v \in Word, Falling(n, a, v),
         NEW w, w = (v - 1) % Size
  PROVE  /\ w = 0 <=> a + 1 = (IF n = 0 THEN Size ELSE n)
         /\ w # 0 => Falling(n, a + 1, w)
         /\ a < Size
<1> DEFINE D == IF n = 0 THEN Size ELSE n
<1>1. D - a > 0 /\ v = (D - a) % Size BY DEF Falling
<1>2. /\ w = 0 <=> a + 1 = D
      /\ w # 0 => D - (a + 1) > 0 /\ w = (D - (a + 1)) % Size
      /\ a < Size
  BY <1>1, OnceOnTime
<1> QED BY <1>2, Zenon DEF Falling

LEMMA DividingMoves ==
  ASSUME NEW n \in Word, n # 1, NEW a \in 0 .. Size, NEW v \in Word, Dividing(n, a, v),
         NEW w, w = (v - 1) % Size
  PROVE  /\ w # 0
         /\ w = 1 <=> a + 1 = (IF n = 0 THEN Size - 1 ELSE n - 1)
         /\ w # 1 => Dividing(n, a + 1, w)
         /\ a < Size
<1> DEFINE D == IF n = 0 THEN Size - 1 ELSE n - 1
<1>1. D - a > 0 /\ v = (D - a + 1) % Size BY DEF Dividing
<1>2. /\ w # 0
      /\ w = 1 <=> a + 1 = D
      /\ w # 1 => D - (a + 1) > 0 /\ w = (D - (a + 1) + 1) % Size
      /\ a < Size
  BY <1>1, RateOnTime
<1> QED BY <1>2, Zenon DEF Dividing

LEMMA HalvingMoves ==
  ASSUME NEW n \in Word, NEW a \in 0 .. Size, NEW v \in Word, Halving(n, a, v),
         NEW w, w = (IF v = 0 THEN Even((n - 2) % Size) ELSE (v - 2) % Size)
  PROVE  /\ w = 0 <=> a + 1 = HalfPeriod(n)
         /\ w # 0 => Halving(n, a + 1, w)
         /\ w = 0 => Halving(n, 0, w)
         /\ a < Size
<1> DEFINE D == HalfPeriod(n)
<1>1. D - a > 0 /\ ((a = 0 /\ v \in {0, Even(n)}) \/ (a > 0 /\ v = 2 * (D - a))) BY DEF Halving
<1>2. /\ w = 0 <=> a + 1 = D
      /\ w # 0 => D - (a + 1) > 0 /\ w = 2 * (D - (a + 1))
      /\ D > 0 /\ a < Size
  BY <1>1, SquareOnTime
<1>3. a \in Int /\ 0 <= a /\ D \in Int
  <2>1. n \in Int /\ Size \in Nat BY Words, SizeFacts
  <2> QED BY <2>1 DEF HalfPeriod
<1> HIDE DEF D
<1>4. a + 1 > 0 /\ D - 0 > 0 BY <1>2, <1>3
<1> QED BY <1>2, <1>4, Zenon DEF Halving, D

\* From c to k OUT changes when, and only when, the schedule says so.
Punctual(c, k, n, a) ==
  n # None /\ c.mode \in {0, 2, 3} => (k.out # c.out <=> a + 1 = Duration(c, n))

AgeAfter(c, k, a) == IF k.out # c.out THEN 0 ELSE IF a < Size THEN a + 1 ELSE a

(* A clock is punctual and leaves the counter on schedule.                 *)
LEMMA TickScheduled ==
  ASSUME NEW c \in Counters, c.counting, NEW n \in Word, NEW a \in 0 .. Size, Schedule(c, n, a)
  PROVE  LET k == Tick(c)
         IN  Same(k, c) /\ Schedule(k, n, AgeAfter(c, k, a)) /\ Punctual(c, k, n, a)
<1> DEFINE k == Tick(c)
           b == AgeAfter(c, k, a)
<1> SUFFICES Same(k, c) /\ Schedule(k, n, b) /\ Punctual(c, k, n, a) OBVIOUS
<1>1. n = Count(c) /\ c.val \in Word /\ c.out \in BOOLEAN /\ c.mode \in Modes
  BY Zenon DEF Schedule, Counters
<1>2. /\ Size \in Nat /\ Size >= 4 /\ n \in Int /\ 0 <= n /\ n < Size /\ a \in Int /\ 0 <= a
  BY <1>1, SizeFacts, SizeEven, Words
<1>3. CASE c.mode = 0
  <2>1. /\ Same(k, c)
        /\ c.out => k.out = c.out
        /\ ~c.out => k.val = (c.val - 1) % Size /\ k.out = (k.val = 0)
    BY <1>3, Zenon, TickOnceIs
  <2> HIDE DEF k
  <2>2. Count(k) = n /\ k.mode = 0 /\ k.counting BY <1>1, <1>3, <2>1, SameCount, Zenon DEF Same
  <2>3. k.mode # 2 /\ k.mode # 3 BY <2>2
  <2>4. CASE c.out = TRUE
    <3>1. k.out = TRUE /\ k.out = c.out BY <2>1, <2>4, Zenon
    <3>2. Schedule(k, n, b) BY <2>2, <2>3, <3>1, Zenon DEF Schedule
    <3>3. Duration(c, n) = 0 BY <1>3, <2>4 DEF Duration
    <3>4. a + 1 # 0 BY <1>2
    <3>5. Punctual(c, k, n, a) BY <3>1, <3>3, <3>4, Zenon DEF Punctual
    <3> QED BY <2>1, <3>2, <3>5, Zenon
  <2>5. CASE c.out = FALSE
    <3> DEFINE D == IF n = 0 THEN Size ELSE n
    <3>1. Duration(c, n) = D BY <1>3, <2>5 DEF Duration
    <3>2. k.val = (c.val - 1) % Size /\ k.out = (k.val = 0) BY <2>1, <2>5, Zenon
    <3>3. Falling(n, a, c.val) BY <1>3, <2>5, Zenon DEF Schedule
    <3>4. /\ k.val = 0 <=> a + 1 = D
          /\ k.val # 0 => Falling(n, a + 1, k.val)
          /\ a < Size
      BY <1>1, <3>2, <3>3, FallingMoves
    <3> HIDE DEF D
    <3>5. k.val = 0 => k.out = TRUE BY <3>2, Zenon
    <3>6. k.val # 0 => k.out = FALSE BY <3>2, Zenon
    <3>7. k.val # 0 => b = a + 1 BY <2>5, <3>4, <3>6, Zenon DEF AgeAfter
    <3>8. Schedule(k, n, b) BY <2>2, <2>3, <3>4, <3>5, <3>6, <3>7, Zenon DEF Schedule
    <3>9. Punctual(c, k, n, a) BY <2>5, <3>1, <3>4, <3>5, <3>6, Zenon DEF Punctual
    <3> QED BY <2>1, <3>8, <3>9, Zenon
  <2> QED BY <1>1, <2>4, <2>5, Zenon
<1>4. CASE c.mode = 2
  <2> DEFINE v == (c.val - 1) % Size
  <2>1. /\ Same(k, c)
        /\ v = 0 => k.val = n /\ k.out = TRUE
        /\ v # 0 => k.val = v /\ k.out = (c.out /\ v # 1)
    BY <1>1, <1>4, Zenon, TickRateIs
  <2> HIDE DEF k
  <2>2. Count(k) = n /\ k.mode = 2 /\ k.counting BY <1>1, <1>4, <2>1, SameCount, Zenon DEF Same
  <2>3. k.mode # 0 /\ k.mode # 3 BY <2>2
  <2>4. c.val = 1 => v = 0 BY <1>2
  <2>5. CASE c.out = FALSE
    <3>1. n # 1 /\ a = 0 /\ c.val = 1 BY <1>4, <2>5, Zenon DEF Schedule
    <3>2. k.val = n /\ k.out = TRUE BY <2>1, <2>4, <3>1, Zenon
    <3>3. Dividing(n, 0, n)
      <4> DEFINE D == IF n = 0 THEN Size - 1 ELSE n - 1
      <4>1. D - 0 > 0 BY <1>2, <3>1
      <4>2. D - 0 + 1 = IF n = 0 THEN Size ELSE n BY <1>2
      <4>3. (D - 0 + 1) % Size = n BY <1>2, <4>2, Remainder
      <4> QED BY <4>1, <4>3, Zenon DEF Dividing
    <3>4. b = 0 BY <2>5, <3>2, Zenon DEF AgeAfter
    <3>5. Schedule(k, n, b) BY <2>2, <2>3, <3>1, <3>2, <3>3, <3>4, Zenon DEF Schedule
    <3>6. Duration(c, n) = 1 BY <1>4, <2>5, <3>1 DEF Duration
    <3>7. a + 1 = 1 BY <3>1
    <3>8. Punctual(c, k, n, a) BY <2>5, <3>2, <3>6, <3>7, Zenon DEF Punctual
    <3> QED BY <2>1, <3>5, <3>8, Zenon
  <2>6. CASE c.out = TRUE /\ n = 1
    <3>1. c.val = 1 BY <1>4, <2>6, Zenon DEF Schedule
    <3>2. k.val = 1 /\ k.out = TRUE BY <2>1, <2>4, <2>6, <3>1, Zenon
    <3>3. Schedule(k, n, b) BY <2>2, <2>3, <2>6, <3>2, Zenon DEF Schedule
    <3>4. Duration(c, n) = 0 BY <1>4, <2>6 DEF Duration
    <3>5. a + 1 # 0 BY <1>2
    <3>6. Punctual(c, k, n, a) BY <2>6, <3>2, <3>4, <3>5, Zenon DEF Punctual
    <3> QED BY <2>1, <3>3, <3>6, Zenon
  <2>7. CASE c.out = TRUE /\ n # 1
    <3> DEFINE D == IF n = 0 THEN Size - 1 ELSE n - 1
    <3>1. Duration(c, n) = D BY <1>4, <2>7 DEF Duration
    <3>2. Dividing(n, a, c.val) BY <1>4, <2>7, Zenon DEF Schedule
    <3>3. /\ v # 0
          /\ v = 1 <=> a + 1 = D
          /\ v # 1 => Dividing(n, a + 1, v)
          /\ a < Size
      BY <1>1, <2>7, <3>2, DividingMoves
    <3> HIDE DEF D, v
    <3>4. k.val = v BY <2>1, <3>3, Zenon
    <3>5. v = 1 => k.out = FALSE BY <2>1, <2>7, <3>3, Zenon
    <3>6. v # 1 => k.out = TRUE BY <2>1, <2>7, <3>3, Zenon
    <3>7. v # 1 => b = a + 1 BY <2>7, <3>3, <3>6, Zenon DEF AgeAfter
    <3>8. v = 1 => b = 0 BY <2>7, <3>5, Zenon DEF AgeAfter
    <3>9. Schedule(k, n, b)
      BY <2>2, <2>3, <2>7, <3>3, <3>4, <3>5, <3>6, <3>7, <3>8, Zenon DEF Schedule
    <3>10. Punctual(c, k, n, a) BY <2>7, <3>1, <3>3, <3>5, <3>6, Zenon DEF Punctual
    <3> QED BY <2>1, <3>9, <3>10, Zenon
  <2> QED BY <1>1, <2>5, <2>6, <2>7, Zenon
<1>5. CASE c.mode = 3
  <2> DEFINE v == IF c.val = 0 THEN Even((n - 2) % Size) ELSE (c.val - 2) % Size
  <2>1. Same(k, c) /\ k.val = v /\ (v = 0 => k.out = ~c.out) /\ (v # 0 => k.out = c.out)
    BY <1>1, <1>5, Zenon, TickSquareIs
  <2> HIDE DEF k
  <2>2. Count(k) = n /\ k.mode = 3 /\ k.counting BY <1>1, <1>5, <2>1, SameCount, Zenon DEF Same
  <2>3. k.mode # 0 /\ k.mode # 2 BY <2>2
  <2>4. Halving(n, a, c.val) BY <1>5, Zenon DEF Schedule
  <2>5. /\ v = 0 <=> a + 1 = HalfPeriod(n)
        /\ v # 0 => Halving(n, a + 1, v)
        /\ v = 0 => Halving(n, 0, v)
        /\ a < Size
    BY <1>1, <2>4, HalvingMoves
  <2>6. Duration(c, n) = HalfPeriod(n) BY <1>5 DEF Duration
  <2> HIDE DEF v
  <2>7. v = 0 => k.out # c.out BY <1>1, <2>1, Zenon
  <2>8. v = 0 => b = 0 BY <2>7, Zenon DEF AgeAfter
  <2>9. v # 0 => b = a + 1 BY <2>1, <2>5, Zenon DEF AgeAfter
  <2>10. Schedule(k, n, b)
    BY <2>1, <2>2, <2>3, <2>5, <2>8, <2>9, Zenon DEF Schedule
  <2>11. Punctual(c, k, n, a) BY <2>1, <2>5, <2>6, <2>7, Zenon DEF Punctual
  <2> QED BY <2>1, <2>10, <2>11, Zenon
<1>6. CASE c.mode \notin {0, 2, 3}
  <2>1. k = c BY <1>6 DEF Tick
  <2>2. Same(k, c) BY <2>1 DEF Same
  <2> HIDE DEF k
  <2>3. c.mode # 0 /\ c.mode # 2 /\ c.mode # 3 BY <1>6
  <2>4. Schedule(k, n, b) BY <1>1, <1>6, <2>1, <2>3, Zenon DEF Schedule
  <2>5. Punctual(c, k, n, a) BY <1>6, Zenon DEF Punctual
  <2> QED BY <2>2, <2>4, <2>5, Zenon
<1>7. c.mode \in {0, 2, 3} => c.mode = 0 \/ c.mode = 2 \/ c.mode = 3 OBVIOUS
<1> QED BY <1>3, <1>4, <1>5, <1>6, <1>7, Zenon

-----------------------------------------------------------------------------
(* Writes put a counter on schedule.                                       *)

LEMMA HalfPeriodPositive == ASSUME NEW n \in Word PROVE HalfPeriod(n) \in Int /\ HalfPeriod(n) > 0
<1>1. Size \in Nat /\ Size >= 4 /\ n \in Int /\ 0 <= n BY SizeFacts, SizeEven, Words
<1> QED BY <1>1 DEF HalfPeriod

LEMMA FreshlyLoaded ==
  ASSUME NEW n \in Word
  PROVE  /\ Falling(n, 0, n)
         /\ n # 1 => Dividing(n, 0, n)
         /\ Halving(n, 0, Even(n))
<1>1. Size \in Nat /\ Size >= 4 /\ n \in Int /\ 0 <= n /\ n < Size BY SizeFacts, SizeEven, Words
<1>2. Falling(n, 0, n)
  <2> DEFINE D == IF n = 0 THEN Size ELSE n
  <2>1. D - 0 > 0 BY <1>1
  <2>2. D - 0 = IF n = 0 THEN Size ELSE n BY <1>1
  <2>3. n = (D - 0) % Size BY <1>1, <2>2, Remainder
  <2> QED BY <2>1, <2>3, Zenon DEF Falling
<1>3. ASSUME n # 1 PROVE Dividing(n, 0, n)
  <2> DEFINE D == IF n = 0 THEN Size - 1 ELSE n - 1
  <2>1. D - 0 > 0 BY <1>1, <1>3
  <2>2. D - 0 + 1 = IF n = 0 THEN Size ELSE n BY <1>1
  <2>3. n = (D - 0 + 1) % Size BY <1>1, <2>2, Remainder
  <2> QED BY <2>1, <2>3, Zenon DEF Dividing
<1>4. Halving(n, 0, Even(n))
  <2>1. HalfPeriod(n) - 0 > 0 BY HalfPeriodPositive
  <2> QED BY <2>1, Zenon DEF Halving
<1> QED BY <1>2, <1>3, <1>4

\* Neither a load nor a clock changes the settings.
Settings(k, c) ==
  k \in Counters /\ k.cr = c.cr /\ k.crWr = c.crWr /\ k.rw = c.rw /\ k.mode = c.mode

LEMMA TickSettings == ASSUME NEW c \in Counters PROVE Settings(Tick(c), c)
<1> DEFINE k == Tick(c)
<1>1. Settings(c, c) BY Zenon DEF Settings
<1>2. CASE ~c.counting \/ c.mode \notin {0, 2, 3}
  <2>1. k = c BY <1>2 DEF Tick
  <2> QED BY <1>1, <2>1, Zenon
<1>3. CASE c.counting /\ c.mode \in {0, 2, 3}
  <2>1. c.mode = 0 \/ c.mode = 2 \/ c.mode = 3 BY <1>3
  <2>2. Same(k, c) BY <1>3, <2>1, TickOnceIs, TickRateIs, TickSquareIs, Zenon
  <2> QED BY <2>2, Zenon DEF Same, Settings
<1> QED BY <1>2, <1>3, Zenon

LEMMA LoadIs ==
  ASSUME NEW c \in Counters
  PROVE  LET k == Load(c)
         IN  /\ Settings(k, c)
             /\ c.mode = 0 => k.out = FALSE /\ k.val = Count(c) /\ k.counting = TRUE
             /\ c.mode = 2 => k.out = TRUE /\ k.val = Count(c) /\ k.counting = TRUE
             /\ c.mode = 3 /\ ~c.counting =>
                  k.out = TRUE /\ k.val = Even(Count(c)) /\ k.counting = TRUE
             /\ (c.mode = 3 => c.counting) /\ c.mode # 0 /\ c.mode # 2 => k = c
<1> DEFINE k == Load(c)
<1>1. k \in Counters BY LoadKeeps, Zenon DEF Keeps
<1>2. CASE c.mode \in {0, 2}
  <2> DEFINE o == c.mode = 2
  <2>1. k = [c EXCEPT !.out = o, !.val = Count(c), !.counting = TRUE] BY <1>2 DEF Load
  <2>2. (c.mode = 0 => o = FALSE) /\ (c.mode = 2 => o = TRUE) OBVIOUS
  <2>3. c.mode # 3 BY <1>2
  <2>4. (c.mode = 0 => c.mode # 2) /\ (c.mode = 0 \/ c.mode = 2) BY <1>2
  <2> HIDE DEF k, o
  <2>5. /\ k.out = o /\ k.val = Count(c) /\ k.counting = TRUE
        /\ k.cr = c.cr /\ k.crWr = c.crWr /\ k.rw = c.rw /\ k.mode = c.mode
    BY <2>1, Zenon DEF Counters
  <2>6. Settings(k, c) BY <1>1, <2>5, Zenon DEF Settings
  <2> QED BY <2>2, <2>3, <2>4, <2>5, <2>6, Zenon DEF k
<1>3. CASE c.mode = 3 /\ ~c.counting
  <2>1. k = [c EXCEPT !.out = TRUE, !.val = Even(Count(c)), !.counting = TRUE]
    <3>1. c.mode \notin {0, 2} BY <1>3
    <3> QED BY <1>3, <3>1, Zenon DEF Load
  <2>2. c.mode # 0 /\ c.mode # 2 BY <1>3
  <2> HIDE DEF k
  <2>3. /\ k.out = TRUE /\ k.val = Even(Count(c)) /\ k.counting = TRUE
        /\ k.cr = c.cr /\ k.crWr = c.crWr /\ k.rw = c.rw /\ k.mode = c.mode
    BY <2>1, Zenon DEF Counters
  <2>4. Settings(k, c) BY <1>1, <2>3, Zenon DEF Settings
  <2> QED BY <1>3, <2>2, <2>3, <2>4, Zenon DEF k
<1>4. CASE c.mode \notin {0, 2} /\ ~(c.mode = 3 /\ ~c.counting)
  <2>1. k = c BY <1>4, Zenon DEF Load
  <2>2. Settings(c, c) BY Zenon DEF Settings
  <2>3. c.mode # 0 /\ c.mode # 2 BY <1>4
  <2> HIDE DEF k
  <2>4. Settings(k, c) BY <2>1, <2>2, Zenon
  <2> QED BY <1>4, <2>1, <2>3, <2>4, Zenon DEF k
<1> QED BY <1>2, <1>3, <1>4, Zenon

LEMMA LoadScheduled ==
  ASSUME NEW c \in Counters, c.mode # 3 \/ ~c.counting
  PROVE  Schedule(Load(c), Count(c), 0)
<1> DEFINE k == Load(c)
           n == Count(c)
<1>1. n \in Word /\ c.mode \in Modes BY CountWord, Zenon DEF Counters
<1>2. /\ Settings(k, c)
      /\ c.mode = 0 => k.out = FALSE /\ k.val = n /\ k.counting = TRUE
      /\ c.mode = 2 => k.out = TRUE /\ k.val = n /\ k.counting = TRUE
      /\ c.mode = 3 => k.out = TRUE /\ k.val = Even(n) /\ k.counting = TRUE
  BY LoadIs, Zenon
<1>3. Falling(n, 0, n) /\ (n # 1 => Dividing(n, 0, n)) /\ Halving(n, 0, Even(n))
  BY <1>1, FreshlyLoaded
<1> HIDE DEF k
<1>4. k.mode = c.mode /\ Count(k) = n BY <1>2, Zenon DEF Settings, Count
<1> HIDE DEF n
<1>5. CASE c.mode = 0
  <2>1. k.mode = 0 /\ k.mode # 2 /\ k.mode # 3 BY <1>4, <1>5
  <2> QED BY <1>2, <1>3, <1>4, <1>5, <2>1, Zenon DEF Schedule, k, n
<1>6. CASE c.mode = 2
  <2>1. k.mode = 2 /\ k.mode # 0 /\ k.mode # 3 BY <1>4, <1>6
  <2> QED BY <1>2, <1>3, <1>4, <1>6, <2>1, Zenon DEF Schedule, k, n
<1>7. CASE c.mode = 3
  <2>1. k.mode = 3 /\ k.mode # 0 /\ k.mode # 2 BY <1>4, <1>7
  <2> QED BY <1>2, <1>3, <1>4, <1>7, <2>1, Zenon DEF Schedule, k, n
<1>8. CASE c.mode \notin {0, 2, 3}
  <2>1. k.mode # 0 /\ k.mode # 2 /\ k.mode # 3 /\ k.mode \notin {0, 2, 3} BY <1>4, <1>8
  <2> QED BY <1>4, <2>1, Zenon DEF Schedule, k, n
<1>9. c.mode \in {0, 2, 3} => c.mode = 0 \/ c.mode = 2 \/ c.mode = 3 OBVIOUS
<1> QED BY <1>5, <1>6, <1>7, <1>8, <1>9, Zenon

(* A write stores one half, and loads the counter with the last one.       *)
Wanted(c) == IF c.crWr = {} THEN c.rw ELSE c.crWr
Half(c) == IF "lo" \in Wanted(c) THEN "lo" ELSE "hi"
Stored(c, d) == [c EXCEPT !.crWr = Wanted(c) \ {Half(c)}, !.cr[Half(c)] = d]
Loaded(c, d) == IF Stored(c, d).crWr = {} THEN Load(Stored(c, d)) ELSE Stored(c, d)

LEMMA StoredIs ==
  ASSUME NEW c \in Counters, NEW d \in Byte
  PROVE  LET s == Stored(c, d)
         IN  /\ s \in Counters /\ s.crWr = Wanted(c) \ {Half(c)}
             /\ s.cr = [c.cr EXCEPT ![Half(c)] = d]
             /\ s.rw = c.rw /\ s.mode = c.mode /\ s.counting = c.counting /\ s.out = c.out
<1> DEFINE h == Half(c)
           r == Wanted(c) \ {h}
<1>1. h \in Halves /\ r \in SUBSET Halves BY DEF Half, Wanted, Counters, Halves
<1>2. Stored(c, d) = [c EXCEPT !.crWr = r, !.cr[h] = d] BY Zenon DEF Stored
<1> HIDE DEF h, r
<1> DEFINE s == [c EXCEPT !.crWr = r, !.cr[h] = d]
<1>3. s \in Counters BY <1>1 DEF Counters
<1>4. /\ s.crWr = r /\ s.cr = [c.cr EXCEPT ![h] = d]
      /\ s.rw = c.rw /\ s.mode = c.mode /\ s.counting = c.counting /\ s.out = c.out
  BY Zenon DEF Counters
<1> HIDE DEF s
<1> QED BY <1>2, <1>3, <1>4, Zenon DEF s, h, r

LEMMA WriteIs ==
  ASSUME NEW c \in Counters, NEW d \in Byte
  PROVE  LET k == Write(c, d)
             l == Loaded(c, d)
         IN  /\ Settings(k, l) /\ k.counting = l.counting /\ k.out = l.out
             /\ l.counting => k = l
             /\ l \in Counters
<1> DEFINE k == Write(c, d)
           l == Loaded(c, d)
<1>1. k = IF l.counting THEN l ELSE [l EXCEPT !.val = Count(l)]
  BY Zenon DEF Write, Loaded, Stored, Wanted, Half
<1>2. l \in Counters
  <2>1. Stored(c, d) \in Counters BY StoredIs, Zenon
  <2>2. Load(Stored(c, d)) \in Counters BY <2>1, LoadIs, Zenon DEF Settings
  <2> QED BY <2>1, <2>2, Zenon DEF Loaded
<1>3. k \in Counters BY WriteKeeps, Zenon DEF Keeps
<1> HIDE DEF l, k
<1>4. k = l \/ k = [l EXCEPT !.val = Count(l)] BY <1>1, Zenon
<1>5. /\ k.cr = l.cr /\ k.crWr = l.crWr /\ k.rw = l.rw /\ k.mode = l.mode
      /\ k.counting = l.counting /\ k.out = l.out
  BY <1>2, <1>4, Zenon DEF Counters
<1>6. Settings(k, l) BY <1>3, <1>5, Zenon DEF Settings
<1> QED BY <1>1, <1>2, <1>5, <1>6, Zenon DEF k, l

(* OUT after a write: loading takes it to the level its mode starts from.  *)
Settled(k) ==
  \/ k.mode = 0 /\ k.out = FALSE
  \/ k.mode = 2 /\ k.out = TRUE
  \/ k.mode = 3 /\ k.counting /\ k.out = TRUE

LEMMA LoadSettles ==
  ASSUME NEW c \in Counters, NEW k, k = Load(c)
  PROVE  (k.out = c.out \/ Settled(k)) /\ (Settled(c) => k.out = c.out)
<1>1. /\ Settings(k, c)
      /\ c.mode = 0 => k.out = FALSE /\ k.val = Count(c) /\ k.counting = TRUE
      /\ c.mode = 2 => k.out = TRUE /\ k.val = Count(c) /\ k.counting = TRUE
      /\ c.mode = 3 /\ ~c.counting =>
           k.out = TRUE /\ k.val = Even(Count(c)) /\ k.counting = TRUE
      /\ (c.mode = 3 => c.counting) /\ c.mode # 0 /\ c.mode # 2 => k = c
  BY LoadIs, Zenon
<1>2. c.mode = 0 => c.mode # 2 /\ c.mode # 3 OBVIOUS
<1>3. c.mode = 2 => c.mode # 3 OBVIOUS
<1>4. k.mode = c.mode BY <1>1, Zenon DEF Settings
<1>5. k.out = c.out \/ Settled(k) BY <1>1, <1>4, Zenon DEF Settled
<1>6. Settled(c) => k.out = c.out BY <1>1, <1>2, <1>3, Zenon DEF Settled
<1> QED BY <1>5, <1>6, Zenon

LEMMA WriteSettles ==
  ASSUME NEW c \in Counters, NEW d \in Byte, NEW k, k = Write(c, d)
  PROVE  (k.out = c.out \/ Settled(k)) /\ (Settled(c) => k.out = c.out)
<1> DEFINE s == Stored(c, d)
           l == Loaded(c, d)
<1>1. s \in Counters /\ s.mode = c.mode /\ s.counting = c.counting /\ s.out = c.out
  BY StoredIs, Zenon
<1>2. Settings(k, l) /\ k.counting = l.counting /\ k.out = l.out BY WriteIs, Zenon
<1>3. l = s \/ l = Load(s) BY Zenon DEF Loaded
<1> HIDE DEF s, l
<1>4. (l.out = s.out \/ Settled(l)) /\ (Settled(s) => l.out = s.out)
  BY <1>1, <1>3, LoadSettles, Zenon
<1>5. Settled(l) => Settled(k) BY <1>2, Zenon DEF Settled, Settings
<1>6. Settled(c) => Settled(s) BY <1>1, Zenon DEF Settled
<1> QED BY <1>1, <1>2, <1>4, <1>5, <1>6, Zenon

(* A second write leaves an OUT alone that the first has changed.          *)
LEMMA SecondWrite ==
  ASSUME NEW c \in Counters, NEW d \in Byte, NEW e \in Byte, Write(c, d).out # c.out
  PROVE  Write(Write(c, d), e).out = Write(c, d).out
<1> DEFINE k == Write(c, d)
           j == Write(k, e)
<1>1. k \in Counters BY WriteKeeps, Zenon DEF Keeps
<1>2. k.out = c.out \/ Settled(k) BY WriteSettles, Zenon
<1> HIDE DEF k
<1>3. Settled(k) => j.out = k.out BY <1>1, WriteSettles, Zenon
<1> QED BY <1>2, <1>3, Zenon DEF k

(* A write as software sees it: p is the low byte it owes the high one of. *)
First(c, p) == c.rw = Halves /\ p = None
Owed(c, p, d) == IF First(c, p) THEN d ELSE None
Given(c, p, d) ==
  IF First(c, p) \/ (c.mode = 3 /\ c.counting) THEN None
  ELSE CASE c.rw = Halves -> d * Radix + p
         [] c.rw = {"hi"} -> d * Radix
         [] OTHER -> d

LEMMA HalfFacts ==
  /\ "lo" # "hi" /\ Halves # {"lo"} /\ Halves # {"hi"} /\ {"lo"} # {"hi"}
  /\ \A x : x \in Halves <=> x = "lo" \/ x = "hi"
  /\ Halves \ {"lo"} = {"hi"} /\ {"hi"} # {} /\ {"lo"} # {} /\ Halves # {}
<1>1. "lo" # "hi" /\ Halves # {"lo"} /\ Halves # {"hi"} /\ {"lo"} # {"hi"} BY DEF Halves
<1>2. \A x : x \in Halves <=> x = "lo" \/ x = "hi" BY DEF Halves
<1>3. Halves \ {"lo"} = {"hi"} /\ {"hi"} # {} /\ {"lo"} # {} /\ Halves # {} BY DEF Halves
<1> QED BY <1>1, <1>2, <1>3

LEMMA NoneFacts == \A d \in Byte : d # None /\ d \in Int
  BY RadixAssumption DEF Byte, None

(* The last half of a count puts the counter on schedule.                  *)
LEMMA WriteScheduled ==
  ASSUME NEW c \in Counters, NEW p \in Byte \cup {None}, NEW d \in Byte, Written(c, p)
  PROVE  LET k == Write(c, d)
             n == Given(c, p, d)
         IN  Written(k, Owed(c, p, d)) /\ (n # None => Schedule(k, n, 0))
<1> DEFINE s == Stored(c, d)
           l == Loaded(c, d)
           k == Write(c, d)
           n == Given(c, p, d)
<1> SUFFICES Written(k, Owed(c, p, d)) /\ (n # None => Schedule(k, n, 0)) OBVIOUS
<1>1. /\ s \in Counters /\ s.crWr = Wanted(c) \ {Half(c)}
      /\ s.cr = [c.cr EXCEPT ![Half(c)] = d]
      /\ s.rw = c.rw /\ s.mode = c.mode /\ s.counting = c.counting /\ s.out = c.out
  BY StoredIs, Zenon
<1>2. Settings(k, l) /\ (l.counting => k = l) BY WriteIs, Zenon
<1>3. c.crWr \in SUBSET Halves /\ c.rw \in SUBSET Halves /\ c.cr \in [Halves -> Byte]
  BY Zenon DEF Counters
<1>4. CASE First(c, p)
  <2>1. c.rw = Halves /\ c.crWr \in {{}, Halves} BY <1>4, Zenon DEF First, Written
  <2>2. Wanted(c) = Halves /\ Half(c) = "lo" BY <2>1, HalfFacts, Zenon DEF Wanted, Half
  <2>3. s.crWr = {"hi"} /\ s.cr = [c.cr EXCEPT !["lo"] = d]
    <3>1. Halves \ {"lo"} = {"hi"} BY HalfFacts
    <3> QED BY <1>1, <2>2, <3>1, Zenon
  <2>4. l = s
    <3>1. s.crWr # {} BY <2>3
    <3> QED BY <3>1, Zenon DEF Loaded
  <2> HIDE DEF s, l, k
  <2>5. k.rw = Halves /\ k.crWr = {"hi"} /\ k.cr = [c.cr EXCEPT !["lo"] = d]
    BY <1>1, <1>2, <2>1, <2>3, <2>4, Zenon DEF Settings
  <2>6. k.cr["lo"] = d BY <1>3, <2>5, HalfFacts
  <2>7. Halves \ k.rw = {} /\ k.crWr \subseteq k.rw /\ k.rw # {} BY <2>5 DEF Halves
  <2>8. d # None BY NoneFacts
  <2>9. Owed(c, p, d) = d /\ n = None BY <1>4, Zenon DEF Owed, Given
  <2>10. Written(k, d) BY <2>5, <2>6, <2>7, <2>8, Zenon DEF Written
  <2> QED BY <2>9, <2>10, Zenon
<1>5. CASE ~First(c, p)
  <2> DEFINE h == Half(c)
  <2>1. /\ Wanted(c) \ {h} = {}
        /\ h \in c.rw /\ \A x \in Halves \ c.rw : c.cr[x] = 0
        /\ p # None => c.rw = Halves /\ h = "hi" /\ c.cr["lo"] = p
        /\ p = None => c.rw = {h}
    <3>1. CASE p # None
      <4>1. c.rw = Halves /\ c.crWr = {"hi"} /\ c.cr["lo"] = p /\ \A x \in Halves \ c.rw : c.cr[x] = 0
        BY <3>1, Zenon DEF Written
      <4>2. Wanted(c) = {"hi"} /\ h = "hi" BY <4>1, HalfFacts, Zenon DEF Wanted, Half
      <4> HIDE DEF h
      <4> QED BY <3>1, <4>1, <4>2, HalfFacts, Zenon
    <3>2. CASE p = None
      <4>1. c.rw # Halves BY <1>5, <3>2, Zenon DEF First
      <4>2. c.rw # {} /\ c.crWr \in {{}, c.rw} /\ \A x \in Halves \ c.rw : c.cr[x] = 0
        BY <3>2, Zenon DEF Written
      <4>3. Wanted(c) = c.rw BY <4>2, Zenon DEF Wanted
      <4>4. c.rw = {"lo"} \/ c.rw = {"hi"} 
        <5>1. "lo" \in c.rw \/ "hi" \in c.rw BY <1>3, <4>2 DEF Halves
        <5>2. ~("lo" \in c.rw /\ "hi" \in c.rw) BY <1>3, <4>1 DEF Halves
        <5> QED BY <1>3, <5>1, <5>2 DEF Halves
      <4>5. c.rw = {h} BY <4>3, <4>4, HalfFacts DEF Half
      <4> HIDE DEF h
      <4>6. {h} \ {h} = {} /\ h \in {h} OBVIOUS
      <4> QED BY <3>2, <4>2, <4>3, <4>5, <4>6, Zenon
    <3> QED BY <3>1, <3>2, Zenon
  <2>2. s.crWr = {} BY <1>1, <2>1, Zenon
  <2>3. l = Load(s) BY <2>2, Zenon DEF Loaded
  <2>4. Settings(l, s) BY <1>1, <2>3, LoadIs, Zenon
  <2> HIDE DEF h
  <2>5. h \in Halves BY <1>3, <2>1
  <2>6. s.cr = [c.cr EXCEPT ![h] = d] BY <1>1, Zenon DEF h
  <2> HIDE DEF s, l, k
  <2>7. k.cr = s.cr /\ k.crWr = {} /\ k.rw = c.rw BY <1>1, <1>2, <2>2, <2>4, Zenon DEF Settings
  <2>8. s.cr[h] = d /\ \A x \in Halves : x # h => s.cr[x] = c.cr[x] BY <1>3, <2>5, <2>6
  <2>9. Written(k, None)
    <3>1. \A x \in Halves \ k.rw : k.cr[x] = 0 BY <2>1, <2>7, <2>8
    <3>2. k.rw # {} /\ k.crWr \subseteq k.rw BY <2>1, <2>7
    <3> QED BY <2>7, <3>1, <3>2, Zenon DEF Written
  <2>10. Owed(c, p, d) = None BY <1>5, Zenon DEF Owed
  <2>11. ASSUME n # None PROVE Schedule(k, n, 0)
    <3>1. ~(c.mode = 3 /\ c.counting) BY <2>11, Zenon DEF Given
    <3>2. Schedule(l, Count(s), 0) BY <1>1, <2>3, <3>1, LoadScheduled, Zenon
    <3>3. k = l \/ c.mode \notin {0, 2, 3}
      <4>1. c.mode \in {0, 2, 3} => l.counting
        <5>1. l.mode = c.mode BY <1>1, <2>4, Zenon DEF Settings
        <5> QED BY <3>2, <5>1, Zenon DEF Schedule
      <4> QED BY <1>2, <4>1, Zenon
    <3>4. Count(k) = Count(s) /\ k.mode = c.mode BY <1>1, <1>2, <2>4, Zenon DEF Count, Settings
    <3>5. Schedule(k, Count(s), 0)
      <4>1. CASE c.mode \notin {0, 2, 3}
        <5>1. k.mode # 0 /\ k.mode # 2 /\ k.mode # 3 /\ k.mode \notin {0, 2, 3} BY <3>4, <4>1
        <5> QED BY <3>4, <5>1, Zenon DEF Schedule
      <4> QED BY <3>2, <3>3, <4>1, Zenon
    <3>6. n = Count(s)
      <4>1. c.cr["hi"] \in Int /\ c.cr["lo"] \in Int /\ d \in Int /\ Radix \in Int
        BY <1>3, RadixAssumption, NoneFacts DEF Halves
      <4>2. CASE p # None
        <5>1. c.rw = Halves /\ h = "hi" /\ c.cr["lo"] = p BY <2>1, <4>2, Zenon
        <5>2. n = d * Radix + p BY <1>5, <3>1, <5>1, HalfFacts, Zenon DEF Given
        <5>3. s.cr["hi"] = d /\ s.cr["lo"] = p BY <2>8, <5>1, HalfFacts, Zenon
        <5> QED BY <5>2, <5>3, Zenon DEF Count
      <4>3. CASE p = None /\ h = "hi"
        <5>1. c.rw = {"hi"} BY <2>1, <4>3, Zenon
        <5>2. n = d * Radix BY <1>5, <3>1, <5>1, HalfFacts, Zenon DEF Given
        <5>3. c.cr["lo"] = 0 BY <2>1, <5>1, HalfFacts
        <5>4. s.cr["hi"] = d /\ s.cr["lo"] = 0 BY <2>8, <4>3, <5>3, HalfFacts, Zenon
        <5>5. d * Radix + 0 = d * Radix BY <4>1
        <5> QED BY <5>2, <5>4, <5>5, Zenon DEF Count
      <4>4. CASE p = None /\ h = "lo"
        <5>1. c.rw = {"lo"} BY <2>1, <4>4, Zenon
        <5>2. n = d BY <1>5, <3>1, <5>1, HalfFacts, Zenon DEF Given
        <5>3. c.cr["hi"] = 0 BY <2>1, <5>1, HalfFacts
        <5>4. s.cr["lo"] = d /\ s.cr["hi"] = 0 BY <2>8, <4>4, <5>3, HalfFacts, Zenon
        <5>5. 0 * Radix + d = d BY <4>1
        <5> QED BY <5>2, <5>4, <5>5, Zenon DEF Count
      <4> QED BY <2>5, <4>2, <4>3, <4>4, HalfFacts, Zenon
    <3> QED BY <3>5, <3>6, Zenon
  <2> QED BY <2>9, <2>10, <2>11, Zenon
<1> QED BY <1>4, <1>5

-----------------------------------------------------------------------------
(* Units on schedule.                                                      *)

Scheduled(u) ==
  \A x \in Channels :
    /\ Written(u.cnt[x], u.part[x])
    /\ u.count[x] # None => Schedule(u.cnt[x], u.count[x], u.age[x])

\* The counters clocked on the way from b to u were punctual.
Follows(b, u) ==
  \A x \in Channels :
    x \in u.ticked => Punctual(b.cnt[x], u.cnt[x], b.count[x], b.age[x])

\* Channel x is in u as it is in b.
Fresh(b, u, x) ==
  u.cnt[x] = b.cnt[x] /\ u.part[x] = b.part[x] /\ u.count[x] = b.count[x] /\ u.age[x] = b.age[x]

LEMMA FreshTrans ==
  ASSUME NEW b, NEW u, NEW w, NEW x, Fresh(b, u, x), Fresh(u, w, x) PROVE Fresh(b, w, x)
  BY Zenon DEF Fresh

LEMMA Distinct ==
  /\ 0 \in Channels /\ 1 \in Channels /\ 2 \in Channels /\ 0 # 1 /\ 1 # 0 /\ 2 # 0 /\ 2 # 1
  /\ \A x \in Channels : x = 0 \/ x = 1 \/ x = 2
<1>1. 0 \in Channels /\ 1 \in Channels /\ 2 \in Channels BY DEF Channels
<1>2. \A x \in Channels : x = 0 \/ x = 1 \/ x = 2 BY DEF Channels
<1>3. 0 # 1 /\ 1 # 0 /\ 2 # 0 /\ 2 # 1 OBVIOUS
<1> QED BY <1>1, <1>2, <1>3, Zenon

LEMMA AdvanceIs ==
  ASSUME NEW u, Sound(u), NEW ch \in Channels, NEW k, NEW w, w = Advance(u, ch, k)
  PROVE  /\ w.cnt[ch] = k /\ w.part[ch] = u.part[ch] /\ w.count[ch] = u.count[ch]
         /\ w.age[ch] = AgeAfter(u.cnt[ch], k, u.age[ch])
         /\ \A x \in Channels : x # ch => Fresh(u, w, x)
         /\ w.ticked = u.ticked \cup {ch}
<1> DEFINE c == u.cnt[ch]
<1>1. w = [u EXCEPT !.cnt[ch] = k, !.age[ch] = AgeAfter(c, k, @), !.ticked = @ \cup {ch}]
  BY Zenon DEF Advance, AgeAfter
<1>2. u \in Units BY Zenon DEF Sound
<1> DEFINE a == AgeAfter(c, k, u.age[ch])
<1>3. w = [u EXCEPT !.cnt[ch] = k, !.age[ch] = a, !.ticked = u.ticked \cup {ch}]
  BY <1>1, <1>2, Zenon DEF Units
<1> HIDE DEF a
<1>4. /\ w.cnt = [u.cnt EXCEPT ![ch] = k] /\ w.age = [u.age EXCEPT ![ch] = a]
      /\ w.ticked = u.ticked \cup {ch} /\ w.part = u.part /\ w.count = u.count
  BY <1>2, <1>3, Zenon DEF Units
<1>5. u.cnt \in [Channels -> Counters] /\ u.age \in [Channels -> 0 .. Size] BY <1>2, Zenon DEF Units
<1>6. w.cnt[ch] = k /\ w.age[ch] = a BY <1>4, <1>5, Zenon
<1>7. \A x \in Channels : x # ch => Fresh(u, w, x) BY <1>4, <1>5, Zenon DEF Fresh
<1> QED BY <1>4, <1>6, <1>7, Zenon DEF a

LEMMA WrittenStays ==
  ASSUME NEW c, NEW k, NEW p, Settings(k, c), Written(c, p) PROVE Written(k, p)
  BY Zenon DEF Settings, Written

(* A clock of a counter as it was in b.                                    *)
LEMMA AdvanceScheduled ==
  ASSUME NEW b, NEW u, Sound(u), Scheduled(u), Follows(b, u),
         NEW ch \in Channels, Fresh(b, u, ch), u.cnt[ch].counting,
         NEW w, w = Advance(u, ch, Tick(u.cnt[ch]))
  PROVE  /\ Scheduled(w) /\ Follows(b, w)
         /\ \A x \in Channels : x # ch => Fresh(u, w, x)
<1> DEFINE c == u.cnt[ch]
           k == Tick(c)
           a == u.age[ch]
           n == u.count[ch]
<1>1. /\ w.cnt[ch] = k /\ w.part[ch] = u.part[ch] /\ w.count[ch] = n
      /\ w.age[ch] = AgeAfter(c, k, a)
      /\ \A x \in Channels : x # ch => Fresh(u, w, x)
      /\ w.ticked = u.ticked \cup {ch}
  BY AdvanceIs
<1>2. c \in Counters /\ a \in 0 .. Size /\ n \in Word \cup {None} BY Zenon DEF Sound, Units
<1>3. Written(c, u.part[ch]) /\ (n # None => Schedule(c, n, a)) BY Zenon DEF Scheduled
<1>4. Settings(k, c) BY <1>2, TickSettings, Zenon
<1>5. n # None => Schedule(k, n, AgeAfter(c, k, a)) /\ Punctual(c, k, n, a)
  BY <1>2, <1>3, TickScheduled, Zenon
<1>6. n = None => Punctual(c, k, n, a) BY Zenon DEF Punctual
<1> HIDE DEF k
<1>7. Written(w.cnt[ch], w.part[ch]) BY <1>1, <1>3, <1>4, WrittenStays, Zenon
<1>8. Scheduled(w)
  <2> SUFFICES ASSUME NEW x \in Channels
               PROVE  /\ Written(w.cnt[x], w.part[x])
                      /\ w.count[x] # None => Schedule(w.cnt[x], w.count[x], w.age[x])
    BY Zenon DEF Scheduled
  <2>1. CASE x = ch BY <1>1, <1>5, <1>7, <2>1, Zenon
  <2>2. CASE x # ch BY <1>1, <2>2, Zenon DEF Scheduled, Fresh
  <2> QED BY <2>1, <2>2, Zenon
<1>9. Follows(b, w)
  <2> SUFFICES ASSUME NEW x \in Channels, x \in w.ticked
               PROVE  Punctual(b.cnt[x], w.cnt[x], b.count[x], b.age[x])
    BY Zenon DEF Follows
  <2>1. CASE x = ch BY <1>1, <1>5, <1>6, <2>1, Zenon DEF Fresh
  <2>2. CASE x # ch BY <1>1, <2>2, Zenon DEF Follows, Fresh
  <2> QED BY <2>1, <2>2, Zenon
<1> QED BY <1>1, <1>8, <1>9, Zenon

(* Counter 1 is clocked by OUT 0; OUT 0 and OUT 2 raise the line.          *)
LEMMA CascadeScheduled ==
  ASSUME NEW b, NEW u, Sound(u), Scheduled(u), Follows(b, u), Fresh(b, u, 1),
         NEW w, w = Cascade(u)
  PROVE  /\ Scheduled(w) /\ Follows(b, w)
         /\ \A x \in Channels : x # 1 => Fresh(u, w, x)
<1>1. CASE u.cnt[1].counting
  <2>1. w = Advance(u, 1, Tick(u.cnt[1])) BY <1>1, Zenon DEF Cascade
  <2> QED BY <1>1, <2>1, Distinct, AdvanceScheduled, Zenon
<1>2. CASE ~u.cnt[1].counting
  <2>1. w = u BY <1>2, Zenon DEF Cascade
  <2> QED BY <2>1, Zenon DEF Fresh
<1> QED BY <1>1, <1>2, Zenon

LEMMA RaisedScheduled ==
  ASSUME NEW b, NEW u, Sound(u), Scheduled(u), Follows(b, u), NEW w, w = [u EXCEPT !.line = TRUE]
  PROVE  /\ Scheduled(w) /\ Follows(b, w)
         /\ \A x : Fresh(u, w, x)
<1>1. u \in Units BY Zenon DEF Sound
<1>2. w.cnt = u.cnt /\ w.part = u.part /\ w.count = u.count /\ w.age = u.age /\ w.ticked = u.ticked
  BY <1>1, Zenon DEF Units
<1>3. \A x : Fresh(u, w, x) BY <1>2, Zenon DEF Fresh
<1>4. Scheduled(w) BY <1>2, Zenon DEF Scheduled
<1>5. Follows(b, w) BY <1>2, Zenon DEF Follows
<1> QED BY <1>3, <1>4, <1>5, Zenon

\* OUT of c and of k, the counter it becomes, differ.
Flips(k, c) == k.out # c.out

LEMMA OutScheduled ==
  ASSUME NEW b, NEW u, Sound(u), Scheduled(u), Follows(b, u), NEW ch \in Channels,
         NEW c, NEW k, ch = 0 /\ Flips(k, c) => Fresh(b, u, 1),
         NEW w, w = Out(u, ch, Flips(k, c))
  PROVE  /\ Scheduled(w) /\ Follows(b, w)
         /\ \A x \in Channels : x # 1 \/ ~(ch = 0 /\ Flips(k, c)) => Fresh(u, w, x)
<1> DEFINE v == [u EXCEPT !.line = TRUE]
<1>1. Scheduled(v) /\ Follows(b, v) /\ (\A x : Fresh(u, v, x)) /\ Sound(v)
  BY RaisedScheduled, Raised, Zenon
<1>2. \A x : Fresh(u, u, x) BY Zenon DEF Fresh
<1>3. ch = 0 => ch # 2 OBVIOUS
<1> HIDE DEF v
<1>4. CASE ch = 0 /\ Flips(k, c)
  <2>1. w = Cascade(v) BY <1>3, <1>4, Zenon DEF Out, v
  <2>2. Fresh(b, v, 1) BY <1>1, <1>4, FreshTrans, Zenon
  <2>3. Scheduled(w) /\ Follows(b, w) /\ \A x \in Channels : x # 1 => Fresh(v, w, x)
    BY <1>1, <2>1, <2>2, CascadeScheduled, Zenon
  <2>4. \A x \in Channels : x # 1 => Fresh(u, w, x) BY <1>1, <2>3, FreshTrans, Zenon
  <2> QED BY <1>4, <2>3, <2>4, Zenon
<1>5. CASE ~(ch = 0 /\ Flips(k, c))
  <2>1. w = u \/ w = v BY <1>5, Zenon DEF Out, v
  <2> QED BY <1>1, <1>2, <2>1, Zenon
<1> QED BY <1>4, <1>5, Zenon

LEMMA ClockScheduled ==
  ASSUME NEW b, NEW u, Sound(u), Scheduled(u), Follows(b, u), NEW ch \in Channels,
         Fresh(b, u, ch), ch = 0 => Fresh(b, u, 1),
         NEW w, w = Clock(u, ch)
  PROVE  /\ Scheduled(w) /\ Follows(b, w)
         /\ \A x \in Channels : x # 1 /\ x # ch => Fresh(u, w, x)
<1> DEFINE c == u.cnt[ch]
           k == Tick(c)
           v == Advance(u, ch, k)
<1>1. CASE ~c.counting
  <2>1. w = u BY <1>1, Zenon DEF Clock
  <2> QED BY <2>1, Zenon DEF Fresh
<1>2. CASE c.counting
  <2>1. w = Out(v, ch, Flips(k, c)) BY <1>2, Zenon DEF Clock, Flips
  <2>2. v = Advance(u, ch, Tick(u.cnt[ch])) OBVIOUS
  <2>3. Sound(v)
    <3>1. Keeps(k, c) BY TickKeeps, Zenon DEF Sound, Units
    <3> QED BY <3>1, AdvanceSound, Zenon
  <2> HIDE DEF v
  <2>4. Scheduled(v) /\ Follows(b, v) /\ \A x \in Channels : x # ch => Fresh(u, v, x)
    BY <1>2, <2>2, AdvanceScheduled
  <2> HIDE DEF v, k
  <2>5. ch = 0 => Fresh(b, v, 1) BY <2>4, Distinct, FreshTrans, Zenon
  <2>6. /\ Scheduled(w) /\ Follows(b, w)
        /\ \A x \in Channels : x # 1 \/ ~(ch = 0 /\ Flips(k, c)) => Fresh(v, w, x)
    BY <2>1, <2>4, <2>3, <2>5, OutScheduled, Zenon
  <2>7. \A x \in Channels : x # 1 /\ x # ch => Fresh(u, w, x)
    BY <2>4, <2>6, FreshTrans, Zenon
  <2> QED BY <2>6, <2>7, Zenon
<1> QED BY <1>1, <1>2, Zenon

(* One byte written: the counters it clocks are as they were in b, and it  *)
(* clocks counter 1 only if its OUT changes.                               *)
LEMMA PutByteScheduled ==
  ASSUME NEW b, NEW u, Sound(u), Scheduled(u), Follows(b, u), NEW ch \in Channels,
         NEW d \in Byte,
         ch = 0 /\ Flips(Write(u.cnt[ch], d), u.cnt[ch]) => Fresh(b, u, 1),
         NEW w, w = PutByte(u, ch, d)
  PROVE  /\ Scheduled(w) /\ Follows(b, w)
         /\ ch = 0 => w.cnt[ch] = Write(u.cnt[ch], d)
         /\ ch = 0 /\ ~Flips(Write(u.cnt[ch], d), u.cnt[ch]) => Fresh(u, w, 1)
<1> DEFINE c == u.cnt[ch]
           k == Write(c, d)
           p == PartAfter(u, ch, d)
           n == CountAfter(u, ch, d)
           t == u.ticked \ {ch}
           v == Stores(u, ch, d)
<1>1. u \in Units /\ c \in Counters /\ u.part[ch] \in Byte \cup {None} BY Zenon DEF Sound, Units
<1>2. w = Out(v, ch, Flips(k, c)) BY <1>1, Zenon DEF PutByte, Stores, Units, Flips
<1>3. p = Owed(c, u.part[ch], d) BY Zenon DEF PartAfter, Owed, LowFirst, First
<1>4. n = Given(c, u.part[ch], d) BY Zenon DEF CountAfter, Given, LowFirst, First
<1>5. Written(k, p) /\ (n # None => Schedule(k, n, 0))
  <2>1. Written(c, u.part[ch]) BY Zenon DEF Scheduled
  <2> QED BY <1>1, <1>3, <1>4, <2>1, WriteScheduled, Zenon
<1>6. Sound(v) BY StoresSound, Zenon
<1>7. v = [u EXCEPT !.cnt[ch] = k, !.age[ch] = 0, !.ticked = t, !.part[ch] = p, !.count[ch] = n]
  BY Zenon DEF Stores
<1> HIDE DEF k, p, n, v
<1>8. /\ v.cnt = [u.cnt EXCEPT ![ch] = k] /\ v.age = [u.age EXCEPT ![ch] = 0]
      /\ v.part = [u.part EXCEPT ![ch] = p] /\ v.count = [u.count EXCEPT ![ch] = n]
      /\ v.ticked = t
  BY <1>1, <1>7, Zenon DEF Units
<1>9. /\ u.cnt \in [Channels -> Counters] /\ u.age \in [Channels -> 0 .. Size]
      /\ u.part \in [Channels -> Byte \cup {None}] /\ u.count \in [Channels -> Word \cup {None}]
  BY <1>1, Zenon DEF Units
<1>10. v.cnt[ch] = k /\ v.age[ch] = 0 /\ v.part[ch] = p /\ v.count[ch] = n
  BY <1>8, <1>9, Zenon
<1>11. \A x \in Channels : x # ch => Fresh(u, v, x) BY <1>8, <1>9, Zenon DEF Fresh
<1>12. Scheduled(v)
  <2> SUFFICES ASSUME NEW x \in Channels
               PROVE  /\ Written(v.cnt[x], v.part[x])
                      /\ v.count[x] # None => Schedule(v.cnt[x], v.count[x], v.age[x])
    BY Zenon DEF Scheduled
  <2>1. CASE x = ch BY <1>5, <1>10, <2>1, Zenon
  <2>2. CASE x # ch BY <1>11, <2>2, Zenon DEF Scheduled, Fresh
  <2> QED BY <2>1, <2>2, Zenon
<1>13. Follows(b, v)
  <2> SUFFICES ASSUME NEW x \in Channels, x \in v.ticked
               PROVE  Punctual(b.cnt[x], v.cnt[x], b.count[x], b.age[x])
    BY Zenon DEF Follows
  <2>1. x # ch /\ x \in u.ticked BY <1>8, Zenon
  <2> QED BY <1>11, <2>1, Zenon DEF Follows, Fresh
<1>14. ch = 0 /\ Flips(k, c) => Fresh(b, v, 1)
  <2> SUFFICES ASSUME ch = 0, Flips(k, c) PROVE Fresh(b, v, 1) OBVIOUS
  <2>1. Fresh(b, u, 1) BY Zenon DEF k
  <2>2. Fresh(u, v, 1) BY <1>11, Distinct, Zenon
  <2> QED BY <2>1, <2>2, FreshTrans, Zenon
<1>15. /\ Scheduled(w) /\ Follows(b, w)
       /\ \A x \in Channels : x # 1 \/ ~(ch = 0 /\ Flips(k, c)) => Fresh(v, w, x)
  BY <1>2, <1>6, <1>12, <1>13, <1>14, OutScheduled, Zenon
<1>16. ch = 0 => w.cnt[ch] = k BY <1>10, <1>15, Distinct, Zenon DEF Fresh
<1>17. ch = 0 /\ ~Flips(k, c) => Fresh(u, w, 1)
  <2> SUFFICES ASSUME ch = 0, ~Flips(k, c) PROVE Fresh(u, w, 1) OBVIOUS
  <2>1. Fresh(v, w, 1) BY <1>15, Distinct, Zenon
  <2>2. Fresh(u, v, 1) BY <1>11, Distinct, Zenon
  <2> QED BY <2>1, <2>2, FreshTrans, Zenon
<1> QED BY <1>15, <1>16, <1>17, Zenon DEF k

(* A 16-bit access clocks counter 1 at most once.                          *)
LEMMA TwoBytesScheduled ==
  ASSUME NEW b, Sound(b), Scheduled(b), Follows(b, b), NEW ch \in Channels,
         NEW d \in Byte, NEW e \in Byte,
         NEW u, u = PutByte(b, ch, d), NEW w, w = PutByte(u, ch, e)
  PROVE  Scheduled(u) /\ Follows(b, u) /\ Scheduled(w) /\ Follows(b, w)
<1> DEFINE c == b.cnt[ch]
           k == Write(c, d)
<1>1. ch = 0 /\ Flips(Write(b.cnt[ch], d), b.cnt[ch]) => Fresh(b, b, 1) BY Zenon DEF Fresh
<1>2. /\ Scheduled(u) /\ Follows(b, u)
      /\ ch = 0 => u.cnt[ch] = k
      /\ ch = 0 /\ ~Flips(k, c) => Fresh(b, u, 1)
  BY <1>1, PutByteScheduled
<1>3. Sound(u) BY PutByteSound, Zenon
<1>4. c \in Counters BY Zenon DEF Sound, Units
<1>5. ch = 0 /\ Flips(Write(u.cnt[ch], e), u.cnt[ch]) => Fresh(b, u, 1)
  <2> SUFFICES ASSUME ch = 0, Flips(Write(u.cnt[ch], e), u.cnt[ch]) PROVE ~Flips(k, c)
    BY <1>2, Zenon
  <2>1. u.cnt[ch] = k BY <1>2, Zenon
  <2>2. Write(k, e).out # k.out BY <2>1, Zenon DEF Flips
  <2> QED BY <1>4, <2>2, SecondWrite, Zenon DEF Flips
<1>6. Scheduled(w) /\ Follows(b, w) BY <1>2, <1>3, <1>5, PutByteScheduled, Zenon
<1> QED BY <1>2, <1>6, Zenon

-----------------------------------------------------------------------------
(* Every action keeps the counters on schedule and clocks them on time.    *)

\* The invariant that goes with the property.
TimedInv == IInv /\ Scheduled(Unit)

\* What a step that assigns the unit u has to show.
Timely(u) == Scheduled(u) /\ Follows(Unit, u) /\ u.ticked \subseteq Channels

\* What OutOnTime says of a step.
OnTimeStep == \A mode \in {0, 2, 3} : OnTime(mode)

LEMMA BecomeScheduled ==
  ASSUME NEW u, Timely(u), Become(u) PROVE Scheduled(Unit)' /\ OnTimeStep
<1>1. /\ cnt' = u.cnt /\ age' = u.age /\ part' = u.part /\ count' = u.count /\ ticked' = u.ticked
  BY Zenon DEF Become
<1>2. /\ Unit.cnt = cnt /\ Unit.age = age /\ Unit.part = part /\ Unit.count = count
      /\ (Unit.cnt)' = cnt' /\ (Unit.age)' = age' /\ (Unit.part)' = part' /\ (Unit.count)' = count'
  BY Zenon DEF Unit
<1>3. Scheduled(Unit)'
  <2>1. Scheduled(u) BY Zenon DEF Timely
  <2> QED BY <1>1, <1>2, <2>1, Zenon DEF Scheduled
<1>4. ASSUME NEW mode \in {0, 2, 3}, NEW ch \in ticked', count[ch] # None, cnt[ch].mode = mode
      PROVE  cnt'[ch].out # cnt[ch].out <=> age[ch] + 1 = Duration(cnt[ch], count[ch])
  <2>1. ch \in u.ticked /\ ch \in Channels BY <1>1, <1>4, Zenon DEF Timely
  <2>2. Punctual(cnt[ch], u.cnt[ch], count[ch], age[ch])
    BY <1>2, <2>1, Zenon DEF Timely, Follows
  <2> QED BY <1>1, <1>4, <2>2, Zenon DEF Punctual
<1> QED BY <1>3, <1>4, Zenon DEF OnTimeStep, OnTime

LEMMA UnitIs ==
  ASSUME IInv
  PROVE  /\ Unit.cnt = cnt /\ Unit.age = age /\ Unit.part = part /\ Unit.count = count
         /\ Unit.snap = snap /\ Unit.ticked = {}
         /\ cnt \in [Channels -> Counters] /\ age \in [Channels -> 0 .. Size]
         /\ part \in [Channels -> Byte \cup {None}] /\ count \in [Channels -> Word \cup {None}]
         /\ snap \in [Channels -> Word]
  BY Zenon DEF Unit, IInv, TypeOK

LEMMA UnitTimely == ASSUME TimedInv PROVE Timely(Unit)
<1>1. Unit.ticked = {} BY Zenon DEF Unit
<1> QED BY <1>1 DEF Timely, Follows, TimedInv

\* A step that clocks nothing and replaces one counter.
LEMMA Rescheduled ==
  ASSUME TimedInv, NEW ch \in Channels, NEW u, u.ticked = {},
         \A x \in Channels : x # ch => Fresh(Unit, u, x),
         Written(u.cnt[ch], u.part[ch]),
         u.count[ch] # None => Schedule(u.cnt[ch], u.count[ch], u.age[ch])
  PROVE  Timely(u)
<1>1. Scheduled(u)
  <2> SUFFICES ASSUME NEW x \in Channels
               PROVE  /\ Written(u.cnt[x], u.part[x])
                      /\ u.count[x] # None => Schedule(u.cnt[x], u.count[x], u.age[x])
    BY Zenon DEF Scheduled
  <2>1. CASE x = ch BY <2>1, Zenon
  <2>2. CASE x # ch BY <2>2, Zenon DEF Scheduled, Fresh, TimedInv
  <2> QED BY <2>1, <2>2, Zenon
<1>2. Follows(Unit, u) BY DEF Follows
<1>3. u.ticked \subseteq Channels OBVIOUS
<1> QED BY <1>1, <1>2, <1>3, Zenon DEF Timely

(* Latches and reads leave a counter's count, mode, value and OUT alone.   *)
Undisturbed(k, c) ==
  /\ k.cr = c.cr /\ k.crWr = c.crWr /\ k.rw = c.rw /\ k.mode = c.mode
  /\ k.counting = c.counting /\ k.out = c.out /\ k.val = c.val

LEMMA UndisturbedStays ==
  ASSUME NEW c, NEW k, NEW p, NEW n, NEW a, Undisturbed(k, c)
  PROVE  /\ Written(c, p) => Written(k, p)
         /\ Schedule(c, n, a) => Schedule(k, n, a)
<1>1. Count(k) = Count(c) BY Zenon DEF Undisturbed, Count
<1>2. Written(c, p) => Written(k, p) BY Zenon DEF Undisturbed, Written
<1>3. Schedule(c, n, a) => Schedule(k, n, a) BY <1>1, Zenon DEF Undisturbed, Schedule
<1> QED BY <1>2, <1>3, Zenon

LEMMA LatchUndisturbed == ASSUME NEW c \in Counters PROVE Undisturbed(Latch(c), c)
  BY Zenon DEF Latch, Undisturbed, Counters

LEMMA ReadUndisturbed == ASSUME NEW c \in Counters PROVE Undisturbed(Read(c), c)
  BY Zenon DEF Read, ReadLive, Undisturbed, Counters

LEMMA ControlWordTimely ==
  ASSUME TimedInv, NEW ch \in Channels, NEW rw \in SUBSET Halves, NEW mode \in Modes,
         NEW s, NEW u,
         u = [Unit EXCEPT !.cnt[ch] = Control(cnt[ch], rw, mode),
                          !.part[ch] = IF rw = {} THEN part[ch] ELSE None,
                          !.count[ch] = IF rw = {} THEN count[ch] ELSE None,
                          !.snap[ch] = s]
  PROVE  Timely(u)
<1> DEFINE c == cnt[ch]
           k == Control(c, rw, mode)
           p == IF rw = {} THEN part[ch] ELSE None
           n == IF rw = {} THEN count[ch] ELSE None
<1>1. /\ Unit.cnt = cnt /\ Unit.age = age /\ Unit.part = part /\ Unit.count = count
      /\ Unit.snap = snap /\ Unit.ticked = {}
      /\ cnt \in [Channels -> Counters] /\ age \in [Channels -> 0 .. Size]
      /\ part \in [Channels -> Byte \cup {None}] /\ count \in [Channels -> Word \cup {None}]
  BY UnitIs, Zenon DEF TimedInv
<1>2. c \in Counters BY <1>1, Zenon
<1>3. Written(c, part[ch]) /\ (count[ch] # None => Schedule(c, count[ch], age[ch]))
  BY <1>1, Zenon DEF TimedInv, Scheduled
<1>4. Written(k, p) /\ (n # None => Schedule(k, n, age[ch]))
  <2>1. CASE rw = {}
    <3>1. k = Latch(c) BY <2>1, Zenon DEF Control
    <3>2. p = part[ch] /\ n = count[ch] BY <2>1, Zenon
    <3> HIDE DEF k, p, n
    <3>3. Undisturbed(k, c) BY <1>2, <3>1, LatchUndisturbed, Zenon
    <3> QED BY <1>3, <3>2, <3>3, UndisturbedStays, Zenon
  <2>2. CASE rw # {}
    <3>1. k = [c EXCEPT !.crWr = rw, !.olRd = {}, !.cntRd = rw, !.cr = Zeros,
                        !.counting = FALSE, !.rw = rw, !.mode = mode]
      BY <2>2, Zenon DEF Control
    <3>2. p = None /\ n = None BY <2>2, Zenon
    <3> HIDE DEF k, p, n
    <3>3. k.crWr = rw /\ k.rw = rw /\ k.cr = Zeros BY <1>2, <3>1, Zenon DEF Counters
    <3>4. \A h \in Halves \ rw : Zeros[h] = 0 BY DEF Zeros
    <3>5. rw \subseteq rw /\ rw \in {{}, rw} OBVIOUS
    <3>6. Written(k, None) BY <2>2, <3>3, <3>4, <3>5, Zenon DEF Written
    <3> QED BY <3>2, <3>6, Zenon
  <2> QED BY <2>1, <2>2, Zenon
<1>5. u = [Unit EXCEPT !.cnt[ch] = k, !.part[ch] = p, !.count[ch] = n, !.snap[ch] = s] BY Zenon
<1> HIDE DEF k, p, n
<1>6. /\ u.cnt = [cnt EXCEPT ![ch] = k] /\ u.part = [part EXCEPT ![ch] = p]
      /\ u.count = [count EXCEPT ![ch] = n] /\ u.age = age /\ u.ticked = {}
  BY <1>5, Zenon DEF Unit
<1>7. \A x \in Channels : x # ch => Fresh(Unit, u, x)
  <2> SUFFICES ASSUME NEW x \in Channels, x # ch PROVE Fresh(Unit, u, x) OBVIOUS
  <2>1. u.cnt[x] = cnt[x] /\ u.part[x] = part[x] /\ u.count[x] = count[x] BY <1>1, <1>6
  <2> QED BY <1>1, <1>6, <2>1, Zenon DEF Fresh
<1>8. u.cnt[ch] = k /\ u.part[ch] = p /\ u.count[ch] = n /\ u.age[ch] = age[ch]
  BY <1>1, <1>6, Zenon
<1> QED BY <1>4, <1>6, <1>7, <1>8, Rescheduled, Zenon

LEMMA ReadTimely ==
  ASSUME TimedInv, NEW ch \in Channels, NEW k, Undisturbed(k, cnt[ch]),
         NEW u, u = [Unit EXCEPT !.cnt[ch] = k]
  PROVE  Timely(u)
<1>1. /\ Unit.cnt = cnt /\ Unit.age = age /\ Unit.part = part /\ Unit.count = count
      /\ cnt \in [Channels -> Counters]
  BY UnitIs, Zenon DEF TimedInv
<1>2. Written(cnt[ch], part[ch]) /\ (count[ch] # None => Schedule(cnt[ch], count[ch], age[ch]))
  BY <1>1, Zenon DEF TimedInv, Scheduled
<1>3. /\ u.cnt = [cnt EXCEPT ![ch] = k] /\ u.part = part /\ u.count = count
      /\ u.age = age /\ u.ticked = {}
  BY Zenon DEF Unit
<1>4. \A x \in Channels : x # ch => Fresh(Unit, u, x)
  <2> SUFFICES ASSUME NEW x \in Channels, x # ch PROVE Fresh(Unit, u, x) OBVIOUS
  <2>1. u.cnt[x] = cnt[x] BY <1>1, <1>3, Zenon
  <2> QED BY <1>1, <1>3, <2>1, Zenon DEF Fresh
<1>5. u.cnt[ch] = k BY <1>1, <1>3, Zenon
<1>6. /\ Written(u.cnt[ch], u.part[ch])
      /\ u.count[ch] # None => Schedule(u.cnt[ch], u.count[ch], u.age[ch])
  <2>1. Undisturbed(u.cnt[ch], cnt[ch]) BY <1>5, Zenon
  <2>2. u.part[ch] = part[ch] /\ u.count[ch] = count[ch] /\ u.age[ch] = age[ch] BY <1>3, Zenon
  <2> QED BY <1>2, <2>1, <2>2, UndisturbedStays, Zenon
<1> QED BY <1>3, <1>4, <1>6, Rescheduled, Zenon

LEMMA StatusTimely ==
  ASSUME TimedInv, NEW u, u = [Unit EXCEPT !.cnt[2].out = FALSE, !.count[2] = None]
  PROVE  Timely(u)
<1> DEFINE k == [cnt[2] EXCEPT !.out = FALSE]
<1>1. /\ Unit.cnt = cnt /\ Unit.age = age /\ Unit.part = part /\ Unit.count = count
      /\ cnt \in [Channels -> Counters] /\ count \in [Channels -> Word \cup {None}]
  BY UnitIs, Zenon DEF TimedInv
<1>2. 2 \in Channels BY Distinct
<1>3. Written(cnt[2], part[2]) BY <1>1, <1>2, Zenon DEF TimedInv, Scheduled
<1>4. k.cr = cnt[2].cr /\ k.crWr = cnt[2].crWr /\ k.rw = cnt[2].rw
  <2>1. cnt[2] \in Counters BY <1>1, <1>2, Zenon
  <2> QED BY <2>1, Zenon DEF Counters
<1>5. u = [Unit EXCEPT !.cnt[2] = k, !.count[2] = None] BY <1>1, Zenon DEF Unit
<1> HIDE DEF k
<1>6. /\ u.cnt = [cnt EXCEPT ![2] = k] /\ u.part = part /\ u.count = [count EXCEPT ![2] = None]
      /\ u.age = age /\ u.ticked = {}
  BY <1>5, Zenon DEF Unit
<1>7. \A x \in Channels : x # 2 => Fresh(Unit, u, x)
  <2> SUFFICES ASSUME NEW x \in Channels, x # 2 PROVE Fresh(Unit, u, x) OBVIOUS
  <2>1. u.cnt[x] = cnt[x] /\ u.count[x] = count[x] BY <1>1, <1>6
  <2> QED BY <1>1, <1>6, <2>1, Zenon DEF Fresh
<1>8. u.cnt[2] = k /\ u.count[2] = None BY <1>1, <1>2, <1>6, Zenon
<1>9. Written(u.cnt[2], u.part[2]) BY <1>3, <1>4, <1>6, <1>8, Zenon DEF Written
<1> QED BY <1>2, <1>6, <1>7, <1>8, <1>9, Rescheduled, Zenon

LEMMA WriteTimely ==
  ASSUME TimedInv, NEW ch \in Channels, NEW d \in Byte, NEW e \in Byte
  PROVE  Timely(PutByte(Unit, ch, d)) /\ Timely(PutByte(PutByte(Unit, ch, d), ch, e))
<1> DEFINE u == PutByte(Unit, ch, d)
           w == PutByte(u, ch, e)
<1>1. Sound(Unit) BY UnitSound, Zenon DEF TimedInv
<1>2. Scheduled(Unit) /\ Follows(Unit, Unit) BY UnitTimely, Zenon DEF Timely
<1>3. Scheduled(u) /\ Follows(Unit, u) /\ Scheduled(w) /\ Follows(Unit, w)
  BY <1>1, <1>2, TwoBytesScheduled
<1>4. Sound(u) BY <1>1, PutByteSound, Zenon
<1>5. Sound(w) BY <1>4, PutByteSound, Zenon
<1> HIDE DEF u, w
<1>6. u.ticked \subseteq Channels /\ w.ticked \subseteq Channels BY <1>4, <1>5 DEF Sound, Units
<1>7. Timely(u) /\ Timely(w) BY <1>3, <1>6, Zenon DEF Timely
<1> QED BY <1>7 DEF u, w

LEMMA ClockTimely ==
  ASSUME TimedInv PROVE Timely(Clock(Clock(Unit, 0), 2))
<1> DEFINE u == Clock(Unit, 0)
           w == Clock(u, 2)
<1>1. Sound(Unit) BY UnitSound, Zenon DEF TimedInv
<1>2. Scheduled(Unit) /\ Follows(Unit, Unit) BY UnitTimely, Zenon DEF Timely
<1>3. \A x : Fresh(Unit, Unit, x) BY Zenon DEF Fresh
<1>4. Sound(u) BY <1>1, Distinct, ClockSound, Zenon
<1>5. Sound(w) BY <1>4, Distinct, ClockSound, Zenon
<1>6. u = Clock(Unit, 0) OBVIOUS
<1>7. w = Clock(u, 2) OBVIOUS
<1> HIDE DEF u, w
<1>8. /\ Scheduled(u) /\ Follows(Unit, u)
      /\ \A x \in Channels : x # 1 /\ x # 0 => Fresh(Unit, u, x)
  BY <1>1, <1>2, <1>3, <1>6, Distinct, ClockScheduled
<1>9. Fresh(Unit, u, 2) BY <1>8, Distinct, Zenon
<1>10. Scheduled(w) /\ Follows(Unit, w) BY <1>4, <1>7, <1>8, <1>9, Distinct, ClockScheduled
<1>11. w.ticked \subseteq Channels BY <1>5 DEF Sound, Units
<1> QED BY <1>10, <1>11, Zenon DEF Timely, u, w

LEMMA StepOnTime ==
  ASSUME TimedInv, Next PROVE Scheduled(Unit)' /\ OnTimeStep
<1>1. ASSUME NEW u, Timely(u), Become(u) PROVE Scheduled(Unit)' /\ OnTimeStep
  BY <1>1, BecomeScheduled, Zenon
<1>2. ASSUME NEW q \in Programs, ControlWord(q[1], q[2], q[3])
      PROVE  Scheduled(Unit)' /\ OnTimeStep
  <2> DEFINE ch == q[1]
             rw == q[2]
             mode == q[3]
             s == IF rw = {} /\ cnt[ch].olRd = {} THEN cnt[ch].val ELSE snap[ch]
             u == [Unit EXCEPT !.cnt[ch] = Control(cnt[ch], rw, mode),
                               !.part[ch] = IF rw = {} THEN part[ch] ELSE None,
                               !.count[ch] = IF rw = {} THEN count[ch] ELSE None,
                               !.snap[ch] = s]
  <2>1. ch \in Channels /\ rw \in SUBSET Halves /\ mode \in Modes BY SoftwareAssumption
  <2>2. Become(u) BY <1>2 DEF ControlWord, Instruction, Unit
  <2> HIDE DEF s, ch, rw, mode
  <2>3. Timely(u) BY <2>1, ControlWordTimely, Zenon
  <2> QED BY <1>1, <2>2, <2>3, Zenon
<1>3. ASSUME NEW q \in Programs, NEW d \in Values,
             WriteByte(q[1], d) \/ \E e \in Values : WriteWord(q[1], d, e)
      PROVE  Scheduled(Unit)' /\ OnTimeStep
  <2> DEFINE ch == q[1]
  <2>1. ch \in Channels /\ Values \subseteq Byte BY SoftwareAssumption
  <2> HIDE DEF ch
  <2>2. CASE WriteByte(ch, d)
    <3>1. Timely(PutByte(Unit, ch, d)) BY <2>1, WriteTimely
    <3>2. Become(PutByte(Unit, ch, d)) BY <2>2, Zenon DEF WriteByte, Instruction
    <3> QED BY <1>1, <3>1, <3>2, Zenon
  <2>3. ASSUME NEW e \in Values, WriteWord(ch, d, e) PROVE Scheduled(Unit)' /\ OnTimeStep
    <3>1. Timely(PutByte(PutByte(Unit, ch, d), ch, e)) BY <2>1, WriteTimely
    <3>2. Become(PutByte(PutByte(Unit, ch, d), ch, e)) BY <2>3, Zenon DEF WriteWord, Instruction
    <3> QED BY <1>1, <3>1, <3>2, Zenon
  <2> QED BY <1>3, <2>2, <2>3, Zenon DEF ch
<1>4. ASSUME NEW ch \in Readers, ReadByte(ch) \/ ReadWord(ch)
      PROVE  Scheduled(Unit)' /\ OnTimeStep
  <2> DEFINE c == cnt[ch]
             j == Read(c)
             k == Read(j)
  <2>1. ch \in Channels BY SoftwareAssumption
  <2>2. c \in Counters /\ Unit.cnt = cnt BY <2>1, UnitIs, Zenon DEF TimedInv
  <2>3. Undisturbed(j, c) BY <2>2, ReadUndisturbed, Zenon
  <2>4. j \in Counters
    <3>1. snap[ch] \in Word /\ Holds(c, snap[ch]) BY <2>1, Zenon DEF TimedInv, IInv, TypeOK
    <3> QED BY <2>2, <3>1, ReadHolds, Zenon
  <2>5. Undisturbed(k, j) BY <2>4, ReadUndisturbed, Zenon
  <2>6. Become([Unit EXCEPT !.cnt[ch] = j]) \/ Become([Unit EXCEPT !.cnt[ch] = k])
    BY <1>4, <2>2, Zenon DEF ReadByte, ReadWord, Instruction, Unit
  <2> HIDE DEF j, k
  <2>7. Undisturbed(k, c) BY <2>3, <2>5, Zenon DEF Undisturbed
  <2>8. Timely([Unit EXCEPT !.cnt[ch] = j]) BY <2>1, <2>3, ReadTimely, Zenon
  <2>9. Timely([Unit EXCEPT !.cnt[ch] = k]) BY <2>1, <2>7, ReadTimely, Zenon
  <2> QED BY <1>1, <2>6, <2>8, <2>9, Zenon
<1>5. ASSUME NEW keep \in BOOLEAN, WriteStatus(keep) PROVE Scheduled(Unit)' /\ OnTimeStep
  <2> DEFINE u == [Unit EXCEPT !.cnt[2].out = FALSE, !.count[2] = None]
  <2>1. Become(u) BY <1>5, Zenon DEF WriteStatus, Instruction
  <2>2. Timely(u) BY StatusTimely, Zenon
  <2> HIDE DEF u
  <2> QED BY <1>1, <2>1, <2>2, Zenon
<1>6. CASE Other \/ Reset
  <2>1. Become(Unit) BY <1>6, Zenon DEF Other, Instruction, Reset
  <2> QED BY <1>1, <2>1, UnitTimely, Zenon
<1>7. ASSUME NEW cost \in Costs, ClockTimer(cost) PROVE Scheduled(Unit)' /\ OnTimeStep
  <2> DEFINE u == IF cycles + cost >= Limit THEN Clock(Clock(Unit, 0), 2) ELSE Unit
  <2>1. Become(u) BY <1>7, Zenon DEF ClockTimer
  <2>2. Timely(u) BY ClockTimely, UnitTimely, Zenon
  <2> HIDE DEF u
  <2> QED BY <1>1, <2>1, <2>2, Zenon
<1> QED BY <1>2, <1>3, <1>4, <1>5, <1>6, <1>7, Zenon DEF Next, Access

LEMMA ScheduledInitially == Init => Scheduled(Unit)
<1> SUFFICES ASSUME Init PROVE Scheduled(Unit) OBVIOUS
<1>1. Written(InitCounter, None)
  <2>1. /\ InitCounter.rw = Halves /\ InitCounter.crWr = {}
    BY Zenon DEF InitCounter
  <2>2. Halves # {} /\ {} \subseteq Halves /\ Halves \ Halves = {} BY DEF Halves
  <2> HIDE DEF InitCounter
  <2> QED BY <2>1, <2>2, Zenon DEF Written
<1>2. \A x \in Channels : cnt[x] = InitCounter /\ part[x] = None /\ count[x] = None
  BY DEF Init
<1>3. Unit.cnt = cnt /\ Unit.part = part /\ Unit.count = count BY Zenon DEF Unit
<1> QED BY <1>1, <1>2, <1>3, Zenon DEF Scheduled

(* OUT changes on time: whatever software programs, writes, latches and    *)
(* reads, and however its accesses fall between clocks, a counter clocked  *)
(* by the timer or through OUT 0 changes its pin at exactly the clock its  *)
(* mode and the count written to it ask for, and at no other.              *)
THEOREM OutputsOnTime == Spec => OutOnTime
<1>1. Init => Scheduled(Unit) BY ScheduledInitially
<1>2. IInv /\ Scheduled(Unit) /\ [Next]_vars => Scheduled(Unit)'
  <2> SUFFICES ASSUME IInv, Scheduled(Unit), [Next]_vars PROVE Scheduled(Unit)' OBVIOUS
  <2>1. CASE Next BY <2>1, StepOnTime, Zenon DEF TimedInv
  <2>2. CASE UNCHANGED vars
    <3>1. Unit' = Unit BY <2>2, Zenon DEF vars, Unit
    <3> QED BY <3>1, Zenon DEF Scheduled
  <2> QED BY <2>1, <2>2, Zenon
<1>3. IInv /\ Scheduled(Unit) /\ [Next]_vars => [OnTimeStep]_vars
  BY StepOnTime, Zenon DEF TimedInv
<1>4. OnTimeStep <=> \A mode \in {0, 2, 3} : OnTime(mode) BY DEF OnTimeStep
<1> QED BY <1>1, <1>2, <1>3, <1>4, Invariance, PTL DEF Spec, OutOnTime
=============================================================================

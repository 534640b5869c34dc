------------------------------- MODULE Timers -------------------------------
(***************************************************************************)
(* The 8253 timer on the main board (src/e8253.c, src/mainboard.c): three  *)
(* counters behind the ports E4-E7 and FB.  Each instruction is followed   *)
(* by handle8253TimerClockCycle, which turns its cycles into clocks of the *)
(* counters 0 and 2; every change of OUT 0 clocks counter 1, and every     *)
(* change of OUT 0 or OUT 2 raises line 2 of the master 8259.              *)
(***************************************************************************)
EXTENDS E8253

CONSTANTS
  Limit,      \* E8253_TIMER_CYCLE_LIMIT: processor cycles to a clock
  Costs,      \* the cycles an instruction may take
  Programs,   \* <<channel, rw, mode>>: the control words software may write
  Values,     \* the bytes software may write to a counter
  Readers,    \* the counters software may read
  Stray,      \* whether software also writes the status port
  MaxBacklog  \* bound on the cycles waiting to be turned into clocks

Channels == 0 .. 2

ASSUME LimitAssumption == Limit \in Nat \ {0} /\ Costs \subseteq Nat
ASSUME SoftwareAssumption ==
  /\ Programs \subseteq Channels \X (SUBSET Halves) \X Modes
  /\ Values \subseteq Byte
  /\ Readers \subseteq Channels
  /\ Stray \in BOOLEAN
  /\ MaxBacklog \in Nat

VARIABLES
  cnt,     \* the three counters
  flags,   \* timerZero and timerTwo
  cycles,  \* e8253_timer_cycle_count
  line,    \* the level of line 2 of the master 8259
  phase,   \* what z100singleinstruction does next
  age,     \* history: clocks since the load or the last change of OUT
  part,    \* history: the low byte software wrote, while it owes the high one
  count,   \* history: the complete count software wrote, while it is in force
  snap,    \* history: the value at the last latch command that took effect
  ticked   \* history: the counters the last step clocked

vars == <<cnt, flags, cycles, line, phase, age, part, count, snap, ticked>>

Unit == [cnt |-> cnt, line |-> line, age |-> age, part |-> part,
         count |-> count, snap |-> snap, ticked |-> {}]

Become(u) ==
  /\ cnt' = u.cnt /\ line' = u.line /\ age' = u.age
  /\ part' = u.part /\ count' = u.count /\ snap' = u.snap /\ ticked' = u.ticked

-----------------------------------------------------------------------------
(* Counters and their OUT pins.                                            *)

\* A clock turns counter ch into k, its callback not yet called.
Advance(u, ch, k) ==
  LET changed == k.out # u.cnt[ch].out
  IN [u EXCEPT !.cnt[ch] = k,
               !.age[ch] = IF changed THEN 0 ELSE IF @ < Size THEN @ + 1 ELSE @,
               !.ticked = @ \cup {ch}]

\* e8253_cascade_clock_ch1; the callback of OUT 1 only prints.
Cascade(u) ==
  IF u.cnt[1].counting THEN Advance(u, 1, Tick(u.cnt[1])) ELSE u

\* timer_out_0 and timer_out_2, called when OUT has changed.
Out(u, ch, changed) ==
  CASE changed /\ ch = 0 -> Cascade([u EXCEPT !.line = TRUE])
    [] changed /\ ch = 2 -> [u EXCEPT !.line = TRUE]
    [] OTHER -> u

\* One clock of counter ch, if it is counting.
Clock(u, ch) ==
  LET k == Tick(u.cnt[ch])
  IN IF u.cnt[ch].counting
       THEN Out(Advance(u, ch, k), ch, k.out # u.cnt[ch].out)
       ELSE u

(* The history of the bytes software writes: with both halves selected the *)
(* low one comes first.  A running mode 3 counter takes a new count only   *)
(* when its half period ends; no count is said to be in force until the    *)
(* counter is programmed again.                                            *)
None == -1
LowFirst(u, ch) == u.cnt[ch].rw = Halves /\ u.part[ch] = None

PartAfter(u, ch, d) == IF LowFirst(u, ch) THEN d ELSE None

CountAfter(u, ch, d) ==
  LET c == u.cnt[ch]
  IN IF LowFirst(u, ch) \/ (c.mode = 3 /\ c.counting) THEN None
     ELSE CASE c.rw = Halves -> d * Radix + u.part[ch]
            [] c.rw = {"hi"} -> d * Radix
            [] OTHER -> d

\* e8253_set_uint8 for a counter.
PutByte(u, ch, d) ==
  LET c == u.cnt[ch]
      k == Write(c, d)
      v == [u EXCEPT !.cnt[ch] = k, !.age[ch] = 0, !.ticked = @ \ {ch},
                     !.part[ch] = PartAfter(u, ch, d),
                     !.count[ch] = CountAfter(u, ch, d)]
  IN Out(v, ch, k.out # c.out)

-----------------------------------------------------------------------------
(* Port accesses: one instruction each.  A 16-bit out or in accesses the   *)
(* same port twice, low byte first, with no clock in between.              *)

Instruction(u) ==
  /\ phase = "cpu" /\ phase' = "timer"
  /\ Become(u)
  /\ UNCHANGED cycles

\* Port E7.  A latch command takes effect only on a counter whose last
\* latched value has been read.
ControlWord(ch, rw, mode) ==
  /\ Instruction([Unit EXCEPT
       !.cnt[ch] = Control(@, rw, mode),
       !.part[ch] = IF rw = {} THEN @ ELSE None,
       !.count[ch] = IF rw = {} THEN @ ELSE None,
       !.snap[ch] = IF rw = {} /\ cnt[ch].olRd = {} THEN cnt[ch].val ELSE @])
  /\ UNCHANGED flags

\* Ports E4-E6.  A write to counter 0 or 2 clears its status flag.
FlagsAfter(ch) == [zero |-> flags.zero /\ ch # 0, two |-> flags.two /\ ch # 2]

WriteByte(ch, d) ==
  /\ Instruction(PutByte(Unit, ch, d))
  /\ flags' = FlagsAfter(ch)

WriteWord(ch, d, e) ==
  /\ Instruction(PutByte(PutByte(Unit, ch, d), ch, e))
  /\ flags' = FlagsAfter(ch)

ReadByte(ch) ==
  /\ Instruction([Unit EXCEPT !.cnt[ch] = Read(@)])
  /\ UNCHANGED flags

ReadWord(ch) ==
  /\ Instruction([Unit EXCEPT !.cnt[ch] = Read(Read(@))])
  /\ UNCHANGED flags

\* Port FB, e8253_set_status: (value & 2) == 1 never holds, so the second
\* flag is always cleared, and OUT 2 falls without its callback.
WriteStatus(keepZero) ==
  /\ Instruction([Unit EXCEPT !.cnt[2].out = FALSE, !.count[2] = None])
  /\ flags' = [zero |-> flags.zero /\ keepZero, two |-> FALSE]

Other ==
  /\ Instruction(Unit)
  /\ UNCHANGED flags

-----------------------------------------------------------------------------
(* handle8253TimerClockCycle: at most one clock to an instruction; the     *)
(* cycles above the limit are kept.                                        *)
ClockTimer(cost) ==
  LET total == cycles + cost
      u == IF total >= Limit THEN Clock(Clock(Unit, 0), 2) ELSE Unit
      AtZero(ch) == u.cnt[ch].counting /\ u.cnt[ch].val = 0
  IN /\ phase = "timer" /\ phase' = "cpu"
     /\ total <= MaxBacklog
     /\ cycles' = IF total >= Limit THEN total - Limit ELSE total
     /\ Become(u)
     /\ flags' = IF total >= Limit
                   THEN [zero |-> flags.zero \/ AtZero(0),
                         two |-> flags.two \/ AtZero(2)]
                   ELSE flags

\* reset() clears the cycle count; it leaves the 8253 as it is.
Reset ==
  /\ phase = "cpu"
  /\ cycles' = 0
  /\ Become(Unit)
  /\ UNCHANGED <<flags, phase>>

Init ==
  /\ cnt = [ch \in Channels |-> InitCounter]
  /\ flags = [zero |-> FALSE, two |-> FALSE]
  /\ cycles = 0
  /\ line = FALSE
  /\ phase = "cpu"
  /\ age = [ch \in Channels |-> 0]
  /\ part = [ch \in Channels |-> None]
  /\ count = [ch \in Channels |-> None]
  /\ snap = [ch \in Channels |-> 0]
  /\ ticked = {}

Access ==
  \/ \E p \in Programs : ControlWord(p[1], p[2], p[3])
  \/ \E p \in Programs, d \in Values :
       WriteByte(p[1], d) \/ \E e \in Values : WriteWord(p[1], d, e)
  \/ \E ch \in Readers : ReadByte(ch) \/ ReadWord(ch)
  \/ Stray /\ \E keep \in BOOLEAN : WriteStatus(keep)
  \/ Other

Next == Access \/ Reset \/ \E cost \in Costs : ClockTimer(cost)

Spec == Init /\ [][Next]_vars
-----------------------------------------------------------------------------
(* Properties.                                                             *)

TypeOK ==
  /\ cnt \in [Channels -> Counters]
  /\ flags \in [zero : BOOLEAN, two : BOOLEAN]
  /\ cycles \in Nat
  /\ line \in BOOLEAN
  /\ phase \in {"cpu", "timer"}
  /\ age \in [Channels -> 0 .. Size]
  /\ part \in [Channels -> Byte \cup {None}]
  /\ count \in [Channels -> Word \cup {None}]
  /\ snap \in [Channels -> Word]
  /\ ticked \subseteq Channels

\* A counter that runs with a complete count changes OUT exactly at the clock
\* its mode and count ask for, and at no other.
OnTime(mode) ==
  \A ch \in ticked' :
    count[ch] # None /\ cnt[ch].mode = mode =>
      (cnt'[ch].out # cnt[ch].out <=> age[ch] + 1 = Duration(cnt[ch], count[ch]))

(* Mode 0: OUT rises once, N clocks after the load (65536 when N is 0).    *)
(* Mode 2: OUT is low for one clock in every N, for every N but 1 (which   *)
(* never interrupts).  Mode 3: OUT toggles every N/2 clocks, odd counts    *)
(* rounded down, counts below 2 meaning the longest period.  Rewriting     *)
(* other counters, latches and reads do not disturb it.                    *)
OutOnTime == [][\A mode \in {0, 2, 3} : OnTime(mode)]_vars

(* What is read after a latch command is the value of that moment, however *)
(* many clocks, further latch commands and reads of other counters come in *)
(* between, and the halves are not exchanged.                              *)
LatchedReads ==
  \A ch \in Channels :
    LET c == cnt[ch]
    IN c.olRd # {} =>
         ReadValue(c) = IF "lo" \in c.olRd THEN snap[ch] % Radix
                        ELSE snap[ch] \div Radix
=============================================================================

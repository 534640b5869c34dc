------------------------------- MODULE E8253 -------------------------------
(***************************************************************************)
(* One counter of the 8253 interval timer, src/e8253.c: pure operators on  *)
(* a record, composed by the module Timers.                                *)
(*                                                                         *)
(* The code has 8-bit registers and a 16-bit counter; Radix is the number  *)
(* of values of a byte, 256 there and smaller when TLC checks.  The bit    *)
(* masks rw, cr_wr, ol_rd and cnt_rd (1 for the low byte, 2 for the high   *)
(* one) are sets of halves.  Every gate is set to 1 once, before the       *)
(* emulator starts, so the gate is always open; bcd and sr are stored by   *)
(* the code and never read.                                                *)
(***************************************************************************)
EXTENDS Integers

CONSTANT Radix

ASSUME RadixAssumption == Radix \in Nat /\ Radix > 1 /\ Radix % 2 = 0

Byte   == 0 .. Radix - 1
Size   == Radix * Radix
Word   == 0 .. Size - 1
Halves == {"lo", "hi"}
Modes  == 0 .. 5

Counters ==
  [cr : [Halves -> Byte], crWr : SUBSET Halves, rw : SUBSET Halves,
   ol : [Halves -> Byte], olRd : SUBSET Halves, cntRd : SUBSET Halves,
   mode : Modes, counting : BOOLEAN, out : BOOLEAN, val : Word]

Zeros == [h \in Halves |-> 0]

\* e8253_counter_init.
InitCounter ==
  [cr |-> Zeros, crWr |-> {}, rw |-> Halves, ol |-> Zeros, olRd |-> {},
   cntRd |-> {}, mode |-> 0, counting |-> FALSE, out |-> FALSE, val |-> 0]

\* (cr[1] << 8) + cr[0], and v & 0xfffe.
Count(c) == c.cr["hi"] * Radix + c.cr["lo"]
Even(v) == v - (v % 2)

-----------------------------------------------------------------------------
(* Loading and counting, by mode.  The OUT pin's callback is not called    *)
(* here: Timers compares the pin before and after.                         *)

\* cnt_new_val: modes 1, 4 and 5 have no functions; mode 3 leaves a running
\* counter alone until its half period ends.
LoadIdle(c) ==
  CASE c.mode = 0 -> [c EXCEPT !.out = FALSE, !.val = Count(c), !.counting = TRUE]
    [] c.mode = 2 /\ ~c.counting ->
         [c EXCEPT !.out = TRUE, !.val = Count(c), !.counting = TRUE]
    [] c.mode = 3 /\ ~c.counting ->
         [c EXCEPT !.out = TRUE, !.val = Even(Count(c)), !.counting = TRUE]
    [] OTHER -> c
Load(c) ==
  CASE c.mode \in {0, 2} ->
         [c EXCEPT !.out = (c.mode = 2), !.val = Count(c), !.counting = TRUE]
    [] c.mode = 3 /\ ~c.counting ->
         [c EXCEPT !.out = TRUE, !.val = Even(Count(c)), !.counting = TRUE]
    [] OTHER -> c

\* cnt_dec_val_0: down to zero, then OUT goes high and counting is over.
TickOnce(c) ==
  LET v == (c.val - 1) % Size
  IN IF c.out THEN c ELSE [c EXCEPT !.val = v, !.out = (v = 0)]

\* cnt_dec_val_2: OUT is low while the value is 1; zero reloads.
TickRate(c) ==
  LET v == (c.val - 1) % Size
  IN IF v = 0 THEN Load([c EXCEPT !.val = v])
     ELSE [c EXCEPT !.val = v, !.out = c.out /\ v # 1]

\* cnt_dec_val_3: two at a time, reloading when a half period has ended; the
\* value is even while the counter runs.
TickSquare(c) ==
  LET v == IF c.val = 0 THEN Even((Count(c) - 2) % Size) ELSE (c.val - 2) % Size
  IN [c EXCEPT !.val = v, !.out = IF v = 0 THEN ~c.out ELSE c.out]

\* cnt_dec_val with n = 1, for a counter that is counting.
Tick(c) ==
  CASE ~c.counting -> c
    [] c.counting /\ c.mode = 0 -> TickOnce(c)
    [] c.counting /\ c.mode = 2 -> TickRate(c)
    [] c.counting /\ c.mode = 3 -> TickSquare(c)
    [] OTHER -> c

-----------------------------------------------------------------------------
(* The bus.                                                                *)

\* cnt_latch: a latched value that has not been read completely stays.
LatchAlways(c) ==
  [c EXCEPT !.olRd = c.rw,
            !.ol = [h \in Halves |-> IF h = "lo" THEN c.val % Radix ELSE c.val \div Radix]]
Latch(c) ==
  IF c.olRd # {} THEN c
  ELSE [c EXCEPT !.olRd = c.rw,
                 !.ol = [h \in Halves |->
                           IF h = "lo" THEN c.val % Radix ELSE c.val \div Radix]]

\* cnt_set_control: rw = 0 latches; any other rw stops the counter.  The OUT
\* pin and the value stay as they are.
ControlKeepsPhase(c, rw, mode) ==
  IF rw = {} THEN Latch(c)
  ELSE [c EXCEPT !.olRd = {}, !.cntRd = rw, !.cr = Zeros, !.counting = FALSE,
                 !.rw = rw, !.mode = mode]
Control(c, rw, mode) ==
  IF rw = {} THEN Latch(c)
  ELSE [c EXCEPT !.crWr = rw, !.olRd = {}, !.cntRd = rw, !.cr = Zeros,
                 !.counting = FALSE, !.rw = rw, !.mode = mode]

\* e8253_cnt_set_uint8: the low half first; the last half loads the counter.
Write(c, d) ==
  LET wanted == IF c.crWr = {} THEN c.rw ELSE c.crWr
      h == IF "lo" \in wanted THEN "lo" ELSE "hi"
      stored == [c EXCEPT !.crWr = wanted \ {h}, !.cr[h] = d]
      loaded == IF stored.crWr = {} THEN Load(stored) ELSE stored
  IN IF loaded.counting THEN loaded ELSE [loaded EXCEPT !.val = Count(loaded)]

\* e8253_cnt_get_uint8: a latched value first, else the running one, the low
\* half before the high one.
ReadLive(c) ==
  LET wanted == IF c.cntRd = {} THEN c.rw ELSE c.cntRd
  IN [c EXCEPT !.cntRd = wanted \ {IF "lo" \in wanted THEN "lo" ELSE "hi"}]
Read(c) ==
  IF c.olRd # {} THEN [c EXCEPT !.olRd = @ \ {IF "lo" \in @ THEN "lo" ELSE "hi"}]
  ELSE ReadLive(c)

\* The byte that read returns.
ReadValue(c) ==
  LET wanted == IF c.cntRd = {} THEN c.rw ELSE c.cntRd
  IN CASE "lo" \in c.olRd -> c.ol["lo"]
       [] c.olRd = {"hi"} -> c.ol["hi"]
       [] c.olRd = {} /\ "lo" \in wanted -> c.val % Radix
       [] OTHER -> c.val \div Radix

-----------------------------------------------------------------------------
(* What a counter promises: the number of clocks after which OUT changes   *)
(* next, counted from the load of count n or from its last change; 0: never. *)
HalfPeriod(n) == IF n < 2 THEN Size \div 2 ELSE n \div 2

Duration(c, n) ==
  CASE c.mode = 0 -> IF c.out THEN 0 ELSE IF n = 0 THEN Size ELSE n
    [] c.mode = 2 -> IF n = 1 THEN 0
                     ELSE IF ~c.out THEN 1
                     ELSE IF n = 0 THEN Size - 1 ELSE n - 1
    [] c.mode = 3 -> HalfPeriod(n)
    [] OTHER -> 0
=============================================================================

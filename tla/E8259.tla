------------------------------- MODULE E8259 -------------------------------
(***************************************************************************)
(* One 8259 programmable interrupt controller as src/e8259.c implements    *)
(* it: a record of registers and the pure operators on it.  The Z-100 has  *)
(* two of them; module Interrupts wires them to each other, to the devices *)
(* and to the 8088.                                                        *)
(*                                                                         *)
(* The byte registers irr, imr, isr and irq_inp are the sets of lines      *)
(* whose bit is 1.  Left out: the counters irq_cnt and the copies ocw[],   *)
(* which nothing reads; of icw[] only the bits the code tests are kept.    *)
(***************************************************************************)
EXTENDS Integers, FiniteSets

Lines == 0..7

Byte == 0..255

Bases == {8 * k : k \in 0..31}

\* The lines whose bit is set in the byte d.
Bits(d) == {l \in Lines : (d \div 2^l) % 2 = 1}

Pics == [irr     : SUBSET Lines,   \* requests not yet acknowledged
         imr     : SUBSET Lines,   \* masked lines
         isr     : SUBSET Lines,   \* requests in service
         inp     : SUBSET Lines,   \* irq_inp: levels of the input lines
         prio    : Lines,          \* priority: the line that ranks highest
         rot     : BOOLEAN,        \* rot_on_aeoi
         aeoi    : BOOLEAN,        \* icw[3] & E8259_ICW4_AEOI
         sngl    : BOOLEAN,        \* icw[0] & E8259_ICW1_SNGL
         ic4     : BOOLEAN,        \* icw[0] & E8259_ICW1_IC4
         next    : 0..3,           \* next_icw: the next control word expected
         base    : Bases,          \* vector of line 0
         readIrr : BOOLEAN,        \* read_irr
         int     : BOOLEAN]        \* intr_val: level of the INT output

\* e8259_init followed by e8259_reset, as newComputer calls them.
InitPic == [irr |-> {}, imr |-> Lines, isr |-> {}, inp |-> {}, prio |-> 0,
            rot |-> FALSE, aeoi |-> FALSE, sngl |-> FALSE, ic4 |-> FALSE,
            next |-> 0, base |-> 0, readIrr |-> TRUE, int |-> FALSE]

-----------------------------------------------------------------------------
(* Priorities and the INT output.                                          *)

\* Number of lines that outrank l: the scans start at p.priority and wrap.
Rank(p, l) == (l + 8 - p.prio) % 8

\* e8259_get_priority on a non-empty set of lines.
HighestLowestFirst(p, S) == CHOOSE l \in S : \A k \in S : Rank(p, k) <= Rank(p, l)
Highest(p, S) == CHOOSE l \in S : \A k \in S : Rank(p, l) <= Rank(p, k)

Pending(p)   == p.irr \ p.imr
InService(p) == p.isr \ p.imr

(* What e8259_check_int decides: some unmasked request outranks every      *)
(* unmasked line in service (a line in service hides its own request).     *)
IntRequestedNoNesting(p) == Pending(p) # {}
IntRequested(p) ==
  \E l \in Pending(p) : \A s \in InService(p) : Rank(p, l) < Rank(p, s)

-----------------------------------------------------------------------------
(* Register changes.  The check of the INT output that follows each of     *)
(* them in the code belongs to the callers in module Interrupts, because   *)
(* it calls out of the controller.                                         *)

\* e8259_set_irq with val = 1 on a line that was low (inputs are edges).
Raise(p, l) == [p EXCEPT !.inp = @ \cup {l}, !.irr = @ \cup {l}]

\* e8259_set_irq with val = 0 on a line that was high.
Lower(p, l) == [p EXCEPT !.inp = @ \ {l}, !.irr = @ \ {l}]

(* The registers after e8259_inta took the highest pending request.        *)
Acknowledge(p) ==
  LET l == Highest(p, Pending(p))
  IN [p EXCEPT !.int  = FALSE,
               !.irr  = @ \ {l},
               !.isr  = IF p.aeoi THEN @ ELSE @ \cup {l},
               !.prio = IF p.aeoi /\ p.rot THEN (l + 1) % 8 ELSE @]

-----------------------------------------------------------------------------
(* The control words, e8259_set_uint8.                                     *)

ICW1(p, d) ==
  [p EXCEPT !.sngl = 1 \in Bits(d), !.ic4 = 0 \in Bits(d), !.aeoi = FALSE,
            !.base = 0, !.next = 1, !.readIrr = TRUE, !.prio = 0,
            !.rot = FALSE, !.imr = {}, !.isr = {}]

\* e8259_set_icwn: ICW2 sets the base, ICW3 is stored, ICW4 sets AEOI.
ICWn(p, d) ==
  CASE p.next = 1 -> [p EXCEPT !.base = 8 * (d \div 8),
                               !.next = IF ~p.sngl THEN 2
                                        ELSE IF p.ic4 THEN 3 ELSE 0]
    [] p.next = 2 -> [p EXCEPT !.next = IF p.ic4 THEN 3 ELSE 0]
    [] OTHER      -> [p EXCEPT !.aeoi = 1 \in Bits(d), !.next = 0]

OCW1(p, d) == [p EXCEPT !.imr = Bits(d)]

\* e8259_set_ocw2: end of interrupt, rotation and priority commands.
OCW2(p, d) ==
  LET op   == d \div 32
      l    == d % 8
      next == (l + 1) % 8
      top  == Highest(p, p.isr)
  IN CASE op = 0 -> [p EXCEPT !.rot = FALSE]
       [] op = 1 -> IF p.isr = {} THEN p ELSE [p EXCEPT !.isr = @ \ {top}]
       [] op = 2 -> p
       [] op = 3 -> [p EXCEPT !.isr = @ \ {l}]
       [] op = 4 -> [p EXCEPT !.rot = TRUE]
       [] op = 5 -> IF p.isr = {} THEN p
                    ELSE [p EXCEPT !.isr = @ \ {top}, !.prio = (top + 1) % 8]
       [] op = 6 -> [p EXCEPT !.prio = next]
       [] op = 7 -> [p EXCEPT !.isr = @ \ {l}, !.prio = next]

OCW3(p, d) == IF 1 \in Bits(d) THEN [p EXCEPT !.readIrr = 0 \notin Bits(d)] ELSE p

\* A write of byte d to register a (0 or 1), up to the trailing check.
WriteReg(p, a, d) ==
  CASE a = 0 /\ 4 \in Bits(d)                            -> ICW1(p, d)
    [] a = 0 /\ {3, 4} \cap Bits(d) = {}                 -> OCW2(p, d)
    [] a = 0 /\ {3, 4, 7} \cap Bits(d) = {3}             -> OCW3(p, d)
    [] a = 0 /\ 4 \notin Bits(d) /\ {3, 7} \subseteq Bits(d) -> p
    [] a = 1 /\ p.next # 0                               -> ICWn(p, d)
    [] a = 1 /\ p.next = 0                               -> OCW1(p, d)

(* e8259_reset: the input levels and the vector base survive.              *)
ResetPic(p) ==
  [p EXCEPT !.irr = {}, !.imr = Lines, !.isr = {}, !.prio = 0, !.rot = FALSE,
            !.aeoi = FALSE, !.sngl = FALSE, !.ic4 = FALSE, !.next = 0,
            !.readIrr = TRUE]
=============================================================================

------------------------------ MODULE MCTimers ------------------------------
(* Constants of the Timers runs: bytes of two bits, so counters of four.   *)
EXTENDS Timers

Both == {"lo", "hi"}

\* Counter 2 in each mode that counts, both halves or only the low one, and
\* one of the modes that do not count.
ModePrograms ==
  {<<2, Both, 0>>, <<2, Both, 2>>, <<2, Both, 3>>, <<2, {"lo"}, 3>>, <<2, Both, 1>>}

\* Counter 0 at a rate, with latch commands, counter 1 a square wave behind
\* it (with bytes of one bit).
CascadePrograms == {<<0, Both, 2>>, <<1, Both, 3>>, <<0, {}, 0>>}

AllBytes == Byte
=============================================================================

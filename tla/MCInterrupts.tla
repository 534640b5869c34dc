---------------------------- MODULE MCInterrupts ----------------------------
(* Constants of the Interrupts runs.  Software may write the bytes below   *)
(* in any order, so every initialisation sequence made of them is covered, *)
(* the interrupted and the incomplete ones too.                            *)
EXTENDS Interrupts

Swap8088 == <<"FE", 128>>

\* Single, with ICW4 (19); bases 0, 8 and 64; ICW4 without AEOI (0);
\* masks {}, {3}, {6}; EOI (32).
CascadeWrites == {Swap8088,
                  <<"F2", 19>>, <<"F3", 0>>, <<"F3", 8>>, <<"F3", 64>>, <<"F2", 32>>,
                  <<"F0", 19>>, <<"F1", 0>>, <<"F1", 8>>, <<"F0", 32>>}

\* The master: ICW1 with and without ICW4 (19, 22), AEOI (2), rotation set and
\* clear (128, 0), set priority 2 (194) and 7 (199), rotate on EOI (160),
\* rotate on specific EOI of line 2 (226); mask lines 2 and 3 (12), so that
\* both can be pending when it is lifted.  The secondary: ICWs, mask, EOI.
ControllerWrites == {Swap8088,
                     <<"F2", 19>>, <<"F2", 22>>, <<"F3", 0>>, <<"F3", 2>>, <<"F2", 128>>,
                     <<"F2", 0>>, <<"F2", 194>>, <<"F2", 199>>, <<"F2", 160>>, <<"F2", 226>>,
                     <<"F3", 12>>, <<"F0", 19>>, <<"F1", 0>>, <<"F1", 8>>, <<"F0", 32>>}

\* Swaps: to the 8088, interrupt to either, forced 8088, back to the 8085;
\* latch: forced parity with the check on (32) and off (0), normal (48, 16).
TrapWrites == {Swap8088, <<"FE", 130>>, <<"FE", 2>>, <<"FE", 3>>, <<"FE", 0>>,
               <<"FC", 32>>, <<"FC", 0>>, <<"FC", 48>>,
               <<"F3", 0>>, <<"F3", 3>>, <<"F2", 32>>, <<"F2", 11>>, <<"F5", 0>>}

SomeInstructions == {"plain", "sti", "iret"}
AllInstructions == InstrNames
=============================================================================

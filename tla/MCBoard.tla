------------------------------- MODULE MCBoard ------------------------------
(***************************************************************************)
(* A screen of three rows and two columns; drive A with a CP/M image of one *)
(* sector and a half, drive B with a protected floppy image of one byte,   *)
(* which may be missing.                                                   *)
(***************************************************************************)
EXTENDS Board, TLC

SomeFiles ==
  {[n \in Names |-> IF n = "a.cpm" THEN <<0, 1, 1>> ELSE b] : b \in {<<1>>, Missing}}
SomeNames == {[d \in Drives |-> IF d = 0 THEN "a.cpm" ELSE "_b.img"]}
=============================================================================

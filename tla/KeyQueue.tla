------------------------------ MODULE KeyQueue ------------------------------
(***************************************************************************)
(* What the keyboard promises to the program that reads it: a queue of key *)
(* codes and a data register that keeps the last one.  Keyboard.tla, the   *)
(* two threads of src/keyboard.c, implements it.                           *)
(*                                                                         *)
(* A queue of Ring slots holds Ring - 1 keys; one more loses them all.  A  *)
(* clear that comes while a key is being put tears the put: the queue may  *)
(* then hold anything, keys from before the clear included.                *)
(***************************************************************************)
EXTENDS Naturals, Sequences

CONSTANTS Codes, Ring

VARIABLES
  queue,    \* the keys not yet read, oldest first
  putting,  \* whether a key is being put, and whether a clear tore the put
  key,      \* that key
  last,     \* the data register
  got       \* the value of the last read

keyQueueVars == <<queue, putting, key, last, got>>

Init ==
  /\ queue = <<>> /\ putting = "no"
  /\ key = 0 /\ last = 0 /\ got = 0

Begin(k) ==
  /\ putting = "no"
  /\ putting' = "yes" /\ key' = k
  /\ UNCHANGED <<queue, last, got>>

Finish ==
  /\ putting = "yes"
  /\ putting' = "no"
  /\ queue' = IF Len(queue) = Ring - 1 THEN <<>> ELSE Append(queue, key)
  /\ UNCHANGED <<key, last, got>>

FinishTorn ==
  /\ putting = "torn"
  /\ putting' = "no"
  /\ queue' \in Seq(Codes) /\ Len(queue') < Ring
  /\ UNCHANGED <<key, last, got>>

Get ==
  /\ putting = "no" /\ queue # <<>>
  /\ queue' = Tail(queue)
  /\ got' = Head(queue) /\ last' = Head(queue)
  /\ UNCHANGED <<putting, key>>

\* The data register can be read once more when the queue is empty.
GetAgain ==
  /\ putting = "no" /\ queue = <<>>
  /\ got' = last /\ last' = 0
  /\ UNCHANGED <<queue, putting, key>>

Clear ==
  /\ queue' = <<>>
  /\ putting' = IF putting = "no" THEN "no" ELSE "torn"
  /\ UNCHANGED <<key, last, got>>

Next ==
  \/ \E k \in Codes : Begin(k)
  \/ Finish \/ FinishTorn \/ Get \/ GetAgain \/ Clear

Spec == Init /\ [][Next]_keyQueueVars
=============================================================================

------------------------------- MODULE Board --------------------------------
(***************************************************************************)
(* The parts of the board a CP/M program uses through the emulator's own   *)
(* ports: the console, the disks, and the pause that its reads of the      *)
(* console know of.  They share the emulator thread and the reset, and     *)
(* nothing else, so the guest uses one of them: which one never changes.   *)
(***************************************************************************)
EXTENDS Console, CpmDisks, Debugger

VARIABLE guest           \* "console", "disks" or "keys"

board == <<console, disks, debugger, guest>>

Init ==
  /\ guest \in {"console", "disks", "keys"}
  /\ ConsoleInit /\ DisksInit /\ DebuggerInit

UseConsole ==
  /\ guest = "console"
  /\ ConsoleNext
  /\ UNCHANGED <<disks, debugger, guest>>

UseDisks ==
  /\ guest = "disks"
  /\ GuestDisks
  /\ UNCHANGED <<console, debugger, guest>>

\* The debugger's command f; a CP/M image resets the computer.
GiveFile ==
  /\ guest = "disks"
  /\ \E d \in Drives, n \in Names :
       NameFile(d, n) /\ IF n \in Floppies THEN UNCHANGED console ELSE ConsoleReset
  /\ UNCHANGED <<debugger, guest>>

\* A command of the floppy controller, whose drives have the same images.
UseFloppy ==
  /\ guest = "disks"
  /\ \E d \in Drives : Reassemble(d)
  /\ UNCHANGED <<console, debugger, guest>>

\* The debugger's command 0.
ResetComputer ==
  /\ guest \in {"console", "disks"}
  /\ ConsoleReset /\ Reassemble(0)
  /\ UNCHANGED <<debugger, guest>>

UseKeys ==
  /\ guest = "keys"
  /\ DebuggerNext
  /\ UNCHANGED <<console, disks, guest>>

Next == UseConsole \/ UseDisks \/ GiveFile \/ UseFloppy \/ ResetComputer \/ UseKeys

Spec == Init /\ [][Next]_board

\* The emulator thread is scheduled; the user owes it nothing.
FairSpec ==
  Spec /\ WF_board(guest = "keys" /\ EmulatorStep /\ UNCHANGED <<console, disks, guest>>)

-----------------------------------------------------------------------------

\* The cursor and its registers stay on the page, cursor addressing is never
\* reached, and no byte or name is lost (video.c:289-378, mainboard.c:785-883).
TypeOK ==
  /\ x \in 0..(Columns - 1) /\ y \in 1..(Rows - 1) /\ esc \in {0, 1}
  /\ cursor \in 0..(Rows * Columns - 1)
  /\ vram \in [0..(PlaneSize - 1) -> Codes \union {Empty}]
  /\ memory \in [0..(MemorySize - 1) -> Values] /\ \A d \in Drives : image[d] \in Seq(Values)
  /\ name \in [Drives -> Names] /\ loaded \in [Drives -> Names \union {NoName}]
  /\ at \in Places /\ caller \in {"loop", "debugger"} /\ pause \in {0, 1}
  /\ keys \in 0..MaxKeys /\ started \in 0..2

\* Types, and the file of drive A holding what its image holds, whatever is
\* written, selected, loaded or renamed (mainboard.c:63-88, 869-882).
Coherent == TypeOK /\ DriveASaved

\* The screen behaves as the terminal of module Terminal: characters, lines and
\* pages of bytes in video memory are what a reader of the screen sees
\* (video.c:107-120, 142-250, 289-408).
ActsAsTerminal == Page!Spec
=============================================================================

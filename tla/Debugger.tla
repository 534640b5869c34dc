------------------------------ MODULE Debugger ------------------------------
(***************************************************************************)
(* How the emulator is paused.  The emulator thread tests pauseSimulation  *)
(* before each instruction and gives the debugger the terminal; the        *)
(* thread of the window toggles it with F12, a signal sets it with ctrl-C, *)
(* a breakpoint with an instruction; and nothing orders them but the       *)
(* variable itself.  A program that reads the console port waits inside    *)
(* its instruction for a key, or until the emulator is paused.             *)
(***************************************************************************)
EXTENDS Naturals

CONSTANT MaxKeys         \* keys that wait, enough for one to be left over

ASSUME KeysAssumption == MaxKeys \in Nat \ {0}

VARIABLES at,            \* where the emulator thread is
          caller,        \* who runs the instruction: "loop" or "debugger"
          pause,         \* pauseSimulation
          window,        \* what the thread of the window is about to do
          keys,          \* keys in the ring of the keyboard
          started        \* instructions the loop began since the pause, 2 for more

debugger == <<at, caller, pause, window, keys, started>>

Places == {"top", "step", "reading", "prompt", "leaving"}

DebuggerInit ==
  /\ at = "top" /\ caller = "loop" /\ pause = 0 /\ window = "idle"
  /\ keys = 0 /\ started = 0

\* A pause that is there already changes nothing.
PauseS ==
  /\ pause' = 1
  /\ started' = IF pause = 1 THEN started ELSE 0

Home == IF caller = "loop" THEN "top" ELSE "prompt"

\* z100mainloop: the test, and then the debugger or the instruction.
TestUnpaused ==
  /\ at = "top" /\ at' = "step"
  /\ UNCHANGED <<caller, pause, window, keys, started>>
Test ==
  /\ at = "top"
  /\ at' = IF pause = 1 THEN "prompt" ELSE "step"
  /\ UNCHANGED <<caller, pause, window, keys, started>>

Counted == IF caller = "loop" /\ pause = 1 /\ started < 2 THEN started + 1 ELSE started

\* z100singleinstruction; breakpoints are looked at when it is over.
Instruction ==
  /\ at = "step" /\ at' = Home
  /\ started' = Counted
  /\ UNCHANGED <<caller, pause, window, keys>>
BreakpointHit ==
  /\ at = "step" /\ at' = Home
  /\ pause' = 1
  /\ started' = IF pause = 1 THEN Counted ELSE 0
  /\ UNCHANGED <<caller, window, keys>>
ReadConsole ==
  /\ at = "step" /\ at' = "reading"
  /\ started' = Counted
  /\ UNCHANGED <<caller, pause, window, keys>>

\* receive.
ReceivePatiently ==
  /\ at = "reading" /\ keys > 0
  /\ at' = Home /\ keys' = keys - 1
  /\ UNCHANGED <<caller, pause, window, started>>
Receive ==
  /\ at = "reading"
  /\ \/ keys > 0 /\ keys' = keys - 1
     \/ keys = 0 /\ pause = 1 /\ UNCHANGED keys
  /\ at' = Home
  /\ UNCHANGED <<caller, pause, window, started>>

\* handleDebug.  A character typed after the pause was taken back leaves the
\* debugger whatever it is; other commands than g and t come back to the prompt.
Go ==
  /\ at = "prompt" /\ at' = "leaving"
  /\ UNCHANGED <<caller, pause, window, keys, started>>
SingleStep ==
  /\ at = "prompt" /\ pause = 1
  /\ at' = "step" /\ caller' = "debugger"
  /\ UNCHANGED <<pause, window, keys, started>>
Leave ==
  /\ at = "leaving" /\ at' = "step" /\ caller' = "loop"
  /\ pause' = 0 /\ started' = 0
  /\ UNCHANGED <<window, keys>>

\* togglePause tests in one step and acts in another.
TogglePause ==
  /\ window = "idle"
  /\ window' = IF pause = 0 THEN "pausing" ELSE "unpausing"
  /\ UNCHANGED <<at, caller, pause, keys, started>>
WindowPauses ==
  /\ window = "pausing" /\ window' = "idle"
  /\ PauseS
  /\ UNCHANGED <<at, caller, keys>>
WindowUnpauses ==
  /\ window = "unpausing" /\ window' = "idle"
  /\ pause' = 0 /\ started' = 0
  /\ UNCHANGED <<at, caller, keys>>

OnCtrlC == PauseS /\ UNCHANGED <<at, caller, window, keys>>

KeyPressed ==
  /\ keys < MaxKeys /\ keys' = keys + 1
  /\ UNCHANGED <<at, caller, pause, window, started>>

EmulatorStep == Test \/ Instruction \/ BreakpointHit \/ ReadConsole \/ Receive \/ Leave

DebuggerNext ==
  \/ EmulatorStep \/ Go \/ SingleStep
  \/ TogglePause \/ WindowPauses \/ WindowUnpauses \/ OnCtrlC \/ KeyPressed

-----------------------------------------------------------------------------

\* At most the instruction that was about to begin runs once a pause is asked
\* for (mainboard.c:267-281).
StopsSoon == started <= 1

\* A pause, from wherever it comes, brings the debugger or is taken back, also
\* when the program waits for a key (mainboard.c:276, 548-555, 1156-1172).
PauseAnswered == pause = 1 ~> (at = "prompt" \/ pause = 0)
=============================================================================

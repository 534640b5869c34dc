------------------------------ MODULE Keyboard ------------------------------
(***************************************************************************)
(* The keyboard, src/keyboard.c: a ring of key codes that the thread of    *)
(* the user interface fills (keyaction) and the emulator thread empties    *)
(* (port F4, and port 2 of the CP/M emulation), and the interrupt request  *)
(* between them.                                                           *)
(*                                                                         *)
(* fifo_mutex is held by keyaction around its update of the ring and of    *)
(* requestInterrupt, and by keyboardDataRead.  The status read, the clear  *)
(* and reset commands and the test of requestInterrupt do not take it, so  *)
(* they come between any two accesses of keyaction to shared variables:    *)
(* "ui" and "emu" say where the two threads are.  A read of the data under *)
(* the mutex is one step, possible when keyaction does not hold it.        *)
(* The modes that other commands set (auto repeat, click, ASCII, enabled)  *)
(* are never read by the code.                                             *)
(***************************************************************************)
EXTENDS Naturals, Sequences

CONSTANTS
  Ring,      \* the size of fifo
  Pressed,   \* the codes the user interface may pass to keyaction
  Commands,  \* the commands software uses, among "clear" (5), "reset" (0)
  Cpm        \* whether software uses port 2, which waits for a key

ASSUME RingAssumption == Ring \in Nat /\ Ring > 1
ASSUME UserAssumption ==
  /\ Pressed \subseteq 1 .. 255
  /\ Commands \subseteq {"clear", "reset"}
  /\ Cpm \in BOOLEAN

VARIABLES
  fifo, head, tail,  \* the ring
  data,              \* dataReg
  request,           \* requestInterrupt
  ctrl,              \* controlPressed
  ui,                \* where keyaction is; it holds the mutex unless "idle"
  code, reg,         \* its local variable and the tail it has loaded
  emu,               \* where the emulator thread is
  got,               \* history: the value of the last read
  torn,              \* history: a clear came between two accesses of this put
  untold             \* history: a key has arrived since the last trap or clear

ring == <<fifo, head, tail>>
uiVars == <<ctrl, ui, code, reg>>
vars == <<ring, data, request, uiVars, emu, got, torn, untold>>

Slots == 0 .. Ring - 1

Control == 3      \* the codes keyaction treats specially
Shift == 225

\* Control makes a control character of the next key; the arrow keys are
\* sent as ctrl-k, ctrl-j, ctrl-l and ctrl-h.
Arrow == [k \in 165 .. 168 |-> <<11, 10, 12, 8>>[k - 164]]
KeyCode(k, control) ==
  LET c == IF control THEN k % 32 ELSE k
  IN IF c \in DOMAIN Arrow THEN Arrow[c] ELSE c

Codes == {0} \cup {KeyCode(k, b) : k \in Pressed \ {Control, Shift}, b \in BOOLEAN}

-----------------------------------------------------------------------------
(* keyaction, on the user interface thread.                                *)

PressControl ==
  /\ ui = "idle" /\ Control \in Pressed
  /\ ctrl' = TRUE
  /\ UNCHANGED <<ring, data, request, ui, code, reg, emu, got, torn, untold>>

\* Take the mutex and store the code; the tail is loaded again afterwards.
PressKeyAhead(k) ==
  /\ ui = "idle" /\ k \notin {Control, Shift}
  /\ ui' = "stored"
  /\ code' = KeyCode(k, ctrl)
  /\ ctrl' = FALSE
  /\ fifo' = [fifo EXCEPT ![(tail + 1) % Ring] = code']
  /\ torn' = FALSE
  /\ UNCHANGED <<head, tail, data, request, reg, emu, got, untold>>
PressKey(k) ==
  /\ ui = "idle" /\ k \notin {Control, Shift}
  /\ ui' = "stored"
  /\ code' = KeyCode(k, ctrl)
  /\ ctrl' = FALSE
  /\ fifo' = [fifo EXCEPT ![tail] = code']
  /\ torn' = FALSE
  /\ UNCHANGED <<head, tail, data, request, reg, emu, got, untold>>

LoadTail ==
  /\ ui = "stored" /\ ui' = "loaded"
  /\ reg' = tail
  /\ UNCHANGED <<ring, data, request, ctrl, code, emu, got, torn, untold>>

AdvanceTail ==
  /\ ui = "loaded" /\ ui' = "advanced"
  /\ tail' = (reg + 1) % Ring
  /\ untold' = TRUE
  /\ UNCHANGED <<fifo, head, data, request, ctrl, code, reg, emu, got, torn>>

\* Request an interrupt and release the mutex.
RequestInterruptFirst ==
  /\ ui = "advanced" /\ ui' = "idle"
  /\ request' = (request \/ tail = (head + 1) % Ring)
  /\ UNCHANGED <<ring, data, ctrl, code, reg, emu, got, torn, untold>>
RequestInterrupt ==
  /\ ui = "advanced" /\ ui' = "idle"
  /\ request' = TRUE
  /\ UNCHANGED <<ring, data, ctrl, code, reg, emu, got, torn, untold>>

KeyAction == LoadTail \/ AdvanceTail \/ RequestInterrupt

-----------------------------------------------------------------------------
(* The emulator thread: z100singleinstruction tests the request, and then  *)
(* the 8088 executes an instruction.                                       *)

CheckRequest ==
  /\ emu = "check"
  /\ emu' = IF request THEN "answer" ELSE "run"
  /\ UNCHANGED <<ring, data, request, uiVars, got, torn, untold>>

\* The request is cleared; the trap is left out while the monitor runs
\* (CS = 0xfc01), which polls the keyboard.
AnswerRequestNoTrap ==
  /\ emu = "answer" /\ emu' = "run"
  /\ request' = FALSE
  /\ UNCHANGED <<ring, data, uiVars, got, torn, untold>>
AnswerRequest ==
  /\ emu = "answer" /\ emu' = "run"
  /\ request' = FALSE
  /\ untold' = FALSE
  /\ UNCHANGED <<ring, data, uiVars, got, torn>>

Other ==
  /\ emu = "run" /\ emu' = "check"
  /\ UNCHANGED <<ring, data, request, uiVars, got, torn, untold>>

\* keyboardDataRead, when it gets the mutex.
TakeKey ==
  /\ ui = "idle"
  /\ got' = IF head = tail THEN data ELSE fifo[head]
  /\ data' = IF head = tail THEN 0 ELSE fifo[head]
  /\ head' = IF head = tail THEN head ELSE (head + 1) % Ring
  /\ UNCHANGED <<fifo, tail, request, uiVars, torn, untold>>

DataRead ==
  /\ emu = "run" /\ emu' = "check"
  /\ TakeKey

\* Commands 5 and 0 store 0 in the tail, then in the head; command 0 then
\* withdraws the interrupt request.  Neither takes the mutex.
ClearTail(command) ==
  /\ emu = "run" /\ emu' = command
  /\ tail' = 0
  /\ torn' = (torn \/ ui \in {"stored", "loaded"})
  /\ untold' = FALSE
  /\ UNCHANGED <<fifo, head, data, request, uiVars, got>>

ClearHead ==
  /\ emu \in {"clear", "reset"}
  /\ emu' = IF emu = "reset" THEN "withdraw" ELSE "check"
  /\ head' = 0
  /\ UNCHANGED <<fifo, tail, data, request, uiVars, got, torn, untold>>

WithdrawRequest ==
  /\ emu = "withdraw" /\ emu' = "check"
  /\ request' = FALSE
  /\ UNCHANGED <<ring, data, uiVars, got, torn, untold>>

\* receive: port 2 polls the status until there is a key and then reads it;
\* it gives up, without a key, while the simulation is paused.
Receive ==
  /\ emu = "run" /\ Cpm
  /\ emu' = "receive"
  /\ UNCHANGED <<ring, data, request, uiVars, got, torn, untold>>

PollKeyOnRequest ==
  /\ emu = "receive" /\ head # tail /\ request
  /\ emu' = "take"
  /\ UNCHANGED <<ring, data, request, uiVars, got, torn, untold>>
PollKey ==
  /\ emu = "receive" /\ head # tail
  /\ emu' = "take"
  /\ UNCHANGED <<ring, data, request, uiVars, got, torn, untold>>

ReceivePaused ==
  /\ emu = "receive" /\ head = tail
  /\ emu' = "check"
  /\ UNCHANGED <<ring, data, request, uiVars, got, torn, untold>>

ReceiveKey ==
  /\ emu = "take" /\ emu' = "check"
  /\ TakeKey

Init ==
  /\ fifo \in [Slots -> Codes]   \* not initialised
  /\ head = 0 /\ tail = 0 /\ data = 0
  /\ request = FALSE /\ ctrl = FALSE
  /\ ui = "idle" /\ code = 0 /\ reg = 0
  /\ emu = "check" /\ got = 0
  /\ torn = FALSE /\ untold = FALSE

Emulator ==
  \/ CheckRequest \/ AnswerRequest \/ Other \/ DataRead
  \/ \E c \in Commands : ClearTail(c)
  \/ ClearHead \/ WithdrawRequest
  \/ Receive \/ PollKey \/ ReceivePaused \/ ReceiveKey

Next ==
  \/ PressControl \/ \E k \in Pressed : PressKey(k)
  \/ KeyAction \/ Emulator

Spec == Init /\ [][Next]_vars

(***************************************************************************)
(* Both threads run for ever.  keyaction holds the mutex for a few stores  *)
(* to each key that is pressed, so a read that could take it again and     *)
(* again takes it at last.                                                 *)
(***************************************************************************)
FairSpec ==
  /\ Spec
  /\ WF_vars(KeyAction)
  /\ WF_vars(CheckRequest \/ AnswerRequest \/ Other \/ ClearHead \/ WithdrawRequest)
  /\ WF_vars(PollKey)
  /\ SF_vars(ReceiveKey)
-----------------------------------------------------------------------------
(* Properties.                                                             *)

TypeOK ==
  /\ fifo \in [Slots -> Codes]
  /\ head \in Slots /\ tail \in Slots /\ reg \in Slots
  /\ {data, code, got} \subseteq Codes
  /\ {request, ctrl, torn, untold} \subseteq BOOLEAN
  /\ ui \in {"idle", "stored", "loaded", "advanced"}
  /\ emu \in {"check", "answer", "run", "clear", "reset", "withdraw",
              "receive", "take"}

\* The keys in the ring from slot h up to the tail.
Waiting(h) == [i \in 1 .. (tail + Ring - h) % Ring |-> fifo[(h + i - 1) % Ring]]

Clearing == emu \in {"clear", "reset"}

Queue == INSTANCE KeyQueue WITH
  queue <- Waiting(IF Clearing THEN 0 ELSE head),
  putting <- IF ui \notin {"stored", "loaded"} THEN "no"
             ELSE IF torn THEN "torn" ELSE "yes",
  key <- code,
  last <- data

(* The two threads implement the queue: a key becomes visible at once, by  *)
(* the store to the tail, in the order of pressing, is read once, and only *)
(* a clear that overlaps a put can tear it.                                *)
ImplementsQueue == Queue!Spec

(* Unless the keyboard is reset, a key the 8088 has not been interrupted   *)
(* for is announced: an interrupt is requested, about to be requested or   *)
(* being answered, whatever the two threads do without the mutex.          *)
KeyAnnounced ==
  untold => request \/ ui = "advanced" \/ emu = "answer"

Waits == emu \in {"receive", "take"}

(* The 8088 is interrupted for every key, unless a clear throws the key    *)
(* away or the program waits at port 2, where it takes no interrupt.       *)
KeyTraps == untold ~> (~untold \/ Waits)

(* A program waiting at port 2 gets a key that has come in, unless so many *)
(* keys follow that the ring wraps to empty.                               *)
ReceiveReturns == (Waits /\ head # tail) ~> (~Waits \/ head = tail)
=============================================================================

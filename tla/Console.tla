------------------------------ MODULE Console -------------------------------
(***************************************************************************)
(* The console of the CP/M ports: videoWrite of video.c, which draws       *)
(* characters into the green plane of the video memory, and renderScreen,  *)
(* which shows it.                                                         *)
(*                                                                         *)
(* A byte of vram stands for the nine scan lines of a character: they are  *)
(* Pitch / 16 bytes apart, and everything here writes, copies, clears and  *)
(* shows all nine.  Codes are the ASCII numbers of the source.             *)
(***************************************************************************)
EXTENDS Integers

CONSTANTS Columns,       \* 80
          Rows,          \* 25
          Pitch,         \* 0x80 * 0x10, bytes from one row to the next
          PlaneSize,     \* 0x10000
          StartRow,      \* 3
          Codes          \* what programs write

ASSUME ScreenAssumption ==
  /\ Columns \in Nat \ {0} /\ Rows \in Nat \ {0, 1} /\ StartRow \in 1..(Rows - 1)
  /\ Pitch \in Nat /\ Pitch >= Columns
  /\ PlaneSize \in Nat /\ PlaneSize >= (Rows + 1) * Pitch

VARIABLES x, y,                          \* where the next character goes
          esc, escape1, escline,         \* the escape sequence so far
          vram,
          cursor                         \* cursorh and cursorl

console == <<x, y, esc, escape1, escline, vram, cursor>>

Empty == 0
Space == 32
Printable == 32..126
BS == 8
LF == 10
CR == 13
ESC == 27
LetterE == 69
LetterH == 72
LetterJ == 74
LetterY == 89

Address(r, c) == r * Pitch + c
Cleared == [a \in 0..(PlaneSize - 1) |-> Empty]

\* resetVideo leaves the video memory blank and the cursor registers zero.
ConsoleInit ==
  /\ x = 0 /\ y = StartRow /\ esc = 0 /\ escape1 = 0 /\ escline = 0
  /\ vram = Cleared /\ cursor = 0
ConsoleReset ==
  /\ x' = 0 /\ y' = StartRow /\ esc' = 0 /\ escape1' = 0 /\ escline' = 0
  /\ vram' = Cleared /\ cursor' = 0

\* A space has no pixel.
Glyph(code) == IF code = Space THEN Empty ELSE code
SetChar(code) == [vram EXCEPT ![Address(y, x)] = Glyph(code)]

\* Rows 1 to y + 1 move up by one, the first to the last.
ScrolledBackwards ==
  [a \in DOMAIN vram |->
     IF a % Pitch < Columns /\ a \div Pitch \in 0..y THEN vram[Address(y + 1, a % Pitch)]
     ELSE vram[a]]
ScrolledUp ==
  [a \in DOMAIN vram |->
     IF a % Pitch < Columns /\ a \div Pitch \in 0..y THEN vram[a + Pitch] ELSE vram[a]]

\* Each character ends with the cursor registers set.
Place(column, line) ==
  x' = column /\ y' = line /\ cursor' = line * Columns + column

Draw(code) ==
  /\ code \in Printable /\ esc = 0
  /\ vram' = SetChar(code)
  /\ Place(IF x < Columns - 1 THEN x + 1 ELSE x, y)
  /\ UNCHANGED <<esc, escape1, escline>>

Backspace ==
  /\ Place(IF x > 0 THEN x - 1 ELSE x, y)
  /\ UNCHANGED <<esc, escape1, escline, vram>>

Newline ==
  /\ IF y < Rows - 1 THEN Place(x, y + 1) /\ UNCHANGED vram
     ELSE Place(x, y) /\ vram' = ScrolledUp
  /\ UNCHANGED <<esc, escape1, escline>>

CarriageReturn == Place(0, y) /\ UNCHANGED <<esc, escape1, escline, vram>>

StartEscape == esc' = 1 /\ Place(x, y) /\ UNCHANGED <<escape1, escline, vram>>

\* The character after ESC.  Y keeps the state of the escape character itself.
Second(code) ==
  /\ esc = 1
  /\ escape1' = IF code = LetterY THEN code ELSE escape1
  /\ esc' = IF code = LetterY THEN 1 ELSE 0
  /\ IF code \in {LetterE, LetterJ} THEN vram' = Cleared /\ Place(0, 1)
     ELSE Place(x, y) /\ UNCHANGED vram
  /\ UNCHANGED escline

\* The line and the column of a cursor address, were they ever asked for.
Third(code) ==
  /\ esc = 2
  /\ esc' = IF escape1 = LetterY THEN 3 ELSE 0
  /\ escline' = IF escape1 = LetterY THEN code - Space ELSE escline
  /\ Place(x, y) /\ UNCHANGED <<escape1, vram>>
Fourth(code) ==
  /\ esc = 3 /\ esc' = 0
  /\ IF escape1 = LetterY THEN Place(code - Space, escline) ELSE Place(x, y)
  /\ UNCHANGED <<escape1, escline, vram>>

\* Any other code does nothing.
Ignore(code) == esc = 0 /\ code \notin Printable /\ Place(x, y)
                /\ UNCHANGED <<esc, escape1, escline, vram>>

VideoWrite(code) ==
  CASE code = BS  -> Backspace
    [] code = LF  -> Newline
    [] code = CR  -> CarriageReturn
    [] code = ESC -> StartEscape
    [] OTHER -> Draw(code) \/ Second(code) \/ Third(code) \/ Fourth(code) \/ Ignore(code)

\* A write to the address latch moves the whole plane up by a row; the last
\* row stays.
WriteAddressLatch ==
  /\ vram' = [a \in DOMAIN vram |-> IF a + Pitch < PlaneSize THEN vram[a + Pitch] ELSE vram[a]]
  /\ UNCHANGED <<x, y, esc, escape1, escline, cursor>>

ConsoleNext == (\E code \in Codes : VideoWrite(code)) \/ WriteAddressLatch

\* renderScreen starts sixteen scan lines down: row 0 of the memory is not shown.
Shown(r, c) == vram[Address(r, c) % PlaneSize]
Screen == [r \in 1..Rows |-> [c \in 0..(Columns - 1) |-> Shown(r, c)]]

Page == INSTANCE Terminal WITH
          Start <- StartRow, Blank <- Empty,
          Characters <- {Glyph(code) : code \in Codes \intersect Printable},
          page <- Screen, row <- y, column <- x, pending <- esc # 0
=============================================================================

----------------------------- MODULE BoardProof -----------------------------
(***************************************************************************)
(* Proofs about the board: the console (its types, the blank bottom row,   *)
(* and that each step of it is a step of the terminal of module Terminal), *)
(* the disks of the CP/M ports (their types, that the file of drive A is   *)
(* kept up to date, and that a command writes no other bytes than those of *)
(* the sector it is given), the pause, and the board they are parts of.    *)
(***************************************************************************)
EXTENDS Board, SequenceTheorems, TLAPS

-----------------------------------------------------------------------------
(* The console. *)

\* The console on its own: the types its part of the board has, and nothing
\* drawn on the bottom row or below it (video.c:289-378).
ConsoleTypes ==
  /\ x \in 0..(Columns - 1) /\ y \in 1..(Rows - 1) /\ esc \in {0, 1}
  /\ cursor \in 0..(Rows * Columns - 1)
  /\ vram \in [0..(PlaneSize - 1) -> Codes \union {Empty}]
BottomBlank == \A a \in 0..(PlaneSize - 1) : a >= Rows * Pitch => vram[a] = Empty
ConsoleInv == ConsoleTypes /\ BottomBlank

PageOf(v) == [r \in 1..Rows |-> [c \in 0..(Columns - 1) |-> v[Address(r, c)]]]

-----------------------------------------------------------------------------
(* Arithmetic of rows and columns. *)

\* A remainder is one, and a quotient and a remainder determine a number.
LEMMA Division ==
  ASSUME NEW n \in Nat \ {0}, NEW q \in Int, NEW r \in 0..(n - 1)
  PROVE  (q * n + r) \div n = q /\ (q * n + r) % n = r
  OBVIOUS
LEMMA Dividing ==
  ASSUME NEW n \in Nat \ {0}, NEW a \in Int
  PROVE  a = n * (a \div n) + (a % n) /\ a % n \in 0..(n - 1) /\ a \div n \in Int
  OBVIOUS

\* Products grow with their factors.
LEMMA Growing ==
  ASSUME NEW n \in Nat, NEW a \in Int, NEW b \in Int, a < b
  PROVE  a * n + n <= b * n
  OBVIOUS
LEMMA Monotone ==
  ASSUME NEW n \in Nat, NEW a \in Int, NEW b \in Int, a <= b
  PROVE  a * n <= b * n
  OBVIOUS

\* The constants of the screen, without their products.
LEMMA Screens ==
  /\ Columns \in Nat \ {0} /\ Rows \in Nat /\ Rows >= 2 /\ StartRow \in 1..(Rows - 1)
  /\ Pitch \in Nat \ {0} /\ Pitch >= Columns /\ PlaneSize \in Nat
  /\ Rows * Pitch \in Nat /\ Rows * Pitch + Pitch <= PlaneSize
<1>1. /\ Columns \in Nat \ {0} /\ Rows \in Nat /\ Rows >= 2 /\ StartRow \in 1..(Rows - 1)
      /\ Pitch \in Nat \ {0} /\ Pitch >= Columns /\ PlaneSize \in Nat
  BY ScreenAssumption
<1>2. Rows * Pitch \in Nat /\ (Rows + 1) * Pitch = Rows * Pitch + Pitch
  BY <1>1
<1> QED BY <1>1, <1>2, ScreenAssumption

\* A place on the page, or on the row above it, has an address of its own.
LEMMA Addresses ==
  ASSUME NEW r \in 0..Rows, NEW c \in 0..(Columns - 1)
  PROVE  /\ Address(r, c) \in 0..(PlaneSize - 1)
         /\ Address(r, c) % Pitch = c /\ Address(r, c) \div Pitch = r
         /\ Address(r, c) + Pitch = Address(r + 1, c)
         /\ r < Rows => Address(r, c) < Rows * Pitch
         /\ r = Rows => Address(r, c) >= Rows * Pitch
         /\ Address(r, c) % PlaneSize = Address(r, c)
<1>1. r \in Int /\ c \in Int /\ c \in 0..(Pitch - 1) /\ r <= Rows /\ 0 <= r
  BY Screens
<1>2. Address(r, c) % Pitch = c /\ Address(r, c) \div Pitch = r
  BY <1>1, Division, Screens DEF Address
<1>3. r * Pitch \in Nat /\ r * Pitch <= Rows * Pitch
  <2>1. r * Pitch \in Nat BY <1>1, Screens
  <2>2. r * Pitch <= Rows * Pitch BY <1>1, Monotone, Screens
  <2> QED BY <2>1, <2>2
<1>4. Address(r, c) \in 0..(PlaneSize - 1)
  BY <1>1, <1>3, Screens DEF Address
<1>5. (r + 1) * Pitch = r * Pitch + Pitch
  BY <1>1, Screens
<1>6. Address(r, c) + Pitch = Address(r + 1, c)
  BY <1>1, <1>3, <1>5, Screens DEF Address
<1>7. r < Rows => Address(r, c) < Rows * Pitch
  <2>1. r < Rows => r * Pitch + Pitch <= Rows * Pitch BY <1>1, Growing, Screens
  <2> QED BY <2>1, <1>1, <1>3, Screens DEF Address
<1>8. r = Rows => Address(r, c) >= Rows * Pitch
  BY <1>1, Screens DEF Address
<1>9. Address(r, c) % PlaneSize = Address(r, c)
  BY <1>4, Screens
<1> QED BY <1>2, <1>4, <1>6, <1>7, <1>8, <1>9

\* The cursor registers hold a place on the page.
LEMMA Cursors ==
  ASSUME NEW c \in 0..(Columns - 1), NEW r \in 1..(Rows - 1)
  PROVE  r * Columns + c \in 0..(Rows * Columns - 1)
<1>1. r * Columns + Columns <= Rows * Columns
  BY Growing, Screens
<1>2. r * Columns \in Nat /\ Rows * Columns \in Nat
  BY Screens
<1> QED BY <1>1, <1>2, Screens

-----------------------------------------------------------------------------
(* The invariant. *)

LEMMA ConsoleInitInv == ConsoleInit => ConsoleInv
<1> SUFFICES ASSUME ConsoleInit PROVE ConsoleInv
  OBVIOUS
<1>1. cursor \in 0..(Rows * Columns - 1)
  <2>1. 0 * Columns <= Rows * Columns /\ Rows * Columns \in Nat /\ Rows * Columns >= 1
    BY Screens, Growing
  <2> QED BY <2>1 DEF ConsoleInit
<1>2. vram \in [0..(PlaneSize - 1) -> Codes \union {Empty}] /\ BottomBlank
  BY DEF ConsoleInit, Cleared, BottomBlank
<1> QED BY <1>1, <1>2, Screens DEF ConsoleInit, ConsoleInv, ConsoleTypes

\* A character drawn above the bottom row leaves it blank, and so does a
\* plane each byte of which stays or comes from a row below.
LEMMA Drawn ==
  ASSUME ConsoleInv, NEW code \in Codes
  PROVE  /\ SetChar(code) \in [0..(PlaneSize - 1) -> Codes \union {Empty}]
         /\ \A a \in 0..(PlaneSize - 1) : a >= Rows * Pitch => SetChar(code)[a] = Empty
<1>1. /\ Address(y, x) \in 0..(PlaneSize - 1) /\ Address(y, x) < Rows * Pitch
  <2>1. y \in 0..Rows /\ y < Rows /\ x \in 0..(Columns - 1)
    BY Screens DEF ConsoleInv, ConsoleTypes
  <2> QED BY <2>1, Addresses
<1>2. Glyph(code) \in Codes \union {Empty}
  BY DEF Glyph
<1>3. ~(Address(y, x) >= Rows * Pitch)
  BY <1>1, Screens
<1> QED BY <1>1, <1>2, <1>3 DEF SetChar, ConsoleInv, ConsoleTypes, BottomBlank

LEMMA MovedUp ==
  ASSUME ConsoleInv, NEW w,
         w \in [0..(PlaneSize - 1) -> Codes \union {Empty}],
         \A a \in 0..(PlaneSize - 1) : a >= Rows * Pitch => w[a] = Empty,
         vram' = w
  PROVE  vram' \in [0..(PlaneSize - 1) -> Codes \union {Empty}] /\ BottomBlank'
  BY Screens DEF BottomBlank

\* What either way of scrolling leaves.
LatchedUp == [a \in DOMAIN vram |-> IF a + Pitch < PlaneSize THEN vram[a + Pitch] ELSE vram[a]]
LEMMA Scrolled ==
  ASSUME ConsoleInv, y = Rows - 1
  PROVE  /\ ScrolledUp \in [0..(PlaneSize - 1) -> Codes \union {Empty}]
         /\ \A a \in 0..(PlaneSize - 1) : a >= Rows * Pitch => ScrolledUp[a] = Empty
<1>1. vram \in [0..(PlaneSize - 1) -> Codes \union {Empty}] /\ DOMAIN vram = 0..(PlaneSize - 1)
  BY DEF ConsoleInv, ConsoleTypes
<1>2. ASSUME NEW a \in 0..(PlaneSize - 1), a % Pitch < Columns /\ a \div Pitch \in 0..y
      PROVE  a + Pitch \in 0..(PlaneSize - 1) /\ a < Rows * Pitch
  <2>1. a = Pitch * (a \div Pitch) + (a % Pitch) /\ a % Pitch \in 0..(Pitch - 1) /\ a \div Pitch \in Int
    BY Dividing, Screens
  <2> DEFINE q == a \div Pitch
  <2>2. q \in 0..(Rows - 1) BY <1>2, Screens
  <2>3. q * Pitch + Pitch <= Rows * Pitch BY <2>2, Growing, Screens
  <2>4. q * Pitch \in Nat /\ a = q * Pitch + (a % Pitch) BY <2>1, <2>2, Screens
  <2> QED BY <2>1, <2>3, <2>4, Screens
<1>3. ScrolledUp \in [0..(PlaneSize - 1) -> Codes \union {Empty}]
  BY <1>1, <1>2 DEF ScrolledUp
<1>4. ASSUME NEW a \in 0..(PlaneSize - 1), a >= Rows * Pitch
      PROVE  ScrolledUp[a] = Empty
  <2>1. ~(a % Pitch < Columns /\ a \div Pitch \in 0..y)
    BY <1>2, <1>4, Screens
  <2> QED BY <2>1, <1>1, <1>4 DEF ScrolledUp, ConsoleInv, BottomBlank
<1> QED BY <1>3, <1>4

LEMMA Latched ==
  ASSUME ConsoleInv
  PROVE  /\ LatchedUp \in [0..(PlaneSize - 1) -> Codes \union {Empty}]
         /\ \A a \in 0..(PlaneSize - 1) : a >= Rows * Pitch => LatchedUp[a] = Empty
<1>1. vram \in [0..(PlaneSize - 1) -> Codes \union {Empty}] /\ DOMAIN vram = 0..(PlaneSize - 1)
  BY DEF ConsoleInv, ConsoleTypes
<1>2. LatchedUp \in [0..(PlaneSize - 1) -> Codes \union {Empty}]
  BY <1>1, Screens DEF LatchedUp
<1>3. ASSUME NEW a \in 0..(PlaneSize - 1), a >= Rows * Pitch
      PROVE  LatchedUp[a] = Empty
  BY <1>1, <1>3, Screens DEF LatchedUp, ConsoleInv, BottomBlank
<1> QED BY <1>2, <1>3

\* A place inside the page, in the way each character leaves it.
LEMMA Placed ==
  ASSUME NEW c \in 0..(Columns - 1), NEW r \in 1..(Rows - 1), Place(c, r)
  PROVE  x' \in 0..(Columns - 1) /\ y' \in 1..(Rows - 1) /\ cursor' \in 0..(Rows * Columns - 1)
  BY Cursors DEF Place

LEMMA ConsoleStepInv ==
  ASSUME ConsoleInv, ConsoleNext \/ ConsoleReset
  PROVE  ConsoleInv'
<1> USE DEF ConsoleTypes
<1>0. /\ x \in 0..(Columns - 1) /\ y \in 1..(Rows - 1) /\ esc \in {0, 1}
      /\ Columns \in Nat \ {0} /\ Rows \in Nat /\ Rows >= 2
  BY Screens DEF ConsoleInv
<1>1. ASSUME NEW code \in Codes, Draw(code) PROVE ConsoleInv'
  <2>1. vram' = SetChar(code) /\ esc' = esc BY <1>1 DEF Draw
  <2>2. vram' \in [0..(PlaneSize - 1) -> Codes \union {Empty}] /\ BottomBlank'
    BY <2>1, Drawn, MovedUp
  <2> DEFINE c == IF x < Columns - 1 THEN x + 1 ELSE x
  <2>3. c \in 0..(Columns - 1) /\ Place(c, y) BY <1>0, <1>1 DEF Draw
  <2> HIDE DEF c
  <2>4. x' \in 0..(Columns - 1) /\ y' \in 1..(Rows - 1) /\ cursor' \in 0..(Rows * Columns - 1)
    BY <2>3, <1>0, Placed
  <2> QED BY <2>1, <2>2, <2>4, <1>0 DEF ConsoleInv
<1>2. CASE Backspace
  <2> DEFINE c == IF x > 0 THEN x - 1 ELSE x
  <2>1. c \in 0..(Columns - 1) /\ Place(c, y) /\ vram' = vram /\ esc' = esc
    BY <1>0, <1>2 DEF Backspace
  <2> HIDE DEF c
  <2>2. x' \in 0..(Columns - 1) /\ y' \in 1..(Rows - 1) /\ cursor' \in 0..(Rows * Columns - 1)
    BY <2>1, <1>0, Placed
  <2> QED BY <2>1, <2>2, <1>0 DEF ConsoleInv, BottomBlank
<1>3. CASE Newline
  <2>1. CASE y < Rows - 1
    <3>1. y + 1 \in 1..(Rows - 1) /\ Place(x, y + 1) /\ vram' = vram /\ esc' = esc
      BY <1>0, <1>3, <2>1 DEF Newline
    <3>2. x' \in 0..(Columns - 1) /\ y' \in 1..(Rows - 1) /\ cursor' \in 0..(Rows * Columns - 1)
      BY <3>1, <1>0, Placed
    <3> QED BY <3>1, <3>2, <1>0 DEF ConsoleInv, BottomBlank
  <2>2. CASE ~(y < Rows - 1)
    <3>1. y = Rows - 1 /\ Place(x, y) /\ vram' = ScrolledUp /\ esc' = esc
      BY <1>0, <1>3, <2>2 DEF Newline
    <3>2. vram' \in [0..(PlaneSize - 1) -> Codes \union {Empty}] /\ BottomBlank'
      BY <3>1, Scrolled, MovedUp
    <3>3. x' \in 0..(Columns - 1) /\ y' \in 1..(Rows - 1) /\ cursor' \in 0..(Rows * Columns - 1)
      BY <3>1, <1>0, Placed
    <3> QED BY <3>1, <3>2, <3>3, <1>0 DEF ConsoleInv
  <2> QED BY <2>1, <2>2
<1>4. CASE CarriageReturn
  <2>1. 0 \in 0..(Columns - 1) /\ Place(0, y) /\ vram' = vram /\ esc' = esc
    BY <1>0, <1>4 DEF CarriageReturn
  <2>2. x' \in 0..(Columns - 1) /\ y' \in 1..(Rows - 1) /\ cursor' \in 0..(Rows * Columns - 1)
    BY <2>1, <1>0, Placed
  <2> QED BY <2>1, <2>2, <1>0 DEF ConsoleInv, BottomBlank
<1>5. CASE StartEscape
  <2>1. Place(x, y) /\ vram' = vram /\ esc' = 1
    BY <1>5 DEF StartEscape
  <2>2. x' \in 0..(Columns - 1) /\ y' \in 1..(Rows - 1) /\ cursor' \in 0..(Rows * Columns - 1)
    BY <2>1, <1>0, Placed
  <2> QED BY <2>1, <2>2, <1>0 DEF ConsoleInv, BottomBlank
<1>6. ASSUME NEW code \in Codes, Second(code) PROVE ConsoleInv'
  <2>1. esc' \in {0, 1} BY <1>6 DEF Second
  <2>2. CASE code \in {LetterE, LetterJ}
    <3>1. 0 \in 0..(Columns - 1) /\ 1 \in 1..(Rows - 1) /\ Place(0, 1) /\ vram' = Cleared
      BY <1>0, <1>6, <2>2 DEF Second
    <3>2. x' \in 0..(Columns - 1) /\ y' \in 1..(Rows - 1) /\ cursor' \in 0..(Rows * Columns - 1)
      BY <3>1, Placed
    <3>3. vram' \in [0..(PlaneSize - 1) -> Codes \union {Empty}] /\ BottomBlank'
      BY <3>1, Screens DEF Cleared, BottomBlank
    <3> QED BY <2>1, <3>2, <3>3 DEF ConsoleInv
  <2>3. CASE code \notin {LetterE, LetterJ}
    <3>1. Place(x, y) /\ vram' = vram
      BY <1>6, <2>3 DEF Second
    <3>2. x' \in 0..(Columns - 1) /\ y' \in 1..(Rows - 1) /\ cursor' \in 0..(Rows * Columns - 1)
      BY <3>1, <1>0, Placed
    <3> QED BY <2>1, <3>1, <3>2 DEF ConsoleInv, BottomBlank
  <2> QED BY <2>2, <2>3
<1>7. ASSUME NEW code \in Codes, Third(code) \/ Fourth(code) PROVE FALSE
  BY <1>0, <1>7 DEF Third, Fourth
<1>8. ASSUME NEW code \in Codes, Ignore(code) PROVE ConsoleInv'
  <2>1. Place(x, y) /\ vram' = vram /\ esc' = esc
    BY <1>8 DEF Ignore
  <2>2. x' \in 0..(Columns - 1) /\ y' \in 1..(Rows - 1) /\ cursor' \in 0..(Rows * Columns - 1)
    BY <2>1, <1>0, Placed
  <2> QED BY <2>1, <2>2, <1>0 DEF ConsoleInv, BottomBlank
<1>9. CASE WriteAddressLatch
  <2>1. vram' = LatchedUp /\ x' = x /\ y' = y /\ esc' = esc /\ cursor' = cursor
    BY <1>9 DEF WriteAddressLatch, LatchedUp
  <2>2. vram' \in [0..(PlaneSize - 1) -> Codes \union {Empty}] /\ BottomBlank'
    BY <2>1, Latched, MovedUp
  <2> QED BY <2>1, <2>2, <1>0 DEF ConsoleInv
<1>10. CASE ConsoleReset
  <2>1. cursor' \in 0..(Rows * Columns - 1)
    <3>1. 0 * Columns <= Rows * Columns /\ Rows * Columns \in Nat /\ Rows * Columns >= 1
      BY Screens, Growing
    <3> QED BY <3>1, <1>10 DEF ConsoleReset
  <2>2. vram' \in [0..(PlaneSize - 1) -> Codes \union {Empty}] /\ BottomBlank'
    BY <1>10 DEF ConsoleReset, Cleared, BottomBlank
  <2>3. x' = 0 /\ y' = StartRow /\ esc' = 0
    BY <1>10 DEF ConsoleReset
  <2> QED BY <2>1, <2>2, <2>3, Screens DEF ConsoleInv
<1> QED
  BY <1>1, <1>2, <1>3, <1>4, <1>5, <1>6, <1>7, <1>8, <1>9, <1>10 DEF ConsoleNext, VideoWrite

-----------------------------------------------------------------------------
(* The console implements the terminal. *)

\* What the screen shows is the page in the memory.
LEMMA ScreenIsPage == Screen = PageOf(vram)
<1>1. \A r \in 1..Rows, c \in 0..(Columns - 1) : Shown(r, c) = vram[Address(r, c)]
  <2> TAKE r \in 1..Rows, c \in 0..(Columns - 1)
  <2>1. r \in 0..Rows BY Screens
  <2> QED BY <2>1, Addresses DEF Shown
<1> QED BY <1>1 DEF Screen, PageOf

LEMMA ScreenIsPagePrimed == Screen' = PageOf(vram')
<1>1. \A r \in 1..Rows, c \in 0..(Columns - 1) : Shown(r, c)' = vram'[Address(r, c)]
  <2> TAKE r \in 1..Rows, c \in 0..(Columns - 1)
  <2>1. r \in 0..Rows BY Screens
  <2> QED BY <2>1, Addresses DEF Shown
<1> QED BY <1>1 DEF Screen, PageOf

\* Drawing a character changes one place of the page.
Replaced(p, r, c, g) == [p EXCEPT ![r][c] = g]
LEMMA PageDrawn ==
  ASSUME NEW v, DOMAIN v = 0..(PlaneSize - 1), NEW g,
         NEW r \in 1..(Rows - 1), NEW c \in 0..(Columns - 1),
         NEW w, w = [v EXCEPT ![Address(r, c)] = g]
  PROVE  PageOf(w) = Replaced(PageOf(v), r, c, g)
<1> DEFINE p == [PageOf(v) EXCEPT ![r] = [PageOf(v)[r] EXCEPT ![c] = g]]
<1>1. r \in 0..Rows /\ r \in 1..Rows BY Screens
<1>2. Address(r, c) % Pitch = c /\ Address(r, c) \div Pitch = r /\ Address(r, c) \in DOMAIN v
  BY <1>1, Addresses
<1>3. ASSUME NEW r2 \in 1..Rows, NEW c2 \in 0..(Columns - 1)
      PROVE  w[Address(r2, c2)] = IF r2 = r /\ c2 = c THEN g ELSE v[Address(r2, c2)]
  <2>1. r2 \in 0..Rows BY Screens
  <2>2. Address(r2, c2) % Pitch = c2 /\ Address(r2, c2) \div Pitch = r2 /\ Address(r2, c2) \in DOMAIN v
    BY <2>1, Addresses
  <2>3. Address(r2, c2) = Address(r, c) <=> r2 = r /\ c2 = c
    BY <2>2, <1>2
  <2> QED BY <2>2, <2>3, <1>2
<1>4. PageOf(w) = [r2 \in 1..Rows |-> [c2 \in 0..(Columns - 1) |->
                     IF r2 = r /\ c2 = c THEN g ELSE v[Address(r2, c2)]]]
  BY <1>3 DEF PageOf
<1>5. p = [r2 \in 1..Rows |-> [c2 \in 0..(Columns - 1) |->
                     IF r2 = r /\ c2 = c THEN g ELSE v[Address(r2, c2)]]]
  BY <1>1 DEF PageOf
<1>6. PageOf(w) = p BY <1>4, <1>5
<1> QED BY <1>6 DEF Replaced

\* Each row taking what the row below had, and the last one nothing, rolls the page.
LEMMA PageRolled ==
  ASSUME NEW v, NEW w,
         \A r \in 1..(Rows - 1), c \in 0..(Columns - 1) : w[Address(r, c)] = v[Address(r + 1, c)],
         \A c \in 0..(Columns - 1) : w[Address(Rows, c)] = Empty
  PROVE  PageOf(w) = Append(Tail(PageOf(v)), [c \in 0..(Columns - 1) |-> Empty])
<1> DEFINE S == {PageOf(v)[r] : r \in 1..Rows}
<1>1. PageOf(v) \in [1..Rows -> S] /\ Rows \in Nat /\ Rows >= 2
  BY Screens DEF PageOf
<1>2. PageOf(v) \in Seq(S) /\ Len(PageOf(v)) = Rows
  BY <1>1
<1> DEFINE t == Tail(PageOf(v))
<1>3. /\ t \in Seq(S) /\ Len(t) = Rows - 1
      /\ \A r \in 1..(Rows - 1) : t[r] = PageOf(v)[r + 1]
  BY <1>1, <1>2
<1> DEFINE blank == [c \in 0..(Columns - 1) |-> Empty]
           T == S \union {blank}
           u == Append(t, blank)
<1>a. t \in Seq(T) /\ blank \in T
  BY <1>3
<1> HIDE DEF S, T, t, blank
<1>4. /\ u = [r \in 1..Rows |-> u[r]] /\ u[Rows] = blank
      /\ \A r \in 1..(Rows - 1) : u[r] = t[r]
  <2>1. Rows \in Nat /\ Rows >= 2 /\ Len(t) = Rows - 1 /\ t \in Seq(T) /\ blank \in T
    BY <1>1, <1>3, <1>a
  <2>2. u \in Seq(T) /\ Len(u) = Rows /\ u[Rows] = blank
    BY <2>1
  <2>3. \A r \in 1..(Rows - 1) : u[r] = t[r]
    BY <2>1
  <2>4. u \in [1..Len(u) -> T] BY <2>2, LenProperties
  <2>5. u = [r \in 1..Rows |-> u[r]] BY <2>2, <2>4
  <2> HIDE DEF u
  <2> QED BY <2>2, <2>3, <2>5
<1> HIDE DEF u
<1>5. ASSUME NEW r \in 1..Rows PROVE PageOf(w)[r] = u[r]
  <2>1. CASE r = Rows
    <3>1. PageOf(w)[r] = blank BY <1>5, <2>1 DEF PageOf, blank
    <3> QED BY <3>1, <1>4, <2>1
  <2>2. CASE r # Rows
    <3>1. r \in 1..(Rows - 1) /\ r + 1 \in 1..Rows BY <2>2, <1>1
    <3>2. PageOf(w)[r] = [c \in 0..(Columns - 1) |-> v[Address(r + 1, c)]]
      BY <3>1 DEF PageOf
    <3>3. PageOf(v)[r + 1] = [c \in 0..(Columns - 1) |-> v[Address(r + 1, c)]]
      BY <3>1 DEF PageOf
    <3> QED BY <3>1, <3>2, <3>3, <1>3, <1>4
  <2> QED BY <2>1, <2>2
<1>6. PageOf(w) = [r \in 1..Rows |-> PageOf(w)[r]] BY DEF PageOf
<1>7. PageOf(w) = u BY <1>4, <1>5, <1>6
<1> QED BY <1>7 DEF u, t, blank

LEMMA PageCleared == PageOf(Cleared) = Page!BlankPage
<1>1. \A r \in 1..Rows, c \in 0..(Columns - 1) : Cleared[Address(r, c)] = Empty
  <2> TAKE r \in 1..Rows, c \in 0..(Columns - 1)
  <2>1. r \in 0..Rows BY Screens
  <2>2. Address(r, c) \in 0..(PlaneSize - 1) BY <2>1, Addresses
  <2> QED BY <2>2 DEF Cleared
<1> QED BY <1>1 DEF PageOf, Page!BlankPage, Page!BlankRow

\* Both ways of scrolling roll the page, the one at the bottom line.
LEMMA ScrolledRolls ==
  ASSUME ConsoleInv, y = Rows - 1
  PROVE  PageOf(ScrolledUp) = Append(Tail(PageOf(vram)), Page!BlankRow)
<1>1. DOMAIN vram = 0..(PlaneSize - 1) /\ y = Rows - 1 /\ Rows \in Nat /\ Rows >= 2
  BY Screens DEF ConsoleInv, ConsoleTypes
<1>2. ASSUME NEW r \in 1..(Rows - 1), NEW c \in 0..(Columns - 1)
      PROVE  ScrolledUp[Address(r, c)] = vram[Address(r + 1, c)]
  <2>1. r \in 0..Rows /\ r \in 0..y /\ c < Columns BY <1>1, Screens
  <2>2. /\ Address(r, c) \in 0..(PlaneSize - 1)
        /\ Address(r, c) % Pitch = c /\ Address(r, c) \div Pitch = r
        /\ Address(r, c) + Pitch = Address(r + 1, c)
    BY <2>1, Addresses
  <2> QED BY <1>1, <2>1, <2>2 DEF ScrolledUp
<1>3. ASSUME NEW c \in 0..(Columns - 1) PROVE ScrolledUp[Address(Rows, c)] = Empty
  <2>1. Rows \in 0..Rows BY <1>1
  <2>2. Address(Rows, c) \in 0..(PlaneSize - 1) /\ Address(Rows, c) >= Rows * Pitch
    BY <2>1, Addresses
  <2> QED BY <2>2, Scrolled, <1>1
<1>4. PageOf(ScrolledUp) = Append(Tail(PageOf(vram)), [c \in 0..(Columns - 1) |-> Empty])
  BY <1>2, <1>3, PageRolled
<1> QED BY <1>4 DEF Page!BlankRow

LEMMA LatchedRolls ==
  ASSUME ConsoleInv
  PROVE  PageOf(LatchedUp) = Append(Tail(PageOf(vram)), Page!BlankRow)
<1>1. DOMAIN vram = 0..(PlaneSize - 1) /\ Rows \in Nat /\ Rows >= 2
  BY Screens DEF ConsoleInv, ConsoleTypes
<1>2. ASSUME NEW r \in 1..(Rows - 1), NEW c \in 0..(Columns - 1)
      PROVE  LatchedUp[Address(r, c)] = vram[Address(r + 1, c)]
  <2>1. r \in 0..Rows /\ r + 1 \in 0..Rows BY <1>1
  <2>2. /\ Address(r, c) \in 0..(PlaneSize - 1)
        /\ Address(r, c) + Pitch = Address(r + 1, c)
        /\ Address(r + 1, c) \in 0..(PlaneSize - 1)
    BY <2>1, Addresses
  <2>3. Address(r, c) + Pitch < PlaneSize BY <2>2, Screens
  <2> QED BY <1>1, <2>2, <2>3 DEF LatchedUp
<1>3. ASSUME NEW c \in 0..(Columns - 1) PROVE LatchedUp[Address(Rows, c)] = Empty
  <2>1. Rows \in 0..Rows BY <1>1
  <2>2. Address(Rows, c) \in 0..(PlaneSize - 1) /\ Address(Rows, c) >= Rows * Pitch
    BY <2>1, Addresses
  <2> QED BY <2>2, Latched
<1>4. PageOf(LatchedUp) = Append(Tail(PageOf(vram)), [c \in 0..(Columns - 1) |-> Empty])
  BY <1>2, <1>3, PageRolled
<1> QED BY <1>4 DEF Page!BlankRow

\* Initial states are initial, and every step of the console is one of the
\* terminal or none that it shows (video.c:289-408).
shown == <<Screen, y, x, esc # 0>>
LEMMA ConsoleInitShows == ConsoleInit => Page!Init
  BY ScreenIsPage, PageCleared DEF ConsoleInit, Page!Init

LEMMA ConsoleStepShows ==
  ASSUME ConsoleInv, ConsoleNext \/ ConsoleReset
  PROVE  [Page!Next]_shown
<1>0. /\ x \in 0..(Columns - 1) /\ y \in 1..(Rows - 1) /\ esc \in {0, 1}
      /\ Columns \in Nat \ {0} /\ Rows \in Nat /\ Rows >= 2
      /\ vram \in [0..(PlaneSize - 1) -> Codes \union {Empty}]
  BY Screens DEF ConsoleInv, ConsoleTypes
<1>a. ASSUME vram' = vram PROVE Screen' = Screen
  BY <1>a, ScreenIsPage, ScreenIsPagePrimed
<1>b. ASSUME vram' = vram, x' = x, y' = y, esc' = esc PROVE [Page!Next]_shown
  BY <1>b, <1>a DEF shown
<1>1. ASSUME NEW code \in Codes, Draw(code) PROVE Page!Next
  <2>1. esc = 0 /\ esc' = esc /\ code \in Codes \intersect Printable
    BY <1>1 DEF Draw
  <2>2. PageOf(vram') = [PageOf(vram) EXCEPT ![y][x] = Glyph(code)]
    <3> DEFINE g == Glyph(code)
    <3>1. vram' = [vram EXCEPT ![Address(y, x)] = g] BY <1>1 DEF Draw, SetChar
    <3> HIDE DEF g
    <3>a. DOMAIN vram = 0..(PlaneSize - 1) BY <1>0
    <3>2. PageOf(vram') = Replaced(PageOf(vram), y, x, g)
      BY <1>0, <3>1, <3>a, PageDrawn
    <3> QED BY <3>2 DEF g, Replaced
  <2>3. Screen' = [Screen EXCEPT ![y][x] = Glyph(code)]
    BY <2>2, ScreenIsPage, ScreenIsPagePrimed
  <2>4. x' = (IF x + 1 < Columns THEN x + 1 ELSE x) /\ y' = y
    BY <1>0, <1>1 DEF Draw, Place
  <2>5. Page!Put(Glyph(code))
    BY <2>1, <2>3, <2>4 DEF Page!Put
  <2> QED BY <2>1, <2>5 DEF Page!Next
<1>2. CASE Backspace
  <2>1. CASE x > 0
    <3>1. Page!Left BY <1>2, <2>1, <1>a DEF Backspace, Place, Page!Left
    <3> QED BY <3>1 DEF Page!Next
  <2>2. CASE ~(x > 0)
    BY <1>2, <2>2, <1>b DEF Backspace, Place
  <2> QED BY <2>1, <2>2
<1>3. CASE Newline
  <2>1. CASE y < Rows - 1
    <3>1. Page!Down BY <1>3, <2>1, <1>a DEF Newline, Place, Page!Down
    <3> QED BY <3>1 DEF Page!Next
  <2>2. CASE ~(y < Rows - 1)
    <3>1. y = Rows - 1 /\ vram' = ScrolledUp /\ x' = x /\ y' = y /\ esc' = esc
      BY <1>0, <1>3, <2>2 DEF Newline, Place
    <3>2. Screen' = Append(Tail(Screen), Page!BlankRow)
      BY <3>1, ScrolledRolls, ScreenIsPage, ScreenIsPagePrimed
    <3>3. Page!Down BY <3>1, <3>2 DEF Page!Down, Page!Roll
    <3> QED BY <3>3 DEF Page!Next
  <2> QED BY <2>1, <2>2
<1>4. CASE CarriageReturn
  <2>1. Page!Return BY <1>4, <1>a DEF CarriageReturn, Place, Page!Return
  <2> QED BY <2>1 DEF Page!Next
<1>5. CASE StartEscape
  <2>1. Page!Escape BY <1>5, <1>a DEF StartEscape, Place, Page!Escape
  <2> QED BY <2>1 DEF Page!Next
<1>6. ASSUME NEW code \in Codes, Second(code) PROVE [Page!Next]_shown
  <2>0. esc = 1 BY <1>6 DEF Second
  <2>1. CASE code \in {LetterE, LetterJ}
    <3>1. vram' = Cleared /\ x' = 0 /\ y' = 1 /\ esc' = 0
      BY <1>6, <2>1 DEF Second, Place, LetterE, LetterJ, LetterY
    <3>2. Screen' = Page!BlankPage BY <3>1, PageCleared, ScreenIsPagePrimed
    <3>3. Page!Clear BY <3>1, <3>2, <2>0 DEF Page!Clear
    <3> QED BY <3>3 DEF Page!Next
  <2>2. CASE code = LetterY
    BY <1>6, <2>0, <2>2, <1>b DEF Second, Place, LetterE, LetterJ, LetterY
  <2>3. CASE code \notin {LetterE, LetterJ, LetterY}
    <3>1. vram' = vram /\ x' = x /\ y' = y /\ esc' = 0
      BY <1>6, <2>3 DEF Second, Place
    <3>2. Page!Swallow BY <3>1, <2>0, <1>a DEF Page!Swallow
    <3> QED BY <3>2 DEF Page!Next
  <2> QED BY <2>1, <2>2, <2>3
<1>7. ASSUME NEW code \in Codes, Third(code) \/ Fourth(code) PROVE FALSE
  BY <1>0, <1>7 DEF Third, Fourth
<1>8. ASSUME NEW code \in Codes, Ignore(code) PROVE [Page!Next]_shown
  BY <1>8, <1>b DEF Ignore, Place
<1>9. CASE WriteAddressLatch
  <2>1. vram' = LatchedUp /\ x' = x /\ y' = y /\ esc' = esc
    BY <1>9 DEF WriteAddressLatch, LatchedUp
  <2>2. Screen' = Append(Tail(Screen), Page!BlankRow)
    BY <2>1, LatchedRolls, ScreenIsPage, ScreenIsPagePrimed
  <2>3. Page!Scroll BY <2>1, <2>2 DEF Page!Scroll, Page!Roll
  <2> QED BY <2>3 DEF Page!Next
<1>10. CASE ConsoleReset
  <2>1. vram' = Cleared /\ x' = 0 /\ y' = StartRow /\ esc' = 0
    BY <1>10 DEF ConsoleReset
  <2>2. Screen' = Page!BlankPage BY <2>1, PageCleared, ScreenIsPagePrimed
  <2>3. Page!Restart BY <2>1, <2>2 DEF Page!Restart
  <2> QED BY <2>3 DEF Page!Next
<1> QED
  BY <1>1, <1>2, <1>3, <1>4, <1>5, <1>6, <1>7, <1>8, <1>9, <1>10 DEF ConsoleNext, VideoWrite

-----------------------------------------------------------------------------
(* The disks. *)

\* Types of the ports, the memory, the images and the files (mainboard.c:785-883).
DiskTypes ==
  /\ sector_ram \in [{"low", "high"} -> 0..(Half - 1)]
  /\ sector \in Nat /\ track \in Nat
  /\ memory \in [0..(MemorySize - 1) -> Values]
  /\ image \in [Drives -> Seq(Values)]
  /\ file \in [Names -> Seq(Values) \union {Missing}]
  /\ name \in [Drives -> Names] /\ loaded \in [Drives -> Names \union {NoName}]

DiskInv == DiskTypes /\ DriveASaved

DiskNext ==
  \/ GuestDisks
  \/ \E d \in Drives : Reassemble(d) \/ \E n \in Names : NameFile(d, n)

\* What a step may change of the images, the property WritesOneSector without
\* its temporal operator.
OneSector ==
  (image' # image /\ ~Reloaded(image', name')) =>
     \A d \in Drives : \A i \in DOMAIN image[d] :
        /\ Len(image'[d]) = Len(image[d])
        /\ image'[d][i] # image[d][i] =>
             /\ d = drive /\ d = drive' /\ SectorOf(i) = RawSector
             /\ image'[d][i] = memory[Addr + ((i - 1) % SectorSize)]

\* A byte of a sector tells the sector and its place there.
LEMMA SectorPlace ==
  ASSUME NEW n \in Nat \ {0}, NEW q \in Int, NEW r \in 0..(n - 1)
  PROVE  (q * n + r) \div n = q /\ (q * n + r) % n = r
  OBVIOUS

\* The bytes a command moves lie in the image.
LEMMA MovedBytes ==
  ASSUME DiskTypes, NEW d \in Drives, NEW k \in Moved(d)
  PROVE  /\ k \in 0..(SectorSize - 1) /\ RawSector \in Nat /\ Addr \in Nat
         /\ Offset(k) \in Nat /\ Offset(k) < Len(image[d]) /\ Offset(k) + 1 \in DOMAIN image[d]
         /\ Offset(k) = Offset(0) + k /\ Addr + k \in 0..(MemorySize - 1)
<1>1. sector \in Nat /\ track \in Nat /\ SectorSize \in Nat \ {0} /\ SectorsPerTrack \in Nat \ {0}
      /\ Half \in Nat \ {0} /\ MemorySize \in Nat
  BY DiskAssumption DEF DiskTypes
<1>2. k \in 0..(SectorSize - 1) /\ RawSector >= 0 /\ Offset(k) < Len(image[d]) /\ Addr + k < MemorySize
  BY DEF Moved
<1>3. RawSector \in Nat
  <2>1. track * SectorsPerTrack \in Nat BY <1>1
  <2> QED BY <1>1, <1>2, <2>1 DEF RawSector
<1>4. RawSector * SectorSize \in Nat
  BY <1>1, <1>3
<1>5. Addr \in Nat
  <2>1. sector_ram.high \in Nat /\ sector_ram.low \in Nat BY <1>1 DEF DiskTypes
  <2>2. sector_ram.high * Half \in Nat BY <1>1, <2>1
  <2> QED BY <2>1, <2>2 DEF Addr
<1>6. Offset(k) \in Nat /\ Offset(k) = Offset(0) + k
  BY <1>1, <1>2, <1>4 DEF Offset
<1>7. image[d] \in Seq(Values) BY DEF DiskTypes
<1>8. Offset(k) + 1 \in DOMAIN image[d]
  BY <1>2, <1>6, <1>7
<1> QED BY <1>1, <1>2, <1>3, <1>5, <1>6, <1>8

-----------------------------------------------------------------------------
(* The two commands. *)

\* A read leaves bytes in the memory.
LEMMA ReadTypes ==
  ASSUME DiskTypes, NEW d, ReadSector(d)
  PROVE  /\ memory' \in [0..(MemorySize - 1) -> Values] /\ image' = image /\ file' = file
<1>1. DOMAIN memory = 0..(MemorySize - 1) BY DEF DiskTypes
<1>2. ASSUME NEW a \in DOMAIN memory, d \in Drives, NEW k \in Moved(d), a = Addr + k
      PROVE  image[d][Offset(a - Addr) + 1] \in Values
  <2>1. Addr \in Nat /\ k \in Int /\ Offset(k) + 1 \in DOMAIN image[d]
    BY <1>2, MovedBytes
  <2>2. a - Addr = k BY <1>2, <2>1
  <2>3. image[d] \in Seq(Values) BY <1>2 DEF DiskTypes
  <2>4. image[d][Offset(k) + 1] \in Values BY <2>1, <2>3, ElementOfSeq
  <2> QED BY <2>2, <2>4
<1>3. memory' \in [0..(MemorySize - 1) -> Values]
  <2>1. \A a \in DOMAIN memory : memory[a] \in Values BY DEF DiskTypes
  <2> QED BY <1>1, <1>2, <2>1 DEF ReadSector
<1> QED BY <1>3 DEF ReadSector

\* What a write to a drive leaves: the same number of bytes, and only bytes of
\* the sector changed.
Written(d) ==
  [i \in DOMAIN image[d] |->
     IF \E k \in Moved(d) : i = Offset(k) + 1
     THEN memory[Addr + (i - 1 - Offset(0))] ELSE image[d][i]]

LEMMA WrittenBytes ==
  ASSUME DiskTypes, NEW d \in Drives
  PROVE  /\ Written(d) \in Seq(Values) /\ Len(Written(d)) = Len(image[d])
         /\ \A i \in DOMAIN image[d] : Written(d)[i] # image[d][i] =>
              /\ SectorOf(i) = RawSector
              /\ Written(d)[i] = memory[Addr + ((i - 1) % SectorSize)]
<1>1. image[d] \in Seq(Values) /\ memory \in [0..(MemorySize - 1) -> Values]
  BY DEF DiskTypes
<1>2. /\ Len(image[d]) \in Nat /\ DOMAIN image[d] = 1..Len(image[d])
      /\ \A i \in DOMAIN image[d] : image[d][i] \in Values
  BY <1>1
<1>3. ASSUME NEW i \in DOMAIN image[d], NEW k \in Moved(d), i = Offset(k) + 1
      PROVE  /\ Addr + (i - 1 - Offset(0)) = Addr + k
             /\ Addr + (i - 1 - Offset(0)) \in 0..(MemorySize - 1)
             /\ SectorOf(i) = RawSector /\ (i - 1) % SectorSize = k
  <2>1. /\ k \in 0..(SectorSize - 1) /\ RawSector \in Nat /\ Addr \in Nat
        /\ Offset(k) \in Nat /\ Offset(k) = Offset(0) + k /\ Addr + k \in 0..(MemorySize - 1)
    BY MovedBytes
  <2>2. i - 1 = Offset(k) BY <1>3, <2>1
  <2>3. SectorSize \in Nat \ {0} BY DiskAssumption
  <2>4. (RawSector * SectorSize + k) \div SectorSize = RawSector
        /\ (RawSector * SectorSize + k) % SectorSize = k
    <3> DEFINE q == RawSector
    <3>1. q \in Int BY <2>1
    <3> HIDE DEF q
    <3>2. (q * SectorSize + k) \div SectorSize = q /\ (q * SectorSize + k) % SectorSize = k
      BY <2>1, <2>3, <3>1, SectorPlace
    <3> QED BY <3>2 DEF q
  <2>5. SectorOf(i) = RawSector /\ (i - 1) % SectorSize = k
    BY <2>2, <2>4 DEF SectorOf, Offset
  <2>6. Offset(0) \in Int
    <3>1. RawSector * SectorSize \in Int BY <2>1, <2>3
    <3> QED BY <3>1 DEF Offset
  <2>7. i - 1 - Offset(0) = k BY <2>1, <2>2, <2>6
  <2> QED BY <2>1, <2>5, <2>7
<1>4. ASSUME NEW i \in DOMAIN image[d] PROVE Written(d)[i] \in Values
  <2>1. CASE \E k \in Moved(d) : i = Offset(k) + 1
    <3>1. PICK k \in Moved(d) : i = Offset(k) + 1 BY <2>1
    <3>2. Addr + (i - 1 - Offset(0)) \in 0..(MemorySize - 1) BY <1>3, <3>1
    <3>3. Written(d)[i] = memory[Addr + (i - 1 - Offset(0))] BY <2>1 DEF Written
    <3> QED BY <3>2, <3>3, <1>1
  <2>2. CASE ~\E k \in Moved(d) : i = Offset(k) + 1
    <3>1. Written(d)[i] = image[d][i] BY <2>2 DEF Written
    <3> QED BY <3>1, <1>2
  <2> QED BY <2>1, <2>2
<1>5. Written(d) = [i \in 1..Len(image[d]) |-> Written(d)[i]]
  BY <1>2 DEF Written
<1>6. Written(d) \in [1..Len(image[d]) -> Values]
  BY <1>2, <1>4, <1>5
<1>7. Written(d) \in Seq(Values) /\ Len(Written(d)) = Len(image[d])
  BY <1>2, <1>6
<1>8. ASSUME NEW i \in DOMAIN image[d], Written(d)[i] # image[d][i]
      PROVE  /\ SectorOf(i) = RawSector
             /\ Written(d)[i] = memory[Addr + ((i - 1) % SectorSize)]
  <2>1. \E k \in Moved(d) : i = Offset(k) + 1 BY <1>8 DEF Written
  <2>2. PICK k \in Moved(d) : i = Offset(k) + 1 BY <2>1
  <2>3. Written(d)[i] = memory[Addr + (i - 1 - Offset(0))] BY <2>1 DEF Written
  <2> QED BY <1>3, <2>2, <2>3
<1> QED BY <1>7, <1>8

\* A write changes the image of one drive to that, and the file with the
\* drive's name to the image of drive A.
LEMMA WriteEffect ==
  ASSUME DiskTypes, NEW d \in Drives, WriteSector(d)
  PROVE  /\ image' \in [Drives -> Seq(Values)] /\ image'[d] = Written(d)
         /\ \A other \in Drives : other # d => image'[other] = image[other]
         /\ memory' = memory /\ file' \in [Names -> Seq(Values) \union {Missing}]
         /\ \/ name[d] \in Protected /\ file' = file
            \/ file'[name[d]] = image'[0]
               /\ \A n \in Names : n # name[d] => file'[n] = file[n]
<1>1. /\ image' = [image EXCEPT ![d] = Written(d)]
      /\ file' = IF name[d] \in Protected THEN file ELSE [file EXCEPT ![name[d]] = image'[0]]
      /\ memory' = memory
  BY DEF WriteSector, Written, Saved
<1>2. Written(d) \in Seq(Values) BY WrittenBytes
<1>3. image \in [Drives -> Seq(Values)] /\ name[d] \in Names
      /\ file \in [Names -> Seq(Values) \union {Missing}]
  BY DEF DiskTypes
<1>4. /\ image' \in [Drives -> Seq(Values)] /\ image'[d] = Written(d)
      /\ \A other \in Drives : other # d => image'[other] = image[other]
  BY <1>1, <1>2, <1>3
<1>5. image'[0] \in Seq(Values) BY <1>4 DEF Drives
<1> QED BY <1>1, <1>3, <1>4, <1>5

-----------------------------------------------------------------------------
(* Steps of the guest and of the debugger. *)

\* What a command does to all of this, by its number.
LEMMA CommandEffect ==
  ASSUME DiskInv, NEW d, NEW v, Command(d, v)
  PROVE  \/ v = ReadCommand /\ ReadSector(d)
         \/ v = WriteCommand /\ WriteSector(d)
         \/ memory' = memory /\ image' = image /\ file' = file
  BY DEF Command

LEMMA CommandKeeps ==
  ASSUME DiskInv, NEW d, NEW v, Command(d, v),
         UNCHANGED <<name, loaded>>
  PROVE  /\ memory' \in [0..(MemorySize - 1) -> Values]
         /\ image' \in [Drives -> Seq(Values)]
         /\ file' \in [Names -> Seq(Values) \union {Missing}]
         /\ DriveASaved'
<1>0. DiskTypes /\ DriveASaved /\ 0 \in Drives BY DEF DiskInv, Drives
<1>1. CASE memory' = memory /\ image' = image /\ file' = file
  BY <1>0, <1>1 DEF DiskTypes, DriveASaved
<1>2. CASE ReadSector(d)
  BY <1>0, <1>2, ReadTypes DEF DiskTypes, DriveASaved
<1>3. CASE WriteSector(d)
  <2>1. CASE d \notin Drives
    BY <1>0, <1>3, <2>1 DEF WriteSector, DiskTypes, DriveASaved
  <2>2. CASE d \in Drives
    <3>1. /\ image' \in [Drives -> Seq(Values)] /\ memory' = memory
          /\ file' \in [Names -> Seq(Values) \union {Missing}]
      BY <1>0, <1>3, <2>2, WriteEffect
    <3>2. DriveASaved'
      <4>1. SUFFICES ASSUME name[0] = loaded[0], name[0] \notin Protected
                     PROVE  file'[name[0]] = image'[0]
        BY DEF DriveASaved
      <4>2. file[name[0]] = image[0] BY <1>0, <4>1 DEF DriveASaved
      <4>3. name[0] \in Names BY <1>0 DEF DiskTypes
      <4>4. CASE d = 0
        BY <1>0, <1>3, <2>2, <4>1, <4>4, WriteEffect
      <4>5. CASE d # 0
        <5>1. image'[0] = image[0]
          BY <1>0, <1>3, <2>2, <4>5, WriteEffect
        <5>2. CASE name[d] = name[0]
          BY <1>0, <1>3, <2>2, <4>1, <5>2, WriteEffect
        <5>3. CASE name[d] # name[0]
          <6>1. file'[name[0]] = file[name[0]]
            BY <1>0, <1>3, <2>2, <4>3, <5>3, WriteEffect
          <6> QED BY <4>2, <5>1, <6>1
        <5> QED BY <5>2, <5>3
      <4> QED BY <4>4, <4>5
    <3>3. memory' \in [0..(MemorySize - 1) -> Values]
      BY <1>0, <3>1 DEF DiskTypes
    <3> QED BY <3>1, <3>2, <3>3
  <2> QED BY <2>1, <2>2
<1> QED BY <1>1, <1>2, <1>3, CommandEffect

\* Loading the images keeps what is said of drive A, if a new name of it has a file.
LEMMA LoadedKeeps ==
  ASSUME DiskInv, NEW names \in [Drives -> Names], InitCpmDisks(names),
         file[names[0]] = Missing => names[0] = name[0],
         name' = names, UNCHANGED <<sector_ram, sector, track, memory, file>>
  PROVE  DiskInv'
<1>0. DiskTypes /\ DriveASaved /\ 0 \in Drives BY DEF DiskInv, Drives
<1> DEFINE loads(e) == file[names[0]] # Missing /\ file[names[e]] # Missing
<1>1. /\ image' = [e \in Drives |-> IF loads(e) THEN file[names[e]] ELSE image[e]]
      /\ loaded' = [e \in Drives |-> IF loads(e) THEN names[e] ELSE loaded[e]]
  BY DEF InitCpmDisks
<1>2. ASSUME NEW e \in Drives, loads(e) PROVE file[names[e]] \in Seq(Values)
  BY <1>0, <1>2 DEF DiskTypes
<1>3. image' \in [Drives -> Seq(Values)]
  <2>1. \A e \in Drives : image[e] \in Seq(Values) BY <1>0 DEF DiskTypes
  <2> HIDE DEF loads
  <2> QED BY <1>1, <1>2, <2>1
<1>4. loaded' \in [Drives -> Names \union {NoName}]
  <2>1. \A e \in Drives : loaded[e] \in Names \union {NoName} /\ names[e] \in Names
    BY <1>0 DEF DiskTypes
  <2> HIDE DEF loads
  <2> QED BY <1>1, <2>1
<1>5. DiskTypes' BY <1>0, <1>3, <1>4 DEF DiskTypes
<1>6. CASE loads(0)
  <2>1. image'[0] = file[names[0]] BY <1>0, <1>1, <1>6
  <2>2. DriveASaved' BY <2>1 DEF DriveASaved
  <2> QED BY <1>5, <2>2 DEF DiskInv
<1>7. CASE ~loads(0)
  <2>1. names[0] = name[0] BY <1>7
  <2>2. image'[0] = image[0] /\ loaded'[0] = loaded[0]
    <3> HIDE DEF loads
    <3> QED BY <1>0, <1>1, <1>7
  <2>3. DriveASaved' BY <1>0, <2>1, <2>2 DEF DriveASaved
  <2> QED BY <1>5, <2>3 DEF DiskInv
<1> QED BY <1>6, <1>7

\* Whatever the debugger names, drive A's file is the one its image is from.
LEMMA NamedKeeps ==
  ASSUME DiskInv, NEW d \in Drives, NEW n \in Names, NameFile(d, n)
  PROVE  DiskInv'
<1>0. DiskTypes /\ DriveASaved /\ 0 \in Drives BY DEF DiskInv, Drives
<1> DEFINE names == [name EXCEPT ![d] = n]
<1>1. /\ name' = names /\ file[n] # Missing
      /\ UNCHANGED <<sector_ram, sector, track, memory, file>>
  BY DEF NameFile
<1>2. names \in [Drives -> Names] /\ names[d] = n
      /\ \A other \in Drives : other # d => names[other] = name[other]
  BY <1>0 DEF DiskTypes
<1>5. \/ loaded' = [loaded EXCEPT ![d] = NoName] /\ image' = image
      \/ InitCpmDisks(names)
  BY DEF NameFile
<1> HIDE DEF names
<1>3. CASE loaded' = [loaded EXCEPT ![d] = NoName] /\ image' = image
  <2>2. DiskTypes' BY <1>0, <1>1, <1>2, <1>3 DEF DiskTypes
  <2>3. DriveASaved'
    <3>1. CASE d = 0
      <4>1. loaded'[0] = NoName /\ name'[0] \in Names
        BY <1>0, <1>1, <1>2, <1>3, <3>1 DEF DiskTypes
      <4> QED BY <4>1, FilesAssumption DEF DriveASaved
    <3>2. CASE d # 0
      <4>1. loaded'[0] = loaded[0] /\ name'[0] = name[0]
        BY <1>0, <1>1, <1>2, <1>3, <3>2 DEF DiskTypes
      <4> QED BY <1>0, <1>1, <1>3, <4>1 DEF DriveASaved
    <3> QED BY <3>1, <3>2
  <2> QED BY <2>2, <2>3 DEF DiskInv
<1>4. CASE InitCpmDisks(names)
  <2>1. file[names[0]] = Missing => names[0] = name[0] BY <1>0, <1>1, <1>2
  <2> QED BY <1>1, <1>2, <1>4, <2>1, LoadedKeeps
<1> QED BY <1>3, <1>4, <1>5

\* So does the floppy controller, which loads them again.
LEMMA ReassembledKeeps ==
  ASSUME DiskInv, NEW d \in Drives, Reassemble(d)
  PROVE  DiskInv'
<1>1. name \in [Drives -> Names] BY DEF DiskInv, DiskTypes
<1>2. UNCHANGED <<sector_ram, sector, track, drive, memory, file, name>> BY DEF Reassemble
<1>3. CASE UNCHANGED <<image, loaded>>
  BY <1>2, <1>3 DEF DiskInv, DiskTypes, DriveASaved
<1>4. CASE InitCpmDisks(name) BY <1>1, <1>2, <1>4, LoadedKeeps
<1> QED BY <1>3, <1>4 DEF Reassemble

LEMMA DiskInitInv == DisksInit => DiskInv
<1> SUFFICES ASSUME DisksInit PROVE DiskInv
  OBVIOUS
<1> DEFINE loads(d) == file[name[0]] # Missing /\ file[name[d]] # Missing
<1>1. /\ image = [d \in Drives |-> IF loads(d) THEN file[name[d]] ELSE <<>>]
      /\ loaded = [d \in Drives |-> IF loads(d) THEN name[d] ELSE NoName]
  BY DEF DisksInit
<1>2. file \in [Names -> Seq(Values) \union {Missing}] /\ name \in [Drives -> Names]
  BY FilesAssumption DEF DisksInit
<1>3. \A d \in Drives : loads(d) => file[name[d]] \in Seq(Values)
  BY <1>2
<1>4. <<>> \in Seq(Values) OBVIOUS
<1>5. image \in [Drives -> Seq(Values)] /\ loaded \in [Drives -> Names \union {NoName}]
  <2> HIDE DEF loads
  <2> QED BY <1>1, <1>2, <1>3, <1>4
<1>6. sector_ram \in [{"low", "high"} -> 0..(Half - 1)] /\ sector \in Nat /\ track \in Nat
  BY DiskAssumption DEF DisksInit
<1>7. memory \in [0..(MemorySize - 1) -> Values] BY DEF DisksInit
<1>8. DriveASaved
  <2>1. 0 \in Drives BY DEF Drives
  <2>2. CASE loads(0)
    <3>1. image[0] = file[name[0]] BY <1>1, <2>1, <2>2
    <3> QED BY <3>1 DEF DriveASaved
  <2>3. CASE ~loads(0)
    <3>1. loaded[0] = NoName /\ name[0] \in Names
      <4> HIDE DEF loads
      <4> QED BY <1>1, <1>2, <2>1, <2>3
    <3> QED BY <3>1, FilesAssumption DEF DriveASaved
  <2> QED BY <2>2, <2>3
<1> QED BY <1>2, <1>5, <1>6, <1>7, <1>8 DEF DiskInv, DiskTypes

LEMMA DiskStepInv ==
  ASSUME DiskInv, DiskNext
  PROVE  DiskInv'
<1>0. DiskTypes /\ DriveASaved BY DEF DiskInv
<1>1. ASSUME NEW half \in {"low", "high"}, NEW v \in 0..(Half - 1), SetAddress(half, v)
      PROVE  DiskInv'
  <2>1. sector_ram' \in [{"low", "high"} -> 0..(Half - 1)]
    BY <1>0, <1>1 DEF SetAddress, DiskTypes
  <2> QED BY <1>0, <1>1, <2>1 DEF SetAddress, DiskInv, DiskTypes, DriveASaved
<1>2. ASSUME NEW v \in Tracks, SetTrack(v) PROVE DiskInv'
  BY <1>0, <1>2, DiskAssumption DEF SetTrack, DiskInv, DiskTypes, DriveASaved
<1>3. ASSUME NEW v \in Sectors, SetSector(v) PROVE DiskInv'
  BY <1>0, <1>3, DiskAssumption DEF SetSector, DiskInv, DiskTypes, DriveASaved
<1>4. ASSUME NEW v, CommandPort(v) PROVE DiskInv'
  <2>1. Command(drive, v) /\ UNCHANGED <<sector_ram, sector, track, name, loaded>>
    BY <1>4 DEF CommandPort
  <2> QED BY <1>0, <2>1, CommandKeeps DEF DiskInv, DiskTypes
<1>5. ASSUME NEW v, DrivePort(v) PROVE DiskInv'
  <2>1. Command(v, v) /\ UNCHANGED <<sector_ram, sector, track, name, loaded>>
    BY <1>5 DEF DrivePort
  <2> QED BY <1>0, <2>1, CommandKeeps DEF DiskInv, DiskTypes
<1>6. ASSUME NEW a \in 0..(MemorySize - 1), NEW v \in Values, Store(a, v) PROVE DiskInv'
  <2>1. memory' \in [0..(MemorySize - 1) -> Values]
    BY <1>0, <1>6 DEF Store, DiskTypes
  <2> QED BY <1>0, <1>6, <2>1 DEF Store, DiskInv, DiskTypes, DriveASaved
<1> QED
  BY <1>1, <1>2, <1>3, <1>4, <1>5, <1>6, NamedKeeps, ReassembledKeeps DEF DiskNext, GuestDisks

\* A command writes within its sector, and nothing else writes.
LEMMA DiskStepOneSector ==
  ASSUME DiskInv, DiskNext
  PROVE  OneSector
<1>0. DiskTypes BY DEF DiskInv
<1>a. ASSUME image' = image PROVE OneSector
  BY <1>a DEF OneSector
<1>1. ASSUME NEW v, CommandPort(v) PROVE OneSector
  <2>1. Command(drive, v) /\ drive' = drive BY <1>1 DEF CommandPort
  <2>2. CASE ~(WriteSector(drive) /\ drive \in Drives)
    <3>1. image' = image BY <2>1, <2>2 DEF Command, ReadSector, WriteSector
    <3> QED BY <3>1, <1>a
  <2>3. CASE WriteSector(drive) /\ drive \in Drives
    <3>1. ASSUME NEW d \in Drives, NEW i \in DOMAIN image[d]
          PROVE  /\ Len(image'[d]) = Len(image[d])
                 /\ image'[d][i] # image[d][i] =>
                      /\ d = drive /\ d = drive' /\ SectorOf(i) = RawSector
                      /\ image'[d][i] = memory[Addr + ((i - 1) % SectorSize)]
      <4>1. CASE d = drive
        <5>1. image'[d] = Written(d) BY <1>0, <2>3, <4>1, WriteEffect
        <5> QED BY <1>0, <2>1, <4>1, <5>1, WrittenBytes
      <4>2. CASE d # drive
        <5>1. image'[d] = image[d] BY <1>0, <2>3, <4>2, WriteEffect
        <5> QED BY <5>1
      <4> QED BY <4>1, <4>2
    <3> QED BY <3>1 DEF OneSector
  <2> QED BY <2>2, <2>3
<1>2. ASSUME NEW v \in Drives \union {ReadCommand, WriteCommand}, DrivePort(v) PROVE OneSector
  <2>1. Command(v, v) BY <1>2 DEF DrivePort
  <2>2. image' = image
    BY <2>1, <1>2 DEF Command, ReadSector, WriteSector, Drives, ReadCommand, WriteCommand
  <2> QED BY <2>2, <1>a
<1>b. ASSUME InitCpmDisks(name') PROVE OneSector
  <2>1. Reloaded(image', name') BY <1>b DEF InitCpmDisks, Reloaded
  <2> QED BY <2>1 DEF OneSector
<1>3. ASSUME NEW d \in Drives, NEW n \in Names, NameFile(d, n) PROVE OneSector
  <2>1. image' = image \/ InitCpmDisks(name') BY <1>3 DEF NameFile
  <2> QED BY <2>1, <1>a, <1>b
<1>4. ASSUME NEW d \in Drives, Reassemble(d) PROVE OneSector
  <2>1. image' = image \/ InitCpmDisks(name') BY <1>4 DEF Reassemble
  <2> QED BY <2>1, <1>a, <1>b
<1> QED
  BY <1>1, <1>2, <1>3, <1>4, <1>a DEF DiskNext, GuestDisks, SetAddress, SetTrack, SetSector, Store

-----------------------------------------------------------------------------
(* The pause and the whole. *)

\* Why at most one instruction runs after a pause is asked for: the test comes
\* between two of the loop's, and one that began in the debugger is not counted
\* (mainboard.c:267-281).
PauseInv ==
  /\ at \in Places /\ caller \in {"loop", "debugger"} /\ pause \in {0, 1}
  /\ keys \in 0..MaxKeys /\ started \in {0, 1}
  /\ pause = 0 => started = 0
  /\ started = 1 => at # "step" \/ caller = "debugger"

LEMMA PauseInitInv == DebuggerInit => PauseInv
  BY KeysAssumption DEF DebuggerInit, PauseInv, Places

LEMMA PauseStepInv ==
  ASSUME PauseInv, DebuggerNext
  PROVE  PauseInv'
<1> USE KeysAssumption DEF PauseInv, Places, Home
<1>1. CASE Test BY <1>1 DEF Test
<1>2. CASE Instruction BY <1>2 DEF Instruction, Counted
<1>3. CASE BreakpointHit BY <1>3 DEF BreakpointHit, Counted
<1>4. CASE ReadConsole BY <1>4 DEF ReadConsole, Counted
<1>5. CASE Receive BY <1>5 DEF Receive
<1>6. CASE Leave BY <1>6 DEF Leave
<1>7. CASE Go BY <1>7 DEF Go
<1>8. CASE SingleStep BY <1>8 DEF SingleStep
<1>9. CASE TogglePause BY <1>9 DEF TogglePause
<1>10. CASE WindowPauses BY <1>10 DEF WindowPauses, PauseS
<1>11. CASE WindowUnpauses BY <1>11 DEF WindowUnpauses
<1>12. CASE OnCtrlC BY <1>12 DEF OnCtrlC, PauseS
<1>13. CASE KeyPressed BY <1>13 DEF KeyPressed
<1> QED
  BY <1>1, <1>2, <1>3, <1>4, <1>5, <1>6, <1>7, <1>8, <1>9, <1>10, <1>11, <1>12, <1>13
     DEF DebuggerNext, EmulatorStep

-----------------------------------------------------------------------------
(* The board. *)

BoardInv == ConsoleInv /\ DiskInv /\ PauseInv

LEMMA BoardInitInv == Init => BoardInv
  BY ConsoleInitInv, DiskInitInv, PauseInitInv DEF Init, BoardInv

\* A part that a step leaves alone keeps its invariant.
LEMMA ConsoleUnchanged ==
  ASSUME ConsoleInv, UNCHANGED console
  PROVE  ConsoleInv'
  BY DEF console, ConsoleInv, ConsoleTypes, BottomBlank
LEMMA DisksUnchanged ==
  ASSUME DiskInv, UNCHANGED disks
  PROVE  DiskInv'
  BY DEF disks, DiskInv, DiskTypes, DriveASaved
LEMMA PauseUnchanged ==
  ASSUME PauseInv, UNCHANGED debugger
  PROVE  PauseInv'
  BY DEF debugger, PauseInv

\* Each step of the board is a step of at most one of its parts and a reset of
\* the console.
LEMMA BoardParts ==
  ASSUME [Next]_board
  PROVE  /\ ConsoleNext \/ ConsoleReset \/ UNCHANGED console
         /\ DiskNext \/ UNCHANGED disks
         /\ DebuggerNext \/ UNCHANGED debugger
<1>1. CASE UseConsole BY <1>1 DEF UseConsole
<1>2. CASE UseDisks BY <1>2 DEF UseDisks, DiskNext
<1>3. CASE GiveFile
  <2>1. PICK d \in Drives, n \in Names :
          NameFile(d, n) /\ IF n \in Floppies THEN UNCHANGED console ELSE ConsoleReset
    BY <1>3 DEF GiveFile
  <2> QED BY <1>3, <2>1 DEF GiveFile, DiskNext
<1>4. CASE ResetComputer BY <1>4 DEF ResetComputer, DiskNext, Drives
<1>5. CASE UseKeys BY <1>5 DEF UseKeys
<1>6. CASE UseFloppy BY <1>6 DEF UseFloppy, DiskNext
<1>7. CASE UNCHANGED board BY <1>7 DEF board
<1> QED BY <1>1, <1>2, <1>3, <1>4, <1>5, <1>6, <1>7 DEF Next

LEMMA BoardStepInv == BoardInv /\ [Next]_board => BoardInv'
<1> SUFFICES ASSUME BoardInv, [Next]_board PROVE BoardInv'
  OBVIOUS
<1>0. ConsoleInv /\ DiskInv /\ PauseInv BY DEF BoardInv
<1>1. ConsoleInv' BY <1>0, BoardParts, ConsoleStepInv, ConsoleUnchanged
<1>2. DiskInv' BY <1>0, BoardParts, DiskStepInv, DisksUnchanged
<1>3. PauseInv' BY <1>0, BoardParts, PauseStepInv, PauseUnchanged
<1> QED BY <1>1, <1>2, <1>3 DEF BoardInv

LEMMA BoardInvariant == Spec => []BoardInv
  BY BoardInitInv, BoardStepInv, PTL DEF Spec

LEMMA BoardInvCoherent == BoardInv => Coherent
<1> SUFFICES ASSUME BoardInv PROVE Coherent
  OBVIOUS
<1>1. \A d \in Drives : image[d] \in Seq(Values) BY DEF BoardInv, DiskInv, DiskTypes
<1>2. TypeOK
  BY <1>1 DEF BoardInv, ConsoleInv, ConsoleTypes, DiskInv, DiskTypes, PauseInv, TypeOK
<1> QED BY <1>2 DEF BoardInv, DiskInv, Coherent

-----------------------------------------------------------------------------
(* Theorems. *)

\* For a screen, images and a memory of any size, the cursor and its registers
\* stay on the page, cursor addressing is not reached, and drive A's file is
\* what the guest has written (video.c:289-378, mainboard.c:785-883).
THEOREM BoardCoherent == Spec => []Coherent
  BY BoardInvariant, BoardInvCoherent, PTL

\* At most one instruction of the loop begins after a pause is asked for
\* (mainboard.c:267-281).
THEOREM BoardStopsSoon == Spec => []StopsSoon
<1>1. BoardInv => StopsSoon BY DEF BoardInv, PauseInv, StopsSoon
<1> QED BY <1>1, BoardInvariant, PTL

\* No command writes a byte outside its sector, to another drive or with
\* another value than the memory's, for every size of sector, track, memory and
\* image (mainboard.c:806-883).
THEOREM BoardWritesOneSector == Spec => WritesOneSector
<1>1. BoardInv /\ [Next]_board => [OneSector]_disks
  <2> SUFFICES ASSUME BoardInv, [Next]_board PROVE [OneSector]_disks
    OBVIOUS
  <2>1. DiskInv BY DEF BoardInv
  <2>2. CASE DiskNext BY <2>1, <2>2, DiskStepOneSector
  <2>3. CASE UNCHANGED disks BY <2>3
  <2> QED BY <2>2, <2>3, BoardParts
<1>2. WritesOneSector <=> [][OneSector]_disks
  BY DEF WritesOneSector, OneSector
<1> QED BY <1>1, <1>2, BoardInvariant, PTL DEF Spec

\* The bytes of the video memory, whichever way they scroll, are what the
\* terminal of module Terminal shows, for every size of page
\* (video.c:107-120, 142-250, 289-408).
THEOREM BoardActsAsTerminal == Spec => ActsAsTerminal
<1>1. Init => Page!Init BY ConsoleInitShows DEF Init
<1>2. BoardInv /\ [Next]_board => [Page!Next]_shown
  <2> SUFFICES ASSUME BoardInv, [Next]_board PROVE [Page!Next]_shown
    OBVIOUS
  <2>1. ConsoleInv BY DEF BoardInv
  <2>2. CASE ConsoleNext \/ ConsoleReset BY <2>1, <2>2, ConsoleStepShows
  <2>3. CASE UNCHANGED console
    <3>1. vram' = vram /\ y' = y /\ x' = x /\ esc' = esc BY <2>3 DEF console
    <3>2. Screen' = Screen BY <3>1, ScreenIsPage, ScreenIsPagePrimed
    <3> QED BY <3>1, <3>2 DEF shown
  <2> QED BY <2>2, <2>3, BoardParts
<1>3. ActsAsTerminal <=> Page!Init /\ [][Page!Next]_shown
  BY DEF ActsAsTerminal, Page!Spec, shown
<1> QED BY <1>1, <1>2, <1>3, BoardInvariant, PTL DEF Spec
=============================================================================

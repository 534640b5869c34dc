------------------------------ MODULE Terminal ------------------------------
(***************************************************************************)
(* What the console of the emulator amounts to for a program that writes   *)
(* to it: a page of rows that scrolls, a place to write at, and a mark     *)
(* that an escape character waits for its second.  There is no cursor      *)
(* addressing in it, and the bottom row stays blank.                       *)
(***************************************************************************)
EXTENDS Naturals, Sequences

CONSTANTS Rows, Columns,       \* at least two rows and a column
          Start,               \* the first row written to, not the last
          Characters, Blank

VARIABLES page,          \* the rows, top to bottom
          row, column,   \* row 1 is at the top, column 0 at the left
          pending        \* an escape character came

BlankRow == [c \in 0..(Columns - 1) |-> Blank]
BlankPage == [r \in 1..Rows |-> BlankRow]

Init == page = BlankPage /\ row = Start /\ column = 0 /\ pending = FALSE

\* The last column is written over.
Put(character) ==
  /\ ~pending
  /\ page' = [page EXCEPT ![row][column] = character]
  /\ column' = IF column + 1 < Columns THEN column + 1 ELSE column
  /\ UNCHANGED <<row, pending>>

Left ==
  /\ column > 0 /\ column' = column - 1
  /\ UNCHANGED <<page, row, pending>>

Return == column' = 0 /\ UNCHANGED <<page, row, pending>>

Roll == page' = Append(Tail(page), BlankRow)

Down ==
  /\ \/ row < Rows - 1 /\ row' = row + 1 /\ UNCHANGED page
     \/ row = Rows - 1 /\ Roll /\ UNCHANGED row
  /\ UNCHANGED <<column, pending>>

\* The program moves the page and not its place.
Scroll == Roll /\ UNCHANGED <<row, column, pending>>

Escape == pending' = TRUE /\ UNCHANGED <<page, row, column>>

\* The second character clears the page or does nothing.
Clear ==
  /\ pending /\ pending' = FALSE
  /\ page' = BlankPage /\ row' = 1 /\ column' = 0
Swallow == pending /\ pending' = FALSE /\ UNCHANGED <<page, row, column>>

Restart == page' = BlankPage /\ row' = Start /\ column' = 0 /\ pending' = FALSE

Next ==
  \/ \E character \in Characters : Put(character)
  \/ Left \/ Return \/ Down \/ Scroll \/ Escape \/ Clear \/ Swallow \/ Restart

Spec == Init /\ [][Next]_<<page, row, column, pending>>
=============================================================================

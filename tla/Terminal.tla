------------------------------ MODULE Terminal ------------------------------
(***************************************************************************)
(* The text screen of kernel/terminal.c, as operators on its state: the    *)
(* cells of video_memory and the cursor.  A character is its code; the     *)
(* colour half of a cell and the hardware cursor, which follows, are left  *)
(* out.                                                                    *)
(***************************************************************************)
EXTENDS Integers, Sequences

CONSTANTS
  COLS,  \* columns of the screen, 80 in the code
  ROWS   \* rows of the screen, 25 in the code

ASSUME ScreenAssumption == COLS \in Nat \ {0} /\ ROWS \in Nat \ {0}

BS    == 8
TAB   == 9
NL    == 10
CR    == 13
Space == 32

Columns  == 0 .. COLS - 1
Rows     == 0 .. ROWS - 1
BlankRow == [x \in Columns |-> Space]

Screen(Char) ==
  [cells : [Rows -> [Columns -> Char]], cursor_x : Columns, cursor_y : Rows]

terminal_initialize ==
  [cells |-> [y \in Rows |-> BlankRow], cursor_x |-> 0, cursor_y |-> 0]

(* The first half of putchar: what the character itself does.              *)
Put(t, c) ==
  CASE c = NL  -> [t EXCEPT !.cursor_x = 0, !.cursor_y = @ + 1]
    [] c = CR  -> [t EXCEPT !.cursor_x = 0]
    [] c = BS  -> IF t.cursor_x = 0 THEN t
                  ELSE [t EXCEPT !.cursor_x = @ - 1,
                                 !.cells[t.cursor_y][t.cursor_x - 1] = Space]
    [] c = TAB -> [t EXCEPT !.cursor_x = 8 * ((@ + 8) \div 8)]
    [] OTHER   -> [t EXCEPT !.cells[t.cursor_y][t.cursor_x] = c,
                            !.cursor_x = @ + 1]

Wrap(t) ==
  IF t.cursor_x < COLS THEN t ELSE [t EXCEPT !.cursor_x = 0, !.cursor_y = @ + 1]

Scroll(t) ==
  IF t.cursor_y < ROWS THEN t
  ELSE [t EXCEPT !.cursor_y = ROWS - 1,
                 !.cells = [y \in Rows |-> IF y = ROWS - 1 THEN BlankRow ELSE @[y + 1]]]

putchar(t, c) == Scroll(Wrap(Put(t, c)))

terminal_writestring(t, str) ==
  LET written[n \in 0 .. Len(str)] ==
        IF n = 0 THEN t ELSE putchar(written[n - 1], str[n])
  IN  written[Len(str)]

(* The cursor's row, and what a row with str at its left and nothing else  *)
(* looks like.                                                             *)
CursorRow(t) == t.cells[t.cursor_y]

Shows(str) == [x \in Columns |-> IF x < Len(str) THEN str[x + 1] ELSE Space]
=============================================================================

------------------------------- MODULE Console -------------------------------
(***************************************************************************)
(* The text console of video.c, in units of character cells: term_x counts *)
(* in steps of 8 pixels and term_y in steps of 16, and the framebuffer is  *)
(* a whole number Cols of the one wide and Rows of the other high.  A      *)
(* console is a record of the cursor and of what the cells show.           *)
(***************************************************************************)
EXTENDS Integers, Sequences

CONSTANTS
  Cols, Rows,   \* current_framebuffer->width / 8 and ->height / 16
  Blank         \* a cell in the background colour

ASSUME ConsoleAssumption == Cols \in Nat \ {0} /\ Rows \in Nat \ {0}

NewLine == "newline"

\* A cell by the number of cells before it; the cursor may stand one past
\* the end of a row, which is the same place as the start of the next one.
CellNumbers == 0..(Cols * Rows - 1)
Position(t) == t.y * Cols + t.x

ClearScreen == [x |-> 0, y |-> 0, cell |-> [p \in CellNumbers |-> Blank]]

\* The row scrolled out at the top is lost, the last row becomes blank.
scroll_up_copy_only(t) ==
  [t EXCEPT !.cell =
     [p \in CellNumbers |-> IF p + Cols \in CellNumbers THEN t.cell[p + Cols] ELSE t.cell[p]]]

scroll_up(t) ==
  [t EXCEPT !.cell =
     [p \in CellNumbers |-> IF p + Cols \in CellNumbers THEN t.cell[p + Cols] ELSE Blank]]

\* A glyph or rectangle of one cell; one outside the screen is not modelled.
draw(t, x, y, c) ==
  IF x < Cols /\ y < Rows THEN [t EXCEPT !.cell[y * Cols + x] = c] ELSE t

\* The three steps of print_char: go to the next line if c asks for it or the
\* row is full, scroll if that left the screen, draw and advance.
NeedsLineNewLineOnly(t, c) == c = NewLine
NeedsLine(t, c) == c = NewLine \/ t.x >= Cols

AdvanceLine(t, c) ==
  IF NeedsLine(t, c) THEN [t EXCEPT !.x = 0, !.y = @ + 1] ELSE t

ScrollIntoView(t) ==
  IF t.y >= Rows THEN [scroll_up(t) EXCEPT !.y = t.y - 1] ELSE t

DrawAndStep(t, c) ==
  IF c = NewLine THEN t ELSE [draw(t, t.x, t.y, c) EXCEPT !.x = t.x + 1]

print_char(t, c) == DrawAndStep(ScrollIntoView(AdvanceLine(t, c)), c)

\* handle_backspace of shell.c: one cell back, from the start of a row to the
\* end of the row above, and paint the cell in its own background.
StepBack(t) ==
  IF t.x = 0 /\ t.y > 0 THEN [t EXCEPT !.x = Cols - 1, !.y = @ - 1]
  ELSE IF t.x > 0 THEN [t EXCEPT !.x = @ - 1] ELSE t

handle_backspace(t) == LET b == StepBack(t) IN draw(b, b.x, b.y, Blank)

=============================================================================

----------------------------- MODULE ShellProofs -----------------------------
(***************************************************************************)
(* Proofs about Shell for every screen, line length, set of keys and       *)
(* output, and for any number of characters of the boot thread: types, the *)
(* line buffer is a string, the cursor stays near the screen although the  *)
(* keyboard handler runs between the instructions of print_char, and the   *)
(* screen shows the line.                                                  *)
(*                                                                         *)
(* The argument for the cursor: the boot thread's copies of term_x and     *)
(* term_y (eax) may be stale when it stores them, so the invariant bounds  *)
(* them at every step of print_char, whatever the handler did since.  The  *)
(* only dangerous store is the one after a scroll, eax - 1: the handler    *)
(* can erase the line, and so go back LineSize - 1 cells, but not to row 0 *)
(* if a line fits the rows between (LineFits).                             *)
(***************************************************************************)
EXTENDS Shell, SequenceTheorems, TLAPS

-----------------------------------------------------------------------------
\* Rows and cells.

LEMMA RowFacts ==
  ASSUME NEW y \in Int
  PROVE  /\ Cols \in Nat \ {0} /\ Rows \in Nat \ {0}
         /\ y * Cols \in Int
         /\ (y + 1) * Cols = y * Cols + Cols
         /\ (y - 1) * Cols = y * Cols - Cols
         /\ (y - 2) * Cols = y * Cols - Cols - Cols
<1>1. Cols \in Nat \ {0} /\ Rows \in Nat \ {0}
  BY ConsoleAssumption
<1> QED  BY <1>1

LEMMA RowOrder ==
  ASSUME NEW y \in Int, NEW z \in Int, y <= z
  PROVE  y * Cols <= z * Cols
<1>1. Cols \in Nat /\ z - y \in Nat
  BY ConsoleAssumption
<1>2. (z - y) * Cols \in Nat /\ y * Cols \in Int /\ z * Cols \in Int
  BY <1>1
<1>3. (z - y) * Cols = z * Cols - y * Cols
  BY <1>1
<1> QED  BY <1>2, <1>3

LEMMA CellFacts ==
  /\ CellNumbers = 0..(Cols * Rows - 1)
  /\ Cols * Rows = Rows * Cols /\ Rows * Cols \in Nat
  /\ \A p \in CellNumbers : p \in Int
  BY ConsoleAssumption DEF CellNumbers

LEMMA CellOfCursor ==
  ASSUME NEW x \in Int, NEW y \in Int, 0 <= x, x < Cols, 0 <= y, y < Rows
  PROVE  y * Cols + x \in CellNumbers
<1>1. y * Cols \in Int /\ (y + 1) * Cols = y * Cols + Cols /\ Cols \in Nat
  BY RowFacts
<1>2. 0 * Cols <= y * Cols /\ (y + 1) * Cols <= Rows * Cols
  BY RowOrder, RowFacts
<1>3. 0 * Cols = 0
  BY <1>1
<1> QED  BY <1>1, <1>2, <1>3, CellFacts

-----------------------------------------------------------------------------
\* The console.

Glyphs == Letters \cup Chars \cup {BackSpace, NewLine, BootChar, Blank}

Screens == [x : Int, y : Int, cell : [CellNumbers -> Glyphs]]

\* The cursor moved, all or half of the way.
MovedTo(t, x, y) == [t EXCEPT !.x = x, !.y = y]

LEMMA PositionTyped ==
  ASSUME NEW t \in Screens
  PROVE  Position(t) \in Int
<1>1. t.x \in Int /\ t.y \in Int
  BY DEF Screens
<1>2. t.y * Cols \in Int
  BY <1>1, RowFacts
<1> QED  BY <1>1, <1>2 DEF Position

LEMMA MoveFacts ==
  ASSUME NEW t \in Screens, NEW x \in Int, NEW y \in Int
  PROVE  /\ MovedTo(t, x, y) \in Screens
         /\ MovedTo(t, x, y).x = x /\ MovedTo(t, x, y).y = y
         /\ MovedTo(t, x, y).cell = t.cell
  BY DEF Screens, MovedTo

MovedToColumn(t, x) == [t EXCEPT !.x = x]
MovedToRow(t, y) == [t EXCEPT !.y = y]

LEMMA MoveAxisFacts ==
  ASSUME NEW t \in Screens, NEW n \in Int
  PROVE  /\ MovedToColumn(t, n) \in Screens /\ MovedToRow(t, n) \in Screens
         /\ MovedToColumn(t, n).x = n /\ MovedToColumn(t, n).y = t.y
         /\ MovedToRow(t, n).x = t.x /\ MovedToRow(t, n).y = n
         /\ MovedToColumn(t, n).cell = t.cell /\ MovedToRow(t, n).cell = t.cell
  BY DEF Screens, MovedToColumn, MovedToRow

LEMMA DrawFacts ==
  ASSUME NEW t \in Screens, NEW x \in Int, NEW y \in Int, NEW c \in Glyphs
  PROVE  /\ draw(t, x, y, c) \in Screens
         /\ draw(t, x, y, c).x = t.x /\ draw(t, x, y, c).y = t.y
         /\ \A p \in CellNumbers :
              p # y * Cols + x => draw(t, x, y, c).cell[p] = t.cell[p]
         /\ x < Cols /\ y < Rows /\ y * Cols + x \in CellNumbers
              => draw(t, x, y, c).cell[y * Cols + x] = c
  BY DEF draw, Screens

LEMMA DrawMoves ==
  ASSUME NEW t \in Screens, NEW x, NEW y, NEW c
  PROVE  draw(t, x, y, c).x = t.x /\ draw(t, x, y, c).y = t.y
  BY DEF draw, Screens

LEMMA ScrollFacts ==
  ASSUME NEW t \in Screens
  PROVE  /\ scroll_up(t) \in Screens
         /\ scroll_up(t).x = t.x /\ scroll_up(t).y = t.y
         /\ \A p \in CellNumbers :
              scroll_up(t).cell[p] =
                IF p + Cols \in CellNumbers THEN t.cell[p + Cols] ELSE Blank
  BY DEF scroll_up, Screens, Glyphs

\* print_char moves the cursor on by one cell, or to the next line; what it
\* scrolls moves up by one row.
LEMMA PrintFacts ==
  ASSUME NEW t \in Screens, NEW c \in Glyphs
  PROVE  /\ print_char(t, c) \in Screens
         /\ print_char(t, c).x = IF c = NewLine THEN 0
                                 ELSE IF NeedsLine(t, c) THEN 1 ELSE t.x + 1
         /\ print_char(t, c).y = t.y + (IF NeedsLine(t, c) THEN 1 ELSE 0)
                                     - (IF Scrolled(t, c) THEN 1 ELSE 0)
         /\ Scrolled(t, c) <=> t.y + (IF NeedsLine(t, c) THEN 1 ELSE 0) >= Rows
         /\ \A p \in CellNumbers :
              c = NewLine \/ p # Position(print_char(t, c)) - 1
              => print_char(t, c).cell[p] =
                   IF ~Scrolled(t, c) THEN t.cell[p]
                   ELSE IF p + Cols \in CellNumbers THEN t.cell[p + Cols]
                   ELSE Blank
         /\ c # NewLine /\ print_char(t, c).y < Rows
            /\ Position(print_char(t, c)) - 1 \in CellNumbers
              => \/ print_char(t, c).x > Cols
                 \/ print_char(t, c).cell[Position(print_char(t, c)) - 1] = c
<1> DEFINE a == AdvanceLine(t, c)
           s == ScrollIntoView(a)
           u == DrawAndStep(s, c)
<1>1. Cols \in Nat \ {0} /\ Rows \in Nat \ {0} /\ t.x \in Int /\ t.y \in Int
  BY ConsoleAssumption DEF Screens
<1>2. /\ a \in Screens /\ a.cell = t.cell
      /\ a.x = IF NeedsLine(t, c) THEN 0 ELSE t.x
      /\ a.y = t.y + (IF NeedsLine(t, c) THEN 1 ELSE 0)
  <2>1. CASE NeedsLine(t, c)
    <3>1. a = MovedTo(t, 0, t.y + 1)
      BY <2>1 DEF AdvanceLine, MovedTo
    <3> HIDE DEF a
    <3>2. 0 \in Int /\ t.y + 1 \in Int
      BY <1>1
    <3>3. a \in Screens /\ a.x = 0 /\ a.y = t.y + 1 /\ a.cell = t.cell
      BY <3>1, <3>2, MoveFacts
    <3> QED  BY <2>1, <3>3
  <2>2. CASE ~NeedsLine(t, c)
    <3>1. a = t
      BY <2>2 DEF AdvanceLine
    <3> HIDE DEF a
    <3> QED  BY <1>1, <2>2, <3>1 DEF Screens
  <2> HIDE DEF a
  <2> QED  BY <2>1, <2>2
<1>3. Scrolled(t, c) <=> a.y >= Rows
  BY DEF Scrolled
<1> HIDE DEF a
<1>4. /\ s \in Screens /\ s.x = a.x
      /\ s.y = a.y - (IF a.y >= Rows THEN 1 ELSE 0)
      /\ \A p \in CellNumbers :
           s.cell[p] = IF ~(a.y >= Rows) THEN a.cell[p]
                       ELSE IF p + Cols \in CellNumbers THEN a.cell[p + Cols]
                       ELSE Blank
  <2>1. CASE a.y >= Rows
    <3>1. s = [scroll_up(a) EXCEPT !.y = a.y - 1]
      BY <2>1 DEF ScrollIntoView
    <3>2. a.y - 1 \in Int
      BY <1>2 DEF Screens
    <3> QED  BY <1>2, <2>1, <3>1, <3>2, ScrollFacts DEF Screens
  <2>2. CASE ~(a.y >= Rows)
    BY <1>1, <1>2, <2>2 DEF ScrollIntoView, Screens
  <2> QED  BY <2>1, <2>2
<1> HIDE DEF s
<1>5. CASE c = NewLine
  <2>1. u = s
    BY <1>5 DEF DrawAndStep
  <2>2. NeedsLine(t, c) /\ s.x = 0
    BY <1>2, <1>4, <1>5 DEF NeedsLine
  <2>3. print_char(t, c) = s
    BY <2>1 DEF print_char, s, a
  <2> QED  BY <1>1, <1>2, <1>3, <1>4, <1>5, <2>2, <2>3
<1>6. CASE c # NewLine
  <2> DEFINE d == draw(s, s.x, s.y, c)
  <2>1. s.x \in Int /\ s.y \in Int
    BY <1>4 DEF Screens
  <2>2. /\ d \in Screens /\ d.x = s.x /\ d.y = s.y
        /\ \A p \in CellNumbers : p # s.y * Cols + s.x => d.cell[p] = s.cell[p]
        /\ s.x < Cols /\ s.y < Rows /\ s.y * Cols + s.x \in CellNumbers
             => d.cell[s.y * Cols + s.x] = c
    BY <1>4, <2>1, DrawFacts
  <2> HIDE DEF d
  <2>3. u = [d EXCEPT !.x = s.x + 1]
    BY <1>6 DEF DrawAndStep, d
  <2>4. /\ u \in Screens /\ u.x = s.x + 1 /\ u.y = s.y /\ u.cell = d.cell
    BY <2>1, <2>2, <2>3 DEF Screens
  <2>5. print_char(t, c) = u
    BY DEF print_char, s, a
  <2> HIDE DEF u
  <2>6. Position(u) - 1 = s.y * Cols + s.x
    BY <1>1, <2>1, <2>4 DEF Position
  <2>7. u.x = IF NeedsLine(t, c) THEN 1 ELSE t.x + 1
    BY <1>1, <1>2, <1>4, <2>4
  <2>8. u.y = t.y + (IF NeedsLine(t, c) THEN 1 ELSE 0)
                  - (IF Scrolled(t, c) THEN 1 ELSE 0)
    BY <1>1, <1>2, <1>3, <1>4, <2>4
  <2>9. \A p \in CellNumbers :
          p # Position(u) - 1
          => u.cell[p] = IF ~Scrolled(t, c) THEN t.cell[p]
                         ELSE IF p + Cols \in CellNumbers THEN t.cell[p + Cols]
                         ELSE Blank
    BY <1>2, <1>3, <1>4, <2>2, <2>4, <2>6
  <2>10. u.y < Rows /\ Position(u) - 1 \in CellNumbers
           => u.x > Cols \/ u.cell[Position(u) - 1] = c
    BY <1>1, <2>1, <2>2, <2>4, <2>6
  <2> QED  BY <1>2, <1>3, <1>6, <2>4, <2>5, <2>7, <2>8, <2>9, <2>10
<1> QED  BY <1>5, <1>6

LEMMA EraseFacts ==
  ASSUME NEW t \in Screens, 0 <= t.x, 0 <= t.y
  PROVE  LET u == handle_backspace(t)
         IN /\ u \in Screens
            /\ u.x = IF t.x > 0 THEN t.x - 1 ELSE IF t.y > 0 THEN Cols - 1 ELSE 0
            /\ u.y = IF t.x = 0 /\ t.y > 0 THEN t.y - 1 ELSE t.y
            /\ t.x > 0 \/ t.y > 0 => Position(u) = Position(t) - 1
            /\ \A p \in CellNumbers : p # Position(u) => u.cell[p] = t.cell[p]
            /\ u.x < Cols /\ u.y < Rows /\ Position(u) \in CellNumbers
                 => u.cell[Position(u)] = Blank
<1> DEFINE b == StepBack(t)
           u == handle_backspace(t)
<1>1. Cols \in Nat \ {0} /\ Rows \in Nat \ {0} /\ t.x \in Int /\ t.y \in Int
  BY ConsoleAssumption DEF Screens
<1>2. /\ b \in Screens /\ b.cell = t.cell
      /\ b.x = IF t.x > 0 THEN t.x - 1 ELSE IF t.y > 0 THEN Cols - 1 ELSE 0
      /\ b.y = IF t.x = 0 /\ t.y > 0 THEN t.y - 1 ELSE t.y
  <2>1. CASE t.x = 0 /\ t.y > 0
    <3>1. b = MovedTo(t, Cols - 1, t.y - 1)
      BY <2>1 DEF StepBack, MovedTo
    <3> HIDE DEF b
    <3>2. Cols - 1 \in Int /\ t.y - 1 \in Int
      BY <1>1
    <3>3. b \in Screens /\ b.x = Cols - 1 /\ b.y = t.y - 1 /\ b.cell = t.cell
      BY <3>1, <3>2, MoveFacts
    <3> QED  BY <1>1, <2>1, <3>3
  <2>2. CASE ~(t.x = 0 /\ t.y > 0) /\ t.x > 0
    <3>1. b = [t EXCEPT !.x = t.x - 1]
      BY <2>2 DEF StepBack
    <3> HIDE DEF b
    <3> QED  BY <1>1, <2>2, <3>1 DEF Screens
  <2>3. CASE ~(t.x = 0 /\ t.y > 0) /\ ~(t.x > 0)
    <3>1. b = t
      BY <2>3 DEF StepBack
    <3> HIDE DEF b
    <3> QED  BY <1>1, <2>3, <3>1 DEF Screens
  <2> HIDE DEF b
  <2> QED  BY <2>1, <2>2, <2>3
<1>3. u = draw(b, b.x, b.y, Blank)
  BY DEF handle_backspace
<1> HIDE DEF b, u
<1>4. Blank \in Glyphs /\ b.x \in Int /\ b.y \in Int
  BY <1>2 DEF Glyphs, Screens
<1>5. /\ u \in Screens /\ u.x = b.x /\ u.y = b.y
      /\ \A p \in CellNumbers : p # b.y * Cols + b.x => u.cell[p] = b.cell[p]
      /\ b.x < Cols /\ b.y < Rows /\ b.y * Cols + b.x \in CellNumbers
           => u.cell[b.y * Cols + b.x] = Blank
  BY <1>2, <1>3, <1>4, DrawFacts
<1>6. Position(u) = b.y * Cols + b.x
  BY <1>5 DEF Position
<1>7. t.x > 0 \/ t.y > 0 => Position(u) = Position(t) - 1
  <2>1. (t.y - 1) * Cols = t.y * Cols - Cols /\ t.y * Cols \in Int
    BY <1>1, RowFacts
  <2> QED  BY <1>1, <1>2, <1>6, <2>1 DEF Position
<1> QED  BY <1>2, <1>5, <1>6, <1>7 DEF u

LEMMA EraseTyped ==
  ASSUME NEW t \in Screens
  PROVE  handle_backspace(t) \in Screens
<1> DEFINE b == StepBack(t)
<1>1. Cols - 1 \in Int /\ t.x - 1 \in Int /\ t.y - 1 \in Int
  BY ConsoleAssumption DEF Screens
<1>2. b \in {MovedTo(t, Cols - 1, t.y - 1), MovedToColumn(t, t.x - 1), t}
  BY DEF StepBack, MovedTo, MovedToColumn
<1>3. b \in Screens
  <2>1. MovedTo(t, Cols - 1, t.y - 1) \in Screens
    BY <1>1, MoveFacts
  <2>2. MovedToColumn(t, t.x - 1) \in Screens
    BY <1>1, MoveAxisFacts
  <2> QED  BY <1>2, <2>1, <2>2
<1>4. handle_backspace(t) = draw(b, b.x, b.y, Blank)
  BY DEF handle_backspace
<1>5. Blank \in Glyphs /\ b.x \in Int /\ b.y \in Int
  <2> HIDE DEF b
  <2> QED  BY <1>3 DEF Glyphs, Screens
<1> HIDE DEF b
<1> QED  BY <1>3, <1>4, <1>5, DrawFacts

-----------------------------------------------------------------------------
\* Types, and what the handler still has to print.

BootSteps ==
  {"next", "first column", "load row", "store row", "check row", "scroll",
   "load last row", "store last row", "load cursor row", "load cursor column",
   "draw", "load column", "store column", "cli"}

ShellType ==
  /\ term \in Screens
  /\ kbd \in Keys \cup {NoKey}
  /\ handler \in {"none", "echo", "command", "prompt", "waiting"}
  /\ todo \in Seq(Glyphs)
  /\ command_line \in [Slots -> Chars \cup {BackSpace, NUL}]
  /\ command_index \in Slots
  /\ boot \in BootSteps
  /\ char \in {BootChar, NewLine}
  /\ eax \in Int /\ ecx \in Int
  /\ prints \in 0..BootPrints
  /\ prompt_end \in Int /\ line_quiet \in BOOLEAN /\ torn \in BOOLEAN

\* An echo is the character that was put into the line last.
Echoing ==
  /\ handler = "none" => todo = << >>
  /\ handler = "echo" =>
       \/ todo = << >>
       \/ command_index > 0 /\ todo = <<command_line[command_index - 1]>>
  /\ handler = "prompt" => command_index = 0
  /\ handler = "waiting" => todo = << >>

LineInv == ShellType /\ Echoing /\ LineIsString

LEMMA KeyGlyphs ==
  /\ Chars \cup {BackSpace, NewLine, BootChar, Blank} \subseteq Glyphs
  /\ Prompt \in Seq(Glyphs)
  /\ \A out \in Outputs : <<NewLine>> \o out \in Seq(Glyphs)
  /\ NewLine \notin Chars \cup {BackSpace}
<1>1. Letters \cup {NewLine} \subseteq Glyphs
  BY DEF Glyphs
<1>2. Prompt \in Seq(Glyphs) /\ Outputs \subseteq Seq(Glyphs)
  BY <1>1, ShellAssumption, SeqMonotonic
<1>3. <<NewLine>> \in Seq(Glyphs)
  BY <1>1
<1>4. \A out \in Outputs : <<NewLine>> \o out \in Seq(Glyphs)
  BY <1>2, <1>3, ConcatProperties
<1>5. NewLine \notin Chars /\ NewLine # BackSpace
  BY ShellAssumption DEF NewLine, BackSpace
<1> QED  BY <1>2, <1>4, <1>5 DEF Glyphs

LEMMA SlotFacts ==
  /\ Slots = 0..(LineSize - 1) /\ LineSize \in Nat \ {0}
  /\ \A i \in Slots : i \in Nat /\ i < LineSize
  BY ShellAssumption DEF Slots

LEMMA InitLine ==
  ASSUME Init
  PROVE  LineInv
<1>1. ClearScreen \in Screens
  BY DEF ClearScreen, Screens, Glyphs
<1>2. ShellType
  <2>1. term \in Screens /\ kbd \in Keys \cup {NoKey} /\ handler = "none"
        /\ todo = << >> /\ boot = "next" /\ char = BootChar /\ eax = 0 /\ ecx = 0
        /\ prints = 0 /\ prompt_end = 0 /\ command_index = 0
        /\ line_quiet = TRUE /\ torn = FALSE
    BY <1>1 DEF Init
  <2>2. 0 \in Slots /\ 0 \in 0..BootPrints
    BY SlotFacts, ShellAssumption
  <2>3. command_line \in [Slots -> Chars \cup {BackSpace, NUL}]
    BY DEF Init, EmptyLine
  <2> QED  BY <2>1, <2>2, <2>3 DEF ShellType, BootSteps
<1>3. Echoing
  BY DEF Init, Echoing
<1>4. LineIsString
  BY SlotFacts DEF Init, LineIsString, EmptyLine
<1> QED  BY <1>2, <1>3, <1>4 DEF LineInv

\* What the steps of the boot thread leave alone.
LEMMA BootKeepsLine ==
  ASSUME BootThread
  PROVE  /\ handler = "none"
         /\ UNCHANGED <<kbd, handler, todo, command_line, command_index>>
  BY DEF BootThread, BootCall, BootFirstColumn, BootLoadRow, BootStoreRow,
         BootCheckRow, BootScroll, BootLoadLastRow, BootStoreLastRow,
         BootLoadCursorRow, BootLoadCursorColumn, BootDraw, BootLoadColumn,
         BootStoreColumn, BootCli, Step, lineVars

LEMMA BootTypeFacts ==
  ASSUME ShellType
  PROVE  /\ term \in Screens /\ term.x \in Int /\ term.y \in Int
         /\ eax \in Int /\ ecx \in Int /\ char \in Glyphs
         /\ eax + 1 \in Int /\ eax - 1 \in Int /\ prompt_end - Cols \in Int
  BY ConsoleAssumption DEF ShellType, Screens, Glyphs

\* The boot thread moves the cursor, scrolls and draws, one access at a time.
LEMMA BootTerm ==
  ASSUME ShellType, BootThread
  PROVE  term' \in {term, MovedToColumn(term, 0), MovedToRow(term, eax + 1),
                    scroll_up(term), MovedToRow(term, eax - 1),
                    draw(term, ecx, eax, char), MovedToColumn(term, eax + 1)}
  BY DEF BootThread, BootCall, BootFirstColumn, BootLoadRow, BootStoreRow,
         BootCheckRow, BootScroll, BootLoadLastRow, BootStoreLastRow,
         BootLoadCursorRow, BootLoadCursorColumn, BootDraw, BootLoadColumn,
         BootStoreColumn, BootCli, MovedToColumn, MovedToRow

LEMMA BootKeepsTypes ==
  ASSUME ShellType, BootThread
  PROVE  ShellType'
<1>1. term' \in Screens
  <2>1. /\ MovedToColumn(term, 0) \in Screens
        /\ MovedToRow(term, eax + 1) \in Screens
        /\ MovedToRow(term, eax - 1) \in Screens
        /\ MovedToColumn(term, eax + 1) \in Screens
    BY BootTypeFacts, MoveAxisFacts
  <2>2. scroll_up(term) \in Screens /\ draw(term, ecx, eax, char) \in Screens
    BY BootTypeFacts, ScrollFacts, DrawFacts
  <2> QED  BY <2>1, <2>2, BootTerm, BootTypeFacts
<1>2. boot' \in BootSteps /\ char' \in {BootChar, NewLine}
  BY DEF BootThread, BootCall, BootFirstColumn, BootLoadRow, BootStoreRow,
         BootCheckRow, BootScroll, BootLoadLastRow, BootStoreLastRow,
         BootLoadCursorRow, BootLoadCursorColumn, BootDraw, BootLoadColumn,
         BootStoreColumn, BootCli, Step, BootSteps, ShellType
<1>3. eax' \in Int /\ ecx' \in Int /\ prompt_end' \in Int
  BY BootTypeFacts
     DEF BootThread, BootCall, BootFirstColumn, BootLoadRow, BootStoreRow,
         BootCheckRow, BootScroll, BootLoadLastRow, BootStoreLastRow,
         BootLoadCursorRow, BootLoadCursorColumn, BootDraw, BootLoadColumn,
         BootStoreColumn, BootCli, Step, ShellType
<1>4. prints' \in 0..BootPrints
  <2>1. prints' = prints \/ (prints < BootPrints /\ prints' = prints + 1)
    BY DEF BootThread, BootCall, BootFirstColumn, BootLoadRow, BootStoreRow,
           BootCheckRow, BootScroll, BootLoadLastRow, BootStoreLastRow,
           BootLoadCursorRow, BootLoadCursorColumn, BootDraw, BootLoadColumn,
           BootStoreColumn, BootCli, Step
  <2>2. prints \in 0..BootPrints /\ BootPrints \in Nat
    BY ShellAssumption DEF ShellType
  <2> QED  BY <2>1, <2>2
<1>5. line_quiet' \in BOOLEAN /\ torn' \in BOOLEAN
  BY DEF BootThread, BootCall, BootFirstColumn, BootLoadRow, BootStoreRow,
         BootCheckRow, BootScroll, BootLoadLastRow, BootStoreLastRow,
         BootLoadCursorRow, BootLoadCursorColumn, BootDraw, BootLoadColumn,
         BootStoreColumn, BootCli, Step, ShellType
<1> QED  BY <1>1, <1>2, <1>3, <1>4, <1>5, BootKeepsLine DEF ShellType

\* The character KbPrint prints, and what is left to print.
LEMMA PrintStep ==
  ASSUME ShellType, KbPrint
  PROVE  /\ todo # << >> /\ Head(todo) \in Glyphs /\ Tail(todo) \in Seq(Glyphs)
         /\ Len(todo) \in Nat \ {0} /\ Head(todo) = todo[1]
         /\ Tail(todo) = << >> <=> Len(todo) = 1
<1>1. todo \in Seq(Glyphs) /\ todo # << >>
  BY DEF ShellType, KbPrint
<1>2. Tail(todo) \in Seq(Glyphs) /\ Len(Tail(todo)) = Len(todo) - 1
      /\ Head(todo) \in Glyphs /\ Len(todo) \in Nat \ {0} /\ Head(todo) = todo[1]
  BY <1>1, HeadTailProperties, EmptySeq, LenProperties
<1>3. Tail(todo) = << >> <=> Len(Tail(todo)) = 0
  BY <1>2, EmptySeq
<1> QED  BY <1>1, <1>2, <1>3

\* An echo is one printable character, the last one of the line.
LEMMA EchoFacts ==
  ASSUME LineInv, handler = "echo", todo # << >>
  PROVE  /\ command_index \in Nat \ {0} /\ command_index - 1 \in Slots
         /\ todo = <<command_line[command_index - 1]>>
         /\ Head(todo) = command_line[command_index - 1] /\ Tail(todo) = << >>
         /\ Head(todo) \in Chars \cup {BackSpace} /\ Head(todo) # NewLine
<1>1. command_index > 0 /\ todo = <<command_line[command_index - 1]>>
  BY DEF LineInv, Echoing
<1>2. command_index \in Nat \ {0} /\ command_index - 1 \in Slots
  BY <1>1, SlotFacts DEF LineInv, ShellType
<1>3. command_line[command_index - 1] # NUL
  BY <1>2 DEF LineInv, LineIsString
<1>4. command_line[command_index - 1] \in Chars \cup {BackSpace}
  BY <1>2, <1>3 DEF LineInv, ShellType
<1>5. Head(todo) = command_line[command_index - 1] /\ Tail(todo) = << >>
  BY <1>1
<1> QED  BY <1>1, <1>2, <1>4, <1>5, KeyGlyphs

LEMMA HandlerKeepsLine ==
  ASSUME LineInv, KbHandler
  PROVE  LineInv'
<1>1. ShellType /\ Echoing /\ LineIsString
  BY DEF LineInv
<1>2. LineSize \in Nat \ {0} /\ Slots = 0..(LineSize - 1)
      /\ command_index \in Slots /\ command_index \in Nat
  BY <1>1, SlotFacts DEF ShellType
<1>10. line_quiet' \in BOOLEAN /\ torn' \in BOOLEAN
  <2>1. line_quiet' = line_quiet \/ line_quiet' = Outside
    BY DEF KbHandler, KbErase, KbCommand, KbAppend, KbIgnore, KbPrint, KbWait,
           KbPrompt, KbReturn, Enter, historyVars
  <2>2. torn' = torn \/ torn' = (torn \/ ~Outside)
    BY DEF KbHandler, KbErase, KbCommand, KbAppend, KbIgnore, KbPrint, KbWait,
           KbPrompt, KbReturn, Enter, historyVars
  <2>3. Outside \in BOOLEAN /\ (torn \/ ~Outside) \in BOOLEAN
    BY DEF Outside
  <2> QED  BY <1>1, <2>1, <2>2, <2>3 DEF ShellType
<1>3. CASE KbErase
  <2>1. /\ command_index > 0 /\ command_index' = command_index - 1
        /\ command_line' = [command_line EXCEPT ![command_index - 1] = NUL]
        /\ handler' = "echo" /\ todo' = << >> /\ todo' = todo
        /\ term' = handle_backspace(term) /\ kbd' = NoKey
        /\ UNCHANGED <<boot, char, eax, ecx, prints, prompt_end>>
    BY <1>1, <1>3 DEF KbErase, Enter, Erases, Echoing, bootVars
  <2>2. command_index - 1 \in Slots
    BY <1>2, <2>1
  <2>3. term' \in Screens
    BY <1>1, <2>1, EraseTyped DEF ShellType
  <2>4. ShellType'
    BY <1>1, <1>10, <2>1, <2>2, <2>3 DEF ShellType
  <2>5. LineIsString'
    BY <1>1, <1>2, <2>1, <2>2 DEF LineIsString, ShellType
  <2> QED  BY <2>1, <2>4, <2>5 DEF LineInv, Echoing
<1>4. CASE KbCommand
  <2>1. /\ handler' = "command" /\ kbd' = NoKey
        /\ \E out \in Outputs : todo' = <<NewLine>> \o out
        /\ UNCHANGED <<term, command_line, command_index, prompt_end,
                       boot, char, eax, ecx, prints>>
    BY <1>4 DEF KbCommand, Enter, bootVars, lineVars, execute_command
  <2>2. todo' \in Seq(Glyphs)
    BY <2>1, KeyGlyphs
  <2>3. ShellType' /\ LineIsString'
    BY <1>1, <1>10, <2>1, <2>2 DEF ShellType, LineIsString
  <2> QED  BY <2>1, <2>3 DEF LineInv, Echoing
<1>5. CASE KbAppend
  <2>1. /\ kbd \in Chars \cup {BackSpace} /\ command_index < LineSize - 1
        /\ command_line' = [command_line EXCEPT ![command_index] = kbd]
        /\ command_index' = command_index + 1
        /\ handler' = "echo" /\ kbd' = NoKey /\ todo' = <<kbd>>
        /\ UNCHANGED <<term, prompt_end, boot, char, eax, ecx, prints>>
    BY <1>5 DEF KbAppend, Enter, Fits, bootVars
  <2>2. command_index + 1 \in Slots /\ kbd # NUL /\ kbd \in Glyphs
    BY <1>2, <2>1, ShellAssumption DEF Glyphs
  <2>3. ShellType'
    <3>1. todo' \in Seq(Glyphs)
      BY <2>1, <2>2
    <3> QED  BY <1>1, <1>10, <2>1, <2>2, <3>1 DEF ShellType
  <2>4. LineIsString'
    BY <1>1, <1>2, <2>1, <2>2 DEF LineIsString, ShellType
  <2>5. command_index' > 0 /\ command_line'[command_index' - 1] = kbd
    BY <1>1, <1>2, <2>1 DEF ShellType
  <2> QED  BY <2>1, <2>3, <2>4, <2>5 DEF LineInv, Echoing
<1>6. CASE KbIgnore
  <2>1. /\ handler' = "echo" /\ kbd' = NoKey /\ todo = << >>
        /\ UNCHANGED <<term, todo, command_line, command_index, prompt_end,
                       boot, char, eax, ecx, prints>>
    BY <1>1, <1>6 DEF KbIgnore, Enter, bootVars, lineVars, Echoing
  <2>2. ShellType' /\ LineIsString'
    BY <1>1, <1>10, <2>1 DEF ShellType, LineIsString
  <2> QED  BY <2>1, <2>2 DEF LineInv, Echoing
<1>7. CASE KbPrint
  <2>1. /\ todo # << >> /\ term' = print_char(term, Head(todo))
        /\ prompt_end' \in {prompt_end, prompt_end - Cols} /\ todo' = Tail(todo)
        /\ UNCHANGED <<kbd, handler, command_line, command_index,
                       boot, char, eax, ecx, prints>>
    BY <1>7 DEF KbPrint, PromptAfter, bootVars, lineVars
  <2>2. Head(todo) \in Glyphs /\ Tail(todo) \in Seq(Glyphs)
    BY <1>1, <1>7, PrintStep
  <2>3. term' \in Screens
    BY <1>1, <2>1, <2>2, PrintFacts DEF ShellType
  <2>4. ShellType' /\ LineIsString'
    BY <1>1, <1>10, <2>1, <2>2, <2>3, BootTypeFacts DEF ShellType, LineIsString
  <2>5. handler = "echo" => todo' = << >>
    BY <2>1, EchoFacts
  <2> QED  BY <1>1, <2>1, <2>4, <2>5 DEF LineInv, Echoing
<1>8. CASE KbPrompt
  <2>1. /\ command_index' = 0 /\ command_line' = EmptyLine
        /\ handler' = "prompt" /\ todo' = Prompt
        /\ UNCHANGED <<term, kbd, prompt_end, boot, char, eax, ecx, prints>>
    BY <1>8 DEF KbPrompt, Cleared, print_prompt, bootVars, historyVars
  <2>2. 0 \in Slots /\ command_line' \in [Slots -> Chars \cup {BackSpace, NUL}]
    BY <1>2, <2>1 DEF EmptyLine
  <2>3. ShellType'
    BY <1>1, <1>10, <2>1, <2>2, KeyGlyphs DEF ShellType
  <2>4. LineIsString'
    BY <1>2, <2>1 DEF LineIsString, EmptyLine
  <2> QED  BY <2>1, <2>3, <2>4 DEF LineInv, Echoing
<1>9. CASE KbReturn
  <2>1. /\ handler' = "none" /\ todo = << >> /\ prompt_end' \in {prompt_end, Position(term)}
        /\ UNCHANGED <<term, kbd, todo, command_line, command_index,
                       boot, char, eax, ecx, prints>>
    BY <1>9 DEF KbReturn, EndOfInterrupt, bootVars, lineVars
  <2>2. Position(term) \in Int
    BY <1>1, PositionTyped DEF ShellType
  <2>3. ShellType' /\ LineIsString'
    BY <1>1, <1>10, <2>1, <2>2 DEF ShellType, LineIsString
  <2> QED  BY <2>1, <2>3 DEF LineInv, Echoing
<1>11. CASE KbWait
  <2>1. /\ handler' = "waiting" /\ todo = << >>
        /\ UNCHANGED <<term, kbd, todo, command_line, command_index, prompt_end,
                       boot, char, eax, ecx, prints>>
    BY <1>11 DEF KbWait, bootVars, lineVars, historyVars
  <2>2. ShellType' /\ LineIsString'
    BY <1>1, <1>10, <2>1 DEF ShellType, LineIsString
  <2> QED  BY <2>1, <2>2 DEF LineInv, Echoing
<1> QED  BY <1>3, <1>4, <1>5, <1>6, <1>7, <1>8, <1>9, <1>11 DEF KbHandler

LEMMA NextLine ==
  ASSUME LineInv, [Next]_vars
  PROVE  LineInv'
<1>1. CASE \E key \in Keys : KeyPress(key)
  BY <1>1 DEF KeyPress, LineInv, ShellType, Echoing, LineIsString, lineVars,
              bootVars, historyVars
<1>2. CASE BootThread
  BY <1>2, BootKeepsTypes, BootKeepsLine DEF LineInv, Echoing, LineIsString
<1>3. CASE UNCHANGED vars
  BY <1>3 DEF vars, LineInv, ShellType, Echoing, LineIsString, lineVars, bootVars
<1> QED  BY <1>1, <1>2, <1>3, HandlerKeepsLine DEF Next

LEMMA LineInvariant == Spec => []LineInv
<1>1. Init => LineInv
  BY InitLine
<1>2. LineInv /\ [Next]_vars => LineInv'
  BY NextLine
<1> QED  BY <1>1, <1>2, PTL DEF Spec

\* The shell keeps its types, with keys at any moment of the boot thread
\* (shell.c:124-180).
THEOREM ShellTypeCorrect == Spec => []TypeOK
<1>1. LineInv => TypeOK
  BY DEF LineInv, ShellType, TypeOK, Screens
<1> QED  BY <1>1, LineInvariant, PTL

\* execute_command always gets a string that ends inside the buffer
\* (shell.c:128-151).
THEOREM LineStaysString == Spec => []LineIsString
<1>1. LineInv => LineIsString
  BY DEF LineInv
<1> QED  BY <1>1, LineInvariant, PTL

-----------------------------------------------------------------------------
(***************************************************************************)
(* The cursor.  The handler may run between any two steps below, so each   *)
(* clause holds from the boot thread's load or test to its next store.     *)
(***************************************************************************)

\* Where the boot thread may see the row below the screen.
HighSteps == {"check row", "scroll", "load last row", "store last row"}

\* A cell that the line reaches at least while the boot thread scrolls.
Base == (Rows - 1) * Cols - LineSize + 2

\* The key that is in the line but not yet on the screen.
Pending == IF handler = "echo" /\ todo # << >> THEN 1 ELSE 0

FarEnoughDown ==
  /\ term.y >= 1
  /\ handler \in {"command", "waiting"} => Position(term) >= Base
  /\ handler \notin {"command", "waiting"} =>
       Position(term) + Pending >= Base + command_index

\* The cursor, and the copy of it in r, at a step of the boot thread.
InBounds(x, y, step, r) ==
  /\ 0 <= x /\ x <= Cols + 1
  /\ 0 <= y /\ y <= Rows
  /\ step \notin {"next", "first column", "cli"} => x <= Cols
  /\ step \notin HighSteps => y <= Rows - 1
  /\ step = "store row" => 0 <= r /\ r <= Rows - 1
  /\ step = "store last row" => 1 <= r /\ r <= Rows
  /\ step = "store column" => 0 <= r /\ r <= Cols

CursorInv ==
  /\ InBounds(term.x, term.y, boot, eax)
  /\ boot \in {"scroll", "load last row"} => FarEnoughDown

LEMMA CursorConstants ==
  ASSUME LineFits
  PROVE  /\ Cols \in Nat \ {0} /\ Rows \in Nat /\ Rows >= 2 /\ LineSize \in Nat
         /\ (Rows - 1) * Cols \in Int /\ Rows * Cols = (Rows - 1) * Cols + Cols
         /\ Base \in Int /\ Base >= Cols
         /\ (Rows - 1) * Cols >= Base
         /\ \A i \in Slots : (Rows - 1) * Cols + 1 >= Base + i
<1>1. /\ Cols \in Nat \ {0} /\ Rows \in Nat /\ LineSize \in Nat /\ Rows >= 2
      /\ LineSize >= 2 /\ LineSize <= (Rows - 2) * Cols + 2
  BY ConsoleAssumption, ShellAssumption DEF LineFits
<1>2. (Rows - 1) * Cols \in Int /\ (Rows - 2) * Cols \in Int
      /\ (Rows - 1) * Cols = Rows * Cols - Cols
      /\ (Rows - 2) * Cols = Rows * Cols - Cols - Cols /\ Rows * Cols \in Int
  BY <1>1, RowFacts
<1>3. Base \in Int /\ Base >= Cols /\ (Rows - 1) * Cols >= Base
  BY <1>1, <1>2 DEF Base
<1>4. \A i \in Slots : (Rows - 1) * Cols + 1 >= Base + i
  BY <1>1, <1>2, SlotFacts DEF Base
<1> QED  BY <1>1, <1>2, <1>3, <1>4

LEMMA PrintMoves ==
  ASSUME NEW t \in Screens, NEW c \in Glyphs,
         0 <= t.x, t.x <= Cols + 1, 0 <= t.y, t.y <= Rows
  PROVE  LET u == print_char(t, c)
         IN /\ 0 <= u.x /\ u.x <= Cols /\ 0 <= u.y /\ u.y <= Rows
            /\ t.y <= Rows - 1 => u.y <= Rows - 1
            /\ t.y >= 1 /\ Rows >= 2 => u.y >= 1
            /\ t.x <= Cols =>
                 \/ Position(u) >= Position(t)
                 \/ Position(u) >= (Rows - 1) * Cols
            /\ t.x <= Cols /\ ~Scrolled(t, c) => Position(u) >= Position(t)
            /\ t.x <= Cols /\ Scrolled(t, c) => Position(u) + Cols >= Position(t)
            /\ t.x <= Cols /\ c # NewLine =>
                 \/ ~Scrolled(t, c) /\ Position(u) = Position(t) + 1
                 \/ /\ Scrolled(t, c) /\ Position(u) = Position(t) + 1 - Cols
                    /\ Position(u) >= (Rows - 1) * Cols + 1
<1> DEFINE u == print_char(t, c)
<1>1. Cols \in Nat \ {0} /\ Rows \in Nat \ {0} /\ t.x \in Int /\ t.y \in Int
  BY ConsoleAssumption DEF Screens
<1>2. /\ u \in Screens
      /\ u.x = IF c = NewLine THEN 0 ELSE IF NeedsLine(t, c) THEN 1 ELSE t.x + 1
      /\ u.y = t.y + (IF NeedsLine(t, c) THEN 1 ELSE 0)
                   - (IF Scrolled(t, c) THEN 1 ELSE 0)
      /\ Scrolled(t, c) <=> t.y + (IF NeedsLine(t, c) THEN 1 ELSE 0) >= Rows
  BY PrintFacts
<1> HIDE DEF u
<1>3. NeedsLine(t, c) <=> c = NewLine \/ t.x >= Cols
  BY DEF NeedsLine
<1>4. /\ 0 <= u.x /\ u.x <= Cols /\ 0 <= u.y /\ u.y <= Rows
      /\ t.y <= Rows - 1 => u.y <= Rows - 1
      /\ t.y >= 1 /\ Rows >= 2 => u.y >= 1
  BY <1>1, <1>2, <1>3
<1>5. /\ Position(t) = t.y * Cols + t.x /\ Position(u) = u.y * Cols + u.x
      /\ t.y * Cols \in Int /\ u.y * Cols \in Int /\ u.x \in Int /\ u.y \in Int
      /\ (t.y + 1) * Cols = t.y * Cols + Cols
      /\ (t.y - 1) * Cols = t.y * Cols - Cols
      /\ (Rows - 1) * Cols \in Int
  BY <1>1, <1>2, RowFacts DEF Position, Screens
<1>6. Scrolled(t, c) => u.y >= Rows - 1 /\ u.y * Cols >= (Rows - 1) * Cols
  BY <1>1, <1>2, RowOrder DEF Screens
<1>7. u.y * Cols = t.y * Cols + (IF NeedsLine(t, c) THEN Cols ELSE 0)
                              - (IF Scrolled(t, c) THEN Cols ELSE 0)
  <2>1. /\ u.y = t.y => u.y * Cols = t.y * Cols
        /\ u.y = t.y + 1 => u.y * Cols = t.y * Cols + Cols
        /\ u.y = t.y - 1 => u.y * Cols = t.y * Cols - Cols
    BY <1>5
  <2>2. /\ NeedsLine(t, c) /\ Scrolled(t, c) => u.y = t.y
        /\ NeedsLine(t, c) /\ ~Scrolled(t, c) => u.y = t.y + 1
        /\ ~NeedsLine(t, c) /\ Scrolled(t, c) => u.y = t.y - 1
        /\ ~NeedsLine(t, c) /\ ~Scrolled(t, c) => u.y = t.y
    BY <1>1, <1>2
  <2> QED  BY <1>1, <1>5, <2>1, <2>2
<1>8. t.x <= Cols => \/ Position(u) >= Position(t)
                     \/ Position(u) >= (Rows - 1) * Cols
  BY <1>1, <1>2, <1>3, <1>4, <1>5, <1>6, <1>7
<1>9. t.x <= Cols /\ c # NewLine =>
        \/ ~Scrolled(t, c) /\ Position(u) = Position(t) + 1
        \/ /\ Scrolled(t, c) /\ Position(u) = Position(t) + 1 - Cols
           /\ Position(u) >= (Rows - 1) * Cols + 1
  BY <1>1, <1>2, <1>3, <1>4, <1>5, <1>6, <1>7
<1>10. /\ t.x <= Cols /\ ~Scrolled(t, c) => Position(u) >= Position(t)
       /\ t.x <= Cols /\ Scrolled(t, c) => Position(u) + Cols >= Position(t)
  BY <1>1, <1>2, <1>3, <1>5, <1>7
<1> QED  BY <1>4, <1>8, <1>9, <1>10 DEF u

LEMMA EraseMoves ==
  ASSUME NEW t \in Screens, 0 <= t.x, t.x <= Cols + 1, 0 <= t.y, t.y <= Rows
  PROVE  LET u == handle_backspace(t)
         IN /\ 0 <= u.x /\ u.x <= Cols /\ 0 <= u.y /\ u.y <= t.y
            /\ Position(t) >= Cols + 1 /\ t.y >= 1 =>
                 u.y >= 1 /\ Position(u) = Position(t) - 1
<1> DEFINE u == handle_backspace(t)
<1>1. Cols \in Nat \ {0} /\ Rows \in Nat \ {0} /\ t.x \in Int /\ t.y \in Int
  BY ConsoleAssumption DEF Screens
<1>2. /\ u \in Screens
      /\ u.x = IF t.x > 0 THEN t.x - 1 ELSE IF t.y > 0 THEN Cols - 1 ELSE 0
      /\ u.y = IF t.x = 0 /\ t.y > 0 THEN t.y - 1 ELSE t.y
      /\ t.x > 0 \/ t.y > 0 => Position(u) = Position(t) - 1
  BY EraseFacts
<1> HIDE DEF u
<1>3. t.x = 0 /\ t.y = 1 => Position(t) = Cols
  BY <1>1 DEF Position
<1> QED  BY <1>1, <1>2, <1>3 DEF u

LEMMA InitCursor ==
  ASSUME LineFits, Init
  PROVE  CursorInv
<1>1. term.x = 0 /\ term.y = 0 /\ boot = "next"
  BY DEF Init, ClearScreen
<1> QED  BY <1>1, CursorConstants DEF CursorInv, InBounds, HighSteps

\* The handler leaves the cursor within the bounds of the boot thread's step.
LEMMA HandlerKeepsCursor ==
  ASSUME LineFits, LineInv, CursorInv, KbHandler
  PROVE  CursorInv'
<1> DEFINE Near(t) ==
             /\ 0 <= t.x /\ t.x <= Cols + 1 /\ 0 <= t.y /\ t.y <= Rows
             /\ term.x <= Cols => t.x <= Cols
             /\ term.y <= Rows - 1 => t.y <= Rows - 1
           InScroll == boot \in {"scroll", "load last row"}
<1>1. boot' = boot /\ eax' = eax
  BY DEF KbHandler, KbErase, KbCommand, KbAppend, KbIgnore, KbPrint, KbWait,
         KbPrompt, KbReturn, Enter, bootVars
<1>2. term \in Screens /\ ShellType /\ Echoing /\ command_index \in Slots
      /\ command_index \in Nat /\ Position(term) \in Int
  BY SlotFacts, PositionTyped DEF LineInv, ShellType
<1>3. Near(term)
  BY <1>2 DEF CursorInv, InBounds, Screens
<1>4. SUFFICES Near(term') /\ (InScroll => FarEnoughDown')
  BY <1>1, <1>2, CursorConstants DEF CursorInv, InBounds, Screens
<1>5. InScroll => FarEnoughDown /\ term.x <= Cols
  BY DEF CursorInv, InBounds
<1>6. CASE KbErase
  <2>1. /\ handler = "none" /\ todo = << >> /\ handler' = "echo" /\ todo' = << >>
        /\ command_index' = command_index - 1 /\ command_index > 0
        /\ term' = handle_backspace(term)
    BY <1>2, <1>6 DEF KbErase, Enter, Erases, Echoing
  <2>2. /\ 0 <= term'.x /\ term'.x <= Cols /\ 0 <= term'.y /\ term'.y <= term.y
        /\ Position(term) >= Cols + 1 /\ term.y >= 1 =>
             term'.y >= 1 /\ Position(term') = Position(term) - 1
    BY <1>2, <1>3, <2>1, EraseMoves
  <2>3. Near(term')
    <3>1. term' \in Screens
      BY <1>2, <2>1, EraseTyped
    <3> QED  BY <1>2, <1>3, <2>2, <3>1, CursorConstants DEF Screens
  <2>4. ASSUME InScroll
        PROVE  FarEnoughDown'
    <3>1. term.y >= 1 /\ Position(term) >= Base + command_index
      <4>1. Pending = 0
        BY <2>1 DEF Pending
      <4>2. term.y >= 1 /\ Position(term) + Pending >= Base + command_index
        BY <1>5, <2>1, <2>4 DEF FarEnoughDown
      <4> QED  BY <1>2, <4>1, <4>2
    <3>2. Position(term) >= Cols + 1
      BY SMTT(20), <1>2, <2>1, <3>1, CursorConstants
    <3>3. Position(term)' = Position(term') /\ Pending' = 0
      BY <2>1 DEF Position, Pending
    <3>4. Position(term') + 0 >= Base + (command_index - 1)
      BY <1>2, <2>2, <3>1, <3>2, CursorConstants
    <3> QED  BY <2>1, <2>2, <3>1, <3>2, <3>3, <3>4 DEF FarEnoughDown, Base
  <2> QED  BY <2>3, <2>4
<1>7. CASE KbPrint
  <2> DEFINE c == Head(todo)
  <2>1. /\ todo # << >> /\ c \in Glyphs /\ term' = print_char(term, c)
        /\ todo' = Tail(todo) /\ handler' = handler /\ command_index' = command_index
    BY <1>2, <1>7, PrintStep DEF KbPrint, lineVars
  <2> HIDE DEF c
  <2>2. /\ 0 <= term'.x /\ term'.x <= Cols /\ 0 <= term'.y /\ term'.y <= Rows
        /\ term.y <= Rows - 1 => term'.y <= Rows - 1
        /\ term.y >= 1 => term'.y >= 1
        /\ term.x <= Cols => \/ Position(term') >= Position(term)
                             \/ Position(term') >= (Rows - 1) * Cols
        /\ term.x <= Cols /\ c # NewLine =>
             \/ Position(term') = Position(term) + 1
             \/ Position(term') >= (Rows - 1) * Cols + 1
    BY <1>2, <1>3, <2>1, PrintMoves, CursorConstants
  <2>3. term' \in Screens
    BY <1>2, <2>1, PrintFacts
  <2>4. Near(term')
    BY <1>2, <1>3, <2>2, <2>3, CursorConstants DEF Screens
  <2>5. ASSUME InScroll
        PROVE  FarEnoughDown'
    <3>1. Position(term)' = Position(term') /\ Position(term') \in Int
      BY <2>3, PositionTyped DEF Position
    <3>2. FarEnoughDown /\ term.x <= Cols
      BY <1>5, <2>5
    <3>3. CASE handler = "echo"
      <4>1. c # NewLine /\ todo' = << >>
        BY <2>1, <3>3, EchoFacts DEF c
      <4>2. Position(term) + 1 >= Base + command_index
        BY <2>1, <3>2, <3>3 DEF FarEnoughDown, Pending
      <4>3. (Rows - 1) * Cols + 1 >= Base + command_index
        BY <1>2, CursorConstants
      <4>4. Position(term') + 0 >= Base + command_index
        BY SMTT(20), <1>2, <2>2, <3>1, <3>2, <4>1, <4>2, <4>3, CursorConstants
      <4>5. Pending' = 0
        BY <4>1 DEF Pending
      <4> QED  BY <2>1, <2>2, <3>1, <3>2, <3>3, <4>4, <4>5 DEF FarEnoughDown, Base
    <3>4. CASE handler = "command"
      <4>1. Position(term') >= Base
        BY <1>2, <2>2, <3>1, <3>2, <3>4, CursorConstants DEF FarEnoughDown
      <4> QED  BY <2>1, <2>2, <3>1, <3>2, <3>4, <4>1 DEF FarEnoughDown, Base
    <3>5. CASE handler = "prompt"
      <4>1. command_index = 0 /\ Pending = 0
        BY <1>2, <3>5 DEF Echoing, Pending
      <4>2. Position(term') >= Base
        BY <1>2, <2>2, <3>1, <3>2, <3>5, <4>1, CursorConstants DEF FarEnoughDown
      <4>3. Pending' = 0 /\ command_index' = 0
        BY <2>1, <3>5, <4>1 DEF Pending
      <4> QED  BY <2>1, <2>2, <3>1, <3>2, <3>5, <4>2, <4>3, CursorConstants
               DEF FarEnoughDown, Base
    <3> QED  BY <1>2, <2>1, <3>3, <3>4, <3>5 DEF Echoing, ShellType
  <2> QED  BY <2>4, <2>5
<1>8. CASE KbCommand \/ KbAppend \/ KbIgnore \/ KbWait \/ KbPrompt \/ KbReturn
  <2>1. term' = term
    BY <1>8 DEF KbCommand, KbAppend, KbIgnore, KbWait, KbPrompt, KbReturn
  <2>2. Position(term)' = Position(term)
    BY <2>1 DEF Position
  <2>3. ASSUME InScroll
        PROVE  FarEnoughDown'
    <3>1. FarEnoughDown /\ term'.y >= 1
      BY <1>5, <2>1, <2>3 DEF FarEnoughDown
    <3>2. CASE KbCommand
      <4>1. handler = "none" /\ todo = << >> /\ handler' = "command"
        BY <1>2, <3>2 DEF KbCommand, Enter, Echoing
      <4>2. Position(term) >= Base
        BY SMTT(20), <1>2, <3>1, <4>1, CursorConstants DEF FarEnoughDown, Pending
      <4> QED  BY <2>2, <3>1, <4>1, <4>2 DEF FarEnoughDown, Base
    <3>3. CASE KbAppend
      <4>1. handler = "none" /\ todo = << >> /\ handler' = "echo"
            /\ command_index' = command_index + 1 /\ todo' = <<kbd>>
        BY <1>2, <3>3 DEF KbAppend, Enter, Echoing
      <4>2. Pending = 0 /\ Pending' = 1
        BY <4>1 DEF Pending
      <4>3. Position(term) + 1 >= Base + (command_index + 1)
        BY SMTT(20), <1>2, <3>1, <4>1, <4>2, CursorConstants DEF FarEnoughDown
      <4> QED  BY <2>2, <3>1, <4>1, <4>2, <4>3 DEF FarEnoughDown, Base
    <3>4. CASE KbIgnore
      <4>1. handler = "none" /\ todo = << >> /\ handler' = "echo" /\ todo' = << >>
            /\ command_index' = command_index
        BY <1>2, <3>4 DEF KbIgnore, Enter, Echoing, lineVars
      <4>2. Pending = 0 /\ Pending' = 0
        BY <4>1 DEF Pending
      <4> QED  BY <2>2, <3>1, <4>1, <4>2 DEF FarEnoughDown, Base
    <3>5. CASE KbPrompt
      <4>1. handler = "command" /\ handler' = "prompt" /\ command_index' = 0
        BY <3>5 DEF KbPrompt
      <4>2. Pending' = 0
        BY <4>1 DEF Pending
      <4>3. Position(term) + 0 >= Base + 0
        BY <1>2, <3>1, <4>1, CursorConstants DEF FarEnoughDown
      <4> QED  BY <2>2, <3>1, <4>1, <4>2, <4>3 DEF FarEnoughDown, Base
    <3>6. CASE KbReturn
      <4>1. handler \in {"echo", "prompt"} /\ handler' = "none" /\ todo = << >>
            /\ command_index' = command_index
        BY <3>6 DEF KbReturn, EndOfInterrupt, lineVars
      <4>2. Pending = 0 /\ Pending' = 0
        BY <4>1 DEF Pending
      <4> QED  BY <2>2, <3>1, <4>1, <4>2 DEF FarEnoughDown, Base
    <3>7. CASE KbWait
      <4>1. handler = "command" /\ handler' = "waiting"
        BY <3>7 DEF KbWait
      <4> QED  BY <2>2, <3>1, <4>1 DEF FarEnoughDown, Base
    <3> QED  BY <1>8, <3>2, <3>3, <3>4, <3>5, <3>6, <3>7
  <2> QED  BY <1>3, <2>1, <2>3
<1> QED  BY <1>6, <1>7, <1>8 DEF KbHandler

\* Every store of the boot thread leaves the cursor within the bounds of its
\* next step.
LEMMA BootKeepsCursor ==
  ASSUME LineFits, LineInv, CursorInv, BootThread
  PROVE  CursorInv'
<1>1. /\ term \in Screens /\ term.x \in Int /\ term.y \in Int
      /\ eax \in Int /\ ecx \in Int /\ char \in Glyphs
      /\ eax + 1 \in Int /\ eax - 1 \in Int
      /\ command_index \in Slots /\ command_index \in Nat
      /\ Position(term) \in Int
  BY BootTypeFacts, SlotFacts, PositionTyped DEF LineInv, ShellType
<1>2. /\ Cols \in Nat \ {0} /\ Rows \in Nat /\ Rows >= 2
      /\ 0 <= term.x /\ term.x <= Cols + 1 /\ 0 <= term.y /\ term.y <= Rows
  BY CursorConstants DEF CursorInv, InBounds
<1>3. handler = "none" /\ handler' = handler /\ todo' = todo
      /\ command_index' = command_index /\ todo = << >> /\ Pending = 0
  BY BootKeepsLine DEF LineInv, Echoing, Pending
<1>4. ASSUME FarEnoughDown, term'.x = term.x, term'.y = term.y
      PROVE  FarEnoughDown'
  <2>1. Position(term)' = Position(term) /\ Pending' = Pending
    BY <1>3, <1>4 DEF Position, Pending
  <2> QED  BY <1>3, <1>4, <2>1 DEF FarEnoughDown, Base
<1>5. /\ InBounds(term.x, term.y, boot, eax)
      /\ boot \in {"scroll", "load last row"} => FarEnoughDown
  BY DEF CursorInv
<1>18. CASE BootCall
  <2>1. boot = "next" /\ term' = term
    BY <1>18 DEF BootCall
  <2>2. CASE NeedsLine(term, char')
    <3>1. boot' = "first column"
      BY <1>18, <2>2 DEF BootCall
    <3>2. InBounds(term.x, term.y, "first column", eax')
      BY <1>1, <1>2, <2>1, <1>5 DEF InBounds, HighSteps
    <3> QED  BY <2>1, <3>1, <3>2 DEF CursorInv
  <2>3. CASE ~NeedsLine(term, char')
    <3>1. boot' = "check row"
      BY <1>18, <2>3 DEF BootCall
    <3>2. term.x < Cols
      BY <1>1, <1>2, <2>3 DEF NeedsLine
    <3>3. InBounds(term.x, term.y, "check row", eax')
      BY <1>1, <1>2, <2>1, <3>2, <1>5 DEF InBounds, HighSteps
    <3> QED  BY <2>1, <3>1, <3>3 DEF CursorInv
  <2> QED  BY <2>2, <2>3
<1>6. CASE BootFirstColumn
  <2>1. boot = "first column" /\ boot' = "load row"
    BY <1>6 DEF BootFirstColumn, Step
  <2>2. term'.x = 0 /\ term'.y = term.y
    <3>1. term' = MovedToColumn(term, 0)
      BY <1>6 DEF BootFirstColumn, MovedToColumn
    <3>2. 0 \in Int
      OBVIOUS
    <3>3. MovedToColumn(term, 0).x = 0 /\ MovedToColumn(term, 0).y = term.y
      BY <1>1, <3>2, MoveAxisFacts
    <3> QED  BY <3>1, <3>3
  <2>3. InBounds(0, term.y, "load row", eax')
    <3>1. 0 <= term.y /\ term.y <= Rows - 1 /\ term.y <= Rows
      BY <1>2, <2>1, <1>5 DEF InBounds, HighSteps
    <3>2. 0 <= 0 /\ 0 <= Cols /\ 0 <= Cols + 1
      BY <1>2
    <3> QED  BY <3>1, <3>2 DEF InBounds
  <2>4. InBounds(term'.x, term'.y, boot', eax')
    BY <2>1, <2>2, <2>3
  <2> QED  BY <2>1, <2>4 DEF CursorInv
<1>7. CASE BootLoadRow
  <2>1. boot = "load row" /\ boot' = "store row" /\ term' = term /\ eax' = term.y
    BY <1>7 DEF BootLoadRow, Step
  <2>2. InBounds(term.x, term.y, "store row", term.y)
    BY <1>1, <1>2, <2>1, <1>5 DEF InBounds, HighSteps
  <2>3. InBounds(term'.x, term'.y, boot', eax')
    BY <2>1, <2>2
  <2> QED  BY <2>1, <2>3 DEF CursorInv
<1>8. CASE BootStoreRow
  <2>1. boot = "store row" /\ boot' = "check row"
    BY <1>8 DEF BootStoreRow, Step
  <2>2. term'.x = term.x /\ term'.y = eax + 1
    <3>1. term' = MovedToRow(term, eax + 1)
      BY <1>8 DEF BootStoreRow, MovedToRow
    <3>2. /\ MovedToRow(term, eax + 1).x = term.x
          /\ MovedToRow(term, eax + 1).y = eax + 1
      BY <1>1, MoveAxisFacts
    <3> QED  BY <3>1, <3>2
  <2>3. InBounds(term.x, eax + 1, "check row", eax')
    <3>1. 0 <= eax /\ eax <= Rows - 1 /\ term.x <= Cols
      BY <2>1, <1>5 DEF InBounds
    <3>2. 0 <= eax + 1 /\ eax + 1 <= Rows
      BY <1>1, <1>2, <3>1
    <3> QED  BY <1>2, <3>1, <3>2 DEF InBounds, HighSteps
  <2>4. InBounds(term'.x, term'.y, boot', eax')
    BY <2>1, <2>2, <2>3
  <2> QED  BY <2>1, <2>4 DEF CursorInv
<1>9. CASE BootCheckRow
  <2>1. boot = "check row" /\ term' = term
    BY <1>9 DEF BootCheckRow, Step
  <2>2. term.x <= Cols
    BY <2>1 DEF CursorInv, InBounds
  <2>3. ASSUME term.y >= Rows
        PROVE  FarEnoughDown
    <3>1. Rows * Cols <= term.y * Cols /\ term.y * Cols \in Int
      BY <1>1, <1>2, <2>3, RowOrder, RowFacts
    <3>2. Position(term) >= (Rows - 1) * Cols + Cols
      BY <1>1, <1>2, <3>1, CursorConstants DEF Position
    <3>3. (Rows - 1) * Cols + 1 >= Base + command_index
      BY <1>1, CursorConstants
    <3>4. Position(term) + 0 >= Base + command_index
      BY <1>1, <1>2, <3>2, <3>3, CursorConstants
    <3> QED  BY <1>1, <1>2, <1>3, <2>3, <3>4 DEF FarEnoughDown
  <2>4. term.y >= Rows => FarEnoughDown'
    BY <1>4, <2>1, <2>3
  <2>5. CASE term.y >= Rows
    <3>1. boot' = "scroll"
      BY <1>9, <2>5 DEF BootCheckRow, Step
    <3>2. InBounds(term.x, term.y, "scroll", eax')
      BY <1>1, <1>2, <2>1, <2>2, <2>5, <1>5 DEF InBounds, HighSteps
    <3> QED  BY <2>1, <2>4, <2>5, <3>1, <3>2 DEF CursorInv
  <2>6. CASE ~(term.y >= Rows)
    <3>1. boot' = "next" \/ boot' = "load cursor row"
      BY <1>9, <2>6 DEF BootCheckRow, Step
    <3>2. term.y <= Rows - 1
      BY <1>1, <1>2, <2>6
    <3>3. InBounds(term.x, term.y, "next", eax')
      BY <1>2, <2>2, <3>2 DEF InBounds
    <3>4. InBounds(term.x, term.y, "load cursor row", eax')
      BY <1>2, <2>2, <3>2 DEF InBounds
    <3> QED  BY <2>1, <3>1, <3>3, <3>4 DEF CursorInv
  <2> QED  BY <2>5, <2>6
<1>10. CASE BootScroll
  <2>1. boot = "scroll" /\ boot' = "load last row" /\ term' = scroll_up(term)
    BY <1>10 DEF BootScroll, Step
  <2>2. term'.x = term.x /\ term'.y = term.y
    BY <1>1, <2>1, ScrollFacts
  <2>3. FarEnoughDown'
    BY <1>4, <2>1, <2>2 DEF CursorInv, InBounds
  <2>4. InBounds(term.x, term.y, "load last row", eax')
    BY <1>1, <1>2, <2>1, <1>5 DEF InBounds, HighSteps
  <2>5. InBounds(term'.x, term'.y, boot', eax')
    BY <2>1, <2>2, <2>4
  <2> QED  BY <2>1, <2>3, <2>5 DEF CursorInv
<1>11. CASE BootLoadLastRow
  <2>1. /\ boot = "load last row" /\ boot' = "store last row"
        /\ term' = term /\ eax' = term.y
    BY <1>11 DEF BootLoadLastRow, Step
  <2>2. InBounds(term.x, term.y, "store last row", term.y)
    BY <1>1, <1>2, <2>1, <1>5 DEF InBounds, HighSteps, FarEnoughDown
  <2>3. InBounds(term'.x, term'.y, boot', eax')
    BY <2>1, <2>2
  <2> QED  BY <2>1, <2>3 DEF CursorInv
<1>12. CASE BootStoreLastRow
  <2>1. boot = "store last row"
    BY <1>12 DEF BootStoreLastRow, Step
  <2>2. term'.x = term.x /\ term'.y = eax - 1
    <3>1. term' = MovedToRow(term, eax - 1)
      BY <1>12 DEF BootStoreLastRow, MovedToRow
    <3>2. /\ MovedToRow(term, eax - 1).x = term.x
          /\ MovedToRow(term, eax - 1).y = eax - 1
      BY <1>1, MoveAxisFacts
    <3> QED  BY <3>1, <3>2
  <2>3. /\ InBounds(term.x, eax - 1, "next", eax')
        /\ InBounds(term.x, eax - 1, "load cursor row", eax')
    <3>1. 1 <= eax /\ eax <= Rows /\ term.x <= Cols
      BY <2>1, <1>5 DEF InBounds
    <3>2. 0 <= eax - 1 /\ eax - 1 <= Rows /\ eax - 1 <= Rows - 1
      BY <1>1, <1>2, <3>1
    <3> QED  BY <1>2, <3>1, <3>2 DEF InBounds
  <2>4. boot' = "next" \/ boot' = "load cursor row"
    BY <1>12 DEF BootStoreLastRow, Step
  <2> QED  BY <2>2, <2>3, <2>4 DEF CursorInv
<1>13. CASE BootLoadCursorRow
  <2>1. /\ boot = "load cursor row" /\ boot' = "load cursor column" /\ term' = term
    BY <1>13 DEF BootLoadCursorRow, Step
  <2>2. InBounds(term.x, term.y, "load cursor column", eax')
    BY <1>1, <1>2, <2>1, <1>5 DEF InBounds, HighSteps
  <2>3. InBounds(term'.x, term'.y, boot', eax')
    BY <2>1, <2>2
  <2> QED  BY <2>1, <2>3 DEF CursorInv
<1>14. CASE BootLoadCursorColumn
  <2>1. /\ boot = "load cursor column" /\ boot' = "draw" /\ term' = term
    BY <1>14 DEF BootLoadCursorColumn, Step
  <2>2. InBounds(term.x, term.y, "draw", eax')
    BY <1>1, <1>2, <2>1, <1>5 DEF InBounds, HighSteps
  <2>3. InBounds(term'.x, term'.y, boot', eax')
    BY <2>1, <2>2
  <2> QED  BY <2>1, <2>3 DEF CursorInv
<1>15. CASE BootDraw
  <2>1. boot = "draw" /\ boot' = "load column"
    BY <1>15 DEF BootDraw, Step
  <2>2. term'.x = term.x /\ term'.y = term.y
    <3>1. term' = draw(term, ecx, eax, char)
      BY <1>15 DEF BootDraw
    <3>2. /\ draw(term, ecx, eax, char).x = term.x
          /\ draw(term, ecx, eax, char).y = term.y
      BY <1>1, DrawMoves
    <3> QED  BY <3>1, <3>2
  <2>3. InBounds(term.x, term.y, "load column", eax')
    BY <1>1, <1>2, <2>1, <1>5 DEF InBounds, HighSteps
  <2>4. InBounds(term'.x, term'.y, boot', eax')
    BY <2>1, <2>2, <2>3
  <2> QED  BY <2>1, <2>4 DEF CursorInv
<1>16. CASE BootLoadColumn
  <2>1. /\ boot = "load column" /\ boot' = "store column"
        /\ term' = term /\ eax' = term.x
    BY <1>16 DEF BootLoadColumn, Step
  <2>2. InBounds(term.x, term.y, "store column", term.x)
    BY <1>1, <1>2, <2>1, <1>5 DEF InBounds, HighSteps
  <2>3. InBounds(term'.x, term'.y, boot', eax')
    BY <2>1, <2>2
  <2> QED  BY <2>1, <2>3 DEF CursorInv
<1>17. CASE BootStoreColumn
  <2>1. boot = "store column" /\ boot' = "next"
    BY <1>17 DEF BootStoreColumn, BootCli, Step
  <2>2. term'.x = eax + 1 /\ term'.y = term.y
    <3>1. term' = MovedToColumn(term, eax + 1)
      BY <1>17 DEF BootStoreColumn, MovedToColumn
    <3>2. /\ MovedToColumn(term, eax + 1).x = eax + 1
          /\ MovedToColumn(term, eax + 1).y = term.y
      BY <1>1, MoveAxisFacts
    <3> QED  BY <3>1, <3>2
  <2>3. InBounds(eax + 1, term.y, "next", eax')
    <3>1. 0 <= eax /\ eax <= Cols /\ term.y <= Rows - 1
      BY <2>1, <1>5 DEF InBounds, HighSteps
    <3>2. 0 <= eax + 1 /\ eax + 1 <= Cols + 1
      BY <1>1, <1>2, <3>1
    <3> QED  BY <1>2, <3>1, <3>2 DEF InBounds
  <2>4. InBounds(term'.x, term'.y, boot', eax')
    BY <2>1, <2>2, <2>3
  <2> QED  BY <2>1, <2>4 DEF CursorInv
<1>19. CASE BootCli
  <2>1. boot = "next" /\ boot' = "cli" /\ term' = term
    BY <1>19 DEF BootCli, Step
  <2>2. InBounds(term.x, term.y, "cli", eax')
    BY <1>1, <1>2, <2>1, <1>5 DEF InBounds, HighSteps
  <2> QED  BY <2>1, <2>2 DEF CursorInv
<1> QED  BY <1>18, <1>6, <1>7, <1>8, <1>9, <1>10, <1>11, <1>12, <1>13, <1>14,
            <1>15, <1>16, <1>17, <1>19 DEF BootThread

LEMMA NextCursor ==
  ASSUME LineFits, LineInv, CursorInv, [Next]_vars
  PROVE  CursorInv'
<1>1. CASE (\E key \in Keys : KeyPress(key)) \/ UNCHANGED vars
  <2>1. UNCHANGED <<term, handler, todo, command_index, boot, eax>>
    BY <1>1 DEF KeyPress, vars, lineVars, bootVars
  <2> QED  BY <2>1 DEF CursorInv, FarEnoughDown, Position, Pending, Base
<1> QED  BY <1>1, HandlerKeepsCursor, BootKeepsCursor DEF Next

\* term_x and term_y are never further than a cell off the screen, although
\* kb_handler moves the cursor between the instructions of the boot thread's
\* print_char, which stores what it loaded before (video.c:78-110,
\* shell.c:99-154).
THEOREM CursorStaysNear ==
  ASSUME LineFits
  PROVE  Spec => []CursorNearScreen
<1>1. Init => CursorInv
  BY InitCursor
<1>2. LineInv /\ CursorInv /\ [Next]_vars => CursorInv'
  BY NextCursor
<1>3. CursorInv => CursorNearScreen
  BY DEF CursorInv, InBounds, CursorNearScreen
<1> QED  BY <1>1, <1>2, <1>3, LineInvariant, PTL DEF Spec

-----------------------------------------------------------------------------
(***************************************************************************)
(* What the screen shows.  A line that began while the boot thread was     *)
(* outside print_char is shown until that thread prints again.  Before the *)
(* handler first runs inside print_char the two take turns by whole        *)
(* characters, so that the boot thread's copies of the cursor are right    *)
(* and nothing ever stands behind the cursor.                              *)
(***************************************************************************)

OnScreen(t) == 0 <= t.x /\ t.x <= Cols /\ 0 <= t.y /\ t.y <= Rows - 1

BlankFrom(t, n) == \A p \in CellNumbers : p >= n => t.cell[p] = Blank
BlankBehind(t) == BlankFrom(t, Position(t))

\* The cursor stands behind the first n characters of the line, which the cells
\* from e on show as far as they are still on the screen.
ShowsLine(t, e, line, n) ==
  /\ e >= 0 /\ Position(t) = e + n
  /\ \A i \in Slots : i < n /\ e + i \in CellNumbers => t.cell[e + i] = line[i]

\* A line break of the command or a character of the prompt brings a cursor
\* back that the boot thread has left beyond the end of a row.
Rejoined ==
  /\ handler = "command" /\ todo = << >> => term.x <= Cols
  /\ handler = "prompt" => term.x <= Cols

QuietInv ==
  line_quiet =>
    /\ Outside
    /\ handler \in {"none", "echo"} =>
         /\ term.x <= Cols
         /\ ShowsLine(term, prompt_end, command_line, command_index - Pending)

\* The screen t and the copies row and column of the cursor at a step of an
\* undisturbed print_char of c.
Undisturbed(t, step, row, column, c) ==
  /\ step \in {"next", "first column", "cli"} => OnScreen(t) /\ BlankBehind(t)
  /\ step \in {"load row", "store row"} =>
       t.x = 0 /\ OnScreen(t) /\ BlankFrom(t, Position(t) + Cols)
  /\ step = "store row" => row = t.y
  /\ step = "check row" =>
       /\ 0 <= t.x /\ t.x <= Cols /\ 0 <= t.y /\ t.y <= Rows
       /\ t.y = Rows => t.x = 0
       /\ c # NewLine => t.x < Cols
       /\ BlankBehind(t)
  /\ step \in {"scroll", "load last row", "store last row"} => t.x = 0 /\ t.y = Rows
  /\ step \in {"load last row", "store last row"} => BlankFrom(t, Position(t) - Cols)
  /\ step = "store last row" => row = Rows
  /\ step \in {"load cursor row", "load cursor column", "draw", "load column",
               "store column"} => OnScreen(t) /\ t.x < Cols
  /\ step \in {"load cursor row", "load cursor column", "draw"} => BlankBehind(t)
  /\ step \in {"load cursor column", "draw"} => row = t.y
  /\ step = "draw" => column = t.x
  /\ step \in {"load column", "store column"} => BlankFrom(t, Position(t) + 1)
  /\ step = "store column" => row = t.x

BehindInv ==
  ~torn =>
    /\ handler # "none" => Outside
    /\ Undisturbed(term, boot, eax, ecx, char)

ScreenInv == Rejoined /\ QuietInv /\ BehindInv

LEMMA CursorPosition ==
  ASSUME NEW t \in Screens, OnScreen(t)
  PROVE  /\ Position(t) \in Int /\ 0 <= Position(t) /\ Position(t) <= Rows * Cols
         /\ Position(t) >= 1 => t.x > 0 \/ t.y > 0
<1>1. /\ Cols \in Nat \ {0} /\ Rows \in Nat \ {0} /\ t.x \in Int /\ t.y \in Int
      /\ 0 <= t.x /\ t.x <= Cols /\ 0 <= t.y /\ t.y + 1 <= Rows
  BY ConsoleAssumption DEF Screens, OnScreen
<1>2. /\ t.y * Cols \in Int /\ Rows * Cols \in Int
      /\ (t.y + 1) * Cols = t.y * Cols + Cols
      /\ 0 * Cols = 0
  BY <1>1, RowFacts
<1>3. 0 * Cols <= t.y * Cols /\ (t.y + 1) * Cols <= Rows * Cols
  BY <1>1, RowOrder
<1>4. t.y = 0 => t.y * Cols = 0
  BY <1>2
<1>5. Position(t) = t.y * Cols + t.x
  BY DEF Position
<1> QED  BY <1>1, <1>2, <1>3, <1>4, <1>5

LEMMA PrintShowsBlank ==
  ASSUME NEW t \in Screens, NEW c \in Glyphs, OnScreen(t), BlankBehind(t)
  PROVE  LET u == print_char(t, c) IN OnScreen(u) /\ BlankBehind(u)
<1> DEFINE u == print_char(t, c)
<1>1. /\ Cols \in Nat \ {0} /\ Rows \in Nat \ {0} /\ t.x \in Int /\ t.y \in Int
      /\ 0 <= t.x /\ t.x <= Cols /\ 0 <= t.y /\ t.y <= Rows - 1
      /\ t.x <= Cols + 1 /\ t.y <= Rows
  BY ConsoleAssumption DEF Screens, OnScreen
<1>2. /\ 0 <= u.x /\ u.x <= Cols /\ 0 <= u.y /\ u.y <= Rows - 1
      /\ ~Scrolled(t, c) => Position(u) >= Position(t)
      /\ Scrolled(t, c) => Position(u) + Cols >= Position(t)
  BY <1>1, PrintMoves
<1>3. /\ u \in Screens
      /\ \A p \in CellNumbers :
           p # Position(u) - 1
           => u.cell[p] = IF ~Scrolled(t, c) THEN t.cell[p]
                          ELSE IF p + Cols \in CellNumbers THEN t.cell[p + Cols]
                          ELSE Blank
  BY PrintFacts
<1> HIDE DEF u
<1>4. ASSUME NEW p \in CellNumbers, p >= Position(u)
      PROVE  u.cell[p] = Blank
  <2>1. p \in Int /\ Position(u) \in Int /\ Position(t) \in Int
    <3>1. u \in Screens
      BY <1>3
    <3> QED  BY <3>1, PositionTyped, CellFacts
  <2>2. p # Position(u) - 1
    BY <1>4, <2>1
  <2>3. CASE ~Scrolled(t, c)
    <3>1. u.cell[p] = t.cell[p] /\ p >= Position(t)
      BY <1>2, <1>3, <1>4, <2>1, <2>2, <2>3
    <3> QED  BY <3>1 DEF BlankBehind, BlankFrom
  <2>4. CASE Scrolled(t, c)
    <3>1. p + Cols >= Position(t)
      BY <1>1, <1>2, <1>4, <2>1, <2>4
    <3>2. p + Cols \in CellNumbers => t.cell[p + Cols] = Blank
      BY <3>1 DEF BlankBehind, BlankFrom
    <3> QED  BY <1>3, <2>2, <2>4, <3>2
  <2> QED  BY <2>3, <2>4
<1> QED  BY <1>2, <1>4 DEF u, OnScreen, BlankBehind, BlankFrom

LEMMA EraseKeepsBlank ==
  ASSUME NEW t \in Screens, OnScreen(t), BlankBehind(t)
  PROVE  LET u == handle_backspace(t) IN OnScreen(u) /\ BlankBehind(u)
<1> DEFINE u == handle_backspace(t)
<1>1. /\ Cols \in Nat \ {0} /\ Rows \in Nat \ {0} /\ t.x \in Int /\ t.y \in Int
      /\ 0 <= t.x /\ t.x <= Cols /\ 0 <= t.y /\ t.y <= Rows - 1
      /\ Position(t) \in Int
  BY ConsoleAssumption, PositionTyped DEF Screens, OnScreen
<1>2. /\ u \in Screens
      /\ u.x = IF t.x > 0 THEN t.x - 1 ELSE IF t.y > 0 THEN Cols - 1 ELSE 0
      /\ u.y = IF t.x = 0 /\ t.y > 0 THEN t.y - 1 ELSE t.y
      /\ t.x > 0 \/ t.y > 0 => Position(u) = Position(t) - 1
      /\ \A p \in CellNumbers : p # Position(u) => u.cell[p] = t.cell[p]
      /\ u.x < Cols /\ u.y < Rows /\ Position(u) \in CellNumbers
           => u.cell[Position(u)] = Blank
  BY <1>1, EraseFacts
<1> HIDE DEF u
<1>3. OnScreen(u) /\ u.x < Cols /\ u.y < Rows
  BY <1>1, <1>2 DEF OnScreen
<1>4. Position(u) >= Position(t) - 1
  <2>1. CASE t.x > 0 \/ t.y > 0
    BY <1>1, <1>2, <2>1
  <2>2. CASE ~(t.x > 0 \/ t.y > 0)
    <3>1. u.x = t.x /\ u.y = t.y
      BY <1>1, <1>2, <2>2
    <3>2. Position(u) = Position(t)
      BY <3>1 DEF Position
    <3> QED  BY <1>1, <3>2
  <2> QED  BY <2>1, <2>2
<1>5. ASSUME NEW p \in CellNumbers, p >= Position(u)
      PROVE  u.cell[p] = Blank
  <2>1. CASE p = Position(u)
    BY <1>2, <1>3, <2>1
  <2>2. CASE p # Position(u)
    <3>1. Position(u) \in Int
      BY <1>2, PositionTyped
    <3>2. p >= Position(t)
      BY <1>1, <1>4, <1>5, <2>2, <3>1, CellFacts
    <3> QED  BY <1>2, <2>2, <3>2 DEF BlankBehind, BlankFrom
  <2> QED  BY <2>1, <2>2
<1> QED  BY <1>3, <1>5 DEF u, BlankBehind, BlankFrom

LEMMA EraseShowsLine ==
  ASSUME NEW t \in Screens, NEW e \in Int, NEW line, NEW n \in Slots, n > 0,
         line \in [Slots -> Chars \cup {BackSpace, NUL}],
         OnScreen(t), ShowsLine(t, e, line, n)
  PROVE  LET u == handle_backspace(t)
         IN u.x <= Cols /\ ShowsLine(u, e, [line EXCEPT ![n - 1] = NUL], n - 1)
<1> DEFINE u == handle_backspace(t)
<1>1. /\ Cols \in Nat \ {0} /\ Rows \in Nat \ {0} /\ t.x \in Int /\ t.y \in Int
      /\ 0 <= t.x /\ t.x <= Cols /\ 0 <= t.y /\ t.y <= Rows - 1
      /\ n \in Nat /\ n - 1 \in Slots
  BY ConsoleAssumption, SlotFacts DEF Screens, OnScreen
<1>2. e >= 0 /\ Position(t) = e + n /\ Position(t) >= 1
  BY <1>1 DEF ShowsLine
<1>3. t.x > 0 \/ t.y > 0
  BY <1>2, CursorPosition
<1>4. /\ u.x = IF t.x > 0 THEN t.x - 1 ELSE IF t.y > 0 THEN Cols - 1 ELSE 0
      /\ Position(u) = Position(t) - 1
      /\ \A p \in CellNumbers : p # Position(u) => u.cell[p] = t.cell[p]
  BY <1>1, <1>3, EraseFacts
<1> HIDE DEF u
<1>5. u.x <= Cols
  BY <1>1, <1>3, <1>4
<1>6. ASSUME NEW i \in Slots, i < n - 1, e + i \in CellNumbers
      PROVE  u.cell[e + i] = [line EXCEPT ![n - 1] = NUL][i]
  <2>1. i \in Nat /\ i < n /\ i # n - 1 /\ e + i # Position(u)
    BY <1>1, <1>2, <1>4, <1>6, SlotFacts
  <2>2. u.cell[e + i] = line[i]
    BY <1>4, <1>6, <2>1 DEF ShowsLine
  <2> QED  BY <2>1, <2>2
<1>7. Position(u) = e + (n - 1)
  BY <1>1, <1>2, <1>4
<1> QED  BY <1>2, <1>5, <1>6, <1>7 DEF u, ShowsLine

LEMMA EchoShowsLine ==
  ASSUME LineFits, NEW t \in Screens, NEW e \in Int, NEW line, NEW n \in Slots,
         n + 1 \in Slots, line[n] \in Glyphs, line[n] # NewLine,
         OnScreen(t), ShowsLine(t, e, line, n)
  PROVE  ShowsLine(print_char(t, line[n]),
                   IF Scrolled(t, line[n]) THEN e - Cols ELSE e, line, n + 1)
<1> DEFINE c == line[n]
           u == print_char(t, c)
<1>1. /\ Cols \in Nat \ {0} /\ Rows \in Nat \ {0} /\ t.x \in Int /\ t.y \in Int
      /\ 0 <= t.x /\ t.x <= Cols /\ 0 <= t.y /\ t.y <= Rows - 1
      /\ t.x <= Cols + 1 /\ t.y <= Rows /\ n \in Nat /\ c \in Glyphs /\ c # NewLine
      /\ 0 <= Position(t) /\ Position(t) <= Rows * Cols /\ Position(t) \in Int
  BY ConsoleAssumption, SlotFacts, CursorPosition DEF Screens, OnScreen
<1>2. /\ e >= 0 /\ Position(t) = e + n
      /\ \A i \in Slots : i < n /\ e + i \in CellNumbers => t.cell[e + i] = line[i]
  BY DEF ShowsLine
<1> HIDE DEF c
<1>3. /\ 0 <= u.x /\ u.x <= Cols /\ 0 <= u.y /\ u.y <= Rows - 1
      /\ \/ ~Scrolled(t, c) /\ Position(u) = Position(t) + 1
         \/ /\ Scrolled(t, c) /\ Position(u) = Position(t) + 1 - Cols
            /\ Position(u) >= (Rows - 1) * Cols + 1
  BY <1>1, PrintMoves
<1>4. /\ u \in Screens
      /\ \A p \in CellNumbers :
           p # Position(u) - 1
           => u.cell[p] = IF ~Scrolled(t, c) THEN t.cell[p]
                          ELSE IF p + Cols \in CellNumbers THEN t.cell[p + Cols]
                          ELSE Blank
      /\ u.y < Rows /\ Position(u) - 1 \in CellNumbers
           => u.x > Cols \/ u.cell[Position(u) - 1] = c
  BY <1>1, PrintFacts
<1> HIDE DEF u
<1>5. Position(u) - 1 \in CellNumbers => u.cell[Position(u) - 1] = c
  BY <1>1, <1>3, <1>4 DEF Screens
<1>6. CASE ~Scrolled(t, c)
  <2>1. Position(u) = e + (n + 1) /\ Position(u) - 1 = e + n
    BY <1>1, <1>2, <1>3, <1>6
  <2>2. ASSUME NEW i \in Slots, i < n + 1, e + i \in CellNumbers
        PROVE  u.cell[e + i] = line[i]
    <3>1. CASE i = n
      BY <1>5, <2>1, <2>2, <3>1 DEF c
    <3>2. CASE i # n
      <4>1. i < n /\ e + i # Position(u) - 1
        BY <1>1, <2>1, <2>2, <3>2, SlotFacts
      <4> QED  BY <1>2, <1>4, <1>6, <2>2, <4>1
    <3> QED  BY <3>1, <3>2
  <2> QED  BY <1>2, <1>6, <2>1, <2>2 DEF ShowsLine, u, c
<1>7. CASE Scrolled(t, c)
  <2> DEFINE f == e - Cols
  <2>1. Position(u) = f + (n + 1) /\ Position(u) - 1 = f + n /\ f \in Int
    BY <1>1, <1>2, <1>3, <1>7
  <2>2. f >= 0
    <3>1. (Rows - 1) * Cols + 1 >= Base + (n + 1) /\ Base \in Int /\ Base >= Cols
      BY CursorConstants
    <3>2. Position(u) >= (Rows - 1) * Cols + 1 /\ (Rows - 1) * Cols \in Int
      BY <1>3, <1>7, CursorConstants
    <3> HIDE DEF f
    <3> QED  BY <1>1, <2>1, <3>1, <3>2
  <2>3. ASSUME NEW i \in Slots, i < n + 1, f + i \in CellNumbers
        PROVE  u.cell[f + i] = line[i]
    <3>1. CASE i = n
      BY <1>5, <2>1, <2>3, <3>1 DEF c
    <3>2. CASE i # n
      <4>1. i \in Nat /\ i < n /\ f + i # Position(u) - 1 /\ f + i + Cols = e + i
        BY <1>1, <2>1, <2>3, <3>2, SlotFacts
      <4>2. e + i \in CellNumbers
        BY SMTT(20), <1>1, <1>2, <4>1, CellFacts
      <4> HIDE DEF f
      <4>3. u.cell[f + i] = t.cell[e + i]
        BY <1>4, <1>7, <2>3, <4>1, <4>2
      <4> QED  BY <1>2, <4>1, <4>2, <4>3
    <3> QED  BY <3>1, <3>2
  <2> QED  BY <1>7, <2>1, <2>2, <2>3 DEF ShowsLine, u, c
<1> QED  BY <1>6, <1>7

LEMMA InitScreen ==
  ASSUME Init
  PROVE  ScreenInv
<1>1. /\ term = ClearScreen /\ boot = "next" /\ handler = "none" /\ todo = << >>
      /\ prompt_end = 0 /\ command_index = 0 /\ torn = FALSE
  BY DEF Init
<1>2. /\ term.x = 0 /\ term.y = 0
      /\ \A p \in CellNumbers : term.cell[p] = Blank
  BY <1>1 DEF ClearScreen
<1>3. Cols \in Nat \ {0} /\ Rows \in Nat \ {0}
  BY ConsoleAssumption
<1>4. Pending = 0 /\ Position(term) = 0
  BY <1>1, <1>2, <1>3 DEF Pending, Position
<1>5. OnScreen(term) /\ BlankBehind(term)
  BY <1>2, <1>3 DEF OnScreen, BlankBehind, BlankFrom
<1>6. ShowsLine(term, prompt_end, command_line, command_index - Pending)
  <2>1. \A i \in Slots : ~(i < 0)
    BY SlotFacts
  <2> QED  BY <1>1, <1>4, <2>1 DEF ShowsLine
<1>7. QuietInv
  BY <1>1, <1>2, <1>3, <1>6 DEF QuietInv, Outside
<1>8. BehindInv
  BY <1>1, <1>5 DEF BehindInv, Undisturbed
<1> QED  BY <1>1, <1>7, <1>8 DEF ScreenInv, Rejoined

LEMMA HandlerKeepsBoot ==
  ASSUME KbHandler
  PROVE  boot' = boot /\ eax' = eax /\ ecx' = ecx /\ char' = char /\ Outside' = Outside
  BY DEF KbHandler, KbErase, KbCommand, KbAppend, KbIgnore, KbPrint, KbWait,
         KbPrompt, KbReturn, Enter, bootVars, Outside

\* Where the cursor is while the boot thread is outside print_char.
LEMMA OutsideCursor ==
  ASSUME LineInv, CursorInv, Outside
  PROVE  /\ term \in Screens /\ 0 <= term.x /\ 0 <= term.y /\ term.y <= Rows - 1
         /\ term.x <= Cols => OnScreen(term)
<1>1. term \in Screens
  BY DEF LineInv, ShellType
<1>2. boot \notin HighSteps
  BY DEF Outside, HighSteps
<1>3. 0 <= term.x /\ 0 <= term.y /\ term.y <= Rows - 1
  BY <1>2 DEF CursorInv, InBounds
<1> QED  BY <1>1, <1>3 DEF OnScreen

LEMMA HandlerKeepsRejoined ==
  ASSUME LineFits, LineInv, CursorInv, Rejoined, KbHandler
  PROVE  Rejoined'
<1>1. term \in Screens /\ ShellType
  BY DEF LineInv, ShellType
<1>2. CASE KbPrint
  <2>1. term' = print_char(term, Head(todo)) /\ Head(todo) \in Glyphs
    BY <1>1, <1>2, PrintStep DEF KbPrint
  <2>2. /\ 0 <= term.x /\ term.x <= Cols + 1 /\ 0 <= term.y /\ term.y <= Rows
    BY DEF CursorInv, InBounds
  <2>3. term'.x <= Cols
    BY <1>1, <2>1, <2>2, PrintMoves
  <2> QED  BY <2>3 DEF Rejoined
<1>3. CASE KbCommand
  <2>1. PICK out \in Outputs : todo' = <<NewLine>> \o out
    BY <1>3 DEF KbCommand, execute_command
  <2>2. out \in Seq(Letters \cup {NewLine})
    BY ShellAssumption
  <2>3. Len(todo') = 1 + Len(out) /\ Len(out) \in Nat
    BY <2>1, <2>2, ConcatProperties, LenProperties
  <2>4. todo' # << >>
    <3>1. Len(todo') # 0
      BY <2>3
    <3> QED  BY <3>1
  <2>5. handler' = "command"
    BY <1>3 DEF KbCommand
  <2> QED  BY <2>4, <2>5 DEF Rejoined
<1>4. CASE KbPrompt
  <2>1. term' = term /\ handler = "command" /\ todo = << >> /\ handler' = "prompt"
    BY <1>4 DEF KbPrompt
  <2> QED  BY <2>1 DEF Rejoined
<1>5. CASE KbErase \/ KbAppend \/ KbIgnore \/ KbWait \/ KbReturn
  <2>1. handler' \in {"echo", "none", "waiting"}
    BY <1>5 DEF KbErase, KbAppend, KbIgnore, KbWait, KbReturn, EndOfInterrupt
  <2> QED  BY <2>1 DEF Rejoined
<1> QED  BY <1>2, <1>3, <1>4, <1>5 DEF KbHandler

LEMMA HandlerKeepsQuiet ==
  ASSUME LineFits, LineInv, CursorInv, Rejoined, QuietInv, KbHandler
  PROVE  QuietInv'
<1>1. /\ ShellType /\ Echoing /\ LineIsString
      /\ term \in Screens /\ prompt_end \in Int
      /\ command_index \in Slots /\ command_index \in Nat
      /\ command_line \in [Slots -> Chars \cup {BackSpace, NUL}]
  BY SlotFacts DEF LineInv, ShellType
<1>2. Outside' = Outside
  BY HandlerKeepsBoot
<1>3. line_quiet /\ handler \in {"none", "echo"} =>
        term.x <= Cols /\ ShowsLine(term, prompt_end, command_line, command_index - Pending)
  BY DEF QuietInv
<1>4. line_quiet => Outside
  BY DEF QuietInv
<1>5. ASSUME line_quiet
      PROVE  0 <= term.x /\ 0 <= term.y /\ term.y <= Rows - 1
             /\ (term.x <= Cols => OnScreen(term))
  BY <1>4, <1>5, OutsideCursor
<1> DEFINE Shown == term'.x <= Cols
                    /\ ShowsLine(term', prompt_end', command_line', command_index' - Pending')
<1>6. ASSUME line_quiet' => Outside,
             line_quiet' /\ handler' \in {"none", "echo"} => Shown
      PROVE  QuietInv'
  BY <1>2, <1>6 DEF QuietInv, ShowsLine, Position
<1> HIDE DEF Shown
<1>7. CASE KbErase
  <2>1. /\ handler = "none" /\ todo = << >> /\ todo' = << >>
        /\ command_index' = command_index - 1 /\ command_index > 0
        /\ command_line' = [command_line EXCEPT ![command_index - 1] = NUL]
        /\ term' = handle_backspace(term) /\ prompt_end' = prompt_end
        /\ line_quiet' = line_quiet
    BY <1>1, <1>7 DEF KbErase, Enter, Erases, Echoing
  <2>2. Pending = 0 /\ Pending' = 0
    BY <2>1 DEF Pending
  <2>3. command_index - Pending = command_index /\ command_index' - Pending' = command_index - 1
    BY <1>1, <2>1, <2>2
  <2>4. ASSUME line_quiet
        PROVE  Shown
    <3>1. OnScreen(term) /\ ShowsLine(term, prompt_end, command_line, command_index)
      BY <1>3, <1>5, <2>1, <2>3, <2>4
    <3>2. /\ term'.x <= Cols
          /\ ShowsLine(term', prompt_end, command_line', command_index - 1)
      BY <1>1, <2>1, <3>1, EraseShowsLine
    <3> QED  BY <2>1, <2>3, <3>2 DEF Shown
  <2> QED  BY <1>4, <1>6, <2>1, <2>4
<1>8. CASE KbPrint
  <2>1. /\ todo # << >> /\ Head(todo) \in Glyphs
        /\ term' = print_char(term, Head(todo))
        /\ todo' = Tail(todo) /\ handler' = handler
        /\ prompt_end' = PromptAfter(term, Head(todo))
        /\ command_index' = command_index /\ command_line' = command_line
        /\ line_quiet' = line_quiet
    BY <1>1, <1>8, PrintStep DEF KbPrint, lineVars
  <2>2. ASSUME line_quiet, handler' \in {"none", "echo"}
        PROVE  Shown
    <3>1. handler = "echo"
      BY <1>1, <2>1, <2>2 DEF Echoing
    <3> DEFINE n == command_index - 1
    <3>2. /\ n \in Slots /\ n + 1 = command_index
          /\ Head(todo) = command_line[n] /\ Tail(todo) = << >>
          /\ Head(todo) # NewLine
      BY <1>1, <2>1, <3>1, EchoFacts
    <3>3. Pending = 1 /\ Pending' = 0
      BY <2>1, <3>1, <3>2 DEF Pending
    <3>4. command_index - Pending = n /\ command_index' - Pending' = n + 1
      BY <1>1, <2>1, <3>2, <3>3
    <3>5. OnScreen(term) /\ ShowsLine(term, prompt_end, command_line, n)
      BY <1>3, <1>5, <2>2, <3>1, <3>4
    <3> HIDE DEF n
    <3>6. ShowsLine(print_char(term, command_line[n]),
                    IF Scrolled(term, command_line[n]) THEN prompt_end - Cols
                    ELSE prompt_end,
                    command_line, n + 1)
      BY <1>1, <2>1, <3>2, <3>5, EchoShowsLine
    <3>7. term'.x <= Cols
      <4>1. /\ 0 <= term.x /\ term.x <= Cols + 1 /\ 0 <= term.y /\ term.y <= Rows
        BY DEF CursorInv, InBounds
      <4> QED  BY <1>1, <2>1, <4>1, PrintMoves
    <3> QED  BY <2>1, <3>2, <3>4, <3>6, <3>7 DEF PromptAfter, Shown
  <2> QED  BY <1>4, <1>6, <2>1, <2>2
<1>9. CASE KbAppend
  <2>1. /\ handler = "none" /\ todo = << >> /\ todo' = <<kbd>> /\ handler' = "echo"
        /\ command_index' = command_index + 1 /\ command_index + 1 \in Slots
        /\ command_line' = [command_line EXCEPT ![command_index] = kbd]
        /\ term' = term /\ prompt_end' = prompt_end /\ line_quiet' = line_quiet
    BY <1>1, <1>9, SlotFacts DEF KbAppend, Enter, Fits, Echoing
  <2>2. Pending = 0 /\ Pending' = 1
    BY <2>1 DEF Pending
  <2>3. command_index - Pending = command_index /\ command_index' - Pending' = command_index
    BY <1>1, <2>1, <2>2
  <2>4. \A i \in Slots : i < command_index => command_line'[i] = command_line[i]
    BY <1>1, <2>1, SlotFacts
  <2>5. ASSUME line_quiet
        PROVE  Shown
    <3>1. term.x <= Cols /\ ShowsLine(term, prompt_end, command_line, command_index)
      BY <1>3, <2>1, <2>3, <2>5
    <3>2. ShowsLine(term, prompt_end, command_line', command_index)
      BY <2>4, <3>1 DEF ShowsLine
    <3> QED  BY <2>1, <2>3, <3>1, <3>2 DEF Shown
  <2> QED  BY <1>4, <1>6, <2>1, <2>5
<1>10. CASE KbIgnore \/ (KbReturn /\ handler = "echo")
  <2>1. /\ handler \in {"none", "echo"} /\ todo = << >> /\ todo' = << >>
        /\ UNCHANGED <<term, command_line, command_index, prompt_end, line_quiet>>
    BY <1>1, <1>10 DEF KbIgnore, KbReturn, Enter, Echoing, lineVars
  <2>2. Pending = 0 /\ Pending' = 0
    BY <2>1 DEF Pending
  <2> QED  BY <1>3, <1>4, <1>6, <2>1, <2>2 DEF Shown
<1>11. CASE KbReturn /\ handler # "echo"
  <2>1. /\ handler = "prompt" /\ handler' = "none" /\ command_index = 0
        /\ prompt_end' = Position(term) /\ line_quiet' = Outside
        /\ UNCHANGED <<term, command_line, command_index>>
    BY <1>1, <1>11 DEF KbReturn, EndOfInterrupt, Echoing, lineVars
  <2>2. ASSUME Outside
        PROVE  Shown
    <3>1. term.x <= Cols
      BY <2>1 DEF Rejoined
    <3>2. OnScreen(term)
      BY <2>2, <3>1, OutsideCursor
    <3>3. Position(term) \in Int /\ Position(term) >= 0
      BY <1>1, <3>2, CursorPosition
    <3>4. Pending' = 0 /\ command_index' - Pending' = 0
      <4>1. Pending' = 0
        BY <2>1 DEF Pending
      <4> QED  BY <2>1, <4>1
    <3>5. \A i \in Slots : ~(i < 0)
      BY SlotFacts
    <3>6. ShowsLine(term, Position(term), command_line, 0)
      BY <3>3, <3>5 DEF ShowsLine
    <3> QED  BY <2>1, <3>1, <3>4, <3>6 DEF Shown
  <2> QED  BY <1>6, <2>1, <2>2
<1>12. CASE KbCommand \/ KbPrompt \/ KbWait
  <2>1. handler' \notin {"none", "echo"} /\ line_quiet' = line_quiet
    BY <1>12 DEF KbCommand, KbPrompt, KbWait, Enter, historyVars
  <2> QED  BY <1>4, <1>6, <2>1
<1> QED  BY <1>7, <1>8, <1>9, <1>10, <1>11, <1>12 DEF KbHandler

LEMMA HandlerKeepsBehind ==
  ASSUME LineInv, BehindInv, KbHandler
  PROVE  BehindInv'
<1>1. ShellType /\ term \in Screens
  BY DEF LineInv, ShellType
<1>2. boot' = boot /\ eax' = eax /\ ecx' = ecx /\ char' = char /\ Outside' = Outside
  BY HandlerKeepsBoot
<1>3. ASSUME ~torn'
      PROVE  ~torn /\ Outside
  <2>1. CASE handler = "none"
    <3>1. torn' = (torn \/ ~Outside)
      BY <2>1 DEF KbHandler, KbErase, KbCommand, KbAppend, KbIgnore, KbPrint,
                  KbWait, KbPrompt, KbReturn, Enter, LineInv, Echoing
    <3> QED  BY <1>3, <3>1
  <2>2. CASE handler # "none"
    <3>1. torn' = torn
      BY <2>2 DEF KbHandler, KbErase, KbCommand, KbAppend, KbIgnore, KbPrint,
                  KbWait, KbPrompt, KbReturn, Enter, historyVars
    <3> QED  BY <1>3, <2>2, <3>1 DEF BehindInv
  <2> QED  BY <2>1, <2>2
<1>4. SUFFICES ASSUME ~torn, Outside
               PROVE  OnScreen(term') /\ BlankBehind(term')
  <2>1. ASSUME OnScreen(term'), BlankBehind(term'), Outside
        PROVE  Undisturbed(term', boot', eax', ecx', char')
    BY <1>2, <2>1 DEF Undisturbed, Outside
  <2>2. OnScreen(term)' = OnScreen(term') /\ BlankBehind(term)' = BlankBehind(term')
    BY DEF OnScreen, BlankBehind, BlankFrom, Position
  <2>3. Undisturbed(term, boot, eax, ecx, char)'
          = Undisturbed(term', boot', eax', ecx', char')
    BY DEF Undisturbed, OnScreen, BlankBehind, BlankFrom, Position
  <2> QED  BY <1>2, <1>3, <2>1, <2>3 DEF BehindInv
<1>5. OnScreen(term) /\ BlankBehind(term)
  BY <1>4 DEF BehindInv, Undisturbed, Outside
<1>6. CASE KbErase
  <2>1. term' = handle_backspace(term)
    BY <1>6 DEF KbErase
  <2> QED  BY <1>1, <1>5, <2>1, EraseKeepsBlank
<1>7. CASE KbPrint
  <2>1. term' = print_char(term, Head(todo)) /\ Head(todo) \in Glyphs
    BY <1>1, <1>7, PrintStep DEF KbPrint
  <2> QED  BY <1>1, <1>5, <2>1, PrintShowsBlank
<1>8. CASE KbCommand \/ KbAppend \/ KbIgnore \/ KbWait \/ KbPrompt \/ KbReturn
  <2>1. term' = term
    BY <1>8 DEF KbCommand, KbAppend, KbIgnore, KbWait, KbPrompt, KbReturn
  <2> QED  BY <1>5, <2>1
<1> QED  BY <1>6, <1>7, <1>8 DEF KbHandler

LEMMA BootKeepsQuiet ==
  ASSUME LineInv, QuietInv, BootThread
  PROVE  QuietInv'
<1>1. CASE BootCall
  BY <1>1 DEF BootCall, QuietInv
<1>2. CASE BootCli
  <2>1. /\ boot' = "cli" /\ term' = term /\ prompt_end' = prompt_end
        /\ boot = "next"
        /\ UNCHANGED <<handler, todo, command_line, command_index, line_quiet>>
    BY <1>2 DEF BootCli, Step, lineVars
  <2>2. Outside'
    BY <2>1 DEF Outside
  <2>3. Pending' = Pending
    BY <2>1 DEF Pending
  <2>4. ShowsLine(term, prompt_end, command_line, command_index - Pending)'
          = ShowsLine(term, prompt_end, command_line, command_index - Pending)
    BY <2>1, <2>3 DEF ShowsLine, Position
  <2> QED  BY <2>1, <2>2, <2>4 DEF QuietInv
<1>3. CASE ~BootCall /\ ~BootCli
  <2>1. boot \notin {"next", "cli"} /\ line_quiet' = line_quiet
    BY <1>3 DEF BootThread, BootFirstColumn, BootLoadRow, BootStoreRow,
         BootCheckRow, BootScroll, BootLoadLastRow, BootStoreLastRow,
         BootLoadCursorRow, BootLoadCursorColumn, BootDraw, BootLoadColumn,
         BootStoreColumn, Step
  <2> QED  BY <2>1 DEF QuietInv, Outside
<1> QED  BY <1>1, <1>2, <1>3

\* Blank cells after a move of the cursor, or after a scroll.
LEMMA BlankMoves ==
  ASSUME NEW t \in Screens, NEW u \in Screens, u.cell = t.cell,
         NEW n \in Int, NEW m \in Int, n <= m, BlankFrom(t, n)
  PROVE  BlankFrom(u, m)
  BY CellFacts DEF BlankFrom

LEMMA DrawAtCursor ==
  ASSUME NEW t \in Screens, NEW c \in Glyphs
  PROVE  /\ draw(t, t.x, t.y, c).x = t.x /\ draw(t, t.x, t.y, c).y = t.y
         /\ \A p \in CellNumbers :
              p # Position(t) => draw(t, t.x, t.y, c).cell[p] = t.cell[p]
<1>1. t.x \in Int /\ t.y \in Int
  BY DEF Screens
<1>2. \A p \in CellNumbers :
        p # t.y * Cols + t.x => draw(t, t.x, t.y, c).cell[p] = t.cell[p]
  BY <1>1, DrawFacts
<1> QED  BY <1>2, DrawMoves DEF Position

LEMMA PositionOf ==
  ASSUME NEW t \in Screens
  PROVE  /\ Position(t) \in Int /\ Cols \in Nat \ {0} /\ Rows \in Nat \ {0}
         /\ t.x \in Int /\ t.y \in Int
         /\ Position(MovedToColumn(t, 0)) + t.x = Position(t)
         /\ Position(MovedToColumn(t, t.x + 1)) = Position(t) + 1
         /\ Position(MovedToRow(t, t.y + 1)) = Position(t) + Cols
         /\ Position(MovedToRow(t, t.y - 1)) = Position(t) - Cols
<1>1. t.x \in Int /\ t.y \in Int /\ Position(t) \in Int
      /\ t.x + 1 \in Int /\ t.y + 1 \in Int /\ t.y - 1 \in Int /\ 0 \in Int
  BY PositionTyped DEF Screens
<1>2. /\ MovedToColumn(t, 0).x = 0 /\ MovedToColumn(t, 0).y = t.y
      /\ MovedToColumn(t, t.x + 1).x = t.x + 1 /\ MovedToColumn(t, t.x + 1).y = t.y
      /\ MovedToRow(t, t.y + 1).x = t.x /\ MovedToRow(t, t.y + 1).y = t.y + 1
      /\ MovedToRow(t, t.y - 1).x = t.x /\ MovedToRow(t, t.y - 1).y = t.y - 1
  BY <1>1, MoveAxisFacts
<1>3. /\ t.y * Cols \in Int /\ (t.y + 1) * Cols = t.y * Cols + Cols
      /\ (t.y - 1) * Cols = t.y * Cols - Cols /\ Cols \in Nat \ {0}
      /\ Rows \in Nat \ {0}
  BY <1>1, RowFacts
<1> QED  BY <1>1, <1>2, <1>3 DEF Position

LEMMA BootKeepsBehind ==
  ASSUME LineInv, BehindInv, BootThread
  PROVE  BehindInv'
<1>1. /\ term \in Screens /\ term.x \in Int /\ term.y \in Int
      /\ eax \in Int /\ ecx \in Int /\ char \in Glyphs
      /\ Position(term) \in Int /\ Cols \in Nat \ {0} /\ Rows \in Nat \ {0}
  BY BootTypeFacts, PositionOf DEF LineInv, ShellType
<1>2. handler' = "none" /\ torn' = torn /\ term' \in Screens
  <2>1. torn' = torn
    BY DEF BootThread, BootCall, BootFirstColumn, BootLoadRow, BootStoreRow,
         BootCheckRow, BootScroll, BootLoadLastRow, BootStoreLastRow,
         BootLoadCursorRow, BootLoadCursorColumn, BootDraw, BootLoadColumn,
         BootStoreColumn, BootCli, Step
  <2>2. ShellType'
    BY BootKeepsTypes DEF LineInv
  <2> QED  BY <2>1, <2>2, BootKeepsLine DEF ShellType
<1>3. SUFFICES ASSUME Undisturbed(term, boot, eax, ecx, char)
               PROVE  Undisturbed(term', boot', eax', ecx', char')
  <2>1. Undisturbed(term, boot, eax, ecx, char)'
          = Undisturbed(term', boot', eax', ecx', char')
    BY DEF Undisturbed, OnScreen, BlankBehind, BlankFrom, Position
  <2> QED  BY <1>2, <2>1 DEF BehindInv
<1>4. CASE BootCall
  <2>1. boot = "next" /\ term' = term
        /\ boot' = IF NeedsLine(term, char') THEN "first column" ELSE "check row"
    BY <1>4 DEF BootCall
  <2>2. OnScreen(term) /\ BlankBehind(term)
    BY <1>3, <2>1 DEF Undisturbed
  <2>3. CASE NeedsLine(term, char')
    BY <2>1, <2>2, <2>3 DEF Undisturbed
  <2>4. CASE ~NeedsLine(term, char')
    <3>1. term.x < Cols /\ term.y # Rows /\ term.y <= Rows
      BY <1>1, <2>2, <2>4 DEF NeedsLine, OnScreen
    <3> QED  BY <1>1, <2>1, <2>2, <2>4, <3>1 DEF Undisturbed, OnScreen
  <2> QED  BY <2>3, <2>4
<1>5. CASE BootFirstColumn
  <2>1. boot = "first column" /\ boot' = "load row" /\ term' = MovedToColumn(term, 0)
    BY <1>5 DEF BootFirstColumn, Step, MovedToColumn
  <2>2. OnScreen(term) /\ BlankBehind(term)
    BY <1>3, <2>1 DEF Undisturbed
  <2>3. term'.x = 0 /\ term'.y = term.y /\ term'.cell = term.cell
    <3>1. 0 \in Int
      OBVIOUS
    <3> QED  BY <1>1, <2>1, <3>1, MoveAxisFacts
  <2>4. Position(term') + Cols \in Int /\ Position(term) <= Position(term') + Cols
    <3>1. Position(term') + term.x = Position(term) /\ Position(term') \in Int
      BY <1>1, <1>2, <2>1, PositionOf, PositionTyped
    <3> QED  BY <1>1, <2>2, <3>1 DEF OnScreen
  <2>5. BlankFrom(term', Position(term') + Cols)
    BY <1>1, <1>2, <2>2, <2>3, <2>4, BlankMoves DEF BlankBehind
  <2>6. OnScreen(term')
    BY <1>1, <2>2, <2>3 DEF OnScreen
  <2> QED  BY <2>1, <2>3, <2>5, <2>6 DEF Undisturbed
<1>6. CASE BootLoadRow
  <2>1. boot = "load row" /\ boot' = "store row" /\ term' = term /\ eax' = term.y
    BY <1>6 DEF BootLoadRow, Step
  <2> QED  BY <1>3, <2>1 DEF Undisturbed
<1>7. CASE BootStoreRow
  <2>1. boot = "store row" /\ boot' = "check row" /\ eax = term.y /\ term.x = 0
        /\ OnScreen(term) /\ BlankFrom(term, Position(term) + Cols)
    BY <1>3, <1>7 DEF BootStoreRow, Step, Undisturbed
  <2>2. term' = MovedToRow(term, term.y + 1)
    BY <1>7, <2>1 DEF BootStoreRow, MovedToRow
  <2>3. term'.x = 0 /\ term'.y = term.y + 1 /\ term'.cell = term.cell
    <3>1. term.y + 1 \in Int
      BY <1>1
    <3> QED  BY <1>1, <2>1, <2>2, <3>1, MoveAxisFacts
  <2>4. Position(term') = Position(term) + Cols
    BY <1>1, <2>2, PositionOf
  <2>5. BlankBehind(term')
    BY <2>1, <2>3, <2>4 DEF BlankBehind, BlankFrom
  <2>6. /\ 0 <= term'.x /\ term'.x <= Cols /\ term'.x < Cols
        /\ 0 <= term'.y /\ term'.y <= Rows
    <3>1. 0 <= term.y /\ term.y <= Rows - 1
      BY <2>1 DEF OnScreen
    <3>2. 0 <= term.y + 1 /\ term.y + 1 <= Rows /\ 0 <= Cols /\ 0 < Cols
      BY <1>1, <3>1
    <3> QED  BY <2>3, <3>2
  <2> QED  BY <2>1, <2>3, <2>5, <2>6 DEF Undisturbed
<1>8. CASE BootCheckRow
  <2>1. /\ boot = "check row" /\ term' = term /\ char' = char
        /\ boot' = IF term.y >= Rows THEN "scroll"
                   ELSE IF char = NewLine THEN "next" ELSE "load cursor row"
    BY <1>8 DEF BootCheckRow, Step
  <2>2. /\ 0 <= term.x /\ term.x <= Cols /\ 0 <= term.y /\ term.y <= Rows
        /\ term.y = Rows => term.x = 0
        /\ char # NewLine => term.x < Cols
        /\ BlankBehind(term)
    BY <1>3, <2>1 DEF Undisturbed
  <2>3. CASE term.y >= Rows
    <3>1. boot' = "scroll"
      BY <2>1, <2>3
    <3>2. term.y = Rows
      BY <1>1, <2>2, <2>3
    <3> QED  BY <2>1, <2>2, <3>1, <3>2 DEF Undisturbed
  <2>4. CASE ~(term.y >= Rows)
    <3>1. OnScreen(term)
      BY <1>1, <2>2, <2>4 DEF OnScreen
    <3> QED  BY <2>1, <2>2, <2>4, <3>1 DEF Undisturbed
  <2> QED  BY <2>3, <2>4
<1>9. CASE BootScroll
  <2>1. boot = "scroll" /\ boot' = "load last row" /\ term' = scroll_up(term)
    BY <1>9 DEF BootScroll, Step
  <2>2. term.x = 0 /\ term.y = Rows
    BY <1>3, <2>1 DEF Undisturbed
  <2>3. /\ term'.x = 0 /\ term'.y = Rows
        /\ \A p \in CellNumbers :
             term'.cell[p] = IF p + Cols \in CellNumbers THEN term.cell[p + Cols] ELSE Blank
    BY <1>1, <2>1, <2>2, ScrollFacts
  <2>4. Position(term') = Rows * Cols
    BY <1>1, <2>3, CellFacts DEF Position
  <2>5. BlankFrom(term', Position(term') - Cols)
    <3>1. ASSUME NEW p \in CellNumbers, p >= Rows * Cols - Cols
          PROVE  term'.cell[p] = Blank
      <4>1. p + Cols \notin CellNumbers
        BY <1>1, <3>1, CellFacts
      <4> QED  BY <2>3, <4>1
    <3> QED  BY <2>4, <3>1 DEF BlankFrom
  <2> QED  BY <2>1, <2>3, <2>5 DEF Undisturbed
<1>10. CASE BootLoadLastRow
  <2>1. /\ boot = "load last row" /\ boot' = "store last row"
        /\ term' = term /\ eax' = term.y
    BY <1>10 DEF BootLoadLastRow, Step
  <2> QED  BY <1>3, <2>1 DEF Undisturbed
<1>11. CASE BootStoreLastRow
  <2>1. /\ boot = "store last row" /\ term.x = 0 /\ term.y = Rows /\ eax = Rows
        /\ BlankFrom(term, Position(term) - Cols)
        /\ boot' = IF char = NewLine THEN "next" ELSE "load cursor row"
        /\ char' = char
    BY <1>3, <1>11 DEF BootStoreLastRow, Step, Undisturbed
  <2>2. term' = MovedToRow(term, term.y - 1)
    BY <1>11, <2>1 DEF BootStoreLastRow, MovedToRow
  <2>3. term'.x = 0 /\ term'.y = Rows - 1 /\ term'.cell = term.cell
    <3>1. term.y - 1 \in Int
      BY <1>1
    <3> QED  BY <1>1, <2>1, <2>2, <3>1, MoveAxisFacts
  <2>4. Position(term') = Position(term) - Cols
    BY <1>1, <2>2, PositionOf
  <2>5. BlankBehind(term')
    BY <2>1, <2>3, <2>4 DEF BlankBehind, BlankFrom
  <2>6. OnScreen(term') /\ term'.x < Cols
    BY <1>1, <2>3 DEF OnScreen
  <2> QED  BY <2>1, <2>5, <2>6 DEF Undisturbed
<1>12. CASE BootLoadCursorRow
  <2>1. boot = "load cursor row" /\ boot' = "load cursor column"
        /\ term' = term /\ eax' = term.y
    BY <1>12 DEF BootLoadCursorRow, Step
  <2> QED  BY <1>3, <2>1 DEF Undisturbed
<1>13. CASE BootLoadCursorColumn
  <2>1. boot = "load cursor column" /\ boot' = "draw"
        /\ term' = term /\ eax' = eax /\ ecx' = term.x
    BY <1>13 DEF BootLoadCursorColumn, Step
  <2> QED  BY <1>3, <2>1 DEF Undisturbed
<1>14. CASE BootDraw
  <2>1. /\ boot = "draw" /\ boot' = "load column" /\ eax = term.y /\ ecx = term.x
        /\ OnScreen(term) /\ term.x < Cols /\ BlankBehind(term)
    BY <1>3, <1>14 DEF BootDraw, Step, Undisturbed
  <2>2. term' = draw(term, term.x, term.y, char)
    BY <1>14, <2>1 DEF BootDraw
  <2>3. /\ term'.x = term.x /\ term'.y = term.y
        /\ \A p \in CellNumbers : p # Position(term) => term'.cell[p] = term.cell[p]
    BY <1>1, <2>2, DrawAtCursor
  <2>4. Position(term') = Position(term)
    BY <2>3 DEF Position
  <2>5. BlankFrom(term', Position(term') + 1)
    <3>1. ASSUME NEW p \in CellNumbers, p >= Position(term) + 1
          PROVE  term'.cell[p] = Blank
      <4>1. p # Position(term) /\ p >= Position(term)
        BY <1>1, <3>1, CellFacts
      <4> QED  BY <2>1, <2>3, <4>1 DEF BlankBehind, BlankFrom
    <3> QED  BY <2>4, <3>1 DEF BlankFrom
  <2> QED  BY <2>1, <2>3, <2>5 DEF Undisturbed, OnScreen
<1>15. CASE BootLoadColumn
  <2>1. boot = "load column" /\ boot' = "store column"
        /\ term' = term /\ eax' = term.x
    BY <1>15 DEF BootLoadColumn, Step
  <2> QED  BY <1>3, <2>1 DEF Undisturbed
<1>16. CASE BootStoreColumn
  <2>1. /\ boot = "store column" /\ boot' = "next" /\ eax = term.x
        /\ OnScreen(term) /\ term.x < Cols /\ BlankFrom(term, Position(term) + 1)
    BY <1>3, <1>16 DEF BootStoreColumn, Step, Undisturbed
  <2>2. term' = MovedToColumn(term, term.x + 1)
    BY <1>16, <2>1 DEF BootStoreColumn, MovedToColumn
  <2>3. term'.x = term.x + 1 /\ term'.y = term.y /\ term'.cell = term.cell
    <3>1. term.x + 1 \in Int
      BY <1>1
    <3> QED  BY <1>1, <2>2, <3>1, MoveAxisFacts
  <2>4. Position(term') = Position(term) + 1
    BY <1>1, <2>2, PositionOf
  <2>5. BlankBehind(term')
    BY <2>1, <2>3, <2>4 DEF BlankBehind, BlankFrom
  <2>6. OnScreen(term')
    <3>1. /\ 0 <= term.x /\ 0 <= term.y /\ term.y <= Rows - 1
          /\ term.x < Cols /\ term.x \in Int /\ Cols \in Nat
      BY <1>1, <2>1 DEF OnScreen
    <3>2. 0 <= term.x + 1 /\ term.x + 1 <= Cols
      BY <3>1
    <3> QED  BY <2>3, <3>1, <3>2 DEF OnScreen
  <2> QED  BY <2>1, <2>5, <2>6 DEF Undisturbed
<1>17. CASE BootCli
  <2>1. boot = "next" /\ boot' = "cli" /\ term' = term
    BY <1>17 DEF BootCli, Step
  <2> QED  BY <1>3, <2>1 DEF Undisturbed
<1> QED  BY <1>4, <1>5, <1>6, <1>7, <1>8, <1>9, <1>10, <1>11, <1>12, <1>13,
            <1>14, <1>15, <1>16, <1>17 DEF BootThread

LEMMA NextScreen ==
  ASSUME LineFits, LineInv, CursorInv, ScreenInv, [Next]_vars
  PROVE  ScreenInv'
<1>1. CASE (\E key \in Keys : KeyPress(key)) \/ UNCHANGED vars
  <2>1. UNCHANGED <<term, handler, todo, command_line, command_index, boot, char,
                    eax, ecx, prompt_end, line_quiet, torn>>
    BY <1>1 DEF KeyPress, vars, lineVars, bootVars, historyVars
  <2>2. Pending' = Pending /\ Outside' = Outside
    BY <2>1 DEF Pending, Outside
  <2>3. Rejoined'
    BY <2>1 DEF ScreenInv, Rejoined
  <2>4. QuietInv'
    BY <2>1, <2>2 DEF ScreenInv, QuietInv, ShowsLine, Position
  <2>5. BehindInv'
    BY <2>1, <2>2 DEF ScreenInv, BehindInv, Undisturbed, OnScreen, BlankBehind,
                      BlankFrom, Position
  <2> QED  BY <2>3, <2>4, <2>5 DEF ScreenInv
<1>2. CASE BootThread
  <2>1. Rejoined'
    BY <1>2, BootKeepsLine DEF Rejoined
  <2> QED  BY <1>2, <2>1, BootKeepsQuiet, BootKeepsBehind DEF ScreenInv
<1>3. CASE KbHandler
  BY <1>3, HandlerKeepsRejoined, HandlerKeepsQuiet, HandlerKeepsBehind DEF ScreenInv
<1> QED  BY <1>1, <1>2, <1>3 DEF Next

\* A line that began while the boot thread was outside print_char is on the
\* screen, exactly as Enter will execute it, until that thread prints again,
\* whatever was printed before and however the two were mixed then; nothing
\* stands behind it until the handler first ran inside print_char
\* (shell.c:99-154, video.c:78-110).
THEOREM LineStaysShown ==
  ASSUME LineFits
  PROVE  Spec => []ScreenShowsLine
<1>1. Init => CursorInv /\ ScreenInv
  BY InitCursor, InitScreen
<1>2. LineInv /\ CursorInv /\ ScreenInv /\ [Next]_vars => CursorInv' /\ ScreenInv'
  BY NextCursor, NextScreen
<1>3. ASSUME LineInv, ScreenInv
      PROVE  ScreenShowsLine
  <2>1. SUFFICES ASSUME line_quiet, handler = "none"
                 PROVE  /\ Position(term) = prompt_end + command_index
                        /\ \A i \in Slots :
                             i < command_index /\ prompt_end + i \in CellNumbers
                             => term.cell[prompt_end + i] = command_line[i]
                        /\ ~torn => \A p \in CellNumbers :
                             p >= Position(term) => term.cell[p] = Blank
    BY DEF ScreenShowsLine
  <2>2. command_index - Pending = command_index
    <3>1. Pending = 0
      BY <2>1 DEF Pending
    <3>2. command_index \in Nat
      BY <1>3, SlotFacts DEF LineInv, ShellType
    <3> QED  BY <3>1, <3>2
  <2>3. ShowsLine(term, prompt_end, command_line, command_index)
    BY <1>3, <2>1, <2>2 DEF ScreenInv, QuietInv
  <2>4. ~torn => BlankBehind(term)
    BY <1>3, <2>1 DEF ScreenInv, QuietInv, BehindInv, Undisturbed, Outside
  <2> QED  BY <2>3, <2>4 DEF BlankBehind, BlankFrom, ShowsLine
<1> QED  BY <1>1, <1>2, <1>3, LineInvariant, PTL DEF Spec

=============================================================================

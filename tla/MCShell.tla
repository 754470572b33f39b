------------------------------- MODULE MCShell -------------------------------
(***************************************************************************)
(* A small screen and a short command line for TLC.  Every output and the  *)
(* prompt are short enough for a few commands to fill the screen.          *)
(***************************************************************************)
EXTENDS Shell

MCPrompt == <<"$">>
MCOutputs == { << >>, <<"o", NewLine>> }

\* The screen is as small as the proofs allow for the line.
ASSUME MCLineFits == LineFits

\* What the next steps and the properties can tell of the cells: those of a
\* quiet line, and, before the handler first ran inside print_char, whether one
\* stands where the boot thread or the handler prints next or behind.  States
\* that differ in other cells only need not be told apart.
LineCells == {p \in CellNumbers : p >= prompt_end /\ p < Position(term)}
LineView ==
  IF line_quiet /\ handler \in {"none", "echo"}
  THEN <<prompt_end, [p \in LineCells |-> term.cell[p]]>> ELSE << >>

NextPosition ==
  IF boot \in {"load row", "store row"} THEN Position(term) + Cols ELSE Position(term)
BehindView ==
  IF torn THEN {}
  ELSE {p \in CellNumbers : p >= NextPosition /\ term.cell[p] # Blank}

LineOrScreenView ==
  <<term.x, term.y, kbd, handler, todo, lineVars, bootVars, line_quiet, torn,
    LineView, BehindView>>

=============================================================================

-------------------------------- MODULE Shell --------------------------------
(***************************************************************************)
(* The keyboard interrupt of shell.c and the boot thread it interrupts.    *)
(*                                                                         *)
(* From the sti in init_idt on, kb_handler runs between any two machine    *)
(* instructions of the boot thread, which is printing its messages with    *)
(* the same print_char and the same term_x and term_y.  The handler itself *)
(* is not interrupted (an interrupt gate clears the interrupt flag), and   *)
(* the interrupt controller holds the next key back until the handler's    *)
(* end-of-interrupt.  The boot thread takes one step per access to term_x  *)
(* or term_y, in the order of the unoptimised code the Makefile asks for.  *)
(* After its last character, the prompt's, it executes cli for good.       *)
(***************************************************************************)
EXTENDS Console

CONSTANTS
  Chars,      \* printable keys
  NoKey,      \* no key waits at port 0x60
  NUL,
  LineSize,   \* sizeof(command_line)
  Outputs,    \* what execute_command can print, as sequences of characters
  Prompt,     \* what print_prompt prints
  Letters,    \* the characters of these, other than NewLine
  BootChar,   \* the character of a boot message
  BootPrints  \* how many characters the boot thread prints before its cli

BackSpace == "backspace"
OtherKey == "other"   \* keyboard_map holds 0, or the scancode is past its end
Keys == Chars \cup {BackSpace, NewLine, OtherKey}

ASSUME ShellAssumption ==
  /\ LineSize \in Nat \ {0}
  /\ BootPrints \in Nat
  /\ Outputs \subseteq Seq(Letters \cup {NewLine})
  /\ Prompt \in Seq(Letters \cup {NewLine})
  /\ Chars \cap {BackSpace, NewLine, OtherKey} = {}
  /\ NoKey \notin Keys
  /\ NUL \notin Chars \cup {BackSpace}

VARIABLES
  term,           \* the console
  kbd,            \* the key waiting in the keyboard controller, or NoKey
  handler,        \* where kb_handler is: "none", "echo", "command", "prompt",
                  \* or "waiting" for a drive that does not answer
  todo,           \* what it still has to print there
  command_line, command_index,
  boot,           \* the boot thread's next step in print_char, or "cli"
  char,           \* the character it prints
  eax, ecx,       \* what it has loaded of term_x and term_y
  prints,         \* how many characters it has begun, up to BootPrints
  prompt_end,     \* history: the cursor's position after the last prompt
  line_quiet,     \* history: the boot thread was outside print_char when the
                  \* line began and has not called it since
  torn            \* history: the handler has run inside its print_char

bootVars == <<boot, char, eax, ecx, prints>>
lineVars == <<command_line, command_index>>
historyVars == <<prompt_end, line_quiet, torn>>
vars == <<term, kbd, handler, todo, command_line, command_index, boot, char,
          eax, ecx, prints, prompt_end, line_quiet, torn>>

Slots == 0..(LineSize - 1)
EmptyLine == [i \in Slots |-> NUL]

\* The boot thread is between two characters, or after the last.
Outside == boot \in {"next", "cli"}

Init ==
  /\ term = ClearScreen
  /\ kbd = NoKey
  /\ handler = "none" /\ todo = << >>
  /\ command_line = EmptyLine /\ command_index = 0
  /\ boot = "next" /\ char = BootChar /\ eax = 0 /\ ecx = 0 /\ prints = 0
  /\ prompt_end = 0 /\ line_quiet = TRUE /\ torn = FALSE

\* The history variable moves up with the text it points into.
Scrolled(t, c) == AdvanceLine(t, c).y >= Rows
PromptAfter(t, c) == IF Scrolled(t, c) THEN prompt_end - Cols ELSE prompt_end

-----------------------------------------------------------------------------
\* The keyboard.
KeyPress(key) ==
  /\ kbd = NoKey
  /\ kbd' = key
  /\ UNCHANGED <<term, handler, todo, lineVars, bootVars, historyVars>>

\* kb_handler starts, interrupts being on, and takes the key from port 0x60.
Enter(key) ==
  /\ handler = "none" /\ boot # "cli"
  /\ key # NoKey
  /\ kbd = key
  /\ kbd' = NoKey
  /\ torn' = (torn \/ ~Outside)
  /\ UNCHANGED <<bootVars, line_quiet>>

\* key == '\b' && command_index > 0, and a test without the second half.
ErasesAlways(key) == key = BackSpace
Erases(key) == key = BackSpace /\ command_index > 0

KbErase ==
  /\ Enter(kbd)
  /\ Erases(kbd)
  /\ command_index' = command_index - 1
  /\ command_line' = [command_line EXCEPT ![command_index - 1] = NUL]
  /\ term' = handle_backspace(term)
  /\ handler' = "echo"
  /\ UNCHANGED <<todo, prompt_end>>

\* What execute_command may print for the line, whichever command it is (ls,
\* echo, cat, cd or none of them) and whether or not it returns; and what
\* print_prompt prints.
execute_command == Outputs
print_prompt == Prompt

KbCommand ==
  /\ Enter(kbd)
  /\ kbd = NewLine
  /\ handler' = "command"
  /\ \E out \in execute_command : todo' = <<NewLine>> \o out
  /\ UNCHANGED <<term, lineVars, prompt_end>>

\* key && command_index < sizeof(command_line) - 1.  A backspace at the start
\* of the line ends up here: it is stored and printed like a letter.
Fits(key) == key \in Chars \cup {BackSpace} /\ command_index < LineSize - 1

KbAppend ==
  /\ Enter(kbd)
  /\ ~Erases(kbd) /\ Fits(kbd)
  /\ command_line' = [command_line EXCEPT ![command_index] = kbd]
  /\ command_index' = command_index + 1
  /\ handler' = "echo"
  /\ todo' = <<kbd>>
  /\ UNCHANGED <<term, prompt_end>>

KbIgnore ==
  /\ Enter(kbd)
  /\ kbd # NewLine /\ ~Erases(kbd) /\ ~Fits(kbd)
  /\ handler' = "echo"
  /\ UNCHANGED <<term, todo, lineVars, prompt_end>>

\* print_char and printf inside the handler.
KbPrint ==
  /\ todo # << >>
  /\ term' = print_char(term, Head(todo))
  /\ prompt_end' = PromptAfter(term, Head(todo))
  /\ todo' = Tail(todo)
  /\ UNCHANGED <<kbd, handler, lineVars, bootVars, line_quiet, torn>>

\* ls, cat or cd waits in read_sector for a drive that never answers.
KbWait ==
  /\ handler = "command" /\ todo = << >>
  /\ handler' = "waiting"
  /\ UNCHANGED <<term, kbd, todo, lineVars, bootVars, historyVars>>

\* After execute_command: command_index = 0, memset, print_prompt.
ClearedNot == command_line
Cleared == EmptyLine

KbPrompt ==
  /\ handler = "command" /\ todo = << >>
  /\ command_index' = 0
  /\ command_line' = Cleared
  /\ handler' = "prompt"
  /\ todo' = print_prompt
  /\ UNCHANGED <<term, kbd, bootVars, historyVars>>

\* pic_end_master and iretq; without the first the controller sends no more.
NoEndOfInterrupt == handler' = handler
EndOfInterrupt == handler' = "none"

KbReturn ==
  /\ handler \in {"echo", "prompt"} /\ todo = << >>
  /\ EndOfInterrupt
  /\ prompt_end' = IF handler = "prompt" THEN Position(term) ELSE prompt_end
  /\ line_quiet' = IF handler = "prompt" THEN Outside ELSE line_quiet
  /\ UNCHANGED <<term, kbd, todo, lineVars, bootVars, torn>>

KbHandler ==
  \/ KbErase \/ KbCommand \/ KbAppend \/ KbIgnore
  \/ KbPrint \/ KbWait \/ KbPrompt \/ KbReturn

-----------------------------------------------------------------------------
\* The boot thread in print_char, one access to the cursor at a time.
Step(from, to) ==
  /\ handler = "none"
  /\ boot = from
  /\ boot' = to
  /\ UNCHANGED <<kbd, handler, todo, lineVars, prints, line_quiet, torn>>

BootCall ==
  /\ prints < BootPrints
  /\ handler = "none" /\ boot = "next"
  /\ char' \in {BootChar, NewLine}
  /\ boot' = IF NeedsLine(term, char') THEN "first column" ELSE "check row"
  /\ prints' = prints + 1
  /\ line_quiet' = FALSE
  /\ UNCHANGED <<term, kbd, handler, todo, lineVars, eax, ecx, prompt_end, torn>>

BootFirstColumn ==
  /\ Step("first column", "load row")
  /\ term' = [term EXCEPT !.x = 0]
  /\ UNCHANGED <<char, eax, ecx, prompt_end>>

BootLoadRow ==
  /\ Step("load row", "store row")
  /\ eax' = term.y
  /\ UNCHANGED <<term, char, ecx, prompt_end>>

BootStoreRow ==
  /\ Step("store row", "check row")
  /\ term' = [term EXCEPT !.y = eax + 1]
  /\ UNCHANGED <<char, eax, ecx, prompt_end>>

BootCheckRow ==
  /\ Step("check row", IF term.y >= Rows THEN "scroll"
                       ELSE IF char = NewLine THEN "next" ELSE "load cursor row")
  /\ UNCHANGED <<term, char, eax, ecx, prompt_end>>

BootScroll ==
  /\ Step("scroll", "load last row")
  /\ term' = scroll_up(term)
  /\ prompt_end' = prompt_end - Cols
  /\ UNCHANGED <<char, eax, ecx>>

BootLoadLastRow ==
  /\ Step("load last row", "store last row")
  /\ eax' = term.y
  /\ UNCHANGED <<term, char, ecx, prompt_end>>

BootStoreLastRow ==
  /\ Step("store last row", IF char = NewLine THEN "next" ELSE "load cursor row")
  /\ term' = [term EXCEPT !.y = eax - 1]
  /\ UNCHANGED <<char, eax, ecx, prompt_end>>

BootLoadCursorRow ==
  /\ Step("load cursor row", "load cursor column")
  /\ eax' = term.y
  /\ UNCHANGED <<term, char, ecx, prompt_end>>

BootLoadCursorColumn ==
  /\ Step("load cursor column", "draw")
  /\ ecx' = term.x
  /\ UNCHANGED <<term, char, eax, prompt_end>>

BootDraw ==
  /\ Step("draw", "load column")
  /\ term' = draw(term, ecx, eax, char)
  /\ UNCHANGED <<char, eax, ecx, prompt_end>>

BootLoadColumn ==
  /\ Step("load column", "store column")
  /\ eax' = term.x
  /\ UNCHANGED <<term, char, ecx, prompt_end>>

BootStoreColumn ==
  /\ Step("store column", "next")
  /\ term' = [term EXCEPT !.x = eax + 1]
  /\ UNCHANGED <<char, eax, ecx, prompt_end>>

\* _start executes cli after its prompt; what follows ends in an exception with
\* interrupts off, so that no key is taken any more.
BootCli ==
  /\ prints = BootPrints
  /\ Step("next", "cli")
  /\ UNCHANGED <<term, char, eax, ecx, prompt_end>>

BootThread ==
  \/ BootCall \/ BootFirstColumn \/ BootLoadRow \/ BootStoreRow
  \/ BootCheckRow \/ BootScroll \/ BootLoadLastRow \/ BootStoreLastRow
  \/ BootLoadCursorRow \/ BootLoadCursorColumn \/ BootDraw
  \/ BootLoadColumn \/ BootStoreColumn \/ BootCli

Next == (\E key \in Keys : KeyPress(key)) \/ KbHandler \/ BootThread

\* The processor takes the interrupt and runs the handler to its end, or to a
\* wait for the drive; when the next key comes and whether the boot thread gets
\* on is left open.
Spec == Init /\ [][Next]_vars /\ WF_vars(KbHandler)

-----------------------------------------------------------------------------
(***************************************************************************)
(* Properties.                                                             *)
(***************************************************************************)

TypeOK ==
  /\ term.x \in Int /\ term.y \in Int /\ DOMAIN term.cell = CellNumbers
  /\ kbd \in Keys \cup {NoKey}
  /\ handler \in {"none", "echo", "command", "prompt", "waiting"}
  /\ command_line \in [Slots -> Chars \cup {BackSpace, NUL}]
  /\ command_index \in Slots
  /\ eax \in Int /\ ecx \in Int
  /\ prints \in 0..BootPrints

\* execute_command gets a string: exactly the first command_index slots of the
\* line are in use and a NUL follows, however full the line and whatever was
\* in it before, also while the boot thread prints.
LineIsString ==
  \A i \in Slots : (command_line[i] = NUL) <=> (i >= command_index)

\* The user sees the line that Enter will execute, as long as the boot thread
\* does not print into it, whatever it printed before: if a line began with
\* that thread outside print_char, the cursor stands as many cells after the
\* prompt as there are characters in the line and those cells show them.  Until
\* the handler first ran inside that thread's print_char, nothing stands behind
\* either; after that an earlier row may.  Backspace, the end of a row,
\* scrolling and commands keep it so.
ScreenShowsLine ==
  line_quiet /\ handler = "none" =>
    /\ Position(term) = prompt_end + command_index
    /\ \A i \in Slots : i < command_index /\ prompt_end + i \in CellNumbers
         => term.cell[prompt_end + i] = command_line[i]
    /\ ~torn => \A p \in CellNumbers : p >= Position(term) => term.cell[p] = Blank

\* The cursor is never further than one cell right of or one row below the
\* screen, whichever instructions of print_char the handler runs between.
CursorNearScreen ==
  /\ 0 <= term.x /\ term.x <= Cols + 1
  /\ 0 <= term.y /\ term.y <= Rows

\* Every key is taken from the controller, so none blocks the next, until the
\* boot thread's cli at the latest, unless a command waits for a drive that does
\* not answer.
KeysTaken == kbd # NoKey ~> kbd = NoKey \/ boot = "cli" \/ handler = "waiting"

\* The command line is shorter than the screen without two of its rows (256
\* characters in the code): what the proofs of the last two invariants need.
LineFits ==
  /\ Rows >= 2 /\ LineSize >= 2
  /\ LineSize <= (Rows - 2) * Cols + 2

=============================================================================

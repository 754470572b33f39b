-------------------------------- MODULE Printf --------------------------------
(***************************************************************************)
(* The formatted output of video.c and serial.c, on top of the number      *)
(* functions of Library: printf, serial_putsf, log, and vprintf with its   *)
(* __int_str.  A format is a sequence of characters, an argument a number, *)
(* a character or a string; the result is the sequence of characters that  *)
(* go to print_char or to the serial port.  Colours are left out.          *)
(***************************************************************************)
EXTENDS Library

CONSTANTS
  MinShort, MinLong,   \* the smallest short and long; ints are Library's
  HexWidth,            \* hexadecimal digits of an int: 8
  VaList, FrameWords,  \* the address of log's argument list, words of its frame
  PrintfPieces,        \* pieces of messages for printf, each [format, args, shown]
  SerialPieces,        \* ... for serial_putsf
  LogPieces,           \* ... for log: the kernel's messages there have numbers only
  VprintfPieces        \* ... for vprintf

ASSUME PrintfAssumption ==
  /\ MinShort \in Int /\ MinLong \in Int
  /\ MinLong < MinInt /\ MinInt < MinShort /\ MinShort < 0
  /\ 16^HexWidth >= (-2) * MinInt
  /\ VaList \in Nat /\ FrameWords \subseteq Nat

lower == <<"0", "1", "2", "3", "4", "5", "6", "7", "8", "9", "a", "b", "c", "d", "e", "f">>
upper == <<"0", "1", "2", "3", "4", "5", "6", "7", "8", "9", "A", "B", "C", "D", "E", "F">>

\* A text of Library, whose digits are numbers, in characters.
Chars(digits, figures) ==
  [k \in DOMAIN digits |-> IF digits[k] = Minus THEN "-" ELSE figures[digits[k] + 1]]

\* Conversions between integer types: the low bits, signed or not.
Signed_(v, min) == ((v - min) % ((-2) * min)) + min
Unsigned_(v, min) == v % ((-2) * min)

\* print_hex always shows all digits, in upper case.
print_hex(v) ==
  [k \in 1..HexWidth |-> upper[((Unsigned_(v, MinInt) \div 16^(HexWidth - k)) % 16) + 1]]

-----------------------------------------------------------------------------
\* printf and serial_putsf walk the format.  mode counts the characters of the
\* directive they have seen: none, '%', '%l' or '%ll'.  What each knows in
\* which mode, and how it turns an argument into characters:
printf_knows(mode) ==
  CASE mode = 1 -> {"c", "d", "u", "x", "s"}
    [] mode = 2 -> {"d", "u", "x", "p"}
    [] mode = 3 -> {"u", "x"}

printf_text(mode, c, v) ==
  CASE c = "c" -> <<v>>
    [] c = "s" -> v
    [] mode = 1 /\ c = "d" -> Chars(itoa(v, 10), lower)
    [] mode = 1 /\ c = "u" -> Chars(utoa(v, 10), lower)
    [] mode = 1 /\ c = "x" -> Chars(utoa(v, 16), lower)
    [] mode = 2 /\ c = "d" -> Chars(litoa(v, 10), lower)
    [] mode = 2 /\ c = "u" -> Chars(ultoa(v, 10), lower)
    [] mode = 2 /\ c = "x" -> print_hex(v)
    [] mode = 2 /\ c = "p" -> Chars(utoa(Unsigned_(v, MinInt), 16), lower)
    [] mode = 3 /\ c = "u" -> Chars(ullitoa(v, 10), lower)
    [] mode = 3 /\ c = "x" -> Chars(ullitoa(v, 16), lower)

serial_knows(mode) ==
  CASE mode = 1 -> {"c", "d", "u", "x", "s", "p"}
    [] mode = 2 -> {"d", "u", "x"}
    [] mode = 3 -> {"x"}

\* ... here longs become ints on the way into itoa and utoa.
serial_text(mode, c, v) ==
  CASE c = "c" -> <<v>>
    [] c = "s" -> v
    [] mode < 3 /\ c = "d" -> Chars(itoa(Signed_(v, MinInt), 10), lower)
    [] mode < 3 /\ c = "u" -> Chars(utoa(Unsigned_(v, MinInt), 10), lower)
    [] mode < 3 /\ c \in {"x", "p"} -> Chars(utoa(Unsigned_(v, MinInt), 16), lower)
    [] mode = 3 /\ c = "x" -> Chars(ullitoa(v, 16), lower)

\* One character of the format.  va_arg takes the next argument; the first
\* form of it looks at the argument and leaves it there.  screen says which of the
\* two functions is at work.
va_arg_peek(args) == args
va_arg(args) == Tail(args)

FormatStep(s, c, screen) ==
  LET known == IF screen THEN printf_knows(s.mode) ELSE serial_knows(s.mode)
      shown(v) == IF screen THEN printf_text(s.mode, c, v) ELSE serial_text(s.mode, c, v)
  IN CASE s.mode = 0 /\ c = "%" -> [s EXCEPT !.mode = 1]
       [] s.mode = 0 /\ c # "%" -> [s EXCEPT !.out = Append(@, c)]
       [] s.mode > 0 /\ c \in known ->
            [mode |-> 0, out |-> s.out \o shown(Head(s.args)), args |-> va_arg(s.args)]
       [] s.mode > 0 /\ c = "l" /\ s.mode < 3 -> [s EXCEPT !.mode = @ + 1]
       [] OTHER -> [s EXCEPT !.mode = 0]

Formatted(format, args, screen) ==
  FoldLeft(LAMBDA s, c : FormatStep(s, c, screen),
           [mode |-> 0, out |-> << >>, args |-> args], format).out

printf(format, args) == Formatted(format, args, TRUE)
serial_putsf(format, args) == Formatted(format, args, FALSE)

\* log hands its argument list on as the first argument; what printf takes
\* after that are words of log's frame.
log_arguments(args) ==
  {words \in [DOMAIN args -> FrameWords \cup {VaList}] : args # << >> => words[1] = VaList}

-----------------------------------------------------------------------------
\* vprintf.  A directive is read from the position after its '%': flags, width,
\* precision (which nothing uses), length, specifier.
CharAt(format, i) == IF i <= Len(format) THEN format[i] ELSE "NUL"

PastAll(format, i, set) ==
  CHOOSE j \in i..(Len(format) + 1) :
    /\ CharAt(format, j) \notin set
    /\ \A k \in i..(j - 1) : format[k] \in set

DigitChars == {lower[k] : k \in 1..10}
ReadNumber(format, i, j) ==
  FoldLeft(LAMBDA n, c : 10 * n + (CHOOSE d \in 0..9 : lower[d + 1] = c), 0, SubSeq(format, i, j - 1))

Star(format, i) == IF CharAt(format, i) = "*" THEN 1 ELSE 0

\* A second h makes the length "H" without being passed over; a second l is.
LengthOf(format, i) ==
  LET c == CharAt(format, i)
      next == CharAt(format, i + 1)
  IN CASE c \notin {"h", "l", "j", "z", "t", "L"} -> [length |-> "", after |-> i]
       [] c \in {"h", "l", "j", "z", "t", "L"} /\ next = "h" -> [length |-> "H", after |-> i + 1]
       [] c \in {"h", "l", "j", "z", "t", "L"} /\ next = "l" -> [length |-> "q", after |-> i + 2]
       [] OTHER -> [length |-> c, after |-> i + 1]

Directive(format, i, args) ==
  LET flagsEnd == PastAll(format, i, {"-", "+", "#", " ", "0"})
      widthEnd == PastAll(format, flagsEnd, DigitChars)
      star == Star(format, widthEnd)
      dot == widthEnd + star
      precision == IF CharAt(format, dot) = "." THEN PastAll(format, dot + 1, DigitChars) ELSE dot
      precisionStar == IF CharAt(format, dot) = "." THEN Star(format, precision) ELSE 0
      size == LengthOf(format, precision + precisionStar)
  IN [flags  |-> {format[k] : k \in i..(flagsEnd - 1)},
      width  |-> IF star = 1 THEN args[1] ELSE ReadNumber(format, flagsEnd, widthEnd),
      stars  |-> star + precisionStar,
      length |-> size.length,
      spec   |-> CharAt(format, size.after),
      after  |-> size.after + 1]

\* The arguments left when the widths and precisions among them are taken, or
\* only looked at, as in the first form.
AfterStars_peek(args, d) == args
AfterStars(args, d) == SubSeq(args, d.stars + 1, Len(args))

\* __int_str: sign, digits, padding to the width, in a buffer of 256 bytes that
\* it does not look after: its callers' widths have to fit.
IntStrBuffer == 256

Padding(width, b) == IF width - Len(b) < 0 THEN 0 ELSE width - Len(b)

__int_str(v, base, plus, space, width, left, zero) ==
  LET sign == IF v < 0 THEN <<"-">> ELSE IF plus THEN <<"+">> ELSE IF space THEN <<" ">> ELSE << >>
      digits == Reverse(DigitsUp(IF v < 0 THEN -v ELSE v, IF base = 17 THEN 16 ELSE base))
      b == sign \o Chars(digits, IF base = 16 THEN upper ELSE lower)
      padding == [k \in 1..Padding(width, b) |-> IF zero THEN "0" ELSE " "]
  IN IF left THEN b \o padding ELSE padding \o b

\* The type that va_arg reads and __int_str gets as an intmax_t.
Narrowed(v, length, unsigned) ==
  CASE length = ""  -> IF unsigned THEN Unsigned_(v, MinInt) ELSE Signed_(v, MinInt)
    [] length = "h" -> IF unsigned THEN Unsigned_(v, MinShort) ELSE Signed_(v, MinShort)
    [] OTHER        -> Signed_(v, MinLong)

BaseOf(spec) ==
  CASE spec = "o" -> 8 [] spec \in {"X", "p"} -> 16 [] spec = "x" -> 17 [] OTHER -> 10

Prefix(d) ==
  IF "#" \notin d.flags THEN << >>
  ELSE CASE d.spec = "o" -> <<"0">> [] d.spec \in {"x", "X"} -> <<"0", "x">> [] OTHER -> << >>

NumberSpecs == {"o", "p", "X", "x", "u", "d", "i"}

\* What a directive shows, and whether it takes an argument.  A number of
\* length L or H has no case in the inner switch (H is never met: the h that
\* follows is taken for the specifier).
ShowsNumber(d) == d.spec \in NumberSpecs /\ (d.length \notin {"L", "H"} \/ d.spec = "p")

\* "n" takes the address at which it stores how many characters there were so
\* far (the store is not modelled), and shows nothing.
Takes(d) ==
  \/ ShowsNumber(d)
  \/ d.spec \in {"c", "s"}
  \/ d.spec = "n" /\ d.length # "L"

Shows(d, v) ==
  CASE ShowsNumber(d) ->
         Prefix(d) \o __int_str(Narrowed(v, IF d.spec = "p" THEN "z" ELSE d.length,
                                         d.spec \notin {"d", "i"}),
                                BaseOf(d.spec), "+" \in d.flags, " " \in d.flags, d.width,
                                "-" \in d.flags, "0" \in d.flags)
    [] d.spec = "c" -> <<v>>
    [] d.spec = "s" -> v
    [] d.spec \in {"e", "E"} -> <<d.spec, "+", "0", "0">>
    [] OTHER -> Prefix(d)

\* The loop over the format: characters before `at' belong to a directive.
vprintf(format, args) ==
  LET Step(s, i) ==
        CASE i < s.at -> s
          [] i >= s.at /\ format[i] # "%" -> [s EXCEPT !.out = Append(@, format[i])]
          [] i >= s.at /\ format[i] = "%" ->
               LET d == Directive(format, i + 1, s.args)
                   rest == AfterStars(s.args, d)
               IN IF Takes(d)
                  THEN [at |-> d.after, out |-> s.out \o Shows(d, Head(rest)), args |-> Tail(rest)]
                  ELSE [at |-> d.after, out |-> s.out \o Shows(d, 0), args |-> rest]
  IN FoldLeft(Step, [at |-> 1, out |-> << >>, args |-> args], [k \in 1..Len(format) |-> k]).out

-----------------------------------------------------------------------------
\* A client prints a message of one or two pieces.
Messages(pieces) == {<<p>> : p \in pieces} \cup (pieces \X pieces)

FormatOf(message) == FlattenSeq([k \in DOMAIN message |-> message[k].format])
ArgsOf(message) == FlattenSeq([k \in DOMAIN message |-> message[k].args])
ShownOf(message) == FlattenSeq([k \in DOMAIN message |-> message[k].shown])

Printed(fn, message, result) ==
  /\ call' = [fn |-> fn, message |-> message]
  /\ text' = result
  /\ before' = mem
  /\ UNCHANGED mem

PrintMessage ==
  /\ call.fn = "none"
  /\ mem = [a \in Addresses |-> 0]   \* bound: strings are arguments here
  /\ \/ \E m \in Messages(PrintfPieces) :
          Printed("printf", m, printf(FormatOf(m), ArgsOf(m)))
     \/ \E m \in Messages(LogPieces) : \E words \in log_arguments(ArgsOf(m)) :
          Printed("log", m, printf(FormatOf(m), words))
     \/ \E m \in Messages(SerialPieces) :
          Printed("serial_putsf", m, serial_putsf(FormatOf(m), ArgsOf(m)))
     \/ \E m \in Messages(VprintfPieces) :
          Printed("vprintf", m, vprintf(FormatOf(m), ArgsOf(m)))

PrintfSpec == Init /\ [][Next \/ PrintMessage]_vars

-----------------------------------------------------------------------------
(***************************************************************************)
(* Properties.                                                             *)
(***************************************************************************)

\* The figures of a number as C defines them: no leading zero, and the value.
Figures(n, base) ==
  CHOOSE t \in UNION {[1..k -> 0..(base - 1)] : k \in 1..3} :
    /\ Number(t, base) = n
    /\ Len(t) > 1 => t[1] # 0

\* What C shows for a number: sign, figures, and zeros between the two or
\* blanks in front or behind up to the width.
CNumber(v, base, figures, flags, width) ==
  LET sign == IF v < 0 THEN <<"-">> ELSE IF "+" \in flags THEN <<"+">>
              ELSE IF " " \in flags THEN <<" ">> ELSE << >>
      digits == Chars(Figures(IF v < 0 THEN -v ELSE v, base), figures)
      missing == width - Len(sign) - Len(digits)
      fill(c) == [k \in 1..missing |-> c]
  IN CASE "-" \in flags -> sign \o digits \o fill(" ")
       [] "-" \notin flags /\ "0" \in flags -> sign \o fill("0") \o digits
       [] OTHER -> fill(" ") \o sign \o digits

\* printf and serial_putsf show every argument where its directive stands, and
\* as C would, next to other directives and characters: the pieces are those
\* of the kernel's own messages, with every width of number.  Left out are the
\* two on which printf and C differ: a negative int (its minus comes last, see
\* NumbersWritten) and %lx, for which printf shows eight figures in upper case.
PrintfShowsArguments ==
  call.fn \in {"printf", "serial_putsf"} => text = ShownOf(call.message)

\* So does vprintf, with widths of its format or its arguments, with lengths,
\* and with the flags "-", "+", " " and, alone and before a number that is not
\* negative, "0"; and what %n takes is not shown.  Precisions, "#" and the
\* other uses of "0" are left out: there vprintf has rules of its own.
VprintfShowsArguments == call.fn = "vprintf" => text = ShownOf(call.message)

\* Pieces of one character, or of one directive that the function knows, with
\* what its conversion makes of the argument.
IsText(x) == x = [k \in 1..Len(x) |-> x[k]]

Literal(p) ==
  /\ p.format = <<p.format[1]>> /\ p.format[1] # "%"
  /\ p.args = << >> /\ p.shown = p.format

PlainDirective(p, mode, c, shown) ==
  /\ p.format = <<"%">> \o [k \in 1..(mode - 1) |-> "l"] \o <<c>>
  /\ p.args = <<p.args[1]>>
  /\ p.shown = shown /\ IsText(shown)

PlainPieces ==
  /\ \A p \in PrintfPieces :
       Literal(p) \/ \E mode \in 1..3 : \E c \in printf_knows(mode) :
         PlainDirective(p, mode, c, printf_text(mode, c, p.args[1]))
  /\ \A p \in SerialPieces :
       Literal(p) \/ \E mode \in 1..3 : \E c \in serial_knows(mode) :
         PlainDirective(p, mode, c, serial_text(mode, c, p.args[1]))

\* For vprintf: one character, or "%" and what Directive reads to the end of
\* the piece, with as many arguments as that takes and a width for which there
\* is room.
WholeDirective(p) ==
  LET d == Directive(p.format, 2, p.args)
  IN /\ IsText(p.format) /\ IsText(p.args) /\ IsText(p.shown)
     /\ p.format # << >> /\ p.format[1] = "%" /\ d.after = Len(p.format) + 1
     /\ Len(p.args) = d.stars + (IF Takes(d) THEN 1 ELSE 0)
     /\ p.shown = Shows(d, IF Takes(d) THEN p.args[Len(p.args)] ELSE 0)
     /\ ShowsNumber(d) => d.width < IntStrBuffer

WholePieces == \A p \in VprintfPieces : Literal(p) \/ WholeDirective(p)

\* "Total usable memory: %lu MB": log shows its arguments.
LogShowsArguments == call.fn = "log" => text = ShownOf(call.message)

=============================================================================

----------------------------- MODULE MCLibrary -----------------------------
(***************************************************************************)
(* A memory for TLC with every content of five bytes of three values, an   *)
(* int of five bits between a short of four and a long of seven, and the   *)
(* pieces of messages on which the code and C agree.                       *)
(***************************************************************************)
EXTENDS Printf

MCMinInt == -16
MCMinShort == -8
MCMinLong == -64

MaxInt == (-2) * MCMinInt - 1
MaxLong == (-2) * MCMinLong - 1

Literals == {[format |-> <<c>>, args |-> << >>, shown |-> <<c>>] : c \in {"a", "l"}}
Texts ==
  {[format |-> <<"%", "c">>, args |-> <<"x">>, shown |-> <<"x">>]}
  \cup {[format |-> <<"%", "s">>, args |-> <<s>>, shown |-> s] : s \in {<< >>, <<"d", "%">>}}

Number_(directive, v, base) ==
  [format |-> <<"%">> \o directive, args |-> <<v>>, shown |-> CNumber(v, base, lower, {}, 0)]

Ints ==
  {Number_(<<"d">>, v, 10) : v \in {0, 9, 15}}
  \cup {Number_(<<"u">>, v, 10) : v \in {0, 10, MaxInt}}
  \cup {Number_(<<"x">>, v, 16) : v \in {0, 10, MaxInt}}

MCPrintfPieces ==
  Literals \cup Texts \cup Ints
  \cup {Number_(<<"l", "d">>, v, 10) : v \in {MCMinLong + 1, -10, 0, 63}}
  \cup {Number_(<<"l", "u">>, v, 10) : v \in {0, MaxLong}}
  \cup {Number_(<<"l", "l", "u">>, v, 10) : v \in {9, MaxLong}}
  \cup {Number_(<<"l", "l", "x">>, v, 16) : v \in {9, MaxLong}}

MCLogPieces == Literals \cup Ints \cup {Number_(<<"l", "u">>, 10, 10)}

MCSerialPieces ==
  Literals \cup Texts \cup Ints
  \cup {Number_(<<"p">>, v, 16) : v \in {9, MaxInt}}
  \cup {Number_(<<"l", "d">>, 15, 10), Number_(<<"l", "u">>, MaxInt, 10)}
  \cup {Number_(<<"l", "x">>, v, 16) : v \in {0, MaxInt}}
  \cup {Number_(<<"l", "l", "x">>, v, 16) : v \in {9, MaxLong}}

\* A directive of vprintf from its parts, with the width in the format or as
\* an argument of its own.
Widths == {[chars |-> << >>, args |-> << >>, width |-> 0],
           [chars |-> <<"4">>, args |-> << >>, width |-> 4],
           [chars |-> <<"*">>, args |-> <<3>>, width |-> 3]}

FlagChars(flags) == SelectSeq(<<"-", "+", " ", "0">>, LAMBDA c : c \in flags)

Piece(spec, base, figures, flags, w, length, v) ==
  [format |-> <<"%">> \o FlagChars(flags) \o w.chars \o length \o <<spec>>,
   args |-> w.args \o <<v>>,
   shown |-> CNumber(v, base, figures, flags, w.width)]

\* Zeros behind the number or before its sign are vprintf's own.
Plain(flags, v) == "0" \in flags => flags = {"0"} /\ v >= 0

MCVprintfPieces ==
  {[format |-> <<"a">>, args |-> << >>, shown |-> <<"a">>]} \cup Texts
  \cup {[format |-> <<"%">> \o length \o <<"n">>, args |-> <<"address">>, shown |-> << >>] :
          length \in {<< >>, <<"l">>}}
  \cup {Piece("d", 10, lower, f, w, l, v) :
          f \in {g \in SUBSET {"-", "+", " ", "0"} : Plain(g, 0)}, w \in Widths,
          l \in {<< >>, <<"h">>, <<"l", "l">>}, v \in {0, 7}}
  \cup {Piece("i", 10, lower, f, w, <<"l">>, -10) : f \in SUBSET {"-", "+"}, w \in Widths}
  \cup {Piece("u", 10, lower, f, w, <<"z">>, 63) : f \in {{}, {"-"}, {"0"}}, w \in Widths}
  \cup {Piece("x", 16, lower, f, w, << >>, 31) : f \in {{}, {"-"}, {"0"}}, w \in Widths}
  \cup {Piece("X", 16, upper, {}, w, <<"j">>, 58) : w \in Widths}
  \cup {Piece("o", 8, lower, {"0"}, w, <<"h">>, 15) : w \in Widths}
  \cup {Piece("p", 16, upper, {}, w, << >>, 47) : w \in Widths}

ASSUME MCPlainPieces == PlainPieces
ASSUME MCWholePieces == WholePieces

=============================================================================

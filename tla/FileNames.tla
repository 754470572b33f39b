------------------------------ MODULE FileNames ------------------------------
(***************************************************************************)
(* The two name conversions of fat.c.  A name on the disk is BaseLen + Ext *)
(* Len characters (8 + 3 in the code) in capitals, each part filled up     *)
(* with spaces; a name on the screen or in a command is a sequence of      *)
(* characters with a dot between the parts.  The entries "." and ".." and  *)
(* those of long names hold other characters, Dot and Nul among them.      *)
(***************************************************************************)
EXTENDS Integers, Sequences, SequencesExt

CONSTANTS
  BaseLen, ExtLen,   \* 8 and 3
  Capitals,          \* the capital letters, ...
  Small              \* ... and the small letter of each, as a function

Space == " "
Dot == "."
Nul == "NUL"   \* the character \0

ASSUME FileNamesAssumption ==
  /\ BaseLen \in Nat \ {0} /\ ExtLen \in Nat \ {0}
  /\ IsInjective(Small) /\ DOMAIN Small = Capitals
  /\ {Space, Dot, Nul} \cap (Capitals \cup Range(Small)) = {}

toupper(c) == IF c \in Range(Small) THEN CHOOSE u \in Capitals : Small[u] = c ELSE c
tolower(c) == IF c \in Capitals THEN Small[c] ELSE c

\* The part of s before the first c, or all of it.
Before(s, c) ==
  LET i == SelectInSeq(s, LAMBDA x : x = c)
  IN IF i = 0 THEN s ELSE SubSeq(s, 1, i - 1)

After(s, c) ==
  LET i == SelectInSeq(s, LAMBDA x : x = c)
  IN IF i = 0 THEN << >> ELSE SubSeq(s, i + 1, Len(s))

\* A part of the name on the disk: cut off or filled up to length n.
Field(s, n) == [i \in 1..n |-> IF i <= Len(s) THEN toupper(s[i]) ELSE Space]

\* The name on the disk of the name in a command.
format_filename_83(input) ==
  Field(Before(input, Dot), BaseLen) \o Field(After(input, Dot), ExtLen)

\* The name on the screen of the name on the disk; a form that never writes
\* the dot, and the code.
Shown(field) == LET s == Before(field, Space) IN [i \in DOMAIN s |-> tolower(s[i])]

format_entry_name_no_dot(name) ==
  Shown(SubSeq(name, 1, BaseLen)) \o Shown(SubSeq(name, BaseLen + 1, BaseLen + ExtLen))

format_entry_name(name) ==
  Shown(SubSeq(name, 1, BaseLen))
  \o (IF name[BaseLen + 1] # Space THEN <<Dot>> ELSE << >>)
  \o Shown(SubSeq(name, BaseLen + 1, BaseLen + ExtLen))

\* What %s prints of it.
AsString(s) == Before(s, Nul)

\* The names that files and directories get: no small letters, dots or \0,
\* spaces only at the end of a part.
SoundField(f) ==
  \A k \in DOMAIN f :
    /\ f[k] \notin Range(Small) \cup {Dot, Nul}
    /\ f[k] = Space => \A j \in DOMAIN f : j > k => f[j] = Space
SoundName(n) ==
  /\ n \in Seq(Range(n)) /\ Len(n) = BaseLen + ExtLen
  /\ SoundField(SubSeq(n, 1, BaseLen)) /\ SoundField(SubSeq(n, BaseLen + 1, BaseLen + ExtLen))

=============================================================================

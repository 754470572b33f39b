------------------------------- MODULE Library -------------------------------
(***************************************************************************)
(* The string and number functions of lib.c.  A client calls them one      *)
(* after the other, in any order, on a small memory of bytes (0 is the     *)
(* NUL that ends a string), within the contracts of the C functions of the *)
(* same names: the bytes are in memory, and only memmove gets areas that   *)
(* overlap.  Numbers become sequences of digits.                           *)
(***************************************************************************)
EXTENDS Integers, Sequences, SequencesExt

CONSTANTS
  MemSize,   \* bytes of memory
  Bytes,     \* the values a byte takes, 0 among them
  MinInt,    \* the smallest int, -2^31 in the code
  Bases      \* the bases that callers ask for

ASSUME LibraryAssumption ==
  /\ MemSize \in Nat \ {0}
  /\ Bytes \subseteq Nat /\ 0 \in Bytes
  /\ MinInt \in Int /\ MinInt < 0
  /\ Bases \subseteq 2..16 /\ 10 \in Bases

VARIABLES
  mem,      \* the bytes
  before,   \* history: the bytes before the last call
  call,     \* history: the last call
  text      \* the string that the last conversion wrote

vars == <<mem, before, call, text>>

Addresses == 0..(MemSize - 1)

\* The offsets a loop visits, rising or falling.
Rising(n) == [k \in 1..n |-> k - 1]
Falling(n) == [k \in 1..n |-> n - k]

\* One byte after the other, each read when it is its turn.
CopyBytes(m, dest, src, offsets) ==
  FoldLeft(LAMBDA a, k : [a EXCEPT ![dest + k] = a[src + k]], m, offsets)

memcpy(m, dest, src, count) == CopyBytes(m, dest, src, Rising(count))

memset(m, ptr, value, count) ==
  FoldLeft(LAMBDA a, k : [a EXCEPT ![ptr + k] = value], m, Rising(count))

\* memmove goes downwards if the areas overlap with the source below; the
\* first form always goes upwards.
memmove_rising(m, dest, src, n) == CopyBytes(m, dest, src, Rising(n))
memmove(m, dest, src, n) ==
  CopyBytes(m, dest, src,
            IF src < dest /\ src + n > dest THEN Falling(n) ELSE Rising(n))

\* A string starts at s and ends before the first NUL.
IsString(m, s) == \E a \in Addresses : a >= s /\ m[a] = 0
strlen(m, s) == CHOOSE n \in 0..MemSize :
                  m[s + n] = 0 /\ \A k \in 0..(n - 1) : m[s + k] # 0

strcpy(m, dest, src) == memset(memcpy(m, dest, src, strlen(m, src)),
                               dest + strlen(m, src), 0, 1)

\* strcat begins at the NUL of dest, and one that begins behind it.
strcat_behind(m, dest, src) == strcpy(m, dest + strlen(m, dest) + 1, src)
strcat(m, dest, src) == strcpy(m, dest + strlen(m, dest), src)

\* strncpy writes num bytes: of the source up to its NUL, then NULs.
strncpy(m, dest, src, num) ==
  LET n == IF strlen(m, src) < num THEN strlen(m, src) ELSE num
  IN memset(memcpy(m, dest, src, n), dest + n, 0, num - n)

\* The comparisons stop at a first offset: strcmp at a difference or at the
\* end of the first string.
FirstStop(Stops(_)) ==
  CHOOSE k \in 0..MemSize : Stops(k) /\ \A j \in 0..(k - 1) : ~Stops(j)

strcmp(m, s, t) ==
  LET k == FirstStop(LAMBDA j : m[s + j] = 0 \/ m[s + j] # m[t + j])
  IN m[s + k] - m[t + k]

\* memcmp compares n bytes.
memcmp(m, s, t, n) ==
  IF \A j \in 0..(n - 1) : m[s + j] = m[t + j] THEN 0
  ELSE LET k == FirstStop(LAMBDA j : m[s + j] # m[t + j])
       IN m[s + k] - m[t + k]

\* strncmp compares at most n bytes and not past a NUL; the first form
\* forgets that both strings may end together.
strncmp_no_nul(m, s, t, n) == memcmp(m, s, t, n)
strncmp(m, s, t, n) ==
  LET k == IF \E j \in 0..(n - 1) : m[s + j] = 0 \/ m[s + j] # m[t + j]
           THEN FirstStop(LAMBDA j : m[s + j] = 0 \/ m[s + j] # m[t + j])
           ELSE n
  IN IF k = n THEN 0 ELSE m[s + k] - m[t + k]

-----------------------------------------------------------------------------
\* Numbers.  Integer division rounds towards zero and -MinInt is MinInt.
Quotient(v, base) == IF v >= 0 THEN v \div base ELSE -((-v) \div base)
Negated(v) == IF v = MinInt THEN MinInt ELSE -v

\* The digits in the order in which the loops find them, the last one first.
\* A negative one is what stands before the table of digits.
DigitsUp(value, base) ==
  LET digits[v \in Int] ==
        <<v - Quotient(v, base) * base>>
        \o (IF Quotient(v, base) = 0 THEN << >> ELSE digits[Quotient(v, base)])
  IN digits[value]

Minus == 99   \* the character '-'

utoa(value, base) == Reverse(DigitsUp(value, base))

\* ullitoa and ultoa write the empty string for a base they do not know.
ullitoa(value, base) == IF base \in 2..16 THEN utoa(value, base) ELSE << >>
ultoa(value, base) == IF base \in 2..35 THEN utoa(value, base) ELSE << >>

\* ulltoa does not look at the base: its digits stand around the middle of a
\* table, which has them for bases up to 16 on both sides.
ulltoa(value, base) == utoa(value, base)

\* litoa and ltoa put the sign behind the last digit and reverse it all; the
\* first form of ltoa puts it in front, as itoa does.
litoa(value, base) ==
  IF base \in 2..35
  THEN Reverse(DigitsUp(IF value < 0 THEN Negated(value) ELSE value, base)
               \o (IF value < 0 THEN <<Minus>> ELSE << >>))
  ELSE << >>

ltoa_sign_first(value, base) ==
  Reverse(IF value < 0 THEN <<Minus>> \o DigitsUp(Negated(value), base)
          ELSE DigitsUp(value, base))
ltoa(value, base) == litoa(value, base)

\* itoa puts the sign in front and reverses it with the digits.
itoa(value, base) ==
  Reverse(IF value < 0 /\ base = 10 THEN <<Minus>> \o DigitsUp(Negated(value), base)
          ELSE DigitsUp(value, base))

-----------------------------------------------------------------------------
Init ==
  /\ mem \in [Addresses -> Bytes]
  /\ before = mem
  /\ call = [fn |-> "none"]
  /\ text = << >>

Fits(p, n) == p + n <= MemSize
Apart(p, n, q, l) == p + n <= q \/ q + l <= p

Called(fn, d, s, n, result) ==
  /\ call.fn = "none"
  /\ call' = [fn |-> fn, dest |-> d, src |-> s, n |-> n]
  /\ before' = mem
  /\ mem' = result
  /\ UNCHANGED text

MoveBytes ==
  \E d, s \in Addresses, n \in 0..MemSize :
    /\ Fits(d, n) /\ Fits(s, n)
    /\ \/ Called("memmove", d, s, n, memmove(mem, d, s, n))
       \/ Apart(d, n, s, n) /\ Called("memcpy", d, s, n, memcpy(mem, d, s, n))

FillBytes ==
  \E d \in Addresses, n \in 0..MemSize, v \in Bytes :
    Fits(d, n) /\ Called("memset", d, v, n, memset(mem, d, v, n))

\* dest, of n bytes, does not overlap the source string.
StringCall(fn, d, s, n, result) ==
  /\ Fits(d, n)
  /\ Apart(d, n, s, strlen(mem, s) + 1)
  /\ Called(fn, d, s, n, result)

CopyString ==
  \E d, s \in Addresses :
    /\ IsString(mem, s)
    /\ \/ StringCall("strcpy", d, s, strlen(mem, s) + 1, strcpy(mem, d, s))
       \/ \E n \in 0..MemSize : StringCall("strncpy", d, s, n, strncpy(mem, d, s, n))
       \/ /\ IsString(mem, d)
          /\ StringCall("strcat", d, s, strlen(mem, d) + strlen(mem, s) + 1, strcat(mem, d, s))

\* The conversions of a signed number, and of an unsigned one of that width.
Signed(fn, value, base) ==
  CASE fn = "litoa" -> litoa(value, base)
    [] fn = "ltoa" -> ltoa(value, base)
    [] fn = "itoa" -> itoa(value, base)

Unsigned(fn, value, base) ==
  CASE fn = "utoa" -> utoa(value, base)
    [] fn = "ultoa" -> ultoa(value, base)
    [] fn = "ullitoa" -> ullitoa(value, base)
    [] fn = "ulltoa" -> ulltoa(value, base)

Converted(fn, value, base, result) ==
  /\ call.fn = "none"
  /\ call' = [fn |-> fn, value |-> value, base |-> base]
  /\ text' = result
  /\ before' = mem
  /\ UNCHANGED mem

\* Callers ask itoa for base 10 only.
Convert ==
  \E base \in Bases :
    \/ \E fn \in {"litoa", "ltoa", "itoa"}, v \in MinInt..(-MinInt - 1) :
         /\ fn = "itoa" => base = 10
         /\ Converted(fn, v, base, Signed(fn, v, base))
    \/ \E fn \in {"utoa", "ultoa", "ullitoa", "ulltoa"}, v \in 0..(-2 * MinInt - 1) :
         Converted(fn, v, base, Unsigned(fn, v, base))

\* The client has seen the result and calls again.
Ready ==
  /\ call.fn # "none"
  /\ call' = [fn |-> "none"] /\ before' = mem /\ text' = << >>
  /\ UNCHANGED mem

Next == MoveBytes \/ FillBytes \/ CopyString \/ Convert \/ Ready

Spec == Init /\ [][Next]_vars

-----------------------------------------------------------------------------
(***************************************************************************)
(* Properties.                                                             *)
(***************************************************************************)

String(m, s) == [k \in 1..strlen(m, s) |-> m[s + k - 1]]
Outside == {a \in Addresses : a < call.dest \/ a >= call.dest + call.n}

\* memmove, and memcpy if the areas are apart, leave in dest what was in src
\* before the call, however the two overlap, and touch nothing else.
BytesMoved ==
  call.fn \in {"memmove", "memcpy"} =>
    /\ \A k \in 0..(call.n - 1) : mem[call.dest + k] = before[call.src + k]
    /\ \A a \in Outside : mem[a] = before[a]

\* The string functions build the string they promise, with its NUL, inside
\* the bytes the caller set aside: strncpy the first n bytes, or all and NULs.
StringsBuilt ==
  call.fn \in {"strcpy", "strcat", "strncpy"} =>
    /\ call.fn = "strcpy" => String(mem, call.dest) = String(before, call.src)
    /\ call.fn = "strcat" => String(mem, call.dest) =
                                String(before, call.dest) \o String(before, call.src)
    /\ call.fn = "strncpy" =>
         [k \in 1..call.n |-> mem[call.dest + k - 1]] =
           SubSeq(String(before, call.src) \o [k \in 1..call.n |-> 0], 1, call.n)
    /\ \A a \in Outside : mem[a] = before[a]

\* x comes before y in a dictionary.
Precedes(x, y) ==
  \E k \in 1..Len(y) :
    /\ \A j \in 1..(k - 1) : j <= Len(x) /\ x[j] = y[j]
    /\ k > Len(x) \/ x[k] < y[k]

Cut(x, n) == IF Len(x) > n THEN SubSeq(x, 1, n) ELSE x

\* The shell's choice of a command and cd's and cat's search rest on these: the
\* comparisons are 0 for equal strings only, and their sign is the order of the
\* strings, cut to n bytes for strncmp.
StringsCompared ==
  \A s, t \in {a \in Addresses : IsString(mem, a)} :
    LET x == String(mem, s)
        y == String(mem, t)
    IN /\ strcmp(mem, s, t) < 0 <=> Precedes(x, y)
       /\ strcmp(mem, s, t) = 0 <=> x = y
       /\ \A n \in 0..MemSize : Fits(s, n) /\ Fits(t, n) =>
            /\ strncmp(mem, s, t, n) < 0 <=> Precedes(Cut(x, n), Cut(y, n))
            /\ strncmp(mem, s, t, n) = 0 <=> Cut(x, n) = Cut(y, n)

\* The number that a text denotes.
DigitsIn(t) == IF t[1] = Minus THEN Tail(t) ELSE t
Number(t, base) ==
  LET n == FoldLeft(LAMBDA acc, d : acc * base + d, 0, DigitsIn(t))
  IN IF t[1] = Minus THEN -n ELSE n

\* Digits of the base, and no zero in front of others.
WellWritten(digits, base) ==
  /\ digits # << >>
  /\ \A k \in DOMAIN digits : digits[k] \in 0..(base - 1)
  /\ Len(digits) > 1 => digits[1] # 0

\* What the conversions write, in every base, is the number again, in the one
\* way of writing it with digits of that base and no leading zero; not for the
\* one int whose negation is itself, and not for negative numbers in itoa,
\* which reverses the sign together with the digits ("12-").
NumbersWritten ==
  /\ call.fn \in {"utoa", "ultoa", "ullitoa", "ulltoa", "litoa", "ltoa", "itoa"}
  /\ call.value # MinInt
  /\ call.fn = "itoa" => call.value >= 0
  => /\ Number(text, call.base) = call.value
     /\ WellWritten(DigitsIn(text), call.base)

=============================================================================

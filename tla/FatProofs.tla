------------------------------ MODULE FatProofs ------------------------------
(***************************************************************************)
(* Proofs about Fat for every set of sound volumes (FatVolumes), names     *)
(* that users type and depth of the path.                                  *)
(***************************************************************************)
EXTENDS FatVolumes, FiniteSetTheorems, FunctionTheorems, SequenceTheorems,
        NaturalsInduction, TLAPS

-----------------------------------------------------------------------------
(***************************************************************************)
(* Induction goes over a least counterexample.                             *)
(***************************************************************************)

LEMMA LeastNumber ==
  ASSUME NEW T, T \subseteq Nat, T # {}
  PROVE  \E n \in T : \A m \in T : n <= m
<1>1. \E n \in T : \A m \in T : <<m, n>> \notin OpToRel(<, Nat)
  BY NatLessThanWellFounded, WFMin
<1>2. \A m, n \in Nat : m < n => <<m, n>> \in OpToRel(<, Nat)
  BY DEF OpToRel
<1>3. \E n \in T : \A m \in T : ~(m < n)
  BY <1>1, <1>2
<1> QED  BY <1>3

\* A set of numbers with 0 and with the next of each of its numbers below n
\* has all the numbers up to n.
LEMMA UpTo ==
  ASSUME NEW n \in Nat, NEW T, 0 \in T, \A m \in 0..(n - 1) : m \in T => m + 1 \in T
  PROVE  0..n \subseteq T
<1> DEFINE Bad == (0..n) \ T
<1>1. ASSUME Bad # {}
      PROVE  FALSE
  <2>1. Bad \subseteq Nat
    OBVIOUS
  <2>2. PICK b \in Bad : \A m \in Bad : b <= m
    BY <1>1, <2>1, LeastNumber
  <2>3. b # 0 /\ b - 1 \in 0..(n - 1) /\ b - 1 \notin Bad /\ (b - 1) + 1 = b
    BY <2>2
  <2> QED  BY <2>2, <2>3
<1> QED  BY <1>1

-----------------------------------------------------------------------------
(***************************************************************************)
(* FlattenSeq, part after part.                                            *)
(***************************************************************************)

Flats(f, ss, n) == f = [k \in 1..n |-> IF k = 1 THEN ss[k] ELSE f[k - 1] \o ss[k]]

LEMMA FlatsAt ==
  ASSUME NEW f, NEW ss, NEW n, Flats(f, ss, n), NEW k \in 1..n
  PROVE  f[k] = IF k = 1 THEN ss[k] ELSE f[k - 1] \o ss[k]
<1>1. f[k] = [j \in 1..n |-> IF j = 1 THEN ss[j] ELSE f[j - 1] \o ss[j]][k]
  BY DEF Flats
<1> QED  BY <1>1

LEMMA FlatsExist ==
  ASSUME NEW ss, NEW n \in Nat
  PROVE  \E f : Flats(f, ss, n)
<1> DEFINE Good == {m \in 0..n : \E f : Flats(f, ss, m)}
<1>1. 0 \in Good
  <2>1. Flats([k \in 1..0 |-> ss[k]], ss, 0)
    BY DEF Flats
  <2> QED  BY <2>1
<1>2. ASSUME NEW m \in 0..(n - 1), m \in Good
      PROVE  m + 1 \in Good
  <2>1. PICK f : Flats(f, ss, m)
    BY <1>2
  <2> DEFINE g == [k \in 1..(m + 1) |->
                     IF k \in 1..m THEN f[k] ELSE IF k = 1 THEN ss[k] ELSE f[k - 1] \o ss[k]]
  <2>2. ASSUME NEW k \in 1..(m + 1)
        PROVE  g[k] = IF k = 1 THEN ss[k] ELSE g[k - 1] \o ss[k]
    <3>1. CASE k = 1
      <4>1. k \in 1..m => f[k] = ss[k]
        BY <2>1, <3>1, FlatsAt
      <4> QED  BY <3>1, <4>1
    <3>2. CASE k # 1
      <4>1. k - 1 \in 1..m /\ k - 1 \in 1..(m + 1)
        BY <3>2
      <4>2. g[k - 1] = f[k - 1]
        BY <4>1
      <4>3. ASSUME k \in 1..m
            PROVE  f[k] = f[k - 1] \o ss[k]
        <5>1. f[k] = IF k = 1 THEN ss[k] ELSE f[k - 1] \o ss[k]
          BY <2>1, <4>3, FlatsAt
        <5> QED  BY <3>2, <5>1
      <4> QED  BY <3>2, <4>2, <4>3
    <3> QED  BY <3>1, <3>2
  <2>3. Flats(g, ss, m + 1)
    BY <2>2 DEF Flats
  <2> QED  BY <2>3
<1>3. 0..n \subseteq Good
  <2> HIDE DEF Good
  <2> QED  BY <1>1, <1>2, UpTo
<1> QED  BY <1>3

LEMMA FlatsUnique ==
  ASSUME NEW ss, NEW n \in Nat, NEW m \in Nat, NEW f, NEW g,
         Flats(f, ss, n), Flats(g, ss, m)
  PROVE  \A k \in Nat \ {0} : k <= n /\ k <= m => f[k] = g[k]
<1> DEFINE Good == {k \in Nat : 1 <= k /\ k <= n /\ k <= m => f[k] = g[k]}
<1>1. 0 \in Good
  OBVIOUS
<1>2. ASSUME NEW k \in 0..(n - 1), k \in Good
      PROVE  k + 1 \in Good
  <2>1. SUFFICES ASSUME k + 1 <= n, k + 1 <= m
                 PROVE  f[k + 1] = g[k + 1]
    OBVIOUS
  <2>2. k + 1 \in 1..n /\ k + 1 \in 1..m /\ (k + 1) - 1 = k /\ (k + 1 = 1 <=> k = 0)
    BY <2>1
  <2>3. k # 0 => f[k] = g[k]
    BY <1>2, <2>1
  <2> HIDE DEF Good
  <2>4. /\ f[k + 1] = IF k + 1 = 1 THEN ss[k + 1] ELSE f[(k + 1) - 1] \o ss[k + 1]
        /\ g[k + 1] = IF k + 1 = 1 THEN ss[k + 1] ELSE g[(k + 1) - 1] \o ss[k + 1]
    BY <2>2, FlatsAt
  <2> QED  BY <2>2, <2>3, <2>4
<1>3. 0..n \subseteq Good
  <2> HIDE DEF Good
  <2> QED  BY <1>1, <1>2, UpTo
<1> QED  BY <1>3

\* The first n parts of ss in one sequence.
FlatTo(ss, n) == CHOOSE f : Flats(f, ss, n)
Flat(ss, n) == IF n = 0 THEN << >> ELSE FlatTo(ss, n)[n]

LEMMA FlatSteps ==
  ASSUME NEW X, NEW n \in Nat, NEW ss \in [1..n -> Seq(X)]
  PROVE  /\ Flat(ss, 0) = << >>
         /\ \A m \in 0..(n - 1) : Flat(ss, m + 1) = Flat(ss, m) \o ss[m + 1]
         /\ \A m \in 0..n : Flat(ss, m) \in Seq(X)
<1>1. \A m \in Nat : Flats(FlatTo(ss, m), ss, m)
  BY FlatsExist DEF FlatTo
<1>2. Flat(ss, 0) = << >>
  BY DEF Flat
<1>3. \A m \in Nat \ {0} : Flat(ss, m) = FlatTo(ss, m)[m]
  BY DEF Flat
<1>4. ASSUME NEW m \in 0..(n - 1)
      PROVE  /\ m = 0 => Flat(ss, m + 1) = ss[m + 1]
             /\ m # 0 => Flat(ss, m + 1) = Flat(ss, m) \o ss[m + 1]
  <2>1. /\ m + 1 \in Nat \ {0} /\ m + 1 \in 1..(m + 1) /\ (m + 1) - 1 = m
        /\ (m + 1 = 1 <=> m = 0) /\ m \in Nat
    OBVIOUS
  <2>0. Flats(FlatTo(ss, m + 1), ss, m + 1) /\ Flats(FlatTo(ss, m), ss, m)
    BY <1>1, <2>1
  <2>2. FlatTo(ss, m + 1)[m + 1] = IF m + 1 = 1 THEN ss[m + 1] ELSE FlatTo(ss, m + 1)[(m + 1) - 1] \o ss[m + 1]
    BY <2>0, <2>1, FlatsAt
  <2>3. m # 0 => FlatTo(ss, m + 1)[m] = FlatTo(ss, m)[m]
    <3>1. SUFFICES ASSUME m # 0
                   PROVE  FlatTo(ss, m + 1)[m] = FlatTo(ss, m)[m]
      OBVIOUS
    <3>2. m \in Nat \ {0} /\ m <= m + 1 /\ m <= m
      BY <3>1
    <3>3. ASSUME NEW l \in Nat, l = m + 1
          PROVE  FlatTo(ss, l)[m] = FlatTo(ss, m)[m]
      <4>1. Flats(FlatTo(ss, l), ss, l) /\ m <= l
        BY <2>0, <3>3
      <4> QED  BY <2>0, <3>2, <4>1, FlatsUnique
    <3>4. m + 1 \in Nat
      OBVIOUS
    <3> QED  BY <3>3, <3>4
  <2> QED  BY <1>3, <2>1, <2>2, <2>3
<1> DEFINE Good == {m \in 0..n : Flat(ss, m) \in Seq(X)}
<1>5. 0 \in Good
  <2>1. << >> \in Seq(X)
    BY EmptySeq
  <2>2. Flat(ss, 0) \in Seq(X)
    BY <1>2, <2>1
  <2>3. 0 \in 0..n
    OBVIOUS
  <2> QED  BY <2>2, <2>3
<1>6. ASSUME NEW m \in 0..(n - 1), m \in Good
      PROVE  m + 1 \in Good
  <2>1. m + 1 \in 1..n /\ m + 1 \in 0..n /\ ss[m + 1] \in Seq(X)
    OBVIOUS
  <2>2. Flat(ss, m) \o ss[m + 1] \in Seq(X)
    BY <1>6, <2>1, ConcatProperties
  <2> QED  BY <1>4, <2>1, <2>2
<1>7. 0..n \subseteq Good
  <2> HIDE DEF Good
  <2> QED  BY <1>5, <1>6, UpTo
<1>8. ASSUME NEW m \in 0..(n - 1)
      PROVE  Flat(ss, m + 1) = Flat(ss, m) \o ss[m + 1]
  <2>1. CASE m = 0
    <3>1. ss[m + 1] \in Seq(X)
      OBVIOUS
    <3> QED  BY <1>2, <1>4, <2>1, <3>1, ConcatEmptySeq
  <2> QED  BY <1>4, <2>1
<1> QED  BY <1>2, <1>7, <1>8

LEMMA FlattenIsFlat ==
  ASSUME NEW X, NEW n \in Nat, NEW ss \in [1..n -> Seq(X)]
  PROVE  FlattenSeq(ss) = Flat(ss, n)
<1>1. Len(ss) = n /\ DOMAIN ss = 1..n
  <2>1. ss \in Seq(Seq(X))
    BY IsASeq
  <2>2. DOMAIN ss = 1..Len(ss) /\ Len(ss) \in Nat
    BY <2>1, LenProperties
  <2> QED  BY <2>2
<1>2. CASE n = 0
  <2>1. ss = << >>
    BY <1>1, <1>2
  <2> QED  BY <1>1, <1>2, <2>1 DEF FlattenSeq, Flat
<1>3. CASE n # 0
  BY <1>1, <1>3 DEF FlattenSeq, Flat, FlatTo, Flats
<1> QED  BY <1>2, <1>3

-----------------------------------------------------------------------------
(***************************************************************************)
(* Names.                                                                  *)
(***************************************************************************)

LEMMA MinIsLeast ==
  ASSUME NEW T, T \subseteq Nat, T # {}
  PROVE  Min(T) \in T /\ \A m \in T : Min(T) <= m
<1>1. \E n \in T : \A m \in T : n <= m
  BY LeastNumber
<1> QED  BY <1>1 DEF Min

\* The least number of a set of places, or 0.
LEMMA FirstPlace ==
  ASSUME NEW n \in Nat, NEW I, I \subseteq 1..n, NEW at, at = IF I # {} THEN Min(I) ELSE 0
  PROVE  /\ at \in 0..n
         /\ at = 0 => I = {}
         /\ at # 0 => at \in I /\ \A k \in 1..(at - 1) : k \notin I
<1>1. CASE I = {}
  BY <1>1
<1>2. CASE I # {}
  <2>1. I \subseteq Nat
    OBVIOUS
  <2>2. at \in I /\ \A m \in I : at <= m
    BY <1>2, <2>1, MinIsLeast
  <2> QED  BY <1>2, <2>2
<1> QED  BY <1>1, <1>2

\* The first place of c in s.
LEMMA FirstSame ==
  ASSUME NEW X, NEW s \in Seq(X), NEW c
  PROVE  LET at == SelectInSeq(s, LAMBDA x : x = c)
         IN /\ at \in 0..Len(s)
            /\ at = 0 => \A k \in 1..Len(s) : s[k] # c
            /\ at # 0 => s[at] = c /\ \A k \in 1..(at - 1) : s[k] # c
<1> DEFINE I == {k \in 1..Len(s) : s[k] = c}
           at == SelectInSeq(s, LAMBDA x : x = c)
<1>1. at = IF I # {} THEN Min(I) ELSE 0
  BY DEF SelectInSeq
<1>2. Len(s) \in Nat /\ I \subseteq 1..Len(s)
  BY LenProperties
<1> HIDE DEF at, I
<1>3. /\ at \in 0..Len(s)
      /\ at = 0 => I = {}
      /\ at # 0 => at \in I /\ \A k \in 1..(at - 1) : k \notin I
  BY <1>1, <1>2, FirstPlace
<1>4. \A k \in 1..(at - 1) : at # 0 => k \in 1..Len(s)
  BY <1>2, <1>3
<1>5. /\ at \in 0..Len(s)
      /\ at = 0 => \A k \in 1..Len(s) : s[k] # c
      /\ at # 0 => s[at] = c /\ \A k \in 1..(at - 1) : s[k] # c
  BY <1>2, <1>3, <1>4 DEF I
<1> QED  BY <1>5 DEF at

LEMMA BeforeProperties ==
  ASSUME NEW X, NEW s \in Seq(X), NEW c
  PROVE  /\ Before(s, c) \in Seq(X)
         /\ Len(Before(s, c)) \in 0..Len(s)
         /\ \A k \in 1..Len(Before(s, c)) : Before(s, c)[k] = s[k] /\ s[k] # c
         /\ Len(Before(s, c)) < Len(s) => s[Len(Before(s, c)) + 1] = c
<1> DEFINE at == SelectInSeq(s, LAMBDA x : x = c)
<1>1. /\ at \in 0..Len(s)
      /\ at = 0 => \A k \in 1..Len(s) : s[k] # c
      /\ at # 0 => s[at] = c /\ \A k \in 1..(at - 1) : s[k] # c
  BY FirstSame
<1>2. Before(s, c) = IF at = 0 THEN s ELSE SubSeq(s, 1, at - 1)
  BY DEF Before
<1>3. Len(s) \in Nat
  BY LenProperties
<1> HIDE DEF at
<1>4. CASE at = 0
  BY <1>1, <1>2, <1>3, <1>4
<1>5. CASE at # 0
  <2>1. at - 1 \in 0..Len(s) /\ at - 1 < Len(s) /\ (at - 1) + 1 = at
    BY <1>1, <1>3, <1>5
  <2>2. ASSUME NEW l \in 0..Len(s), l = at - 1
        PROVE  /\ SubSeq(s, 1, l) \in Seq(X) /\ Len(SubSeq(s, 1, l)) = l
               /\ \A k \in 1..l : SubSeq(s, 1, l)[k] = s[k]
    BY <1>3, SubSeqProperties
  <2> DEFINE b == SubSeq(s, 1, at - 1)
  <2>3. b \in Seq(X) /\ Len(b) = at - 1 /\ \A k \in 1..(at - 1) : b[k] = s[k]
    BY <2>1, <2>2
  <2>4. Before(s, c) = b
    BY <1>2, <1>5
  <2> HIDE DEF b
  <2> QED  BY <1>1, <1>5, <2>1, <2>3, <2>4
<1> QED  BY <1>4, <1>5

\* The sequence a is what stands in s behind place b + 1.
Behind(a, s, b) == Len(a) = Len(s) - b - 1 /\ \A k \in 1..(Len(s) - b - 1) : a[k] = s[b + 1 + k]

LEMMA AfterProperties ==
  ASSUME NEW X, NEW s \in Seq(X), NEW c, NEW b, b = Len(Before(s, c))
  PROVE  /\ After(s, c) \in Seq(X)
         /\ b = Len(s) => After(s, c) = << >>
         /\ b < Len(s) => Behind(After(s, c), s, b)
<1> DEFINE at == SelectInSeq(s, LAMBDA x : x = c)
<1>1. /\ at \in 0..Len(s)
      /\ at = 0 => \A k \in 1..Len(s) : s[k] # c
      /\ at # 0 => s[at] = c /\ \A k \in 1..(at - 1) : s[k] # c
  BY FirstSame
<1>2. /\ Before(s, c) = IF at = 0 THEN s ELSE SubSeq(s, 1, at - 1)
      /\ After(s, c) = IF at = 0 THEN << >> ELSE SubSeq(s, at + 1, Len(s))
  BY DEF Before, After
<1>3. Len(s) \in Nat
  BY LenProperties
<1> HIDE DEF at
<1>4. CASE at = 0
  <2>1. << >> \in Seq(X)
    BY EmptySeq
  <2> QED  BY <1>2, <1>3, <1>4, <2>1
<1>5. CASE at # 0
  <2>1. b = at - 1
    <3>1. ASSUME NEW l \in 0..Len(s), l = at - 1
          PROVE  Len(SubSeq(s, 1, l)) = l
      BY <1>3, SubSeqProperties
    <3>2. at - 1 \in 0..Len(s)
      BY <1>1, <1>3, <1>5
    <3> QED  BY <1>2, <1>5, <3>1, <3>2
  <2>2. ASSUME NEW l \in 1..(Len(s) + 1), l = at + 1
        PROVE  /\ SubSeq(s, l, Len(s)) \in Seq(X) /\ Len(SubSeq(s, l, Len(s))) = Len(s) - at
               /\ \A k \in 1..(Len(s) - at) : SubSeq(s, l, Len(s))[k] = s[at + k]
    <3>1. /\ SubSeq(s, l, Len(s)) \in Seq(X)
          /\ Len(SubSeq(s, l, Len(s))) = IF l <= Len(s) THEN Len(s) - l + 1 ELSE 0
          /\ \A k \in 1..(Len(s) - l + 1) : SubSeq(s, l, Len(s))[k] = s[l + k - 1]
      BY <1>3, SubSeqProperties
    <3>2. Len(s) - l + 1 = Len(s) - at /\ \A k \in Nat : l + k - 1 = at + k
      BY <1>1, <1>3, <2>2
    <3>3. at # 0 /\ at \in 0..Len(s) /\ (l <= Len(s) <=> Len(s) - at # 0)
      BY <1>1, <1>3, <1>5, <2>2
    <3>4. \A k \in 1..(Len(s) - at) : k \in Nat
      BY <1>1, <1>3
    <3> QED  BY <1>3, <3>1, <3>2, <3>3, <3>4
  <2>3. at + 1 \in 1..(Len(s) + 1)
    BY <1>1, <1>3
  <2> DEFINE a == SubSeq(s, at + 1, Len(s))
  <2>4. a \in Seq(X) /\ Len(a) = Len(s) - at /\ \A k \in 1..(Len(s) - at) : a[k] = s[at + k]
    BY <2>2, <2>3
  <2>5. After(s, c) = a
    BY <1>2, <1>5
  <2> HIDE DEF a
  <2>6. b < Len(s) /\ Len(s) - b - 1 = Len(s) - at /\ \A k \in Nat : b + 1 + k = at + k
    BY <1>1, <1>3, <1>5, <2>1
  <2>7. Len(s) - at \in Int /\ \A k \in 1..(Len(s) - at) : k \in Nat
    BY <1>1, <1>3
  <2>8. ASSUME NEW k \in 1..(Len(s) - b - 1)
        PROVE  a[k] = s[b + 1 + k]
    <3>1. k \in 1..(Len(s) - at) /\ b + 1 + k = at + k
      BY <2>6, <2>7
    <3> QED  BY <2>4, <3>1
  <2>9. Len(a) = Len(s) - b - 1 /\ ~(b = Len(s))
    BY <2>4, <2>6, <1>3
  <2> QED  BY <2>4, <2>5, <2>8, <2>9 DEF Behind
<1> QED  BY <1>4, <1>5

LEMMA SameSequence ==
  ASSUME NEW X, NEW s \in Seq(X), NEW t \in Seq(X), Len(s) = Len(t),
         \A k \in 1..Len(s) : s[k] = t[k]
  PROVE  s = t
<1>1. s = [k \in 1..Len(s) |-> s[k]] /\ t = [k \in 1..Len(t) |-> t[k]]
  BY LenProperties
<1> QED  BY <1>1

LEMMA Joined ==
  ASSUME NEW X, NEW s \in Seq(X), NEW t \in Seq(X)
  PROVE  /\ s \o t \in Seq(X) /\ Len(s \o t) = Len(s) + Len(t)
         /\ \A k \in 1..Len(s) : (s \o t)[k] = s[k]
         /\ \A k \in 1..Len(t) : (s \o t)[Len(s) + k] = t[k]
<1>1. /\ s \o t \in Seq(X) /\ Len(s \o t) = Len(s) + Len(t)
      /\ \A k \in 1..(Len(s) + Len(t)) :
           (s \o t)[k] = IF k <= Len(s) THEN s[k] ELSE t[k - Len(s)]
  BY ConcatProperties
<1>2. Len(s) \in Nat /\ Len(t) \in Nat
  BY LenProperties
<1>3. ASSUME NEW k \in 1..Len(s)
      PROVE  (s \o t)[k] = s[k]
  BY <1>1, <1>2
<1>4. ASSUME NEW k \in 1..Len(t)
      PROVE  (s \o t)[Len(s) + k] = t[k]
  <2>1. /\ Len(s) + k \in 1..(Len(s) + Len(t)) /\ ~(Len(s) + k <= Len(s))
        /\ Len(s) + k - Len(s) = k
    BY <1>2
  <2> QED  BY <1>1, <2>1
<1> QED  BY <1>1, <1>3, <1>4

LEMMA DotInside ==
  ASSUME NEW Y, Dot \in Y, NEW s \in Seq(Y), NEW t \in Seq(Y),
         \A k \in 1..Len(s) : s[k] # Dot,
         NEW w \in Seq(Y), Len(w) = Len(s) + 1 + Len(t),
         \A k \in 1..Len(s) : w[k] = s[k],
         w[Len(s) + 1] = Dot,
         \A k \in 1..Len(t) : w[Len(s) + 1 + k] = t[k]
  PROVE  Before(w, Dot) = s /\ After(w, Dot) = t
<1>0. Len(s) \in Nat /\ Len(t) \in Nat
  BY LenProperties
<1>1. Len(Before(w, Dot)) = Len(s)
  <2>1. /\ Len(Before(w, Dot)) \in 0..Len(w)
        /\ \A k \in 1..Len(Before(w, Dot)) : w[k] # Dot
        /\ Len(Before(w, Dot)) < Len(w) => w[Len(Before(w, Dot)) + 1] = Dot
    BY BeforeProperties
  <2>2. ~(Len(s) + 1 \in 1..Len(Before(w, Dot)))
    BY <2>1
  <2>3. ~(Len(Before(w, Dot)) + 1 \in 1..Len(s))
    <3>1. PICK l \in Nat : l = Len(Before(w, Dot))
      BY <1>0, <2>1
    <3>2. l + 1 \in 1..Len(s) => s[l + 1] # Dot /\ w[l + 1] = s[l + 1] /\ l < Len(w)
      BY <1>0, <3>1
    <3>3. l < Len(w) => w[l + 1] = Dot
      BY <2>1, <3>1
    <3> QED  BY <3>1, <3>2, <3>3
  <2> QED  BY <1>0, <2>1, <2>2, <2>3
<1>2. Before(w, Dot) = s
  <2>1. /\ Before(w, Dot) \in Seq(Y)
        /\ \A k \in 1..Len(Before(w, Dot)) : Before(w, Dot)[k] = w[k]
    BY BeforeProperties
  <2> QED  BY <1>1, <2>1, SameSequence
<1>3. After(w, Dot) = t
  <2>1. ASSUME NEW b, b = Len(Before(w, Dot))
        PROVE  /\ After(w, Dot) \in Seq(Y) /\ Len(After(w, Dot)) = Len(w) - b - 1
               /\ \A k \in 1..(Len(w) - b - 1) : After(w, Dot)[k] = w[b + 1 + k]
    <3>1. /\ After(w, Dot) \in Seq(Y)
          /\ b < Len(w) => Behind(After(w, Dot), w, b)
      BY <2>1, AfterProperties
    <3> QED  BY <1>0, <1>1, <2>1, <3>1 DEF Behind
  <2>2. Len(w) - Len(s) - 1 = Len(t)
    BY <1>0
  <2>3. /\ After(w, Dot) \in Seq(Y) /\ Len(After(w, Dot)) = Len(t)
        /\ \A k \in 1..Len(t) : After(w, Dot)[k] = w[Len(s) + 1 + k]
    BY ZenonT(30), <1>1, <2>1, <2>2
  <2> QED  BY <2>3, SameSequence
<1> QED  BY <1>2, <1>3

\* The same as one formula.
Joint(u, s, t) ==
  /\ Len(u) = Len(s) + Len(t)
  /\ \A k \in 1..Len(s) : u[k] = s[k]
  /\ \A k \in 1..Len(t) : u[Len(s) + k] = t[k]

LEMMA JoinedIsJoint ==
  ASSUME NEW X, NEW s \in Seq(X), NEW t \in Seq(X)
  PROVE  s \o t \in Seq(X) /\ Joint(s \o t, s, t)
  BY Joined DEF Joint

\* The dot between two parts without a dot splits them again.
LEMMA DotSplits ==
  ASSUME NEW Y, Dot \in Y, NEW s \in Seq(Y), NEW t \in Seq(Y),
         \A k \in 1..Len(s) : s[k] # Dot
  PROVE  /\ Before(s, Dot) = s /\ After(s, Dot) = << >>
         /\ Before(s \o <<Dot>> \o t, Dot) = s /\ After(s \o <<Dot>> \o t, Dot) = t
<1>0. Len(s) \in Nat /\ Len(t) \in Nat
  BY LenProperties
<1>1. Len(Before(s, Dot)) = Len(s)
  <2>1. /\ Len(Before(s, Dot)) \in 0..Len(s)
        /\ Len(Before(s, Dot)) < Len(s) => s[Len(Before(s, Dot)) + 1] = Dot
    BY BeforeProperties
  <2> QED  BY <1>0, <2>1
<1>2. Before(s, Dot) = s /\ After(s, Dot) = << >>
  <2>1. /\ Before(s, Dot) \in Seq(Y)
        /\ \A k \in 1..Len(Before(s, Dot)) : Before(s, Dot)[k] = s[k]
    BY BeforeProperties
  <2>2. Before(s, Dot) = s
    BY <1>1, <2>1, SameSequence
  <2>3. ASSUME NEW b, b = Len(Before(s, Dot))
        PROVE  After(s, Dot) = << >>
    <3>1. b = Len(s) => After(s, Dot) = << >>
      BY <2>3, AfterProperties
    <3> QED  BY <1>1, <2>3, <3>1
  <2> QED  BY <2>2, <2>3
<1>3. ASSUME NEW d \in Seq(Y), Len(d) = 1, d[1] = Dot
      PROVE  Before((s \o d) \o t, Dot) = s /\ After((s \o d) \o t, Dot) = t
  <2>1. /\ s \o d \in Seq(Y) /\ Len(s \o d) = Len(s) + Len(d)
        /\ \A k \in 1..Len(s) : (s \o d)[k] = s[k]
        /\ \A k \in 1..Len(d) : (s \o d)[Len(s) + k] = d[k]
    BY Joined
  <2>2. ASSUME NEW u \in Seq(Y), u = s \o d
        PROVE  /\ u \o t \in Seq(Y) /\ Len(u \o t) = Len(s) + 1 + Len(t)
               /\ \A k \in 1..Len(s) : (u \o t)[k] = s[k]
               /\ (u \o t)[Len(s) + 1] = Dot
               /\ \A k \in 1..Len(t) : (u \o t)[Len(s) + 1 + k] = t[k]
    <3>1. /\ u \o t \in Seq(Y) /\ Len(u \o t) = Len(u) + Len(t)
          /\ \A k \in 1..Len(u) : (u \o t)[k] = u[k]
          /\ \A k \in 1..Len(t) : (u \o t)[Len(u) + k] = t[k]
      BY Joined
    <3>2. Len(u) = Len(s) + 1 /\ u[Len(s) + 1] = Dot /\ \A k \in 1..Len(s) : u[k] = s[k]
      BY <1>0, <1>3, <2>1, <2>2
    <3> QED  BY <1>0, <3>1, <3>2
  <2> QED  BY ZenonT(30), <2>1, <2>2, DotInside
<1>4. <<Dot>> \in Seq(Y) /\ Len(<<Dot>>) = 1 /\ <<Dot>>[1] = Dot
  BY IsASeq
<1> QED  BY <1>2, <1>3, <1>4

LEMMA UpperLower ==
  ASSUME NEW c, c \notin Range(Small)
  PROVE  /\ toupper(tolower(c)) = c
         /\ c # Dot => tolower(c) # Dot
         /\ c # Nul => tolower(c) # Nul
<1>1. /\ \A a, b \in Capitals : Small[a] = Small[b] => a = b
      /\ {Space, Dot, Nul} \cap Range(Small) = {}
      /\ \A a \in Capitals : Small[a] \in Range(Small)
  BY FileNamesAssumption DEF IsInjective, Range
<1>2. CASE c \in Capitals
  BY <1>1, <1>2 DEF toupper, tolower
<1>3. CASE c \notin Capitals
  BY <1>3 DEF toupper, tolower
<1> QED  BY <1>2, <1>3

LowerOf(X) == {tolower(x) : x \in X} \cup {Dot}

LEMMA ShownField ==
  ASSUME NEW X, NEW f \in Seq(X), SoundField(f)
  PROVE  /\ Shown(f) \in Seq(LowerOf(X))
         /\ \A k \in 1..Len(Shown(f)) : Shown(f)[k] # Dot /\ Shown(f)[k] # Nul
         /\ f # << >> /\ f[1] = Space => Shown(f) = << >>
         /\ Field(Shown(f), Len(f)) = f
<1> DEFINE s == Before(f, Space)
           b == Len(s)
<1>1. /\ s \in Seq(X) /\ b \in 0..Len(f)
      /\ \A k \in 1..b : s[k] = f[k] /\ f[k] # Space
      /\ b < Len(f) => f[b + 1] = Space
  BY BeforeProperties
<1>2. Len(f) \in Nat /\ b \in Nat /\ DOMAIN s = 1..b /\ DOMAIN f = 1..Len(f)
      /\ f = [k \in 1..Len(f) |-> f[k]]
  BY <1>1, LenProperties
<1>3. Shown(f) = [k \in 1..b |-> tolower(s[k])]
  BY <1>2 DEF Shown
<1>4. \A k \in 1..b : s[k] \in X /\ s[k] = f[k]
  BY <1>1, ElementOfSeq
<1> HIDE DEF s, b
<1>5. Shown(f) \in Seq(LowerOf(X)) /\ Len(Shown(f)) = b
  <2>1. [k \in 1..b |-> tolower(s[k])] \in [1..b -> LowerOf(X)]
    BY <1>4 DEF LowerOf
  <2>2. Shown(f) \in [1..b -> LowerOf(X)]
    BY <1>3, <2>1
  <2>3. DOMAIN Shown(f) = 1..b
    BY <1>3
  <2>4. Shown(f) \in Seq(LowerOf(X))
    BY <1>2, <2>2, IsASeq
  <2>5. DOMAIN Shown(f) = 1..Len(Shown(f)) /\ Len(Shown(f)) \in Nat
    BY <2>4, LenProperties
  <2> QED  BY <1>2, <2>3, <2>4, <2>5
<1>6. ASSUME NEW k \in 1..Len(f)
      PROVE  /\ f[k] \notin Range(Small) /\ f[k] # Dot /\ f[k] # Nul
             /\ f[k] = Space => \A j \in 1..Len(f) : j > k => f[j] = Space
  BY <1>2 DEF SoundField
<1>7. ASSUME NEW k \in 1..b
      PROVE  /\ Shown(f)[k] = tolower(f[k]) /\ Shown(f)[k] # Dot /\ Shown(f)[k] # Nul
             /\ toupper(Shown(f)[k]) = f[k]
  <2>1. k \in 1..Len(f) /\ Shown(f)[k] = tolower(f[k])
    BY <1>1, <1>2, <1>3, <1>4
  <2>2. f[k] \notin Range(Small) /\ f[k] # Dot /\ f[k] # Nul
    BY <1>6, <2>1
  <2> QED  BY <2>1, <2>2, UpperLower
<1>8. ASSUME f # << >>, f[1] = Space
      PROVE  Shown(f) = << >>
  <2>1. ~(1 \in 1..b)
    BY <1>1, <1>8
  <2>2. Len(Shown(f)) = 0
    BY <1>2, <1>5, <2>1
  <2> QED  BY <1>5, <2>2, EmptySeq
<1>9. Field(Shown(f), Len(f)) = f
  <2>1. Field(Shown(f), Len(f)) =
          [k \in 1..Len(f) |-> IF k <= b THEN toupper(Shown(f)[k]) ELSE Space]
    BY <1>5 DEF Field
  <2>2. ASSUME NEW k \in 1..Len(f)
        PROVE  (IF k <= b THEN toupper(Shown(f)[k]) ELSE Space) = f[k]
    <3>1. CASE k <= b
      BY <1>7, <3>1
    <3>2. CASE ~(k <= b)
      <4>1. b + 1 \in 1..Len(f) /\ f[b + 1] = Space /\ (k = b + 1 \/ k > b + 1)
        BY <1>1, <1>2, <3>2
      <4>2. \A j \in 1..Len(f) : j > b + 1 => f[j] = Space
        BY <1>6, <4>1
      <4> QED  BY <3>2, <4>1, <4>2
    <3> QED  BY <3>1, <3>2
  <2> QED  BY <1>2, <2>1, <2>2
<1> QED  BY <1>5, <1>7, <1>8, <1>9

\* A name that ls shows is the name on the disk again after cd and cat have
\* read it.
LEMMA NamesReturn ==
  ASSUME NEW n, SoundName(n)
  PROVE  format_filename_83(format_entry_name(n)) = n
<1> DEFINE X == Range(n)
           f == SubSeq(n, 1, BaseLen)
           g == SubSeq(n, BaseLen + 1, BaseLen + ExtLen)
           Y == LowerOf(X)
<1>1. /\ n \in Seq(X) /\ Len(n) = BaseLen + ExtLen
      /\ SoundField(f) /\ SoundField(g)
      /\ BaseLen \in Nat \ {0} /\ ExtLen \in Nat \ {0}
  BY FileNamesAssumption DEF SoundName
<1>2. \A k \in 1..(BaseLen + ExtLen) : n[k] \in X
  BY <1>1, ElementOfSeq
<1> HIDE DEF X
<1>3. /\ f \in Seq(X) /\ Len(f) = BaseLen
      /\ \A k \in 1..BaseLen : f[k] = n[k]
  <2>1. \A k \in 1..BaseLen : n[k] \in X
    BY <1>1, <1>2
  <2>2. /\ SubSeq(n, 1, BaseLen) \in Seq(X)
        /\ Len(SubSeq(n, 1, BaseLen)) = IF 1 <= BaseLen THEN BaseLen - 1 + 1 ELSE 0
        /\ \A k \in 1..(BaseLen - 1 + 1) : SubSeq(n, 1, BaseLen)[k] = n[1 + k - 1]
    BY <1>1, <2>1, SubSeqProperties
  <2>3. BaseLen - 1 + 1 = BaseLen /\ \A k \in Nat : 1 + k - 1 = k
    BY <1>1
  <2> QED  BY <1>1, <2>2, <2>3
<1>4. /\ g \in Seq(X) /\ Len(g) = ExtLen
      /\ \A k \in 1..ExtLen : g[k] = n[BaseLen + k]
  <2>1. ASSUME NEW l \in Nat, l = BaseLen + 1, NEW m \in Nat, m = BaseLen + ExtLen
        PROVE  /\ SubSeq(n, l, m) \in Seq(X) /\ Len(SubSeq(n, l, m)) = ExtLen
               /\ \A k \in 1..ExtLen : SubSeq(n, l, m)[k] = n[BaseLen + k]
    <3>1. \A k \in l..m : n[k] \in X
      BY <1>1, <1>2, <2>1
    <3>2. /\ SubSeq(n, l, m) \in Seq(X)
          /\ Len(SubSeq(n, l, m)) = IF l <= m THEN m - l + 1 ELSE 0
          /\ \A k \in 1..(m - l + 1) : SubSeq(n, l, m)[k] = n[l + k - 1]
      BY <3>1, SubSeqProperties
    <3>3. m - l + 1 = ExtLen /\ l <= m /\ \A k \in Nat : l + k - 1 = BaseLen + k
      BY <1>1, <2>1
    <3> QED  BY SMTT(20), <1>1, <3>2, <3>3
  <2>2. BaseLen + 1 \in Nat /\ BaseLen + ExtLen \in Nat
    BY <1>1
  <2> QED  BY <2>1, <2>2
<1>5. f \o g = n
  <2> HIDE DEF f, g
  <2>1. /\ f \o g \in Seq(X) /\ Len(f \o g) = BaseLen + ExtLen
        /\ \A k \in 1..(BaseLen + ExtLen) : (f \o g)[k] = IF k <= BaseLen THEN f[k] ELSE g[k - BaseLen]
    BY ZenonT(30), <1>3, <1>4, ConcatProperties
  <2>2. ASSUME NEW k \in 1..(BaseLen + ExtLen)
        PROVE  (f \o g)[k] = n[k]
    <3>1. CASE k <= BaseLen
      BY <1>1, <1>3, <2>1, <3>1
    <3>2. CASE ~(k <= BaseLen)
      <4>1. k - BaseLen \in 1..ExtLen /\ BaseLen + (k - BaseLen) = k
        BY <1>1, <3>2
      <4>2. g[k - BaseLen] = n[BaseLen + (k - BaseLen)]
        BY <1>4, <4>1
      <4> QED  BY <2>1, <3>2, <4>1, <4>2
    <3> QED  BY <3>1, <3>2
  <2> QED  BY <1>1, <2>1, <2>2, SameSequence
<1>6. /\ Shown(f) \in Seq(Y) /\ Shown(g) \in Seq(Y) /\ Dot \in Y
      /\ \A k \in 1..Len(Shown(f)) : Shown(f)[k] # Dot
      /\ g # << >> /\ g[1] = Space => Shown(g) = << >>
      /\ Field(Shown(f), Len(f)) = f /\ Field(Shown(g), Len(g)) = g
  <2>1. Dot \in Y
    BY DEF LowerOf
  <2> HIDE DEF f, g, Y
  <2> QED  BY <1>1, <1>3, <1>4, <2>1, ShownField DEF Y
<1>7. g # << >> /\ g[1] = n[BaseLen + 1]
  <2> HIDE DEF f, g
  <2>1. 1 \in 1..ExtLen
    BY <1>1
  <2> QED  BY <1>1, <1>4, <2>1, EmptySeq
<1>8. format_entry_name(n) =
        Shown(f) \o (IF n[BaseLen + 1] # Space THEN <<Dot>> ELSE << >>) \o Shown(g)
  BY DEF format_entry_name
<1> DEFINE s == format_entry_name(n)
<1> HIDE DEF f, g, Y, s
<1>9. Before(s, Dot) = Shown(f) /\ After(s, Dot) = Shown(g)
  <2>1. CASE n[BaseLen + 1] # Space
    <3>1. s = Shown(f) \o <<Dot>> \o Shown(g)
      BY <1>8, <2>1 DEF s
    <3> QED  BY <1>6, <3>1, DotSplits
  <2>2. CASE n[BaseLen + 1] = Space
    <3>1. Shown(g) = << >>
      BY <1>6, <1>7, <2>2
    <3>2. s = Shown(f) \o << >> \o << >>
      BY <1>8, <2>2, <3>1 DEF s
    <3>3. s = Shown(f)
      BY <1>6, <3>2, ConcatEmptySeq
    <3> QED  BY <1>6, <3>1, <3>3, DotSplits
  <2> QED  BY <2>1, <2>2
<1>10. format_filename_83(s) = Field(Shown(f), BaseLen) \o Field(Shown(g), ExtLen)
  BY <1>9 DEF format_filename_83
<1> QED  BY <1>3, <1>4, <1>5, <1>6, <1>10 DEF s

-----------------------------------------------------------------------------
(***************************************************************************)
(* The search of cat and cd in one sector.                                 *)
(***************************************************************************)

LEMMA FirstEnd ==
  ASSUME NEW X, NEW s \in Seq(X)
  PROVE  LET at == SelectInSeq(s, LAMBDA x : x.state = "end")
         IN /\ at \in 0..Len(s)
            /\ at = 0 => \A k \in 1..Len(s) : s[k].state # "end"
            /\ at # 0 => s[at].state = "end" /\ \A k \in 1..(at - 1) : s[k].state # "end"
<1> DEFINE I == {k \in 1..Len(s) : s[k].state = "end"}
           at == SelectInSeq(s, LAMBDA x : x.state = "end")
<1>1. at = IF I # {} THEN Min(I) ELSE 0
  BY DEF SelectInSeq
<1>2. Len(s) \in Nat /\ I \subseteq 1..Len(s)
  BY LenProperties
<1> HIDE DEF at, I
<1>3. /\ at \in 0..Len(s)
      /\ at = 0 => I = {}
      /\ at # 0 => at \in I /\ \A k \in 1..(at - 1) : k \notin I
  BY <1>1, <1>2, FirstPlace
<1>4. \A k \in 1..(at - 1) : at # 0 => k \in 1..Len(s)
  BY <1>2, <1>3
<1>5. /\ at \in 0..Len(s)
      /\ at = 0 => \A k \in 1..Len(s) : s[k].state # "end"
      /\ at # 0 => s[at].state = "end" /\ \A k \in 1..(at - 1) : s[k].state # "end"
  BY <1>2, <1>3, <1>4 DEF I
<1> QED  BY <1>5 DEF at

LEMMA ScannedProperties ==
  ASSUME NEW X, NEW s \in Seq(X)
  PROVE  /\ Scanned(s) \in Seq(X)
         /\ Len(Scanned(s)) \in 0..Len(s)
         /\ \A k \in 1..Len(Scanned(s)) : Scanned(s)[k] = s[k]
         /\ Len(Scanned(s)) < Len(s) => s[Len(Scanned(s)) + 1].state = "end"
<1> DEFINE at == SelectInSeq(s, LAMBDA x : x.state = "end")
<1>1. /\ at \in 0..Len(s)
      /\ at # 0 => s[at].state = "end"
  BY FirstEnd
<1>2. Scanned(s) = IF at = 0 THEN s ELSE SubSeq(s, 1, at - 1)
  BY DEF Scanned
<1>3. Len(s) \in Nat
  BY LenProperties
<1> HIDE DEF at
<1>4. CASE at = 0
  BY <1>1, <1>2, <1>3, <1>4
<1>5. CASE at # 0
  <2>1. at - 1 \in 0..Len(s) /\ at - 1 < Len(s) /\ (at - 1) + 1 = at
    BY <1>1, <1>3, <1>5
  <2>2. ASSUME NEW l \in 0..Len(s), l = at - 1
        PROVE  /\ SubSeq(s, 1, l) \in Seq(X) /\ Len(SubSeq(s, 1, l)) = l
               /\ \A k \in 1..l : SubSeq(s, 1, l)[k] = s[k]
    BY <1>3, SubSeqProperties
  <2> DEFINE b == SubSeq(s, 1, at - 1)
  <2>3. b \in Seq(X) /\ Len(b) = at - 1 /\ \A k \in 1..(at - 1) : b[k] = s[k]
    BY <2>1, <2>2
  <2>4. Scanned(s) = b
    BY <1>2, <1>5
  <2> HIDE DEF b
  <2> QED  BY <1>1, <1>5, <2>1, <2>3, <2>4
<1> QED  BY <1>4, <1>5

\* A match is an entry in use with the name; without one no entry before the
\* end mark has it.
LEMMA MatchProperties ==
  ASSUME NEW X, NEW s \in Seq(X), NEW n
  PROVE  /\ Match(s, n) \in 0..Len(s)
         /\ Match(s, n) # 0 => InUse(s[Match(s, n)]) /\ s[Match(s, n)].name = n
         /\ Match(s, n) = 0 => \A k \in 1..Len(Scanned(s)) : ~(InUse(s[k]) /\ s[k].name = n)
<1> DEFINE t == Scanned(s)
           I == {k \in 1..Len(t) : InUse(t[k]) /\ t[k].name = n}
           at == Match(s, n)
<1>1. at = IF I # {} THEN Min(I) ELSE 0
  BY DEF Match, SelectInSeq
<1>2. /\ t \in Seq(X) /\ Len(t) \in 0..Len(s)
      /\ \A k \in 1..Len(t) : t[k] = s[k]
  BY ScannedProperties
<1>3. Len(s) \in Nat /\ Len(t) \in Nat /\ I \subseteq 1..Len(t)
  BY <1>2, LenProperties
<1> HIDE DEF t, I, at
<1>4. /\ at \in 0..Len(t)
      /\ at = 0 => I = {}
      /\ at # 0 => at \in I
  BY <1>1, <1>3, FirstPlace
<1>5. at \in 0..Len(s)
  BY <1>2, <1>3, <1>4
<1>6. ASSUME at # 0
      PROVE  InUse(s[at]) /\ s[at].name = n
  <2>1. InUse(t[at]) /\ t[at].name = n /\ at \in 1..Len(t)
    BY <1>4, <1>6 DEF I
  <2> QED  BY <1>2, <2>1
<1>7. ASSUME at = 0, NEW k \in 1..Len(t)
      PROVE  ~(InUse(s[k]) /\ s[k].name = n)
  <2>1. ~(InUse(t[k]) /\ t[k].name = n)
    BY <1>4, <1>7 DEF I
  <2> QED  BY <1>2, <2>1
<1> QED  BY <1>5, <1>6, <1>7 DEF t, at

-----------------------------------------------------------------------------
(***************************************************************************)
(* Sound volumes.                                                          *)
(***************************************************************************)

LEMMA Factors ==
  ASSUME NEW a \in Nat, NEW b \in Nat, NEW c \in Nat
  PROVE  /\ a * b \in Nat /\ (a + 1) * b = a * b + b
         /\ a <= c => a * b <= c * b
<1>1. a * b \in Nat /\ (a + 1) * b = a * b + b
  OBVIOUS
<1>2. ASSUME a <= c
      PROVE  a * b <= c * b
  <2>1. c - a \in Nat
    BY <1>2
  <2>2. (c - a) * b \in Nat
    BY <2>1
  <2>3. c * b = a * b + (c - a) * b
    OBVIOUS
  <2>4. ASSUME NEW x \in Nat, NEW y \in Nat, NEW z \in Nat, z = x + y
        PROVE  x <= z
    BY <2>4
  <2>5. a * b \in Nat /\ c * b \in Nat
    OBVIOUS
  <2> QED  BY <2>2, <2>3, <2>4, <2>5
<1> QED  BY <1>1, <1>2

LEMMA DigitFacts ==
  ASSUME NEW n \in Nat, NEW r \in Nat \ {0}
  PROVE  /\ n \div r \in Nat /\ n % r \in Nat /\ n % r < r
         /\ n = (n \div r) * r + (n % r)
  OBVIOUS

LEMMA DigitBelow ==
  ASSUME NEW n \in Nat, NEW r \in Nat \ {0}, NEW q \in Nat, n < q * r
  PROVE  n \div r < q
<1>1. SUFFICES ASSUME q <= n \div r
               PROVE  FALSE
  BY DigitFacts
<1>2. ASSUME NEW a \in Nat, a = n \div r
      PROVE  q * r <= a * r /\ a * r \in Nat /\ q * r \in Nat
  BY <1>1, <1>2, Factors
<1>3. /\ n \div r \in Nat /\ n % r \in Nat /\ n = (n \div r) * r + (n % r)
      /\ q * r <= (n \div r) * r /\ (n \div r) * r \in Nat /\ q * r \in Nat
  BY <1>2, DigitFacts
<1>4. ASSUME NEW x \in Nat, NEW y \in Nat, NEW z \in Nat, n = x + y, z <= x
      PROVE  z <= n
  BY <1>4
<1> QED  BY <1>3, <1>4

LEMMA VolumeFacts ==
  ASSUME NEW v, SoundVolume(v)
  PROVE  /\ v.bs.sectors_per_cluster \in Nat \ {0}
         /\ v.bs.reserved_sector_count \in Nat /\ v.bs.table_size_32 \in Nat
         /\ DataOf(v) \in Nat /\ DataOf(v) < Word
         /\ 2 \in Clusters(v) /\ v.bs.root_cluster \in Clusters(v)
         /\ Clusters(v) \subseteq Nat
         /\ BytesPerSector \in Nat \ {0} /\ FatPerSector \in Nat \ {0} /\ Word \in Nat \ {0}
         /\ EndOfChain \in Nat /\ MaxDepth \in Nat
<1>1. /\ v.bs.reserved_sector_count \in Nat /\ v.bs.table_size_32 \in Nat /\ v.bs.fat_count \in Nat
      /\ v.bs.sectors_per_cluster \in Nat \ {0}
      /\ DataOf(v) < Word /\ 2 \in Clusters(v) /\ v.bs.root_cluster \in Clusters(v)
  BY DEF SoundVolume
<1>2. v.bs.fat_count * v.bs.table_size_32 \in Nat
  BY <1>1
<1>3. DataOf(v) \in Nat
  BY <1>1, <1>2 DEF DataOf
<1>4. Clusters(v) \subseteq Nat
  BY DEF Clusters
<1> QED  BY <1>1, <1>3, <1>4, FatAssumption

\* A place is a pair of a sector and an entry in it.
LEMMA PlaceOf ==
  ASSUME NEW v, NEW c, NEW k \in 0..(v.bs.sectors_per_cluster - 1),
         NEW j \in DOMAIN EntriesAt(v, c, k)
  PROVE  /\ <<k, j>> \in Places(v, c) /\ EntryAt(v, c, <<k, j>>) = EntriesAt(v, c, k)[j]
         /\ InUse(EntriesAt(v, c, k)[j]) => <<k, j>> \in PlacesInUse(v, c)
<1>1. <<k, j>> \in Places(v, c)
  BY DEF Places
<1>2. EntryAt(v, c, <<k, j>>) = EntriesAt(v, c, k)[j]
  BY DEF EntryAt
<1> QED  BY <1>1, <1>2 DEF PlacesInUse

LEMMA PairOf ==
  ASSUME NEW v, NEW c, NEW p \in Places(v, c)
  PROVE  /\ p[1] \in 0..(v.bs.sectors_per_cluster - 1) /\ p[2] \in DOMAIN EntriesAt(v, c, p[1])
         /\ p = <<p[1], p[2]>>
         /\ EntryAt(v, c, p) = EntriesAt(v, c, p[1])[p[2]]
<1>1. PICK k \in 0..(v.bs.sectors_per_cluster - 1) : p \in {k} \X DOMAIN EntriesAt(v, c, k)
  BY DEF Places
<1>2. p[1] = k /\ p[2] \in DOMAIN EntriesAt(v, c, k) /\ p = <<p[1], p[2]>>
  BY <1>1
<1> QED  BY <1>2 DEF EntryAt

\* A sector of a directory's first cluster.
LEMMA SectorEntries ==
  ASSUME NEW v, SoundVolume(v), NEW c \in Clusters(v),
         NEW k \in 0..(v.bs.sectors_per_cluster - 1)
  PROVE  /\ EntriesAt(v, c, k) \in Seq(Range(EntriesAt(v, c, k)))
         /\ DOMAIN EntriesAt(v, c, k) = 1..Len(EntriesAt(v, c, k))
         /\ Len(EntriesAt(v, c, k)) \in Nat
         /\ \A j \in DOMAIN EntriesAt(v, c, k) : InUse(EntriesAt(v, c, k)[j]) =>
              /\ EntriesAt(v, c, k)[j].cluster \in Nat
              /\ EntriesAt(v, c, k)[j].size \in Nat
              /\ EntriesAt(v, c, k)[j].dir \in BOOLEAN
              /\ Typable(EntriesAt(v, c, k)[j].name) => EntriesAt(v, c, k)[j].cluster \in Clusters(v)
<1>1. SoundDirectory(v, c)
  BY DEF SoundVolume
<1>2. EntriesAt(v, c, k) \in Seq(Range(EntriesAt(v, c, k)))
  BY <1>1 DEF SoundDirectory
<1>3. DOMAIN EntriesAt(v, c, k) = 1..Len(EntriesAt(v, c, k)) /\ Len(EntriesAt(v, c, k)) \in Nat
  BY <1>2, LenProperties
<1>4. ASSUME NEW j \in DOMAIN EntriesAt(v, c, k), InUse(EntriesAt(v, c, k)[j])
      PROVE  /\ EntriesAt(v, c, k)[j].cluster \in Nat
             /\ EntriesAt(v, c, k)[j].size \in Nat
             /\ EntriesAt(v, c, k)[j].dir \in BOOLEAN
             /\ Typable(EntriesAt(v, c, k)[j].name) => EntriesAt(v, c, k)[j].cluster \in Clusters(v)
  <2>1. <<k, j>> \in PlacesInUse(v, c) /\ EntryAt(v, c, <<k, j>>) = EntriesAt(v, c, k)[j]
    BY <1>4, PlaceOf
  <2>2. \A p \in PlacesInUse(v, c) :
          /\ EntryAt(v, c, p).cluster \in Nat /\ EntryAt(v, c, p).size \in Nat
          /\ EntryAt(v, c, p).dir \in BOOLEAN
          /\ Typable(EntryAt(v, c, p).name) => EntryAt(v, c, p).cluster \in Clusters(v)
    BY <1>1 DEF SoundDirectory
  <2> QED  BY <2>1, <2>2
<1> QED  BY <1>2, <1>3, <1>4

\* cat searches the first data cluster, which is cluster 2.
LEMMA FirstData ==
  ASSUME NEW v, SoundVolume(v)
  PROVE  SectorOf(v, 2) = DataOf(v)
<1>1. /\ v.bs.sectors_per_cluster \in Nat /\ DataOf(v) \in Nat /\ DataOf(v) < Word /\ Word \in Nat \ {0}
  BY VolumeFacts
<1>2. ((2 - 2) * v.bs.sectors_per_cluster + DataOf(v)) % Word = DataOf(v)
  BY <1>1
<1> QED  BY <1>2 DEF SectorOf

\* The clusters of files; the table leads from them to them and to the end.
FileClusters(v) == CHOOSE files \in SUBSET Clusters(v) : HoldFiles(v, files)

LEMMA FilesHeld ==
  ASSUME NEW v, SoundVolume(v)
  PROVE  FileClusters(v) \subseteq Clusters(v) /\ HoldFiles(v, FileClusters(v))
<1>1. \E files \in SUBSET Clusters(v) : HoldFiles(v, files)
  BY DEF SoundVolume
<1> QED  BY <1>1 DEF FileClusters

LEMMA TableLeads ==
  ASSUME NEW v, SoundVolume(v), NEW c \in FileClusters(v)
  PROVE  c \in Clusters(v) /\ TableAt(v, c) \in FileClusters(v) \cup {EndOfChain}
  BY FilesHeld DEF HoldFiles

LEMMA FilesBegin ==
  ASSUME NEW v, SoundVolume(v), NEW k \in 0..(v.bs.sectors_per_cluster - 1),
         NEW j \in DOMAIN EntriesAt(v, 2, k), InUse(EntriesAt(v, 2, k)[j]),
         Typable(EntriesAt(v, 2, k)[j].name), EntriesAt(v, 2, k)[j].size > 0
  PROVE  EntriesAt(v, 2, k)[j].cluster \in FileClusters(v)
<1>1. \A p \in PlacesInUse(v, 2) :
        Typable(EntryAt(v, 2, p).name) /\ EntryAt(v, 2, p).size > 0
        => EntryAt(v, 2, p).cluster \in FileClusters(v)
  BY FilesHeld DEF HoldFiles
<1>2. <<k, j>> \in PlacesInUse(v, 2) /\ EntryAt(v, 2, <<k, j>>) = EntriesAt(v, 2, k)[j]
  BY PlaceOf
<1> QED  BY <1>1, <1>2

-----------------------------------------------------------------------------
(***************************************************************************)
(* Directories.                                                            *)
(***************************************************************************)

LEMMA InDirectoryPlaces ==
  ASSUME NEW v, NEW c, NEW e
  PROVE  e \in InDirectory(v, c) <=>
           \E k \in 0..(v.bs.sectors_per_cluster - 1) :
             \E j \in DOMAIN EntriesAt(v, c, k) : e = EntriesAt(v, c, k)[j] /\ InUse(e)
<1>1. ASSUME e \in InDirectory(v, c)
      PROVE  \E k \in 0..(v.bs.sectors_per_cluster - 1) :
               \E j \in DOMAIN EntriesAt(v, c, k) : e = EntriesAt(v, c, k)[j] /\ InUse(e)
  <2>1. PICK p \in PlacesInUse(v, c) : e = EntryAt(v, c, p)
    BY <1>1 DEF InDirectory
  <2>2. p \in Places(v, c) /\ InUse(e)
    BY <2>1 DEF PlacesInUse
  <2>3. /\ p[1] \in 0..(v.bs.sectors_per_cluster - 1) /\ p[2] \in DOMAIN EntriesAt(v, c, p[1])
        /\ EntryAt(v, c, p) = EntriesAt(v, c, p[1])[p[2]]
    BY <2>2, PairOf
  <2> QED  BY <2>1, <2>2, <2>3
<1>2. ASSUME NEW k \in 0..(v.bs.sectors_per_cluster - 1), NEW j \in DOMAIN EntriesAt(v, c, k),
             e = EntriesAt(v, c, k)[j], InUse(e)
      PROVE  e \in InDirectory(v, c)
  <2>1. <<k, j>> \in PlacesInUse(v, c) /\ EntryAt(v, c, <<k, j>>) = e
    BY <1>2, PlaceOf
  <2> QED  BY <2>1 DEF InDirectory
<1> QED  BY <1>1, <1>2

LEMMA NameDecides ==
  ASSUME NEW v, SoundVolume(v), NEW c \in Clusters(v),
         NEW k \in 0..(v.bs.sectors_per_cluster - 1), NEW j \in DOMAIN EntriesAt(v, c, k),
         NEW l \in 0..(v.bs.sectors_per_cluster - 1), NEW m \in DOMAIN EntriesAt(v, c, l),
         InUse(EntriesAt(v, c, k)[j]), InUse(EntriesAt(v, c, l)[m]),
         EntriesAt(v, c, k)[j].name = EntriesAt(v, c, l)[m].name,
         Typable(EntriesAt(v, c, k)[j].name)
  PROVE  k = l /\ j = m
<1>0. SoundDirectory(v, c)
  BY DEF SoundVolume
<1>1. \A p, q \in PlacesInUse(v, c) :
        Typable(EntryAt(v, c, p).name) /\ EntryAt(v, c, p).name = EntryAt(v, c, q).name => p = q
  BY <1>0 DEF SoundDirectory
<1>2. <<k, j>> \in PlacesInUse(v, c) /\ <<l, m>> \in PlacesInUse(v, c)
  BY PlaceOf
<1>3. EntryAt(v, c, <<k, j>>) = EntriesAt(v, c, k)[j] /\ EntryAt(v, c, <<l, m>>) = EntriesAt(v, c, l)[m]
  BY PlaceOf
<1>4. <<k, j>> = <<l, m>>
  BY <1>1, <1>2, <1>3
<1> QED  BY <1>4

\* The entry that cd finds is the one below the directory.
LEMMA FoundIsBelow ==
  ASSUME NEW v, SoundVolume(v), NEW c \in Clusters(v),
         NEW k \in 0..(v.bs.sectors_per_cluster - 1), NEW j \in DOMAIN EntriesAt(v, c, k),
         InUse(EntriesAt(v, c, k)[j]),
         NEW n \in Typed, EntriesAt(v, c, k)[j].name = format_filename_83(n)
  PROVE  Below(v, c, n) = EntriesAt(v, c, k)[j].cluster
<1> DEFINE e == EntriesAt(v, c, k)[j]
           Named(x) == x \in InDirectory(v, c) /\ x.name = format_filename_83(n)
<1>0. Typable(e.name)
  BY DEF Typable
<1>1. Named(e)
  BY InDirectoryPlaces
<1>2. ASSUME NEW x, Named(x)
      PROVE  x = e
  <2>1. PICK l \in 0..(v.bs.sectors_per_cluster - 1) :
          \E m \in DOMAIN EntriesAt(v, c, l) : x = EntriesAt(v, c, l)[m] /\ InUse(x)
    BY <1>2, InDirectoryPlaces
  <2>2. PICK m \in DOMAIN EntriesAt(v, c, l) : x = EntriesAt(v, c, l)[m] /\ InUse(x)
    BY <2>1
  <2>3. k = l /\ j = m
    BY <1>0, <1>2, <2>2, NameDecides
  <2> QED  BY <2>2, <2>3
<1>3. (CHOOSE x \in InDirectory(v, c) : x.name = format_filename_83(n)) = e
  BY <1>1, <1>2
<1> QED  BY <1>3 DEF Below

\* The directories along a path.
Steps(f, v, p) == f = [k \in 0..Len(p) |-> IF k = 0 THEN v.bs.root_cluster ELSE Below(v, f[k - 1], p[k])]

LEMMA StepsAt ==
  ASSUME NEW f, NEW v, NEW p, Steps(f, v, p), NEW k \in 0..Len(p)
  PROVE  f[k] = IF k = 0 THEN v.bs.root_cluster ELSE Below(v, f[k - 1], p[k])
<1>1. f[k] = [l \in 0..Len(p) |-> IF l = 0 THEN v.bs.root_cluster ELSE Below(v, f[l - 1], p[l])][k]
  BY DEF Steps
<1> QED  BY <1>1

LEMMA DirectoryIsStep ==
  ASSUME NEW v, NEW p, NEW f, Steps(f, v, p)
  PROVE  \E g : Steps(g, v, p) /\ DirectoryAt(v, p) = g[Len(p)]
<1> DEFINE g == CHOOSE h : Steps(h, v, p)
<1>1. Steps(g, v, p)
  OBVIOUS
<1>2. DirectoryAt(v, p) = g[Len(p)]
  BY DEF DirectoryAt, Steps
<1> QED  BY <1>1, <1>2

LEMMA StepsAgree ==
  ASSUME NEW v, NEW p, NEW q, NEW x, NEW f, NEW g,
         Len(p) \in Nat, Len(q) = Len(p) + 1, q[Len(p) + 1] = x,
         \A k \in 1..Len(p) : q[k] = p[k],
         Steps(f, v, p), Steps(g, v, q)
  PROVE  g[Len(p)] = f[Len(p)] /\ g[Len(p) + 1] = Below(v, f[Len(p)], x)
<1>1. Len(p) \in Nat /\ Len(q) = Len(p) + 1
  OBVIOUS
<1> DEFINE Good == {k \in 0..Len(p) : g[k] = f[k]}
<1>2. 0 \in Good
  <2>1. 0 \in 0..Len(p) /\ 0 \in 0..Len(q)
    BY <1>1
  <2>2. f[0] = v.bs.root_cluster
    BY <2>1, StepsAt
  <2>3. g[0] = v.bs.root_cluster
    BY <2>1, StepsAt
  <2> QED  BY <2>1, <2>2, <2>3
<1>3. ASSUME NEW k \in 0..(Len(p) - 1), k \in Good
      PROVE  k + 1 \in Good
  <2>1. ASSUME NEW l \in Nat, l = k + 1
        PROVE  g[l] = f[l]
    <3>1. l \in 0..Len(p) /\ l \in 0..Len(q) /\ l # 0 /\ l - 1 = k /\ l \in 1..Len(p)
      BY <1>1, <2>1
    <3>2. f[l] = Below(v, f[l - 1], p[l])
      BY <3>1, StepsAt
    <3>3. g[l] = Below(v, g[l - 1], q[l])
      BY <3>1, StepsAt
    <3>4. g[k] = f[k] /\ q[l] = p[l]
      BY <1>1, <1>3, <3>1
    <3> QED  BY <3>1, <3>2, <3>3, <3>4
  <2>2. k + 1 \in Nat /\ k + 1 \in 0..Len(p)
    BY <1>1
  <2> QED  BY <2>1, <2>2
<1>4. 0..Len(p) \subseteq Good
  <2> HIDE DEF Good
  <2> QED  BY <1>1, <1>2, <1>3, UpTo
<1>5. g[Len(p)] = f[Len(p)]
  BY <1>1, <1>4
<1>6. ASSUME NEW l \in Nat, l = Len(p) + 1
      PROVE  g[l] = Below(v, f[Len(p)], x)
  <2>1. l \in 0..Len(q) /\ l # 0 /\ l - 1 = Len(p) /\ q[l] = x
    BY <1>1, <1>6
  <2>2. g[l] = Below(v, g[l - 1], q[l])
    BY <2>1, StepsAt
  <2> QED  BY <1>5, <2>1, <2>2
<1>7. Len(p) + 1 \in Nat
  BY <1>1
<1> QED  BY <1>5, <1>6, <1>7

LEMMA StepsExist ==
  ASSUME NEW X, NEW v, NEW p \in Seq(X)
  PROVE  \E f : Steps(f, v, p)
<1>1. Len(p) \in Nat
  BY LenProperties
<1> DEFINE At(f, n) == f = [k \in 0..n |-> IF k = 0 THEN v.bs.root_cluster ELSE Below(v, f[k - 1], p[k])]
           Good == {n \in 0..Len(p) : \E f : At(f, n)}
<1>2. 0 \in Good
  <2> DEFINE f == [k \in 0..0 |-> v.bs.root_cluster]
  <2>1. f = [k \in 0..0 |-> IF k = 0 THEN v.bs.root_cluster ELSE Below(v, f[k - 1], p[k])]
    OBVIOUS
  <2>2. At(f, 0)
    BY <2>1
  <2>3. 0 \in 0..Len(p)
    BY <1>1
  <2> HIDE DEF f, At
  <2> QED  BY <2>2, <2>3
<1>3. ASSUME NEW n \in 0..(Len(p) - 1), n \in Good
      PROVE  n + 1 \in Good
  <2>1. PICK f : At(f, n)
    BY <1>3
  <2>2. \A k \in 0..n : f[k] = IF k = 0 THEN v.bs.root_cluster ELSE Below(v, f[k - 1], p[k])
    <3>1. ASSUME NEW k \in 0..n
          PROVE  f[k] = [l \in 0..n |-> IF l = 0 THEN v.bs.root_cluster ELSE Below(v, f[l - 1], p[l])][k]
      BY <2>1
    <3> QED  BY <3>1
  <2> DEFINE g == [k \in 0..(n + 1) |-> IF k \in 0..n THEN f[k] ELSE Below(v, f[k - 1], p[k])]
  <2>3. ASSUME NEW k \in 0..(n + 1)
        PROVE  g[k] = IF k = 0 THEN v.bs.root_cluster ELSE Below(v, g[k - 1], p[k])
    <3>1. CASE k = 0
      BY <2>2, <3>1
    <3>2. CASE k # 0
      <4>1. k - 1 \in 0..n /\ k - 1 \in 0..(n + 1)
        BY <3>2
      <4>2. g[k - 1] = f[k - 1]
        BY <4>1
      <4>3. k \in 0..n => f[k] = Below(v, f[k - 1], p[k])
        BY <2>2, <3>2
      <4> QED  BY <3>2, <4>2, <4>3
    <3> QED  BY <3>1, <3>2
  <2>4. g = [k \in 0..(n + 1) |-> IF k = 0 THEN v.bs.root_cluster ELSE Below(v, g[k - 1], p[k])]
    <3>1. g = [k \in 0..(n + 1) |-> g[k]]
      OBVIOUS
    <3> HIDE DEF g
    <3> QED  BY <2>3, <3>1
  <2>5. At(g, n + 1)
    BY <2>4
  <2>6. n + 1 \in 0..Len(p)
    BY <1>1
  <2> HIDE DEF g, At
  <2> QED  BY <2>5, <2>6
<1>4. 0..Len(p) \subseteq Good
  <2> HIDE DEF Good
  <2> QED  BY <1>1, <1>2, <1>3, UpTo
<1>5. Len(p) \in Good
  BY <1>1, <1>4
<1> QED  BY <1>5 DEF Steps

LEMMA DirectoryBelow ==
  ASSUME NEW X, NEW v, NEW p \in Seq(X), NEW x \in X
  PROVE  /\ DirectoryAt(v, << >>) = v.bs.root_cluster
         /\ DirectoryAt(v, Append(p, x)) = Below(v, DirectoryAt(v, p), x)
<1>1. DirectoryAt(v, << >>) = v.bs.root_cluster
  <2>1. << >> \in Seq(X) /\ Len(<< >>) = 0
    BY EmptySeq
  <2>2. PICK f : Steps(f, v, << >>)
    BY <2>1, StepsExist
  <2>3. PICK g : Steps(g, v, << >>) /\ DirectoryAt(v, << >>) = g[Len(<< >>)]
    BY <2>2, DirectoryIsStep
  <2>4. 0 \in 0..Len(<< >>)
    BY <2>1
  <2>5. g[0] = v.bs.root_cluster
    BY <2>3, <2>4, StepsAt
  <2> QED  BY <2>1, <2>3, <2>5
<1>2. Append(p, x) \in Seq(X) /\ Len(Append(p, x)) = Len(p) + 1
  BY AppendProperties
<1>3. PICK f : Steps(f, v, p) /\ DirectoryAt(v, p) = f[Len(p)]
  BY StepsExist, DirectoryIsStep
<1>4. PICK g : Steps(g, v, Append(p, x)) /\ DirectoryAt(v, Append(p, x)) = g[Len(Append(p, x))]
  BY <1>2, StepsExist, DirectoryIsStep
<1>5. g[Len(p) + 1] = Below(v, f[Len(p)], x)
  <2>1. /\ Append(p, x)[Len(p) + 1] = x /\ Len(p) \in Nat
        /\ \A k \in 1..Len(p) : Append(p, x)[k] = p[k]
    BY LenProperties, AppendProperties
  <2>2. ASSUME NEW q, Len(q) = Len(p) + 1, q[Len(p) + 1] = x,
               \A k \in 1..Len(p) : q[k] = p[k], Steps(g, v, q)
        PROVE  g[Len(p) + 1] = Below(v, f[Len(p)], x)
    <3>1. Len(p) \in Nat /\ Steps(f, v, p)
      BY <1>3, LenProperties
    <3> QED  BY <2>2, <3>1, StepsAgree
  <2> QED  BY <1>2, <1>4, <2>1, <2>2
<1> QED  BY <1>1, <1>2, <1>3, <1>4, <1>5

-----------------------------------------------------------------------------
(***************************************************************************)
(* The directory and the path.  Besides the types: the cluster that cat    *)
(* reads next is one of the volume, and a search runs for the argument of  *)
(* its command.                                                            *)
(***************************************************************************)

WalkInv ==
  /\ disk \in Volumes
  /\ current_directory_cluster \in Clusters(disk)
  /\ current_path \in Seq(Typed) /\ Len(current_path) <= MaxDepth
  /\ pc = "cd" => Len(current_path) < MaxDepth
  /\ pc \in {"prompt", "ls", "cat", "file", "cd"}
  /\ i \in 0..sectors_per_cluster
  /\ pass \in {"DIR", "FILE"} /\ found \in BOOLEAN
  /\ cluster \in Nat /\ file_size \in Nat
  /\ pc = "file" /\ file_size > 0 => cluster \in FileClusters(disk)
  /\ pc \in {"cat", "file", "cd"} => argument \in Typed /\ name = format_filename_83(argument)
  /\ PathNamesDirectory

LEMMA DiskFacts ==
  ASSUME VolumesSound, disk \in Volumes
  PROVE  /\ SoundVolume(disk)
         /\ sectors_per_cluster \in Nat \ {0}
         /\ DataOf(disk) \in Nat
         /\ bs.root_cluster \in Clusters(disk) /\ 2 \in Clusters(disk)
         /\ Clusters(disk) \subseteq Nat
         /\ BytesPerSector \in Nat \ {0} /\ EndOfChain \in Nat /\ MaxDepth \in Nat
<1>1. SoundVolume(disk)
  BY DEF VolumesSound
<1> QED  BY <1>1, VolumeFacts DEF sectors_per_cluster, bs

\* The sectors in which cat and cd search.
LEMMA SearchedSectors ==
  ASSUME VolumesSound, disk \in Volumes, current_directory_cluster \in Clusters(disk),
         i \in 0..(sectors_per_cluster - 1)
  PROVE  /\ disk.sector[cluster_to_sector(current_directory_cluster) + i].entries
              = EntriesAt(disk, current_directory_cluster, i)
         /\ disk.sector[FirstDataSector + i].entries = EntriesAt(disk, 2, i)
<1>1. SectorOf(disk, 2) = FirstDataSector
  BY DiskFacts, FirstData DEF FirstDataSector
<1> QED  BY <1>1 DEF EntriesAt, cluster_to_sector

LEMMA InitWalk ==
  ASSUME VolumesSound
  PROVE  Init => WalkInv
<1>1. SUFFICES ASSUME Init
               PROVE  WalkInv
  OBVIOUS
<1>2. /\ disk \in Volumes /\ current_directory_cluster = bs.root_cluster /\ current_path = << >>
      /\ pc = "prompt" /\ i = 0 /\ pass = "DIR" /\ found = FALSE /\ cluster = 0 /\ file_size = 0
  BY <1>1 DEF Init
<1>3. sectors_per_cluster \in Nat /\ MaxDepth \in Nat /\ bs.root_cluster \in Clusters(disk)
  BY <1>2, DiskFacts
<1>4. current_path \in Seq(Typed) /\ Len(current_path) <= MaxDepth
  <2>1. current_path \in Seq(Typed) /\ Len(current_path) = 0
    BY <1>2, EmptySeq
  <2> QED  BY <1>3, <2>1
<1>5. DirectoryAt(disk, << >>) = disk.bs.root_cluster
  <2>1. << >> \in Seq({0})
    BY EmptySeq
  <2> QED  BY <2>1, DirectoryBelow
<1>6. PathNamesDirectory
  BY <1>2, <1>5 DEF PathNamesDirectory, bs
<1>7. /\ disk \in Volumes /\ current_directory_cluster \in Clusters(disk)
      /\ pc = "prompt" /\ i \in 0..sectors_per_cluster /\ pass = "DIR" /\ found = FALSE
      /\ cluster \in Nat /\ file_size \in Nat
  BY <1>2, <1>3
<1> QED  BY <1>4, <1>6, <1>7 DEF WalkInv

\* Every action but CatSector, CatFile, CdRoot and CdSector leaves the
\* directory and the file alone.
Stands ==
  /\ UNCHANGED <<disk, current_directory_cluster, current_path, cluster, file_size>>
  /\ pc' \in {"prompt", "ls", "cat", "cd"}
  /\ pc' = "cd" => Len(current_path) < MaxDepth
  /\ i' \in 0..sectors_per_cluster
  /\ pass' \in {"DIR", "FILE"} /\ found' \in BOOLEAN
  /\ pc' \in {"cat", "cd"} => argument' \in Typed /\ name' = format_filename_83(argument')

LEMMA StandsKeepsWalk ==
  ASSUME WalkInv, Stands
  PROVE  WalkInv'
<1>1. sectors_per_cluster' = sectors_per_cluster
  BY DEF Stands, sectors_per_cluster, bs
<1>2. PathNamesDirectory'
  BY DEF WalkInv, Stands, PathNamesDirectory
<1> QED  BY <1>1, <1>2 DEF WalkInv, Stands

LEMMA SearchStands ==
  ASSUME WalkInv, sectors_per_cluster \in Nat, NEW text \in Typed,
         NEW verb \in {"cat", "cd"}, Search(verb, text),
         verb = "cd" => Len(current_path) < MaxDepth
  PROVE  Stands
<1>0. argument' = text /\ name' = format_filename_83(text)
  BY DEF Search
<1>1. /\ pc' = verb /\ found' = FALSE /\ i' = 0 /\ pass' = pass
      /\ UNCHANGED <<disk, current_directory_cluster, current_path, cluster, file_size>>
  BY DEF Search, dirVars, fileVars
<1>2. pass \in {"DIR", "FILE"}
  BY DEF WalkInv
<1>3. argument' \in Typed /\ name' = format_filename_83(argument')
  BY <1>0
<1>4. i' \in 0..sectors_per_cluster
  <2>1. 0 \in 0..sectors_per_cluster
    OBVIOUS
  <2> QED  BY <1>1, <2>1
<1>5. found' \in BOOLEAN /\ pc' \in {"cat", "cd"}
  BY <1>1
<1> QED  BY <1>1, <1>2, <1>3, <1>4, <1>5 DEF Stands

LEMMA QuietSteps ==
  ASSUME VolumesSound, WalkInv,
         \/ Ls \/ Cat \/ Cd \/ LsSector \/ LsNextPass \/ Return
         \/ (CatSector /\ pc' = "cat") \/ (CdSector /\ pc' = "cd")
  PROVE  Stands
<1>1. sectors_per_cluster \in Nat \ {0} /\ i \in 0..sectors_per_cluster
  BY DiskFacts DEF WalkInv
<1>2. CASE Ls
  BY <1>1, <1>2 DEF Ls, WalkInv, Stands, dirVars, fileVars
<1>3. CASE Cat
  <2>1. PICK text \in Typed : Search("cat", text)
    BY <1>3 DEF Cat
  <2> QED  BY <1>1, <2>1, SearchStands
<1>4. CASE Cd
  <2>1. Len(current_path) < MaxDepth /\ \E text \in Typed : Search("cd", text)
    BY <1>4 DEF Cd
  <2>2. PICK text \in Typed : Search("cd", text)
    BY <2>1
  <2> QED  BY <1>1, <2>1, <2>2, SearchStands
<1>5. CASE LsSector
  BY <1>1, <1>5 DEF LsSector, WalkInv, Stands, dirVars, fileVars, callVars
<1>6. CASE LsNextPass
  BY <1>1, <1>6 DEF LsNextPass, WalkInv, Stands, dirVars, fileVars, callVars
<1>7. CASE Return
  BY <1>1, <1>7 DEF Return, LsReturn, CatReturn, CdReturn, WalkInv, Stands, dirVars, fileVars, callVars
<1>8. CASE CatSector /\ pc' = "cat"
  BY <1>1, <1>8 DEF CatSector, NextSector, WalkInv, Stands, dirVars, fileVars, callVars
<1>9. CASE CdSector /\ pc' = "cd"
  <2>1. /\ pc = "cd" /\ i < sectors_per_cluster
        /\ UNCHANGED <<callVars, pass, fileVars, shown>>
    BY <1>9 DEF CdSector
  <2>2. i' = NextSector /\ UNCHANGED <<dirVars, pc, found>>
    BY <1>9 DEF CdSector
  <2> QED  BY <1>1, <1>9, <2>1, <2>2 DEF NextSector, WalkInv, Stands, dirVars, fileVars, callVars
<1> QED  BY <1>2, <1>3, <1>4, <1>5, <1>6, <1>7, <1>8, <1>9

\* What cat and cd find.
LEMMA MatchedEntry ==
  ASSUME NEW v, SoundVolume(v), NEW c \in Clusters(v),
         NEW k \in 0..(v.bs.sectors_per_cluster - 1), NEW n, NEW j,
         j = Match(EntriesAt(v, c, k), n), j # 0
  PROVE  /\ j \in DOMAIN EntriesAt(v, c, k)
         /\ InUse(EntriesAt(v, c, k)[j]) /\ EntriesAt(v, c, k)[j].name = n
         /\ EntriesAt(v, c, k)[j].cluster \in Nat /\ EntriesAt(v, c, k)[j].size \in Nat
         /\ Typable(n) => EntriesAt(v, c, k)[j].cluster \in Clusters(v)
<1> DEFINE s == EntriesAt(v, c, k)
<1>1. /\ s \in Seq(Range(s)) /\ DOMAIN s = 1..Len(s) /\ Len(s) \in Nat
      /\ \A m \in DOMAIN s : InUse(s[m]) =>
           /\ s[m].cluster \in Nat /\ s[m].size \in Nat
           /\ Typable(s[m].name) => s[m].cluster \in Clusters(v)
  BY SectorEntries
<1> HIDE DEF s
<1>2. /\ Match(s, n) \in 0..Len(s)
      /\ Match(s, n) # 0 => InUse(s[Match(s, n)]) /\ s[Match(s, n)].name = n
  BY <1>1, MatchProperties
<1>3. j = Match(s, n)
  BY DEF s
<1>4. j \in DOMAIN s
  BY <1>1, <1>2, <1>3
<1> QED  BY <1>1, <1>2, <1>3, <1>4 DEF s

LEMMA CatFindsKeepsWalk ==
  ASSUME VolumesSound, WalkInv, CatSector, pc' # "cat"
  PROVE  WalkInv'
<1> DEFINE j == Match(EntriesAt(disk, 2, i), name)
<1>1. /\ disk \in Volumes /\ SoundVolume(disk) /\ sectors_per_cluster \in Nat \ {0} /\ 2 \in Clusters(disk)
      /\ Clusters(disk) \subseteq Nat /\ sectors_per_cluster = disk.bs.sectors_per_cluster
      /\ current_directory_cluster \in Clusters(disk) /\ i \in 0..sectors_per_cluster
  BY DiskFacts DEF WalkInv, sectors_per_cluster, bs
<1>2. pc = "cat" /\ i < sectors_per_cluster /\ i \in 0..(sectors_per_cluster - 1)
  BY <1>1 DEF CatSector
<1>3. disk.sector[FirstDataSector + i].entries = EntriesAt(disk, 2, i)
  BY <1>1, <1>2, SearchedSectors
<1>4. /\ j # 0 /\ found' = TRUE /\ pc' = "file" /\ i' = i
      /\ cluster' = EntriesAt(disk, 2, i)[j].cluster /\ file_size' = EntriesAt(disk, 2, i)[j].size
      /\ UNCHANGED <<dirVars, callVars, pass, shown>>
  BY <1>2, <1>3 DEF CatSector
<1> HIDE DEF j
<1>a. argument \in Typed /\ name = format_filename_83(argument)
  BY <1>2 DEF WalkInv
<1>b. Typable(name)
  BY <1>a DEF Typable
<1>5. /\ EntriesAt(disk, 2, i)[j].cluster \in Nat /\ EntriesAt(disk, 2, i)[j].size \in Nat
      /\ EntriesAt(disk, 2, i)[j].size > 0 => EntriesAt(disk, 2, i)[j].cluster \in FileClusters(disk)
  <2>1. i \in 0..(disk.bs.sectors_per_cluster - 1)
    BY <1>1, <1>2
  <2>2. /\ j \in DOMAIN EntriesAt(disk, 2, i) /\ InUse(EntriesAt(disk, 2, i)[j])
        /\ EntriesAt(disk, 2, i)[j].name = name
        /\ EntriesAt(disk, 2, i)[j].cluster \in Nat /\ EntriesAt(disk, 2, i)[j].size \in Nat
    BY <1>1, <1>4, <2>1, MatchedEntry DEF j
  <2> QED  BY <1>1, <1>b, <2>1, <2>2, FilesBegin
<1>6. /\ file_size' > 0 => cluster' \in FileClusters(disk')
      /\ cluster' \in Nat /\ file_size' \in Nat
      /\ argument' \in Typed /\ name' = format_filename_83(argument')
      /\ UNCHANGED <<disk, current_directory_cluster, current_path, pass>>
  BY <1>1, <1>4, <1>5, <1>a DEF dirVars, callVars
<1>7. sectors_per_cluster' = sectors_per_cluster
  BY <1>6 DEF sectors_per_cluster, bs
<1>8. PathNamesDirectory'
  BY <1>6 DEF WalkInv, PathNamesDirectory
<1> QED  BY <1>4, <1>6, <1>7, <1>8 DEF WalkInv

LEMMA CatFileKeepsWalk ==
  ASSUME VolumesSound, WalkInv, CatFile
  PROVE  WalkInv'
<1>1. /\ disk \in Volumes /\ SoundVolume(disk) /\ EndOfChain \in Nat /\ BytesPerSector \in Nat
      /\ Clusters(disk) \subseteq Nat /\ cluster \in FileClusters(disk) /\ file_size \in Nat
      /\ FileClusters(disk) \subseteq Nat /\ pc = "file"
      /\ argument \in Typed /\ name = format_filename_83(argument)
  BY DiskFacts, FilesHeld DEF WalkInv, CatFile
<1>2. NextCluster(cluster) = TableAt(disk, cluster)
  BY DEF NextCluster, TableAt, bs
<1>3. NextCluster(cluster) \in FileClusters(disk) \cup {EndOfChain}
  BY <1>1, <1>2, TableLeads
<1>4. /\ file_size' = file_size - Portion /\ cluster' = NextCluster(cluster)
      /\ pc' = (IF NextCluster(cluster) = EndOfChain THEN "prompt" ELSE "file")
      /\ UNCHANGED <<dirVars, callVars, i, pass, found>>
  BY DEF CatFile
<1>5. file_size - Portion \in Nat
  BY <1>1 DEF Portion
<1>6. /\ cluster' \in Nat /\ pc' \in {"prompt", "file"} /\ (pc' = "file" => cluster' \in FileClusters(disk))
  BY <1>1, <1>3, <1>4
<1>7. UNCHANGED <<disk, current_directory_cluster, current_path, argument, name, i, pass, found>>
  BY <1>4 DEF dirVars, callVars
<1>8. sectors_per_cluster' = sectors_per_cluster /\ PathNamesDirectory'
  BY <1>7 DEF sectors_per_cluster, bs, WalkInv, PathNamesDirectory
<1> QED  BY <1>1, <1>4, <1>5, <1>6, <1>7, <1>8 DEF WalkInv

LEMMA CdRootKeepsWalk ==
  ASSUME VolumesSound, WalkInv, CdRoot
  PROVE  WalkInv'
<1>1. /\ disk \in Volumes /\ bs.root_cluster \in Clusters(disk) /\ MaxDepth \in Nat
  BY DiskFacts DEF WalkInv
<1>2. /\ pc = "prompt" /\ current_directory_cluster' = bs.root_cluster /\ current_path' = << >>
      /\ found' = TRUE /\ UNCHANGED <<disk, pc, argument, name, i, pass, cluster, file_size>>
  BY DEF CdRoot, PathOfRoot, fileVars
<1>3. /\ current_path' \in Seq(Typed) /\ Len(current_path') = 0 /\ << >> \in Seq({0})
  BY <1>2, EmptySeq
<1>4. DirectoryAt(disk, << >>) = disk.bs.root_cluster
  BY ZenonT(30), <1>3, DirectoryBelow
<1>5. PathNamesDirectory' /\ sectors_per_cluster' = sectors_per_cluster
  BY <1>2, <1>4 DEF PathNamesDirectory, sectors_per_cluster, bs
<1> QED  BY <1>1, <1>2, <1>3, <1>5 DEF WalkInv

LEMMA CdFindsKeepsWalk ==
  ASSUME VolumesSound, WalkInv, CdSector, pc' # "cd"
  PROVE  WalkInv'
<1> DEFINE c == current_directory_cluster
           j == Match(EntriesAt(disk, c, i), name)
<1>1. /\ disk \in Volumes /\ SoundVolume(disk) /\ sectors_per_cluster \in Nat \ {0}
      /\ Clusters(disk) \subseteq Nat /\ sectors_per_cluster = disk.bs.sectors_per_cluster
      /\ c \in Clusters(disk) /\ i \in 0..sectors_per_cluster
  BY DiskFacts DEF WalkInv, sectors_per_cluster, bs
<1>2. /\ pc = "cd" /\ i < sectors_per_cluster /\ i \in 0..(sectors_per_cluster - 1)
      /\ i \in 0..(disk.bs.sectors_per_cluster - 1)
  BY <1>1 DEF CdSector
<1>3. disk.sector[cluster_to_sector(c) + i].entries = EntriesAt(disk, c, i)
  BY <1>1, <1>2, SearchedSectors
<1>4. /\ j # 0 /\ found' = TRUE /\ pc' = "prompt" /\ i' = i /\ disk' = disk
      /\ current_directory_cluster' = EntriesAt(disk, c, i)[j].cluster
      /\ current_path' = Append(current_path, argument)
      /\ UNCHANGED <<callVars, pass, fileVars, shown>>
  BY <1>2, <1>3 DEF CdSector
<1> HIDE DEF c, j
<1>5. /\ argument \in Typed /\ name = format_filename_83(argument)
      /\ current_path \in Seq(Typed) /\ Len(current_path) < MaxDepth
      /\ cluster \in Nat /\ file_size \in Nat /\ pass \in {"DIR", "FILE"}
      /\ c = DirectoryAt(disk, current_path)
  BY <1>2 DEF WalkInv, PathNamesDirectory, c
<1>6. /\ j \in DOMAIN EntriesAt(disk, c, i) /\ InUse(EntriesAt(disk, c, i)[j])
      /\ EntriesAt(disk, c, i)[j].name = name /\ EntriesAt(disk, c, i)[j].cluster \in Clusters(disk)
  <2>1. Typable(name)
    BY <1>5 DEF Typable
  <2> QED  BY <1>1, <1>2, <1>4, <2>1, MatchedEntry DEF j
<1>7. Below(disk, c, argument) = EntriesAt(disk, c, i)[j].cluster
  BY <1>1, <1>2, <1>5, <1>6, FoundIsBelow
<1>8. current_directory_cluster' = DirectoryAt(disk, current_path')
  <2>1. DirectoryAt(disk, Append(current_path, argument)) = Below(disk, DirectoryAt(disk, current_path), argument)
    BY <1>5, DirectoryBelow
  <2> QED  BY <1>4, <1>5, <1>7, <2>1
<1>9. current_path' \in Seq(Typed) /\ Len(current_path') <= MaxDepth
  <2>1. Append(current_path, argument) \in Seq(Typed)
        /\ Len(Append(current_path, argument)) = Len(current_path) + 1 /\ Len(current_path) \in Nat
    BY <1>5, AppendProperties, LenProperties
  <2>2. MaxDepth \in Nat
    BY <1>1, DiskFacts
  <2> QED  BY <1>4, <1>5, <2>1, <2>2
<1>10. PathNamesDirectory' /\ sectors_per_cluster' = sectors_per_cluster
  BY <1>4, <1>8 DEF PathNamesDirectory, sectors_per_cluster, bs
<1>11. pass' = pass /\ cluster' = cluster /\ file_size' = file_size
  BY <1>4 DEF fileVars
<1> QED  BY <1>1, <1>4, <1>5, <1>6, <1>9, <1>10, <1>11 DEF WalkInv

LEMMA NextWalk ==
  ASSUME VolumesSound, WalkInv, [Next]_vars
  PROVE  WalkInv'
<1>1. CASE \/ Ls \/ Cat \/ Cd \/ LsSector \/ LsNextPass \/ Return
           \/ (CatSector /\ pc' = "cat") \/ (CdSector /\ pc' = "cd")
  BY <1>1, QuietSteps, StandsKeepsWalk
<1>2. CASE CatSector /\ pc' # "cat"
  BY <1>2, CatFindsKeepsWalk
<1>3. CASE CdSector /\ pc' # "cd"
  BY <1>3, CdFindsKeepsWalk
<1>4. CASE CatFile \/ CdRoot
  BY <1>4, CatFileKeepsWalk, CdRootKeepsWalk
<1>5. CASE UNCHANGED vars
  BY <1>5 DEF vars, WalkInv, PathNamesDirectory, sectors_per_cluster, bs
<1>6. Next => \/ Ls \/ Cat \/ Cd \/ LsSector \/ LsNextPass \/ Return
              \/ CatSector \/ CdSector \/ CatFile \/ CdRoot
  BY DEF Next, Turn
<1> QED  BY <1>1, <1>2, <1>3, <1>4, <1>5, <1>6

LEMMA WalkInvariant ==
  ASSUME VolumesSound
  PROVE  Spec => []WalkInv
<1>1. Init => WalkInv
  BY InitWalk
<1>2. WalkInv /\ [Next]_vars => WalkInv'
  BY NextWalk
<1> QED  BY <1>1, <1>2, PTL DEF Spec

\* Types of the three commands' state (fat.c:150-329): the sector counter
\* never passes the cluster, cat never counts its file below zero, and the
\* path keeps to names that users type.
THEOREM FatTypeCorrect ==
  ASSUME VolumesSound
  PROVE  Spec => []TypeOK
<1>1. WalkInv => TypeOK
  <2>1. SUFFICES ASSUME WalkInv
                 PROVE  TypeOK
    OBVIOUS
  <2>2. current_directory_cluster \in Nat
    BY <2>1, DiskFacts DEF WalkInv
  <2> QED  BY <2>1, <2>2 DEF WalkInv, TypeOK
<1> QED  BY <1>1, WalkInvariant, PTL

\* The prompt's path and the cluster that ls and cd work in are two
\* variables that cd writes one after the other (fat.c:313-318): the path
\* names that directory after every sequence of cd, found or not.
THEOREM PathStaysRight ==
  ASSUME VolumesSound
  PROVE  Spec => []PathNamesDirectory
<1>1. WalkInv => PathNamesDirectory
  BY DEF WalkInv
<1> QED  BY <1>1, WalkInvariant, PTL

-----------------------------------------------------------------------------
(***************************************************************************)
(* The table and the chain of a file.                                      *)
(***************************************************************************)

LEMMA DivMod ==
  ASSUME NEW q \in Nat, NEW m \in Nat, NEW r \in Nat \ {0}, m < r
  PROVE  (q * r + m) \div r = q /\ (q * r + m) % r = m
  OBVIOUS

\* Parts of one length l in one sequence.
PartsAt(s, ss, n, l) == \A q \in 0..(n - 1), r \in 1..l : s[q * l + r] = ss[q + 1][r]

LEMMA EqualParts ==
  ASSUME NEW X, NEW n \in Nat, NEW l \in Nat \ {0}, NEW ss \in [1..n -> Seq(X)],
         \A k \in 1..n : Len(ss[k]) = l
  PROVE  PartsAt(Flat(ss, n), ss, n, l)
<1>0. /\ Flat(ss, 0) = << >>
      /\ \A m \in 0..(n - 1) : Flat(ss, m + 1) = Flat(ss, m) \o ss[m + 1]
      /\ \A m \in 0..n : Flat(ss, m) \in Seq(X)
  BY FlatSteps
<1> DEFINE Parts(m) == /\ Len(Flat(ss, m)) = m * l
                       /\ \A q \in 0..(m - 1), r \in 1..l : Flat(ss, m)[q * l + r] = ss[q + 1][r]
           Good == {m \in 0..n : Parts(m)}
<1>1. 0 \in Good
  <2>1. Flat(ss, 0) = << >> /\ Len(<< >>) = 0
    BY EmptySeq, FlatSteps
  <2>2. Len(Flat(ss, 0)) = 0 /\ 0 * l = 0
    BY <2>1
  <2>3. Parts(0)
    BY <2>2
  <2>4. 0 \in 0..n
    OBVIOUS
  <2> HIDE DEF Parts
  <2> QED  BY <2>3, <2>4
<1>2. ASSUME NEW m \in 0..(n - 1), m \in Good
      PROVE  m + 1 \in Good
  <2>0. m \in 0..n
    OBVIOUS
  <2>1. /\ Flat(ss, m + 1) = Flat(ss, m) \o ss[m + 1]
        /\ Flat(ss, m) \in Seq(X)
    <3>1. Flat(ss, m + 1) = Flat(ss, m) \o ss[m + 1]
      BY <1>0, Zenon
    <3>2. Flat(ss, m) \in Seq(X)
      BY <1>0, <2>0, Zenon
    <3> QED  BY <3>1, <3>2
  <2>2. ss[m + 1] \in Seq(X) /\ Len(ss[m + 1]) = l /\ m + 1 \in 0..n
    OBVIOUS
  <2>3. Parts(m)
    BY <1>2
  <2> DEFINE a == Flat(ss, m)
             b == ss[m + 1]
  <2>4. ASSUME NEW u \in Seq(X), u = a, NEW w \in Seq(X), w = b
        PROVE  /\ Len(u \o w) = Len(u) + Len(w)
               /\ \A k \in 1..Len(u) : (u \o w)[k] = u[k]
               /\ \A k \in 1..Len(w) : (u \o w)[Len(u) + k] = w[k]
    BY Joined
  <2> DEFINE c == Flat(ss, m + 1)
  <2>5. /\ Len(c) = Len(a) + Len(b)
        /\ \A k \in 1..Len(a) : c[k] = a[k]
        /\ \A k \in 1..Len(b) : c[Len(a) + k] = b[k]
    BY <2>1, <2>2, <2>4
  <2>6. /\ Len(a) = m * l
        /\ \A q \in 0..(m - 1), r \in 1..l : a[q * l + r] = ss[q + 1][r]
    BY <2>3
  <2> HIDE DEF a, b, c
  <2>7. m * l \in Nat /\ (m + 1) * l = m * l + l /\ m \in Nat
    BY Factors
  <2>8. Len(c) = (m + 1) * l
    BY <2>2, <2>5, <2>6, <2>7 DEF b
  <2>9. ASSUME NEW q \in 0..m, NEW r \in 1..l
        PROVE  c[q * l + r] = ss[q + 1][r]
    <3>1. CASE q = m
      <4>1. c[Len(a) + r] = b[r]
        BY <2>2, <2>5 DEF b
      <4> QED  BY <2>6, <3>1, <4>1 DEF b
    <3>2. CASE q # m
      <4>1. q \in Nat /\ q + 1 \in Nat /\ q + 1 <= m /\ q \in 0..(m - 1)
        BY <3>2
      <4>2. q * l \in Nat /\ (q + 1) * l = q * l + l
        BY <4>1, Factors
      <4>3. ASSUME NEW p \in Nat, p = q + 1
            PROVE  p * l <= m * l
        BY <2>7, <4>1, <4>3, Factors
      <4>4. (q + 1) * l <= m * l
        BY <4>1, <4>3
      <4>5. ASSUME NEW x \in Nat, NEW y \in Nat, x + l <= y
            PROVE  x + r \in 1..y
        BY <4>5
      <4>6. q * l + l <= m * l
        BY <4>2, <4>4
      <4>7. q * l + r \in 1..(m * l)
        BY <2>7, <4>2, <4>5, <4>6
      <4>8. c[q * l + r] = a[q * l + r]
        BY <2>5, <2>6, <4>7
      <4> QED  BY <2>6, <4>1, <4>8
    <3> QED  BY <3>1, <3>2
  <2>10. Parts(m + 1)
    <3>1. \A q \in 0..((m + 1) - 1) : q \in 0..m
      OBVIOUS
    <3>2. /\ Len(c) = (m + 1) * l
          /\ \A q \in 0..((m + 1) - 1), r \in 1..l : c[q * l + r] = ss[q + 1][r]
      BY <2>8, <2>9, <3>1
    <3> QED  BY <3>2 DEF c
  <2> HIDE DEF Parts
  <2> QED  BY <2>2, <2>10
<1>3. 0..n \subseteq Good
  <2> HIDE DEF Good
  <2> QED  BY <1>1, <1>2, UpTo
<1>4. n \in Good
  BY <1>3
<1>5. Parts(n)
  BY <1>4
<1> QED  BY <1>5 DEF PartsAt

LEMMA TableIsTable ==
  ASSUME NEW v, SoundVolume(v), NEW c \in Clusters(v)
  PROVE  Table(v)[c + 1] = TableAt(v, c)
<1> DEFINE n == v.bs.table_size_32
           X == Nat
           ss == [k \in 1..n |-> v.sector[v.bs.reserved_sector_count + k - 1].fat]
           q == c \div FatPerSector
           r == c % FatPerSector
<1>1. /\ n \in Nat /\ FatPerSector \in Nat \ {0} /\ c \in Nat /\ v.bs.reserved_sector_count \in Nat
  BY VolumeFacts
<1>2. ASSUME NEW k \in 1..n
      PROVE  ss[k] \in Seq(X) /\ Len(ss[k]) = FatPerSector
  <2>1. ASSUME NEW t \in 0..(n - 1), t = k - 1
        PROVE  v.sector[v.bs.reserved_sector_count + t].fat \in [1..FatPerSector -> X]
    BY DEF SoundVolume
  <2>2. k - 1 \in 0..(n - 1) /\ v.bs.reserved_sector_count + (k - 1) = v.bs.reserved_sector_count + k - 1
    BY <1>1
  <2>3. ss[k] \in [1..FatPerSector -> X]
    BY <2>1, <2>2
  <2> HIDE DEF ss, X
  <2>4. ss[k] \in Seq(X) /\ DOMAIN ss[k] = 1..FatPerSector
    BY <1>1, <2>3, IsASeq
  <2>5. DOMAIN ss[k] = 1..Len(ss[k]) /\ Len(ss[k]) \in Nat
    BY <2>4, LenProperties
  <2> QED  BY <1>1, <2>4, <2>5
<1>3. ss \in [1..n -> Seq(X)]
  <2>1. \A k \in 1..n : ss[k] \in Seq(X)
    BY <1>2
  <2>2. ss = [k \in 1..n |-> ss[k]]
    OBVIOUS
  <2> HIDE DEF ss, X
  <2> QED  BY <2>1, <2>2
<1>4. Table(v) = FlattenSeq(ss)
  BY DEF Table
<1>5. c < n * FatPerSector
  <2>1. c <= n * FatPerSector - 1 /\ n * FatPerSector \in Nat
    BY <1>1 DEF Clusters
  <2> QED  BY <1>1, <2>1
<1>6. q < n /\ q \in Nat /\ r \in Nat /\ r < FatPerSector /\ c = q * FatPerSector + r
  BY <1>1, <1>5, DigitBelow, DigitFacts
<1>7. ss[q + 1] = v.sector[v.bs.reserved_sector_count + q].fat
  <2>1. q + 1 \in 1..n /\ v.bs.reserved_sector_count + (q + 1) - 1 = v.bs.reserved_sector_count + q
    BY <1>1, <1>6
  <2> QED  BY <2>1
<1> HIDE DEF ss, X, q, r
<1>8. \A k \in 1..n : Len(ss[k]) = FatPerSector
  BY <1>2
<1>9. Table(v) = Flat(ss, n)
  BY <1>1, <1>3, <1>4, FlattenIsFlat
<1>10. PartsAt(Flat(ss, n), ss, n, FatPerSector)
  BY <1>1, <1>3, <1>8, EqualParts
<1>11. q \in 0..(n - 1) /\ r + 1 \in 1..FatPerSector
  BY <1>1, <1>6
<1>12. Flat(ss, n)[q * FatPerSector + (r + 1)] = ss[q + 1][r + 1]
  BY <1>10, <1>11 DEF PartsAt
<1>13. q * FatPerSector + (r + 1) = c + 1
  <2>1. q * FatPerSector \in Nat
    BY <1>1, <1>6
  <2> QED  BY <1>6, <2>1
<1>14. Table(v)[c + 1] = v.sector[v.bs.reserved_sector_count + q].fat[r + 1]
  BY <1>7, <1>9, <1>12, <1>13
<1> QED  BY <1>14 DEF TableAt, q, r

\* A recursive function along a table.
Along(f, n, first, table) == f = [k \in 0..n |-> IF k = 0 THEN first ELSE table[f[k - 1] + 1]]

LEMMA AlongAt ==
  ASSUME NEW f, NEW n, NEW first, NEW table, Along(f, n, first, table), NEW k \in 0..n
  PROVE  f[k] = IF k = 0 THEN first ELSE table[f[k - 1] + 1]
<1>1. f[k] = [l \in 0..n |-> IF l = 0 THEN first ELSE table[f[l - 1] + 1]][k]
  BY DEF Along
<1> QED  BY <1>1

LEMMA AlongExists ==
  ASSUME NEW n \in Nat, NEW first, NEW table
  PROVE  \E f : Along(f, n, first, table)
<1> DEFINE Good == {m \in 0..n : \E f : Along(f, m, first, table)}
<1>1. 0 \in Good
  <2> DEFINE f == [k \in 0..0 |-> first]
  <2>1. f = [k \in 0..0 |-> IF k = 0 THEN first ELSE table[f[k - 1] + 1]]
    OBVIOUS
  <2>2. Along(f, 0, first, table)
    BY <2>1 DEF Along
  <2> HIDE DEF f
  <2> QED  BY <2>2
<1>2. ASSUME NEW m \in 0..(n - 1), m \in Good
      PROVE  m + 1 \in Good
  <2>1. PICK f : Along(f, m, first, table)
    BY <1>2
  <2>2. \A k \in 0..m : f[k] = IF k = 0 THEN first ELSE table[f[k - 1] + 1]
    BY <2>1, AlongAt
  <2> DEFINE g == [k \in 0..(m + 1) |-> IF k \in 0..m THEN f[k] ELSE table[f[k - 1] + 1]]
  <2>3. ASSUME NEW k \in 0..(m + 1)
        PROVE  g[k] = IF k = 0 THEN first ELSE table[g[k - 1] + 1]
    <3>1. CASE k = 0
      BY <2>2, <3>1
    <3>2. CASE k # 0
      <4>1. k - 1 \in 0..m /\ k - 1 \in 0..(m + 1)
        BY <3>2
      <4>2. g[k - 1] = f[k - 1]
        BY <4>1
      <4>3. k \in 0..m => f[k] = table[f[k - 1] + 1]
        BY <2>2, <3>2
      <4> QED  BY <3>2, <4>2, <4>3
    <3> QED  BY <3>1, <3>2
  <2>4. g = [k \in 0..(m + 1) |-> IF k = 0 THEN first ELSE table[g[k - 1] + 1]]
    <3>1. g = [k \in 0..(m + 1) |-> g[k]]
      OBVIOUS
    <3> HIDE DEF g
    <3> QED  BY <2>3, <3>1
  <2>5. Along(g, m + 1, first, table)
    BY <2>4 DEF Along
  <2> HIDE DEF g
  <2> QED  BY <2>5
<1>3. 0..n \subseteq Good
  <2> HIDE DEF Good
  <2> QED  BY <1>1, <1>2, UpTo
<1> QED  BY <1>3

LEMMA ChainLinks ==
  ASSUME NEW v, NEW e, e.size \in Nat, NEW k \in 0..e.size
  PROVE  Chain(v, e)[k] = IF k = 0 THEN e.cluster ELSE Table(v)[Chain(v, e)[k - 1] + 1]
<1>1. \E f : Along(f, e.size, e.cluster, Table(v))
  BY AlongExists
<1>2. Chain(v, e) = CHOOSE f : Along(f, e.size, e.cluster, Table(v))
  BY DEF Chain, Along
<1>3. Along(Chain(v, e), e.size, e.cluster, Table(v))
  BY <1>1, <1>2
<1> QED  BY <1>3, AlongAt

-----------------------------------------------------------------------------
(***************************************************************************)
(* cat: the sectors looked at so far do not have the name; of the file,    *)
(* the first bytes have been printed, whole sectors as long as bytes are   *)
(* left, and the cluster is the one of the next byte.                      *)
(***************************************************************************)

Printed(e) ==
  /\ file_size <= e.size
  /\ shown = [p \in 1..(e.size - file_size) |-> FileBytes(disk, e)[p]]
  /\ file_size > 0 =>
       \E k \in Nat : k * BytesPerSector + file_size = e.size /\ cluster = Chain(disk, e)[k]

InFile(e) == e \in InDirectory(disk, bs.root_cluster) /\ e.name = name
Fits(e) == sectors_per_cluster = 1 \/ e.size <= BytesPerSector

CatInv ==
  /\ pc = "ls" => command = "ls"
  /\ pc = "cd" => command = "cd"
  /\ pc = "cat" =>
       /\ command = "cat" /\ found = FALSE /\ shown = << >>
       /\ \A k \in 0..(i - 1) : \A j \in DOMAIN EntriesAt(disk, bs.root_cluster, k) :
            InUse(EntriesAt(disk, bs.root_cluster, k)[j]) =>
              EntriesAt(disk, bs.root_cluster, k)[j].name # name
  /\ pc = "file" => command = "cat" /\ found = TRUE /\ \E e : InFile(e) /\ (Fits(e) => Printed(e))
  /\ CatPrintsFile

DigitsOf(n, k, m, b, s) == n \div (s * b) = k /\ (n % (s * b)) \div b = 0 /\ n % b = m

LEMMA MixedDigits ==
  ASSUME NEW k \in Nat, NEW m \in Nat, NEW b \in Nat \ {0}, NEW s \in Nat \ {0}, m < b,
         s = 1 \/ k = 0
  PROVE  DigitsOf(k * b + m, k, m, b, s)
<1>1. (k * b + m) \div b = k /\ (k * b + m) % b = m
  BY DivMod
<1>2. m \div b = 0 /\ m % b = m
  OBVIOUS
<1>3. CASE s = 1
  <2>1. s * b = b
    BY <1>3
  <2> QED  BY <1>1, <1>2, <2>1 DEF DigitsOf
<1>4. CASE k = 0
  <2>1. k * b + m = m
    BY <1>4
  <2>2. s * b \in Nat \ {0} /\ b <= s * b
    <3>1. 1 * b <= s * b /\ s * b \in Nat /\ 1 * b = b
      BY Factors
    <3> QED  BY <3>1
  <2>3. ASSUME NEW c \in Nat \ {0}, b <= c
        PROVE  m \div c = 0 /\ m % c = m
    BY <2>3
  <2> QED  BY <1>1, <1>2, <1>4, <2>1, <2>2, <2>3 DEF DigitsOf
<1> QED  BY <1>3, <1>4

LEMMA SectorIsNumber ==
  ASSUME NEW v, SoundVolume(v), NEW c \in Clusters(v)
  PROVE  SectorOf(v, c) \in Nat
<1>1. v.bs.sectors_per_cluster \in Nat /\ DataOf(v) \in Nat /\ c \in Nat /\ Word \in Nat \ {0}
  BY VolumeFacts
<1>2. (c - 2) * v.bs.sectors_per_cluster + DataOf(v) \in Int
  BY <1>1
<1>3. \A x \in Int : x % Word \in Nat
  BY <1>1
<1> QED  BY <1>2, <1>3 DEF SectorOf

LEMMA BytesOfSector ==
  ASSUME NEW v, SoundVolume(v), NEW e, e.size \in Nat,
         NEW k \in Nat, NEW m \in 1..BytesPerSector, k * BytesPerSector + m <= e.size,
         v.bs.sectors_per_cluster = 1 \/ e.size <= BytesPerSector,
         Chain(v, e)[k] \in Clusters(v)
  PROVE  FileBytes(v, e)[k * BytesPerSector + m] = v.sector[SectorOf(v, Chain(v, e)[k])].bytes[m]
<1> DEFINE b == BytesPerSector
           s == v.bs.sectors_per_cluster
           n == m - 1
           at(p) == v.sector[SectorOf(v, Chain(v, e)[(p - 1) \div (s * b)])
                               + ((p - 1) % (s * b)) \div b].bytes[((p - 1) % b) + 1]
<1>1. b \in Nat \ {0} /\ s \in Nat \ {0} /\ n \in Nat /\ n < b /\ k * b \in Nat
  BY VolumeFacts, Factors
<1>2. k * b + m \in 1..e.size /\ (k * b + m) - 1 = k * b + n
  BY SMTT(20), <1>1
<1>3. FileBytes(v, e)[k * b + m] = at(k * b + m)
  BY <1>2 DEF FileBytes
<1>4. s = 1 \/ k = 0
  <2>1. SUFFICES ASSUME k # 0, e.size <= b
                 PROVE  FALSE
    OBVIOUS
  <2>2. 1 * b <= k * b /\ 1 * b = b
    BY <1>1, <2>1, Factors
  <2> QED  BY <1>1, <1>2, <2>1, <2>2
<1> HIDE DEF b, s, n
<1>5. DigitsOf(k * b + n, k, n, b, s)
  BY <1>1, <1>4, MixedDigits
<1>6. n + 1 = m
  BY DEF n
<1>7. SectorOf(v, Chain(v, e)[k]) + 0 = SectorOf(v, Chain(v, e)[k])
  BY SectorIsNumber
<1> QED  BY <1>2, <1>3, <1>5, <1>6, <1>7 DEF b, DigitsOf

\* One more sector printed.
LEMMA PrefixGrows ==
  ASSUME NEW d \in Nat, NEW n \in Nat, NEW F, NEW b, b \in Seq(Range(b)), n <= Len(b),
         \A m \in 1..n : F[d + m] = b[m]
  PROVE  [p \in 1..d |-> F[p]] \o SubSeq(b, 1, n) = [p \in 1..(d + n) |-> F[p]]
<1>a. PICK X : X = {F[p] : p \in 1..(d + n)}
  OBVIOUS
<1>b. PICK a : a = [p \in 1..d |-> F[p]]
  OBVIOUS
<1>c. PICK c : c = [p \in 1..(d + n) |-> F[p]]
  OBVIOUS
<1>d. PICK t : t = SubSeq(b, 1, n)
  OBVIOUS
<1>1. a \in Seq(X) /\ Len(a) = d /\ \A p \in 1..d : a[p] = F[p]
  <2>1. a \in [1..d -> X] /\ DOMAIN a = 1..d
    BY <1>a, <1>b
  <2>2. a \in Seq(X)
    BY <2>1, IsASeq
  <2>3. DOMAIN a = 1..Len(a) /\ Len(a) \in Nat
    BY <2>2, LenProperties
  <2> QED  BY <2>1, <2>2, <2>3, <1>b
<1>2. c \in Seq(X) /\ Len(c) = d + n /\ \A p \in 1..(d + n) : c[p] = F[p]
  <2>1. c \in [1..(d + n) -> X] /\ DOMAIN c = 1..(d + n) /\ d + n \in Nat
    BY <1>a, <1>c
  <2>2. c \in Seq(X)
    BY <2>1, IsASeq
  <2>3. DOMAIN c = 1..Len(c) /\ Len(c) \in Nat
    BY <2>2, LenProperties
  <2> QED  BY <2>1, <2>2, <2>3, <1>c
<1>3. t \in Seq(X) /\ Len(t) = n /\ \A m \in 1..n : t[m] = F[d + m]
  <2>1. \A m \in 1..n : d + m \in 1..(d + n)
    OBVIOUS
  <2>2. \A m \in 1..n : b[m] \in X
    BY <1>a, <2>1
  <2>3. /\ SubSeq(b, 1, n) \in Seq(X)
        /\ Len(SubSeq(b, 1, n)) = IF 1 <= n THEN n - 1 + 1 ELSE 0
        /\ \A m \in 1..(n - 1 + 1) : SubSeq(b, 1, n)[m] = b[1 + m - 1]
    BY <2>2, SubSeqProperties
  <2>4. n - 1 + 1 = n /\ \A m \in Nat : 1 + m - 1 = m
    OBVIOUS
  <2>5. t \in Seq(X) /\ Len(t) = n /\ \A m \in 1..n : t[m] = b[m]
    BY <1>d, <2>3, <2>4
  <2> QED  BY <2>5
<1>4. /\ a \o t \in Seq(X) /\ Len(a \o t) = Len(a) + Len(t)
      /\ \A k \in 1..Len(a) : (a \o t)[k] = a[k]
      /\ \A k \in 1..Len(t) : (a \o t)[Len(a) + k] = t[k]
  <2>1. a \o t \in Seq(X) /\ Joint(a \o t, a, t)
    BY <1>1, <1>3, JoinedIsJoint
  <2> QED  BY <2>1 DEF Joint
<1>5. ASSUME NEW p \in 1..(d + n)
      PROVE  (a \o t)[p] = c[p]
  <2>1. CASE p <= d
    <3>1. p \in 1..Len(a)
      BY <1>1, <2>1
    <3>2. (a \o t)[p] = a[p] /\ a[p] = F[p]
      BY <1>1, <1>4, <3>1
    <3> QED  BY <1>2, <3>2
  <2>2. CASE ~(p <= d)
    <3>1. p - d \in 1..n /\ d + (p - d) = p
      BY <2>2
    <3>2. (a \o t)[d + (p - d)] = t[p - d] /\ t[p - d] = F[d + (p - d)]
      BY <1>1, <1>3, <1>4, <3>1
    <3> QED  BY <1>2, <3>1, <3>2
  <2> QED  BY <2>1, <2>2
<1>6. a \o t = c
  BY <1>1, <1>2, <1>3, <1>4, <1>5, SameSequence
<1> QED  BY <1>6, <1>b, <1>c, <1>d

LEMMA RootFacts ==
  ASSUME VolumesSound, FilesWhole, disk \in Volumes
  PROVE  /\ SoundVolume(disk) /\ CatVolume(disk)
         /\ bs.root_cluster = 2 /\ 2 \in Clusters(disk)
         /\ sectors_per_cluster = disk.bs.sectors_per_cluster
         /\ bs.root_cluster = disk.bs.root_cluster
<1>1. SoundVolume(disk) /\ CatVolume(disk)
  BY DEF VolumesSound, FilesWhole
<1>2. disk.bs.root_cluster = 2
  BY <1>1 DEF CatVolume
<1> QED  BY <1>1, <1>2, VolumeFacts DEF bs, sectors_per_cluster

\* An entry that is not found is not in the sector.
LEMMA NothingFound ==
  ASSUME NEW v, SoundVolume(v), CatVolume(v), NEW k \in 0..(v.bs.sectors_per_cluster - 1), NEW n,
         Match(EntriesAt(v, 2, k), n) = 0, NEW j \in DOMAIN EntriesAt(v, 2, k),
         InUse(EntriesAt(v, 2, k)[j])
  PROVE  EntriesAt(v, 2, k)[j].name # n
<1>0. 2 \in Clusters(v) /\ v.bs.root_cluster = 2
  BY VolumeFacts DEF CatVolume
<1>1. PICK s : s = EntriesAt(v, 2, k)
  OBVIOUS
<1>2. s \in Seq(Range(s)) /\ DOMAIN s = 1..Len(s) /\ Len(s) \in Nat
  BY <1>0, <1>1, SectorEntries
<1>3. \A m \in DOMAIN s : s[m].state = "end" => \A l \in DOMAIN s : l > m => ~InUse(s[l])
  BY <1>0, <1>1 DEF CatVolume
<1>4. /\ Len(Scanned(s)) \in 0..Len(s)
      /\ Len(Scanned(s)) < Len(s) => s[Len(Scanned(s)) + 1].state = "end"
  BY <1>2, ScannedProperties
<1>5. \A l \in 1..Len(Scanned(s)) : ~(InUse(s[l]) /\ s[l].name = n)
  BY <1>1, <1>2, MatchProperties
<1>6. InUse(s[j]) /\ j \in 1..Len(s)
  BY <1>1, <1>2
<1>7. j \in 1..Len(Scanned(s))
  <2>1. SUFFICES ASSUME ~(j <= Len(Scanned(s)))
                 PROVE  FALSE
    BY <1>2, <1>4, <1>6
  <2>2. PICK m \in Nat : m = Len(Scanned(s)) + 1
    BY <1>2, <1>4
  <2>3. m \in DOMAIN s /\ s[m].state = "end" /\ (j = m \/ j > m)
    BY <1>2, <1>4, <1>6, <2>1, <2>2
  <2>4. ~InUse(s[m])
    BY <2>3 DEF InUse
  <2>5. j > m => ~InUse(s[j])
    BY <1>2, <1>3, <1>6, <2>3
  <2> QED  BY <1>6, <2>3, <2>4, <2>5
<1> QED  BY <1>1, <1>5, <1>6, <1>7

\* One turn of the loop of cat.
LEMMA PrintsMore ==
  ASSUME VolumesSound, FilesWhole, WalkInv, CatFile, NEW e, InFile(e), Fits(e), Printed(e)
  PROVE  Printed(e)' /\ (pc' = "prompt" => file_size' = 0)
<1>1. /\ disk \in Volumes /\ SoundVolume(disk) /\ CatVolume(disk) /\ BytesPerSector \in Nat \ {0}
      /\ bs.root_cluster = 2 /\ 2 \in Clusters(disk) /\ Clusters(disk) \subseteq Nat
      /\ sectors_per_cluster = disk.bs.sectors_per_cluster /\ bs.root_cluster = disk.bs.root_cluster
  BY RootFacts, DiskFacts DEF WalkInv
<1>0. pc = "file" /\ file_size > 0 /\ cluster \in FileClusters(disk)
  BY DEF CatFile, WalkInv
<1>2. /\ pc = "file" /\ file_size > 0 /\ file_size \in Nat /\ cluster \in Clusters(disk)
      /\ shown' = shown \o SubSeq(disk.sector[cluster_to_sector(cluster)].bytes, 1, Portion)
      /\ file_size' = file_size - Portion /\ cluster' = NextCluster(cluster)
      /\ pc' = (IF NextCluster(cluster) = EndOfChain THEN "prompt" ELSE "file")
      /\ disk' = disk
  BY <1>0, <1>1, TableLeads DEF CatFile, WalkInv, dirVars
<1>3. PICK k \in Nat : k * BytesPerSector + file_size = e.size /\ cluster = Chain(disk, e)[k]
  BY <1>2 DEF Printed
<1>4. PICK r \in 0..(disk.bs.sectors_per_cluster - 1) :
        \E j \in DOMAIN EntriesAt(disk, 2, r) : e = EntriesAt(disk, 2, r)[j] /\ InUse(e)
  BY <1>1, InDirectoryPlaces DEF InFile
<1>5. PICK j \in DOMAIN EntriesAt(disk, 2, r) : e = EntriesAt(disk, 2, r)[j] /\ InUse(e)
  BY <1>4
<1>6. e.size \in Nat
  BY <1>1, <1>5, SectorEntries
<1>7. disk.bs.sectors_per_cluster = 1 \/ e.size <= BytesPerSector
  BY <1>1 DEF Fits
<1>8. PICK d \in Nat : d = k * BytesPerSector /\ d + file_size = e.size /\ d = e.size - file_size
  <2>1. k * BytesPerSector \in Nat
    BY <1>1
  <2> QED  BY <1>2, <1>3, <1>6, <2>1
<1>9. /\ Portion \in 1..BytesPerSector /\ Portion <= file_size
      /\ (file_size > Portion => Portion = BytesPerSector)
  BY <1>1, <1>2 DEF Portion
<1>10. PICK b : b = disk.sector[SectorOf(disk, cluster)].bytes
  OBVIOUS
<1>11. b \in Seq(Range(b)) /\ Len(b) >= BytesPerSector /\ Len(b) \in Nat
  <2>1. 0 \in 0..(disk.bs.sectors_per_cluster - 1)
    BY <1>1, VolumeFacts
  <2>2. \A z \in 0..(disk.bs.sectors_per_cluster - 1) :
          LET y == disk.sector[SectorOf(disk, cluster) + z].bytes
          IN y \in Seq(Range(y)) /\ Len(y) >= BytesPerSector
    BY <1>1, <1>2 DEF CatVolume
  <2>3. SectorOf(disk, cluster) + 0 = SectorOf(disk, cluster)
    BY <1>1, <1>2, SectorIsNumber
  <2>4. b \in Seq(Range(b)) /\ Len(b) >= BytesPerSector
    BY <1>10, <2>1, <2>2, <2>3
  <2> QED  BY <2>4, LenProperties
<1>12. ASSUME NEW m \in 1..Portion
       PROVE  FileBytes(disk, e)[d + m] = b[m]
  <2>1. m \in 1..BytesPerSector /\ d + m <= e.size
    BY <1>1, <1>2, <1>6, <1>8, <1>9
  <2>2. Chain(disk, e)[k] \in Clusters(disk)
    BY <1>2, <1>3
  <2>3. k * BytesPerSector + m <= e.size
    BY <1>8, <2>1
  <2>4. FileBytes(disk, e)[k * BytesPerSector + m] = disk.sector[SectorOf(disk, Chain(disk, e)[k])].bytes[m]
    BY <1>1, <1>6, <1>7, <2>1, <2>2, <2>3, BytesOfSector
  <2> QED  BY <1>3, <1>8, <1>10, <2>4
<1>13. shown = [p \in 1..d |-> FileBytes(disk, e)[p]]
  BY <1>8 DEF Printed
<1>14. Portion \in Nat /\ Portion <= Len(b)
  BY <1>1, <1>9, <1>11
<1>15. shown' = [p \in 1..(d + Portion) |-> FileBytes(disk, e)[p]]
  <2>1. PICK F : F = FileBytes(disk, e)
    OBVIOUS
  <2>2. \A m \in 1..Portion : F[d + m] = b[m]
    BY <1>12, <2>1
  <2>3. [p \in 1..d |-> F[p]] \o SubSeq(b, 1, Portion) = [p \in 1..(d + Portion) |-> F[p]]
    BY <1>11, <1>14, <2>2, PrefixGrows
  <2>4. shown' = shown \o SubSeq(b, 1, Portion)
    BY <1>2, <1>10 DEF cluster_to_sector
  <2> QED  BY <1>13, <2>1, <2>3, <2>4
<1>16. d + Portion = e.size - file_size' /\ file_size' <= e.size /\ file_size' \in Nat
  BY <1>2, <1>6, <1>8, <1>9, <1>14
<1>17. ASSUME file_size' > 0
       PROVE  /\ (k + 1) * BytesPerSector + file_size' = e.size
              /\ cluster' = Chain(disk, e)[k + 1] /\ pc' # "prompt"
  <2>1. Portion = BytesPerSector
    BY <1>2, <1>9, <1>14, <1>17
  <2>2. (k + 1) * BytesPerSector = d + BytesPerSector
    BY <1>1, <1>8
  <2>3. (k + 1) * BytesPerSector + file_size' = e.size
    BY <1>1, <1>2, <1>6, <1>8, <2>1, <2>2
  <2>4. (k + 1) * BytesPerSector < e.size /\ (k + 1) * BytesPerSector \in Nat
    BY <1>1, <1>6, <1>16, <1>17, <2>2, <2>3
  <2>5. k + 1 \in 1..e.size
    <3>1. ASSUME NEW l \in Nat, l * BytesPerSector < e.size
          PROVE  l <= e.size
      <4>1. l * 1 <= l * BytesPerSector
        <5>1. 1 * l <= BytesPerSector * l
          BY <1>1, Factors
        <5> QED  BY <1>1, <5>1
      <4> QED  BY <1>1, <1>6, <3>1, <4>1
    <3>2. k + 1 \in Nat /\ k + 1 >= 1
      OBVIOUS
    <3> QED  BY <1>6, <2>4, <3>1, <3>2
  <2>6. NextCluster(cluster) = Table(disk)[cluster + 1]
    <3>1. NextCluster(cluster) = TableAt(disk, cluster)
      BY DEF NextCluster, TableAt, bs
    <3> QED  BY <1>1, <1>2, <3>1, TableIsTable
  <2>7. Chain(disk, e)[k + 1] = Table(disk)[Chain(disk, e)[k] + 1]
    <3>1. ASSUME NEW l \in 0..e.size
          PROVE  Chain(disk, e)[l] = IF l = 0 THEN e.cluster ELSE Table(disk)[Chain(disk, e)[l - 1] + 1]
      BY <1>6, ChainLinks
    <3>2. k + 1 \in 0..e.size /\ k + 1 # 0 /\ (k + 1) - 1 = k
      BY <2>5
    <3> QED  BY <3>1, <3>2
  <2>8. cluster' = Chain(disk, e)[k + 1]
    BY <1>2, <1>3, <2>6, <2>7
  <2>9. Chain(disk, e)[k + 1] # EndOfChain
    <3>1. \A p \in PlacesInUse(disk, 2) :
            LET x == EntryAt(disk, 2, p)
            IN Typable(x.name) /\ (disk.bs.sectors_per_cluster = 1 \/ x.size <= BytesPerSector) =>
                 \A l \in 1..x.size : l * BytesPerSector < x.size => Chain(disk, x)[l] # EndOfChain
      BY <1>1 DEF CatVolume
    <3>2. <<r, j>> \in PlacesInUse(disk, 2) /\ EntryAt(disk, 2, <<r, j>>) = e
      BY <1>5, PlaceOf
    <3>3. Typable(e.name)
      <4>1. argument \in Typed /\ e.name = format_filename_83(argument)
        BY <1>2 DEF WalkInv, InFile
      <4> QED  BY <4>1 DEF Typable
    <3>4. \A l \in 1..e.size : l * BytesPerSector < e.size => Chain(disk, e)[l] # EndOfChain
      BY <1>7, <3>1, <3>2, <3>3
    <3> QED  BY <2>4, <2>5, <3>4
  <2> QED  BY <1>2, <2>3, <2>8, <2>9
<1>18. Printed(e)'
  <2>1. shown' = [p \in 1..(e.size - file_size') |-> FileBytes(disk', e)[p]]
    BY <1>2, <1>15, <1>16
  <2>2. file_size' > 0 =>
          \E l \in Nat : l * BytesPerSector + file_size' = e.size /\ cluster' = Chain(disk', e)[l]
    <3>1. k + 1 \in Nat
      OBVIOUS
    <3> QED  BY <1>2, <1>17, <3>1
  <2> QED  BY <1>16, <2>1, <2>2 DEF Printed
<1>19. pc' = "prompt" => file_size' = 0
  BY <1>16, <1>17
<1> QED  BY <1>18, <1>19

\* Steps after which the prompt does not show what cat has printed.
LEMMA OtherCommands ==
  ASSUME CatInv, pc' \in {"prompt", "ls", "cd"},
         pc' = "ls" => command' = "ls", pc' = "cd" => command' = "cd",
         pc' = "prompt" => command' # "cat"
  PROVE  CatInv'
<1>1. CatPrintsFile'
  BY DEF CatPrintsFile
<1> QED  BY <1>1 DEF CatInv

LEMMA CatStartKeepsCat ==
  ASSUME CatInv, NEW text \in Typed, Search("cat", text)
  PROVE  CatInv'
<1>1. pc' = "cat" /\ command' = "cat" /\ found' = FALSE /\ i' = 0 /\ shown' = << >>
  BY DEF Search
<1>2. \A k \in 0..(i' - 1) : FALSE
  BY <1>1
<1>3. CatPrintsFile'
  BY <1>1 DEF CatPrintsFile
<1> QED  BY <1>1, <1>2, <1>3 DEF CatInv

LEMMA CatSectorKeepsCat ==
  ASSUME VolumesSound, FilesWhole, WalkInv, CatInv, CatSector
  PROVE  CatInv'
<1> DEFINE s == EntriesAt(disk, 2, i)
           j == Match(s, name)
<1>1. /\ disk \in Volumes /\ SoundVolume(disk) /\ CatVolume(disk)
      /\ bs.root_cluster = 2 /\ 2 \in Clusters(disk)
      /\ sectors_per_cluster = disk.bs.sectors_per_cluster /\ bs.root_cluster = disk.bs.root_cluster
  BY RootFacts DEF WalkInv
<1>2. /\ pc = "cat" /\ i \in 0..(sectors_per_cluster - 1) /\ i \in 0..(disk.bs.sectors_per_cluster - 1)
      /\ sectors_per_cluster \in Nat
  BY <1>1, DiskFacts DEF CatSector, WalkInv
<1>3. disk.sector[FirstDataSector + i].entries = s
  BY <1>1, <1>2, SearchedSectors DEF WalkInv
<1>4. /\ command = "cat" /\ found = FALSE /\ shown = << >>
      /\ \A k \in 0..(i - 1) : \A m \in DOMAIN EntriesAt(disk, 2, k) :
           InUse(EntriesAt(disk, 2, k)[m]) => EntriesAt(disk, 2, k)[m].name # name
  BY <1>1, <1>2 DEF CatInv
<1>5. /\ j = 0 => i' = i + 1 /\ UNCHANGED <<pc, found, fileVars>>
      /\ j # 0 => /\ found' = TRUE /\ pc' = "file"
                  /\ cluster' = s[j].cluster /\ file_size' = s[j].size /\ i' = i
      /\ UNCHANGED <<disk, command, name, shown>>
  BY <1>3 DEF CatSector, NextSector, dirVars, callVars
<1>6. bs' = bs
  BY <1>5 DEF bs
<1> HIDE DEF s, j
<1>7. CASE j = 0
  <2>1. \A m \in DOMAIN EntriesAt(disk, 2, i) :
          InUse(EntriesAt(disk, 2, i)[m]) => EntriesAt(disk, 2, i)[m].name # name
    BY <1>1, <1>2, <1>7, NothingFound DEF s, j
  <2>2. \A k \in 0..i : k \in 0..(i - 1) \/ k = i
    BY <1>2
  <2>3. ASSUME NEW k \in 0..i
        PROVE  \A m \in DOMAIN EntriesAt(disk, 2, k) :
                 InUse(EntriesAt(disk, 2, k)[m]) => EntriesAt(disk, 2, k)[m].name # name
    BY <1>4, <2>1, <2>2
  <2>4. i' = i + 1 /\ pc' = "cat" /\ found' = FALSE
    BY <1>2, <1>4, <1>5, <1>7
  <2>5. \A k \in 0..(i' - 1) : k \in 0..i
    BY <1>2, <2>4
  <2>6. \A k \in 0..(i' - 1) : \A m \in DOMAIN EntriesAt(disk', bs'.root_cluster, k) :
          InUse(EntriesAt(disk', bs'.root_cluster, k)[m]) =>
            EntriesAt(disk', bs'.root_cluster, k)[m].name # name'
    BY <1>1, <1>5, <1>6, <2>3, <2>5
  <2>7. CatPrintsFile'
    BY <2>4 DEF CatPrintsFile
  <2>8. command' = "cat" /\ shown' = << >>
    BY <1>4, <1>5
  <2> QED  BY <2>4, <2>6, <2>7, <2>8 DEF CatInv
<1>8. CASE j # 0
  <2>0. PICK e : e = s[j]
    OBVIOUS
  <2>1. /\ j \in DOMAIN s /\ InUse(e) /\ e.name = name /\ e.size \in Nat
    BY <1>1, <1>2, <1>8, <2>0, MatchedEntry DEF s, j
  <2>2. e \in InDirectory(disk, 2)
    BY <1>2, <2>0, <2>1, InDirectoryPlaces DEF s
  <2>3. InFile(e)'
    BY <1>1, <1>5, <1>6, <2>1, <2>2 DEF InFile
  <2>4. file_size' = e.size /\ cluster' = e.cluster /\ shown' = << >>
    BY <1>4, <1>5, <1>8, <2>0
  <2>5. shown' = [p \in 1..(e.size - file_size') |-> FileBytes(disk', e)[p]]
    <3>1. e.size - file_size' = 0
      BY <2>1, <2>4
    <3>2. 1..(e.size - file_size') = {}
      BY <3>1
    <3> QED  BY <2>4, <3>2
  <2>6. Chain(disk', e)[0] = e.cluster
    <3>1. 0 \in 0..e.size
      BY <2>1
    <3> QED  BY <2>1, <3>1, ChainLinks
  <2>7. 0 * BytesPerSector + file_size' = e.size
    BY <1>1, <2>1, <2>4, DiskFacts
  <2>8. file_size' <= e.size
    BY <2>1, <2>4
  <2>9. Printed(e)'
    <3>1. \E k \in Nat : k * BytesPerSector + file_size' = e.size /\ cluster' = Chain(disk', e)[k]
      BY <2>4, <2>6, <2>7
    <3> QED  BY <2>5, <2>8, <3>1 DEF Printed
  <2>10. pc' = "file" /\ found' = TRUE /\ command' = "cat"
    BY <1>4, <1>5, <1>8
  <2>11. CatPrintsFile'
    BY <2>10 DEF CatPrintsFile
  <2> QED  BY <2>3, <2>9, <2>10, <2>11 DEF CatInv
<1> QED  BY <1>7, <1>8

LEMMA FileSize ==
  ASSUME VolumesSound, FilesWhole, disk \in Volumes, NEW e, InFile(e)
  PROVE  e.size \in Nat
<1>1. SoundVolume(disk) /\ 2 \in Clusters(disk) /\ bs.root_cluster = 2
  BY RootFacts
<1>2. PICK r \in 0..(disk.bs.sectors_per_cluster - 1) :
        \E j \in DOMAIN EntriesAt(disk, 2, r) : e = EntriesAt(disk, 2, r)[j] /\ InUse(e)
  BY <1>1, InDirectoryPlaces DEF InFile
<1> QED  BY <1>1, <1>2, SectorEntries

\* A file whose bytes have all been printed.
LEMMA AllPrinted ==
  ASSUME NEW e, Printed(e), file_size = 0, e.size \in Nat
  PROVE  shown = FileBytes(disk, e)
<1>1. shown = [p \in 1..e.size |-> FileBytes(disk, e)[p]]
  BY SMTT(20) DEF Printed
<1>2. FileBytes(disk, e) = [p \in 1..e.size |-> FileBytes(disk, e)[p]]
  BY DEF FileBytes
<1> QED  BY <1>1, <1>2

LEMMA CatFileKeepsCat ==
  ASSUME VolumesSound, FilesWhole, WalkInv, CatInv, CatFile
  PROVE  CatInv'
<1>1. /\ pc = "file" /\ pc' \in {"prompt", "file"}
      /\ UNCHANGED <<disk, command, name, found>>
  BY DEF CatFile, dirVars, callVars
<1>2. bs' = bs /\ sectors_per_cluster' = sectors_per_cluster
  BY <1>1 DEF bs, sectors_per_cluster
<1>3. command = "cat" /\ found = TRUE /\ \E e : InFile(e) /\ (Fits(e) => Printed(e))
  BY <1>1 DEF CatInv
<1>4. PICK e : InFile(e) /\ (Fits(e) => Printed(e))
  BY <1>3
<1>5. InFile(e)' /\ (Fits(e)' <=> Fits(e))
  BY <1>1, <1>2, <1>4 DEF InFile, Fits
<1>6. Fits(e) => Printed(e)' /\ (pc' = "prompt" => file_size' = 0)
  BY <1>4, PrintsMore
<1>7. CASE pc' = "file"
  <2>1. CatPrintsFile'
    BY <1>7 DEF CatPrintsFile
  <2> QED  BY <1>1, <1>3, <1>5, <1>6, <1>7, <2>1 DEF CatInv
<1>8. CASE pc' = "prompt"
  <2>1. Fits(e) => shown' = FileBytes(disk', e)
    <3>1. SUFFICES ASSUME Fits(e)
                   PROVE  shown' = FileBytes(disk', e)
      OBVIOUS
    <3>2. Printed(e)' /\ file_size' = 0
      BY <1>6, <1>8, <3>1
    <3>3. e.size \in Nat
      BY <1>4, FileSize DEF WalkInv
    <3>4. shown' = [p \in 1..(e.size - file_size') |-> FileBytes(disk', e)[p]]
      BY <3>2 DEF Printed
    <3>5. e.size - file_size' = e.size
      BY SMTT(20), <3>2, <3>3
    <3>6. FileBytes(disk', e) = [p \in 1..e.size |-> FileBytes(disk', e)[p]]
      BY DEF FileBytes
    <3> QED  BY <3>4, <3>5, <3>6
  <2>2. e \in InDirectory(disk', bs'.root_cluster) /\ e.name = name'
    BY <1>5 DEF InFile
  <2>3. CatPrintsFile'
    BY <1>1, <1>2, <1>3, <2>1, <2>2 DEF CatPrintsFile, Fits
  <2> QED  BY <1>8, <2>3 DEF CatInv
<1> QED  BY <1>1, <1>7, <1>8

LEMMA CatReturnKeepsCat ==
  ASSUME VolumesSound, FilesWhole, WalkInv, CatInv, CatReturn
  PROVE  CatInv'
<1>1. /\ pc' = "prompt" /\ UNCHANGED <<disk, command, name, found, shown, i, file_size>>
  BY DEF CatReturn, dirVars, callVars, fileVars
<1>2. bs' = bs /\ sectors_per_cluster' = sectors_per_cluster
  BY <1>1 DEF bs, sectors_per_cluster
<1>3. CASE pc = "file" /\ file_size = 0
  <2>1. command = "cat" /\ found = TRUE /\ \E e : InFile(e) /\ (Fits(e) => Printed(e))
    BY <1>3 DEF CatInv
  <2>2. PICK e : InFile(e) /\ (Fits(e) => Printed(e))
    BY <2>1
  <2>3. Fits(e) => shown = FileBytes(disk, e)
    BY <1>3, <2>2, FileSize, AllPrinted DEF WalkInv
  <2>4. CatPrintsFile'
    BY <1>1, <1>2, <2>1, <2>2, <2>3 DEF CatPrintsFile, InFile, Fits
  <2> QED  BY <1>1, <2>4 DEF CatInv
<1>4. CASE pc = "cat" /\ i = sectors_per_cluster
  <2>1. /\ command = "cat" /\ found = FALSE
        /\ \A k \in 0..(i - 1) : \A m \in DOMAIN EntriesAt(disk, bs.root_cluster, k) :
             InUse(EntriesAt(disk, bs.root_cluster, k)[m]) =>
               EntriesAt(disk, bs.root_cluster, k)[m].name # name
    BY <1>4 DEF CatInv
  <2>2. ASSUME NEW e \in InDirectory(disk, bs.root_cluster)
        PROVE  e.name # name
    <3>1. PICK k \in 0..(disk.bs.sectors_per_cluster - 1) :
            \E m \in DOMAIN EntriesAt(disk, bs.root_cluster, k) :
              e = EntriesAt(disk, bs.root_cluster, k)[m] /\ InUse(e)
      BY <2>2, InDirectoryPlaces
    <3>2. k \in 0..(i - 1)
      BY <1>4, <3>1 DEF sectors_per_cluster, bs
    <3> QED  BY <2>1, <3>1, <3>2
  <2>3. CatPrintsFile'
    BY <1>1, <1>2, <2>1, <2>2 DEF CatPrintsFile
  <2> QED  BY <1>1, <2>3 DEF CatInv
<1>5. (pc = "file" /\ file_size = 0) \/ (pc = "cat" /\ i = sectors_per_cluster)
  BY DEF CatReturn
<1> QED  BY <1>3, <1>4, <1>5

LEMMA NextCat ==
  ASSUME VolumesSound, FilesWhole, WalkInv, CatInv, [Next]_vars
  PROVE  CatInv'
<1>1. CASE Ls
  BY <1>1, OtherCommands DEF Ls
<1>2. CASE Cat
  BY <1>2, CatStartKeepsCat DEF Cat
<1>3. CASE CdRoot
  BY <1>3, OtherCommands DEF CdRoot
<1>4. CASE Cd
  <2>1. PICK text \in Typed : Search("cd", text)
    BY <1>4 DEF Cd
  <2>2. pc' = "cd" /\ command' = "cd"
    BY <2>1 DEF Search
  <2> QED  BY <2>2, OtherCommands
<1>5. CASE LsSector \/ LsNextPass \/ LsReturn
  <2>1. pc = "ls" /\ command' = command /\ pc' \in {"ls", "prompt"}
    BY <1>5 DEF LsSector, LsNextPass, LsReturn, callVars
  <2>2. command' = "ls"
    BY <2>1 DEF CatInv
  <2> QED  BY <2>1, <2>2, OtherCommands
<1>6. CASE CdSector \/ CdReturn
  <2>1. pc = "cd" /\ command' = command /\ pc' \in {"cd", "prompt"}
    BY <1>6 DEF CdSector, CdReturn, callVars
  <2>2. command' = "cd"
    BY <2>1 DEF CatInv
  <2> QED  BY <2>1, <2>2, OtherCommands
<1>7. CASE CatSector \/ CatFile \/ CatReturn
  BY <1>7, CatSectorKeepsCat, CatFileKeepsCat, CatReturnKeepsCat
<1>8. CASE UNCHANGED vars
  BY <1>8 DEF vars, CatInv, CatPrintsFile, InFile, Fits, Printed, sectors_per_cluster, bs
<1>9. Next => \/ Ls \/ Cat \/ CdRoot \/ Cd \/ LsSector \/ LsNextPass \/ LsReturn
              \/ CdSector \/ CdReturn \/ CatSector \/ CatFile \/ CatReturn
  BY DEF Next, Turn, Return
<1> QED  BY <1>1, <1>2, <1>3, <1>4, <1>5, <1>6, <1>7, <1>8, <1>9

\* cat prints sector by sector along the allocation table (fat.c:214-263):
\* when it is back at the prompt it has printed the file of the root
\* directory byte for byte, or the root directory has no such file.
THEOREM CatStaysRight ==
  ASSUME VolumesSound, FilesWhole
  PROVE  Spec => []CatPrintsFile
<1>1. Init => CatInv
  BY DEF Init, CatInv, CatPrintsFile
<1>2. WalkInv /\ CatInv /\ [Next]_vars => CatInv'
  BY NextCat
<1>3. CatInv => CatPrintsFile
  BY DEF CatInv
<1> QED  BY <1>1, <1>2, <1>3, WalkInvariant, PTL DEF Spec

-----------------------------------------------------------------------------
(***************************************************************************)
(* ls: what is shown has a line for every place with an entry in use of    *)
(* the sectors looked at, and as many lines as there are such places.      *)
(***************************************************************************)

LinesAt(v, c, S) == {LineOf(EntryAt(v, c, p)) : p \in S}

Lists(s, v, c, S) ==
  /\ IsFiniteSet(S)
  /\ s \in Seq(LinesAt(v, c, S)) /\ Len(s) = Cardinality(S)
  /\ \A p \in S : \E k \in 1..Len(s) : s[k] = LineOf(EntryAt(v, c, p))

LEMMA ListsNothing ==
  ASSUME NEW v, NEW c
  PROVE  Lists(<< >>, v, c, {})
<1>1. << >> \in Seq(LinesAt(v, c, {})) /\ Len(<< >>) = 0
  BY EmptySeq
<1> QED  BY <1>1, FS_EmptySet DEF Lists

LEMMA ListsOne ==
  ASSUME NEW v, NEW c, NEW p, NEW s, s = <<LineOf(EntryAt(v, c, p))>>
  PROVE  Lists(s, v, c, {p})
<1>1. s \in Seq(LinesAt(v, c, {p})) /\ Len(s) = 1 /\ s[1] = LineOf(EntryAt(v, c, p))
  BY DEF LinesAt
<1>2. IsFiniteSet({p}) /\ Cardinality({p}) = 1
  BY FS_Singleton
<1> QED  BY <1>1, <1>2 DEF Lists

LEMMA WiderSequence ==
  ASSUME NEW A, NEW B, A \subseteq B, NEW s \in Seq(A)
  PROVE  s \in Seq(B)
<1>1. Len(s) \in Nat /\ s \in [1..Len(s) -> A]
  BY LenProperties
<1>2. s \in [1..Len(s) -> B]
  BY <1>1
<1> QED  BY <1>1, <1>2, IsASeq

LEMMA ListsBoth ==
  ASSUME NEW v, NEW c, NEW s, NEW S, Lists(s, v, c, S), NEW t, NEW T, Lists(t, v, c, T),
         S \cap T = {}
  PROVE  Lists(s \o t, v, c, S \cup T)
<1>1. PICK X : X = LinesAt(v, c, S \cup T)
  OBVIOUS
<1>2. LinesAt(v, c, S) \subseteq X /\ LinesAt(v, c, T) \subseteq X
  BY <1>1 DEF LinesAt
<1>3. s \in Seq(X) /\ t \in Seq(X)
  BY <1>2, WiderSequence DEF Lists
<1>4. s \o t \in Seq(X) /\ Joint(s \o t, s, t)
  BY <1>3, JoinedIsJoint
<1>5. PICK u : u = s \o t
  OBVIOUS
<1>6. /\ u \in Seq(X) /\ Len(u) = Len(s) + Len(t) /\ Len(s) \in Nat /\ Len(t) \in Nat
      /\ \A k \in 1..Len(s) : u[k] = s[k]
      /\ \A k \in 1..Len(t) : u[Len(s) + k] = t[k]
  BY <1>3, <1>4, <1>5, LenProperties DEF Joint
<1>7. /\ IsFiniteSet(S) /\ IsFiniteSet(T) /\ Len(s) = Cardinality(S) /\ Len(t) = Cardinality(T)
      /\ \A p \in S : \E k \in 1..Len(s) : s[k] = LineOf(EntryAt(v, c, p))
      /\ \A p \in T : \E k \in 1..Len(t) : t[k] = LineOf(EntryAt(v, c, p))
  BY DEF Lists
<1>8. IsFiniteSet(S \cup T) /\ Cardinality(S \cup T) = Cardinality(S) + Cardinality(T)
  <2>1. /\ IsFiniteSet(S \cup T)
        /\ Cardinality(S \cup T) = Cardinality(S) + Cardinality(T) - Cardinality(S \cap T)
    BY <1>7, FS_Union
  <2>2. Cardinality(S \cap T) = 0
    BY FS_EmptySet
  <2>3. Cardinality(S) \in Nat /\ Cardinality(T) \in Nat
    BY <1>6, <1>7
  <2> QED  BY <2>1, <2>2, <2>3
<1>9. ASSUME NEW p \in S \cup T
      PROVE  \E k \in 1..Len(u) : u[k] = LineOf(EntryAt(v, c, p))
  <2>1. CASE p \in S
    <3>1. PICK k \in 1..Len(s) : s[k] = LineOf(EntryAt(v, c, p))
      BY <1>7, <2>1
    <3>2. k \in 1..Len(u) /\ u[k] = LineOf(EntryAt(v, c, p))
      BY <1>6, <3>1
    <3> QED  BY <3>2
  <2>2. CASE p \in T
    <3>1. PICK k \in 1..Len(t) : t[k] = LineOf(EntryAt(v, c, p))
      BY <1>7, <2>2
    <3>2. Len(s) + k \in 1..Len(u) /\ u[Len(s) + k] = LineOf(EntryAt(v, c, p))
      BY <1>6, <3>1
    <3> QED  BY <3>2
  <2> QED  BY <2>1, <2>2
<1>10. Len(u) = Cardinality(S \cup T)
  BY <1>6, <1>7, <1>8
<1> QED  BY <1>1, <1>5, <1>6, <1>8, <1>9, <1>10 DEF Lists

\* The places that a pass of ls shows of the first m entries of sector k.
IsPicked(e, p) == InUse(e) /\ (p = "DIR" <=> e.dir)
Picked(v, c, k, m, p) ==
  {q \in Places(v, c) : q[1] = k /\ q[2] \in 1..m /\ IsPicked(EntryAt(v, c, q), p)}
Chosen(v, c, q, p) == IF IsPicked(EntryAt(v, c, q), p) THEN {q} ELSE {}

LEMMA PickedOne ==
  ASSUME NEW v, NEW c, NEW k \in 0..(v.bs.sectors_per_cluster - 1), NEW m \in Nat, NEW p,
         NEW l \in Nat, l = m + 1, l \in DOMAIN EntriesAt(v, c, k)
  PROVE  \E x : /\ EntryAt(v, c, x) = EntriesAt(v, c, k)[l]
                /\ Picked(v, c, k, l, p) = Picked(v, c, k, m, p) \cup Chosen(v, c, x, p)
                /\ Picked(v, c, k, m, p) \cap Chosen(v, c, x, p) = {}
<1>1. 1..l = 1..m \cup {l} /\ l \notin 1..m
  OBVIOUS
<1>2. <<k, l>> \in Places(v, c) /\ EntryAt(v, c, <<k, l>>) = EntriesAt(v, c, k)[l]
  BY PlaceOf
<1>3. PICK x : x = <<k, l>>
  OBVIOUS
<1>4. x \in Places(v, c) /\ x[1] = k /\ x[2] = l
  BY <1>2, <1>3
<1>5. \A q \in Places(v, c) : q[1] = k /\ q[2] = l => q = x
  BY <1>3, PairOf
<1>6. Chosen(v, c, x, p) = {q \in {x} : IsPicked(EntryAt(v, c, q), p)}
  <2>1. CASE IsPicked(EntryAt(v, c, x), p)
    BY <2>1 DEF Chosen
  <2>2. CASE ~IsPicked(EntryAt(v, c, x), p)
    BY <2>2 DEF Chosen
  <2> QED  BY <2>1, <2>2
<1>7. /\ Picked(v, c, k, l, p) = Picked(v, c, k, m, p) \cup Chosen(v, c, x, p)
      /\ Picked(v, c, k, m, p) \cap Chosen(v, c, x, p) = {}
  BY <1>1, <1>4, <1>5, <1>6 DEF Picked
<1>8. EntryAt(v, c, x) = EntriesAt(v, c, k)[l]
  BY <1>2, <1>3
<1> QED  BY <1>7, <1>8

LEMMA PickedNone ==
  ASSUME NEW v, NEW c, NEW k, NEW p
  PROVE  Picked(v, c, k, 0, p) = {}
<1>1. \A x : x \notin 1..0
  OBVIOUS
<1> QED  BY <1>1 DEF Picked

LEMMA SectorLines ==
  ASSUME NEW v, SoundVolume(v), NEW c \in Clusters(v), pass \in {"DIR", "FILE"},
         NEW k \in 0..(v.bs.sectors_per_cluster - 1)
  PROVE  Lists(LinesOf(EntriesAt(v, c, k)), v, c, Picked(v, c, k, Len(EntriesAt(v, c, k)), pass))
<1>1. PICK s : s = EntriesAt(v, c, k)
  OBVIOUS
<1>2. PICK n \in Nat : n = Len(s) /\ DOMAIN s = 1..n
  BY <1>1, SectorEntries
<1>3. \A l \in DOMAIN s : InUse(s[l]) => s[l].dir \in BOOLEAN
  BY <1>1, SectorEntries
<1>4. PICK ss : ss = [l \in 1..n |-> IF InPass(s[l]) THEN <<Line(s[l])>> ELSE << >>]
  OBVIOUS
<1>5. PICK X : X = {Line(s[l]) : l \in 1..n}
  OBVIOUS
<1>6. ss \in [1..n -> Seq(X)]
  <2>1. ASSUME NEW l \in 1..n
        PROVE  ss[l] \in Seq(X)
    <3>1. Line(s[l]) \in X
      BY <1>5
    <3>2. << >> \in Seq(X)
      BY EmptySeq
    <3>3. \A x \in X : <<x>> \in Seq(X)
      OBVIOUS
    <3>4. ss[l] = IF InPass(s[l]) THEN <<Line(s[l])>> ELSE << >>
      BY <1>4
    <3> QED  BY <3>1, <3>2, <3>3, <3>4
  <2>2. ss = [l \in 1..n |-> ss[l]]
    BY <1>4
  <2> QED  BY <2>1, <2>2
<1>7. LinesOf(s) = Flat(ss, n)
  <2>1. LinesOf(s) = FlattenSeq(ss)
    BY <1>2, <1>4 DEF LinesOf
  <2> QED  BY <1>6, <2>1, FlattenIsFlat
<1>8. /\ Flat(ss, 0) = << >>
      /\ \A m \in 0..(n - 1) : Flat(ss, m + 1) = Flat(ss, m) \o ss[m + 1]
  BY <1>6, FlatSteps
<1>9. \A m, l \in Nat :
         l = m + 1 /\ l \in 1..n
           => \E x : /\ EntryAt(v, c, x) = EntriesAt(v, c, k)[l]
                     /\ Picked(v, c, k, l, pass) = Picked(v, c, k, m, pass) \cup Chosen(v, c, x, pass)
                     /\ Picked(v, c, k, m, pass) \cap Chosen(v, c, x, pass) = {}
  <2>1. DOMAIN EntriesAt(v, c, k) = 1..n
    BY <1>1, <1>2
  <2> QED  BY ZenonT(60), <2>1, PickedOne
<1> DEFINE Good == {m \in 0..n : Lists(Flat(ss, m), v, c, Picked(v, c, k, m, pass))}
<1>10. 0 \in Good
  <2>1. Lists(Flat(ss, 0), v, c, Picked(v, c, k, 0, pass))
    BY <1>8, PickedNone, ListsNothing
  <2>2. 0 \in 0..n
    OBVIOUS
  <2> QED  BY <2>1, <2>2
<1>11. ASSUME NEW m \in 0..(n - 1), m \in Good
       PROVE  m + 1 \in Good
  <2>1. PICK l \in Nat : l = m + 1
    OBVIOUS
  <2>2. m \in Nat /\ l \in 1..n /\ l \in 0..n
    BY <2>1
  <2>3. Flat(ss, l) = Flat(ss, m) \o ss[l]
    BY <1>8, <2>1
  <2>4. Lists(Flat(ss, m), v, c, Picked(v, c, k, m, pass))
    BY <1>11
  <2>5. ss[l] = IF InPass(s[l]) THEN <<Line(s[l])>> ELSE << >>
    BY <1>4, <2>2
  <2>6. PICK x : /\ EntryAt(v, c, x) = EntriesAt(v, c, k)[l]
                 /\ Picked(v, c, k, l, pass) = Picked(v, c, k, m, pass) \cup Chosen(v, c, x, pass)
                 /\ Picked(v, c, k, m, pass) \cap Chosen(v, c, x, pass) = {}
    BY <2>1, <2>2, <1>9
  <2>7. EntryAt(v, c, x) = s[l]
    BY <1>1, <2>6
  <2>8. /\ Picked(v, c, k, l, pass) = Picked(v, c, k, m, pass) \cup Chosen(v, c, x, pass)
        /\ Picked(v, c, k, m, pass) \cap Chosen(v, c, x, pass) = {}
    BY <2>6
  <2>9. Lists(ss[l], v, c, Chosen(v, c, x, pass))
    <3>1. CASE InPass(s[l])
      <4>1. Chosen(v, c, x, pass) = {x}
        BY <2>7, <3>1 DEF Chosen, IsPicked, InPass
      <4>2. InUse(s[l]) /\ (pass = "DIR" <=> s[l].dir) /\ s[l].dir \in BOOLEAN
        BY <1>2, <1>3, <2>2, <3>1 DEF InPass
      <4>3. Line(s[l]) = LineOf(EntryAt(v, c, x))
        BY <2>7, <4>2 DEF Line, LineOf
      <4>4. ss[l] = <<LineOf(EntryAt(v, c, x))>>
        BY <2>5, <3>1, <4>3
      <4> QED  BY <4>1, <4>4, ListsOne
    <3>2. CASE ~InPass(s[l])
      <4>1. Chosen(v, c, x, pass) = {}
        BY <2>7, <3>2 DEF Chosen, IsPicked, InPass
      <4> QED  BY <2>5, <3>2, <4>1, ListsNothing
    <3> QED  BY <3>1, <3>2
  <2>10. Lists(Flat(ss, m) \o ss[l], v, c, Picked(v, c, k, m, pass) \cup Chosen(v, c, x, pass))
    BY <2>4, <2>8, <2>9, ListsBoth
  <2>11. Lists(Flat(ss, l), v, c, Picked(v, c, k, l, pass))
    BY <2>3, <2>8, <2>10
  <2> QED  BY <2>1, <2>2, <2>11
<1>12. 0..n \subseteq Good
  <2> HIDE DEF Good
  <2> QED  BY <1>10, <1>11, UpTo
<1>13. Lists(Flat(ss, n), v, c, Picked(v, c, k, n, pass))
  BY <1>12
<1> QED  BY <1>1, <1>2, <1>7, <1>13

\* The places that ls has shown when it comes to sector n in a pass.
Seen(e, k, n, p) == (p = "FILE" /\ e.dir) \/ (k < n /\ (p = "DIR" <=> e.dir))
Listed(v, c, n, p) == {q \in PlacesInUse(v, c) : Seen(EntryAt(v, c, q), q[1], n, p)}
PickedIn(v, c, k, p) == Picked(v, c, k, Len(EntriesAt(v, c, k)), p)

\* What is in a place in use.
LEMMA PlaceFacts ==
  ASSUME NEW v, SoundVolume(v), NEW c \in Clusters(v), NEW q \in PlacesInUse(v, c)
  PROVE  /\ EntryAt(v, c, q).dir \in BOOLEAN /\ InUse(EntryAt(v, c, q))
         /\ q \in Places(v, c) /\ q[1] \in 0..(v.bs.sectors_per_cluster - 1)
<1>1. q \in Places(v, c) /\ InUse(EntryAt(v, c, q))
  BY DEF PlacesInUse
<1>2. /\ q[1] \in 0..(v.bs.sectors_per_cluster - 1) /\ q[2] \in DOMAIN EntriesAt(v, c, q[1])
      /\ EntryAt(v, c, q) = EntriesAt(v, c, q[1])[q[2]]
  BY <1>1, PairOf
<1> QED  BY <1>1, <1>2, SectorEntries

LEMMA ListedEnds ==
  ASSUME NEW v, SoundVolume(v), NEW c \in Clusters(v), NEW n, n = v.bs.sectors_per_cluster
  PROVE  /\ Listed(v, c, 0, "DIR") = {}
         /\ Listed(v, c, n, "DIR") = Listed(v, c, 0, "FILE")
         /\ Listed(v, c, n, "FILE") = PlacesInUse(v, c)
<1>1. n \in Nat /\ \A k \in 0..(n - 1) : ~(k < 0) /\ k < n
  BY VolumeFacts
<1>2. ASSUME NEW q \in PlacesInUse(v, c)
      PROVE  /\ ~Seen(EntryAt(v, c, q), q[1], 0, "DIR")
             /\ Seen(EntryAt(v, c, q), q[1], n, "DIR") <=> Seen(EntryAt(v, c, q), q[1], 0, "FILE")
             /\ Seen(EntryAt(v, c, q), q[1], n, "FILE")
  <2>1. EntryAt(v, c, q).dir \in BOOLEAN /\ q[1] \in 0..(n - 1)
    BY PlaceFacts
  <2> QED  BY <1>1, <2>1 DEF Seen
<1> QED  BY <1>2 DEF Listed

LEMMA ListedMore ==
  ASSUME NEW v, SoundVolume(v), NEW c \in Clusters(v), NEW p \in {"DIR", "FILE"},
         NEW n \in 0..(v.bs.sectors_per_cluster - 1), NEW m \in Nat, m = n + 1
  PROVE  /\ Listed(v, c, m, p) = Listed(v, c, n, p) \cup PickedIn(v, c, n, p)
         /\ Listed(v, c, n, p) \cap PickedIn(v, c, n, p) = {}
<1>1. v.bs.sectors_per_cluster \in Nat
  BY VolumeFacts
<1>2. \A k \in 0..(v.bs.sectors_per_cluster - 1) : k < m <=> k < n \/ k = n
  BY <1>1
<1>3. \A q : q \in PickedIn(v, c, n, p) <=>
        q \in PlacesInUse(v, c) /\ q[1] = n /\ (p = "DIR" <=> EntryAt(v, c, q).dir)
  <2>1. ASSUME NEW q \in Places(v, c), q[1] = n
        PROVE  q[2] \in 1..Len(EntriesAt(v, c, n))
    BY <2>1, PairOf, SectorEntries
  <2> QED  BY <2>1 DEF PickedIn, Picked, IsPicked, PlacesInUse
<1>4. ASSUME NEW q \in PlacesInUse(v, c)
      PROVE  /\ Seen(EntryAt(v, c, q), q[1], m, p) <=>
                  \/ Seen(EntryAt(v, c, q), q[1], n, p)
                  \/ q[1] = n /\ (p = "DIR" <=> EntryAt(v, c, q).dir)
             /\ ~(Seen(EntryAt(v, c, q), q[1], n, p) /\ q[1] = n /\ (p = "DIR" <=> EntryAt(v, c, q).dir))
  <2>1. EntryAt(v, c, q).dir \in BOOLEAN /\ q[1] \in 0..(v.bs.sectors_per_cluster - 1)
    BY PlaceFacts
  <2>2. q[1] < m <=> q[1] < n \/ q[1] = n
    BY <1>2, <2>1
  <2>3. q[1] = n => ~(q[1] < n)
    OBVIOUS
  <2> QED  BY <2>1, <2>2, <2>3 DEF Seen
<1> QED  BY <1>3, <1>4 DEF Listed

LsInv ==
  /\ pc = "ls" =>
       /\ command = "ls"
       /\ Lists(shown, disk, current_directory_cluster,
                Listed(disk, current_directory_cluster, i, pass))
  /\ pc = "prompt" /\ command = "ls" =>
       Lists(shown, disk, current_directory_cluster, PlacesInUse(disk, current_directory_cluster))
  /\ pc \in {"cat", "file"} => command = "cat"
  /\ pc = "cd" => command = "cd"

\* The steps of the other commands do not end in a listing.
LEMMA NoListing ==
  ASSUME LsInv, pc' \in {"prompt", "cat", "file", "cd"},
         pc' = "prompt" => command' # "ls",
         pc' \in {"cat", "file"} => command' = "cat", pc' = "cd" => command' = "cd"
  PROVE  LsInv'
  BY DEF LsInv

LEMMA LsSectorKeepsLs ==
  ASSUME VolumesSound, WalkInv, LsInv, LsSector
  PROVE  LsInv'
<1> DEFINE c == current_directory_cluster
<1>1. /\ SoundVolume(disk) /\ c \in Clusters(disk) /\ i \in 0..(sectors_per_cluster - 1)
      /\ sectors_per_cluster = disk.bs.sectors_per_cluster /\ pass \in {"DIR", "FILE"}
      /\ sectors_per_cluster \in Nat
  BY DiskFacts DEF WalkInv, LsSector, sectors_per_cluster, bs
<1>2. /\ shown' = shown \o LinesOf(EntriesAt(disk, c, i))
      /\ i' = i + 1 /\ pc' = "ls" /\ command' = command
      /\ UNCHANGED <<disk, current_directory_cluster, pass>>
  BY <1>1, SearchedSectors DEF LsSector, WalkInv, dirVars, callVars
<1>3. command = "ls" /\ Lists(shown, disk, c, Listed(disk, c, i, pass))
  BY DEF LsInv, LsSector
<1>4. Lists(LinesOf(EntriesAt(disk, c, i)), disk, c, PickedIn(disk, c, i, pass))
  BY <1>1, SectorLines DEF PickedIn
<1>5. /\ Listed(disk, c, i + 1, pass) = Listed(disk, c, i, pass) \cup PickedIn(disk, c, i, pass)
      /\ Listed(disk, c, i, pass) \cap PickedIn(disk, c, i, pass) = {}
  <2>1. i + 1 \in Nat
    BY <1>1
  <2> QED  BY <1>1, <2>1, ListedMore
<1>6. Lists(shown', disk, c, Listed(disk, c, i + 1, pass))
  BY <1>2, <1>3, <1>4, <1>5, ListsBoth
<1>7. Lists(shown', disk', current_directory_cluster', Listed(disk', current_directory_cluster', i', pass'))
  BY <1>2, <1>6
<1> QED  BY <1>2, <1>3, <1>7 DEF LsInv

LEMMA LsEndsKeepLs ==
  ASSUME VolumesSound, WalkInv, LsInv, Ls \/ LsNextPass \/ LsReturn
  PROVE  LsInv'
<1> DEFINE c == current_directory_cluster
<1>1. /\ SoundVolume(disk) /\ c \in Clusters(disk)
      /\ sectors_per_cluster = disk.bs.sectors_per_cluster
  BY DiskFacts DEF WalkInv, sectors_per_cluster, bs
<1>2. /\ Listed(disk, c, 0, "DIR") = {}
      /\ Listed(disk, c, sectors_per_cluster, "DIR") = Listed(disk, c, 0, "FILE")
      /\ Listed(disk, c, sectors_per_cluster, "FILE") = PlacesInUse(disk, c)
  BY <1>1, ListedEnds
<1>3. disk' = disk /\ current_directory_cluster' = c
  BY DEF Ls, LsNextPass, LsReturn, dirVars
<1>4. CASE Ls
  <2>1. /\ pc' = "ls" /\ command' = "ls" /\ i' = 0 /\ pass' = "DIR" /\ shown' = << >>
    BY <1>4 DEF Ls
  <2>2. Listed(disk', current_directory_cluster', i', pass') = {}
    BY <1>2, <1>3, <2>1
  <2>3. Lists(shown', disk', current_directory_cluster', {})
    BY <2>1, ListsNothing
  <2> QED  BY <2>1, <2>2, <2>3 DEF LsInv
<1>5. CASE LsNextPass
  <2>1. /\ pc = "ls" /\ i = sectors_per_cluster /\ pass = "DIR"
        /\ pc' = pc /\ command' = command /\ i' = 0 /\ pass' = "FILE" /\ shown' = shown
    BY <1>5 DEF LsNextPass, callVars
  <2>2. Listed(disk', current_directory_cluster', i', pass') = Listed(disk, c, i, pass)
    BY <1>2, <1>3, <2>1
  <2>3. command = "ls" /\ Lists(shown, disk, c, Listed(disk, c, i, pass))
    BY <2>1 DEF LsInv
  <2>4. Lists(shown', disk', current_directory_cluster', Listed(disk', current_directory_cluster', i', pass'))
    BY <1>3, <2>1, <2>2, <2>3
  <2> QED  BY <2>1, <2>3, <2>4 DEF LsInv
<1>6. CASE LsReturn
  <2>1. /\ pc = "ls" /\ i = sectors_per_cluster /\ pass = "FILE"
        /\ pc' = "prompt" /\ command' = command /\ shown' = shown
    BY <1>6 DEF LsReturn, callVars
  <2>2. command = "ls" /\ Lists(shown, disk, c, Listed(disk, c, i, pass))
    BY <2>1 DEF LsInv
  <2>3. Lists(shown, disk, c, PlacesInUse(disk, c))
    BY <1>2, <2>1, <2>2
  <2>4. Lists(shown', disk', current_directory_cluster', PlacesInUse(disk', current_directory_cluster'))
    BY <1>3, <2>1, <2>3
  <2> QED  BY <2>1, <2>4 DEF LsInv
<1> QED  BY <1>4, <1>5, <1>6

LEMMA NextLs ==
  ASSUME VolumesSound, WalkInv, LsInv, [Next]_vars
  PROVE  LsInv'
<1>1. CASE Ls \/ LsNextPass \/ LsReturn
  BY <1>1, LsEndsKeepLs
<1>2. CASE LsSector
  BY <1>2, LsSectorKeepsLs
<1>3. CASE Cat \/ Cd
  <2>1. PICK verb \in {"cat", "cd"} : \E text : Search(verb, text)
    BY <1>3 DEF Cat, Cd
  <2>2. pc' = verb /\ command' = verb
    BY <2>1 DEF Search
  <2> QED  BY <2>2, NoListing
<1>4. CASE CdRoot
  <2>1. pc' = "prompt" /\ command' = "cd"
    BY <1>4 DEF CdRoot
  <2> QED  BY <2>1, NoListing
<1>5. CASE CatSector \/ CatFile \/ CatReturn
  <2>1. pc \in {"cat", "file"} /\ command' = command /\ pc' \in {"prompt", "cat", "file"}
    BY <1>5 DEF CatSector, CatFile, CatReturn, callVars
  <2>2. command' = "cat"
    BY <2>1 DEF LsInv
  <2> QED  BY <2>1, <2>2, NoListing
<1>6. CASE CdSector \/ CdReturn
  <2>1. pc = "cd" /\ command' = command /\ pc' \in {"prompt", "cd"}
    BY <1>6 DEF CdSector, CdReturn, callVars
  <2>2. command' = "cd"
    BY <2>1 DEF LsInv
  <2> QED  BY <2>1, <2>2, NoListing
<1>7. CASE UNCHANGED vars
  BY <1>7 DEF vars, LsInv
<1>8. Next => \/ Ls \/ LsNextPass \/ LsReturn \/ LsSector \/ Cat \/ Cd \/ CdRoot
              \/ CatSector \/ CatFile \/ CatReturn \/ CdSector \/ CdReturn
  BY DEF Next, Turn, Return
<1> QED  BY <1>1, <1>2, <1>3, <1>4, <1>5, <1>6, <1>7, <1>8

LEMMA LsInvariant ==
  ASSUME VolumesSound
  PROVE  Spec => []LsInv
<1>1. Init => LsInv
  BY DEF Init, LsInv
<1>2. WalkInv /\ LsInv /\ [Next]_vars => LsInv'
  BY NextLs
<1> QED  BY <1>1, <1>2, WalkInvariant, PTL DEF Spec

\* What a listing says line by line.
LEMMA ListingFacts ==
  ASSUME LsInv, pc = "prompt", command = "ls"
  PROVE  /\ DOMAIN shown = 1..Len(shown)
         /\ \A k \in DOMAIN shown :
              \E e \in InDirectory(disk, current_directory_cluster) : shown[k] = LineOf(e)
         /\ \A e \in InDirectory(disk, current_directory_cluster) :
              \E k \in DOMAIN shown : shown[k] = LineOf(e)
         /\ Len(shown) = Cardinality(PlacesInUse(disk, current_directory_cluster))
<1> DEFINE c == current_directory_cluster
<1>1. PICK A : A = LinesAt(disk, c, PlacesInUse(disk, c))
  OBVIOUS
<1>2. /\ shown \in Seq(A) /\ Len(shown) = Cardinality(PlacesInUse(disk, c))
      /\ \A p \in PlacesInUse(disk, c) : \E k \in 1..Len(shown) : shown[k] = LineOf(EntryAt(disk, c, p))
  BY <1>1 DEF LsInv, Lists
<1>3. DOMAIN shown = 1..Len(shown) /\ \A k \in 1..Len(shown) : shown[k] \in A
  BY <1>2, LenProperties, ElementOfSeq
<1>4. \A x \in A : \E e \in InDirectory(disk, c) : x = LineOf(e)
  BY <1>1 DEF LinesAt, InDirectory
<1>5. \A e \in InDirectory(disk, c) : \E k \in DOMAIN shown : shown[k] = LineOf(e)
  BY <1>2, <1>3 DEF InDirectory
<1> QED  BY <1>2, <1>3, <1>4, <1>5

\* ls goes over the directory's sectors twice (fat.c:157-195): back at the
\* prompt it has shown a line for every entry in use of the first cluster,
\* whatever the entry is for, and no other line.
THEOREM LsStaysComplete ==
  ASSUME VolumesSound
  PROVE  Spec => []LsShowsDirectory
<1>1. LsInv => LsShowsDirectory
  <2>1. SUFFICES ASSUME LsInv, pc = "prompt", command = "ls"
                 PROVE  /\ Range(shown) = {LineOf(e) : e \in InDirectory(disk, current_directory_cluster)}
                        /\ Len(shown) = Cardinality(PlacesInUse(disk, current_directory_cluster))
    BY DEF LsShowsDirectory
  <2> QED  BY <2>1, ListingFacts DEF Range
<1> QED  BY <1>1, LsInvariant, PTL

\* A sound name has no \0 in it, nor what ls makes of it.
LEMMA SoundIsString ==
  ASSUME NEW n, SoundName(n)
  PROVE  AsString(format_entry_name(n)) = format_entry_name(n)
<1> DEFINE f == SubSeq(n, 1, BaseLen)
           g == SubSeq(n, BaseLen + 1, BaseLen + ExtLen)
<1>1. PICK Z : Z = LowerOf(Range(n)) \ {Nul}
  OBVIOUS
<1>2. \A h : SoundField(h) /\ h \in Seq(Range(n)) => Shown(h) \in Seq(Z)
  <2>1. ASSUME NEW h \in Seq(Range(n)), SoundField(h)
        PROVE  Shown(h) \in Seq(Z)
    <3>1. /\ Shown(h) \in Seq(LowerOf(Range(n)))
          /\ \A k \in 1..Len(Shown(h)) : Shown(h)[k] # Nul
      BY <2>1, ShownField
    <3>2. \A k \in 1..Len(Shown(h)) : Shown(h)[k] \in Z
      BY <1>1, <3>1, ElementOfSeq
    <3>3. Len(Shown(h)) \in Nat /\ Shown(h) = [k \in 1..Len(Shown(h)) |-> Shown(h)[k]]
      BY <3>1, LenProperties
    <3>4. Shown(h) \in [1..Len(Shown(h)) -> Z]
      BY <3>2, <3>3
    <3> QED  BY <3>3, <3>4, IsASeq
  <2> QED  BY <2>1
<1>3. f \in Seq(Range(n)) /\ g \in Seq(Range(n)) /\ SoundField(f) /\ SoundField(g)
  <2>1. /\ n \in Seq(Range(n)) /\ Len(n) = BaseLen + ExtLen
        /\ BaseLen \in Nat \ {0} /\ ExtLen \in Nat \ {0}
    BY FileNamesAssumption DEF SoundName
  <2>2. ASSUME NEW a \in 1..Len(n), NEW b \in 1..Len(n)
        PROVE  SubSeq(n, a, b) \in Seq(Range(n))
    <3>1. \A k \in a..b : n[k] \in Range(n)
      BY <2>1, ElementOfSeq, LenProperties
    <3> QED  BY <3>1, SubSeqProperties
  <2>3. 1 \in 1..Len(n) /\ BaseLen \in 1..Len(n) /\ BaseLen + 1 \in 1..Len(n) /\ BaseLen + ExtLen \in 1..Len(n)
    BY <2>1
  <2> QED  BY <2>2, <2>3 DEF SoundName
<1> HIDE DEF f, g
<1>4. Shown(f) \in Seq(Z) /\ Shown(g) \in Seq(Z)
  BY <1>2, <1>3
<1>5. <<Dot>> \in Seq(Z) /\ << >> \in Seq(Z)
  <2>1. Dot \in Z
    BY <1>1 DEF LowerOf, Dot, Nul
  <2> QED  BY <2>1, EmptySeq
<1>6. PICK d \in Seq(Z) : format_entry_name(n) = Shown(f) \o d \o Shown(g)
  BY <1>5 DEF format_entry_name, f, g
<1>7. PICK s \in Seq(Z) : s = format_entry_name(n)
  BY <1>4, <1>6, ConcatProperties
<1>8. /\ Before(s, Nul) \in Seq(Z) /\ Len(Before(s, Nul)) \in 0..Len(s)
      /\ \A k \in 1..Len(Before(s, Nul)) : Before(s, Nul)[k] = s[k]
      /\ Len(Before(s, Nul)) < Len(s) => s[Len(Before(s, Nul)) + 1] = Nul
  BY BeforeProperties
<1>9. Len(s) \in Nat /\ \A k \in 1..Len(s) : s[k] # Nul
  BY <1>1, LenProperties, ElementOfSeq
<1>10. Len(Before(s, Nul)) = Len(s)
  BY <1>8, <1>9
<1>11. Before(s, Nul) = s
  BY <1>8, <1>9, <1>10, SameSequence
<1> QED  BY <1>7, <1>11 DEF AsString

\* What ls shows can be typed (fat.c:103-148): format_filename_83 makes the
\* name on the disk of the line of every entry with a sound name, on any
\* volume, also where "." and ".." and long names stand beside it.
THEOREM ShownNamesStayTypable ==
  ASSUME VolumesSound
  PROVE  Spec => []ShownNamesWork
<1>1. WalkInv /\ LsInv => ShownNamesWork
  <2>1. SUFFICES ASSUME WalkInv, LsInv, pc = "prompt", command = "ls",
                        NEW e \in InDirectory(disk, current_directory_cluster), SoundName(e.name)
                 PROVE  \E k \in DOMAIN shown :
                          /\ format_filename_83(shown[k].text) = e.name
                          /\ shown[k].kind = "DIR" <=> e.dir
    BY DEF ShownNamesWork
  <2>2. PICK k \in DOMAIN shown : shown[k] = LineOf(e)
    BY <2>1, ListingFacts
  <2>3. SoundVolume(disk) /\ current_directory_cluster \in Clusters(disk)
    BY <2>1, DiskFacts DEF WalkInv
  <2>4. format_filename_83(AsString(format_entry_name(e.name))) = e.name
    BY <2>1, NamesReturn, SoundIsString
  <2>5. e.dir \in BOOLEAN
    <3>1. PICK p \in PlacesInUse(disk, current_directory_cluster) :
            e = EntryAt(disk, current_directory_cluster, p)
      BY DEF InDirectory
    <3> QED  BY <2>3, <3>1, PlaceFacts
  <2>6. /\ shown[k].text = AsString(format_entry_name(e.name))
        /\ shown[k].kind = IF e.dir THEN "DIR" ELSE "FILE"
    BY <2>2 DEF LineOf
  <2> QED  BY <2>4, <2>5, <2>6
<1> QED  BY <1>1, WalkInvariant, LsInvariant, PTL

=============================================================================

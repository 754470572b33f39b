--------------------------- MODULE HeapBootProofs ---------------------------
(***************************************************************************)
(* Proofs about Heap for requests of any size, as long as nothing has been *)
(* freed (MaxFrees = 0): the boot, up to the first free of memory_test.    *)
(* init_memory frees the pages in rising order, so malloc takes them       *)
(* downwards, and the list is always the rest of the initial one.          *)
(*                                                                         *)
(* The argument: a block owns an interval of places of the initial list,   *)
(* as many as its size needs, and intervals of different blocks are        *)
(* disjoint.  Everything a caller stores lies above the header page of its *)
(* block, and every free page lies below all header pages.                 *)
(***************************************************************************)
EXTENDS HeapProofs, FiniteSetTheorems, WellFoundedInduction

\* Nothing is freed, and the memory map lists the pages in rising order.
BeforeFrees == MaxFrees = 0 /\ PagesRise

-----------------------------------------------------------------------------
(***************************************************************************)
(* Induction without an induction rule: a set of numbers, or of finite     *)
(* sets, that is not empty has a least member.                             *)
(***************************************************************************)

LEMMA LeastNumber ==
  ASSUME NEW T, T \subseteq Nat, T # {}
  PROVE  \E n \in T : \A m \in T : n <= m
<1>1. \E n \in T : \A m \in T : <<m, n>> \notin OpToRel(<, Nat)
  BY NatLessThanWellFounded, WFMin
<1>2. \A m, n \in Nat : m < n => <<m, n>> \in OpToRel(<, Nat)
  BY DEF OpToRel
<1>3. \E n \in T : \A m \in T : ~(m < n)
  BY <1>1, <1>2
<1> QED  BY <1>3

LEMMA LeastSet ==
  ASSUME NEW S, NEW T, T \subseteq FiniteSubsetsOf(S), T # {}
  PROVE  \E s \in T : \A t \in T : ~(t \subseteq s /\ t # s)
<1>1. PICK s \in T : \A t \in T : <<t, s>> \notin StrictSubsetOrdering(S)
  BY FS_StrictSubsetOrderingWellFounded, WFMin
<1> QED  BY <1>1 DEF StrictSubsetOrdering, FiniteSubsetsOf

-----------------------------------------------------------------------------
(***************************************************************************)
(* The pages counted in the headers of a set of blocks, the sum of         *)
(* PagesAccounted, does not depend on the order of adding up.              *)
(***************************************************************************)

PagesOfBlocks(S) == MapThenSumSet(LAMBDA b : NumPages(b.size), S)

Chosen(s) == CHOOSE x \in s : TRUE

\* g adds up every subset of T.
Adds(g, T) ==
  g = [s \in SUBSET T |->
         IF s = {} THEN 0
         ELSE NumPages(Chosen(s).size) + g[s \ {Chosen(s)}]]

LEMMA ChosenFacts ==
  ASSUME NEW s, s # {}
  PROVE  /\ Chosen(s) \in s
         /\ s \ {Chosen(s)} \subseteq s
         /\ s \ {Chosen(s)} # s
  BY DEF Chosen

LEMMA AddsAt ==
  ASSUME NEW T, NEW g, Adds(g, T), NEW s \in SUBSET T
  PROVE  g[s] = IF s = {} THEN 0
                ELSE NumPages(Chosen(s).size) + g[s \ {Chosen(s)}]
  BY DEF Adds

LEMMA AddsUnique ==
  ASSUME NEW T, IsFiniteSet(T), NEW g, NEW h, Adds(g, T), Adds(h, T)
  PROVE  g = h
<1> DEFINE Bad == {s \in SUBSET T : g[s] # h[s]}
<1>1. ASSUME Bad # {}
      PROVE  FALSE
  <2>1. Bad \subseteq FiniteSubsetsOf(T)
    BY FS_Subset DEF FiniteSubsetsOf
  <2> HIDE DEF Bad
  <2>2. PICK s \in Bad : \A t \in Bad : ~(t \subseteq s /\ t # s)
    BY <1>1, <2>1, LeastSet
  <2>3. s \in SUBSET T /\ g[s] # h[s]
    BY DEF Bad
  <2>4. s # {}
    <3>1. {} \in SUBSET T
      OBVIOUS
    <3>2. g[{}] = 0 /\ h[{}] = 0
      BY <3>1, AddsAt
    <3> QED  BY <2>3, <3>2
  <2>5. s \ {Chosen(s)} \in SUBSET T /\ s \ {Chosen(s)} \notin Bad
    BY <2>2, <2>3, <2>4, ChosenFacts
  <2>6. g[s \ {Chosen(s)}] = h[s \ {Chosen(s)}]
    BY <2>5 DEF Bad
  <2> QED  BY <2>3, <2>4, <2>6, AddsAt
<1>2. \A s \in SUBSET T : g[s] = h[s]
  BY <1>1
<1>3. g = [s \in SUBSET T |-> g[s]] /\ h = [s \in SUBSET T |-> h[s]]
  BY DEF Adds
<1> QED  BY <1>2, <1>3

LEMMA AddsRestricts ==
  ASSUME NEW T, NEW g, Adds(g, T), NEW U \in SUBSET T
  PROVE  Adds([s \in SUBSET U |-> g[s]], U)
<1> DEFINE h == [s \in SUBSET U |-> g[s]]
<1>1. ASSUME NEW s \in SUBSET U
      PROVE  h[s] = IF s = {} THEN 0
                    ELSE NumPages(Chosen(s).size) + h[s \ {Chosen(s)}]
  <2>1. s \in SUBSET T /\ s \ {Chosen(s)} \in SUBSET U
    OBVIOUS
  <2> QED  BY <2>1, AddsAt
<1>2. h = [s \in SUBSET U |-> h[s]]
  OBVIOUS
<1> QED  BY <1>1, <1>2 DEF Adds

\* What g adds up for its own top set.
Adder(T) == CHOOSE g : Adds(g, T)

LEMMA AdderAtTop ==
  ASSUME NEW T, Adds(Adder(T), T)
  PROVE  Adder(T)[T] = IF T = {} THEN 0
                       ELSE NumPages(Chosen(T).size) + Adder(T)[T \ {Chosen(T)}]
<1>1. T \in SUBSET T
  OBVIOUS
<1> QED  BY <1>1, AddsAt

LEMMA AdderExists ==
  ASSUME NEW T, IsFiniteSet(T)
  PROVE  Adds(Adder(T), T)
<1> DEFINE Bad == {s \in SUBSET T : ~ \E g : Adds(g, s)}
<1>1. ASSUME Bad # {}
      PROVE  FALSE
  <2>1. Bad \subseteq FiniteSubsetsOf(T)
    BY FS_Subset DEF FiniteSubsetsOf
  <2> HIDE DEF Bad
  <2>2. PICK U \in Bad : \A t \in Bad : ~(t \subseteq U /\ t # U)
    BY <1>1, <2>1, LeastSet
  <2>3. U \in SUBSET T /\ IsFiniteSet(U) /\ ~ \E g : Adds(g, U)
    BY FS_Subset DEF Bad
  <2>4. ASSUME NEW s \in SUBSET U, s # U
        PROVE  IsFiniteSet(s) /\ Adds(Adder(s), s)
    <3>1. s \in SUBSET T /\ s \notin Bad
      BY <2>2, <2>3, <2>4
    <3>2. \E g : Adds(g, s)
      BY <3>1 DEF Bad
    <3> QED  BY <2>3, <3>2, FS_Subset DEF Adder
  <2> DEFINE total(s) == IF s = {} THEN 0
                         ELSE NumPages(Chosen(s).size)
                                + Adder(s \ {Chosen(s)})[s \ {Chosen(s)}]
             g == [s \in SUBSET U |-> total(s)]
  <2>5. ASSUME NEW s \in SUBSET U, s # {}
        PROVE  g[s \ {Chosen(s)}] = Adder(s \ {Chosen(s)})[s \ {Chosen(s)}]
    <3> DEFINE u == s \ {Chosen(s)}
    <3>1. u \in SUBSET U /\ u # U
      BY <2>5, ChosenFacts
    <3>2. IsFiniteSet(u) /\ Adds(Adder(u), u)
      BY <3>1, <2>4
    <3>3. g[u] = total(u)
      BY <3>1
    <3>4. Adder(u)[u] = IF u = {} THEN 0
                        ELSE NumPages(Chosen(u).size) + Adder(u)[u \ {Chosen(u)}]
      <4> HIDE DEF u, total, g
      <4> QED  BY <3>2, AdderAtTop
    <3>5. ASSUME u # {}
          PROVE  Adder(u)[u \ {Chosen(u)}]
                   = Adder(u \ {Chosen(u)})[u \ {Chosen(u)}]
      <4> DEFINE v == u \ {Chosen(u)}
                 h == [t \in SUBSET v |-> Adder(u)[t]]
      <4>1. v \in SUBSET u /\ v \in SUBSET U /\ v # U
        BY <3>1
      <4>2. IsFiniteSet(v) /\ Adds(Adder(v), v)
        BY <4>1, <2>4
      <4>3. Adds(h, v)
        <5> HIDE DEF u, v, total, g
        <5> QED  BY <3>2, <4>1, AddsRestricts
      <4>4. h[v] = Adder(u)[v]
        OBVIOUS
      <4> HIDE DEF h, v
      <4>5. h = Adder(v)
        BY <4>2, <4>3, AddsUnique
      <4>6. Adder(u)[v] = Adder(v)[v]
        BY <4>4, <4>5
      <4> QED  BY <4>6 DEF v
    <3> QED  BY <3>3, <3>4, <3>5
  <2>6. g = [s \in SUBSET U |->
               IF s = {} THEN 0
               ELSE NumPages(Chosen(s).size) + g[s \ {Chosen(s)}]]
    BY <2>5
  <2>7. Adds(g, U)
    BY <2>6 DEF Adds
  <2> QED  BY <2>3, <2>7
<1>2. \E g : Adds(g, T)
  BY <1>1
<1> QED  BY <1>2 DEF Adder

LEMMA PagesOfBlocksAdds ==
  ASSUME NEW S
  PROVE  PagesOfBlocks(S) = Adder(S)[S]
  BY DEF PagesOfBlocks, MapThenSumSet, MapThenFoldSet, Adder, Adds, Chosen

LEMMA PagesOfNone ==
  PagesOfBlocks({}) = 0
<1>1. IsFiniteSet({})
  BY FS_EmptySet
<1>2. Adder({})[{}] = 0
  BY <1>1, AdderExists, AdderAtTop
<1> QED  BY <1>2, PagesOfBlocksAdds

LEMMA PagesOfChosen ==
  ASSUME NEW S, IsFiniteSet(S), S # {}
  PROVE  PagesOfBlocks(S)
           = NumPages(Chosen(S).size) + PagesOfBlocks(S \ {Chosen(S)})
<1> DEFINE U == S \ {Chosen(S)}
<1>1. U \in SUBSET S /\ IsFiniteSet(U)
  BY FS_Subset
<1>2. Adds(Adder(S), S) /\ Adds(Adder(U), U)
  BY <1>1, AdderExists
<1>3. PagesOfBlocks(S) = NumPages(Chosen(S).size) + Adder(S)[U]
  BY <1>2, AdderAtTop, PagesOfBlocksAdds
<1> DEFINE h == [s \in SUBSET U |-> Adder(S)[s]]
<1>4. h[U] = Adder(S)[U]
  OBVIOUS
<1>5. Adds(h, U)
  <2> HIDE DEF U
  <2> QED  BY <1>1, <1>2, AddsRestricts
<1> HIDE DEF h, U
<1>6. h = Adder(U)
  BY <1>1, <1>2, <1>5, AddsUnique
<1>7. PagesOfBlocks(U) = Adder(S)[U]
  BY <1>4, <1>6, PagesOfBlocksAdds
<1> QED  BY <1>3, <1>7 DEF U

LEMMA PagesOfOneMore ==
  ASSUME NEW S, IsFiniteSet(S), \A b \in S : NumPages(b.size) \in Nat,
         NEW x \in S
  PROVE  /\ PagesOfBlocks(S) \in Nat
         /\ PagesOfBlocks(S) = NumPages(x.size) + PagesOfBlocks(S \ {x})
<1> DEFINE Good(s) ==
             /\ PagesOfBlocks(s) \in Nat
             /\ \A y \in s :
                  PagesOfBlocks(s) = NumPages(y.size) + PagesOfBlocks(s \ {y})
           Bad == {s \in SUBSET S : ~Good(s)}
<1>1. ASSUME Bad # {}
      PROVE  FALSE
  <2>1. Bad \subseteq FiniteSubsetsOf(S)
    BY FS_Subset DEF FiniteSubsetsOf
  <2> HIDE DEF Bad
  <2>2. PICK U \in Bad : \A t \in Bad : ~(t \subseteq U /\ t # U)
    BY <1>1, <2>1, LeastSet
  <2> HIDE DEF Good
  <2>3. U \in SUBSET S /\ IsFiniteSet(U) /\ ~Good(U)
    BY FS_Subset DEF Bad
  <2>4. \A t \in SUBSET U : t # U => Good(t)
    BY <2>2, <2>3 DEF Bad
  <2>5. U # {}
    BY <2>3, PagesOfNone DEF Good
  <2> DEFINE c == Chosen(U)
  <2>6. c \in U /\ PagesOfBlocks(U) = NumPages(c.size) + PagesOfBlocks(U \ {c})
    BY <2>3, <2>5, PagesOfChosen, ChosenFacts
  <2> HIDE DEF c
  <2>7. NumPages(c.size) \in Nat /\ PagesOfBlocks(U \ {c}) \in Nat
    BY <2>3, <2>4, <2>6 DEF Good
  <2>8. ASSUME NEW y \in U, y # c
        PROVE  PagesOfBlocks(U) = NumPages(y.size) + PagesOfBlocks(U \ {y})
    <3>1. PagesOfBlocks(U \ {c})
            = NumPages(y.size) + PagesOfBlocks((U \ {c}) \ {y})
      BY <2>4, <2>6, <2>8 DEF Good
    <3>2. PagesOfBlocks(U \ {y})
            = NumPages(c.size) + PagesOfBlocks((U \ {y}) \ {c})
      BY <2>4, <2>6, <2>8 DEF Good
    <3>3. PagesOfBlocks((U \ {c}) \ {y}) = PagesOfBlocks((U \ {y}) \ {c})
      <4>1. (U \ {c}) \ {y} = (U \ {y}) \ {c}
        OBVIOUS
      <4> QED  BY <4>1
    <3>4. PagesOfBlocks((U \ {y}) \ {c}) \in Nat /\ NumPages(y.size) \in Nat
      BY <2>3, <2>4, <2>8 DEF Good
    <3> QED  BY <2>6, <2>7, <3>1, <3>2, <3>3, <3>4
  <2>9. PagesOfBlocks(U) \in Nat
    BY <2>6, <2>7
  <2>10. \A y \in U :
           PagesOfBlocks(U) = NumPages(y.size) + PagesOfBlocks(U \ {y})
    BY <2>6, <2>8
  <2> QED  BY <2>3, <2>9, <2>10 DEF Good
<1>2. Good(S)
  BY <1>1
<1> QED  BY <1>2

-----------------------------------------------------------------------------
\* Constants: pages lie a page apart, the ones that are taken first highest.

Count == Len(BootPages)

LEMMA BootConstants ==
  ASSUME BeforeFrees
  PROVE  /\ PageWords \in Nat \ {0} /\ MemTop \in Nat
         /\ Count \in Nat /\ DOMAIN BootPages = 1..Count
         /\ \A i \in 1..Count : /\ BootPages[i] \in Nat \ {0}
                                /\ BootPages[i] + PageWords <= MemTop
         /\ \A i, j \in 1..Count :
              i < j => BootPages[i] + PageWords <= BootPages[j]
<1>1. /\ BootPages \in Seq(Nat \ {NULL})
      /\ Count \in Nat /\ DOMAIN BootPages = 1..Count
  BY HeapAssumption, LenProperties DEF Count
<1>2. \A i \in 1..Count : BootPages[i] \in Nat \ {0}
  BY <1>1, ElementOfSeq DEF NULL
<1>3. ASSUME NEW i \in 1..Count, NEW j \in 1..Count, i < j
      PROVE  BootPages[i] + PageWords <= BootPages[j]
  <2>1. BootPages[i] < BootPages[j]
    BY <1>1, <1>3 DEF BeforeFrees, PagesRise
  <2>2. \/ BootPages[i] + PageWords <= BootPages[j]
        \/ BootPages[j] + PageWords <= BootPages[i]
    BY <1>1, <1>3, HeapAssumption
  <2> QED  BY <1>2, <2>1, <2>2, HeapAssumption
<1> QED  BY <1>1, <1>2, <1>3, HeapAssumption

\* n rounds of the loop of init_memory further on, n pages higher at least.
LEMMA PagesSpread ==
  ASSUME BeforeFrees
  PROVE  \A n \in Nat, i \in 1..Count :
           i + n <= Count => BootPages[i] + n * PageWords <= BootPages[i + n]
<1> DEFINE Spread(n) ==
             \A i \in 1..Count :
               i + n <= Count => BootPages[i] + n * PageWords <= BootPages[i + n]
           Bad == {n \in Nat : ~Spread(n)}
<1>1. ASSUME Bad # {}
      PROVE  FALSE
  <2>1. Bad \subseteq Nat
    OBVIOUS
  <2> HIDE DEF Bad
  <2>2. PICK n \in Bad : \A m \in Bad : n <= m
    BY <1>1, <2>1, LeastNumber
  <2> HIDE DEF Spread
  <2>3. n \in Nat /\ ~Spread(n)
    BY DEF Bad
  <2>4. n # 0
    BY <2>3, BootConstants DEF Spread
  <2>5. n - 1 \in Nat /\ n - 1 \notin Bad
    BY <2>2, <2>3, <2>4, <2>1
  <2>6. Spread(n - 1)
    BY <2>5 DEF Bad
  <2>7. ASSUME NEW i \in 1..Count, i + n <= Count
        PROVE  BootPages[i] + n * PageWords <= BootPages[i + n]
    <3>1. i + (n - 1) \in 1..Count /\ i + n \in 1..Count
          /\ i + (n - 1) < i + n
      BY <2>3, <2>4, <2>7, BootConstants
    <3>2. BootPages[i] + (n - 1) * PageWords <= BootPages[i + (n - 1)]
      BY <2>6, <3>1, BootConstants DEF Spread
    <3>3. BootPages[i + (n - 1)] + PageWords <= BootPages[i + n]
      BY <3>1, BootConstants
    <3>4. n * PageWords = (n - 1) * PageWords + PageWords
          /\ (n - 1) * PageWords \in Nat
      BY <2>3, <2>5, BootConstants
    <3>5. /\ BootPages[i] \in Nat /\ BootPages[i + (n - 1)] \in Nat
          /\ BootPages[i + n] \in Nat /\ PageWords \in Nat
      BY <3>1, BootConstants
    <3> QED  BY <3>2, <3>3, <3>4, <3>5
  <2> QED  BY <2>3, <2>7 DEF Spread
<1>2. \A n \in Nat : Spread(n)
  BY <1>1
<1> QED  BY <1>2

LEMMA ListFalls ==
  ASSUME BeforeFrees
  PROVE  /\ DOMAIN InitialList = 1..Count
         /\ InitialList \in Seq(Nat) /\ Len(InitialList) = Count
         /\ \A i \in 1..Count : /\ InitialList[i] \in Nat \ {0}
                                /\ InitialList[i] \in Words
         /\ \A i, j \in 1..Count :
              i < j => /\ InitialList[j] < InitialList[i]
                       /\ InitialList[j] + (j - i) * PageWords <= InitialList[i]
<1>1. InitialList = [i \in 1..Count |-> BootPages[Count - i + 1]]
  BY BootConstants DEF InitialList, Count
<1>2. \A i \in 1..Count : /\ Count - i + 1 \in 1..Count
                          /\ InitialList[i] = BootPages[Count - i + 1]
  BY <1>1, BootConstants
<1>3. \A i \in 1..Count : /\ InitialList[i] \in Nat \ {0}
                          /\ InitialList[i] \in Words
  BY SMTT(20), <1>2, BootConstants DEF Words
<1>4. InitialList \in Seq(Nat) /\ Len(InitialList) = Count
  <2>1. InitialList \in [1..Count -> Nat]
    BY <1>1, <1>2, <1>3
  <2>2. InitialList \in Seq(Nat)
    <3>1. Count \in Nat
      BY BootConstants
    <3> QED  BY <2>1, <3>1
  <2> QED  BY <2>1, <2>2, BootConstants, LenProperties
<1>5. ASSUME NEW i \in 1..Count, NEW j \in 1..Count, i < j
      PROVE  /\ InitialList[j] < InitialList[i]
             /\ InitialList[j] + (j - i) * PageWords <= InitialList[i]
  <2> DEFINE k == Count - j + 1
  <2>1. k \in 1..Count /\ j - i \in Nat \ {0} /\ k + (j - i) = Count - i + 1
        /\ k + (j - i) <= Count
    BY SMTT(20), <1>5, BootConstants
  <2>2. InitialList[j] = BootPages[k] /\ InitialList[i] = BootPages[k + (j - i)]
    BY <1>2, <2>1
  <2> HIDE DEF k
  <2>3. BootPages[k] + (j - i) * PageWords <= BootPages[k + (j - i)]
    BY <2>1, PagesSpread
  <2>4. BootPages[k] < BootPages[k + (j - i)]
    <3>1. /\ k + (j - i) \in 1..Count /\ k < k + (j - i)
      BY <2>1, BootConstants
    <3> QED  BY <3>1, <2>1, BootConstants DEF BeforeFrees, PagesRise
  <2> QED  BY <2>2, <2>3, <2>4
<1> QED  BY <1>1, <1>3, <1>4, <1>5

-----------------------------------------------------------------------------
(***************************************************************************)
(* The inductive invariant.  Pages leave the list from the front, so the   *)
(* first Gone places of InitialList are taken.                             *)
(***************************************************************************)

Gone == Count - Len(flist)

Placed(b, i) == HeaderOf(b) = InitialList[i]

BootType ==
  /\ mem \in [Words -> Nat]
  /\ pc \in {"run", "malloc", "halt"}
  /\ cur \in Blocks
  /\ got \in Nat
  /\ frees = 0
  /\ live \subseteq Blocks /\ IsFiniteSet(live)
  /\ flist \in Seq(Nat)

RestOfList ==
  /\ Len(flist) <= Count
  /\ \A i \in DOMAIN flist : flist[i] = InitialList[Gone + i]

PlacesOfLive ==
  /\ got <= Gone
  /\ \A b \in live : \E i \in 1..Count : Placed(b, i)
  /\ \A b \in live, i \in 1..Count :
       Placed(b, i) => i + NumPages(b.size) <= Gone - got + 1
  /\ \A b, c \in live, i, j \in 1..Count :
       Placed(b, i) /\ Placed(c, j) /\ b # c
         => \/ i + NumPages(b.size) <= j
            \/ j + NumPages(c.size) <= i

PlaceOfCur ==
  /\ pc = "run" => got = 0
  /\ pc = "malloc" => /\ got \in 1..(NumPages(cur.size) - 1)
                      /\ Gone - got + 1 \in 1..Count
                      /\ Placed(cur, Gone - got + 1)

Counted == PagesOfBlocks(live) + got = Gone

BootInv ==
  BootType /\ RestOfList /\ Linked /\ PlacesOfLive /\ PlaceOfCur /\ Counted

LEMMA BlockPages ==
  ASSUME NEW b \in Blocks
  PROVE  /\ b.ptr \in Nat /\ b.size \in Sizes /\ b.size \in Nat
         /\ NumPages(b.size) \in Nat \ {0}
         /\ HeaderOf(b) \in Int /\ HeaderOf(b) + 1 = b.ptr
<1>1. b.ptr \in Nat /\ b.size \in Sizes /\ b.size \in Nat
  BY HeapAssumption DEF Blocks
<1>2. PageWords \in Nat \ {0}
  BY HeapAssumption
<1>3. b.size \div PageWords \in Nat
  BY <1>1, <1>2
<1> QED  BY <1>1, <1>3 DEF NumPages, HeaderOf

LEMMA NoBlockTyped == NoBlock \in Blocks
  BY HeapAssumption DEF NoBlock, Blocks

LEMMA InitBoot ==
  ASSUME BeforeFrees, Init
  PROVE  BootInv
<1>1. InitialList \in Seq(Nat) /\ Len(InitialList) = Count /\ Count \in Nat
      /\ DOMAIN InitialList = 1..Count
  BY ListFalls, BootConstants
<1>2. flist = InitialList /\ Gone = 0 /\ live = {} /\ got = 0
  BY <1>1 DEF Init, Gone
<1>3. mem \in [Words -> Nat]
  <2>1. \A i \in DOMAIN InitialList : LinkAfter(InitialList, i) \in Nat
    BY <1>1, ListFalls DEF LinkAfter, NULL
  <2>2. ASSUME NEW a \in Words, \E i \in DOMAIN InitialList : InitialList[i] = a
        PROVE  (CHOOSE i \in DOMAIN InitialList : InitialList[i] = a)
                 \in DOMAIN InitialList
    BY <2>2
  <2> QED  BY <2>1, <2>2 DEF Init, NULL
<1>4. BootType
  <2>1. pc = "run" /\ cur = NoBlock /\ frees = 0
    BY DEF Init
  <2>2. live \subseteq Blocks /\ IsFiniteSet(live)
    BY <1>2, FS_EmptySet
  <2> QED  BY <1>1, <1>2, <1>3, <2>1, <2>2, NoBlockTyped DEF BootType
<1>5. RestOfList
  BY <1>1, <1>2 DEF RestOfList
<1>6. Linked
  <2>1. free_pages = IF flist = << >> THEN NULL ELSE flist[1]
    <3>1. BootPages = << >> <=> Count = 0
      BY HeapAssumption, EmptySeq DEF Count
    <3>2. InitialList = << >> <=> Count = 0
      BY <1>1, EmptySeq
    <3> QED  BY <1>2, <3>1, <3>2 DEF Init
  <2>2. ASSUME NEW i \in 1..Count
        PROVE  mem[InitialList[i]] = LinkAfter(InitialList, i)
    <3>1. InitialList[i] \in Words
      BY ListFalls
    <3>2. \A j \in DOMAIN InitialList : InitialList[j] = InitialList[i] <=> j = i
      BY <1>1, ListFalls
    <3>3. (CHOOSE j \in DOMAIN InitialList : InitialList[j] = InitialList[i]) = i
      BY <1>1, <3>2
    <3> QED  BY <1>1, <3>1, <3>3 DEF Init
  <2> QED  BY <1>1, <1>2, <2>1, <2>2 DEF Linked
<1>7. PlacesOfLive /\ PlaceOfCur
  BY <1>2 DEF PlacesOfLive, PlaceOfCur, Init
<1>8. Counted
  BY <1>2, PagesOfNone DEF Counted
<1> QED  BY <1>4, <1>5, <1>6, <1>7, <1>8 DEF BootInv

\* What alloc_page finds at the head of the list.
LEMMA HeadPage ==
  ASSUME BeforeFrees, BootInv, free_pages # NULL
  PROVE  /\ flist # << >> /\ Len(flist) \in Nat \ {0}
         /\ DOMAIN flist = 1..Len(flist)
         /\ Count \in Nat /\ Gone \in Nat /\ Gone + 1 \in 1..Count
         /\ free_pages = InitialList[Gone + 1]
         /\ free_pages = flist[1]
         /\ free_pages \in Words /\ free_pages \in Nat \ {0}
<1>1. flist # << >> /\ free_pages = flist[1]
  BY DEF BootInv, Linked
<1>2. Len(flist) \in Nat \ {0} /\ DOMAIN flist = 1..Len(flist)
  BY <1>1, TailFacts, LenProperties DEF BootInv, BootType
<1>3. Count \in Nat /\ Gone \in Nat /\ Gone + 1 \in 1..Count
  BY <1>2, BootConstants DEF BootInv, RestOfList, Gone
<1>4. free_pages = InitialList[Gone + 1]
  BY <1>1, <1>2, <1>3 DEF BootInv, RestOfList
<1> QED  BY <1>1, <1>2, <1>3, <1>4, ListFalls

\* alloc_page leaves the rest of the list as it was.
LEMMA RestAfterAlloc ==
  ASSUME BeforeFrees, BootInv, NEW word0 \in Nat, alloc_page(word0)
  PROVE  /\ mem' \in [Words -> Nat] /\ flist' \in Seq(Nat)
         /\ Gone' = Gone + 1 /\ RestOfList' /\ Linked'
<1>1. free_pages # NULL /\ flist' = Tail(flist) /\ free_pages' = mem[free_pages]
      /\ mem' = [mem EXCEPT ![free_pages] = word0]
  BY DEF alloc_page
<1>2. /\ flist # << >> /\ Len(flist) \in Nat \ {0} /\ DOMAIN flist = 1..Len(flist)
      /\ Count \in Nat /\ Gone \in Nat /\ Gone + 1 \in 1..Count
      /\ free_pages = InitialList[Gone + 1] /\ free_pages = flist[1]
  BY <1>1, HeadPage
<1>3. mem' \in [Words -> Nat]
  BY <1>1 DEF BootInv, BootType
<1>4. /\ flist' \in Seq(Nat) /\ Len(flist') = Len(flist) - 1
      /\ DOMAIN flist' = 1..(Len(flist) - 1)
      /\ \A i \in 1..(Len(flist) - 1) : flist'[i] = flist[i + 1]
  BY <1>1, <1>2, TailFacts, LenProperties DEF BootInv, BootType
<1>5. Gone' = Gone + 1
  BY <1>2, <1>4 DEF Gone
<1>6. RestOfList'
  <2>1. ASSUME NEW i \in 1..(Len(flist) - 1)
        PROVE  flist'[i] = InitialList[Gone' + i]
    <3>1. i + 1 \in DOMAIN flist /\ Gone' + i = Gone + (i + 1)
      BY <1>2, <1>5
    <3> QED  BY <1>4, <3>1 DEF BootInv, RestOfList
  <2> QED  BY <1>2, <1>4, <2>1 DEF BootInv, RestOfList
<1>7. Linked'
  <2>1. mem[flist[1]] = LinkAfter(flist, 1)
    BY <1>2 DEF BootInv, Linked
  <2>2. flist' = << >> <=> Len(flist) = 1
    BY <1>2, <1>4, EmptySeq
  <2>3. free_pages' = IF flist' = << >> THEN NULL ELSE flist'[1]
    BY SMTT(20), <1>1, <1>2, <1>4, <2>1, <2>2 DEF LinkAfter
  <2>4. ASSUME NEW i \in 1..(Len(flist) - 1)
        PROVE  mem'[flist'[i]] = LinkAfter(flist', i)
    <3>1. /\ i + 1 \in DOMAIN flist /\ flist'[i] = flist[i + 1]
          /\ Gone + (i + 1) \in 1..Count
      BY <1>2, <1>4 DEF BootInv, RestOfList, Gone
    <3>2. flist[i + 1] = InitialList[Gone + (i + 1)]
      BY <3>1 DEF BootInv, RestOfList
    <3>3. flist[i + 1] # free_pages
      <4>1. /\ Gone + 1 \in 1..Count /\ Gone + (i + 1) \in 1..Count
            /\ Gone + 1 < Gone + (i + 1)
        BY <1>2, <3>1
      <4>2. InitialList[Gone + (i + 1)] < InitialList[Gone + 1]
        BY <4>1, ListFalls
      <4>3. InitialList[Gone + 1] \in Nat
        BY <4>1, ListFalls
      <4> QED  BY <1>2, <3>2, <4>2, <4>3
    <3>4. mem'[flist[i + 1]] = mem[flist[i + 1]]
      BY <1>1, <3>3 DEF BootInv, BootType
    <3>5. mem[flist[i + 1]] = LinkAfter(flist, i + 1)
      BY <3>1 DEF BootInv, Linked
    <3>6. LinkAfter(flist', i) = LinkAfter(flist, i + 1)
      <4>1. i = Len(flist') <=> i + 1 = Len(flist)
        BY <1>2, <1>4
      <4>2. i # Len(flist') => flist'[i + 1] = flist[(i + 1) + 1]
        <5>1. Len(flist) \in Int /\ i \in Int /\ i >= 1 /\ i <= Len(flist) - 1
          BY <1>2
        <5>2. Len(flist') = Len(flist) - 1
          BY <1>4
        <5>3. i # Len(flist') => i + 1 \in 1..(Len(flist) - 1)
          BY <5>1, <5>2
        <5> QED  BY <1>4, <5>3
      <4> QED  BY <4>1, <4>2 DEF LinkAfter
    <3> QED  BY <3>1, <3>4, <3>5, <3>6
  <2> QED  BY <1>4, <2>3, <2>4 DEF Linked
<1> QED  BY <1>3, <1>4, <1>5, <1>6, <1>7

LEMMA PlaceUnique ==
  ASSUME BeforeFrees, NEW b, NEW i \in 1..Count, NEW j \in 1..Count,
         Placed(b, i), Placed(b, j)
  PROVE  i = j
<1>1. InitialList[i] = InitialList[j]
  BY DEF Placed
<1>2. /\ InitialList[i] \in Nat /\ InitialList[j] \in Nat
      /\ Count \in Nat /\ i \in Int /\ j \in Int
  BY ListFalls, BootConstants
<1>3. ~(i < j) /\ ~(j < i)
  BY <1>1, <1>2, ListFalls
<1> QED  BY <1>2, <1>3

\* malloc takes the next page for the block it works on: the header page or
\* a further one.
LEMMA TakePage ==
  ASSUME BeforeFrees, BootInv, NEW word0 \in Nat, alloc_page(word0),
         NEW block \in Blocks, Gone - got + 1 \in 1..Count,
         Placed(block, Gone - got + 1), got + 1 <= NumPages(block.size),
         Taken(block, got + 1), UNCHANGED frees
  PROVE  BootInv'
<1> DEFINE i0 == Gone - got + 1
<1>1. /\ mem' \in [Words -> Nat] /\ flist' \in Seq(Nat)
      /\ Gone' = Gone + 1 /\ RestOfList' /\ Linked'
  BY RestAfterAlloc
<1>2. free_pages # NULL
  BY DEF alloc_page
<1>3. Gone \in Nat /\ got \in Nat /\ got <= Gone
  BY <1>2, HeadPage DEF BootInv, BootType, PlacesOfLive
<1>4. NumPages(block.size) \in Nat \ {0}
  BY BlockPages
<1>5. \A b \in live : NumPages(b.size) \in Nat \ {0} /\ b \in Blocks
  BY BlockPages DEF BootInv, BootType
<1>6. frees' = 0
  BY DEF BootInv, BootType
<1>7. PagesOfBlocks(live) + got = Gone /\ PagesOfBlocks(live) \in Nat
  <2>1. PagesOfBlocks(live) \in Nat
    <3>1. CASE live = {}
      BY <3>1, PagesOfNone
    <3>2. CASE live # {}
      BY <3>2, <1>5, PagesOfOneMore DEF BootInv, BootType
    <3> QED  BY <3>1, <3>2
  <2> QED  BY <2>1 DEF BootInv, Counted
<1>8. \A b \in live, i \in 1..Count : Placed(b, i) => i + NumPages(b.size) <= i0
  BY DEF BootInv, PlacesOfLive
<1>9. CASE got + 1 >= NumPages(block.size)
  <2>1. /\ pc' = "run" /\ live' = live \cup {block} /\ cur' = NoBlock /\ got' = 0
    BY <1>9 DEF Taken
  <2>2. NumPages(block.size) = got + 1
    BY <1>3, <1>4, <1>9
  <2>3. block \notin live
    <3>1. ASSUME block \in live
          PROVE  FALSE
      <4>1. i0 + NumPages(block.size) <= i0
        BY <1>8, <3>1
      <4> QED  BY <4>1, <1>3, <1>4
    <3> QED  BY <3>1
  <2>4. BootType'
    <3>1. live' \subseteq Blocks /\ IsFiniteSet(live')
      BY <2>1, FS_AddElement DEF BootInv, BootType
    <3> QED  BY <1>1, <1>6, <2>1, <3>1, NoBlockTyped DEF BootType
  <2>5. PlacesOfLive'
    <3>1. got' <= Gone'
      BY <1>1, <1>3, <2>1
    <3>2. \A b \in live' : \E i \in 1..Count : Placed(b, i)
      BY <2>1 DEF BootInv, PlacesOfLive
    <3>3. \A i \in 1..Count : Placed(block, i) => i = i0
      BY PlaceUnique
    <3>4. ASSUME NEW b \in live', NEW i \in 1..Count, Placed(b, i)
          PROVE  i + NumPages(b.size) <= Gone' - got' + 1
      <4>1. CASE b \in live
        <5>1. i + NumPages(b.size) <= i0 /\ NumPages(b.size) \in Nat /\ i \in Nat
          BY <1>5, <1>8, <3>4, <4>1, BootConstants
        <5> QED  BY <5>1, <1>1, <1>3, <2>1
      <4>2. CASE b = block
        <5>1. i = i0
          BY <3>3, <3>4, <4>2
        <5> QED  BY <5>1, <4>2, <1>1, <1>3, <2>1, <2>2
      <4> QED  BY <2>1, <4>1, <4>2
    <3>5. ASSUME NEW b \in live', NEW c \in live', NEW i \in 1..Count,
                 NEW j \in 1..Count, Placed(b, i), Placed(c, j), b # c
          PROVE  \/ i + NumPages(b.size) <= j
                 \/ j + NumPages(c.size) <= i
      <4>1. CASE b \in live /\ c \in live
        BY <3>5, <4>1 DEF BootInv, PlacesOfLive
      <4>2. CASE b \in live /\ c = block
        BY <1>8, <3>3, <3>5, <4>2
      <4>3. CASE b = block /\ c \in live
        BY <1>8, <3>3, <3>5, <4>3
      <4> QED  BY <2>1, <3>5, <4>1, <4>2, <4>3
    <3> QED  BY <3>1, <3>2, <3>4, <3>5 DEF PlacesOfLive, Placed
  <2>6. PlaceOfCur'
    BY <2>1 DEF PlaceOfCur
  <2>7. Counted'
    <3>1. IsFiniteSet(live') /\ \A b \in live' : NumPages(b.size) \in Nat
      BY <1>4, <1>5, <2>1, FS_AddElement DEF BootInv, BootType
    <3>2. live' \ {block} = live
      BY <2>1, <2>3
    <3>3. PagesOfBlocks(live')
            = NumPages(block.size) + PagesOfBlocks(live' \ {block})
      BY <2>1, <3>1, PagesOfOneMore
    <3>4. PagesOfBlocks(live') = (got + 1) + PagesOfBlocks(live)
      BY <2>2, <3>2, <3>3
    <3>5. PagesOfBlocks(live') + got' = Gone'
      BY <3>4, <1>1, <1>3, <1>7, <2>1
    <3> QED  BY <3>5 DEF Counted
  <2> QED  BY <1>1, <2>4, <2>5, <2>6, <2>7 DEF BootInv
<1>10. CASE ~(got + 1 >= NumPages(block.size))
  <2>1. /\ pc' = "malloc" /\ live' = live /\ cur' = block /\ got' = got + 1
    BY <1>10 DEF Taken
  <2>2. Gone' - got' + 1 = i0 /\ got' <= Gone'
    BY <1>1, <1>3, <2>1
  <2>3. BootType'
    BY <1>1, <1>3, <1>6, <2>1 DEF BootInv, BootType
  <2>4. PlacesOfLive'
    BY <2>1, <2>2 DEF BootInv, PlacesOfLive, Placed
  <2>5. PlaceOfCur'
    BY <1>3, <1>4, <1>10, <2>1, <2>2 DEF PlaceOfCur, Placed
  <2>6. Counted'
    BY <1>1, <1>3, <1>7, <2>1 DEF Counted
  <2> QED  BY <1>1, <2>3, <2>4, <2>5, <2>6 DEF BootInv
<1> QED  BY <1>9, <1>10

LEMMA MallocBoot ==
  ASSUME BeforeFrees, BootInv, NEW size \in Sizes, Malloc(size)
  PROVE  BootInv'
<1> DEFINE block == [ptr |-> free_pages + 1, size |-> size]
<1>1. pc = "run" /\ got = 0 /\ free_pages # NULL
  BY DEF Malloc, alloc_page, BootInv, PlaceOfCur
<1>2. free_pages \in Nat \ {0} /\ Gone \in Nat /\ Gone + 1 \in 1..Count
      /\ free_pages = InitialList[Gone + 1]
  BY <1>1, HeadPage
<1>3. block \in Blocks
  BY <1>2 DEF Blocks
<1>4. Placed(block, Gone - got + 1) /\ Gone - got + 1 \in 1..Count
  BY <1>1, <1>2 DEF Placed, HeaderOf
<1>5. block.size = size /\ NumPages(size) \in Nat \ {0}
  BY <1>3, BlockPages
<1>6. alloc_page(NumPages(size)) /\ Taken(block, 1) /\ UNCHANGED frees
  BY DEF Malloc
<1> HIDE DEF block
<1>7. got + 1 = 1 /\ got + 1 <= NumPages(block.size)
  BY <1>1, <1>5
<1>8. Taken(block, got + 1)
  BY <1>6, <1>7
<1> QED  BY <1>3, <1>4, <1>5, <1>6, <1>7, <1>8, TakePage

LEMMA MallocMoreBoot ==
  ASSUME BeforeFrees, BootInv, MallocMore
  PROVE  BootInv'
<1>1. pc = "malloc" /\ alloc_page(NULL) /\ Taken(cur, got + 1) /\ UNCHANGED frees
  BY DEF MallocMore
<1>2. /\ cur \in Blocks /\ got \in 1..(NumPages(cur.size) - 1)
      /\ Gone - got + 1 \in 1..Count /\ Placed(cur, Gone - got + 1)
  BY <1>1 DEF BootInv, BootType, PlaceOfCur
<1>3. NULL \in Nat /\ got + 1 <= NumPages(cur.size)
  BY <1>2, BlockPages DEF NULL
<1> QED  BY <1>1, <1>2, <1>3, TakePage

\* What a caller stores lies above its header page, and free pages below.
LEMMA ClientWriteBoot ==
  ASSUME BeforeFrees, BootInv, NEW block \in live, ClientWrite(block)
  PROVE  BootInv'
<1>1. PICK off \in 0..(block.size - 1), v \in ClientData :
        mem' = [mem EXCEPT ![block.ptr + off] = v]
  BY DEF ClientWrite
<1>2. UNCHANGED <<free_pages, pc, cur, got, frees, live, flist>>
  BY DEF ClientWrite
<1>3. v \in Nat /\ mem \in [Words -> Nat]
  BY HeapAssumption DEF BootInv, BootType
<1>4. mem' \in [Words -> Nat]
  BY <1>1, <1>3
<1>5. /\ block \in Blocks /\ block.ptr = HeaderOf(block) + 1
      /\ HeaderOf(block) \in Int /\ off \in Nat
  BY BlockPages DEF BootInv, BootType
<1>6. PICK k \in 1..Count : Placed(block, k)
  BY DEF BootInv, PlacesOfLive
<1>7. Gone \in Nat /\ Count \in Nat /\ DOMAIN flist = 1..Len(flist)
      /\ Len(flist) \in Nat /\ got \in Nat
  BY BootConstants, LenProperties DEF BootInv, BootType, RestOfList, Gone
<1>8. k <= Gone
  <2>1. k + NumPages(block.size) <= Gone - got + 1
    BY <1>6 DEF BootInv, PlacesOfLive
  <2> QED  BY <2>1, <1>5, <1>7, BlockPages
<1>9. ASSUME NEW i \in DOMAIN flist
      PROVE  mem'[flist[i]] = mem[flist[i]]
  <2>1. Gone + i \in 1..Count /\ k < Gone + i
    BY <1>7, <1>8 DEF Gone
  <2>2. flist[i] = InitialList[Gone + i]
    BY DEF BootInv, RestOfList
  <2>3. InitialList[Gone + i] < InitialList[k] /\ InitialList[k] \in Nat
        /\ InitialList[Gone + i] \in Words /\ InitialList[Gone + i] \in Nat
    BY <2>1, ListFalls
  <2>4. flist[i] # block.ptr + off
    BY <1>5, <1>6, <2>2, <2>3 DEF Placed
  <2> QED  BY <1>1, <1>3, <2>2, <2>3, <2>4
<1>10. BootType'
  BY <1>2, <1>4 DEF BootInv, BootType
<1>11. Linked'
  BY <1>2, <1>9 DEF BootInv, Linked, LinkAfter
<1>12. Gone' = Gone
  BY <1>2 DEF Gone
<1>13. RestOfList' /\ PlacesOfLive' /\ PlaceOfCur'
  BY <1>2, <1>12 DEF BootInv, RestOfList, PlacesOfLive, PlaceOfCur, Placed
<1>14. Counted'
  BY <1>2, <1>12 DEF BootInv, Counted
<1> QED  BY <1>10, <1>11, <1>13, <1>14 DEF BootInv

LEMMA StutterBoot ==
  ASSUME BootInv, pc' \in {pc, "halt"},
         UNCHANGED <<free_pages, mem, cur, got, frees, live, flist>>
  PROVE  BootInv'
<1>1. Gone' = Gone
  BY DEF Gone
<1>2. BootType' /\ Linked'
  BY DEF BootInv, BootType, Linked, LinkAfter
<1>3. RestOfList' /\ PlacesOfLive' /\ PlaceOfCur'
  BY <1>1 DEF BootInv, RestOfList, PlacesOfLive, PlaceOfCur, Placed
<1>4. Counted'
  BY <1>1 DEF BootInv, Counted
<1> QED  BY <1>2, <1>3, <1>4 DEF BootInv

LEMMA NextBoot ==
  ASSUME BeforeFrees, BootInv, [Next]_vars
  PROVE  BootInv'
<1>1. CASE \E size \in Sizes : Malloc(size)
  BY <1>1, MallocBoot
<1>2. CASE MallocMore
  BY <1>2, MallocMoreBoot
<1>3. CASE OutOfPages \/ Halted \/ UNCHANGED vars
  BY <1>3, StutterBoot DEF OutOfPages, Halted, vars
<1>4. CASE \E block \in live : Free(block)
  BY <1>4 DEF Free, BeforeFrees, BootInv, BootType
<1>5. CASE \E block \in live : ClientWrite(block)
  BY <1>5, ClientWriteBoot
<1>6. CASE FreeMore \/ FreeReturn
  BY <1>6 DEF FreeMore, FreeReturn, BootInv, BootType
<1> QED  BY <1>1, <1>2, <1>3, <1>4, <1>5, <1>6 DEF Next

-----------------------------------------------------------------------------
(***************************************************************************)
(* Theorems: as long as nothing is freed, for requests of any size.        *)
(***************************************************************************)

\* The inductive invariant: the list is the rest of the initial one with its
\* links intact, every block owns as many neighbouring places of it as its
\* size needs, and all taken pages are counted (memory.c:87-139).
THEOREM BootInvariant ==
  ASSUME BeforeFrees
  PROVE  Spec => []BootInv
<1>1. Init => BootInv
  BY InitBoot
<1>2. BootInv /\ [Next]_vars => BootInv'
  BY NextBoot
<1> QED  BY <1>1, <1>2, PTL DEF Spec

\* The allocator keeps its types whatever sizes are requested (memory.c).
THEOREM BootTypeCorrect ==
  ASSUME BeforeFrees
  PROVE  Spec => []TypeOK
<1>1. BootInv => TypeOK
  <2> SUFFICES ASSUME BootInv PROVE TypeOK
    OBVIOUS
  <2>1. flist \in Seq(Words) /\ free_pages \in Words
    <3>1. Len(flist) \in Nat /\ DOMAIN flist = 1..Len(flist)
          /\ flist \in [1..Len(flist) -> Nat]
      BY LenProperties DEF BootInv, BootType
    <3>2. \A i \in 1..Len(flist) : flist[i] \in Words
      <4>1. \A i \in 1..Len(flist) : Gone + i \in 1..Count
        BY <3>1, BootConstants DEF BootInv, RestOfList, Gone
      <4> QED  BY <3>1, <4>1, ListFalls DEF BootInv, RestOfList
    <3>3. flist \in [1..Len(flist) -> Words]
      BY <3>1, <3>2
    <3>4. flist # << >> => 1 \in 1..Len(flist)
      BY <3>1, EmptySeq DEF BootInv, BootType
    <3>5. 0 \in Words
      BY HeapAssumption DEF Words
    <3>6. flist \in Seq(Words)
      BY <3>1, <3>3
    <3> QED  BY <3>2, <3>4, <3>5, <3>6 DEF BootInv, Linked, NULL
  <2>2. 0 \in 0..MaxFrees
    BY DEF BeforeFrees
  <2> QED  BY <2>1, <2>2 DEF BootInv, BootType, TypeOK
<1> QED  BY <1>1, BootInvariant, PTL

\* No request, however large, makes the free list lose a page or a caller
\* overwrite a link before the first free (memory.c:87-139).
THEOREM ListSafeAtBoot ==
  ASSUME BeforeFrees
  PROVE  Spec => []FreeListLinked
<1>1. BootInv => FreeListLinked
  <2> SUFFICES ASSUME BootInv PROVE FreeListLinked
    OBVIOUS
  <2>1. \A i \in DOMAIN flist : Gone + i \in 1..Count /\ i \in Int /\ Gone \in Int
    BY SMTT(20), BootConstants, LenProperties DEF BootInv, BootType, RestOfList, Gone
  <2>2. ASSUME NEW i \in DOMAIN flist, NEW j \in DOMAIN flist,
               flist[i] = flist[j]
        PROVE  i = j
    <3>1. InitialList[Gone + i] = InitialList[Gone + j]
      BY <2>2 DEF BootInv, RestOfList
    <3>2. InitialList[Gone + i] \in Nat /\ InitialList[Gone + j] \in Nat
      BY <2>1, ListFalls
    <3>3. ~(Gone + i < Gone + j) /\ ~(Gone + j < Gone + i)
      BY <2>1, <3>1, <3>2, ListFalls
    <3> QED  BY <2>1, <3>3
  <2> QED  BY <2>2 DEF BootInv, Linked, FreeListLinked
<1> QED  BY <1>1, BootInvariant, PTL

LEMMA MorePagesMoreWords ==
  ASSUME NEW a \in Nat, NEW b \in Nat, NEW p \in Nat, a <= b
  PROVE  a * p <= b * p /\ a * p \in Nat /\ b * p \in Nat
<1>1. b - a \in Nat /\ (b - a) * p \in Nat /\ b * p = a * p + (b - a) * p
  OBVIOUS
<1>2. a * p \in Nat /\ b * p \in Nat
  OBVIOUS
<1> QED  BY <1>1, <1>2

\* A block of several pages lies over older ones, as malloc takes its further
\* pages below the header page but hands out the words above it: it spares
\* every block that was taken later and needs no more pages (memory.c:87-112).
THEOREM NotGrowingIsSafe ==
  ASSUME BeforeFrees
  PROVE  Spec => []SafeWhenNotGrowing
<1>1. ASSUME BootInv
      PROVE  SafeWhenNotGrowing
  <2> SUFFICES ASSUME NEW b \in live, NEW c \in live, HeaderOf(c) < HeaderOf(b),
                      NumPages(c.size) <= NumPages(b.size),
                      c.size + 1 <= NumPages(c.size) * PageWords
               PROVE  Extent(b) \cap Extent(c) = {}
    BY DEF SafeWhenNotGrowing
  <2>1. PICK i \in 1..Count, j \in 1..Count : Placed(b, i) /\ Placed(c, j)
    BY <1>1 DEF BootInv, PlacesOfLive
  <2>2. /\ b \in Blocks /\ c \in Blocks /\ PageWords \in Nat
        /\ i \in Int /\ j \in Int
        /\ InitialList[i] \in Nat /\ InitialList[j] \in Nat
    BY <1>1, BootConstants, ListFalls DEF BootInv, BootType
  <2>3. i < j
    <3>1. InitialList[j] < InitialList[i]
      BY <2>1 DEF Placed
    <3>2. ~(j < i)
      BY <2>2, <3>1, ListFalls
    <3> QED  BY <2>2, <3>1, <3>2
  <2>4. i + NumPages(b.size) <= j
    <3>1. b # c
      BY <2>2, BlockPages
    <3>2. \/ i + NumPages(b.size) <= j
          \/ j + NumPages(c.size) <= i
      BY <1>1, <2>1, <3>1 DEF BootInv, PlacesOfLive
    <3> QED  BY <2>2, <2>3, <3>2, BlockPages
  <2>5. NumPages(c.size) * PageWords <= (j - i) * PageWords
    <3>1. NumPages(c.size) \in Nat /\ NumPages(b.size) \in Nat /\ j - i \in Nat
          /\ NumPages(c.size) <= j - i
      BY <2>2, <2>3, <2>4, BlockPages
    <3> QED  BY <2>2, <3>1, MorePagesMoreWords
  <2>6. InitialList[j] + (j - i) * PageWords <= InitialList[i]
    BY <2>3, ListFalls
  <2>7. NumPages(c.size) * PageWords \in Int /\ (j - i) * PageWords \in Int
    BY <2>2, BlockPages
  <2>8. HeaderOf(c) + c.size + 1 <= HeaderOf(b)
    BY <2>1, <2>2, <2>5, <2>6, <2>7, BlockPages DEF Placed
  <2> QED  BY <2>2, <2>8, BlockPages DEF Extent
<1> QED  BY <1>1, BootInvariant, PTL

\* malloc loses no page: each is on the list, counted in a header or taken by
\* the call that runs (memory.c:87-139).
THEOREM PagesStayAccounted ==
  ASSUME BeforeFrees
  PROVE  Spec => []PagesAccounted
<1>1. ASSUME BootInv
      PROVE  PagesAccounted
  <2>1. PagesOfBlocks(live) \in Nat
    <3>1. CASE live = {}
      BY <3>1, PagesOfNone
    <3>2. CASE live # {}
      BY <1>1, <3>2, BlockPages, PagesOfOneMore DEF BootInv, BootType
    <3> QED  BY <3>1, <3>2
  <2>2. Len(flist) \in Nat /\ Count \in Nat /\ got \in Nat
        /\ PagesOfBlocks(live) + got = Count - Len(flist)
    BY <1>1, BootConstants, LenProperties DEF BootInv, BootType, Counted, Gone
  <2>3. Len(flist) + PagesOfBlocks(live) + got = Count
    BY <2>1, <2>2
  <2> QED  BY <2>3 DEF PagesAccounted, PagesOfBlocks, Count
<1> QED  BY <1>1, BootInvariant, PTL

=============================================================================

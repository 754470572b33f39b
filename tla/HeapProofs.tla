----------------------------- MODULE HeapProofs -----------------------------
(***************************************************************************)
(* Proofs about Heap for every machine and every set of request sizes that *)
(* SmallRequests admits: a block and its header fit in a page even after   *)
(* MaxFrees calls of free have each moved a page address up by one word.   *)
(*                                                                         *)
(* The argument: every word the allocator or a caller may write while it   *)
(* handles a page lies in that page, and every boot page is handled by     *)
(* exactly one party -- the free list, a live block, or the running free.  *)
(***************************************************************************)
EXTENDS Heap, SequenceTheorems, TLAPS

-----------------------------------------------------------------------------
\* Facts about sequences used for the history variable flist.

LEMMA TailFacts ==
  ASSUME NEW S, NEW s \in Seq(S), s # << >>
  PROVE  /\ Tail(s) \in Seq(S)
         /\ Len(Tail(s)) = Len(s) - 1
         /\ Len(s) \in Nat \ {0}
         /\ \A i \in 1..(Len(s) - 1) : Tail(s)[i] = s[i + 1]
  BY HeadTailProperties, EmptySeq, LenProperties, SMT

LEMMA ConsFacts ==
  ASSUME NEW S, NEW s \in Seq(S), NEW x \in S
  PROVE  /\ <<x>> \o s \in Seq(S)
         /\ Len(<<x>> \o s) = Len(s) + 1
         /\ (<<x>> \o s)[1] = x
         /\ \A i \in 2..(Len(s) + 1) : (<<x>> \o s)[i] = s[i - 1]
  BY ConcatProperties, LenProperties, SMT

-----------------------------------------------------------------------------
\* Pages and the words in them.

InPage(a, k) == BootPages[k] <= a /\ a < BootPages[k] + PageWords

\* How far the calls of free so far can have moved an address of page k.
Drift(a, k) == BootPages[k] <= a /\ a <= BootPages[k] + frees

LEMMA OnePage ==
  ASSUME SmallRequests, NEW size \in Sizes
  PROVE  size \in Nat /\ size + 1 + MaxFrees <= PageWords /\ NumPages(size) = 1
<1>1. size \in Nat /\ size + 1 + MaxFrees <= PageWords
  BY HeapAssumption DEF SmallRequests
<1>2. PageWords \in Nat \ {0} /\ MaxFrees \in Nat
  BY HeapAssumption
<1>3. size < PageWords
  BY <1>1, <1>2
<1>4. size \div PageWords = 0
  BY <1>1, <1>2, <1>3
<1> QED  BY <1>1, <1>4 DEF NumPages

LEMMA ConstantFacts ==
  ASSUME SmallRequests
  PROVE  /\ PageWords \in Nat /\ MaxFrees \in Nat /\ MaxFrees < PageWords
         /\ MemTop \in Nat
         /\ Len(BootPages) \in Nat /\ DOMAIN BootPages = 1..Len(BootPages)
         /\ \A k \in DOMAIN BootPages :
              /\ BootPages[k] \in Nat \ {0}
              /\ BootPages[k] + PageWords <= MemTop
<1>1. PICK size \in Sizes : TRUE
  BY HeapAssumption
<1>2. MaxFrees < PageWords
  BY <1>1, OnePage, HeapAssumption
<1>3. /\ BootPages \in Seq(Nat \ {NULL})
      /\ Len(BootPages) \in Nat /\ DOMAIN BootPages = 1..Len(BootPages)
  BY HeapAssumption, LenProperties
<1>4. \A k \in DOMAIN BootPages : BootPages[k] \in Nat \ {NULL}
  BY <1>3, ElementOfSeq
<1> QED  BY <1>2, <1>3, <1>4, HeapAssumption DEF NULL

LEMMA PagesApart ==
  ASSUME SmallRequests, NEW a \in Nat,
         NEW k \in DOMAIN BootPages, NEW l \in DOMAIN BootPages,
         InPage(a, k), InPage(a, l)
  PROVE  k = l
<1>1. k # l => \/ BootPages[k] + PageWords <= BootPages[l]
               \/ BootPages[l] + PageWords <= BootPages[k]
  BY HeapAssumption
<1>2. BootPages[k] \in Nat /\ BootPages[l] \in Nat /\ PageWords \in Nat
  BY ConstantFacts
<1> QED  BY <1>1, <1>2 DEF InPage

LEMMA HomeOfPage ==
  ASSUME SmallRequests, NEW a \in Nat, NEW k \in DOMAIN BootPages, InPage(a, k)
  PROVE  Home(a) = k
<1>1. \A l \in DOMAIN BootPages :
        (BootPages[l] <= a /\ a < BootPages[l] + PageWords) <=> l = k
  BY PagesApart DEF InPage
<1> QED  BY <1>1 DEF Home

-----------------------------------------------------------------------------
(***************************************************************************)
(* The inductive invariant.  The invariants of the runs say what must not  *)
(* happen; that it cannot happen rests on NearPage (addresses stay in      *)
(* their page) and OneHolder (a page has one holder).                      *)
(***************************************************************************)

\* The addresses at which pages are held outside the free list.
Holders == live \cup Returning

WeakType ==
  /\ mem \in [Words -> Nat]
  /\ pc \in {"run", "free", "halt"}
  /\ cur \in Blocks
  /\ got \in Nat
  /\ frees \in 0..MaxFrees
  /\ live \subseteq Blocks
  /\ flist \in Seq(Nat)

NearPage ==
  /\ \A i \in DOMAIN flist : \E k \in DOMAIN BootPages : Drift(flist[i], k)
  /\ \A b \in live : \E k \in DOMAIN BootPages : Drift(HeaderOf(b), k)
  /\ pc = "free" => \E k \in DOMAIN BootPages :
                       Drift(HeaderOf(cur), k) /\ Drift(cur.ptr, k)

OneHolder ==
  \A k \in DOMAIN BootPages :
    /\ \A i, j \in DOMAIN flist :
         InPage(flist[i], k) /\ InPage(flist[j], k) => i = j
    /\ \A i \in DOMAIN flist, b \in Holders :
         ~(InPage(flist[i], k) /\ InPage(HeaderOf(b), k))
    /\ \A b, c \in Holders :
         InPage(HeaderOf(b), k) /\ InPage(HeaderOf(c), k) => b = c

SomeHolder ==
  \A k \in DOMAIN BootPages :
    \/ \E i \in DOMAIN flist : InPage(flist[i], k)
    \/ \E b \in Holders : InPage(HeaderOf(b), k)

Linked ==
  /\ free_pages = IF flist = << >> THEN NULL ELSE flist[1]
  /\ \A i \in DOMAIN flist : mem[flist[i]] = LinkAfter(flist, i)

Headers ==
  /\ \A b \in live : mem[HeaderOf(b)] = 1
  /\ pc = "free" => got \in {0, 1} /\ mem[HeaderOf(cur)] = 1 /\ cur \notin live

IInv ==
  WeakType /\ NearPage /\ OneHolder /\ SomeHolder /\ Linked /\ Headers

LEMMA DriftStays ==
  ASSUME SmallRequests, WeakType, NEW a, NEW k \in DOMAIN BootPages, Drift(a, k),
         a \in Int
  PROVE  a \in Words /\ a \in Nat \ {0} /\ InPage(a, k)
  BY ConstantFacts DEF WeakType, Drift, InPage, Words

LEMMA BlockFacts ==
  ASSUME NEW b \in Blocks
  PROVE  b.ptr \in Nat /\ HeaderOf(b) \in Int /\ b.size \in Sizes
         /\ HeaderOf(b) = b.ptr - 1
  BY DEF Blocks, HeaderOf

LEMMA InitIInv ==
  ASSUME SmallRequests, Init
  PROVE  IInv
<1> DEFINE N == Len(BootPages)
<1>0. /\ flist = InitialList /\ pc = "run" /\ cur = NoBlock
      /\ got = 0 /\ frees = 0 /\ live = {}
  BY DEF Init
<1>1. /\ N \in Nat /\ DOMAIN BootPages = 1..N
      /\ \A k \in 1..N : /\ BootPages[k] \in Nat \ {0}
                          /\ BootPages[k] + PageWords <= MemTop
                          /\ InPage(BootPages[k], k)
      /\ PageWords \in Nat \ {0} /\ MemTop \in Nat /\ MaxFrees \in Nat
  BY ConstantFacts DEF InPage
<1>2. \A i \in 1..N : N - i + 1 \in 1..N /\ N - (N - i + 1) + 1 = i
  BY <1>1
<1>3. /\ DOMAIN flist = 1..N /\ Len(flist) = N /\ flist \in Seq(Nat)
      /\ \A i \in 1..N : flist[i] = BootPages[N - i + 1]
  <2>1. flist = [i \in 1..N |-> BootPages[N - i + 1]]
    BY <1>0, <1>1 DEF InitialList
  <2>2. flist \in [1..N -> Nat]
    BY <2>1, <1>1, <1>2
  <2>3. flist \in Seq(Nat)
    <3>1. N \in Nat
      BY <1>1
    <3> QED  BY <3>1, <2>2, SeqDef
  <2>4. Len(flist) = N
    BY <1>1, <2>2, <2>3, LenProperties
  <2> QED  BY <2>1, <2>3, <2>4
<1>4. ASSUME NEW i \in 1..N
      PROVE  /\ flist[i] \in Nat \ {0} /\ flist[i] \in Words
             /\ InPage(flist[i], N - i + 1) /\ N - i + 1 \in 1..N
  <2> DEFINE k == N - i + 1
  <2>1. k \in 1..N /\ flist[i] = BootPages[k]
    BY <1>2, <1>3
  <2>2. /\ BootPages[k] \in Nat \ {0}
        /\ BootPages[k] + PageWords <= MemTop
        /\ InPage(BootPages[k], k)
    BY <2>1, <1>1
  <2>3. BootPages[k] \in Words
    BY <2>2, <1>1 DEF Words
  <2> QED  BY <2>1, <2>2, <2>3
<1>5. ASSUME NEW k \in 1..N, NEW i \in 1..N, InPage(flist[i], k)
      PROVE  N - i + 1 = k
  <2>1. flist[i] \in Nat /\ InPage(flist[i], N - i + 1) /\ N - i + 1 \in 1..N
    BY <1>4
  <2>2. DOMAIN BootPages = 1..N
    BY <1>1
  <2> QED  BY <2>1, <2>2, <1>5, PagesApart
<1>6. ASSUME NEW i \in 1..N, NEW j \in 1..N, flist[i] = flist[j]
      PROVE  i = j
  <2>1. InPage(flist[i], N - j + 1) /\ N - j + 1 \in 1..N
    BY <1>4, <1>6
  <2>2. N - i + 1 = N - j + 1
    BY <2>1, <1>5
  <2> QED  BY <2>2, <1>1
<1>7. \A i \in 1..N : mem[flist[i]] = LinkAfter(flist, i)
  <2> SUFFICES ASSUME NEW i \in 1..N  PROVE  mem[flist[i]] = LinkAfter(flist, i)
    OBVIOUS
  <2>1. (CHOOSE j \in DOMAIN flist : flist[j] = flist[i]) = i
    BY <1>3, <1>6
  <2> QED  BY <2>1, <1>0, <1>3, <1>4 DEF Init
<1>8. mem \in [Words -> Nat]
  <2>1. \A i \in 1..N : LinkAfter(flist, i) \in Nat
    <3> SUFFICES ASSUME NEW i \in 1..N, i # N  PROVE  flist[i + 1] \in Nat
      BY <1>3 DEF LinkAfter, NULL
    <3>1. i + 1 \in 1..N
      <4>1. N \in Nat
        BY <1>1
      <4> QED  BY SMTT(20), <4>1
    <3> QED  BY SMTT(20), <3>1, <1>4
  <2>2. ASSUME NEW a \in Words, NEW i \in DOMAIN flist, flist[i] = a
        PROVE  (CHOOSE j \in DOMAIN flist : flist[j] = a) \in DOMAIN flist
    BY <2>2
  <2> QED  BY SMTT(20), <2>1, <2>2, <1>0, <1>3 DEF Init, NULL
<1>9. WeakType
  <2>1. NoBlock \in Blocks
    BY HeapAssumption DEF NoBlock, Blocks
  <2> QED  BY <2>1, <1>0, <1>1, <1>3, <1>8 DEF WeakType
<1>10. NearPage
  <2>1. ASSUME NEW i \in 1..N
        PROVE  \E k \in DOMAIN BootPages : Drift(flist[i], k)
    <3>1. N - i + 1 \in DOMAIN BootPages /\ flist[i] = BootPages[N - i + 1]
      BY <1>1, <1>2, <1>3
    <3>2. Drift(flist[i], N - i + 1)
      BY SMTT(20), <3>1, <1>0, <1>1 DEF Drift
    <3> QED  BY <3>1, <3>2
  <2> QED  BY <2>1, <1>0, <1>3 DEF NearPage
<1>11. Holders = {}
  BY <1>0 DEF Holders, Returning
<1>12. OneHolder
  <2> SUFFICES ASSUME NEW k \in 1..N, NEW i \in 1..N, NEW j \in 1..N,
                      InPage(flist[i], k), InPage(flist[j], k)
               PROVE  i = j
    BY <1>1, <1>3, <1>11 DEF OneHolder
  <2>1. N - i + 1 = k /\ N - j + 1 = k
    BY <1>5
  <2> QED  BY <2>1, <1>1
<1>13. SomeHolder
  <2> SUFFICES ASSUME NEW k \in 1..N
               PROVE  \E i \in DOMAIN flist : InPage(flist[i], k)
    BY <1>1 DEF SomeHolder
  <2> QED  BY ZenonT(30), <1>2, <1>3, <1>4
<1>14. Linked
  <2>1. (BootPages = << >>) <=> (flist = << >>)
    BY <1>1, <1>3, HeapAssumption, EmptySeq, LenProperties
  <2> QED  BY <2>1, <1>0, <1>3, <1>7 DEF Linked, Init
<1>15. Headers
  BY <1>0 DEF Headers
<1> QED  BY <1>9, <1>10, <1>12, <1>13, <1>14, <1>15 DEF IInv

-----------------------------------------------------------------------------
\* What the invariant says of the addresses the allocator holds.
LEMMA Held ==
  ASSUME SmallRequests, IInv
  PROVE  /\ \A i \in DOMAIN flist :
              /\ flist[i] \in Words /\ flist[i] \in Nat \ {0}
              /\ \E k \in DOMAIN BootPages : InPage(flist[i], k) /\ Drift(flist[i], k)
         /\ \A b \in Holders :
              /\ b \in Blocks
              /\ HeaderOf(b) \in Words /\ HeaderOf(b) \in Nat \ {0}
              /\ \E k \in DOMAIN BootPages :
                   InPage(HeaderOf(b), k) /\ Drift(HeaderOf(b), k)
         /\ Len(flist) \in Nat /\ DOMAIN flist = 1..Len(flist)
         /\ \A i \in DOMAIN flist, j \in DOMAIN flist : flist[i] = flist[j] => i = j
<1> USE DEF IInv
<1>1. Len(flist) \in Nat /\ DOMAIN flist = 1..Len(flist)
  BY LenProperties DEF WeakType
<1>2. ASSUME NEW i \in DOMAIN flist
      PROVE  /\ flist[i] \in Words /\ flist[i] \in Nat \ {0}
             /\ \E k \in DOMAIN BootPages : InPage(flist[i], k) /\ Drift(flist[i], k)
  <2>1. PICK k \in DOMAIN BootPages : Drift(flist[i], k)
    BY DEF NearPage
  <2>2. flist[i] \in Nat
    BY <1>1, ElementOfSeq DEF WeakType
  <2> QED  BY <2>1, <2>2, DriftStays
<1>3. ASSUME NEW b \in Holders
      PROVE  /\ b \in Blocks
             /\ HeaderOf(b) \in Words /\ HeaderOf(b) \in Nat \ {0}
             /\ \E k \in DOMAIN BootPages :
                  InPage(HeaderOf(b), k) /\ Drift(HeaderOf(b), k)
  <2>1. b \in Blocks /\ \E k \in DOMAIN BootPages : Drift(HeaderOf(b), k)
    BY DEF Holders, Returning, WeakType, NearPage
  <2>2. PICK k \in DOMAIN BootPages : Drift(HeaderOf(b), k)
    BY <2>1
  <2>3. HeaderOf(b) \in Int
    BY <2>1, BlockFacts
  <2> QED  BY <2>1, <2>2, <2>3, DriftStays
<1>4. ASSUME NEW i \in DOMAIN flist, NEW j \in DOMAIN flist, flist[i] = flist[j]
      PROVE  i = j
  BY <1>2, <1>4 DEF OneHolder
<1> QED  BY <1>1, <1>2, <1>3, <1>4

LEMMA MallocIInv ==
  ASSUME SmallRequests, IInv, NEW size \in Sizes, Malloc(size)
  PROVE  IInv'
<1> DEFINE h == flist[1]
           block == [ptr |-> free_pages + 1, size |-> size]
           L == Len(flist)
<1>1. L \in Nat \ {0} /\ DOMAIN flist = 1..L /\ free_pages = h /\ flist # << >>
      /\ flist \in Seq(Nat) /\ mem \in [Words -> Nat]
  BY Held, EmptySeq DEF IInv, Linked, Malloc, alloc_page, WeakType
<1>2. h \in Words /\ h \in Nat \ {0}
  BY <1>1, Held
<1>3. /\ DOMAIN flist' = 1..(L - 1) /\ Len(flist') = L - 1 /\ flist' \in Seq(Nat)
      /\ \A i \in 1..(L - 1) : flist'[i] = flist[i + 1] /\ i + 1 \in 1..L
  <2>1. flist' = Tail(flist)
    BY DEF Malloc, alloc_page
  <2>2. /\ Tail(flist) \in Seq(Nat) /\ Len(Tail(flist)) = L - 1
        /\ \A i \in 1..(L - 1) : Tail(flist)[i] = flist[i + 1]
    BY <1>1, TailFacts
  <2> QED  BY <1>1, <2>1, <2>2, LenProperties
<1>4. /\ pc = "run" /\ pc' = "run" /\ live' = live \cup {block} /\ got' = 0
      /\ cur' = NoBlock /\ frees' = frees
      /\ free_pages' = mem[h] /\ mem' = [mem EXCEPT ![h] = 1]
  <2>1. NumPages(size) = 1 /\ block.size = size
    BY OnePage
  <2>2. NumPages(block.size) = 1
    BY <2>1
  <2>3. Taken(block, 1)
    BY DEF Malloc
  <2>4. pc' = "run" /\ live' = live \cup {block} /\ cur' = NoBlock /\ got' = 0
    BY <2>2, <2>3 DEF Taken
  <2> QED  BY <2>1, <2>4, <1>1 DEF Malloc, alloc_page
<1>5. block \in Blocks /\ HeaderOf(block) = h
  BY <1>1, <1>2 DEF Blocks, HeaderOf
<1>6. Holders = live /\ Holders' = live \cup {block}
  BY <1>4 DEF Holders, Returning
<1>7. WeakType'
  <2>1. NoBlock \in Blocks
    BY HeapAssumption DEF NoBlock, Blocks
  <2>2. mem' \in [Words -> Nat]
    BY <1>1, <1>2, <1>4
  <2> QED  BY <2>1, <2>2, <1>3, <1>4, <1>5 DEF IInv, WeakType
<1>8. NearPage'
  <2>1. \A a, k : Drift(a, k)' <=> Drift(a, k)
    BY <1>4 DEF Drift
  <2>2. \A i \in DOMAIN flist' : \E k \in DOMAIN BootPages : Drift(flist'[i], k)
    BY <1>1, <1>3, Held
  <2>3. \A b \in live' : \E k \in DOMAIN BootPages : Drift(HeaderOf(b), k)
    BY <1>1, <1>4, <1>5, <1>6, Held
  <2> QED  BY <2>1, <2>2, <2>3, <1>4 DEF NearPage
<1>9. OneHolder'
  <2> SUFFICES ASSUME NEW k \in DOMAIN BootPages
               PROVE  /\ \A i, j \in DOMAIN flist' :
                           InPage(flist'[i], k) /\ InPage(flist'[j], k) => i = j
                      /\ \A i \in DOMAIN flist', b \in Holders' :
                           ~(InPage(flist'[i], k) /\ InPage(HeaderOf(b), k))
                      /\ \A b, c \in Holders' :
                           InPage(HeaderOf(b), k) /\ InPage(HeaderOf(c), k) => b = c
    BY DEF OneHolder, InPage, HeaderOf
  <2>1. ASSUME NEW i \in DOMAIN flist', NEW j \in DOMAIN flist',
               InPage(flist'[i], k), InPage(flist'[j], k)
        PROVE  i = j
    <3>1. i + 1 = j + 1
      BY <1>1, <1>3, <2>1 DEF IInv, OneHolder
    <3> QED  BY <3>1, <1>3
  <2>2. ASSUME NEW i \in DOMAIN flist', NEW b \in Holders',
               InPage(flist'[i], k), InPage(HeaderOf(b), k)
        PROVE  FALSE
    <3>1. i + 1 \in DOMAIN flist /\ InPage(flist[i + 1], k) /\ i + 1 # 1
      BY SMTT(20), <1>1, <1>3, <2>2
    <3>2. CASE b \in live
      BY <3>1, <3>2, <1>6, <2>2 DEF IInv, OneHolder
    <3>3. CASE b = block
      BY <3>1, <3>3, <1>1, <1>5, <2>2 DEF IInv, OneHolder
    <3> QED  BY <3>2, <3>3, <1>6
  <2>3. ASSUME NEW b \in Holders', NEW c \in Holders',
               InPage(HeaderOf(b), k), InPage(HeaderOf(c), k)
        PROVE  b = c
    <3>1. 1 \in DOMAIN flist
      BY <1>1
    <3>2. \A d \in live : ~(InPage(h, k) /\ InPage(HeaderOf(d), k))
      BY <3>1, <1>6 DEF IInv, OneHolder
    <3>3. \A d, e \in live :
            InPage(HeaderOf(d), k) /\ InPage(HeaderOf(e), k) => d = e
      BY <1>6 DEF IInv, OneHolder
    <3> QED  BY <3>2, <3>3, <1>5, <1>6, <2>3
  <2> QED  BY <2>1, <2>2, <2>3
<1>10. SomeHolder'
  <2> SUFFICES ASSUME NEW k \in DOMAIN BootPages
               PROVE  \/ \E i \in DOMAIN flist' : InPage(flist'[i], k)
                      \/ \E b \in Holders' : InPage(HeaderOf(b), k)
    BY DEF SomeHolder, InPage, HeaderOf
  <2>1. CASE \E i \in DOMAIN flist : InPage(flist[i], k)
    <3>1. PICK i \in DOMAIN flist : InPage(flist[i], k)
      BY <2>1
    <3>2. CASE i = 1
      BY <3>1, <3>2, <1>5, <1>6
    <3>3. CASE i # 1
      <4>1. i - 1 \in DOMAIN flist' /\ flist'[i - 1] = flist[i]
        BY <3>3, <1>1, <1>3
      <4> QED  BY <4>1, <3>1
    <3> QED  BY <3>2, <3>3
  <2>2. CASE \E b \in Holders : InPage(HeaderOf(b), k)
    BY <2>2, <1>6
  <2> QED  BY <2>1, <2>2 DEF IInv, SomeHolder
<1>11. Linked'
  <2>1. free_pages' = IF flist' = << >> THEN NULL ELSE flist'[1]
    <3>1. mem[h] = LinkAfter(flist, 1)
      BY <1>1 DEF IInv, Linked
    <3>2. (flist' = << >>) <=> (L = 1)
      BY SMTT(20), <1>1, <1>3, EmptySeq
    <3> QED  BY <3>1, <3>2, <1>1, <1>3, <1>4 DEF LinkAfter
  <2>2. ASSUME NEW i \in DOMAIN flist'
        PROVE  mem'[flist'[i]] = LinkAfter(flist', i)
    <3>1. /\ i \in 1..(L - 1) /\ i + 1 \in DOMAIN flist
          /\ flist'[i] = flist[i + 1]
      BY <1>1, <1>3
    <3>2. flist[i + 1] # h /\ flist[i + 1] \in Words
      BY SMTT(20), <3>1, <1>1, Held
    <3>3. mem'[flist'[i]] = mem[flist[i + 1]]
      BY <3>1, <3>2, <1>1, <1>2, <1>4
    <3>4. mem[flist[i + 1]] = LinkAfter(flist, i + 1)
      BY <3>1 DEF IInv, Linked
    <3>5. LinkAfter(flist, i + 1) = LinkAfter(flist', i)
      BY SMTT(20), <3>1, <1>1, <1>3 DEF LinkAfter
    <3> QED  BY <3>3, <3>4, <3>5
  <2> QED  BY <2>1, <2>2 DEF Linked, LinkAfter
<1>12. Headers'
  <2>1. ASSUME NEW b \in live
        PROVE  HeaderOf(b) # h /\ HeaderOf(b) \in Words
    <3>1. PICK k \in DOMAIN BootPages : InPage(h, k)
      BY <1>1, Held
    <3> QED  BY SMTT(20), <3>1, <1>1, <1>6, Held DEF IInv, OneHolder
  <2>2. ASSUME NEW b \in live'
        PROVE  mem'[HeaderOf(b)] = 1
    <3>1. CASE b \in live
      BY <3>1, <2>1, <1>1, <1>4 DEF IInv, Headers
    <3>2. CASE b = block
      BY <3>2, <1>1, <1>2, <1>4, <1>5
    <3> QED  BY <3>1, <3>2, <1>4
  <2> QED  BY <2>2, <1>4 DEF Headers, HeaderOf
<1> QED  BY <1>7, <1>8, <1>9, <1>10, <1>11, <1>12 DEF IInv

LEMMA FreeIInv ==
  ASSUME SmallRequests, IInv, NEW block \in live, Free(block)
  PROVE  IInv'
<1>1. /\ pc = "run" /\ pc' = "free" /\ cur' = block /\ got' = 0
      /\ frees' = frees + 1 /\ frees < MaxFrees /\ live' = live \ {block}
      /\ free_pages' = free_pages /\ mem' = mem /\ flist' = flist
  BY DEF Free
<1>2. frees \in Nat /\ frees' \in 0..MaxFrees
  BY <1>1, ConstantFacts DEF IInv, WeakType
<1>3. Holders = live /\ Holders' = live
  BY <1>1 DEF Holders, Returning
<1>4. WeakType'
  BY <1>1, <1>2 DEF IInv, WeakType
<1>5. NearPage'
  <2>1. ASSUME NEW a, NEW k, Drift(a, k), a \in Int, k \in DOMAIN BootPages
        PROVE  Drift(a, k)' /\ (Drift(a + 1, k))'
    BY <2>1, <1>1, <1>2, ConstantFacts DEF Drift
  <2>2. ASSUME NEW i \in DOMAIN flist
        PROVE  \E k \in DOMAIN BootPages : Drift(flist[i], k)'
    <3>1. PICK k \in DOMAIN BootPages : Drift(flist[i], k)
      BY Held
    <3>2. flist[i] \in Int /\ flist'[i] = flist[i]
      BY <1>1, Held
    <3>3. Drift(flist[i], k)'
      BY <2>1, <3>1, <3>2 DEF Drift
    <3> QED  BY <3>3
  <2>3. ASSUME NEW b \in live
        PROVE  \E k \in DOMAIN BootPages :
                 Drift(HeaderOf(b), k)' /\ (Drift(HeaderOf(b) + 1, k))'
    BY <2>1, <1>3, Held
  <2>4. block.ptr = HeaderOf(block) + 1
    BY <1>3, Held, BlockFacts
  <2> QED  BY <2>2, <2>3, <2>4, <1>1 DEF NearPage, Drift, HeaderOf
<1>6. OneHolder'
  BY <1>1, <1>3 DEF IInv, OneHolder, InPage, HeaderOf
<1>7. SomeHolder'
  BY <1>1, <1>3 DEF IInv, SomeHolder, InPage, HeaderOf
<1>8. Linked'
  BY <1>1 DEF IInv, Linked, LinkAfter
<1>9. Headers'
  BY <1>1 DEF IInv, Headers, HeaderOf
<1> QED  BY <1>4, <1>5, <1>6, <1>7, <1>8, <1>9 DEF IInv

LEMMA FreeMoreIInv ==
  ASSUME SmallRequests, IInv, FreeMore
  PROVE  IInv'
<1> DEFINE p == cur.ptr
           L == Len(flist)
<1>1. /\ pc = "free" /\ got = 0 /\ got' = 1 /\ pc' = pc /\ cur' = cur
      /\ frees' = frees /\ live' = live
  BY DEF FreeMore, IInv, Headers
<1>2. cur \in Blocks /\ p \in Nat /\ HeaderOf(cur) \in Int /\ p = HeaderOf(cur) + 1
  BY BlockFacts DEF IInv, WeakType
<1>3. /\ mem' = [mem EXCEPT ![p] = free_pages] /\ free_pages' = p
      /\ flist' = <<p>> \o flist
  <2>1. FreedPage(cur, got) = p
    BY <1>1, <1>2, ConstantFacts DEF FreedPage
  <2> QED  BY <2>1 DEF FreeMore, free_page
<1>4. PICK kp \in DOMAIN BootPages : Drift(HeaderOf(cur), kp) /\ Drift(p, kp)
  BY <1>1 DEF IInv, NearPage
<1>5. /\ p \in Words /\ InPage(p, kp) /\ InPage(HeaderOf(cur), kp)
      /\ HeaderOf(cur) \in Words /\ p # HeaderOf(cur)
      /\ p \in Nat \ {0} /\ HeaderOf(cur) \in Nat
  BY <1>2, <1>4, DriftStays DEF IInv
<1>6. /\ L \in Nat /\ DOMAIN flist = 1..L /\ flist \in Seq(Nat) /\ mem \in [Words -> Nat]
  BY Held DEF IInv, WeakType
<1>7. /\ DOMAIN flist' = 1..(L + 1) /\ Len(flist') = L + 1 /\ flist' \in Seq(Nat)
      /\ flist'[1] = p
      /\ \A i \in 2..(L + 1) : flist'[i] = flist[i - 1] /\ i - 1 \in 1..L
  <2>1. /\ <<p>> \o flist \in Seq(Nat) /\ Len(<<p>> \o flist) = L + 1
        /\ (<<p>> \o flist)[1] = p
        /\ \A i \in 2..(L + 1) : (<<p>> \o flist)[i] = flist[i - 1]
    BY <1>2, <1>6, ConsFacts
  <2> QED  BY <1>3, <1>6, <2>1, LenProperties
<1>8. Holders = live \cup {cur} /\ Holders' = live /\ cur \notin live
  BY <1>1 DEF Holders, Returning, IInv, Headers
<1>9. \A k \in DOMAIN BootPages : InPage(p, k) => k = kp
  BY <1>5, PagesApart
<1>10. free_pages \in Nat
  <2>1. CASE flist = << >>
    BY <2>1 DEF IInv, Linked, NULL
  <2>2. CASE flist # << >>
    BY <2>2, <1>6, EmptySeq, Held DEF IInv, Linked
  <2> QED  BY <2>1, <2>2
<1>11. \A i \in DOMAIN flist : flist[i] # p /\ flist[i] \in Words
  BY <1>5, <1>8, Held DEF IInv, OneHolder
<1>12. \A b \in live : HeaderOf(b) # p /\ HeaderOf(b) \in Words
  BY <1>5, <1>8, Held DEF IInv, OneHolder
<1>13. WeakType'
  <2>1. mem' \in [Words -> Nat]
    BY <1>3, <1>5, <1>6, <1>10
  <2> QED  BY <2>1, <1>1, <1>7 DEF IInv, WeakType
<1>14. NearPage'
  <2>1. ASSUME NEW i \in DOMAIN flist'
        PROVE  \E k \in DOMAIN BootPages : Drift(flist'[i], k)
    <3>1. CASE i = 1
      BY <3>1, <1>4, <1>7
    <3>2. CASE i # 1
      <4>1. i - 1 \in DOMAIN flist /\ flist'[i] = flist[i - 1]
        BY <3>2, <1>6, <1>7
      <4> QED  BY <4>1, Held
    <3> QED  BY <3>1, <3>2
  <2> QED  BY <2>1, <1>1 DEF IInv, NearPage, Drift, HeaderOf
<1>15. OneHolder'
  <2> SUFFICES ASSUME NEW k \in DOMAIN BootPages
               PROVE  /\ \A i, j \in DOMAIN flist' :
                           InPage(flist'[i], k) /\ InPage(flist'[j], k) => i = j
                      /\ \A i \in DOMAIN flist', b \in live :
                           ~(InPage(flist'[i], k) /\ InPage(HeaderOf(b), k))
                      /\ \A b, c \in live :
                           InPage(HeaderOf(b), k) /\ InPage(HeaderOf(c), k) => b = c
    BY <1>8 DEF OneHolder, InPage, HeaderOf
  <2>1. ASSUME NEW i \in DOMAIN flist', NEW j \in DOMAIN flist',
               InPage(flist'[i], k), InPage(flist'[j], k), i # 1
        PROVE  i = j
    <3>1. i - 1 \in DOMAIN flist /\ InPage(flist[i - 1], k)
      BY <2>1, <1>6, <1>7
    <3>2. CASE j = 1
      BY <2>1, <3>1, <3>2, <1>5, <1>7, <1>8, <1>9 DEF IInv, OneHolder
    <3>3. CASE j # 1
      <4>1. j - 1 \in DOMAIN flist /\ InPage(flist[j - 1], k)
        BY SMTT(20), <2>1, <3>3, <1>6, <1>7
      <4>2. i - 1 = j - 1
        BY <4>1, <3>1 DEF IInv, OneHolder
      <4> QED  BY <4>2, <1>6, <1>7
    <3> QED  BY <3>2, <3>3
  <2>2. ASSUME NEW i \in DOMAIN flist', NEW b \in live,
               InPage(flist'[i], k), InPage(HeaderOf(b), k)
        PROVE  FALSE
    <3>1. CASE i = 1
      BY <2>2, <3>1, <1>5, <1>7, <1>8, <1>9 DEF IInv, OneHolder
    <3>2. CASE i # 1
      <4>1. i - 1 \in DOMAIN flist /\ InPage(flist[i - 1], k)
        BY <2>2, <3>2, <1>6, <1>7
      <4> QED  BY <4>1, <2>2, <1>8 DEF IInv, OneHolder
    <3> QED  BY <3>1, <3>2
  <2>3. \A b, c \in live :
          InPage(HeaderOf(b), k) /\ InPage(HeaderOf(c), k) => b = c
    BY <1>8 DEF IInv, OneHolder
  <2> QED  BY <2>1, <2>2, <2>3
<1>16. SomeHolder'
  <2> SUFFICES ASSUME NEW k \in DOMAIN BootPages
               PROVE  \/ \E i \in DOMAIN flist' : InPage(flist'[i], k)
                      \/ \E b \in live : InPage(HeaderOf(b), k)
    BY <1>8 DEF SomeHolder, InPage, HeaderOf
  <2>1. CASE \E i \in DOMAIN flist : InPage(flist[i], k)
    <3>1. PICK i \in DOMAIN flist : InPage(flist[i], k)
      BY <2>1
    <3>2. i + 1 \in DOMAIN flist' /\ flist'[i + 1] = flist[i]
      BY <1>6, <1>7
    <3> QED  BY <3>1, <3>2
  <2>2. CASE InPage(HeaderOf(cur), k)
    <3>1. k = kp
      BY <2>2, <1>5, PagesApart
    <3>2. 1 \in DOMAIN flist' /\ InPage(flist'[1], k)
      BY <3>1, <1>5, <1>6, <1>7
    <3> QED  BY <3>2
  <2> QED  BY <2>1, <2>2, <1>8 DEF IInv, SomeHolder
<1>17. Linked'
  <2>1. flist' # << >>
    BY <1>6, <1>7, EmptySeq
  <2>2. ASSUME NEW i \in DOMAIN flist'
        PROVE  mem'[flist'[i]] = LinkAfter(flist', i)
    <3>1. CASE i = 1
      <4>1. mem'[p] = free_pages
        BY <1>3, <1>5, <1>6
      <4>2. CASE flist = << >>
        <5>1. L = 0 /\ free_pages = NULL
          BY <4>2, EmptySeq DEF IInv, Linked
        <5> QED  BY <5>1, <4>1, <3>1, <1>7 DEF LinkAfter
      <4>3. CASE flist # << >>
        <5>1. L # 0 /\ free_pages = flist[1]
          BY <4>3, <1>6, EmptySeq DEF IInv, Linked
        <5>2. flist'[2] = flist[1]
          BY <5>1, <1>6, <1>7
        <5> QED  BY <5>1, <5>2, <4>1, <3>1, <1>6, <1>7 DEF LinkAfter
      <4> QED  BY <4>2, <4>3
    <3>2. CASE i # 1
      <4>1. i - 1 \in DOMAIN flist /\ flist'[i] = flist[i - 1]
        BY <3>2, <1>6, <1>7
      <4>2. mem'[flist'[i]] = mem[flist[i - 1]]
        BY <4>1, <1>3, <1>6, <1>11
      <4>3. mem[flist[i - 1]] = LinkAfter(flist, i - 1)
        BY <4>1 DEF IInv, Linked
      <4>4. LinkAfter(flist, i - 1) = LinkAfter(flist', i)
        BY SMTT(20), <4>1, <3>2, <1>6, <1>7 DEF LinkAfter
      <4> QED  BY <4>2, <4>3, <4>4
    <3> QED  BY <3>1, <3>2
  <2> QED  BY <2>1, <2>2, <1>3, <1>7 DEF Linked, LinkAfter
<1>18. Headers'
  <2>1. \A b \in live : mem'[HeaderOf(b)] = 1
    BY <1>3, <1>6, <1>12 DEF IInv, Headers
  <2>2. mem'[HeaderOf(cur)] = 1
    BY <1>1, <1>3, <1>5, <1>6 DEF IInv, Headers
  <2> QED  BY <2>1, <2>2, <1>1, <1>8 DEF Headers, HeaderOf
<1> QED  BY <1>13, <1>14, <1>15, <1>16, <1>17, <1>18 DEF IInv

LEMMA FreeReturnIInv ==
  ASSUME SmallRequests, IInv, FreeReturn
  PROVE  IInv'
<1>1. /\ pc = "free" /\ got = 1 /\ pc' = "run" /\ cur' = NoBlock /\ got' = 0
      /\ UNCHANGED <<free_pages, mem, frees, live, flist>>
  BY DEF FreeReturn, IInv, Headers
<1>2. Holders = live /\ Holders' = live
  BY <1>1 DEF Holders, Returning
<1>3. NoBlock \in Blocks
  BY HeapAssumption DEF NoBlock, Blocks
<1> QED  BY <1>1, <1>2, <1>3 DEF IInv, WeakType, NearPage, OneHolder, SomeHolder,
            Linked, Headers, Drift, InPage, HeaderOf, LinkAfter

LEMMA ClientWriteIInv ==
  ASSUME SmallRequests, IInv, NEW block \in live, ClientWrite(block)
  PROVE  IInv'
<1>1. PICK off \in 0..(block.size - 1), v \in ClientData :
        mem' = [mem EXCEPT ![block.ptr + off] = v]
  BY DEF ClientWrite
<1>2. /\ pc = "run"
      /\ UNCHANGED <<free_pages, pc, cur, got, frees, live, flist>>
  BY DEF ClientWrite
<1> DEFINE w == block.ptr + off
<1>3. Holders = live /\ Holders' = live
  BY <1>2 DEF Holders, Returning
<1>4. /\ block.ptr \in Nat /\ block.size \in Nat
      /\ block.size + 1 + MaxFrees <= PageWords
      /\ block.ptr = HeaderOf(block) + 1 /\ HeaderOf(block) \in Nat
  BY <1>3, Held, BlockFacts, OnePage
<1>5. PICK k \in DOMAIN BootPages : InPage(HeaderOf(block), k) /\ Drift(HeaderOf(block), k)
  BY <1>3, Held
<1>6. off \in Nat /\ off < block.size
  BY <1>4
<1>7. /\ BootPages[k] \in Nat /\ BootPages[k] + PageWords <= MemTop
      /\ PageWords \in Nat /\ MemTop \in Nat /\ MaxFrees \in Nat
      /\ frees \in Nat /\ frees <= MaxFrees
  BY ConstantFacts DEF IInv, WeakType
<1>8. w \in Nat /\ w \in Words /\ InPage(w, k) /\ w # HeaderOf(block)
  BY <1>4, <1>5, <1>6, <1>7 DEF InPage, Drift, Words
<1>9. \A i \in DOMAIN flist : flist[i] # w /\ flist[i] \in Words
  BY <1>3, <1>5, <1>8, Held DEF IInv, OneHolder
<1>10. \A b \in live : HeaderOf(b) # w /\ HeaderOf(b) \in Words
  BY <1>3, <1>5, <1>8, Held DEF IInv, OneHolder
<1>11. mem \in [Words -> Nat] /\ v \in Nat
  BY HeapAssumption DEF IInv, WeakType
<1>12. /\ mem' \in [Words -> Nat]
       /\ \A i \in DOMAIN flist : mem'[flist[i]] = mem[flist[i]]
       /\ \A b \in live : mem'[HeaderOf(b)] = mem[HeaderOf(b)]
  BY <1>1, <1>8, <1>9, <1>10, <1>11
<1>13. WeakType'
  BY <1>2, <1>12 DEF IInv, WeakType
<1>14. NearPage' /\ OneHolder' /\ SomeHolder'
  BY <1>2, <1>3 DEF IInv, NearPage, OneHolder, SomeHolder, Drift, InPage, HeaderOf
<1>15. Linked'
  BY <1>2, <1>12 DEF IInv, Linked, LinkAfter
<1>16. Headers'
  BY <1>2, <1>12 DEF IInv, Headers, HeaderOf
<1> QED  BY <1>13, <1>14, <1>15, <1>16 DEF IInv

LEMMA NextIInv ==
  ASSUME SmallRequests, IInv, [Next]_vars
  PROVE  IInv'
<1>1. CASE \E size \in Sizes : Malloc(size)
  BY <1>1, MallocIInv
<1>2. CASE MallocMore
  BY <1>2 DEF MallocMore, IInv, WeakType
<1>3. CASE OutOfPages
  <2>1. /\ pc = "run" /\ pc' = "halt"
        /\ UNCHANGED <<free_pages, mem, cur, got, frees, live, flist>>
    BY <1>3 DEF OutOfPages, IInv, WeakType
  <2>2. Holders' = Holders
    BY <2>1 DEF Holders, Returning
  <2> QED  BY <2>1, <2>2 DEF IInv, WeakType, NearPage, OneHolder, SomeHolder,
              Linked, Headers, Drift, InPage, HeaderOf, LinkAfter
<1>4. CASE \E block \in live : Free(block) \/ ClientWrite(block)
  BY <1>4, FreeIInv, ClientWriteIInv
<1>5. CASE FreeMore
  BY <1>5, FreeMoreIInv
<1>6. CASE FreeReturn
  BY <1>6, FreeReturnIInv
<1>7. CASE Halted \/ UNCHANGED vars
  <2>1. UNCHANGED vars
    BY <1>7 DEF Halted
  <2> QED  BY <2>1 DEF vars, IInv, WeakType, NearPage, OneHolder, SomeHolder, Holders,
              Returning, Linked, Headers, Drift, InPage, HeaderOf, LinkAfter
<1> QED  BY <1>1, <1>2, <1>3, <1>4, <1>5, <1>6, <1>7 DEF Next

-----------------------------------------------------------------------------
(***************************************************************************)
(* The theorems.                                                           *)
(***************************************************************************)

\* The inductive invariant holds of memory.c's allocator in every run.
THEOREM HeapInvariant ==
  ASSUME SmallRequests
  PROVE  Spec => []IInv
<1>1. Init => IInv
  BY InitIInv
<1>2. IInv /\ [Next]_vars => IInv'
  BY NextIInv
<1> QED  BY <1>1, <1>2, PTL DEF Spec

LEMMA IInvType ==
  ASSUME SmallRequests, IInv
  PROVE  TypeOK
<1>1. \A i \in DOMAIN flist : flist[i] \in Words
  BY Held
<1>2. flist \in Seq(Words)
  <2>1. /\ flist \in Seq(Nat) /\ Len(flist) \in Nat /\ DOMAIN flist = 1..Len(flist)
        /\ flist \in [1..Len(flist) -> Nat]
    BY LenProperties DEF IInv, WeakType
  <2>2. flist \in [1..Len(flist) -> Words]
    BY <1>1, <2>1
  <2> QED  BY <2>1, <2>2, SeqDef
<1>3. free_pages \in Words
  <2>1. CASE flist = << >>
    BY <2>1, ConstantFacts DEF IInv, Linked, NULL, Words
  <2>2. CASE flist # << >>
    <3>1. 1 \in DOMAIN flist
      BY <2>2, EmptySeq, Held DEF IInv, WeakType
    <3> QED  BY <3>1, <2>2, <1>1 DEF IInv, Linked
  <2> QED  BY <2>1, <2>2
<1> QED  BY <1>2, <1>3 DEF TypeOK, IInv, WeakType

\* Whatever the callers store, the fields of the allocator keep their types:
\* free_pages and every link stay inside memory (memory.c:124-145).
THEOREM TypeCorrect ==
  ASSUME SmallRequests
  PROVE  Spec => []TypeOK
BY HeapInvariant, IInvType, PTL

LEMMA IInvLinked ==
  ASSUME SmallRequests, IInv
  PROVE  FreeListLinked
BY Held DEF IInv, Linked, FreeListLinked

\* The links of the free list, which lie in memory that callers had before,
\* always spell out the pages freed and not allocated since (memory.c:124-145).
THEOREM FreeListCorrect ==
  ASSUME SmallRequests
  PROVE  Spec => []FreeListLinked
BY HeapInvariant, IInvLinked, PTL

LEMMA ExtentInPage ==
  ASSUME SmallRequests, IInv, NEW b \in live, NEW k \in DOMAIN BootPages,
         InPage(HeaderOf(b), k), Drift(HeaderOf(b), k)
  PROVE  \A a \in Extent(b) : a \in Nat /\ InPage(a, k)
<1>1. /\ b.ptr \in Nat /\ b.size \in Nat /\ b.size + 1 + MaxFrees <= PageWords
      /\ b.ptr = HeaderOf(b) + 1 /\ HeaderOf(b) \in Nat
  BY Held, BlockFacts, OnePage DEF Holders
<1>2. /\ BootPages[k] \in Nat /\ PageWords \in Nat
      /\ frees \in Nat /\ frees <= MaxFrees /\ MaxFrees \in Nat
  BY ConstantFacts DEF IInv, WeakType
<1> QED  BY <1>1, <1>2 DEF Extent, InPage, Drift

LEMMA IInvDisjoint ==
  ASSUME SmallRequests, IInv
  PROVE  BlocksDisjoint
<1>1. ASSUME NEW b \in live
      PROVE  \E k \in DOMAIN BootPages :
               /\ InPage(HeaderOf(b), k)
               /\ \A a \in Extent(b) : a \in Nat /\ InPage(a, k)
  BY Held, ExtentInPage DEF Holders
<1>2. ASSUME NEW b \in live, NEW c \in live, b # c
      PROVE  Extent(b) \cap Extent(c) = {}
  <2>1. PICK k \in DOMAIN BootPages :
          InPage(HeaderOf(b), k) /\ \A a \in Extent(b) : a \in Nat /\ InPage(a, k)
    BY <1>1
  <2>2. PICK l \in DOMAIN BootPages :
          InPage(HeaderOf(c), l) /\ \A a \in Extent(c) : a \in Nat /\ InPage(a, l)
    BY <1>1
  <2>3. k # l
    BY <1>2, <2>1, <2>2 DEF IInv, OneHolder, Holders
  <2> QED  BY <2>1, <2>2, <2>3, PagesApart
<1>3. ASSUME NEW b \in live, NEW i \in DOMAIN flist
      PROVE  flist[i] \notin Extent(b)
  <2>1. PICK k \in DOMAIN BootPages :
          InPage(HeaderOf(b), k) /\ \A a \in Extent(b) : a \in Nat /\ InPage(a, k)
    BY <1>1
  <2>2. ~InPage(flist[i], k)
    BY <2>1 DEF IInv, OneHolder, Holders
  <2> QED  BY <2>1, <2>2
<1> QED  BY <1>2, <1>3 DEF BlocksDisjoint

\* No caller can reach the words of another block or the link of a free page
\* through its own block, although free moves page addresses (memory.c:87-122).
THEOREM BlocksStayDisjoint ==
  ASSUME SmallRequests
  PROVE  Spec => []BlocksDisjoint
BY HeapInvariant, IInvDisjoint, PTL

LEMMA IInvHeaders ==
  ASSUME SmallRequests, IInv
  PROVE  HeaderIntact
<1>1. ASSUME NEW b \in Holders
      PROVE  NumPages(b.size) = 1 /\ mem[HeaderOf(b)] = 1
  <2>1. b.size \in Sizes
    BY Held, BlockFacts
  <2> QED  BY <2>1, OnePage DEF Holders, Returning, IInv, Headers
<1> QED  BY <1>1 DEF HeaderIntact, Holders

\* The page count that free reads is the one malloc stored (memory.c:96, 118).
THEOREM HeadersStayIntact ==
  ASSUME SmallRequests
  PROVE  Spec => []HeaderIntact
BY HeapInvariant, IInvHeaders, PTL

LEMMA IInvHeld ==
  ASSUME SmallRequests, IInv
  PROVE  EveryPageHeld
<1>1. ASSUME NEW k \in DOMAIN BootPages, NEW i \in DOMAIN flist, InPage(flist[i], k)
      PROVE  Home(flist[i]) = k
  BY <1>1, Held, HomeOfPage
<1>2. ASSUME NEW k \in DOMAIN BootPages, NEW b \in Holders, InPage(HeaderOf(b), k)
      PROVE  Home(HeaderOf(b)) = k
  BY <1>2, Held, HomeOfPage
<1> QED  BY <1>1, <1>2 DEF IInv, SomeHolder, EveryPageHeld, Holders

\* No page is ever lost: each boot page is free or held (memory.c:87-145).
THEOREM NoPageLost ==
  ASSUME SmallRequests
  PROVE  Spec => []EveryPageHeld
BY HeapInvariant, IInvHeld, PTL

-----------------------------------------------------------------------------
(***************************************************************************)
(* The refinement: seen as a stack of page numbers, the heap is FramePool. *)
(***************************************************************************)

\* The page numbers of a sequence of addresses, and of a set of blocks.
Homes(s) == [i \in DOMAIN s |-> Home(s[i])]
HomesOf(blocks) == {Home(HeaderOf(b)) : b \in blocks}

OnPages(s) ==
  /\ s \in Seq(Nat)
  /\ \A i \in DOMAIN s : \E k \in DOMAIN BootPages : InPage(s[i], k)

LEMMA HomesFacts ==
  ASSUME SmallRequests, NEW s, OnPages(s)
  PROVE  /\ Homes(s) \in Seq(DOMAIN BootPages)
         /\ Len(Homes(s)) = Len(s) /\ Len(s) \in Nat /\ DOMAIN s = 1..Len(s)
         /\ \A i \in 1..Len(s) : Homes(s)[i] = Home(s[i])
<1>1. Len(s) \in Nat /\ DOMAIN s = 1..Len(s) /\ \A i \in DOMAIN s : s[i] \in Nat
  BY LenProperties, ElementOfSeq DEF OnPages
<1>2. \A i \in DOMAIN s : Home(s[i]) \in DOMAIN BootPages
  BY <1>1, HomeOfPage DEF OnPages
<1>3. Homes(s) \in [1..Len(s) -> DOMAIN BootPages]
  BY <1>1, <1>2 DEF Homes
<1>4. Homes(s) \in Seq(DOMAIN BootPages)
  BY <1>1, <1>3, SeqDef
<1>5. Len(Homes(s)) = Len(s)
  BY <1>1, <1>3, <1>4, LenProperties
<1> QED  BY <1>1, <1>4, <1>5 DEF Homes

LEMMA HomesOfTail ==
  ASSUME SmallRequests, NEW s, OnPages(s), s # << >>
  PROVE  /\ Homes(s) # << >>
         /\ Head(Homes(s)) = Home(s[1])
         /\ Homes(Tail(s)) = Tail(Homes(s))
<1> DEFINE L == Len(s)
<1>1. L \in Nat \ {0} /\ s \in Seq(Nat) /\ DOMAIN s = 1..L
  BY HomesFacts, EmptySeq DEF OnPages
<1>2. /\ Tail(s) \in Seq(Nat) /\ Len(Tail(s)) = L - 1 /\ DOMAIN Tail(s) = 1..(L - 1)
      /\ \A i \in 1..(L - 1) : Tail(s)[i] = s[i + 1] /\ i + 1 \in 1..L
  BY <1>1, TailFacts, LenProperties
<1>3. OnPages(Tail(s))
  BY SMTT(20), <1>1, <1>2 DEF OnPages
<1>4. /\ Homes(s) \in Seq(DOMAIN BootPages) /\ Len(Homes(s)) = L
      /\ \A i \in 1..L : Homes(s)[i] = Home(s[i])
  BY HomesFacts
<1>5. Homes(s) # << >> /\ Head(Homes(s)) = Home(s[1])
  BY <1>1, <1>4, EmptySeq
<1>6. /\ Tail(Homes(s)) \in Seq(DOMAIN BootPages) /\ Len(Tail(Homes(s))) = L - 1
      /\ \A i \in 1..(L - 1) : Tail(Homes(s))[i] = Homes(s)[i + 1]
  BY <1>4, <1>5, TailFacts
<1>7. /\ Homes(Tail(s)) \in Seq(DOMAIN BootPages) /\ Len(Homes(Tail(s))) = L - 1
      /\ \A i \in 1..(L - 1) : Homes(Tail(s))[i] = Home(Tail(s)[i])
  BY <1>2, <1>3, HomesFacts
<1>8. \A i \in 1..(L - 1) : Homes(Tail(s))[i] = Tail(Homes(s))[i]
  BY <1>2, <1>4, <1>6, <1>7
<1>9. Homes(Tail(s)) = Tail(Homes(s))
  BY <1>6, <1>7, <1>8, SeqEqual
<1> QED  BY <1>5, <1>9

LEMMA HomesOfCons ==
  ASSUME SmallRequests, NEW s, OnPages(s),
         NEW x \in Nat, NEW k \in DOMAIN BootPages, InPage(x, k)
  PROVE  Homes(<<x>> \o s) = <<k>> \o Homes(s)
<1> DEFINE L == Len(s)
           t == <<x>> \o s
<1>1. s \in Seq(Nat) /\ L \in Nat
  BY HomesFacts DEF OnPages
<1>2. /\ t \in Seq(Nat) /\ Len(t) = L + 1 /\ DOMAIN t = 1..(L + 1) /\ t[1] = x
      /\ \A i \in 2..(L + 1) : t[i] = s[i - 1] /\ i - 1 \in 1..L
  BY <1>1, ConsFacts, LenProperties
<1>3. DOMAIN s = 1..L
  BY HomesFacts
<1>4. OnPages(t)
  <2>1. ASSUME NEW i \in 1..(L + 1)
        PROVE  \E l \in DOMAIN BootPages : InPage(t[i], l)
    <3>1. CASE i = 1
      BY <3>1, <1>2
    <3>2. CASE i # 1
      <4>1. i \in 2..(L + 1)
        BY <3>2, <1>1
      <4>2. t[i] = s[i - 1] /\ i - 1 \in DOMAIN s
        BY <4>1, <1>2, <1>3
      <4> HIDE DEF t
      <4> QED  BY <4>2 DEF OnPages
    <3> QED  BY <3>1, <3>2
  <2> QED  BY <1>2, <2>1 DEF OnPages
<1>5. /\ Homes(t) \in Seq(DOMAIN BootPages) /\ Len(Homes(t)) = L + 1
      /\ \A i \in 1..(L + 1) : Homes(t)[i] = Home(t[i])
  BY <1>2, <1>4, HomesFacts
<1>6. /\ Homes(s) \in Seq(DOMAIN BootPages) /\ Len(Homes(s)) = L
      /\ \A i \in 1..L : Homes(s)[i] = Home(s[i])
  BY HomesFacts
<1>7. /\ <<k>> \o Homes(s) \in Seq(DOMAIN BootPages) /\ Len(<<k>> \o Homes(s)) = L + 1
      /\ (<<k>> \o Homes(s))[1] = k
      /\ \A i \in 2..(L + 1) : (<<k>> \o Homes(s))[i] = Homes(s)[i - 1]
  BY <1>6, ConsFacts
<1>8. Home(x) = k
  BY HomeOfPage
<1>9. ASSUME NEW i \in 1..(L + 1)
      PROVE  Homes(t)[i] = (<<k>> \o Homes(s))[i]
  <2>1. CASE i = 1
    BY <2>1, <1>1, <1>2, <1>5, <1>7, <1>8
  <2>2. CASE i # 1
    <3>1. i \in 2..(L + 1) /\ i - 1 \in 1..L
      BY <2>2, <1>1
    <3> QED  BY <3>1, <1>2, <1>5, <1>6, <1>7
  <2> QED  BY <2>1, <2>2
<1> QED  BY <1>5, <1>7, <1>9, SeqEqual

LEMMA FreeListOnPages ==
  ASSUME SmallRequests, IInv
  PROVE  OnPages(flist)
BY Held DEF OnPages, IInv, WeakType

LEMMA InitRefines ==
  ASSUME SmallRequests, Init
  PROVE  Pool!PoolInit
<1> DEFINE N == Len(BootPages)
<1>1. /\ N \in Nat /\ DOMAIN BootPages = 1..N
      /\ \A k \in 1..N : BootPages[k] \in Nat /\ InPage(BootPages[k], k)
  BY ConstantFacts DEF InPage
<1>2. flist = [i \in 1..N |-> BootPages[N - i + 1]]
  BY <1>1 DEF Init, InitialList
<1>3. \A i \in 1..N : Home(flist[i]) = N - i + 1
  <2> SUFFICES ASSUME NEW i \in 1..N  PROVE  Home(flist[i]) = N - i + 1
    OBVIOUS
  <2>1. N \in Nat
    BY <1>1
  <2>2. N - i + 1 \in 1..N /\ flist[i] = BootPages[N - i + 1]
    BY <2>1, <1>2
  <2>3. /\ N - i + 1 \in DOMAIN BootPages /\ BootPages[N - i + 1] \in Nat
        /\ InPage(BootPages[N - i + 1], N - i + 1)
    BY <2>2, <1>1
  <2> QED  BY <2>2, <2>3, HomeOfPage
<1>4. [i \in DOMAIN flist |-> Home(flist[i])] = [i \in 1..N |-> N - i + 1]
  BY <1>2, <1>3
<1>5. live \cup Returning = {} /\ pc = "run"
  BY DEF Init, Returning
<1> QED  BY <1>4, <1>5 DEF Pool!PoolInit, Pool!Frames

LEMMA MallocRefines ==
  ASSUME SmallRequests, IInv, NEW size \in Sizes, Malloc(size)
  PROVE  Pool!Take
<1> DEFINE block == [ptr |-> free_pages + 1, size |-> size]
<1>1. /\ flist # << >> /\ free_pages = flist[1] /\ flist' = Tail(flist)
      /\ 1 \in DOMAIN flist
  BY Held, EmptySeq DEF Malloc, alloc_page, IInv, Linked, WeakType
<1>2. /\ pc = "run" /\ pc' = "run" /\ live' = live \cup {block}
  <2>1. NumPages(block.size) = 1
    BY OnePage
  <2> QED  BY <2>1 DEF Malloc, Taken
<1>3. HeaderOf(block) = flist[1]
  BY <1>1, Held DEF HeaderOf
<1>4. Holders = live /\ Holders' = live \cup {block}
  BY <1>2 DEF Holders, Returning
<1>5. /\ Homes(flist) # << >> /\ Head(Homes(flist)) = Home(flist[1])
      /\ Homes(flist') = Tail(Homes(flist))
  BY <1>1, FreeListOnPages, HomesOfTail
<1>6. HomesOf(Holders') = HomesOf(Holders) \cup {Head(Homes(flist))}
  BY <1>3, <1>4, <1>5 DEF HomesOf
<1> QED  BY <1>2, <1>5, <1>6 DEF Pool!Take, Homes, HomesOf, Holders

LEMMA FreeMoreRefines ==
  ASSUME SmallRequests, IInv, FreeMore
  PROVE  Pool!Give
<1>1. /\ pc = "free" /\ got = 0 /\ got' = 1 /\ pc' = pc /\ cur' = cur /\ live' = live
      /\ cur \notin live /\ cur \in Blocks
  BY DEF FreeMore, IInv, Headers, WeakType
<1>2. flist' = <<cur.ptr>> \o flist
  <2>1. FreedPage(cur, got) = cur.ptr
    BY <1>1, BlockFacts, ConstantFacts DEF FreedPage
  <2> QED  BY <2>1 DEF FreeMore, free_page
<1>3. PICK k \in DOMAIN BootPages : Drift(HeaderOf(cur), k) /\ Drift(cur.ptr, k)
  BY <1>1 DEF IInv, NearPage
<1>4. /\ cur.ptr \in Nat /\ HeaderOf(cur) \in Nat
      /\ InPage(cur.ptr, k) /\ InPage(HeaderOf(cur), k)
  BY <1>1, <1>3, BlockFacts, DriftStays DEF IInv
<1>5. Homes(flist') = <<k>> \o Homes(flist)
  BY <1>2, <1>4, FreeListOnPages, HomesOfCons
<1>6. Holders = live \cup {cur} /\ Holders' = live
  BY <1>1 DEF Holders, Returning
<1>7. Home(HeaderOf(cur)) = k
  BY <1>4, HomeOfPage
<1>8. ASSUME NEW b \in live
      PROVE  Home(HeaderOf(b)) # k
  <2>1. PICK l \in DOMAIN BootPages : InPage(HeaderOf(b), l)
    BY <1>6, Held
  <2>2. l # k
    BY <2>1, <1>1, <1>4, <1>6 DEF IInv, OneHolder
  <2>3. Home(HeaderOf(b)) = l
    BY <2>1, <1>6, Held, HomeOfPage
  <2> QED  BY <2>2, <2>3
<1>9. k \in HomesOf(Holders) /\ HomesOf(Holders') = HomesOf(Holders) \ {k}
  BY <1>6, <1>7, <1>8 DEF HomesOf
<1>10. /\ ~(pc = "halt") /\ (pc = "halt") = (pc' = "halt")
  BY <1>1
<1> QED  BY <1>5, <1>9, <1>10 DEF Pool!Give, Homes, HomesOf, Holders

LEMMA OtherRefines ==
  ASSUME SmallRequests, IInv,
         (\E block \in live : Free(block) \/ ClientWrite(block)) \/ FreeReturn
  PROVE  UNCHANGED Pool!poolVars
<1>1. flist' = flist
  BY DEF Free, ClientWrite, FreeReturn
<1>2. Holders' = Holders
  BY DEF Free, ClientWrite, FreeReturn, Holders, Returning, IInv, Headers
<1>3. (pc' = "halt") = (pc = "halt")
  BY DEF Free, ClientWrite, FreeReturn
<1> QED  BY <1>1, <1>2, <1>3 DEF Pool!poolVars, Holders

LEMMA NextRefines ==
  ASSUME SmallRequests, IInv, [Next]_vars
  PROVE  [Pool!PoolNext]_(Pool!poolVars)
<1>1. CASE \E size \in Sizes : Malloc(size)
  BY <1>1, MallocRefines DEF Pool!PoolNext
<1>2. CASE MallocMore
  BY <1>2 DEF MallocMore, IInv, WeakType
<1>3. CASE OutOfPages
  <2>1. flist = << >>
    <3>1. flist # << >> => 1 \in DOMAIN flist
      BY Held, EmptySeq DEF IInv, WeakType
    <3> QED  BY <3>1, <1>3, Held DEF OutOfPages, IInv, Linked, NULL
  <2>2. pc = "run" /\ pc' = "halt" /\ flist' = flist /\ live' = live
    BY <1>3 DEF OutOfPages, IInv, WeakType
  <2>3. Homes(flist) = << >>
    BY <2>1, FreeListOnPages, HomesFacts, EmptySeq
  <2>4. Returning' = Returning
    BY <2>2 DEF Returning
  <2> QED  BY <2>2, <2>3, <2>4 DEF Pool!PoolNext, Pool!Stop, Homes
<1>4. CASE (\E block \in live : Free(block) \/ ClientWrite(block)) \/ FreeReturn
  BY <1>4, OtherRefines
<1>5. CASE FreeMore
  BY <1>5, FreeMoreRefines DEF Pool!PoolNext
<1>6. CASE Halted \/ UNCHANGED vars
  <2>1. UNCHANGED vars
    BY <1>6 DEF Halted
  <2> QED  BY <2>1 DEF vars, Pool!poolVars, Returning
<1> QED  BY <1>1, <1>2, <1>3, <1>4, <1>5, <1>6 DEF Next

\* The heap implements FramePool: seen as page numbers, its list is a stack on
\* which a page is pushed only by the caller that holds it, and a page is taken
\* from it by one caller at a time, until it is empty (memory.c:87-145).
THEOREM HeapImplementsFramePool ==
  ASSUME SmallRequests
  PROVE  Spec => ImplementsFramePool
<1>1. Init => Pool!PoolInit
  BY InitRefines
<1>2. IInv /\ [Next]_vars => [Pool!PoolNext]_(Pool!poolVars)
  BY NextRefines
<1> QED  BY <1>1, <1>2, HeapInvariant, PTL DEF Spec, ImplementsFramePool, Pool!PoolSpec

=============================================================================

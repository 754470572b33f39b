---------------------------- MODULE LibraryProofs ----------------------------
(***************************************************************************)
(* Proofs about Library and Printf for memories, byte values, widths of    *)
(* numbers and bases of any size.                                          *)
(***************************************************************************)
EXTENDS Printf, FiniteSetTheorems, FunctionTheorems, SequenceTheorems,
        NaturalsInduction, TLAPS

-----------------------------------------------------------------------------
(***************************************************************************)
(* Induction goes over a least counterexample.                             *)
(***************************************************************************)

LEMMA LeastNumber ==
  ASSUME NEW T, T \subseteq Nat, T # {}
  PROVE  \E n \in T : \A m \in T : n <= m
<1>1. \E n \in T : \A m \in T : <<m, n>> \notin OpToRel(<, Nat)
  BY NatLessThanWellFounded, WFMin
<1>2. \A m, n \in Nat : m < n => <<m, n>> \in OpToRel(<, Nat)
  BY DEF OpToRel
<1>3. \E n \in T : \A m \in T : ~(m < n)
  BY <1>1, <1>2
<1> QED  BY <1>3

\* A set of numbers with 0 and with the next of each of its numbers below n
\* has all the numbers up to n.
LEMMA UpTo ==
  ASSUME NEW n \in Nat, NEW T, 0 \in T, \A m \in 0..(n - 1) : m \in T => m + 1 \in T
  PROVE  0..n \subseteq T
<1> DEFINE Bad == (0..n) \ T
<1>1. ASSUME Bad # {}
      PROVE  FALSE
  <2>1. Bad \subseteq Nat
    OBVIOUS
  <2>2. PICK b \in Bad : \A m \in Bad : b <= m
    BY <1>1, <2>1, LeastNumber
  <2>3. b # 0 /\ b - 1 \in 0..(n - 1) /\ b - 1 \notin Bad /\ (b - 1) + 1 = b
    BY <2>2
  <2> QED  BY <2>2, <2>3
<1> QED  BY <1>1

-----------------------------------------------------------------------------
(***************************************************************************)
(* Folds.  FoldLeft goes over sets of places and takes the largest place   *)
(* last, so after k places of a sequence it stands at 1..k.                *)
(***************************************************************************)

Largest(s) == Max(s)
WithoutLargest(s) == s \ {Largest(s)}

LEMMA LargestOf ==
  ASSUME NEW s, s \subseteq Nat, NEW k \in s, \A j \in s : j <= k
  PROVE  Largest(s) = k
<1>1. \A x \in s : (\A y \in s : x >= y) => x = k
  <2>1. ASSUME NEW x \in s, \A y \in s : x >= y
        PROVE  x = k
    <3>1. x >= k /\ x <= k /\ x \in Nat /\ k \in Nat
      BY <2>1
    <3> QED  BY <3>1
  <2> QED  BY <2>1
<1>2. \A y \in s : k >= y
  OBVIOUS
<1>3. Max(s) \in s /\ \A y \in s : Max(s) >= y
  BY <1>2 DEF Max
<1> QED  BY <1>1, <1>3 DEF Largest

LEMMA LargestPlace ==
  ASSUME NEW k \in Nat
  PROVE  /\ Largest(1..(k + 1)) = k + 1
         /\ WithoutLargest(1..(k + 1)) = 1..k
         /\ 1..(k + 1) # {}
<1>1. /\ 1..(k + 1) \subseteq Nat
      /\ k + 1 \in 1..(k + 1)
      /\ \A j \in 1..(k + 1) : j <= k + 1
  OBVIOUS
<1>2. Largest(1..(k + 1)) = k + 1
  BY <1>1, LargestOf
<1>3. (1..(k + 1)) \ {k + 1} = 1..k
  OBVIOUS
<1>4. ~(1..(k + 1) = {})
  BY <1>1
<1> QED  BY <1>2, <1>3, <1>4 DEF WithoutLargest

\* it folds step over every set of the places 1..n.
Folds_(it, n, base, step) ==
  it = [s \in SUBSET (1..n) |->
          IF s = {} THEN base ELSE step[<<it[WithoutLargest(s)], Largest(s)>>]]

FoldsAt(it, s, base, step) ==
  /\ s = {} => it[s] = base
  /\ s # {} => it[s] = step[<<it[WithoutLargest(s)], Largest(s)>>]

LEMMA FoldsEverywhere ==
  ASSUME NEW it, NEW n, NEW base, NEW step, Folds_(it, n, base, step),
         NEW s \in SUBSET (1..n)
  PROVE  FoldsAt(it, s, base, step)
BY DEF Folds_, FoldsAt

\* A fold over sets of places up to n + 1 from one over those up to n.
LEMMA WithoutLargestBelow ==
  ASSUME NEW n \in Nat, NEW s \in SUBSET (1..(n + 1))
  PROVE  /\ n + 1 \in s => WithoutLargest(s) \in SUBSET (1..n) /\ Largest(s) = n + 1
         /\ n + 1 \notin s => s \in SUBSET (1..n)
         /\ WithoutLargest(s) \in SUBSET s
<1>1. ASSUME n + 1 \in s
      PROVE  Largest(s) = n + 1
  <2>1. s \subseteq Nat /\ \A j \in s : j <= n + 1
    OBVIOUS
  <2> QED  BY <1>1, <2>1, LargestOf
<1>2. ASSUME NEW j \in s, j # n + 1
      PROVE  j \in 1..n
  BY <1>2
<1>3. n + 1 \notin s => s \in SUBSET (1..n)
  BY <1>2
<1>4. n + 1 \in s => s \ {n + 1} \in SUBSET (1..n)
  BY <1>2
<1> QED  BY <1>1, <1>3, <1>4 DEF WithoutLargest

LEMMA FoldsGrow ==
  ASSUME NEW V, NEW n \in Nat, NEW base \in V, NEW step,
         \A v \in V, i \in 1..(n + 1) : step[<<v, i>>] \in V,
         NEW it \in [SUBSET (1..n) -> V], Folds_(it, n, base, step)
  PROVE  \E g \in [SUBSET (1..(n + 1)) -> V] : Folds_(g, n + 1, base, step)
<1> DEFINE new(s) == step[<<it[WithoutLargest(s)], Largest(s)>>]
           g == [s \in SUBSET (1..(n + 1)) |-> IF n + 1 \in s THEN new(s) ELSE it[s]]
<1>1. ASSUME NEW s \in SUBSET (1..(n + 1)), n + 1 \in s
      PROVE  /\ WithoutLargest(s) \in SUBSET (1..n) /\ WithoutLargest(s) \in SUBSET (1..(n + 1))
             /\ g[s] = new(s) /\ g[WithoutLargest(s)] = it[WithoutLargest(s)] /\ new(s) \in V
  <2>1. WithoutLargest(s) \in SUBSET (1..n) /\ Largest(s) = n + 1
    BY <1>1, WithoutLargestBelow
  <2>2. WithoutLargest(s) \in SUBSET (1..n)
    BY <2>1
  <2>3. WithoutLargest(s) \in SUBSET (1..(n + 1)) /\ n + 1 \notin WithoutLargest(s)
    BY <2>2
  <2>4. it[WithoutLargest(s)] \in V /\ n + 1 \in 1..(n + 1)
    BY <2>2
  <2>5. new(s) \in V
    BY <2>1, <2>4
  <2> HIDE DEF new
  <2> QED  BY <1>1, <2>2, <2>3, <2>5
<1>2. ASSUME NEW s \in SUBSET (1..(n + 1)), n + 1 \notin s
      PROVE  /\ g[s] = it[s] /\ it[s] \in V
             /\ s # {} => g[WithoutLargest(s)] = it[WithoutLargest(s)]
             /\ it[s] = IF s = {} THEN base ELSE new(s)
  <2>1. s \in SUBSET (1..n) /\ WithoutLargest(s) \in SUBSET s
    BY <1>2, WithoutLargestBelow
  <2>2. it[s] = IF s = {} THEN base ELSE new(s)
    <3>1. s \in SUBSET (1..n)
      BY <2>1
    <3>2. FoldsAt(it, s, base, step)
      BY <3>1, FoldsEverywhere
    <3> QED  BY <3>2 DEF FoldsAt
  <2>3. WithoutLargest(s) \in SUBSET (1..(n + 1)) /\ n + 1 \notin WithoutLargest(s)
    BY <1>2, <2>1
  <2> HIDE DEF new
  <2> QED  BY <1>2, <2>1, <2>2, <2>3
<1>3. ASSUME NEW s \in SUBSET (1..(n + 1))
      PROVE  /\ g[s] = IF s = {} THEN base ELSE step[<<g[WithoutLargest(s)], Largest(s)>>]
             /\ g[s] \in V
  <2>1. CASE n + 1 \in s
    <3>1. s # {}
      BY <2>1
    <3>2. g[s] = new(s) /\ g[WithoutLargest(s)] = it[WithoutLargest(s)] /\ new(s) \in V
      BY <2>1, <1>1
    <3> HIDE DEF g
    <3> QED  BY <3>1, <3>2
  <2>2. CASE n + 1 \notin s
    <3>2. /\ g[s] = it[s] /\ it[s] \in V
          /\ s # {} => g[WithoutLargest(s)] = it[WithoutLargest(s)]
          /\ it[s] = IF s = {} THEN base ELSE new(s)
      BY <2>2, <1>2
    <3> HIDE DEF g
    <3> QED  BY <3>2
  <2> QED  BY <2>1, <2>2
<1>4. g = [s \in SUBSET (1..(n + 1)) |-> g[s]]
  OBVIOUS
<1> HIDE DEF g
<1>5. g \in [SUBSET (1..(n + 1)) -> V]
  BY <1>3, <1>4
<1>6. Folds_(g, n + 1, base, step)
  BY <1>3, <1>4 DEF Folds_
<1> QED  BY <1>5, <1>6

LEMMA FoldsExist ==
  ASSUME NEW V, NEW n \in Nat, NEW base \in V, NEW step,
         \A v \in V, i \in 1..n : step[<<v, i>>] \in V
  PROVE  \E it \in [SUBSET (1..n) -> V] : Folds_(it, n, base, step)
<1> DEFINE Good == {m \in 0..n : \E it \in [SUBSET (1..m) -> V] : Folds_(it, m, base, step)}
<1>1. 0 \in Good
  <2> DEFINE it == [s \in SUBSET (1..0) |-> base]
  <2>1. it \in [SUBSET (1..0) -> V] /\ Folds_(it, 0, base, step)
    BY DEF Folds_
  <2> QED  BY <2>1
<1>2. ASSUME NEW m \in 0..(n - 1), m \in Good
      PROVE  m + 1 \in Good
  <2>1. PICK it \in [SUBSET (1..m) -> V] : Folds_(it, m, base, step)
    BY <1>2
  <2>2. \A v \in V, i \in 1..(m + 1) : step[<<v, i>>] \in V
    <3>1. 1..(m + 1) \subseteq 1..n
      OBVIOUS
    <3> QED  BY <3>1
  <2>0. m \in Nat /\ m + 1 \in 0..n
    OBVIOUS
  <2>3. \E g \in [SUBSET (1..(m + 1)) -> V] : Folds_(g, m + 1, base, step)
    BY <2>0, <2>1, <2>2, FoldsGrow
  <2> QED  BY <2>0, <2>3
<1>3. 0..n \subseteq Good
  <2> HIDE DEF Good
  <2> QED  BY <1>1, <1>2, UpTo
<1>4. n \in 0..n
  OBVIOUS
<1> QED  BY <1>3, <1>4

LEMMA LargestInside ==
  ASSUME NEW n \in Nat, NEW s \in SUBSET (1..n), s # {}
  PROVE  Largest(s) \in s /\ Largest(s) \in 1..n
<1> DEFINE T == {n - j : j \in s}
<1>1. T \subseteq Nat /\ T # {}
  OBVIOUS
<1>2. PICK k \in T : \A j \in T : k <= j
  BY <1>1, LeastNumber
<1>3. PICK l \in s : k = n - l
  OBVIOUS
<1>4. ASSUME NEW j \in s
      PROVE  j <= l
  <2>1. n - j \in T /\ j \in Nat /\ l \in Nat
    OBVIOUS
  <2> QED  BY <1>2, <1>3, <2>1
<1>5. s \subseteq Nat
  OBVIOUS
<1>6. Largest(s) = l
  BY <1>4, <1>5, LargestOf
<1> QED  BY <1>6

-----------------------------------------------------------------------------
(***************************************************************************)
(* Copying and filling bytes.                                              *)
(***************************************************************************)

Contents == [Addresses -> Bytes]

\* The copy of the byte at an offset, and the fold of such copies.
CopyAt(v, d, s, o) == [v EXCEPT ![d + o] = v[s + o]]

CopyFolds(it, m, d, s, offsets, n) ==
  it = [t \in SUBSET (1..n) |->
          IF t = {} THEN m
          ELSE CopyAt(it[WithoutLargest(t)], d, s, offsets[Largest(t)])]

LEMMA CopyFoldsExist ==
  ASSUME NEW n \in Nat, NEW m \in Contents, NEW d, NEW s, NEW offsets,
         \A i \in 1..n : s + offsets[i] \in Addresses
  PROVE  \E it : CopyFolds(it, m, d, s, offsets, n)
<1> DEFINE step == [x \in Contents \X (1..n) |-> CopyAt(x[1], d, s, offsets[x[2]])]
<1>1. ASSUME NEW v \in Contents, NEW i \in 1..n
      PROVE  step[<<v, i>>] = CopyAt(v, d, s, offsets[i]) /\ step[<<v, i>>] \in Contents
  <2>1. step[<<v, i>>] = CopyAt(v, d, s, offsets[i])
    OBVIOUS
  <2>2. v[s + offsets[i]] \in Bytes
    BY DEF Contents
  <2>3. CopyAt(v, d, s, offsets[i]) \in Contents
    BY <2>2 DEF CopyAt, Contents
  <2> QED  BY <2>1, <2>3
<1> HIDE DEF step
<1>2. PICK it \in [SUBSET (1..n) -> Contents] : Folds_(it, n, m, step)
  BY <1>1, FoldsExist
<1>3. ASSUME NEW t \in SUBSET (1..n)
      PROVE  it[t] = IF t = {} THEN m
                     ELSE CopyAt(it[WithoutLargest(t)], d, s, offsets[Largest(t)])
  <2>1. /\ t = {} => it[t] = m
        /\ t # {} => it[t] = step[<<it[WithoutLargest(t)], Largest(t)>>]
    <3>1. FoldsAt(it, t, m, step)
      BY <1>2, FoldsEverywhere
    <3> QED  BY <3>1 DEF FoldsAt
  <2>2. ASSUME t # {}
        PROVE  it[WithoutLargest(t)] \in Contents /\ Largest(t) \in 1..n
    <3>1. WithoutLargest(t) \in SUBSET (1..n)
      BY DEF WithoutLargest
    <3> QED  BY <2>2, <3>1, LargestInside
  <2> QED  BY <1>1, <2>1, <2>2
<1>4. it = [t \in SUBSET (1..n) |-> it[t]]
  OBVIOUS
<1> QED  BY <1>3, <1>4 DEF CopyFolds

LEMMA CopyBytesFolds ==
  ASSUME NEW n \in Nat, NEW m, NEW d, NEW s, NEW offsets, DOMAIN offsets = 1..n
  PROVE  CopyBytes(m, d, s, offsets)
           = (CHOOSE it : CopyFolds(it, m, d, s, offsets, n))[1..n]
BY DEF CopyBytes, FoldLeft, MapThenFoldSet, CopyFolds, CopyAt, Largest, WithoutLargest

\* A copy follows the contents w[0], ..., w[n] that its single steps lead to.
LEMMA CopySteps ==
  ASSUME NEW n \in Nat, NEW m \in Contents, NEW d, NEW s, NEW offsets,
         DOMAIN offsets = 1..n,
         \A i \in 1..n : s + offsets[i] \in Addresses,
         NEW w, w[0] = m,
         \A k \in 0..(n - 1) : w[k + 1] = CopyAt(w[k], d, s, offsets[k + 1])
  PROVE  CopyBytes(m, d, s, offsets) = w[n]
<1>1. PICK it : CopyFolds(it, m, d, s, offsets, n) /\ CopyBytes(m, d, s, offsets) = it[1..n]
  BY CopyFoldsExist, CopyBytesFolds
<1>2. ASSUME NEW t \in SUBSET (1..n)
      PROVE  it[t] = IF t = {} THEN m
                     ELSE CopyAt(it[WithoutLargest(t)], d, s, offsets[Largest(t)])
  BY <1>1 DEF CopyFolds
<1> DEFINE Good == {k \in 0..n : it[1..k] = w[k]}
<1>3. 0 \in Good
  <2>1. 1..0 = {} /\ {} \in SUBSET (1..n) /\ 0 \in 0..n
    OBVIOUS
  <2>2. it[{}] = w[0]
    BY <1>2, <2>1
  <2> QED  BY <2>1, <2>2
<1>4. ASSUME NEW k \in 0..(n - 1), k \in Good
      PROVE  k + 1 \in Good
  <2>1. k \in Nat /\ k + 1 \in 0..n /\ 1..(k + 1) \in SUBSET (1..n)
    OBVIOUS
  <2>2. it[1..(k + 1)] = CopyAt(it[1..k], d, s, offsets[k + 1])
    BY <1>2, <2>1, LargestPlace
  <2> QED  BY <1>4, <2>1, <2>2
<1>5. 0..n \subseteq Good /\ n \in 0..n
  <2> HIDE DEF Good
  <2> QED  BY <1>3, <1>4, UpTo
<1> QED  BY <1>1, <1>5

\* The same for memset, which visits rising offsets.
PutAt(v, p, value) == [v EXCEPT ![p] = value]

PutFolds(it, m, p, value, n) ==
  it = [t \in SUBSET (1..n) |->
          IF t = {} THEN m
          ELSE PutAt(it[WithoutLargest(t)], p + Rising(n)[Largest(t)], value)]

LEMMA PutFoldsExist ==
  ASSUME NEW n \in Nat, NEW m \in Contents, NEW p, NEW value \in Bytes
  PROVE  \E it : PutFolds(it, m, p, value, n)
<1> DEFINE step == [x \in Contents \X (1..n) |-> PutAt(x[1], p + Rising(n)[x[2]], value)]
<1>1. ASSUME NEW v \in Contents, NEW i \in 1..n
      PROVE  /\ step[<<v, i>>] = PutAt(v, p + Rising(n)[i], value)
             /\ step[<<v, i>>] \in Contents
  <2>1. step[<<v, i>>] = PutAt(v, p + Rising(n)[i], value)
    OBVIOUS
  <2>2. PutAt(v, p + Rising(n)[i], value) \in Contents
    BY DEF PutAt, Contents
  <2> QED  BY <2>1, <2>2
<1> HIDE DEF step
<1>2. PICK it \in [SUBSET (1..n) -> Contents] : Folds_(it, n, m, step)
  BY <1>1, FoldsExist
<1>3. ASSUME NEW t \in SUBSET (1..n)
      PROVE  it[t] = IF t = {} THEN m
                     ELSE PutAt(it[WithoutLargest(t)], p + Rising(n)[Largest(t)], value)
  <2>1. /\ t = {} => it[t] = m
        /\ t # {} => it[t] = step[<<it[WithoutLargest(t)], Largest(t)>>]
    <3>1. FoldsAt(it, t, m, step)
      BY <1>2, FoldsEverywhere
    <3> QED  BY <3>1 DEF FoldsAt
  <2>2. ASSUME t # {}
        PROVE  it[WithoutLargest(t)] \in Contents /\ Largest(t) \in 1..n
    <3>1. WithoutLargest(t) \in SUBSET (1..n)
      BY DEF WithoutLargest
    <3> QED  BY <2>2, <3>1, LargestInside
  <2> QED  BY <1>1, <2>1, <2>2
<1>4. it = [t \in SUBSET (1..n) |-> it[t]]
  OBVIOUS
<1> QED  BY <1>3, <1>4 DEF PutFolds

LEMMA memsetFolds ==
  ASSUME NEW n \in Nat, NEW m, NEW p, NEW value
  PROVE  memset(m, p, value, n) = (CHOOSE it : PutFolds(it, m, p, value, n))[1..n]
<1>1. DOMAIN Rising(n) = 1..n
  BY DEF Rising
<1> QED  BY <1>1 DEF memset, FoldLeft, MapThenFoldSet, PutFolds, PutAt, Largest, WithoutLargest

LEMMA PutSteps ==
  ASSUME NEW n \in Nat, NEW m \in Contents, NEW p, NEW value \in Bytes,
         NEW w, w[0] = m,
         \A k \in 0..(n - 1) : w[k + 1] = PutAt(w[k], p + k, value)
  PROVE  memset(m, p, value, n) = w[n]
<1>1. PICK it : PutFolds(it, m, p, value, n) /\ memset(m, p, value, n) = it[1..n]
  BY PutFoldsExist, memsetFolds
<1>2. ASSUME NEW t \in SUBSET (1..n)
      PROVE  it[t] = IF t = {} THEN m
                     ELSE PutAt(it[WithoutLargest(t)], p + Rising(n)[Largest(t)], value)
  BY <1>1 DEF PutFolds
<1> DEFINE Good == {k \in 0..n : it[1..k] = w[k]}
<1>3. 0 \in Good
  <2>1. 1..0 = {} /\ {} \in SUBSET (1..n) /\ 0 \in 0..n
    OBVIOUS
  <2>2. it[{}] = w[0]
    BY <1>2, <2>1
  <2> QED  BY <2>1, <2>2
<1>4. ASSUME NEW k \in 0..(n - 1), k \in Good
      PROVE  k + 1 \in Good
  <2>1. /\ k \in Nat /\ k + 1 \in 0..n /\ 1..(k + 1) \in SUBSET (1..n)
        /\ k + 1 \in 1..n /\ (k + 1) - 1 = k
    OBVIOUS
  <2>2. Rising(n)[k + 1] = k
    BY <2>1 DEF Rising
  <2>3. it[1..(k + 1)] = PutAt(it[1..k], p + k, value)
    <3>1. /\ 1..(k + 1) # {} /\ Largest(1..(k + 1)) = k + 1
          /\ WithoutLargest(1..(k + 1)) = 1..k
      BY <2>1, LargestPlace
    <3> QED  BY <1>2, <2>1, <2>2, <3>1
  <2> QED  BY <1>4, <2>1, <2>3
<1>5. 0..n \subseteq Good /\ n \in 0..n
  <2> HIDE DEF Good
  <2> QED  BY <1>3, <1>4, UpTo
<1> QED  BY <1>1, <1>5

-----------------------------------------------------------------------------
\* What copying and filling do to the memory, at a glance.
Moved(m, d, s, n) ==
  [a \in Addresses |-> IF d <= a /\ a < d + n THEN m[s + (a - d)] ELSE m[a]]

Filled(m, p, value, n) ==
  [a \in Addresses |-> IF p <= a /\ a < p + n THEN value ELSE m[a]]

LEMMA memsetFills ==
  ASSUME NEW m \in Contents, NEW p \in Nat, NEW n \in Nat, Fits(p, n), NEW value \in Bytes
  PROVE  memset(m, p, value, n) = Filled(m, p, value, n)
<1> DEFINE w == [k \in 0..n |-> Filled(m, p, value, k)]
<1>1. w[0] = m
  <2>1. Filled(m, p, value, 0) = m
    BY DEF Filled, Contents, Addresses
  <2> QED  BY <2>1
<1>2. ASSUME NEW k \in 0..(n - 1)
      PROVE  w[k + 1] = PutAt(w[k], p + k, value)
  <2>1. p + k \in Addresses
    BY LibraryAssumption DEF Addresses, Fits
  <2>2. Filled(m, p, value, k + 1) = PutAt(Filled(m, p, value, k), p + k, value)
    <3>1. \A a \in Addresses : p <= a /\ a < p + (k + 1) <=> a = p + k \/ (p <= a /\ a < p + k)
      BY DEF Addresses
    <3>2. \A a \in Addresses : Filled(m, p, value, k + 1)[a]
                                = IF a = p + k THEN value ELSE Filled(m, p, value, k)[a]
      BY <3>1 DEF Filled
    <3>3. DOMAIN Filled(m, p, value, k) = Addresses
      BY DEF Filled
    <3>4. Filled(m, p, value, k + 1) = [a \in Addresses |-> Filled(m, p, value, k + 1)[a]]
      BY DEF Filled
    <3> QED  BY <2>1, <3>2, <3>3, <3>4 DEF PutAt
  <2> QED  BY <2>2
<1>3. w[n] = Filled(m, p, value, n)
  OBVIOUS
<1> HIDE DEF w
<1> QED  BY <1>1, <1>2, <1>3, PutSteps

\* Upwards, the bytes still to be read are not overwritten if the source does
\* not begin below the destination, or ends before it.
LEMMA RisingMoves ==
  ASSUME NEW m \in Contents, NEW d \in Nat, NEW s \in Nat, NEW n \in Nat,
         Fits(d, n), Fits(s, n), s >= d \/ s + n <= d
  PROVE  CopyBytes(m, d, s, Rising(n)) = Moved(m, d, s, n)
<1> DEFINE w == [k \in 0..n |-> Moved(m, d, s, k)]
<1>1. w[0] = m
  <2>1. Moved(m, d, s, 0) = m
    BY DEF Moved, Contents, Addresses
  <2> QED  BY <2>1
<1>2. /\ DOMAIN Rising(n) = 1..n
      /\ \A k \in 0..(n - 1) : Rising(n)[k + 1] = k
      /\ \A i \in 1..n : s + Rising(n)[i] \in Addresses
  BY LibraryAssumption DEF Rising, Fits, Addresses
<1>3. ASSUME NEW k \in 0..(n - 1)
      PROVE  w[k + 1] = CopyAt(w[k], d, s, Rising(n)[k + 1])
  <2>1. d + k \in Addresses /\ s + k \in Addresses
    BY LibraryAssumption DEF Addresses, Fits
  <2>2. Moved(m, d, s, k)[s + k] = m[s + k]
    BY <2>1 DEF Moved, Addresses
  <2>3. Moved(m, d, s, k + 1) = [Moved(m, d, s, k) EXCEPT ![d + k] = m[s + k]]
    <3>1. \A a \in Addresses : d <= a /\ a < d + (k + 1) <=> a = d + k \/ (d <= a /\ a < d + k)
      BY DEF Addresses
    <3>2. s + ((d + k) - d) = s + k
      OBVIOUS
    <3>3. \A a \in Addresses : Moved(m, d, s, k + 1)[a]
                                = IF a = d + k THEN m[s + k] ELSE Moved(m, d, s, k)[a]
      BY <3>1, <3>2 DEF Moved
    <3>4. DOMAIN Moved(m, d, s, k) = Addresses
      BY DEF Moved
    <3>5. Moved(m, d, s, k + 1) = [a \in Addresses |-> Moved(m, d, s, k + 1)[a]]
      BY DEF Moved
    <3> QED  BY <2>1, <3>3, <3>4, <3>5
  <2>4. w[k + 1] = Moved(m, d, s, k + 1) /\ w[k] = Moved(m, d, s, k)
    OBVIOUS
  <2> HIDE DEF w
  <2> QED  BY <1>2, <2>2, <2>3, <2>4 DEF CopyAt
<1>4. w[n] = Moved(m, d, s, n)
  OBVIOUS
<1> HIDE DEF w
<1> QED  BY <1>1, <1>2, <1>3, <1>4, CopySteps

\* Downwards, if the source begins below.
LEMMA FallingMoves ==
  ASSUME NEW m \in Contents, NEW d \in Nat, NEW s \in Nat, NEW n \in Nat,
         Fits(d, n), Fits(s, n), s < d
  PROVE  CopyBytes(m, d, s, Falling(n)) = Moved(m, d, s, n)
<1> DEFINE from(k) == [a \in Addresses |-> IF d + (n - k) <= a /\ a < d + n THEN m[s + (a - d)]
                                           ELSE m[a]]
           w == [k \in 0..n |-> from(k)]
<1>1. w[0] = m
  <2>1. from(0) = m
    BY DEF Contents, Addresses
  <2> QED  BY <2>1
<1>2. /\ DOMAIN Falling(n) = 1..n
      /\ \A k \in 0..(n - 1) : Falling(n)[k + 1] = n - (k + 1)
      /\ \A i \in 1..n : s + Falling(n)[i] \in Addresses
  BY LibraryAssumption DEF Falling, Fits, Addresses
<1>3. ASSUME NEW k \in 0..(n - 1)
      PROVE  w[k + 1] = CopyAt(w[k], d, s, Falling(n)[k + 1])
  <2>1. d + (n - (k + 1)) \in Addresses /\ s + (n - (k + 1)) \in Addresses
    BY LibraryAssumption DEF Addresses, Fits
  <2>2. from(k)[s + (n - (k + 1))] = m[s + (n - (k + 1))]
    BY <2>1 DEF Addresses
  <2>3. from(k + 1) = [from(k) EXCEPT ![d + (n - (k + 1))] = m[s + (n - (k + 1))]]
    <3>1. \A a \in Addresses :
            d + (n - (k + 1)) <= a /\ a < d + n
              <=> a = d + (n - (k + 1)) \/ (d + (n - k) <= a /\ a < d + n)
      BY DEF Addresses
    <3>2. s + ((d + (n - (k + 1))) - d) = s + (n - (k + 1))
      OBVIOUS
    <3>3. \A a \in Addresses :
            from(k + 1)[a] = IF a = d + (n - (k + 1)) THEN m[s + (n - (k + 1))] ELSE from(k)[a]
      BY <3>1, <3>2
    <3>4. DOMAIN from(k) = Addresses /\ from(k + 1) = [a \in Addresses |-> from(k + 1)[a]]
      OBVIOUS
    <3> HIDE DEF from
    <3> QED  BY <2>1, <3>3, <3>4
  <2>4. w[k + 1] = from(k + 1) /\ w[k] = from(k)
    OBVIOUS
  <2> HIDE DEF w, from
  <2> QED  BY <1>2, <2>2, <2>3, <2>4 DEF CopyAt
<1>4. w[n] = Moved(m, d, s, n)
  BY DEF Moved
<1> HIDE DEF w
<1> QED  BY <1>1, <1>2, <1>3, <1>4, CopySteps

LEMMA memmoveMoves ==
  ASSUME NEW m \in Contents, NEW d \in Nat, NEW s \in Nat, NEW n \in Nat, Fits(d, n), Fits(s, n)
  PROVE  memmove(m, d, s, n) = Moved(m, d, s, n)
<1>1. CASE s < d /\ s + n > d
  BY <1>1, FallingMoves DEF memmove
<1>2. CASE ~(s < d /\ s + n > d)
  <2>1. s >= d \/ s + n <= d
    BY <1>2
  <2> QED  BY <1>2, <2>1, RisingMoves DEF memmove
<1> QED  BY <1>1, <1>2

LEMMA memcpyMoves ==
  ASSUME NEW m \in Contents, NEW d \in Nat, NEW s \in Nat, NEW n \in Nat, Fits(d, n), Fits(s, n),
         Apart(d, n, s, n)
  PROVE  memcpy(m, d, s, n) = Moved(m, d, s, n)
<1>1. s >= d \/ s + n <= d
  BY DEF Apart
<1> QED  BY <1>1, RisingMoves DEF memcpy

LEMMA MovedType ==
  ASSUME NEW m \in Contents, NEW d \in Nat, NEW s \in Nat, NEW n \in Nat, Fits(s, n)
  PROVE  Moved(m, d, s, n) \in Contents
<1>1. ASSUME NEW a \in Addresses, d <= a, a < d + n
      PROVE  m[s + (a - d)] \in Bytes
  <2>1. s + (a - d) \in Addresses
    BY <1>1, LibraryAssumption DEF Addresses, Fits
  <2> QED  BY <2>1 DEF Contents
<1> QED  BY <1>1 DEF Moved, Contents

LEMMA FilledType ==
  ASSUME NEW m \in Contents, NEW p, NEW value \in Bytes, NEW n
  PROVE  Filled(m, p, value, n) \in Contents
BY DEF Filled, Contents

-----------------------------------------------------------------------------
(***************************************************************************)
(* Strings.                                                                *)
(***************************************************************************)

\* s is a string of length n.
Terminated(m, s, n) ==
  /\ n \in Nat /\ s + n \in Addresses /\ s + n < MemSize /\ m[s + n] = 0
  /\ \A k \in 0..(n - 1) : m[s + k] # 0

LEMMA FirstNul ==
  ASSUME NEW m, NEW s \in Addresses, IsString(m, s)
  PROVE  \E n \in 0..MemSize : Terminated(m, s, n)
<1>1. s \in Nat /\ MemSize \in Nat
  BY LibraryAssumption DEF Addresses
<1> DEFINE T == {n \in Nat : s + n \in Addresses /\ m[s + n] = 0}
<1>2. T # {}
  <2>1. PICK a \in Addresses : a >= s /\ m[a] = 0
    BY DEF IsString
  <2>2. a \in Nat /\ a - s \in Nat /\ s + (a - s) = a
    BY <1>1, <2>1 DEF Addresses
  <2> QED  BY <2>1, <2>2
<1>3. PICK n \in T : \A k \in T : n <= k
  BY <1>2, LeastNumber
<1>4. s + n < MemSize /\ n \in 0..MemSize
  BY <1>1, <1>3 DEF Addresses
<1>5. ASSUME NEW k \in 0..(n - 1)
      PROVE  m[s + k] # 0
  <2>1. k \in Nat /\ s + k \in Addresses /\ ~(n <= k)
    BY <1>1, <1>3, <1>4 DEF Addresses
  <2> QED  BY <1>3, <2>1
<1> QED  BY <1>3, <1>4, <1>5 DEF Terminated

LEMMA strlenOf ==
  ASSUME NEW m, NEW s \in Addresses, NEW n \in Nat, Terminated(m, s, n)
  PROVE  strlen(m, s) = n
<1>1. s \in Nat /\ MemSize \in Nat /\ n \in 0..MemSize
  BY LibraryAssumption DEF Addresses, Terminated
<1>2. ASSUME NEW l \in 0..MemSize, m[s + l] = 0, \A k \in 0..(l - 1) : m[s + k] # 0
      PROVE  l = n
  <2>1. ~(n < l)
    <3>1. n < l => n \in 0..(l - 1)
      BY <1>1
    <3> QED  BY <1>2, <3>1 DEF Terminated
  <2>2. ~(l < n)
    <3>1. l < n => l \in 0..(n - 1)
      BY <1>1
    <3> QED  BY <1>2, <3>1 DEF Terminated
  <2> QED  BY <1>1, <2>1, <2>2
<1>3. m[s + n] = 0 /\ \A k \in 0..(n - 1) : m[s + k] # 0
  BY DEF Terminated
<1> QED  BY <1>1, <1>2, <1>3 DEF strlen

LEMMA strlenEnds ==
  ASSUME NEW m, NEW s \in Addresses, IsString(m, s)
  PROVE  /\ strlen(m, s) \in 0..MemSize
         /\ Terminated(m, s, strlen(m, s))
BY FirstNul, strlenOf

-----------------------------------------------------------------------------
(***************************************************************************)
(* memmove and memcpy.                                                     *)
(***************************************************************************)

LEMMA LibraryNumbers ==
  /\ MemSize \in Nat \ {0} /\ Addresses \subseteq Nat /\ 0 \in Bytes /\ Bytes \subseteq Nat
  /\ \A a \in Addresses : a < MemSize
BY LibraryAssumption DEF Addresses

\* What the string functions make of the memory.
LEMMA strcpyWrites ==
  ASSUME NEW m \in Contents, NEW d \in Nat, NEW s \in Addresses, NEW n, Terminated(m, s, n),
         Fits(d, n + 1), Apart(d, n + 1, s, n + 1)
  PROVE  /\ strcpy(m, d, s) = Filled(Moved(m, d, s, n), d + n, 0, 1)
         /\ strcpy(m, d, s) \in Contents
<1>1. n \in Nat /\ s \in Nat /\ Fits(d, n) /\ Fits(s, n) /\ Fits(d + n, 1) /\ d + n \in Nat
  BY LibraryNumbers DEF Terminated, Fits
<1>2. strlen(m, s) = n
  BY <1>1, strlenOf
<1>3. Apart(d, n, s, n)
  BY <1>1 DEF Apart
<1>4. memcpy(m, d, s, n) = Moved(m, d, s, n) /\ Moved(m, d, s, n) \in Contents
  BY <1>1, <1>3, memcpyMoves, MovedType
<1>5. memset(memcpy(m, d, s, n), d + n, 0, 1) = Filled(memcpy(m, d, s, n), d + n, 0, 1)
  BY <1>1, <1>4, LibraryNumbers, memsetFills
<1>6. Filled(Moved(m, d, s, n), d + n, 0, 1) \in Contents
  BY <1>4, LibraryNumbers, FilledType
<1> QED  BY <1>2, <1>4, <1>5, <1>6 DEF strcpy

LEMMA strncpyWrites ==
  ASSUME NEW m \in Contents, NEW d \in Nat, NEW s \in Addresses, NEW l, Terminated(m, s, l),
         NEW num \in Nat, Fits(d, num), Apart(d, num, s, l + 1),
         NEW n, n = IF l < num THEN l ELSE num
  PROVE  /\ strncpy(m, d, s, num) = Filled(Moved(m, d, s, n), d + n, 0, num - n)
         /\ strncpy(m, d, s, num) \in Contents
<1>1. l \in Nat /\ s \in Nat /\ n \in Nat /\ n <= num /\ n <= l /\ num - n \in Nat
  BY LibraryNumbers DEF Terminated
<1>2. Fits(d, n) /\ Fits(s, n) /\ Fits(d + n, num - n) /\ d + n \in Nat
  BY <1>1, LibraryNumbers DEF Terminated, Fits
<1>3. strlen(m, s) = l
  BY <1>1, strlenOf
<1>4. Apart(d, n, s, n)
  BY <1>1 DEF Apart
<1>5. memcpy(m, d, s, n) = Moved(m, d, s, n) /\ Moved(m, d, s, n) \in Contents
  BY <1>1, <1>2, <1>4, memcpyMoves, MovedType
<1>6. memset(memcpy(m, d, s, n), d + n, 0, num - n) = Filled(memcpy(m, d, s, n), d + n, 0, num - n)
  BY <1>1, <1>2, <1>5, LibraryNumbers, memsetFills
<1>7. Filled(Moved(m, d, s, n), d + n, 0, num - n) \in Contents
  BY <1>5, LibraryNumbers, FilledType
<1> QED  BY <1>3, <1>5, <1>6, <1>7 DEF strncpy

LEMMA strcatWrites ==
  ASSUME NEW m \in Contents, NEW d \in Addresses, NEW s \in Addresses,
         NEW k, Terminated(m, d, k), NEW n, Terminated(m, s, n),
         Fits(d, k + n + 1), Apart(d, k + n + 1, s, n + 1)
  PROVE  /\ strcat(m, d, s) = Filled(Moved(m, d + k, s, n), d + k + n, 0, 1)
         /\ strcat(m, d, s) \in Contents
<1>1. d \in Nat /\ s \in Nat /\ k \in Nat /\ n \in Nat /\ d + k \in Nat
  BY LibraryNumbers DEF Terminated
<1>2. Fits(d + k, n + 1) /\ Apart(d + k, n + 1, s, n + 1)
  BY <1>1, LibraryNumbers DEF Fits, Apart
<1>3. strlen(m, d) = k
  BY <1>1, strlenOf
<1>4. strcat(m, d, s) = strcpy(m, d + k, s)
  BY <1>3 DEF strcat
<1> QED  BY <1>1, <1>2, <1>4, strcpyWrites

\* The steps of the client, with their results written out.
LEMMA MoveBytesDoes ==
  ASSUME mem \in Contents, MoveBytes
  PROVE  \E fn \in {"memmove", "memcpy"}, d, s \in Addresses, n \in 0..MemSize :
           /\ Fits(d, n) /\ Fits(s, n)
           /\ call' = [fn |-> fn, dest |-> d, src |-> s, n |-> n]
           /\ before' = mem /\ mem' = Moved(mem, d, s, n)
<1>1. PICK d \in Addresses, s \in Addresses, n \in 0..MemSize :
        /\ Fits(d, n) /\ Fits(s, n)
        /\ \/ Called("memmove", d, s, n, memmove(mem, d, s, n))
           \/ Apart(d, n, s, n) /\ Called("memcpy", d, s, n, memcpy(mem, d, s, n))
  BY DEF MoveBytes
<1>2. d \in Nat /\ s \in Nat /\ n \in Nat
  BY LibraryNumbers
<1>3. memmove(mem, d, s, n) = Moved(mem, d, s, n)
  BY <1>1, <1>2, memmoveMoves
<1>4. Apart(d, n, s, n) => memcpy(mem, d, s, n) = Moved(mem, d, s, n)
  BY <1>1, <1>2, memcpyMoves
<1>5. \E fn \in {"memmove", "memcpy"} : Called(fn, d, s, n, Moved(mem, d, s, n))
  BY <1>1, <1>3, <1>4
<1> QED  BY <1>1, <1>5 DEF Called

LEMMA FillBytesDoes ==
  ASSUME mem \in Contents, FillBytes
  PROVE  /\ call'.fn = "memset" /\ mem' \in Contents
<1>1. PICK d \in Addresses, n \in 0..MemSize, v \in Bytes :
        Fits(d, n) /\ Called("memset", d, v, n, memset(mem, d, v, n))
  BY DEF FillBytes
<1>2. d \in Nat /\ n \in Nat
  BY LibraryNumbers
<1>3. memset(mem, d, v, n) \in Contents
  BY <1>1, <1>2, memsetFills, FilledType
<1> QED  BY <1>1, <1>3 DEF Called

\* A string of length l at s that Called has copied as fn.
StringCopied(fn, d, s, l, n) ==
  /\ Fits(d, n) /\ Apart(d, n, s, l + 1)
  /\ call' = [fn |-> fn, dest |-> d, src |-> s, n |-> n]
  /\ before' = mem /\ mem' \in Contents

CopyStringDone ==
  \E d, s \in Addresses, l \in 0..MemSize :
    /\ Terminated(mem, s, l)
    /\ \/ /\ StringCopied("strcpy", d, s, l, l + 1)
          /\ mem' = Filled(Moved(mem, d, s, l), d + l, 0, 1)
       \/ \E num \in 0..MemSize, n \in 0..MemSize :
            /\ StringCopied("strncpy", d, s, l, num)
            /\ n = IF l < num THEN l ELSE num
            /\ mem' = Filled(Moved(mem, d, s, n), d + n, 0, num - n)
       \/ \E k \in 0..MemSize :
            /\ Terminated(mem, d, k)
            /\ StringCopied("strcat", d, s, l, k + l + 1)
            /\ mem' = Filled(Moved(mem, d + k, s, l), d + k + l, 0, 1)

LEMMA CopyStringDoes ==
  ASSUME mem \in Contents, CopyString
  PROVE  CopyStringDone
<1>1. PICK d \in Addresses, s \in Addresses :
    /\ IsString(mem, s)
    /\ \/ StringCall("strcpy", d, s, strlen(mem, s) + 1, strcpy(mem, d, s))
       \/ \E n \in 0..MemSize : StringCall("strncpy", d, s, n, strncpy(mem, d, s, n))
       \/ /\ IsString(mem, d)
          /\ StringCall("strcat", d, s, strlen(mem, d) + strlen(mem, s) + 1, strcat(mem, d, s))
  BY DEF CopyString
<1>2. PICK l \in 0..MemSize : l = strlen(mem, s) /\ Terminated(mem, s, l)
  BY <1>1, strlenEnds
<1>3. d \in Nat /\ s \in Nat
  BY LibraryNumbers
<1>4. CASE StringCall("strcpy", d, s, strlen(mem, s) + 1, strcpy(mem, d, s))
  <2>1. Fits(d, l + 1) /\ Apart(d, l + 1, s, l + 1) /\ Called("strcpy", d, s, l + 1, strcpy(mem, d, s))
    BY <1>2, <1>4 DEF StringCall
  <2>2. /\ strcpy(mem, d, s) = Filled(Moved(mem, d, s, l), d + l, 0, 1)
        /\ strcpy(mem, d, s) \in Contents
    BY <1>2, <1>3, <2>1, strcpyWrites
  <2>3. StringCopied("strcpy", d, s, l, l + 1) /\ mem' = Filled(Moved(mem, d, s, l), d + l, 0, 1)
    BY <2>1, <2>2 DEF Called, StringCopied
  <2> QED  BY <1>2, <2>3 DEF CopyStringDone
<1>5. CASE \E n \in 0..MemSize : StringCall("strncpy", d, s, n, strncpy(mem, d, s, n))
  <2>1. PICK num \in 0..MemSize : StringCall("strncpy", d, s, num, strncpy(mem, d, s, num))
    BY <1>5
  <2>2. PICK n \in 0..MemSize : n = IF l < num THEN l ELSE num
    OBVIOUS
  <2>3. /\ Fits(d, num) /\ Apart(d, num, s, l + 1)
        /\ Called("strncpy", d, s, num, strncpy(mem, d, s, num))
    BY <1>2, <2>1 DEF StringCall
  <2>4. /\ strncpy(mem, d, s, num) = Filled(Moved(mem, d, s, n), d + n, 0, num - n)
        /\ strncpy(mem, d, s, num) \in Contents
    <3>1. num \in Nat
      BY LibraryNumbers
    <3> QED  BY <1>2, <1>3, <2>2, <2>3, <3>1, strncpyWrites
  <2>5. /\ StringCopied("strncpy", d, s, l, num)
        /\ mem' = Filled(Moved(mem, d, s, n), d + n, 0, num - n)
    BY <2>3, <2>4 DEF Called, StringCopied
  <2> QED  BY <1>2, <2>2, <2>5 DEF CopyStringDone
<1>6. CASE /\ IsString(mem, d)
           /\ StringCall("strcat", d, s, strlen(mem, d) + strlen(mem, s) + 1, strcat(mem, d, s))
  <2>1. PICK k \in 0..MemSize : k = strlen(mem, d) /\ Terminated(mem, d, k)
    BY <1>6, strlenEnds
  <2>2. /\ Fits(d, k + l + 1) /\ Apart(d, k + l + 1, s, l + 1)
        /\ Called("strcat", d, s, k + l + 1, strcat(mem, d, s))
    BY <1>2, <1>6, <2>1 DEF StringCall
  <2>3. /\ strcat(mem, d, s) = Filled(Moved(mem, d + k, s, l), d + k + l, 0, 1)
        /\ strcat(mem, d, s) \in Contents
    BY <1>2, <2>1, <2>2, strcatWrites
  <2>4. /\ StringCopied("strcat", d, s, l, k + l + 1)
        /\ mem' = Filled(Moved(mem, d + k, s, l), d + k + l, 0, 1)
    BY <2>2, <2>3 DEF Called, StringCopied
  <2> QED  BY <1>2, <2>1, <2>4 DEF CopyStringDone
<1> QED  BY <1>1, <1>4, <1>5, <1>6

Conversions == {"utoa", "ultoa", "ullitoa", "ulltoa", "litoa", "ltoa", "itoa"}
Printers == {"printf", "log", "serial_putsf", "vprintf"}

LEMMA OthersDo ==
  ASSUME Convert \/ Ready \/ PrintMessage
  PROVE  mem' = mem /\ call'.fn \in Conversions \cup Printers \cup {"none"}
<1>1. CASE Convert
  <2>1. PICK fn \in Conversions : \E v, base, result : Converted(fn, v, base, result)
    BY <1>1 DEF Convert, Conversions
  <2> QED  BY <2>1 DEF Converted
<1>2. CASE Ready
  BY <1>2 DEF Ready
<1>3. CASE PrintMessage
  <2>1. PICK fn \in Printers : \E m, result : Printed(fn, m, result)
    BY <1>3 DEF PrintMessage, Printers
  <2> QED  BY <2>1 DEF Printed
<1> QED  BY <1>1, <1>2, <1>3

MemTyped == mem \in Contents

LEMMA MemStaysTyped ==
  ASSUME MemTyped, [Next \/ PrintMessage]_vars
  PROVE  MemTyped'
<1> USE DEF MemTyped
<1>1. CASE MoveBytes
  <2>1. PICK d \in Addresses, s \in Addresses, n \in 0..MemSize :
          Fits(s, n) /\ mem' = Moved(mem, d, s, n)
    BY <1>1, MoveBytesDoes
  <2>2. d \in Nat /\ s \in Nat /\ n \in Nat
    BY LibraryNumbers
  <2>3. mem' \in Contents
    BY <2>1, <2>2, MovedType
  <2> QED  BY <2>3 DEF Contents
<1>2. CASE FillBytes
  <2>1. mem' \in Contents
    BY <1>2, FillBytesDoes
  <2> QED  BY <2>1 DEF Contents
<1>3. CASE CopyString
  <2>1. mem' \in Contents
    BY <1>3, CopyStringDoes DEF CopyStringDone, StringCopied
  <2> QED  BY <2>1 DEF Contents
<1>4. CASE Convert \/ Ready \/ PrintMessage
  BY <1>4, OthersDo DEF Contents
<1>5. CASE UNCHANGED vars
  BY <1>5 DEF vars, Contents
<1> QED  BY <1>1, <1>2, <1>3, <1>4, <1>5 DEF Next

\* No call leaves anything but bytes in memory.
LEMMA BytesInMemory == PrintfSpec => []MemTyped
<1>1. Init => MemTyped
  BY DEF Init, MemTyped, Contents
<1>2. MemTyped /\ [Next \/ PrintMessage]_vars => MemTyped'
  BY MemStaysTyped
<1> QED  BY <1>1, <1>2, PTL DEF PrintfSpec

LEMMA MoveKeepsMoved ==
  ASSUME MemTyped, MoveBytes
  PROVE  BytesMoved'
<1>1. mem \in Contents
  BY DEF MemTyped
<1>2. PICK d \in Addresses, s \in Addresses, n \in 0..MemSize :
        /\ Fits(d, n) /\ Fits(s, n)
        /\ call'.dest = d /\ call'.src = s /\ call'.n = n
        /\ before' = mem /\ mem' = Moved(mem, d, s, n)
  BY <1>1, MoveBytesDoes
<1>3. d \in Nat /\ s \in Nat /\ n \in Nat
  BY LibraryNumbers
<1>4. ASSUME NEW k \in 0..(n - 1)
      PROVE  mem'[d + k] = before'[s + k]
  <2>1. d + k \in Addresses /\ d <= d + k /\ d + k < d + n /\ (d + k) - d = k
    BY <1>2, <1>3, LibraryNumbers DEF Fits, Addresses
  <2> QED  BY <1>2, <2>1 DEF Moved
<1>5. ASSUME NEW a \in Addresses, a < d \/ a >= d + n
      PROVE  mem'[a] = before'[a]
  <2>1. ~(d <= a /\ a < d + n)
    BY <1>3, <1>5, LibraryNumbers
  <2> QED  BY <1>2, <2>1 DEF Moved
<1> QED  BY <1>2, <1>4, <1>5 DEF BytesMoved, Outside, Addresses

LEMMA BytesMovedStep ==
  ASSUME MemTyped, BytesMoved, [Next \/ PrintMessage]_vars
  PROVE  BytesMoved'
<1>0. mem \in Contents
  BY DEF MemTyped
<1>1. CASE MoveBytes
  BY <1>1, MoveKeepsMoved
<1>2. CASE FillBytes
  BY <1>0, <1>2, FillBytesDoes DEF BytesMoved
<1>3. CASE CopyString
  <2>1. call'.fn \in {"strcpy", "strncpy", "strcat"}
    BY <1>0, <1>3, CopyStringDoes DEF CopyStringDone, StringCopied
  <2> QED  BY <2>1 DEF BytesMoved
<1>4. CASE Convert \/ Ready \/ PrintMessage
  BY <1>4, OthersDo DEF BytesMoved, Conversions, Printers
<1>5. CASE UNCHANGED vars
  BY <1>5 DEF vars, BytesMoved, Outside, Addresses
<1> QED  BY <1>1, <1>2, <1>3, <1>4, <1>5 DEF Next

\* Whatever was called before: memmove leaves the bytes of the source in the
\* destination, however the two areas overlap, memcpy does if they do not, and
\* neither touches another byte (lib.c).
THEOREM BytesStayMoved == PrintfSpec => []BytesMoved
<1>1. Init => BytesMoved
  BY DEF Init, BytesMoved
<1>2. MemTyped /\ BytesMoved /\ [Next \/ PrintMessage]_vars => BytesMoved'
  BY BytesMovedStep
<1> QED  BY <1>1, <1>2, BytesInMemory, PTL DEF PrintfSpec

-----------------------------------------------------------------------------
(***************************************************************************)
(* strcpy, strcat and strncpy.                                             *)
(***************************************************************************)

LEMMA StringOf ==
  ASSUME NEW m, NEW s \in Addresses, NEW n \in Nat, Terminated(m, s, n)
  PROVE  String(m, s) = [k \in 1..n |-> m[s + k - 1]]
<1>1. strlen(m, s) = n
  BY strlenOf
<1> QED  BY <1>1 DEF String

LEMMA StringType ==
  ASSUME NEW m \in Contents, NEW s \in Addresses, NEW n \in Nat, Terminated(m, s, n)
  PROVE  String(m, s) \in Seq(Bytes) /\ Len(String(m, s)) = n
<1>1. \A k \in 1..n : s + k - 1 \in Addresses
  BY LibraryNumbers DEF Terminated, Addresses
<1>2. \A k \in 1..n : m[s + k - 1] \in Bytes
  BY <1>1 DEF Contents
<1>3. [k \in 1..n |-> m[s + k - 1]] \in Seq(Bytes) /\ Len([k \in 1..n |-> m[s + k - 1]]) = n
  BY <1>2, IsASeq
<1> QED  BY <1>3, StringOf

\* A copy of l bytes to p, and a NUL behind it.
CopiedWithNul(m2, m, p, s, l) ==
  /\ m2[p + l] = 0
  /\ \A k \in 0..(l - 1) : m2[p + k] = m[s + k]
  /\ \A a \in Addresses : a < p \/ a >= p + l + 1 => m2[a] = m[a]

LEMMA CopyWithNul ==
  ASSUME NEW m \in Contents, NEW p \in Nat, NEW s \in Addresses, NEW l \in Nat,
         Fits(p, l + 1), NEW m2, m2 = Filled(Moved(m, p, s, l), p + l, 0, 1)
  PROVE  CopiedWithNul(m2, m, p, s, l)
<1>1. ASSUME NEW a \in Addresses
      PROVE  m2[a] = IF a = p + l THEN 0
                     ELSE IF p <= a /\ a < p + l THEN m[s + (a - p)] ELSE m[a]
  <2>1. a \in Nat /\ (p + l <= a /\ a < p + l + 1 <=> a = p + l)
    BY LibraryNumbers
  <2> QED  BY <2>1 DEF Filled, Moved
<1>2. p + l \in Addresses
  BY LibraryNumbers DEF Fits, Addresses
<1>3. ASSUME NEW k \in 0..(l - 1)
      PROVE  m2[p + k] = m[s + k]
  <2>1. p + k \in Addresses /\ p <= p + k /\ p + k < p + l /\ p + k # p + l /\ (p + k) - p = k
    BY LibraryNumbers DEF Fits, Addresses
  <2> QED  BY <1>1, <2>1
<1>4. ASSUME NEW a \in Addresses, a < p \/ a >= p + l + 1
      PROVE  m2[a] = m[a]
  <2>1. a # p + l /\ ~(p <= a /\ a < p + l)
    BY <1>4, LibraryNumbers
  <2> QED  BY <1>1, <2>1
<1> QED  BY <1>1, <1>2, <1>3, <1>4 DEF CopiedWithNul

LEMMA strcpyBuilds ==
  ASSUME NEW m \in Contents, NEW d \in Addresses, NEW s \in Addresses, NEW l \in Nat,
         Terminated(m, s, l), Fits(d, l + 1),
         NEW m2, m2 = Filled(Moved(m, d, s, l), d + l, 0, 1)
  PROVE  /\ String(m2, d) = String(m, s)
         /\ \A a \in Addresses : a < d \/ a >= d + (l + 1) => m2[a] = m[a]
<1>1. d \in Nat
  BY LibraryNumbers
<1>2. /\ m2[d + l] = 0
      /\ \A k \in 0..(l - 1) : m2[d + k] = m[s + k]
      /\ \A a \in Addresses : a < d \/ a >= d + l + 1 => m2[a] = m[a]
  <2>1. CopiedWithNul(m2, m, d, s, l)
    BY <1>1, CopyWithNul
  <2> QED  BY <2>1 DEF CopiedWithNul
<1>3. Terminated(m2, d, l)
  BY <1>1, <1>2, LibraryNumbers DEF Terminated, Fits, Addresses
<1>4. \A k \in 1..l : m2[d + k - 1] = m[s + k - 1]
  <2> TAKE k \in 1..l
  <2>1. k - 1 \in 0..(l - 1) /\ d + (k - 1) = d + k - 1 /\ s + (k - 1) = s + k - 1
    BY <1>1, LibraryNumbers
  <2> QED  BY <1>2, <2>1
<1>5. String(m2, d) = String(m, s)
  BY <1>3, <1>4, StringOf
<1>6. d + l + 1 = d + (l + 1)
  BY <1>1
<1> QED  BY <1>2, <1>5, <1>6

\* m2 has at d the string that was there in m and the one at s behind it.
Joined(m2, m, d, s, n) ==
  /\ String(m2, d) = String(m, d) \o String(m, s)
  /\ \A a \in Addresses : a < d \/ a >= d + n => m2[a] = m[a]

LEMMA strcatBuilds ==
  ASSUME NEW m \in Contents, NEW d \in Addresses, NEW s \in Addresses,
         NEW k \in Nat, Terminated(m, d, k), NEW l \in Nat, Terminated(m, s, l),
         Fits(d, k + l + 1),
         NEW m2, m2 = Filled(Moved(m, d + k, s, l), d + k + l, 0, 1)
  PROVE  Joined(m2, m, d, s, k + l + 1)
<1>1. d \in Nat /\ d + k \in Nat /\ Fits(d + k, l + 1) /\ s \in Nat
  BY LibraryNumbers DEF Fits
<1>2. /\ m2[d + k + l] = 0
      /\ \A i \in 0..(l - 1) : m2[d + k + i] = m[s + i]
      /\ \A a \in Addresses : a < d + k \/ a >= d + k + l + 1 => m2[a] = m[a]
  <2>1. CopiedWithNul(m2, m, d + k, s, l)
    BY <1>1, CopyWithNul
  <2> QED  BY <2>1 DEF CopiedWithNul
<1>3. \A i \in 0..(k - 1) : m2[d + i] = m[d + i]
  <2> TAKE i \in 0..(k - 1)
  <2>1. d + i \in Addresses /\ d + i < d + k
    BY <1>1, LibraryNumbers DEF Fits, Addresses
  <2> QED  BY <1>2, <2>1
<1>4. ASSUME NEW i \in 0..(k + l - 1)
      PROVE  m2[d + i] = IF i < k THEN m[d + i] ELSE m[s + (i - k)]
  <2>1. CASE i < k
    <3>1. i \in 0..(k - 1)
      BY <2>1
    <3> QED  BY <1>3, <2>1, <3>1
  <2>2. CASE ~(i < k)
    <3>1. i - k \in 0..(l - 1) /\ d + k + (i - k) = d + i
      BY <1>1, <2>2
    <3> QED  BY <1>2, <2>2, <3>1
  <2> QED  BY <2>1, <2>2
<1>5. Terminated(m2, d, k + l)
  <2>1. d + (k + l) \in Addresses /\ d + (k + l) < MemSize /\ d + (k + l) = d + k + l
    BY <1>1, LibraryNumbers DEF Fits, Addresses
  <2>2. ASSUME NEW i \in 0..(k + l - 1)
        PROVE  m2[d + i] # 0
    <3>1. CASE i < k
      <4>1. i \in 0..(k - 1)
        BY <3>1
      <4> QED  BY <1>4, <3>1, <4>1 DEF Terminated
    <3>2. CASE ~(i < k)
      <4>1. i - k \in 0..(l - 1)
        BY <3>2
      <4> QED  BY <1>4, <3>2, <4>1 DEF Terminated
    <3> QED  BY <3>1, <3>2
  <2> QED  BY <1>2, <2>1, <2>2 DEF Terminated
<1>6. ASSUME NEW j \in 1..(k + l)
      PROVE  m2[d + j - 1] = IF j <= k THEN m[d + j - 1] ELSE m[s + (j - k) - 1]
  <2>1. /\ j - 1 \in 0..(k + l - 1) /\ d + (j - 1) = d + j - 1 /\ (j - 1 < k <=> j <= k)
        /\ s + ((j - 1) - k) = s + (j - k) - 1
    BY <1>1
  <2>2. m2[d + (j - 1)] = IF j - 1 < k THEN m[d + (j - 1)] ELSE m[s + ((j - 1) - k)]
    BY <1>4, <2>1
  <2> QED  BY <2>1, <2>2
<1>7. /\ String(m, d) = [j \in 1..k |-> m[d + j - 1]]
      /\ String(m, s) = [j \in 1..l |-> m[s + j - 1]]
      /\ String(m2, d) = [j \in 1..(k + l) |-> m2[d + j - 1]]
  BY SMTT(20), <1>5, StringOf
<1>8. /\ String(m, d) \in Seq(Bytes) /\ Len(String(m, d)) = k
      /\ String(m, s) \in Seq(Bytes) /\ Len(String(m, s)) = l
  BY StringType
<1> DEFINE x == String(m, d)
           y == String(m, s)
           z == x \o y
<1>9. /\ z \in Seq(Bytes) /\ Len(z) = k + l
      /\ \A j \in 1..(k + l) : z[j] = IF j <= k THEN x[j] ELSE y[j - k]
  <2>1. /\ z \in Seq(Bytes) /\ Len(z) = Len(x) + Len(y)
        /\ \A j \in 1..(Len(x) + Len(y)) : z[j] = IF j <= Len(x) THEN x[j] ELSE y[j - Len(x)]
    BY <1>8, ConcatProperties
  <2> QED  BY <1>8, <2>1
<1> HIDE DEF z
<1>10. z = [j \in 1..(k + l) |-> z[j]]
  BY <1>9
<1>11. \A j \in 1..(k + l) : z[j] = m2[d + j - 1]
  <2> TAKE j \in 1..(k + l)
  <2>1. CASE j <= k
    <3>1. j \in 1..k
      BY <2>1
    <3> QED  BY <1>6, <1>7, <1>9, <2>1, <3>1
  <2>2. CASE ~(j <= k)
    <3>1. j - k \in 1..l
      BY <2>2
    <3> QED  BY ZenonT(30), <1>6, <1>7, <1>9, <2>2, <3>1
  <2> QED  BY <2>1, <2>2
<1>12. String(m2, d) = z
  BY <1>7, <1>10, <1>11
<1>13. d + k + l + 1 = d + (k + l + 1) /\ \A a \in Addresses : a < d => a < d + k
  BY <1>1, LibraryNumbers
<1>14. \A a \in Addresses : a < d \/ a >= d + (k + l + 1) => m2[a] = m[a]
  BY <1>2, <1>13
<1> QED  BY <1>12, <1>14 DEF z, Joined

LEMMA strncpyBuilds ==
  ASSUME NEW m \in Contents, NEW d \in Addresses, NEW s \in Addresses,
         NEW l \in Nat, Terminated(m, s, l), NEW num \in Nat, Fits(d, num),
         NEW n, n = IF l < num THEN l ELSE num,
         NEW m2, m2 = Filled(Moved(m, d, s, n), d + n, 0, num - n)
  PROVE  /\ [k \in 1..num |-> m2[d + k - 1]]
              = SubSeq(String(m, s) \o [k \in 1..num |-> 0], 1, num)
         /\ \A a \in Addresses : a < d \/ a >= d + num => m2[a] = m[a]
<1>1. /\ d \in Nat /\ s \in Nat /\ n \in Nat /\ n <= num /\ n <= l
      /\ d + n + (num - n) = d + num
  BY LibraryNumbers
<1>2. ASSUME NEW a \in Addresses
      PROVE  m2[a] = IF d + n <= a /\ a < d + num THEN 0
                     ELSE IF d <= a /\ a < d + n THEN m[s + (a - d)] ELSE m[a]
  BY <1>1 DEF Filled, Moved
<1>3. ASSUME NEW j \in 1..num
      PROVE  m2[d + j - 1] = IF j <= l THEN m[s + j - 1] ELSE 0
  <2>1. d + j - 1 \in Addresses /\ d + j - 1 \in Nat
    BY <1>1, LibraryNumbers DEF Fits, Addresses
  <2>2. CASE j <= l
    <3>1. /\ d <= d + j - 1 /\ d + j - 1 < d + n /\ ~(d + n <= d + j - 1)
          /\ s + ((d + j - 1) - d) = s + j - 1
      BY <1>1, <2>2
    <3> QED  BY <1>2, <2>1, <2>2, <3>1
  <2>3. CASE ~(j <= l)
    <3>1. d + n <= d + j - 1 /\ d + j - 1 < d + num
      BY <1>1, <2>3
    <3> QED  BY <1>2, <2>1, <2>3, <3>1
  <2> QED  BY <2>2, <2>3
<1> DEFINE x == String(m, s)
           zeros == [k \in 1..num |-> 0]
           z == x \o zeros
           cut == SubSeq(z, 1, num)
<1>4. /\ x \in Seq(Bytes) /\ Len(x) = l /\ \A j \in 1..l : x[j] = m[s + j - 1]
      /\ zeros \in Seq(Bytes) /\ Len(zeros) = num /\ \A j \in 1..num : zeros[j] = 0
  <2>1. x \in Seq(Bytes) /\ Len(x) = l
    BY StringType
  <2>2. \A j \in 1..l : x[j] = m[s + j - 1]
    BY StringOf
  <2>3. zeros \in Seq(Bytes) /\ Len(zeros) = num
    BY LibraryNumbers, IsASeq
  <2> QED  BY <2>1, <2>2, <2>3
<1> HIDE DEF x, zeros
<1>5. /\ z \in Seq(Bytes) /\ Len(z) = l + num
      /\ \A j \in 1..(l + num) : z[j] = IF j <= l THEN x[j] ELSE zeros[j - l]
  <2>1. /\ z \in Seq(Bytes) /\ Len(z) = Len(x) + Len(zeros)
        /\ \A j \in 1..(Len(x) + Len(zeros)) :
             z[j] = IF j <= Len(x) THEN x[j] ELSE zeros[j - Len(x)]
    BY <1>4, ConcatProperties
  <2> QED  BY <1>4, <2>1
<1> HIDE DEF z
<1>6. cut = [j \in 1..num |-> z[j]]
  <2>1. 1 \in Int /\ num \in Int /\ num - 1 + 1 = num /\ \A j \in 1..num : 1 + j - 1 = j
    OBVIOUS
  <2> QED  BY <1>5, <2>1
<1> HIDE DEF cut
<1>7. \A j \in 1..num : z[j] = m2[d + j - 1]
  <2> TAKE j \in 1..num
  <2>1. j \in 1..(l + num)
    OBVIOUS
  <2>2. CASE j <= l
    <3>1. j \in 1..l
      BY <2>2
    <3> QED  BY <1>3, <1>4, <1>5, <2>1, <2>2, <3>1
  <2>3. CASE ~(j <= l)
    <3>1. j - l \in 1..num
      BY <2>3
    <3>2. z[j] = 0
      BY <1>4, <1>5, <2>1, <2>3, <3>1
    <3> QED  BY <1>3, <2>3, <3>2
  <2> QED  BY <2>2, <2>3
<1>8. [k \in 1..num |-> m2[d + k - 1]] = cut
  BY <1>6, <1>7
<1>9. ASSUME NEW a \in Addresses, a < d \/ a >= d + num
      PROVE  m2[a] = m[a]
  <2>1. ~(d + n <= a /\ a < d + num) /\ ~(d <= a /\ a < d + n)
    BY <1>1, <1>9, LibraryNumbers
  <2> QED  BY <1>2, <2>1
<1> QED  BY <1>8, <1>9 DEF cut, z, x, zeros

LEMMA CopyKeepsBuilt ==
  ASSUME MemTyped, CopyString
  PROVE  StringsBuilt'
<1>0. mem \in Contents
  BY DEF MemTyped
<1>1. PICK d \in Addresses, s \in Addresses, l \in 0..MemSize :
        /\ Terminated(mem, s, l)
        /\ \/ /\ StringCopied("strcpy", d, s, l, l + 1)
              /\ mem' = Filled(Moved(mem, d, s, l), d + l, 0, 1)
           \/ \E num \in 0..MemSize, n \in 0..MemSize :
                /\ StringCopied("strncpy", d, s, l, num)
                /\ n = IF l < num THEN l ELSE num
                /\ mem' = Filled(Moved(mem, d, s, n), d + n, 0, num - n)
           \/ \E k \in 0..MemSize :
                /\ Terminated(mem, d, k)
                /\ StringCopied("strcat", d, s, l, k + l + 1)
                /\ mem' = Filled(Moved(mem, d + k, s, l), d + k + l, 0, 1)
  BY <1>0, CopyStringDoes DEF CopyStringDone
<1>2. l \in Nat
  BY LibraryNumbers
<1>3. CASE /\ StringCopied("strcpy", d, s, l, l + 1)
           /\ mem' = Filled(Moved(mem, d, s, l), d + l, 0, 1)
  <2>1. /\ Fits(d, l + 1) /\ before' = mem
        /\ call'.fn = "strcpy" /\ call'.dest = d /\ call'.src = s /\ call'.n = l + 1
    BY <1>3 DEF StringCopied
  <2>2. /\ String(mem', d) = String(mem, s)
        /\ \A a \in Addresses : a < d \/ a >= d + (l + 1) => mem'[a] = mem[a]
    BY <1>0, <1>1, <1>2, <1>3, <2>1, strcpyBuilds
  <2> QED  BY <2>1, <2>2 DEF StringsBuilt, Outside, Addresses
<1>4. CASE \E num \in 0..MemSize, n \in 0..MemSize :
             /\ StringCopied("strncpy", d, s, l, num)
             /\ n = IF l < num THEN l ELSE num
             /\ mem' = Filled(Moved(mem, d, s, n), d + n, 0, num - n)
  <2>1. PICK num \in 0..MemSize, n \in 0..MemSize :
          /\ StringCopied("strncpy", d, s, l, num)
          /\ n = IF l < num THEN l ELSE num
          /\ mem' = Filled(Moved(mem, d, s, n), d + n, 0, num - n)
    BY <1>4
  <2>2. /\ Fits(d, num) /\ before' = mem /\ num \in Nat
        /\ call'.fn = "strncpy" /\ call'.dest = d /\ call'.src = s /\ call'.n = num
    BY <2>1, LibraryNumbers DEF StringCopied
  <2>3. /\ [k \in 1..num |-> mem'[d + k - 1]]
             = SubSeq(String(mem, s) \o [k \in 1..num |-> 0], 1, num)
        /\ \A a \in Addresses : a < d \/ a >= d + num => mem'[a] = mem[a]
    BY <1>0, <1>1, <1>2, <2>1, <2>2, strncpyBuilds
  <2> QED  BY <2>2, <2>3 DEF StringsBuilt, Outside, Addresses
<1>5. CASE \E k \in 0..MemSize :
             /\ Terminated(mem, d, k)
             /\ StringCopied("strcat", d, s, l, k + l + 1)
             /\ mem' = Filled(Moved(mem, d + k, s, l), d + k + l, 0, 1)
  <2>1. PICK k \in 0..MemSize :
          /\ Terminated(mem, d, k)
          /\ StringCopied("strcat", d, s, l, k + l + 1)
          /\ mem' = Filled(Moved(mem, d + k, s, l), d + k + l, 0, 1)
    BY <1>5
  <2>2. /\ Fits(d, k + l + 1) /\ before' = mem /\ k \in Nat
        /\ call'.fn = "strcat" /\ call'.dest = d /\ call'.src = s /\ call'.n = k + l + 1
    BY <2>1, LibraryNumbers DEF StringCopied
  <2>3. /\ String(mem', d) = String(mem, d) \o String(mem, s)
        /\ \A a \in Addresses : a < d \/ a >= d + (k + l + 1) => mem'[a] = mem[a]
    <3>1. Joined(mem', mem, d, s, k + l + 1)
      BY <1>0, <1>1, <1>2, <2>1, <2>2, strcatBuilds
    <3> QED  BY <3>1 DEF Joined
  <2> QED  BY <2>2, <2>3 DEF StringsBuilt, Outside, Addresses
<1> QED  BY <1>1, <1>3, <1>4, <1>5

LEMMA StringsBuiltStep ==
  ASSUME MemTyped, StringsBuilt, [Next \/ PrintMessage]_vars
  PROVE  StringsBuilt'
<1>0. mem \in Contents
  BY DEF MemTyped
<1>1. CASE MoveBytes
  <2>1. call'.fn \in {"memmove", "memcpy"}
    BY <1>0, <1>1, MoveBytesDoes
  <2> QED  BY <2>1 DEF StringsBuilt
<1>2. CASE FillBytes
  BY <1>0, <1>2, FillBytesDoes DEF StringsBuilt
<1>3. CASE CopyString
  BY <1>3, CopyKeepsBuilt
<1>4. CASE Convert \/ Ready \/ PrintMessage
  BY <1>4, OthersDo DEF StringsBuilt, Conversions, Printers
<1>5. CASE UNCHANGED vars
  <2>1. mem' = mem /\ before' = before /\ call' = call
    BY <1>5 DEF vars
  <2> QED  BY <2>1 DEF StringsBuilt, Outside, Addresses
<1> QED  BY <1>1, <1>2, <1>3, <1>4, <1>5 DEF Next

\* Whatever was called before: strcpy and strcat build the string that C
\* promises, strncpy its first bytes and NULs behind them, and none of the
\* three writes a byte outside the area that the caller set aside (lib.c).
THEOREM StringsStayBuilt == PrintfSpec => []StringsBuilt
<1>1. Init => StringsBuilt
  BY DEF Init, StringsBuilt
<1>2. MemTyped /\ StringsBuilt /\ [Next \/ PrintMessage]_vars => StringsBuilt'
  BY StringsBuiltStep
<1> QED  BY <1>1, <1>2, BytesInMemory, PTL DEF PrintfSpec

-----------------------------------------------------------------------------
(***************************************************************************)
(* strcmp and strncmp.                                                     *)
(***************************************************************************)

\* x is what a comparison of at most n bytes reads at s: up to the NUL, if it
\* comes that far.
Reads(x, m, s, n) ==
  /\ x \in Seq(Nat) /\ Len(x) <= n
  /\ \A j \in 1..Len(x) : x[j] = m[s + j - 1] /\ x[j] # 0
  /\ Len(x) < n => m[s + Len(x)] = 0

\* The comparison stops at k, or comes to its end n.
SameUntil(m, s, t, k) == \A j \in 0..(k - 1) : m[s + j] = m[t + j] /\ m[s + j] # 0
StopsAt(m, s, t, k) == m[s + k] = 0 \/ m[s + k] # m[t + k]

LEMMA StringReads ==
  ASSUME NEW m \in Contents, NEW s \in Addresses, NEW l \in Nat, Terminated(m, s, l),
         NEW n \in Nat, l <= n
  PROVE  Reads(String(m, s), m, s, n)
<1>1. String(m, s) \in Seq(Bytes) /\ Len(String(m, s)) = l
  BY StringType
<1>2. String(m, s) \in Seq(Nat)
  <2> DEFINE x == String(m, s)
  <2>1. x \in Seq(Bytes) /\ Len(x) = l
    BY <1>1
  <2> HIDE DEF x
  <2>2. \A j \in 1..l : x[j] \in Nat
    <3>1. \A j \in 1..l : x[j] \in Bytes
      BY <2>1
    <3> QED  BY <3>1, LibraryNumbers
  <2>3. x = [j \in 1..l |-> x[j]]
    BY <2>1
  <2>4. x \in Seq(Nat)
    BY <2>2, <2>3, IsASeq
  <2> QED  BY <2>4 DEF x
<1>3. ASSUME NEW j \in 1..l
      PROVE  String(m, s)[j] = m[s + j - 1] /\ String(m, s)[j] # 0
  <2>1. s \in Nat /\ j - 1 \in 0..(l - 1) /\ s + (j - 1) = s + j - 1
    BY LibraryNumbers
  <2>2. m[s + j - 1] # 0
    BY <2>1 DEF Terminated
  <2>3. String(m, s)[j] = m[s + j - 1]
    BY StringOf
  <2> QED  BY <2>2, <2>3
<1> QED  BY <1>1, <1>2, <1>3 DEF Reads, Terminated

LEMMA CutReads ==
  ASSUME NEW m \in Contents, NEW s \in Addresses, NEW l \in Nat, Terminated(m, s, l), NEW n \in Nat
  PROVE  Reads(Cut(String(m, s), n), m, s, n)
<1> DEFINE x == String(m, s)
           c == SubSeq(x, 1, n)
<1>1. Reads(x, m, s, IF l <= n THEN n ELSE l) /\ Len(x) = l
  BY StringReads, StringType
<1> HIDE DEF x
<1>2. CASE l <= n
  <2>1. ~(Len(x) > n)
    BY <1>1, <1>2
  <2>2. Cut(x, n) = x
    BY <2>1 DEF Cut
  <2> QED  BY <1>1, <1>2, <2>2 DEF x
<1>3. CASE ~(l <= n)
  <2>1. x \in Seq(Nat) /\ \A j \in 1..l : x[j] = m[s + j - 1] /\ x[j] # 0
    BY <1>1, <1>3 DEF Reads
  <2>2. 1 \in Int /\ n \in Int /\ n - 1 + 1 = n /\ \A j \in 1..n : 1 + j - 1 = j
    OBVIOUS
  <2>3. c = [j \in 1..n |-> x[j]]
    BY <1>1, <2>1, <2>2
  <2> HIDE DEF c
  <2>4. 1..n \subseteq 1..l
    BY <1>3
  <2>5. \A j \in 1..n : x[j] \in Nat
    BY <1>1, <2>1, <2>4
  <2>6. c \in Seq(Nat) /\ Len(c) = n
    BY <2>3, <2>5, IsASeq
  <2>7. Reads(c, m, s, n)
    BY SMTT(20), <2>1, <2>3, <2>4, <2>6 DEF Reads
  <2>8. Cut(x, n) = c
    BY <1>1, <1>3 DEF Cut, c
  <2> QED  BY <2>7, <2>8 DEF x
<1> QED  BY <1>2, <1>3

\* The byte in front of which the comparison stops decides.
LEMMA StopDecides ==
  ASSUME NEW m \in Contents, NEW s \in Addresses, NEW t \in Addresses, NEW n \in Nat,
         NEW x, Reads(x, m, s, n), NEW y, Reads(y, m, t, n),
         NEW k \in 0..n, SameUntil(m, s, t, k), k < n => StopsAt(m, s, t, k),
         NEW v, v = IF k = n THEN 0 ELSE m[s + k] - m[t + k]
  PROVE  (v < 0 <=> Precedes(x, y)) /\ (v = 0 <=> x = y)
<1>1. s \in Nat /\ t \in Nat /\ Len(x) \in Nat /\ Len(y) \in Nat /\ Len(x) <= n /\ Len(y) <= n
  BY LibraryNumbers DEF Reads
<1>2. k <= Len(x) /\ k <= Len(y)
  <2>1. ASSUME Len(x) < k
        PROVE  FALSE
    <3>1. Len(x) \in 0..(k - 1) /\ Len(x) < n
      BY <1>1, <2>1
    <3> QED  BY <3>1 DEF Reads, SameUntil
  <2>2. ASSUME Len(y) < k
        PROVE  FALSE
    <3>1. Len(y) \in 0..(k - 1) /\ Len(y) < n
      BY <1>1, <2>2
    <3> QED  BY <3>1 DEF Reads, SameUntil
  <2> QED  BY <1>1, <2>1, <2>2
<1>3. ASSUME NEW j \in 1..Len(x)
      PROVE  x[j] = m[s + (j - 1)] /\ x[j] \in Nat \ {0}
  <2>1. s + j - 1 = s + (j - 1)
    BY <1>1
  <2>2. x[j] \in Nat /\ x[j] = m[s + j - 1] /\ x[j] # 0
    BY SMTT(20) DEF Reads
  <2> QED  BY <2>1, <2>2
<1>4. ASSUME NEW j \in 1..Len(y)
      PROVE  y[j] = m[t + (j - 1)] /\ y[j] \in Nat \ {0}
  <2>1. t + j - 1 = t + (j - 1)
    BY <1>1
  <2>2. y[j] \in Nat /\ y[j] = m[t + j - 1] /\ y[j] # 0
    BY SMTT(20) DEF Reads
  <2> QED  BY <2>1, <2>2
<1>5. \A j \in 1..k : x[j] = y[j]
  <2> TAKE j \in 1..k
  <2>1. j \in 1..Len(x) /\ j \in 1..Len(y) /\ j - 1 \in 0..(k - 1)
    BY <1>1, <1>2
  <2> QED  BY <1>3, <1>4, <2>1 DEF SameUntil
<1>6. ASSUME k < n
      PROVE  /\ v = m[s + k] - m[t + k] /\ StopsAt(m, s, t, k)
             /\ m[s + k] = IF k < Len(x) THEN x[k + 1] ELSE 0
             /\ m[t + k] = IF k < Len(y) THEN y[k + 1] ELSE 0
             /\ m[s + k] \in Nat /\ m[t + k] \in Nat
  <2>1. m[s + k] = IF k < Len(x) THEN x[k + 1] ELSE 0
    <3>1. CASE k < Len(x)
      <4>1. k + 1 \in 1..Len(x) /\ (k + 1) - 1 = k
        BY <1>1, <3>1
      <4> QED  BY <1>3, <3>1, <4>1
    <3>2. CASE ~(k < Len(x))
      <4>1. k = Len(x)
        BY <1>1, <1>2, <3>2
      <4> QED  BY <1>6, <3>2, <4>1 DEF Reads
    <3> QED  BY <3>1, <3>2
  <2>2. m[t + k] = IF k < Len(y) THEN y[k + 1] ELSE 0
    <3>1. CASE k < Len(y)
      <4>1. k + 1 \in 1..Len(y) /\ (k + 1) - 1 = k
        BY <1>1, <3>1
      <4> QED  BY <1>4, <3>1, <4>1
    <3>2. CASE ~(k < Len(y))
      <4>1. k = Len(y)
        BY <1>1, <1>2, <3>2
      <4> QED  BY <1>6, <3>2, <4>1 DEF Reads
    <3> QED  BY <3>1, <3>2
  <2>3. k < Len(x) => k + 1 \in 1..Len(x)
    BY <1>1
  <2>4. k < Len(y) => k + 1 \in 1..Len(y)
    BY <1>1
  <2>5. m[s + k] \in Nat
    BY <1>3, <2>1, <2>3
  <2>6. m[t + k] \in Nat
    BY <1>4, <2>2, <2>4
  <2>7. v = m[s + k] - m[t + k]
    BY <1>6
  <2> QED  BY <1>6, <2>1, <2>2, <2>5, <2>6, <2>7
<1>7. CASE k = n
  <2>1. Len(x) = k /\ Len(y) = k /\ v = 0
    BY <1>1, <1>2, <1>7
  <2>2. x = y
    BY <1>5, <2>1 DEF Reads
  <2>3. ~Precedes(x, y)
    <3>1. ASSUME NEW p \in 1..k, p > k \/ x[p] < y[p]
          PROVE  FALSE
      <4>1. x[p] = y[p] /\ x[p] \in Nat /\ ~(p > k)
        BY <1>3, <1>5, <2>1
      <4> QED  BY <3>1, <4>1
    <3> QED  BY <2>1, <3>1 DEF Precedes
  <2> QED  BY <2>1, <2>2, <2>3
<1>8. CASE k < n
  <2> DEFINE a == m[s + k]
             b == m[t + k]
  <2>1. /\ v = a - b /\ (a = 0 \/ a # b) /\ a \in Nat /\ b \in Nat
        /\ a = (IF k < Len(x) THEN x[k + 1] ELSE 0)
        /\ b = (IF k < Len(y) THEN y[k + 1] ELSE 0)
    BY <1>6, <1>8 DEF StopsAt
  <2> HIDE DEF a, b
  <2>2. /\ k < Len(x) => k + 1 \in 1..Len(x)
        /\ k < Len(y) => k + 1 \in 1..Len(y)
    BY <1>1
  <2>3. (k < Len(x) <=> a # 0) /\ (k < Len(y) <=> b # 0)
    BY <1>3, <1>4, <2>1, <2>2
  <2>4. ASSUME a < b
        PROVE  Precedes(x, y)
    <3>1. b # 0
      BY <2>1, <2>4
    <3>2. k + 1 \in 1..Len(y) /\ (k + 1) - 1 = k
      BY <2>2, <2>3, <3>1
    <3>3. \A j \in 1..k : j <= Len(x) /\ x[j] = y[j]
      BY <1>1, <1>2, <1>5
    <3>4. k + 1 > Len(x) \/ x[k + 1] < y[k + 1]
      <4>1. CASE k < Len(x)
        BY <2>1, <2>3, <2>4, <3>1, <4>1
      <4>2. CASE ~(k < Len(x))
        BY <1>1, <4>2
      <4> QED  BY <4>1, <4>2
    <3> QED  BY <3>2, <3>3, <3>4 DEF Precedes
  <2>5. ASSUME Precedes(x, y)
        PROVE  a < b
    <3>1. PICK p \in 1..Len(y) :
            /\ \A j \in 1..(p - 1) : j <= Len(x) /\ x[j] = y[j]
            /\ p > Len(x) \/ x[p] < y[p]
      BY <2>5 DEF Precedes
    <3>2. p > k
      <4>1. ASSUME p <= k
            PROVE  FALSE
        <5>1. p \in 1..k /\ p \in 1..Len(x) /\ ~(p > Len(x))
          BY <1>1, <1>2, <4>1
        <5> QED  BY <1>3, <1>5, <3>1, <5>1
      <4> QED  BY <4>1
    <3>3. k < Len(y) /\ b \in Nat \ {0}
      BY <1>1, <2>1, <2>3, <3>2
    <3>4. CASE p = k + 1
      <4>1. CASE k < Len(x)
        <5>1. ~(p > Len(x))
          BY <1>1, <3>4, <4>1
        <5> QED  BY <2>1, <3>1, <3>3, <3>4, <4>1, <5>1
      <4>2. CASE ~(k < Len(x))
        <5>1. a = 0
          BY <2>1, <4>2
        <5> QED  BY <3>3, <5>1
      <4> QED  BY <4>1, <4>2
    <3>5. CASE p # k + 1
      <4>1. k + 1 \in 1..(p - 1)
        BY <3>2, <3>5
      <4>2. k < Len(x) /\ x[k + 1] = y[k + 1]
        <5>1. k + 1 <= Len(x) /\ x[k + 1] = y[k + 1]
          BY <3>1, <4>1
        <5> QED  BY <1>1, <5>1
      <4> QED  BY <2>1, <2>3, <3>3, <4>2
    <3> QED  BY <3>4, <3>5
  <2>6. ASSUME a = b
        PROVE  x = y
    <3>1. Len(x) = k /\ Len(y) = k
      BY <1>1, <1>2, <2>1, <2>3, <2>6
    <3> QED  BY <1>5, <3>1 DEF Reads
  <2>7. ASSUME x = y
        PROVE  a = b
    BY <2>1, <2>7
  <2> QED  BY <2>1, <2>4, <2>5, <2>6, <2>7
<1> QED  BY <1>7, <1>8

\* The first stop, if there is one.
LEMMA FirstStopFound ==
  ASSUME NEW m, NEW s \in Addresses, NEW t \in Addresses, NEW i \in 0..MemSize, StopsAt(m, s, t, i)
  PROVE  \E k \in 0..i : /\ k = FirstStop(LAMBDA j : m[s + j] = 0 \/ m[s + j] # m[t + j])
                         /\ StopsAt(m, s, t, k) /\ SameUntil(m, s, t, k)
<1> DEFINE T == {j \in 0..MemSize : StopsAt(m, s, t, j)}
<1>0. MemSize \in Nat
  BY LibraryNumbers
<1>1. T \subseteq Nat /\ i \in T
  BY <1>0
<1>2. PICK k \in T : \A j \in T : k <= j
  BY <1>1, LeastNumber
<1>3. k <= i /\ k \in 0..i /\ k \in 0..MemSize
  BY <1>0, <1>1, <1>2
<1>4. ASSUME NEW j \in 0..(k - 1)
      PROVE  ~StopsAt(m, s, t, j)
  <2>1. j \in 0..MemSize /\ ~(k <= j)
    BY <1>0, <1>3
  <2> QED  BY <1>2, <2>1
<1>5. ASSUME NEW l \in 0..MemSize, StopsAt(m, s, t, l), \A j \in 0..(l - 1) : ~StopsAt(m, s, t, j)
      PROVE  l = k
  <2>1. k <= l
    BY <1>2, <1>5
  <2>2. ~(k < l)
    <3>1. k < l => k \in 0..(l - 1)
      BY <1>0, <1>3
    <3> QED  BY <1>2, <1>5, <3>1
  <2> QED  BY <1>0, <1>3, <2>1, <2>2
<1>6. StopsAt(m, s, t, k)
  BY <1>2
<1>7. k = CHOOSE l \in 0..MemSize : StopsAt(m, s, t, l) /\ \A j \in 0..(l - 1) : ~StopsAt(m, s, t, j)
  <2> HIDE DEF T
  <2> QED  BY <1>3, <1>4, <1>5, <1>6
<1>8. k = FirstStop(LAMBDA j : m[s + j] = 0 \/ m[s + j] # m[t + j])
  BY <1>7 DEF FirstStop, StopsAt
<1>9. SameUntil(m, s, t, k)
  BY <1>4 DEF SameUntil, StopsAt
<1> QED  BY <1>3, <1>6, <1>8, <1>9

LEMMA strcmpCompares ==
  ASSUME NEW m \in Contents, NEW s \in Addresses, NEW t \in Addresses,
         IsString(m, s), IsString(m, t)
  PROVE  /\ strcmp(m, s, t) < 0 <=> Precedes(String(m, s), String(m, t))
         /\ strcmp(m, s, t) = 0 <=> String(m, s) = String(m, t)
<1>1. PICK l \in 0..MemSize : Terminated(m, s, l)
  BY FirstNul
<1>2. PICK r \in 0..MemSize : Terminated(m, t, r)
  BY FirstNul
<1>3. MemSize \in Nat /\ l \in Nat /\ r \in Nat /\ l <= MemSize /\ r <= MemSize /\ l < MemSize
  <2>1. l < MemSize
    BY <1>1, LibraryNumbers DEF Terminated
  <2> QED  BY <2>1, LibraryNumbers
<1>4. Reads(String(m, s), m, s, MemSize) /\ Reads(String(m, t), m, t, MemSize)
  BY <1>1, <1>2, <1>3, StringReads
<1>5. StopsAt(m, s, t, l)
  BY <1>1 DEF StopsAt, Terminated
<1>6. PICK k \in 0..l : /\ k = FirstStop(LAMBDA j : m[s + j] = 0 \/ m[s + j] # m[t + j])
                        /\ StopsAt(m, s, t, k) /\ SameUntil(m, s, t, k)
  BY <1>5, FirstStopFound
<1>7. strcmp(m, s, t) = m[s + k] - m[t + k]
  BY <1>6 DEF strcmp
<1>8. k \in 0..MemSize /\ k # MemSize
  BY <1>3
<1> DEFINE v == strcmp(m, s, t)
<1>9. v = IF k = MemSize THEN 0 ELSE m[s + k] - m[t + k]
  BY <1>7, <1>8
<1> HIDE DEF v
<1>10. /\ v < 0 <=> Precedes(String(m, s), String(m, t))
       /\ v = 0 <=> String(m, s) = String(m, t)
  BY <1>3, <1>4, <1>6, <1>8, <1>9, StopDecides
<1> QED  BY <1>10 DEF v

LEMMA strncmpCompares ==
  ASSUME NEW m \in Contents, NEW s \in Addresses, NEW t \in Addresses,
         IsString(m, s), IsString(m, t), NEW n \in 0..MemSize
  PROVE  /\ strncmp(m, s, t, n) < 0 <=> Precedes(Cut(String(m, s), n), Cut(String(m, t), n))
         /\ strncmp(m, s, t, n) = 0 <=> Cut(String(m, s), n) = Cut(String(m, t), n)
<1>1. PICK l \in 0..MemSize : Terminated(m, s, l)
  BY FirstNul
<1>2. PICK r \in 0..MemSize : Terminated(m, t, r)
  BY FirstNul
<1>3. MemSize \in Nat /\ n \in Nat /\ l \in Nat /\ r \in Nat
  BY LibraryNumbers
<1> DEFINE x == Cut(String(m, s), n)
           y == Cut(String(m, t), n)
           v == strncmp(m, s, t, n)
<1>4. Reads(x, m, s, n) /\ Reads(y, m, t, n)
  BY <1>1, <1>2, <1>3, CutReads
<1>5. CASE \E j \in 0..(n - 1) : m[s + j] = 0 \/ m[s + j] # m[t + j]
  <2>1. PICK i \in 0..(n - 1) : StopsAt(m, s, t, i)
    BY <1>5 DEF StopsAt
  <2>2. i \in 0..MemSize
    BY <1>3
  <2>3. PICK k \in 0..i : /\ k = FirstStop(LAMBDA j : m[s + j] = 0 \/ m[s + j] # m[t + j])
                          /\ StopsAt(m, s, t, k) /\ SameUntil(m, s, t, k)
    BY <2>1, <2>2, FirstStopFound
  <2>4. k \in 0..n /\ k # n
    BY <1>3
  <2>5. v = IF k = n THEN 0 ELSE m[s + k] - m[t + k]
    BY <1>5, <2>3, <2>4 DEF strncmp
  <2> HIDE DEF v, x, y
  <2>6. (v < 0 <=> Precedes(x, y)) /\ (v = 0 <=> x = y)
    BY <1>3, <1>4, <2>3, <2>4, <2>5, StopDecides
  <2> QED  BY <2>6 DEF v, x, y
<1>6. CASE ~\E j \in 0..(n - 1) : m[s + j] = 0 \/ m[s + j] # m[t + j]
  <2>1. SameUntil(m, s, t, n)
    BY <1>6 DEF SameUntil
  <2>2. v = 0
    BY <1>6 DEF strncmp
  <2>3. n \in 0..n /\ ~(n < n) /\ v = IF n = n THEN 0 ELSE m[s + n] - m[t + n]
    BY <1>3, <2>2
  <2> HIDE DEF v, x, y
  <2>4. (v < 0 <=> Precedes(x, y)) /\ (v = 0 <=> x = y)
    BY <1>3, <1>4, <2>1, <2>3, StopDecides
  <2> QED  BY <2>4 DEF v, x, y
<1> QED  BY <1>5, <1>6

\* Whatever the memory holds: strcmp and strncmp are 0 for equal strings only,
\* and their sign is the order of the strings, for strncmp as far as n bytes
\* reach; the shell and the file system choose by them (lib.c).
THEOREM StringsStayCompared == PrintfSpec => []StringsCompared
<1>1. MemTyped => StringsCompared
  BY strcmpCompares, strncmpCompares DEF MemTyped, StringsCompared
<1> QED  BY <1>1, BytesInMemory, PTL

-----------------------------------------------------------------------------
(***************************************************************************)
(* Numbers.  The recursive function of DigitsUp exists, because a quotient *)
(* is nearer to 0 than what was divided: it is put together from functions *)
(* on the numbers from -n to n.                                            *)
(***************************************************************************)

LEMMA Division ==
  ASSUME NEW v \in Nat, NEW b \in Nat, b >= 2
  PROVE  /\ v \div b \in Nat /\ v - (v \div b) * b \in 0..(b - 1)
         /\ v \div b <= v /\ (v > 0 => v \div b < v)
<1> DEFINE q == v \div b
           r == v % b
           p == q * b
<1>1. q \in Int /\ r \in 0..(b - 1) /\ v = b * q + r
  OBVIOUS
<1>2. p = b * q /\ p \in Int
  BY <1>1
<1>3. q >= 0
  <2>1. ASSUME q <= -1
        PROVE  FALSE
    <3>1. b * q <= b * (-1)
      <4> HIDE DEF q, r, p
      <4> QED  BY <1>1, <2>1
    <3> HIDE DEF q, r, p
    <3> QED  BY <1>1, <3>1
  <2> HIDE DEF q
  <2> QED  BY <1>1, <2>1
<1>4. 2 * q <= p
  <2> HIDE DEF q, r, p
  <2> QED  BY <1>1, <1>2, <1>3
<1> HIDE DEF q, r, p
<1>5. q \in Nat /\ v - p = r /\ q <= v /\ (v > 0 => q < v)
  BY <1>1, <1>2, <1>3, <1>4
<1> QED  BY <1>1, <1>5 DEF q, p

LEMMA QuotientOf ==
  ASSUME NEW v \in Int, NEW b \in Nat, b >= 2
  PROVE  /\ Quotient(v, b) \in Int
         /\ v \in Nat => /\ Quotient(v, b) \in Nat /\ v - Quotient(v, b) * b \in 0..(b - 1)
                         /\ (v > 0 => Quotient(v, b) < v)
         /\ \A n \in Nat : v \in (-n)..n => Quotient(v, b) \in (-n)..n
         /\ \A n \in Nat : v \in (-(n + 1))..(n + 1) => Quotient(v, b) \in (-n)..n
<1>1. CASE v >= 0
  <2>1. v \in Nat /\ Quotient(v, b) = v \div b
    BY <1>1 DEF Quotient
  <2> DEFINE q == v \div b
  <2>2. /\ q \in Nat /\ v - q * b \in 0..(b - 1)
        /\ q <= v /\ (v > 0 => q < v)
    BY <2>1, Division
  <2> HIDE DEF q
  <2>3. /\ \A n \in Nat : v \in (-n)..n => q \in (-n)..n
        /\ \A n \in Nat : v \in (-(n + 1))..(n + 1) => q \in (-n)..n
    BY <2>1, <2>2
  <2> QED  BY <2>1, <2>2, <2>3 DEF q
<1>2. CASE v < 0
  <2>1. -v \in Nat /\ -v > 0 /\ ~(v \in Nat) /\ Quotient(v, b) = -((-v) \div b)
    BY <1>2 DEF Quotient
  <2> DEFINE q == (-v) \div b
  <2>2. q \in Nat /\ q < -v
    BY <2>1, Division
  <2> HIDE DEF q
  <2>3. /\ \A n \in Nat : v \in (-n)..n => -q \in (-n)..n
        /\ \A n \in Nat : v \in (-(n + 1))..(n + 1) => -q \in (-n)..n
        /\ -q \in Int
    BY <2>1, <2>2
  <2> QED  BY <2>1, <2>3 DEF q
<1> QED  BY <1>1, <1>2

DigitsStep(f, v, base) ==
  <<v - Quotient(v, base) * base>>
  \o (IF Quotient(v, base) = 0 THEN << >> ELSE f[Quotient(v, base)])

Around(n) == (-n)..n
DigitsOn(f, n, base) ==
  f \in [Around(n) -> Seq(Int)] /\ \A v \in Around(n) : f[v] = DigitsStep(f, v, base)

LEMMA DigitsStepType ==
  ASSUME NEW f, NEW v \in Int, NEW b \in Nat, b >= 2,
         Quotient(v, b) # 0 => f[Quotient(v, b)] \in Seq(Int)
  PROVE  DigitsStep(f, v, b) \in Seq(Int)
<1> DEFINE d == v - Quotient(v, b) * b
           rest == IF Quotient(v, b) = 0 THEN << >> ELSE f[Quotient(v, b)]
<1>1. d \in Int
  BY QuotientOf
<1>2. rest \in Seq(Int)
  OBVIOUS
<1>3. DigitsStep(f, v, b) = <<d>> \o rest
  BY DEF DigitsStep
<1> HIDE DEF d, rest
<1>4. <<d>> \in Seq(Int)
  BY <1>1
<1>5. <<d>> \o rest \in Seq(Int)
  BY <1>2, <1>4, ConcatProperties
<1> QED  BY <1>3, <1>5

LEMMA DigitsSame ==
  ASSUME NEW n \in Nat, NEW k \in Nat, NEW b \in Nat, b >= 2,
         NEW f, DigitsOn(f, n, b), NEW g, DigitsOn(g, k, b),
         NEW v \in Int, v \in Around(n), v \in Around(k)
  PROVE  f[v] = g[v]
<1> DEFINE Differs == {l \in Nat : \E u \in Around(l) : u \in Around(n) /\ u \in Around(k) /\ f[u] # g[u]}
<1>1. ASSUME f[v] # g[v]
      PROVE  FALSE
  <2>1. Differs \subseteq Nat /\ Differs # {}
    <3>1. n \in Differs
      BY <1>1
    <3> QED  BY <3>1
  <2>2. PICK l \in Differs : \A j \in Differs : l <= j
    BY <2>1, LeastNumber
  <2>3. PICK u \in Around(l) : u \in Around(n) /\ u \in Around(k) /\ f[u] # g[u]
    BY <2>2
  <2>4. u \in Int /\ l \in Nat
    BY <2>2 DEF Around
  <2> DEFINE q == Quotient(u, b)
  <2>5. q \in Int /\ q \in Around(n) /\ q \in Around(k)
    BY <2>3, <2>4, QuotientOf DEF Around
  <2>6. f[u] = DigitsStep(f, u, b) /\ g[u] = DigitsStep(g, u, b)
    BY <2>3 DEF DigitsOn
  <2>7. q # 0 /\ f[q] # g[q]
    BY <2>3, <2>6 DEF DigitsStep
  <2>8. l # 0
    <3>1. ASSUME l = 0
          PROVE  FALSE
      <4>1. u \in (-0)..0
        BY <3>1 DEF Around
      <4>2. q \in (-0)..0
        BY <2>4, <4>1, QuotientOf
      <4> QED  BY <2>7, <4>2
    <3> QED  BY <3>1
  <2>9. l - 1 \in Nat /\ (l - 1) + 1 = l
    BY <2>4, <2>8
  <2>10. q \in Around(l - 1)
    <3>1. u \in (-((l - 1) + 1))..((l - 1) + 1)
      BY <2>9 DEF Around
    <3> QED  BY <2>4, <2>9, <3>1, QuotientOf DEF Around
  <2> HIDE DEF q
  <2>11. l - 1 \in Differs
    BY <2>5, <2>7, <2>9, <2>10
  <2>12. l <= l - 1
    BY <2>2, <2>11
  <2> QED  BY <2>4, <2>12
<1> QED  BY <1>1

LEMMA DigitsGrow ==
  ASSUME NEW n \in Nat, NEW b \in Nat, b >= 2, NEW f, DigitsOn(f, n, b)
  PROVE  \E g : DigitsOn(g, n + 1, b)
<1> DEFINE g == [v \in Around(n + 1) |-> DigitsStep(f, v, b)]
<1>1. ASSUME NEW v \in Around(n + 1)
      PROVE  v \in Int /\ Quotient(v, b) \in Around(n) /\ Quotient(v, b) \in Around(n + 1)
  <2>1. v \in Int /\ v \in (-(n + 1))..(n + 1)
    BY DEF Around
  <2>2. Quotient(v, b) \in (-n)..n
    BY <2>1, QuotientOf
  <2>3. (-n)..n \subseteq (-(n + 1))..(n + 1)
    OBVIOUS
  <2> QED  BY <2>1, <2>2, <2>3 DEF Around
<1>2. \A v \in Around(n) : v \in Around(n + 1) /\ g[v] = f[v]
  BY DEF Around, DigitsOn
<1>3. ASSUME NEW v \in Around(n + 1)
      PROVE  g[v] \in Seq(Int) /\ g[v] = DigitsStep(g, v, b)
  <2>1. f[Quotient(v, b)] \in Seq(Int) /\ v \in Int
    BY <1>1 DEF DigitsOn
  <2>2. DigitsStep(f, v, b) \in Seq(Int)
    BY <2>1, DigitsStepType
  <2>3. g[v] = DigitsStep(f, v, b)
    OBVIOUS
  <2> HIDE DEF g
  <2>4. g[Quotient(v, b)] = f[Quotient(v, b)]
    BY <1>1, <1>2
  <2>5. DigitsStep(f, v, b) = DigitsStep(g, v, b)
    BY <2>4 DEF DigitsStep
  <2> QED  BY <2>2, <2>3, <2>5
<1>4. g = [v \in Around(n + 1) |-> g[v]]
  OBVIOUS
<1> HIDE DEF g
<1>5. DigitsOn(g, n + 1, b)
  BY <1>3, <1>4 DEF DigitsOn
<1> QED  BY <1>5

LEMMA DigitsFarEnough ==
  ASSUME NEW n \in Nat, NEW b \in Nat, b >= 2
  PROVE  \E f : DigitsOn(f, n, b)
<1> DEFINE Good == {m \in 0..n : \E f : DigitsOn(f, m, b)}
<1>1. 0 \in Good
  <2> DEFINE f == [v \in Around(0) |-> DigitsStep(<< >>, v, b)]
  <2>1. \A v \in Around(0) : v = 0 /\ v \in Int /\ v \in (-0)..0
    BY DEF Around
  <2>2. Quotient(0, b) = 0
    <3>1. 0 \in Int /\ 0 \in Nat /\ 0 \in (-0)..0
      OBVIOUS
    <3>2. Quotient(0, b) \in (-0)..0
      BY <3>1, QuotientOf
    <3> QED  BY <3>2
  <2>3. \A v \in Around(0) : DigitsStep(<< >>, v, b) \in Seq(Int)
    BY <2>1, <2>2, DigitsStepType
  <2>4. \A v \in Around(0) : f[v] = DigitsStep(f, v, b)
    BY <2>1, <2>2 DEF DigitsStep
  <2>5. f \in [Around(0) -> Seq(Int)]
    BY <2>3
  <2> HIDE DEF f
  <2>6. DigitsOn(f, 0, b)
    BY <2>4, <2>5 DEF DigitsOn
  <2> QED  BY <2>6
<1>2. ASSUME NEW m \in 0..(n - 1), m \in Good
      PROVE  m + 1 \in Good
  <2>1. m \in Nat /\ m + 1 \in 0..n
    OBVIOUS
  <2>2. \E g : DigitsOn(g, m + 1, b)
    BY <1>2, <2>1, DigitsGrow
  <2> QED  BY <2>1, <2>2
<1>3. 0..n \subseteq Good /\ n \in 0..n
  <2> HIDE DEF Good
  <2> QED  BY <1>1, <1>2, UpTo
<1> QED  BY <1>3

Far(v) == IF v < 0 THEN -v ELSE v
DigitsNear(v, base) == CHOOSE f : DigitsOn(f, Far(v), base)

LEMMA DigitsNearBy ==
  ASSUME NEW v \in Int, NEW b \in Nat, b >= 2
  PROVE  Far(v) \in Nat /\ v \in Around(Far(v)) /\ DigitsOn(DigitsNear(v, b), Far(v), b)
<1>1. Far(v) \in Nat /\ v \in Around(Far(v))
  BY DEF Far, Around
<1>2. \E f : DigitsOn(f, Far(v), b)
  BY <1>1, DigitsFarEnough
<1> QED  BY <1>1, <1>2 DEF DigitsNear

LEMMA DigitsExist ==
  ASSUME NEW b \in Nat, b >= 2
  PROVE  \E f : f = [v \in Int |-> DigitsStep(f, v, b)]
<1> DEFINE f == [v \in Int |-> DigitsNear(v, b)[v]]
<1>1. ASSUME NEW v \in Int
      PROVE  f[v] = DigitsStep(f, v, b)
  <2> DEFINE q == Quotient(v, b)
             g == DigitsNear(v, b)
  <2>1. Far(v) \in Nat /\ v \in Around(Far(v)) /\ DigitsOn(g, Far(v), b)
    BY DigitsNearBy
  <2>2. g[v] = DigitsStep(g, v, b)
    BY <2>1 DEF DigitsOn
  <2>3. q \in Int /\ q \in Around(Far(v))
    BY <2>1, QuotientOf DEF Around
  <2>4. Far(q) \in Nat /\ q \in Around(Far(q)) /\ DigitsOn(DigitsNear(q, b), Far(q), b)
    BY <2>3, DigitsNearBy
  <2>5. g[q] = DigitsNear(q, b)[q]
    <3> HIDE DEF g, q
    <3> QED  BY <2>1, <2>3, <2>4, DigitsSame
  <2>6. f[q] = g[q] /\ f[v] = g[v]
    BY <2>3, <2>5
  <2> HIDE DEF f, g
  <2>7. DigitsStep(g, v, b) = DigitsStep(f, v, b)
    BY <2>6 DEF DigitsStep
  <2> QED  BY <2>2, <2>6, <2>7
<1>2. f = [v \in Int |-> f[v]]
  OBVIOUS
<1> HIDE DEF f
<1>3. f = [v \in Int |-> DigitsStep(f, v, b)]
  BY <1>1, <1>2
<1> QED  BY <1>3

\* What DigitsUp does in every call.
LEMMA DigitsUpOf ==
  ASSUME NEW v \in Int, NEW b \in Nat, b >= 2
  PROVE  DigitsUp(v, b) =
           <<v - Quotient(v, b) * b>>
           \o (IF Quotient(v, b) = 0 THEN << >> ELSE DigitsUp(Quotient(v, b), b))
<1> DEFINE f == CHOOSE h : h = [u \in Int |-> DigitsStep(h, u, b)]
<1>1. f = [u \in Int |-> DigitsStep(f, u, b)]
  BY DigitsExist
<1>2. \A u \in Int : DigitsUp(u, b) = f[u]
  BY DEF DigitsUp, DigitsStep
<1> HIDE DEF f
<1>3. Quotient(v, b) \in Int
  BY QuotientOf
<1>4. f[v] = DigitsStep(f, v, b)
  BY <1>1
<1>5. DigitsUp(v, b) = DigitsStep(f, v, b) /\ DigitsUp(Quotient(v, b), b) = f[Quotient(v, b)]
  BY <1>2, <1>3, <1>4
<1> QED  BY <1>5 DEF DigitsStep

\* Horner's scheme, the fold in Number.
Horner(t, base) == FoldLeft(LAMBDA acc, d : acc * base + d, 0, t)

Whole == Int

HornerAt(v, base, d) == v * base + d

HornerFolds(it, t, base, n) ==
  it = [s \in SUBSET (1..n) |->
          IF s = {} THEN 0 ELSE HornerAt(it[WithoutLargest(s)], base, t[Largest(s)])]

LEMMA HornerFoldsExist ==
  ASSUME NEW n \in Nat, NEW t, \A i \in 1..n : t[i] \in Int, NEW b \in Int
  PROVE  \E it : HornerFolds(it, t, b, n)
<1> DEFINE step == [x \in Whole \X (1..n) |-> HornerAt(x[1], b, t[x[2]])]
<1>1. ASSUME NEW v \in Whole, NEW i \in 1..n
      PROVE  step[<<v, i>>] = HornerAt(v, b, t[i]) /\ step[<<v, i>>] \in Whole
  <2>1. step[<<v, i>>] = HornerAt(v, b, t[i])
    OBVIOUS
  <2>2. HornerAt(v, b, t[i]) \in Whole
    BY DEF HornerAt, Whole
  <2> QED  BY <2>1, <2>2
<1> HIDE DEF step
<1>2. PICK it \in [SUBSET (1..n) -> Whole] : Folds_(it, n, 0, step)
  <2>1. 0 \in Whole
    BY DEF Whole
  <2> QED  BY <1>1, <2>1, FoldsExist
<1>3. ASSUME NEW s \in SUBSET (1..n)
      PROVE  it[s] = IF s = {} THEN 0 ELSE HornerAt(it[WithoutLargest(s)], b, t[Largest(s)])
  <2>1. /\ s = {} => it[s] = 0
        /\ s # {} => it[s] = step[<<it[WithoutLargest(s)], Largest(s)>>]
    <3>1. FoldsAt(it, s, 0, step)
      BY <1>2, FoldsEverywhere
    <3> QED  BY <3>1 DEF FoldsAt
  <2>2. ASSUME s # {}
        PROVE  it[WithoutLargest(s)] \in Whole /\ Largest(s) \in 1..n
    <3>1. WithoutLargest(s) \in SUBSET (1..n)
      BY DEF WithoutLargest
    <3> QED  BY <2>2, <3>1, LargestInside
  <2> QED  BY <1>1, <2>1, <2>2
<1>4. it = [s \in SUBSET (1..n) |-> it[s]]
  OBVIOUS
<1> QED  BY <1>3, <1>4 DEF HornerFolds

LEMMA HornerIsFold ==
  ASSUME NEW n \in Nat, NEW t, DOMAIN t = 1..n, NEW b
  PROVE  Horner(t, b) = (CHOOSE it : HornerFolds(it, t, b, n))[1..n]
BY DEF Horner, FoldLeft, MapThenFoldSet, HornerFolds, HornerAt, Largest, WithoutLargest

\* w has what is in the accumulator after each of the n digits.
Accumulates(w, t, b, n) ==
  /\ DOMAIN t = 1..n /\ \A i \in 1..n : t[i] \in Int
  /\ w[0] = 0 /\ \A k \in 0..(n - 1) : w[k + 1] = HornerAt(w[k], b, t[k + 1])

LEMMA HornerSteps ==
  ASSUME NEW n \in Nat, NEW t, NEW b \in Int, NEW w, Accumulates(w, t, b, n)
  PROVE  Horner(t, b) = w[n]
<1>0. /\ DOMAIN t = 1..n /\ \A i \in 1..n : t[i] \in Int
      /\ w[0] = 0 /\ \A k \in 0..(n - 1) : w[k + 1] = HornerAt(w[k], b, t[k + 1])
  BY DEF Accumulates
<1>1. PICK it : HornerFolds(it, t, b, n) /\ Horner(t, b) = it[1..n]
  BY <1>0, HornerFoldsExist, HornerIsFold
<1>2. ASSUME NEW s \in SUBSET (1..n)
      PROVE  it[s] = IF s = {} THEN 0 ELSE HornerAt(it[WithoutLargest(s)], b, t[Largest(s)])
  BY <1>1 DEF HornerFolds
<1> DEFINE Good == {k \in 0..n : it[1..k] = w[k]}
<1>3. 0 \in Good
  <2>1. 1..0 = {} /\ {} \in SUBSET (1..n) /\ 0 \in 0..n
    OBVIOUS
  <2>2. it[{}] = w[0]
    BY <1>0, <1>2, <2>1
  <2> QED  BY <2>1, <2>2
<1>4. ASSUME NEW k \in 0..(n - 1), k \in Good
      PROVE  k + 1 \in Good
  <2>1. k \in Nat /\ k + 1 \in 0..n /\ 1..(k + 1) \in SUBSET (1..n)
    OBVIOUS
  <2>2. it[1..(k + 1)] = HornerAt(it[1..k], b, t[k + 1])
    BY <1>2, <2>1, LargestPlace
  <2> QED  BY <1>0, <1>4, <2>1, <2>2
<1>5. 0..n \subseteq Good /\ n \in 0..n
  <2> HIDE DEF Good
  <2>1. \A k \in 0..(n - 1) : k \in Good => k + 1 \in Good
    BY <1>4
  <2>2. 0..n \subseteq Good
    BY <1>3, <2>1, UpTo
  <2>3. n \in 0..n
    OBVIOUS
  <2> QED  BY <2>2, <2>3
<1> QED  BY <1>1, <1>5

LEMMA HornerEmpty ==
  ASSUME NEW t, DOMAIN t = 1..0, NEW b \in Int
  PROVE  Horner(t, b) = 0
<1> DEFINE w == [k \in 0..0 |-> 0]
<1>1. /\ w[0] = 0 /\ 0 \in Nat /\ \A i \in 1..0 : t[i] \in Int
      /\ \A k \in 0..(0 - 1) : w[k + 1] = HornerAt(w[k], b, t[k + 1])
  OBVIOUS
<1> HIDE DEF w
<1>2. Accumulates(w, t, b, 0)
  BY <1>1 DEF Accumulates
<1> QED  BY <1>1, <1>2, HornerSteps

\* u is t with one digit more.
LEMMA HornerAppend ==
  ASSUME NEW n \in Nat, NEW t, DOMAIN t = 1..n, NEW u, DOMAIN u = 1..(n + 1),
         \A i \in 1..(n + 1) : u[i] \in Int, \A i \in 1..n : u[i] = t[i], NEW b \in Int
  PROVE  Horner(u, b) = Horner(t, b) * b + u[n + 1]
<1>0. n + 1 \in Nat /\ \A i \in 1..n : t[i] \in Int
  OBVIOUS
<1>1. PICK it : HornerFolds(it, u, b, n + 1) /\ Horner(u, b) = it[1..(n + 1)]
  BY <1>0, HornerFoldsExist, HornerIsFold
<1>2. ASSUME NEW s \in SUBSET (1..(n + 1))
      PROVE  it[s] = IF s = {} THEN 0 ELSE HornerAt(it[WithoutLargest(s)], b, u[Largest(s)])
  BY <1>1 DEF HornerFolds
<1> DEFINE w == [k \in 0..n |-> it[1..k]]
<1>3. ASSUME NEW k \in 0..n
      PROVE  it[1..(k + 1)] = HornerAt(it[1..k], b, u[k + 1])
  <2>1. k \in Nat /\ 1..(k + 1) \in SUBSET (1..(n + 1))
    OBVIOUS
  <2> QED  BY <1>2, <2>1, LargestPlace
<1>4. w[0] = 0
  <2>1. 1..0 = {} /\ {} \in SUBSET (1..(n + 1)) /\ 0 \in 0..n
    OBVIOUS
  <2> QED  BY <1>2, <2>1
<1>5. ASSUME NEW k \in 0..(n - 1)
      PROVE  w[k + 1] = HornerAt(w[k], b, t[k + 1])
  <2>1. k \in 0..n /\ k + 1 \in 0..n /\ k + 1 \in 1..n
    OBVIOUS
  <2>2. u[k + 1] = t[k + 1]
    BY <2>1
  <2>3. w[k + 1] = it[1..(k + 1)] /\ w[k] = it[1..k]
    BY <2>1
  <2> HIDE DEF w
  <2> QED  BY <1>3, <2>1, <2>2, <2>3
<1>6. Horner(t, b) = w[n] /\ w[n] = it[1..n] /\ n \in 0..n
  <2>1. w[n] = it[1..n] /\ n \in 0..n
    OBVIOUS
  <2> HIDE DEF w
  <2>2. \A k \in 0..(n - 1) : w[k + 1] = HornerAt(w[k], b, t[k + 1])
    BY <1>5
  <2>3. Accumulates(w, t, b, n)
    BY <1>0, <1>4, <2>2 DEF Accumulates
  <2>4. Horner(t, b) = w[n]
    BY <2>3, HornerSteps
  <2> QED  BY <2>1, <2>4
<1> HIDE DEF w
<1>7. it[1..(n + 1)] = HornerAt(it[1..n], b, u[n + 1])
  BY <1>3, <1>6
<1> QED  BY <1>1, <1>6, <1>7 DEF HornerAt

-----------------------------------------------------------------------------
\* The digits of a number, turned round, denote it.
Digits(b) == 0..(b - 1)

DigitsGood(v, b) ==
  /\ DigitsUp(v, b) \in Seq(Digits(b)) /\ Len(DigitsUp(v, b)) >= 1
  /\ Horner(Reverse(DigitsUp(v, b)), b) = v
  /\ IF v = 0 THEN Len(DigitsUp(v, b)) = 1 ELSE Reverse(DigitsUp(v, b))[1] # 0

LEMMA ReversedType ==
  ASSUME NEW S, NEW t \in Seq(S)
  PROVE  /\ Reverse(t) \in Seq(S) /\ Len(Reverse(t)) = Len(t)
         /\ \A i \in 1..Len(t) : Reverse(t)[i] = t[Len(t) - i + 1]
<1>1. \A i \in 1..Len(t) : Len(t) - i + 1 \in 1..Len(t)
  OBVIOUS
<1>2. Reverse(t) = [i \in 1..Len(t) |-> t[Len(t) - i + 1]]
  BY DEF Reverse
<1>3. \A i \in 1..Len(t) : t[Len(t) - i + 1] \in S
  BY <1>1
<1>4. Len(t) \in Nat
  OBVIOUS
<1>5. Reverse(t) \in Seq(S) /\ Len(Reverse(t)) = Len(t)
  BY <1>2, <1>3, <1>4, IsASeq
<1> QED  BY <1>2, <1>5

TurnedBegins(u, d, t) == Reverse(u)[1] = IF Len(t) = 0 THEN d ELSE Reverse(t)[1]

\* One digit in front of t becomes one digit behind Reverse(t).
LEMMA DigitInFront ==
  ASSUME NEW b \in Nat, b >= 2, NEW t \in Seq(Digits(b)), NEW d \in Digits(b),
         NEW u, u = <<d>> \o t
  PROVE  /\ u \in Seq(Digits(b)) /\ Len(u) = Len(t) + 1
         /\ Horner(Reverse(u), b) = Horner(Reverse(t), b) * b + d
         /\ TurnedBegins(u, d, t)
<1> DEFINE n == Len(t)
           one == <<d>>
<1>1. one \in Seq(Digits(b)) /\ Len(one) = 1 /\ one[1] = d /\ n \in Nat
  OBVIOUS
<1> HIDE DEF one
<1>2. /\ u \in Seq(Digits(b)) /\ Len(u) = 1 + n
      /\ \A i \in 1..(1 + n) : u[i] = IF i <= 1 THEN one[i] ELSE t[i - 1]
  <2>1. /\ one \o t \in Seq(Digits(b)) /\ Len(one \o t) = Len(one) + Len(t)
        /\ \A i \in 1..(Len(one) + Len(t)) :
             (one \o t)[i] = IF i <= Len(one) THEN one[i] ELSE t[i - Len(one)]
    BY <1>1, ConcatProperties
  <2>2. u = one \o t
    BY DEF one
  <2> QED  BY <1>1, <2>1, <2>2
<1> DEFINE rt == Reverse(t)
           ru == Reverse(u)
<1>3. /\ rt \in Seq(Digits(b)) /\ Len(rt) = n /\ \A i \in 1..n : rt[i] = t[n - i + 1]
  BY ReversedType
<1>4. /\ ru \in Seq(Digits(b)) /\ Len(ru) = n + 1
      /\ \A i \in 1..(n + 1) : ru[i] = u[(n + 1) - i + 1]
  <2>1. /\ ru \in Seq(Digits(b)) /\ Len(ru) = Len(u)
        /\ \A i \in 1..Len(u) : ru[i] = u[Len(u) - i + 1]
    BY <1>2, ReversedType
  <2>2. Len(u) = n + 1
    BY <1>1, <1>2
  <2> QED  BY <2>1, <2>2
<1> HIDE DEF rt, ru, n
<1>5. \A i \in 1..n : ru[i] = rt[i]
  <2> TAKE i \in 1..n
  <2>1. /\ i \in 1..(n + 1) /\ (n + 1) - i + 1 \in 1..(1 + n)
        /\ ~((n + 1) - i + 1 <= 1) /\ ((n + 1) - i + 1) - 1 = n - i + 1
    BY <1>1
  <2> QED  BY ZenonT(30), <1>2, <1>3, <1>4, <2>1
<1>6. ru[n + 1] = d
  <2>1. n + 1 \in 1..(n + 1) /\ (n + 1) - (n + 1) + 1 = 1 /\ 1 \in 1..(1 + n)
    BY <1>1
  <2>2. u[1] = d
    BY <1>1, <1>2, <2>1
  <2> QED  BY <1>4, <2>1, <2>2
<1>7. DOMAIN rt = 1..n /\ DOMAIN ru = 1..(n + 1) /\ \A i \in 1..(n + 1) : ru[i] \in Int
  <2>1. Digits(b) \subseteq Int
    BY DEF Digits
  <2>2. \A i \in 1..(n + 1) : ru[i] \in Digits(b)
    BY <1>4
  <2> QED  BY <1>3, <1>4, <2>1, <2>2
<1>8. Horner(ru, b) = Horner(rt, b) * b + ru[n + 1]
  BY SMTT(20), <1>1, <1>5, <1>7, HornerAppend
<1>9. Len(u) = n + 1
  BY <1>1, <1>2
<1>10. ru[1] = IF n = 0 THEN d ELSE rt[1]
  <2>1. n = 0 => n + 1 = 1
    OBVIOUS
  <2>2. n # 0 => 1 \in 1..n
    BY <1>1
  <2> QED  BY <1>5, <1>6, <2>1, <2>2
<1>11. TurnedBegins(u, d, t)
  BY <1>10 DEF TurnedBegins, rt, ru, n
<1> QED  BY <1>2, <1>6, <1>8, <1>9, <1>11 DEF rt, ru, n

LEMMA DigitsDenote ==
  ASSUME NEW v \in Nat, NEW b \in Nat, b >= 2
  PROVE  DigitsGood(v, b)
<1> DEFINE Bad == {u \in Nat : ~DigitsGood(u, b)}
<1>1. ASSUME Bad # {}
      PROVE  FALSE
  <2>1. Bad \subseteq Nat
    OBVIOUS
  <2>2. PICK u \in Bad : \A j \in Bad : u <= j
    BY <1>1, <2>1, LeastNumber
  <2> DEFINE q == Quotient(u, b)
             p == q * b
             d == u - p
             rest == IF q = 0 THEN << >> ELSE DigitsUp(q, b)
  <2>3. u \in Int /\ u \in Nat /\ q \in Nat /\ d \in Digits(b) /\ (u > 0 => q < u)
    BY <2>2, QuotientOf DEF Digits
  <2>11. q # 0 => u > 0
    <3>1. u = 0 => q = 0
      <4>1. 0 \in Int /\ 0 \in Nat /\ 0 \in (-0)..0
        OBVIOUS
      <4>2. Quotient(0, b) \in (-0)..0
        BY <4>1, QuotientOf
      <4>3. Quotient(0, b) = 0
        BY <4>2
      <4> QED  BY <4>3
    <3> QED  BY <2>3, <3>1
  <2>4. DigitsUp(u, b) = <<d>> \o rest
    BY <2>3, DigitsUpOf
  <2>5. rest \in Seq(Digits(b)) /\ Horner(Reverse(rest), b) = q
    <3>1. CASE q = 0
      <4>1. rest = << >> /\ rest \in Seq(Digits(b)) /\ Len(rest) = 0
        BY <3>1
      <4> HIDE DEF rest
      <4>2. Reverse(rest) \in Seq(Digits(b)) /\ Len(Reverse(rest)) = 0
        BY <4>1, ReversedType
      <4>3. DOMAIN Reverse(rest) = 1..0
        BY <4>2
      <4>4. Horner(Reverse(rest), b) = 0
        BY <4>3, HornerEmpty
      <4> QED  BY <3>1, <4>1, <4>4
    <3>2. CASE q # 0
      <4> HIDE DEF q
      <4>1. q < u
        BY <2>3, <3>2, <2>11
      <4>2. q \notin Bad
        BY <2>2, <2>3, <4>1
      <4>3. DigitsGood(q, b)
        BY <2>3, <4>2
      <4> QED  BY <3>2, <4>3 DEF DigitsGood
    <3> QED  BY <3>1, <3>2
  <2> HIDE DEF rest, d, p, q
  <2>6. /\ DigitsUp(u, b) \in Seq(Digits(b)) /\ Len(DigitsUp(u, b)) = Len(rest) + 1
        /\ Horner(Reverse(DigitsUp(u, b)), b) = q * b + d
    <3>1. Horner(Reverse(DigitsUp(u, b)), b) = Horner(Reverse(rest), b) * b + d
      BY ZenonT(30), <2>3, <2>4, <2>5, DigitInFront
    <3>2. DigitsUp(u, b) \in Seq(Digits(b)) /\ Len(DigitsUp(u, b)) = Len(rest) + 1
      BY <2>3, <2>4, <2>5, DigitInFront
    <3> QED  BY <2>5, <3>1, <3>2
  <2>7. p = q * b /\ p \in Int /\ d = u - p
    BY <2>3 DEF p, d
  <2>8. Horner(Reverse(DigitsUp(u, b)), b) = u
    BY <2>3, <2>6, <2>7
  <2>9. Len(rest) \in Nat
    BY <2>5
  <2>10. IF u = 0 THEN Len(DigitsUp(u, b)) = 1 ELSE Reverse(DigitsUp(u, b))[1] # 0
    <3>1. Reverse(DigitsUp(u, b))[1] = IF Len(rest) = 0 THEN d ELSE Reverse(rest)[1]
      <4>1. TurnedBegins(DigitsUp(u, b), d, rest)
        BY <2>3, <2>4, <2>5, DigitInFront
      <4> QED  BY <4>1 DEF TurnedBegins
    <3>2. CASE q = 0
      <4>1. Len(rest) = 0 /\ 0 + 1 = 1
        BY <3>2 DEF rest
      <4>2. d = u
        BY <2>3, <2>7, <3>2
      <4> QED  BY <2>6, <3>1, <4>1, <4>2
    <3>3. CASE q # 0
      <4>1. q < u /\ u # 0
        BY <2>3, <2>11, <3>3
      <4>2. DigitsGood(q, b)
        BY <2>2, <2>3, <4>1
      <4>3. rest = DigitsUp(q, b)
        BY <3>3 DEF rest
      <4>4. Len(rest) >= 1 /\ Reverse(rest)[1] # 0
        BY <3>3, <4>2, <4>3 DEF DigitsGood
      <4> QED  BY <3>1, <4>1, <4>4
    <3> QED  BY <3>2, <3>3
  <2>12. DigitsGood(u, b)
    BY <2>6, <2>8, <2>9, <2>10 DEF DigitsGood
  <2> QED  BY <2>2, <2>12
<1> QED  BY <1>1

Writes(t, b, v) == Number(t, b) = v /\ WellWritten(DigitsIn(t), b)

LEMMA TurnedDigits ==
  ASSUME NEW v \in Nat, NEW b \in 2..16
  PROVE  WellWritten(Reverse(DigitsUp(v, b)), b)
<1> DEFINE digits == DigitsUp(v, b)
           t == Reverse(digits)
<1>1. b \in Nat /\ b >= 2
  OBVIOUS
<1>2. DigitsGood(v, b)
  BY <1>1, DigitsDenote
<1>3. /\ t \in Seq(Digits(b)) /\ Len(t) = Len(digits) /\ Len(digits) >= 1
      /\ IF v = 0 THEN Len(digits) = 1 ELSE t[1] # 0
  BY <1>2, ReversedType DEF DigitsGood
<1> HIDE DEF t, digits
<1>4. t # << >> /\ \A k \in DOMAIN t : t[k] \in 0..(b - 1)
  BY <1>3 DEF Digits
<1>5. Len(t) > 1 => t[1] # 0
  BY <1>3
<1> QED  BY <1>4, <1>5 DEF WellWritten, t, digits

LEMMA PlainNumber ==
  ASSUME NEW v \in Nat, NEW b \in 2..16
  PROVE  Writes(Reverse(DigitsUp(v, b)), b, v)
<1> DEFINE t == Reverse(DigitsUp(v, b))
<1>1. b \in Nat /\ b >= 2
  OBVIOUS
<1>2. DigitsGood(v, b)
  BY <1>1, DigitsDenote
<1>3. t \in Seq(Digits(b)) /\ Len(t) >= 1 /\ Horner(t, b) = v
  BY <1>2, ReversedType DEF DigitsGood
<1> HIDE DEF t
<1>4. t[1] # Minus
  <2>1. t[1] \in Digits(b)
    BY <1>3
  <2> QED  BY <1>1, <2>1 DEF Digits, Minus
<1>5. DigitsIn(t) = t /\ Number(t, b) = Horner(t, b)
  BY <1>4 DEF Number, DigitsIn, Horner
<1>6. WellWritten(t, b)
  BY TurnedDigits DEF t
<1> QED  BY <1>3, <1>5, <1>6 DEF t, Writes

\* The sign behind the last digit, turned round, stands in front.
LEMMA SignedNumber ==
  ASSUME NEW v \in Nat, NEW b \in 2..16
  PROVE  Writes(Reverse(DigitsUp(v, b) \o <<Minus>>), b, -v)
<1> DEFINE digits == DigitsUp(v, b)
           sign == <<Minus>>
           all == digits \o sign
           t == Reverse(all)
           r == Reverse(digits)
           n == Len(digits)
<1>1. b \in Nat /\ b >= 2 /\ Minus \in Int
  BY DEF Minus
<1>2. /\ digits \in Seq(Digits(b)) /\ n \in Nat /\ Horner(r, b) = v
  <2>1. DigitsGood(v, b)
    BY <1>1, DigitsDenote
  <2>2. digits \in Seq(Digits(b)) /\ Horner(r, b) = v
    BY <2>1 DEF DigitsGood
  <2>3. n \in Nat
    BY <2>2
  <2> QED  BY <2>2, <2>3
<1>3. sign \in Seq(Int) /\ Len(sign) = 1 /\ sign[1] = Minus
  BY <1>1
<1> HIDE DEF digits, sign
<1>4. digits \in Seq(Int)
  <2>1. \A i \in 1..n : digits[i] \in Int
    <3>1. \A i \in 1..n : digits[i] \in Digits(b)
      BY <1>2
    <3> QED  BY <3>1 DEF Digits
  <2>2. digits = [i \in 1..n |-> digits[i]]
    BY <1>2
  <2> QED  BY <1>2, <2>1, <2>2, IsASeq
<1>5. /\ all \in Seq(Int) /\ Len(all) = n + 1
      /\ \A i \in 1..(n + 1) : all[i] = IF i <= n THEN digits[i] ELSE sign[i - n]
  <2>1. /\ all \in Seq(Int) /\ Len(all) = Len(digits) + Len(sign)
        /\ \A i \in 1..(Len(digits) + Len(sign)) :
             all[i] = IF i <= Len(digits) THEN digits[i] ELSE sign[i - Len(digits)]
    BY <1>3, <1>4, ConcatProperties
  <2> QED  BY <1>3, <2>1
<1> HIDE DEF all
<1>6. /\ t \in Seq(Int) /\ Len(t) = n + 1
      /\ \A i \in 1..(n + 1) : t[i] = all[(n + 1) - i + 1]
  <2>1. /\ t \in Seq(Int) /\ Len(t) = Len(all)
        /\ \A i \in 1..Len(all) : t[i] = all[Len(all) - i + 1]
    BY <1>5, ReversedType
  <2> QED  BY <1>5, <2>1
<1>7. /\ Len(r) = n /\ r \in Seq(Digits(b))
      /\ \A i \in 1..n : r[i] = digits[n - i + 1]
  BY <1>2, ReversedType
<1> HIDE DEF t, r, n
<1>8. t[1] = Minus
  <2>1. /\ 1 \in 1..(n + 1) /\ (n + 1) - 1 + 1 = n + 1 /\ n + 1 \in 1..(n + 1)
        /\ ~(n + 1 <= n) /\ (n + 1) - n = 1
    BY <1>2
  <2>2. t[1] = all[n + 1] /\ all[n + 1] = sign[1]
    BY <1>5, <1>6, <2>1
  <2> QED  BY <1>3, <2>2
<1>9. Tail(t) = r
  <2> DEFINE rest == Tail(t)
  <2>1. rest = [i \in 1..n |-> t[i + 1]]
    <3>1. Len(t) - 1 = n /\ t # << >>
      BY <1>2, <1>6
    <3>2. /\ rest \in Seq(Int) /\ Len(rest) = Len(t) - 1
          /\ \A i \in 1..Len(rest) : rest[i] = t[i + 1]
      BY <1>6, <3>1, HeadTailProperties
    <3> HIDE DEF rest
    <3> QED  BY SMTT(20), <3>1, <3>2
  <2>2. \A i \in 1..n : t[i + 1] = r[i]
    <3> TAKE i \in 1..n
    <3>1. /\ i + 1 \in 1..(n + 1) /\ (n + 1) - (i + 1) + 1 = n - i + 1
          /\ n - i + 1 \in 1..(n + 1) /\ n - i + 1 <= n
      BY <1>2
    <3> QED  BY ZenonT(30), <1>5, <1>6, <1>7, <3>1
  <2>3. r = [i \in 1..n |-> r[i]]
    BY <1>2, <1>7
  <2> HIDE DEF rest
  <2>4. rest = r
    BY <2>1, <2>2, <2>3
  <2> QED  BY <2>4 DEF rest
<1>10. DigitsIn(t) = r /\ Number(t, b) = -Horner(r, b)
  BY <1>8, <1>9 DEF Number, DigitsIn, Horner
<1>11. Number(t, b) = -v
  BY <1>2, <1>10
<1>12. WellWritten(r, b)
  BY TurnedDigits DEF r, digits
<1> QED  BY <1>10, <1>11, <1>12 DEF t, all, sign, digits, Writes

LEMMA UnsignedDenotes ==
  ASSUME NEW fn \in {"utoa", "ultoa", "ullitoa", "ulltoa"}, NEW v \in Nat, NEW b \in 2..16
  PROVE  Writes(Unsigned(fn, v, b), b, v)
<1>1. b \in 2..35
  OBVIOUS
<1>2. Unsigned(fn, v, b) = Reverse(DigitsUp(v, b))
  BY <1>1 DEF Unsigned, utoa, ultoa, ullitoa, ulltoa
<1> QED  BY <1>2, PlainNumber

LEMMA SignedDenotes ==
  ASSUME NEW fn \in {"litoa", "ltoa", "itoa"}, NEW v \in Int, v # MinInt,
         fn = "itoa" => v >= 0, NEW b \in 2..16
  PROVE  Writes(Signed(fn, v, b), b, v)
<1>1. b \in 2..35
  OBVIOUS
<1>2. CASE v >= 0
  <2>1. v \in Nat /\ ~(v < 0)
    BY <1>2
  <2>2. CASE fn = "itoa"
    <3>1. Signed(fn, v, b) = Reverse(DigitsUp(v, b))
      BY <2>1, <2>2 DEF Signed, itoa
    <3> QED  BY <2>1, <3>1, PlainNumber
  <2>3. CASE fn # "itoa"
    <3>1. Signed(fn, v, b) = Reverse(DigitsUp(v, b) \o << >>)
      BY <1>1, <2>1, <2>3 DEF Signed, litoa, ltoa
    <3>2. DigitsUp(v, b) \o << >> = DigitsUp(v, b)
      <4>1. b \in Nat /\ b >= 2
        OBVIOUS
      <4>2. DigitsUp(v, b) \in Seq(Digits(b))
        BY <2>1, <4>1, DigitsDenote DEF DigitsGood
      <4> QED  BY <4>2
    <3> QED  BY <2>1, <3>1, <3>2, PlainNumber
  <2> QED  BY <2>2, <2>3
<1>3. CASE v < 0
  <2>1. -v \in Nat /\ Negated(v) = -v /\ -(-v) = v /\ fn # "itoa"
    BY <1>3 DEF Negated
  <2>2. Signed(fn, v, b) = Reverse(DigitsUp(-v, b) \o <<Minus>>)
    BY <1>1, <1>3, <2>1 DEF Signed, litoa, ltoa
  <2>3. Writes(Reverse(DigitsUp(-v, b) \o <<Minus>>), b, -(-v))
    BY <2>1, SignedNumber
  <2> QED  BY <2>1, <2>2, <2>3
<1> QED  BY <1>2, <1>3

LEMMA ConvertWrites ==
  ASSUME Convert
  PROVE  NumbersWritten'
<1>1. Bases \subseteq 2..16 /\ MinInt \in Int /\ MinInt < 0
  BY LibraryAssumption
<1>2. PICK base \in Bases :
        \/ \E fn \in {"litoa", "ltoa", "itoa"}, v \in MinInt..(-MinInt - 1) :
             /\ fn = "itoa" => base = 10
             /\ Converted(fn, v, base, Signed(fn, v, base))
        \/ \E fn \in {"utoa", "ultoa", "ullitoa", "ulltoa"}, v \in 0..(-2 * MinInt - 1) :
             Converted(fn, v, base, Unsigned(fn, v, base))
  BY DEF Convert
<1>3. base \in 2..16
  BY <1>1
<1>4. CASE \E fn \in {"litoa", "ltoa", "itoa"}, v \in MinInt..(-MinInt - 1) :
             /\ fn = "itoa" => base = 10
             /\ Converted(fn, v, base, Signed(fn, v, base))
  <2>1. PICK fn \in {"litoa", "ltoa", "itoa"}, v \in MinInt..(-MinInt - 1) :
          Converted(fn, v, base, Signed(fn, v, base))
    BY <1>4
  <2>2. v \in Int
    BY <1>1
  <2>3. /\ call'.fn = fn /\ call'.value = v /\ call'.base = base
        /\ text' = Signed(fn, v, base)
    BY <2>1 DEF Converted
  <2>4. v # MinInt /\ (fn = "itoa" => v >= 0) => Writes(text', base, v)
    BY <1>3, <2>2, <2>3, SignedDenotes
  <2> QED  BY <2>3, <2>4 DEF NumbersWritten, Writes
<1>5. CASE \E fn \in {"utoa", "ultoa", "ullitoa", "ulltoa"}, v \in 0..(-2 * MinInt - 1) :
             Converted(fn, v, base, Unsigned(fn, v, base))
  <2>1. PICK fn \in {"utoa", "ultoa", "ullitoa", "ulltoa"}, v \in 0..(-2 * MinInt - 1) :
          Converted(fn, v, base, Unsigned(fn, v, base))
    BY <1>5
  <2>2. v \in Nat
    BY <1>1
  <2>3. /\ call'.fn = fn /\ call'.value = v /\ call'.base = base
        /\ text' = Unsigned(fn, v, base)
    BY <2>1 DEF Converted
  <2>4. Writes(text', base, v)
    BY <1>3, <2>2, <2>3, UnsignedDenotes
  <2> QED  BY <2>3, <2>4 DEF NumbersWritten, Writes
<1> QED  BY <1>2, <1>4, <1>5

LEMMA NumbersWrittenStep ==
  ASSUME MemTyped, NumbersWritten, [Next \/ PrintMessage]_vars
  PROVE  NumbersWritten'
<1>0. mem \in Contents
  BY DEF MemTyped
<1>1. CASE MoveBytes
  <2>1. call'.fn \in {"memmove", "memcpy"}
    BY <1>0, <1>1, MoveBytesDoes
  <2> QED  BY <2>1 DEF NumbersWritten
<1>2. CASE FillBytes
  BY <1>0, <1>2, FillBytesDoes DEF NumbersWritten
<1>3. CASE CopyString
  <2>1. call'.fn \in {"strcpy", "strncpy", "strcat"}
    BY <1>0, <1>3, CopyStringDoes DEF CopyStringDone, StringCopied
  <2> QED  BY <2>1 DEF NumbersWritten
<1>4. CASE Convert
  BY <1>4, ConvertWrites
<1>5. CASE Ready
  BY <1>5 DEF Ready, NumbersWritten
<1>6. CASE PrintMessage
  <2>1. PICK fn \in Printers : \E m, result : Printed(fn, m, result)
    BY <1>6 DEF PrintMessage, Printers
  <2>2. call'.fn \in Printers
    BY <2>1 DEF Printed
  <2> QED  BY <2>2 DEF NumbersWritten, Printers
<1>7. CASE UNCHANGED vars
  <2>1. call' = call /\ text' = text
    BY <1>7 DEF vars
  <2> QED  BY <2>1 DEF NumbersWritten
<1> QED  BY <1>1, <1>2, <1>3, <1>4, <1>5, <1>6, <1>7 DEF Next

\* For an int of any width and every base up to 16: what utoa, ultoa, ullitoa,
\* ulltoa, litoa, ltoa and, for numbers that are not negative, itoa write is
\* the number they were given, in digits of the base and without a leading zero,
\* whatever was called before (lib.c).
THEOREM NumbersStayWritten == PrintfSpec => []NumbersWritten
<1>1. Init => NumbersWritten
  BY DEF Init, NumbersWritten
<1>2. MemTyped /\ NumbersWritten /\ [Next \/ PrintMessage]_vars => NumbersWritten'
  BY NumbersWrittenStep
<1> QED  BY <1>1, <1>2, BytesInMemory, PTL DEF PrintfSpec

-----------------------------------------------------------------------------
(***************************************************************************)
(* printf and serial_putsf.  A walk over the format goes through states    *)
(* w[0], w[1], ..., each FormatStep of the one before; the walk over a     *)
(* plain piece begins and ends outside a directive.                        *)
(***************************************************************************)

Start(args) == [mode |-> 0, out |-> << >>, args |-> args]

WalkFolds(it, fmt, args, screen, n) ==
  it = [s \in SUBSET (1..n) |->
          IF s = {} THEN Start(args)
          ELSE FormatStep(it[WithoutLargest(s)], fmt[Largest(s)], screen)]

WalkAt(it, s, fmt, args, screen) ==
  /\ s = {} => it[s] = Start(args)
  /\ s # {} => it[s] = FormatStep(it[WithoutLargest(s)], fmt[Largest(s)], screen)

LEMMA WalkFoldsAt ==
  ASSUME NEW it, NEW fmt, NEW args, NEW screen, NEW n, WalkFolds(it, fmt, args, screen, n),
         NEW s \in SUBSET (1..n)
  PROVE  WalkAt(it, s, fmt, args, screen)
<1>1. it[s] = IF s = {} THEN Start(args)
              ELSE FormatStep(it[WithoutLargest(s)], fmt[Largest(s)], screen)
  BY DEF WalkFolds
<1> QED  BY <1>1 DEF WalkAt

LEMMA WalkFoldsGrow ==
  ASSUME NEW n \in Nat, NEW fmt, NEW args, NEW screen, NEW it, WalkFolds(it, fmt, args, screen, n)
  PROVE  \E g : WalkFolds(g, fmt, args, screen, n + 1)
<1> DEFINE new(s) == FormatStep(it[WithoutLargest(s)], fmt[Largest(s)], screen)
           g == [s \in SUBSET (1..(n + 1)) |-> IF n + 1 \in s THEN new(s) ELSE it[s]]
<1>1. ASSUME NEW s \in SUBSET (1..(n + 1)), n + 1 \in s
      PROVE  g[s] = new(s) /\ g[WithoutLargest(s)] = it[WithoutLargest(s)]
  <2>1. WithoutLargest(s) \in SUBSET (1..n)
    BY <1>1, WithoutLargestBelow
  <2>2. WithoutLargest(s) \in SUBSET (1..(n + 1)) /\ n + 1 \notin WithoutLargest(s)
    BY <2>1
  <2> HIDE DEF new
  <2> QED  BY <1>1, <2>2
<1>2. ASSUME NEW s \in SUBSET (1..(n + 1)), n + 1 \notin s
      PROVE  /\ g[s] = it[s]
             /\ s # {} => g[WithoutLargest(s)] = it[WithoutLargest(s)]
             /\ it[s] = IF s = {} THEN Start(args) ELSE new(s)
  <2>1. s \in SUBSET (1..n) /\ WithoutLargest(s) \in SUBSET s
    BY <1>2, WithoutLargestBelow
  <2>2. it[s] = IF s = {} THEN Start(args) ELSE new(s)
    <3>1. WalkAt(it, s, fmt, args, screen)
      BY <2>1, WalkFoldsAt
    <3> QED  BY <3>1 DEF WalkAt
  <2>3. WithoutLargest(s) \in SUBSET (1..(n + 1)) /\ n + 1 \notin WithoutLargest(s)
    BY <1>2, <2>1
  <2> HIDE DEF new
  <2> QED  BY <1>2, <2>1, <2>2, <2>3
<1>3. ASSUME NEW s \in SUBSET (1..(n + 1))
      PROVE  g[s] = IF s = {} THEN Start(args)
                    ELSE FormatStep(g[WithoutLargest(s)], fmt[Largest(s)], screen)
  <2>1. CASE n + 1 \in s
    <3>1. s # {}
      BY <2>1
    <3>2. g[s] = new(s) /\ g[WithoutLargest(s)] = it[WithoutLargest(s)]
      BY <2>1, <1>1
    <3> HIDE DEF g
    <3> QED  BY <3>1, <3>2
  <2>2. CASE n + 1 \notin s
    <3>2. /\ g[s] = it[s]
          /\ s # {} => g[WithoutLargest(s)] = it[WithoutLargest(s)]
          /\ it[s] = IF s = {} THEN Start(args) ELSE new(s)
      BY <2>2, <1>2
    <3> HIDE DEF g
    <3> QED  BY <3>2
  <2> QED  BY <2>1, <2>2
<1>4. g = [s \in SUBSET (1..(n + 1)) |-> g[s]]
  OBVIOUS
<1> HIDE DEF g
<1>5. WalkFolds(g, fmt, args, screen, n + 1)
  BY <1>3, <1>4 DEF WalkFolds
<1> QED  BY <1>5

LEMMA WalkFoldsExist ==
  ASSUME NEW n \in Nat, NEW fmt, NEW args, NEW screen
  PROVE  \E it : WalkFolds(it, fmt, args, screen, n)
<1> DEFINE Good == {m \in 0..n : \E it : WalkFolds(it, fmt, args, screen, m)}
<1>1. 0 \in Good
  <2> DEFINE it == [s \in SUBSET (1..0) |-> Start(args)]
  <2>1. WalkFolds(it, fmt, args, screen, 0)
    BY DEF WalkFolds
  <2> QED  BY <2>1
<1>2. ASSUME NEW m \in 0..(n - 1), m \in Good
      PROVE  m + 1 \in Good
  <2>1. m \in Nat /\ m + 1 \in 0..n
    OBVIOUS
  <2>2. \E g : WalkFolds(g, fmt, args, screen, m + 1)
    BY <1>2, <2>1, WalkFoldsGrow
  <2> QED  BY <2>1, <2>2
<1>3. 0..n \subseteq Good /\ n \in 0..n
  <2> HIDE DEF Good
  <2> QED  BY <1>1, <1>2, UpTo
<1> QED  BY <1>3

LEMMA WalkIsFold ==
  ASSUME NEW n \in Nat, NEW fmt, DOMAIN fmt = 1..n, NEW args, NEW screen
  PROVE  Formatted(fmt, args, screen) = (CHOOSE it : WalkFolds(it, fmt, args, screen, n))[1..n].out
BY DEF Formatted, FoldLeft, MapThenFoldSet, WalkFolds, Start, Largest, WithoutLargest

\* The walk over the characters i + 1..j of the format leads from s to t.
Leads(fmt, screen, i, s, j, t) ==
  \E w : w[i] = s /\ w[j] = t /\ \A k \in i..(j - 1) : w[k + 1] = FormatStep(w[k], fmt[k + 1], screen)

LEMMA WalkEnds ==
  ASSUME NEW n \in Nat, NEW fmt, DOMAIN fmt = 1..n, NEW args, NEW screen,
         NEW t, Leads(fmt, screen, 0, Start(args), n, t)
  PROVE  Formatted(fmt, args, screen) = t.out
<1>1. PICK it : WalkFolds(it, fmt, args, screen, n) /\ Formatted(fmt, args, screen) = it[1..n].out
  <2> DEFINE it == CHOOSE g : WalkFolds(g, fmt, args, screen, n)
  <2>1. WalkFolds(it, fmt, args, screen, n)
    BY WalkFoldsExist
  <2>2. Formatted(fmt, args, screen) = it[1..n].out
    BY WalkIsFold
  <2> HIDE DEF it
  <2> QED  BY <2>1, <2>2
<1>2. PICK w : /\ w[0] = Start(args) /\ w[n] = t
               /\ \A k \in 0..(n - 1) : w[k + 1] = FormatStep(w[k], fmt[k + 1], screen)
  BY DEF Leads
<1> DEFINE Good == {k \in 0..n : it[1..k] = w[k]}
<1>3. 0 \in Good
  <2>1. 1..0 = {} /\ {} \in SUBSET (1..n) /\ 0 \in 0..n
    OBVIOUS
  <2>2. it[{}] = Start(args)
    <3>1. WalkAt(it, {}, fmt, args, screen)
      BY <1>1, <2>1, WalkFoldsAt
    <3> QED  BY <3>1 DEF WalkAt
  <2> QED  BY <1>2, <2>1, <2>2
<1>4. ASSUME NEW k \in 0..(n - 1), k \in Good
      PROVE  k + 1 \in Good
  <2>1. k \in Nat /\ k + 1 \in 0..n /\ 1..(k + 1) \in SUBSET (1..n)
    OBVIOUS
  <2>2. 1..(k + 1) # {} /\ Largest(1..(k + 1)) = k + 1 /\ WithoutLargest(1..(k + 1)) = 1..k
    BY <2>1, LargestPlace
  <2>3. it[1..(k + 1)] = FormatStep(it[WithoutLargest(1..(k + 1))], fmt[Largest(1..(k + 1))], screen)
    <3>1. WalkAt(it, 1..(k + 1), fmt, args, screen)
      BY <1>1, <2>1, WalkFoldsAt
    <3> QED  BY <2>2, <3>1 DEF WalkAt
  <2>4. it[1..(k + 1)] = FormatStep(it[1..k], fmt[k + 1], screen)
    BY <2>2, <2>3
  <2> QED  BY <1>2, <1>4, <2>1, <2>4
<1>5. 0..n \subseteq Good /\ n \in 0..n
  <2> HIDE DEF Good
  <2>1. \A k \in 0..(n - 1) : k \in Good => k + 1 \in Good
    BY <1>4
  <2> QED  BY <1>3, <2>1, UpTo
<1> QED  BY <1>1, <1>2, <1>5

LEMMA LeadsOne ==
  ASSUME NEW fmt, NEW screen, NEW i \in Nat, NEW s
  PROVE  Leads(fmt, screen, i, s, i + 1, FormatStep(s, fmt[i + 1], screen))
<1> DEFINE t == FormatStep(s, fmt[i + 1], screen)
           w == [k \in i..(i + 1) |-> IF k = i THEN s ELSE t]
<1>1. w[i] = s /\ w[i + 1] = t
  OBVIOUS
<1>2. \A k \in i..((i + 1) - 1) : k = i
  OBVIOUS
<1> HIDE DEF w
<1> QED  BY <1>1, <1>2 DEF Leads

LEMMA LeadsOn ==
  ASSUME NEW fmt, NEW screen, NEW i \in Nat, NEW j \in Nat, NEW k \in Nat, i <= j, j <= k,
         NEW s, NEW t, NEW u, Leads(fmt, screen, i, s, j, t), Leads(fmt, screen, j, t, k, u)
  PROVE  Leads(fmt, screen, i, s, k, u)
<1>1. PICK v : /\ v[i] = s /\ v[j] = t
               /\ \A l \in i..(j - 1) : v[l + 1] = FormatStep(v[l], fmt[l + 1], screen)
  BY DEF Leads
<1>2. PICK x : /\ x[j] = t /\ x[k] = u
               /\ \A l \in j..(k - 1) : x[l + 1] = FormatStep(x[l], fmt[l + 1], screen)
  BY DEF Leads
<1> DEFINE w == [l \in i..k |-> IF l <= j THEN v[l] ELSE x[l]]
<1>3. /\ \A l \in i..j : l \in i..k /\ w[l] = v[l]
      /\ \A l \in j..k : l \in i..k /\ w[l] = x[l]
  <2>1. \A l \in j..k : l \in i..k /\ (l <= j => l = j)
    OBVIOUS
  <2>2. \A l \in i..j : l \in i..k /\ l <= j
    OBVIOUS
  <2> QED  BY <1>1, <1>2, <2>1, <2>2
<1> HIDE DEF w
<1>4. ASSUME NEW l \in i..(k - 1)
      PROVE  w[l + 1] = FormatStep(w[l], fmt[l + 1], screen)
  <2>1. CASE l < j
    <3>1. l \in i..(j - 1) /\ l \in i..j /\ l + 1 \in i..j
      BY <2>1
    <3> QED  BY <1>1, <1>3, <3>1
  <2>2. CASE ~(l < j)
    <3>1. l \in j..(k - 1) /\ l \in j..k /\ l + 1 \in j..k
      BY <2>2
    <3> QED  BY <1>2, <1>3, <3>1
  <2> QED  BY <2>1, <2>2
<1>5. i \in i..j /\ k \in j..k
  OBVIOUS
<1>6. w[i] = s /\ w[k] = u
  BY <1>1, <1>2, <1>3, <1>5
<1> QED  BY <1>4, <1>6 DEF Leads

-----------------------------------------------------------------------------
\* What the two functions know, and what they make of an argument.
Knows(mode, screen) == IF screen THEN printf_knows(mode) ELSE serial_knows(mode)
TextOf(mode, c, v, screen) == IF screen THEN printf_text(mode, c, v) ELSE serial_text(mode, c, v)

PlainPiece(p, screen) ==
  \/ Literal(p)
  \/ \E mode \in 1..3 : \E c \in Knows(mode, screen) :
       PlainDirective(p, mode, c, TextOf(mode, c, p.args[1], screen))

State(mode, out, args) == [mode |-> mode, out |-> out, args |-> args]

LEMMA StepsOfWalk ==
  ASSUME NEW out, NEW args, NEW screen \in BOOLEAN
  PROVE  /\ FormatStep(State(0, out, args), "%", screen) = State(1, out, args)
         /\ \A mode \in {1, 2} :
              FormatStep(State(mode, out, args), "l", screen) = State(mode + 1, out, args)
<1>1. FormatStep(State(0, out, args), "%", screen) = State(1, out, args)
  BY DEF FormatStep, State
<1>2. ASSUME NEW mode \in {1, 2}
      PROVE  FormatStep(State(mode, out, args), "l", screen) = State(mode + 1, out, args)
  <2>1. "l" \notin Knows(mode, screen)
    BY DEF Knows, printf_knows, serial_knows
  <2> QED  BY <2>1 DEF FormatStep, State, Knows
<1> QED  BY <1>1, <1>2

LEMMA CharacterShown ==
  ASSUME NEW out, NEW args, NEW screen \in BOOLEAN, NEW c, c # "%"
  PROVE  FormatStep(State(0, out, args), c, screen) = State(0, Append(out, c), args)
BY DEF FormatStep, State

LEMMA ArgumentShown ==
  ASSUME NEW out, NEW args, NEW screen \in BOOLEAN, NEW mode \in 1..3, NEW c \in Knows(mode, screen)
  PROVE  FormatStep(State(mode, out, args), c, screen)
           = State(0, out \o TextOf(mode, c, Head(args), screen), Tail(args))
<1>1. c # "l"
  BY DEF Knows, printf_knows, serial_knows
<1> QED  BY <1>1 DEF FormatStep, State, Knows, TextOf, va_arg

LEMMA DirectiveShape ==
  ASSUME NEW mode \in 1..3, NEW c, NEW f, f = <<"%">> \o [k \in 1..(mode - 1) |-> "l"] \o <<c>>
  PROVE  /\ f \in Seq({"%", "l", c}) /\ Len(f) = mode + 1
         /\ f[1] = "%" /\ f[mode + 1] = c /\ \A k \in 2..mode : f[k] = "l"
<1> DEFINE S == {"%", "l", c}
           a == <<"%">>
           b == [k \in 1..(mode - 1) |-> "l"]
           d == <<c>>
           ab == a \o b
<1>1. /\ a \in Seq(S) /\ Len(a) = 1 /\ a[1] = "%"
      /\ d \in Seq(S) /\ Len(d) = 1 /\ d[1] = c
  OBVIOUS
<1>2. b \in Seq(S) /\ Len(b) = mode - 1 /\ \A k \in 1..(mode - 1) : b[k] = "l"
  <2>1. mode - 1 \in Nat /\ "l" \in S
    OBVIOUS
  <2> HIDE DEF S
  <2> QED  BY <2>1, IsASeq
<1>3. f = ab \o d
  OBVIOUS
<1> HIDE DEF S, a, b, d
<1>4. /\ ab \in Seq(S) /\ Len(ab) = 1 + (mode - 1)
      /\ \A k \in 1..(1 + (mode - 1)) : ab[k] = IF k <= 1 THEN a[k] ELSE b[k - 1]
  <2>1. /\ ab \in Seq(S) /\ Len(ab) = Len(a) + Len(b)
        /\ \A k \in 1..(Len(a) + Len(b)) : ab[k] = IF k <= Len(a) THEN a[k] ELSE b[k - Len(a)]
    BY <1>1, <1>2, ConcatProperties
  <2> QED  BY <1>1, <1>2, <2>1
<1> HIDE DEF ab
<1>5. Len(ab) = mode /\ \A k \in 1..mode : ab[k] = IF k <= 1 THEN a[k] ELSE b[k - 1]
  <2>1. 1 + (mode - 1) = mode
    OBVIOUS
  <2> QED  BY <1>4, <2>1
<1>6. /\ f \in Seq(S) /\ Len(f) = mode + 1
      /\ \A k \in 1..(mode + 1) : f[k] = IF k <= mode THEN ab[k] ELSE d[k - mode]
  <2>1. /\ ab \o d \in Seq(S) /\ Len(ab \o d) = Len(ab) + Len(d)
        /\ \A k \in 1..(Len(ab) + Len(d)) : (ab \o d)[k] = IF k <= Len(ab) THEN ab[k] ELSE d[k - Len(ab)]
    BY <1>1, <1>4, ConcatProperties
  <2> QED  BY <1>1, <1>3, <1>5, <2>1
<1>7. f[1] = "%"
  <2>1. 1 \in 1..mode /\ 1 \in 1..(mode + 1)
    OBVIOUS
  <2> QED  BY <1>1, <1>5, <1>6, <2>1
<1>8. f[mode + 1] = c
  <2>1. mode + 1 \in 1..(mode + 1) /\ ~(mode + 1 <= mode) /\ (mode + 1) - mode = 1
    OBVIOUS
  <2> QED  BY <1>1, <1>6, <2>1
<1>9. ASSUME NEW k \in 2..mode
      PROVE  f[k] = "l"
  <2>1. k \in 1..mode /\ k \in 1..(mode + 1) /\ ~(k <= 1) /\ k - 1 \in 1..(mode - 1)
    OBVIOUS
  <2> QED  BY <1>2, <1>5, <1>6, <2>1
<1> QED  BY <1>6, <1>7, <1>8, <1>9 DEF S

\* The format f stands behind i characters of fmt.
At(fmt, i, f) == \A k \in 1..Len(f) : fmt[i + k] = f[k]

\* A piece takes its argument from the front of args.
TakesFrom(p, args, rest) ==
  IF p.args = << >> THEN rest = args ELSE Head(args) = p.args[1] /\ Tail(args) = rest

LEMMA DirectiveWalks ==
  ASSUME NEW fmt, NEW i \in Nat, NEW mode \in 1..3, NEW screen \in BOOLEAN,
         NEW c \in Knows(mode, screen), NEW f,
         f = <<"%">> \o [k \in 1..(mode - 1) |-> "l"] \o <<c>>, At(fmt, i, f),
         NEW out, NEW args
  PROVE  Leads(fmt, screen, i, State(0, out, args), i + (mode + 1),
               State(0, out \o TextOf(mode, c, Head(args), screen), Tail(args)))
<1> DEFINE end == State(0, out \o TextOf(mode, c, Head(args), screen), Tail(args))
<1>1. Len(f) = mode + 1 /\ f[1] = "%" /\ f[mode + 1] = c /\ \A k \in 2..mode : f[k] = "l"
  BY DirectiveShape
<1>2. /\ fmt[i + 1] = "%" /\ fmt[i + (mode + 1)] = c /\ \A k \in 2..mode : fmt[i + k] = "l"
  <2>1. 1 \in 1..(mode + 1) /\ mode + 1 \in 1..(mode + 1) /\ \A k \in 2..mode : k \in 1..(mode + 1)
    OBVIOUS
  <2> QED  BY <1>1, <2>1 DEF At
<1>3. Leads(fmt, screen, i, State(0, out, args), i + 1, State(1, out, args))
  <2>1. FormatStep(State(0, out, args), fmt[i + 1], screen) = State(1, out, args)
    BY <1>2, StepsOfWalk
  <2>2. Leads(fmt, screen, i, State(0, out, args), i + 1,
              FormatStep(State(0, out, args), fmt[i + 1], screen))
    BY LeadsOne
  <2> QED  BY <2>1, <2>2
<1>4. ASSUME NEW k \in {1, 2}, k < mode
      PROVE  Leads(fmt, screen, i + k, State(k, out, args), (i + k) + 1, State(k + 1, out, args))
  <2>1. k + 1 \in 2..mode /\ i + (k + 1) = (i + k) + 1 /\ i + k \in Nat
    BY <1>4
  <2>2. FormatStep(State(k, out, args), fmt[(i + k) + 1], screen) = State(k + 1, out, args)
    <3>1. fmt[(i + k) + 1] = "l"
      BY <1>2, <2>1
    <3>2. FormatStep(State(k, out, args), "l", screen) = State(k + 1, out, args)
      BY StepsOfWalk
    <3> QED  BY <3>1, <3>2
  <2>3. Leads(fmt, screen, i + k, State(k, out, args), (i + k) + 1,
              FormatStep(State(k, out, args), fmt[(i + k) + 1], screen))
    BY <2>1, LeadsOne
  <2> QED  BY <2>2, <2>3
<1>5. Leads(fmt, screen, i + mode, State(mode, out, args), (i + mode) + 1, end)
  <2>1. i + (mode + 1) = (i + mode) + 1 /\ i + mode \in Nat
    OBVIOUS
  <2>2. FormatStep(State(mode, out, args), fmt[(i + mode) + 1], screen) = end
    <3>1. fmt[(i + mode) + 1] = c
      BY <1>2, <2>1
    <3>2. FormatStep(State(mode, out, args), c, screen) = end
      BY ArgumentShown
    <3> QED  BY <3>1, <3>2
  <2>3. Leads(fmt, screen, i + mode, State(mode, out, args), (i + mode) + 1,
              FormatStep(State(mode, out, args), fmt[(i + mode) + 1], screen))
    BY <2>1, LeadsOne
  <2> HIDE DEF end
  <2> QED  BY <2>2, <2>3
<1> HIDE DEF end
<1>6. Leads(fmt, screen, i, State(0, out, args), i + mode, State(mode, out, args))
  <2>1. CASE mode = 1
    BY <1>3, <2>1
  <2>2. CASE mode = 2
    <3>1. /\ i + 1 \in Nat /\ i + 2 \in Nat /\ (i + 1) + 1 = i + 2 /\ i <= i + 1 /\ i + 1 <= i + 2
          /\ 1 + 1 = 2
      OBVIOUS
    <3>2. Leads(fmt, screen, i + 1, State(1, out, args), i + 2, State(2, out, args))
      BY <1>4, <2>2, <3>1
    <3>3. Leads(fmt, screen, i, State(0, out, args), i + 2, State(2, out, args))
      BY <1>3, <3>1, <3>2, LeadsOn
    <3> QED  BY <2>2, <3>3
  <2>3. CASE mode = 3
    <3>1. /\ i + 1 \in Nat /\ i + 2 \in Nat /\ i + 3 \in Nat /\ (i + 1) + 1 = i + 2
          /\ (i + 2) + 1 = i + 3 /\ i <= i + 1 /\ i + 1 <= i + 2 /\ i <= i + 2 /\ i + 2 <= i + 3
          /\ 1 + 1 = 2 /\ 2 + 1 = 3
      OBVIOUS
    <3>2. Leads(fmt, screen, i + 1, State(1, out, args), i + 2, State(2, out, args))
      BY <1>4, <2>3, <3>1
    <3>3. Leads(fmt, screen, i + 2, State(2, out, args), i + 3, State(3, out, args))
      BY <1>4, <2>3, <3>1
    <3>4. Leads(fmt, screen, i, State(0, out, args), i + 2, State(2, out, args))
      BY <1>3, <3>1, <3>2, LeadsOn
    <3>5. Leads(fmt, screen, i, State(0, out, args), i + 3, State(3, out, args))
      BY <3>1, <3>3, <3>4, LeadsOn
    <3> QED  BY <2>3, <3>5
  <2> QED  BY <2>1, <2>2, <2>3
<1>7. i + mode \in Nat /\ (i + mode) + 1 \in Nat /\ i <= i + mode /\ i + mode <= (i + mode) + 1
      /\ (i + mode) + 1 = i + (mode + 1)
  OBVIOUS
<1>8. Leads(fmt, screen, i, State(0, out, args), (i + mode) + 1, end)
  BY <1>5, <1>6, <1>7, LeadsOn
<1> QED  BY <1>7, <1>8 DEF end

\* The parts of a plain piece are sequences.
LEMMA PlainPieceParts ==
  ASSUME NEW screen, NEW p, PlainPiece(p, screen)
  PROVE  /\ \E S : p.format \in Seq(S)
         /\ \E S : p.shown \in Seq(S)
         /\ p.args = << >> \/ p.args = <<p.args[1]>>
<1>1. CASE Literal(p)
  <2> DEFINE c == p.format[1]
  <2>1. p.format = <<c>> /\ p.shown = <<c>> /\ p.args = << >>
    BY <1>1 DEF Literal
  <2> HIDE DEF c
  <2>2. <<c>> \in Seq({c})
    OBVIOUS
  <2> QED  BY <2>1, <2>2
<1>2. CASE ~Literal(p)
  <2>0. PICK mode \in 1..3 : \E c \in Knows(mode, screen) :
          PlainDirective(p, mode, c, TextOf(mode, c, p.args[1], screen))
    BY <1>2 DEF PlainPiece
  <2>1. PICK c \in Knows(mode, screen) :
          PlainDirective(p, mode, c, TextOf(mode, c, p.args[1], screen))
    BY <2>0
  <2>2. p.format \in Seq({"%", "l", c})
    BY <2>1, DirectiveShape DEF PlainDirective
  <2>3. \E S : p.shown \in Seq(S)
    <3> DEFINE x == p.shown
               n == Len(x)
    <3>1. x = [k \in 1..n |-> x[k]]
      BY <2>1 DEF PlainDirective, IsText
    <3>2. n \in Nat
      BY <2>1 DEF PlainDirective, IsText
    <3> HIDE DEF x, n
    <3>3. \A k \in 1..n : x[k] \in {x[j] : j \in 1..n}
      OBVIOUS
    <3>4. x \in Seq({x[j] : j \in 1..n})
      BY <3>1, <3>2, <3>3, IsASeq
    <3> QED  BY <3>4 DEF x
  <2>4. p.args = <<p.args[1]>>
    BY <2>1 DEF PlainDirective
  <2> QED  BY <2>2, <2>3, <2>4
<1> QED  BY <1>1, <1>2

LEMMA PieceWalks ==
  ASSUME NEW fmt, NEW i \in Nat, NEW screen \in BOOLEAN, NEW p, PlainPiece(p, screen),
         At(fmt, i, p.format), NEW S, NEW out \in Seq(S),
         NEW args, NEW rest, TakesFrom(p, args, rest)
  PROVE  Leads(fmt, screen, i, State(0, out, args), i + Len(p.format), State(0, out \o p.shown, rest))
<1>1. CASE Literal(p)
  <2> DEFINE c == p.format[1]
  <2>1. p.format = <<c>> /\ c # "%" /\ p.args = << >> /\ p.shown = <<c>>
    BY <1>1 DEF Literal
  <2> HIDE DEF c
  <2>2. Len(p.format) = 1 /\ fmt[i + 1] = c /\ rest = args
    <3>1. Len(p.format) = 1 /\ p.format[1] = c
      BY <2>1
    <3> QED  BY <2>1, <3>1 DEF At, TakesFrom
  <2>3. FormatStep(State(0, out, args), fmt[i + 1], screen) = State(0, Append(out, c), args)
    BY <2>1, <2>2, CharacterShown
  <2>4. Leads(fmt, screen, i, State(0, out, args), i + 1,
              FormatStep(State(0, out, args), fmt[i + 1], screen))
    BY LeadsOne
  <2>5. Append(out, c) = out \o <<c>>
    OBVIOUS
  <2> QED  BY <2>1, <2>2, <2>3, <2>4, <2>5
<1>2. CASE ~Literal(p)
  <2>0. PICK mode \in 1..3 : \E c \in Knows(mode, screen) :
          PlainDirective(p, mode, c, TextOf(mode, c, p.args[1], screen))
    BY <1>2 DEF PlainPiece
  <2>1. PICK c \in Knows(mode, screen) :
          PlainDirective(p, mode, c, TextOf(mode, c, p.args[1], screen))
    BY <2>0
  <2>2. /\ p.format = <<"%">> \o [k \in 1..(mode - 1) |-> "l"] \o <<c>>
        /\ p.args = <<p.args[1]>> /\ p.shown = TextOf(mode, c, p.args[1], screen)
    BY <2>1 DEF PlainDirective
  <2>3. Len(p.format) = mode + 1
    BY <2>2, DirectiveShape
  <2>4. p.args # << >>
    BY <2>2
  <2>5. Head(args) = p.args[1] /\ Tail(args) = rest
    BY <2>4 DEF TakesFrom
  <2>6. Leads(fmt, screen, i, State(0, out, args), i + (mode + 1),
              State(0, out \o TextOf(mode, c, Head(args), screen), Tail(args)))
    BY <2>2, DirectiveWalks
  <2> QED  BY <2>2, <2>3, <2>5, <2>6
<1> QED  BY <1>1, <1>2

-----------------------------------------------------------------------------
(***************************************************************************)
(* Messages of one or two pieces.                                          *)
(***************************************************************************)

Flats(f, ss, n) == f = [k \in 1..n |-> IF k = 1 THEN ss[k] ELSE f[k - 1] \o ss[k]]

LEMMA FlattenIsFlat ==
  ASSUME NEW ss, NEW n \in Nat \ {0}, Len(ss) = n
  PROVE  FlattenSeq(ss) = (CHOOSE f : Flats(f, ss, n))[n]
BY DEF FlattenSeq, Flats

LEMMA FlattenOne ==
  ASSUME NEW ss, Len(ss) = 1
  PROVE  FlattenSeq(ss) = ss[1]
<1> DEFINE g == [k \in 1..1 |-> ss[k]]
           f == CHOOSE h : Flats(h, ss, 1)
<1>1. Flats(g, ss, 1)
  BY DEF Flats
<1>2. Flats(f, ss, 1)
  <2> HIDE DEF g
  <2> QED  BY <1>1
<1> HIDE DEF f
<1>3. f[1] = ss[1]
  BY <1>2 DEF Flats
<1>4. FlattenSeq(ss) = f[1]
  <2>1. 1 \in Nat \ {0}
    OBVIOUS
  <2>2. FlattenSeq(ss) = (CHOOSE h : Flats(h, ss, 1))[1]
    BY <2>1, FlattenIsFlat
  <2> QED  BY <2>2 DEF f
<1> QED  BY <1>3, <1>4

LEMMA FlattenTwo ==
  ASSUME NEW ss, Len(ss) = 2
  PROVE  FlattenSeq(ss) = ss[1] \o ss[2]
<1> DEFINE both == ss[1] \o ss[2]
           g == [k \in 1..2 |-> IF k = 1 THEN ss[1] ELSE both]
           f == CHOOSE h : Flats(h, ss, 2)
<1>1. Flats(g, ss, 2)
  <2>1. ASSUME NEW k \in 1..2
        PROVE  g[k] = IF k = 1 THEN ss[k] ELSE g[k - 1] \o ss[k]
    <3>1. CASE k = 1
      BY <3>1
    <3>2. CASE k = 2
      <4>1. k - 1 = 1 /\ 1 \in 1..2 /\ g[1] = ss[1] /\ g[2] = both
        BY <3>2
      <4> HIDE DEF g
      <4> QED  BY <3>2, <4>1
    <3> QED  BY <3>1, <3>2
  <2>2. g = [k \in 1..2 |-> g[k]]
    OBVIOUS
  <2> HIDE DEF g
  <2> QED  BY <2>1, <2>2 DEF Flats
<1>2. Flats(f, ss, 2)
  <2> HIDE DEF g
  <2> QED  BY <1>1
<1> HIDE DEF f
<1>3. f[1] = ss[1] /\ f[2] = f[1] \o ss[2]
  <2>1. \A k \in 1..2 : f[k] = IF k = 1 THEN ss[k] ELSE f[k - 1] \o ss[k]
    BY <1>2 DEF Flats
  <2>2. 1 \in 1..2 /\ 2 \in 1..2 /\ 2 - 1 = 1 /\ 2 # 1
    OBVIOUS
  <2> QED  BY <2>1, <2>2
<1>4. FlattenSeq(ss) = f[2]
  <2>1. 2 \in Nat \ {0}
    OBVIOUS
  <2>2. FlattenSeq(ss) = (CHOOSE h : Flats(h, ss, 2))[2]
    BY <2>1, FlattenIsFlat
  <2> QED  BY <2>2 DEF f
<1> QED  BY <1>3, <1>4

LEMMA MessageOfOne ==
  ASSUME NEW p
  PROVE  /\ FormatOf(<<p>>) = p.format
         /\ ArgsOf(<<p>>) = p.args
         /\ ShownOf(<<p>>) = p.shown
<1> DEFINE m == <<p>>
           a == [k \in DOMAIN m |-> m[k].format]
           b == [k \in DOMAIN m |-> m[k].args]
           c == [k \in DOMAIN m |-> m[k].shown]
<1>1. Len(a) = 1 /\ a[1] = p.format
  OBVIOUS
<1>2. Len(b) = 1 /\ b[1] = p.args
  OBVIOUS
<1>3. Len(c) = 1 /\ c[1] = p.shown
  OBVIOUS
<1>4. FlattenSeq(a) = FormatOf(m) /\ FlattenSeq(b) = ArgsOf(m) /\ FlattenSeq(c) = ShownOf(m)
  BY DEF FormatOf, ArgsOf, ShownOf
<1> HIDE DEF a, b, c
<1>5. FlattenSeq(a) = p.format /\ FlattenSeq(b) = p.args /\ FlattenSeq(c) = p.shown
  BY <1>1, <1>2, <1>3, FlattenOne
<1> QED  BY <1>4, <1>5

LEMMA MessageOfTwo ==
  ASSUME NEW p, NEW q
  PROVE  /\ FormatOf(<<p, q>>) = p.format \o q.format
         /\ ArgsOf(<<p, q>>) = p.args \o q.args
         /\ ShownOf(<<p, q>>) = p.shown \o q.shown
<1> DEFINE m == <<p, q>>
           a == [k \in DOMAIN m |-> m[k].format]
           b == [k \in DOMAIN m |-> m[k].args]
           c == [k \in DOMAIN m |-> m[k].shown]
<1>1. Len(a) = 2 /\ a[1] = p.format /\ a[2] = q.format
  OBVIOUS
<1>2. Len(b) = 2 /\ b[1] = p.args /\ b[2] = q.args
  OBVIOUS
<1>3. Len(c) = 2 /\ c[1] = p.shown /\ c[2] = q.shown
  OBVIOUS
<1>4. FlattenSeq(a) = FormatOf(m) /\ FlattenSeq(b) = ArgsOf(m) /\ FlattenSeq(c) = ShownOf(m)
  BY DEF FormatOf, ArgsOf, ShownOf
<1> HIDE DEF a, b, c
<1>5. FlattenSeq(a) = a[1] \o a[2] /\ FlattenSeq(b) = b[1] \o b[2] /\ FlattenSeq(c) = c[1] \o c[2]
  BY <1>1, <1>2, <1>3, FlattenTwo
<1> QED  BY <1>1, <1>2, <1>3, <1>4, <1>5

\* Where the pieces stand in what is put together from two.
LEMMA JoinedParts ==
  ASSUME NEW S, NEW f \in Seq(S), NEW T, NEW g \in Seq(T)
  PROVE  /\ f \o g \in Seq(S \cup T) /\ DOMAIN (f \o g) = 1..(Len(f) + Len(g))
         /\ At(f \o g, 0, f) /\ At(f \o g, Len(f), g)
<1> DEFINE h == f \o g
           U == S \cup T
<1>1. f \in Seq(U) /\ g \in Seq(U) /\ Len(f) \in Nat /\ Len(g) \in Nat
  OBVIOUS
<1> HIDE DEF U
<1>2. /\ h \in Seq(U) /\ Len(h) = Len(f) + Len(g)
      /\ \A k \in 1..(Len(f) + Len(g)) : h[k] = IF k <= Len(f) THEN f[k] ELSE g[k - Len(f)]
  BY <1>1, ConcatProperties
<1> HIDE DEF h
<1>3. ASSUME NEW k \in 1..Len(f)
      PROVE  h[0 + k] = f[k]
  <2>1. 0 + k = k /\ k \in 1..(Len(f) + Len(g)) /\ k <= Len(f)
    BY <1>1
  <2> QED  BY <1>2, <2>1
<1>4. ASSUME NEW k \in 1..Len(g)
      PROVE  h[Len(f) + k] = g[k]
  <2>1. Len(f) + k \in 1..(Len(f) + Len(g)) /\ ~(Len(f) + k <= Len(f)) /\ (Len(f) + k) - Len(f) = k
    BY <1>1
  <2> QED  BY <1>2, <2>1
<1> QED  BY <1>2, <1>3, <1>4 DEF At, h, U

LEMMA NothingInFront ==
  ASSUME NEW S, NEW x \in Seq(S)
  PROVE  << >> \o x = x /\ x \o << >> = x /\ << >> \in Seq(S)
OBVIOUS

LEMMA OneAndOne ==
  ASSUME NEW v, NEW u
  PROVE  <<v>> \o <<u>> = <<v, u>>
<1> DEFINE S == {v, u}
           a == <<v>>
           b == <<u>>
           ab == a \o b
           pair == <<v, u>>
<1>1. /\ a \in Seq(S) /\ Len(a) = 1 /\ a[1] = v
      /\ b \in Seq(S) /\ Len(b) = 1 /\ b[1] = u
      /\ pair \in Seq(S) /\ Len(pair) = 2 /\ pair[1] = v /\ pair[2] = u
  OBVIOUS
<1> HIDE DEF S, a, b, pair
<1>2. /\ ab \in Seq(S) /\ Len(ab) = Len(a) + Len(b)
      /\ \A k \in 1..(Len(a) + Len(b)) : ab[k] = IF k <= Len(a) THEN a[k] ELSE b[k - Len(a)]
  BY <1>1, ConcatProperties
<1> HIDE DEF ab
<1>3. Len(ab) = 2 /\ ab[1] = v /\ ab[2] = u
  <2>1. 1 \in 1..(1 + 1) /\ 2 \in 1..(1 + 1) /\ 1 <= 1 /\ ~(2 <= 1) /\ 2 - 1 = 1 /\ 1 + 1 = 2
    OBVIOUS
  <2> QED  BY <1>1, <1>2, <2>1
<1>4. \A k \in 1..2 : ab[k] = pair[k]
  BY <1>1, <1>3
<1>5. ab = pair
  BY <1>1, <1>2, <1>3, <1>4
<1> QED  BY <1>5 DEF ab, a, b, pair

LEMMA OnePieceShown ==
  ASSUME NEW screen \in BOOLEAN, NEW p, PlainPiece(p, screen)
  PROVE  Formatted(p.format, p.args, screen) = p.shown
<1>1. PICK S : p.shown \in Seq(S)
  BY PlainPieceParts
<1>2. PICK F : p.format \in Seq(F)
  BY PlainPieceParts
<1>3. p.args = << >> \/ p.args = <<p.args[1]>>
  BY PlainPieceParts
<1> DEFINE fmt == p.format
           n == Len(fmt)
<1>4. n \in Nat /\ DOMAIN fmt = 1..n /\ 0 + n = n
  BY <1>2
<1>5. At(fmt, 0, p.format)
  BY <1>4 DEF At
<1>6. TakesFrom(p, p.args, << >>)
  <2>1. CASE p.args = << >>
    BY <2>1 DEF TakesFrom
  <2>2. CASE p.args = <<p.args[1]>>
    <3> DEFINE v == p.args[1]
    <3>1. Head(<<v>>) = v /\ Tail(<<v>>) = << >>
      OBVIOUS
    <3>2. p.args = <<v>>
      BY <2>2
    <3> HIDE DEF v
    <3>3. Head(p.args) = v /\ Tail(p.args) = << >>
      BY <3>1, <3>2
    <3>4. p.args # << >>
      BY <3>2
    <3> QED  BY <3>3, <3>4 DEF TakesFrom, v
  <2> QED  BY <1>3, <2>1, <2>2
<1>7. << >> \in Seq(S) /\ << >> \o p.shown = p.shown
  BY <1>1, NothingInFront
<1> HIDE DEF fmt, n
<1>8. Leads(fmt, screen, 0, State(0, << >>, p.args), 0 + n, State(0, << >> \o p.shown, << >>))
  BY <1>5, <1>6, <1>7, PieceWalks DEF n, fmt
<1>9. State(0, << >>, p.args) = Start(p.args)
  BY DEF State, Start
<1>10. Leads(fmt, screen, 0, Start(p.args), n, State(0, p.shown, << >>))
  BY <1>4, <1>7, <1>8, <1>9
<1>11. Formatted(fmt, p.args, screen) = State(0, p.shown, << >>).out
  BY <1>4, <1>10, WalkEnds
<1> QED  BY <1>11 DEF State, fmt

LEMMA TwoPiecesShown ==
  ASSUME NEW screen \in BOOLEAN, NEW p, PlainPiece(p, screen), NEW q, PlainPiece(q, screen)
  PROVE  Formatted(p.format \o q.format, p.args \o q.args, screen) = p.shown \o q.shown
<1>1. PICK S : p.shown \in Seq(S)
  BY PlainPieceParts
<1>2. PICK F : p.format \in Seq(F)
  BY PlainPieceParts
<1>3. PICK G : q.format \in Seq(G)
  BY PlainPieceParts
<1>4. /\ p.args = << >> \/ p.args = <<p.args[1]>>
      /\ q.args = << >> \/ q.args = <<q.args[1]>>
  BY PlainPieceParts
<1> DEFINE fmt == p.format \o q.format
           args == p.args \o q.args
           l == Len(p.format)
           n == l + Len(q.format)
<1>5. l \in Nat /\ n \in Nat /\ 0 + l = l /\ l <= n /\ 0 <= l /\ Len(q.format) \in Nat
  <2>1. l \in Nat
    BY <1>2
  <2>2. Len(q.format) \in Nat
    BY <1>3
  <2> HIDE DEF l
  <2> QED  BY <2>1, <2>2
<1>6. DOMAIN fmt = 1..n /\ At(fmt, 0, p.format) /\ At(fmt, l, q.format)
  BY <1>2, <1>3, JoinedParts
<1>7. TakesFrom(p, args, q.args)
  <2>1. CASE p.args = << >>
    <3>1. << >> \o q.args = q.args
      <4>1. CASE q.args = << >>
        BY <4>1
      <4>2. CASE q.args = <<q.args[1]>>
        BY <4>2, NothingInFront
      <4> QED  BY <1>4, <4>1, <4>2
    <3> QED  BY <2>1, <3>1 DEF TakesFrom
  <2>2. CASE p.args = <<p.args[1]>>
    <3> DEFINE v == p.args[1]
    <3>1. p.args = <<v>>
      BY <2>2
    <3> HIDE DEF v
    <3>2. Head(args) = v /\ Tail(args) = q.args
      <4>1. CASE q.args = << >>
        BY <3>1, <4>1
      <4>2. CASE q.args = <<q.args[1]>>
        <5> DEFINE u == q.args[1]
        <5>1. q.args = <<u>>
          BY <4>2
        <5> HIDE DEF u
        <5>2. args = <<v, u>>
          <6>1. <<v>> \o <<u>> = <<v, u>>
            BY OneAndOne
          <6>2. args = p.args \o q.args
            OBVIOUS
          <6> QED  BY <3>1, <5>1, <6>1, <6>2
        <5>3. Head(<<v, u>>) = v /\ Tail(<<v, u>>) = <<u>>
          OBVIOUS
        <5> HIDE DEF args
        <5> QED  BY <5>1, <5>2, <5>3
      <4> QED  BY <1>4, <4>1, <4>2
    <3>3. p.args # << >>
      BY <3>1
    <3> HIDE DEF args
    <3> QED  BY <3>2, <3>3 DEF TakesFrom, v
  <2> QED  BY <1>4, <2>1, <2>2
<1>8. TakesFrom(q, q.args, << >>)
  <2>1. CASE q.args = << >>
    BY <2>1 DEF TakesFrom
  <2>2. CASE q.args = <<q.args[1]>>
    <3> DEFINE v == q.args[1]
    <3>1. Head(<<v>>) = v /\ Tail(<<v>>) = << >>
      OBVIOUS
    <3>2. q.args = <<v>>
      BY <2>2
    <3> HIDE DEF v
    <3>3. Head(q.args) = v /\ Tail(q.args) = << >>
      BY <3>1, <3>2
    <3>4. q.args # << >>
      BY <3>2
    <3> QED  BY <3>3, <3>4 DEF TakesFrom, v
  <2> QED  BY <1>4, <2>1, <2>2
<1>9. << >> \in Seq(S) /\ << >> \o p.shown = p.shown
  BY <1>1, NothingInFront
<1> HIDE DEF fmt, args
<1>10. Leads(fmt, screen, 0, State(0, << >>, args), 0 + l, State(0, << >> \o p.shown, q.args))
  <2>1. 0 \in Nat
    OBVIOUS
  <2> QED  BY <1>6, <1>7, <1>9, <2>1, PieceWalks
<1>11. Leads(fmt, screen, l, State(0, p.shown, q.args), l + Len(q.format),
             State(0, p.shown \o q.shown, << >>))
  BY <1>1, <1>5, <1>6, <1>8, PieceWalks
<1> DEFINE end == State(0, p.shown \o q.shown, << >>)
<1> HIDE DEF l
<1>12. Leads(fmt, screen, 0, State(0, << >>, args), l, State(0, p.shown, q.args))
  BY <1>5, <1>9, <1>10
<1>13. Leads(fmt, screen, l, State(0, p.shown, q.args), n, end)
  BY <1>11
<1> HIDE DEF end, n
<1>14. Leads(fmt, screen, 0, State(0, << >>, args), n, end)
  BY <1>5, <1>12, <1>13, LeadsOn
<1>15. State(0, << >>, args) = Start(args)
  BY DEF State, Start
<1>16. Formatted(fmt, args, screen) = end.out
  BY <1>5, <1>6, <1>14, <1>15, WalkEnds
<1> QED  BY <1>16 DEF State, fmt, args, end

LEMMA MessageFormatted ==
  ASSUME NEW pieces, NEW screen \in BOOLEAN, \A p \in pieces : PlainPiece(p, screen),
         NEW m \in Messages(pieces)
  PROVE  Formatted(FormatOf(m), ArgsOf(m), screen) = ShownOf(m)
<1>1. CASE \E p \in pieces : m = <<p>>
  <2>1. PICK p \in pieces : m = <<p>>
    BY <1>1
  <2>2. Formatted(p.format, p.args, screen) = p.shown
    BY OnePieceShown
  <2>3. FormatOf(m) = p.format /\ ArgsOf(m) = p.args /\ ShownOf(m) = p.shown
    BY <2>1, MessageOfOne
  <2> QED  BY <2>2, <2>3
<1>2. CASE \E p \in pieces, q \in pieces : m = <<p, q>>
  <2>1. PICK p \in pieces, q \in pieces : m = <<p, q>>
    BY <1>2
  <2>2. Formatted(p.format \o q.format, p.args \o q.args, screen) = p.shown \o q.shown
    BY TwoPiecesShown
  <2>3. /\ FormatOf(m) = p.format \o q.format
        /\ ArgsOf(m) = p.args \o q.args
        /\ ShownOf(m) = p.shown \o q.shown
    BY <2>1, MessageOfTwo
  <2> QED  BY <2>2, <2>3
<1>3. m \in {<<p>> : p \in pieces} \/ m \in pieces \X pieces
  BY DEF Messages
<1> QED  BY <1>1, <1>2, <1>3

LEMMA PrintfShowsStep ==
  ASSUME PlainPieces, PrintMessage
  PROVE  PrintfShowsArguments'
<1>1. \A p \in PrintfPieces : PlainPiece(p, TRUE)
  BY DEF PlainPieces, PlainPiece, Knows, TextOf
<1>2. \A p \in SerialPieces : PlainPiece(p, FALSE)
  BY DEF PlainPieces, PlainPiece, Knows, TextOf
<1>3. CASE \E m \in Messages(PrintfPieces) :
             Printed("printf", m, printf(FormatOf(m), ArgsOf(m)))
  <2>1. PICK m \in Messages(PrintfPieces) : Printed("printf", m, printf(FormatOf(m), ArgsOf(m)))
    BY <1>3
  <2>2. printf(FormatOf(m), ArgsOf(m)) = ShownOf(m)
    <3>1. TRUE \in BOOLEAN
      OBVIOUS
    <3> QED  BY <1>1, <3>1, MessageFormatted DEF printf
  <2>3. text' = ShownOf(m) /\ call'.message = m
    BY <2>1, <2>2 DEF Printed
  <2> QED  BY <2>3 DEF PrintfShowsArguments
<1>4. CASE \E m \in Messages(SerialPieces) :
             Printed("serial_putsf", m, serial_putsf(FormatOf(m), ArgsOf(m)))
  <2>1. PICK m \in Messages(SerialPieces) :
          Printed("serial_putsf", m, serial_putsf(FormatOf(m), ArgsOf(m)))
    BY <1>4
  <2>2. serial_putsf(FormatOf(m), ArgsOf(m)) = ShownOf(m)
    <3>1. FALSE \in BOOLEAN
      OBVIOUS
    <3> QED  BY <1>2, <3>1, MessageFormatted DEF serial_putsf
  <2>3. text' = ShownOf(m) /\ call'.message = m
    BY <2>1, <2>2 DEF Printed
  <2> QED  BY <2>3 DEF PrintfShowsArguments
<1>5. CASE \E fn \in {"log", "vprintf"} : \E m, result : Printed(fn, m, result)
  <2>1. call'.fn \in {"log", "vprintf"}
    BY <1>5 DEF Printed
  <2> QED  BY <2>1 DEF PrintfShowsArguments
<1> QED  BY <1>3, <1>4, <1>5 DEF PrintMessage

\* The function of the last call is not a printer's after another step.
LEMMA OtherCalls ==
  ASSUME MemTyped, Next
  PROVE  call'.fn \notin Printers
<1>0. mem \in Contents
  BY DEF MemTyped
<1>1. CASE MoveBytes
  <2>1. call'.fn \in {"memmove", "memcpy"}
    BY <1>0, <1>1, MoveBytesDoes
  <2> QED  BY <2>1 DEF Printers
<1>2. CASE FillBytes
  BY <1>0, <1>2, FillBytesDoes DEF Printers
<1>3. CASE CopyString
  <2>1. call'.fn \in {"strcpy", "strncpy", "strcat"}
    BY <1>0, <1>3, CopyStringDoes DEF CopyStringDone, StringCopied
  <2> QED  BY <2>1 DEF Printers
<1>4. CASE Convert
  <2>1. PICK fn \in Conversions : \E v, base, result : Converted(fn, v, base, result)
    BY <1>4 DEF Convert, Conversions
  <2>2. call'.fn \in Conversions
    BY <2>1 DEF Converted
  <2> QED  BY <2>2 DEF Conversions, Printers
<1>5. CASE Ready
  BY <1>5 DEF Ready, Printers
<1> QED  BY <1>1, <1>2, <1>3, <1>4, <1>5 DEF Next

\* Whatever was printed before, and for every set of characters and directives
\* that printf and serial_putsf know (PlainPieces): next to another piece each
\* is shown as alone, and takes its own argument (video.c, serial.c).
THEOREM PrintfKeepsShowing ==
  ASSUME PlainPieces
  PROVE  PrintfSpec => []PrintfShowsArguments
<1>1. Init => PrintfShowsArguments
  BY DEF Init, PrintfShowsArguments
<1>2. MemTyped /\ PrintfShowsArguments /\ [Next \/ PrintMessage]_vars => PrintfShowsArguments'
  <2> SUFFICES ASSUME MemTyped, PrintfShowsArguments, [Next \/ PrintMessage]_vars
               PROVE  PrintfShowsArguments'
    OBVIOUS
  <2>1. CASE Next
    BY <2>1, OtherCalls DEF PrintfShowsArguments, Printers
  <2>2. CASE PrintMessage
    BY <2>2, PrintfShowsStep
  <2>3. CASE UNCHANGED vars
    <3>1. call' = call /\ text' = text
      BY <2>3 DEF vars
    <3> QED  BY <3>1 DEF PrintfShowsArguments
  <2> QED  BY <2>1, <2>2, <2>3
<1> QED  BY <1>1, <1>2, BytesInMemory, PTL DEF PrintfSpec

-----------------------------------------------------------------------------
(***************************************************************************)
(* vprintf.  The walk over the places of the format: a directive moves     *)
(* `at' behind itself, and the steps up to there change nothing.           *)
(***************************************************************************)

Places(fmt) == [k \in 1..Len(fmt) |-> k]

VState(at, out, args) == [at |-> at, out |-> out, args |-> args]

VDirective(fmt, s, i) ==
  LET d == Directive(fmt, i + 1, s.args)
      rest == AfterStars(s.args, d)
  IN IF Takes(d)
     THEN [at |-> d.after, out |-> s.out \o Shows(d, Head(rest)), args |-> Tail(rest)]
     ELSE [at |-> d.after, out |-> s.out \o Shows(d, 0), args |-> rest]

VStep(fmt, s, i) ==
  CASE i < s.at -> s
    [] i >= s.at /\ fmt[i] # "%" -> [s EXCEPT !.out = Append(@, fmt[i])]
    [] i >= s.at /\ fmt[i] = "%" -> VDirective(fmt, s, i)

VFolds(it, fmt, args, n) ==
  it = [s \in SUBSET (1..n) |->
          IF s = {} THEN VState(1, << >>, args)
          ELSE VStep(fmt, it[WithoutLargest(s)], Places(fmt)[Largest(s)])]

VAt(it, s, fmt, args) ==
  /\ s = {} => it[s] = VState(1, << >>, args)
  /\ s # {} => it[s] = VStep(fmt, it[WithoutLargest(s)], Places(fmt)[Largest(s)])

LEMMA VFoldsAt ==
  ASSUME NEW it, NEW fmt, NEW args, NEW n, VFolds(it, fmt, args, n), NEW s \in SUBSET (1..n)
  PROVE  VAt(it, s, fmt, args)
<1>1. it[s] = IF s = {} THEN VState(1, << >>, args)
              ELSE VStep(fmt, it[WithoutLargest(s)], Places(fmt)[Largest(s)])
  BY DEF VFolds
<1> QED  BY <1>1 DEF VAt

LEMMA VFoldsGrow ==
  ASSUME NEW n \in Nat, NEW fmt, NEW args, NEW it, VFolds(it, fmt, args, n)
  PROVE  \E g : VFolds(g, fmt, args, n + 1)
<1> DEFINE new(s) == VStep(fmt, it[WithoutLargest(s)], Places(fmt)[Largest(s)])
           g == [s \in SUBSET (1..(n + 1)) |-> IF n + 1 \in s THEN new(s) ELSE it[s]]
<1>1. ASSUME NEW s \in SUBSET (1..(n + 1)), n + 1 \in s
      PROVE  g[s] = new(s) /\ g[WithoutLargest(s)] = it[WithoutLargest(s)]
  <2>1. WithoutLargest(s) \in SUBSET (1..n)
    BY <1>1, WithoutLargestBelow
  <2>2. WithoutLargest(s) \in SUBSET (1..(n + 1)) /\ n + 1 \notin WithoutLargest(s)
    BY <2>1
  <2> HIDE DEF new
  <2> QED  BY <1>1, <2>2
<1>2. ASSUME NEW s \in SUBSET (1..(n + 1)), n + 1 \notin s
      PROVE  /\ g[s] = it[s]
             /\ s # {} => g[WithoutLargest(s)] = it[WithoutLargest(s)]
             /\ it[s] = IF s = {} THEN VState(1, << >>, args) ELSE new(s)
  <2>1. s \in SUBSET (1..n) /\ WithoutLargest(s) \in SUBSET s
    BY <1>2, WithoutLargestBelow
  <2>2. it[s] = IF s = {} THEN VState(1, << >>, args) ELSE new(s)
    <3>1. VAt(it, s, fmt, args)
      BY <2>1, VFoldsAt
    <3> QED  BY <3>1 DEF VAt
  <2>3. WithoutLargest(s) \in SUBSET (1..(n + 1)) /\ n + 1 \notin WithoutLargest(s)
    BY <1>2, <2>1
  <2> HIDE DEF new
  <2> QED  BY <1>2, <2>1, <2>2, <2>3
<1>3. ASSUME NEW s \in SUBSET (1..(n + 1))
      PROVE  g[s] = IF s = {} THEN VState(1, << >>, args)
                    ELSE VStep(fmt, g[WithoutLargest(s)], Places(fmt)[Largest(s)])
  <2>1. CASE n + 1 \in s
    <3>1. s # {}
      BY <2>1
    <3>2. g[s] = new(s) /\ g[WithoutLargest(s)] = it[WithoutLargest(s)]
      BY <2>1, <1>1
    <3> HIDE DEF g
    <3> QED  BY <3>1, <3>2
  <2>2. CASE n + 1 \notin s
    <3>2. /\ g[s] = it[s]
          /\ s # {} => g[WithoutLargest(s)] = it[WithoutLargest(s)]
          /\ it[s] = IF s = {} THEN VState(1, << >>, args) ELSE new(s)
      BY <2>2, <1>2
    <3> HIDE DEF g
    <3> QED  BY <3>2
  <2> QED  BY <2>1, <2>2
<1>4. g = [s \in SUBSET (1..(n + 1)) |-> g[s]]
  OBVIOUS
<1> HIDE DEF g
<1>5. VFolds(g, fmt, args, n + 1)
  BY <1>3, <1>4 DEF VFolds
<1> QED  BY <1>5

LEMMA VFoldsExist ==
  ASSUME NEW n \in Nat, NEW fmt, NEW args
  PROVE  \E it : VFolds(it, fmt, args, n)
<1> DEFINE Good == {m \in 0..n : \E it : VFolds(it, fmt, args, m)}
<1>1. 0 \in Good
  <2> DEFINE it == [s \in SUBSET (1..0) |-> VState(1, << >>, args)]
  <2>1. VFolds(it, fmt, args, 0)
    BY DEF VFolds
  <2> QED  BY <2>1
<1>2. ASSUME NEW m \in 0..(n - 1), m \in Good
      PROVE  m + 1 \in Good
  <2>1. m \in Nat /\ m + 1 \in 0..n
    OBVIOUS
  <2>2. \E g : VFolds(g, fmt, args, m + 1)
    BY <1>2, <2>1, VFoldsGrow
  <2> QED  BY <2>1, <2>2
<1>3. 0..n \subseteq Good /\ n \in 0..n
  <2> HIDE DEF Good
  <2> QED  BY <1>1, <1>2, UpTo
<1> QED  BY <1>3

LEMMA VIsFold ==
  ASSUME NEW fmt, NEW args
  PROVE  vprintf(fmt, args) = (CHOOSE it : VFolds(it, fmt, args, Len(fmt)))[1..Len(fmt)].out
<1>1. DOMAIN Places(fmt) = 1..Len(fmt)
  BY DEF Places
<1>2. vprintf(fmt, args) =
        (CHOOSE it : it = [s \in SUBSET (DOMAIN Places(fmt)) |->
            IF s = {} THEN VState(1, << >>, args)
            ELSE VStep(fmt, it[WithoutLargest(s)], Places(fmt)[Largest(s)])])[DOMAIN Places(fmt)].out
  BY DEF vprintf, FoldLeft, MapThenFoldSet, Places, VStep, VDirective, VState, Largest, WithoutLargest
<1> QED  BY <1>1, <1>2 DEF VFolds

\* The walk over the places i + 1..j leads from s to t.
VLeads(fmt, i, s, j, t) ==
  \E w : w[i] = s /\ w[j] = t /\ \A k \in i..(j - 1) : w[k + 1] = VStep(fmt, w[k], k + 1)

LEMMA VEnds ==
  ASSUME NEW n \in Nat, NEW fmt, Len(fmt) = n, NEW args,
         NEW t, VLeads(fmt, 0, VState(1, << >>, args), n, t)
  PROVE  vprintf(fmt, args) = t.out
<1>1. PICK it : VFolds(it, fmt, args, n) /\ vprintf(fmt, args) = it[1..n].out
  <2> DEFINE it == CHOOSE g : VFolds(g, fmt, args, n)
  <2>1. VFolds(it, fmt, args, n)
    BY VFoldsExist
  <2>2. vprintf(fmt, args) = it[1..n].out
    BY VIsFold
  <2> HIDE DEF it
  <2> QED  BY <2>1, <2>2
<1>2. PICK w : /\ w[0] = VState(1, << >>, args) /\ w[n] = t
               /\ \A k \in 0..(n - 1) : w[k + 1] = VStep(fmt, w[k], k + 1)
  BY DEF VLeads
<1> DEFINE Good == {k \in 0..n : it[1..k] = w[k]}
<1>3. 0 \in Good
  <2>1. 1..0 = {} /\ {} \in SUBSET (1..n) /\ 0 \in 0..n
    OBVIOUS
  <2>2. it[{}] = VState(1, << >>, args)
    <3>1. VAt(it, {}, fmt, args)
      BY <1>1, <2>1, VFoldsAt
    <3> QED  BY <3>1 DEF VAt
  <2> QED  BY <1>2, <2>1, <2>2
<1>4. ASSUME NEW k \in 0..(n - 1), k \in Good
      PROVE  k + 1 \in Good
  <2>1. k \in Nat /\ k + 1 \in 0..n /\ 1..(k + 1) \in SUBSET (1..n) /\ k + 1 \in 1..n
    OBVIOUS
  <2>2. 1..(k + 1) # {} /\ Largest(1..(k + 1)) = k + 1 /\ WithoutLargest(1..(k + 1)) = 1..k
    BY <2>1, LargestPlace
  <2>3. Places(fmt)[k + 1] = k + 1
    BY <2>1 DEF Places
  <2>4. it[1..(k + 1)] = VStep(fmt, it[1..k], k + 1)
    <3>1. VAt(it, 1..(k + 1), fmt, args)
      BY <1>1, <2>1, VFoldsAt
    <3> QED  BY <2>2, <2>3, <3>1 DEF VAt
  <2> QED  BY <1>2, <1>4, <2>1, <2>4
<1>5. 0..n \subseteq Good /\ n \in 0..n
  <2> HIDE DEF Good
  <2>1. \A k \in 0..(n - 1) : k \in Good => k + 1 \in Good
    BY <1>4
  <2> QED  BY <1>3, <2>1, UpTo
<1> QED  BY <1>1, <1>2, <1>5

LEMMA VLeadsOne ==
  ASSUME NEW fmt, NEW i \in Nat, NEW s
  PROVE  VLeads(fmt, i, s, i + 1, VStep(fmt, s, i + 1))
<1> DEFINE t == VStep(fmt, s, i + 1)
           w == [k \in i..(i + 1) |-> IF k = i THEN s ELSE t]
<1>1. w[i] = s /\ w[i + 1] = t
  OBVIOUS
<1>2. \A k \in i..((i + 1) - 1) : k = i
  OBVIOUS
<1> HIDE DEF w
<1> QED  BY <1>1, <1>2 DEF VLeads

LEMMA VLeadsOn ==
  ASSUME NEW fmt, NEW i \in Nat, NEW j \in Nat, NEW k \in Nat, i <= j, j <= k,
         NEW s, NEW t, NEW u, VLeads(fmt, i, s, j, t), VLeads(fmt, j, t, k, u)
  PROVE  VLeads(fmt, i, s, k, u)
<1>1. PICK v : /\ v[i] = s /\ v[j] = t
               /\ \A l \in i..(j - 1) : v[l + 1] = VStep(fmt, v[l], l + 1)
  BY DEF VLeads
<1>2. PICK x : /\ x[j] = t /\ x[k] = u
               /\ \A l \in j..(k - 1) : x[l + 1] = VStep(fmt, x[l], l + 1)
  BY DEF VLeads
<1> DEFINE w == [l \in i..k |-> IF l <= j THEN v[l] ELSE x[l]]
<1>3. /\ \A l \in i..j : l \in i..k /\ w[l] = v[l]
      /\ \A l \in j..k : l \in i..k /\ w[l] = x[l]
  <2>1. \A l \in j..k : l \in i..k /\ (l <= j => l = j)
    OBVIOUS
  <2>2. \A l \in i..j : l \in i..k /\ l <= j
    OBVIOUS
  <2> QED  BY <1>1, <1>2, <2>1, <2>2
<1> HIDE DEF w
<1>4. ASSUME NEW l \in i..(k - 1)
      PROVE  w[l + 1] = VStep(fmt, w[l], l + 1)
  <2>1. CASE l < j
    <3>1. l \in i..(j - 1) /\ l \in i..j /\ l + 1 \in i..j
      BY <2>1
    <3> QED  BY <1>1, <1>3, <3>1
  <2>2. CASE ~(l < j)
    <3>1. l \in j..(k - 1) /\ l \in j..k /\ l + 1 \in j..k
      BY <2>2
    <3> QED  BY <1>2, <1>3, <3>1
  <2> QED  BY <2>1, <2>2
<1>5. i \in i..j /\ k \in j..k
  OBVIOUS
<1>6. w[i] = s /\ w[k] = u
  BY <1>1, <1>2, <1>3, <1>5
<1> QED  BY <1>4, <1>6 DEF VLeads

\* Nothing happens before `at'.
LEMMA VStepWaits ==
  ASSUME NEW fmt, NEW s, NEW i, i < s.at, ~(i >= s.at)
  PROVE  VStep(fmt, s, i) = s
<1> DEFINE all == CASE i < s.at -> s
                    [] i >= s.at /\ fmt[i] # "%" -> [s EXCEPT !.out = Append(@, fmt[i])]
                    [] i >= s.at /\ fmt[i] = "%" -> VDirective(fmt, s, i)
<1>1. VStep(fmt, s, i) = all
  BY DEF VStep
<1>2. all = s
  OBVIOUS
<1> QED  BY <1>1, <1>2

LEMMA VWaits ==
  ASSUME NEW fmt, NEW i \in Nat, NEW at \in Nat, i < at, NEW out, NEW args
  PROVE  VLeads(fmt, i, VState(at, out, args), at - 1, VState(at, out, args))
<1> DEFINE s == VState(at, out, args)
           w == [k \in i..(at - 1) |-> s]
<1>1. i \in i..(at - 1) /\ at - 1 \in i..(at - 1) /\ w[i] = s /\ w[at - 1] = s
  OBVIOUS
<1>2. ASSUME NEW k \in i..((at - 1) - 1)
      PROVE  w[k + 1] = VStep(fmt, w[k], k + 1)
  <2>1. k \in i..(at - 1) /\ k + 1 \in i..(at - 1) /\ k + 1 < at
    OBVIOUS
  <2>2. w[k] = s /\ w[k + 1] = s
    BY <2>1
  <2>3. s.at = at
    BY DEF VState
  <2> HIDE DEF w, s
  <2>4. VStep(fmt, s, k + 1) = s
    <3>1. ~(k + 1 >= at)
      BY <2>1
    <3> QED  BY <2>1, <2>3, <3>1, VStepWaits
  <2> QED  BY <2>2, <2>4
<1> HIDE DEF w
<1> QED  BY <1>1, <1>2 DEF VLeads

-----------------------------------------------------------------------------
(***************************************************************************)
(* A directive reads the same inside a longer format, where it stands      *)
(* behind i other characters.                                              *)
(***************************************************************************)

\* f, with an end, stands behind i characters of fmt.
Within(fmt, i, f) ==
  /\ i \in Nat /\ Len(f) \in Nat /\ Len(fmt) \in Nat
  /\ i + Len(f) <= Len(fmt) /\ At(fmt, i, f)

IsPast(f, a, set, j) ==
  /\ j \in a..(Len(f) + 1)
  /\ CharAt(f, j) \notin set
  /\ \A k \in a..(j - 1) : f[k] \in set

LEMMA CharShift ==
  ASSUME NEW fmt, NEW i, NEW f, Within(fmt, i, f), NEW k \in 1..Len(f)
  PROVE  CharAt(fmt, i + k) = f[k] /\ CharAt(f, k) = f[k] /\ fmt[i + k] = f[k]
<1>1. i + k <= Len(fmt) /\ k <= Len(f) /\ fmt[i + k] = f[k]
  BY DEF Within, At
<1> QED  BY <1>1 DEF CharAt

LEMMA PastAllIs ==
  ASSUME NEW f, Len(f) \in Nat, NEW set, "NUL" \notin set, NEW a \in 1..(Len(f) + 1)
  PROVE  IsPast(f, a, set, PastAll(f, a, set))
<1> DEFINE n == Len(f)
           stops == {j \in a..(n + 1) : CharAt(f, j) \notin set}
<1>1. n + 1 \in stops
  <2>1. n + 1 \in a..(n + 1) /\ ~(n + 1 <= n)
    OBVIOUS
  <2> QED  BY <2>1 DEF CharAt
<1>2. PICK j \in stops : \A k \in stops : j <= k
  <2>1. stops \subseteq Nat
    OBVIOUS
  <2> HIDE DEF stops
  <2> QED  BY <1>1, <2>1, LeastNumber
<1>3. ASSUME NEW k \in a..(j - 1)
      PROVE  f[k] \in set
  <2>1. k \in a..(n + 1) /\ k <= n /\ ~(j <= k)
    BY <1>2
  <2>2. CharAt(f, k) = f[k]
    BY <2>1 DEF CharAt
  <2>3. k \notin stops
    <3> HIDE DEF stops
    <3> QED  BY <1>2, <2>1
  <2> QED  BY <2>1, <2>2, <2>3
<1>4. IsPast(f, a, set, j)
  BY <1>2, <1>3 DEF IsPast
<1> QED  BY <1>4 DEF PastAll, IsPast

LEMMA PastAllOnly ==
  ASSUME NEW f, Len(f) \in Nat, NEW set, NEW a \in Nat,
         NEW j, IsPast(f, a, set, j), NEW l, IsPast(f, a, set, l)
  PROVE  j = l
<1>1. ASSUME NEW x, IsPast(f, a, set, x), NEW y, IsPast(f, a, set, y), x < y
      PROVE  FALSE
  <2>1. x \in a..(y - 1) /\ x <= Len(f)
    BY <1>1 DEF IsPast
  <2> QED  BY <1>1, <2>1 DEF IsPast, CharAt
<1>2. j \in Int /\ l \in Int
  BY DEF IsPast
<1>3. ~(j < l) /\ ~(l < j)
  BY <1>1
<1> QED  BY <1>2, <1>3

LEMMA PastShift ==
  ASSUME NEW fmt, NEW i, NEW f, Within(fmt, i, f), NEW set, "NUL" \notin set,
         NEW a \in 1..(Len(f) + 1), PastAll(f, a, set) <= Len(f)
  PROVE  PastAll(fmt, i + a, set) = i + PastAll(f, a, set)
<1> DEFINE j == PastAll(f, a, set)
<1>0. i \in Nat /\ Len(f) \in Nat /\ Len(fmt) \in Nat /\ i + Len(f) <= Len(fmt)
  BY DEF Within
<1>1. IsPast(f, a, set, j)
  BY <1>0, PastAllIs
<1>2. j \in a..Len(f) /\ \A k \in a..(j - 1) : f[k] \in set
  BY <1>0, <1>1 DEF IsPast
<1> HIDE DEF j
<1>3. IsPast(fmt, i + a, set, i + j)
  <2>1. i + j \in (i + a)..(Len(fmt) + 1)
    BY <1>0, <1>2
  <2>2. CharAt(fmt, i + j) \notin set
    <3>1. j \in 1..Len(f)
      BY <1>2
    <3> QED  BY <1>1, <3>1, CharShift DEF IsPast
  <2>3. ASSUME NEW k \in (i + a)..((i + j) - 1)
        PROVE  fmt[k] \in set
    <3>1. k - i \in a..(j - 1) /\ k - i \in 1..Len(f) /\ i + (k - i) = k
      BY <1>0, <1>2
    <3> QED  BY <1>2, <3>1, CharShift
  <2> QED  BY <2>1, <2>2, <2>3 DEF IsPast
<1>4. IsPast(fmt, i + a, set, PastAll(fmt, i + a, set))
  <2>1. i + a \in 1..(Len(fmt) + 1)
    BY <1>0
  <2> QED  BY <1>0, <2>1, PastAllIs
<1>5. i + a \in Nat
  BY <1>0
<1>6. PastAll(fmt, i + a, set) = i + j
  BY <1>0, <1>3, <1>4, <1>5, PastAllOnly
<1> QED  BY <1>6 DEF j

LEMMA NoDigit ==
  "NUL" \notin DigitChars
<1>1. ASSUME NEW k \in 1..10
      PROVE  lower[k] # "NUL"
  BY DEF lower
<1> QED  BY <1>1 DEF DigitChars

-----------------------------------------------------------------------------
\* What Directive reads one after the other.
FlagChars == {"-", "+", "#", " ", "0"}
FlagsEnd(f, a) == PastAll(f, a, FlagChars)
WidthEnd(f, a) == PastAll(f, FlagsEnd(f, a), DigitChars)
StarOf(f, a) == Star(f, WidthEnd(f, a))
Dot(f, a) == WidthEnd(f, a) + StarOf(f, a)
PrecisionEnd(f, a) ==
  IF CharAt(f, Dot(f, a)) = "." THEN PastAll(f, Dot(f, a) + 1, DigitChars) ELSE Dot(f, a)
PrecisionStar(f, a) ==
  IF CharAt(f, Dot(f, a)) = "." THEN Star(f, PrecisionEnd(f, a)) ELSE 0
SizeOf(f, a) == LengthOf(f, PrecisionEnd(f, a) + PrecisionStar(f, a))

LEMMA DirectiveReads ==
  ASSUME NEW f, NEW a, NEW args
  PROVE  Directive(f, a, args) =
           [flags  |-> {f[k] : k \in a..(FlagsEnd(f, a) - 1)},
            width  |-> IF StarOf(f, a) = 1 THEN args[1]
                       ELSE ReadNumber(f, FlagsEnd(f, a), WidthEnd(f, a)),
            stars  |-> StarOf(f, a) + PrecisionStar(f, a),
            length |-> SizeOf(f, a).length,
            spec   |-> CharAt(f, SizeOf(f, a).after),
            after  |-> SizeOf(f, a).after + 1]
BY DEF Directive, FlagChars, FlagsEnd, WidthEnd, StarOf, Dot, PrecisionEnd, PrecisionStar, SizeOf

\* A star is read inside the format only, and so is a length.
LEMMA StarRead ==
  ASSUME NEW f, Len(f) \in Nat, NEW a \in 1..(Len(f) + 1)
  PROVE  Star(f, a) \in {0, 1} /\ a + Star(f, a) \in a..(Len(f) + 1)
BY DEF Star, CharAt

SizeChars == {"h", "l", "j", "z", "t", "L"}

LEMMA LengthRead ==
  ASSUME NEW f, NEW a \in Nat
  PROVE  /\ LengthOf(f, a).after \in Nat /\ LengthOf(f, a).after >= a
         /\ CharAt(f, a) \in SizeChars => LengthOf(f, a).after >= a + 1
BY DEF LengthOf, SizeChars

LEMMA ReadingGoesOn ==
  ASSUME NEW f, Len(f) \in Nat, NEW a \in 1..(Len(f) + 1)
  PROVE  /\ FlagsEnd(f, a) \in a..(Len(f) + 1)
         /\ WidthEnd(f, a) \in FlagsEnd(f, a)..(Len(f) + 1)
         /\ StarOf(f, a) \in {0, 1} /\ PrecisionStar(f, a) \in {0, 1}
         /\ Dot(f, a) \in WidthEnd(f, a)..(Len(f) + 1)
         /\ CharAt(f, Dot(f, a)) = "." => Dot(f, a) <= Len(f)
         /\ PrecisionEnd(f, a) \in Dot(f, a)..(Len(f) + 1)
         /\ SizeOf(f, a).after \in Nat
         /\ SizeOf(f, a).after >= PrecisionEnd(f, a) + PrecisionStar(f, a)
<1>1. FlagsEnd(f, a) \in a..(Len(f) + 1)
  <2>1. "NUL" \notin FlagChars
    BY DEF FlagChars
  <2>2. IsPast(f, a, FlagChars, FlagsEnd(f, a))
    BY <2>1, PastAllIs DEF FlagsEnd
  <2> QED  BY <2>2 DEF IsPast
<1>2. WidthEnd(f, a) \in FlagsEnd(f, a)..(Len(f) + 1)
  <2>1. FlagsEnd(f, a) \in 1..(Len(f) + 1)
    BY <1>1
  <2>2. IsPast(f, FlagsEnd(f, a), DigitChars, WidthEnd(f, a))
    BY <2>1, NoDigit, PastAllIs DEF WidthEnd
  <2> QED  BY <2>2 DEF IsPast
<1>3. StarOf(f, a) \in {0, 1} /\ Dot(f, a) \in WidthEnd(f, a)..(Len(f) + 1)
  <2>1. WidthEnd(f, a) \in 1..(Len(f) + 1)
    BY <1>1, <1>2
  <2> QED  BY <2>1, StarRead DEF StarOf, Dot
<1>4. ASSUME CharAt(f, Dot(f, a)) = "."
      PROVE  Dot(f, a) <= Len(f)
  BY <1>4 DEF CharAt
<1>5. Dot(f, a) \in 1..(Len(f) + 1)
  BY <1>1, <1>2, <1>3
<1>6. PrecisionEnd(f, a) \in Dot(f, a)..(Len(f) + 1) /\ PrecisionStar(f, a) \in {0, 1}
  <2>1. CASE CharAt(f, Dot(f, a)) = "."
    <3>1. Dot(f, a) + 1 \in 1..(Len(f) + 1)
      BY <1>4, <1>5, <2>1
    <3>2. PrecisionEnd(f, a) = PastAll(f, Dot(f, a) + 1, DigitChars)
      BY <2>1 DEF PrecisionEnd
    <3>3. IsPast(f, Dot(f, a) + 1, DigitChars, PrecisionEnd(f, a))
      BY <3>1, <3>2, NoDigit, PastAllIs
    <3>4. PrecisionEnd(f, a) \in Dot(f, a)..(Len(f) + 1)
      BY <1>5, <3>3 DEF IsPast
    <3>5. PrecisionEnd(f, a) \in 1..(Len(f) + 1)
      BY <1>5, <3>4
    <3>6. PrecisionStar(f, a) = Star(f, PrecisionEnd(f, a))
      BY <2>1 DEF PrecisionStar
    <3> QED  BY <3>4, <3>5, <3>6, StarRead
  <2>2. CASE CharAt(f, Dot(f, a)) # "."
    <3>1. PrecisionEnd(f, a) = Dot(f, a) /\ PrecisionStar(f, a) = 0
      BY <2>2 DEF PrecisionEnd, PrecisionStar
    <3> QED  BY <1>5, <3>1
  <2> QED  BY <2>1, <2>2
<1>7. SizeOf(f, a).after \in Nat /\ SizeOf(f, a).after >= PrecisionEnd(f, a) + PrecisionStar(f, a)
  <2>1. PrecisionEnd(f, a) + PrecisionStar(f, a) \in Nat
    BY <1>5, <1>6
  <2> QED  BY <2>1, LengthRead DEF SizeOf
<1> QED  BY <1>1, <1>2, <1>3, <1>4, <1>6, <1>7

LengthAfter(c, next) == CASE next = "h" -> "H" [] next = "l" -> "q" [] OTHER -> c

LEMMA LengthShift ==
  ASSUME NEW fmt, NEW i, NEW f, Within(fmt, i, f),
         NEW a \in 1..Len(f), LengthOf(f, a).after <= Len(f)
  PROVE  /\ LengthOf(fmt, i + a).length = LengthOf(f, a).length
         /\ LengthOf(fmt, i + a).after = i + LengthOf(f, a).after
<1>0. i \in Nat /\ Len(f) \in Nat /\ a \in Nat
  BY DEF Within
<1>1. CharAt(fmt, i + a) = CharAt(f, a)
  BY CharShift
<1>2. CASE CharAt(f, a) \in SizeChars
  <2>1. a + 1 \in 1..Len(f) /\ i + (a + 1) = (i + a) + 1
    BY <1>0, <1>2, LengthRead
  <2>2. CharAt(fmt, (i + a) + 1) = CharAt(f, a + 1)
    BY <2>1, CharShift
  <2>3. /\ LengthOf(f, a).length = LengthAfter(CharAt(f, a), CharAt(f, a + 1))
        /\ LengthOf(fmt, i + a).length = LengthAfter(CharAt(f, a), CharAt(f, a + 1))
    BY <1>1, <1>2, <2>2 DEF LengthOf, SizeChars, LengthAfter
  <2>4. /\ LengthOf(f, a).after = IF CharAt(f, a + 1) = "l" THEN a + 2 ELSE a + 1
        /\ LengthOf(fmt, i + a).after = IF CharAt(f, a + 1) = "l" THEN (i + a) + 2 ELSE (i + a) + 1
    BY <1>1, <1>2, <2>2 DEF LengthOf, SizeChars
  <2> QED  BY <1>0, <2>3, <2>4
<1>3. CASE CharAt(f, a) \notin SizeChars
  BY <1>0, <1>1, <1>3 DEF LengthOf, SizeChars
<1> QED  BY <1>2, <1>3

LEMMA NumberShift ==
  ASSUME NEW fmt, NEW i, NEW f, Within(fmt, i, f),
         NEW a \in 1..Len(f), NEW b \in a..Len(f)
  PROVE  ReadNumber(fmt, i + a, i + b) = ReadNumber(f, a, b)
<1>0. i \in Nat /\ Len(f) \in Nat
  BY DEF Within
<1> DEFINE x == SubSeq(fmt, i + a, (i + b) - 1)
           y == SubSeq(f, a, b - 1)
<1>1. x = [k \in 1..(b - a) |-> fmt[(i + a) + k - 1]]
  BY <1>0
<1>2. y = [k \in 1..(b - a) |-> f[a + k - 1]]
  BY <1>0
<1> HIDE DEF x, y
<1>3. ASSUME NEW k \in 1..(b - a)
      PROVE  fmt[(i + a) + k - 1] = f[a + k - 1]
  <2>1. a + k - 1 \in 1..Len(f) /\ i + (a + k - 1) = (i + a) + k - 1
    BY <1>0
  <2> QED  BY <2>1, CharShift
<1>4. x = y
  BY <1>1, <1>2, <1>3
<1> QED  BY <1>4 DEF ReadNumber, x, y

\* The same directive, i characters further on.
SameDirective(d, e) ==
  d.flags = e.flags /\ d.width = e.width /\ d.length = e.length /\ d.spec = e.spec

LEMMA DirectiveShift ==
  ASSUME NEW fmt, NEW i, NEW f, Within(fmt, i, f), Len(f) >= 1,
         NEW args, NEW own, Directive(f, 2, own).after = Len(f) + 1,
         Directive(f, 2, own).stars >= 1 => args[1] = own[1]
  PROVE  /\ SameDirective(Directive(fmt, i + 2, args), Directive(f, 2, own))
         /\ Directive(fmt, i + 2, args).stars = Directive(f, 2, own).stars
         /\ Directive(fmt, i + 2, args).after = i + (Len(f) + 1)
<1> DEFINE n == Len(f)
           flags == FlagsEnd(f, 2)
           width == WidthEnd(f, 2)
           dot == Dot(f, 2)
           precision == PrecisionEnd(f, 2)
           star == PrecisionStar(f, 2)
           d == Directive(f, 2, own)
           e == Directive(fmt, i + 2, args)
<1>0. i \in Nat /\ n \in Nat /\ 2 \in 1..(n + 1)
  BY DEF Within
<1>1. SizeOf(f, 2).after = n
  <2>1. d.after = SizeOf(f, 2).after + 1
    BY DirectiveReads
  <2>2. SizeOf(f, 2).after \in Nat
    BY <1>0, ReadingGoesOn
  <2> HIDE DEF d
  <2> QED  BY <1>0, <2>1, <2>2 DEF d
<1>2. /\ flags \in 2..(n + 1) /\ width \in flags..(n + 1) /\ dot \in width..(n + 1)
      /\ precision \in dot..(n + 1) /\ star \in {0, 1} /\ n >= precision + star
      /\ StarOf(f, 2) \in {0, 1}
  BY <1>0, <1>1, ReadingGoesOn
<1> HIDE DEF flags, width, dot, precision, star
<1>3. /\ flags \in 2..n /\ width \in flags..n /\ dot \in width..n
      /\ precision \in dot..n /\ precision + star \in precision..n
  BY <1>0, <1>2
<1>3a. /\ flags \in 1..n /\ width \in 1..n /\ dot \in 1..n /\ precision \in 1..n
       /\ precision + star \in 1..n
  BY <1>0, <1>3
<1> HIDE DEF n
<1>4. FlagsEnd(fmt, i + 2) = i + flags
  <2>1. "NUL" \notin FlagChars
    BY DEF FlagChars
  <2>2. PastAll(f, 2, FlagChars) = flags /\ flags <= n
    BY <1>0, <1>3 DEF FlagsEnd, flags
  <2> QED  BY <1>0, <2>1, <2>2, PastShift DEF FlagsEnd, n
<1>5. WidthEnd(fmt, i + 2) = i + width
  <2>1. PastAll(f, flags, DigitChars) = width /\ width <= n /\ flags \in 1..(n + 1)
    BY <1>0, <1>3 DEF WidthEnd, flags, width
  <2>2. PastAll(fmt, i + flags, DigitChars) = i + width
    BY <2>1, NoDigit, PastShift DEF n
  <2> QED  BY <1>4, <2>2 DEF WidthEnd
<1>6. ASSUME NEW k \in 1..n
      PROVE  Star(fmt, i + k) = Star(f, k)
  BY CharShift DEF Star, n
<1>7. StarOf(fmt, i + 2) = StarOf(f, 2)
  BY <1>3a, <1>5, <1>6 DEF StarOf, width
<1>8. Dot(fmt, i + 2) = i + dot
  <2>1. dot = width + StarOf(f, 2)
    BY DEF Dot, dot, width
  <2>2. Dot(fmt, i + 2) = (i + width) + StarOf(f, 2)
    BY <1>5, <1>7 DEF Dot
  <2> QED  BY <1>0, <1>2, <2>1, <2>2
<1>9. CharAt(fmt, i + dot) = CharAt(f, dot)
  BY <1>3a, CharShift DEF n
<1>10. PrecisionEnd(fmt, i + 2) = i + precision
  <2>1. CASE CharAt(f, dot) = "."
    <3>1. precision = PastAll(f, dot + 1, DigitChars)
      BY <2>1 DEF PrecisionEnd, precision, dot
    <3>2. PrecisionEnd(fmt, i + 2) = PastAll(fmt, (i + dot) + 1, DigitChars)
      BY <1>8, <1>9, <2>1 DEF PrecisionEnd
    <3>3. dot + 1 \in 1..(n + 1) /\ precision <= n /\ i + (dot + 1) = (i + dot) + 1
      BY <1>0, <1>3
    <3>4. PastAll(fmt, i + (dot + 1), DigitChars) = i + precision
      BY <3>1, <3>3, NoDigit, PastShift DEF n
    <3> QED  BY <3>2, <3>3, <3>4
  <2>2. CASE CharAt(f, dot) # "."
    <3>1. precision = dot
      BY <2>2 DEF PrecisionEnd, precision, dot
    <3>2. PrecisionEnd(fmt, i + 2) = i + dot
      BY <1>8, <1>9, <2>2 DEF PrecisionEnd
    <3> QED  BY <3>1, <3>2
  <2> QED  BY <2>1, <2>2
<1>11. PrecisionStar(fmt, i + 2) = star
  <2>1. Star(fmt, i + precision) = Star(f, precision)
    BY <1>3a, <1>6
  <2>2. star = IF CharAt(f, dot) = "." THEN Star(f, precision) ELSE 0
    BY DEF PrecisionStar, star, precision, dot
  <2>3. PrecisionStar(fmt, i + 2) = IF CharAt(f, dot) = "." THEN Star(fmt, i + precision) ELSE 0
    BY <1>8, <1>9, <1>10 DEF PrecisionStar
  <2> QED  BY <2>1, <2>2, <2>3
<1>12. SizeOf(fmt, i + 2).length = SizeOf(f, 2).length /\ SizeOf(fmt, i + 2).after = i + n
  <2>1. (i + precision) + star = i + (precision + star)
    BY <1>0, <1>3a, <1>2
  <2>2. SizeOf(fmt, i + 2) = LengthOf(fmt, i + (precision + star))
    BY <1>10, <1>11, <2>1 DEF SizeOf
  <2>3. SizeOf(f, 2) = LengthOf(f, precision + star)
    BY DEF SizeOf, precision, star
  <2>4. LengthOf(f, precision + star).after <= n
    BY <1>0, <1>1, <2>3
  <2>5. /\ LengthOf(fmt, i + (precision + star)).length = LengthOf(f, precision + star).length
        /\ LengthOf(fmt, i + (precision + star)).after = i + LengthOf(f, precision + star).after
    BY <1>3a, <2>4, LengthShift DEF n
  <2> QED  BY <1>1, <2>2, <2>3, <2>5
<1>13. CharAt(fmt, i + n) = CharAt(f, n)
  <2>1. n \in 1..n
    BY <1>0
  <2> QED  BY <2>1, CharShift DEF n
<1>14. {fmt[k] : k \in (i + 2)..((i + flags) - 1)} = {f[k] : k \in 2..(flags - 1)}
  <2>1. ASSUME NEW k \in 2..(flags - 1)
        PROVE  /\ i + k \in (i + 2)..((i + flags) - 1)
               /\ fmt[i + k] = f[k]
    <3>1. k \in 1..n
      BY <1>0, <1>3
    <3>2. fmt[i + k] = f[k]
      BY <3>1, CharShift DEF n
    <3> QED  BY <1>0, <1>3, <3>2
  <2>2. ASSUME NEW k \in (i + 2)..((i + flags) - 1)
        PROVE  k - i \in 2..(flags - 1) /\ i + (k - i) = k
    BY <1>0, <1>3
  <2>3. ASSUME NEW k \in (i + 2)..((i + flags) - 1)
        PROVE  \E j \in 2..(flags - 1) : fmt[k] = f[j]
    <3>1. fmt[i + (k - i)] = f[k - i]
      BY <2>1, <2>2
    <3> QED  BY <2>2, <3>1
  <2>4. ASSUME NEW k \in 2..(flags - 1)
        PROVE  \E j \in (i + 2)..((i + flags) - 1) : f[k] = fmt[j]
    BY <2>1
  <2> QED  BY <2>3, <2>4
<1>15. ReadNumber(fmt, i + flags, i + width) = ReadNumber(f, flags, width)
  <2>1. flags \in 1..n /\ width \in flags..n
    BY <1>3, <1>3a
  <2> QED  BY <2>1, NumberShift DEF n
<1>16. /\ d.flags = {f[k] : k \in 2..(flags - 1)}
       /\ d.width = IF StarOf(f, 2) = 1 THEN own[1] ELSE ReadNumber(f, flags, width)
       /\ d.stars = StarOf(f, 2) + star
       /\ d.length = SizeOf(f, 2).length
       /\ d.spec = CharAt(f, n)
       /\ d.after = n + 1
  BY <1>1, DirectiveReads DEF flags, width, star
<1>17. /\ e.flags = {fmt[k] : k \in (i + 2)..((i + flags) - 1)}
       /\ e.width = IF StarOf(f, 2) = 1 THEN args[1] ELSE ReadNumber(fmt, i + flags, i + width)
       /\ e.stars = StarOf(f, 2) + star
       /\ e.length = SizeOf(f, 2).length
       /\ e.spec = CharAt(fmt, i + n)
       /\ e.after = (i + n) + 1
  BY <1>4, <1>5, <1>7, <1>11, <1>12, DirectiveReads
<1>18. StarOf(f, 2) = 1 => args[1] = own[1]
  <2>1. StarOf(f, 2) = 1 => d.stars >= 1
    BY <1>2, <1>16
  <2> QED  BY <2>1
<1> HIDE DEF d, e
<1>19. d.width = e.width
  BY <1>15, <1>16, <1>17, <1>18
<1>20. SameDirective(e, d)
  BY <1>13, <1>14, <1>16, <1>17, <1>19 DEF SameDirective
<1>21. e.stars = d.stars
  BY <1>16, <1>17
<1>22. e.after = i + (n + 1)
  BY <1>0, <1>17
<1> QED  BY <1>20, <1>21, <1>22 DEF d, e, n

LEMMA SameShown ==
  ASSUME NEW d, NEW e, SameDirective(d, e)
  PROVE  Takes(d) = Takes(e) /\ \A v : Shows(d, v) = Shows(e, v)
<1>1. d.flags = e.flags /\ d.width = e.width /\ d.length = e.length /\ d.spec = e.spec
  BY DEF SameDirective
<1>2. ShowsNumber(d) = ShowsNumber(e) /\ Prefix(d) = Prefix(e)
  BY <1>1 DEF ShowsNumber, Prefix
<1>3. Takes(d) = Takes(e)
  BY <1>1, <1>2 DEF Takes
<1>4. ASSUME NEW v
      PROVE  Shows(d, v) = Shows(e, v)
  BY <1>1, <1>2 DEF Shows
<1> QED  BY <1>3, <1>4

-----------------------------------------------------------------------------
\* A piece in the walk.
Rest(args, n) == SubSeq(args, n + 1, Len(args))

LEMMA ArgumentsDropped ==
  ASSUME NEW A, NEW a \in Seq(A), NEW more \in Seq(A)
  PROVE  /\ Rest(a \o more, Len(a)) = more
         /\ Len(a) >= 1 => /\ (a \o more)[1] = a[1]
                           /\ Head(Rest(a \o more, Len(a) - 1)) = a[Len(a)]
                           /\ Tail(Rest(a \o more, Len(a) - 1)) = more
<1> DEFINE args == a \o more
           n == Len(a)
           m == Len(more)
<1>1. /\ args \in Seq(A) /\ Len(args) = n + m /\ n \in Nat /\ m \in Nat
      /\ \A k \in 1..(n + m) : args[k] = IF k <= n THEN a[k] ELSE more[k - n]
  BY ConcatProperties
<1>2. more = [k \in 1..m |-> more[k]]
  OBVIOUS
<1> HIDE DEF args, n, m
<1>3. \A k \in 1..m : args[n + k] = more[k]
  <2> TAKE k \in 1..m
  <2>1. n + k \in 1..(n + m) /\ ~(n + k <= n) /\ (n + k) - n = k
    BY <1>1
  <2> QED  BY <1>1, <2>1
<1>4. Rest(args, n) = more
  <2>1. SubSeq(args, n + 1, n + m) = [k \in 1..m |-> args[(n + 1) + k - 1]]
    BY <1>1
  <2>2. \A k \in 1..m : (n + 1) + k - 1 = n + k
    BY <1>1
  <2> QED  BY <1>1, <1>2, <1>3, <2>1, <2>2 DEF Rest
<1>5. ASSUME n >= 1
      PROVE  args[1] = a[1] /\ Head(Rest(args, n - 1)) = a[n] /\ Tail(Rest(args, n - 1)) = more
  <2> DEFINE r == Rest(args, n - 1)
  <2>1. args[1] = a[1] /\ args[n] = a[n]
    <3>1. 1 \in 1..(n + m) /\ n \in 1..(n + m) /\ 1 <= n /\ n <= n
      BY <1>1, <1>5
    <3> QED  BY <1>1, <3>1
  <2>2. r = [k \in 1..(m + 1) |-> args[n + k - 1]]
    <3>1. (n - 1) + 1 = n
      BY <1>1
    <3>2. SubSeq(args, n, n + m) = [k \in 1..(m + 1) |-> args[n + k - 1]]
      BY SMTT(20), <1>1, <1>5
    <3> QED  BY <1>1, <3>1, <3>2 DEF Rest
  <2>3. \A k \in 1..(m + 1) : args[n + k - 1] \in A
    <3> TAKE k \in 1..(m + 1)
    <3>1. n + k - 1 \in 1..(n + m)
      BY <1>1, <1>5
    <3> QED  BY <1>1, <3>1
  <2>4. r \in Seq(A) /\ Len(r) = m + 1
    <3>1. m + 1 \in Nat
      BY <1>1
    <3> HIDE DEF r
    <3> QED  BY <2>2, <2>3, <3>1, IsASeq
  <2>5. r[1] = a[n]
    <3>1. 1 \in 1..(m + 1) /\ n + 1 - 1 = n
      BY <1>1
    <3> HIDE DEF r
    <3> QED  BY <2>1, <2>2, <3>1
  <2>6. \A k \in 1..m : r[k + 1] = more[k]
    <3> TAKE k \in 1..m
    <3>1. k + 1 \in 1..(m + 1) /\ n + (k + 1) - 1 = n + k
      BY <1>1
    <3> HIDE DEF r
    <3> QED  BY <1>3, <2>2, <3>1
  <2> HIDE DEF r
  <2>7. Head(r) = a[n]
    BY <2>4, <2>5
  <2>8. Tail(r) = more
    <3>1. r # << >>
      BY <1>1, <2>4
    <3>2. /\ Tail(r) \in Seq(A) /\ Len(Tail(r)) = Len(r) - 1
          /\ \A k \in 1..Len(Tail(r)) : Tail(r)[k] = r[k + 1]
      BY <2>4, <3>1, HeadTailProperties
    <3> DEFINE t == Tail(r)
    <3>3. t \in Seq(A) /\ Len(t) = m /\ \A k \in 1..m : t[k] = more[k]
      BY <1>1, <2>4, <2>6, <3>2
    <3> HIDE DEF t
    <3>4. t = [k \in 1..m |-> t[k]]
      BY <3>3
    <3>5. t = more
      BY <1>2, <3>3, <3>4
    <3> QED  BY <3>5 DEF t
  <2> QED  BY <2>1, <2>7, <2>8 DEF r
<1> QED  BY <1>4, <1>5 DEF args, n

VPiece(p) == Literal(p) \/ WholeDirective(p)

LEMMA TextIsSeq ==
  ASSUME NEW x, IsText(x)
  PROVE  \E S : x \in Seq(S)
<1> DEFINE n == Len(x)
<1>1. x = [k \in 1..n |-> x[k]] /\ n \in Nat
  BY DEF IsText
<1> HIDE DEF n
<1>2. \A k \in 1..n : x[k] \in {x[j] : j \in 1..n}
  OBVIOUS
<1>3. x \in Seq({x[j] : j \in 1..n})
  BY <1>1, <1>2, IsASeq
<1> QED  BY <1>3

LEMMA VPieceParts ==
  ASSUME NEW p, VPiece(p)
  PROVE  /\ \E S : p.format \in Seq(S)
         /\ \E S : p.shown \in Seq(S)
         /\ \E S : p.args \in Seq(S)
<1>1. CASE Literal(p)
  <2> DEFINE c == p.format[1]
  <2>1. p.format = <<c>> /\ p.shown = <<c>> /\ p.args = << >>
    BY <1>1 DEF Literal
  <2> HIDE DEF c
  <2>2. <<c>> \in Seq({c}) /\ << >> \in Seq({c})
    OBVIOUS
  <2> QED  BY <2>1, <2>2
<1>2. CASE WholeDirective(p)
  <2>1. IsText(p.format) /\ IsText(p.shown) /\ IsText(p.args)
    BY <1>2 DEF WholeDirective
  <2> QED  BY <2>1, TextIsSeq
<1> QED  BY <1>1, <1>2 DEF VPiece

LEMMA VStepCharacter ==
  ASSUME NEW fmt, NEW i \in Nat, NEW at \in Nat, at <= i, fmt[i] # "%", NEW out, NEW args
  PROVE  VStep(fmt, VState(at, out, args), i) = VState(at, Append(out, fmt[i]), args)
<1> DEFINE s == VState(at, out, args)
           more == Append(out, fmt[i])
<1>1. i >= s.at /\ ~(i < s.at)
  BY DEF VState
<1>2. [s EXCEPT !.out = Append(@, fmt[i])] = VState(at, more, args)
  <2>1. s.out = out
    BY DEF VState
  <2>2. [s EXCEPT !.out = more] = VState(at, more, args)
    <3> HIDE DEF more
    <3> QED  BY DEF VState
  <2>3. [s EXCEPT !.out = Append(@, fmt[i])] = [s EXCEPT !.out = Append(s.out, fmt[i])]
    OBVIOUS
  <2> HIDE DEF s
  <2> QED  BY <2>1, <2>2, <2>3
<1> HIDE DEF s
<1>3. VStep(fmt, s, i) = [s EXCEPT !.out = Append(@, fmt[i])]
  BY <1>1 DEF VStep
<1> QED  BY <1>2, <1>3 DEF s

LEMMA VStepDirective ==
  ASSUME NEW fmt, NEW i \in Nat, NEW at \in Nat, at <= i, fmt[i] = "%", NEW out, NEW args
  PROVE  VStep(fmt, VState(at, out, args), i) = VDirective(fmt, VState(at, out, args), i)
<1> DEFINE s == VState(at, out, args)
<1>1. i >= s.at /\ ~(i < s.at)
  BY DEF VState
<1> HIDE DEF s
<1>2. VStep(fmt, s, i) = VDirective(fmt, s, i)
  BY <1>1 DEF VStep
<1> QED  BY <1>2 DEF s

LEMMA VLiteralWalks ==
  ASSUME NEW fmt, NEW i \in Nat, NEW p, Literal(p), At(fmt, i, p.format),
         NEW at \in Nat, at <= i + 1, NEW S, NEW out \in Seq(S), NEW args
  PROVE  /\ p.args = << >> /\ Len(p.format) = 1
         /\ VLeads(fmt, i, VState(at, out, args), i + 1, VState(at, out \o p.shown, args))
<1> DEFINE c == p.format[1]
<1>1. p.format = <<c>> /\ c # "%" /\ p.args = << >> /\ p.shown = <<c>>
  BY DEF Literal
<1> HIDE DEF c
<1>2. Len(p.format) = 1 /\ fmt[i + 1] = c
  <2>1. Len(p.format) = 1 /\ p.format[1] = c
    BY <1>1
  <2> QED  BY <2>1 DEF At
<1>3. VStep(fmt, VState(at, out, args), i + 1) = VState(at, Append(out, c), args)
  <2>1. i + 1 \in Nat
    OBVIOUS
  <2>2. fmt[i + 1] # "%"
    BY <1>1, <1>2
  <2>3. VStep(fmt, VState(at, out, args), i + 1) = VState(at, Append(out, fmt[i + 1]), args)
    BY <2>1, <2>2, VStepCharacter
  <2> QED  BY <1>2, <2>3
<1>4. VLeads(fmt, i, VState(at, out, args), i + 1, VStep(fmt, VState(at, out, args), i + 1))
  BY VLeadsOne
<1>5. Append(out, c) = out \o <<c>>
  OBVIOUS
<1> QED  BY <1>1, <1>2, <1>3, <1>4, <1>5

\* The step at the "%", for the directive d that the piece was made with.
VTaken(fmt, i, p, at, out, more) ==
  VDirective(fmt, VState(at, out, p.args \o more), i + 1)
    = VState(i + (Len(p.format) + 1), out \o p.shown, more)

LEMMA VDirectiveTaken ==
  ASSUME NEW fmt, NEW i, NEW p, WholeDirective(p), Within(fmt, i, p.format),
         NEW at, NEW out, NEW A, p.args \in Seq(A), NEW more \in Seq(A)
  PROVE  VTaken(fmt, i, p, at, out, more)
<1> DEFINE f == p.format
           a == p.args
           args == a \o more
           d == Directive(f, 2, a)
           e == Directive(fmt, i + 2, args)
           after == i + (Len(f) + 1)
<1>0. i \in Nat /\ Len(f) \in Nat
  BY DEF Within
<1>1. /\ Len(f) >= 1 /\ d.after = Len(f) + 1
      /\ Len(a) = d.stars + (IF Takes(d) THEN 1 ELSE 0)
      /\ p.shown = Shows(d, IF Takes(d) THEN a[Len(a)] ELSE 0)
  <2>1. f = [k \in 1..Len(f) |-> f[k]] /\ f # << >>
    BY DEF WholeDirective, IsText
  <2>2. Len(f) >= 1
    BY <1>0, <2>1
  <2> QED  BY <2>2 DEF WholeDirective
<1>2. d.stars \in Nat
  <2>1. d.stars = StarOf(f, 2) + PrecisionStar(f, 2)
    BY DirectiveReads
  <2>2. 2 \in 1..(Len(f) + 1)
    BY <1>0, <1>1
  <2>3. StarOf(f, 2) \in {0, 1} /\ PrecisionStar(f, 2) \in {0, 1}
    BY <1>0, <2>2, ReadingGoesOn
  <2> QED  BY <2>1, <2>3
<1>3. Len(a) \in Nat
  OBVIOUS
<1>4. /\ Rest(args, Len(a)) = more
      /\ Len(a) >= 1 => /\ args[1] = a[1]
                        /\ Head(Rest(args, Len(a) - 1)) = a[Len(a)]
                        /\ Tail(Rest(args, Len(a) - 1)) = more
  BY ArgumentsDropped
<1>5. d.stars >= 1 => args[1] = a[1]
  <2> HIDE DEF d, args
  <2> QED  BY <1>1, <1>2, <1>3, <1>4
<1> HIDE DEF args
<1>6. SameDirective(e, d) /\ e.stars = d.stars /\ e.after = after
  BY SMTT(20), <1>1, <1>5, DirectiveShift
<1>7. Takes(e) = Takes(d) /\ \A v : Shows(e, v) = Shows(d, v)
  BY <1>6, SameShown
<1> HIDE DEF d, e, after
<1>8. VDirective(fmt, VState(at, out, args), i + 1)
        = IF Takes(e)
          THEN VState(e.after, out \o Shows(e, Head(Rest(args, e.stars))), Tail(Rest(args, e.stars)))
          ELSE VState(e.after, out \o Shows(e, 0), Rest(args, e.stars))
  <2>1. (i + 1) + 1 = i + 2
    BY <1>0
  <2>2. VState(at, out, args).args = args /\ VState(at, out, args).out = out
    BY DEF VState
  <2>3. e = Directive(fmt, (i + 1) + 1, VState(at, out, args).args)
    BY <2>1, <2>2 DEF e
  <2> QED  BY <2>2, <2>3 DEF VDirective, VState, Rest, AfterStars
<1>9. CASE Takes(d)
  <2>1. Len(a) >= 1 /\ d.stars = Len(a) - 1 /\ p.shown = Shows(d, a[Len(a)])
    BY <1>1, <1>2, <1>3, <1>9
  <2>2. Head(Rest(args, e.stars)) = a[Len(a)] /\ Tail(Rest(args, e.stars)) = more
    BY <1>4, <1>6, <2>1
  <2>3. Shows(e, Head(Rest(args, e.stars))) = p.shown
    BY <1>7, <2>1, <2>2
  <2> QED  BY <1>6, <1>7, <1>8, <1>9, <2>2, <2>3 DEF after, args, VTaken
<1>10. CASE ~Takes(d)
  <2>1. d.stars = Len(a) /\ p.shown = Shows(d, 0)
    BY <1>1, <1>2, <1>3, <1>10
  <2>2. Rest(args, e.stars) = more /\ Shows(e, 0) = p.shown
    BY <1>4, <1>6, <1>7, <2>1
  <2> QED  BY <1>6, <1>7, <1>8, <1>10, <2>2 DEF after, args, VTaken
<1> QED  BY <1>9, <1>10

LEMMA VDirectiveWalks ==
  ASSUME NEW fmt, NEW i, NEW p, WholeDirective(p), Within(fmt, i, p.format),
         NEW at \in Nat, at <= i + 1, NEW out, NEW A, p.args \in Seq(A), NEW more \in Seq(A)
  PROVE  VLeads(fmt, i, VState(at, out, p.args \o more), i + Len(p.format),
                VState(i + (Len(p.format) + 1), out \o p.shown, more))
<1> DEFINE n == Len(p.format)
           s == VState(at, out, p.args \o more)
           t == VState(i + (n + 1), out \o p.shown, more)
<1>1. i \in Nat /\ n \in Nat
  BY DEF Within
<1>2. n >= 1 /\ p.format[1] = "%"
  <2>1. p.format = [k \in 1..n |-> p.format[k]] /\ p.format # << >> /\ p.format[1] = "%"
    BY DEF WholeDirective, IsText
  <2> QED  BY <1>1, <2>1
<1>3. fmt[i + 1] = "%"
  <2>1. 1 \in 1..Len(p.format)
    BY <1>1, <1>2
  <2> QED  BY <1>2, <2>1, CharShift
<1>4. VStep(fmt, s, i + 1) = t
  <2>1. VDirective(fmt, s, i + 1) = t
    <3>1. VTaken(fmt, i, p, at, out, more)
      BY VDirectiveTaken
    <3> QED  BY <3>1 DEF VTaken
  <2>2. i + 1 \in Nat
    BY <1>1
  <2>3. VStep(fmt, s, i + 1) = VDirective(fmt, s, i + 1)
    BY <1>3, <2>2, VStepDirective
  <2> QED  BY <2>1, <2>3
<1>5. VLeads(fmt, i, s, i + 1, t)
  <2> HIDE DEF s, t
  <2>1. VLeads(fmt, i, s, i + 1, VStep(fmt, s, i + 1))
    BY <1>1, VLeadsOne
  <2> QED  BY <1>4, <2>1
<1>6. VLeads(fmt, i + 1, t, i + n, t)
  <2> DEFINE end == i + (n + 1)
             more2 == out \o p.shown
  <2>1. i + 1 \in Nat /\ end \in Nat /\ i + 1 < end /\ end - 1 = i + n
    BY <1>1, <1>2
  <2> HIDE DEF end, more2
  <2>2. VLeads(fmt, i + 1, VState(end, more2, more), end - 1, VState(end, more2, more))
    BY <2>1, VWaits
  <2> QED  BY <2>1, <2>2 DEF end, more2
<1> HIDE DEF s, t
<1>7. i + 1 \in Nat /\ i + n \in Nat /\ i <= i + 1 /\ i + 1 <= i + n
  BY <1>1, <1>2
<1>8. VLeads(fmt, i, s, i + n, t)
  BY <1>1, <1>5, <1>6, <1>7, VLeadsOn
<1> QED  BY <1>8 DEF s, t, n

VWalks(fmt, i, p, at, out, more) ==
  \E end \in Nat :
    /\ end <= (i + Len(p.format)) + 1
    /\ VLeads(fmt, i, VState(at, out, p.args \o more), i + Len(p.format),
              VState(end, out \o p.shown, more))

LEMMA VPieceWalks ==
  ASSUME NEW fmt, NEW i, NEW p, VPiece(p), Within(fmt, i, p.format),
         NEW at \in Nat, at <= i + 1, NEW S, NEW out \in Seq(S),
         NEW A, p.args \in Seq(A), NEW more \in Seq(A)
  PROVE  VWalks(fmt, i, p, at, out, more)
<1>0. i \in Nat /\ Len(p.format) \in Nat /\ At(fmt, i, p.format)
  BY DEF Within
<1>1. CASE Literal(p)
  <2> DEFINE args == p.args \o more
  <2>1. /\ p.args = << >> /\ Len(p.format) = 1
        /\ VLeads(fmt, i, VState(at, out, args), i + 1, VState(at, out \o p.shown, args))
    <3> HIDE DEF args
    <3> QED  BY <1>0, <1>1, VLiteralWalks
  <2>2. args = more
    BY <2>1, NothingInFront
  <2>3. at <= (i + 1) + 1
    BY <1>0
  <2> HIDE DEF args
  <2>4. VLeads(fmt, i, VState(at, out, args), i + Len(p.format), VState(at, out \o p.shown, more))
    BY <2>1, <2>2
  <2> QED  BY <2>1, <2>3, <2>4 DEF VWalks, args
<1>2. CASE WholeDirective(p)
  <2> DEFINE end == i + (Len(p.format) + 1)
  <2>1. end \in Nat /\ end <= (i + Len(p.format)) + 1
    BY <1>0
  <2>2. VLeads(fmt, i, VState(at, out, p.args \o more), i + Len(p.format),
               VState(end, out \o p.shown, more))
    BY <1>2, VDirectiveWalks
  <2> HIDE DEF end
  <2> QED  BY <2>1, <2>2 DEF VWalks
<1> QED  BY <1>1, <1>2 DEF VPiece

LEMMA VOnePieceShown ==
  ASSUME NEW p, VPiece(p)
  PROVE  vprintf(p.format, p.args) = p.shown
<1>1. PICK S : p.shown \in Seq(S)
  BY VPieceParts
<1>2. PICK F : p.format \in Seq(F)
  BY VPieceParts
<1>3. PICK A : p.args \in Seq(A)
  BY VPieceParts
<1> DEFINE n == Len(p.format)
<1>4. n \in Nat /\ 0 + n = n
  BY <1>2
<1>5. Within(p.format, 0, p.format)
  BY <1>4 DEF Within, At
<1>6. /\ << >> \in Seq(S) /\ << >> \in Seq(A) /\ << >> \o p.shown = p.shown
      /\ p.args \o << >> = p.args
  BY <1>1, <1>3, NothingInFront
<1>7. VWalks(p.format, 0, p, 1, << >>, << >>)
  <2>1. 1 \in Nat /\ 1 <= 0 + 1
    OBVIOUS
  <2> QED  BY <1>3, <1>5, <1>6, <2>1, VPieceWalks
<1>8. PICK end \in Nat : VLeads(p.format, 0, VState(1, << >>, p.args), n, VState(end, p.shown, << >>))
  BY <1>4, <1>6, <1>7 DEF VWalks
<1>9. vprintf(p.format, p.args) = VState(end, p.shown, << >>).out
  BY <1>4, <1>8, VEnds
<1> QED  BY <1>9 DEF VState

LEMMA VTwoPiecesShown ==
  ASSUME NEW p, VPiece(p), NEW q, VPiece(q)
  PROVE  vprintf(p.format \o q.format, p.args \o q.args) = p.shown \o q.shown
<1>1. PICK S : p.shown \in Seq(S)
  BY VPieceParts
<1>2. PICK F : p.format \in Seq(F)
  BY VPieceParts
<1>3. PICK G : q.format \in Seq(G)
  BY VPieceParts
<1>4. PICK A : p.args \in Seq(A)
  BY VPieceParts
<1>5. PICK B : q.args \in Seq(B)
  BY VPieceParts
<1> DEFINE fmt == p.format \o q.format
           args == p.args \o q.args
           l == Len(p.format)
           r == Len(q.format)
           n == l + r
           C == A \cup B
<1>6. l \in Nat /\ r \in Nat
  BY <1>2, <1>3
<1>7. fmt \in Seq(F \cup G) /\ Len(fmt) = n /\ At(fmt, 0, p.format) /\ At(fmt, l, q.format)
  <2>1. fmt \in Seq(F \cup G) /\ DOMAIN fmt = 1..n /\ At(fmt, 0, p.format) /\ At(fmt, l, q.format)
    BY <1>2, <1>3, JoinedParts
  <2>2. n \in Nat
    <3> HIDE DEF l, r
    <3> QED  BY <1>6
  <2> HIDE DEF fmt, n
  <2> QED  BY <2>1, <2>2
<1>8. p.args \in Seq(C) /\ q.args \in Seq(C) /\ << >> \in Seq(C) /\ q.args \o << >> = q.args
  BY <1>4, <1>5, NothingInFront
<1>9. << >> \in Seq(S) /\ << >> \o p.shown = p.shown
  BY <1>1, NothingInFront
<1> HIDE DEF fmt, l, r, C
<1>10. /\ 0 + l = l /\ 0 <= l /\ l <= n /\ l + r = n /\ n \in Nat /\ 0 \in Nat
       /\ 1 \in Nat /\ 1 <= 0 + 1 /\ 0 + l <= n /\ l + r <= n
  BY <1>6
<1>11. Within(fmt, 0, p.format) /\ Within(fmt, l, q.format)
  BY <1>6, <1>7, <1>10 DEF Within, l, r
<1>12. VWalks(fmt, 0, p, 1, << >>, q.args)
  BY <1>8, <1>9, <1>10, <1>11, VPieceWalks
<1> HIDE DEF n
<1>13. PICK at \in Nat : /\ at <= l + 1
                         /\ VLeads(fmt, 0, VState(1, << >>, args), l, VState(at, p.shown, q.args))
  BY <1>9, <1>10, <1>12 DEF VWalks, l
<1>14. VWalks(fmt, l, q, at, p.shown, << >>)
  BY <1>1, <1>8, <1>11, <1>13, VPieceWalks
<1> HIDE DEF args
<1> DEFINE shown == p.shown \o q.shown
<1>15. PICK end \in Nat : VLeads(fmt, l, VState(at, p.shown, q.args), n, VState(end, shown, << >>))
  BY <1>8, <1>10, <1>14 DEF VWalks, r
<1> HIDE DEF shown
<1>16. VLeads(fmt, 0, VState(1, << >>, args), n, VState(end, shown, << >>))
  BY <1>6, <1>10, <1>13, <1>15, VLeadsOn
<1>17. vprintf(fmt, args) = VState(end, shown, << >>).out
  BY <1>7, <1>10, <1>16, VEnds
<1>18. VState(end, shown, << >>).out = shown
  BY DEF VState
<1> QED  BY <1>17, <1>18 DEF fmt, args, shown

LEMMA VMessageFormatted ==
  ASSUME NEW pieces, \A p \in pieces : VPiece(p), NEW m \in Messages(pieces)
  PROVE  vprintf(FormatOf(m), ArgsOf(m)) = ShownOf(m)
<1>1. CASE \E p \in pieces : m = <<p>>
  <2>1. PICK p \in pieces : m = <<p>>
    BY <1>1
  <2>2. vprintf(p.format, p.args) = p.shown
    BY VOnePieceShown
  <2>3. FormatOf(m) = p.format /\ ArgsOf(m) = p.args /\ ShownOf(m) = p.shown
    BY <2>1, MessageOfOne
  <2> QED  BY <2>2, <2>3
<1>2. CASE \E p \in pieces, q \in pieces : m = <<p, q>>
  <2>1. PICK p \in pieces, q \in pieces : m = <<p, q>>
    BY <1>2
  <2>2. vprintf(p.format \o q.format, p.args \o q.args) = p.shown \o q.shown
    BY VTwoPiecesShown
  <2>3. /\ FormatOf(m) = p.format \o q.format
        /\ ArgsOf(m) = p.args \o q.args
        /\ ShownOf(m) = p.shown \o q.shown
    BY <2>1, MessageOfTwo
  <2> QED  BY <2>2, <2>3
<1>3. m \in {<<p>> : p \in pieces} \/ m \in pieces \X pieces
  BY DEF Messages
<1> QED  BY <1>1, <1>2, <1>3

LEMMA VprintfShowsStep ==
  ASSUME WholePieces, PrintMessage
  PROVE  VprintfShowsArguments'
<1>1. CASE \E m \in Messages(VprintfPieces) :
             Printed("vprintf", m, vprintf(FormatOf(m), ArgsOf(m)))
  <2>1. PICK m \in Messages(VprintfPieces) :
          Printed("vprintf", m, vprintf(FormatOf(m), ArgsOf(m)))
    BY <1>1
  <2>2. vprintf(FormatOf(m), ArgsOf(m)) = ShownOf(m)
    <3>1. \A p \in VprintfPieces : VPiece(p)
      BY DEF WholePieces, VPiece
    <3> QED  BY <3>1, VMessageFormatted
  <2>3. text' = ShownOf(m) /\ call'.message = m
    BY <2>1, <2>2 DEF Printed
  <2> QED  BY <2>3 DEF VprintfShowsArguments
<1>2. CASE \E fn \in {"printf", "log", "serial_putsf"} : \E m, result : Printed(fn, m, result)
  <2>1. call'.fn \in {"printf", "log", "serial_putsf"}
    BY <1>2 DEF Printed
  <2> QED  BY <2>1 DEF VprintfShowsArguments
<1> QED  BY <1>1, <1>2 DEF PrintMessage

\* Whatever was printed before, and for every set of characters and directives
\* that vprintf reads to their end (WholePieces): next to another piece each
\* directive has its own flags, width and length, takes its own arguments, a
\* width of "*" too, and is shown as alone (video.c).
THEOREM VprintfKeepsShowing ==
  ASSUME WholePieces
  PROVE  PrintfSpec => []VprintfShowsArguments
<1>1. Init => VprintfShowsArguments
  BY DEF Init, VprintfShowsArguments
<1>2. MemTyped /\ VprintfShowsArguments /\ [Next \/ PrintMessage]_vars => VprintfShowsArguments'
  <2> SUFFICES ASSUME MemTyped, VprintfShowsArguments, [Next \/ PrintMessage]_vars
               PROVE  VprintfShowsArguments'
    OBVIOUS
  <2>1. CASE Next
    BY <2>1, OtherCalls DEF VprintfShowsArguments, Printers
  <2>2. CASE PrintMessage
    BY <2>2, VprintfShowsStep
  <2>3. CASE UNCHANGED vars
    <3>1. call' = call /\ text' = text
      BY <2>3 DEF vars
    <3> QED  BY <3>1 DEF VprintfShowsArguments
  <2> QED  BY <2>1, <2>2, <2>3
<1> QED  BY <1>1, <1>2, BytesInMemory, PTL DEF PrintfSpec

=============================================================================

--------------------------- MODULE TaskingProofs ---------------------------
(***************************************************************************)
(* Proofs about Tasking for any number of tasks, call sites and outcomes   *)
(* of a task's work.                                                       *)
(*                                                                         *)
(* The argument: the links spell out the sequence of tasks (so yield goes  *)
(* round a ring and what a task has waited plus its distance in the ring   *)
(* never exceeds the ring), and the stack of a task that is not running    *)
(* ends in the frame its last call of yield left, which holds that call's  *)
(* context in the places from which the pops will take it.                 *)
(***************************************************************************)
EXTENDS Tasking, SequenceTheorems, TLAPS

-----------------------------------------------------------------------------
(***************************************************************************)
(* The inductive invariant.                                                *)
(***************************************************************************)

\* The words that can be on a stack or in a register.
StackWords ==
  {Entry(t) : t \in Tasks \cup {Boot}}
    \cup {ReturnTo(t, site) : t \in Tasks, site \in Sites}
    \cup {Inside(t) : t \in Tasks} \cup {Local(t) : t \in Tasks}
    \cup {<<"task", t>> : t \in Tasks}
    \cup {Value(t, r, o.mark) : t \in Tasks, r \in Registers, o \in Outcomes}
    \cup {Stale}

LocalCounts == {0} \cup {o.locals : o \in Outcomes}

WordsTyped ==
  /\ regs \in [Registers -> StackWords]
  /\ stack \in [Tasks -> Seq(StackWords)]
  /\ DOMAIN called = Tasks

\* Somebody has the turn as soon as there is a task.
TurnInRing ==
  /\ order = << >> => current_task = NULL
  /\ order # << >> => current_task \in Created

DirectoriesMade == \A t \in Created : page_directory[t] = Directory(t)

\* A task on the processor has the turn, and its stack ends at rsp.
RunnerHasTurn ==
  /\ running # Boot => /\ running = current_task /\ task_started[running]
                       /\ rsp = Len(stack[running])
  /\ running = Boot => \A t \in Tasks : ~task_started[t]

\* A task that has never run has the stack create_task prepared.
FreshStacks ==
  \A t \in Created : ~task_started[t] => stack[t] = <<Entry(t)>> /\ stack_pointer[t] = 1

\* What the pops of Resume make of a register.
Popped(words, sp, r) ==
  IF r = "rbp" THEN words[sp - Saved]
  ELSE words[sp + 1 - CHOOSE i \in 1..Saved : PopOrder[i] = r]

\* The words below sp hold a context as Resume will read it.
Holds(words, sp, context) ==
  /\ sp = Len(words) /\ sp >= FrameWords
  /\ sp - FrameWords \in LocalCounts
  /\ context = [regs |-> [r \in Registers \ {"rax"} |-> Popped(words, sp, r)],
                locals |-> SubSeq(words, 1, sp - FrameWords),
                rip |-> words[sp - Saved - 1]]

\* A task that has yielded finds its context on its stack.
Suspended ==
  \A t \in Created :
    task_started[t] /\ t # running => Holds(stack[t], stack_pointer[t], called[t])

\* How many turns from the task at c to the one at i; a whole round to itself.
Distance(i, c) == IF i > c THEN i - c ELSE i - c + Len(order)

\* Who has waited for long is near.
WaitAndDistance ==
  \A i, c \in DOMAIN order :
    order[c] = current_task => wait[order[i]] + Distance(i, c) <= Len(order)

NoWaitBefore == \A t \in Tasks \ Created : wait[t] = 0

IInv ==
  /\ TypeOK /\ WordsTyped
  /\ TaskListLinked /\ TurnInRing /\ DirectoriesMade
  /\ RunnerHasTurn /\ FreshStacks /\ Suspended
  /\ WaitAndDistance /\ NoWaitBefore
  /\ ContextPreserved

-----------------------------------------------------------------------------
(***************************************************************************)
(* The pops of one call of yield against the pushes of another.            *)
(***************************************************************************)

LEMMA FrameSize == Saved = 14 /\ FrameWords = 16
BY DEF Saved, FrameWords, PushOrder

\* The order of the pops is the order of the pushes read backwards.
LEMMA PopsReversePushes ==
  ASSUME NEW i \in 1..14
  PROVE  PopOrder[i] = PushOrder[15 - i]
<1>1. \/ i = 1 \/ i = 2 \/ i = 3 \/ i = 4 \/ i = 5 \/ i = 6 \/ i = 7
      \/ i = 8 \/ i = 9 \/ i = 10 \/ i = 11 \/ i = 12 \/ i = 13 \/ i = 14
  OBVIOUS
<1> QED  BY <1>1 DEF PopOrder, PushOrder

LEMMA PushOrderInjective ==
  ASSUME NEW i \in 1..14, NEW j \in 1..14, PushOrder[i] = PushOrder[j]
  PROVE  i = j
<1>1. \/ i = 1 \/ i = 2 \/ i = 3 \/ i = 4 \/ i = 5 \/ i = 6 \/ i = 7
      \/ i = 8 \/ i = 9 \/ i = 10 \/ i = 11 \/ i = 12 \/ i = 13 \/ i = 14
  OBVIOUS
<1>2. \/ j = 1 \/ j = 2 \/ j = 3 \/ j = 4 \/ j = 5 \/ j = 6 \/ j = 7
      \/ j = 8 \/ j = 9 \/ j = 10 \/ j = 11 \/ j = 12 \/ j = 13 \/ j = 14
  OBVIOUS
<1> QED  BY <1>1, <1>2 DEF PushOrder

\* The place of a register's pop, and that the push at the mirror place is its.
LEMMA PopPlace ==
  ASSUME NEW r \in Registers, r # "rbp"
  PROVE  LET i == CHOOSE k \in 1..Saved : PopOrder[k] = r
         IN  i \in 1..14 /\ PushOrder[15 - i] = r
<1>1. PICK k \in 1..14 : r = PushOrder[k]
  BY FrameSize DEF Registers
<1>2. 15 - k \in 1..14 /\ 15 - (15 - k) = k
  OBVIOUS
<1>3. PopOrder[15 - k] = r
  BY <1>1, <1>2, PopsReversePushes
<1>4. \E j \in 1..Saved : PopOrder[j] = r
  BY <1>2, <1>3, FrameSize
<1> DEFINE i == CHOOSE j \in 1..Saved : PopOrder[j] = r
<1>5. i \in 1..14 /\ PopOrder[i] = r
  BY <1>4, FrameSize
<1> QED  BY <1>5, PopsReversePushes

LEMMA WordKinds ==
  /\ Stale \in StackWords
  /\ \A t \in Tasks : /\ Entry(t) \in StackWords /\ Inside(t) \in StackWords
                     /\ Local(t) \in StackWords /\ <<"task", t>> \in StackWords
  /\ \A t \in Tasks, site \in Sites : ReturnTo(t, site) \in StackWords
  /\ \A t \in Tasks, r \in Registers, o \in Outcomes : Value(t, r, o.mark) \in StackWords
<1>1. Stale \in StackWords
  BY DEF StackWords
<1>2. \A t \in Tasks : Entry(t) \in StackWords
  BY DEF StackWords
<1>3. \A t \in Tasks : Inside(t) \in StackWords
  BY DEF StackWords
<1>4. \A t \in Tasks : Local(t) \in StackWords
  BY DEF StackWords
<1>5. \A t \in Tasks : <<"task", t>> \in StackWords
  BY DEF StackWords
<1>6. \A t \in Tasks, site \in Sites : ReturnTo(t, site) \in StackWords
  BY DEF StackWords
<1>7. \A t \in Tasks, r \in Registers, o \in Outcomes : Value(t, r, o.mark) \in StackWords
  BY DEF StackWords
<1> QED  BY <1>1, <1>2, <1>3, <1>4, <1>5, <1>6, <1>7

LEMMA PushedRegisters ==
  ASSUME NEW k \in 1..14
  PROVE  PushOrder[k] \in Registers
BY FrameSize DEF Registers

LEMMA LocalCountsNat ==
  ASSUME NEW n \in LocalCounts
  PROVE  n \in Nat
BY TaskingAssumption DEF LocalCounts

LEMMA PoppedBase ==
  ASSUME NEW words, NEW sp \in Int
  PROVE  Popped(words, sp, "rbp") = words[sp - 14]
BY FrameSize DEF Popped

LEMMA HoldsIfReadBack ==
  ASSUME NEW words, NEW sp \in Int, sp = Len(words), sp >= 16, sp - 16 \in LocalCounts,
         NEW context,
         context = [regs |-> [r \in Registers \ {"rax"} |-> Popped(words, sp, r)],
                    locals |-> SubSeq(words, 1, sp - 16),
                    rip |-> words[sp - 15]]
  PROVE  Holds(words, sp, context)
<1>1. sp - FrameWords = sp - 16 /\ sp >= FrameWords /\ sp - Saved - 1 = sp - 15
  BY FrameSize
<1> QED  BY <1>1 DEF Holds

LEMMA FrameFacts ==
  ASSUME NEW t \in Tasks, NEW site \in Sites, WordsTyped
  PROVE  /\ Frame(t, site) \in Seq(StackWords)
         /\ Len(Frame(t, site)) = 16
         /\ Frame(t, site)[1] = ReturnTo(t, site)
         /\ Frame(t, site)[2] = regs["rbp"]
         /\ \A k \in 1..14 : PushOrder[k] # "rax" => Frame(t, site)[k + 2] = regs[PushOrder[k]]
<1> DEFINE pushed == [i \in 1..14 |-> IF PushOrder[i] = "rax" THEN <<"task", t>>
                                      ELSE regs[PushOrder[i]]]
           head == <<ReturnTo(t, site), regs["rbp"]>>
<1>1. \A i \in 1..14 : pushed[i] \in StackWords
  BY PushedRegisters, WordKinds DEF WordsTyped
<1>2. pushed \in Seq(StackWords) /\ Len(pushed) = 14
  BY <1>1
<1>3. ReturnTo(t, site) \in StackWords /\ regs["rbp"] \in StackWords
  BY WordKinds DEF WordsTyped, Registers
<1>4. head \in Seq(StackWords) /\ Len(head) = 2 /\ head[1] = ReturnTo(t, site)
      /\ head[2] = regs["rbp"]
  BY <1>3
<1> DEFINE f == head \o pushed
<1>5. Frame(t, site) = f
  BY FrameSize DEF Frame
<1>6. /\ f \in Seq(StackWords)
      /\ Len(f) = 16
      /\ \A i \in 1..16 : f[i] = IF i <= 2 THEN head[i] ELSE pushed[i - 2]
  BY <1>2, <1>4, ConcatProperties
<1>7. \A k \in 1..14 : PushOrder[k] # "rax" => pushed[k] = regs[PushOrder[k]]
  OBVIOUS
<1> HIDE DEF head, pushed, f
<1>8. \A k \in 1..14 : f[k + 2] = pushed[k]
  <2> TAKE k \in 1..14
  <2>1. k + 2 \in 1..16 /\ ~(k + 2 <= 2) /\ k + 2 - 2 = k
    OBVIOUS
  <2> QED  BY SMTT(20), <1>6, <2>1
<1>9. f[1] = ReturnTo(t, site) /\ f[2] = regs["rbp"]
  BY <1>4, <1>6
<1> QED  BY <1>5, <1>6, <1>7, <1>8, <1>9

\* What yield pushes on a stack can be popped from it: the words that were
\* there, the place of the call and every register but rax (task.c:45-102).
LEMMA FrameHolds ==
  ASSUME NEW t \in Tasks, NEW site \in Sites, WordsTyped,
         NEW words \in Seq(StackWords), Len(words) \in LocalCounts
  PROVE  LET w == words \o Frame(t, site)
         IN  /\ w \in Seq(StackWords)
             /\ Holds(w, Len(w), [regs |-> [r \in Registers \ {"rax"} |-> regs[r]],
                                 locals |-> words, rip |-> ReturnTo(t, site)])
<1> DEFINE n == Len(words)
           frame == Frame(t, site)
           w == words \o frame
<1>1. n \in Nat
  BY LocalCountsNat
<1>2. /\ frame \in Seq(StackWords) /\ Len(frame) = 16
      /\ frame[1] = ReturnTo(t, site)
      /\ frame[2] = regs["rbp"]
      /\ \A k \in 1..14 : PushOrder[k] # "rax" => frame[k + 2] = regs[PushOrder[k]]
  BY FrameFacts
<1> HIDE DEF frame
<1>3. /\ w \in Seq(StackWords) /\ Len(w) = n + 16
      /\ \A i \in 1..(n + 16) : w[i] = IF i <= n THEN words[i] ELSE frame[i - n]
  <2>1. /\ w \in Seq(StackWords) /\ Len(w) = n + Len(frame)
        /\ \A i \in 1..(n + Len(frame)) :
             w[i] = IF i <= n THEN words[i] ELSE frame[i - n]
    BY ZenonT(30), <1>2, ConcatProperties
  <2> QED  BY <1>2, <2>1
<1> HIDE DEF w
<1>4. SubSeq(w, 1, n) = words
  <2>1. \A i \in 1..n : words[i] \in StackWords /\ w[i] = words[i]
    BY <1>1, <1>3, ElementOfSeq
  <2>2. /\ SubSeq(w, 1, n) \in Seq(StackWords)
        /\ Len(SubSeq(w, 1, n)) = n
        /\ \A i \in 1..n : SubSeq(w, 1, n)[i] = w[i]
    <3>1. n \in Int /\ \A i \in 1..n : w[i] \in StackWords
      BY <1>1, <2>1
    <3>2. /\ SubSeq(w, 1, n) \in Seq(StackWords)
          /\ Len(SubSeq(w, 1, n)) = IF 1 <= n THEN n - 1 + 1 ELSE 0
          /\ \A i \in 1..(n - 1 + 1) : SubSeq(w, 1, n)[i] = w[1 + i - 1]
      BY <3>1, SubSeqProperties
    <3> QED  BY <1>1, <3>2
  <2> QED  BY <2>1, <2>2, SeqEqual
<1>5. \A j \in 1..16 : w[n + j] = frame[j]
  <2> TAKE j \in 1..16
  <2>1. n + j \in 1..(n + 16) /\ ~(n + j <= n) /\ n + j - n = j
    BY <1>1
  <2> QED  BY <2>1, <1>3
<1>6. ASSUME NEW r \in Registers \ {"rax"}
      PROVE  Popped(w, n + 16, r) = regs[r]
  <2>1. CASE r = "rbp"
    <3>1. n + 16 \in Int /\ n + 16 - 14 = n + 2
      BY <1>1
    <3>2. Popped(w, n + 16, "rbp") = w[n + 2]
      BY <3>1, PoppedBase
    <3>3. w[n + 2] = frame[2]
      BY <1>5
    <3> QED  BY <2>1, <3>2, <3>3, <1>2
  <2>2. CASE r # "rbp"
    <3> DEFINE i == CHOOSE k \in 1..Saved : PopOrder[k] = r
    <3>1. i \in 1..14 /\ PushOrder[15 - i] = r
      BY <2>2, PopPlace
    <3> HIDE DEF i
    <3>2. n + 16 + 1 - i = n + ((15 - i) + 2) /\ 15 - i \in 1..14 /\ (15 - i) + 2 \in 1..16
      BY <1>1, <3>1
    <3>3. w[n + 16 + 1 - i] = regs[r]
      BY <3>1, <3>2, <1>2, <1>5
    <3> QED  BY <2>2, <3>3 DEF Popped, i
  <2> QED  BY <2>1, <2>2
<1>7. w[n + 16 - 15] = ReturnTo(t, site)
  <2>1. n + 16 - 15 = n + 1
    BY <1>1
  <2> QED  BY <2>1, <1>2, <1>5
<1>8. n + 16 \in Int /\ n + 16 - 16 = n /\ n + 16 >= 16
  BY <1>1
<1>9. Holds(w, n + 16, [regs |-> [r \in Registers \ {"rax"} |-> regs[r]],
                       locals |-> words, rip |-> ReturnTo(t, site)])
  <2>1. [r \in Registers \ {"rax"} |-> regs[r]]
          = [r \in Registers \ {"rax"} |-> Popped(w, n + 16, r)]
    BY <1>6
  <2> DEFINE context == [regs |-> [r \in Registers \ {"rax"} |-> regs[r]],
                         locals |-> words, rip |-> ReturnTo(t, site)]
             sp == n + 16
  <2>2. context = [regs |-> [r \in Registers \ {"rax"} |-> Popped(w, sp, r)],
                   locals |-> SubSeq(w, 1, sp - 16), rip |-> w[sp - 15]]
    BY <1>4, <1>7, <1>8, <2>1
  <2>3. sp \in Int /\ sp >= 16 /\ sp = Len(w) /\ sp - 16 \in LocalCounts
    BY <1>3, <1>8
  <2> HIDE DEF context, sp
  <2>4. Holds(w, sp, context)
    BY <2>2, <2>3, HoldsIfReadBack
  <2> QED  BY <2>4 DEF context, sp
<1> QED  BY <1>3, <1>9 DEF w, frame

LEMMA PoppedType ==
  ASSUME NEW words \in Seq(StackWords), NEW sp \in Int, sp = Len(words), sp >= 16,
         NEW r \in Registers
  PROVE  Popped(words, sp, r) \in StackWords
<1>1. \A k \in 1..sp : words[k] \in StackWords
  BY ElementOfSeq
<1>2. CASE r = "rbp"
  <2>1. sp - 14 \in 1..sp
    OBVIOUS
  <2>2. Popped(words, sp, "rbp") = words[sp - 14]
    BY PoppedBase
  <2> QED  BY <1>1, <1>2, <2>1, <2>2
<1>3. CASE r # "rbp"
  <2> DEFINE i == CHOOSE k \in 1..Saved : PopOrder[k] = r
  <2>1. i \in 1..14
    BY <1>3, PopPlace
  <2>2. Popped(words, sp, r) = words[sp + 1 - i]
    BY <1>3 DEF Popped
  <2> HIDE DEF i
  <2>3. sp + 1 - i \in 1..sp
    BY <2>1
  <2> QED  BY <1>1, <2>2, <2>3
<1> QED  BY <1>2, <1>3

LEMMA PrefixFacts ==
  ASSUME NEW S, NEW words \in Seq(S), NEW n \in 0..Len(words)
  PROVE  /\ SubSeq(words, 1, n) \in Seq(S)
         /\ Len(SubSeq(words, 1, n)) = n
         /\ n = Len(words) => SubSeq(words, 1, n) = words
<1>1. \A i \in 1..n : words[i] \in S
  BY ElementOfSeq
<1>2. /\ SubSeq(words, 1, n) \in Seq(S)
      /\ Len(SubSeq(words, 1, n)) = IF 1 <= n THEN n - 1 + 1 ELSE 0
      /\ \A i \in 1..(n - 1 + 1) : SubSeq(words, 1, n)[i] = words[1 + i - 1]
  BY <1>1, SubSeqProperties
<1>3. Len(SubSeq(words, 1, n)) = n /\ \A i \in 1..n : SubSeq(words, 1, n)[i] = words[i]
  BY <1>2
<1>4. n = Len(words) => SubSeq(words, 1, n) = words
  BY <1>2, <1>3, SeqEqual
<1> QED  BY <1>2, <1>3, <1>4

-----------------------------------------------------------------------------
(***************************************************************************)
(* The list of tasks as a ring.                                            *)
(***************************************************************************)

LEMMA OrderFacts ==
  ASSUME TypeOK
  PROVE  /\ Len(order) \in Nat /\ DOMAIN order = 1..Len(order)
         /\ \A i \in 1..Len(order) : order[i] \in Tasks
         /\ Created \subseteq Tasks
         /\ order # << >> => Len(order) >= 1
<1>1. order \in Seq(Tasks)
  BY DEF TypeOK
<1>2. /\ Len(order) \in Nat /\ DOMAIN order = 1..Len(order)
      /\ \A i \in 1..Len(order) : order[i] \in Tasks
      /\ order # << >> => Len(order) \in Nat \ {0}
  BY <1>1, LenProperties, ElementOfSeq, EmptySeq
<1> QED  BY <1>2 DEF Created

\* Where the turn goes from place c: yield follows the links as Follows says.
After(c) == IF c = Len(order) THEN 1 ELSE c + 1

LEMMA TurnMoves ==
  ASSUME IInv, NEW c \in DOMAIN order, order[c] = current_task
  PROVE  /\ After(c) \in DOMAIN order
         /\ NextTask(current_task) = order[After(c)]
<1>1. /\ TypeOK /\ TaskListLinked
      /\ Len(order) \in Nat /\ DOMAIN order = 1..Len(order)
      /\ \A i \in 1..Len(order) : order[i] \in Tasks
  BY OrderFacts DEF IInv
<1>2. next[current_task] = IF c = Len(order) THEN NULL ELSE order[c + 1]
  BY <1>1 DEF TaskListLinked
<1>3. After(c) \in DOMAIN order
  BY <1>1 DEF After
<1>4. CASE c = Len(order)
  <2>1. order # << >>
    BY <1>1, <1>4
  <2>2. tasks = order[1]
    BY <1>1, <2>1 DEF TaskListLinked
  <2> QED  BY <1>2, <1>3, <1>4, <2>2 DEF NextTask, After
<1>5. CASE c # Len(order)
  <2>1. c + 1 \in DOMAIN order /\ order[c + 1] # NULL
    BY <1>1, <1>5, TaskingAssumption
  <2> QED  BY <1>2, <1>3, <1>5, <2>1 DEF NextTask, After
<1> QED  BY <1>3, <1>4, <1>5

LEMMA TurnExists ==
  ASSUME IInv, current_task # NULL
  PROVE  /\ current_task \in Created /\ current_task \in Tasks
         /\ \E c \in DOMAIN order : order[c] = current_task
         /\ NextTask(current_task) \in Created /\ NextTask(current_task) \in Tasks
<1>1. current_task \in Created
  BY DEF IInv, TurnInRing
<1>2. PICK c \in DOMAIN order : order[c] = current_task
  BY <1>1 DEF Created
<1>3. After(c) \in DOMAIN order /\ NextTask(current_task) = order[After(c)]
  BY <1>2, TurnMoves
<1>4. NextTask(current_task) \in Created
  BY <1>3 DEF Created
<1> QED  BY <1>1, <1>2, <1>4, OrderFacts DEF IInv

-----------------------------------------------------------------------------
(***************************************************************************)
(* create_task keeps the invariant.                                        *)
(***************************************************************************)

LEMMA CreateOrder ==
  ASSUME TypeOK, NEW t \in Tasks, create_task(t)
  PROVE  /\ order' \in Seq(Tasks)
         /\ Len(order') = Len(order) + 1 /\ DOMAIN order' = 1..(Len(order) + 1)
         /\ order'[1] = t
         /\ \A i \in 2..(Len(order) + 1) : order'[i] = order[i - 1]
         /\ Created' = Created \cup {t}
         /\ order' # << >>
<1>1. order \in Seq(Tasks) /\ Len(order) \in Nat /\ DOMAIN order = 1..Len(order)
  BY OrderFacts DEF TypeOK
<1>2. <<t>> \in Seq(Tasks) /\ Len(<<t>>) = 1 /\ <<t>>[1] = t
  OBVIOUS
<1>3. order' = <<t>> \o order
  BY DEF create_task, prepend
<1>4. /\ order' \in Seq(Tasks)
      /\ Len(order') = 1 + Len(order)
      /\ \A i \in 1..(1 + Len(order)) :
           order'[i] = IF i <= 1 THEN <<t>>[i] ELSE order[i - 1]
  BY <1>1, <1>2, <1>3, ConcatProperties
<1>5. Len(order') = Len(order) + 1 /\ DOMAIN order' = 1..(Len(order) + 1)
  BY <1>1, <1>4, LenProperties
<1>6. order'[1] = t /\ \A i \in 2..(Len(order) + 1) : order'[i] = order[i - 1]
  BY <1>1, <1>2, <1>4
<1>7. Created' = Created \cup {t}
  <2>1. ASSUME NEW x \in Created
        PROVE  x \in Created'
    <3>1. PICK i \in 1..Len(order) : x = order[i]
      BY <2>1, <1>1 DEF Created
    <3>2. i + 1 \in 2..(Len(order) + 1) /\ (i + 1) - 1 = i
      BY <1>1
    <3>3. order'[i + 1] = x /\ i + 1 \in DOMAIN order'
      BY <3>1, <3>2, <1>1, <1>5, <1>6
    <3> QED  BY <3>3 DEF Created
  <2>2. t \in Created'
    BY <1>1, <1>5, <1>6 DEF Created
  <2>3. ASSUME NEW x \in Created'
        PROVE  x \in Created \cup {t}
    <3>1. PICK i \in 1..(Len(order) + 1) : x = order'[i]
      BY <2>3, <1>5 DEF Created
    <3>2. CASE i = 1
      BY <3>1, <3>2, <1>6
    <3>3. CASE i # 1
      <4>1. i \in 2..(Len(order) + 1) /\ i - 1 \in 1..Len(order)
        BY <3>3, <1>1
      <4> QED  BY <3>1, <4>1, <1>1, <1>6 DEF Created
    <3> QED  BY <3>2, <3>3
  <2> QED  BY <2>1, <2>2, <2>3
<1>8. order' # << >>
  BY <1>1, <1>4, EmptySeq
<1> QED  BY <1>4, <1>5, <1>6, <1>7, <1>8

LEMMA CreateInv ==
  ASSUME IInv, NEW t \in Tasks, create_task(t)
  PROVE  IInv'
<1> DEFINE N == Len(order)
<1>1. /\ TypeOK /\ WordsTyped /\ TaskListLinked /\ TurnInRing /\ DirectoriesMade
      /\ RunnerHasTurn /\ FreshStacks /\ Suspended /\ WaitAndDistance /\ NoWaitBefore
      /\ ContextPreserved
  BY DEF IInv
<1>2. /\ N \in Nat /\ DOMAIN order = 1..N /\ \A i \in 1..N : order[i] \in Tasks
      /\ Created \subseteq Tasks /\ (order # << >> => N >= 1)
  BY <1>1, OrderFacts
<1>3. /\ order' \in Seq(Tasks) /\ Len(order') = N + 1 /\ DOMAIN order' = 1..(N + 1)
      /\ order'[1] = t /\ \A i \in 2..(N + 1) : order'[i] = order[i - 1]
      /\ Created' = Created \cup {t} /\ order' # << >>
  BY <1>1, CreateOrder
<1>4. /\ t \notin Created
      /\ tasks' = t /\ next' = [next EXCEPT ![t] = tasks]
      /\ page_directory' = [page_directory EXCEPT ![t] = Directory(t)]
      /\ stack' = [stack EXCEPT ![t] = <<Entry(t)>>]
      /\ stack_pointer' = [stack_pointer EXCEPT ![t] = 1]
      /\ task_started' = [task_started EXCEPT ![t] = FALSE]
      /\ current_task' = IF current_task = NULL THEN t ELSE current_task
      /\ UNCHANGED <<current_directory, running, regs, rsp, rip, int_flag, irq,
                     wait, called>>
  BY DEF create_task, prepend
<1> HIDE DEF N
<1>5. TypeOK'
  BY <1>1, <1>3, <1>4 DEF TypeOK
<1>6. WordsTyped'
  <2>1. <<Entry(t)>> \in Seq(StackWords)
    <3>1. Entry(t) \in StackWords
      BY WordKinds
    <3> QED  BY <3>1
  <2> QED  BY <1>1, <1>4, <2>1 DEF WordsTyped
<1>7. running # t
  <2>1. CASE running = Boot
    BY <2>1, TaskingAssumption
  <2>2. CASE running # Boot
    <3>1. running = current_task /\ current_task # NULL
      BY <2>2, <1>1, TaskingAssumption DEF RunnerHasTurn, TypeOK
    <3> QED  BY <3>1, <1>4, TurnExists
  <2> QED  BY <2>1, <2>2
<1>8. TaskListLinked'
  <2>1. tasks' = order'[1]
    BY <1>3, <1>4
  <2>2. ASSUME NEW i \in 1..(N + 1)
        PROVE  next'[order'[i]] = IF i = N + 1 THEN NULL ELSE order'[i + 1]
    <3>1. CASE i = 1
      <4>1. next'[order'[1]] = tasks
        BY <1>1, <1>3, <1>4 DEF TypeOK
      <4>2. CASE order = << >>
        <5>1. N = 0
          BY <4>2, EmptySeq DEF N
        <5> QED  BY <3>1, <4>1, <4>2, <5>1, <1>1 DEF TaskListLinked
      <4>3. CASE order # << >>
        <5>1. N >= 1 /\ tasks = order[1] /\ 2 \in 2..(N + 1)
          BY <4>3, <1>1, <1>2 DEF TaskListLinked
        <5>2. order'[2] = order[1]
          BY <5>1, <1>3
        <5> QED  BY <3>1, <4>1, <5>1, <5>2, <1>2
      <4> QED  BY <4>2, <4>3
    <3>2. CASE i # 1
      <4>1. i \in 2..(N + 1) /\ i - 1 \in 1..N
        BY <3>2, <1>2
      <4>2. order'[i] = order[i - 1] /\ order[i - 1] \in Created /\ order[i - 1] \in Tasks
        BY <4>1, <1>2, <1>3 DEF Created
      <4>3. next'[order'[i]] = next[order[i - 1]]
        BY <4>2, <1>1, <1>4 DEF TypeOK
      <4>4. next[order[i - 1]] = IF i - 1 = N THEN NULL ELSE order[(i - 1) + 1]
        BY <4>1, <1>1, <1>2 DEF TaskListLinked, N
      <4>5. CASE i = N + 1
        BY <4>3, <4>4, <4>5, <1>2
      <4>6. CASE i # N + 1
        <5>1. i + 1 \in 2..(N + 1) /\ (i + 1) - 1 = (i - 1) + 1 /\ i - 1 # N
          BY <4>1, <4>6, <1>2
        <5>2. order'[i + 1] = order[(i - 1) + 1]
          BY <5>1, <1>3
        <5> QED  BY <4>3, <4>4, <4>6, <5>1, <5>2
      <4> QED  BY <4>5, <4>6
    <3> QED  BY <3>1, <3>2
  <2>3. ASSUME NEW i \in 1..(N + 1), NEW j \in 1..(N + 1), order'[i] = order'[j]
        PROVE  i = j
    <3>1. \A k \in 2..(N + 1) : k - 1 \in 1..N /\ order'[k] = order[k - 1] /\ order[k - 1] # t
      <4> TAKE k \in 2..(N + 1)
      <4>1. k - 1 \in 1..N
        BY <1>2
      <4> QED  BY <4>1, <1>2, <1>3, <1>4 DEF Created
    <3>2. CASE i = 1 \/ j = 1
      <4>1. \A k \in 1..(N + 1) : k # 1 => order'[k] # t
        <5> SUFFICES ASSUME NEW k \in 1..(N + 1), k # 1  PROVE  order'[k] # t
          OBVIOUS
        <5>1. k \in 2..(N + 1)
          BY <1>2
        <5> QED  BY <5>1, <3>1
      <4> QED  BY <2>3, <3>2, <4>1, <1>3
    <3>3. CASE i # 1 /\ j # 1
      <4>1. i \in 2..(N + 1) /\ j \in 2..(N + 1)
        BY <3>3, <1>2
      <4>2. order[i - 1] = order[j - 1] /\ i - 1 \in 1..N /\ j - 1 \in 1..N
        BY <2>3, <4>1, <3>1
      <4>3. i - 1 = j - 1
        BY <4>2, <1>1, <1>2 DEF TaskListLinked
      <4> QED  BY <4>1, <4>3, <1>2
    <3> QED  BY <3>2, <3>3
  <2> QED  BY <2>1, <2>2, <2>3, <1>3 DEF TaskListLinked
<1>9. TurnInRing'
  <2>1. CASE current_task = NULL
    BY <2>1, <1>3, <1>4 DEF TurnInRing
  <2>2. CASE current_task # NULL
    BY <2>2, <1>3, <1>4, TurnExists DEF TurnInRing
  <2> QED  BY <2>1, <2>2
<1>10. DirectoriesMade'
  BY <1>1, <1>2, <1>3, <1>4 DEF DirectoriesMade, TypeOK
<1>11. RunnerHasTurn'
  <2>1. CASE running = Boot
    BY <2>1, <1>1, <1>4 DEF RunnerHasTurn, TypeOK
  <2>2. CASE running # Boot
    <3>1. current_task' = current_task /\ running \in Tasks
      BY <2>2, <1>1, <1>4, TaskingAssumption DEF RunnerHasTurn, TypeOK
    <3>2. stack'[running] = stack[running] /\ task_started'[running] = task_started[running]
      BY <3>1, <1>1, <1>4, <1>7 DEF WordsTyped, TypeOK
    <3> QED  BY <2>2, <3>1, <3>2, <1>1, <1>4 DEF RunnerHasTurn
  <2> QED  BY <2>1, <2>2
<1>12. \A u \in Created : /\ u # t /\ u \in Tasks
                         /\ stack'[u] = stack[u] /\ stack_pointer'[u] = stack_pointer[u]
                         /\ task_started'[u] = task_started[u] /\ called'[u] = called[u]
  BY <1>1, <1>2, <1>4 DEF TypeOK, WordsTyped
<1>13. /\ stack'[t] = <<Entry(t)>> /\ stack_pointer'[t] = 1 /\ ~task_started'[t]
  BY <1>1, <1>4 DEF TypeOK, WordsTyped
<1>14. FreshStacks'
  BY <1>1, <1>3, <1>12, <1>13 DEF FreshStacks
<1>15. Suspended'
  BY <1>1, <1>3, <1>4, <1>12, <1>13 DEF Suspended
<1>17. ContextPreserved'
  <2>1. CASE running = Boot
    BY <2>1, <1>4 DEF ContextPreserved
  <2>2. CASE running # Boot
    <3>1. running \in Tasks /\ stack'[running] = stack[running]
      BY <2>2, <1>1, <1>4, <1>7 DEF TypeOK, WordsTyped
    <3>2. Context(running, rip)' = Context(running, rip)
      BY <3>1, <1>4 DEF Context
    <3> QED  BY <3>2, <1>1, <1>4 DEF ContextPreserved
  <2> QED  BY <2>1, <2>2
<1>16. WaitAndDistance'
  <2> SUFFICES ASSUME NEW i \in 1..(N + 1), NEW c \in 1..(N + 1), order'[c] = current_task'
               PROVE  wait[order'[i]] + Distance(i, c)' <= N + 1
    BY <1>3, <1>4 DEF WaitAndDistance
  <2>1. Distance(i, c)' = IF i > c THEN i - c ELSE i - c + (N + 1)
    BY <1>3 DEF Distance
  <2>2. wait[t] = 0
    BY <1>1, <1>4 DEF NoWaitBefore
  <2>3. CASE current_task = NULL
    <3>1. N = 0
      <4>1. order = << >>
        BY <2>3, <1>1, <1>2, TaskingAssumption DEF TurnInRing
      <4> QED  BY <4>1, EmptySeq DEF N
    <3>2. i = 1 /\ c = 1
      BY <3>1
    <3> QED  BY <2>1, <2>2, <3>1, <3>2, <1>3
  <2>4. CASE current_task # NULL
    <3>1. current_task' = current_task /\ current_task # t
      BY <2>4, <1>4, TurnExists
    <3>2. c \in 2..(N + 1) /\ c - 1 \in 1..N
      BY <3>1, <1>2, <1>3
    <3>3. order[c - 1] = current_task
      BY <3>1, <3>2, <1>3
    <3>4. CASE i = 1
      <4>1. Distance(i, c)' <= N
        BY <2>1, <3>2, <3>4, <1>2
      <4>2. Distance(i, c)' \in Int
        BY <2>1, <1>2
      <4> QED  BY <2>2, <3>4, <4>1, <4>2, <1>2, <1>3
    <3>5. CASE i # 1
      <4>1. i \in 2..(N + 1) /\ i - 1 \in 1..N /\ order'[i] = order[i - 1]
        BY <3>5, <1>2, <1>3
      <4>2. wait[order[i - 1]] + Distance(i - 1, c - 1) <= N
        BY <3>2, <3>3, <4>1, <1>1, <1>2 DEF WaitAndDistance, N
      <4>3. Distance(i - 1, c - 1) = IF i > c THEN i - c ELSE i - c + N
        BY <3>2, <4>1, <1>2 DEF Distance, N
      <4>4. wait[order[i - 1]] \in Nat
        BY <4>1, <1>1, <1>2 DEF TypeOK
      <4> QED  BY <2>1, <3>2, <4>1, <4>2, <4>3, <4>4, <1>2
    <3> QED  BY <3>4, <3>5
  <2> QED  BY <2>3, <2>4
<1>18. NoWaitBefore'
  BY <1>1, <1>3, <1>4 DEF NoWaitBefore
<1> QED  BY <1>5, <1>6, <1>8, <1>9, <1>10, <1>11, <1>14, <1>15, <1>16, <1>17, <1>18 DEF IInv

-----------------------------------------------------------------------------
(***************************************************************************)
(* The other operations.                                                   *)
(***************************************************************************)

\* Who is on the processor was created and has begun.
LEMMA RunnerFacts ==
  ASSUME IInv, running # Boot
  PROVE  /\ running \in Tasks /\ running \in Created
         /\ running = current_task /\ current_task # NULL
         /\ task_started[running] /\ rsp = Len(stack[running])
<1>1. /\ running \in Tasks /\ running = current_task
      /\ task_started[running] /\ rsp = Len(stack[running])
  BY DEF IInv, TypeOK, RunnerHasTurn
<1>2. current_task # NULL
  BY <1>1, TaskingAssumption
<1> QED  BY <1>1, <1>2, TurnExists

LEMMA WorkInv ==
  ASSUME IInv, Work
  PROVE  IInv'
<1>1. /\ TypeOK /\ WordsTyped /\ TaskListLinked /\ TurnInRing /\ DirectoriesMade
      /\ RunnerHasTurn /\ FreshStacks /\ Suspended /\ WaitAndDistance /\ NoWaitBefore
  BY DEF IInv
<1>2. /\ running # Boot /\ running \in Tasks /\ running \in Created
      /\ task_started[running]
  BY RunnerFacts DEF Work
<1>3. PICK o \in Outcomes :
        /\ regs' = [r \in Registers |-> Value(running, r, o.mark)]
        /\ stack' = [stack EXCEPT ![running] = [i \in 1..o.locals |-> Local(running)]]
        /\ rsp' = o.locals
  BY DEF Work
<1>4. /\ rip' = Inside(running)
      /\ UNCHANGED <<listVars, current_task, task_started, stack_pointer, page_directory,
                     current_directory, running, int_flag, irq, wait, called>>
  BY DEF Work
<1>5. /\ UNCHANGED <<tasks, next, order, current_task, task_started, stack_pointer,
                     page_directory, current_directory, running, int_flag, irq,
                     wait, called>>
      /\ Created' = Created
  BY <1>4 DEF listVars, Created
<1>6. o.locals \in Nat
  BY TaskingAssumption
<1> DEFINE mine == [i \in 1..o.locals |-> Local(running)]
<1>7. mine \in Seq(StackWords) /\ Len(mine) = o.locals
  <2>1. Local(running) \in StackWords
    BY <1>2, WordKinds
  <2> QED  BY <1>6, <2>1
<1>8. \A t \in Tasks : stack'[t] = IF t = running THEN mine ELSE stack[t]
  BY <1>1, <1>3 DEF WordsTyped
<1> HIDE DEF mine
<1>9. TypeOK'
  BY <1>1, <1>3, <1>5 DEF TypeOK
<1>10. WordsTyped'
  <2>1. regs' \in [Registers -> StackWords]
    BY <1>2, <1>3, WordKinds
  <2>2. stack' \in [Tasks -> Seq(StackWords)]
    BY <1>1, <1>3, <1>7 DEF WordsTyped, mine
  <2> QED  BY <2>1, <2>2, <1>1, <1>5 DEF WordsTyped
<1>11. TaskListLinked' /\ TurnInRing' /\ DirectoriesMade' /\ NoWaitBefore'
  BY <1>1, <1>5 DEF TaskListLinked, TurnInRing, DirectoriesMade, NoWaitBefore
<1>12. WaitAndDistance'
  BY <1>1, <1>5 DEF WaitAndDistance, Distance
<1>13. RunnerHasTurn'
  BY <1>1, <1>2, <1>3, <1>5, <1>7, <1>8 DEF RunnerHasTurn
<1>14. FreshStacks' /\ Suspended'
  <2>1. Created \subseteq Tasks
    BY <1>1, OrderFacts
  <2> QED  BY <2>1, <1>1, <1>2, <1>5, <1>8 DEF FreshStacks, Suspended
<1>15. ContextPreserved'
  BY <1>4 DEF ContextPreserved, Inside
<1> QED  BY <1>9, <1>10, <1>11, <1>12, <1>13, <1>14, <1>15 DEF IInv

\* The keyboard touches irq only, and what is nobody's leaves the rest alone.
LEMMA QuietInv ==
  ASSUME IInv, KeyPress \/ Interrupt \/ UNCHANGED vars
  PROVE  IInv'
<1>1. /\ TypeOK /\ WordsTyped /\ TaskListLinked /\ TurnInRing /\ DirectoriesMade
      /\ RunnerHasTurn /\ FreshStacks /\ Suspended /\ WaitAndDistance /\ NoWaitBefore
      /\ ContextPreserved
  BY DEF IInv
<1>2. /\ irq' \in BOOLEAN
      /\ UNCHANGED <<tasks, current_task, next, task_started, stack_pointer,
                     page_directory, current_directory, stack, running,
                     regs, rsp, rip, int_flag, order, wait, called>>
  BY <1>1 DEF KeyPress, Interrupt, vars, listVars, contextVars, TypeOK
<1>3. TypeOK' /\ WordsTyped'
  BY <1>1, <1>2 DEF TypeOK, WordsTyped
<1>4. TaskListLinked' /\ TurnInRing' /\ DirectoriesMade' /\ NoWaitBefore'
  BY <1>1, <1>2 DEF TaskListLinked, TurnInRing, DirectoriesMade, NoWaitBefore, Created
<1>5. RunnerHasTurn' /\ FreshStacks' /\ Suspended' /\ WaitAndDistance'
  BY <1>1, <1>2 DEF RunnerHasTurn, FreshStacks, Suspended, WaitAndDistance, Created, Distance
<1>6. ContextPreserved'
  BY <1>1, <1>2 DEF ContextPreserved, Context
<1> QED  BY <1>3, <1>4, <1>5, <1>6 DEF IInv

-----------------------------------------------------------------------------
(***************************************************************************)
(* yield: first what it has saved when it looks at the next task's stack.  *)
(***************************************************************************)

\* A task's context after the history of this call is written.
CalledAfter(t, site) ==
  IF t = running /\ running # Boot THEN Context(running, ReturnTo(running, site)) ELSE called[t]

LEMMA SavedFacts ==
  ASSUME IInv, current_task # NULL, NEW site \in Sites, NEW t \in Created
  PROVE  LET words == StackAfterSave(t, site)
             sp == PointerAfterSave(t, site)
         IN  /\ words \in Seq(StackWords) /\ sp \in Nat
             /\ task_started[t] => Holds(words, sp, CalledAfter(t, site))
             /\ ~task_started[t] => words = <<Entry(t)>> /\ sp = 1
<1>1. /\ TypeOK /\ WordsTyped /\ RunnerHasTurn /\ FreshStacks /\ Suspended
      /\ t \in Tasks
  BY OrderFacts DEF IInv
<1>2. stack[t] \in Seq(StackWords) /\ stack_pointer[t] \in Nat
  BY <1>1 DEF TypeOK, WordsTyped
<1>3. CASE t = running /\ running # Boot
  <2>1. t = current_task /\ task_started[t] /\ rsp = Len(stack[t])
    BY <1>3, RunnerFacts
  <2>2. Len(stack[t]) \in LocalCounts /\ Len(stack[t]) \in Nat
    BY <1>1, <1>2, <2>1, LenProperties DEF TypeOK, LocalCounts
  <2>3. SubSeq(stack[t], 1, rsp) = stack[t]
    BY <1>2, <2>1, <2>2, PrefixFacts
  <2>4. /\ StackAfterSave(t, site) = stack[t] \o Frame(t, site)
        /\ PointerAfterSave(t, site) = Len(StackAfterSave(t, site))
    BY <2>1, <2>3 DEF StackAfterSave, PointerAfterSave
  <2>5. CalledAfter(t, site) = [regs |-> [r \in Registers \ {"rax"} |-> regs[r]],
                               locals |-> stack[t], rip |-> ReturnTo(t, site)]
    BY <1>3, <2>3 DEF CalledAfter, Context
  <2>6. /\ stack[t] \o Frame(t, site) \in Seq(StackWords)
        /\ Holds(stack[t] \o Frame(t, site), Len(stack[t] \o Frame(t, site)),
                 [regs |-> [r \in Registers \ {"rax"} |-> regs[r]],
                  locals |-> stack[t], rip |-> ReturnTo(t, site)])
    BY <1>1, <1>2, <2>2, FrameHolds
  <2>7. Len(stack[t] \o Frame(t, site)) \in Nat
    BY <2>6, LenProperties
  <2> QED  BY <2>1, <2>4, <2>5, <2>6, <2>7
<1>4. CASE ~(t = running /\ running # Boot)
  <2>1. ~(t = current_task /\ task_started[t])
    BY <1>1, <1>4 DEF RunnerHasTurn, TypeOK
  <2>2. StackAfterSave(t, site) = stack[t] /\ PointerAfterSave(t, site) = stack_pointer[t]
    BY <2>1 DEF StackAfterSave, PointerAfterSave
  <2>3. task_started[t] => Holds(stack[t], stack_pointer[t], called[t])
    <3>1. t # running
      BY <1>1, <1>4, TaskingAssumption
    <3> QED  BY <3>1, <1>1 DEF Suspended
  <2>4. ~task_started[t] => stack[t] = <<Entry(t)>> /\ stack_pointer[t] = 1
    BY <1>1 DEF FreshStacks
  <2> QED  BY <1>2, <1>4, <2>2, <2>3, <2>4 DEF CalledAfter
<1> QED  BY <1>3, <1>4

\* ... then what the switch to the task `to' does to stacks and registers.
LEMMA YieldStacks ==
  ASSUME IInv, NEW site \in Sites, yield(site)
  PROVE  LET to == NextTask(current_task)
         IN  /\ to \in Created /\ to \in Tasks /\ running' = to /\ current_task' = to
             /\ \A t \in Tasks :
                  /\ stack'[t] = IF t = to THEN SubSeq(StackAfterSave(t, site), 1, rsp')
                                 ELSE StackAfterSave(t, site)
                  /\ stack_pointer'[t] = PointerAfterSave(t, site)
                  /\ called'[t] = CalledAfter(t, site)
                  /\ task_started'[t] = (task_started[t] \/ t = to)
             /\ rsp' \in 0..Len(StackAfterSave(to, site)) /\ rsp' \in LocalCounts
             /\ task_started' \in [Tasks -> BOOLEAN]
             /\ regs' \in [Registers -> StackWords]
             /\ \/ int_flag' = FALSE
                \/ /\ int_flag' = TRUE
                   /\ CalledAfter(to, site) =
                        [regs |-> [r \in Registers \ {"rax"} |-> regs'[r]],
                         locals |-> SubSeq(StackAfterSave(to, site), 1, rsp'),
                         rip |-> rip']
<1> DEFINE to == NextTask(current_task)
           words == StackAfterSave(to, site)
           sp == PointerAfterSave(to, site)
<1>1. current_task # NULL /\ to \in Created /\ to \in Tasks
  BY TurnExists DEF yield
<1>2. /\ running' = to /\ current_task' = to
      /\ IF task_started[to] THEN Resume(words, sp) ELSE Start(to, words, sp)
      /\ stack' = [t \in Tasks |->
                     IF t = current_task' THEN SubSeq(StackAfterSave(t, site), 1, rsp')
                     ELSE StackAfterSave(t, site)]
      /\ stack_pointer' = [t \in Tasks |-> PointerAfterSave(t, site)]
      /\ called' = IF running = Boot THEN called
                   ELSE [called EXCEPT ![running] = Context(running, ReturnTo(running, site))]
  BY DEF yield
<1>3. /\ words \in Seq(StackWords) /\ sp \in Nat
      /\ task_started[to] => Holds(words, sp, CalledAfter(to, site))
      /\ ~task_started[to] => words = <<Entry(to)>> /\ sp = 1
  BY <1>1, SavedFacts
<1>4. WordsTyped /\ TypeOK
  BY DEF IInv
<1> HIDE DEF to, words, sp
<1>5. \A t \in Tasks : called'[t] = CalledAfter(t, site)
  BY <1>2, <1>4 DEF CalledAfter, WordsTyped
<1>6. CASE task_started[to]
  <2>1. /\ regs' = [r \in Registers |-> Popped(words, sp, r)]
        /\ rip' = words[sp - Saved - 1]
        /\ rsp' = sp - FrameWords
        /\ int_flag' = TRUE
        /\ task_started' = task_started
    BY <1>2, <1>6 DEF Resume, Popped, sti
  <2>2. Holds(words, sp, CalledAfter(to, site))
    BY <1>3, <1>6
  <2>3. /\ sp = Len(words) /\ sp >= 16 /\ sp - 16 \in LocalCounts /\ rsp' = sp - 16
        /\ CalledAfter(to, site) =
             [regs |-> [r \in Registers \ {"rax"} |-> Popped(words, sp, r)],
              locals |-> SubSeq(words, 1, rsp'),
              rip |-> rip']
    BY <2>1, <2>2, FrameSize DEF Holds
  <2>4. rsp' \in 0..Len(words)
    BY <1>3, <2>3
  <2>5. \A r \in Registers : Popped(words, sp, r) \in StackWords
    BY <1>3, <2>3, PoppedType
  <2>6. regs' \in [Registers -> StackWords]
    BY <2>1, <2>5
  <2>7. [r \in Registers \ {"rax"} |-> Popped(words, sp, r)]
          = [r \in Registers \ {"rax"} |-> regs'[r]]
    BY <2>1
  <2>8. CalledAfter(to, site) =
          [regs |-> [r \in Registers \ {"rax"} |-> regs'[r]],
           locals |-> SubSeq(words, 1, rsp'),
           rip |-> rip']
    BY <2>3, <2>7
  <2>9. task_started' \in [Tasks -> BOOLEAN]
        /\ \A t \in Tasks : task_started'[t] = (task_started[t] \/ t = to)
    BY <2>1, <1>4, <1>6 DEF TypeOK
  <2> QED  BY <1>1, <1>2, <1>5, <2>1, <2>3, <2>4, <2>6, <2>8, <2>9 DEF to, words, sp
<1>7. CASE ~task_started[to]
  <2>1. /\ rip' = words[sp]
        /\ regs' = [regs EXCEPT !["rax"] = words[sp]]
        /\ rsp' = sp - 1
        /\ task_started' = [task_started EXCEPT ![to] = TRUE]
        /\ int_flag' = FALSE
    BY <1>2, <1>7 DEF Start
  <2>2. words = <<Entry(to)>> /\ sp = 1
    BY <1>3, <1>7
  <2>3. rsp' = 0 /\ Len(words) = 1 /\ words[1] = Entry(to)
    BY <2>1, <2>2
  <2>4. regs' \in [Registers -> StackWords]
    BY <1>1, <1>4, <2>1, <2>2, <2>3, WordKinds DEF WordsTyped
  <2>5. rsp' \in 0..Len(words) /\ rsp' \in LocalCounts
    BY <2>3 DEF LocalCounts
  <2>6. task_started' \in [Tasks -> BOOLEAN]
        /\ \A t \in Tasks : task_started'[t] = (task_started[t] \/ t = to)
    BY <2>1, <1>1, <1>4 DEF TypeOK
  <2> QED  BY <1>1, <1>2, <1>5, <2>1, <2>4, <2>5, <2>6 DEF to, words, sp
<1> QED  BY <1>6, <1>7

\* Who has just had the turn is now the farthest, everybody else one turn nearer.
LEMMA YieldWaits ==
  ASSUME IInv, NEW site \in Sites, yield(site)
  PROVE  WaitAndDistance' /\ NoWaitBefore' /\ wait' \in [Tasks -> Nat]
<1> DEFINE N == Len(order)
           to == NextTask(current_task)
<1>1. /\ TypeOK /\ TaskListLinked /\ WaitAndDistance /\ NoWaitBefore
      /\ N \in Nat /\ DOMAIN order = 1..N /\ \A i \in 1..N : order[i] \in Tasks
      /\ wait \in [Tasks -> Nat]
  BY OrderFacts DEF IInv, TypeOK
<1>2. /\ current_task' = to /\ order' = order /\ Created' = Created
      /\ wait' = [t \in Tasks |->
                    IF t = to \/ t \notin Created THEN 0
                    ELSE IF wait[t] > N THEN wait[t] ELSE wait[t] + 1]
  BY DEF yield, listVars, Created
<1>3. PICK c \in 1..N : order[c] = current_task
  BY <1>1, TurnExists DEF yield
<1>4. After(c) \in 1..N /\ to = order[After(c)]
  BY <1>1, <1>3, TurnMoves
<1> HIDE DEF N, to
<1>5. wait' \in [Tasks -> Nat] /\ NoWaitBefore'
  BY <1>1, <1>2 DEF NoWaitBefore
<1>6. ASSUME NEW i \in 1..N, NEW d \in 1..N, order[d] = to
      PROVE  wait'[order[i]] + Distance(i, d)' <= N
  <2>1. d = After(c)
    BY ZenonT(30), <1>1, <1>4, <1>6 DEF TaskListLinked
  <2>2. Distance(i, d)' = IF i > d THEN i - d ELSE i - d + N
    BY <1>2 DEF Distance, N
  <2>3. order[i] \in Tasks /\ order[i] \in Created
    BY <1>1 DEF Created
  <2>4. CASE i = d
    <3>1. wait'[order[i]] = 0
      BY <1>2, <1>6, <2>3, <2>4
    <3>2. Distance(i, d)' = N
      BY <2>2, <2>4, <1>1
    <3> QED  BY <3>1, <3>2, <1>1
  <2>5. CASE i # d
    <3>1. order[i] # to
      BY <2>5, <1>1, <1>6 DEF TaskListLinked
    <3>2. wait[order[i]] + Distance(i, c) <= N
      BY <1>1, <1>3 DEF WaitAndDistance, N
    <3>3. Distance(i, c) = IF i > c THEN i - c ELSE i - c + N
      BY DEF Distance, N
    <3>4. wait[order[i]] \in Nat
      BY <1>1, <2>3
    <3>5. Distance(i, d)' = Distance(i, c) - 1 /\ Distance(i, c) \in Nat
      <4>1. CASE c = N
        <5>1. d = 1
          BY <2>1, <4>1 DEF After, N
        <5> QED  BY <5>1, <4>1, <2>2, <2>5, <3>3, <1>1
      <4>2. CASE c # N
        <5>1. d = c + 1
          BY <2>1, <4>2 DEF After, N
        <5> QED  BY <5>1, <4>2, <2>2, <2>5, <3>3, <1>1
      <4> QED  BY <4>1, <4>2
    <3>6. wait'[order[i]] = wait[order[i]] + 1
      BY <1>1, <1>2, <2>3, <3>1, <3>2, <3>4, <3>5
    <3> QED  BY <3>2, <3>4, <3>5, <3>6, <1>1
  <2> QED  BY <2>4, <2>5
<1>7. WaitAndDistance'
  BY <1>1, <1>2, <1>6 DEF WaitAndDistance, N
<1> QED  BY <1>5, <1>7

LEMMA YieldInv ==
  ASSUME IInv, NEW site \in Sites, yield(site)
  PROVE  IInv'
<1> DEFINE to == NextTask(current_task)
<1>1. /\ TypeOK /\ WordsTyped /\ TaskListLinked /\ TurnInRing /\ DirectoriesMade
      /\ RunnerHasTurn /\ FreshStacks /\ Suspended
      /\ current_task # NULL /\ Created \subseteq Tasks
  BY OrderFacts DEF IInv, yield
<1>2. /\ to \in Created /\ to \in Tasks /\ running' = to /\ current_task' = to
      /\ \A t \in Tasks :
           /\ stack'[t] = IF t = to THEN SubSeq(StackAfterSave(t, site), 1, rsp')
                          ELSE StackAfterSave(t, site)
           /\ stack_pointer'[t] = PointerAfterSave(t, site)
           /\ called'[t] = CalledAfter(t, site)
           /\ task_started'[t] = (task_started[t] \/ t = to)
      /\ rsp' \in 0..Len(StackAfterSave(to, site)) /\ rsp' \in LocalCounts
      /\ task_started' \in [Tasks -> BOOLEAN]
      /\ regs' \in [Registers -> StackWords]
      /\ \/ int_flag' = FALSE
         \/ /\ int_flag' = TRUE
            /\ CalledAfter(to, site) =
                 [regs |-> [r \in Registers \ {"rax"} |-> regs'[r]],
                  locals |-> SubSeq(StackAfterSave(to, site), 1, rsp'),
                  rip |-> rip']
  BY YieldStacks
<1>3. /\ UNCHANGED <<tasks, next, order, page_directory, irq>>
      /\ Created' = Created
      /\ current_directory' = page_directory[to]
  BY DEF yield, switch_page_directory, listVars, Created
<1>4. /\ DOMAIN stack' = Tasks /\ DOMAIN stack_pointer' = Tasks
      /\ DOMAIN called' = Tasks
  BY <1>1 DEF yield, WordsTyped
<1>5. \A t \in Tasks \ Created : /\ StackAfterSave(t, site) = stack[t]
                                 /\ PointerAfterSave(t, site) = stack_pointer[t]
  BY <1>1, TurnExists DEF StackAfterSave, PointerAfterSave
<1>6. \A t \in Created :
        /\ StackAfterSave(t, site) \in Seq(StackWords) /\ PointerAfterSave(t, site) \in Nat
        /\ task_started[t] => Holds(StackAfterSave(t, site), PointerAfterSave(t, site),
                                    CalledAfter(t, site))
        /\ ~task_started[t] => /\ StackAfterSave(t, site) = <<Entry(t)>>
                               /\ PointerAfterSave(t, site) = 1
  BY <1>1, SavedFacts
<1> HIDE DEF to
<1>7. /\ SubSeq(StackAfterSave(to, site), 1, rsp') \in Seq(StackWords)
      /\ Len(SubSeq(StackAfterSave(to, site), 1, rsp')) = rsp'
  BY ZenonT(30), <1>2, <1>6, PrefixFacts
<1>8. stack_pointer' \in [Tasks -> Nat] /\ stack' \in [Tasks -> Seq(StackWords)]
  <2>1. \A t \in Tasks : stack_pointer'[t] \in Nat
    BY <1>1, <1>2, <1>5, <1>6 DEF TypeOK
  <2>2. \A t \in Tasks : stack'[t] \in Seq(StackWords)
    BY <1>1, <1>2, <1>5, <1>6, <1>7 DEF WordsTyped
  <2>3. /\ stack_pointer' = [t \in Tasks |-> stack_pointer'[t]]
        /\ stack' = [t \in Tasks |-> stack'[t]]
    BY DEF yield
  <2> QED  BY <2>1, <2>2, <2>3
<1>9. TypeOK'
  <2>1. page_directory[to] = Directory(to)
    BY <1>1, <1>2 DEF DirectoriesMade
  <2>2. wait' \in [Tasks -> Nat]
    BY YieldWaits
  <2>3. rsp' \in {0} \cup {o.locals : o \in Outcomes}
    BY <1>2 DEF LocalCounts
  <2>4. DOMAIN regs' = Registers /\ int_flag' \in BOOLEAN
    BY <1>2
  <2> QED  BY <1>1, <1>2, <1>3, <1>8, <2>1, <2>2, <2>3, <2>4 DEF TypeOK
<1>10. WordsTyped'
  BY <1>2, <1>4, <1>8 DEF WordsTyped
<1>11. TaskListLinked' /\ TurnInRing' /\ DirectoriesMade'
  <2>1. TaskListLinked' /\ DirectoriesMade'
    BY <1>1, <1>3 DEF TaskListLinked, DirectoriesMade
  <2>2. order # << >>
    BY <1>1 DEF TurnInRing
  <2> QED  BY <1>2, <1>3, <2>1, <2>2 DEF TurnInRing
<1>12. RunnerHasTurn'
  <2>1. to # Boot /\ stack'[to] = SubSeq(StackAfterSave(to, site), 1, rsp') /\ task_started'[to]
    BY <1>2, TaskingAssumption
  <2> QED  BY <1>2, <1>7, <2>1 DEF RunnerHasTurn
<1>13. ASSUME NEW t \in Created, t # to
       PROVE  /\ t \in Tasks
              /\ stack'[t] = StackAfterSave(t, site)
              /\ stack_pointer'[t] = PointerAfterSave(t, site)
              /\ called'[t] = CalledAfter(t, site)
              /\ task_started'[t] = task_started[t]
  BY <1>1, <1>2, <1>13 DEF TypeOK
<1>14. FreshStacks'
  BY <1>2, <1>3, <1>6, <1>13 DEF FreshStacks
<1>15. Suspended'
  BY <1>2, <1>3, <1>6, <1>13 DEF Suspended
<1>16. ContextPreserved'
  <2>1. CASE int_flag' = FALSE
    BY <2>1 DEF ContextPreserved
  <2>2. CASE int_flag' = TRUE
    <3>1. stack'[to] = SubSeq(StackAfterSave(to, site), 1, rsp')
      BY <1>2
    <3>2. SubSeq(stack'[to], 1, rsp') = SubSeq(StackAfterSave(to, site), 1, rsp')
      <4>1. rsp' \in 0..Len(stack'[to])
        <5>1. Len(StackAfterSave(to, site)) \in Nat
          BY <1>2, <1>6, LenProperties
        <5>2. rsp' \in Nat
          BY <5>1, <1>2
        <5>3. Len(stack'[to]) = rsp'
          BY <1>7, <3>1
        <5> QED  BY <5>2, <5>3
      <4> QED  BY <1>7, <3>1, <4>1, PrefixFacts
    <3>3. CalledAfter(to, site) =
            [regs |-> [r \in Registers \ {"rax"} |-> regs'[r]],
             locals |-> SubSeq(stack'[to], 1, rsp'),
             rip |-> rip']
      BY <1>2, <2>2, <3>2
    <3>4. Context(running, rip)' = called'[running']
      BY <1>2, <3>3 DEF Context
    <3> QED  BY <3>4 DEF ContextPreserved
  <2> QED  BY <1>2, <2>1, <2>2
<1>17. WaitAndDistance' /\ NoWaitBefore'
  BY YieldWaits
<1> QED  BY <1>9, <1>10, <1>11, <1>12, <1>14, <1>15, <1>16, <1>17 DEF IInv

-----------------------------------------------------------------------------
(***************************************************************************)
(* The theorems.                                                           *)
(***************************************************************************)

LEMMA InitInv ==
  ASSUME Init
  PROVE  IInv
<1>1. Created = {} /\ DOMAIN order = {} /\ Len(order) = 0
  BY DEF Init, Created
<1>2. TypeOK
  <2>1. Directory(Boot) \in {Directory(t) : t \in Tasks \cup {Boot}}
    OBVIOUS
  <2>2. << >> \in Seq(Tasks)
    OBVIOUS
  <2>3. /\ next \in [Tasks -> Tasks \cup {NULL}] /\ task_started \in [Tasks -> BOOLEAN]
        /\ stack_pointer \in [Tasks -> Nat] /\ wait \in [Tasks -> Nat]
        /\ page_directory \in [Tasks -> {Directory(t) : t \in Tasks} \cup {NULL}]
        /\ DOMAIN regs = Registers
    BY DEF Init
  <2>4. /\ tasks = NULL /\ current_task = NULL /\ order = << >> /\ rsp = 0
        /\ current_directory = Directory(Boot)
        /\ running = Boot /\ int_flag \in BOOLEAN /\ irq \in BOOLEAN
    BY DEF Init
  <2> QED  BY <2>1, <2>2, <2>3, <2>4 DEF TypeOK
<1>3. WordsTyped
  <2>1. << >> \in Seq(StackWords)
    OBVIOUS
  <2>2. Stale \in StackWords
    BY WordKinds
  <2> QED  BY <2>1, <2>2 DEF Init, WordsTyped
<1>4. TaskListLinked /\ TurnInRing /\ DirectoriesMade /\ FreshStacks /\ Suspended
  BY <1>1 DEF Init, TaskListLinked, TurnInRing, DirectoriesMade, FreshStacks, Suspended
<1>5. RunnerHasTurn /\ WaitAndDistance /\ NoWaitBefore /\ ContextPreserved
  BY <1>1 DEF Init, RunnerHasTurn, WaitAndDistance, NoWaitBefore, ContextPreserved
<1> QED  BY <1>2, <1>3, <1>4, <1>5 DEF IInv

LEMMA NextInv ==
  ASSUME IInv, [Next]_vars
  PROVE  IInv'
<1>1. CASE \E t \in Tasks : create_task(t)
  BY <1>1, CreateInv
<1>2. CASE Work
  BY <1>2, WorkInv
<1>3. CASE Yield
  BY <1>3, YieldInv DEF Yield
<1>4. CASE KeyPress \/ Interrupt \/ UNCHANGED vars
  BY <1>4, QuietInv
<1> QED  BY <1>1, <1>2, <1>3, <1>4 DEF Next

\* Links, ring, stacks and saved contexts agree (task.c:6-102).
THEOREM TaskingInvariant == Spec => []IInv
<1>1. Init => IInv
  BY InitInv
<1>2. IInv /\ [Next]_vars => IInv'
  BY NextInv
<1> QED  BY <1>1, <1>2, PTL DEF Spec

\* The fields of the tasks and the processor's state keep their types.
THEOREM TaskingTypeCorrect == Spec => []TypeOK
<1>1. IInv => TypeOK
  BY DEF IInv
<1> QED  BY <1>1, TaskingInvariant, PTL

\* The list reaches every task that create_task ever made, once (task.c:14-23).
THEOREM ListStaysLinked == Spec => []TaskListLinked
<1>1. IInv => TaskListLinked
  BY DEF IInv
<1> QED  BY <1>1, TaskingInvariant, PTL

\* A task comes back from yield with its registers, its locals and its place,
\* for any number of tasks and whatever they do meanwhile (task.c:45-102).
THEOREM ContextsPreserved == Spec => []ContextPreserved
<1>1. IInv => ContextPreserved
  BY DEF IInv
<1> QED  BY <1>1, TaskingInvariant, PTL

\* No task waits for longer than a round, however many are created in front of
\* it while it waits (task.c:68).
THEOREM WaitStaysBounded == Spec => []BoundedWait
<1>1. ASSUME IInv
      PROVE  BoundedWait
  <2> SUFFICES ASSUME NEW t \in Created
               PROVE  wait[t] <= Len(order)
    BY DEF BoundedWait
  <2>1. /\ TypeOK /\ WaitAndDistance /\ TurnInRing
        /\ Len(order) \in Nat /\ DOMAIN order = 1..Len(order) /\ t \in Tasks
    BY <1>1, OrderFacts DEF IInv
  <2>2. PICK i \in 1..Len(order) : order[i] = t
    BY <2>1 DEF Created
  <2>3. order # << >>
    BY <2>1, <2>2, EmptySeq
  <2>4. PICK c \in 1..Len(order) : order[c] = current_task
    BY <2>1, <2>3 DEF TurnInRing, Created
  <2>5. wait[t] + Distance(i, c) <= Len(order) /\ wait[t] \in Nat
    BY <2>1, <2>2, <2>4 DEF WaitAndDistance, TypeOK
  <2>6. Distance(i, c) \in Nat
    BY <2>1 DEF Distance
  <2> QED  BY <2>1, <2>5, <2>6
<1> QED  BY <1>1, TaskingInvariant, PTL

\* create_task and yield make up a ring of turns: a step of the kernel is a
\* task that joins in front, the turn going one place on, or neither.  (That
\* the turn keeps going, the fairness in ImplementsRoundRobin, is left to TLC.)
THEOREM TaskingImplementsRing == Spec => Ring!RingSafety
<1>1. Init => Ring!RingInit
  BY DEF Init, Ring!RingInit
<1>2. ASSUME IInv, [Next]_vars
      PROVE  [Ring!RingNext]_(Ring!ringVars)
  <2>1. ASSUME NEW t \in Tasks, create_task(t)
        PROVE  Ring!Join(t)
    BY <2>1 DEF create_task, prepend, Ring!Join, Ring!InRing, Created
  <2>2. ASSUME NEW site \in Sites, yield(site)
        PROVE  Ring!Pass
    <3>1. current_task # NULL /\ current_task' = NextTask(current_task) /\ order' = order
      BY <2>2 DEF yield, listVars
    <3>2. PICK c \in DOMAIN order : order[c] = current_task
      BY <1>2, <3>1, TurnExists
    <3>3. current_task' = order[After(c)]
      BY <1>2, <3>1, <3>2, TurnMoves
    <3>4. After(c) = Ring!Follows(c)
      BY DEF After, Ring!Follows
    <3> QED  BY <3>1, <3>2, <3>3, <3>4 DEF Ring!Pass
  <2>3. CASE Work \/ KeyPress \/ Interrupt \/ UNCHANGED vars
    BY <2>3 DEF Work, KeyPress, Interrupt, vars, listVars, Ring!ringVars
  <2> QED  BY <1>2, <2>1, <2>2, <2>3 DEF Next, Yield, Ring!RingNext
<1> QED  BY <1>1, <1>2, TaskingInvariant, PTL DEF Spec, Ring!RingSafety

=============================================================================

------------------------------ MODULE BootProofs ------------------------------
(***************************************************************************)
(* Proofs about Boot for every drive geometry, volume, PCI topology, set   *)
(* of sectors that commands read and number of reads: no interrupt request *)
(* meets a vector without a handler, a sector read that is not disturbed   *)
(* is right, and what the commands rely on is there when the prompt is.    *)
(*                                                                         *)
(* The handler's command can come between any two port accesses of the     *)
(* boot thread.  The argument is that it leaves the drive idle, and that   *)
(* idle is a state in which each step of the boot thread may find it; what *)
(* the boot thread has read is right as long as no command came in between *)
(* (clash), and no command comes before root_cluster unless early is set.  *)
(***************************************************************************)
EXTENDS Boot, FiniteSetTheorems, FunctionTheorems, SequenceTheorems, TLAPS

-----------------------------------------------------------------------------
\* The stages.

AllStages ==
  {"init_gdt", "init_idt", "pci_enum", "detect_disks", "malloc", "read_sector",
   "root_cluster", "print_prompt", "cli", "JumpToUserMode", "end"}

BeforeInterrupts == {"init_gdt", "init_idt"}
BeforePci == BeforeInterrupts \cup {"pci_enum"}
AfterRoot == {"print_prompt", "cli", "JumpToUserMode", "end"}
AfterPrompt == {"cli", "JumpToUserMode", "end"}

LEMMA StagePlaces ==
  /\ DOMAIN Stages = 1..11
  /\ Stages[1] = "init_gdt" /\ Stages[2] = "init_idt" /\ Stages[3] = "pci_enum"
  /\ Stages[4] = "detect_disks" /\ Stages[5] = "malloc" /\ Stages[6] = "read_sector"
  /\ Stages[7] = "root_cluster" /\ Stages[8] = "print_prompt" /\ Stages[9] = "cli"
  /\ Stages[10] = "JumpToUserMode" /\ Stages[11] = "end"
  BY DEF Stages

LEMMA StagesDiffer ==
  \A i, j \in 1..11 : Stages[i] = Stages[j] => i = j
<1>1. SUFFICES ASSUME NEW i \in 1..11, NEW j \in 1..11, Stages[i] = Stages[j]
               PROVE  i = j
  OBVIOUS
<1>2. i \in {1, 2, 3, 4, 5, 6, 7, 8, 9, 10, 11}
  OBVIOUS
<1>3. j \in {1, 2, 3, 4, 5, 6, 7, 8, 9, 10, 11}
  OBVIOUS
<1> QED  BY <1>1, <1>2, <1>3, StagePlaces

LEMMA NextStage ==
  ASSUME NEW i \in 1..10
  PROVE  After(Stages[i]) = Stages[i + 1]
<1> DEFINE c == CHOOSE k \in DOMAIN Stages : Stages[k] = Stages[i]
<1>1. i \in DOMAIN Stages
  BY StagePlaces
<1>2. c \in DOMAIN Stages /\ Stages[c] = Stages[i]
  BY <1>1
<1>3. c = i
  BY <1>2, StagePlaces, StagesDiffer
<1>4. 1 + i = i + 1
  OBVIOUS
<1> QED  BY <1>3, <1>4 DEF After

LEMMA Afters ==
  /\ After("init_gdt") = "init_idt" /\ After("init_idt") = "pci_enum"
  /\ After("pci_enum") = "detect_disks" /\ After("detect_disks") = "malloc"
  /\ After("malloc") = "read_sector" /\ After("read_sector") = "root_cluster"
  /\ After("root_cluster") = "print_prompt" /\ After("print_prompt") = "cli"
  /\ After("cli") = "JumpToUserMode" /\ After("JumpToUserMode") = "end"
<1>1. /\ After(Stages[1]) = Stages[2] /\ After(Stages[2]) = Stages[3]
      /\ After(Stages[3]) = Stages[4] /\ After(Stages[4]) = Stages[5]
      /\ After(Stages[5]) = Stages[6] /\ After(Stages[6]) = Stages[7]
      /\ After(Stages[7]) = Stages[8] /\ After(Stages[8]) = Stages[9]
      /\ After(Stages[9]) = Stages[10] /\ After(Stages[10]) = Stages[11]
  BY NextStage
<1> QED  BY <1>1, StagePlaces

LEMMA PassedStages ==
  ASSUME stage \in AllStages
  PROVE  /\ Passed("root_cluster") <=> stage \in AfterRoot
         /\ Passed("print_prompt") <=> stage \in AfterPrompt
<1>1. PICK j \in 1..11 : Stages[j] = stage
  <2>1. /\ 1 \in 1..11 /\ 2 \in 1..11 /\ 3 \in 1..11 /\ 4 \in 1..11 /\ 5 \in 1..11
        /\ 6 \in 1..11 /\ 7 \in 1..11 /\ 8 \in 1..11 /\ 9 \in 1..11 /\ 10 \in 1..11
        /\ 11 \in 1..11
    OBVIOUS
  <2> QED  BY <2>1, StagePlaces DEF AllStages
<1>2. \A k \in 1..11 : Passed(Stages[k]) <=> k < j
  BY <1>1, StagePlaces, StagesDiffer DEF Passed
<1>3. Passed(Stages[7]) <=> 7 < j
  BY <1>2
<1>4. Passed(Stages[8]) <=> 8 < j
  BY <1>2
<1>5. j \in {1, 2, 3, 4, 5, 6, 7, 8, 9, 10, 11}
  OBVIOUS
<1>6. 7 < j <=> stage \in AfterRoot
  BY <1>1, <1>5, StagePlaces DEF AfterRoot
<1>7. 8 < j <=> stage \in AfterPrompt
  BY <1>1, <1>5, StagePlaces DEF AfterPrompt
<1> QED  BY <1>3, <1>4, <1>6, <1>7, StagePlaces

-----------------------------------------------------------------------------
(***************************************************************************)
(* Interrupts.                                                             *)
(***************************************************************************)

Controller(e, o, m) == [expects |-> e, offset |-> o, mask |-> m]
Pair(c, d) == [k \in Controllers |-> IF k = 1 THEN c ELSE d]

LEMMA WrittenController ==
  ASSUME NEW o, NEW m, NEW b
  PROVE  /\ Commanded(Controller("mask", o, m), ICW1) = Controller("offset", o, 0)
         /\ Written(Controller("offset", o, m), b) = Controller("cascade", b, m)
         /\ Written(Controller("cascade", o, m), b) = Controller("mode", o, m)
         /\ Written(Controller("mode", o, m), b) = Controller("mask", o, m)
         /\ Written(Controller("mask", o, m), b) = Controller("mask", o, b)
  BY DEF Commanded, Written, Controller

LEMMA PairExcept ==
  ASSUME NEW c, NEW d, NEW x
  PROVE  /\ Pair(c, d)[1] = c /\ Pair(c, d)[2] = d
         /\ [Pair(c, d) EXCEPT ![1] = x] = Pair(x, d)
         /\ [Pair(c, d) EXCEPT ![2] = x] = Pair(c, x)
<1>1. /\ DOMAIN Pair(c, d) = Controllers
      /\ \A k \in Controllers : Pair(c, d)[k] = IF k = 1 THEN c ELSE d
      /\ 1 \in Controllers /\ 2 \in Controllers
  BY DEF Pair, Controllers
<1>2. [Pair(c, d) EXCEPT ![1] = x] =
        [k \in Controllers |-> IF k = 1 THEN x ELSE Pair(c, d)[k]]
  BY <1>1
<1>3. [Pair(c, d) EXCEPT ![2] = x] =
        [k \in Controllers |-> IF k = 2 THEN x ELSE Pair(c, d)[k]]
  BY <1>1
<1>4. \A k \in Controllers : k = 2 <=> k # 1
  BY DEF Controllers
<1> QED  BY <1>1, <1>2, <1>3, <1>4 DEF Pair

LEMMA PairData ==
  ASSUME NEW c, NEW d, NEW b1, NEW b2
  PROVE  /\ BothData(Pair(c, d), b1, b2) = Pair(Written(c, b1), Written(d, b2))
         /\ Command(Command(Pair(c, d), 1, b1), 2, b2) =
              Pair(Commanded(c, b1), Commanded(d, b2))
         /\ Pair(c, d)[1] = c /\ Pair(c, d)[2] = d
<1>1. Data(Pair(c, d), 1, b1) = Pair(Written(c, b1), d)
  BY PairExcept DEF Data
<1>2. Data(Pair(Written(c, b1), d), 2, b2) = Pair(Written(c, b1), Written(d, b2))
  BY PairExcept DEF Data
<1>3. Command(Pair(c, d), 1, b1) = Pair(Commanded(c, b1), d)
  BY PairExcept DEF Command
<1>4. Command(Pair(Commanded(c, b1), d), 2, b2) = Pair(Commanded(c, b1), Commanded(d, b2))
  BY PairExcept DEF Command
<1>5. Pair(c, d)[1] = c /\ Pair(c, d)[2] = d
  BY PairExcept
<1> QED  BY <1>1, <1>2, <1>3, <1>4, <1>5 DEF BothData

LEMMA ProgrammedPic ==
  program_pic(BootController) =
    Pair(Controller("mask", 32, 253), Controller("mask", 40, 255))
<1>1. BootController = Pair(Controller("mask", 8, 255), Controller("mask", 112, 255))
  BY DEF BootController, Pair, Controller
<1>2. Command(Command(BootController, 1, ICW1), 2, ICW1) =
        Pair(Controller("offset", 8, 0), Controller("offset", 112, 0))
  BY <1>1, PairData, WrittenController
<1>3. BothData(Pair(Controller("offset", 8, 0), Controller("offset", 112, 0)), 32, 40) =
        Pair(Controller("cascade", 32, 0), Controller("cascade", 40, 0))
  BY PairData, WrittenController
<1>4. BothData(Pair(Controller("cascade", 32, 0), Controller("cascade", 40, 0)), 4, 2) =
        Pair(Controller("mode", 32, 0), Controller("mode", 40, 0))
  BY PairData, WrittenController
<1>5. BothData(Pair(Controller("mode", 32, 0), Controller("mode", 40, 0)), 1, 1) =
        Pair(Controller("mask", 32, 0), Controller("mask", 40, 0))
  BY PairData, WrittenController
<1>6. BothData(Pair(Controller("mask", 32, 0), Controller("mask", 40, 0)), 255, 255) =
        Pair(Controller("mask", 32, 255), Controller("mask", 40, 255))
  BY PairData, WrittenController
<1>7. BootController[1].mask = 255 /\ BootController[2].mask = 255
  BY <1>1, PairData DEF Controller
<1>8. remap_pic(BootController) =
        Pair(Controller("mask", 32, 255), Controller("mask", 40, 255))
  BY <1>2, <1>3, <1>4, <1>5, <1>6, <1>7 DEF remap_pic
<1> QED  BY <1>8, PairData, WrittenController DEF program_pic

\* Of the lines that can be requested only the keyboard's gets through, at the
\* vector that has its handler.
LEMMA OnlyKeyboard ==
  ASSUME NEW line \in Lines, GetsThrough(program_pic(BootController), line)
  PROVE  Vector(program_pic(BootController), line) = KeyboardVector
<1> DEFINE p == program_pic(BootController)
<1>1. p[1].mask = 253 /\ p[2].mask = 255 /\ p[1].offset = 32
  BY ProgrammedPic, PairData DEF Controller
<1> HIDE DEF p
<1>2. Bit(253, 0) /\ Bit(253, 2)
  <2>1. 2^0 = 1 /\ 2^2 = 4
    OBVIOUS
  <2>2. (253 \div 1) % 2 = 1 /\ (253 \div 4) % 2 = 1
    OBVIOUS
  <2> QED  BY <2>1, <2>2 DEF Bit
<1>3. CASE line = 0
  BY <1>1, <1>2, <1>3 DEF GetsThrough, p
<1>4. CASE line = 14
  BY <1>1, <1>2, <1>4 DEF GetsThrough, p
<1>5. CASE line = 1
  BY <1>1, <1>5 DEF Vector, KeyboardVector, p
<1> QED  BY <1>3, <1>4, <1>5 DEF Lines

\* An exception that has its gate panics for its own cause.
LEMMA RaiseFacts ==
  ASSUME NEW v, NEW why, v \in gates, Raise(v, why)
  PROVE  int_flag' = FALSE /\ panic'.cause = why
<1>1. Panic(v, why)
  BY DEF Raise
<1> QED  BY <1>1 DEF Panic

InterruptInv ==
  /\ stage \in AllStages
  /\ int_flag \in BOOLEAN
  /\ stage \in BeforeInterrupts =>
       ~int_flag /\ command = "none" /\ pic = BootController
  /\ stage \notin BeforeInterrupts =>
       gates = Gates /\ pic = program_pic(BootController)
  /\ panic.cause \in {"none", "segment", "boot sector"}

LEMMA GatesFacts == {14, GeneralProtection, KeyboardVector} \subseteq Gates
  BY DEF Gates, PanicVectors, GeneralProtection, KeyboardVector

LEMMA InitInterrupts ==
  ASSUME Init
  PROVE  InterruptInv
<1>1. Stages[1] = "init_gdt"
  BY StagePlaces
<1> QED  BY <1>1 DEF Init, InterruptInv, AllStages, BeforeInterrupts, NoPanic

LEMMA BootKeepsInterrupts ==
  ASSUME InterruptInv, BootThread
  PROVE  InterruptInv'
<1>1. command' = command /\ command = "none" /\ stage \in AllStages
  BY DEF InterruptInv, BootThread, InitGdt, InitIdt, PciRound, PciEnd, ReadStart,
         ReadWrite, ReadCommand, ReadWait, ReadWord, Malloc, RootCluster, Prompt,
         Cli, JumpToUserMode, In, handlerVars
<1>2. CASE InitGdt
  <2>1. /\ stage = "init_gdt" /\ stage' \in {"init_gdt", "init_idt"}
        /\ UNCHANGED <<int_flag, pic, panic>>
    BY <1>2, Afters DEF InitGdt, In
  <2> QED  BY <1>1, <2>1 DEF InterruptInv, AllStages, BeforeInterrupts
<1>3. CASE InitIdt
  <2>1. /\ stage = "init_idt" /\ stage' = "pci_enum" /\ int_flag' = TRUE
        /\ gates' = Gates /\ pic' = program_pic(pic) /\ panic' = panic
    BY <1>3, Afters DEF InitIdt, In
  <2> QED  BY <1>1, <2>1 DEF InterruptInv, AllStages, BeforeInterrupts
<1>4. CASE JumpToUserMode
  <2>1. stage = "JumpToUserMode" /\ stage' = "end" /\ gates' = gates /\ pic' = pic
    BY <1>4, Afters DEF JumpToUserMode, In, tables
  <2>2. gates = Gates /\ pic = program_pic(BootController)
    BY <2>1 DEF InterruptInv, BeforeInterrupts
  <2>3. int_flag' \in BOOLEAN /\ (panic' = panic \/ panic'.cause = "segment")
    <3>1. Raise(GeneralProtection, "segment") =>
            int_flag' = FALSE /\ panic'.cause = "segment"
      BY <2>2, GatesFacts, RaiseFacts
    <3>2. \/ int_flag' = TRUE /\ panic' = panic
          \/ Raise(GeneralProtection, "segment")
      BY <1>4 DEF JumpToUserMode
    <3> QED  BY <3>1, <3>2
  <2> QED  BY <2>1, <2>2, <2>3 DEF InterruptInv, AllStages, BeforeInterrupts
<1>5. CASE PciRound \/ PciEnd \/ ReadStart \/ ReadWrite \/ ReadCommand \/ ReadWait
           \/ ReadWord \/ Malloc \/ RootCluster \/ Prompt \/ Cli
  <2>1. /\ stage \in AllStages \ {"init_gdt", "init_idt", "JumpToUserMode", "end"}
        /\ stage' \in {stage, After(stage)}
        /\ int_flag' \in {int_flag, FALSE} /\ UNCHANGED <<gates, pic, panic>>
    BY <1>5 DEF PciRound, PciEnd, ReadStart, ReadWrite, ReadCommand, ReadWait,
         ReadWord, Malloc, RootCluster, Prompt, Cli, In, AllStages, tables, cpuVars
  <2>2. stage' \in AllStages /\ stage' \notin BeforeInterrupts
        /\ stage \notin BeforeInterrupts
    BY <2>1, Afters DEF AllStages, BeforeInterrupts
  <2> QED  BY <2>1, <2>2 DEF InterruptInv
<1> QED  BY <1>2, <1>3, <1>4, <1>5 DEF BootThread

LEMMA NextInterrupts ==
  ASSUME InterruptInv, [Next]_vars
  PROVE  InterruptInv'
<1>1. CASE \E line \in Lines : Interrupt(line)
  <2>1. PICK line \in Lines : Interrupt(line)
    BY <1>1
  <2>2. int_flag /\ GetsThrough(pic, line) /\ UNCHANGED <<stage, gates, pic>>
    BY <2>1 DEF Interrupt, tables
  <2>3. stage \notin BeforeInterrupts /\ gates = Gates
        /\ pic = program_pic(BootController)
    BY <2>2 DEF InterruptInv
  <2>4. Vector(pic, line) = KeyboardVector /\ KeyboardVector \in gates
    BY <2>2, <2>3, OnlyKeyboard, GatesFacts
  <2>5. UNCHANGED <<int_flag, panic>>
    BY <2>1, <2>4 DEF Interrupt, cpuVars
  <2> QED  BY <2>2, <2>3, <2>5 DEF InterruptInv
<1>2. CASE HandlerIssue \/ HandlerTransfer \/ HandlerReturn \/ DriveAnswers \/ Waits
           \/ UNCHANGED vars
  <2>1. /\ UNCHANGED <<stage, int_flag, gates, pic, panic>>
        /\ command = "none" => command' = "none"
    BY <1>2 DEF HandlerIssue, HandlerTransfer, HandlerReturn, DriveAnswers, Waits,
         vars, tables, cpuVars, handlerVars
  <2> QED  BY <2>1 DEF InterruptInv
<1>3. CASE HandlerFault
  <2>1. /\ command = "issue" /\ UNCHANGED <<stage, gates, pic, command>>
        /\ \/ Raise(14, "boot sector")
           \/ Raise(GeneralProtection, "boot sector")
           \/ UNCHANGED <<panic, int_flag>>
    BY <1>3 DEF HandlerFault, tables
  <2>2. stage \notin BeforeInterrupts /\ gates = Gates
        /\ pic = program_pic(BootController)
    BY <2>1 DEF InterruptInv
  <2>3. /\ int_flag' \in {int_flag, FALSE}
        /\ panic' = panic \/ panic'.cause = "boot sector"
    <3>1. Raise(14, "boot sector") => int_flag' = FALSE /\ panic'.cause = "boot sector"
      BY <2>2, GatesFacts, RaiseFacts
    <3>2. Raise(GeneralProtection, "boot sector") =>
            int_flag' = FALSE /\ panic'.cause = "boot sector"
      BY <2>2, GatesFacts, RaiseFacts
    <3> QED  BY <2>1, <3>1, <3>2
  <2> QED  BY <2>1, <2>2, <2>3 DEF InterruptInv
<1> QED  BY <1>1, <1>2, <1>3, BootKeepsInterrupts DEF Next, Handler

LEMMA InterruptInvariant == Spec => []InterruptInv
<1>1. Init => InterruptInv
  BY InitInterrupts
<1>2. InterruptInv /\ [Next]_vars => InterruptInv'
  BY NextInterrupts
<1> QED  BY <1>1, <1>2, PTL DEF Spec

\* With the masks and offsets that remap_pic and init_idt leave behind, no
\* request line reaches a vector without a handler, nor one that panics, from
\* sti to the jump to user mode (pic.c:15-47, idt.c:55-91).
THEOREM NoStrayInterrupt == Spec => []InterruptsHandled
<1>1. InterruptInv => InterruptsHandled
  BY DEF InterruptInv, InterruptsHandled
<1> QED  BY <1>1, InterruptInvariant, PTL

-----------------------------------------------------------------------------
(***************************************************************************)
(* The enumeration of the PCI functions.                                   *)
(***************************************************************************)

LEMMA DivMod ==
  ASSUME NEW q \in Nat, NEW m \in Nat, NEW r \in Nat \ {0}, m < r
  PROVE  (q * r + m) \div r = q /\ (q * r + m) % r = m
  OBVIOUS

LEMMA Factors ==
  ASSUME NEW a \in Nat, NEW b \in Nat, NEW c \in Nat
  PROVE  /\ a * b \in Nat /\ (a + 1) * b = a * b + b
         /\ (a + c) * b = a * b + c * b /\ (a * b) * c = a * (b * c)
         /\ a < c => a * b + b <= c * b
<1>1. a * b \in Nat /\ (a + 1) * b = a * b + b
  OBVIOUS
<1>2. (a + c) * b = a * b + c * b /\ (a * b) * c = a * (b * c)
  OBVIOUS
<1>3. ASSUME a < c
      PROVE  a * b + b <= c * b
  <2>1. c - (a + 1) \in Nat
    BY <1>3
  <2>2. (c - (a + 1)) * b \in Nat
    BY <2>1
  <2>3. (c - (a + 1)) * b = c * b - (a + 1) * b
    OBVIOUS
  <2> QED  BY <1>1, <2>2, <2>3
<1> QED  BY <1>1, <1>2, <1>3

Functions == (0..(Buses - 1)) \X (0..(Slots - 1)) \X (0..(Funcs - 1))
Places == (0..Buses) \X (0..(Slots - 1)) \X (0..(Funcs - 1))

\* How many functions come before one in the order of the loops.
Number(f) == (f[1] * Slots + f[2]) * Funcs + f[3]

LEMMA PlaceFacts ==
  ASSUME NEW f \in Places
  PROVE  /\ f[1] \in 0..Buses /\ f[2] \in 0..(Slots - 1) /\ f[3] \in 0..(Funcs - 1)
         /\ f = <<f[1], f[2], f[3]>>
         /\ f[1] * Slots + f[2] \in Nat /\ Number(f) \in Nat
         /\ f \in Functions <=> f[1] < Buses
<1>1. Buses \in Nat /\ Slots \in Nat /\ Funcs \in Nat
  BY PciAssumption
<1>2. /\ f[1] \in 0..Buses /\ f[2] \in 0..(Slots - 1) /\ f[3] \in 0..(Funcs - 1)
      /\ f = <<f[1], f[2], f[3]>>
  BY DEF Places
<1>3. f[1] \in Nat /\ f[2] \in Nat /\ f[3] \in Nat
  BY <1>1, <1>2
<1>4. f[1] * Slots \in Nat
  BY <1>1, <1>3, Factors
<1>5. f[1] * Slots + f[2] \in Nat
  BY <1>3, <1>4
<1>6. (f[1] * Slots + f[2]) * Funcs \in Nat
  BY <1>1, <1>5, Factors
<1>7. Number(f) \in Nat
  BY <1>3, <1>6 DEF Number
<1>8. f \in Functions <=> f[1] \in 0..(Buses - 1)
  BY <1>2 DEF Functions
<1>9. f[1] \in 0..(Buses - 1) <=> f[1] < Buses
  BY <1>1, <1>2
<1> QED  BY <1>2, <1>5, <1>7, <1>8, <1>9

LEMMA FunctionFacts ==
  /\ Functions \subseteq Places /\ Devices \subseteq Functions
  /\ Buses \in Nat /\ Slots \in Nat \ {0} /\ Funcs \in Nat \ {0}
  /\ ConfigBytes \in Nat \ {0}
<1>1. Buses \in Nat
  BY PciAssumption
<1>2. 0..(Buses - 1) \subseteq 0..Buses
  BY <1>1
<1> QED  BY <1>2, PciAssumption DEF Functions, Places

LEMMA AddressOfNumber ==
  ASSUME NEW f \in Places
  PROVE  ConfigAddress(f[1], f[2], f[3], 0) = Number(f) * ConfigBytes
<1>1. 0 - (0 % 4) = 0
  OBVIOUS
<1>2. Number(f) * ConfigBytes \in Nat
  BY PlaceFacts, FunctionFacts, Factors
<1> QED  BY <1>1, <1>2 DEF ConfigAddress, Number

\* The host bridge selects the function that the loops ask for.
LEMMA SelectedFunction ==
  ASSUME NEW f \in Functions
  PROVE  Selected(ConfigAddress(f[1], f[2], f[3], 0)) = f
<1> DEFINE a == f[1] * Slots + f[2]
           n == a * Funcs + f[3]
<1>1. /\ f[1] \in Nat /\ f[2] \in Nat /\ f[3] \in Nat /\ f[2] < Slots /\ f[3] < Funcs
      /\ Slots \in Nat \ {0} /\ Funcs \in Nat \ {0} /\ ConfigBytes \in Nat \ {0}
      /\ f = <<f[1], f[2], f[3]>> /\ a \in Nat /\ n \in Nat
  BY FunctionFacts, PlaceFacts DEF Number
<1>2. (n * ConfigBytes + 0) \div ConfigBytes = n
  <2>1. 0 \in Nat /\ 0 < ConfigBytes
    BY <1>1
  <2> HIDE DEF n
  <2> QED  BY <1>1, <2>1, DivMod
<1>3. ConfigAddress(f[1], f[2], f[3], 0) \div ConfigBytes = n
  <2>1. ConfigAddress(f[1], f[2], f[3], 0) = n * ConfigBytes
    BY FunctionFacts, AddressOfNumber DEF Number
  <2>2. n * ConfigBytes + 0 = n * ConfigBytes
    BY <1>1
  <2> QED  BY <1>2, <2>1, <2>2
<1>4. n \div Funcs = a /\ n % Funcs = f[3]
  BY <1>1, DivMod
<1>5. a % Slots = f[2]
  BY <1>1, DivMod
<1>6. n \div (Slots * Funcs) = f[1]
  <2> DEFINE SF == Slots * Funcs
             m == f[2] * Funcs + f[3]
  <2>1. SF \in Nat /\ f[2] * Funcs \in Nat /\ f[2] * Funcs + Funcs <= SF
    BY <1>1, Factors
  <2>2. m \in Nat /\ m < SF
    BY <1>1, <2>1
  <2>3. f[1] * Slots \in Nat /\ a * Funcs = (f[1] * Slots) * Funcs + f[2] * Funcs
    BY <1>1, Factors
  <2>4. (f[1] * Slots) * Funcs = f[1] * SF /\ f[1] * SF \in Nat
    BY <1>1, <2>1, Factors
  <2>5. n = f[1] * SF + m
    BY <1>1, <2>1, <2>3, <2>4
  <2>6. SF \in Nat \ {0}
    BY <2>1, <2>2
  <2> HIDE DEF SF, m, n
  <2>7. n \div SF = f[1]
    BY <1>1, <2>2, <2>5, <2>6, DivMod
  <2> QED  BY <2>7 DEF SF
<1>7. Selected(ConfigAddress(f[1], f[2], f[3], 0)) =
        <<n \div (Slots * Funcs), (n \div Funcs) % Slots, n % Funcs>>
  BY <1>3 DEF Selected
<1> HIDE DEF a, n
<1> QED  BY <1>1, <1>4, <1>5, <1>6, <1>7

LEMMA NumberDecides ==
  ASSUME NEW f \in Functions, NEW g \in Functions, Number(f) = Number(g)
  PROVE  f = g
<1>1. ConfigAddress(f[1], f[2], f[3], 0) = ConfigAddress(g[1], g[2], g[3], 0)
  BY FunctionFacts, AddressOfNumber
<1> QED  BY <1>1, SelectedFunction

\* One round of the loops goes to the next number.
LEMMA RoundCounts ==
  ASSUME NEW f \in Functions
  PROVE  /\ NextRound(f) \in Places /\ Number(NextRound(f)) = Number(f) + 1
         /\ NextRound(f)[1] = Buses => NextRound(f)[2] = 0 /\ NextRound(f)[3] = 0
<1> DEFINE a == f[1] * Slots + f[2]
<1>1. /\ f[1] \in Nat /\ f[2] \in Nat /\ f[3] \in Nat /\ f[2] < Slots /\ f[3] < Funcs
      /\ f[1] < Buses /\ Buses \in Nat /\ a \in Nat
      /\ Slots \in Nat \ {0} /\ Funcs \in Nat \ {0}
  BY FunctionFacts, PlaceFacts
<1>2. /\ (f[3] + 1) % SlotRange = f[3] + 1
      /\ (f[2] + 1) % SlotRange = f[2] + 1
      /\ (f[1] + 1) % BusRange = f[1] + 1
  <2>1. /\ SlotRange \in Nat \ {0} /\ BusRange \in Nat \ {0}
        /\ f[3] + 1 < SlotRange /\ f[2] + 1 < SlotRange /\ f[1] + 1 < BusRange
        /\ f[3] + 1 \in Nat /\ f[2] + 1 \in Nat /\ f[1] + 1 \in Nat
    BY <1>1, PciAssumption
  <2> QED  BY <2>1
<1>3. Number(f) = a * Funcs + f[3] /\ a * Funcs \in Nat
  BY <1>1, Factors DEF Number
<1>4. CASE f[3] + 1 < Funcs
  <2>1. NextRound(f) = <<f[1], f[2], f[3] + 1>>
    BY <1>2, <1>4 DEF NextRound
  <2>2. Number(NextRound(f)) = a * Funcs + (f[3] + 1)
    BY <2>1 DEF Number
  <2>3. <<f[1], f[2], f[3] + 1>> \in Places
    BY <1>1, <1>4 DEF Places
  <2> QED  BY <1>1, <1>3, <2>1, <2>2, <2>3
<1>5. CASE ~(f[3] + 1 < Funcs) /\ f[2] + 1 < Slots
  <2>1. NextRound(f) = <<f[1], f[2] + 1, 0>>
    BY <1>2, <1>5 DEF NextRound
  <2>2. Number(NextRound(f)) = (f[1] * Slots + (f[2] + 1)) * Funcs + 0
    BY <2>1 DEF Number
  <2>3. f[1] * Slots \in Nat /\ f[1] * Slots + (f[2] + 1) = a + 1
    BY <1>1, Factors
  <2>4. (a + 1) * Funcs = a * Funcs + Funcs
    BY <1>1, Factors
  <2>5. <<f[1], f[2] + 1, 0>> \in Places
    BY <1>1, <1>5 DEF Places
  <2> HIDE DEF a
  <2>6. Number(NextRound(f)) = Number(f) + 1
    BY <1>1, <1>3, <1>5, <2>2, <2>3, <2>4
  <2> QED  BY <1>1, <2>1, <2>5, <2>6
<1>6. CASE ~(f[3] + 1 < Funcs) /\ ~(f[2] + 1 < Slots)
  <2>1. NextRound(f) = <<f[1] + 1, 0, 0>>
    BY <1>2, <1>6 DEF NextRound, NextBus
  <2>2. Number(NextRound(f)) = ((f[1] + 1) * Slots + 0) * Funcs + 0
    BY <2>1 DEF Number
  <2>3. /\ f[1] * Slots \in Nat /\ (f[1] + 1) * Slots = f[1] * Slots + Slots
    BY <1>1, Factors
  <2>4. (f[1] + 1) * Slots + 0 = a + 1
    BY <1>1, <1>6, <2>3
  <2>5. (a + 1) * Funcs = a * Funcs + Funcs
    BY <1>1, Factors
  <2>6. <<f[1] + 1, 0, 0>> \in Places
    BY <1>1 DEF Places
  <2> HIDE DEF a
  <2>7. Number(NextRound(f)) = Number(f) + 1
    BY SMTT(20), <1>1, <1>3, <1>6, <2>2, <2>4, <2>5
  <2> QED  BY <2>1, <2>6, <2>7
<1> QED  BY <1>4, <1>5, <1>6

\* The functions before the place of the loops that are there, in order.
PciInv ==
  /\ stage \in AllStages
  /\ at \in Places /\ (at[1] = Buses => at[2] = 0 /\ at[3] = 0)
  /\ stage \notin BeforePci => at[1] = Buses
  /\ found \in Seq(Functions)
  /\ \A i \in 1..Len(found) : found[i] \in Devices /\ Number(found[i]) < Number(at)
  /\ \A d \in Devices :
       Number(d) < Number(at) => \E i \in 1..Len(found) : found[i] = d
  /\ \A i, j \in 1..Len(found) : i < j => Number(found[i]) < Number(found[j])

LEMMA InitPci ==
  ASSUME Init
  PROVE  PciInv
<1>1. stage = "init_gdt" /\ at = <<0, 0, 0>> /\ found = << >>
  BY StagePlaces DEF Init
<1>2. at \in Places /\ at[1] = 0 /\ at[2] = 0 /\ at[3] = 0
  <2>1. 0 \in 0..Buses /\ 0 \in 0..(Slots - 1) /\ 0 \in 0..(Funcs - 1)
    BY FunctionFacts
  <2> QED  BY <1>1, <2>1 DEF Places
<1>3. Number(at) = 0
  <2>1. 0 * Slots = 0 /\ (0 + 0) * Funcs = 0
    BY FunctionFacts
  <2> QED  BY <1>2, <2>1 DEF Number
<1>4. \A d \in Devices : ~(Number(d) < 0)
  BY FunctionFacts, PlaceFacts
<1>5. found \in Seq(Functions) /\ \A i : i \notin 1..Len(found)
  BY <1>1
<1> QED  BY <1>1, <1>2, <1>3, <1>4, <1>5 DEF PciInv, AllStages, BeforePci, BeforeInterrupts

LEMMA PciRoundKeeps ==
  ASSUME PciInv, PciRound
  PROVE  PciInv'
<1> DEFINE n == Number(at)
           N == Len(found)
<1>1. /\ stage = "pci_enum" /\ stage' = stage /\ at[1] < Buses /\ at' = NextRound(at)
      /\ found' = IF Answers(ConfigAddress(at[1], at[2], at[3], 0))
                  THEN Append(found, at) ELSE found
  BY DEF PciRound, In
<1>2. at \in Functions /\ at \in Places /\ n \in Nat
  BY <1>1, PlaceFacts DEF PciInv
<1>3. /\ at' \in Places /\ Number(at') = n + 1
      /\ at'[1] = Buses => at'[2] = 0 /\ at'[3] = 0
  BY <1>1, <1>2, RoundCounts
<1>4. /\ found \in Seq(Functions) /\ N \in Nat
      /\ \A i \in 1..N : /\ found[i] \in Functions /\ found[i] \in Devices
                         /\ Number(found[i]) \in Nat /\ Number(found[i]) < n
      /\ \A d \in Devices : Number(d) < n => \E i \in 1..N : found[i] = d
      /\ \A i, j \in 1..N : i < j => Number(found[i]) < Number(found[j])
  BY FunctionFacts, PlaceFacts, LenProperties, ElementOfSeq DEF PciInv
<1> HIDE DEF n, N
<1>5. \A d \in Devices : /\ Number(d) \in Nat
                         /\ Number(d) < n + 1 => Number(d) < n \/ d = at
  <2>1. ASSUME NEW d \in Devices
        PROVE  /\ Number(d) \in Nat
               /\ Number(d) < n + 1 => Number(d) < n \/ d = at
    <3>1. d \in Functions /\ Number(d) \in Nat
      BY FunctionFacts, PlaceFacts
    <3>2. Number(d) = n => d = at
      BY <1>2, <3>1, NumberDecides DEF n
    <3>3. Number(d) < n + 1 => Number(d) < n \/ Number(d) = n
      BY <1>2, <3>1
    <3> QED  BY <3>1, <3>2, <3>3
  <2> QED  BY <2>1
<1>6. CASE at \in Devices
  <2>1. found' = Append(found, at)
    BY <1>1, <1>2, <1>6, SelectedFunction DEF Answers
  <2>2. /\ found' \in Seq(Functions) /\ Len(found') = N + 1
        /\ \A i \in 1..N : found'[i] = found[i]
        /\ found'[N + 1] = at
    BY <1>2, <1>4, <2>1, AppendProperties DEF N
  <2>3. \A i \in 1..(N + 1) : i \in 1..N \/ i = N + 1
    BY <1>4
  <2>4. \A i \in 1..(N + 1) : found'[i] \in Devices /\ Number(found'[i]) < n + 1
    <3>1. ASSUME NEW i \in 1..N
          PROVE  found'[i] \in Devices /\ Number(found'[i]) < n + 1
      BY <1>2, <1>4, <2>2
    <3>2. found'[N + 1] \in Devices /\ Number(found'[N + 1]) < n + 1
      BY <1>2, <1>6, <2>2 DEF n
    <3> QED  BY <2>3, <3>1, <3>2
  <2>5. \A d \in Devices : Number(d) < n + 1 => \E i \in 1..(N + 1) : found'[i] = d
    <3>1. 1..N \subseteq 1..(N + 1) /\ N + 1 \in 1..(N + 1)
      BY <1>4
    <3> QED  BY <1>4, <1>5, <2>2, <3>1
  <2>6. \A i, j \in 1..(N + 1) : i < j => Number(found'[i]) < Number(found'[j])
    <3>1. ASSUME NEW i \in 1..(N + 1), NEW j \in 1..(N + 1), i < j
          PROVE  Number(found'[i]) < Number(found'[j])
      <4>1. i \in 1..N
        BY <1>4, <3>1
      <4>2. CASE j \in 1..N
        BY <1>4, <2>2, <3>1, <4>1, <4>2
      <4>3. CASE j = N + 1
        BY <1>4, <2>2, <4>1, <4>3 DEF n
      <4> QED  BY <2>3, <4>2, <4>3
    <3> QED  BY <3>1
  <2> QED  BY <1>1, <1>3, <2>2, <2>4, <2>5, <2>6 DEF PciInv, BeforePci, AllStages
<1>7. CASE at \notin Devices
  <2>1. found' = found
    BY <1>1, <1>2, <1>7, SelectedFunction DEF Answers
  <2>2. \A i \in 1..N : found[i] \in Devices /\ Number(found[i]) < n + 1
    BY <1>2, <1>4
  <2>3. \A d \in Devices : Number(d) < n + 1 => \E i \in 1..N : found[i] = d
    BY <1>4, <1>5, <1>7
  <2> QED  BY <1>1, <1>3, <1>4, <2>1, <2>2, <2>3 DEF PciInv, BeforePci, AllStages, N
<1> QED  BY <1>6, <1>7

LEMMA NextPci ==
  ASSUME PciInv, [Next]_vars
  PROVE  PciInv'
<1>1. CASE PciEnd
  <2>1. stage' = "detect_disks" /\ at[1] = Buses /\ UNCHANGED <<at, found>>
    BY <1>1, Afters DEF PciEnd, In, pciVars
  <2> QED  BY <2>1 DEF PciInv, AllStages
<1>2. CASE BootThread /\ ~PciRound /\ ~PciEnd
  <2>1. /\ stage \in AllStages /\ UNCHANGED <<at, found>>
        /\ stage # "pci_enum" /\ stage # "end" /\ stage' \in {stage, After(stage)}
    BY <1>2 DEF PciInv, BootThread, InitGdt, InitIdt, ReadStart, ReadWrite,
         ReadCommand, ReadWait, ReadWord, Malloc, RootCluster, Prompt, Cli,
         JumpToUserMode, In, pciVars
  <2>2. stage' \in AllStages /\ (stage \in BeforePci => stage' \in BeforePci)
    <3>1. stage' \in AllStages
      BY <2>1, Afters DEF AllStages
    <3>2. stage \in BeforePci => stage' \in BeforePci
      BY <2>1, Afters DEF BeforePci, BeforeInterrupts
    <3> QED  BY <3>1, <3>2
  <2>3. stage' \notin BeforePci => at[1] = Buses
    BY <2>2 DEF PciInv
  <2> QED  BY <2>1, <2>2, <2>3 DEF PciInv
<1>3. CASE (\E line \in Lines : Interrupt(line)) \/ Handler \/ DriveAnswers \/ Waits
           \/ UNCHANGED vars
  <2>1. UNCHANGED <<stage, at, found>>
    BY <1>3 DEF Interrupt, Handler, HandlerIssue, HandlerFault, HandlerTransfer,
         HandlerReturn, DriveAnswers, Waits, vars, pciVars
  <2> QED  BY <2>1 DEF PciInv
<1> QED  BY <1>1, <1>2, <1>3, PciRoundKeeps DEF Next

LEMMA PciInvariant == Spec => []PciInv
<1>1. Init => PciInv
  BY InitPci
<1>2. PciInv /\ [Next]_vars => PciInv'
  BY NextPci
<1> QED  BY <1>1, <1>2, PTL DEF Spec

\* The loops list the functions in the order of their addresses, and have
\* listed all of them when the prompt is there.
LEMMA PciListed ==
  ASSUME PciInv
  PROVE  InOrder(found) /\ (AtPrompt => Len(found) = Cardinality(Devices))
<1>1. /\ found \in Seq(Functions) /\ Len(found) \in Nat
      /\ DOMAIN found = 1..Len(found)
      /\ \A i \in 1..Len(found) : found[i] \in Functions
      /\ \A i, j \in 1..Len(found) : i < j => Number(found[i]) < Number(found[j])
  BY LenProperties, ElementOfSeq DEF PciInv
<1>2. InOrder(found)
  <2>1. ASSUME NEW i \in 1..Len(found), NEW j \in 1..Len(found), i < j
        PROVE  ConfigAddress(found[i][1], found[i][2], found[i][3], 0)
                 < ConfigAddress(found[j][1], found[j][2], found[j][3], 0)
    <3>1. /\ Number(found[i]) < Number(found[j])
          /\ Number(found[i]) \in Nat /\ Number(found[j]) \in Nat
          /\ ConfigBytes \in Nat \ {0}
      BY <1>1, <2>1, FunctionFacts, PlaceFacts
    <3>2. /\ Number(found[i]) * ConfigBytes + ConfigBytes <= Number(found[j]) * ConfigBytes
          /\ Number(found[i]) * ConfigBytes \in Nat
          /\ Number(found[j]) * ConfigBytes \in Nat
      BY <3>1, Factors
    <3>3. /\ ConfigAddress(found[i][1], found[i][2], found[i][3], 0) =
               Number(found[i]) * ConfigBytes
          /\ ConfigAddress(found[j][1], found[j][2], found[j][3], 0) =
               Number(found[j]) * ConfigBytes
      BY <1>1, FunctionFacts, AddressOfNumber
    <3> QED  BY <3>1, <3>2, <3>3
  <2> QED  BY <1>1, <2>1 DEF InOrder
<1>3. ASSUME AtPrompt
      PROVE  Len(found) = Cardinality(Devices)
  <2>1. at[1] = Buses /\ at[2] = 0 /\ at[3] = 0
    <3>1. stage \notin BeforePci
      BY <1>3, PassedStages DEF AtPrompt, PciInv, AfterPrompt, BeforePci, BeforeInterrupts
    <3> QED  BY <3>1 DEF PciInv
  <2>2. ASSUME NEW d \in Devices
        PROVE  Number(d) < Number(at)
    <3>1. /\ d[1] \in Nat /\ d[1] < Buses /\ d[2] \in Nat /\ d[2] < Slots
          /\ d[3] \in Nat /\ d[3] < Funcs
          /\ Buses \in Nat /\ Slots \in Nat /\ Funcs \in Nat
      BY FunctionFacts, PlaceFacts
    <3>2. d[1] * Slots \in Nat /\ Buses * Slots \in Nat
          /\ d[1] * Slots + Slots <= Buses * Slots
      BY <3>1, Factors
    <3>3. d[1] * Slots + d[2] \in Nat /\ d[1] * Slots + d[2] < Buses * Slots
      BY <3>1, <3>2
    <3>4. /\ (d[1] * Slots + d[2]) * Funcs + Funcs <= (Buses * Slots) * Funcs
          /\ (d[1] * Slots + d[2]) * Funcs \in Nat /\ (Buses * Slots) * Funcs \in Nat
      BY <3>1, <3>2, <3>3, Factors
    <3>5. Number(at) = (Buses * Slots) * Funcs
      BY <2>1, <3>2, <3>4 DEF Number
    <3>6. Number(d) = (d[1] * Slots + d[2]) * Funcs + d[3]
      BY DEF Number
    <3> QED  BY <3>1, <3>4, <3>5, <3>6
  <2>3. found \in Bijection(1..Len(found), Devices)
    <3>1. found \in [1..Len(found) -> Devices]
      BY <1>1 DEF PciInv
    <3>2. \A d \in Devices : \E i \in 1..Len(found) : found[i] = d
      BY <2>2 DEF PciInv
    <3>3. ASSUME NEW i \in 1..Len(found), NEW j \in 1..Len(found), found[i] = found[j]
          PROVE  i = j
      <4>1. Number(found[i]) \in Nat
        BY <1>1, FunctionFacts, PlaceFacts
      <4>2. ~(i < j) /\ ~(j < i)
        BY <1>1, <3>3, <4>1
      <4> QED  BY <1>1, <4>2
    <3>4. found \in Injection(1..Len(found), Devices)
      BY <3>1, <3>3 DEF Injection, IsInjective
    <3>5. found \in Surjection(1..Len(found), Devices)
      BY <3>1, <3>2 DEF Surjection
    <3> QED  BY <3>4, <3>5 DEF Bijection
  <2>4. ExistsBijection(1..Len(found), Devices)
    BY <2>3 DEF ExistsBijection
  <2> QED  BY <1>1, <2>4, FS_CountingElements
<1> QED  BY <1>2, <1>3

-----------------------------------------------------------------------------
(***************************************************************************)
(* The drive.                                                              *)
(***************************************************************************)

RegisterNames == {"select", "count", "lo", "mid", "hi"}

Drives == [reg : [RegisterNames -> Nat], state : {"idle", "busy", "data", "error"},
           sector : Nat, left : 0..SectorWords]

LEMMA WriteOrder ==
  /\ DOMAIN Registers = 1..5 /\ LastWrite = 6 /\ WaitStep = 7
  /\ Registers[1] = "select" /\ Registers[2] = "count" /\ Registers[3] = "lo"
  /\ Registers[4] = "mid" /\ Registers[5] = "hi"
  /\ \A j \in 1..5 : Registers[j] \in RegisterNames
  /\ \A j, k \in 1..5 : Registers[j] = Registers[k] => j = k
<1>1. /\ DOMAIN Registers = 1..5 /\ Len(Registers) = 5
      /\ Registers[1] = "select" /\ Registers[2] = "count" /\ Registers[3] = "lo"
      /\ Registers[4] = "mid" /\ Registers[5] = "hi"
  BY DEF Registers
<1>2. LastWrite = 6 /\ WaitStep = 7
  BY <1>1 DEF LastWrite, WaitStep
<1>3. \A j \in 1..5 : j \in {1, 2, 3, 4, 5}
  OBVIOUS
<1>4. \A j \in 1..5 : Registers[j] \in RegisterNames
  BY <1>1, <1>3 DEF RegisterNames
<1>5. \A j, k \in 1..5 : Registers[j] = Registers[k] => j = k
  BY <1>1, <1>3
<1> QED  BY <1>1, <1>2, <1>4, <1>5

LEMMA DigitFacts ==
  ASSUME NEW n \in Nat, NEW r \in Nat \ {0}
  PROVE  /\ n \div r \in Nat /\ n % r \in Nat /\ n % r < r
         /\ n = (n \div r) * r + (n % r)
  OBVIOUS

\* The registers hold the digits of the sector number.
LEMMA Digits ==
  ASSUME NEW s \in Nat
  PROVE  /\ s \div (Radix * Radix) = (s \div Radix) \div Radix
         /\ s \div (Radix * Radix * Radix) = ((s \div Radix) \div Radix) \div Radix
<1> DEFINE a == s \div Radix
           b == a \div Radix
           c == b \div Radix
           p == s % Radix
           q == a % Radix
           r == b % Radix
           R2 == Radix * Radix
           R3 == R2 * Radix
<1>1. Radix \in Nat \ {0}
  BY DriveAssumption
<1>2. /\ a \in Nat /\ b \in Nat /\ c \in Nat /\ p \in Nat /\ q \in Nat /\ r \in Nat
      /\ p < Radix /\ q < Radix /\ r < Radix
      /\ s = a * Radix + p /\ a = b * Radix + q /\ b = c * Radix + r
  BY <1>1, DigitFacts
<1> HIDE DEF a, b, c, p, q, r
<1>3. /\ b * Radix \in Nat /\ (b * Radix + q) * Radix = (b * Radix) * Radix + q * Radix
      /\ (b * Radix) * Radix = b * R2 /\ R2 \in Nat
      /\ q * Radix \in Nat /\ q * Radix + Radix <= R2
  BY <1>1, <1>2, Factors
<1>4. /\ c * R2 \in Nat /\ r * R2 \in Nat /\ r * R2 + R2 <= Radix * R2
      /\ Radix * R2 = R3 /\ R3 \in Nat
  <2>1. Radix * R2 = R3
    BY <1>1
  <2>2. /\ r * R2 \in Nat /\ r * R2 + R2 <= Radix * R2 /\ c * R2 \in Nat
        /\ Radix * R2 \in Nat
    BY <1>1, <1>2, <1>3, Factors
  <2> QED  BY <2>1, <2>2
<1>5. s = b * R2 + (q * Radix + p) /\ q * Radix + p \in Nat /\ q * Radix + p < R2
      /\ b * R2 \in Nat
  <2>1. b * R2 \in Nat
    BY <1>2, <1>3, Factors
  <2>2. a * Radix = b * R2 + q * Radix
    BY <1>2, <1>3
  <2> HIDE DEF R2
  <2> QED  BY <1>1, <1>2, <1>3, <2>1, <2>2
<1>6. b * R2 = c * R3 + r * R2 /\ c * R3 \in Nat
  <2>1. /\ (c * Radix + r) * R2 = (c * Radix) * R2 + r * R2
        /\ (c * Radix) * R2 = c * (Radix * R2) /\ c * (Radix * R2) \in Nat
    <3>1. c * Radix \in Nat /\ R2 \in Nat /\ Radix * R2 \in Nat
      BY <1>1, <1>2, <1>3, Factors
    <3> HIDE DEF R2
    <3> QED  BY <1>1, <1>2, <3>1, Factors
  <2> HIDE DEF R2, R3
  <2> QED  BY <1>2, <1>4, <2>1
<1> HIDE DEF R2, R3
<1>7. R2 \in Nat \ {0} /\ R3 \in Nat \ {0}
  BY <1>1, <1>2, <1>3, <1>4, <1>5
<1>8. s \div R2 = b
  BY SMTT(20), <1>2, <1>5, <1>7, DivMod
<1>9. s \div R3 = c
  <2> DEFINE m == r * R2 + (q * Radix + p)
  <2>1. m \in Nat /\ m < R3 /\ s = c * R3 + m
    BY <1>2, <1>3, <1>4, <1>5, <1>6, <1>7
  <2> HIDE DEF m
  <2> QED  BY <1>2, <1>7, <2>1, DivMod
<1> QED  BY <1>8, <1>9 DEF R2, R3, a, b, c

LEMMA SmallDiv ==
  ASSUME NEW n \in Nat, NEW r \in Nat \ {0}, NEW t \in Nat, n < r * t
  PROVE  n \div r < t
<1> DEFINE q == n \div r
           m == n % r
<1>1. q \in Nat /\ m \in Nat /\ n = q * r + m
  BY DigitFacts
<1> HIDE DEF q, m
<1>2. ASSUME t <= q
      PROVE  FALSE
  <2>1. t * r <= q * r /\ t * r \in Nat /\ q * r \in Nat
    <3>1. CASE t = q
      BY <1>1, <3>1
    <3>2. CASE t < q
      BY <1>1, <3>2, Factors
    <3> QED  BY <1>1, <1>2, <3>1, <3>2
  <2>2. t * r = r * t
    OBVIOUS
  <2> QED  BY <1>1, <2>1, <2>2
<1> QED  BY <1>1, <1>2 DEF q

\* The drive takes the number together again that read_sector took apart.
LEMMA AddressedSector ==
  ASSUME NEW s \in Nat, s < Radix * (Radix * (Radix * Radix)),
         NEW reg \in [RegisterNames -> Nat],
         reg["lo"] = RegisterValue("lo", s), reg["mid"] = RegisterValue("mid", s),
         reg["hi"] = RegisterValue("hi", s), reg["select"] = RegisterValue("select", s)
  PROVE  Addressed(reg) = s
<1> DEFINE a == s \div Radix
           b == a \div Radix
           c == b \div Radix
<1>1. Radix \in Nat \ {0} /\ Radix \in Nat
  BY DriveAssumption
<1>2. Radix * Radix \in Nat
  BY <1>1, Factors
<1>3. Radix * (Radix * Radix) \in Nat
  BY <1>1, <1>2, Factors
<1>4. a \in Nat /\ s = a * Radix + (s % Radix) /\ s % Radix \in Nat
  BY <1>1, DigitFacts
<1>5. a < Radix * (Radix * Radix)
  BY <1>1, <1>3, SmallDiv
<1>6. /\ Addressed(reg) = reg["lo"] + Radix * (reg["mid"] + Radix * (reg["hi"] + Radix * reg["select"]))
      /\ RegisterValue("lo", s) = s % Radix
      /\ RegisterValue("mid", s) = a % Radix
      /\ RegisterValue("hi", s) = b % Radix
      /\ RegisterValue("select", s) = c % Radix
  BY Digits DEF Addressed, RegisterValue
<1> HIDE DEF a
<1>7. b \in Nat /\ a = b * Radix + (a % Radix) /\ a % Radix \in Nat
  BY <1>1, <1>4, DigitFacts
<1>8. b < Radix * Radix
  BY <1>1, <1>2, <1>4, <1>5, SmallDiv
<1> HIDE DEF b
<1>9. c \in Nat /\ b = c * Radix + (b % Radix) /\ b % Radix \in Nat
  BY <1>1, <1>7, DigitFacts
<1>10. c < Radix
  BY <1>1, <1>7, <1>8, SmallDiv
<1> HIDE DEF c
<1>11. c % Radix = c
  <2>1. (0 * Radix + c) % Radix = c
    BY <1>1, <1>9, <1>10, DivMod
  <2>2. 0 * Radix + c = c
    BY <1>1, <1>9
  <2> QED  BY <2>1, <2>2
<1>12. (b % Radix) + Radix * c = b
  <2>1. Radix * c = c * Radix /\ Radix * c \in Int
    BY <1>1, <1>9
  <2> QED  BY <1>7, <1>9, <2>1
<1>13. (a % Radix) + Radix * b = a
  <2>1. Radix * b = b * Radix /\ Radix * b \in Int
    BY <1>1, <1>7
  <2> QED  BY <1>4, <1>7, <2>1
<1>14. (s % Radix) + Radix * a = s
  <2>1. Radix * a = a * Radix /\ Radix * a \in Int
    BY <1>1, <1>4
  <2> QED  BY <1>4, <2>1
<1>15. /\ reg["lo"] = s % Radix /\ reg["mid"] = a % Radix /\ reg["hi"] = b % Radix
       /\ reg["select"] = c
  BY <1>6, <1>11
<1> QED  BY <1>6, <1>12, <1>13, <1>14, <1>15

\* What the operations on the drive do to it.
LEMMA DriveWrites ==
  ASSUME NEW d \in Drives, NEW s \in Nat
  PROVE  /\ \A r \in RegisterNames : RegisterValue(r, s) \in Nat
         /\ \A r \in RegisterNames :
              LET e == WriteRegister(d, r, s)
              IN /\ e \in Drives
                 /\ e.state = d.state /\ e.sector = d.sector /\ e.left = d.left
                 /\ e.reg[r] = RegisterValue(r, s)
                 /\ \A q \in RegisterNames : q # r => e.reg[q] = d.reg[q]
         /\ LET e == WriteRegisters(d, s)
            IN /\ e \in Drives
               /\ e.state = d.state /\ e.sector = d.sector /\ e.left = d.left
               /\ \A r \in RegisterNames : e.reg[r] = RegisterValue(r, s)
<1>1. \A r \in RegisterNames : RegisterValue(r, s) \in Nat
  <2>1. /\ Radix \in Nat \ {0} /\ Radix * Radix \in Nat \ {0}
        /\ Radix * Radix * Radix \in Nat \ {0}
    <3>1. Radix \in Nat /\ 1 <= Radix
      BY DriveAssumption
    <3>2. Radix * Radix \in Nat /\ 0 * Radix + Radix <= Radix * Radix /\ 0 * Radix = 0
      BY <3>1, Factors
    <3>3. /\ (Radix * Radix) * Radix \in Nat
          /\ 0 * Radix + Radix <= (Radix * Radix) * Radix
      BY <3>1, <3>2, Factors
    <3> QED  BY <3>1, <3>2, <3>3
  <2>2. /\ s % Radix \in Nat /\ s \div Radix \in Nat /\ s \div (Radix * Radix) \in Nat
        /\ s \div (Radix * Radix * Radix) \in Nat
    BY <2>1, DigitFacts
  <2>3. /\ (s \div Radix) % Radix \in Nat /\ (s \div (Radix * Radix)) % Radix \in Nat
        /\ (s \div (Radix * Radix * Radix)) % Radix \in Nat
    BY <2>1, <2>2, DigitFacts
  <2> QED  BY <2>2, <2>3 DEF RegisterValue, RegisterNames
<1>2. ASSUME NEW r \in RegisterNames
      PROVE  LET e == WriteRegister(d, r, s)
             IN /\ e \in Drives
                /\ e.state = d.state /\ e.sector = d.sector /\ e.left = d.left
                /\ e.reg[r] = RegisterValue(r, s)
                /\ \A q \in RegisterNames : q # r => e.reg[q] = d.reg[q]
  <2> DEFINE f == [d.reg EXCEPT ![r] = RegisterValue(r, s)]
  <2>1. /\ f \in [RegisterNames -> Nat] /\ f[r] = RegisterValue(r, s)
        /\ \A q \in RegisterNames : q # r => f[q] = d.reg[q]
    BY <1>1 DEF Drives
  <2>2. WriteRegister(d, r, s) = [d EXCEPT !.reg = f]
    BY DEF WriteRegister, Drives
  <2> HIDE DEF f
  <2> QED  BY <2>1, <2>2 DEF Drives
<1>3. LET e == WriteRegisters(d, s)
      IN /\ e \in Drives
         /\ e.state = d.state /\ e.sector = d.sector /\ e.left = d.left
         /\ \A r \in RegisterNames : e.reg[r] = RegisterValue(r, s)
  <2> DEFINE f == [r \in DOMAIN d.reg |-> RegisterValue(r, s)]
  <2>1. /\ f \in [RegisterNames -> Nat]
        /\ \A r \in RegisterNames : f[r] = RegisterValue(r, s)
    BY <1>1 DEF Drives
  <2>2. WriteRegisters(d, s) = [d EXCEPT !.reg = f]
    BY DEF WriteRegisters
  <2> HIDE DEF f
  <2> QED  BY <2>1, <2>2 DEF Drives
<1> QED  BY <1>1, <1>2, <1>3

StateIs(d, state, sector, left) ==
  d.state = state /\ d.sector = sector /\ d.left = left

LEMMA DriveStarts ==
  ASSUME NEW d \in Drives
  PROVE  /\ Started(d) \in Drives /\ Started(d).reg = d.reg
         /\ StateIs(Started(d), "busy", Addressed(d.reg), SectorWords)
<1> DEFINE s == Addressed(d.reg)
<1>1. s \in Nat
  <2>1. /\ d.reg["lo"] \in Nat /\ d.reg["mid"] \in Nat /\ d.reg["hi"] \in Nat
        /\ d.reg["select"] \in Nat /\ Radix \in Nat
    BY DriveAssumption DEF Drives, RegisterNames
  <2>2. Radix * d.reg["select"] \in Nat
    BY <2>1, Factors
  <2>3. d.reg["hi"] + Radix * d.reg["select"] \in Nat
    BY <2>1, <2>2
  <2>4. Radix * (d.reg["hi"] + Radix * d.reg["select"]) \in Nat
    BY <2>1, <2>3, Factors
  <2>5. d.reg["mid"] + Radix * (d.reg["hi"] + Radix * d.reg["select"]) \in Nat
    BY <2>1, <2>4
  <2>6. Radix * (d.reg["mid"] + Radix * (d.reg["hi"] + Radix * d.reg["select"])) \in Nat
    BY <2>1, <2>5, Factors
  <2> QED  BY <2>1, <2>6 DEF Addressed
<1>2. SectorWords \in 0..SectorWords
  BY DriveAssumption
<1> HIDE DEF s
<1>3. /\ Started(d).reg = d.reg /\ Started(d).state = "busy" /\ Started(d).sector = s
      /\ Started(d).left = SectorWords /\ Started(d) \in Drives
  <2>1. Started(d) = [d EXCEPT !.state = "busy", !.sector = s, !.left = SectorWords]
    BY DEF Started, s
  <2> QED  BY <1>1, <1>2, <2>1 DEF Drives
<1> QED  BY <1>3 DEF StateIs, s

LEMMA DriveGoesOn ==
  ASSUME NEW d \in Drives
  PROVE  /\ Offered(d) \in Drives /\ StateIs(Offered(d), "data", d.sector, d.left)
         /\ Failed(d) \in Drives /\ StateIs(Failed(d), "error", d.sector, 0)
         /\ Offered(d).reg = d.reg /\ Failed(d).reg = d.reg
<1>1. 0 \in 0..SectorWords
  BY DriveAssumption
<1> QED  BY <1>1 DEF Drives, Offered, Failed, StateIs

LEMMA DriveIsRead ==
  ASSUME NEW d \in Drives, DRQ(d) => d.left > 0
  PROVE  /\ AfterWord(d) \in Drives /\ AfterWords(d) \in Drives
         /\ ~DRQ(d) => AfterWord(d) = d
         /\ DRQ(d) /\ d.left = 1 => StateIs(AfterWord(d), "idle", d.sector, 0)
         /\ DRQ(d) /\ d.left > 1 => StateIs(AfterWord(d), "data", d.sector, d.left - 1)
         /\ DRQ(d) => StateIs(AfterWords(d), "idle", d.sector, 0)
<1>1. 0 \in 0..SectorWords /\ SectorWords \in Nat
  BY DriveAssumption
<1>2. CASE ~DRQ(d)
  BY <1>2 DEF AfterWord, AfterWords
<1>3. ASSUME DRQ(d)
      PROVE  AfterWords(d) \in Drives /\ StateIs(AfterWords(d), "idle", d.sector, 0)
  BY <1>1, <1>3 DEF Drives, AfterWords, StateIs
<1>4. ASSUME DRQ(d), d.left = 1
      PROVE  AfterWord(d) \in Drives /\ StateIs(AfterWord(d), "idle", d.sector, 0)
  BY <1>1, <1>4 DEF Drives, AfterWord, StateIs
<1>5. ASSUME DRQ(d), d.left > 1
      PROVE  /\ AfterWord(d) \in Drives
             /\ StateIs(AfterWord(d), "data", d.sector, d.left - 1)
  <2>1. d.left # 1 /\ d.left - 1 \in 0..SectorWords /\ d.state = "data"
    BY <1>1, <1>5 DEF Drives, DRQ
  <2>2. AfterWord(d) = [d EXCEPT !.left = d.left - 1]
    BY <1>5, <2>1 DEF AfterWord
  <2> QED  BY <2>1, <2>2 DEF Drives, StateIs
<1>6. DRQ(d) => d.left = 1 \/ d.left > 1
  BY <1>1 DEF Drives
<1> QED  BY <1>2, <1>3, <1>4, <1>5, <1>6

-----------------------------------------------------------------------------
(***************************************************************************)
(* The drive between the boot thread and the handler.                      *)
(***************************************************************************)

ReadStages == {"detect_disks", "read_sector"}
Loading == {"malloc", "read_sector"} \cup {"root_cluster"} \cup AfterRoot
IsArea(a) == a = [k \in 1..SectorWords |-> a[k]]
Target == IF stage = "detect_disks" THEN buffer ELSE bs
NextWord == io - WaitStep

\* What is always so of the boot thread's place, the areas and the drive.
PlaceInv ==
  /\ stage \in AllStages
  /\ io \in 0..(WaitStep + SectorWords) /\ (stage \notin ReadStages => io = 0)
  /\ command \in {"none", "issue", "wait", "done"}
  /\ IsArea(buffer) /\ (stage \in Loading \ {"malloc"} => IsArea(bs))
  /\ drive \in Drives
  /\ clash \in BOOLEAN /\ busy \in BOOLEAN /\ early \in BOOLEAN

\* Unless a command waits for the drive, the boot thread finds it as it left
\* it, or idle.
BootDrive ==
  command # "wait" =>
    /\ io <= LastWrite => drive.state \in {"idle", "error"}
    /\ io = WaitStep /\ drive.state \in {"busy", "data"} => drive.left = SectorWords
    /\ io > WaitStep /\ drive.state # "idle" =>
         drive.state = "data" /\ drive.left = SectorWords + 1 - NextWord

\* A read in which no command has come in.
OwnRead ==
  Reading /\ ~clash =>
    /\ \A j \in 1..5 : j < io /\ io <= LastWrite =>
         drive.reg[Registers[j]] = RegisterValue(Registers[j], 0)
    /\ io >= WaitStep => drive.sector = 0 /\ drive.state # "idle"
    /\ \A k \in 1..SectorWords : k < NextWord => Target[k] = <<0, k>>

\* A command that found the drive idle.
OwnCommand ==
  command = "wait" /\ ~busy =>
    /\ asked \in CommandSectors /\ drive.sector = asked
    /\ drive.state \in {"busy", "data"} => drive.left = SectorWords

\* The handler's command leaves its mark on the histories.
Marked ==
  /\ command \in {"wait", "done"} /\ Reading => clash
  /\ command \in {"wait", "done"} /\ stage \notin AfterRoot => early
  /\ clash => early
  /\ drive.state \in {"busy", "data"} => drive.left > 0

DriveInv == PlaceInv /\ BootDrive /\ OwnRead /\ Marked

FormatOf(v) == IF v = "ISO9660" THEN "unknown" ELSE v

ContentInv ==
  /\ volume \in Volumes
  /\ ~early =>
       /\ stage \in Loading => format = FormatOf(volume)
       /\ stage \in {"root_cluster"} \cup AfterRoot => bs = Contents(0)
       /\ stage \in AfterRoot /\ path = "/" => cluster = RootOf(Contents(0))

LEMMA InitDriveInv ==
  ASSUME Init
  PROVE  DriveInv
<1>1. stage = "init_gdt"
  BY StagePlaces DEF Init
<1>2. drive \in Drives /\ drive.state = "idle" /\ drive.left = 0
  <2>1. PICK reg \in [{"select", "count", "lo", "mid", "hi"} -> {0, Radix - 1}] :
          drive = IdleDrive(reg)
    BY DEF Init
  <2>2. reg \in [RegisterNames -> Nat]
    <3>1. {0, Radix - 1} \subseteq Nat
      BY DriveAssumption
    <3> QED  BY <3>1 DEF RegisterNames
  <2> QED  BY <2>1, <2>2, DriveAssumption DEF IdleDrive, Drives
<1>3. IsArea(buffer)
  BY DEF Init, IsArea, Empty
<1>4. /\ io = 0 /\ command = "none" /\ clash = FALSE /\ busy = FALSE /\ early = FALSE
  BY DEF Init
<1>5. PlaceInv
  <2>1. stage \in AllStages /\ stage \notin Loading
    BY <1>1 DEF AllStages, Loading, AfterRoot
  <2>2. 0 \in 0..(WaitStep + SectorWords)
    BY WriteOrder, DriveAssumption
  <2> QED  BY <1>2, <1>3, <1>4, <2>1, <2>2 DEF PlaceInv
<1>6. BootDrive
  BY <1>2, <1>4, WriteOrder DEF BootDrive
<1>7. OwnRead /\ Marked
  BY <1>1, <1>2, <1>4 DEF OwnRead, Marked, Reading
<1> QED  BY <1>5, <1>6, <1>7 DEF DriveInv

LEMMA PassedFacts ==
  ASSUME PlaceInv
  PROVE  Passed("root_cluster") <=> stage \in AfterRoot
  BY PassedStages DEF PlaceInv

\* The steps of the boot thread that leave the drive alone.
QuietBoot ==
  \/ InitGdt \/ InitIdt \/ PciRound \/ PciEnd \/ Malloc \/ RootCluster \/ Prompt
  \/ Cli \/ JumpToUserMode

LEMMA QuietBootFacts ==
  ASSUME QuietBoot
  PROVE  /\ command = "none" /\ UNCHANGED <<io, drive, buffer, command, clash, busy, early>>
         /\ stage \in AllStages \ {"detect_disks", "read_sector", "end"}
         /\ stage' \in {stage, After(stage)}
         /\ bs' = bs \/ (stage = "malloc" /\ bs' = Empty)
  BY DEF QuietBoot, InitGdt, InitIdt, PciRound, PciEnd, Malloc, RootCluster, Prompt,
         Cli, JumpToUserMode, In, AllStages, diskVars, handlerVars

LEMMA QuietBootKeepsDrive ==
  ASSUME DriveInv, QuietBoot
  PROVE  DriveInv'
<1>1. /\ command = "none" /\ io = 0 /\ stage' \in AllStages
      /\ UNCHANGED <<io, drive, buffer, command, clash, busy, early>>
  <2>1. stage' \in AllStages
    BY QuietBootFacts, Afters DEF AllStages
  <2> QED  BY <2>1, QuietBootFacts DEF DriveInv, PlaceInv, ReadStages
<1>2. stage' \in Loading \ {"malloc"} => IsArea(bs')
  <2>1. IsArea(Empty)
    BY DEF IsArea, Empty
  <2>2. CASE stage = "malloc"
    <3>1. QuietBoot => bs' = Empty \/ stage' = stage
      BY <2>2 DEF QuietBoot, InitGdt, InitIdt, PciRound, PciEnd, Malloc, RootCluster, Prompt,
         Cli, JumpToUserMode, In
    <3>2. stage' = stage \/ bs' = Empty
      BY <3>1
    <3> QED  BY <2>1, <2>2, <3>2 DEF Loading
  <2>3. CASE stage # "malloc"
    <3>1. bs' = bs
      BY <2>3, QuietBootFacts
    <3>2. stage' \in Loading \ {"malloc"} => stage \in Loading \ {"malloc"}
      BY <2>3, QuietBootFacts, Afters DEF AllStages, Loading, AfterRoot
    <3> QED  BY <3>1, <3>2 DEF DriveInv, PlaceInv
  <2> QED  BY <2>2, <2>3
<1>3. PlaceInv'
  BY <1>1, <1>2 DEF DriveInv, PlaceInv
<1>4. BootDrive'
  BY <1>1, WriteOrder DEF DriveInv, BootDrive
<1>5. OwnRead'
  BY <1>1 DEF OwnRead, Reading
<1>6. Marked'
  BY <1>1 DEF DriveInv, Marked
<1> QED  BY <1>3, <1>4, <1>5, <1>6 DEF DriveInv

LEMMA ReadStartKeepsDrive ==
  ASSUME DriveInv, ReadStart
  PROVE  DriveInv'
<1>1. /\ stage \in ReadStages /\ io = 0 /\ io' = 1 /\ clash' = FALSE /\ command = "none"
      /\ UNCHANGED <<stage, drive, buffer, bs, command, busy, early>>
  BY DEF ReadStart, In, ReadStages, diskVars, handlerVars
<1>2. drive.state \in {"idle", "error"}
  BY <1>1, WriteOrder DEF DriveInv, BootDrive
<1>3. PlaceInv'
  <2>1. 1 \in 0..(WaitStep + SectorWords)
    BY WriteOrder, DriveAssumption
  <2> QED  BY <1>1, <2>1 DEF DriveInv, PlaceInv
<1>4. BootDrive'
  BY <1>1, <1>2, WriteOrder DEF BootDrive
<1>5. OwnRead'
  <2>1. ~(io' >= WaitStep) /\ \A j \in 1..5 : ~(j < io')
    BY <1>1, WriteOrder
  <2>2. NextWord' = 1 - 7
    BY <1>1, WriteOrder DEF NextWord
  <2>3. \A k \in 1..SectorWords : ~(k < NextWord')
    BY <2>2, DriveAssumption
  <2> QED  BY <2>1, <2>3 DEF OwnRead
<1>6. Marked'
  BY <1>1, <1>2 DEF Marked
<1> QED  BY <1>3, <1>4, <1>5, <1>6 DEF DriveInv

LEMMA ReadWriteKeepsDrive ==
  ASSUME DriveInv, ReadWrite
  PROVE  DriveInv'
<1>1. /\ stage \in ReadStages /\ command = "none" /\ io \in 1..5 /\ io' = io + 1
      /\ drive' = WriteRegister(drive, Registers[io], 0)
      /\ UNCHANGED <<stage, buffer, bs, command, clash, busy, early>>
  BY WriteOrder DEF ReadWrite, In, ReadStages, diskVars, handlerVars
<1>2. drive \in Drives /\ Registers[io] \in RegisterNames /\ 0 \in Nat
  BY <1>1, WriteOrder DEF DriveInv, PlaceInv
<1>3. /\ drive' \in Drives /\ drive'.state = drive.state /\ drive'.left = drive.left
      /\ drive'.reg[Registers[io]] = RegisterValue(Registers[io], 0)
      /\ \A q \in RegisterNames : q # Registers[io] => drive'.reg[q] = drive.reg[q]
  BY <1>1, <1>2, DriveWrites
<1>4. drive.state \in {"idle", "error"}
  BY <1>1, WriteOrder DEF DriveInv, BootDrive
<1>5. io' \in 2..6
  BY <1>1
<1>6. PlaceInv'
  <2>1. io' \in 0..(WaitStep + SectorWords)
    BY <1>5, WriteOrder, DriveAssumption
  <2> QED  BY <1>1, <1>3, <2>1 DEF DriveInv, PlaceInv
<1>7. BootDrive'
  BY <1>1, <1>3, <1>4, <1>5, WriteOrder DEF BootDrive
<1>8. OwnRead'
  <2>1. ~(io' >= WaitStep) /\ NextWord' = io' - 7
    BY <1>5, WriteOrder DEF NextWord
  <2>2. \A k \in 1..SectorWords : ~(k < NextWord')
    <3>1. \A i \in 2..6 : \A k \in 1..SectorWords : ~(k < i - 7)
      BY DriveAssumption
    <3> QED  BY <1>5, <2>1, <3>1
  <2>3. ASSUME ~clash, NEW j \in 1..5, j < io'
        PROVE  drive'.reg[Registers[j]] = RegisterValue(Registers[j], 0)
    <3>1. CASE j = io
      BY <1>3, <3>1
    <3>2. CASE j # io
      <4>1. j < io /\ io <= LastWrite
        BY <1>1, <2>3, <3>2, WriteOrder
      <4>2. Reading
        BY <1>1 DEF Reading, ReadStages
      <4>3. drive.reg[Registers[j]] = RegisterValue(Registers[j], 0)
        BY <2>3, <4>1, <4>2 DEF DriveInv, OwnRead
      <4>4. Registers[j] # Registers[io] /\ Registers[j] \in RegisterNames
        BY <1>1, <3>2, WriteOrder
      <4> QED  BY <1>3, <4>3, <4>4
    <3> QED  BY <3>1, <3>2
  <2> QED  BY <1>1, <2>1, <2>2, <2>3 DEF OwnRead
<1>9. Marked'
  BY <1>1, <1>3, <1>4 DEF DriveInv, Marked
<1> QED  BY <1>6, <1>7, <1>8, <1>9 DEF DriveInv

LEMMA RegistersHoldZero ==
  ASSUME NEW reg \in [RegisterNames -> Nat],
         \A j \in 1..5 : reg[Registers[j]] = RegisterValue(Registers[j], 0)
  PROVE  Addressed(reg) = 0
<1>1. /\ reg["lo"] = RegisterValue("lo", 0) /\ reg["mid"] = RegisterValue("mid", 0)
      /\ reg["hi"] = RegisterValue("hi", 0) /\ reg["select"] = RegisterValue("select", 0)
  <2>1. 1 \in 1..5 /\ 3 \in 1..5 /\ 4 \in 1..5 /\ 5 \in 1..5
    OBVIOUS
  <2> QED  BY <2>1, WriteOrder
<1>2. 0 < Radix * (Radix * (Radix * Radix))
  <2>1. Radix \in Nat /\ 0 < Radix
    BY DriveAssumption
  <2>2. Radix * Radix \in Nat /\ 0 * Radix + Radix <= Radix * Radix /\ 0 * Radix = 0
    BY <2>1, Factors
  <2>3. /\ Radix * (Radix * Radix) \in Nat /\ 0 < Radix * Radix
        /\ 0 * (Radix * Radix) + Radix * Radix <= Radix * (Radix * Radix)
        /\ 0 * (Radix * Radix) = 0
    BY <2>1, <2>2, Factors
  <2> DEFINE rrr == Radix * (Radix * Radix)
  <2>4. rrr \in Nat /\ 0 < rrr
    BY <2>2, <2>3
  <2> HIDE DEF rrr
  <2>5. 0 * rrr + rrr <= Radix * rrr /\ 0 * rrr = 0
    BY <2>1, <2>4, Factors
  <2> QED  BY <2>1, <2>4, <2>5, Factors DEF rrr
<1> QED  BY <1>1, <1>2, AddressedSector

LEMMA ReadCommandKeepsDrive ==
  ASSUME DriveInv, ReadCommand
  PROVE  DriveInv'
<1>1. /\ stage \in ReadStages /\ command = "none" /\ io = 6 /\ io' = 7
      /\ drive' \in AfterCommand(drive)
      /\ UNCHANGED <<stage, buffer, bs, command, clash, busy, early>>
  BY WriteOrder DEF ReadCommand, In, ReadStages, diskVars, handlerVars
<1>2. drive \in Drives /\ drive.state \in {"idle", "error"}
  BY <1>1, WriteOrder DEF DriveInv, PlaceInv, BootDrive
<1>3. drive' = Started(drive)
  BY <1>1, <1>2 DEF AfterCommand
<1>4. /\ drive' \in Drives /\ drive'.state = "busy" /\ drive'.left = SectorWords
      /\ drive'.sector = Addressed(drive.reg)
  BY <1>2, <1>3, DriveStarts DEF StateIs
<1>5. PlaceInv'
  <2>1. io' \in 0..(WaitStep + SectorWords)
    BY <1>1, WriteOrder, DriveAssumption
  <2> QED  BY <1>1, <1>4, <2>1 DEF DriveInv, PlaceInv
<1>6. BootDrive'
  BY <1>1, <1>4, WriteOrder DEF BootDrive
<1>7. OwnRead'
  <2>1. ~(io' <= LastWrite)
    BY <1>1, WriteOrder
  <2>2. \A k \in 1..SectorWords : ~(k < NextWord')
    BY <1>1, WriteOrder, DriveAssumption DEF NextWord
  <2>3. ASSUME ~clash
        PROVE  drive'.sector = 0
    <3>1. Reading /\ io <= LastWrite /\ \A j \in 1..5 : j < io
      BY <1>1, WriteOrder DEF Reading, ReadStages
    <3>2. \A j \in 1..5 : drive.reg[Registers[j]] = RegisterValue(Registers[j], 0)
      BY <2>3, <3>1 DEF DriveInv, OwnRead
    <3>3. drive.reg \in [RegisterNames -> Nat]
      BY <1>2 DEF Drives
    <3> QED  BY <1>4, <3>2, <3>3, RegistersHoldZero
  <2> QED  BY <1>1, <1>4, <2>1, <2>2, <2>3 DEF OwnRead
<1>8. Marked'
  BY <1>1, <1>4, DriveAssumption DEF DriveInv, Marked
<1> QED  BY <1>5, <1>6, <1>7, <1>8 DEF DriveInv

LEMMA ReadWaitKeepsDrive ==
  ASSUME DriveInv, ReadWait
  PROVE  DriveInv'
<1>1. /\ stage \in ReadStages /\ command = "none" /\ io = 7 /\ io' = 8
      /\ drive.state = "data"
      /\ UNCHANGED <<stage, drive, buffer, bs, command, clash, busy, early>>
  BY WriteOrder DEF ReadWait, In, ReadStages, diskVars, handlerVars, DRQ
<1>2. drive \in Drives /\ drive.left = SectorWords
  BY <1>1, WriteOrder DEF DriveInv, PlaceInv, BootDrive
<1>3. NextWord' = 1
  BY <1>1, WriteOrder DEF NextWord
<1>4. PlaceInv'
  <2>1. io' \in 0..(WaitStep + SectorWords)
    BY <1>1, WriteOrder, DriveAssumption
  <2> QED  BY <1>1, <2>1 DEF DriveInv, PlaceInv
<1>5. BootDrive'
  <2>1. SectorWords = SectorWords + 1 - 1
    BY DriveAssumption
  <2> QED  BY <1>1, <1>2, <1>3, <2>1, WriteOrder DEF BootDrive
<1>6. OwnRead'
  <2>1. ~(io' <= LastWrite) /\ \A k \in 1..SectorWords : ~(k < NextWord')
    BY <1>1, <1>3, WriteOrder, DriveAssumption
  <2>2. ~clash => drive.sector = 0
    <3>1. Reading /\ io >= WaitStep
      BY <1>1, WriteOrder DEF Reading, ReadStages
    <3> QED  BY <3>1 DEF DriveInv, OwnRead
  <2> QED  BY <1>1, <2>1, <2>2 DEF OwnRead
<1>7. Marked'
  BY <1>1 DEF DriveInv, Marked
<1> QED  BY <1>4, <1>5, <1>6, <1>7 DEF DriveInv

\* The word that read_sector stores, and where it goes on.
LEMMA ReadWordFacts ==
  ASSUME DriveInv, ReadWord
  PROVE  /\ stage \in ReadStages /\ command = "none" /\ NextWord \in 1..SectorWords
         /\ io = 7 + NextWord /\ Reading
         /\ UNCHANGED <<command, clash, busy, early, volume, cluster, path>>
         /\ drive' = AfterWord(drive)
         /\ stage = "detect_disks" =>
              buffer' = Stored(buffer, NextWord, Word(drive)) /\ bs' = bs
         /\ stage = "read_sector" =>
              bs' = Stored(bs, NextWord, Word(drive)) /\ buffer' = buffer
         /\ NextWord = SectorWords => io' = 0 /\ stage' = After(stage)
         /\ NextWord # SectorWords => io' = io + 1 /\ stage' = stage
         /\ IsArea(buffer') /\ (stage = "read_sector" => IsArea(bs'))
<1>1. stage \in ReadStages /\ command = "none" /\ io > 7 /\ NextWord = io - 7
  BY WriteOrder DEF ReadWord, In, ReadStages, NextWord
<1>2. io \in 0..(7 + SectorWords)
  BY WriteOrder DEF DriveInv, PlaceInv
<1>3. NextWord \in 1..SectorWords /\ io = 7 + NextWord
  BY <1>1, <1>2, DriveAssumption
<1>4. /\ stage = "detect_disks" =>
              buffer' = Stored(buffer, NextWord, Word(drive)) /\ bs' = bs
      /\ stage = "read_sector" =>
              bs' = Stored(bs, NextWord, Word(drive)) /\ buffer' = buffer
      /\ NextWord = SectorWords => io' = 0 /\ stage' = After(stage)
      /\ NextWord # SectorWords => io' = io + 1 /\ stage' = stage
  BY DEF ReadWord, NextWord
<1>5. \A a, w : IsArea(a) => IsArea(Stored(a, NextWord, w))
  BY <1>3 DEF IsArea, Stored
<1>6. IsArea(buffer) /\ (stage = "read_sector" => IsArea(bs))
  BY DEF DriveInv, PlaceInv, Loading
<1>7. IsArea(buffer') /\ (stage = "read_sector" => IsArea(bs'))
  BY <1>1, <1>4, <1>5, <1>6 DEF ReadStages
<1>8. /\ UNCHANGED <<command, clash, busy, early, volume, cluster, path>>
      /\ drive' = AfterWord(drive)
  BY DEF ReadWord, handlerVars
<1>9. Reading
  <2>1. io > 0
    BY <1>2, <1>1
  <2> QED  BY <1>1, <2>1 DEF Reading, ReadStages
<1> QED  BY <1>1, <1>3, <1>4, <1>7, <1>8, <1>9

\* In a read of its own the words are those of sector 0.
LEMMA WordsAreRight ==
  ASSUME DriveInv, ReadWord, ~clash
  PROVE  /\ drive.state = "data" /\ drive.sector = 0
         /\ drive.left = SectorWords + 1 - NextWord
         /\ \A k \in 1..SectorWords : k <= NextWord =>
              (IF stage = "detect_disks" THEN buffer' ELSE bs')[k] = <<0, k>>
<1>1. /\ stage \in ReadStages /\ command = "none" /\ NextWord \in 1..SectorWords
      /\ io = 7 + NextWord /\ Reading
  BY ReadWordFacts
<1>2. io >= WaitStep /\ io > WaitStep
  BY <1>1, WriteOrder, DriveAssumption
<1>3. drive.sector = 0 /\ drive.state # "idle"
  BY <1>1, <1>2 DEF DriveInv, OwnRead
<1>4. drive.state = "data" /\ drive.left = SectorWords + 1 - NextWord
  BY <1>1, <1>2, <1>3 DEF DriveInv, BootDrive
<1>5. Word(drive) = <<0, NextWord>>
  <2>1. SectorWords - drive.left + 1 = NextWord
    BY <1>1, <1>4, DriveAssumption
  <2> QED  BY <1>3, <1>4, <2>1 DEF Word, DRQ
<1>6. \A k \in 1..SectorWords : k < NextWord => Target[k] = <<0, k>>
  BY <1>1 DEF DriveInv, OwnRead
<1>7. IsArea(Target)
  BY <1>1 DEF DriveInv, PlaceInv, Loading, Target, ReadStages
<1>8. (IF stage = "detect_disks" THEN buffer' ELSE bs') = Stored(Target, NextWord, <<0, NextWord>>)
  BY <1>1, <1>5, ReadWordFacts DEF Target, ReadStages
<1>9. ASSUME NEW k \in 1..SectorWords, k <= NextWord
      PROVE  Stored(Target, NextWord, <<0, NextWord>>)[k] = <<0, k>>
  <2>1. k \in DOMAIN Target
    BY <1>7 DEF IsArea
  <2>2. CASE k = NextWord
    BY <2>1, <2>2 DEF Stored
  <2>3. CASE k # NextWord
    <3>1. k < NextWord
      BY <1>1, <1>9, <2>3, DriveAssumption
    <3> QED  BY <1>6, <2>1, <2>3, <3>1 DEF Stored
  <2> QED  BY <2>2, <2>3
<1> QED  BY <1>3, <1>4, <1>8, <1>9

LEMMA ReadWordKeepsDrive ==
  ASSUME DriveInv, ReadWord
  PROVE  DriveInv'
<1>1. /\ stage \in ReadStages /\ command = "none" /\ NextWord \in 1..SectorWords
      /\ io = 7 + NextWord /\ Reading /\ UNCHANGED <<command, clash, busy, early>>
      /\ drive' = AfterWord(drive)
      /\ NextWord = SectorWords => io' = 0 /\ stage' = After(stage)
      /\ NextWord # SectorWords => io' = io + 1 /\ stage' = stage
      /\ IsArea(buffer') /\ (stage = "read_sector" => IsArea(bs'))
  BY ReadWordFacts
<1>2. /\ drive \in Drives
      /\ drive.state # "idle" => drive.state = "data" /\ drive.left = SectorWords + 1 - NextWord
  <2>1. io > WaitStep
    BY <1>1, WriteOrder, DriveAssumption
  <2> QED  BY <1>1, <2>1 DEF DriveInv, PlaceInv, BootDrive
<1>3. /\ drive' \in Drives
      /\ drive.state = "idle" => drive' = drive
      /\ NextWord = SectorWords => drive'.state = "idle"
      /\ NextWord # SectorWords /\ drive.state # "idle" =>
           /\ drive'.state = "data" /\ drive'.sector = drive.sector
           /\ drive'.left = SectorWords + 1 - (NextWord + 1) /\ drive'.left > 0
  <2>1. CASE drive.state = "idle"
    BY <1>1, <1>2, <2>1 DEF AfterWord, DRQ
  <2>2. CASE drive.state # "idle" /\ NextWord = SectorWords
    <3>1. DRQ(drive) /\ drive.left = 1
      BY <1>2, <2>2, DriveAssumption DEF DRQ
    <3> QED  BY <1>1, <1>2, <2>2, <3>1, DriveIsRead DEF StateIs
  <2>3. CASE drive.state # "idle" /\ NextWord # SectorWords
    <3>1. /\ DRQ(drive) /\ drive.left > 1
          /\ drive.left - 1 = SectorWords + 1 - (NextWord + 1) /\ drive.left - 1 > 0
      <4>1. drive.left = SectorWords + 1 - NextWord
        BY <1>2, <2>3
      <4>2. NextWord < SectorWords
        BY <1>1, <2>3, DriveAssumption
      <4>3. drive.left > 1 /\ drive.left - 1 = SectorWords + 1 - (NextWord + 1)
            /\ drive.left - 1 > 0
        BY <1>1, <4>1, <4>2, DriveAssumption
      <4> QED  BY <1>2, <2>3, <4>3 DEF DRQ
    <3>2. drive.left > 0
      BY <1>2, <3>1 DEF Drives
    <3>3. drive' \in Drives /\ StateIs(drive', "data", drive.sector, drive.left - 1)
      BY <1>1, <1>2, <3>1, <3>2, DriveIsRead
    <3> QED  BY <2>3, <3>1, <3>3 DEF StateIs
  <2> QED  BY <2>1, <2>2, <2>3
<1>4. PlaceInv'
  <2>1. io' \in 0..(WaitStep + SectorWords) /\ stage' \in AllStages
        /\ (stage' \notin ReadStages => io' = 0)
    <3>1. CASE NextWord = SectorWords
      BY <1>1, <3>1, Afters, WriteOrder, DriveAssumption DEF ReadStages, AllStages
    <3>2. CASE NextWord # SectorWords
      <4>1. io' = 7 + NextWord + 1 /\ NextWord + 1 <= SectorWords
        BY <1>1, <3>2, DriveAssumption
      <4>2. io' \in 0..(WaitStep + SectorWords)
        BY <1>1, <4>1, WriteOrder, DriveAssumption
      <4> QED  BY <1>1, <3>2, <4>2 DEF ReadStages, AllStages
    <3> QED  BY <3>1, <3>2
  <2>2. stage' \in Loading \ {"malloc"} => stage = "read_sector"
    BY <1>1, Afters DEF ReadStages, Loading, AfterRoot
  <2> QED  BY <1>1, <1>3, <2>1, <2>2 DEF DriveInv, PlaceInv
<1>5. BootDrive'
  <2>1. CASE NextWord = SectorWords
    BY <1>1, <1>3, <2>1, WriteOrder DEF BootDrive
  <2>2. CASE NextWord # SectorWords
    <3>1. io' = 8 + NextWord /\ NextWord' = NextWord + 1
      <4>1. NextWord' = io' - 7
        BY WriteOrder DEF NextWord
      <4> QED  BY <1>1, <2>2, <4>1, DriveAssumption
    <3>2. ~(io' <= LastWrite) /\ io' # WaitStep
      BY <1>1, <3>1, WriteOrder, DriveAssumption
    <3> QED  BY <1>3, <2>2, <3>1, <3>2 DEF BootDrive
  <2> QED  BY <2>1, <2>2
<1>6. OwnRead'
  <2>1. CASE NextWord = SectorWords
    BY <1>1, <2>1 DEF OwnRead, Reading
  <2>2. CASE NextWord # SectorWords /\ ~clash
    <3>1. io' = 8 + NextWord /\ NextWord' = NextWord + 1
      <4>1. NextWord' = io' - 7
        BY WriteOrder DEF NextWord
      <4> QED  BY <1>1, <2>2, <4>1, DriveAssumption
    <3>2. ~(io' <= LastWrite)
      BY <1>1, <3>1, WriteOrder, DriveAssumption
    <3>3. drive'.sector = 0 /\ drive'.state = "data"
      BY <1>3, <2>2, WordsAreRight
    <3>4. Target' = IF stage = "detect_disks" THEN buffer' ELSE bs'
      BY <1>1, <2>2 DEF Target
    <3>5. \A k \in 1..SectorWords : k < NextWord' => Target'[k] = <<0, k>>
      <4>1. \A k \in 1..SectorWords : k < NextWord' => k <= NextWord
        BY <1>1, <3>1, DriveAssumption
      <4> QED  BY <2>2, <3>4, <4>1, WordsAreRight
    <3> QED  BY <3>2, <3>3, <3>5 DEF OwnRead
  <2>3. CASE clash
    BY <1>1, <2>3 DEF OwnRead
  <2> QED  BY <2>1, <2>2, <2>3
<1>7. Marked'
  <2>1. stage' \in AfterRoot => stage \in AfterRoot
    BY <1>1, Afters DEF AfterRoot, ReadStages
  <2> QED  BY <1>1, <1>3, <2>1 DEF DriveInv, Marked
<1> QED  BY <1>4, <1>5, <1>6, <1>7 DEF DriveInv

\* The handler's steps: what they leave alone.
LEMMA HandlerIssueFacts ==
  ASSUME PlaceInv, HandlerIssue
  PROVE  /\ command = "issue" /\ command' = "wait" /\ asked' \in CommandSectors
         /\ drive' \in AfterCommand(WriteRegisters(drive, asked'))
         /\ busy' = ~(drive.state \in {"idle", "error"})
         /\ clash' = (clash \/ Reading)
         /\ early' = (early \/ stage \notin AfterRoot)
         /\ UNCHANGED <<stage, io, buffer, bs>>
  BY PassedFacts DEF HandlerIssue, diskVars

LEMMA IssueKeepsDrive ==
  ASSUME DriveInv, HandlerIssue
  PROVE  DriveInv'
<1>1. /\ command = "issue" /\ command' = "wait" /\ asked' \in CommandSectors
      /\ drive' \in AfterCommand(WriteRegisters(drive, asked'))
      /\ busy' = ~(drive.state \in {"idle", "error"})
      /\ clash' = (clash \/ Reading) /\ early' = (early \/ stage \notin AfterRoot)
      /\ UNCHANGED <<stage, io, buffer, bs>>
  BY HandlerIssueFacts DEF DriveInv
<1> DEFINE d == WriteRegisters(drive, asked')
<1>2. /\ d \in Drives /\ d.state = drive.state /\ d.left = drive.left
  <2>1. drive \in Drives /\ asked' \in Nat
    BY <1>1, BootAssumption DEF DriveInv, PlaceInv
  <2> QED  BY <2>1, DriveWrites
<1>3. /\ Started(d) \in Drives /\ Started(d).left = SectorWords
  BY <1>2, DriveStarts DEF StateIs
<1>4. drive' = d \/ drive' = Started(d)
  BY <1>1 DEF AfterCommand
<1> HIDE DEF d
<1>5. drive' \in Drives /\ (drive'.state \in {"busy", "data"} => drive'.left > 0)
  BY <1>2, <1>3, <1>4, DriveAssumption DEF DriveInv, Marked
<1>6. PlaceInv'
  <2>1. clash' \in BOOLEAN /\ busy' \in BOOLEAN /\ early' \in BOOLEAN
    BY <1>1 DEF DriveInv, PlaceInv
  <2> QED  BY <1>1, <1>5, <2>1 DEF DriveInv, PlaceInv
<1>7. BootDrive'
  BY <1>1 DEF BootDrive
<1>8. OwnRead'
  <2>1. Reading' = Reading
    BY <1>1 DEF Reading
  <2> QED  BY <1>1, <2>1 DEF OwnRead
<1>9. Marked'
  <2>1. Reading' = Reading /\ (Reading => stage \notin AfterRoot)
    BY <1>1 DEF Reading, AfterRoot
  <2>2. clash' => early'
    BY <1>1, <2>1 DEF DriveInv, Marked
  <2> QED  BY <1>1, <1>5, <2>1, <2>2 DEF Marked
<1> QED  BY <1>6, <1>7, <1>8, <1>9 DEF DriveInv

\* The command's words leave the drive idle; its end and its beginning leave
\* the drive alone.
LEMMA TransferKeepsDrive ==
  ASSUME DriveInv, HandlerTransfer
  PROVE  DriveInv'
<1>1. /\ command = "wait" /\ command' \in {"issue", "done"} /\ DRQ(drive)
      /\ drive' = AfterWords(drive)
      /\ UNCHANGED <<stage, io, buffer, bs, clash, busy, early>>
  BY DEF HandlerTransfer, diskVars
<1>2. drive' \in Drives /\ drive'.state = "idle"
  <2>1. drive \in Drives /\ drive.left > 0
    BY <1>1 DEF DriveInv, PlaceInv, Marked, DRQ
  <2> QED  BY <1>1, <2>1, DriveIsRead DEF StateIs
<1>3. PlaceInv'
  BY <1>1, <1>2 DEF DriveInv, PlaceInv
<1>4. BootDrive'
  BY <1>2, WriteOrder DEF BootDrive
<1>5. OwnRead' /\ Marked'
  <2>1. Reading' = Reading /\ (Reading => clash)
    BY <1>1 DEF Reading, DriveInv, Marked
  <2>2. OwnRead'
    BY <1>1, <2>1 DEF OwnRead
  <2>3. Marked'
    BY <1>1, <1>2, <2>1 DEF DriveInv, Marked
  <2> QED  BY <2>2, <2>3
<1> QED  BY <1>3, <1>4, <1>5 DEF DriveInv

LEMMA SilentKeepsDrive ==
  ASSUME DriveInv,
         UNCHANGED <<stage, io, buffer, bs, drive, clash, busy>>,
         \/ UNCHANGED <<command, early>>
         \/ command = "none" /\ command' = "issue" /\ early' = early
         \/ command = "done" /\ command' = "none" /\ early' = early
         \/ command = "issue" /\ command' = "issue" /\ early' \in BOOLEAN /\ (early => early')
  PROVE  DriveInv'
<1>1. PlaceInv'
  BY DEF DriveInv, PlaceInv
<1>2. BootDrive'
  <2>1. command' # "wait" => command # "wait"
    OBVIOUS
  <2> QED  BY <2>1 DEF DriveInv, BootDrive, NextWord
<1>3. OwnRead'
  BY DEF DriveInv, OwnRead, Reading, NextWord, Target
<1>4. Marked'
  <2>1. /\ command' \in {"wait", "done"} => command = command' /\ early' = early
        /\ early => early'
    OBVIOUS
  <2>2. Reading' = Reading
    BY DEF Reading
  <2> QED  BY <2>1, <2>2 DEF DriveInv, Marked
<1> QED  BY <1>1, <1>2, <1>3, <1>4 DEF DriveInv

LEMMA AnswersKeepDrive ==
  ASSUME DriveInv, DriveAnswers
  PROVE  DriveInv'
<1>1. /\ drive.state = "busy" /\ drive' \in {Offered(drive), Failed(drive)}
      /\ UNCHANGED <<stage, io, buffer, bs, command, clash, busy, early>>
  BY DEF DriveAnswers, diskVars, handlerVars
<1>2. /\ drive' \in Drives /\ drive'.sector = drive.sector /\ drive'.reg = drive.reg
      /\ \/ drive'.state = "data" /\ drive'.left = drive.left
         \/ drive'.state = "error"
  <2>1. drive \in Drives
    BY DEF DriveInv, PlaceInv
  <2> QED  BY <1>1, <2>1, DriveGoesOn DEF StateIs
<1>3. PlaceInv'
  BY <1>1, <1>2 DEF DriveInv, PlaceInv
<1>4. BootDrive'
  <2>1. CASE command = "wait"
    BY <1>1, <2>1 DEF BootDrive
  <2>2. CASE command # "wait"
    <3>1. ~(io <= LastWrite) /\ ~(io > WaitStep)
      BY <1>1, <2>2 DEF DriveInv, BootDrive
    <3>2. io = WaitStep => drive.left = SectorWords
      BY <1>1, <2>2 DEF DriveInv, BootDrive
    <3> QED  BY <1>1, <1>2, <3>1, <3>2 DEF BootDrive
  <2> QED  BY <2>1, <2>2
<1>5. OwnRead'
  <2>1. Reading' = Reading /\ NextWord' = NextWord /\ Target' = Target
    BY <1>1 DEF Reading, NextWord, Target
  <2>2. drive.state # "idle" /\ drive'.state # "idle"
    BY <1>1, <1>2
  <2> QED  BY <1>1, <1>2, <2>1, <2>2 DEF DriveInv, OwnRead
<1>6. Marked'
  <2>1. Reading' = Reading
    BY <1>1 DEF Reading
  <2>2. drive'.state \in {"busy", "data"} => drive'.left > 0
    BY <1>1, <1>2 DEF DriveInv, Marked
  <2> QED  BY <1>1, <2>1, <2>2 DEF DriveInv, Marked
<1> QED  BY <1>3, <1>4, <1>5, <1>6 DEF DriveInv

LEMMA NextDrive ==
  ASSUME DriveInv, [Next]_vars
  PROVE  DriveInv'
<1>1. CASE BootThread
  <2>1. CASE QuietBoot
    BY <2>1, QuietBootKeepsDrive
  <2>2. CASE ReadStart \/ ReadWrite \/ ReadCommand \/ ReadWait \/ ReadWord
    BY <2>2, ReadStartKeepsDrive, ReadWriteKeepsDrive, ReadCommandKeepsDrive,
       ReadWaitKeepsDrive, ReadWordKeepsDrive
  <2> QED  BY <1>1, <2>1, <2>2 DEF BootThread, QuietBoot
<1>2. CASE \E line \in Lines : Interrupt(line)
  <2>1. /\ UNCHANGED <<stage, io, buffer, bs, drive, clash, busy, early>>
        /\ command = "none" /\ command' \in {"none", "issue"}
    BY <1>2 DEF Interrupt, diskVars
  <2> QED  BY <2>1, SilentKeepsDrive
<1>3. CASE Handler
  <2>1. CASE HandlerIssue
    BY <2>1, IssueKeepsDrive
  <2>2. CASE HandlerTransfer
    BY <2>2, TransferKeepsDrive
  <2>3. CASE HandlerFault
    <3>1. /\ UNCHANGED <<stage, io, buffer, bs, drive, clash, busy, command>>
          /\ command = "issue" /\ early' = (early \/ ~Passed("root_cluster"))
      BY <2>3 DEF HandlerFault, diskVars
    <3>2. early' \in BOOLEAN /\ (early => early')
      BY <3>1 DEF DriveInv, PlaceInv
    <3> QED  BY <3>1, <3>2, SilentKeepsDrive
  <2>4. CASE HandlerReturn
    <3>1. /\ UNCHANGED <<stage, io, buffer, bs, drive, clash, busy, early>>
          /\ command = "done" /\ command' = "none"
      BY <2>4 DEF HandlerReturn
    <3> QED  BY <3>1, SilentKeepsDrive
  <2> QED  BY <1>3, <2>1, <2>2, <2>3, <2>4 DEF Handler
<1>4. CASE DriveAnswers
  BY <1>4, AnswersKeepDrive
<1>5. CASE Waits \/ UNCHANGED vars
  <2>1. UNCHANGED <<stage, io, buffer, bs, drive, clash, busy, command, early>>
    BY <1>5 DEF Waits, vars
  <2> QED  BY <2>1, SilentKeepsDrive
<1> QED  BY <1>1, <1>2, <1>3, <1>4, <1>5 DEF Next

LEMMA DriveInvariant == Spec => []DriveInv
<1>1. Init => DriveInv
  BY InitDriveInv
<1>2. DriveInv /\ [Next]_vars => DriveInv'
  BY NextDrive
<1> QED  BY <1>1, <1>2, PTL DEF Spec

\* A command that finds the drive idle gets the sector that it asks for.
LEMMA NextCommand ==
  ASSUME SectorsAddressed, DriveInv, OwnCommand, [Next]_vars
  PROVE  OwnCommand'
<1>1. CASE HandlerIssue
  <2>1. SUFFICES ASSUME ~busy'
                 PROVE  /\ asked' \in CommandSectors /\ drive'.sector = asked'
                        /\ drive'.left = SectorWords
    BY DEF OwnCommand
  <2>2. /\ asked' \in CommandSectors /\ drive.state \in {"idle", "error"}
        /\ drive' \in AfterCommand(WriteRegisters(drive, asked'))
    BY <1>1, <2>1, HandlerIssueFacts DEF DriveInv
  <2> DEFINE d == WriteRegisters(drive, asked')
  <2>3. asked' \in Nat /\ drive \in Drives
    BY <2>2, BootAssumption DEF DriveInv, PlaceInv
  <2>4. /\ d \in Drives /\ d.state = drive.state
        /\ \A r \in RegisterNames : d.reg[r] = RegisterValue(r, asked')
    BY <2>3, DriveWrites
  <2>5. drive' = Started(d)
    BY <2>2, <2>4 DEF AfterCommand
  <2> HIDE DEF d
  <2>6. Addressed(d.reg) = asked'
    <3>1. asked' < Radix * (Radix * (Radix * Radix))
      BY <2>2 DEF SectorsAddressed
    <3>2. d.reg \in [RegisterNames -> Nat]
      BY <2>4 DEF Drives
    <3>3. /\ d.reg["lo"] = RegisterValue("lo", asked')
          /\ d.reg["mid"] = RegisterValue("mid", asked')
          /\ d.reg["hi"] = RegisterValue("hi", asked')
          /\ d.reg["select"] = RegisterValue("select", asked')
      BY <2>4 DEF RegisterNames
    <3> QED  BY <2>3, <3>1, <3>2, <3>3, AddressedSector
  <2> QED  BY <2>2, <2>4, <2>5, <2>6, DriveStarts DEF StateIs
<1>2. CASE DriveAnswers
  <2>1. /\ drive.state = "busy" /\ drive' \in {Offered(drive), Failed(drive)}
        /\ UNCHANGED <<command, busy, asked>> /\ drive \in Drives
    BY <1>2 DEF DriveAnswers, handlerVars, DriveInv, PlaceInv
  <2>2. /\ drive'.sector = drive.sector
        /\ \/ drive'.state = "data" /\ drive'.left = drive.left
           \/ drive'.state = "error"
    BY <2>1, DriveGoesOn DEF StateIs
  <2> QED  BY <2>1, <2>2 DEF OwnCommand
<1>3. CASE BootThread
  <2>1. command' = command /\ command = "none"
    BY <1>3 DEF BootThread, InitGdt, InitIdt, PciRound, PciEnd, ReadStart, ReadWrite,
         ReadCommand, ReadWait, ReadWord, Malloc, RootCluster, Prompt, Cli,
         JumpToUserMode, In, handlerVars
  <2> QED  BY <2>1 DEF OwnCommand
<1>4. CASE HandlerFault \/ HandlerTransfer \/ HandlerReturn \/ \E line \in Lines : Interrupt(line)
  <2>1. command' \in {"none", "issue", "done"}
    BY <1>4 DEF HandlerFault, HandlerTransfer, HandlerReturn, Interrupt
  <2> QED  BY <2>1 DEF OwnCommand
<1>5. CASE Waits \/ UNCHANGED vars
  <2>1. UNCHANGED <<command, busy, asked, drive>>
    BY <1>5 DEF Waits, vars
  <2> QED  BY <2>1 DEF OwnCommand
<1> QED  BY <1>1, <1>2, <1>3, <1>4, <1>5 DEF Next, Handler

LEMMA ReadIsRight ==
  ASSUME DriveInv, ReadWord, io' = 0, ~clash
  PROVE  /\ NextWord = SectorWords
         /\ (IF stage = "detect_disks" THEN buffer' ELSE bs') = Contents(0)
<1> DEFINE a == IF stage = "detect_disks" THEN buffer' ELSE bs'
<1>1. NextWord = SectorWords
  <2>1. /\ NextWord # SectorWords => io' = io + 1
        /\ NextWord \in 1..SectorWords /\ io = 7 + NextWord
    BY ReadWordFacts
  <2> QED  BY <2>1, DriveAssumption
<1>2. \A k \in 1..SectorWords : a[k] = <<0, k>>
  <2>1. \A k \in 1..SectorWords : k <= NextWord
    BY <1>1, DriveAssumption
  <2> QED  BY <2>1, WordsAreRight
<1>3. IsArea(a)
  BY ReadWordFacts DEF ReadStages
<1> HIDE DEF a
<1>4. a = Contents(0)
  BY <1>2, <1>3 DEF IsArea, Contents
<1> QED  BY <1>1, <1>4 DEF a

\* If the registers can express the sectors that are asked for, a command that
\* finds the drive idle gets the words of its sector, and so does a read of
\* the boot thread in which no command comes: whatever the registers held
\* before, and wherever commands came in earlier (fat.c:7-20, 37-83).
THEOREM ReadsStayRight ==
  ASSUME SectorsAddressed
  PROVE  Spec => ReadsRight
<1>1. Init => OwnCommand
  BY DEF Init, OwnCommand
<1>2. DriveInv /\ OwnCommand /\ [Next]_vars => OwnCommand'
  BY NextCommand
<1>3. DriveInv /\ OwnCommand /\ HandlerTransfer /\ ~busy => WordsRead(drive) = Contents(asked)
  <2>1. SUFFICES ASSUME DriveInv, OwnCommand, HandlerTransfer, ~busy
                 PROVE  WordsRead(drive) = Contents(asked)
    OBVIOUS
  <2>2. drive.state = "data" /\ drive.sector = asked /\ drive.left = SectorWords
    BY <2>1 DEF HandlerTransfer, OwnCommand, DRQ
  <2>3. \A k \in 1..SectorWords : k <= SectorWords /\ SectorWords - SectorWords + k = k
    BY DriveAssumption
  <2> QED  BY <2>2, <2>3 DEF WordsRead, Contents, DRQ
<1>4. DriveInv /\ ReadWord /\ io' = 0 /\ ~clash =>
        (IF stage = "detect_disks" THEN buffer' ELSE bs') = Contents(0)
  BY ReadIsRight
<1>5. DriveInv /\ OwnCommand /\ [Next]_vars =>
        [/\ HandlerTransfer /\ ~busy => WordsRead(drive) = Contents(asked)
         /\ ReadWord /\ io' = 0 /\ ~clash
              => (IF stage = "detect_disks" THEN buffer' ELSE bs') = Contents(0)]_vars
  BY <1>3, <1>4
<1> QED  BY <1>1, <1>2, <1>5, DriveInvariant, PTL DEF Spec, ReadsRight

-----------------------------------------------------------------------------
(***************************************************************************)
(* What the commands find at the prompt.                                   *)
(***************************************************************************)

\* The signatures in the words of sector 0 tell the format.
LEMMA FormatFound ==
  ASSUME volume \in Volumes
  PROVE  detect_disk_format(Contents(0)) = FormatOf(volume)
<1> DEFINE marks == UNION {Marks(Contents(0)[k]) : k \in DOMAIN Contents(0)}
<1>1. /\ volume \in {"FAT16", "FAT32", "ISO9660"} /\ SectorWords \in Nat /\ SectorWords > 1
  BY BootAssumption, DriveAssumption
<1>2. DOMAIN Contents(0) = 1..SectorWords
      /\ \A k \in 1..SectorWords : Contents(0)[k] = <<0, k>>
  BY DEF Contents
<1>3. \A m : m \in marks <=> \E k \in 1..SectorWords : m \in Marks(<<0, k>>)
  BY <1>2
<1>4. /\ Marks(<<0, 1>>) = CASE volume = "FAT32" -> {"FAT32"} [] volume = "FAT16" -> {"FAT"} [] OTHER -> {}
      /\ \A k \in 1..SectorWords : k # 1 =>
           Marks(<<0, k>>) = IF k = SectorWords /\ volume # "ISO9660" THEN {"AA55"} ELSE {}
  BY <1>1 DEF Marks
<1>5. 1 \in 1..SectorWords /\ SectorWords \in 1..SectorWords /\ SectorWords # 1
  BY <1>1
<1>6. detect_disk_format(Contents(0)) =
        CASE "CD001" \in marks -> "ISO9660"
          [] "CD001" \notin marks /\ {"AA55", "FAT32"} \subseteq marks -> "FAT32"
          [] "CD001" \notin marks /\ {"AA55", "FAT"} \subseteq marks /\ "FAT32" \notin marks -> "FAT16"
          [] OTHER -> "unknown"
  BY DEF detect_disk_format
<1> HIDE DEF marks
<1>7. CASE volume = "FAT32"
  <2>1. /\ Marks(<<0, 1>>) = {"FAT32"} /\ Marks(<<0, SectorWords>>) = {"AA55"}
        /\ \A k \in 1..SectorWords : "CD001" \notin Marks(<<0, k>>)
    BY <1>4, <1>5, <1>7
  <2>2. "FAT32" \in marks /\ "AA55" \in marks /\ "CD001" \notin marks
    BY <1>3, <1>5, <2>1
  <2>3. {"AA55", "FAT32"} \subseteq marks
    BY <2>2
  <2> QED  BY <1>6, <1>7, <2>2, <2>3 DEF FormatOf
<1>8. CASE volume = "FAT16"
  <2>1. /\ Marks(<<0, 1>>) = {"FAT"} /\ Marks(<<0, SectorWords>>) = {"AA55"}
        /\ \A k \in 1..SectorWords :
             "CD001" \notin Marks(<<0, k>>) /\ "FAT32" \notin Marks(<<0, k>>)
    BY <1>4, <1>5, <1>8
  <2>2. /\ "FAT" \in marks /\ "AA55" \in marks /\ "CD001" \notin marks /\ "FAT32" \notin marks
    BY <1>3, <1>5, <2>1
  <2>3. {"AA55", "FAT"} \subseteq marks /\ ~({"AA55", "FAT32"} \subseteq marks)
    BY <2>2
  <2> QED  BY <1>6, <1>8, <2>2, <2>3 DEF FormatOf
<1>9. CASE volume = "ISO9660"
  <2>1. \A k \in 1..SectorWords : Marks(<<0, k>>) = {}
    BY <1>4, <1>9
  <2>2. "FAT" \notin marks /\ "AA55" \notin marks /\ "CD001" \notin marks
    BY <1>3, <2>1
  <2>3. ~({"AA55", "FAT"} \subseteq marks) /\ ~({"AA55", "FAT32"} \subseteq marks)
    BY <2>2
  <2> QED  BY <1>6, <1>9, <2>2, <2>3 DEF FormatOf
<1> QED  BY <1>1, <1>7, <1>8, <1>9

LEMMA BootKeepsContent ==
  ASSUME DriveInv, ContentInv, BootThread
  PROVE  ContentInv'
<1>1. /\ stage \in AllStages /\ command = "none" /\ UNCHANGED <<volume, early, path>>
      /\ volume \in Volumes
  BY DEF BootThread, InitGdt, InitIdt, PciRound, PciEnd, ReadStart, ReadWrite,
         ReadCommand, ReadWait, ReadWord, Malloc, RootCluster, Prompt, Cli,
         JumpToUserMode, In, handlerVars, diskVars, DriveInv, PlaceInv, ContentInv
<1>2. SUFFICES ASSUME ~early
               PROVE  /\ stage' \in Loading => format' = FormatOf(volume)
                      /\ stage' \in {"root_cluster"} \cup AfterRoot => bs' = Contents(0)
                      /\ stage' \in AfterRoot /\ path = "/" => cluster' = RootOf(Contents(0))
  BY <1>1 DEF ContentInv
<1>3. /\ stage \in Loading => format = FormatOf(volume)
      /\ stage \in {"root_cluster"} \cup AfterRoot => bs = Contents(0)
      /\ stage \in AfterRoot /\ path = "/" => cluster = RootOf(Contents(0))
  BY <1>2 DEF ContentInv
<1>4. CASE ReadWord
  <2>1. ~clash
    BY <1>2 DEF DriveInv, Marked
  <2>2. cluster' = cluster /\ stage \in ReadStages
    BY <1>4, ReadWordFacts
  <2>3. CASE io' = 0
    <3>1. /\ NextWord = SectorWords /\ stage' = After(stage)
          /\ (IF stage = "detect_disks" THEN buffer' ELSE bs') = Contents(0)
      BY <1>4, <2>1, <2>3, ReadIsRight, ReadWordFacts
    <3>2. CASE stage = "detect_disks"
      <4>1. stage' = "malloc" /\ buffer' = Contents(0)
        BY <3>1, <3>2, Afters
      <4>2. format' = detect_disk_format(buffer')
        BY <1>4, <3>1, <3>2 DEF ReadWord, NextWord
      <4>3. format' = FormatOf(volume)
        BY <1>1, <4>1, <4>2, FormatFound
      <4> QED  BY <4>1, <4>3 DEF AfterRoot
    <3>3. CASE stage = "read_sector"
      <4>1. stage' = "root_cluster" /\ bs' = Contents(0)
        BY <3>1, <3>3, Afters
      <4>2. format' = format
        BY <1>4, <3>3 DEF ReadWord
      <4> QED  BY <1>3, <3>3, <4>1, <4>2 DEF Loading, AfterRoot
    <3> QED  BY <2>2, <3>2, <3>3 DEF ReadStages
  <2>4. CASE io' # 0
    <3>1. NextWord # SectorWords /\ stage' = stage
      BY <1>4, <2>4, ReadWordFacts
    <3>2. format' = format
      BY <1>4, <3>1 DEF ReadWord, NextWord
    <3> QED  BY <1>3, <2>2, <3>1, <3>2 DEF ReadStages, AfterRoot
  <2> QED  BY <2>3, <2>4
<1>5. CASE Malloc
  <2>1. stage = "malloc" /\ stage' = "read_sector" /\ format' = format
    BY <1>5, Afters DEF Malloc, In
  <2> QED  BY <1>3, <2>1 DEF Loading, AfterRoot
<1>6. CASE RootCluster
  <2>1. /\ stage = "root_cluster" /\ stage' = "print_prompt" /\ format' = format
        /\ bs' = bs /\ cluster' = RootOf(bs)
    BY <1>6, Afters DEF RootCluster, In
  <2> QED  BY <1>3, <2>1 DEF Loading, AfterRoot
<1>7. CASE InitGdt \/ InitIdt \/ PciRound \/ PciEnd \/ ReadStart \/ ReadWrite \/ ReadCommand
           \/ ReadWait \/ Prompt \/ Cli \/ JumpToUserMode
  <2>1. UNCHANGED <<format, bs, cluster>>
    BY <1>7 DEF InitGdt, InitIdt, PciRound, PciEnd, ReadStart, ReadWrite,
         ReadCommand, ReadWait, Prompt, Cli, JumpToUserMode, diskVars
  <2>2. \/ stage' = stage
        \/ stage' = After(stage) /\ stage \in {"init_gdt", "init_idt", "pci_enum"} \cup AfterRoot
    BY <1>7 DEF InitGdt, InitIdt, PciRound, PciEnd, ReadStart, ReadWrite,
         ReadCommand, ReadWait, Prompt, Cli, JumpToUserMode, In, AfterRoot
  <2>3. \/ stage' = stage
        \/ stage' \notin Loading
        \/ stage \in AfterRoot
    BY <2>2, Afters DEF Loading, AfterRoot
  <2>4. AfterRoot \subseteq Loading /\ "root_cluster" \in Loading
    BY DEF Loading
  <2> QED  BY <1>3, <2>1, <2>3, <2>4
<1> QED  BY <1>4, <1>5, <1>6, <1>7 DEF BootThread

LEMMA NextContent ==
  ASSUME DriveInv, ContentInv, [Next]_vars
  PROVE  ContentInv'
<1>1. CASE BootThread
  BY <1>1, BootKeepsContent
<1>2. CASE HandlerReturn
  <2>1. /\ command = "done" /\ UNCHANGED <<stage, volume, format, bs, early>>
        /\ \/ UNCHANGED <<cluster, path>>
           \/ path' = "below"
           \/ path' = "/" /\ cluster' = RootOf(bs)
    BY <1>2 DEF HandlerReturn
  <2>2. stage \notin AfterRoot => early
    BY <2>1 DEF DriveInv, Marked
  <2> QED  BY <2>1, <2>2 DEF ContentInv
<1>3. CASE HandlerIssue \/ HandlerFault
  <2>1. /\ UNCHANGED <<stage, volume, format, bs, cluster, path>>
        /\ early' = (early \/ ~Passed("root_cluster"))
    BY <1>3 DEF HandlerIssue, HandlerFault, diskVars
  <2> QED  BY <2>1 DEF ContentInv
<1>4. CASE HandlerTransfer \/ DriveAnswers \/ Waits \/ UNCHANGED vars
           \/ \E line \in Lines : Interrupt(line)
  <2>1. UNCHANGED <<stage, volume, format, bs, cluster, path, early>>
    BY <1>4 DEF HandlerTransfer, DriveAnswers, Waits, Interrupt, vars, diskVars, handlerVars
  <2> QED  BY <2>1 DEF ContentInv
<1> QED  BY <1>1, <1>2, <1>3, <1>4 DEF Next, Handler

\* When the prompt is there every PCI function has been listed once and in
\* order; and unless a command used the disk before _start had set
\* current_directory_cluster, the boot sector is in bs, the directory is the
\* one the path names and the format has been told right (main.c:128-152,
\* pci.c:17-73, fat.c:331-375), for every volume and geometry.
THEOREM PromptStaysReady == Spec => []PromptReady
<1>1. Init => ContentInv
  <2>1. Init => stage = "init_gdt" /\ volume \in Volumes
    BY StagePlaces DEF Init
  <2> QED  BY <2>1 DEF ContentInv, Loading, AfterRoot
<1>2. DriveInv /\ ContentInv /\ [Next]_vars => ContentInv'
  BY NextContent
<1>3. DriveInv /\ ContentInv /\ PciInv => PromptReady
  <2>1. SUFFICES ASSUME DriveInv, ContentInv, PciInv
                 PROVE  PromptReady
    OBVIOUS
  <2>2. AtPrompt <=> stage \in AfterPrompt
    BY <2>1, PassedStages DEF AtPrompt, DriveInv, PlaceInv
  <2>3. AfterPrompt \subseteq AfterRoot /\ AfterPrompt \subseteq Loading
    BY DEF AfterPrompt, AfterRoot, Loading
  <2>4. AtPrompt /\ ~early =>
          /\ bs = Contents(0) /\ format = FormatOf(volume)
          /\ path = "/" => cluster = RootOf(Contents(0))
    BY <2>1, <2>2, <2>3 DEF ContentInv
  <2>5. InOrder(found) /\ (AtPrompt => Len(found) = Cardinality(Devices))
    BY <2>1, PciListed
  <2> QED  BY <2>4, <2>5 DEF PromptReady, Loaded, FormatOf
<1> QED  BY <1>1, <1>2, <1>3, DriveInvariant, PciInvariant, PTL DEF Spec

=============================================================================

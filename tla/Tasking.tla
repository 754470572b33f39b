------------------------------- MODULE Tasking -------------------------------
(***************************************************************************)
(* The cooperative scheduler of task.c: create_task puts a task with a     *)
(* prepared stack in front of the list `tasks`; yield saves the registers  *)
(* of the running task on its stack, follows `next` (from the last task    *)
(* back to the head), switches the page directory and continues the next   *)
(* task where it stopped, or at its entry point the first time.            *)
(*                                                                         *)
(* The boot thread creates the first tasks and calls yield; it has no      *)
(* struct Task, so nothing is saved for it and it does not come back.      *)
(* yield runs from its cli on with interrupts off, and the interrupt       *)
(* handlers of the kernel touch none of this state, so a call is one step. *)
(***************************************************************************)
EXTENDS Naturals, Sequences

CONSTANTS
  Tasks,       \* the addresses malloc can return for a struct Task
  NULL,
  Boot,        \* the boot thread, as the owner of the processor
  Sites,       \* the places in a task's code that call yield
  Outcomes     \* what a task can have done when it yields: a mark it left in
               \* its registers, and a number of locals on its stack

ASSUME TaskingAssumption ==
  /\ NULL \notin Tasks
  /\ Boot \notin Tasks
  /\ \A o \in Outcomes : o.locals \in Nat

VARIABLES
  tasks,             \* head of the list of tasks, or NULL
  current_task,      \* or NULL
  next,              \* task->next
  task_started,      \* task->task_started
  stack_pointer,     \* task->stack_pointer, as a number of words pushed
  page_directory,    \* task->page_directory
  current_directory, \* the global of memory.c
  stack,             \* the words on each task's stack, oldest first
  running,           \* whose code the processor executes: Boot or a task
  regs, rsp, rip,    \* the processor's registers
  int_flag,          \* the processor takes interrupts (RFLAGS.IF)
  irq,               \* the keyboard asks for an interrupt
  order,             \* history: the tasks created, newest first
  wait,              \* history: calls of yield since a task last ran, counted
                     \* to one more than there are tasks
  called             \* history: the context of each task at its last yield

vars == <<tasks, current_task, next, task_started, stack_pointer,
          page_directory, current_directory, stack, running,
          regs, rsp, rip, int_flag, irq, order, wait, called>>

listVars == <<tasks, next, order>>
contextVars == <<task_started, stack_pointer, stack, regs, rsp, rip>>

Created == {order[i] : i \in DOMAIN order}

\* The registers yield pushes, in the order of its push instructions, and
\* those it pops; the compiler's prologue has pushed rbp before.
PushOrder == <<"rax", "rbx", "rcx", "rdx", "rsi", "rdi", "r8",
               "r9", "r10", "r11", "r12", "r13", "r14", "r15">>
PopOrderSame == PushOrder
PopOrder == <<"r15", "r14", "r13", "r12", "r11", "r10", "r9",
              "r8", "rdi", "rsi", "rdx", "rcx", "rbx", "rax">>
Saved == Len(PushOrder)
FrameWordsNoReturn == Saved + 1
FrameWords == Saved + 2   \* with rbp and the return address of the call
Registers == {PushOrder[i] : i \in 1..Saved} \cup {"rbp"}

\* The words of this model: an entry point, a return address, some other
\* place in a task's code, what a task left in a register or on its stack,
\* and what the registers held before any task.
Entry(t) == <<"entry", t>>
ReturnTo(t, site) == <<"return", t, site>>
Inside(t) == <<"inside", t>>
Value(t, r, mark) == <<r, t, mark>>
Local(t) == <<"local", t>>
Stale == <<"stale">>
Directory(owner) == <<"directory", owner>>

\* What a task must find again when its call of yield returns; rax is the
\* register a C function may always change.
Context(t, ip) ==
  [regs |-> [r \in Registers \ {"rax"} |-> regs[r]],
   locals |-> SubSeq(stack[t], 1, rsp),
   rip |-> ip]

Init ==
  /\ tasks = NULL
  /\ current_task = NULL
  /\ next = [t \in Tasks |-> NULL]
  /\ task_started = [t \in Tasks |-> FALSE]
  /\ stack_pointer = [t \in Tasks |-> 0]
  /\ page_directory = [t \in Tasks |-> NULL]
  /\ current_directory = Directory(Boot)
  /\ stack = [t \in Tasks |-> << >>]
  /\ running = Boot
  /\ regs = [r \in Registers |-> Stale]
  /\ rsp = 0
  /\ rip = Entry(Boot)
  /\ int_flag = TRUE
  /\ irq = FALSE
  /\ order = << >>
  /\ wait = [t \in Tasks |-> 0]
  /\ called = [t \in Tasks |-> Context(t, Entry(t))]

-----------------------------------------------------------------------------
\* task->next = tasks; tasks = task; and the two the other way round.
prepend_swapped(t) ==
  /\ tasks' = t
  /\ next' = [next EXCEPT ![t] = t]
  /\ order' = <<t>> \o order

prepend(t) ==
  /\ next' = [next EXCEPT ![t] = tasks]
  /\ tasks' = t
  /\ order' = <<t>> \o order

\* create_task(entry_point), called by the boot thread or by a task.
create_task(t) ==
  /\ t \notin Created
  /\ prepend(t)
  /\ page_directory' = [page_directory EXCEPT ![t] = Directory(t)]
  /\ stack' = [stack EXCEPT ![t] = <<Entry(t)>>]
  /\ stack_pointer' = [stack_pointer EXCEPT ![t] = 1]
  /\ task_started' = [task_started EXCEPT ![t] = FALSE]
  /\ current_task' = IF current_task = NULL THEN t ELSE current_task
  /\ UNCHANGED <<current_directory, running, regs, rsp, rip, int_flag, irq,
                 wait, called>>

\* The running task changes its registers and what it keeps on its stack.
Work ==
  /\ running # Boot
  /\ \E o \in Outcomes :
       /\ regs' = [r \in Registers |-> Value(running, r, o.mark)]
       /\ stack' = [stack EXCEPT ![running] = [i \in 1..o.locals |-> Local(running)]]
       /\ rsp' = o.locals
  /\ rip' = Inside(running)
  /\ UNCHANGED <<listVars, current_task, task_started, stack_pointer, page_directory,
                 current_directory, running, int_flag, irq, wait, called>>

-----------------------------------------------------------------------------
\* yield.

\* (current_task->next) ? current_task->next : tasks, and one that stays put.
NextTaskStays(t) == IF next[t] # NULL THEN next[t] ELSE t
NextTask(t) == IF next[t] # NULL THEN next[t] ELSE tasks

\* switch_page_directory(new); cr3, which it leaves, is in Vmm.
switch_page_directory(new) == current_directory' = new

\* What call, prologue and the push instructions leave on the stack.  The
\* compiler computes &current_task->stack_pointer in rax before the pushes.
Frame(t, site) ==
  <<ReturnTo(t, site), regs["rbp"]>> \o
  [i \in 1..Saved |-> IF PushOrder[i] = "rax" THEN <<"task", t>>
                      ELSE regs[PushOrder[i]]]

\* The stack of t, with its frame if t is the task that yields.
StackAfterSave(t, site) ==
  IF t = current_task /\ task_started[t]
  THEN SubSeq(stack[t], 1, rsp) \o Frame(t, site)
  ELSE stack[t]

\* mov %rsp, task->stack_pointer, after the pushes.
PointerAfterSave(t, site) ==
  IF t = current_task /\ task_started[t]
  THEN Len(StackAfterSave(t, site)) ELSE stack_pointer[t]

\* asm volatile("sti") at the end of yield, and a yield that forgets it.
leave_off == int_flag' = FALSE
sti == int_flag' = TRUE

\* The popped words, last one first, down to the return address.
Resume(words, sp) ==
  /\ regs' = [r \in Registers |->
                IF r = "rbp" THEN words[sp - Saved]
                ELSE words[sp + 1 - CHOOSE i \in 1..Saved : PopOrder[i] = r]]
  /\ rip' = words[sp - Saved - 1]
  /\ rsp' = sp - FrameWords
  /\ sti
  /\ UNCHANGED task_started

\* pop %rax; jmp *%rax: with interrupts still off.
Start(t, words, sp) ==
  /\ rip' = words[sp]
  /\ regs' = [regs EXCEPT !["rax"] = words[sp]]
  /\ rsp' = sp - 1
  /\ task_started' = [task_started EXCEPT ![t] = TRUE]
  /\ int_flag' = FALSE

yield(site) ==
  /\ current_task # NULL
  /\ LET to == NextTask(current_task)
         words == StackAfterSave(to, site)
         sp == PointerAfterSave(to, site)
     IN /\ current_task' = to
        /\ running' = to
        /\ switch_page_directory(page_directory[to])
        /\ IF task_started[to] THEN Resume(words, sp) ELSE Start(to, words, sp)
        /\ wait' = [t \in Tasks |->
                      IF t = to \/ t \notin Created THEN 0
                      ELSE IF wait[t] > Len(order) THEN wait[t] ELSE wait[t] + 1]
  /\ stack' = [t \in Tasks |->
                 IF t = current_task' THEN SubSeq(StackAfterSave(t, site), 1, rsp')
                 ELSE StackAfterSave(t, site)]   \* words past rsp are dead
  /\ stack_pointer' = [t \in Tasks |-> PointerAfterSave(t, site)]
  /\ called' = IF running = Boot THEN called
               ELSE [called EXCEPT ![running] = Context(running, ReturnTo(running, site))]
  /\ UNCHANGED <<listVars, page_directory, irq>>

-----------------------------------------------------------------------------
\* The keyboard, and its interrupt: the handler returns with iretq to the
\* registers and the stack it found.
KeyPress ==
  /\ ~irq
  /\ irq' = TRUE
  /\ UNCHANGED <<listVars, contextVars, current_task, page_directory, current_directory,
                 running, int_flag, wait, called>>

Interrupt ==
  /\ irq /\ int_flag
  /\ irq' = FALSE
  /\ UNCHANGED <<listVars, contextVars, current_task, page_directory, current_directory,
                 running, int_flag, wait, called>>

Yield == \E site \in Sites : yield(site)

Next ==
  \/ \E t \in Tasks : create_task(t)
  \/ Work
  \/ Yield
  \/ KeyPress
  \/ Interrupt

\* task1 and task2 of main.c call yield in every round of their loops, and
\* the processor takes a pending interrupt when interrupts are on.
Spec == Init /\ [][Next]_vars /\ WF_vars(Yield) /\ WF_vars(Interrupt)

-----------------------------------------------------------------------------
(***************************************************************************)
(* Properties.                                                             *)
(***************************************************************************)

TypeOK ==
  /\ tasks \in Tasks \cup {NULL}
  /\ current_task \in Tasks \cup {NULL}
  /\ next \in [Tasks -> Tasks \cup {NULL}]
  /\ task_started \in [Tasks -> BOOLEAN]
  /\ stack_pointer \in [Tasks -> Nat]
  /\ page_directory \in [Tasks -> {Directory(t) : t \in Tasks} \cup {NULL}]
  /\ current_directory \in {Directory(t) : t \in Tasks \cup {Boot}}
  /\ running \in Tasks \cup {Boot}
  /\ DOMAIN regs = Registers
  /\ rsp \in {0} \cup {o.locals : o \in Outcomes}
  /\ int_flag \in BOOLEAN /\ irq \in BOOLEAN
  /\ order \in Seq(Tasks)
  /\ wait \in [Tasks -> Nat]

\* The list that yield walks reaches every task ever created, once, from the
\* newest to the oldest, whatever create_task did in between.
TaskListLinked ==
  /\ tasks = IF order = << >> THEN NULL ELSE order[1]
  /\ \A i \in DOMAIN order :
       next[order[i]] = IF i = Len(order) THEN NULL ELSE order[i + 1]
  /\ \A i, j \in DOMAIN order : order[i] = order[j] => i = j

\* A task whose yield returns finds its registers, its locals and its place
\* in the code as it left them, whatever the other tasks did meanwhile.
ContextPreserved ==
  (running # Boot /\ int_flag /\ rip # Inside(running))
  => Context(running, rip) = called[running]

\* No task is passed over: it runs again after at most as many calls of
\* yield as there are tasks, also while new ones are put in front.
BoundedWait == \A t \in Created : wait[t] <= Len(order)

\* Every task that was created gets to run, again and again.
EveryTaskRuns ==
  \A t \in Tasks : (t \in Created /\ running # t) ~> running = t

\* A key is read at last, though the first slice of every task runs with
\* interrupts off.
KeyboardServed == irq ~> ~irq

\* The list, current_task and yield make up a ring of tasks taking turns.
Ring == INSTANCE RoundRobin WITH
  NoTask <- NULL, ring <- order, turn <- current_task

ImplementsRoundRobin == Ring!RingSpec

=============================================================================

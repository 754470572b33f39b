# Taha kernel: a TLA+ model

TLA+ modules, TLC runs and TLAPS proofs for the Taha kernel, a small x86-64
kernel in C under `src/kernel/src`. Line numbers refer to the files there.

    tlc -config heap_single.cfg MCHeap      # one run
    tlapm HeapProofs.tla                    # proofs: the modules *Proofs.tla

## The system

The boot loader (Limine) enters `_start` (`main.c:114`). One thread, the *boot
thread*, sets everything up; from `sti` at the end of `init_idt` on it is
interrupted by the keyboard (IRQ 1, the only one the interrupt controller lets
through), and the shell runs entirely inside that interrupt handler.

| Component | State it keeps | Operations | Talks to |
|---|---|---|---|
| Page allocator and heap, `memory/memory.c:25-145` | `free_pages`, the links inside free pages, a `Header` in front of each block | `init_memory`, `alloc_page`, `free_page`, `malloc`, `free` | called by `_start`, the virtual memory manager, the scheduler |
| Virtual memory manager, `memory.c:147-255` | `current_directory`, `kernel_directory`, cr3, tables on the heap | `map_page`, `unmap_page`, `switch_page_directory`, `clone_directory`, `init_vmm` | heap; called by `_start`, `yield`, `create_task` |
| Scheduler, `tasking/task.c` | `tasks`, `current_task`, per task `next`, `task_started`, `stack_pointer`, `page_directory` | `create_task`, `yield` | heap, page directories, interrupt flag |
| Console, `video/video.c` | `term_x`, `term_y`, `term_color`, the framebuffer | `print_char`, `scroll_up`, `clear_screen`, `printf`, `vprintf`, `log` | shared by boot thread and keyboard handler |
| Shell, `arch/shell.c` | `command_line`, `command_index` | `kb_handler`, `handle_backspace`, `execute_command`, `print_prompt` | console, file system, interrupt controller |
| File system, `disk/fat.c` | `bs`, `current_directory_cluster`, `current_path`, the drive's registers | `read_sector`, `ls`, `cat`, `cd`, `detect_disks` | drive (ports), console |
| Interrupts, `arch/idt.c`, `pic.c`, `interrupts.c` | the table, the controller's masks, the interrupt flag | `init_idt`, `remap_pic`, `pic_end_master`, exception handlers that stop the machine | everything |
| Segments and user mode, `arch/gdt.c`, `main.c:96-111` | descriptor table, task state segment | `init_gdt`, `JumpToUserMode` | boot sequence |
| System calls, `syscall/` | EFER, STAR, SFMASK | `init_syscalls` | user mode |
| PCI, `device/pci/pci.c` | none that lasts | `pci_enum`, `pci_read` | boot sequence, host bridge |
| Library, serial, ISO 9660, font | none that lasts | string, number and output functions | called by the others |

What is hard about it:

* **Memory that is data and structure at once.** Free pages carry the links of
  the free list, blocks carry the count that `free` will read, and `malloc`
  takes it for granted that the pages of a block are adjacent.
* **A scheduler written in inline assembly**, whose pushes in one call of
  `yield` are undone by the pops of another call, in between any number of
  switches, creations and interrupts.
* **A shell inside an interrupt handler** that shares the cursor and the drive
  with the boot thread it interrupts, without any lock.
* **Structures from a disk** that `ls`, `cat` and `cd` follow.
* **An order of initialisation** in which each stage of `_start` relies on the
  ones before it, while commands can already come in: the page directory used
  before there is one, the boot sector used before it is read, the drive
  commanded by two parties.
* **Hand-written conventions**: the bytes a controller or a drive expects one
  after the other, the frame of an exception, the directives of a format.

`PROJECT.json` lists under `hazards` each such place with its line, and the
properties below that would catch it going wrong.

## Modules

| Module | Models | Notes |
|---|---|---|
| `Heap` | `init_memory` (its list), `alloc_page`, `free_page`, `malloc`, `free`, and clients that store into their blocks | component |
| `FramePool` | what the heap promises: a stack of page frames | abstract specification of `Heap` |
| `MemoryMap` | the order in which `init_memory` walks the memory map | gives `Heap` its constant `BootPages` |
| `HeapProofs` | theorems about `Heap` for requests of one page | proofs |
| `HeapBootProofs` | theorems about `Heap` for any request, before the first `free` | proofs |
| `Tasking` | `create_task`, `yield`, `switch_page_directory`, tasks, keyboard interrupts | component |
| `RoundRobin` | what the scheduler promises: a ring of turns | abstract specification of `Tasking` |
| `TaskingProofs` | theorems about `Tasking` | proofs |
| `Console` | cursor, cells, `print_char`, `scroll_up`, `handle_backspace` | operators |
| `Shell` | `kb_handler` between the instructions of the boot thread's `print_char` | component, uses `Console` |
| `ShellProofs` | theorems about `Shell` and `Console` | proofs |
| `FileNames` | `format_filename_83`, `format_entry_name` | operators |
| `Fat` | `ls`, `cat`, `cd` on a volume | component, uses `FileNames` |
| `FatVolumes` | which volumes the proofs speak of | hypotheses only |
| `FatProofs` | theorems about `Fat` and `FileNames` | proofs |
| `Library` | memory, string and number functions of `lib.c` | component |
| `Printf` | `printf`, `serial_putsf`, `vprintf` with `__int_str`, `log` | component, extends `Library` |
| `LibraryProofs` | theorems about `Library` and `Printf` | proofs |
| `Vmm` | `init_vmm`, `map_page`, `unmap_page`, `clone_directory`, `switch_page_directory` | component |
| `AddressSpaces` | what the memory manager promises: independent maps | abstract specification of `Vmm` |
| `VmmProofs` | theorems about `Vmm` | proofs |
| `Drive` | the drive's registers and what `read_sector` writes to them | operators; the drive is external |
| `Processor` | descriptor table, gates, exception frames, the interrupt controllers | operators; the hardware is external |
| `Pci` | `pci_read`'s address, the loops of `pci_enum` | operators |
| `Boot` | the stages of `_start`, with keyboard commands in between | component; composes `Drive`, `Processor`, `Pci` |
| `BootProofs` | theorems about `Boot`, `Drive`, `Processor`, `Pci` | proofs |
| `MC...` | the small machines, screens and volumes for TLC | constants only |

Every definition that models code is in `map` of `PROJECT.json` with its lines.
Where two forms of an operator stand next to each other (`FreedPage` and
`FreedPageTwice`), the first ones are plausible slips, named for what they do;
the properties tell them from the code's form (`mutants` in `PROJECT.json`).

### Heap

`mem` maps every word address to a word; the unit is 8 bytes, the size of
`Header` and of `Page`. `free_pages` is the code's variable; `live` and `flist`
are history variables (the blocks callers hold; the free list as a sequence).
`malloc` and `free` take one step per page, as their loops do: `Malloc`,
`MallocMore`, and `Free`, `FreeMore` (which reads the header in every round, as
the loop condition does), `FreeReturn`. `OutOfPages` and `Halted` are the loop
on `hlt` in `alloc_page`: a request that finds no page never returns, so the
NULL tests in `malloc` and its callers cannot fire and are not modelled.
`ClientWrite` stores arbitrary values, also ones that look like links and page
counts, anywhere in a block. The handlers of the kernel use no memory from the
heap, so nothing interleaves with it.

`init_memory` pushes pages in rising order, so they leave the list in falling
order. `malloc` returns `header + 1` and `free` pushes `header + 1`, one word
further than the page. For requests of one page that drift is harmless as long
as block, header and the drift of all frees together fit the page; this is
`SmallRequests`. `memory_test` frees two blocks, hence `MaxFrees = 2`.

### Tasking

One action per operation; a call of `yield` runs with interrupts off from its
first instruction and nothing else touches this state, so it is one step. Stacks are
sequences of words and `stack_pointer` is a number of words; `yield` builds the
frame that call, prologue and the push instructions leave (`Frame`) and `Resume` takes
it apart by the pop instructions, as two lists of registers. `called` is a
history variable: registers, locals and place of each task at its last `yield`.
`Work` is the task's own code. A task that was created but has not run is
started by `Start` with a jump, interrupts off. The boot thread has no task: it
is not resumed. `switch_page_directory` sets `current_directory`.

### Console and Shell

The screen is counted in cells of 8 by 16 pixels; the framebuffer's width and
height are taken to be multiples of these, as in the usual modes. A glyph in
the column past the last one is drawn outside the modelled screen. The boot
thread's `print_char` takes a step per load and store of `term_x` and `term_y`,
in the order in which the unoptimised compilation that the Makefile asks for
performs them. The handler's own
instructions need no interleaving: an interrupt gate clears the interrupt flag
until `iretq`. It is still split in characters and phases, so that keys can
arrive during a command. `execute_command` is any of a set of outputs, and a
command may wait for good for a drive that does not answer (`KbWait`,
`fat.c:16`). After its last character, the prompt's, the boot thread executes `cli`
(`BootCli`, `main.c:153`): no key is taken from then on, and the system may stop.
Three history variables: `prompt_end` (where the text after the prompt begins),
`line_quiet` (the line began while the boot thread was between two characters,
and none has begun since) and `torn` (the handler has run inside
`print_char`). `ScreenShowsLine` speaks of every line with `line_quiet`,
whatever the boot thread printed before; once `torn`, an older row may
stand behind the line, but not in it.
A backspace with an empty line is an ordinary character in the code
(`shell.c:146`) and in the model. One key waits in the controller; a larger
queue there only delays.

### Fat

From `_start` having read the boot sector on. A sector is described by what its
three readers make of it: directory entries, table entries, bytes. A command
takes one step per turn of its sector loop. `ls` reads the current directory
(first cluster), twice; `cat` the root directory; `cd` the current one. The
drive answers every read, and file data read as a directory shows no entries.

A directory has whatever a FAT directory has: "." and "..", entries of long
names, labels; `ls` shows them all, a name up to its first `\0` as `%s` does.
`format_filename_83` takes the first dot for the one before the extension, so it
makes of ".." eight blanks, a dot and two blanks (`fat.c:108-125`), and of "." blanks
only: `cd ..` finds nothing, on every volume. `ShownNamesWork` therefore speaks of
the names that files and directories get (`SoundName`), and the run types ".."
and "." like any other name.

### Library and Printf

The functions are operators on a small memory of bytes and on numbers. Loops
that copy are folds over the offsets they visit, in their order, so overlap
matters as it does in the code. Divisions round towards zero and `-MinInt` is
`MinInt`. A client makes one call at a time, within the C contracts; the
references (`BytesMoved`, ...) compare the bytes after the call with those before.

`itoa` writes the sign first and reverses it with the digits, so -12 becomes
`12-` (`lib.c:263`); `litoa` and `ltoa` append it before they reverse. The reference
in `NumbersWritten` therefore leaves out negative ints of `itoa`, and the
smallest int of all conversions.

`Printf` adds the formatted output. A format is a sequence of characters; the
state of the walk over it is how much of a directive has been seen (`mode`),
what was shown and the arguments left. `printf` and `serial_putsf` share the
walk and differ in the directives they know and in the widths that their
conversions keep. `vprintf` is translated part by part (`Directive`,
`Narrowed`, `__int_str`), its odd cases included: a second `h` is taken for the
specifier, `L` shows nothing, floating point shows an exponent only. The client
prints messages of one or two pieces, each a format, arguments and what C says
they show. The pieces are those on which kernel and C agree. Left out of
`printf`'s are negative ints (`12-`) and `%lx`, which always shows eight figures
in capitals (`print_hex`); of `vprintf`'s precisions, which nothing
in the code uses, `#`, which puts `0x` before the padding, zeros behind a number or
before its sign, and `L`. `%n` takes its argument and shows nothing; its store
through that pointer is not modelled. `__int_str` pads in buffers of 256 bytes
(`lib.c:496`) that it does not look after: widths are below that
(`IntStrBuffer`). `log` hands on a `va_list` as if it were an argument
(`log_arguments`): what `printf` then takes is the list's address and words of
the frame.

### Vmm

Directories and tables come from the heap, which hands out disjoint blocks here
(`Heap` says when it does: a directory has 12296 bytes, so the real one is among
the blocks of `heap_growing`) with whatever they held before (`Junk`). Page
numbers stand for addresses; the macros of `memory.h` keep the low 32 bits, the
frame 20.

`init_vmm` calls `map_page` while `current_directory` is NULL. There is no page
fault: low memory is mapped by the boot loader, so the words at address 0 are
the directory (`tables[NULL]`). They are taken to be NULL at first. For index
512, the kernel's, that is the word at 0x1000, the link of the lowest page the
boot loader leaves free; `init_memory` pushed it first, so it ends the list. The
tables and entries of low memory stay there: `kernel_directory`, current from
then on, has none of them (`vmm_kernel`). When `alloc_page` comes to that
lowest page, it hands out a link that has become a page table; the model ends
before (`OutOfPages`).

`switch_page_directory` leaves cr3, since its `mov` reads that register: no
directory is ever loaded (`vmm_kernel`), neither here nor in `yield`, which is
why the machine runs on.

### Boot

The boot thread's stages are those of `_start` that share state with the
keyboard handler or set up the processor; between `sti` (in `init_idt`) and
`cli` an `Interrupt` can come at any step. `read_sector` takes a step per port access: five
registers, the command, the wait for DRQ, then a step per word of `rep insw`,
which is interruptible too. The handler's own reads need one step per part,
because nothing interrupts it; it waits in its loop for as long as the drive does.
`Drive` keeps registers, offers a sector or reports an error after a while, and
drops a command that comes at the wrong time or starts over with it.

The handler's commands are abstract (the sectors of `CommandSectors`, up to
`MaxReads` of them, then perhaps a `cd`): what `ls`, `cat` and `cd` make of
sectors is in `Fat`. Without a boot sector in `bs` a command may also fault or
leave the kernel's code (`HandlerFault`).

`clash`, `busy` and `early` are history variables that say when the code gives
no guarantee: the handler used the drive during a read of the boot thread; the drive was
not idle when the handler began; a command used the disk before `_start` had
set the current directory. The properties hold outside these cases, and in
them only what can go wrong is left: that is the whole extent of the race.

`Processor` has the tables as numbers (access bytes, selectors, vectors, the
bytes to the controllers) and the checks of the hardware that read them.
`BootController` is what BIOS and boot loader leave: everything masked.

## Runs

| Run | Question | Instance |
|---|---|---|
| `heap_single` | For small requests: `FreeListLinked`, `BlocksDisjoint`, `HeaderIntact`, `EveryPageHeld`, and does the heap implement `FramePool`? | 3 pages of 5 words in two regions around a hole, sizes 1 and 2 (the largest `SmallRequests` allows), 2 frees, stores of NULL and of a page address |
| `heap_boot` | For requests of 1 to 3 pages without free: which blocks are safe (`SafeWhenNotGrowing`), are all pages accounted for? | 6 pages of 3 words in two regions |
| `heap_growing` | Are blocks of several pages disjoint? **No** | as `heap_boot` |
| `tasking` | List, contexts, bounded waiting, every task runs, keys are served, implements `RoundRobin` | 3 tasks, created in any order at any time; 2 outcomes of a task's work, with and without a local on the stack |
| `shell` | Do line buffer, cursor and screen agree; where can the cursor get when keys interrupt the boot messages; is every key taken before the `cli`? | 3 x 3 cells, line of 5, prompt of 1, commands that print nothing or a line; 3 characters or newlines printed by the boot thread meanwhile |
| `fat` | Path and directory, `cat`'s output, `ls`'s output, names, termination | three volumes: intact, with a cyclic chain, with two sectors per cluster, each with ".", ".." and both end marks, the first two with long names; 9 typed names, 3 levels |
| `library` | Do the functions meet their reference definitions? | every content of 5 bytes of 3 values, every placement of the arguments; ints of 5 bits, bases 2, 10, 16 |
| `library_log` | Does `log` show its arguments? **No** | messages with one or two numbers |
| `boot` | Which interrupts arrive (`InterruptsHandled`), what reads give (`ReadsRight`), what the prompt finds (`PromptReady`), does the prompt come (`PromptReached`)? | sectors of 2 words, registers of 1 bit, 8 PCI functions with 3 present, disks of three kinds, 2 sectors for commands and up to 2 reads in each |
| `boot_panic` | Does a panic show where it happened? **No** | the same machine without commands |
| `vmm` | Is no table shared (`TablesOwned`), are directories independent (`ImplementsAddressSpaces`)? | 3 directories and 5 tables of 2 entries; a kernel of 2 pages in 2 tables; 3 virtual and 2 physical pages |
| `vmm_kernel` | After `init_vmm`, is the kernel mapped in its directory and does the processor use it? **No**, twice | as `vmm` |

Why the bounds are enough. Heap: three pages are the fewest for which a list has
a first, an inner and a last element while one page is held; the hole keeps
drift and adjacency apart; two frees let one page drift twice or two once.
`heap_boot` has requests of one, two and three pages (the kernel's are of one to
four), and room for older blocks above and below each. Tasking: three tasks have a
first, a middle and a last one, and a creation can hit each position. Shell:
three rows make a line wrap, a backspace over the wrap and a scroll happen
within one command line; the fifth slot makes the buffer full. States
of `shell` that differ only in cells nothing looks at are not told apart (`VIEW
LineOrScreenView`): no guard reads a cell, and the view keeps those of a quiet
line and whether any stands behind the place where the next character goes, which
is what `ScreenShowsLine` asks and the next steps can change. Fat: the file of three sectors has its clusters in two
sectors of the table, out of order, and the entries of a directory lie in two sectors of a
cluster in the third volume. Library: five bytes hold two strings with their
NULs and every kind of overlap; 5 bits make numbers of up to two decimal and
five binary digits and include the smallest int; a message of two pieces has a
directive before and after another. Vmm: three directories are a source, its
clone and a clone of that or a bystander; five tables fill two of them and low
memory, and run out; one virtual page is another one but for the bits that the
macros drop, and the same for frames. Boot: with registers of one bit a sector
number needs all four address registers, as the real one does, and the sectors
of the commands differ from the boot sector and each other in each; two words
leave a place between two words of a transfer; two reads of a command are a
first and a later one.

What the failing runs show:

* `heap_growing` (`memory.c:100`): a second page of a block is taken from below
  and used above, where an older block lies. `init_vmm` clears a directory of
  12296 bytes that way, above the stacks allocated just before.
* `library_log` (`video.c:636`): the `va_list` is passed as an argument, so the
  number shown is an address. Every message of `log` with arguments is affected.
* `vmm_kernel` (`memory.c:249`): the kernel is mapped while `current_directory` is
  NULL, so in low memory; the message that follows the switch says that it is
  mapped in `kernel_directory`, which is empty then. And that directory is not in
  use (`memory.c:194`): cr3 is read, never loaded, by this and every later switch.
* `boot_panic` (`idt.c:18`, `main.c:98`): the whole boot ends in a general
  protection fault, because the selector 0x1b names entry 3 of the table, left
  null; and the panic reads `rip` from the eighteenth word of a frame of six.

Five more facts that the models rest on and no run refutes, because nothing in
the repository says otherwise: `free` pushes the
address after the header (`memory.c:120`), `itoa` puts the sign last
(`lib.c:263`), `%lx` shows eight figures in capitals (`video.c:126`), `cat` looks in
the root directory only (`fat.c:210`), and `cd ..` finds no entry (`fat.c:108`).

Deadlock is checked in every run but `shell`, where the boot thread's `cli` or a
handler that waits for the drive ends everything; the machine that stops for
good (`Halted`) is a stuttering action, as the code loops on `hlt`.

### Fairness

* `Tasking`: weak fairness of `yield`, since `task1` and `task2` call it in
  every round of an endless loop without a blocking call; and of the interrupt, which
  the processor takes when the flag is set.
  Creating tasks is not fair, and nothing forces a task to be created.
* `Shell`: weak fairness of the handler: the processor enters it when a key waits
  and interrupts are on, and once entered it runs to its end or, in a command, to
  the wait for a drive that does not answer. Nothing is assumed of the boot
  thread. `KeysTaken` ends at its `cli` and excepts that wait.
* `Fat`: weak fairness of the turns of a command, which runs inside that handler.
* `Boot`: strong fairness of the boot thread, because the handler takes it
  aside again and again but keys are typed more slowly than instructions run;
  weak fairness of the handler and of the drive, which answers a command with
  data or an error. `PromptReached` names the cases in which the wait for DRQ
  has no end.
* `Heap` and `Vmm` have no liveness property: `alloc_page` may halt for good.

## Proofs

`HeapProofs` proves for every machine size, memory map, set of requests and bound on
frees, assuming `HeapAssumption` (the boot loader's regions are page-aligned,
disjoint and without page 0) and `SmallRequests`: `TypeOK`, `FreeListLinked`, `BlocksDisjoint`,
`HeaderIntact`, `EveryPageHeld`, and that `Heap` implements `FramePool`.

None of these is inductive: that a link is intact depends on no block covering
it, which depends on how far pages have drifted. The inductive invariant `IInv`
says, beside types:

* *NearPage*: every address on the list or in front of a held block lies at
  most `frees` words above a boot page;
* *OneHolder*: no two places on the list and no two blocks belong to the same
  boot page, nor a place and a block;
* *SomeHolder*: each boot page has a place or a block;
* *Linked* and *Headers*: the words in memory are what the list and the blocks
  need.

With `SmallRequests` and *NearPage* a block lies inside its boot page, so
*OneHolder* makes blocks and links disjoint, and a client's store can disturb
neither *Linked* nor *Headers*. There is one lemma per action, and one for each
way an action can touch the invariant. For the refinement the list is mapped to page
numbers (`Home`), and each step is shown to be `Take`, `Give`, `Stop` or a
stutter.

`HeapBootProofs` speaks of requests of any number of pages, as the boot makes
them, up to the first `free` (`BeforeFrees`: `MaxFrees = 0`, and the memory map
is in rising order, `PagesRise`): `TypeOK`, `FreeListLinked`,
`SafeWhenNotGrowing`, `PagesAccounted`. Pages leave the list downwards, so it is
always the rest of the initial one. The inductive invariant `BootInv` gives every
block an interval of places of the initial list, as long as its size needs, and
keeps the intervals disjoint. A caller's stores go upwards from its header page,
and every free page lies below it: no link is in reach, nor a later block. With
requests of several pages *and* frees nothing of this holds (`heap_growing`).
`PagesAccounted` sums over a set of blocks; the proof shows first that such a sum
does not depend on the order of adding up.

`VmmProofs` proves for directories, tables and frames of any width and any
placement of the kernel, assuming `VmmAssumption`: `TypeOK`, `TablesOwned`, that
`Vmm` implements `AddressSpaces`. The inductive invariant adds to
`TablesOwned` that a directory not in use has no tables (`UnusedEmpty`), which
makes the directory that `init_vmm` and `clone_directory` take an empty space. Each way of writing
is then shown once to change one slot of one space (`IntoTable`, `FreshTable`)
or to copy a space (`CloneFacts`), and invariant and refinement both follow from
these facts.

`TaskingProofs`, for any number of tasks, call sites and outcomes of a task's
work: `TypeOK`, `TaskListLinked`, `ContextPreserved`, `BoundedWait`, and that each
step is one of `RoundRobin`'s ring (`RingSafety`). The invariant `IInv` has three
parts that depend on each other. The links spell the sequence of all tasks
(`TaskListLinked`, `TurnInRing`), so `yield` goes round a ring. How long a task
has waited plus its distance from the turn is at most the length of the ring
(`WaitAndDistance`): a creation makes the ring longer and the distance with it.
The stack of a task that is not running ends in the frame of its last `yield`
(`Suspended`), which holds that call's registers where the pops of another call
will look for them; `PopsReversePushes` compares the two lists of registers.

`ShellProofs`, for every screen, line length, set of keys and outputs, and any
number of characters of the boot thread: `TypeOK`, `LineIsString`, and with
`LineFits` also `CursorNearScreen` and `ScreenShowsLine`. `CursorInv` bounds the
boot thread's copies of `term_x` and `term_y` at every instruction of
`print_char`, whatever the handler did since they were loaded. The only store
that can lead off the screen is the row less one after a scroll: erasing the line
must not bring the cursor to row 0 meanwhile, and it does not if the line fits
the rows between. `LineFits` says that, the real screen has room to spare, and
the screen of the run `shell` has exactly that room. `ScreenInv` ties, in a
quiet line (`QuietInv`), the cursor to `command_index` and the cells behind the prompt
to the line, with one character pending between the two statements of the
handler that store it and print it. That nothing stands behind a line until the
handler first ran inside `print_char` needs the boot thread's copies at each
instruction (`BehindInv`, `Undisturbed`); a line that begins after the two were
mixed writes every cell it speaks of itself.

`BootProofs`, for every drive geometry, volume, PCI topology, set of sectors that
commands read, and number of reads: `InterruptsHandled`, `PromptReady` and, if
the registers can express the sectors (`SectorsAddressed`), `ReadsRight`. For the
interrupts the bytes of `remap_pic` are worked out, and only the keyboard's line
is left. For the devices `PciInv` says that the loops have listed
what lies before their place, by number. For the reads `DriveInv` says that a
command leaves the drive idle, that every port access of the boot thread can find
it so, and what registers and drive hold for a read in which no command came
(`OwnRead`) and for a command that found the drive idle (`OwnCommand`).

`FatProofs`, for every set of volumes and typed names with `VolumesSound`:
`TypeOK`, `PathNamesDirectory`, `LsShowsDirectory`, `ShownNamesWork`; with
`FilesWhole` also `CatPrintsFile`. `VolumesSound` asks, of directories, that an
entry whose name can be typed has a cluster of the volume and that no
two such entries have one name; of the table, that the clusters of the files
`cat` can find lead to each other or end in 0x0FFFFFFF, the only mark that `cat`
knows (a chain that ends in 0x0FFFFFF8 may belong to a directory, or to nothing
`cat` can find); and a
geometry with the root directory and cluster 2 on the disk. It asks nothing of the
clusters and names of other entries ("." and "..", which no typed name becomes, and
long names, with their high bytes) nor of other table entries (the media mark in
entry 0, free clusters, directories' chains). `FilesWhole` adds that the root directory is in
the first data cluster, where `cat` looks, that nothing in use stands behind
its end mark, and that a file has as many clusters as its size says. TLC
evaluates both for the volumes of the run, which have all of these; one has a file
with a cyclic chain.

* `WalkInv` keeps every cluster number that is followed one of the volume. The
  entry that `cd` finds is the only one of its name, so it is the one the path
  means.
* `NamesReturn`: `format_filename_83` undoes `format_entry_name` on every
  `SoundName`, with or without an extension. `ShownNamesWork` comes from it, for the
  entries of these names.
* `CatInv`: what is shown is a prefix of the file as long as the size less
  `file_size`, and `cluster` is the next of the chain.
* `LsInv`: what is shown lists the entries of the sectors looked at, each once
  (`Lists`): first the directories, then the files beside them.

`LibraryProofs`, for every memory size, set of byte values, width of int and set
of bases, without further hypotheses: `BytesMoved`, `StringsBuilt`,
`StringsCompared`, `NumbersWritten`. `PrintfShowsArguments` and
`VprintfShowsArguments` are proved for every set of pieces that are one character
or one directive (`PlainPieces`, `WholePieces`), whatever its argument; a width of
`vprintf` has to be below its buffers' 256. In these
hypotheses a directive shows what its conversion makes of the argument; what is
proved is that no piece disturbs the one next to it, so that each is shown as if
it stood alone. That a conversion agrees with C is `NumbersWritten` for the
digits, and the run `library` for widths of arguments, padding and characters. TLC
evaluates both hypotheses for the pieces of that run.

* The two directions of `memmove`: `CopyBytes` over offsets in an order reads
  every byte before it is overwritten if the order goes away from the overlap.
  The string functions are copies with a NUL, and `strlen` of the result is worked out
  from where the first NUL stands.
* Comparisons: the offset at which a loop stops is the first where the strings
  differ or end, and both the sign of the result and the order of the strings
  depend on that offset only (`StopDecides`).
* Conversions: `DigitsUp` is a function on all integers defined by itself; it is
  built on `-n..n`, larger by one each time (`DigitsGrow`), because division that
  rounds towards zero stays in there. The digits then give the number back by Horner's rule, and
  the last one found is not a zero (`DigitsDenote`), from a least number for which that fails.
* A format is walked one place at a time: `Leads` and `VLeads` say that the places
  from i to j lead from one state to another, and are put together by `LeadsOn` and
  `VLeadsOn`. For `vprintf` a directive must in addition read the same inside a longer
  format. `DirectiveShift` follows `Directive` through flags, width, star,
  precision and length; each ends inside its own piece, so the text of the next piece
  is never looked at. A piece that ends earlier, like `%h`, would read an `h` that
  follows; `WholePieces` has no such piece.

Induction over numbers and finite sets is done by least counterexample: the
library's `WFMin` says that a set of numbers that is not empty has a least member,
and this needs no rule with an operator as a parameter. Folds (`FlattenSeq`) and sums are
reduced that way to the recursive functions behind them.

Model-checked only: all liveness, the fairness part of `RoundRobin` with it
(`ENABLED` has no backend here), that what a
directive of the kernel's messages shows alone is what C shows, and what the runs with an expected violation show.
Every safety property of the passing runs is a theorem, under the hypotheses
named above.

## Not modelled, and the plan

1. `BootHeap`: heap and scheduler with real addresses, the layout of the boot
   thread's blocks and of the stacks `create_task` computes (`task.c:13`).

Left out: `init_syscalls` (three machine registers that nothing reads, as no
code executes `syscall`), `switch_to`, `set_kernel_stack`, `pic_end_slave`,
`write_sector`, `read_specific_sector` and ISO 9660 (no caller), the base
addresses and limits of segments and the task state's stack (no code gets to
ring 3, see `boot_panic`), `strchr` and `strrchr`, `delay` and
`print_animated`, font and boot protocol declarations (data), colours, wording
and pixel patterns.

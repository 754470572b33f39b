--------------------------------- MODULE Vmm ---------------------------------
(***************************************************************************)
(* The virtual memory manager of memory.c: page directories of pointers to *)
(* page tables, both from malloc.  Blocks are taken to be disjoint (Heap   *)
(* says when they are); one that is taken is never given back here.        *)
(*                                                                         *)
(* Until init_vmm is done current_directory is NULL, and map_page uses the *)
(* words at address 0 as a directory, tables and all.  The kernel's index, *)
(* 512, is the word at 0x1000: the link of the lowest page that the boot   *)
(* loader gives away, which init_memory pushed first, so it is NULL.       *)
(***************************************************************************)
EXTENDS Naturals

CONSTANTS
  NULL,
  BootTables,            \* the page tables of the boot loader
  Directories, Tables,   \* blocks that malloc can still give away
  DirSize, TableSize,    \* entries of a directory and of a table: 1024
  FrameRange,            \* values of the field frame: 2^20
  KernelBase, KernelFrame, KernelPages,   \* where the kernel is, in pages
  VirtualPages, PhysicalPages, FlagSets   \* what is mapped later on

Junk == [present |-> 1, rw |-> 1, user |-> 1, frame |-> 0]
Flags == [rw : 0..1, user : 0..1]
KernelFlags == [rw |-> 1, user |-> 0]   \* PAGE_PRESENT | PAGE_RW

ASSUME VmmAssumption ==
  /\ DirSize \in Nat \ {0} /\ TableSize \in Nat \ {0} /\ FrameRange \in Nat \ {0}
  /\ KernelBase \in Nat /\ KernelFrame \in Nat /\ KernelPages \in Nat
  /\ VirtualPages \subseteq Nat /\ PhysicalPages \subseteq Nat /\ FlagSets \subseteq Flags
  /\ NULL \notin Directories /\ NULL \notin Tables /\ BootTables \notin Directories

VARIABLES
  current_directory, kernel_directory,
  cr3,           \* the page tables that the processor uses
  directories,   \* the directories in use
  used,          \* the tables in use
  tables,        \* per directory, and for NULL, the table at each index
  pages,         \* per table its entries
  next_page,     \* the loop of init_vmm: the next page of the kernel
  halted         \* alloc_page found no page

vars == <<current_directory, kernel_directory, cr3, directories, used, tables, pages,
          next_page, halted>>

Indices == 0..(DirSize - 1)
Offsets == 0..(TableSize - 1)
Entries == [present : 0..1, rw : 0..1, user : 0..1, frame : 0..(FrameRange - 1)]
NoTables == [i \in Indices |-> NULL]
Zeroed == [o \in Offsets |-> [present |-> 0, rw |-> 0, user |-> 0, frame |-> 0]]

Init ==
  /\ current_directory = NULL /\ kernel_directory = NULL /\ cr3 = BootTables
  /\ directories = {} /\ used = {}
  /\ tables = [d \in Directories \cup {NULL} |-> NoTables]
  /\ pages = [t \in Tables |-> [o \in Offsets |-> Junk]]
  /\ next_page = 0 /\ halted = FALSE

\* The macros take 32 bits of the address, so they see page numbers modulo
\* DirSize * TableSize; the frame keeps 20 bits.
PAGE_DIRECTORY_INDEX(page) == (page \div TableSize) % DirSize
PAGE_TABLE_INDEX(page) == page % TableSize
FrameWide(page) == page
Frame(page) == page % FrameRange

Mapped(physical, flags) ==
  [present |-> 1, rw |-> flags.rw, user |-> flags.user, frame |-> Frame(physical)]

\* memset(table, 0, PAGE_SIZE) on a fresh table, and a table without it.
NotCleared(table) == pages[table]
Cleared(table) == Zeroed

\* map_page into a table that is there, and into one that it first takes.
MapInto(table, offset, entry) ==
  /\ pages' = [pages EXCEPT ![table][offset] = entry]
  /\ UNCHANGED <<used, tables>>

MapFresh(table, index, offset, entry) ==
  /\ used' = used \cup {table}
  /\ tables' = [tables EXCEPT ![current_directory][index] = table]
  /\ pages' = [pages EXCEPT ![table] = [Cleared(table) EXCEPT ![offset] = entry]]

map_page(physical, virtual, flags) ==
  LET index == PAGE_DIRECTORY_INDEX(virtual)
      offset == PAGE_TABLE_INDEX(virtual)
      entry == Mapped(physical, flags)
  IN \/ /\ tables[current_directory][index] # NULL
        /\ MapInto(tables[current_directory][index], offset, entry)
     \/ /\ tables[current_directory][index] = NULL
        /\ \E table \in Tables \ used : MapFresh(table, index, offset, entry)

\* The mov of switch_page_directory has cr3 as its source: it is not loaded.
switch_page_directory(new) ==
  /\ current_directory' = new
  /\ UNCHANGED cr3

\* init_vmm: take a directory, map the kernel page by page, switch.
InitVmm ==
  /\ kernel_directory = NULL /\ ~halted
  /\ \E d \in Directories \ directories :
       /\ kernel_directory' = d
       /\ directories' = directories \cup {d}
       /\ tables' = [tables EXCEPT ![d] = NoTables]
  /\ UNCHANGED <<current_directory, cr3, used, pages, next_page, halted>>

MapKernelPage ==
  /\ kernel_directory # NULL /\ current_directory = NULL /\ ~halted
  /\ next_page < KernelPages
  /\ map_page(KernelFrame + next_page, KernelBase + next_page, KernelFlags)
  /\ next_page' = next_page + 1
  /\ UNCHANGED <<current_directory, kernel_directory, cr3, directories, halted>>

\* When the loop is done.
LoopDone == next_page >= KernelPages

SwitchToKernel ==
  /\ kernel_directory # NULL /\ current_directory = NULL /\ ~halted
  /\ LoopDone
  /\ switch_page_directory(kernel_directory)
  /\ UNCHANGED <<kernel_directory, directories, used, tables, pages, next_page, halted>>

\* Afterwards, in any order.
Ready == current_directory # NULL /\ ~halted

MapPage(physical, virtual, flags) ==
  /\ Ready
  /\ map_page(physical, virtual, flags)
  /\ UNCHANGED <<current_directory, kernel_directory, cr3, directories, next_page, halted>>

UnmapPage(virtual) ==
  LET table == tables[current_directory][PAGE_DIRECTORY_INDEX(virtual)]
  IN /\ Ready
     /\ table # NULL
     /\ pages' = [pages EXCEPT ![table][PAGE_TABLE_INDEX(virtual)].present = 0]
     /\ UNCHANGED <<current_directory, kernel_directory, cr3, directories, used, tables,
                    next_page, halted>>

SwitchPageDirectory(d) ==
  /\ Ready
  /\ d \in directories
  /\ switch_page_directory(d)
  /\ UNCHANGED <<kernel_directory, directories, used, tables, pages, next_page, halted>>

\* clone_directory: a fresh table for every table of src, and a copy of its
\* entries; the form below it copies the pointers.
Filled(d) == {i \in Indices : tables[d][i] # NULL}

FreshTables(src) ==
  {f \in [Filled(src) -> Tables \ used] : \A i, j \in Filled(src) : f[i] = f[j] => i = j}

CopyPointers(src, d, f) ==
  /\ tables' = [tables EXCEPT ![d] = tables[src]]
  /\ UNCHANGED <<used, pages>>

CopyTables(src, d, f) ==
  /\ used' = used \cup {f[i] : i \in Filled(src)}
  /\ tables' = [tables EXCEPT ![d] = [i \in Indices |-> IF i \in Filled(src) THEN f[i] ELSE NULL]]
  /\ pages' = [t \in Tables |->
       IF \E i \in Filled(src) : f[i] = t
       THEN pages[tables[src][CHOOSE i \in Filled(src) : f[i] = t]]
       ELSE pages[t]]

CloneDirectory(src) ==
  /\ Ready
  /\ src \in directories
  /\ \E d \in Directories \ directories, f \in FreshTables(src) :
       /\ CopyTables(src, d, f)
       /\ directories' = directories \cup {d}
  /\ UNCHANGED <<current_directory, kernel_directory, cr3, next_page, halted>>

\* alloc_page halts for good when a request finds no page, whichever it is.
OutOfPages ==
  /\ ~halted
  /\ used = Tables \/ directories = Directories
  /\ halted' = TRUE
  /\ UNCHANGED <<current_directory, kernel_directory, cr3, directories, used, tables, pages,
                 next_page>>

Halted == halted /\ UNCHANGED vars

Next ==
  \/ InitVmm \/ MapKernelPage \/ SwitchToKernel
  \/ \E p \in PhysicalPages, v \in VirtualPages, flags \in FlagSets : MapPage(p, v, flags)
  \/ \E v \in VirtualPages : UnmapPage(v)
  \/ \E d \in directories : SwitchPageDirectory(d)
  \/ \E src \in directories : CloneDirectory(src)
  \/ OutOfPages \/ Halted

Spec == Init /\ [][Next]_vars

-----------------------------------------------------------------------------
(***************************************************************************)
(* Properties.                                                             *)
(***************************************************************************)

TypeOK ==
  /\ current_directory \in directories \cup {NULL}
  /\ kernel_directory \in directories \cup {NULL}
  /\ cr3 \in directories \cup {BootTables}
  /\ directories \subseteq Directories /\ used \subseteq Tables
  /\ tables \in [Directories \cup {NULL} -> [Indices -> Tables \cup {NULL}]]
  /\ pages \in [Tables -> [Offsets -> Entries]]
  /\ next_page \in 0..KernelPages
  /\ halted \in BOOLEAN

\* No two directories, and no two indices of one, lead to the same table, and
\* each table that one leads to is taken: after any cloning, what map_page and
\* unmap_page write through one directory is not seen through another.
TablesOwned ==
  \A d, e \in Directories \cup {NULL} : \A i, j \in Indices :
    tables[d][i] # NULL =>
      /\ tables[d][i] \in used
      /\ tables[d][i] = tables[e][j] => d = e /\ i = j

\* The directories are address spaces that do not depend on each other, and
\* low memory, used as a directory before there is one, is another.
Slots == Indices \X Offsets
Absent == [present |-> 0, rw |-> 0, user |-> 0, frame |-> 0]
Translations == {e \in Entries : e.present = 1}
Translation(entry) == IF entry.present = 0 THEN Absent ELSE entry

Seen(d, s) ==
  IF tables[d][s[1]] = NULL THEN Absent ELSE Translation(pages[tables[d][s[1]]][s[2]])

SpacesSeen == [d \in Directories \cup {NULL} |-> [s \in Slots |-> Seen(d, s)]]

AS == INSTANCE AddressSpaces WITH
  Spaces <- Directories \cup {NULL}, First <- NULL,
  current <- current_directory, space <- SpacesSeen

ImplementsAddressSpaces == AS!Spec

\* "VMM initialized and kernel pages mapped using PML4 at 0x%llx\n", with
\* kernel_directory (memory.c:254): when init_vmm has switched to that directory,
\* the kernel's pages are mapped in it, and it is the one the processor uses.
SlotOf(page) == <<PAGE_DIRECTORY_INDEX(page), PAGE_TABLE_INDEX(page)>>

KernelMapped ==
  [][SwitchToKernel =>
       /\ cr3' = kernel_directory
       /\ \A n \in 0..(KernelPages - 1) :
            Seen(kernel_directory, SlotOf(KernelBase + n))' =
              Mapped(KernelFrame + n, KernelFlags)]_vars

=============================================================================

-------------------------------- MODULE Heap --------------------------------
(***************************************************************************)
(* The kernel heap of memory.c: the list of free pages, which is threaded  *)
(* through the free pages themselves (Page.next is the first word of the   *)
(* page), and malloc/free, which put a one-word Header in front of what    *)
(* they hand out.  Memory is a function from word addresses to words, so a *)
(* word can be a link, a header or client data, and one owner can clobber  *)
(* the word of another exactly as in the kernel.                           *)
(*                                                                         *)
(* The unit of addresses and sizes is the 8-byte word: sizeof(Header) and  *)
(* sizeof(Page) are one word, PAGE_SIZE is PageWords words (512 in the     *)
(* code), and every request of the kernel is a whole number of words.      *)
(* malloc and free take one step per page, as their loops do.              *)
(***************************************************************************)
EXTENDS Naturals, Sequences, FiniteSetsExt

CONSTANTS
  PageWords,    \* PAGE_SIZE in words
  MemTop,       \* the highest word address of the machine
  BootPages,    \* page addresses in the order init_memory frees them
  Sizes,        \* the request sizes callers use, in words
  ClientData,   \* the words callers store in their blocks
  MaxFrees      \* bound: how often free is called

NULL == 0

\* init_memory gets page-aligned, disjoint usable regions that do not
\* contain page 0 (the Limine protocol), so its pages never overlap.
ASSUME HeapAssumption ==
  /\ PageWords \in Nat \ {0}
  /\ MemTop \in Nat
  /\ MaxFrees \in Nat
  /\ BootPages \in Seq(Nat \ {NULL})
  /\ \A i \in DOMAIN BootPages : BootPages[i] + PageWords <= MemTop
  /\ \A i, j \in DOMAIN BootPages :
       i # j => \/ BootPages[i] + PageWords <= BootPages[j]
                \/ BootPages[j] + PageWords <= BootPages[i]
  /\ Sizes \subseteq Nat /\ Sizes # {}
  /\ ClientData \subseteq Nat

VARIABLES
  free_pages,   \* head of the free list, or NULL
  mem,          \* contents of every word of memory
  pc,           \* "run", inside "malloc" or "free", or "halt"
  cur,          \* the block the running malloc or free works on
  got,          \* its loop counter i
  frees,        \* number of calls of free, up to MaxFrees
  live,         \* history: the blocks callers hold
  flist         \* history: the pages on the free list, first one first

vars == <<free_pages, mem, pc, cur, got, frees, live, flist>>

Words == 0..MemTop
Blocks == [ptr : Nat, size : Sizes]
NoBlock == [ptr |-> 1, size |-> CHOOSE s \in Sizes : TRUE]

-----------------------------------------------------------------------------
\* Address arithmetic of malloc and free.

\* size_t num_pages = (size / PAGE_SIZE) + 1, and one that forgets the + 1.
NumPagesRounded(size) == size \div PageWords
NumPages(size) == (size \div PageWords) + 1

\* malloc returns header + 1, and free goes back from there.
HeaderOf(block) == block.ptr - 1

\* The page free gives back in round i: (uintptr_t)(header + 1) + i*PAGE_SIZE.
FreedPageNext(block, i) == (HeaderOf(block) + 1) + (i + 1) * PageWords
FreedPageTwice(block, i) == (HeaderOf(block) + 2) + i * PageWords
FreedPage(block, i) == (HeaderOf(block) + 1) + i * PageWords

-----------------------------------------------------------------------------
\* The free list.

\* init_memory pushes page after page, so the last one ends up in front.
InitialList == [i \in DOMAIN BootPages |-> BootPages[Len(BootPages) - i + 1]]

LinkAfter(list, i) == IF i = Len(list) THEN NULL ELSE list[i + 1]

Init ==
  /\ flist = InitialList
  /\ free_pages = IF BootPages = << >> THEN NULL ELSE InitialList[1]
  /\ mem = [a \in Words |->
              IF \E i \in DOMAIN InitialList : InitialList[i] = a
              THEN LinkAfter(InitialList,
                             CHOOSE i \in DOMAIN InitialList : InitialList[i] = a)
              ELSE NULL]   \* never read before it is written
  /\ pc = "run"
  /\ cur = NoBlock
  /\ got = 0
  /\ frees = 0
  /\ live = {}

\* alloc_page: unlink the first page; the caller gets it with word0 in its
\* first word (NULL, or the Header malloc writes over it at once).
alloc_page(word0) ==
  /\ free_pages # NULL
  /\ free_pages' = mem[free_pages]
  /\ mem' = [mem EXCEPT ![free_pages] = word0]
  /\ flist' = Tail(flist)

\* free_page: link the page in front.  The first form does its two
\* assignments in the wrong order.
free_page_swapped(page) ==
  /\ mem' = [mem EXCEPT ![page] = page]
  /\ free_pages' = page
  /\ flist' = <<page>> \o flist

free_page(page) ==
  /\ mem' = [mem EXCEPT ![page] = free_pages]
  /\ free_pages' = page
  /\ flist' = <<page>> \o flist

-----------------------------------------------------------------------------
\* malloc has n pages of the block: it returns the block or loops.  The first
\* form leaves the loop a round early.
TakenEarly(block, n) ==
  IF n + 1 >= NumPages(block.size)
  THEN /\ pc' = "run"
       /\ live' = live \cup {block}
       /\ cur' = NoBlock
       /\ got' = 0
  ELSE /\ pc' = "malloc"
       /\ cur' = block
       /\ got' = n
       /\ UNCHANGED live

Taken(block, n) ==
  IF n >= NumPages(block.size)
  THEN /\ pc' = "run"
       /\ live' = live \cup {block}
       /\ cur' = NoBlock
       /\ got' = 0
  ELSE /\ pc' = "malloc"
       /\ cur' = block
       /\ got' = n
       /\ UNCHANGED live

\* malloc(size): the header page.
MallocNoHeader(size) ==
  /\ pc = "run"
  /\ alloc_page(NULL)
  /\ Taken([ptr |-> free_pages + 1, size |-> size], 1)
  /\ UNCHANGED frees

Malloc(size) ==
  /\ pc = "run"
  /\ alloc_page(NumPages(size))
  /\ Taken([ptr |-> free_pages + 1, size |-> size], 1)
  /\ UNCHANGED frees

\* malloc(size): one more page.  Its address is only tested against NULL:
\* malloc takes it for granted that it follows the header page.
MallocMore ==
  /\ pc = "malloc"
  /\ alloc_page(NULL)
  /\ Taken(cur, got + 1)
  /\ UNCHANGED frees

\* alloc_page finds the list empty and loops on hlt: it never returns NULL,
\* so the error branches of malloc and of its callers are not reached.
OutOfPages ==
  /\ pc \in {"run", "malloc"}
  /\ free_pages = NULL
  /\ pc' = "halt"
  /\ UNCHANGED <<free_pages, mem, cur, got, frees, live, flist>>

Halted ==
  /\ pc = "halt"
  /\ UNCHANGED vars

\* free(ptr): called by the holder of the block, which gives it up.
Free(block) ==
  /\ pc = "run"
  /\ frees < MaxFrees
  /\ pc' = "free"
  /\ cur' = block
  /\ got' = 0
  /\ frees' = frees + 1
  /\ live' = live \ {block}
  /\ UNCHANGED <<free_pages, mem, flist>>

\* One round of the loop of free, which reads the header in every round.
FreeMore ==
  /\ pc = "free"
  /\ got < mem[HeaderOf(cur)]
  /\ free_page(FreedPage(cur, got))
  /\ got' = got + 1
  /\ UNCHANGED <<pc, cur, frees, live>>

FreeReturn ==
  /\ pc = "free"
  /\ got >= mem[HeaderOf(cur)]
  /\ pc' = "run"
  /\ cur' = NoBlock
  /\ got' = 0
  /\ UNCHANGED <<free_pages, mem, frees, live, flist>>

\* A holder stores into one of the words it asked for.
ClientWrite(block) ==
  /\ pc = "run"
  /\ \E off \in 0..(block.size - 1), v \in ClientData :
       mem' = [mem EXCEPT ![block.ptr + off] = v]
  /\ UNCHANGED <<free_pages, pc, cur, got, frees, live, flist>>

Next ==
  \/ \E size \in Sizes : Malloc(size)
  \/ MallocMore
  \/ OutOfPages
  \/ Halted
  \/ \E block \in live : Free(block) \/ ClientWrite(block)
  \/ FreeMore
  \/ FreeReturn

Spec == Init /\ [][Next]_vars

-----------------------------------------------------------------------------
(***************************************************************************)
(* Properties.                                                             *)
(***************************************************************************)

TypeOK ==
  /\ free_pages \in Words
  /\ mem \in [Words -> Nat]
  /\ pc \in {"run", "malloc", "free", "halt"}
  /\ cur \in Blocks
  /\ got \in Nat
  /\ frees \in 0..MaxFrees
  /\ live \subseteq Blocks
  /\ flist \in Seq(Words)

\* The words of a block: its header and what the caller asked for.
Extent(block) == HeaderOf(block)..(block.ptr + block.size - 1)

\* The boot page an address lies in.
Home(a) ==
  CHOOSE i \in DOMAIN BootPages :
    BootPages[i] <= a /\ a < BootPages[i] + PageWords

\* The block whose page free has not given back yet.
Returning == IF pc = "free" /\ got = 0 THEN {cur} ELSE {}

\* Following Page.next from free_pages visits exactly the pages that were
\* freed and not allocated since, once each, and ends at NULL: no link of the
\* free list is lost, stale or overwritten by what a caller stores.
FreeListLinked ==
  /\ free_pages = IF flist = << >> THEN NULL ELSE flist[1]
  /\ \A i \in DOMAIN flist : mem[flist[i]] = LinkAfter(flist, i)
  /\ \A i, j \in DOMAIN flist : flist[i] = flist[j] => i = j

\* No word belongs to two live blocks, and the link word of a free page is
\* in no live block, however often pages have been freed and reused.
BlocksDisjoint ==
  /\ \A b, c \in live : b # c => Extent(b) \cap Extent(c) = {}
  /\ \A b \in live, i \in DOMAIN flist : flist[i] \notin Extent(b)

\* free will find the page count that malloc stored: nothing that any caller
\* stores into its own block reaches the header of another.
HeaderIntact ==
  \A b \in live \cup Returning : mem[HeaderOf(b)] = NumPages(b.size)

\* Every page that init_memory found is on the free list or held by a caller:
\* malloc and free leak none (for requests of one page).
EveryPageHeld ==
  \A k \in DOMAIN BootPages :
    \/ \E i \in DOMAIN flist : Home(flist[i]) = k
    \/ \E b \in live \cup Returning : Home(HeaderOf(b)) = k

\* malloc takes pages downwards but hands out words upwards from the header
\* page, so a block of several pages lies over older ones.  It spares another
\* block if it was taken later and needs no more pages than that one did.
SafeWhenNotGrowing ==
  \A b, c \in live :
    (/\ HeaderOf(c) < HeaderOf(b)
     /\ NumPages(c.size) <= NumPages(b.size)
     /\ c.size + 1 <= NumPages(c.size) * PageWords)
    => Extent(b) \cap Extent(c) = {}

\* While nothing is freed, every page is on the free list, counted in the
\* header of a live block, or taken by the running malloc: none is lost.
PagesAccounted ==
  Len(flist) + MapThenSumSet(LAMBDA b : NumPages(b.size), live) + got
    = Len(BootPages)

\* The requests for which the heap is sound: a block fits in its page with
\* its header, wherever in the page the earlier calls of free moved it.
SmallRequests == \A size \in Sizes : size + 1 + MaxFrees <= PageWords

\* The memory map of the boot loader lists its entries, and so init_memory its
\* pages, in rising order.
PagesRise ==
  \A i, j \in DOMAIN BootPages : i < j => BootPages[i] < BootPages[j]

\* The heap hands out frames like FramePool: last freed, first taken.
Pool == INSTANCE FramePool WITH
  FrameCount <- Len(BootPages),
  stack <- [i \in DOMAIN flist |-> Home(flist[i])],
  used <- {Home(HeaderOf(b)) : b \in live \cup Returning},
  stopped <- (pc = "halt")

ImplementsFramePool == Pool!PoolSpec

=============================================================================

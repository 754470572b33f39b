----------------------------- MODULE MCHeapBoot -----------------------------
(***************************************************************************)
(* A machine for requests of one, two and three pages, as the boot thread  *)
(* makes them before memory_test: two usable pages at word 3, a reserved   *)
(* one, and four usable pages at word 12.  MemTop leaves room above the    *)
(* last usable page, where the first blocks of several pages reach.        *)
(***************************************************************************)
EXTENDS Heap, MemoryMap

MCEntries ==
  << [usable |-> TRUE,  base |-> 3,  length |-> 6],
     [usable |-> FALSE, base |-> 9,  length |-> 3],
     [usable |-> TRUE,  base |-> 12, length |-> 12] >>

MCBootPages == UsablePages(MCEntries, 3)

ASSUME MCPagesRise == PagesRise

=============================================================================

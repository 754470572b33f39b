------------------------------- MODULE MCHeap -------------------------------
(***************************************************************************)
(* A machine for TLC: pages of five words, two usable regions (two pages   *)
(* at word 5, one page at word 20) around a reserved one.  With two frees  *)
(* at most, a request of two words is the largest SmallRequests allows.    *)
(***************************************************************************)
EXTENDS Heap, MemoryMap

MCEntries ==
  << [usable |-> TRUE,  base |-> 5,  length |-> 10],
     [usable |-> FALSE, base |-> 15, length |-> 5],
     [usable |-> TRUE,  base |-> 20, length |-> 6] >>

MCBootPages == UsablePages(MCEntries, 5)

=============================================================================

------------------------------ MODULE MemoryMap ------------------------------
(***************************************************************************)
(* The order in which init_memory (memory.c) walks the memory map of the   *)
(* boot loader: entry after entry, skipping what is not usable, and page   *)
(* after page upwards inside an entry.  A tail of an entry shorter than a  *)
(* page is left out.                                                       *)
(***************************************************************************)
LOCAL INSTANCE Naturals
LOCAL INSTANCE Sequences
LOCAL INSTANCE SequencesExt

PagesOf(entry, pageWords) ==
  [j \in 1..(entry.length \div pageWords) |-> entry.base + (j - 1) * pageWords]

UsablePages(entries, pageWords) ==
  FlattenSeq([i \in DOMAIN entries |->
                IF entries[i].usable THEN PagesOf(entries[i], pageWords)
                ELSE << >>])

=============================================================================

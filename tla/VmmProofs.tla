------------------------------ MODULE VmmProofs ------------------------------
(***************************************************************************)
(* Proofs about Vmm for directories, tables and address widths of any size *)
(* and any placement of the kernel.                                        *)
(*                                                                         *)
(* The argument: a table in use hangs at one index of one directory, and a *)
(* directory not in use has no tables.  So a store through a directory is  *)
(* a store into one slot of one space, and a clone starts from nothing.    *)
(***************************************************************************)
EXTENDS Vmm, TLAPS

Spaces == Directories \cup {NULL}

UnusedEmpty == \A d \in Directories \ directories : tables[d] = NoTables

IInv == TypeOK /\ TablesOwned /\ UnusedEmpty

-----------------------------------------------------------------------------
\* Every address has its place, whatever its size (memory.h's macros).

LEMMA Remainder ==
  ASSUME NEW n \in Nat, NEW m \in Nat \ {0}
  PROVE  n % m \in 0..(m - 1) /\ n \div m \in Nat
OBVIOUS

LEMMA IndexType ==
  ASSUME NEW page \in Nat
  PROVE  PAGE_DIRECTORY_INDEX(page) \in Indices
<1>1. DirSize \in Nat \ {0} /\ TableSize \in Nat \ {0}
  BY VmmAssumption
<1>2. page \div TableSize \in Nat
  BY <1>1, Remainder
<1> QED  BY <1>1, <1>2, Remainder DEF PAGE_DIRECTORY_INDEX, Indices

LEMMA OffsetType ==
  ASSUME NEW page \in Nat
  PROVE  PAGE_TABLE_INDEX(page) \in Offsets
BY VmmAssumption, Remainder DEF PAGE_TABLE_INDEX, Offsets

LEMMA MappedType ==
  ASSUME NEW physical \in Nat, NEW flags \in Flags
  PROVE  /\ Mapped(physical, flags) \in Entries
         /\ Mapped(physical, flags).present = 1
<1>1. Frame(physical) \in 0..(FrameRange - 1)
  BY VmmAssumption, Remainder DEF Frame
<1> QED  BY <1>1 DEF Mapped, Entries, Flags

LEMMA ZeroedType ==
  /\ Zeroed \in [Offsets -> Entries]
  /\ \A o \in Offsets : Zeroed[o].present = 0
BY VmmAssumption DEF Zeroed, Entries

LEMMA TableFacts ==
  ASSUME IInv, NEW d \in Spaces, NEW i \in Indices, tables[d][i] # NULL
  PROVE  tables[d][i] \in Tables /\ tables[d][i] \in used
BY DEF IInv, TypeOK, TablesOwned, Spaces

LEMMA CurrentIsSpace ==
  ASSUME IInv
  PROVE  current_directory \in Spaces
BY DEF IInv, TypeOK, Spaces

-----------------------------------------------------------------------------
(***************************************************************************)
(* What a store of one entry and a mapping do to the spaces.               *)
(***************************************************************************)

\* One slot of the current space has changed.
SlotSet(index, offset, entry) ==
  \A d \in Spaces, s \in Slots :
    Seen(d, s)' = IF d = current_directory /\ s = <<index, offset>>
                  THEN Translation(entry) ELSE Seen(d, s)

LEMMA IntoTable ==
  ASSUME IInv, NEW index \in Indices, NEW offset \in Offsets, NEW entry \in Entries,
         tables[current_directory][index] # NULL,
         MapInto(tables[current_directory][index], offset, entry)
  PROVE  /\ pages' \in [Tables -> [Offsets -> Entries]]
         /\ SlotSet(index, offset, entry)
<1> DEFINE table == tables[current_directory][index]
<1>1. /\ current_directory \in Spaces /\ table \in Tables
      /\ pages \in [Tables -> [Offsets -> Entries]]
      /\ pages' = [pages EXCEPT ![table][offset] = entry]
      /\ tables' = tables
  BY CurrentIsSpace, TableFacts DEF MapInto, IInv, TypeOK
<1>2. pages' \in [Tables -> [Offsets -> Entries]]
  BY <1>1
<1>3. ASSUME NEW d \in Spaces, NEW s \in Slots
      PROVE  Seen(d, s)' = IF d = current_directory /\ s = <<index, offset>>
                           THEN Translation(entry) ELSE Seen(d, s)
  <2>1. s[1] \in Indices /\ s[2] \in Offsets /\ s = <<s[1], s[2]>>
    BY DEF Slots
  <2>2. CASE tables[d][s[1]] = NULL
    <3>1. ~(d = current_directory /\ s[1] = index)
      BY <2>2
    <3> QED  BY <2>1, <2>2, <3>1, <1>1 DEF Seen
  <2>3. CASE tables[d][s[1]] # NULL
    <3>1. tables[d][s[1]] \in Tables
      BY <2>1, <2>3, TableFacts
    <3>2. tables[d][s[1]] = table <=> d = current_directory /\ s[1] = index
      BY <2>1, <2>3, <1>1 DEF IInv, TablesOwned, Spaces
    <3>3. pages'[tables[d][s[1]]][s[2]] =
            IF tables[d][s[1]] = table /\ s[2] = offset THEN entry
            ELSE pages[tables[d][s[1]]][s[2]]
      BY <2>1, <3>1, <1>1
    <3>4. s = <<index, offset>> <=> s[1] = index /\ s[2] = offset
      BY <2>1
    <3>5. Seen(d, s)' = Translation(pages'[tables[d][s[1]]][s[2]])
      BY <1>1, <2>3 DEF Seen, Translation
    <3>6. Seen(d, s) = Translation(pages[tables[d][s[1]]][s[2]])
      BY <2>3 DEF Seen
    <3> QED  BY <3>2, <3>3, <3>4, <3>5, <3>6
  <2> QED  BY <2>2, <2>3
<1> QED  BY <1>2, <1>3 DEF SlotSet

LEMMA FreshTable ==
  ASSUME IInv, NEW index \in Indices, NEW offset \in Offsets, NEW entry \in Entries,
         tables[current_directory][index] = NULL,
         NEW table \in Tables \ used, MapFresh(table, index, offset, entry),
         current_directory \in directories \cup {NULL}, directories' = directories
  PROVE  /\ used' \subseteq Tables
         /\ tables' \in [Spaces -> [Indices -> Tables \cup {NULL}]]
         /\ pages' \in [Tables -> [Offsets -> Entries]]
         /\ TablesOwned' /\ UnusedEmpty'
         /\ SlotSet(index, offset, entry)
<1>1. /\ current_directory \in Spaces /\ table \in Tables /\ table # NULL
      /\ pages \in [Tables -> [Offsets -> Entries]]
      /\ tables \in [Spaces -> [Indices -> Tables \cup {NULL}]]
      /\ used \subseteq Tables
  BY CurrentIsSpace, VmmAssumption DEF IInv, TypeOK, Spaces
<1>2. /\ used' = used \cup {table}
      /\ tables' = [tables EXCEPT ![current_directory][index] = table]
      /\ pages' = [pages EXCEPT ![table] = [Zeroed EXCEPT ![offset] = entry]]
  BY DEF MapFresh, Cleared
<1>3. [Zeroed EXCEPT ![offset] = entry] \in [Offsets -> Entries]
  BY ZeroedType
<1>4. /\ tables' \in [Spaces -> [Indices -> Tables \cup {NULL}]]
      /\ pages' \in [Tables -> [Offsets -> Entries]]
  BY <1>1, <1>2, <1>3
<1>5. \A d \in Spaces, i \in Indices :
        tables'[d][i] = IF d = current_directory /\ i = index THEN table ELSE tables[d][i]
  BY <1>1, <1>2
<1>6. \A d \in Spaces, i \in Indices : tables[d][i] # NULL => tables[d][i] \in used
  BY TableFacts
<1>7. TablesOwned'
  <2>1. ASSUME NEW d \in Spaces, NEW e \in Spaces, NEW i \in Indices, NEW j \in Indices,
               tables'[d][i] # NULL
        PROVE  /\ tables'[d][i] \in used'
               /\ tables'[d][i] = tables'[e][j] => d = e /\ i = j
    <3>1. tables[d][i] # NULL /\ tables[d][i] = tables[e][j] => d = e /\ i = j
      BY DEF IInv, TablesOwned, Spaces
    <3>2. tables'[d][i] \in used'
      BY <2>1, <1>2, <1>5, <1>6
    <3> QED  BY <2>1, <3>1, <3>2, <1>1, <1>5, <1>6
  <2> QED  BY <2>1 DEF TablesOwned, Spaces
<1>8. UnusedEmpty'
  <2>1. ASSUME NEW d \in Directories \ directories
        PROVE  tables'[d] = NoTables
    <3>1. d # current_directory /\ d \in Spaces
      BY VmmAssumption DEF Spaces
    <3> QED  BY <3>1, <1>1, <1>2 DEF IInv, UnusedEmpty
  <2> QED  BY <2>1 DEF UnusedEmpty
<1>9. ASSUME NEW d \in Spaces, NEW s \in Slots
      PROVE  Seen(d, s)' = IF d = current_directory /\ s = <<index, offset>>
                           THEN Translation(entry) ELSE Seen(d, s)
  <2>1. s[1] \in Indices /\ s[2] \in Offsets /\ s = <<s[1], s[2]>>
    BY DEF Slots
  <2>2. CASE d = current_directory /\ s[1] = index
    <3>1. tables'[d][s[1]] = table /\ Seen(d, s) = Absent
      BY <2>1, <2>2, <1>5 DEF Seen
    <3>2. pages'[table][s[2]] = IF s[2] = offset THEN entry ELSE Zeroed[s[2]]
      BY <2>1, <1>1, <1>2, ZeroedType
    <3>3. Seen(d, s)' = Translation(pages'[table][s[2]])
      BY <3>1, <1>1 DEF Seen, Translation
    <3>4. Translation(Zeroed[s[2]]) = Absent
      BY <2>1, ZeroedType DEF Translation
    <3> QED  BY <2>1, <2>2, <3>1, <3>2, <3>3, <3>4
  <2>3. CASE ~(d = current_directory /\ s[1] = index)
    <3>1. tables'[d][s[1]] = tables[d][s[1]]
      BY <2>1, <2>3, <1>5
    <3>2. tables[d][s[1]] # NULL =>
            pages'[tables[d][s[1]]] = pages[tables[d][s[1]]]
      BY <2>1, <1>1, <1>2, <1>6
    <3>3. s # <<index, offset>> \/ d # current_directory
      BY <2>3
    <3> QED  BY <3>1, <3>2, <3>3 DEF Seen, Translation
  <2> QED  BY <2>2, <2>3
<1> QED  BY <1>1, <1>2, <1>4, <1>7, <1>8, <1>9 DEF SlotSet

\* map_page, whichever of its two ways it goes (memory.c:150-169).
LEMMA MapPageFacts ==
  ASSUME IInv, NEW physical \in Nat, NEW virtual \in Nat, NEW flags \in Flags,
         map_page(physical, virtual, flags), directories' = directories
  PROVE  /\ used' \subseteq Tables
         /\ tables' \in [Spaces -> [Indices -> Tables \cup {NULL}]]
         /\ pages' \in [Tables -> [Offsets -> Entries]]
         /\ TablesOwned' /\ UnusedEmpty'
         /\ SlotSet(PAGE_DIRECTORY_INDEX(virtual), PAGE_TABLE_INDEX(virtual),
                    Mapped(physical, flags))
<1> DEFINE index == PAGE_DIRECTORY_INDEX(virtual)
           offset == PAGE_TABLE_INDEX(virtual)
           entry == Mapped(physical, flags)
<1>1. index \in Indices /\ offset \in Offsets /\ entry \in Entries
  BY IndexType, OffsetType, MappedType
<1>2. CASE tables[current_directory][index] # NULL
  <2>1. MapInto(tables[current_directory][index], offset, entry)
    BY <1>2 DEF map_page
  <2>2. used' = used /\ tables' = tables
    BY <2>1 DEF MapInto
  <2>3. used \subseteq Tables /\ tables \in [Spaces -> [Indices -> Tables \cup {NULL}]]
    BY DEF IInv, TypeOK, Spaces
  <2>4. TablesOwned' /\ UnusedEmpty'
    BY <2>2 DEF IInv, TablesOwned, UnusedEmpty
  <2>5. /\ pages' \in [Tables -> [Offsets -> Entries]]
        /\ SlotSet(index, offset, entry)
    BY <1>1, <1>2, <2>1, IntoTable
  <2> QED  BY <2>2, <2>3, <2>4, <2>5
<1>3. CASE tables[current_directory][index] = NULL
  <2>1. PICK table \in Tables \ used : MapFresh(table, index, offset, entry)
    BY <1>3 DEF map_page
  <2>2. current_directory \in directories \cup {NULL}
    BY DEF IInv, TypeOK
  <2> QED  BY <1>1, <1>3, <2>1, <2>2, FreshTable
<1> QED  BY <1>2, <1>3

-----------------------------------------------------------------------------
\* clear the present bit of one entry: the slot is absent (memory.c:171-187).

LEMMA UnmapFacts ==
  ASSUME IInv, NEW virtual \in Nat, UnmapPage(virtual)
  PROVE  /\ pages' \in [Tables -> [Offsets -> Entries]]
         /\ \E entry \in Entries :
              /\ entry.present = 0
              /\ SlotSet(PAGE_DIRECTORY_INDEX(virtual), PAGE_TABLE_INDEX(virtual), entry)
<1> DEFINE index == PAGE_DIRECTORY_INDEX(virtual)
           offset == PAGE_TABLE_INDEX(virtual)
           table == tables[current_directory][index]
           entry == [pages[table][offset] EXCEPT !.present = 0]
<1>1. index \in Indices /\ offset \in Offsets
  BY IndexType, OffsetType
<1>2. /\ table # NULL /\ tables' = tables /\ used' = used
      /\ pages' = [pages EXCEPT ![table][offset].present = 0]
  BY DEF UnmapPage
<1>3. table \in Tables
  BY <1>1, <1>2, CurrentIsSpace, TableFacts
<1>4. pages[table][offset] \in Entries
  BY <1>1, <1>3 DEF IInv, TypeOK
<1>5. entry \in Entries /\ entry.present = 0
  BY <1>4 DEF Entries
<1>6. pages' = [pages EXCEPT ![table][offset] = entry]
  BY <1>2
<1>7. MapInto(table, offset, entry)
  BY <1>2, <1>6 DEF MapInto
<1> HIDE DEF entry
<1>8. /\ pages' \in [Tables -> [Offsets -> Entries]]
      /\ SlotSet(index, offset, entry)
  BY <1>1, <1>2, <1>5, <1>7, IntoTable
<1> QED  BY <1>5, <1>8

-----------------------------------------------------------------------------
\* clone_directory: the copy has its own tables, and shows what the source
\* shows at that moment (memory.c:204-229).

LEMMA CloneFacts ==
  ASSUME IInv, NEW src \in directories, NEW d \in Directories \ directories,
         NEW f \in FreshTables(src), CopyTables(src, d, f),
         directories' = directories \cup {d}
  PROVE  /\ used' \subseteq Tables
         /\ tables' \in [Spaces -> [Indices -> Tables \cup {NULL}]]
         /\ pages' \in [Tables -> [Offsets -> Entries]]
         /\ TablesOwned' /\ UnusedEmpty'
         /\ \A e \in Spaces, s \in Slots :
              Seen(e, s)' = IF e = d THEN Seen(src, s) ELSE Seen(e, s)
         /\ \A s \in Slots : Seen(d, s) = Absent
<1> DEFINE Mine(t) == \E i \in Filled(src) : f[i] = t
           Place(t) == CHOOSE i \in Filled(src) : f[i] = t
<1>1. /\ src \in Spaces /\ d \in Spaces /\ d # NULL /\ d # src
      /\ pages \in [Tables -> [Offsets -> Entries]]
      /\ tables \in [Spaces -> [Indices -> Tables \cup {NULL}]]
      /\ used \subseteq Tables /\ NULL \notin Tables
      /\ Filled(src) \subseteq Indices
  BY VmmAssumption DEF IInv, TypeOK, Spaces, Filled
<1>2. /\ f \in [Filled(src) -> Tables \ used]
      /\ \A i, j \in Filled(src) : f[i] = f[j] => i = j
  BY DEF FreshTables
<1>3. /\ used' = used \cup {f[i] : i \in Filled(src)}
      /\ tables' = [tables EXCEPT ![d] =
                      [i \in Indices |-> IF i \in Filled(src) THEN f[i] ELSE NULL]]
      /\ pages' = [t \in Tables |->
                     IF Mine(t) THEN pages[tables[src][Place(t)]] ELSE pages[t]]
  BY DEF CopyTables
<1>4. \A i \in Filled(src) : /\ Mine(f[i]) /\ Place(f[i]) = i
                             /\ f[i] \in Tables /\ f[i] \notin used /\ f[i] # NULL
  BY <1>1, <1>2
<1>5. \A e \in Spaces, i \in Indices :
        tables'[e][i] = IF e # d THEN tables[e][i]
                        ELSE IF i \in Filled(src) THEN f[i] ELSE NULL
  BY <1>1, <1>3
<1>6. \A e \in Spaces, i \in Indices :
        tables[e][i] # NULL => tables[e][i] \in Tables /\ tables[e][i] \in used
  BY TableFacts
<1>7. \A t \in used : ~Mine(t)
  BY <1>4
<1>8. /\ used' \subseteq Tables
      /\ tables' \in [Spaces -> [Indices -> Tables \cup {NULL}]]
  BY <1>1, <1>2, <1>3, <1>4
<1>9. pages' \in [Tables -> [Offsets -> Entries]]
  <2>1. ASSUME NEW t \in Tables, Mine(t)
        PROVE  pages[tables[src][Place(t)]] \in [Offsets -> Entries]
    <3>1. Place(t) \in Filled(src)
      BY <2>1
    <3>2. tables[src][Place(t)] \in Tables
      BY <3>1, <1>1, <1>6 DEF Filled
    <3> QED  BY <3>2, <1>1
  <2> HIDE DEF Mine, Place
  <2> QED  BY <2>1, <1>1, <1>3
<1>10. TablesOwned'
  <2>1. ASSUME NEW a \in Spaces, NEW e \in Spaces, NEW i \in Indices, NEW j \in Indices,
               tables'[a][i] # NULL
        PROVE  /\ tables'[a][i] \in used'
               /\ tables'[a][i] = tables'[e][j] => a = e /\ i = j
    <3>1. tables[a][i] # NULL /\ tables[a][i] = tables[e][j] => a = e /\ i = j
      BY DEF IInv, TablesOwned, Spaces
    <3>2. tables'[a][i] \in used'
      BY <2>1, <1>3, <1>5, <1>6
    <3>3. CASE a = d
      BY <3>3, <2>1, <1>2, <1>4, <1>5, <1>6, <3>2
    <3>4. CASE a # d
      BY <3>4, <2>1, <3>1, <3>2, <1>4, <1>5, <1>6
    <3> QED  BY <3>3, <3>4
  <2> QED  BY <2>1 DEF TablesOwned, Spaces
<1>11. UnusedEmpty'
  <2>1. ASSUME NEW e \in Directories \ directories'
        PROVE  tables'[e] = NoTables
    <3>1. e # d /\ e \in Spaces /\ e \notin directories
      BY DEF Spaces
    <3> QED  BY <3>1, <1>1, <1>3 DEF IInv, UnusedEmpty
  <2> QED  BY <2>1 DEF UnusedEmpty
<1>12. \A s \in Slots : Seen(d, s) = Absent
  BY DEF IInv, UnusedEmpty, NoTables, Seen, Slots
<1>13. ASSUME NEW e \in Spaces, NEW s \in Slots
       PROVE  Seen(e, s)' = IF e = d THEN Seen(src, s) ELSE Seen(e, s)
  <2>1. s[1] \in Indices /\ s[2] \in Offsets
    BY DEF Slots
  <2>2. CASE e # d
    <3>1. tables'[e][s[1]] = tables[e][s[1]]
      BY <2>1, <2>2, <1>5
    <3>2. tables[e][s[1]] # NULL => pages'[tables[e][s[1]]] = pages[tables[e][s[1]]]
      BY <2>1, <1>3, <1>6, <1>7
    <3> QED  BY <2>2, <3>1, <3>2 DEF Seen, Translation
  <2>3. CASE e = d /\ s[1] \in Filled(src)
    <3>1. tables'[e][s[1]] = f[s[1]]
      BY <2>1, <2>3, <1>5
    <3>2. pages'[f[s[1]]] = pages[tables[src][s[1]]]
      BY <2>3, <1>3, <1>4
    <3>3. f[s[1]] # NULL /\ tables[src][s[1]] # NULL
      BY <2>3, <1>4 DEF Filled
    <3> QED  BY <2>3, <3>1, <3>2, <3>3 DEF Seen, Translation
  <2>4. CASE e = d /\ s[1] \notin Filled(src)
    <3>1. tables'[e][s[1]] = NULL
      BY <2>1, <2>4, <1>5
    <3>2. tables[src][s[1]] = NULL
      BY <2>1, <2>4 DEF Filled
    <3> QED  BY <2>4, <3>1, <3>2 DEF Seen
  <2> QED  BY <2>2, <2>3, <2>4
<1> QED  BY <1>8, <1>9, <1>10, <1>11, <1>12, <1>13

-----------------------------------------------------------------------------
(***************************************************************************)
(* The invariant.                                                          *)
(***************************************************************************)

LEMMA InitInv ==
  ASSUME Init
  PROVE  IInv
<1>1. Junk \in Entries
  BY VmmAssumption DEF Junk, Entries
<1>2. NoTables \in [Indices -> Tables \cup {NULL}]
  BY DEF NoTables
<1>3. tables \in [Directories \cup {NULL} -> [Indices -> Tables \cup {NULL}]]
  BY <1>2 DEF Init
<1>4. pages \in [Tables -> [Offsets -> Entries]]
  BY <1>1 DEF Init
<1>5. TypeOK
  <2>1. halted \in BOOLEAN
    BY DEF Init
  <2>2. next_page \in 0..KernelPages
    BY VmmAssumption DEF Init
  <2>3. /\ current_directory \in directories \cup {NULL}
        /\ kernel_directory \in directories \cup {NULL}
        /\ cr3 \in directories \cup {BootTables}
        /\ directories \subseteq Directories /\ used \subseteq Tables
    BY DEF Init
  <2> QED  BY <1>3, <1>4, <2>1, <2>2, <2>3 DEF TypeOK
<1> QED  BY <1>5 DEF Init, IInv, TablesOwned, UnusedEmpty, NoTables

\* What the actions leave alone.
LEMMA Kept ==
  ASSUME IInv, UNCHANGED <<tables, used, directories>>
  PROVE  TablesOwned' /\ UnusedEmpty'
BY DEF IInv, TablesOwned, UnusedEmpty

LEMMA NextInv ==
  ASSUME IInv, [Next]_vars
  PROVE  IInv'
<1> USE DEF Spaces
<1>1. CASE InitVmm
  <2>1. PICK d \in Directories \ directories :
          /\ kernel_directory' = d
          /\ directories' = directories \cup {d}
          /\ tables' = [tables EXCEPT ![d] = NoTables]
    BY <1>1 DEF InitVmm
  <2>2. tables' = tables
    BY <2>1 DEF IInv, TypeOK, UnusedEmpty
  <2>3. TypeOK'
    BY <1>1, <2>1, <2>2 DEF InitVmm, IInv, TypeOK
  <2> QED  BY <1>1, <2>1, <2>2, <2>3 DEF InitVmm, IInv, TablesOwned, UnusedEmpty
<1>2. CASE MapKernelPage
  <2>1. /\ map_page(KernelFrame + next_page, KernelBase + next_page, KernelFlags)
        /\ directories' = directories /\ next_page' = next_page + 1
        /\ next_page < KernelPages
        /\ UNCHANGED <<current_directory, kernel_directory, cr3, halted>>
    BY <1>2 DEF MapKernelPage
  <2>2. next_page \in Nat /\ next_page' \in 0..KernelPages
    BY <2>1, VmmAssumption DEF IInv, TypeOK
  <2>3. /\ KernelFrame + next_page \in Nat /\ KernelBase + next_page \in Nat
        /\ KernelFlags \in Flags
    BY <2>2, VmmAssumption DEF KernelFlags, Flags
  <2>4. /\ used' \subseteq Tables
        /\ tables' \in [Spaces -> [Indices -> Tables \cup {NULL}]]
        /\ pages' \in [Tables -> [Offsets -> Entries]]
        /\ TablesOwned' /\ UnusedEmpty'
    BY <2>1, <2>3, MapPageFacts
  <2> QED  BY <2>1, <2>2, <2>4 DEF IInv, TypeOK
<1>3. CASE SwitchToKernel
  <2>1. TypeOK'
    BY <1>3 DEF SwitchToKernel, switch_page_directory, IInv, TypeOK
  <2> QED  BY <1>3, <2>1, Kept DEF SwitchToKernel, IInv
<1>4. ASSUME NEW p \in PhysicalPages, NEW v \in VirtualPages, NEW flags \in FlagSets,
             MapPage(p, v, flags)
      PROVE  IInv'
  <2>1. /\ map_page(p, v, flags) /\ directories' = directories
        /\ UNCHANGED <<current_directory, kernel_directory, cr3, next_page, halted>>
    BY <1>4 DEF MapPage
  <2>2. p \in Nat /\ v \in Nat /\ flags \in Flags
    BY VmmAssumption
  <2>3. /\ used' \subseteq Tables
        /\ tables' \in [Spaces -> [Indices -> Tables \cup {NULL}]]
        /\ pages' \in [Tables -> [Offsets -> Entries]]
        /\ TablesOwned' /\ UnusedEmpty'
    BY <2>1, <2>2, MapPageFacts
  <2> QED  BY <2>1, <2>3 DEF IInv, TypeOK
<1>5. ASSUME NEW v \in VirtualPages, UnmapPage(v)
      PROVE  IInv'
  <2>1. UNCHANGED <<current_directory, kernel_directory, cr3, directories, used, tables,
                    next_page, halted>>
    BY <1>5 DEF UnmapPage
  <2>2. pages' \in [Tables -> [Offsets -> Entries]]
    BY <1>5, VmmAssumption, UnmapFacts
  <2>3. TypeOK'
    BY <2>1, <2>2 DEF IInv, TypeOK
  <2> QED  BY <2>1, <2>3, Kept DEF IInv
<1>6. ASSUME NEW d \in directories, SwitchPageDirectory(d)
      PROVE  IInv'
  <2>1. TypeOK'
    BY <1>6 DEF SwitchPageDirectory, switch_page_directory, IInv, TypeOK
  <2> QED  BY <1>6, <2>1, Kept DEF SwitchPageDirectory, IInv
<1>7. ASSUME NEW src \in directories, CloneDirectory(src)
      PROVE  IInv'
  <2>1. PICK d \in Directories \ directories, f \in FreshTables(src) :
          CopyTables(src, d, f) /\ directories' = directories \cup {d}
    BY <1>7 DEF CloneDirectory
  <2>2. UNCHANGED <<current_directory, kernel_directory, cr3, next_page, halted>>
    BY <1>7 DEF CloneDirectory
  <2>3. /\ used' \subseteq Tables
        /\ tables' \in [Spaces -> [Indices -> Tables \cup {NULL}]]
        /\ pages' \in [Tables -> [Offsets -> Entries]]
        /\ TablesOwned' /\ UnusedEmpty'
    BY <2>1, CloneFacts
  <2> QED  BY <2>1, <2>2, <2>3 DEF IInv, TypeOK
<1>8. CASE OutOfPages
  <2>1. TypeOK'
    BY <1>8 DEF OutOfPages, IInv, TypeOK
  <2> QED  BY <1>8, <2>1, Kept DEF OutOfPages, IInv
<1>9. CASE Halted \/ UNCHANGED vars
  <2>1. TypeOK'
    BY <1>9 DEF Halted, vars, IInv, TypeOK
  <2> QED  BY <1>9, <2>1, Kept DEF Halted, vars, IInv
<1> QED  BY <1>1, <1>2, <1>3, <1>4, <1>5, <1>6, <1>7, <1>8, <1>9 DEF Next

LEMMA VmmInvariant == Spec => []IInv
BY InitInv, NextInv, PTL DEF Spec

\* The manager's fields and every entry keep their types: an entry's frame
\* stays within its 20 bits whatever is mapped (memory.c:150-229).
THEOREM VmmTypeCorrect == Spec => []TypeOK
BY VmmInvariant, PTL DEF IInv

\* No table is ever reached from two directories or from two indices of one
\* (memory.c:157-160, 213-226).
THEOREM TablesStayOwned == Spec => []TablesOwned
BY VmmInvariant, PTL DEF IInv

-----------------------------------------------------------------------------
(***************************************************************************)
(* Directories as independent address spaces.                              *)
(***************************************************************************)

LEMMA SlotType ==
  ASSUME NEW page \in Nat
  PROVE  SlotOf(page) \in Slots
BY IndexType, OffsetType DEF SlotOf, Slots

LEMMA MapRefines ==
  ASSUME IInv, NEW s0 \in Slots, NEW entry \in Entries,
         SlotSet(s0[1], s0[2], entry), current_directory' = current_directory
  PROVE  AS!Map(s0, Translation(entry))
<1>1. s0 = <<s0[1], s0[2]>> /\ current_directory \in Spaces
  BY CurrentIsSpace DEF Slots
<1>2. \A d \in Spaces, s \in Slots :
        Seen(d, s)' = IF d = current_directory /\ s = s0
                      THEN Translation(entry) ELSE Seen(d, s)
  BY <1>1 DEF SlotSet
<1>3. SpacesSeen' = [d \in Spaces |-> [s \in Slots |-> Seen(d, s)']]
  BY DEF SpacesSeen, Spaces
<1>4. [SpacesSeen EXCEPT ![current_directory][s0] = Translation(entry)]
        = [d \in Spaces |-> [s \in Slots |->
             IF d = current_directory /\ s = s0 THEN Translation(entry) ELSE Seen(d, s)]]
  BY <1>1 DEF SpacesSeen, Spaces
<1>5. SpacesSeen' = [SpacesSeen EXCEPT ![current_directory][s0] = Translation(entry)]
  BY <1>2, <1>3, <1>4
<1> QED  BY <1>5 DEF AS!Map

LEMMA TranslationType ==
  ASSUME NEW entry \in Entries
  PROVE  Translation(entry) \in Translations \cup {Absent}
BY DEF Translation, Translations, Entries

LEMMA CloneRefines ==
  ASSUME IInv, NEW src \in directories, CloneDirectory(src)
  PROVE  \E d \in Spaces : AS!Clone(src, d)
<1>1. PICK d \in Directories \ directories, f \in FreshTables(src) :
        CopyTables(src, d, f) /\ directories' = directories \cup {d}
  BY DEF CloneDirectory
<1>2. /\ \A e \in Spaces, s \in Slots :
           Seen(e, s)' = IF e = d THEN Seen(src, s) ELSE Seen(e, s)
      /\ \A s \in Slots : Seen(d, s) = Absent
  BY <1>1, CloneFacts
<1>3. d \in Spaces /\ src \in Spaces
  BY DEF IInv, TypeOK, Spaces
<1>4. SpacesSeen[d] = [s \in Slots |-> Absent]
  BY <1>2, <1>3 DEF SpacesSeen, Spaces
<1>5. SpacesSeen' = [e \in Spaces |-> [s \in Slots |-> Seen(e, s)']]
  BY DEF SpacesSeen, Spaces
<1>6. [SpacesSeen EXCEPT ![d] = SpacesSeen[src]]
        = [e \in Spaces |-> [s \in Slots |-> IF e = d THEN Seen(src, s) ELSE Seen(e, s)]]
  BY <1>3 DEF SpacesSeen, Spaces
<1>7. SpacesSeen' = [SpacesSeen EXCEPT ![d] = SpacesSeen[src]]
  BY <1>2, <1>5, <1>6
<1>8. current_directory' = current_directory
  BY DEF CloneDirectory
<1> QED  BY <1>3, <1>4, <1>7, <1>8 DEF AS!Clone

\* What keeps tables and pages keeps what the spaces show.
LEMMA SpacesKept ==
  ASSUME UNCHANGED <<tables, pages>>
  PROVE  SpacesSeen' = SpacesSeen
BY DEF SpacesSeen, Seen, Translation

LEMMA VmmInitRefines ==
  ASSUME Init
  PROVE  AS!Init
<1>1. \A d \in Spaces, s \in Slots : Seen(d, s) = Absent
  BY DEF Init, Seen, NoTables, Slots, Spaces
<1>2. SpacesSeen = [d \in Spaces |-> [s \in Slots |-> Absent]]
  BY <1>1 DEF SpacesSeen, Spaces
<1> QED  BY <1>2 DEF Init, AS!Init, Spaces

LEMMA VmmNextRefines ==
  ASSUME IInv, [Next]_vars
  PROVE  [AS!Next]_(AS!vars)
<1>1. CASE InitVmm
  <2>1. UNCHANGED <<tables, pages, current_directory>>
    BY <1>1 DEF InitVmm, IInv, TypeOK, UnusedEmpty
  <2> QED  BY <2>1, SpacesKept DEF AS!vars
<1>2. CASE MapKernelPage
  <2> DEFINE page == KernelBase + next_page
             entry == Mapped(KernelFrame + next_page, KernelFlags)
  <2>1. /\ map_page(KernelFrame + next_page, page, KernelFlags)
        /\ UNCHANGED <<directories, current_directory>>
    BY <1>2 DEF MapKernelPage
  <2>2. page \in Nat /\ KernelFrame + next_page \in Nat /\ KernelFlags \in Flags
    BY VmmAssumption DEF IInv, TypeOK, KernelFlags, Flags
  <2>3. SlotSet(SlotOf(page)[1], SlotOf(page)[2], entry)
    BY <2>1, <2>2, MapPageFacts DEF SlotOf
  <2>4. SlotOf(page) \in Slots /\ entry \in Entries
    BY <2>2, SlotType, MappedType
  <2> HIDE DEF page, entry
  <2>5. AS!Map(SlotOf(page), Translation(entry))
    BY <2>1, <2>3, <2>4, MapRefines
  <2> QED  BY <2>4, <2>5, TranslationType DEF AS!Next
<1>3. CASE SwitchToKernel
  <2>1. kernel_directory \in Spaces
    BY DEF IInv, TypeOK, Spaces
  <2>2. AS!Switch(kernel_directory)
    BY <1>3, SpacesKept DEF SwitchToKernel, switch_page_directory, AS!Switch
  <2> QED  BY <2>1, <2>2 DEF AS!Next, Spaces
<1>4. ASSUME NEW p \in PhysicalPages, NEW v \in VirtualPages, NEW flags \in FlagSets,
             MapPage(p, v, flags)
      PROVE  AS!Next
  <2>1. /\ map_page(p, v, flags) /\ UNCHANGED <<directories, current_directory>>
        /\ p \in Nat /\ v \in Nat /\ flags \in Flags
    BY <1>4, VmmAssumption DEF MapPage
  <2>2. SlotSet(SlotOf(v)[1], SlotOf(v)[2], Mapped(p, flags))
    BY <2>1, MapPageFacts DEF SlotOf
  <2>3. SlotOf(v) \in Slots /\ Mapped(p, flags) \in Entries
    BY <2>1, SlotType, MappedType
  <2>4. AS!Map(SlotOf(v), Translation(Mapped(p, flags)))
    BY <2>1, <2>2, <2>3, MapRefines
  <2> QED  BY <2>3, <2>4, TranslationType DEF AS!Next
<1>5. ASSUME NEW v \in VirtualPages, UnmapPage(v)
      PROVE  AS!Next
  <2>1. v \in Nat /\ current_directory' = current_directory
    BY <1>5, VmmAssumption DEF UnmapPage
  <2>2. PICK entry \in Entries : SlotSet(SlotOf(v)[1], SlotOf(v)[2], entry)
    BY <1>5, <2>1, UnmapFacts DEF SlotOf
  <2>3. SlotOf(v) \in Slots
    BY <2>1, SlotType
  <2>4. AS!Map(SlotOf(v), Translation(entry))
    BY <2>1, <2>2, <2>3, MapRefines
  <2> QED  BY <2>3, <2>4, TranslationType DEF AS!Next
<1>6. ASSUME NEW d \in directories, SwitchPageDirectory(d)
      PROVE  AS!Next
  <2>1. d \in Spaces
    BY DEF IInv, TypeOK, Spaces
  <2>2. AS!Switch(d)
    BY <1>6, SpacesKept DEF SwitchPageDirectory, switch_page_directory, AS!Switch
  <2> QED  BY <2>1, <2>2 DEF AS!Next, Spaces
<1>7. ASSUME NEW src \in directories, CloneDirectory(src)
      PROVE  AS!Next
  <2>1. src \in Spaces
    BY DEF IInv, TypeOK, Spaces
  <2> QED  BY <1>7, <2>1, CloneRefines DEF AS!Next, Spaces
<1>8. CASE OutOfPages \/ Halted \/ UNCHANGED vars
  <2>1. UNCHANGED <<tables, pages, current_directory>>
    BY <1>8 DEF OutOfPages, Halted, vars
  <2> QED  BY <2>1, SpacesKept DEF AS!vars
<1> QED  BY <1>1, <1>2, <1>3, <1>4, <1>5, <1>6, <1>7, <1>8 DEF Next

\* The manager implements AddressSpaces: every mapping and unmapping changes
\* one slot of the current space and nothing else, and a clone shows what its
\* source showed when it was made (memory.c:150-229).
THEOREM VmmImplementsAddressSpaces == Spec => ImplementsAddressSpaces
<1>1. Init => AS!Init
  BY VmmInitRefines
<1>2. IInv /\ [Next]_vars => [AS!Next]_(AS!vars)
  BY VmmNextRefines
<1> QED  BY <1>1, <1>2, VmmInvariant, PTL DEF Spec, ImplementsAddressSpaces, AS!Spec

=============================================================================

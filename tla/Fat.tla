--------------------------------- MODULE Fat ---------------------------------
(***************************************************************************)
(* The commands ls, cat and cd of fat.c on a FAT32 volume, from the boot   *)
(* sector read by _start on.  A command runs inside the keyboard handler,  *)
(* so commands do not overlap; it takes one step per turn of its sector    *)
(* loop, as each turn waits for the disk.                                  *)
(*                                                                         *)
(* A sector is modelled by what each reader makes of it: the directory     *)
(* entries, the entries of the allocation table, or the bytes of a file.   *)
(* The entries of a directory are all of them, those of "." and ".." and   *)
(* of long names (attribute 0x0F) with the rest: the code has no test for  *)
(* either.                                                                 *)
(* Nothing writes to the volume: write_sector has no caller.               *)
(***************************************************************************)
EXTENDS FileNames, FiniteSets

CONSTANTS
  Volumes,          \* the disks: a boot sector bs and the sectors
  BytesPerSector,   \* bs->bytes_per_sector
  FatPerSector,     \* ... and how many table entries of 4 bytes that is
  Word,             \* unsigned int counts modulo this, 2^32 in the code
  EndOfChain,       \* the table entry 0x0FFFFFFF
  Typed,            \* the arguments users type after cat and cd
  MaxDepth          \* bound: how many names current_path holds

ASSUME FatAssumption ==
  /\ {BytesPerSector, FatPerSector, Word} \subseteq Nat \ {0}
  /\ EndOfChain \in Nat /\ MaxDepth \in Nat

VARIABLES
  disk,                       \* one of Volumes
  current_directory_cluster,
  current_path,               \* the names in it, without the slashes
  pc,                         \* the command that runs, or "prompt"
  command,                    \* the last command
  argument, name,             \* its argument, and that as formatted_name
  i,                          \* the sector of the directory it looks at
  pass,                       \* which of its two loops ls is in
  found,                      \* file_found, dir_found
  cluster, file_size,         \* where cat is in its file
  shown                       \* what the last command has printed

dirVars == <<disk, current_directory_cluster, current_path>>
callVars == <<command, argument, name>>
fileVars == <<cluster, file_size>>
vars == <<disk, current_directory_cluster, current_path, pc, command, argument,
          name, i, pass, found, cluster, file_size, shown>>

bs == disk.bs
sectors_per_cluster == bs.sectors_per_cluster

\* Where a volume keeps its clusters.
DataOf(v) == v.bs.reserved_sector_count + v.bs.fat_count * v.bs.table_size_32
FirstDataSector == DataOf(disk)

SectorOf(v, c) == ((c - 2) * v.bs.sectors_per_cluster + DataOf(v)) % Word
cluster_to_sector(c) == SectorOf(disk, c)

\* The table entry of a cluster, and a form that knows only the first sector.
NextClusterFirstSector(c) == disk.sector[bs.reserved_sector_count].fat[(c % FatPerSector) + 1]
NextCluster(c) ==
  disk.sector[bs.reserved_sector_count + c \div FatPerSector].fat[(c % FatPerSector) + 1]

\* name[0] == 0x00, name[0] == 0xE5, or an entry in use.
InUse(entry) == entry.state = "used"

\* cat and cd look at the entries of a sector up to the first 0x00.
Scanned(entries) ==
  LET e == SelectInSeq(entries, LAMBDA x : x.state = "end")
  IN IF e = 0 THEN entries ELSE SubSeq(entries, 1, e - 1)

Match(entries, n) ==
  SelectInSeq(Scanned(entries), LAMBDA x : InUse(x) /\ x.name = n)

Init ==
  /\ disk \in Volumes
  /\ current_directory_cluster = bs.root_cluster
  /\ current_path = << >>
  /\ pc = "prompt" /\ command = "none" /\ argument = << >> /\ name = << >>
  /\ i = 0 /\ pass = "DIR" /\ found = FALSE
  /\ cluster = 0 /\ file_size = 0
  /\ shown = << >>

-----------------------------------------------------------------------------
\* ls(current_directory_cluster, bs): one loop over the first cluster for the
\* directories and one for the files.
Ls ==
  /\ pc = "prompt"
  /\ pc' = "ls" /\ command' = "ls"
  /\ pass' = "DIR" /\ i' = 0
  /\ shown' = << >>
  /\ UNCHANGED <<dirVars, argument, name, found, fileVars>>

\* The second loop shows what is no directory; a form that forgets to ask.
InPassAny(entry) == InUse(entry) /\ (pass = "DIR" => entry.dir)
InPass(entry) == InUse(entry) /\ (pass = "DIR" <=> entry.dir)

Line(entry) == [kind |-> pass, text |-> AsString(format_entry_name(entry.name))]

LinesOf(entries) ==
  FlattenSeq([k \in DOMAIN entries |->
                IF InPass(entries[k]) THEN <<Line(entries[k])>> ELSE << >>])

LsSector ==
  /\ pc = "ls" /\ i < sectors_per_cluster
  /\ shown' = shown \o LinesOf(disk.sector[cluster_to_sector(current_directory_cluster) + i].entries)
  /\ i' = i + 1
  /\ UNCHANGED <<dirVars, pc, callVars, pass, found, fileVars>>

LsNextPass ==
  /\ pc = "ls" /\ i = sectors_per_cluster /\ pass = "DIR"
  /\ pass' = "FILE" /\ i' = 0
  /\ UNCHANGED <<dirVars, pc, callVars, found, fileVars, shown>>

LsReturn ==
  /\ pc = "ls" /\ i = sectors_per_cluster /\ pass = "FILE"
  /\ pc' = "prompt"
  /\ UNCHANGED <<dirVars, callVars, i, pass, found, fileVars, shown>>

-----------------------------------------------------------------------------
\* cat(filename, bs) and cd(dirname, bs) begin alike.
Search(verb, text) ==
  /\ pc = "prompt"
  /\ pc' = verb /\ command' = verb
  /\ argument' = text /\ name' = format_filename_83(text)
  /\ found' = FALSE
  /\ i' = 0
  /\ shown' = << >>
  /\ UNCHANGED <<dirVars, pass, fileVars>>

\* The search goes on with the next sector, and one that stays.
SameSector == i
NextSector == i + 1

\* cat looks for the file in the first data cluster.
Cat == \E text \in Typed : Search("cat", text)

CatSector ==
  /\ pc = "cat" /\ i < sectors_per_cluster
  /\ LET entries == disk.sector[FirstDataSector + i].entries
         j == Match(entries, name)
     IN IF j = 0
        THEN /\ i' = NextSector
             /\ UNCHANGED <<pc, found, fileVars>>
        ELSE /\ found' = TRUE
             /\ pc' = "file"
             /\ cluster' = entries[j].cluster
             /\ file_size' = entries[j].size
             /\ UNCHANGED i
  /\ UNCHANGED <<dirVars, callVars, pass, shown>>

\* size_to_print, and one that prints whole sectors only.
PortionWhole == BytesPerSector
Portion == IF file_size > BytesPerSector THEN BytesPerSector ELSE file_size

\* One turn of the loop of cat: print one sector of the cluster, go to the
\* next cluster, leave the loop at the end of the chain.
CatFile ==
  /\ pc = "file" /\ file_size > 0
  /\ shown' = shown \o SubSeq(disk.sector[cluster_to_sector(cluster)].bytes, 1, Portion)
  /\ file_size' = file_size - Portion
  /\ cluster' = NextCluster(cluster)
  /\ pc' = IF NextCluster(cluster) = EndOfChain THEN "prompt" ELSE "file"
  /\ UNCHANGED <<dirVars, callVars, i, pass, found>>

CatReturn ==
  /\ \/ pc = "file" /\ file_size = 0
     \/ pc = "cat" /\ i = sectors_per_cluster   \* "File not found: "
  /\ pc' = "prompt"
  /\ UNCHANGED <<dirVars, callVars, i, pass, found, fileVars, shown>>

-----------------------------------------------------------------------------
\* strcpy(current_path, "/"), and a cd that forgets it.
PathKept == current_path
PathOfRoot == << >>

CdRoot ==
  /\ pc = "prompt"
  /\ command' = "cd"
  /\ current_directory_cluster' = bs.root_cluster
  /\ current_path' = PathOfRoot
  /\ shown' = << >> /\ found' = TRUE
  /\ UNCHANGED <<disk, pc, argument, name, i, pass, fileVars>>

\* cd looks for the directory in the current one.
Cd ==
  /\ Len(current_path) < MaxDepth
  /\ \E text \in Typed : Search("cd", text)

CdSector ==
  /\ pc = "cd" /\ i < sectors_per_cluster
  /\ LET entries == disk.sector[cluster_to_sector(current_directory_cluster) + i].entries
         j == Match(entries, name)
     IN IF j = 0
        THEN /\ i' = NextSector
             /\ UNCHANGED <<dirVars, pc, found>>
        ELSE /\ found' = TRUE
             /\ pc' = "prompt"
             /\ current_directory_cluster' = entries[j].cluster
             /\ current_path' = Append(current_path, argument)
             /\ UNCHANGED <<disk, i>>
  /\ UNCHANGED <<callVars, pass, fileVars, shown>>

CdReturn ==   \* "Directory not found: "
  /\ pc = "cd" /\ i = sectors_per_cluster
  /\ pc' = "prompt"
  /\ UNCHANGED <<dirVars, callVars, i, pass, found, fileVars, shown>>

Return == LsReturn \/ CatReturn \/ CdReturn

Turn == LsSector \/ LsNextPass \/ CatSector \/ CatFile \/ CdSector \/ Return

Next == Ls \/ Cat \/ CdRoot \/ Cd \/ Turn

\* The handler runs on; a read of the disk is answered.
Spec == Init /\ [][Next]_vars /\ WF_vars(Turn)

-----------------------------------------------------------------------------
(***************************************************************************)
(* Properties.                                                             *)
(***************************************************************************)

TypeOK ==
  /\ disk \in Volumes
  /\ current_directory_cluster \in Nat
  /\ current_path \in Seq(Typed) /\ Len(current_path) <= MaxDepth
  /\ pc \in {"prompt", "ls", "cat", "file", "cd"}
  /\ i \in 0..sectors_per_cluster
  /\ pass \in {"DIR", "FILE"} /\ found \in BOOLEAN
  /\ cluster \in Nat /\ file_size \in Nat

\* What the volume means, apart from how the code walks it: the entries of a
\* directory's first cluster, and the bytes of a file along its chain.
\* A place is a sector of that cluster and an entry in the sector.
EntriesAt(v, c, k) == v.sector[SectorOf(v, c) + k].entries
Places(v, c) ==
  UNION {{k} \X DOMAIN EntriesAt(v, c, k) : k \in 0..(v.bs.sectors_per_cluster - 1)}
EntryAt(v, c, p) == EntriesAt(v, c, p[1])[p[2]]
PlacesInUse(v, c) == {p \in Places(v, c) : InUse(EntryAt(v, c, p))}
InDirectory(v, c) == {EntryAt(v, c, p) : p \in PlacesInUse(v, c)}

LineOf(e) ==
  [kind |-> IF e.dir THEN "DIR" ELSE "FILE", text |-> AsString(format_entry_name(e.name))]

Table(v) ==
  FlattenSeq([k \in 1..v.bs.table_size_32 |->
                v.sector[v.bs.reserved_sector_count + k - 1].fat])

Chain(v, e) ==
  LET at[k \in 0..e.size] == IF k = 0 THEN e.cluster ELSE Table(v)[at[k - 1] + 1] IN at

FileBytes(v, e) ==
  LET clusterBytes == v.bs.sectors_per_cluster * BytesPerSector
  IN [p \in 1..e.size |->
        LET sector == SectorOf(v, Chain(v, e)[(p - 1) \div clusterBytes])
                        + ((p - 1) % clusterBytes) \div BytesPerSector
        IN v.sector[sector].bytes[((p - 1) % BytesPerSector) + 1]]

\* The directory that a path leads to, name by name from the root.
Below(v, c, n) ==
  (CHOOSE e \in InDirectory(v, c) : e.name = format_filename_83(n)).cluster

DirectoryAt(v, p) ==
  LET at[k \in 0..Len(p)] == IF k = 0 THEN v.bs.root_cluster ELSE Below(v, at[k - 1], p[k])
  IN at[Len(p)]

\* The path in the prompt names the directory that ls and cd work in, after
\* every sequence of cd, found or not, to the root or further down.
PathNamesDirectory ==
  current_directory_cluster = DirectoryAt(disk, current_path)

\* A cat that returns has printed the file of the root directory (in whatever
\* directory the user is: cat never looks at current_directory_cluster), to its
\* last byte and no further, if its clusters are single sectors or it fits one
\* sector; "File not found" means that the root directory has no such file.
CatPrintsFile ==
  pc = "prompt" /\ command = "cat" =>
    IF found
    THEN \E e \in InDirectory(disk, bs.root_cluster) :
           /\ e.name = name
           /\ (sectors_per_cluster = 1 \/ e.size <= BytesPerSector) => shown = FileBytes(disk, e)
    ELSE \A e \in InDirectory(disk, bs.root_cluster) : e.name # name

\* ls shows the entries of the directory's first cluster and nothing else, a
\* line for each, as a directory or as a file.
LsShowsDirectory ==
  pc = "prompt" /\ command = "ls" =>
    /\ Range(shown) = {LineOf(e) : e \in InDirectory(disk, current_directory_cluster)}
    /\ Len(shown) = Cardinality(PlacesInUse(disk, current_directory_cluster))

\* Every file and directory with a sound name has a line in what ls shows that,
\* typed after cat or cd, is its name on the disk again.  "." and ".." have no
\* such name, nor has the entry of a long name: ls shows lines for them, but
\* format_filename_83 never puts a dot into the first part.
ShownNamesWork ==
  pc = "prompt" /\ command = "ls" =>
    \A e \in InDirectory(disk, current_directory_cluster) : SoundName(e.name) =>
      \E k \in DOMAIN shown :
        /\ format_filename_83(shown[k].text) = e.name
        /\ shown[k].kind = "DIR" <=> e.dir

\* Every command returns to the keyboard handler, whatever the allocation
\* table says of a file, so the keyboard is served again.
CommandsReturn == pc # "prompt" ~> pc = "prompt"

=============================================================================

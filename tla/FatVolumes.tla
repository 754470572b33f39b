------------------------------ MODULE FatVolumes ------------------------------
(***************************************************************************)
(* What the proofs about Fat ask of the volumes, as far as ls, cat and cd  *)
(* look.  Every cluster number that the table has an entry for and that    *)
(* has its sectors on the disk is in Clusters.  cat and cd take whatever   *)
(* entry has the name that was typed, so only of those is anything asked   *)
(* that an entry could fail to meet: "." and "..", long names and whatever *)
(* else stands on the disk may be as they are, and so may the table        *)
(* entries that belong to no file.                                         *)
(***************************************************************************)
EXTENDS Fat

Clusters(v) ==
  {c \in 0..(v.bs.table_size_32 * FatPerSector - 1) :
     \A k \in 0..(v.bs.sectors_per_cluster - 1) : SectorOf(v, c) + k \in DOMAIN v.sector}

TableAt(v, c) ==
  v.sector[v.bs.reserved_sector_count + c \div FatPerSector].fat[(c % FatPerSector) + 1]

\* A name that cat or cd can look for.
Typable(n) == \E text \in Typed : n = format_filename_83(text)

\* A cluster read as a directory: what can be typed leads to a cluster of the
\* volume, and no two entries answer to one name.
SoundDirectory(v, c) ==
  /\ \A k \in 0..(v.bs.sectors_per_cluster - 1) :
       EntriesAt(v, c, k) \in Seq(Range(EntriesAt(v, c, k)))
  /\ \A p \in PlacesInUse(v, c) :
       LET e == EntryAt(v, c, p)
       IN /\ e.cluster \in Nat /\ e.size \in Nat /\ e.dir \in BOOLEAN
          /\ Typable(e.name) => e.cluster \in Clusters(v)
  /\ \A p, q \in PlacesInUse(v, c) :
       Typable(EntryAt(v, c, p).name) /\ EntryAt(v, c, p).name = EntryAt(v, c, q).name => p = q

\* The clusters of the files that cat can find: each leads to the next one or
\* to the end mark that cat knows.
HoldFiles(v, files) ==
  /\ \A p \in PlacesInUse(v, 2) :
       LET e == EntryAt(v, 2, p) IN Typable(e.name) /\ e.size > 0 => e.cluster \in files
  /\ \A c \in files : TableAt(v, c) \in files \cup {EndOfChain}

SoundVolume(v) ==
  /\ {v.bs.reserved_sector_count, v.bs.fat_count, v.bs.table_size_32} \subseteq Nat
  /\ v.bs.sectors_per_cluster \in Nat \ {0}
  /\ DataOf(v) < Word /\ {2, v.bs.root_cluster} \subseteq Clusters(v)
  /\ \A t \in 0..(v.bs.table_size_32 - 1) :
       v.sector[v.bs.reserved_sector_count + t].fat \in [1..FatPerSector -> Nat]
  /\ \A c \in Clusters(v) : SoundDirectory(v, c)
  /\ \E files \in SUBSET Clusters(v) : HoldFiles(v, files)

VolumesSound == \A v \in Volumes : SoundVolume(v)

\* What cat relies on besides: the root directory is in the first data
\* cluster, nothing in use stands behind the end mark of one of its sectors,
\* and a file that cat can print has as many clusters as its size says.
CatVolume(v) ==
  /\ v.bs.root_cluster = 2
  /\ \A c \in Clusters(v), k \in 0..(v.bs.sectors_per_cluster - 1) :
       LET b == v.sector[SectorOf(v, c) + k].bytes
       IN b \in Seq(Range(b)) /\ Len(b) >= BytesPerSector
  /\ \A k \in 0..(v.bs.sectors_per_cluster - 1) :
       LET s == EntriesAt(v, v.bs.root_cluster, k)
       IN \A j \in DOMAIN s : s[j].state = "end" =>
            \A l \in DOMAIN s : l > j => ~InUse(s[l])
  /\ \A p \in PlacesInUse(v, v.bs.root_cluster) :
       LET e == EntryAt(v, v.bs.root_cluster, p)
       IN Typable(e.name) /\ (v.bs.sectors_per_cluster = 1 \/ e.size <= BytesPerSector) =>
            \A k \in 1..e.size : k * BytesPerSector < e.size => Chain(v, e)[k] # EndOfChain

FilesWhole == \A v \in Volumes : CatVolume(v)

=============================================================================

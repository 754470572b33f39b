-------------------------------- MODULE MCFat --------------------------------
(***************************************************************************)
(* Volumes for TLC, with names of two characters and one.  Each has two    *)
(* reserved sectors, a table of three sectors and then clusters 2 to 8:    *)
(* the root directory, two levels below it, and files.  A directory below  *)
(* the root begins with "." and "..", and a file has an entry for its long *)
(* name; the table begins with the media mark, and the root directory ends *)
(* in another end mark (0x0FFFFFF8) than the files do.  FlatVolume has one *)
(* sector to a cluster, as mkfs makes the disk of the Makefile; there the  *)
(* file "AB.C" has three clusters, out of order.  LoopVolume is a damaged  *)
(* copy whose chain for that file is a cycle, and its size goes on.        *)
(* WideVolume has two sectors to a cluster and entries in the second one.  *)
(***************************************************************************)
EXTENDS FatVolumes

MCSmall == [u \in {"A", "B", "C"} |->
              CASE u = "A" -> "a" [] u = "B" -> "b" [] u = "C" -> "c"]

Entry(n, d, c, s) ==
  [state |-> "used", name |-> n, dir |-> d, cluster |-> c, size |-> s]
Unused(s) == [state |-> s, name |-> <<"A", " ", " ">>, dir |-> FALSE, cluster |-> 0, size |-> 0]

DirA == Entry(<<"A", " ", " ">>, TRUE, 3, 0)
FileABC == Entry(<<"A", "B", "C">>, FALSE, 5, 5)
FileB == Entry(<<"B", " ", " ">>, FALSE, 7, 1)
DirBA == Entry(<<"B", "A", " ">>, TRUE, 8, 0)
Empty == Entry(<<"C", " ", "A">>, FALSE, 0, 0)
\* The entries of a directory for itself and for the one above it, 0 for the
\* root; a part of a long name: its number, a letter and its high byte, and
\* other letters where the cluster and the size would be.
Own(c) == Entry(<<".", " ", " ">>, TRUE, c, 0)
Above(c) == Entry(<<".", ".", " ">>, TRUE, c, 0)
LongName == Entry(<<"A", "b", "NUL">>, FALSE, 97, 98)

Sector(e, f, b) == [entries |-> e, fat |-> f, bytes |-> b]
DirSector(e) == Sector(e, <<0, 0, 0, 0>>, <<"?", "?">>)
TableSector(f) == Sector(<< >>, f, <<"?", "?">>)
DataSector(b) == Sector(<< >>, <<0, 0, 0, 0>>, b)
Other == DataSector(<<"?", "?">>)

MCEndOfChain == 255
MediaMark == 248

Numbered(s) == [k \in 0..(Len(s) - 1) |-> s[k + 1]]

TableSectors(next4) ==   \* clusters 0 to 3, 4 to 7, 8 to 11
  << TableSector(<<MediaMark, MCEndOfChain, MediaMark, MCEndOfChain>>),
     TableSector(<<next4, 4, MCEndOfChain, MCEndOfChain>>),
     TableSector(<<MCEndOfChain, 0, 0, 0>>) >>

FlatSectors(next4) == Numbered(<<Other, Other>> \o TableSectors(next4) \o
  << DirSector(<<Unused("deleted"), DirA, LongName, FileABC, Empty, Unused("end")>>),
     DirSector(<<Own(3), Above(0), LongName, FileB, LongName, DirBA, Unused("end")>>),
     DataSector(<<"3", "4">>), DataSector(<<"1", "2">>), DataSector(<<"5", "0">>),
     DataSector(<<"6", "0">>),
     DirSector(<<Own(8), Above(3), FileB, Unused("deleted"), Empty>>) >>)

WideSectors == Numbered(<<Other, Other>> \o TableSectors(6) \o
  << DirSector(<<DirA, Unused("end")>>), DirSector(<<FileB, FileABC>>),
     DirSector(<<Own(3), Above(0), FileABC>>), DirSector(<<Unused("deleted"), DirBA, Unused("end")>>),
     DataSector(<<"3", "4">>), Other, DataSector(<<"1", "2">>), Other,
     DataSector(<<"5", "0">>), Other, DataSector(<<"6", "0">>), Other,
     DirSector(<<Own(8), Above(3), Empty, Unused("end")>>), DirSector(<<Unused("end")>>) >>)

BootSector(spc) ==
  [reserved_sector_count |-> 2, fat_count |-> 1, table_size_32 |-> 3,
   sectors_per_cluster |-> spc, root_cluster |-> 2]

FlatVolume == [bs |-> BootSector(1), sector |-> FlatSectors(6)]
LoopVolume == [bs |-> BootSector(1), sector |-> FlatSectors(5)]
WideVolume == [bs |-> BootSector(2), sector |-> WideSectors]

MCVolumes == {FlatVolume, LoopVolume, WideVolume}

MCTyped == { <<"a">>, <<"a", "b", ".", "c">>, <<"B">>, <<"b", ".">>, <<"c", ".", "a">>, <<"b", "a">>,
             <<"a", "b", "b", ".", "c", "c">>, <<".", ".">>, <<".">> }

ASSUME MCVolumesSound == VolumesSound
ASSUME MCFilesWhole == FilesWhole

=============================================================================

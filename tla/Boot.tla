--------------------------------- MODULE Boot ---------------------------------
(***************************************************************************)
(* The stages of _start (main.c:114), from init_gdt to JumpToUserMode, and *)
(* the keyboard handler's commands between them.  The boot thread and the  *)
(* handler use the same drive, the same boot sector in memory and the same *)
(* current directory.  read_sector is a series of port accesses; in the    *)
(* boot thread the handler can come between any two of them, also between  *)
(* two words of its `rep insw'.  The handler itself is not interrupted     *)
(* (interrupt gates), so it takes a step only where it waits for the drive.*)
(* Stages that share nothing with the handler (memory, page directories,   *)
(* the memory test, MSRs) are not repeated here.                           *)
(***************************************************************************)
EXTENDS FiniteSets, Drive, Processor, Pci

CONSTANTS
  NULL,
  Volumes,         \* what the disk may hold: a subset of the format names
  CommandSectors,  \* sectors that ls, cat and cd may ask for
  MaxReads         \* bound: how many sectors one command reads

ASSUME BootAssumption ==
  /\ Volumes \subseteq {"FAT16", "FAT32", "ISO9660"}
  /\ CommandSectors \subseteq Nat
  /\ SectorWords > 1   \* the two signatures of a boot sector stand in different words
  /\ MaxReads \in Nat

VARIABLES
  stage,      \* where _start is
  io,         \* its place in read_sector: 0 is outside, see below
  gdt, gates, pic,
  int_flag,
  cpu,        \* "kernel", "user", "panic", "reset" or "lost" (running no code of ours)
  panic,      \* the last panic: the vector and what led to it
  at, found,  \* pci_enum: the loop variables and the functions found so far
  volume,     \* what is on the disk
  drive,
  buffer,     \* detect_disk_format's sector
  format,     \* ... and result
  bs,         \* NULL, or the words that it points to
  cluster,    \* current_directory_cluster: NULL (0), or the word it came from
  path,       \* current_path: "/", or "below" after a cd
  command,    \* the handler's command: "none", "issue", "wait" or "done"
  asked,      \* the sector it asked for
  reads,      \* how many sectors it may still read
  clash,      \* history: the handler used the drive during this read_sector
  busy,       \* history: the drive was not idle when the handler used it
  early       \* history: a command used the disk before _start set cluster

tables == <<gdt, gates, pic>>
cpuVars == <<int_flag, cpu, panic>>
pciVars == <<at, found>>
diskVars == <<volume, format, bs, cluster, path>>
handlerVars == <<command, asked, reads, busy, early>>
vars == <<stage, io, gdt, gates, pic, int_flag, cpu, panic, at, found, volume,
          drive, buffer, format, bs, cluster, path, command, asked, reads,
          clash, busy, early>>

\* The stages in their order, and with the last three of the disk's swapped.
StagesRootFirst ==
  <<"init_gdt", "init_idt", "pci_enum", "detect_disks", "malloc", "root_cluster",
    "read_sector", "print_prompt", "cli", "JumpToUserMode", "end">>
Stages ==
  <<"init_gdt", "init_idt", "pci_enum", "detect_disks", "malloc", "read_sector",
    "root_cluster", "print_prompt", "cli", "JumpToUserMode", "end">>

After(s) == Stages[1 + CHOOSE i \in DOMAIN Stages : Stages[i] = s]
Passed(s) == \E i, j \in DOMAIN Stages : Stages[i] = s /\ Stages[j] = stage /\ i < j

Empty == [k \in 1..SectorWords |-> Junk]
NoPanic == [vector |-> 0, cause |-> "none"]

Init ==
  /\ stage = Stages[1] /\ io = 0
  /\ gdt = NoSegments /\ gates = {} /\ pic = BootController
  /\ int_flag = FALSE /\ cpu = "kernel" /\ panic = NoPanic
  /\ at = <<0, 0, 0>> /\ found = << >>
  /\ volume \in Volumes
  /\ drive \in {IdleDrive(reg) : reg \in [{"select", "count", "lo", "mid", "hi"} -> {0, Radix - 1}]}
  /\ buffer = Empty /\ format = "none"
  /\ bs = NULL /\ cluster = NULL /\ path = "/"
  /\ command = "none" /\ asked = 0 /\ reads = 0
  /\ clash = FALSE /\ busy = FALSE /\ early = FALSE

\* _panic prints and executes hlt for good, interrupts off.
Panic(vector, cause) ==
  /\ cpu' = "panic"
  /\ panic' = [vector |-> vector, cause |-> cause]
  /\ int_flag' = FALSE

\* An exception or interrupt without a gate becomes a general protection
\* fault, which has one.
Raise(vector, cause) ==
  IF vector \in gates THEN Panic(vector, cause) ELSE Panic(GeneralProtection, "no gate")

-----------------------------------------------------------------------------
\* The boot thread: it runs while the handler does not.
In(s) == cpu = "kernel" /\ command = "none" /\ stage = s

InitGdt ==
  /\ In("init_gdt")
  /\ gdt' = init_gdt
  /\ IF KernelSegmentsLoad(gdt')
     THEN cpu' = cpu /\ stage' = After(stage)
     ELSE cpu' = "reset" /\ stage' = stage   \* a fault before there is a gate
  /\ UNCHANGED <<io, gates, pic, int_flag, panic, pciVars, drive, buffer, diskVars, handlerVars, clash>>

InitIdt ==
  /\ In("init_idt")
  /\ gates' = Gates
  /\ pic' = program_pic(pic)
  /\ int_flag' = TRUE
  /\ stage' = After(stage)
  /\ UNCHANGED <<io, gdt, cpu, panic, pciVars, drive, buffer, diskVars, handlerVars, clash>>

\* One round of the loops of pci_enum, and their end.
PciRound ==
  /\ In("pci_enum")
  /\ at[1] < Buses
  /\ found' = IF Answers(ConfigAddress(at[1], at[2], at[3], 0)) THEN Append(found, at) ELSE found
  /\ at' = NextRound(at)
  /\ UNCHANGED <<stage, io, tables, cpuVars, drive, buffer, diskVars, handlerVars, clash>>

PciEnd ==
  /\ In("pci_enum")
  /\ at[1] = Buses
  /\ stage' = After(stage)
  /\ UNCHANGED <<io, tables, cpuVars, pciVars, drive, buffer, diskVars, handlerVars, clash>>

\* read_sector(0, ...) of the boot thread, for detect_disk_format and for bs.
\* io counts its port accesses: the registers, the command, the wait, then the
\* words, each of which rep insw stores at once.
Reading == stage \in {"detect_disks", "read_sector"} /\ io > 0
WaitStep == LastWrite + 1
Stored(area, k, w) == [area EXCEPT ![k] = w]

ReadStart ==
  /\ In("detect_disks") \/ In("read_sector")
  /\ io = 0
  /\ io' = 1
  /\ clash' = FALSE
  /\ UNCHANGED <<stage, tables, cpuVars, pciVars, drive, buffer, diskVars, handlerVars>>

ReadWrite ==
  /\ In("detect_disks") \/ In("read_sector")
  /\ io \in DOMAIN Registers
  /\ drive' = WriteRegister(drive, Registers[io], 0)
  /\ io' = io + 1
  /\ UNCHANGED <<stage, tables, cpuVars, pciVars, buffer, diskVars, handlerVars, clash>>

ReadCommand ==
  /\ In("detect_disks") \/ In("read_sector")
  /\ io = LastWrite
  /\ drive' \in AfterCommand(drive)
  /\ io' = WaitStep
  /\ UNCHANGED <<stage, tables, cpuVars, pciVars, buffer, diskVars, handlerVars, clash>>

ReadWait ==
  /\ In("detect_disks") \/ In("read_sector")
  /\ io = WaitStep /\ DRQ(drive)
  /\ io' = io + 1
  /\ UNCHANGED <<stage, tables, cpuVars, pciVars, drive, buffer, diskVars, handlerVars, clash>>

\* The signatures that sector 0 of a volume holds at the places that
\* detect_disk_format looks at; ISO 9660 has its own in sector 16.
Marks(w) ==
  IF w = <<0, 1>> THEN CASE volume = "FAT32" -> {"FAT32"} [] volume = "FAT16" -> {"FAT"} [] OTHER -> {}
  ELSE IF w = <<0, SectorWords>> /\ volume # "ISO9660" THEN {"AA55"} ELSE {}

detect_disk_format(words) ==
  LET marks == UNION {Marks(words[k]) : k \in DOMAIN words}
  IN CASE "CD001" \in marks -> "ISO9660"
       [] "CD001" \notin marks /\ {"AA55", "FAT32"} \subseteq marks -> "FAT32"
       [] "CD001" \notin marks /\ {"AA55", "FAT"} \subseteq marks /\ "FAT32" \notin marks -> "FAT16"
       [] OTHER -> "unknown"

ReadWord ==
  /\ In("detect_disks") \/ In("read_sector")
  /\ io > WaitStep
  /\ LET k == io - WaitStep
         last == k = SectorWords
     IN /\ IF stage = "detect_disks"
           THEN buffer' = Stored(buffer, k, Word(drive)) /\ bs' = bs
           ELSE bs' = Stored(bs, k, Word(drive)) /\ buffer' = buffer
        /\ io' = IF last THEN 0 ELSE io + 1
        /\ stage' = IF last THEN After(stage) ELSE stage
        /\ format' = IF last /\ stage = "detect_disks" THEN detect_disk_format(buffer') ELSE format
  /\ drive' = AfterWord(drive)
  /\ UNCHANGED <<tables, cpuVars, pciVars, volume, cluster, path, handlerVars, clash>>

\* malloc leaves the block as it is; the pages came from the boot loader.
Malloc ==
  /\ In("malloc")
  /\ bs' = Empty
  /\ stage' = After(stage)
  /\ UNCHANGED <<io, tables, cpuVars, pciVars, drive, buffer, volume, format, cluster, path, handlerVars, clash>>

RootOf(words) == words[1]

RootCluster ==
  /\ In("root_cluster")
  /\ cluster' = RootOf(bs)
  /\ stage' = After(stage)
  /\ UNCHANGED <<io, tables, cpuVars, pciVars, drive, buffer, volume, format, bs, path, handlerVars, clash>>

Prompt ==
  /\ In("print_prompt")
  /\ stage' = After(stage)
  /\ UNCHANGED <<io, tables, cpuVars, pciVars, drive, buffer, diskVars, handlerVars, clash>>

Cli ==
  /\ In("cli")
  /\ int_flag' = FALSE
  /\ stage' = After(stage)
  /\ UNCHANGED <<io, tables, cpu, panic, pciVars, drive, buffer, diskVars, handlerVars, clash>>

JumpToUserMode ==
  /\ In("JumpToUserMode")
  /\ stage' = After(stage)
  /\ IF UserSegmentsLoad(gdt)
     THEN cpu' = "user" /\ int_flag' = TRUE /\ panic' = panic   \* popf of 0x202
     ELSE Raise(GeneralProtection, "segment")
  /\ UNCHANGED <<io, tables, pciVars, drive, buffer, diskVars, handlerVars, clash>>

BootThread ==
  \/ InitGdt \/ InitIdt \/ PciRound \/ PciEnd \/ ReadStart \/ ReadWrite \/ ReadCommand
  \/ ReadWait \/ ReadWord \/ Malloc \/ RootCluster \/ Prompt \/ Cli \/ JumpToUserMode

-----------------------------------------------------------------------------
\* Interrupt requests: of the timer, the keyboard and the disk.
Lines == {0, 1, 14}

Interrupt(line) ==
  /\ cpu = "kernel" /\ command = "none" /\ int_flag
  /\ GetsThrough(pic, line)
  /\ LET vector == Vector(pic, line)
     IN IF vector = KeyboardVector /\ vector \in gates
        THEN /\ command' = "issue"
             /\ reads' \in 1..MaxReads
             /\ UNCHANGED cpuVars
        ELSE /\ Raise(vector, "interrupt")
             /\ UNCHANGED <<command, reads>>
  /\ UNCHANGED <<stage, io, tables, pciVars, drive, buffer, diskVars, asked, clash, busy, early>>

\* kb_handler in ls, cat or cd (keys and commands that leave the disk alone
\* change nothing here).  The sector it asks for comes from bs; if bs is not
\* a boot sector that is any sector at all, and the length of its array on the
\* stack and the address that it reads may be anything too.
Loaded == bs = Contents(0)
Usable == Loaded /\ volume \in {"FAT16", "FAT32"}

HandlerIssue ==
  /\ cpu = "kernel" /\ command = "issue"
  /\ asked' \in CommandSectors
  /\ drive' \in AfterCommand(WriteRegisters(drive, asked'))
  /\ command' = "wait"
  /\ busy' = ~(drive.state \in {"idle", "error"})
  /\ clash' = (clash \/ Reading)
  /\ early' = (early \/ ~Passed("root_cluster"))
  /\ UNCHANGED <<stage, io, tables, cpuVars, pciVars, buffer, diskVars, reads>>

HandlerFault ==
  /\ cpu = "kernel" /\ command = "issue"
  /\ ~Usable
  /\ \/ Raise(14, "boot sector")
     \/ Raise(GeneralProtection, "boot sector")
     \/ cpu' = "lost" /\ UNCHANGED <<panic, int_flag>>
  /\ early' = (early \/ ~Passed("root_cluster"))
  /\ UNCHANGED <<stage, io, tables, pciVars, drive, buffer, diskVars, command, asked, reads, clash, busy>>

HandlerTransfer ==
  /\ cpu = "kernel" /\ command = "wait"
  /\ DRQ(drive)
  /\ drive' = AfterWords(drive)
  /\ reads' = reads - 1
  /\ command' = IF reads' = 0 THEN "done" ELSE "issue"
  /\ UNCHANGED <<stage, io, tables, cpuVars, pciVars, buffer, diskVars, asked, clash, busy, early>>

\* The end of the command: a cd may have gone below or back to the root.
HandlerReturn ==
  /\ cpu = "kernel" /\ command = "done"
  /\ command' = "none"
  /\ \/ UNCHANGED <<cluster, path>>
     \/ path' = "below" /\ \E k \in 1..SectorWords : cluster' = <<asked, k>>
     \/ bs # NULL /\ path' = "/" /\ cluster' = RootOf(bs)
  /\ UNCHANGED <<stage, io, tables, cpuVars, pciVars, drive, buffer, volume, format, bs,
                 asked, reads, clash, busy, early>>

Handler == HandlerIssue \/ HandlerFault \/ HandlerTransfer \/ HandlerReturn

-----------------------------------------------------------------------------
\* The drive: it offers the sector, or ends the command with an error.
DriveAnswers ==
  /\ drive.state = "busy"
  /\ drive' \in {Offered(drive), Failed(drive)}
  /\ UNCHANGED <<stage, io, tables, cpuVars, pciVars, buffer, diskVars, handlerVars, clash>>

\* The loops for good: on DRQ, on hlt, in userfunc.
Waits ==
  /\ \/ cpu # "kernel"
     \/ ~DRQ(drive) /\ (io = WaitStep \/ command = "wait")
  /\ UNCHANGED vars

Next == BootThread \/ (\E line \in Lines : Interrupt(line)) \/ Handler \/ DriveAnswers \/ Waits

\* The boot thread goes on between two keys: typing is slower than it is.
Spec ==
  /\ Init /\ [][Next]_vars
  /\ SF_vars(BootThread) /\ WF_vars(Handler) /\ WF_vars(DriveAnswers)

-----------------------------------------------------------------------------
(***************************************************************************)
(* Properties.                                                             *)
(***************************************************************************)

\* remap_pic and init_idt together: no line that the controllers let through
\* arrives at a vector without a handler, whatever the boot loader left in the
\* masks that remap_pic restores and the drive requests while it is polled.
InterruptsHandled == panic.cause \notin {"no gate", "interrupt"}

\* The sectors that the registers can express, 2^28 of them in the code: what
\* the proof about the commands' reads needs.
SectorsAddressed ==
  \A sector \in CommandSectors : sector < Radix * (Radix * (Radix * Radix))

\* A sector read that is not disturbed gives the words of the sector that was
\* asked for: the registers of one read leave nothing behind for the next.
ReadsRight ==
  [][/\ HandlerTransfer /\ ~busy => WordsRead(drive) = Contents(asked)
     /\ ReadWord /\ io' = 0 /\ ~clash
          => (IF stage = "detect_disks" THEN buffer' ELSE bs') = Contents(0)]_vars

\* The PCI functions are listed in order, none twice.  When the prompt is there
\* none is missing, and unless a command came too early the commands find what
\* they rely on: the boot sector in bs, a directory that is the one the path
\* names, also after a cd in the moment before the final cli, and the disk's
\* format has been told right.
AtPrompt == Passed("print_prompt")

InOrder(s) ==
  \A i, j \in DOMAIN s : i < j =>
    ConfigAddress(s[i][1], s[i][2], s[i][3], 0) < ConfigAddress(s[j][1], s[j][2], s[j][3], 0)

PromptReady ==
  /\ InOrder(found)
  /\ AtPrompt => Len(found) = Cardinality(Devices)
  /\ AtPrompt /\ ~early =>
       /\ Loaded
       /\ path = "/" => cluster = RootOf(Contents(0))
       /\ format = IF volume = "ISO9660" THEN "unknown" ELSE volume

\* The prompt appears, however many keys are typed, unless the drive fails, or
\* a command uses the drive in the middle of a read or lacks the boot sector.
PromptReached ==
  <>(AtPrompt \/ drive.state = "error" \/ clash \/ panic.cause = "boot sector" \/ cpu = "lost")

\* _panic shows the address of the instruction that failed.
PanicShowsAddress == cpu = "panic" => FaultAddress(panic.vector) = "rip"

=============================================================================

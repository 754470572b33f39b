-------------------------------- MODULE Drive --------------------------------
(***************************************************************************)
(* The disk drive behind the ports of fat.h, and what read_sector of fat.c *)
(* writes to them.  The drive is not part of the kernel: it is modelled as *)
(* fat.c uses it.  It keeps what is written to its registers, takes a      *)
(* sector number from them when it gets a command, is busy for a while,    *)
(* and then offers the words of that sector, one per read of the data      *)
(* port, with its data request bit (DRQ) set.                              *)
(***************************************************************************)
EXTENDS Naturals, Sequences

CONSTANTS
  Radix,        \* values of one address register: 256 in the code
  SectorWords,  \* words of a sector: 256
  Junk          \* what the data port gives when the drive offers nothing

ASSUME DriveAssumption ==
  /\ Radix \in Nat /\ Radix > 1
  /\ SectorWords \in Nat \ {0}

\* The registers in the order in which read_sector writes them.  The first
\* one also holds the top bits of the sector number.
Registers == <<"select", "count", "lo", "mid", "hi">>
LastWrite == Len(Registers) + 1   \* the command

\* What read_sector writes to a register for a sector, and a form that has
\* the middle bits of the number one place too low.
RegisterValueShifted(reg, sector) ==
  CASE reg = "select" -> (sector \div (Radix * Radix * Radix)) % Radix
    [] reg = "count"  -> 1
    [] reg = "lo"     -> sector % Radix
    [] reg = "mid"    -> sector % Radix
    [] reg = "hi"     -> (sector \div (Radix * Radix)) % Radix

RegisterValue(reg, sector) ==
  CASE reg = "select" -> (sector \div (Radix * Radix * Radix)) % Radix
    [] reg = "count"  -> 1
    [] reg = "lo"     -> sector % Radix
    [] reg = "mid"    -> (sector \div Radix) % Radix
    [] reg = "hi"     -> (sector \div (Radix * Radix)) % Radix

\* The drive's own view of its registers.
Addressed(reg) ==
  reg["lo"] + Radix * (reg["mid"] + Radix * (reg["hi"] + Radix * reg["select"]))

IdleDrive(reg) == [reg |-> reg, state |-> "idle", sector |-> 0, left |-> 0]

WriteRegister(d, reg, sector) == [d EXCEPT !.reg[reg] = RegisterValue(reg, sector)]

WriteRegisters(d, sector) ==
  [d EXCEPT !.reg = [r \in DOMAIN d.reg |-> RegisterValue(r, sector)]]

\* ATA_CMD_READ_PIO.  A command that comes while the drive is busy or offers
\* data is outside its protocol: it is dropped or starts over.
Started(d) ==
  [d EXCEPT !.state = "busy", !.sector = Addressed(d.reg), !.left = SectorWords]

AfterCommand(d) ==
  IF d.state \in {"idle", "error"} THEN {Started(d)} ELSE {d, Started(d)}

\* The bit the loop of read_sector waits for, and the one next to the end of
\* the status register, which reports an error.
DRQLowBit(d) == d.state = "error"
DRQ(d) == d.state = "data"

\* What the drive does by itself.
Offered(d) == [d EXCEPT !.state = "data"]
Failed(d) == [d EXCEPT !.state = "error", !.left = 0]

\* Reading the data port.
Word(d) == IF DRQ(d) THEN <<d.sector, SectorWords - d.left + 1>> ELSE Junk

AfterWord(d) ==
  IF ~DRQ(d) THEN d
  ELSE IF d.left = 1 THEN [d EXCEPT !.state = "idle", !.left = 0]
  ELSE [d EXCEPT !.left = @ - 1]

Contents(sector) == [k \in 1..SectorWords |-> <<sector, k>>]

\* insw: as many words as the drive still offers, and junk from there on.
WordsRead(d) ==
  [k \in 1..SectorWords |->
     IF DRQ(d) /\ k <= d.left THEN <<d.sector, SectorWords - d.left + k>> ELSE Junk]

AfterWords(d) == IF DRQ(d) THEN [d EXCEPT !.state = "idle", !.left = 0] ELSE d

=============================================================================

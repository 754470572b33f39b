SPECIFICATION Spec
CONSTANTS
  Radix = 2
  SectorWords = 2
  Junk = Junk
  Buses = 2
  Slots = 2
  Funcs = 2
  BusRange = 4
  SlotRange = 4
  ConfigBytes = 4
  Devices <- MCDevices
  NULL = NULL
  Volumes = {"FAT32"}
  CommandSectors = {5, 10}
  MaxReads = 0
INVARIANT PanicShowsAddress

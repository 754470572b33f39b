SPECIFICATION Spec
CONSTANTS
  Radix = 2
  SectorWords = 2
  Junk = Junk
  Buses = 2
  Slots = 2
  Funcs = 2
  BusRange = 4
  SlotRange = 4
  ConfigBytes = 4
  Devices <- MCDevices
  NULL = NULL
  Volumes = {"FAT16", "FAT32", "ISO9660"}
  CommandSectors = {5, 10}
  MaxReads = 2
INVARIANTS
  InterruptsHandled
  PromptReady
PROPERTIES
  ReadsRight
  PromptReached

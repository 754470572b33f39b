SPECIFICATION Spec
CONSTANTS
  NULL = NULL
  BootTables = BootTables
  Directories = {d1, d2, d3}
  Tables = {t1, t2, t3, t4, t5}
  DirSize = 2
  TableSize = 2
  FrameRange = 2
  KernelBase = 1
  KernelFrame = 0
  KernelPages = 2
  VirtualPages = {1, 2, 5}
  PhysicalPages = {0, 3}
  FlagSets <- MCFlags
PROPERTY KernelMapped

SPECIFICATION Spec
CONSTANTS
  BaseLen = 2
  ExtLen = 1
  Capitals = {"A", "B", "C"}
  Small <- MCSmall
  Volumes <- MCVolumes
  BytesPerSector = 2
  FatPerSector = 4
  Word = 4096
  EndOfChain <- MCEndOfChain
  Typed <- MCTyped
  MaxDepth = 3
INVARIANTS
  TypeOK
  PathNamesDirectory
  CatPrintsFile
  LsShowsDirectory
  ShownNamesWork
PROPERTY CommandsReturn

SPECIFICATION Spec
CONSTANTS
  PageWords = 5
  MemTop = 25
  BootPages <- MCBootPages
  Sizes = {1, 2}
  ClientData = {0, 10}
  MaxFrees = 2
INVARIANTS
  TypeOK
  FreeListLinked
  BlocksDisjoint
  HeaderIntact
  EveryPageHeld
PROPERTY ImplementsFramePool

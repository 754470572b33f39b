SPECIFICATION Spec
CONSTANTS
  PageWords = 3
  MemTop = 30
  BootPages <- MCBootPages
  Sizes = {2, 3, 6}
  ClientData = {7}
  MaxFrees = 0
INVARIANTS
  SafeWhenNotGrowing
  PagesAccounted

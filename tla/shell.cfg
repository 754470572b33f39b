SPECIFICATION Spec
CONSTANTS
  Cols = 3
  Rows = 3
  Blank = Blank
  Chars = {"a"}
  NoKey = NoKey
  NUL = NUL
  LineSize = 5
  Outputs <- MCOutputs
  Prompt <- MCPrompt
  Letters = {"o", "$"}
  BootChar = "o"
  BootPrints = 3
INVARIANTS
  TypeOK
  LineIsString
  
  CursorNearScreen
PROPERTY KeysTaken
VIEW LineOrScreenView
CHECK_DEADLOCK FALSE

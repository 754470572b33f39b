SPECIFICATION PrintfSpec
CONSTANTS
  MemSize = 5
  Bytes = {0, 1, 2}
  MinInt <- MCMinInt
  Bases = {2, 10, 16}
  MinShort <- MCMinShort
  MinLong <- MCMinLong
  HexWidth = 2
  VaList = 21
  PrintfPieces <- MCPrintfPieces
  FrameWords = {0, 15}
  LogPieces <- MCLogPieces
  SerialPieces <- MCSerialPieces
  VprintfPieces <- MCVprintfPieces
INVARIANT LogShowsArguments

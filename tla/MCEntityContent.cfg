\* A property in the long form with a reference to an entity in its content.
SPECIFICATION Spec
CONSTANTS
  Tokens <- MCTokens
  Quote = "'"
  Space = " "
  Break = "nl"
  History = "HISTORY"
  Comment = "COMMENT"
  String = "String"
  MaxU32 = 15
  Usize = 32
  SampleBytes <- MCSampleBytes
  Number <- MCNumber
  Significand = 16
  Steps = {1, 2, 4, 8, 16}
  MaxI64 = 31
  TrueWords = {"T", "1"}
  FalseWords = {"F"}
  Digits <- MCDigits
  Typed <- MCTyped
  Headers <- NoHeaders
  Hints <- MCHints
  DataLengths = {0, 3}
  PropertyIds <- MCPropertyIds
  InOrder <- MCInOrder
  MaxHeader = 160
  OffsetWidth = 4
  EventLength <- MCEventLength
  Containers <- MCContainers
  Foreign <- MCReference
  MaxEvents = 4
  MaxCycles = 2
INVARIANTS ContentIsWhole
CHECK_DEADLOCK FALSE

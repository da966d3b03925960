\* Small headers written, read, written and read; and foreign headers of up
\* to four events.
SPECIFICATION Spec
CONSTANTS
  Tokens <- MCTokens
  Quote = "'"
  Space = " "
  Break = "nl"
  History = "HISTORY"
  Comment = "COMMENT"
  String = "String"
  MaxU32 = 15
  Usize = 32
  SampleBytes <- MCSampleBytes
  Number <- MCNumber
  Significand = 16
  Steps = {1, 2, 4, 8, 16}
  MaxI64 = 31
  TrueWords = {"T", "1"}
  FalseWords = {"F"}
  Digits <- MCDigits
  Typed <- MCTyped
  Headers <- MCHeaders
  Hints <- MCHints
  DataLengths = {0, 3}
  PropertyIds <- MCPropertyIds
  InOrder <- MCInOrder
  MaxHeader = 160
  OffsetWidth = 4
  EventLength <- MCEventLength
  Containers <- MCContainers
  Foreign <- MCForeign
  MaxEvents = 4
  MaxCycles = 2
INVARIANTS TypeOK SpansNameKeywords GeometryIsTheImages PropertiesFollowSpans OnlyEnclosingPropertiesAreLost LocationsAreAttributes RoundTripsExactly SettlesAfterOneCycle OwnIsReadable OwnLocatesData SizeCoversImage IntegersReadExactly TypedSurvives UpdateSeesThis
CHECK_DEADLOCK FALSE

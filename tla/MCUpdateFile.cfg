\* An update of up to two changes, then one of one change, on every layout.
SPECIFICATION Spec
CONSTANTS
  Digits <- MCDigits
  RenderedLen <- MCRenderedLen
  KeywordReadBack <- MCKeywordReadBack
  PropertyReadBack <- MCPropertyReadBack
  Documents <- MCDocuments
  Names = {"GAIN", "HISTORY"}
  Values = {"long", "quoted", "broken"}
  Ids = {"P1", "P2"}
  MaxHeader = 100000
  Changes <- MCTwoThenOne
  MaxRounds = 16
INVARIANTS RoundTrip StaysUpdatable
PROPERTIES UneditedVerbatim NoOpIsIdentity BlocksKept
CHECK_DEADLOCK FALSE

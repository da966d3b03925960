\* The header is a few bytes below the reader's cap.
SPECIFICATION Spec
CONSTANTS
  Digits <- MCDigits
  RenderedLen <- MCRenderedLen
  KeywordReadBack <- MCKeywordReadBack
  PropertyReadBack <- MCPropertyReadBack
  Documents <- MCOwn
  Names = {"GAIN", "HISTORY"}
  Values = {"short", "long"}
  Ids = {"P1", "P2"}
  MaxHeader = 210
  Changes <- MCOneChange
  MaxRounds = 16
INVARIANTS StaysReadable
CHECK_DEADLOCK FALSE

\* A keyword has an end tag of its own.
SPECIFICATION Spec
CONSTANTS
  Digits <- MCDigits
  RenderedLen <- MCRenderedLen
  KeywordReadBack <- MCKeywordReadBack
  PropertyReadBack <- MCPropertyReadBack
  Documents <- MCLongForm
  Names = {"GAIN", "HISTORY"}
  Values = {"short", "long"}
  Ids = {"P1", "P2"}
  MaxHeader = 100000
  Changes <- MCOneChange
  MaxRounds = 16
INVARIANTS StaysReadable
CHECK_DEADLOCK FALSE

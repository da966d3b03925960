\* A keyword stands behind </Image>.
SPECIFICATION Spec
CONSTANTS
  Digits <- MCDigits
  RenderedLen <- MCRenderedLen
  KeywordReadBack <- MCKeywordReadBack
  PropertyReadBack <- MCPropertyReadBack
  Documents <- MCBehindImage
  Names = {"GAIN", "HISTORY"}
  Values = {"short", "long"}
  Ids = {"P1", "P2"}
  MaxHeader = 100000
  Changes <- MCOneChange
  MaxRounds = 16
INVARIANTS RoundTrip
CHECK_DEADLOCK FALSE

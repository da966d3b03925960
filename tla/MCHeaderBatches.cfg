\* Batches, loops and properties against the contract: up to three entries.
SPECIFICATION Spec
CONSTANTS
  Names = {"GAIN", "gain", "DATE"}
  Canon <- MCCanon
  LegalNames = {"GAIN", "gain", "DATE"}
  Values = {"1", "2"}
  NoComment = "none"
  Comments = {"none", "c"}
  Nths = {0, 1}
  SetBatches <- MCSetBatches
  RemoveBatches <- MCRemoveBatches
  PropIds = {"Gain", "not an id"}
  LegalIds = {"Gain"}
  NoText = "empty"
  PropTexts = {"empty", "3.5"}
  DefaultType = "String"
  PropTypes = {"String", "Float32"}
  DefaultExtra = "none"
  Extras = {"none", "%.1f"}
  MaxEntries = 3
INVARIANTS BatchProgress
PROPERTIES Implements PropertyFrame

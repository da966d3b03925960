\* The keyword vector: up to three keywords, legal and illegal names.
SPECIFICATION Spec
CONSTANTS
  Names = {"GAIN", "gain", "B@D"}
  Canon <- MCCanon
  LegalNames = {"GAIN", "gain"}
  Values = {"1", "2"}
  NoComment = "none"
  Comments = {"none", "c"}
  Nths = {0, 1}
  SetBatches <- MCIllegalSetBatches
  RemoveBatches <- MCIllegalRemoveBatches
  PropIds = {}
  LegalIds = {}
  NoText = "empty"
  PropTexts = {"empty"}
  DefaultType = "String"
  PropTypes = {"String"}
  DefaultExtra = "none"
  Extras = {"none"}
  MaxEntries = 3
INVARIANTS TypeOK ReadBack
PROPERTIES SlotDiscipline StrictNames

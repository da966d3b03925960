\* Edits that shorten, keep and lengthen the header.
SPECIFICATION Spec
CONSTANTS
  Digits <- MCDigits
  Layouts <- MCLayouts
  Edits <- MCEdits
  MaxRounds = 16
INVARIANTS NearestShift RoundsArePaidFor
PROPERTIES OneDirection Settles
CHECK_DEADLOCK FALSE

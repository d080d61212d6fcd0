SPECIFICATION SessionSpec
CONSTANTS
  Histories <- MCHistories
  MaxRecords = 3
  MaxFailures = 1
  MaxOthers = 1
  MaxDisruptions = 2
INVARIANTS SessionTypeOK Accounted PointerFollowsMessage TallyNeverOverstates
PROPERTY PairedReceives

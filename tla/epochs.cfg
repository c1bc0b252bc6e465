\* Two receipts, two windows, two approvers, one pass at a time that may die.
CONSTANTS
  a1 = a1
  a2 = a2
  p1 = p1
  MaxWindow = 2
  Receipts = {1, 2}
  Author <- OneWriter
  Shows <- ReviewShowsMerge
  Weight <- Units12
  Components = {"base"}
  Credits <- Amounts
  OverrideUnits = {0}
  Approvers = {a1, a2}
  Passes = {p1}
  MaxEvents = 3
  MaxDeaths = 1
  None = None
SPECIFICATION Spec
SYMMETRY ApproversAreAlike
INVARIANTS
  TypeOK
  SignedIsStored
  CompleteUnlessDied
PROPERTIES
  SealedIsFrozen
  ImplementsEpochBook

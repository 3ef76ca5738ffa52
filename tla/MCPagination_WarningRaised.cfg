CONSTANTS
  Kinds <- MCKinds
  MaxItems = 4
  MaxRemovals = 2
  PerPage = 2
  LastPage = 5
  MaxPages = 3
SPECIFICATION Spec
INVARIANTS
  WarningRaised

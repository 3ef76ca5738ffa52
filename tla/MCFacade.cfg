CONSTANTS
  f1 = f1
  f2 = f2
  Facades <- MCFacades
  MaxAttempts = 2
SPECIFICATION FairSpec
INVARIANTS
  WaitUndisturbed
  WaitTruthful
PROPERTIES
  WaitEnds

CONSTANTS
  Plans <- MCPlans
  Confirmations <- MCConfirmations
  MaxLength = 4
SPECIFICATION FairSpec
INVARIANTS
  AuthorisedInFull
  JournalBracketsEffects
  AuditBracketsEffects
  AuditFollowsJournal
  ResultTruthful
PROPERTIES
  ExecutionEnds
  ImplementsStepSequence

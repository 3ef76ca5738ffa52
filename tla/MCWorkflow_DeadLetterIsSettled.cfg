CONSTANTS
  Plans <- MCPlans
  Confirmations <- MCConfirmations
  MaxLength = 4
SPECIFICATION Spec
INVARIANT
  DeadLetterIsSettled

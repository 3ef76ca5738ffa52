CONSTANTS
  Methods <- AllMethods
  PlannedMethods <- MCPlannedMethods
  MaxFiles = 3
  Plans <- MCPlans
  Confirmations <- MCConfirmations
  MaxLength = 4
SPECIFICATION CallsSpec
INVARIANTS
  ConsentBeforeIO
  SendCarriesUploads
  ReturnedMeansDone
  RefusedLeavesUploadsOnly
  RequestsAuthorised
  SucceededIsWhole
PROPERTIES
  RequestsInOrder
  ImplementsWorkflow

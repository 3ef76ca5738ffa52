CONSTANTS
  Methods <- MCMethods
  Statuses <- MCStatuses
  RetryAfters <- MCRetryAfters
  MaxRetries = 2
  Operations <- MCOperations
SPECIFICATION TypedFairSpec
INVARIANTS
  OutcomeHonest
  EventProtocol
  OutcomeReported
  BackoffBudget
  ChangeAtMostOnce
PROPERTIES
  MethodReturns
  ImplementsRemoteCall
  ImplementsChangeCall

CONSTANTS
  e1 = e1
  e2 = e2
  e3 = e3
  s1 = s1
  s2 = s2
  s3 = s3
  Executions <- MCExecutions
  Servers <- MCServers
SYMMETRY Symmetry
SPECIFICATION Spec
INVARIANTS
  CellReady
  OnlyOverlapsMix
  SuccessIsComplete
  OneServerPerExecution
PROPERTIES
  EachImplementsStepSequence

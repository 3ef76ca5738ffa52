CONSTANTS
  d1 = d1
  d2 = d2
  Deliveries <- MCDeliveries
  Bodies <- MCBodies
SYMMETRY Symmetry
SPECIFICATION Spec
INVARIANTS
  VerifiedIsEarned
  ForwardCompatible
PROPERTIES
  ImplementsInbox

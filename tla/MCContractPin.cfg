CONSTANTS
  Documents <- MCDocuments
  Versions <- MCVersions
  VersionOf <- MCVersionOf
SPECIFICATION Spec
INVARIANTS
  UpgradeKeepsAPin
PROPERTIES
  ImplementsPinnedContract

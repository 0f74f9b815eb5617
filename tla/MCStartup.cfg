SPECIFICATION Spec
CONSTANTS
  Unset = Unset
  Configs <- MCConfigs
INVARIANTS
  ViewsComplete
  StructsFit
  RoutesApply
PROPERTIES
  Settled
  Started

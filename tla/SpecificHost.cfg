CONSTANTS
  None = None
  Hosts <- MCHosts
  MaximumSize = 5
  RecommendedValidity = 365
  MinLevels <- MCMinLevels
  Inputs <- MCInputs
SPECIFICATION MainSpec
INVARIANTS
  SpecificHostsAllowed

\* Shows an exchange fully configured without the gas limits its fee estimates read.
CONSTANTS
  Releases <- MCReleases
  Plan <- MCPlan
  Code <- MCCode
  Successors <- MCSuccessors
  Fresh = {"goerli"}
  Existing = {}
  Contracts <- MCContracts
  Keys <- MCKeys
  Operator <- MCOperator
  HoldingKeys <- MCHoldingKeys
  VirtualIds <- MCVirtualIds
  OpenKey <- MCOpenKey
  IdKey <- MCIdKey
  Guards <- MCGuards
  NeededKeys <- MCNeededKeys
  EstimateKeys <- MCEstimateKeys
  Signers <- MCSigners
  MinSignersKey <- MCMinSignersKey
  MaxHolding = 1
  MaxTraded = 0
  MaxCrashes = 0
SPECIFICATION Spec
INVARIANT EstimatesHaveLimits
CHECK_DEADLOCK FALSE

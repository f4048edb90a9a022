\* Two networks that are deployed for the first time, crashes, two kinds of releases that may follow, and a deployment that is found in use, with users who trade.
CONSTANTS
  Releases <- MCReleases
  Plan <- MCPlan
  Code <- MCCode
  Successors <- MCSuccessors
  Fresh = {"goerli", "fuji"}
  Existing = {"fuji"}
  Contracts <- MCContracts
  Keys <- MCKeys
  Operator <- MCOperator
  HoldingKeys <- MCHoldingKeys
  VirtualIds <- MCVirtualIds
  OpenKey <- MCOpenKey
  IdKey <- MCIdKey
  Guards <- MCGuards
  NeededKeys <- MCNeededKeys
  EstimateKeys <- MCEstimateKeys
  Signers <- MCSigners
  MinSignersKey <- MCMinSignersKey
  MaxHolding = 1
  MaxTraded = 2
  MaxCrashes = 1
SPECIFICATION FairSpec
INVARIANTS TypeOK DoneMeansConfigured RoutersAreServed MarketsAreGuarded EnoughSigners 
PROPERTY Completes

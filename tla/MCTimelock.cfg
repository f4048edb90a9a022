\* The deployer, who still is a role admin and a timelock admin, and a multisig.
CONSTANTS
  deployer = deployer
  multisig = multisig
  timelock = timelock
  Accounts = {deployer, multisig}
  TimelockAddress = timelock
  Deployers = {deployer}
  Admins = {deployer}
  Multisigs = {multisig}
  Roles = {"ROLE_ADMIN", "TIMELOCK_ADMIN", "TIMELOCK_MULTISIG", "CONTROLLER"}
  Appointments <- Posts
  Candidates = {deployer}
  Tokens = {weth}
  Feeds = {feed}
  Labels = {"addOracleSigner", "removeOracleSigner", "setFeeReceiver", "setPriceFeed",
            "grantRole", "revokeRole"}
  InitialDelay = 1
  MaxDelay = 2
  MaxTime = 3
  MaxPending = 1
SPECIFICATION Spec
INVARIANTS TypeOK SomeoneInCharge
PROPERTIES GrantsAnnounced SettingsAnnounced
CHECK_DEADLOCK FALSE

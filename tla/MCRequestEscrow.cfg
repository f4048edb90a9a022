\* Two requests, two tokens.
CONSTANTS
  Tokens = {wnt, usdc}
  Quantities = {0, 1, 2}
  MaxRequests = 2
SPECIFICATION Spec
INVARIANTS TypeOK Solvent
PROPERTY SettledOnce
CHECK_DEADLOCK FALSE

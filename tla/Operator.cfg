SPECIFICATION Spec
CONSTANTS
  None = None
  Account = {w1, w2}
  MaxConnects = 3
  MaxSwitches = 2
  MaxWrites = 2
  MaxLoads = 2
  Op = {w1, w2}
  Timelock = {w2, w3}
  Admin = p
  MaxSends = 4
  MaxSalts = 2
  Deployer = {w1}
  MaxChanges = 1
  MaxFailed = 1
  MaxFlight = 1
  Buyer = {w1, w2}
  Air = p
  MaxEdits = 1
  MaxNets = 2
  MaxBuys = 2
  MaxMoves = 1
INVARIANT WalletIsShown
INVARIANT SentByShown
INVARIANT OfferedIsOpen
CHECK_DEADLOCK FALSE

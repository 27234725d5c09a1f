\* An RPC node one block behind answers a round.
SPECIFICATION SpecAll
CONSTANTS
  Environments = {"own"}
  LogId = {l1, l2}
  MaxHeight = 4
  MaxFork = 1
  MaxReorgDepth = 3
  FromBlock = 1
  Lookback = 1
  ScanWindow = 2
  MinHashWindow = 1
  MaxSplitDepth = 1
  AtomicStore = TRUE
  MaxLag = 1
  MissDepth = 0
  MidRoundReorg = FALSE
  MaxFaults = 1
SYMMETRY LogSymmetry
INVARIANT OrphansDropped

\* The fair specification: the chain rests in the end, and so do the faults.
SPECIFICATION FairSpecAll
CONSTANTS
  Environments = {"own"}
  LogId = {l1, l2}
  MaxHeight = 3
  MaxFork = 1
  MaxReorgDepth = 3
  FromBlock = 1
  Lookback = 1
  ScanWindow = 2
  MinHashWindow = 1
  MaxSplitDepth = 1
  AtomicStore = TRUE
  MaxLag = 0
  MissDepth = 0
  MidRoundReorg = FALSE
  MaxFaults = 1
PROPERTY EventuallyCaughtUp

\* The lookback window is larger than a chunk.
SPECIFICATION SpecAll
CONSTANTS
  Environments = {"own"}
  LogId = {l1, l2}
  MaxHeight = 4
  MaxFork = 1
  MaxReorgDepth = 3
  FromBlock = 1
  Lookback = 2
  ScanWindow = 1
  MinHashWindow = 1
  MaxSplitDepth = 1
  AtomicStore = TRUE
  MaxLag = 0
  MissDepth = 0
  MidRoundReorg = FALSE
  MaxFaults = 1
SYMMETRY LogSymmetry
INVARIANT OrphansDropped

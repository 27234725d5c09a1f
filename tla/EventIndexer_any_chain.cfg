\* Anything the chain and its nodes may do, at any step of a round.
SPECIFICATION SpecAll
CONSTANTS
  Environments = {"own"}
  LogId = {l1, l2}
  MaxHeight = 4
  MaxFork = 1
  MaxReorgDepth = 4
  FromBlock = 0
  Lookback = 0
  ScanWindow = 2
  MinHashWindow = 1
  MaxSplitDepth = 1
  AtomicStore = TRUE
  MaxLag = 1
  MissDepth = 1
  MidRoundReorg = TRUE
  MaxFaults = 1
SYMMETRY LogSymmetry
INVARIANT TypeOK
INVARIANT NoDuplicates
INVARIANT HashCover

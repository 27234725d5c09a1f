\* Four orderly environments; in the own one getLogs may miss the newest block,
\* as far back as the lookback window reaches.
SPECIFICATION SpecAll
CONSTANTS
  Environments = {"own", "steady", "pruned", "json"}
  LogId = {l1, l2}
  MaxHeight = 4
  MaxFork = 1
  MaxReorgDepth = 3
  FromBlock = 1
  Lookback = 1
  ScanWindow = 2
  MinHashWindow = 1
  MaxSplitDepth = 1
  AtomicStore = TRUE
  MaxLag = 0
  MissDepth = 1
  MidRoundReorg = FALSE
  MaxFaults = 1
SYMMETRY LogSymmetry
INVARIANT MatchProvesBelow
INVARIANT RoundConverges
INVARIANT RoundsExact
PROPERTY NoCanonicalLoss

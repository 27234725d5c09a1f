SPECIFICATION SpecAll
CONSTANTS
  Code = {k1, k2}
  Call = {c1, c2}
  Ttl = 1
  MaxAttempts = 2
  UniqueEmail = TRUE
  MaxIssued = 3
  MaxTime = 3
  MaxCrashes = 1
  Key = {x1, x2, x3}
  Limit = 2
  Window = 2
  SweepWindow = 3
  MaxKeys = 2
  LimiterTime = 5
  Address = {a1, a2}
  Verifier = {v1, v2}
  Lifetime = 1
  MaxChallenges = 3
  LastTime = 3
  PageSize = 2
  MaxScan = 6
  Depth = 2
  Initial = 5
  MaxEvents = 8
  Challenges = {1, 3, 4, 6, 8}
  Reorgs = 1
  Source = {s1, s2}
  MaxBackoff = 2
  MaxErrors = 3
  MaxHead = 2
  MaxRestarts = 1
SYMMETRY Symmetry
INVARIANT TypeOK
INVARIANT CodeUsedOnce
INVARIANT GuessesBounded
INVARIANT LimiterHonest
INVARIANT UsedChallengeGone
PROPERTY KeptUntilLogin
INVARIANT DrainHonest
INVARIANT RecentAreNewest
INVARIANT ErrorStateAgrees
INVARIANT CorruptStoreUntouched

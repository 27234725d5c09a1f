SPECIFICATION Spec
CONSTANTS
  Guardian = {g1, g2}
  Signer = {o1}
  FirstSigner = o1
  None = None
  Call = {c1, c2}
  FirstMatch = FALSE
  Quorum = 2
  Delay = 1
  MaxTime = 1
  MaxGuardians = 2
  MaxRequests = 2
  MaxCrashes = 1
  MaxRelayed = 2
SYMMETRY Symmetry
INVARIANT TypeOK
INVARIANT ExecutedWasDue
INVARIANT ExecutionsBacked
PROPERTY QuorumKept

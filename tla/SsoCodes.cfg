SPECIFICATION Spec
CONSTANTS
  Redirect = {r1, r2}
  Call = {c1, c2}
  Ttl = 2
  MaxCodes = 2
  MaxMinted = 4
  MaxTime = 4
INVARIANT TypeOK
INVARIANT FirstTryOnly
PROPERTY KeptWhileAlive

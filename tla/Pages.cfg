SPECIFICATION Spec
CONSTANTS
  None = None
  Amount = {1, 3}
  MaxTransfers = 2
  MaxNodes = 2
  Payment = {1}
  Balance <- OneAndNone
  MaxFlight = 2
  Publisher = p
  Rival = {w1, w2}
  Worker = {w1}
  MaxLost = 1
  Reward = {1, 2}
  MaxPosts = 4
  MaxUnsure = 1
  Account = {p, w1}
  MaxVersion = 3
  MaxListLoads = 5
  Hash = {p, w1}
  MaxLoads = 2
  MaxOps = 2
  MaxFailed = 1
  Visitor = {w1, w2}
  MaxLogins = 4
  Invited = {w1, w2}
  Key = {w1, w2, p}
  Version = {w1, w2}
  MaxPrepared = 2
  MaxClosed = 2
  Owner = p
  Trustee = {w1, w2}
  Successor = {w1, w2}
  MaxForeign = 1
  Address = {w1, w2, p}
  Member = {w1}
  Wallet = w3
  MaxPolls = 2
  MaxTries = 3
  MaxNonce = 3
  Token = {w1, w2, p}
  Preset = {w1}
  Bad = {p}
  MaxRows = 3
  MaxCalls = 3
  MaxReads = 3
  NFT = {w1, w2}
  MaxNFTs = 2
  MaxUpsets = 1
  Contact = {w1, w2}
  Name = {"", "x"}
  MaxUses = 1
  MaxSaves = 2
  Label = {w1, w2}
  Paymaster = {w1, w2}
  Suggested <- FirstOfEach
  MaxActions = 2
  MaxToggles = 2
  Limit = {1, 2}
  Cosigner = {w1, w2, w3}
  MaxStarts = 2
  File = {w1, w2}
  Content = {1, 2}
  Data <- Full
  Exported <- OfOneFile
  MaxImports = 2
  MaxExports = 1
  MaxWrites = 1
  MaxCrashes = 1
  Email = {w1, w2}
  MaxSends = 3
  MaxKeys = 2
  MaxPasskeyLogins = 1
INVARIANT ShownIsCurrent
INVARIANT SentAsShown
INVARIANT OfferedIsAccepted
INVARIANT OwnEffectSeen
INVARIANT DoneOnce
INVARIANT NothingLost
CHECK_DEADLOCK FALSE

------------------------------- MODULE Pages --------------------------------
(* Pages of the front end and the services behind them, each on its own:   *)
(* part is which of them a behaviour is of.                                *)
EXTENDS Naturals, FiniteSets

CONSTANTS
  None,                                                           \* nobody and nothing, in each of them
  Amount, MaxTransfers, MaxNodes,                                 \* of Transfer
  Payment, Balance, MaxFlight,                                    \* of TransferForm
  Publisher, Rival, Worker, MaxLost,                              \* of TaskPage
  Reward, MaxPosts, MaxUnsure,                                    \* of TaskCreate
  Account, MaxVersion, MaxListLoads,                              \* of TaskLists
  Hash, MaxLoads, MaxOps, MaxFailed,                              \* of JuryPage
  Visitor, MaxLogins,                                             \* of Dashboard, with the bounds of JuryPage
  Invited, Key, Version, MaxPrepared, MaxClosed,                  \* of CreateAccount
  Owner, Trustee, Successor, MaxForeign,                          \* of RecoveryPage, with bounds of others
  Address, Member, Wallet, MaxPolls, MaxTries,                    \* of GuardianSign
  MaxNonce,                                                       \* of PasskeyRecovery, with Successor
  Token, Preset, Bad, MaxRows, MaxCalls, MaxReads,                \* of UserTokens
  NFT, MaxNFTs, MaxUpsets,                                        \* of UserNFTs
  Contact, Name, MaxUses, MaxSaves,                               \* of AddressBook
  Label, Paymaster, Suggested, MaxActions, MaxToggles,            \* of Paymasters
  Limit, Cosigner, MaxStarts,                                     \* of TierRaise
  File, Content, Data, Exported, MaxImports, MaxExports, MaxWrites, MaxCrashes, \* of DataTools
  Email, MaxSends, MaxKeys, MaxPasskeyLogins                      \* of SignIn

(* The tiers are three.                                                     *)
ASSUME TransferAssumption == Amount \subseteq 1..3 /\ MaxTransfers \in Nat

(* What is entered is a positive amount.                                    *)
ASSUME FormAssumption == Payment \subseteq Nat \ {0}

(* Rewards are amounts.                                                     *)
ASSUME CreateAssumption == Reward \subseteq Nat

(* None is nothing of what a page may hold instead; the data tools start    *)
(* from directories of the files there are.                                 *)
ASSUME ArchiveAssumption ==
  /\ None \notin Content /\ None \notin [File -> Content \cup {None}]
  /\ Data \in [File -> Content \cup {None}]
  /\ Exported \subseteq [File -> Content \cup {None}]
  /\ MaxImports \in Nat

(* A list can be initialised with some tokens.                              *)
ASSUME TokensAssumption == Preset \subseteq Token /\ IsFiniteSet(Preset)

(* There is an NFT, the one that was removed before.                        *)
ASSUME CollectionAssumption == NFT # {}

(* None is no task.                                                         *)
ASSUME JuryAssumption == None \notin Hash

(* None is no user.                                                         *)
ASSUME TabAssumption == None \notin Visitor

(* None is no hash.                                                         *)
ASSUME BirthAssumption == None \notin [salt : Nat, version : Version, limit : BOOLEAN]

(* The form names two guardians.                                           *)
ASSUME RecoverAssumption == \E g, h \in Trustee : g # h

(* None is no address, no entry and no book.                                *)
ASSUME BookAssumption ==
  /\ None \notin Contact /\ None \notin [name : Name \cup {""}, count : Nat]
  /\ None \notin [Contact -> [name : Name \cup {""}, count : Nat] \cup {None}]

(* None is no list of paymasters; what is recommended has a name.           *)
ASSUME SponsorsAssumption ==
  /\ None \notin [Label -> Paymaster \cup {None}]
  /\ Suggested \subseteq [name : Label, address : Paymaster]

(* None is no address and no user.                                          *)
ASSUME SignAssumption == None \notin Email /\ None \notin [wallet : Nat, credential : Nat, passkey : Nat]

VARIABLES part, ui, calls, world

vars == <<part, ui, calls, world>>

Transfer == INSTANCE Transfer
Form == INSTANCE TransferForm WITH Amount <- Payment

(* Workers that race for the task, and workers with operations that land   *)
(* late.                                                                   *)
TaskOf(workers, lost) == INSTANCE TaskPage WITH Worker <- workers, NoOne <- None, MaxLost <- lost
Create == INSTANCE TaskCreate WITH MaxOps <- MaxPosts
Lists == INSTANCE TaskLists WITH NoOne <- None, MaxLoads <- MaxListLoads
Jury == INSTANCE JuryPage
Tab == INSTANCE Dashboard WITH User <- Visitor
Birth == INSTANCE CreateAccount WITH Guardian <- Invited
Recover == INSTANCE RecoveryPage WITH Guardian <- Trustee, Signer <- Successor
Device == INSTANCE GuardianSign WITH Account <- Member
Passkey == INSTANCE PasskeyRecovery WITH Owner <- Successor
Tokens == INSTANCE UserTokens
Collection == INSTANCE UserNFTs WITH MaxRows <- MaxNFTs
Book == INSTANCE AddressBook WITH Address <- Contact
Sponsors == INSTANCE Paymasters WITH Name <- Label, Address <- Paymaster, Preset <- Suggested, MaxCalls <- MaxActions
Raise == INSTANCE TierRaise WITH Amount <- Limit, Signer <- Cosigner, Guardian <- Trustee
Archive == INSTANCE DataTools WITH Version <- Content
Sign == INSTANCE SignIn WITH MaxTries <- MaxPasskeyLogins

(* Values for model checking of constants that are functions, records or   *)
(* sets of them.                                                           *)
OneAndNone == [asset \in 0..2 |-> IF asset = 1 THEN 0 ELSE 1]
FirstOfEach == {[name |-> CHOOSE l \in Label : TRUE, address |-> CHOOSE a \in Paymaster : TRUE]}
Full == [f \in File |-> 1]
OfOneFile == {[f \in File |-> IF f = CHOOSE g \in File : TRUE THEN 2 ELSE None]}

Of(name) == part = name /\ UNCHANGED part

Init ==
  \/ part = "transfer" /\ Transfer!Init
  \/ part = "form" /\ Form!Init
  \/ part = "race" /\ TaskOf(Rival, 0)!Init
  \/ part = "task" /\ TaskOf(Worker, MaxLost)!Init
  \/ part = "create" /\ Create!Init
  \/ part = "lists" /\ Lists!Init
  \/ part = "jury" /\ Jury!Init
  \/ part = "tab" /\ Tab!Init
  \/ part = "birth" /\ Birth!Init
  \/ part = "recover" /\ Recover!Init
  \/ part = "device" /\ Device!Init
  \/ part = "passkey" /\ Passkey!Init
  \/ part = "tokens" /\ Tokens!Init
  \/ part = "nfts" /\ Collection!Init
  \/ part = "book" /\ Book!Init
  \/ part = "sponsors" /\ Sponsors!Init
  \/ part = "raise" /\ Raise!Init
  \/ part = "archive" /\ Archive!Init
  \/ part = "sign" /\ Sign!Init

Next ==
  \/ Of("transfer") /\ Transfer!Next
  \/ Of("form") /\ Form!Next
  \/ Of("race") /\ TaskOf(Rival, 0)!Next
  \/ Of("task") /\ TaskOf(Worker, MaxLost)!Next
  \/ Of("create") /\ Create!Next
  \/ Of("lists") /\ Lists!Next
  \/ Of("jury") /\ Jury!Next
  \/ Of("tab") /\ Tab!Next
  \/ Of("birth") /\ Birth!Next
  \/ Of("recover") /\ Recover!Next
  \/ Of("device") /\ Device!Next
  \/ Of("passkey") /\ Passkey!Next
  \/ Of("tokens") /\ Tokens!Next
  \/ Of("nfts") /\ Collection!Next
  \/ Of("book") /\ Book!Next
  \/ Of("sponsors") /\ Sponsors!Next
  \/ Of("raise") /\ Raise!Next
  \/ Of("archive") /\ Archive!Next
  \/ Of("sign") /\ Sign!Next

Spec == Init /\ [][Next]_vars

-----------------------------------------------------------------------------
(* What a page shows is of what it is about now, whichever of its requests *)
(* answered late - but for the answers each of these names, which the code *)
(* cannot tell from its own.                                               *)
ShownIsCurrent ==
  /\ part = "transfer" => Transfer!StatusIsOwn
  /\ part = "form" => Form!TierIsOfInput /\ Form!GasIsOfAmount
  /\ part = "lists" => Lists!ListIsOwn
  /\ part = "tab" => Tab!DataIsOwn
  /\ part = "birth" => Birth!StepBacked
  /\ part = "recover" => Recover!StepIsTrue
  /\ part = "passkey" => Passkey!ShownIsProposed
  /\ part = "nfts" => Collection!StatsAreOfList
  /\ part = "book" => Book!BookIsShown
  /\ part = "sponsors" => Sponsors!DefaultIsShown /\ Sponsors!SavedIsShown
  /\ part = "sign" => Sign!CodeShownWasSent

(* What is signed and sent is what the user was shown and what was judged. *)
SentAsShown ==
  /\ part = "transfer" => Transfer!ShownWasSent /\ Transfer!PathAsJudged
  /\ part = "create" => Create!CreateFunded
  /\ part = "jury" => Jury!RegistrationBacked
  /\ part = "birth" => Birth!CreatedAsSigned /\ Birth!KeysDiffer
  /\ part = "device" => Device!ResultIsSigners
  /\ part = "raise" => Raise!SignedIsSent

(* A button that is offered does what it says: the backend or the contract *)
(* takes it, as far as the page has read its state.                        *)
OfferedIsAccepted ==
  /\ part = "form" => Form!OfferCovered
  /\ part = "race" => TaskOf(Rival, 0)!OfferedIsAccepted
  /\ part = "task" => TaskOf(Worker, MaxLost)!OfferedIsAccepted
  /\ part = "jury" => Jury!OfferedIsAccepted
  /\ part = "device" => Device!SignsWhenDerived
  /\ part = "passkey" => Passkey!SignedIsAccepted
  /\ part = "book" => Book!EditIsOfShown
  /\ part = "sponsors" => Sponsors!DefaultIsSaved
  /\ part = "raise" => Raise!SubmitIsTaken

(* A page at rest shows what its user has done.                            *)
OwnEffectSeen ==
  /\ part = "race" => TaskOf(Rival, 0)!OwnEffectSeen
  /\ part = "task" => TaskOf(Worker, MaxLost)!OwnEffectSeen
  /\ part = "jury" => Jury!OwnVoteSeen
  /\ part = "tab" => Tab!AccountShown
  /\ part = "tokens" => Tokens!PromisedIsKept /\ Tokens!AddedIsListed
  /\ part = "nfts" => Collection!CollectionIsOwn
  /\ part = "book" => Book!UsesAreCounted
  /\ part = "archive" => Archive!LeftAsPromised
  /\ part = "sign" => Sign!SignedInHasWallet

(* What the user did once takes effect once, however often a page or the   *)
(* backend tries.                                                          *)
DoneOnce ==
  /\ part = "transfer" => Transfer!BookCountsMined
  /\ part = "create" => Create!PostedOnce
  /\ part = "tokens" => Tokens!OneRowEach
  /\ part = "nfts" => Collection!OneRowEach
  /\ part = "sign" => Sign!PasskeySignsIn

(* What an action sets out to replace is kept until it succeeds, and one   *)
(* that fails leaves what was there.                                       *)
NothingLost ==
  /\ part = "archive" => Archive!KeptSomewhere
=============================================================================

------------------------------ MODULE Operator ------------------------------
(* The pages that sign with the wallet of the browser, each on its own:     *)
(* part is which of them a behaviour is of.                                 *)
EXTENDS Naturals

CONSTANTS
  None,
  Account, MaxConnects, MaxSwitches, MaxWrites, MaxLoads,  \* of Manage
  Op, Timelock, Admin, MaxSends, MaxSalts,                 \* of Governance
  Deployer, MaxChanges, MaxFailed, MaxFlight,              \* of DeployWizard
  Buyer, Air, MaxEdits, MaxNets, MaxBuys, MaxMoves         \* of TokenSale

(* None is no account, no timelock and no change.                           *)
ASSUME OperatorAssumption ==
  /\ None \notin Account \cup Op \cup Timelock \cup {Admin} \cup Deployer \cup Buyer
  /\ Account # {} /\ Buyer # {}

VARIABLES part, ui, calls, world

vars == <<part, ui, calls, world>>

Console == INSTANCE Manage

Govern == INSTANCE Governance WITH Operator <- Admin

Wizard == INSTANCE DeployWizard WITH Account <- Deployer, MaxSwitches <- MaxChanges

Sale == INSTANCE TokenSale WITH Account <- Buyer

(* Nor is it what a check of the wizard tells.                              *)
ASSUME NoneAssumption == None \notin Wizard!Resource

Of(name) == part = name /\ UNCHANGED part

Init ==
  \/ part = "console" /\ Console!Init
  \/ part = "govern" /\ Govern!Init
  \/ part = "wizard" /\ Wizard!Init
  \/ part = "sale" /\ Sale!Init

Next ==
  \/ Of("console") /\ Console!Next
  \/ Of("govern") /\ Govern!Next
  \/ Of("wizard") /\ Wizard!Next
  \/ Of("sale") /\ Sale!Next

Spec == Init /\ [][Next]_vars

-----------------------------------------------------------------------------
(* What a page shows is of the wallet and of what the user entered last,   *)
(* but for what ShownIsOperators excuses.                                  *)
WalletIsShown ==
  /\ part = "console" => Console!ShownIsOperators /\ Console!NotConnectedByOld
  /\ part = "sale" => Sale!QuoteIsOfForm

(* Who signs is who the page shows, and what was sent is done once and done *)
(* when the page says so, as far as each of these promises it.              *)
SentByShown ==
  /\ part = "console" => Console!SignerIsShown /\ Console!SentByOperator /\ Console!WriteInFlightOnce
  /\ part = "govern" => Govern!SaltOutlives
  /\ part = "wizard" => Wizard!PastIsDone
  /\ part = "sale" => Sale!FloorIsFresh /\ Sale!OnePurchase /\ Sale!SignerIsEoa

(* What a page offers the contract takes, by what the page has read last;   *)
(* each of these names the reads that came too late for it.                 *)
OfferedIsOpen ==
  /\ part = "govern" => Govern!ReadyIsReady
  /\ part = "wizard" => Wizard!OfferedIsUndone
  /\ part = "sale" => Sale!BalancesOfSale
=============================================================================

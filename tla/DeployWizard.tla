---------------------------- MODULE DeployWizard ----------------------------
(* The operator's onboarding wizard (aastar-frontend/app/operator/deploy):   *)
(* its steps, each of which sends one transaction unless the resource check  *)
(* found its work done, and the check itself with its cache                  *)
(* (lib/resources).                                                          *)
EXTENDS Naturals, FiniteSets

CONSTANTS
  Account,     \* accounts of the operator's wallet
  None,
  MaxSwitches, \* bound: changes of account and restarts
  MaxFailed,   \* bound: reads that fail
  MaxFlight    \* bound: checks in flight

VARIABLES
  ui,    \* wallet, step, data of the wizard, and the state of the step
  calls, \* checks and transactions in flight
  world  \* the contracts, the browser's cache, and history; missed: what
         \* the wizard was not told of an account when it was read last

vars == <<ui, calls, world>>

Mode == {"aoa", "aoa+"}
Keys(mode) ==
  IF mode = "aoa+" THEN <<"connect", "resources", "community", "xpnts", "super", "configure", "deposit", "done">>
  ELSE <<"connect", "resources", "community", "xpnts", "paymaster", "entrypoint", "done">>
Key == Keys(ui.mode)[ui.step]

(* The steps that send a transaction: whether it leaves what the check can  *)
(* find, which address of the wizard's data it needs, and after which       *)
(* outcomes it asks for refreshResources.                                   *)
RegisterCommunity == [lasting |-> TRUE, needs |-> "nothing", refresh |-> BOOLEAN]
DeployXPNTs == [lasting |-> TRUE, needs |-> "nothing", refresh |-> {TRUE}]
DeployPaymasterV4 == [lasting |-> TRUE, needs |-> "nothing", refresh |-> BOOLEAN]
RegisterSuper == [lasting |-> TRUE, needs |-> "nothing", refresh |-> BOOLEAN]
ConfigureOperator == [lasting |-> FALSE, needs |-> "token", refresh |-> {}]
EntryPointDeposit == [lasting |-> FALSE, needs |-> "paymaster", refresh |-> {}]
DepositAPNTs == [lasting |-> FALSE, needs |-> "nothing", refresh |-> {TRUE}]

Steps == [community |-> RegisterCommunity, xpnts |-> DeployXPNTs, paymaster |-> DeployPaymasterV4,
          super |-> RegisterSuper, configure |-> ConfigureOperator, entrypoint |-> EntryPointDeposit,
          deposit |-> DepositAPNTs]

Lasting == {key \in DOMAIN Steps : Steps[key].lasting}

Init ==
  /\ ui = [address |-> None, signer |-> None, step |-> 1, mode |-> None, resources |-> None,
           token |-> None, paymaster |-> None, loading |-> FALSE, tx |-> "idle"]
  /\ calls = {}
  /\ world = [has |-> [a \in Account |-> {}], cache |-> {}, switches |-> 0, failed |-> 0,
              mixed |-> FALSE, missed |-> {}]

-----------------------------------------------------------------------------
(* The resource check. *)
Looked(mode) ==
  IF mode = "aoa" THEN {"community", "xpnts", "paymaster"}
  ELSE {"community", "xpnts", "conflict", "super"}

Subject(type) == IF type = "conflict" THEN "paymaster" ELSE type

(* The one result of a type that is cached: the positive one, and of what   *)
(* conflicts with AOA+ the negative one.                                    *)
CachedValue(type) == type \in {"community", "xpnts", "paymaster"}

Checks == {c \in calls : c.kind = "check"}

(* getCachedOrFetch looks into the cache of all types before it waits. *)
Check(of, mode, cache, by) ==
  [kind |-> "check", n |-> Cardinality(Checks), of |-> of, mode |-> mode, by |-> by, at |-> "read",
   cached |-> {type \in Looked(mode) : <<type, of>> \in cache}, found |-> {}, enough |-> FALSE]

Cleared(of) == {entry \in world.cache : entry[2] # of}

(* The fetches that are not cached; a read that fails says no.  enough:     *)
(* the balances are what the mode asks for.                                 *)
CheckRead(c) ==
  /\ c.kind = "check" /\ c.at = "read"
  /\ \E failed \in {{}} \cup IF world.failed < MaxFailed THEN {{t} : t \in Looked(c.mode) \ c.cached} ELSE {},
        enough \in BOOLEAN :
       LET Value(t) == IF t \in c.cached THEN CachedValue(t)
                       ELSE t \notin failed /\ Subject(t) \in world.has[c.of]
           positive == {t \in Looked(c.mode) : Value(t)}
           cacheable == {t \in Looked(c.mode) \ c.cached : Value(t) = CachedValue(t)} IN
       /\ calls' = (calls \ {c}) \cup
            {[c EXCEPT !.at = "answer", !.found = {Subject(t) : t \in positive}, !.enough = enough]}
       /\ world' = [world EXCEPT !.cache = @ \cup {<<t, c.of>> : t \in cacheable},
                                 !.failed = @ + Cardinality(failed),
                                 !.missed = (@ \ {<<t, c.of>> : t \in Looked(c.mode) \ c.cached})
                                              \cup {<<t, c.of>> : t \in failed}]
  /\ UNCHANGED ui

(* Entries of the cache grow old. *)
Expire ==
  /\ world.cache # {}
  /\ world' = [world EXCEPT !.cache = {}]
  /\ UNCHANGED <<ui, calls>>

(* What a check has told the wizard. *)
Resource == [of : Account, mode : Mode, has : SUBSET Lasting, enough : BOOLEAN]

Known(c, what) == IF what \in c.found THEN c.of ELSE None

(* Step 2 takes the addresses as the check found them, refreshResources     *)
(* keeps those the wizard has.                                              *)
CheckAnswered(c) ==
  /\ c.kind = "check" /\ c.at = "answer"
  /\ LET resources == [of |-> c.of, mode |-> c.mode, has |-> c.found, enough |-> c.enough]
         ownPaymaster == IF c.mode = "aoa" THEN Known(c, "paymaster") ELSE None IN
     ui' = IF c.by = "refresh"
           THEN [ui EXCEPT !.resources = resources,
                           !.token = IF @ = None THEN Known(c, "xpnts") ELSE @,
                           !.paymaster = IF @ = None THEN ownPaymaster ELSE @]
           ELSE [ui EXCEPT !.resources = resources, !.token = Known(c, "xpnts"), !.paymaster = ownPaymaster,
                           !.loading = IF c.by = "step" THEN FALSE ELSE @]
  /\ calls' = calls \ {c} /\ UNCHANGED world

-----------------------------------------------------------------------------
(* The steps.  What a step that is gone began no longer changes its state,  *)
(* but still the wizard's data.                                             *)
Left == {IF c.kind = "check" /\ c.by = "step" THEN [c EXCEPT !.by = "gone"]
         ELSE IF c.kind = "tx" THEN [c EXCEPT !.alive = FALSE] ELSE c : c \in calls}

Entering(step, mode) ==
  /\ ui' = [ui EXCEPT !.step = step, !.mode = mode, !.tx = "idle",
                      !.loading = (step = 2 /\ ui.resources = None)]
  /\ calls' = Left \cup IF step = 2 /\ ui.resources = None
                        THEN {Check(ui.address, mode, world.cache, "step")} ELSE {}

Live == ui.address # None /\ ui.signer # None

Connect ==
  /\ ui.step = 1 /\ ui.address = None
  /\ \E a \in Account :
       /\ ui' = [ui EXCEPT !.address = a, !.signer = a]
       /\ world' = [world EXCEPT !.mixed = @ \/ calls # {} \/ (ui.resources # None /\ ui.resources.of # a)]
  /\ UNCHANGED calls

(* handleContinue of step 1: a mode is picked, what was checked stays. *)
HandleContinue ==
  /\ ui.step = 1 /\ ui.address # None /\ Cardinality(Checks) < MaxFlight
  /\ \E mode \in Mode :
       /\ Entering(2, mode)
       /\ world' = [world EXCEPT !.mixed = @ \/ Checks # {} \/ (ui.resources # None /\ mode # ui.mode)]

RunAgain ==
  /\ Live /\ ui.step = 2 /\ ~ui.loading /\ Cardinality(Checks) < MaxFlight
  /\ ui' = [ui EXCEPT !.loading = TRUE]
  /\ calls' = calls \cup {Check(ui.address, ui.mode, Cleared(ui.address), "step")}
  /\ world' = [world EXCEPT !.cache = Cleared(ui.address), !.mixed = @ \/ Checks # {}]

BalancesOk ==
  /\ ui.resources # None
  /\ ui.resources.enough

Already == Key \in Lasting /\ ui.resources # None /\ Key \in ui.resources.has

OnNext ==
  /\ Live /\ Key # "done" /\ ui.step > 1
  /\ IF Key = "resources" THEN BalancesOk /\ ~ui.loading ELSE Already \/ ui.tx = "success"
  /\ Entering(ui.step + 1, ui.mode) /\ UNCHANGED world

OnBack ==
  /\ Live /\ Key # "done" /\ ui.step > 1 /\ ui.tx # "pending"
  /\ (ui.step = 3 /\ ui.resources = None) => Cardinality(Checks) < MaxFlight
  /\ Entering(ui.step - 1, ui.mode) /\ UNCHANGED world

(* "Back to start" without a wallet, "start over" at the end. *)
Restart ==
  /\ ui.step > 1 /\ (~Live \/ Key = "done") /\ world.switches < MaxSwitches
  /\ ui' = [ui EXCEPT !.step = 1, !.mode = None, !.resources = None, !.token = None, !.paymaster = None,
                      !.loading = FALSE, !.tx = "idle"]
  /\ calls' = Left
  /\ world' = [world EXCEPT !.switches = @ + 1, !.mixed = @ \/ calls # {}]

-----------------------------------------------------------------------------
(* The wallet tells of its account: WalletContext. *)
AccountsChanged(a) ==
  /\ ui.address \notin {None, a} /\ world.switches < MaxSwitches
  /\ ui' = IF a = None THEN [ui EXCEPT !.address = None, !.signer = None, !.tx = "idle", !.loading = FALSE]
           ELSE [ui EXCEPT !.address = a]
  /\ calls' = IF a = None THEN Left ELSE calls
  /\ world' = [world EXCEPT !.switches = @ + 1, !.mixed = @ \/ a # None]

-----------------------------------------------------------------------------
(* The transactions: run of useTxStep with the step's action.  A step is    *)
(* offered when nothing says that it was done.                              *)
Possible == LET needs == Steps[Key].needs IN needs # "nothing" => ui[needs] # None

Offered == Live /\ ui.step > 2 /\ Key # "done" /\ ~Already /\ ui.tx \in {"idle", "error"} /\ Possible

Run ==
  /\ Offered
  /\ ui' = [ui EXCEPT !.tx = "pending"]
  /\ calls' = calls \cup {[kind |-> "tx", what |-> Key, of |-> ui.address, mode |-> ui.mode,
                           signer |-> ui.signer, alive |-> TRUE, at |-> "sent"]}
  /\ UNCHANGED world

(* The contracts take each lasting step of an account once. *)
Accepts(c) == c.what \notin world.has[c.signer]

(* It is mined; or it never is, or reverts: not approved, rejected in the   *)
(* wallet, refused.                                                         *)
Mine(c) ==
  /\ c.kind = "tx" /\ c.at = "sent"
  /\ \/ /\ Accepts(c)
        /\ calls' = (calls \ {c}) \cup {[c EXCEPT !.at = "mined"]}
        /\ world' = [world EXCEPT !.has[c.signer] = @ \cup ({c.what} \cap Lasting)]
     \/ /\ calls' = (calls \ {c}) \cup {[c EXCEPT !.at = "failed"]}
        /\ UNCHANGED world
  /\ UNCHANGED ui

(* Bug: a receipt is a success, whatever its status says. *)
SucceededAnyway(c) == {TRUE}

(* The receipt is awaited and its status looked at; the wait may fail.      *)
Succeeded(c) == IF c.at = "mined" THEN {TRUE} \cup (IF world.failed < MaxFailed THEN {FALSE} ELSE {}) ELSE {FALSE}

Refreshes(c, success) == success \in Steps[c.what].refresh

(* Bug: refreshResources leaves the cache as it is. *)
CacheKept(of) == world.cache

(* refreshResources clears what is cached of the account. *)
CacheToRead(of) == Cleared(of)

Ended(c) ==
  /\ c.kind = "tx" /\ c.at # "sent"
  /\ Cardinality(Checks) < MaxFlight
  /\ \E success \in Succeeded(c) :
       /\ ui' = [ui EXCEPT !.tx = IF ~c.alive THEN @ ELSE IF success THEN "success" ELSE "error",
                           !.token = IF c.what = "xpnts" /\ success THEN c.of ELSE @,
                           !.paymaster = IF c.what = "paymaster" /\ c.at = "mined" THEN c.of ELSE @]
       /\ calls' = (calls \ {c}) \cup IF Refreshes(c, success) /\ c.of # None
                                      THEN {Check(c.of, c.mode, CacheToRead(c.of), "refresh")} ELSE {}
       /\ world' = [world EXCEPT !.cache = IF Refreshes(c, success) THEN CacheToRead(c.of) ELSE @,
                                 !.failed = @ + (IF c.at = "mined" /\ ~success THEN 1 ELSE 0),
                                 !.mixed = @ \/ (Refreshes(c, success) /\ Checks # {}),
                                 !.missed = @ \cup IF c.what = "xpnts" /\ c.at = "mined" /\ ~success
                                                   THEN {<<"xpnts", c.of>>} ELSE {}]

-----------------------------------------------------------------------------
(* A behaviour is followed until the operator mixes two errands, of which   *)
(* the properties say nothing.                                              *)
Next ==
  /\ ~world.mixed
  /\ \/ Connect \/ HandleContinue \/ RunAgain \/ OnNext \/ OnBack \/ Restart \/ Run \/ Expire
     \/ \E a \in Account \cup {None} : AccountsChanged(a)
     \/ \E c \in calls : CheckRead(c) \/ CheckAnswered(c) \/ Mine(c) \/ Ended(c)

Spec == Init /\ [][Next]_vars

-----------------------------------------------------------------------------
(* The wizard gets past a step only when its work is on the chain for the   *)
(* operator, done by the step or found by the check: receipts are looked    *)
(* at and what is cached as done stays done (useTxStep.ts, page.tsx).       *)
(* mixed: the operator changed account, mode or wizard with requests or     *)
(* data of the earlier one about.                                           *)
PastIsDone ==
  (Live /\ ~world.mixed) =>
    \A i \in 3..(ui.step - 1) : LET key == Keys(ui.mode)[i] IN key \in Lasting => key \in world.has[ui.address]

(* What a step offers to do is not done already, once the checks have       *)
(* answered: refreshResources looks past the cache (page.tsx:78-88).  All   *)
(* that is excused of a step is that its own read failed when it was made   *)
(* last - that no counts, and AOA+ may cache it - or that the receipt of    *)
(* its token was lost and no check has looked since (missed).               *)
OfferedIsUndone ==
  (Offered /\ calls = {} /\ ~world.mixed /\ <<Key, ui.address>> \notin world.missed) =>
    Key \notin world.has[ui.address]

(* Step2ResourceCheck.tsx:6-7: the check of the mode gates "Continue" - a   *)
(* mode picked later goes by the check of the earlier one.                  *)
GateIsOfMode == (ui.step = 2 /\ BalancesOk) => ui.resources.mode = ui.mode

(* resourceChecker.ts:42: "never cache a negative" - the checks for AOA+    *)
(* cache that there is no paymaster and no registration.                    *)
NoNegativeCached == \A entry \in world.cache : CachedValue(entry[1])
=============================================================================

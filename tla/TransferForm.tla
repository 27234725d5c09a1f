---------------------------- MODULE TransferForm ----------------------------
(***************************************************************************)
(* The form of the send page (aastar-frontend/app/transfer): amount, asset *)
(* and sponsorship, and what is fetched about them while they change: the  *)
(* tier (resolveTransfer), the gas and the balance of the asset.           *)
(*                                                                         *)
(* An amount is a number, 0 for a form that is not filled in; Ether is     *)
(* asset 0.  What the page shows is kept with the input it was fetched for.*)
(***************************************************************************)
EXTENDS Naturals, FiniteSets

CONSTANTS
  Amount,   \* positive amounts the user enters
  Balance,  \* Balance[k]: what the account holds of asset k; asset 0 is Ether
  MaxFlight \* bound: judgements, and balances, in flight

VARIABLES
  ui,    \* the page's state
  calls, \* requests in flight, each with the input it was made for
  world  \* whether the account has a default paymaster

vars == <<ui, calls, world>>

Asset == DOMAIN Balance
Nothing == [amount |-> 0, asset |-> 0]
Input == [amount |-> ui.amount, asset |-> ui.asset]

Init ==
  /\ ui = [page |-> "loading", amount |-> 0, asset |-> 0, sponsored |-> FALSE,
           defaulted |-> FALSE, resolution |-> Nothing, estimate |-> 0, balance |-> 0,
           lateEstimate |-> FALSE, lateBalance |-> FALSE]
  /\ calls = [judge |-> {}, estimate |-> 0, balance |-> {}]
  /\ world \in BOOLEAN

-----------------------------------------------------------------------------
(* loadPageData: paymasters, presets, address book and history; whichever  *)
(* fails counts as empty, and the page shows in any case.                  *)
PageLoaded ==
  /\ ui.page = "loading"
  /\ \E saved \in BOOLEAN : ui' = [ui EXCEPT !.page = IF saved THEN "saved" ELSE "bare"]
  /\ UNCHANGED <<calls, world>>

(* The effect that applies the account's default paymaster, once. *)
ApplyDefault ==
  /\ ui.page = "saved" /\ ~ui.defaulted
  /\ ui' = [ui EXCEPT !.defaulted = TRUE, !.sponsored = @ \/ world]
  /\ UNCHANGED <<calls, world>>

(* Bug: the cleanup of the effect does not cancel what it started. *)
NotCancelled(judgements) == judgements
Cancelled(judgements) == {[j EXCEPT !.live = FALSE] : j \in judgements}

(* The effect on amount and asset: cancel the judgement in flight, start   *)
(* another one unless there is nothing to judge.                           *)
Rejudge(amount, asset) ==
  Cancelled(calls.judge) \cup
    (IF amount = 0 THEN {}
     ELSE {[input |-> [amount |-> amount, asset |-> asset], live |-> TRUE]})

(* Bug: the estimate of the form before stays. *)
EditedKeepsEstimate(amount) ==
  [ui EXCEPT !.amount = amount, !.resolution = IF amount = 0 THEN Nothing ELSE @]
Edited(amount) ==
  [ui EXCEPT !.amount = amount, !.estimate = 0,
             !.resolution = IF amount = 0 THEN Nothing ELSE @]

(* handleChange of the amount field. *)
EditAmount(amount) ==
  /\ ui.page # "loading" /\ amount # ui.amount
  /\ Cardinality(calls.judge) < MaxFlight
  /\ ui' = Edited(amount)
  /\ calls' = [calls EXCEPT !.judge = Rejudge(amount, ui.asset)]
  /\ UNCHANGED world

(* The checkbox; it clears the estimate too. *)
ToggleSponsored ==
  /\ ui.page # "loading"
  /\ ui' = [ui EXCEPT !.sponsored = ~@, !.estimate = 0]
  /\ UNCHANGED <<calls, world>>

(* The token selector: the balance of a token is fetched, Ether has none   *)
(* to fetch; the balance and the estimate shown stay.                      *)
PickAsset(asset) ==
  /\ ui.page # "loading" /\ asset # ui.asset
  /\ Cardinality(calls.balance) < MaxFlight /\ Cardinality(calls.judge) < MaxFlight
  /\ ui' = [ui EXCEPT !.asset = asset, !.balance = IF asset = 0 THEN 0 ELSE @]
  /\ calls' = [calls EXCEPT !.judge = Rejudge(ui.amount, asset),
                            !.balance = @ \cup ({asset} \ {0})]
  /\ UNCHANGED world

(* refreshBalance fetches the balance of the token once more. *)
RefreshBalance ==
  /\ ui.page # "loading" /\ ui.asset # 0
  /\ Cardinality(calls.balance) < MaxFlight
  /\ calls' = [calls EXCEPT !.balance = @ \cup {ui.asset}]
  /\ UNCHANGED <<ui, world>>

-----------------------------------------------------------------------------
(* A cancelled judgement is dropped, a failed one leaves none. *)
Judged(j) ==
  /\ calls' = [calls EXCEPT !.judge = @ \ {j}]
  /\ \E answer \in {j.input, Nothing} :
       ui' = IF j.live THEN [ui EXCEPT !.resolution = answer] ELSE ui
  /\ UNCHANGED world

(* Bug: the balance of the asset before is kept when the fetch fails. *)
FetchedOrKept(asset) == {asset, ui.balance}
Fetched(asset) == {asset, 0}

(* The balance of the token asked about is shown, whatever is selected     *)
(* now.  lateBalance is history: it was not the selected one.              *)
BalanceAnswered(asset) ==
  /\ asset \in calls.balance
  /\ calls' = [calls EXCEPT !.balance = @ \ {asset}]
  /\ \E shown \in Fetched(asset) :
       ui' = [ui EXCEPT !.balance = shown, !.lateBalance = asset # ui.asset]
  /\ UNCHANGED world

(* The button is disabled while an estimate is loading. *)
EstimateGas ==
  /\ ui.amount # 0 /\ calls.estimate = 0
  /\ calls' = [calls EXCEPT !.estimate = ui.amount]
  /\ UNCHANGED <<ui, world>>

Estimated ==
  /\ calls.estimate # 0
  /\ calls' = [calls EXCEPT !.estimate = 0]
  /\ \E ok \in BOOLEAN :
       ui' = IF ok THEN [ui EXCEPT !.estimate = calls.estimate,
                                   !.lateEstimate = calls.estimate # ui.amount]
             ELSE ui
  /\ UNCHANGED world

-----------------------------------------------------------------------------
(* The balance the page compares with: Ether's comes with the account. *)
Available ==
  IF ui.asset = 0 THEN Balance[0]
  ELSE IF ui.balance = 0 THEN 0 ELSE Balance[ui.balance]

(* isTransferDisabled, negated. *)
SendOffered == ui.amount # 0 /\ (ui.sponsored \/ ui.amount <= Available)

(* The transfer was submitted (module Transfer) and clears the form. *)
Cleared ==
  /\ SendOffered
  /\ Cardinality(calls.judge) < MaxFlight
  /\ ui' = [ui EXCEPT !.amount = 0, !.asset = 0, !.sponsored = FALSE,
                      !.resolution = Nothing, !.estimate = 0, !.balance = 0]
  /\ calls' = [calls EXCEPT !.judge = Rejudge(0, 0)]
  /\ UNCHANGED world

Next ==
  \/ PageLoaded \/ ApplyDefault \/ ToggleSponsored \/ RefreshBalance
  \/ EstimateGas \/ Estimated \/ Cleared
  \/ \E amount \in Amount \cup {0} : EditAmount(amount)
  \/ \E asset \in Asset : PickAsset(asset) \/ BalanceAnswered(asset)
  \/ \E j \in calls.judge : Judged(j)

-----------------------------------------------------------------------------
(* The tier shown is that of the input on the page once its judgement has  *)
(* answered, whatever came late.                                           *)
TierIsOfInput ==
  (\A j \in calls.judge : ~j.live) => ui.resolution \in {Nothing, Input}

(* The gas shown is that of the amount on the page, unless its answer came *)
(* after the amount had changed.                                           *)
GasIsOfAmount == ui.estimate \in {0, ui.amount} \/ ui.lateEstimate

(* An unsponsored transfer is offered only for what the account holds of   *)
(* the asset, once its balance is fetched and no answer came late.         *)
OfferCovered ==
  SendOffered /\ ~ui.sponsored /\ calls.balance = {} /\ ~ui.lateBalance
    => ui.amount <= Balance[ui.asset]
=============================================================================

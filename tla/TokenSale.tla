------------------------------ MODULE TokenSale ------------------------------
(* The launch sale (app/tokens/page.tsx): network, wallet, form and purchase. *)
(* The sale is on one chain only.  Quotes are cancelled when what they are of *)
(* changes, balances are not; a purchase asks the wallet for its chain before *)
(* the button is off, and takes its floor from a quote of its own.            *)
EXTENDS Naturals

CONSTANTS
  Account,  \* accounts of the injected wallet
  Air,      \* the user's AirAccount
  None,
  MaxEdits, \* bound: changes of the form
  MaxNets,  \* bound: changes of the network, the page's and the wallet's
  MaxBuys,  \* bound: clicks on the buy button
  MaxMoves  \* bound: changes of the price

VARIABLES
  ui,    \* the page's state
  calls, \* requests and prompts under way
  world  \* the wallet, the price, the orders sent; the rest is history

vars == <<ui, calls, world>>

Sale == "sepolia"
Chain == {Sale, "optimism"}
Token == {"GTOKEN", "APNTS"}

Init ==
  /\ ui = [chain |-> Sale, eoa |-> None, client |-> None, connecting |-> FALSE, token |-> "APNTS",
           mode |-> "GASLESS", pay |-> "USDC", amount |-> 1, recipient |-> Air, balances |-> None,
           quote |-> None, buying |-> FALSE, lastTx |-> 0]
  /\ calls = {[kind |-> "quote", of |-> <<"APNTS", 1, Sale>>]}
  /\ world = [active |-> CHOOSE a \in Account : TRUE, chain |-> Sale, price |-> 2, moves |-> 0, orders |-> {},
              edits |-> 0, nets |-> 0, buys |-> 0, switched |-> FALSE, twice |-> FALSE, late |-> FALSE]

(* What a purchase gives: nothing when the amount is less than a unit.       *)
Out(amount) == (2 * amount) \div world.price

-----------------------------------------------------------------------------
(* The effects of the page that a change of its state runs.                  *)
Input(u) == <<u.token, u.amount, u.chain>>
Quotable(u) == u.amount > 0 /\ u.chain = Sale

(* Bug: a quote that is under way is not cancelled. *)
QuotingNotCancelled(u) ==
  calls \cup (IF Quotable(u) THEN {[kind |-> "quote", of |-> Input(u)]} ELSE {})

Quoting(u) ==
  {c \in calls : c.kind # "quote"}
     \cup (IF Quotable(u) THEN {[kind |-> "quote", of |-> Input(u)]} ELSE {})

Entered(u) ==
  /\ ui' = IF Quotable(u) THEN u ELSE [u EXCEPT !.quote = None]
  /\ calls' = Quoting(u)

(* refreshBalances of the account or chain that is new. *)
Balances(u) == IF u.eoa # None /\ u.chain = Sale THEN {[kind |-> "balances", of |-> u.eoa]} ELSE {}

(* Bug: on a chain without the sale the balances that were shown stay. *)
ReloadedKept(u) == u

Reloaded(u) == IF Balances(u) = {} THEN [u EXCEPT !.balances = None] ELSE u

Moded(u, mode) == [u EXCEPT !.mode = mode, !.pay = IF mode = "GASLESS" THEN "USDC" ELSE @]

-----------------------------------------------------------------------------
(* The form.  A recipient that is cleared is the AirAccount again.           *)
Edit ==
  /\ world.edits < MaxEdits
  /\ world' = [world EXCEPT !.edits = @ + 1]
  /\ \/ \E t \in Token \ {ui.token} : Entered([ui EXCEPT !.token = t])
     \/ \E a \in {0, 2} \ {ui.amount} : Entered([ui EXCEPT !.amount = a])
     \/ \E m \in {"GASLESS", "SELFPAY"} \ {ui.mode} : ui' = Moded(ui, m) /\ UNCHANGED calls
     \/ /\ ui.mode = "SELFPAY" /\ UNCHANGED calls
        /\ \E q \in {"USDC", "USDT"} \ {ui.pay} : ui' = [ui EXCEPT !.pay = q]
     \/ /\ ui.mode = "GASLESS" /\ UNCHANGED calls
        /\ \E r \in {world.active, "typo"} \ {ui.recipient} : ui' = [ui EXCEPT !.recipient = r]

Quoted(c) ==
  /\ c.kind = "quote"
  /\ ui' = [ui EXCEPT !.quote = [of |-> c.of, out |-> Out(c.of[2]), at |-> world.moves]]
  /\ calls' = calls \ {c} /\ UNCHANGED world

QuoteFailed(c) ==
  /\ c.kind = "quote"
  /\ ui' = [ui EXCEPT !.quote = None]
  /\ calls' = calls \ {c} /\ UNCHANGED world

BalancesShown(c) ==
  /\ c.kind = "balances"
  /\ ui' = [ui EXCEPT !.balances = c.of]
  /\ world' = [world EXCEPT !.late = ui.chain # Sale]
  /\ calls' = calls \ {c}

BalancesFailed(c) == c.kind = "balances" /\ calls' = calls \ {c} /\ UNCHANGED <<ui, world>>

-----------------------------------------------------------------------------
(* Network and wallet.  ensureChain asks when the wallet's chain is another; *)
(* connectWallet takes the account that is active then.                      *)
HandleSelectNetwork(id) ==
  /\ id # ui.chain /\ world.nets < MaxNets
  /\ LET u == [ui EXCEPT !.chain = id, !.quote = None]
     IN /\ ui' = Reloaded(u)
        /\ calls' = Quoting(u) \cup Balances(u)
                      \cup (IF ui.eoa # None THEN {[kind |-> "rebind", chain |-> id]} ELSE {})
  /\ world' = [world EXCEPT !.nets = @ + 1, !.late = FALSE]

Client(chain) == [account |-> world.active, chain |-> chain]

(* The address that is shown stays. *)
Rebound(c) ==
  /\ c.kind = "rebind"
  /\ ui' = [ui EXCEPT !.client = Client(c.chain)]
  /\ world' = [world EXCEPT !.chain = c.chain]
  /\ calls' = calls \ {c}

RebindFailed(c) == c.kind = "rebind" /\ calls' = calls \ {c} /\ UNCHANGED <<ui, world>>

HandleConnect ==
  /\ ui.eoa = None /\ ~ui.connecting
  /\ ui' = [ui EXCEPT !.connecting = TRUE]
  /\ calls' = calls \cup {[kind |-> "connect", chain |-> ui.chain]}
  /\ UNCHANGED world

Accepted(c) ==
  /\ c.kind = "connect"
  /\ calls' = (calls \ {c}) \cup {[kind |-> "ensure", client |-> Client(c.chain)]}
  /\ UNCHANGED <<ui, world>>

Connected(c) ==
  /\ c.kind = "ensure"
  /\ LET u == [ui EXCEPT !.eoa = c.client.account, !.client = c.client]
     IN /\ ui' = Reloaded(u)
        /\ calls' = (calls \ {c}) \cup Balances(u) \cup {[kind |-> "eth"]}
  /\ world' = [world EXCEPT !.chain = c.client.chain]

NotConnected(c) ==
  /\ c.kind \in {"connect", "ensure", "eth"}
  /\ ui' = [ui EXCEPT !.connecting = FALSE]
  /\ calls' = calls \ {c} /\ UNCHANGED world

(* A mode that was chosen meanwhile is overwritten. *)
ModeByBalance(c) ==
  /\ c.kind = "eth"
  /\ \E m \in {"GASLESS", "SELFPAY"} : ui' = [Moded(ui, m) EXCEPT !.connecting = FALSE]
  /\ calls' = calls \ {c} /\ UNCHANGED world

(* In the wallet itself; the page does not listen. *)
WalletChanged ==
  /\ world.nets < MaxNets
  /\ \/ \E a \in Account \ {world.active} :
          world' = [world EXCEPT !.active = a, !.nets = @ + 1, !.switched = TRUE]
     \/ \E c \in Chain \ {world.chain} : world' = [world EXCEPT !.chain = c, !.nets = @ + 1]
  /\ UNCHANGED <<ui, calls>>

-----------------------------------------------------------------------------
(* The purchase.                                                             *)
Buys == {c \in calls : c.kind = "buy"}
To == IF ui.mode = "GASLESS" THEN ui.recipient ELSE ui.eoa

(* Bug: a purchase that is under way does not turn the button off. *)
BuyableAlways == ui.eoa # None /\ ui.chain = Sale

Buyable == ui.eoa # None /\ ~ui.buying /\ ui.chain = Sale

HandleBuy ==
  /\ Buyable /\ ui.amount > 0 /\ To # "typo" /\ world.buys < MaxBuys
  /\ calls' = calls \cup {[kind |-> "buy", n |-> world.buys + 1, step |-> "chain", token |-> ui.token,
                           amount |-> ui.amount, mode |-> ui.mode, pay |-> ui.pay, to |-> To,
                           client |-> ui.client, eoa |-> ui.eoa, at |-> world.moves, read |-> 0, floor |-> 0]}
  /\ world' = [world EXCEPT !.buys = @ + 1, !.twice = @ \/ \E b \in Buys : b.step = "chain"]
  /\ UNCHANGED ui

At(b, step) == b.kind = "buy" /\ b.step = step
Goes(b, b2) == calls' = (calls \ {b}) \cup {b2}

ChainEnsured(b) ==
  /\ At(b, "chain")
  /\ ui' = [ui EXCEPT !.buying = TRUE, !.lastTx = 0]
  /\ world' = [world EXCEPT !.chain = Sale]
  /\ Goes(b, [b EXCEPT !.step = "quote"])

ChainRefused(b) == At(b, "chain") /\ calls' = calls \ {b} /\ UNCHANGED <<ui, world>>

(* Bug: the floor is of the quote that is shown. *)
FloorOfShown(b) ==
  IF ui.quote = None THEN [b EXCEPT !.step = "sign", !.read = world.moves]
  ELSE [b EXCEPT !.step = "sign", !.read = ui.quote.at, !.floor = (ui.quote.out * 98) \div 100]

(* The contract has no floor for points that are paid for by the wallet.     *)
Floored(b) ==
  [b EXCEPT !.step = "sign", !.read = world.moves,
            !.floor = IF b.mode = "SELFPAY" /\ b.token = "APNTS" THEN 0 ELSE (Out(b.amount) * 98) \div 100]

Requoted(b) ==
  /\ At(b, "quote") /\ Out(b.amount) > 0
  /\ Goes(b, Floored(b))
  /\ UNCHANGED <<ui, world>>

(* The quote fails or is nothing, the prompt is declined, the wallet is on    *)
(* another chain, the relay or the contract refuses.                          *)
BuyFailed(b) ==
  /\ At(b, "quote") \/ At(b, "sign")
  /\ ui' = [ui EXCEPT !.buying = FALSE]
  /\ calls' = calls \ {b} /\ UNCHANGED world

(* A transaction needs a client of the wallet's chain, a signature for the   *)
(* relay only the wallet.                                                    *)
Signs(b) == world.chain = Sale /\ (b.mode = "SELFPAY" => b.client.chain = Sale)

Submitted(b) ==
  /\ At(b, "sign") /\ Signs(b) /\ Out(b.amount) >= b.floor
  /\ ui' = [ui EXCEPT !.lastTx = b.n]
  /\ world' = [world EXCEPT !.orders = @ \cup {[at |-> b.at, read |-> b.read]}]
  /\ Goes(b, [b EXCEPT !.step = "refresh"])

Refreshed(b) ==
  /\ At(b, "refresh")
  /\ \/ /\ ui' = [ui EXCEPT !.buying = FALSE, !.balances = b.eoa]
        /\ world' = [world EXCEPT !.late = ui.chain # Sale]
     \/ ui' = [ui EXCEPT !.buying = FALSE] /\ UNCHANGED world
  /\ calls' = calls \ {b}

PriceMoves ==
  /\ world.moves < MaxMoves
  /\ \E q \in {1, 2, 3} \ {world.price} : world' = [world EXCEPT !.price = q, !.moves = @ + 1]
  /\ UNCHANGED <<ui, calls>>

Answers(c) ==
  \/ Quoted(c) \/ QuoteFailed(c) \/ BalancesShown(c) \/ BalancesFailed(c)
  \/ Rebound(c) \/ RebindFailed(c) \/ Accepted(c) \/ Connected(c) \/ NotConnected(c) \/ ModeByBalance(c)
  \/ ChainEnsured(c) \/ ChainRefused(c) \/ Requoted(c) \/ BuyFailed(c) \/ Submitted(c) \/ Refreshed(c)

(* A behaviour is followed until a second click was taken.                  *)
Next ==
  /\ ~world.twice
  /\ \/ Edit \/ HandleConnect \/ HandleBuy \/ WalletChanged \/ PriceMoves
     \/ \E id \in Chain : HandleSelectNetwork(id)
     \/ \E c \in calls : Answers(c)

Spec == Init /\ [][Next]_vars

-----------------------------------------------------------------------------
(* When no quote is under way the one that is shown is of the form as it is. *)
QuoteIsOfForm ==
  ui.quote # None /\ ~(\E c \in calls : c.kind = "quote") => ui.quote.of = Input(ui)

(* The floor of a purchase is of a price that was read after the click.      *)
FloorIsFresh == \A b \in world.orders : b.read >= b.at

(* Only a second click before the wallet has said its chain starts a second  *)
(* purchase while one is under way.                                          *)
OnePurchase == world.twice \/ \A b, c \in Buys : b = c

(* As long as the wallet's account was not changed the account that signs is *)
(* the one that is shown; a new network binds the client anew and not the    *)
(* address.                                                                  *)
SignerIsEoa == world.switched \/ ui.client = None \/ ui.client.account = ui.eoa

(* The balances that are shown are of the account that is connected, and     *)
(* where there is no sale none are shown - but for an answer that came since *)
(* that network was chosen (late): refreshBalances writes it wherever the    *)
(* page is by then, and it stays until the network or the account changes.   *)
BalancesOfSale ==
  /\ ui.balances \in {None, ui.eoa}
  /\ world.late \/ (ui.balances # None => ui.chain = Sale)
=============================================================================

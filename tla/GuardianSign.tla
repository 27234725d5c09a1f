---------------------------- MODULE GuardianSign ----------------------------
(* The page a guardian opens from the code of an account to be created       *)
(* (aastar-frontend/app/guardian-sign), and the key service it signs with    *)
(* (lib/kms-client): a key of an account, a key made on the spot, an         *)
(* injected wallet, or a passkey whose public key is returned.  The methods  *)
(* can be changed while one of them is at work.                              *)
EXTENDS Naturals, FiniteSets

CONSTANTS
  Address,   \* addresses of keys: of accounts, and of keys to be made
  Account,   \* the addresses there are accounts for
  Wallet,    \* the address of the injected wallet, outside Address
  None,
  MaxPolls,  \* bound: key status requests before the time is up
  MaxTries   \* bound: attempts

VARIABLES
  ui,    \* the page
  calls, \* the flow at work: one at most
  world  \* the key service: the keys made and whether they are derived

vars == <<ui, calls, world>>

Method == {"passkey", "register", "metamask", "p256"}
NoResult == [address |-> None, signer |-> None]

Init ==
  /\ ui = [method |-> "passkey", address |-> None, named |-> FALSE, loading |-> FALSE,
           result |-> NoResult, key |-> FALSE]
  /\ calls = {}
  /\ world = [made |-> {}, ready |-> Account, tries |-> 0]

(* A tab clears what the other methods typed, but not what is at work. *)
SelectMethod(m) ==
  /\ ui.result = NoResult
  /\ ui' = [ui EXCEPT !.method = m, !.address = IF m = "passkey" THEN @ ELSE None,
                      !.named = @ /\ m # "metamask"]
  /\ UNCHANGED <<calls, world>>

EditAddress(a) ==
  /\ ui.method = "passkey" /\ ~ui.loading /\ ui.result = NoResult
  /\ ui' = [ui EXCEPT !.address = a]
  /\ UNCHANGED <<calls, world>>

EditEmail ==
  /\ ui.method \in {"register", "p256"} /\ ~ui.loading /\ ~ui.named /\ ui.result = NoResult
  /\ ui' = [ui EXCEPT !.named = TRUE]
  /\ UNCHANGED <<calls, world>>

Begins == [passkey |-> "challenge", register |-> "make", metamask |-> "wallet", p256 |-> "provision"]

(* handleSign of the method that is selected. *)
HandleSign ==
  /\ ~ui.loading /\ ui.result = NoResult /\ world.tries < MaxTries
  /\ ui.method = "passkey" => ui.address # None
  /\ ui.method \in {"register", "p256"} => ui.named
  /\ ui.method = "p256" => ~ui.key
  /\ ui' = [ui EXCEPT !.loading = TRUE]
  /\ calls' = {[at |-> Begins[ui.method], of |-> ui.address, own |-> FALSE, polls |-> 0]}
  /\ world' = [world EXCEPT !.tries = @ + 1]

-----------------------------------------------------------------------------
Goto(c, at) == calls' = {[c EXCEPT !.at = at]} /\ UNCHANGED ui

(* completeRegistration: each attempt makes a key of its own. *)
Register(c) ==
  /\ c.at = "make"
  /\ \E a \in Address \ (Account \cup world.made) :
       /\ calls' = {[c EXCEPT !.at = "derive", !.of = a, !.own = TRUE]}
       /\ world' = [world EXCEPT !.made = @ \cup {a}]
  /\ UNCHANGED ui

Derive(a) ==
  /\ a \in world.made \ world.ready
  /\ world' = [world EXCEPT !.ready = @ \cup {a}]
  /\ UNCHANGED <<ui, calls>>

(* Bug: whichever address is there is taken, derived or not. *)
PollOnce(c) ==
  /\ c.at = "derive" /\ c.polls < MaxPolls
  /\ Goto(c, "challenge")
  /\ UNCHANGED world

(* pollUntilReady asks for the status until the key is ready... *)
PollUntilReady(c) ==
  /\ c.at = "derive" /\ c.polls < MaxPolls
  /\ IF c.of \in world.ready THEN Goto(c, "challenge")
     ELSE calls' = {[c EXCEPT !.polls = @ + 1]} /\ UNCHANGED ui
  /\ UNCHANGED world

(* beginAuthentication, the ceremony, signHashWithWebAuthn. *)
BeginAuthentication(c) ==
  /\ c.at = "challenge" /\ c.of \in world.ready
  /\ Goto(c, "sign") /\ UNCHANGED world

(* Bug: the address in the field is shown with the signature. *)
SignedAsShown(c) ==
  /\ c.at \in {"sign", "wallet"}
  /\ LET a == IF c.at = "sign" THEN c.of ELSE Wallet IN
       ui' = [ui EXCEPT !.loading = FALSE,
                        !.result = [address |-> IF c.at = "sign" THEN ui.address ELSE a, signer |-> a]]
  /\ calls' = {} /\ UNCHANGED world

(* The result shows the address the flow began with. *)
Signed(c) ==
  /\ c.at \in {"sign", "wallet"}
  /\ LET a == IF c.at = "sign" THEN c.of ELSE Wallet IN
       ui' = [ui EXCEPT !.loading = FALSE, !.result = [address |-> a, signer |-> a]]
  /\ calls' = {} /\ UNCHANGED world

Provisioned(c) ==
  /\ c.at = "provision"
  /\ ui' = [ui EXCEPT !.loading = FALSE, !.key = TRUE]
  /\ calls' = {} /\ UNCHANGED world

(* Cancelled, refused, ... or the time is up: the key that was made is not  *)
(* used again.                                                              *)
Fail(c) ==
  /\ ui' = [ui EXCEPT !.loading = FALSE]
  /\ calls' = {} /\ UNCHANGED world

Flow ==
  \E c \in calls : Register(c) \/ PollUntilReady(c) \/ BeginAuthentication(c) \/ Signed(c)
                   \/ Provisioned(c) \/ Fail(c)

Next ==
  \/ \E m \in Method : SelectMethod(m)
  \/ \E a \in Address : EditAddress(a) \/ Derive(a)
  \/ EditEmail \/ HandleSign
  \/ \E c \in calls :
       \/ Register(c) \/ PollUntilReady(c) \/ BeginAuthentication(c)
       \/ Signed(c) \/ Provisioned(c) \/ Fail(c)

-----------------------------------------------------------------------------
(* The address and the signature that are shown for the owner to paste are  *)
(* of one key, whichever method is selected and whatever is typed by the    *)
(* time the signature comes.                                                *)
ResultIsSigners == ui.result.address = ui.result.signer

(* A key made on the spot is asked to sign once it was derived, and not     *)
(* before (pollUntilReady between the registration and the signature).      *)
SignsWhenDerived ==
  \A c \in calls : c.own /\ c.at \in {"challenge", "sign"} => c.of \in world.ready

Busy == ui.loading
=============================================================================

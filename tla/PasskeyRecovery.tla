--------------------------- MODULE PasskeyRecovery ---------------------------
(* Recovery by a passkey guardian (PasskeyRecoveryCard, lib/p256-guardian,   *)
(* guardian.service): the challenge binds the nonce of the account and the   *)
(* new owner; the backend relays what the passkey signed and pays for it.    *)
EXTENDS Naturals, FiniteSets

CONSTANTS
  Owner,      \* addresses that may be entered as new owner
  None,
  MaxNonce,   \* bound: the account's recovery nonce
  MaxTries    \* bound: attempts

VARIABLES
  ui,    \* the card
  calls, \* the flow in flight: one at most
  world  \* the account contract

vars == <<ui, calls, world>>

Slots == 3

Init ==
  /\ \E o \in Owner : ui = [owner |-> o, loading |-> FALSE, proposed |-> FALSE]
  /\ calls = {}
  /\ \E keys \in 0..Slots : world = [keys |-> keys, nonce |-> 0, owners |-> {}, tries |-> 0, foreign |-> FALSE]

(* Bug: the fields can be edited while the passkey signs. *)
EditAnytime(o) ==
  /\ ~ui.proposed
  /\ ui' = [ui EXCEPT !.owner = o] /\ UNCHANGED <<calls, world>>

Edit(o) ==
  /\ ~ui.loading /\ ~ui.proposed
  /\ ui' = [ui EXCEPT !.owner = o] /\ UNCHANGED <<calls, world>>

HandlePropose ==
  /\ ~ui.loading /\ ~ui.proposed /\ world.tries < MaxTries
  /\ ui' = [ui EXCEPT !.loading = TRUE]
  /\ calls' = {[at |-> "prepare", owner |-> ui.owner, nonce |-> 0]}
  /\ world' = [world EXCEPT !.tries = @ + 1]

(* resolveP256GuardianSlot: the one slot that holds a key. *)
SlotResolved == world.keys = 1

(* Bug: the challenge is of the first nonce. *)
PrepareOfFirst(c) ==
  /\ c.at = "prepare" /\ SlotResolved
  /\ calls' = {[c EXCEPT !.at = "sign", !.nonce = 0]}
  /\ UNCHANGED <<ui, world>>

PrepareP256Recovery(c) ==
  /\ c.at = "prepare" /\ SlotResolved
  /\ calls' = {[c EXCEPT !.at = "sign", !.nonce = world.nonce]}
  /\ UNCHANGED <<ui, world>>

SignGuardianRecovery(c) ==
  /\ c.at = "sign"
  /\ calls' = {[c EXCEPT !.at = "relay"]}
  /\ UNCHANGED <<ui, world>>

(* The contract takes a signature over the nonce it is at, which it moves. *)
Accepts(c) == c.at = "relay" /\ c.nonce = world.nonce /\ world.nonce < MaxNonce

SubmitP256Recovery(c) ==
  /\ Accepts(c) /\ SlotResolved
  /\ world' = [world EXCEPT !.nonce = @ + 1, !.owners = @ \cup {c.owner}]
  /\ calls' = {[c EXCEPT !.at = "mined"]}
  /\ UNCHANGED ui

Proposed(c) ==
  /\ c.at = "mined"
  /\ ui' = [ui EXCEPT !.loading = FALSE, !.proposed = TRUE]
  /\ calls' = {} /\ UNCHANGED world

(* No slot or several, a cancelled prompt, a stale nonce, a lost answer. *)
Fail(c) ==
  /\ ui' = [ui EXCEPT !.loading = FALSE]
  /\ calls' = {} /\ UNCHANGED world

(* Another recovery of the account is proposed or cancelled. *)
Foreign ==
  /\ world.nonce < MaxNonce
  /\ world' = [world EXCEPT !.nonce = @ + 1, !.foreign = TRUE]
  /\ UNCHANGED <<ui, calls>>

Flow ==
  \E c \in calls : PrepareP256Recovery(c) \/ SignGuardianRecovery(c) \/ SubmitP256Recovery(c)
                   \/ Proposed(c) \/ Fail(c)

Next ==
  \/ \E o \in Owner : Edit(o)
  \/ HandlePropose \/ Foreign
  \/ \E c \in calls :
       \/ PrepareP256Recovery(c) \/ SignGuardianRecovery(c) \/ SubmitP256Recovery(c)
       \/ Proposed(c) \/ Fail(c)

-----------------------------------------------------------------------------
(* The owner the card shows as proposed was proposed on chain. *)
ShownIsProposed == ui.proposed => ui.owner \in world.owners

(* What the passkey signed the contract takes, also after an attempt whose  *)
(* answer was lost, unless someone else moved the nonce.                    *)
SignedIsAccepted ==
  \A c \in calls : c.at = "relay" /\ ~world.foreign => c.nonce = world.nonce

(* guardian.service: "our creation flow installs a single passkey guardian" *)
(* - it installs two (CreateAccountDialog), and the slot is then not        *)
(* resolved: no guardian of such an account is ever asked to sign.          *)
CreatedIsRecoverable == \A c \in calls : world.keys = 2 => c.at # "prepare" \/ SlotResolved

Busy == ui.loading
=============================================================================

------------------------------ MODULE SignIn --------------------------------
(* The login page and the registration page, in two tabs of one browser: a   *)
(* code by mail or a passkey, and for a user without one the set-up of a     *)
(* passkey and of the wallet the KMS keeps for it, which the backend is told *)
(* of last.  The session is stored before the set-up.                        *)
EXTENDS Naturals, FiniteSets

CONSTANTS
  Email, None,
  MaxSends, \* bound: codes that are sent
  MaxKeys,  \* bound: passkeys that are created
  MaxTries  \* bound: logins with a passkey

VARIABLES
  ui,    \* a page of each tab; edited: history
  calls, \* what the tabs wait for
  world  \* codes not used yet, mails, users by email, keys; both: history

vars == <<ui, calls, world>>

Tab == {"login", "register"}
Page == [mode |-> "otp", passkeyEmail |-> None, email |-> None, step |-> "email", loading |-> FALSE, edited |-> FALSE, done |-> None]

Init ==
  /\ ui = [login |-> [Page EXCEPT !.mode = "passkey"], register |-> Page]
  /\ calls = {}
  /\ world = [codes |-> {}, mailed |-> {}, user |-> [e \in Email |-> None], keys |-> 0, sends |-> 0, tries |-> 0, both |-> FALSE]

Waits(t, c) ==
  /\ ~ui[t].loading
  /\ ui' = [ui EXCEPT ![t].loading = TRUE]
  /\ calls' = calls \cup {[tab |-> t, email |-> c.email, at |-> c.at, key |-> 0]}

Goes(c, phase) == calls' = (calls \ {c}) \cup {[c EXCEPT !.at = phase]}

-----------------------------------------------------------------------------
(* The fields stay open while a request is under way, and so do the tabs of  *)
(* the login page.                                                           *)
Open(t) == ui[t].done = None

EditEmail(t, e) ==
  /\ Open(t) /\ ui[t].mode = "otp" /\ ui[t].step = "email"
  /\ ui' = [ui EXCEPT ![t].email = e, ![t].edited = ui[t].loading]
  /\ UNCHANGED <<calls, world>>

EditPasskeyEmail(e) ==
  /\ Open("login") /\ ui.login.mode = "passkey"
  /\ ui' = [ui EXCEPT !.login.passkeyEmail = e]
  /\ UNCHANGED <<calls, world>>

SetLoginMode(m) ==
  /\ Open("login") /\ ui.login.mode # m
  /\ ui' = [ui EXCEPT !.login.mode = m]
  /\ UNCHANGED <<calls, world>>

ChangeEmail(t) ==
  /\ Open(t) /\ ui[t].mode = "otp" /\ ui[t].step = "code" /\ ~ui[t].loading
  /\ ui' = [ui EXCEPT ![t].step = "email"]
  /\ UNCHANGED <<calls, world>>

-----------------------------------------------------------------------------
(* handleSendCode, from the field or once more.                              *)
SendCode(t) ==
  /\ Open(t) /\ ui[t].mode = "otp" /\ ui[t].email # None /\ world.sends < MaxSends
  /\ Waits(t, [email |-> ui[t].email, at |-> "send"])
  /\ world' = [world EXCEPT !.sends = @ + 1]

Mails(c) ==
  /\ c.at = "send"
  /\ world' = [world EXCEPT !.codes = @ \cup {c.email}, !.mailed = @ \cup {c.email}]
  /\ Goes(c, "mailed") /\ UNCHANGED ui

(* Bug: the code is asked for whatever the answer is. *)
AsksAnyway(c) == c.at \in {"send", "mailed"}

Asks(c) == c.at = "mailed"

CodeSent(c) ==
  /\ Asks(c)
  /\ ui' = [ui EXCEPT ![c.tab].step = "code", ![c.tab].loading = FALSE]
  /\ calls' = calls \ {c} /\ UNCHANGED world

Failed(c) ==
  /\ c.at \notin {"begin", "assert", "complete"}
  /\ ui' = [ui EXCEPT ![c.tab].loading = FALSE]
  /\ calls' = calls \ {c} /\ UNCHANGED world

-----------------------------------------------------------------------------
(* handleVerifyCode, handleVerify: with the last code that was mailed.       *)
VerifyCode(t) ==
  /\ Open(t) /\ ui[t].mode = "otp" /\ ui[t].step = "code"
  /\ Waits(t, [email |-> ui[t].email, at |-> "verify"])
  /\ UNCHANGED world

(* Bug: only who is new needs a wallet. *)
NeedsWalletIfNew(e) == world.user[e] = None

(* Bug: whoever comes with a code gets one. *)
NeedsWalletAlways(e) == TRUE

NeedsWallet(e) == world.user[e] = None \/ world.user[e].wallet = 0

SettingUp(e) == {c \in calls : c.email = e /\ c.at \in {"create", "derive", "link"}}

Verifies(c) ==
  /\ c.at = "verify" /\ c.email \in world.codes
  /\ world' = [world EXCEPT !.codes = @ \ {c.email},
                            !.user[c.email] = IF @ = None THEN [wallet |-> 0, credential |-> 0, passkey |-> 0] ELSE @,
                            !.both = @ \/ (NeedsWallet(c.email) /\ SettingUp(c.email) # {})]
  /\ Goes(c, IF NeedsWallet(c.email) THEN "create" ELSE "done") /\ UNCHANGED ui

-----------------------------------------------------------------------------
(* runPasskeyWalletSetup: a passkey of this device, and the key of it.       *)
StartRegistration(c) ==
  /\ c.at = "create" /\ world.keys < MaxKeys
  /\ world' = [world EXCEPT !.keys = @ + 1]
  /\ calls' = (calls \ {c}) \cup {[c EXCEPT !.at = "derive", !.key = world.keys + 1]} /\ UNCHANGED ui

(* pollUntilReady; a key that is late, or one poll that fails, fails it.     *)
Ready(c) == c.at = "derive" /\ Goes(c, "link") /\ UNCHANGED <<ui, world>>

(* The coordinates of the passkey are sent by the registration page only,    *)
(* where the authenticator gives them; without them the old ones stay.       *)
Passkeys(c) == {world.user[c.email].passkey} \cup (IF c.tab = "register" THEN {c.key} ELSE {})

LinkWallet(c) ==
  /\ c.at = "link"
  /\ \E k \in Passkeys(c) :
       world' = [world EXCEPT !.user[c.email] = [wallet |-> c.key, credential |-> c.key, passkey |-> k]]
  /\ Goes(c, "done") /\ UNCHANGED ui

Done(c) ==
  /\ c.at = "done"
  /\ ui' = [ui EXCEPT ![c.tab].done = c.email, ![c.tab].loading = FALSE]
  /\ calls' = calls \ {c} /\ UNCHANGED world

-----------------------------------------------------------------------------
(* handlePasskeyLogin                                                        *)
PasskeyLogin ==
  /\ Open("login") /\ ui.login.mode = "passkey" /\ ui.login.passkeyEmail # None /\ world.tries < MaxTries
  /\ Waits("login", [email |-> ui.login.passkeyEmail, at |-> "begin"])
  /\ world' = [world EXCEPT !.tries = @ + 1]

Begins(c) == c.at = "begin" /\ ~NeedsWallet(c.email) /\ Goes(c, "assert") /\ UNCHANGED <<ui, world>>

Asserts(c) == c.at = "assert" /\ Goes(c, "complete") /\ UNCHANGED <<ui, world>>

Completes(c) == c.at = "complete" /\ Goes(c, "done") /\ UNCHANGED <<ui, world>>

PasskeyFailed(c) ==
  /\ c.at \in {"begin", "assert", "complete"}
  /\ ui' = [ui EXCEPT !.login.loading = FALSE]
  /\ calls' = calls \ {c} /\ UNCHANGED world

OfferEmailCode(c) ==
  /\ c.at \in {"begin", "assert", "complete"}
  /\ ui' = [ui EXCEPT !.login.loading = FALSE, !.login.email = c.email, !.login.step = "email", !.login.mode = "otp"]
  /\ calls' = calls \ {c} /\ UNCHANGED world

(* A behaviour is followed until an address was edited while its code was    *)
(* sent, or two tabs met in a set-up.                                        *)
Next ==
  /\ ~world.both /\ \A t \in Tab : ~ui[t].edited
  /\ \/ PasskeyLogin
     \/ \E m \in {"passkey", "otp"} : SetLoginMode(m)
     \/ \E e \in Email : EditPasskeyEmail(e) \/ \E t \in Tab : EditEmail(t, e)
     \/ \E t \in Tab : ChangeEmail(t) \/ SendCode(t) \/ VerifyCode(t)
     \/ \E c \in calls :
          \/ Mails(c) \/ CodeSent(c) \/ Failed(c) \/ Verifies(c) \/ StartRegistration(c) \/ Ready(c) \/ LinkWallet(c)
          \/ Done(c) \/ Begins(c) \/ Asserts(c) \/ Completes(c) \/ PasskeyFailed(c) \/ OfferEmailCode(c)

Spec == Init /\ [][Next]_vars

-----------------------------------------------------------------------------
(* `Code sent to': a page that asks for a code names an address one was sent *)
(* to, unless the address was edited while it was sent.                      *)
CodeShownWasSent == \A t \in Tab : ui[t].step = "code" /\ ~ui[t].edited => ui[t].email \in world.mailed

(* Whoever a page signs in has a wallet, in whichever step earlier attempts  *)
(* ended.                                                                    *)
SignedInHasWallet == \A t \in Tab : ui[t].done # None => world.user[ui[t].done] # None /\ world.user[ui[t].done].wallet # 0

(* The passkey that is stored for the chain is the one that signs in, unless *)
(* two tabs set up a wallet for one user at once.                            *)
PasskeySignsIn ==
  ~world.both => \A e \in Email : world.user[e] # None =>
    world.user[e].wallet = world.user[e].credential /\ world.user[e].passkey \in {0, world.user[e].credential}
=============================================================================

---------------------------- MODULE RecoveryPage ----------------------------
(* The social recovery page (aastar-frontend/app/recovery), one wizard for   *)
(* the two guardians and whoever sets it up: they log in one after the other *)
(* (in another tab: a request takes the token there is), and each step is a  *)
(* call of the guardian service.  Calls may be served and their answer lost; *)
(* the guardians may also act from elsewhere.  What happens inside the       *)
(* service between its awaits is module Recovery.                            *)
EXTENDS Naturals, FiniteSets

CONSTANTS
  Owner,      \* the user whose account is recovered
  Guardian,   \* the two guardians named in the form
  Signer,     \* addresses that may be entered as new signer
  None,
  MaxForeign, \* bound: calls from elsewhere
  MaxLost,    \* bound: answers that are lost
  MaxLogins   \* bound: changes of the login

VARIABLES
  ui,    \* the wizard
  calls, \* its request in flight: one at most
  world  \* the service's rows for the account, the login

vars == <<ui, calls, world>>

User == {Owner} \cup Guardian
Quorum == 2
NoRequest == [new |-> None, supporters |-> {}]

Init ==
  /\ \E s \in Signer : ui = [step |-> "setup", loading |-> FALSE, new |-> s]
  /\ calls = {}
  /\ \E u \in User :
       world = [who |-> u, guardians |-> {}, request |-> NoRequest, unlocked |-> FALSE,
                signer |-> Owner, foreign |-> 0, lost |-> 0, logins |-> 0, repeated |-> FALSE]

Login(u) ==
  /\ world.who # u /\ world.logins < MaxLogins
  /\ world' = [world EXCEPT !.who = u, !.logins = @ + 1]
  /\ UNCHANGED <<ui, calls>>

(* Only the form of the first step is edited. *)
EditNew(s) ==
  /\ ui.step = "setup" /\ ~ui.loading /\ s # ui.new
  /\ ui' = [ui EXCEPT !.new = s]
  /\ UNCHANGED <<calls, world>>

(* A request of the user whose token is stored now. *)
Request(op, arg) == [op |-> op, arg |-> arg, who |-> world.who, answer |-> "none"]

Send(op, arg) ==
  /\ ~ui.loading
  /\ ui' = [ui EXCEPT !.loading = TRUE]
  /\ calls' = {Request(op, arg)}
  /\ UNCHANGED world

First == CHOOSE g \in Guardian : TRUE
Second == CHOOSE g \in Guardian : g # First

HandleSetup == ui.step = "setup" /\ Send("add", First)
HandleInitiate == ui.step = "initiate" /\ Send("initiate", ui.new)
HandleSupport == ui.step = "support" /\ Send("support", None)
HandleExecute == ui.step = "execute" /\ Send("execute", None)
HandleCancel == ui.step \in {"support", "execute"} /\ Send("cancel", None)

Back ==
  /\ \/ ui.step = "initiate" /\ ~ui.loading
     \/ ui.step = "done"
  /\ ui' = [ui EXCEPT !.step = "setup"]
  /\ UNCHANGED <<calls, world>>

-----------------------------------------------------------------------------
(* The service. *)
IsGuardian(u) == <<Owner, u>> \in world.guardians
Pending == world.request # NoRequest

(* addGuardian: to the account of the caller, whichever account is entered  *)
(* in the form.                                                              *)
AddGuardian(who, g) ==
  IF <<who, g>> \in world.guardians THEN [ok |-> FALSE, after |-> [world EXCEPT !.repeated = TRUE]]
  ELSE [ok |-> TRUE, after |-> [world EXCEPT !.guardians = @ \cup {<<who, g>>}]]

InitiateRecovery(who, s) ==
  [ok |-> IsGuardian(who) /\ ~Pending,
   after |-> [world EXCEPT !.request = [new |-> s, supporters |-> {who}], !.unlocked = FALSE]]

(* Bug: who supports again is counted again. *)
SupportAgain(who) ==
  [ok |-> IsGuardian(who) /\ Pending,
   after |-> [world EXCEPT !.request.supporters = @ \cup {who}]]

SupportRecovery(who) ==
  [ok |-> IsGuardian(who) /\ Pending /\ who \notin world.request.supporters,
   after |-> [world EXCEPT !.request.supporters = @ \cup {who}]]

ExecuteRecovery ==
  [ok |-> Pending /\ Cardinality(world.request.supporters) >= Quorum /\ world.unlocked,
   after |-> [world EXCEPT !.signer = world.request.new, !.request = NoRequest]]

CancelRecovery(who) ==
  [ok |-> Pending /\ (IsGuardian(who) \/ world.signer = who),
   after |-> [world EXCEPT !.request = NoRequest]]

Served(op, who, arg) ==
  CASE op = "add" -> AddGuardian(who, arg)
    [] op = "initiate" -> InitiateRecovery(who, arg)
    [] op = "support" -> SupportRecovery(who)
    [] op = "execute" -> ExecuteRecovery
    [] op = "cancel" -> CancelRecovery(who)

Serve(c) ==
  /\ c.answer = "none"
  /\ LET s == Served(c.op, c.who, c.arg) IN
       /\ calls' = {[c EXCEPT !.answer = IF s.ok THEN "ok" ELSE "error"]}
       /\ world' = IF s.ok THEN s.after ELSE [world EXCEPT !.repeated = s.after.repeated]
  /\ UNCHANGED ui

(* A guardian calls from another page. *)
Foreign(op, who, arg) ==
  /\ world.foreign < MaxForeign
  /\ LET s == Served(op, who, arg) IN
       s.ok /\ world' = [s.after EXCEPT !.foreign = @ + 1]
  /\ UNCHANGED <<ui, calls>>

Unlock ==
  /\ Pending /\ ~world.unlocked
  /\ world' = [world EXCEPT !.unlocked = TRUE]
  /\ UNCHANGED <<ui, calls>>

-----------------------------------------------------------------------------
Next1(op) ==
  CASE op = "add" -> "initiate" [] op = "initiate" -> "support" [] op = "support" -> "execute"
    [] op = "execute" -> "done" [] op = "cancel" -> "setup"

(* The second guardian is added with the token there is by then. *)
Answered(c) ==
  /\ c.answer = "ok"
  /\ IF c.op = "add" /\ c.arg = First
     THEN calls' = {Request("add", Second)} /\ UNCHANGED ui
     ELSE calls' = {} /\ ui' = [ui EXCEPT !.loading = FALSE, !.step = Next1(c.op)]
  /\ UNCHANGED world

Refused(c) ==
  /\ c.answer = "error"
  /\ calls' = {} /\ ui' = [ui EXCEPT !.loading = FALSE]
  /\ UNCHANGED world

(* The request or its answer is lost. *)
Lost(c) ==
  /\ world.lost < MaxLost
  /\ calls' = {} /\ ui' = [ui EXCEPT !.loading = FALSE]
  /\ world' = [world EXCEPT !.lost = @ + 1]

Flow == \E c \in calls : Serve(c) \/ Answered(c) \/ Refused(c)

Next ==
  \/ \E u \in User : Login(u)
  \/ \E s \in Signer : EditNew(s)
  \/ HandleSetup \/ HandleInitiate \/ HandleSupport \/ HandleExecute \/ HandleCancel \/ Back
  \/ \E c \in calls : Serve(c) \/ Answered(c) \/ Refused(c) \/ Lost(c)
  \/ \E who \in Guardian :
       \/ \E op \in {"support", "execute", "cancel"} : Foreign(op, who, None)
       \/ \E s \in Signer : Foreign("initiate", who, s)
  \/ Unlock

-----------------------------------------------------------------------------
Alone == world.foreign = 0

(* What the wizard says of a step is so, as long as nobody acts elsewhere:  *)
(* both guardians have approved the signer that is entered, and after the   *)
(* execution the signer of the account is that one - through every change   *)
(* of login, every refusal, and every lost answer but that of a cancel.     *)
StepIsTrue ==
  Alone /\ ~ui.loading =>
    /\ ui.step = "support" =>
         \/ world.request.new = ui.new
         \/ world.lost > 0 /\ ~Pending
    /\ ui.step = "execute" =>
         \/ world.request.new = ui.new /\ Cardinality(world.request.supporters) >= Quorum
         \/ world.lost > 0 /\ ~Pending
    /\ ui.step = "done" => world.signer = ui.new

(* recovery/page.tsx: "idempotent - duplicate calls are safe". *)
DuplicatesAreSafe == ~world.repeated

Busy == ui.loading
=============================================================================

----------------------------- MODULE Governance -----------------------------
(* The slash governance page (operator/manage/governance): the admin of the  *)
(* thresholds hands its role to a timelock, and changes then take a schedule,*)
(* a delay and an execution with the same salt, which the browser keeps.     *)
(* While the page reads the contract the panel is away and forgets its form. *)
EXTENDS Naturals, FiniteSets

CONSTANTS
  Op,       \* changes that may be entered: a level and its threshold
  Timelock, \* timelock contracts
  Operator, \* the connected wallet, outside Timelock
  None,
  MaxSends, \* bound: transactions
  MaxSalts  \* bound: salts

VARIABLES
  ui,    \* the page and its panel
  calls, \* requests, prompts, transactions in the mempool
  world  \* the contracts, localStorage

vars == <<ui, calls, world>>

Panel == [confirm |-> None, busy |-> FALSE, op |-> None, eta |-> "none"]

Init ==
  /\ ui = [loading |-> TRUE, shown |-> None, timelock |-> None, panel |-> Panel]
  /\ calls = {[kind |-> "load"]}
  /\ \E admin \in {Operator} \cup Timelock :
       world = [admin |-> admin, saved |-> None, salt |-> [o \in Op |-> 0], minted |-> 0,
                ops |-> {}, executed |-> {}, sends |-> 0, crossed |-> FALSE, unconfirmed |-> FALSE,
                again |-> FALSE]

Kind(k) == {c \in calls : c.kind = k}
Set(f) == ui' = [ui EXCEPT !.panel = f]
Away == ui.loading \/ ui.shown = None

(* fetchSlashGovernanceState; the panel comes back as it is when new. *)
Load ==
  /\ ~ui.loading
  /\ ui' = [ui EXCEPT !.loading = TRUE, !.panel = Panel]
  /\ calls' = {c \in calls : c.kind = "mempool"} \cup {[c EXCEPT !.alive = FALSE] : c \in Kind("send")}
                \cup {[kind |-> "load"]}
  /\ UNCHANGED world

Loaded(c) ==
  /\ c.kind = "load"
  /\ ui' = [ui EXCEPT !.loading = FALSE, !.shown = world.admin, !.timelock = world.saved]
  /\ calls' = calls \ {c} /\ UNCHANGED world

LoadFailed(c) ==
  /\ c.kind = "load"
  /\ ui' = [ui EXCEPT !.loading = FALSE, !.shown = None]
  /\ calls' = calls \ {c} /\ UNCHANGED world

IsBootstrap == ~Away /\ ui.timelock # None /\ ui.shown = Operator
IsGoverned == ~Away /\ ui.timelock # None /\ ui.shown = ui.timelock

-----------------------------------------------------------------------------
(* refreshEta, after every edit, when the timelock changes and every fifteen *)
(* seconds: the panel has become the given one, with the given timelock.     *)
Asks(on, o) == IF on # None /\ o # None THEN world.salt[o] # 0 ELSE FALSE
EtaCall(on, o) == [kind |-> "eta", op |-> o, on |-> on, salt |-> world.salt[o]]

(* Bug: without a salt the time that was shown stays. *)
RefreshEtaOnly(on, panel) ==
  /\ ui' = [ui EXCEPT !.timelock = on, !.panel = panel]
  /\ calls' = IF Asks(on, panel.op) THEN calls \cup {EtaCall(on, panel.op)} ELSE calls

RefreshEta(on, panel) ==
  /\ ui' = [ui EXCEPT !.timelock = on,
                      !.panel = IF Asks(on, panel.op) THEN panel ELSE [panel EXCEPT !.eta = "none"]]
  /\ calls' = IF Asks(on, panel.op) THEN calls \cup {EtaCall(on, panel.op)} ELSE calls

SavedTimelock(t) == [world EXCEPT !.saved = t]

SaveTimelock(t) ==
  /\ ~Away /\ ui.timelock = None
  /\ RefreshEta(t, ui.panel)
  /\ world' = SavedTimelock(t)

(* The confirmation that was begun stays. *)
ChangeTimelock ==
  /\ ~Away /\ ui.timelock # None
  /\ RefreshEta(None, ui.panel)
  /\ UNCHANGED world

Edit(o) ==
  /\ IsGoverned /\ o # ui.panel.op
  /\ RefreshEta(ui.timelock, [ui.panel EXCEPT !.op = o])
  /\ UNCHANGED world

Tick == ~Away /\ RefreshEta(ui.timelock, ui.panel) /\ UNCHANGED world

(* Not scheduled, waiting, or ready - which is also what done reads as. *)
Eta(c) ==
  LET there == {s \in world.ops : s.op = c.op /\ s.on = c.on /\ s.salt = c.salt} IN
    IF there = {} THEN "none" ELSE IF \E s \in there : s.at = "waiting" THEN "waiting" ELSE "ready"

EtaAnswered(c) ==
  /\ c.kind = "eta"
  /\ Set([ui.panel EXCEPT !.eta = Eta(c)])
  /\ calls' = calls \ {c}
  /\ world' = [world EXCEPT !.crossed = c.op # ui.panel.op \/ c.on # ui.timelock]

EtaFailed(c) ==
  /\ c.kind = "eta"
  /\ Set([ui.panel EXCEPT !.eta = "none"])
  /\ calls' = calls \ {c} /\ UNCHANGED world

-----------------------------------------------------------------------------
Send(what, op, salt) ==
  calls' = calls \cup {[kind |-> "send", what |-> what, op |-> op, on |-> ui.timelock, salt |-> salt, alive |-> TRUE]}

(* The first click asks to confirm, the second sends. *)
OnHandoff ==
  /\ IsBootstrap /\ ~ui.panel.busy
  /\ IF ui.panel.confirm = None
     THEN Set([ui.panel EXCEPT !.confirm = ui.timelock]) /\ UNCHANGED <<calls, world>>
     ELSE /\ world.sends < MaxSends
          /\ Set([ui.panel EXCEPT !.busy = TRUE])
          /\ Send("handoff", None, 0)
          /\ world' = [world EXCEPT !.sends = @ + 1, !.unconfirmed = @ \/ ui.panel.confirm # ui.timelock]

CancelConfirm ==
  /\ IsBootstrap /\ ui.panel.confirm # None /\ ~ui.panel.busy
  /\ Set([ui.panel EXCEPT !.confirm = None]) /\ UNCHANGED <<calls, world>>

(* Bug: each schedule has a salt of its own. *)
FreshSalt(o) == world.minted + 1

GetOrCreateSalt(o) == IF world.salt[o] # 0 THEN world.salt[o] ELSE world.minted + 1

OnSchedule ==
  /\ IsGoverned /\ ~ui.panel.busy /\ ui.panel.eta = "none" /\ ui.panel.op # None
  /\ world.sends < MaxSends /\ GetOrCreateSalt(ui.panel.op) <= MaxSalts
  /\ Set([ui.panel EXCEPT !.busy = TRUE])
  /\ LET s == GetOrCreateSalt(ui.panel.op) IN
       /\ Send("schedule", ui.panel.op, s)
       /\ world' = [world EXCEPT !.sends = @ + 1, !.salt[ui.panel.op] = s,
                                 !.minted = IF s > @ THEN s ELSE @]

OnExecute ==
  /\ IsGoverned /\ ~ui.panel.busy /\ ui.panel.eta = "ready" /\ Asks(ui.timelock, ui.panel.op)
  /\ world.sends < MaxSends
  /\ Set([ui.panel EXCEPT !.busy = TRUE])
  /\ Send("execute", ui.panel.op, world.salt[ui.panel.op])
  /\ world' = [world EXCEPT !.sends = @ + 1,
                            !.again = @ \/ \E c \in Kind("send") : c.what = "execute" /\ c.op = ui.panel.op]

(* The wallet has sent it: a schedule reads the time, an execution forgets  *)
(* the salt, it and a handoff read the contract again.                      *)
Sent(c) ==
  /\ c.kind = "send"
  /\ LET tx == [kind |-> "mempool", what |-> c.what, op |-> c.op, on |-> c.on, salt |-> c.salt] IN
       IF c.what = "schedule"
       THEN /\ calls' = (calls \ {c}) \cup {tx} \cup
                 IF c.alive /\ world.salt[c.op] # 0 THEN {[kind |-> "eta", op |-> c.op, on |-> c.on, salt |-> world.salt[c.op]]} ELSE {}
            /\ ui' = IF c.alive THEN [ui EXCEPT !.panel.busy = FALSE] ELSE ui
       ELSE /\ calls' = {d \in calls \ {c} : d.kind = "mempool"} \cup {tx, [kind |-> "load"]}
                          \cup {[d EXCEPT !.alive = FALSE] : d \in Kind("send") \ {c}}
            /\ ui' = [ui EXCEPT !.loading = TRUE, !.panel = Panel]
  /\ world' = IF c.what = "execute" THEN [world EXCEPT !.salt[c.op] = 0, !.executed = @ \cup {c.salt}] ELSE world

SendFailed(c) ==
  /\ c.kind = "send"
  /\ ui' = IF c.alive THEN [ui EXCEPT !.panel.busy = FALSE] ELSE ui
  /\ calls' = calls \ {c} /\ UNCHANGED world

-----------------------------------------------------------------------------
(* The contracts. *)
Same(s, c) == s.op = c.op /\ s.salt = c.salt /\ s.on = c.on

Mine(c) ==
  /\ c.kind = "mempool"
  /\ calls' = calls \ {c} /\ UNCHANGED ui
  /\ CASE c.what = "handoff" -> world' = [world EXCEPT !.admin = IF @ = Operator THEN c.on ELSE @]
       [] c.what = "schedule" ->
            world' = IF \E s \in world.ops : Same(s, c) THEN world
                     ELSE [world EXCEPT !.ops = @ \cup {[op |-> c.op, salt |-> c.salt, on |-> c.on, at |-> "waiting"]}]
       [] c.what = "execute" ->
            world' = [world EXCEPT !.ops = {IF Same(s, c) /\ s.at = "ready" THEN [s EXCEPT !.at = "done"] ELSE s : s \in @}]

Pass(s) ==
  /\ s.at = "waiting"
  /\ world' = [world EXCEPT !.ops = (@ \ {s}) \cup {[s EXCEPT !.at = "ready"]}]
  /\ UNCHANGED <<ui, calls>>

Next ==
  \/ Load \/ ChangeTimelock \/ Tick \/ OnHandoff \/ CancelConfirm \/ OnSchedule \/ OnExecute
  \/ \E t \in Timelock : SaveTimelock(t)
  \/ \E o \in Op \cup {None} : Edit(o)
  \/ \E c \in calls :
       \/ Loaded(c) \/ LoadFailed(c) \/ EtaAnswered(c) \/ EtaFailed(c)
       \/ Sent(c) \/ SendFailed(c) \/ Mine(c)
  \/ \E s \in world.ops : Pass(s)

-----------------------------------------------------------------------------
(* A change that waits in the timelock can be executed from this browser:   *)
(* its salt is kept over every retry of the schedule, every edit and every  *)
(* reload, until its execution was sent (getOrCreateSalt, clearSalt).  Not  *)
(* so when it was executed again while the wallet still asked about an      *)
(* earlier execution of the same change: what is sent last clears the salt, *)
(* which may be of a later schedule by then.                                *)
SaltOutlives ==
  world.again \/ \A s \in world.ops : s.salt \notin world.executed => world.salt[s.op] = s.salt

(* What the panel offers to execute waits in a timelock, its delay is over, *)
(* it was not executed, and the browser has its salt.  At rest it is the    *)
(* change that is entered, in the timelock that is named, unless the answer *)
(* that came last was about another change or timelock (crossed): refreshEta*)
(* writes it whatever was entered since, until the next tick.               *)
ReadyIsReady ==
  IsGoverned /\ ui.panel.eta = "ready" =>
    \E s \in world.ops :
      /\ s.at = "ready" /\ s.salt = world.salt[s.op]
      /\ Kind("eta") = {} /\ ~world.crossed => s.op = ui.panel.op /\ s.on = ui.timelock

(* WritePanel.tsx: "hand it to a TimelockController in one tx (two-click    *)
(* confirm - this moves control)": both clicks are for the same timelock.   *)
HandoffConfirmed == ~world.unconfirmed
=============================================================================

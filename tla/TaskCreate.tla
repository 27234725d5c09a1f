----------------------------- MODULE TaskCreate -----------------------------
(* Posting a task (aastar-frontend/app/tasks/create, TaskContext): the     *)
(* escrow is allowed to pull the reward unless it may already, then the    *)
(* task is created and its id is read from the receipt.  Both operations   *)
(* go through cosSend, which may give up on one that still lands.          *)
EXTENDS Naturals, FiniteSets

CONSTANTS
  Reward,    \* the rewards the user enters, positive
  MaxOps,    \* bound: operations sent
  MaxUnsure  \* bound: operations whose outcome the page does not learn

VARIABLES
  ui,    \* the form and the await handleSubmit is at
  calls, \* operations on their way to the chain
  world  \* the escrow's allowance, the tasks it holds

vars == <<ui, calls, world>>

Init ==
  /\ ui = [reward |-> 0, step |-> "form", sends |-> 0, told |-> 0]
  /\ calls = {}
  /\ world = [allowance |-> 0, tasks |-> 0, sent |-> 0, unsure |-> 0]

(* The fields stay open while the task is being posted. *)
EditReward(r) ==
  /\ ui' = [ui EXCEPT !.reward = r]
  /\ UNCHANGED <<calls, world>>

Offered == ui.reward # 0 /\ ui.step = "form"

(* Bug: a second click is not kept out. *)
HandleSubmitAgain ==
  /\ ui.reward # 0 /\ world.sent < MaxOps
  /\ ui' = [ui EXCEPT !.step = "allowance", !.sends = ui.reward]
  /\ UNCHANGED <<calls, world>>

(* handleSubmit works on the form of its click. *)
HandleSubmit ==
  /\ Offered /\ world.sent + 1 < MaxOps
  /\ ui' = [ui EXCEPT !.step = "allowance", !.sends = ui.reward]
  /\ UNCHANGED <<calls, world>>

Operation(kind) ==
  /\ world.sent < MaxOps
  /\ world' = [world EXCEPT !.sent = @ + 1]
  /\ calls' = calls \cup {[n |-> world'.sent, kind |-> kind, amount |-> ui.sends, awaited |-> TRUE]}
  /\ ui' = [ui EXCEPT !.step = kind]

(* Bug: any allowance is taken for enough. *)
SomeAllowance == world.allowance > 0
Allowed == world.allowance >= ui.sends

CheckAllowance ==
  /\ ui.step = "allowance"
  /\ IF Allowed THEN Operation("create") ELSE Operation("approve")

(* approveToken returned. *)
Approved ==
  /\ ui.step = "approved"
  /\ Operation("create")

-----------------------------------------------------------------------------
(* The chain: an approval replaces the allowance, createTask pulls. *)
Mined(c) ==
  IF c.kind = "approve" THEN world' = [world EXCEPT !.allowance = c.amount]
  ELSE /\ world.allowance >= c.amount
       /\ world' = [world EXCEPT !.allowance = @ - c.amount, !.tasks = @ + 1]

Returned(c) == ui' = [ui EXCEPT !.step = IF c.kind = "approve" THEN "approved" ELSE "receipt"]

Land(c) ==
  /\ Mined(c)
  /\ IF c.awaited THEN Returned(c) ELSE UNCHANGED ui
  /\ calls' = calls \ {c}

(* Bug: the button stays off after a failure. *)
FailedSilently == UNCHANGED ui

Failed == ui' = [ui EXCEPT !.step = "form"]

(* The escrow may not pull the reward: cosSend reports it, or returns the  *)
(* hash, and then the receipt has no TaskCreated.                          *)
Revert(c) ==
  /\ c.kind = "create" /\ world.allowance < c.amount
  /\ IF c.awaited THEN Failed ELSE UNCHANGED ui
  /\ calls' = calls \ {c} /\ UNCHANGED world

(* The prompt was cancelled, nothing was sent. *)
Drop(c) ==
  /\ c.awaited /\ Failed
  /\ calls' = calls \ {c} /\ UNCHANGED world

GiveUp(c) ==
  /\ c.awaited /\ world.unsure < MaxUnsure
  /\ Failed
  /\ world' = [world EXCEPT !.unsure = @ + 1]
  /\ calls' = (calls \ {c}) \cup {[c EXCEPT !.awaited = FALSE]}

(* The receipt names the task, and the page goes there ... *)
ReadReceipt ==
  /\ ui.step = "receipt"
  /\ ui' = [ui EXCEPT !.step = "form", !.reward = 0, !.told = @ + 1]
  /\ UNCHANGED <<calls, world>>

(* ... or it does not come, and the form is there to be sent again. *)
NoReceipt ==
  /\ ui.step = "receipt" /\ world.unsure < MaxUnsure
  /\ Failed
  /\ world' = [world EXCEPT !.unsure = @ + 1]
  /\ UNCHANGED calls

(* A read of the allowance failed. *)
NoAllowance ==
  /\ ui.step = "allowance" /\ Failed
  /\ UNCHANGED <<calls, world>>

Flow ==
  \/ CheckAllowance \/ Approved \/ ReadReceipt \/ NoAllowance
  \/ \E c \in calls : c.awaited /\ (Land(c) \/ Revert(c) \/ Drop(c))

Next ==
  \/ \E r \in Reward : EditReward(r)
  \/ HandleSubmit \/ CheckAllowance \/ Approved \/ ReadReceipt \/ NoReceipt \/ NoAllowance
  \/ \E c \in calls : Land(c) \/ Revert(c) \/ Drop(c) \/ GiveUp(c)

-----------------------------------------------------------------------------
(* When the task is sent the escrow may pull its reward: nothing but an    *)
(* operation the page lost sight of can have changed the allowance.        *)
CreateFunded ==
  world.unsure = 0 =>
    \A c \in calls : c.kind = "create" => world.allowance >= c.amount

(* A click posts one task: there are no more tasks than the user was told, *)
(* but for the outcomes the page did not learn.                            *)
PostedOnce ==
  world.tasks =< ui.told + world.unsure + (IF ui.step = "receipt" THEN 1 ELSE 0)

(* The button is disabled; MCLiveness states that this ends. *)
Busy == ui.step # "form"
=============================================================================

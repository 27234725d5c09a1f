------------------------------ MODULE Transfer ------------------------------
(***************************************************************************)
(* The send page (aastar-frontend/app/transfer) with the transfer service  *)
(* behind it (aastar/src/transfer).  One transfer goes through awaits:     *)
(* judge the tier, prepare, passkey, guardian, submit, and, when a DVT     *)
(* node withholds its signature, confirm and submit again.  Then its       *)
(* status is polled, and the backend records the recipient.                *)
(*                                                                         *)
(* An amount stands for the tier it falls in.  The form, with what it      *)
(* knows of tier and balance, is TransferForm.                             *)
(***************************************************************************)
EXTENDS Naturals, Sequences

CONSTANTS
  Amount,       \* the tiers of the amounts the user enters
  MaxTransfers, \* bound: handles prepared
  MaxNodes      \* bound: DVT nodes that may withhold one operation

VARIABLES
  ui,    \* the page's state and refs, and the await executeTransfer is at
  calls, \* the transfers with a status poll in flight
  world  \* the SDK's handles and their operations, the address book

vars == <<ui, calls, world>>

Id == 1..MaxTransfers
NoStatus == [id |-> 0, st |-> "none"]
NoFlow == [step |-> "idle", id |-> 0, amount |-> 0, webauthn |-> FALSE, hasty |-> FALSE]
Terminal == {"completed", "failed"}

Init ==
  /\ ui = [flow |-> NoFlow, result |-> 0, status |-> NoStatus, polling |-> 0,
           late |-> {}, mounted |-> TRUE]
  /\ calls = {}
  /\ world = [ops |-> <<>>, recording |-> {}, book |-> [t \in Id |-> 0]]

-----------------------------------------------------------------------------
(* executeTransfer works on the form of the click. *)

(* Bug: what the last transfer showed stays. *)
StartedOver(flow) == [ui EXCEPT !.flow = flow, !.polling = 0, !.result = 0]
Started(flow) ==
  [ui EXCEPT !.flow = flow, !.polling = 0, !.result = 0, !.status = NoStatus,
             !.late = calls]

(* resolution is what the form has judged, 0 for nothing yet; it is of     *)
(* another amount only while the judgement of this one is loading.         *)
Send(amount, resolution) ==
  /\ ui.mounted /\ ui.flow.step = "idle"
  /\ Len(world.ops) < MaxTransfers
  /\ ui' = Started([step |-> IF resolution = 0 THEN "resolve" ELSE "prepare",
                    id |-> 0, amount |-> amount, webauthn |-> resolution >= 2,
                    hasty |-> resolution \notin {0, amount}])
  /\ UNCHANGED <<calls, world>>

Step(s) == ui.flow.step = s
GoTo(s) == ui' = [ui EXCEPT !.flow.step = s]

(* Bug: a cancelled passkey prompt returns before the button is freed. *)
StuckAtCeremony == IF Step("passkey") THEN [ui EXCEPT !.flow.step = "stuck"]
                   ELSE [ui EXCEPT !.flow = NoFlow]
Freed == [ui EXCEPT !.flow = NoFlow]

(* Any await may throw; the handler says so and frees the button. *)
Fails ==
  /\ ui.flow.step \in {"prepare", "passkey", "guardian", "submit", "confirm", "resubmit"}
  /\ ui' = Freed
  /\ UNCHANGED <<calls, world>>

(* Bug: an unsettled judgement is taken for Tier 1. *)
PathUnresolved == FALSE
PathResolved == ui.flow.amount >= 2

(* No resolution has settled: judge here; a failure means Tier 1. *)
Resolve ==
  /\ Step("resolve")
  /\ \/ ui' = [ui EXCEPT !.flow.step = "prepare", !.flow.webauthn = PathResolved]
     \/ ui' = [ui EXCEPT !.flow.step = "prepare", !.flow.hasty = TRUE]
  /\ UNCHANGED <<calls, world>>

(* The SDK makes a handle, and refuses the passkey path for Tier 1. *)
Prepare ==
  /\ Step("prepare")
  /\ ~(ui.flow.webauthn /\ ui.flow.amount = 1)
  /\ Len(world.ops) < MaxTransfers
  /\ world' = [world EXCEPT !.ops = Append(@,
       [tier |-> ui.flow.amount, webauthn |-> ui.flow.webauthn, hasty |-> ui.flow.hasty,
        cosigned |-> FALSE, st |-> "prepared", withheld |-> 0, released |-> 0])]
  /\ ui' = [ui EXCEPT !.flow.step = "passkey", !.flow.id = Len(world.ops) + 1]
  /\ UNCHANGED calls

Passkey ==
  /\ Step("passkey")
  /\ GoTo(IF ui.flow.amount = 3 THEN "guardian" ELSE "submit")
  /\ UNCHANGED <<calls, world>>

Guardian ==
  /\ Step("guardian")
  /\ world' = [world EXCEPT !.ops[ui.flow.id].cosigned = TRUE]
  /\ GoTo("submit")
  /\ UNCHANGED calls

-----------------------------------------------------------------------------
(* submitPreparedTransfer: from tier 2 on the SDK asks the DVT nodes for   *)
(* their signatures.  One of them withholds its own until the owner        *)
(* confirms, or the operation goes to the bundler, which uses the handle   *)
(* up; the answer may be lost on its way back.                             *)

Withhold(t) ==
  /\ world.ops[t].tier >= 2 /\ world.ops[t].withheld < MaxNodes
  /\ world.ops[t].withheld = world.ops[t].released
  /\ world' = [world EXCEPT !.ops[t].withheld = @ + 1]

(* The node that withheld and was not confirmed still does. *)
StillWithheld(t) == world.ops[t].withheld > world.ops[t].released /\ UNCHANGED world

(* Bug: the recipient is recorded as soon as a transfer is submitted. *)
RecordedAtOnce(t) ==
  [world EXCEPT !.ops[t].st = "sent", !.book[t] = @ + 1, !.recording = @ \cup {t}]
Accepted(t) == [world EXCEPT !.ops[t].st = "sent", !.recording = @ \cup {t}]

Accept(t) ==
  /\ world.ops[t].st = "prepared"
  /\ world.ops[t].withheld = world.ops[t].released
  /\ world' = Accepted(t)

Submit ==
  LET t == ui.flow.id IN
  /\ Step("submit")
  /\ \/ (Withhold(t) \/ StillWithheld(t)) /\ GoTo("confirm")
     \/ Accept(t) /\ (GoTo("sent") \/ ui' = Freed)
  /\ UNCHANGED calls

(* Bug: a rejected confirmation goes on. *)
ReleasedOrNot(t) == {world, [world EXCEPT !.ops[t].released = @ + 1]}
Released(t) == {[world EXCEPT !.ops[t].released = @ + 1]}

(* runDvtConfirmation: the node has accepted the passkey assertion. *)
Confirm ==
  /\ Step("confirm")
  /\ world' \in Released(ui.flow.id)
  /\ GoTo("resubmit")
  /\ UNCHANGED calls

(* The second answer is taken as it comes: also one that says another node *)
(* withholds.                                                              *)
Resubmit ==
  LET t == ui.flow.id IN
  /\ Step("resubmit")
  /\ \/ (Withhold(t) \/ StillWithheld(t)) /\ GoTo("sent")
     \/ Accept(t) /\ (GoTo("sent") \/ ui' = Freed)
  /\ UNCHANGED calls

(* setTransferResult, startStatusPolling. *)
Finish ==
  LET t == ui.flow.id IN
  /\ Step("sent")
  /\ ui' = [ui EXCEPT !.flow = NoFlow, !.result = t, !.polling = t]
  /\ calls' = calls \cup {t}
  /\ UNCHANGED world

-----------------------------------------------------------------------------
(* The interval calls checkTransferStatus every two seconds. *)
Poll ==
  /\ ui.polling # 0 /\ ui.polling \notin calls
  /\ calls' = calls \cup {ui.polling}
  /\ UNCHANGED <<ui, world>>

Reported(t) ==
  CASE world.ops[t].st = "mined" -> "completed"
    [] world.ops[t].st = "failed" -> "failed"
    [] OTHER -> "pending"

(* Bug: the interval goes on after the transfer is over. *)
ShownOnly(t) == [ui EXCEPT !.status = [id |-> t, st |-> Reported(t)]]

(* Whatever is polled by now, the answer is shown, and a final one stops   *)
(* the polling.                                                            *)
Shown(t) ==
  [ui EXCEPT !.status = [id |-> t, st |-> Reported(t)],
             !.polling = IF Reported(t) \in Terminal THEN 0 ELSE @]

StatusAnswered(t) ==
  /\ t \in calls
  /\ world.ops[t].st # "prepared"
  /\ ui' = Shown(t)
  /\ calls' = calls \ {t}
  /\ UNCHANGED world

(* An error is only logged; a transfer that was not sent is not found. *)
StatusLost(t) ==
  /\ t \in calls
  /\ calls' = calls \ {t}
  /\ UNCHANGED <<ui, world>>

(* The user goes to another page; executeTransfer goes on. *)
Leave ==
  /\ ui.mounted
  /\ ui' = [ui EXCEPT !.mounted = FALSE, !.polling = 0]
  /\ UNCHANGED <<calls, world>>

-----------------------------------------------------------------------------
(* The bundler's operation is mined, or fails. *)
Mine(t) ==
  /\ t \in 1..Len(world.ops) /\ world.ops[t].st = "sent"
  /\ \E st \in {"mined", "failed"} : world' = [world EXCEPT !.ops[t].st = st]
  /\ UNCHANGED <<ui, calls>>

(* recordAddressBookEntry, five seconds later: only with a transaction. *)
Record(t) ==
  /\ t \in world.recording
  /\ world' = [world EXCEPT !.recording = @ \ {t},
                            !.book[t] = IF world.ops[t].st = "mined" THEN @ + 1 ELSE @]
  /\ UNCHANGED <<ui, calls>>

Next ==
  \/ \E amount \in Amount, resolution \in Amount \cup {0} : Send(amount, resolution)
  \/ Fails \/ Resolve \/ Prepare \/ Passkey \/ Guardian
  \/ Submit \/ Confirm \/ Resubmit \/ Finish
  \/ Poll \/ Leave
  \/ \E t \in calls : StatusAnswered(t) \/ StatusLost(t)
  \/ \E t \in Id : Mine(t) \/ Record(t)
(* The steps of executeTransfer. *)
Flow ==
  Fails \/ Resolve \/ Prepare \/ Passkey \/ Guardian \/ Submit \/ Confirm \/ Resubmit \/ Finish

-----------------------------------------------------------------------------
Sent(t) == t \in 1..Len(world.ops) /\ world.ops[t].st # "prepared"

(* The status on the page is that of the transfer on the page, or of an    *)
(* earlier one whose poll was on its way when this one was started: that   *)
(* answer is shown whenever it comes (checkTransferStatus).  No other      *)
(* transfer is polled.                                                     *)
StatusIsOwn ==
  ui.result # 0 /\ ui.status # NoStatus => ui.status.id \in ui.late \cup {ui.result}

(* What the page reports as submitted was sent, unless a second DVT node   *)
(* withheld its signature from the resubmission (executeTransfer 552-570). *)
ShownWasSent ==
  ui.result # 0 =>
    LET op == world.ops[ui.result] IN
    op.st # "prepared" \/ (op.released > 0 /\ op.withheld > op.released)

(* The signing path is that of the tier: the passkey over the hash exactly *)
(* for tiers 2 and 3, unless the button was pressed while the judgement of *)
(* the amount was loading, or the judgement failed.                        *)
PathAsJudged ==
  \A t \in 1..Len(world.ops) :
    LET op == world.ops[t] IN op.hasty \/ op.webauthn = (op.tier >= 2)

(* The address book counts a transfer once, and only when it was mined,    *)
(* however often it was submitted.                                         *)
BookCountsMined ==
  \A t \in Id : world.book[t] = 0 \/ (world.book[t] = 1 /\ world.ops[t].st = "mined")

(* The send button is disabled, and a transfer that was sent is polled;    *)
(* MCLiveness states that both end.                                        *)
Sending == ~Step("idle")
Polled(t) == ui.polling = t /\ Sent(t)
=============================================================================

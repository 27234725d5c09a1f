------------------------------ MODULE TaskPage ------------------------------
(***************************************************************************)
(* The page of one task (aastar-frontend/app/tasks/[taskId]) open in the   *)
(* browsers of its publisher and of others, over TaskContext, which turns  *)
(* every button into a sponsored operation (cosSend) to the escrow         *)
(* contract.  A page acts on the task it read last.                        *)
(*                                                                         *)
(* The contract is the environment: Accepts and Effect are what the pages  *)
(* take it to do.                                                          *)
(***************************************************************************)
EXTENDS Naturals

CONSTANTS
  Publisher, \* the community account that posted the task
  Worker,    \* the other accounts
  NoOne,
  MaxLost    \* bound: operations that land after their sender gave up

VARIABLES
  ui,    \* each user's page
  calls, \* operations on their way to the contract
  world  \* the task, what the publisher lets the escrow pull, the jury

vars == <<ui, calls, world>>

User == Worker \cup {Publisher}
Operations == {"acceptTask", "submitWork", "approveWork", "finalizeTask", "cancelTask",
            "approveStake", "challengeWork", "linkJuryValidation"}
NotFound == [status |-> "NotFound", taskor |-> NoOne, expired |-> FALSE,
             window |-> "none", version |-> 0]
Idle == [step |-> "idle", op |-> "none"]

Init ==
  /\ world = [task |-> [status |-> "Open", taskor |-> NoOne, expired |-> FALSE,
                        window |-> "none", version |-> 1],
              allowance |-> FALSE, verdict |-> FALSE, lost |-> 0]
  /\ ui = [u \in User |-> [seen |-> NotFound, act |-> Idle, own |-> 0]]
  /\ calls = {}

-----------------------------------------------------------------------------
(* The escrow contract. *)

Accepts(u, op) ==
  LET t == world.task IN
  CASE op = "acceptTask" -> t.status = "Open" /\ u # Publisher /\ ~t.expired
    [] op = "submitWork" -> t.status = "Accepted" /\ u = t.taskor
    [] op = "approveWork" -> t.status = "Submitted" /\ u = Publisher
    [] op = "finalizeTask" -> t.status = "Submitted" /\ t.window = "over"
    [] op = "cancelTask" -> t.status = "Open" /\ u = Publisher
    [] op = "approveStake" -> TRUE
    [] op = "challengeWork" ->
         t.status = "Submitted" /\ t.window = "open" /\ u = Publisher /\ world.allowance
    [] op = "linkJuryValidation" -> t.status = "Challenged" /\ world.verdict

Become(status) ==
  [world EXCEPT !.task.status = status, !.task.version = @ + 1]

Effect(u, op) ==
  CASE op = "acceptTask" ->
         {[world EXCEPT !.task.status = "Accepted", !.task.taskor = u, !.task.version = @ + 1]}
    [] op = "submitWork" ->
         {[world EXCEPT !.task.status = "Submitted", !.task.window = "open",
                        !.task.version = @ + 1]}
    [] op \in {"approveWork", "finalizeTask"} -> {Become("Finalized")}
    [] op = "cancelTask" -> {Become("Refunded")}
    [] op = "approveStake" -> {[world EXCEPT !.allowance = TRUE]}
    [] op = "challengeWork" -> {[Become("Challenged") EXCEPT !.allowance = FALSE]}
    [] op = "linkJuryValidation" -> {Become("Finalized"), Become("Refunded")}

(* Time passes: the deadline, the challenge window, the jury's verdict. *)
Pass ==
  /\ \/ ~world.task.expired /\ world' = [world EXCEPT !.task.expired = TRUE]
     \/ world.task.window = "open" /\ world' = [world EXCEPT !.task.window = "over"]
     \/ world.task.status = "Challenged" /\ ~world.verdict
        /\ world' = [world EXCEPT !.verdict = TRUE]
  /\ UNCHANGED <<ui, calls>>

-----------------------------------------------------------------------------
(* parseTask: what was read is kept as of that moment, also whether the    *)
(* window was open; a failed read is a task that is not found.             *)
Read == {world.task, NotFound}

Loads(u) ==
  /\ ui[u].seen = NotFound /\ ui[u].act = Idle
  /\ \E t \in Read : ui' = [ui EXCEPT ![u].seen = t]
  /\ UNCHANGED <<calls, world>>

(* The buttons of the page, for user u on a page that shows task t. *)

(* Bug: the publisher is offered to claim the task. *)
ClaimableByAll(u, t) == t.status = "Open" /\ ~t.expired
Claimable(u, t) == t.status = "Open" /\ u # Publisher /\ ~t.expired
Submittable(u, t) == t.status = "Accepted" /\ u = t.taskor
Approvable(u, t) == t.status = "Submitted" /\ u = Publisher
Challengeable(u, t) == t.status = "Submitted" /\ u = Publisher /\ t.window = "open"
Finalizable(u, t) == t.status = "Submitted" /\ t.window = "over"
Cancellable(u, t) == t.status = "Open" /\ u = Publisher
Resolvable(u, t) == t.status = "Challenged"

Offered(u) ==
  LET t == ui[u].seen IN
  {op \in Operations :
     \/ op = "acceptTask" /\ Claimable(u, t)
     \/ op = "submitWork" /\ Submittable(u, t)
     \/ op = "approveWork" /\ Approvable(u, t)
     \/ op = "challengeWork" /\ Challengeable(u, t)
     \/ op = "finalizeTask" /\ Finalizable(u, t)
     \/ op = "cancelTask" /\ Cancellable(u, t)
     \/ op = "linkJuryValidation" /\ Resolvable(u, t)}

Sent(u, op) == calls' = calls \cup {[user |-> u, op |-> op, awaited |-> TRUE]}

(* runAction *)
Click(u, op) ==
  /\ ui[u].act = Idle /\ op \in Offered(u) \ {"challengeWork"}
  /\ ui' = [ui EXCEPT ![u].act = [step |-> "send", op |-> op]]
  /\ Sent(u, op)
  /\ UNCHANGED world

(* handleChallenge looks at the allowance first. *)
Challenge(u) ==
  /\ ui[u].act = Idle /\ "challengeWork" \in Offered(u)
  /\ ui' = [ui EXCEPT ![u].act = [step |-> "allowance", op |-> "challengeWork"]]
  /\ UNCHANGED <<calls, world>>

(* Bug: the page is not read again. *)
DoneUnread(u, own) == [ui EXCEPT ![u].act = Idle, ![u].own = own]
Done(u, own) == [ui EXCEPT ![u].act = [step |-> "refresh", op |-> @.op], ![u].own = own]

(* The send of an awaited operation returned; after the approval the       *)
(* challenge is sent.                                                      *)
Answered(c, own) ==
  LET u == c.user IN
  IF c.op = "approveStake"
  THEN /\ ui' = [ui EXCEPT ![u].act = [step |-> "send", op |-> "challengeWork"]]
       /\ calls' = (calls \ {c})
            \cup {[user |-> u, op |-> "challengeWork", awaited |-> TRUE]}
  ELSE /\ ui' = Done(u, own)
       /\ calls' = calls \ {c}

(* Bug: an error leaves the buttons disabled. *)
FailedBusy(u) == [ui EXCEPT ![u].act.step = "stuck"]
Failed(u) == [ui EXCEPT ![u].act = Idle]

(* checkStakeAllowance: approveStakeToken unless the escrow may pull the    *)
(* stake.  Each reads the stake's configuration anew: without it nothing   *)
(* is allowed, and nothing is approved before the challenge goes out.      *)
(* The read of the allowance may also be rejected.                         *)
Allowance(u) ==
  /\ ui[u].act.step = "allowance"
  /\ \/ \E held \in {world.allowance, FALSE}, configured \in BOOLEAN :
          LET next == IF held \/ ~configured THEN "challengeWork" ELSE "approveStake" IN
          ui' = [ui EXCEPT ![u].act = [step |-> "send", op |-> next]] /\ Sent(u, next)
     \/ ui' = Failed(u) /\ UNCHANGED calls
  /\ UNCHANGED world

(* The operation is mined. *)
Land(c) ==
  /\ Accepts(c.user, c.op)
  /\ world' \in Effect(c.user, c.op)
  /\ IF c.awaited THEN Answered(c, world'.task.version)
     ELSE calls' = calls \ {c} /\ UNCHANGED ui

(* The contract refuses.  The bundler reports a failure, or a transaction  *)
(* hash, which cosSend takes for success.                                  *)
Revert(c) ==
  /\ ~Accepts(c.user, c.op)
  /\ IF ~c.awaited THEN calls' = calls \ {c} /\ UNCHANGED ui
     ELSE \/ ui' = Failed(c.user) /\ calls' = calls \ {c}
          \/ Answered(c, ui[c.user].own)
  /\ UNCHANGED world

(* cosSend gives up: the prompt was cancelled, nothing was sent ... *)
Drop(c) ==
  /\ c.awaited
  /\ ui' = Failed(c.user) /\ calls' = calls \ {c} /\ UNCHANGED world

(* ... or it polled for two minutes, and the operation may still land. *)
GiveUp(c) ==
  /\ c.awaited /\ world.lost < MaxLost
  /\ ui' = Failed(c.user)
  /\ calls' = (calls \ {c}) \cup {[c EXCEPT !.awaited = FALSE]}
  /\ world' = [world EXCEPT !.lost = @ + 1]

(* refresh: task and receipts are read after the operation. *)
Refresh(u) ==
  /\ ui[u].act.step = "refresh"
  /\ \E t \in Read : ui' = [ui EXCEPT ![u].seen = t, ![u].act = Idle]
  /\ UNCHANGED <<calls, world>>

Next ==
  \/ Pass
  \/ \E u \in User : Loads(u) \/ Challenge(u) \/ Allowance(u) \/ Refresh(u)
  \/ \E u \in User, op \in Operations : Click(u, op)
  \/ \E c \in calls : Land(c) \/ Revert(c) \/ Drop(c) \/ GiveUp(c)

(* A page's own steps: what cosSend and the reads answer. *)
Flow(u) ==
  \/ Allowance(u) \/ Refresh(u)
  \/ \E c \in calls : c.user = u /\ c.awaited /\ (Land(c) \/ Revert(c) \/ Drop(c))

-----------------------------------------------------------------------------
(* On a page that shows the task as it is, every button does what it says: *)
(* the contract accepts it.  A challenge also needs the window, which was  *)
(* open when the page was read, and the stake; a verdict is the user's to  *)
(* enter.                                                                  *)
OfferedIsAccepted ==
  \A u \in User :
    ui[u].seen = world.task =>
      \A op \in Offered(u) \ {"challengeWork", "linkJuryValidation"} : Accepts(u, op)

(* A page at rest shows its user's own successful operations, whatever     *)
(* others did meanwhile, or no task at all.                                *)
OwnEffectSeen ==
  \A u \in User :
    ui[u].act = Idle /\ ui[u].seen # NotFound => ui[u].seen.version >= ui[u].own

(* The buttons are disabled; MCLiveness states that this ends. *)
Busy(u) == ui[u].act # Idle
=============================================================================

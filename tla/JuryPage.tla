------------------------------ MODULE JuryPage ------------------------------
(* The jury panel (aastar-frontend/app/tasks/jury, TaskContext): one juror   *)
(* looks tasks up by their hash, registers with a stake, votes, finalizes    *)
(* and claims rewards.  What is read of the contract may be as old as its    *)
(* request, and each read that fails looks like an empty answer.             *)
EXTENDS Naturals, FiniteSets

CONSTANTS
  Hash,     \* the jury tasks the user looks up
  None,     \* no task is shown
  MaxLoads, \* bound: task lookups
  MaxOps,   \* bound: operations sent
  MaxFailed \* bound: reads that fail, operations given up

VARIABLES
  ui,    \* what the panel shows and the await its action is at
  calls, \* reads and operations in flight
  world  \* the contract: tasks, the user's stake, allowance and reward

vars == <<ui, calls, world>>

MinJurors == 2
Open == [phase |-> "open", votes |-> 0, mine |-> FALSE]

Init ==
  /\ ui = [at |-> None, seen |-> Open, loading |-> FALSE, juror |-> FALSE, info |-> FALSE,
           reward |-> FALSE, action |-> "none", of |-> None, waits |-> 0]
  /\ calls = {[kind |-> "state", n |-> 0]}
  /\ \E juror \in BOOLEAN :
       world = [tasks |-> [h \in Hash |-> Open], juror |-> juror, allowed |-> FALSE,
                reward |-> juror, loads |-> 0, ops |-> 0, failed |-> 0, sure |-> TRUE]

Started(call) == calls' = calls \cup {call}
Ended(c) == calls' = calls \ {c}

LookUp(h, tasks, refresh) ==
  [kind |-> "task", n |-> world.loads + 1, hash |-> h, saw |-> tasks[h], refresh |-> refresh]
State == [kind |-> "state", n |-> world.ops]

(* handleLoadTask.  The page is sure of what it shows when its last lookup   *)
(* met no other one and every read of it was answered.                       *)
HandleLoadTask(h) ==
  /\ ~ui.loading /\ world.loads < MaxLoads
  /\ Started(LookUp(h, world.tasks, FALSE))
  /\ ui' = [ui EXCEPT !.loading = TRUE]
  /\ world' = [world EXCEPT !.loads = @ + 1, !.sure = \A c \in calls : c.kind # "task"]

(* The refresh after an action reads the task it was about, whichever is     *)
(* shown by now, and then the juror's state.                                 *)
Refreshed ==
  IF ui.action = "task" THEN [ui EXCEPT !.action = "state"] ELSE ui

Follow(c) ==
  calls' = (calls \ {c}) \cup (IF c.refresh THEN {State} ELSE {})

(* Bug: the votes stay those of the task shown before. *)
TaskReadAlone(c, task, votes) ==
  /\ c.kind = "task"
  /\ ui' = [(IF c.refresh THEN Refreshed ELSE ui) EXCEPT !.loading = FALSE, !.at = c.hash,
               !.seen = [task EXCEPT !.mine = ui.seen.mine]]
  /\ Follow(c) /\ UNCHANGED world

(* getTask and getJuryVotes are two reads, shown together. *)
TaskRead(c, task, votes) ==
  /\ c.kind = "task"
  /\ ui' = [(IF c.refresh THEN Refreshed ELSE ui) EXCEPT !.loading = FALSE, !.at = c.hash,
               !.seen = [task EXCEPT !.mine = votes.mine]]
  /\ Follow(c) /\ UNCHANGED world

Misread == world.failed < MaxFailed /\ world' = [world EXCEPT !.failed = @ + 1, !.sure = FALSE]

(* A read that failed is a task not found, or a task without votes. *)
TaskUnread(c, found) ==
  /\ c.kind = "task" /\ Misread
  /\ ui' = [(IF c.refresh THEN Refreshed ELSE ui) EXCEPT !.loading = FALSE,
               !.at = IF found THEN c.hash ELSE None,
               !.seen = IF found THEN [world.tasks[c.hash] EXCEPT !.mine = FALSE] ELSE Open]
  /\ Follow(c)

(* refreshJurorState: the staking token, the stake, the pending reward. *)
StateRead(c) ==
  /\ c.kind = "state"
  /\ ui' = [ui EXCEPT !.info = TRUE, !.juror = world.juror, !.reward = world.reward,
                      !.action = IF @ = "state" THEN "none" ELSE @]
  /\ Ended(c) /\ UNCHANGED world

StateUnread(c) ==
  /\ c.kind = "state" /\ Misread
  /\ \E info \in BOOLEAN :
       ui' = [ui EXCEPT !.info = info, !.juror = FALSE, !.reward = FALSE,
                        !.action = IF @ = "state" THEN "none" ELSE @]
  /\ Ended(c)

-----------------------------------------------------------------------------
(* What the page offers, of what it shows. *)
Registrable == ui.info /\ ~ui.juror
(* Bug: who has voted is asked to vote again. *)
VotableAgain == ui.at # None /\ ui.seen.phase = "open" /\ ui.juror
Votable == ui.at # None /\ ui.seen.phase = "open" /\ ui.juror /\ ~ui.seen.mine
Finalizable ==
  /\ ui.at # None /\ ui.seen.phase # "done"
  /\ ui.seen.phase = "late" \/ ui.seen.votes >= MinJurors
Claimable == ui.reward

Offered ==
  {kind \in {"approve", "vote", "finalize", "claim"} :
     /\ ui.action = "none"
     /\ kind = "approve" => Registrable
     /\ kind = "vote" => Votable
     /\ kind = "finalize" => Finalizable
     /\ kind = "claim" => Claimable}

Send(kind, h) ==
  /\ world.ops < MaxOps
  /\ Started([kind |-> kind, n |-> world.ops + 1, hash |-> h])
  /\ world' = [world EXCEPT !.ops = @ + 1]

(* handleRegister begins with the approval; the others are one operation. *)
Click(kind) ==
  /\ kind \in Offered /\ (kind = "approve" => world.ops + 1 < MaxOps)
  /\ Send(kind, ui.at)
  /\ ui' = [ui EXCEPT !.action = kind, !.of = ui.at, !.waits = world'.ops]

(* The stake is approved, or the staking token could not be read and nothing *)
(* was: registerJuror is sent all the same.                                  *)
RegisterJuror ==
  /\ ui.action = "approved"
  /\ Send("register", ui.of)
  /\ ui' = [ui EXCEPT !.action = "register", !.waits = world'.ops]

-----------------------------------------------------------------------------
(* The contract. *)
Accepts(kind, h) ==
  CASE kind = "approve" -> TRUE
    [] kind = "register" -> world.allowed /\ ~world.juror
    [] kind = "vote" -> world.juror /\ world.tasks[h].phase = "open" /\ ~world.tasks[h].mine
    [] kind = "finalize" ->
         /\ world.tasks[h].phase # "done"
         /\ world.tasks[h].phase = "late" \/ world.tasks[h].votes >= MinJurors
    [] kind = "claim" -> world.reward

Mined(c) ==
  CASE c.kind = "approve" -> [world EXCEPT !.allowed = TRUE]
    [] c.kind = "register" -> [world EXCEPT !.juror = TRUE, !.allowed = FALSE]
    [] c.kind = "vote" -> [world EXCEPT !.tasks[c.hash].mine = TRUE, !.tasks[c.hash].votes = @ + 1]
    [] c.kind = "finalize" -> [world EXCEPT !.tasks[c.hash].phase = "done", !.reward = TRUE]
    [] c.kind = "claim" -> [world EXCEPT !.reward = FALSE]

Kind == {"approve", "register", "vote", "finalize", "claim"}
Awaited(c) == c.kind \in Kind /\ ui.action = c.kind /\ ui.waits = c.n

(* runJuryAction reads the task and the state again, handleRegister the      *)
(* state; what is shown is then as sure as that lookup.                      *)
Refreshes == ui.of # None /\ ui.action \in {"vote", "finalize", "claim"}
Sure(c) == Awaited(c) /\ (IF Refreshes THEN \A d \in calls : d.kind # "task" ELSE world.sure)

(* The handler goes on: to the registration, or to the refresh. *)
Done(c) ==
  IF c.kind = "approve"
  THEN ui' = [ui EXCEPT !.action = "approved"] /\ Ended(c)
  ELSE IF Refreshes
  THEN /\ ui' = [ui EXCEPT !.action = "task", !.loading = TRUE]
       /\ calls' = (calls \ {c}) \cup {LookUp(ui.of, world'.tasks, TRUE)}
  ELSE /\ ui' = [ui EXCEPT !.action = "state"]
       /\ calls' = (calls \ {c}) \cup {State}

Land(c) ==
  /\ c.kind \in Kind /\ Accepts(c.kind, c.hash)
  /\ world' = [Mined(c) EXCEPT !.sure = Sure(c)]
  /\ IF Awaited(c) THEN Done(c) ELSE Ended(c) /\ UNCHANGED ui

(* A revert, a cancelled prompt: the message is shown and nothing is read. *)
Fail(c) ==
  /\ Awaited(c)
  /\ ui' = [ui EXCEPT !.action = "none"]
  /\ Ended(c) /\ UNCHANGED world

(* cosSend gives up on an operation that may still land. *)
GiveUp(c) ==
  /\ Awaited(c) /\ Misread
  /\ ui' = [ui EXCEPT !.action = "none"]
  /\ UNCHANGED calls

(* approveJuryStake without the staking token answers false. *)
NotApproved(c) ==
  /\ Awaited(c) /\ c.kind = "approve" /\ Misread
  /\ ui' = [ui EXCEPT !.action = "approved"]
  /\ Ended(c)

(* Deadlines pass, other jurors vote. *)
Pass(h) ==
  /\ world.tasks[h].phase = "open"
  /\ \/ world' = [world EXCEPT !.tasks[h].phase = "late"]
     \/ world.tasks[h].votes < MinJurors /\ ~world.tasks[h].mine
        /\ world' = [world EXCEPT !.tasks[h].votes = @ + 1]
  /\ UNCHANGED <<ui, calls>>

TaskAnswered(c) == c.kind = "task" /\ \E task, votes \in {c.saw, world.tasks[c.hash]} : TaskRead(c, task, votes)
Flow ==
  \/ RegisterJuror
  \/ \E c \in calls : StateRead(c) \/ TaskAnswered(c) \/ Land(c) \/ Fail(c)

Next ==
  \/ \E h \in Hash : HandleLoadTask(h) \/ Pass(h)
  \/ \E kind \in Kind : Click(kind)
  \/ RegisterJuror
  \/ \E c \in calls :
       \/ TaskAnswered(c) \/ StateRead(c) \/ StateUnread(c) \/ Land(c) \/ Fail(c)
       \/ GiveUp(c) \/ NotApproved(c)
       \/ \E found \in BOOLEAN : TaskUnread(c, found)

-----------------------------------------------------------------------------
(* What is offered of a task that is as the page shows it, to a juror known  *)
(* for one, the contract takes.                                              *)
OfferedIsAccepted ==
  \A kind \in Offered :
    (ui.at = None \/ ui.seen = world.tasks[ui.at]) /\ ui.juror = world.juror /\ ui.reward = world.reward
      => Accepts(kind, ui.at)

(* A registration that is sent is backed by its approval, unless the staking *)
(* token could not be read again in between.                                 *)
RegistrationBacked ==
  world.failed = 0 => \A c \in calls : c.kind = "register" => world.allowed

(* At rest the vote cast on the shown task is seen, when its lookup met no   *)
(* other one and was answered.                                               *)
OwnVoteSeen ==
  ui.action = "none" /\ ui.at # None /\ world.sure /\ (\A c \in calls : c.kind = "state") =>
    ui.seen.mine = world.tasks[ui.at].mine

Busy == ui.action # "none"
=============================================================================

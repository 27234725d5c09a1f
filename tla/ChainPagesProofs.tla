-------------------------- MODULE ChainPagesProofs --------------------------
(* Proofs about the pages whose work ends in what is signed and sent: the      *)
(* transfer and its form, the tasks and their jury, the account and its        *)
(* recovery, the devices that sign. Each has a section of its own: what its    *)
(* state is, the invariant that carries its properties, one lemma per action,  *)
(* and that the invariant gives what the page promises. PagesProofs puts the   *)
(* pages together.                                                             *)
EXTENDS Pages, Sequences, FiniteSetTheorems, TLAPS

-----------------------------------------------------------------------------
(* The send page.                                                            *)
TransferStep == {"idle", "resolve", "prepare", "passkey", "guardian", "submit", "confirm", "resubmit", "sent"}
TransferFlow == [step : TransferStep, id : Nat, amount : Amount \cup {0}, webauthn : BOOLEAN, hasty : BOOLEAN]
TransferStatus == [id : Nat, st : {"none", "completed", "failed", "pending"}]
TransferPage ==
  [flow : TransferFlow, result : Nat, status : TransferStatus, polling : Nat, late : SUBSET Nat, mounted : BOOLEAN]
TransferOp ==
  [tier : Amount, webauthn : BOOLEAN, hasty : BOOLEAN, cosigned : BOOLEAN,
   st : {"prepared", "sent", "mined", "failed"}, withheld : Nat, released : Nat]
TransferWorld == [ops : Seq(TransferOp), recording : SUBSET Transfer!Id, book : [Transfer!Id -> Nat]]

TransferTypeOK == ui \in TransferPage /\ world \in TransferWorld /\ calls \subseteq Nat

Judged(x) == x.hasty \/ (x.webauthn <=> x.tier >= 2)
JudgedFlow(f) == f.hasty \/ (f.webauthn <=> f.amount >= 2)
SentOrHeld(op) == op.st # "prepared" \/ (op.released > 0 /\ op.withheld > op.released)

(* What executeTransfer has done by the await it is at. *)
FlowOK(f, ops) ==
  /\ f.step \in {"passkey", "guardian", "submit", "confirm", "resubmit", "sent"} => f.id \in 1..Len(ops)
  /\ f.step # "idle" => f.amount \in Amount
  /\ f.step = "prepare" => JudgedFlow(f)
  /\ f.step = "resubmit" => ops[f.id].released > 0
  /\ f.step = "sent" => SentOrHeld(ops[f.id])

FlowInv ==
  /\ FlowOK(ui.flow, world.ops)
  /\ ui.flow.step # "idle" => ui.result = 0
  /\ ui.result # 0 => ui.result \in 1..Len(world.ops) /\ SentOrHeld(world.ops[ui.result])

OpsInv == Len(world.ops) =< MaxTransfers /\ \A t \in 1..Len(world.ops) : Judged(world.ops[t])

(* A transfer is about to be recorded, or was, or is not. *)
BookInv ==
  /\ \A t \in world.recording : t \in 1..Len(world.ops) /\ world.ops[t].st # "prepared" /\ world.book[t] = 0
  /\ \A t \in Transfer!Id : world.book[t] # 0 =>
       t \in 1..Len(world.ops) /\ world.book[t] = 1 /\ world.ops[t].st = "mined"

(* The polls are those of the transfer on the page, and those that were    *)
(* on their way when it was started.                                       *)
StatusInv ==
  /\ \A t \in calls : t \in ui.late \/ (t # 0 /\ t = ui.result)
  /\ ui.polling \in {0, ui.result}
  /\ ui.status = Transfer!NoStatus \/ ui.status.id \in ui.late \/ (ui.status.id # 0 /\ ui.status.id = ui.result)

TransferInv == TransferTypeOK /\ FlowInv /\ OpsInv /\ BookInv /\ StatusInv

LEMMA TransferTypes ==
  ASSUME TransferInv
  PROVE  /\ ui \in TransferPage /\ world \in TransferWorld /\ calls \subseteq Nat
         /\ ui.flow \in TransferFlow /\ world.ops \in Seq(TransferOp) /\ Len(world.ops) \in Nat
         /\ \A t \in 1..Len(world.ops) : world.ops[t] \in TransferOp
         /\ ui.flow.step \in TransferStep /\ ui.flow.id \in Nat /\ ui.flow.amount \in Amount \cup {0}
         /\ ui.flow.webauthn \in BOOLEAN /\ ui.flow.hasty \in BOOLEAN
BY DEF TransferInv, TransferTypeOK, TransferPage, TransferWorld, TransferFlow

LEMMA TransferInit == Transfer!Init => TransferInv
<1> SUFFICES ASSUME Transfer!Init PROVE TransferInv
  OBVIOUS
<1> DEFINE f == Transfer!NoFlow
<1>1. f \in TransferFlow /\ f.step = "idle"
  BY DEF Transfer!NoFlow, TransferFlow, TransferStep
<1>2. /\ Transfer!NoStatus \in TransferStatus
      /\ ui = [flow |-> f, result |-> 0, status |-> Transfer!NoStatus, polling |-> 0, late |-> {}, mounted |-> TRUE]
  BY DEF Transfer!Init, Transfer!NoStatus, TransferStatus
<1> HIDE DEF f
<1>3. ui \in TransferPage /\ ui.flow = f /\ ui.result = 0 /\ ui.polling = 0 /\ ui.status = Transfer!NoStatus
  BY <1>1, <1>2 DEF TransferPage
<1>4. world \in TransferWorld /\ world.ops = <<>> /\ world.recording = {} /\ \A t \in Transfer!Id : world.book[t] = 0
  BY DEF Transfer!Init, TransferWorld
<1>5. calls = {}
  BY DEF Transfer!Init
<1>6. FlowInv
  BY <1>1, <1>3 DEF FlowInv, FlowOK
<1>7. OpsInv
  BY <1>4, TransferAssumption DEF OpsInv
<1> QED
  BY <1>3, <1>4, <1>5, <1>6, <1>7 DEF TransferInv, TransferTypeOK, BookInv, StatusInv

(* executeTransfer goes on. *)
LEMMA TransferGoes ==
  ASSUME TransferInv, ui.flow.step # "idle", NEW f \in TransferFlow, ui' = [ui EXCEPT !.flow = f], calls' = calls,
         world' \in TransferWorld, FlowOK(f, world'.ops), OpsInv', BookInv'
  PROVE  TransferInv'
<1>1. ui.result = 0
  BY DEF TransferInv, FlowInv
<1>2. /\ ui' \in TransferPage /\ ui'.flow = f /\ ui'.result = ui.result /\ ui'.status = ui.status
      /\ ui'.polling = ui.polling /\ ui'.late = ui.late
  BY TransferTypes DEF TransferPage
<1>3. FlowInv'
  BY <1>1, <1>2 DEF FlowInv
<1>4. StatusInv'
  BY <1>2 DEF TransferInv, StatusInv
<1> QED
  BY <1>2, <1>3, <1>4, TransferTypes DEF TransferInv, TransferTypeOK

(* The same without a step of the backend. *)
LEMMA TransferTurns ==
  ASSUME TransferInv, ui.flow.step # "idle", NEW f \in TransferFlow, ui' = [ui EXCEPT !.flow = f], calls' = calls,
         world' = world, FlowOK(f, world.ops)
  PROVE  TransferInv'
<1>1. OpsInv' /\ BookInv' /\ world' \in TransferWorld
  BY TransferTypes DEF TransferInv, OpsInv, BookInv
<1> QED
  BY <1>1, TransferGoes

LEMMA TransferTurnStep ==
  ASSUME TransferInv, Transfer!Fails \/ Transfer!Resolve \/ Transfer!Passkey
  PROVE  TransferInv'
<1>0. /\ ui \in TransferPage /\ ui.flow \in TransferFlow /\ FlowOK(ui.flow, world.ops)
  BY TransferTypes DEF TransferInv, FlowInv
<1>1. CASE Transfer!Fails
  <2>1. ui' = [ui EXCEPT !.flow = Transfer!NoFlow] /\ ui.flow.step # "idle" /\ calls' = calls /\ world' = world
    BY <1>1 DEF Transfer!Fails, Transfer!Freed
  <2>2. Transfer!NoFlow \in TransferFlow /\ Transfer!NoFlow.step = "idle"
    BY DEF Transfer!NoFlow, TransferFlow, TransferStep
  <2>3. FlowOK(Transfer!NoFlow, world.ops)
    BY <2>2 DEF FlowOK
  <2> QED
    BY <2>1, <2>2, <2>3, TransferTurns
<1>2. CASE Transfer!Resolve
  <2> DEFINE b == ui.flow.amount >= 2
             y == TRUE
             f == [ui.flow EXCEPT !.step = "prepare", !.webauthn = b]
             h == [ui.flow EXCEPT !.step = "prepare", !.hasty = y]
  <2>1. /\ ui.flow.step = "resolve" /\ calls' = calls /\ world' = world
        /\ ui' = [ui EXCEPT !.flow = f] \/ ui' = [ui EXCEPT !.flow = h]
    BY <1>0, <1>2 DEF Transfer!Resolve, Transfer!Step, Transfer!PathResolved, TransferPage
  <2>2. b \in BOOLEAN /\ (b <=> ui.flow.amount >= 2) /\ y \in BOOLEAN /\ y
    OBVIOUS
  <2> HIDE DEF b, y
  <2>3. f \in TransferFlow /\ f.step = "prepare" /\ f.amount = ui.flow.amount /\ f.webauthn = b
    BY <1>0, <2>2 DEF TransferFlow, TransferStep
  <2>4. h \in TransferFlow /\ h.step = "prepare" /\ h.amount = ui.flow.amount /\ h.hasty = y
    BY <1>0, <2>2 DEF TransferFlow, TransferStep
  <2> HIDE DEF f, h
  <2>5. JudgedFlow(f) /\ JudgedFlow(h)
    BY <2>2, <2>3, <2>4 DEF JudgedFlow
  <2>6. FlowOK(f, world.ops) /\ FlowOK(h, world.ops)
    BY <1>0, <2>1, <2>3, <2>4, <2>5 DEF FlowOK
  <2> QED
    BY <2>1, <2>3, <2>4, <2>6, TransferTurns
<1>3. CASE Transfer!Passkey
  <2> DEFINE to == IF ui.flow.amount = 3 THEN "guardian" ELSE "submit"
             f == [ui.flow EXCEPT !.step = to]
  <2>1. ui.flow.step = "passkey" /\ calls' = calls /\ world' = world /\ ui' = [ui EXCEPT !.flow = f]
    BY <1>0, <1>3 DEF Transfer!Passkey, Transfer!Step, Transfer!GoTo, TransferPage
  <2>2. f \in TransferFlow /\ f.step \in {"guardian", "submit"} /\ f.id = ui.flow.id /\ f.amount = ui.flow.amount
    BY <1>0 DEF TransferFlow, TransferStep
  <2> HIDE DEF f
  <2>3. FlowOK(f, world.ops)
    BY <1>0, <2>1, <2>2 DEF FlowOK
  <2> QED
    BY <2>1, <2>2, <2>3, TransferTurns
<1> QED
  BY <1>1, <1>2, <1>3

(* A handle is made. *)
LEMMA TransferPrepareStep ==
  ASSUME TransferInv, Transfer!Prepare
  PROVE  TransferInv'
<1> DEFINE n == FALSE
           op == [tier |-> ui.flow.amount, webauthn |-> ui.flow.webauthn, hasty |-> ui.flow.hasty,
                  cosigned |-> n, st |-> "prepared", withheld |-> 0, released |-> 0]
           id == Len(world.ops) + 1
           f == [ui.flow EXCEPT !.step = "passkey", !.id = id]
           ops == Append(world.ops, op)
<1>0. /\ ui \in TransferPage /\ ui.flow \in TransferFlow /\ FlowOK(ui.flow, world.ops) /\ world \in TransferWorld
      /\ ui.flow.step = "prepare" /\ Len(world.ops) < MaxTransfers
  BY TransferTypes DEF TransferInv, FlowInv, Transfer!Prepare, Transfer!Step
<1>1. ui' = [ui EXCEPT !.flow = f] /\ world' = [world EXCEPT !.ops = ops] /\ calls' = calls
  BY <1>0 DEF Transfer!Prepare, TransferPage, TransferWorld
<1>2. n \in BOOLEAN
  OBVIOUS
<1> HIDE DEF n
<1>3. op \in TransferOp /\ op.tier = ui.flow.amount /\ op.webauthn = ui.flow.webauthn /\ op.hasty = ui.flow.hasty /\ op.st = "prepared"
  BY <1>0, <1>2 DEF TransferOp, TransferFlow, FlowOK
<1>4. Judged(op)
  BY <1>0, <1>3 DEF Judged, JudgedFlow, FlowOK
<1> HIDE DEF op
<1>5. /\ ops \in Seq(TransferOp) /\ Len(ops) = id /\ id \in Nat /\ id =< MaxTransfers
      /\ \A t \in 1..Len(ops) : (t \in 1..Len(world.ops) /\ ops[t] = world.ops[t]) \/ (t = id /\ ops[t] = op)
      /\ \A t \in 1..Len(world.ops) : t \in 1..Len(ops) /\ ops[t] = world.ops[t]
  BY <1>0, <1>3, TransferTypes, TransferAssumption
<1> HIDE DEF ops
<1>6. f \in TransferFlow /\ f.step = "passkey" /\ f.id = id /\ f.amount = ui.flow.amount
  BY <1>0, <1>5 DEF TransferFlow, TransferStep
<1> HIDE DEF f
<1>7. world' \in TransferWorld /\ world'.ops = ops /\ world'.recording = world.recording /\ world'.book = world.book
  BY <1>0, <1>1, <1>5 DEF TransferWorld
<1>8. FlowOK(f, ops)
  BY <1>0, <1>5, <1>6 DEF FlowOK
<1>9. OpsInv'
  BY <1>4, <1>5, <1>7 DEF TransferInv, OpsInv
<1>10. BookInv'
  BY <1>5, <1>7 DEF TransferInv, BookInv
<1> QED
  BY <1>0, <1>1, <1>6, <1>7, <1>8, <1>9, <1>10, TransferGoes

(* The operation of the transfer changes, and is sent if it does more than  *)
(* collect signatures.                                                      *)
LEMMA TransferOpChanges ==
  ASSUME TransferInv, ui.flow.step # "idle", NEW t \in 1..Len(world.ops), NEW op \in TransferOp,
         op.tier = world.ops[t].tier, op.webauthn = world.ops[t].webauthn, op.hasty = world.ops[t].hasty,
         NEW more \in SUBSET {t}, more # {} => world.ops[t].st = "prepared" /\ op.st # "prepared",
         op.st # world.ops[t].st => world.ops[t].st = "prepared",
         world' = [world EXCEPT !.ops[t] = op, !.recording = @ \cup more],
         NEW f \in TransferFlow, ui' = [ui EXCEPT !.flow = f], calls' = calls,
         f.step # "idle" => f.amount \in Amount /\ f.step # "prepare",
         f.step \in {"passkey", "guardian", "submit", "confirm", "resubmit", "sent"} => f.id = t,
         f.step = "resubmit" => op.released > 0,
         f.step = "sent" => SentOrHeld(op)
  PROVE  TransferInv'
<1> DEFINE ops == [world.ops EXCEPT ![t] = op]
           recording == world.recording \cup more
<1>0. world \in TransferWorld /\ world.ops \in Seq(TransferOp) /\ t \in Transfer!Id
  BY TransferTypes, TransferAssumption DEF TransferInv, OpsInv, Transfer!Id
<1>1. /\ ops \in Seq(TransferOp) /\ Len(ops) = Len(world.ops)
      /\ \A s \in 1..Len(world.ops) : ops[s] = IF s = t THEN op ELSE world.ops[s]
  BY <1>0
<1>2. world' = [world EXCEPT !.ops = ops, !.recording = recording]
  BY <1>0 DEF TransferWorld
<1> HIDE DEF ops
<1>3. recording \in SUBSET Transfer!Id /\ \A s \in recording : s \in world.recording \/ (s = t /\ more # {})
  BY <1>0 DEF TransferWorld
<1> HIDE DEF recording
<1>4. world' \in TransferWorld /\ world'.ops = ops /\ world'.recording = recording /\ world'.book = world.book
  BY <1>0, <1>1, <1>2, <1>3 DEF TransferWorld
<1>5. FlowOK(f, ops)
  BY <1>1 DEF FlowOK
<1>6. OpsInv'
  BY <1>1, <1>4 DEF TransferInv, OpsInv, Judged
<1>7. BookInv'
  <2>1. \A s \in world.recording : s \in 1..Len(world.ops) /\ world.ops[s].st # "prepared" /\ world.book[s] = 0
    BY DEF TransferInv, BookInv
  <2>2. \A s \in Transfer!Id : world.book[s] # 0 => s \in 1..Len(world.ops) /\ world.book[s] = 1 /\ world.ops[s].st = "mined"
    BY DEF TransferInv, BookInv
  <2>3. more # {} => world.book[t] = 0
    BY <1>0, <2>2
  <2>4. \A s \in recording : s \in 1..Len(ops) /\ ops[s].st # "prepared" /\ world.book[s] = 0
    BY <1>1, <1>3, <2>1, <2>3
  <2>5. \A s \in Transfer!Id : world.book[s] # 0 => s \in 1..Len(ops) /\ world.book[s] = 1 /\ ops[s].st = "mined"
    BY <1>1, <2>2
  <2> QED
    BY <1>4, <2>4, <2>5 DEF BookInv
<1> QED
  BY <1>4, <1>5, <1>6, <1>7, TransferGoes

LEMMA TransferGuardianStep ==
  ASSUME TransferInv, Transfer!Guardian \/ Transfer!Confirm
  PROVE  TransferInv'
<1> DEFINE t == ui.flow.id
           x == world.ops[t]
           y == TRUE
           n == world.ops[t].released + 1
<1>0. /\ ui \in TransferPage /\ ui.flow \in TransferFlow /\ ui.flow.step \in {"guardian", "confirm"} /\ calls' = calls
      /\ world \in TransferWorld /\ t \in 1..Len(world.ops) /\ ui.flow.amount \in Amount /\ world.ops[t] \in TransferOp
  BY TransferTypes DEF TransferInv, FlowInv, FlowOK, Transfer!Guardian, Transfer!Confirm, Transfer!Step
<1>1. y \in BOOLEAN
  OBVIOUS
<1>2. n \in Nat /\ n > 0
  BY <1>0 DEF TransferOp
<1>3. CASE Transfer!Guardian
  <2> DEFINE op == [world.ops[t] EXCEPT !.cosigned = y]
             f == [ui.flow EXCEPT !.step = "submit"]
  <2>1. world' = [world EXCEPT !.ops[t] = op, !.recording = @ \cup {}] /\ ui' = [ui EXCEPT !.flow = f]
    BY <1>0, <1>3 DEF Transfer!Guardian, Transfer!GoTo, TransferPage, TransferWorld
  <2> HIDE DEF y
  <2>2. /\ op \in TransferOp /\ op.tier = world.ops[t].tier /\ op.webauthn = world.ops[t].webauthn
        /\ op.hasty = world.ops[t].hasty /\ op.st = world.ops[t].st
    BY <1>0, <1>1 DEF TransferOp
  <2>3. f \in TransferFlow /\ f.step = "submit" /\ f.id = t /\ f.amount = ui.flow.amount
    BY <1>0 DEF TransferFlow, TransferStep
  <2> HIDE DEF op, f, t
  <2>4. {} \in SUBSET {t}
    OBVIOUS
  <2> QED
    BY <1>0, <2>1, <2>2, <2>3, <2>4, TransferOpChanges
<1>4. CASE Transfer!Confirm
  <2> DEFINE op == [world.ops[t] EXCEPT !.released = n]
             f == [ui.flow EXCEPT !.step = "resubmit"]
  <2>1. world' = [world EXCEPT !.ops[t] = op, !.recording = @ \cup {}] /\ ui' = [ui EXCEPT !.flow = f]
    <3>1. world' = [world EXCEPT !.ops[t].released = @ + 1] /\ ui' = [ui EXCEPT !.flow.step = "resubmit"]
      BY <1>4 DEF Transfer!Confirm, Transfer!Released, Transfer!GoTo
    <3>2. world.ops[t] = x /\ x.released + 1 = n
      OBVIOUS
    <3>3. [world EXCEPT !.ops[t].released = @ + 1] = [world EXCEPT !.ops[t] = op, !.recording = @ \cup {}]
      BY <1>0 DEF TransferWorld
    <3> QED
      BY <1>0, <3>1, <3>3 DEF TransferPage
  <2> HIDE DEF n
  <2>2. /\ op \in TransferOp /\ op.tier = world.ops[t].tier /\ op.webauthn = world.ops[t].webauthn
        /\ op.hasty = world.ops[t].hasty /\ op.st = world.ops[t].st /\ op.released = n
    BY <1>0, <1>2 DEF TransferOp
  <2>3. f \in TransferFlow /\ f.step = "resubmit" /\ f.id = t /\ f.amount = ui.flow.amount
    BY <1>0 DEF TransferFlow, TransferStep
  <2> HIDE DEF op, f, t
  <2>4. {} \in SUBSET {t}
    OBVIOUS
  <2> QED
    BY <1>0, <1>2, <2>1, <2>2, <2>3, <2>4, TransferOpChanges
<1> QED
  BY <1>3, <1>4

(* The first submission and the second. *)
LEMMA TransferSubmitStep ==
  ASSUME TransferInv, Transfer!Submit \/ Transfer!Resubmit
  PROVE  TransferInv'
<1> DEFINE t == ui.flow.id
           x == world.ops[t]
<1>0. /\ ui \in TransferPage /\ ui.flow \in TransferFlow /\ ui.flow.step \in {"submit", "resubmit"} /\ calls' = calls
      /\ world \in TransferWorld /\ t \in 1..Len(world.ops) /\ ui.flow.amount \in Amount /\ world.ops[t] \in TransferOp
      /\ Transfer!Submit => ui.flow.step = "submit"
      /\ Transfer!Resubmit => ui.flow.step = "resubmit" /\ x.released > 0
  BY TransferTypes DEF TransferInv, FlowInv, FlowOK, Transfer!Submit, Transfer!Resubmit, Transfer!Step
<1>1. ASSUME NEW s \in {"confirm", "sent"} PROVE
        /\ [ui.flow EXCEPT !.step = s] \in TransferFlow
        /\ [ui.flow EXCEPT !.step = s].step = s
        /\ [ui.flow EXCEPT !.step = s].id = t
        /\ [ui.flow EXCEPT !.step = s].amount \in Amount
        /\ Transfer!GoTo(s) => ui' = [ui EXCEPT !.flow = [ui.flow EXCEPT !.step = s]]
  BY <1>0 DEF TransferFlow, TransferStep, TransferPage, Transfer!GoTo
<1>2. ASSUME NEW s \in {"confirm", "sent"}, Transfer!GoTo(s), Transfer!Withhold(t), s = "sent" => x.released > 0
      PROVE  TransferInv'
  <2> DEFINE n == x.withheld + 1
             op == [x EXCEPT !.withheld = n]
             f == [ui.flow EXCEPT !.step = s]
  <2>1. world' = [world EXCEPT !.ops[t] = op, !.recording = @ \cup {}] /\ x.withheld = x.released
    BY <1>0, <1>2 DEF Transfer!Withhold, TransferWorld, TransferOp
  <2>2. n \in Nat /\ x.released \in Nat /\ n > x.released
    BY <1>0, <2>1 DEF TransferOp
  <2> HIDE DEF n
  <2>3. /\ op \in TransferOp /\ op.tier = x.tier /\ op.webauthn = x.webauthn
        /\ op.hasty = x.hasty /\ op.st = x.st /\ op.released = x.released /\ op.withheld = n
    BY <1>0, <2>2 DEF TransferOp
  <2>4. f \in TransferFlow /\ f.step = s /\ f.id = t /\ f.amount \in Amount /\ ui' = [ui EXCEPT !.flow = f]
    BY <1>1, <1>2
  <2>5. f.step = "sent" => SentOrHeld(op)
    BY <1>2, <2>2, <2>3, <2>4 DEF SentOrHeld
  <2> HIDE DEF op, f, t
  <2>6. {} \in SUBSET {t}
    OBVIOUS
  <2> QED
    BY <1>0, <2>1, <2>3, <2>4, <2>5, <2>6, TransferOpChanges
<1>3. ASSUME NEW s \in {"confirm", "sent"}, Transfer!GoTo(s), Transfer!StillWithheld(t), s = "sent" => x.released > 0
      PROVE  TransferInv'
  <2> DEFINE f == [ui.flow EXCEPT !.step = s]
  <2>1. world' = world /\ x.withheld > x.released
    BY <1>3 DEF Transfer!StillWithheld
  <2>2. f \in TransferFlow /\ f.step = s /\ f.id = t /\ f.amount \in Amount /\ ui' = [ui EXCEPT !.flow = f]
    BY <1>1, <1>3
  <2> HIDE DEF f
  <2>3. FlowOK(f, world.ops)
    BY <1>0, <1>3, <2>1, <2>2 DEF FlowOK, SentOrHeld
  <2> QED
    BY <1>0, <2>1, <2>2, <2>3, TransferTurns
<1>4. ASSUME Transfer!Accept(t), Transfer!GoTo("sent") \/ ui' = Transfer!Freed
      PROVE  TransferInv'
  <2> DEFINE op == [x EXCEPT !.st = "sent"]
  <2>1. world' = [world EXCEPT !.ops[t] = op, !.recording = @ \cup {t}] /\ x.st = "prepared"
    BY <1>0, <1>4 DEF Transfer!Accept, Transfer!Accepted, TransferWorld, TransferOp
  <2>2. /\ op \in TransferOp /\ op.tier = x.tier /\ op.webauthn = x.webauthn
        /\ op.hasty = x.hasty /\ op.st = "sent"
    BY <1>0 DEF TransferOp
  <2>3. Transfer!NoFlow \in TransferFlow /\ Transfer!NoFlow.step = "idle"
    BY DEF Transfer!NoFlow, TransferFlow, TransferStep
  <2>4. PICK f \in TransferFlow : /\ f.step = "sent" \/ f.step = "idle"
                                  /\ f.step = "sent" => f.id = t /\ f.amount \in Amount
                                  /\ ui' = [ui EXCEPT !.flow = f]
    BY <1>1, <1>4, <2>3 DEF Transfer!Freed
  <2>5. SentOrHeld(op)
    BY <2>2 DEF SentOrHeld
  <2> HIDE DEF op, t
  <2> QED
    BY <1>0, <2>1, <2>2, <2>4, <2>5, TransferOpChanges
<1> QED
  BY <1>0, <1>2, <1>3, <1>4 DEF Transfer!Submit, Transfer!Resubmit

(* What was sent is shown and polled. *)
LEMMA TransferFinishStep ==
  ASSUME TransferInv, Transfer!Finish
  PROVE  TransferInv'
<1> DEFINE t == ui.flow.id
           f == Transfer!NoFlow
<1>0. /\ ui \in TransferPage /\ ui.flow.step = "sent" /\ t \in 1..Len(world.ops) /\ t \in Nat /\ t # 0
      /\ SentOrHeld(world.ops[t]) /\ ui.result = 0 /\ Len(world.ops) \in Nat
  BY TransferTypes DEF TransferInv, FlowInv, FlowOK, Transfer!Finish, Transfer!Step
<1>1. f \in TransferFlow /\ f.step = "idle"
  BY DEF Transfer!NoFlow, TransferFlow, TransferStep
<1>2. ui' = [ui EXCEPT !.flow = f, !.result = t, !.polling = t] /\ calls' = calls \cup {t} /\ world' = world
  BY DEF Transfer!Finish
<1> HIDE DEF f
<1>3. /\ ui' \in TransferPage /\ ui'.flow = f /\ ui'.result = t /\ ui'.polling = t /\ ui'.status = ui.status /\ ui'.late = ui.late
  BY <1>0, <1>1, <1>2 DEF TransferPage
<1>4. FlowInv'
  BY <1>0, <1>1, <1>2, <1>3 DEF FlowInv, FlowOK
<1>5. StatusInv'
  BY <1>0, <1>2, <1>3 DEF TransferInv, StatusInv
<1>6. OpsInv' /\ BookInv'
  BY <1>2 DEF TransferInv, OpsInv, BookInv
<1>7. TransferTypeOK'
  BY <1>0, <1>2, <1>3 DEF TransferInv, TransferTypeOK
<1> QED
  BY <1>4, <1>5, <1>6, <1>7 DEF TransferInv

LEMMA TransferSendStep ==
  ASSUME TransferInv, NEW amount \in Amount, NEW resolution \in Amount \cup {0}, Transfer!Send(amount, resolution)
  PROVE  TransferInv'
<1> DEFINE b == resolution >= 2
           h == resolution \notin {0, amount}
           late == calls
           step == IF resolution = 0 THEN "resolve" ELSE "prepare"
           f == [step |-> step, id |-> 0, amount |-> amount, webauthn |-> b, hasty |-> h]
<1>0. ui \in TransferPage
  BY TransferTypes
<1>1. /\ ui' = [ui EXCEPT !.flow = f, !.polling = 0, !.result = 0, !.status = Transfer!NoStatus, !.late = late]
      /\ calls' = calls /\ world' = world
  BY DEF Transfer!Send, Transfer!Started
<1>2. /\ b \in BOOLEAN /\ (b <=> resolution >= 2) /\ h \in BOOLEAN /\ (h <=> resolution \notin {0, amount})
      /\ late \in SUBSET Nat /\ late = calls
      /\ step \in {"resolve", "prepare"} /\ (step = "prepare" => resolution # 0)
  BY TransferTypes
<1> HIDE DEF b, h, late, step
<1>3. f \in TransferFlow /\ f.step = step /\ f.amount = amount /\ f.webauthn = b /\ f.hasty = h
  BY <1>2 DEF TransferFlow, TransferStep
<1>4. step = "prepare" => JudgedFlow(f)
  BY <1>2, <1>3 DEF JudgedFlow
<1> HIDE DEF f
<1>5. /\ ui' \in TransferPage /\ ui'.flow = f /\ ui'.result = 0 /\ ui'.polling = 0 /\ ui'.status = Transfer!NoStatus
      /\ ui'.late = late
  BY <1>0, <1>1, <1>2, <1>3 DEF TransferPage, TransferStatus, Transfer!NoStatus
<1>6. FlowInv'
  BY <1>2, <1>3, <1>4, <1>5 DEF FlowInv, FlowOK
<1>7. StatusInv'
  BY <1>1, <1>2, <1>5 DEF StatusInv
<1>8. OpsInv' /\ BookInv'
  BY <1>1 DEF TransferInv, OpsInv, BookInv
<1>9. TransferTypeOK'
  BY <1>1, <1>5, TransferTypes DEF TransferTypeOK
<1> QED
  BY <1>6, <1>7, <1>8, <1>9 DEF TransferInv

(* The poll and its answers. *)
LEMMA TransferPollStep ==
  ASSUME TransferInv, \/ Transfer!Poll \/ Transfer!Leave
                      \/ \E t \in calls : Transfer!StatusAnswered(t) \/ Transfer!StatusLost(t)
  PROVE  TransferInv'
<1>0. ui \in TransferPage /\ calls \subseteq Nat
  BY TransferTypes
<1>1. ASSUME ui' \in TransferPage, world' = world, calls' \subseteq Nat,
             ui'.flow = ui.flow, ui'.result = ui.result, ui'.late = ui.late, StatusInv'
      PROVE  TransferInv'
  <2>1. TransferTypeOK'
    BY <1>1, TransferTypes DEF TransferTypeOK
  <2>2. FlowInv' /\ OpsInv' /\ BookInv'
    BY <1>1 DEF TransferInv, FlowInv, OpsInv, BookInv
  <2> QED
    BY <1>1, <2>1, <2>2 DEF TransferInv
<1>2. CASE Transfer!Poll
  <2>1. ui' = ui /\ world' = world /\ calls' = calls \cup {ui.polling} /\ ui.polling # 0 /\ ui.polling \in Nat
    BY <1>0, <1>2 DEF Transfer!Poll, TransferPage
  <2>2. StatusInv'
    BY <2>1 DEF TransferInv, StatusInv
  <2> QED
    BY <1>0, <1>1, <2>1, <2>2
<1>3. CASE Transfer!Leave
  <2> DEFINE n == FALSE
  <2>1. ui' = [ui EXCEPT !.mounted = n, !.polling = 0] /\ world' = world /\ calls' = calls
    BY <1>3 DEF Transfer!Leave
  <2>2. n \in BOOLEAN
    OBVIOUS
  <2> HIDE DEF n
  <2>3. /\ ui' \in TransferPage /\ ui'.flow = ui.flow /\ ui'.result = ui.result /\ ui'.late = ui.late
        /\ ui'.polling = 0 /\ ui'.status = ui.status
    BY <1>0, <2>1, <2>2 DEF TransferPage
  <2>4. StatusInv'
    BY <2>1, <2>3 DEF TransferInv, StatusInv
  <2> QED
    BY <1>0, <1>1, <2>1, <2>3, <2>4
<1>4. ASSUME NEW t \in calls, Transfer!StatusLost(t)
      PROVE  TransferInv'
  <2>1. ui' = ui /\ world' = world /\ calls' = calls \ {t}
    BY <1>4 DEF Transfer!StatusLost
  <2>2. StatusInv'
    BY <2>1 DEF TransferInv, StatusInv
  <2> QED
    BY <1>0, <1>1, <2>1, <2>2
<1>5. ASSUME NEW t \in calls, Transfer!StatusAnswered(t)
      PROVE  TransferInv'
  <2> DEFINE st == Transfer!Reported(t)
             s == [id |-> t, st |-> st]
             p == IF st \in Transfer!Terminal THEN 0 ELSE ui.polling
  <2>1. ui' = [ui EXCEPT !.status = s, !.polling = p] /\ world' = world /\ calls' = calls \ {t}
    BY <1>0, <1>5 DEF Transfer!StatusAnswered, Transfer!Shown, TransferPage
  <2>2. st \in {"completed", "failed", "pending"}
    BY DEF Transfer!Reported
  <2> HIDE DEF st
  <2>3. s \in TransferStatus /\ s.id = t
    BY <1>0, <2>2 DEF TransferStatus
  <2>4. p \in Nat /\ p \in {0, ui.polling}
    BY <1>0 DEF TransferPage
  <2> HIDE DEF s, p
  <2>5. /\ ui' \in TransferPage /\ ui'.flow = ui.flow /\ ui'.result = ui.result /\ ui'.late = ui.late
        /\ ui'.polling = p /\ ui'.status = s
    BY <1>0, <2>1, <2>3, <2>4 DEF TransferPage
  <2>6. StatusInv'
    BY <2>1, <2>3, <2>4, <2>5 DEF TransferInv, StatusInv
  <2> QED
    BY <1>0, <1>1, <2>1, <2>5, <2>6
<1> QED
  BY <1>2, <1>3, <1>4, <1>5

(* An operation is mined or fails, and a transfer is recorded. *)
LEMMA TransferChainStep ==
  ASSUME TransferInv, NEW t \in Transfer!Id, Transfer!Mine(t) \/ Transfer!Record(t)
  PROVE  TransferInv'
<1>0. /\ ui \in TransferPage /\ world \in TransferWorld /\ world.ops \in Seq(TransferOp) /\ Len(world.ops) \in Nat
      /\ world.book \in [Transfer!Id -> Nat] /\ \A s \in 1..Len(world.ops) : world.ops[s] \in TransferOp
  BY TransferTypes DEF TransferWorld
<1>i. /\ \A s \in world.recording : s \in 1..Len(world.ops) /\ world.ops[s].st # "prepared" /\ world.book[s] = 0
      /\ \A s \in Transfer!Id : world.book[s] # 0 => s \in 1..Len(world.ops) /\ world.book[s] = 1 /\ world.ops[s].st = "mined"
  BY DEF TransferInv, BookInv
<1>1. CASE Transfer!Mine(t)
  <2>1. PICK st \in {"mined", "failed"} : world' = [world EXCEPT !.ops[t].st = st]
    BY <1>1 DEF Transfer!Mine
  <2>2. t \in 1..Len(world.ops) /\ world.ops[t].st = "sent" /\ ui' = ui /\ calls' = calls
    BY <1>1 DEF Transfer!Mine
  <2> DEFINE op == [world.ops[t] EXCEPT !.st = st]
             ops == [world.ops EXCEPT ![t] = op]
  <2>3. world' = [world EXCEPT !.ops = ops]
    BY <1>0, <2>1, <2>2 DEF TransferWorld
  <2>4. /\ op \in TransferOp /\ op.tier = world.ops[t].tier /\ op.webauthn = world.ops[t].webauthn
        /\ op.hasty = world.ops[t].hasty /\ op.st = st /\ op.released = world.ops[t].released
    BY <1>0, <2>2 DEF TransferOp
  <2> HIDE DEF op
  <2>5. /\ ops \in Seq(TransferOp) /\ Len(ops) = Len(world.ops)
        /\ \A s \in 1..Len(world.ops) : ops[s] = IF s = t THEN op ELSE world.ops[s]
    BY <1>0, <2>2, <2>4
  <2> HIDE DEF ops
  <2>6. world' \in TransferWorld /\ world'.ops = ops /\ world'.recording = world.recording /\ world'.book = world.book
    BY <1>0, <2>3, <2>5 DEF TransferWorld
  <2>7. FlowInv'
    <3>1. /\ FlowOK(ui.flow, world.ops) /\ (ui.flow.step # "idle" => ui.result = 0)
          /\ (ui.result # 0 => ui.result \in 1..Len(world.ops) /\ SentOrHeld(world.ops[ui.result]))
      BY DEF TransferInv, FlowInv
    <3>2. SentOrHeld(op)
      BY <2>4 DEF SentOrHeld
    <3>3. FlowOK(ui.flow, ops)
      BY <2>4, <2>5, <3>1, <3>2 DEF FlowOK
    <3> QED
      BY <2>2, <2>5, <2>6, <3>1, <3>2, <3>3 DEF FlowInv
  <2>8. OpsInv'
    BY <2>4, <2>5, <2>6 DEF TransferInv, OpsInv, Judged
  <2>9. BookInv'
    BY <1>i, <2>2, <2>4, <2>5, <2>6 DEF BookInv
  <2>10. TransferTypeOK' /\ StatusInv'
    BY <1>0, <2>2, <2>6 DEF TransferInv, TransferTypeOK, StatusInv
  <2> QED
    BY <2>7, <2>8, <2>9, <2>10 DEF TransferInv
<1>2. CASE Transfer!Record(t)
  <2> DEFINE n == IF world.ops[t].st = "mined" THEN world.book[t] + 1 ELSE world.book[t]
             book == [world.book EXCEPT ![t] = n]
             recording == world.recording \ {t}
  <2>1. world' = [world EXCEPT !.recording = recording, !.book = book] /\ t \in world.recording /\ ui' = ui /\ calls' = calls
    BY <1>0, <1>2 DEF Transfer!Record, TransferWorld
  <2>2. n \in Nat /\ (n # 0 => n = 1 /\ world.ops[t].st = "mined")
    BY <1>0, <1>i, <2>1
  <2> HIDE DEF n
  <2>3. book \in [Transfer!Id -> Nat] /\ \A s \in Transfer!Id : book[s] = IF s = t THEN n ELSE world.book[s]
    BY <1>0, <2>2
  <2>4. recording \in SUBSET Transfer!Id /\ \A s \in recording : s \in world.recording /\ s # t /\ s \in Transfer!Id
    BY <1>0 DEF TransferWorld
  <2> HIDE DEF book, recording
  <2>5. world' \in TransferWorld /\ world'.ops = world.ops /\ world'.recording = recording /\ world'.book = book
    BY <1>0, <2>1, <2>3, <2>4 DEF TransferWorld
  <2>6. BookInv'
    BY <1>i, <2>1, <2>2, <2>3, <2>4, <2>5 DEF BookInv
  <2>7. FlowInv' /\ OpsInv' /\ StatusInv'
    BY <2>1, <2>5 DEF TransferInv, FlowInv, OpsInv, StatusInv
  <2>8. TransferTypeOK'
    BY <2>1, <2>5, TransferTypes DEF TransferTypeOK
  <2> QED
    BY <2>6, <2>7, <2>8 DEF TransferInv
<1> QED
  BY <1>1, <1>2

LEMMA TransferNext == TransferInv /\ Transfer!Next => TransferInv'
<1> SUFFICES ASSUME TransferInv, Transfer!Next PROVE TransferInv'
  OBVIOUS
<1>1. CASE Transfer!Fails \/ Transfer!Resolve \/ Transfer!Passkey
  BY <1>1, TransferTurnStep
<1>2. CASE Transfer!Prepare
  BY <1>2, TransferPrepareStep
<1>3. CASE Transfer!Guardian \/ Transfer!Confirm
  BY <1>3, TransferGuardianStep
<1>4. CASE Transfer!Submit \/ Transfer!Resubmit
  BY <1>4, TransferSubmitStep
<1>5. CASE Transfer!Finish
  BY <1>5, TransferFinishStep
<1>6. CASE \E amount \in Amount, resolution \in Amount \cup {0} : Transfer!Send(amount, resolution)
  BY <1>6, TransferSendStep
<1>7. CASE Transfer!Poll \/ Transfer!Leave \/ \E t \in calls : Transfer!StatusAnswered(t) \/ Transfer!StatusLost(t)
  BY <1>7, TransferPollStep
<1>8. CASE \E t \in Transfer!Id : Transfer!Mine(t) \/ Transfer!Record(t)
  BY <1>8, TransferChainStep
<1> QED
  BY <1>1, <1>2, <1>3, <1>4, <1>5, <1>6, <1>7, <1>8 DEF Transfer!Next

LEMMA TransferStutter == TransferInv /\ UNCHANGED vars => TransferInv'
BY DEF vars, TransferInv, TransferTypeOK, FlowInv, OpsInv, BookInv, StatusInv

LEMMA TransferInvImplies ==
  ASSUME TransferInv
  PROVE  Transfer!StatusIsOwn /\ Transfer!ShownWasSent /\ Transfer!PathAsJudged /\ Transfer!BookCountsMined
<1>1. Transfer!StatusIsOwn
  BY DEF TransferInv, StatusInv, Transfer!StatusIsOwn
<1>2. Transfer!ShownWasSent
  BY DEF TransferInv, FlowInv, SentOrHeld, Transfer!ShownWasSent
<1>3. Transfer!PathAsJudged
  <2> SUFFICES ASSUME NEW t \in 1..Len(world.ops), ~world.ops[t].hasty
               PROVE  world.ops[t].webauthn = (world.ops[t].tier >= 2)
    BY DEF Transfer!PathAsJudged
  <2>1. world.ops[t].webauthn \in BOOLEAN /\ (world.ops[t].webauthn <=> world.ops[t].tier >= 2)
    BY TransferTypes DEF TransferInv, OpsInv, Judged, TransferOp
  <2> QED
    BY <2>1
<1>4. Transfer!BookCountsMined
  BY DEF TransferInv, BookInv, Transfer!BookCountsMined
<1> QED
  BY <1>1, <1>2, <1>3, <1>4

-----------------------------------------------------------------------------
(* The form of a transfer.                                                   *)
FormAsset == DOMAIN Balance \cup {0}
FormAmount == Payment \cup {0}
FormInput == [amount : FormAmount, asset : FormAsset]
FormPage ==
  [page : {"loading", "saved", "bare"}, amount : FormAmount, asset : FormAsset, sponsored : BOOLEAN,
   defaulted : BOOLEAN, resolution : FormInput, estimate : FormAmount, balance : FormAsset,
   lateEstimate : BOOLEAN, lateBalance : BOOLEAN]
Judgement == [input : FormInput, live : BOOLEAN]
FormCalls == [judge : SUBSET Judgement, estimate : FormAmount, balance : SUBSET FormAsset]

FormTypeOK == ui \in FormPage /\ calls \in FormCalls /\ world \in BOOLEAN

(* A judgement that was not cancelled is of what is entered; without one the *)
(* tier is, and nothing is judged of a form that is not filled in.           *)
TierInv ==
  /\ \A j \in calls.judge : j.live => j.input = Form!Input /\ ui.amount # 0
  /\ (\A j \in calls.judge : ~j.live) => ui.resolution \in {Form!Nothing, Form!Input}
  /\ ui.amount = 0 => ui.resolution = Form!Nothing

(* A balance that is not of the selected token is being replaced.            *)
BalanceInv ==
  ~ui.lateBalance /\ ui.asset # 0 /\ ui.asset \notin calls.balance => ui.balance \in {0, ui.asset}

FormInv == FormTypeOK /\ TierInv /\ Form!GasIsOfAmount /\ BalanceInv

LEMMA FormTypes ==
  ASSUME FormInv
  PROVE  /\ ui \in FormPage /\ calls \in FormCalls /\ calls.judge \subseteq Judgement /\ calls.balance \subseteq FormAsset
         /\ ui.amount \in FormAmount /\ ui.asset \in FormAsset /\ calls.estimate \in FormAmount
BY DEF FormInv, FormTypeOK, FormPage, FormCalls

LEMMA FormNothing == Form!Nothing \in FormInput /\ 0 \in FormAmount /\ 0 \in FormAsset
BY DEF Form!Nothing, FormInput, FormAmount, FormAsset

LEMMA FormInit == Form!Init => FormInv
<1> SUFFICES ASSUME Form!Init PROVE FormInv
  OBVIOUS
<1> DEFINE f == FALSE
<1>1. /\ ui = [page |-> "loading", amount |-> 0, asset |-> 0, sponsored |-> f, defaulted |-> f,
               resolution |-> Form!Nothing, estimate |-> 0, balance |-> 0, lateEstimate |-> f, lateBalance |-> f]
      /\ calls = [judge |-> {}, estimate |-> 0, balance |-> {}] /\ world \in BOOLEAN /\ f \in BOOLEAN
  BY DEF Form!Init
<1> HIDE DEF f
<1>2. ui \in FormPage
  BY <1>1, FormNothing DEF FormPage
<1>3. {} \in SUBSET Judgement /\ {} \in SUBSET FormAsset
  OBVIOUS
<1>4. calls \in FormCalls
  BY <1>1, <1>3, FormNothing DEF FormCalls
<1> QED
  BY <1>1, <1>2, <1>4 DEF FormInv, FormTypeOK, TierInv, BalanceInv, Form!GasIsOfAmount

(* The gas shown stays: nothing that it is about changes, or it goes. *)
LEMMA FormGas ==
  ASSUME FormInv,
         \/ ui'.estimate = 0
         \/ ui'.estimate = ui.estimate /\ ui'.amount = ui.amount /\ (ui'.lateEstimate <=> ui.lateEstimate)
  PROVE  Form!GasIsOfAmount'
BY DEF FormInv, Form!GasIsOfAmount

(* Nothing that the tier is about changes. *)
LEMMA FormTier ==
  ASSUME FormInv, calls'.judge = calls.judge, ui'.amount = ui.amount, ui'.asset = ui.asset,
         ui'.resolution = ui.resolution
  PROVE  TierInv'
BY DEF FormInv, TierInv, Form!Input, Form!Nothing

(* The effect on amount and asset: the tier is judged again, or none is shown. *)
LEMMA FormRejudge ==
  ASSUME FormInv, NEW amount \in FormAmount, NEW asset \in FormAsset, calls'.judge = Form!Rejudge(amount, asset),
         ui'.amount = amount, ui'.asset = asset, amount = 0 => ui'.resolution = Form!Nothing
  PROVE  calls'.judge \subseteq Judgement /\ TierInv'
<1> DEFINE y == TRUE
           n == FALSE
           next == [input |-> [amount |-> amount, asset |-> asset], live |-> y]
<1>1. y \in BOOLEAN /\ y /\ n \in BOOLEAN /\ ~n
  OBVIOUS
<1>2. calls'.judge = {[j EXCEPT !.live = n] : j \in calls.judge} \cup (IF amount = 0 THEN {} ELSE {next})
  BY DEF Form!Rejudge, Form!Cancelled
<1> HIDE DEF y, n
<1>3. next \in Judgement /\ next.live /\ next.input = [amount |-> amount, asset |-> asset]
  BY <1>1 DEF Judgement, FormInput
<1> HIDE DEF next
<1>4. \A j \in calls.judge : [j EXCEPT !.live = n] \in Judgement /\ ~[j EXCEPT !.live = n].live
  BY <1>1, FormTypes DEF Judgement
<1>5. \A j \in calls'.judge : j \in Judgement /\ (j.live => j = next /\ amount # 0)
  BY <1>2, <1>3, <1>4
<1>6. amount # 0 => next \in calls'.judge
  BY <1>2
<1>7. /\ \A j \in calls'.judge : j.live => j.input = Form!Input' /\ ui'.amount # 0
      /\ (\A j \in calls'.judge : ~j.live) => ui'.resolution = Form!Nothing
  BY <1>3, <1>5, <1>6 DEF Form!Input
<1>8. TierInv'
  BY <1>7 DEF TierInv, Form!Nothing
<1> QED
  BY <1>5, <1>8

LEMMA FormLoadedStep ==
  ASSUME FormInv, Form!PageLoaded \/ Form!ApplyDefault \/ Form!ToggleSponsored
  PROVE  FormInv'
<1>0. ui \in FormPage /\ calls' = calls /\ world' = world /\ world \in BOOLEAN
  BY FormTypes DEF Form!PageLoaded, Form!ApplyDefault, Form!ToggleSponsored, FormInv, FormTypeOK
<1>1. PICK page \in {"saved", "bare", ui.page}, sponsored \in BOOLEAN, defaulted \in BOOLEAN, estimate \in {0, ui.estimate} :
        ui' = [ui EXCEPT !.page = page, !.sponsored = sponsored, !.defaulted = defaulted, !.estimate = estimate]
  <2>1. CASE Form!PageLoaded
    <3>1. PICK saved \in BOOLEAN : ui' = [ui EXCEPT !.page = IF saved THEN "saved" ELSE "bare"]
      BY <2>1 DEF Form!PageLoaded
    <3>2. ui' = [ui EXCEPT !.page = IF saved THEN "saved" ELSE "bare", !.sponsored = ui.sponsored,
                           !.defaulted = ui.defaulted, !.estimate = ui.estimate]
      BY <1>0, <3>1 DEF FormPage
    <3>3. ui.sponsored \in BOOLEAN /\ ui.defaulted \in BOOLEAN
      BY <1>0 DEF FormPage
    <3> QED
      BY <3>2, <3>3
  <2>2. CASE Form!ApplyDefault
    <3> DEFINE y == TRUE
               q == ui.sponsored \/ world
    <3>1. ui' = [ui EXCEPT !.page = ui.page, !.sponsored = q, !.defaulted = y, !.estimate = ui.estimate]
      BY <1>0, <2>2 DEF Form!ApplyDefault, FormPage
    <3>2. q \in BOOLEAN /\ y \in BOOLEAN
      OBVIOUS
    <3> HIDE DEF y, q
    <3> QED
      BY <3>1, <3>2
  <2>3. CASE Form!ToggleSponsored
    <3> DEFINE q == ~ui.sponsored
    <3>1. ui' = [ui EXCEPT !.page = ui.page, !.sponsored = q, !.defaulted = ui.defaulted, !.estimate = 0]
      BY <1>0, <2>3 DEF Form!ToggleSponsored, FormPage
    <3>2. q \in BOOLEAN /\ ui.defaulted \in BOOLEAN
      BY <1>0 DEF FormPage
    <3> HIDE DEF q
    <3> QED
      BY <3>1, <3>2
  <2> QED
    BY <2>1, <2>2, <2>3
<1>2. /\ ui' \in FormPage /\ ui'.amount = ui.amount /\ ui'.asset = ui.asset /\ ui'.resolution = ui.resolution
      /\ (ui'.estimate = 0 \/ ui'.estimate = ui.estimate) /\ (ui'.lateEstimate <=> ui.lateEstimate)
      /\ ui'.balance = ui.balance /\ (ui'.lateBalance <=> ui.lateBalance)
  BY <1>0, <1>1, FormNothing DEF FormPage
<1>3. TierInv'
  BY <1>0, <1>2, FormTier
<1>4. Form!GasIsOfAmount'
  BY <1>2, FormGas
<1>5. BalanceInv'
  BY <1>0, <1>2 DEF FormInv, BalanceInv
<1> QED
  BY <1>0, <1>2, <1>3, <1>4, <1>5, FormTypes DEF FormInv, FormTypeOK

LEMMA FormEditStep ==
  ASSUME FormInv, NEW amount \in FormAmount, Form!EditAmount(amount)
  PROVE  FormInv'
<1>0. ui \in FormPage /\ calls \in FormCalls /\ world' = world /\ world \in BOOLEAN /\ ui.asset \in FormAsset
  BY FormTypes DEF Form!EditAmount, FormInv, FormTypeOK
<1> DEFINE r == IF amount = 0 THEN Form!Nothing ELSE ui.resolution
           judge == Form!Rejudge(amount, ui.asset)
<1>1. ui' = [ui EXCEPT !.amount = amount, !.estimate = 0, !.resolution = r] /\ calls' = [calls EXCEPT !.judge = judge]
  BY <1>0 DEF Form!EditAmount, Form!Edited, FormPage
<1>2. r \in FormInput /\ (amount = 0 => r = Form!Nothing)
  BY <1>0, FormNothing DEF FormPage
<1>3. /\ ui' \in FormPage /\ ui'.amount = amount /\ ui'.asset = ui.asset /\ ui'.resolution = r /\ ui'.estimate = 0
      /\ ui'.balance = ui.balance /\ (ui'.lateBalance <=> ui.lateBalance)
  BY <1>0, <1>1, <1>2, FormNothing DEF FormPage
<1>4. calls'.judge = judge /\ calls'.balance = calls.balance
  BY <1>0, <1>1 DEF FormCalls
<1>5. calls'.judge \subseteq Judgement /\ TierInv'
  BY <1>0, <1>2, <1>3, <1>4, FormRejudge
<1>6. calls' \in FormCalls
  BY <1>0, <1>1, <1>4, <1>5 DEF FormCalls
<1>7. Form!GasIsOfAmount'
  BY <1>3, FormGas
<1>8. BalanceInv'
  BY <1>3, <1>4 DEF FormInv, BalanceInv
<1> QED
  BY <1>0, <1>3, <1>5, <1>6, <1>7, <1>8 DEF FormInv, FormTypeOK

LEMMA FormAssetStep ==
  ASSUME FormInv, NEW asset \in Form!Asset, Form!PickAsset(asset)
  PROVE  FormInv'
<1>0. /\ ui \in FormPage /\ calls \in FormCalls /\ world' = world /\ world \in BOOLEAN /\ asset \in FormAsset
      /\ ui.amount \in FormAmount
  BY FormTypes DEF Form!PickAsset, FormInv, FormTypeOK, FormAsset, Form!Asset
<1> DEFINE b == IF asset = 0 THEN 0 ELSE ui.balance
           judge == Form!Rejudge(ui.amount, asset)
           balances == calls.balance \cup ({asset} \ {0})
<1>1. ui' = [ui EXCEPT !.asset = asset, !.balance = b] /\ calls' = [calls EXCEPT !.judge = judge, !.balance = balances]
  BY <1>0 DEF Form!PickAsset, FormPage, FormCalls
<1>2. b \in FormAsset /\ balances \in SUBSET FormAsset /\ (asset # 0 => asset \in balances)
  BY <1>0, FormNothing DEF FormPage, FormCalls
<1> HIDE DEF b, balances
<1>3. /\ ui' \in FormPage /\ ui'.amount = ui.amount /\ ui'.asset = asset /\ ui'.resolution = ui.resolution
      /\ ui'.estimate = ui.estimate /\ (ui'.lateEstimate <=> ui.lateEstimate)
  BY <1>0, <1>1, <1>2 DEF FormPage
<1>4. calls'.judge = judge /\ calls'.balance = balances
  BY <1>0, <1>1 DEF FormCalls
<1>5. calls'.judge \subseteq Judgement /\ TierInv'
  <2>1. ui.amount = 0 => ui.resolution = Form!Nothing
    BY DEF FormInv, TierInv
  <2> QED
    BY <1>0, <1>3, <1>4, <2>1, FormRejudge
<1>6. calls' \in FormCalls
  BY <1>0, <1>1, <1>2, <1>4, <1>5 DEF FormCalls
<1>7. Form!GasIsOfAmount'
  BY <1>3, FormGas
<1>8. BalanceInv'
  BY <1>2, <1>3, <1>4 DEF BalanceInv
<1> QED
  BY <1>0, <1>3, <1>5, <1>6, <1>7, <1>8 DEF FormInv, FormTypeOK

LEMMA FormRefreshStep ==
  ASSUME FormInv, Form!RefreshBalance \/ Form!EstimateGas
  PROVE  FormInv'
<1>0. ui \in FormPage /\ calls \in FormCalls /\ world' = world /\ world \in BOOLEAN /\ ui' = ui
  BY FormTypes DEF Form!RefreshBalance, Form!EstimateGas, FormInv, FormTypeOK
<1>1. calls' \in FormCalls /\ calls'.judge = calls.judge /\ calls.balance \subseteq calls'.balance
  <2>1. CASE Form!RefreshBalance
    BY <1>0, <2>1, FormTypes DEF Form!RefreshBalance, FormCalls
  <2>2. CASE Form!EstimateGas
    BY <1>0, <2>2, FormTypes DEF Form!EstimateGas, FormCalls
  <2> QED
    BY <2>1, <2>2
<1>2. TierInv'
  BY <1>0, <1>1, FormTier
<1>3. Form!GasIsOfAmount'
  BY <1>0, FormGas
<1>4. BalanceInv'
  BY <1>0, <1>1 DEF FormInv, BalanceInv
<1> QED
  BY <1>0, <1>1, <1>2, <1>3, <1>4 DEF FormInv, FormTypeOK

LEMMA FormJudgedStep ==
  ASSUME FormInv, NEW j \in calls.judge, Form!Judged(j)
  PROVE  FormInv'
<1>0. /\ ui \in FormPage /\ calls \in FormCalls /\ world' = world /\ world \in BOOLEAN
      /\ j \in Judgement /\ j.live \in BOOLEAN
  BY FormTypes DEF Form!Judged, FormInv, FormTypeOK, Judgement
<1> DEFINE judge == calls.judge \ {j}
<1>1. calls' = [calls EXCEPT !.judge = judge] /\ judge \in SUBSET Judgement
  BY <1>0 DEF Form!Judged, FormCalls
<1> HIDE DEF judge
<1>2. calls' \in FormCalls /\ calls'.judge = judge /\ calls'.balance = calls.balance
  BY <1>0, <1>1 DEF FormCalls
<1>3. /\ \A i \in calls.judge : i.live => i.input = Form!Input /\ ui.amount # 0
      /\ (\A i \in calls.judge : ~i.live) => ui.resolution \in {Form!Nothing, Form!Input}
      /\ ui.amount = 0 => ui.resolution = Form!Nothing
  BY DEF FormInv, TierInv
<1>4. PICK r \in FormInput :
        ui' = [ui EXCEPT !.resolution = r] /\ (IF j.live THEN r \in {j.input, Form!Nothing} ELSE r = ui.resolution)
  <2>1. PICK answer \in {j.input, Form!Nothing} : ui' = IF j.live THEN [ui EXCEPT !.resolution = answer] ELSE ui
    BY DEF Form!Judged
  <2>2. answer \in FormInput /\ ui.resolution \in FormInput
    BY <1>0, FormNothing DEF Judgement, FormPage
  <2>3. CASE j.live
    BY <2>1, <2>2, <2>3
  <2>4. CASE ~j.live
    <3>1. ui' = [ui EXCEPT !.resolution = ui.resolution]
      BY <1>0, <2>1, <2>4 DEF FormPage
    <3> QED
      BY <2>2, <2>4, <3>1
  <2> QED
    BY <2>3, <2>4
<1>5. /\ ui' \in FormPage /\ ui'.amount = ui.amount /\ ui'.asset = ui.asset /\ ui'.resolution = r
      /\ ui'.estimate = ui.estimate /\ (ui'.lateEstimate <=> ui.lateEstimate)
      /\ ui'.balance = ui.balance /\ (ui'.lateBalance <=> ui.lateBalance)
  BY <1>0, <1>4 DEF FormPage
<1>6. Form!Input' = Form!Input
  BY <1>5 DEF Form!Input
<1>7. TierInv'
  <2>1. \A i \in calls'.judge : i \in calls.judge
    BY <1>2 DEF judge
  <2>2. (\A i \in calls'.judge : ~i.live) => r \in {Form!Nothing, Form!Input}
    <3>1. CASE j.live
      BY <1>3, <1>4, <3>1
    <3>2. CASE ~j.live
      <4>1. \A i \in calls.judge : i = j \/ i \in calls'.judge
        BY <1>2 DEF judge
      <4> QED
        BY <1>3, <1>4, <3>2, <4>1
    <3> QED
      BY <3>1, <3>2
  <2>3. ui.amount = 0 => r = Form!Nothing
    BY <1>3, <1>4
  <2> QED
    BY <1>3, <1>5, <1>6, <2>1, <2>2, <2>3 DEF TierInv, Form!Nothing
<1>8. Form!GasIsOfAmount'
  BY <1>5, FormGas
<1>9. BalanceInv'
  BY <1>2, <1>5 DEF FormInv, BalanceInv
<1> QED
  BY <1>0, <1>2, <1>5, <1>7, <1>8, <1>9 DEF FormInv, FormTypeOK

LEMMA FormBalanceStep ==
  ASSUME FormInv, NEW asset \in Form!Asset, Form!BalanceAnswered(asset)
  PROVE  FormInv'
<1>0. ui \in FormPage /\ calls \in FormCalls /\ world' = world /\ world \in BOOLEAN /\ asset \in FormAsset
  BY FormTypes DEF Form!BalanceAnswered, FormInv, FormTypeOK, FormAsset, Form!Asset
<1> DEFINE balances == calls.balance \ {asset}
           late == asset # ui.asset
<1>1. PICK shown \in {asset, 0} : ui' = [ui EXCEPT !.balance = shown, !.lateBalance = late]
  BY DEF Form!BalanceAnswered, Form!Fetched
<1>2. calls' = [calls EXCEPT !.balance = balances] /\ balances \in SUBSET FormAsset
  BY <1>0 DEF Form!BalanceAnswered, FormCalls
<1>3. late \in BOOLEAN /\ (late <=> asset # ui.asset) /\ shown \in FormAsset
  BY <1>0, <1>1, FormNothing
<1> HIDE DEF late, balances
<1>4. /\ ui' \in FormPage /\ ui'.amount = ui.amount /\ ui'.asset = ui.asset /\ ui'.resolution = ui.resolution
      /\ ui'.estimate = ui.estimate /\ (ui'.lateEstimate <=> ui.lateEstimate)
      /\ ui'.balance = shown /\ (ui'.lateBalance <=> late)
  BY <1>0, <1>1, <1>3 DEF FormPage
<1>5. calls' \in FormCalls /\ calls'.judge = calls.judge
  BY <1>0, <1>2 DEF FormCalls
<1>6. TierInv'
  BY <1>4, <1>5, FormTier
<1>7. Form!GasIsOfAmount'
  BY <1>4, FormGas
<1>8. BalanceInv'
  BY <1>1, <1>3, <1>4 DEF BalanceInv
<1> QED
  BY <1>0, <1>4, <1>5, <1>6, <1>7, <1>8 DEF FormInv, FormTypeOK

LEMMA FormEstimatedStep ==
  ASSUME FormInv, Form!Estimated
  PROVE  FormInv'
<1>0. /\ ui \in FormPage /\ calls \in FormCalls /\ world' = world /\ world \in BOOLEAN /\ calls.estimate \in FormAmount
      /\ calls' = [calls EXCEPT !.estimate = 0]
  BY FormTypes DEF Form!Estimated, FormInv, FormTypeOK
<1>1. calls' \in FormCalls /\ calls'.judge = calls.judge /\ calls'.balance = calls.balance
  BY <1>0, FormNothing DEF FormCalls
<1>2. PICK ok \in BOOLEAN :
        ui' = IF ok THEN [ui EXCEPT !.estimate = calls.estimate, !.lateEstimate = calls.estimate # ui.amount] ELSE ui
  BY DEF Form!Estimated
<1>3. CASE ~ok
  <2>1. ui' = ui
    BY <1>2, <1>3
  <2>2. TierInv' /\ Form!GasIsOfAmount' /\ BalanceInv'
    BY <1>1, <2>1, FormTier, FormGas DEF FormInv, BalanceInv
  <2> QED
    BY <1>0, <1>1, <2>1, <2>2 DEF FormInv, FormTypeOK
<1>4. CASE ok
  <2> DEFINE late == calls.estimate # ui.amount
  <2>1. ui' = [ui EXCEPT !.estimate = calls.estimate, !.lateEstimate = late]
    BY <1>2, <1>4
  <2>2. late \in BOOLEAN /\ (late <=> calls.estimate # ui.amount)
    OBVIOUS
  <2> HIDE DEF late
  <2>3. /\ ui' \in FormPage /\ ui'.amount = ui.amount /\ ui'.asset = ui.asset /\ ui'.resolution = ui.resolution
        /\ ui'.estimate = calls.estimate /\ (ui'.lateEstimate <=> late)
        /\ ui'.balance = ui.balance /\ (ui'.lateBalance <=> ui.lateBalance)
    BY <1>0, <2>1, <2>2 DEF FormPage
  <2>4. TierInv'
    BY <1>1, <2>3, FormTier
  <2>5. Form!GasIsOfAmount'
    BY <2>2, <2>3 DEF Form!GasIsOfAmount
  <2>6. BalanceInv'
    BY <1>1, <2>3 DEF FormInv, BalanceInv
  <2> QED
    BY <1>0, <1>1, <2>3, <2>4, <2>5, <2>6 DEF FormInv, FormTypeOK
<1> QED
  BY <1>3, <1>4

LEMMA FormClearedStep ==
  ASSUME FormInv, Form!Cleared
  PROVE  FormInv'
<1>0. ui \in FormPage /\ calls \in FormCalls /\ world' = world /\ world \in BOOLEAN
  BY FormTypes DEF Form!Cleared, FormInv, FormTypeOK
<1> DEFINE f == FALSE
           judge == Form!Rejudge(0, 0)
<1>1. /\ ui' = [ui EXCEPT !.amount = 0, !.asset = 0, !.sponsored = f, !.resolution = Form!Nothing, !.estimate = 0,
                          !.balance = 0]
      /\ calls' = [calls EXCEPT !.judge = judge] /\ f \in BOOLEAN
  BY DEF Form!Cleared
<1> HIDE DEF f
<1>2. /\ ui' \in FormPage /\ ui'.amount = 0 /\ ui'.asset = 0 /\ ui'.resolution = Form!Nothing /\ ui'.estimate = 0
  BY <1>0, <1>1, FormNothing DEF FormPage
<1>3. calls'.judge = judge
  BY <1>0, <1>1 DEF FormCalls
<1>4. calls'.judge \subseteq Judgement /\ TierInv'
  BY <1>2, <1>3, FormNothing, FormRejudge
<1>5. calls' \in FormCalls
  BY <1>0, <1>1, <1>3, <1>4 DEF FormCalls
<1>6. Form!GasIsOfAmount'
  BY <1>2, FormGas
<1>7. BalanceInv'
  BY <1>2 DEF BalanceInv
<1> QED
  BY <1>0, <1>2, <1>4, <1>5, <1>6, <1>7 DEF FormInv, FormTypeOK

LEMMA FormNext == FormInv /\ Form!Next => FormInv'
BY FormLoadedStep, FormEditStep, FormAssetStep, FormRefreshStep, FormJudgedStep, FormBalanceStep, FormEstimatedStep,
   FormClearedStep DEF Form!Next, FormAmount

LEMMA FormStutter == FormInv /\ UNCHANGED vars => FormInv'
BY DEF vars, FormInv, FormTypeOK, TierInv, BalanceInv, Form!GasIsOfAmount, Form!Input, Form!Nothing

LEMMA FormInvImplies == FormInv => Form!TierIsOfInput /\ Form!GasIsOfAmount /\ Form!OfferCovered
<1> SUFFICES ASSUME FormInv PROVE Form!TierIsOfInput /\ Form!GasIsOfAmount /\ Form!OfferCovered
  OBVIOUS
<1>1. Form!TierIsOfInput /\ Form!GasIsOfAmount
  BY DEF FormInv, TierInv, Form!TierIsOfInput
<1>2. Form!OfferCovered
  <2> SUFFICES ASSUME Form!SendOffered, ~ui.sponsored, calls.balance = {}, ~ui.lateBalance
               PROVE  ui.amount <= Balance[ui.asset]
    BY DEF Form!OfferCovered
  <2>1. ui.amount \in Nat \ {0} /\ ui.amount <= Form!Available
    BY FormTypes, FormAssumption DEF Form!SendOffered, FormAmount
  <2>2. CASE ui.asset = 0
    BY <2>1, <2>2 DEF Form!Available
  <2>3. CASE ui.asset # 0
    <3>1. ui.balance \in {0, ui.asset}
      BY <2>3 DEF FormInv, BalanceInv
    <3>2. ui.balance # 0
      BY <2>1, <2>3 DEF Form!Available
    <3> QED
      BY <2>1, <2>3, <3>1, <3>2 DEF Form!Available
  <2> QED
    BY <2>2, <2>3
<1> QED
  BY <1>1, <1>2

-----------------------------------------------------------------------------
(* The page of one task, for its publisher and whoever the others are.       *)
TaskUser(W) == W \cup {Publisher}
TaskRecord(W) ==
  [status : {"NotFound", "Open", "Accepted", "Submitted", "Challenged", "Finalized", "Refunded"},
   taskor : TaskUser(W) \cup {None}, expired : BOOLEAN, window : {"none", "open", "over"}, version : Nat]
TaskSent ==
  {"acceptTask", "submitWork", "approveWork", "finalizeTask", "cancelTask", "approveStake", "challengeWork",
   "linkJuryValidation"}
TaskOp == TaskSent \cup {"none"}
NoTask == [status |-> "NotFound", taskor |-> None, expired |-> FALSE, window |-> "none", version |-> 0]
TaskStep == [step : {"idle", "allowance", "send", "refresh"}, op : TaskOp]
TaskCall(W) == [user : TaskUser(W), op : TaskSent, awaited : BOOLEAN]
TaskWorld(W) == [task : TaskRecord(W), allowance : BOOLEAN, verdict : BOOLEAN, lost : Nat]

TaskTypeOK(W) ==
  /\ ui \in [TaskUser(W) -> [seen : TaskRecord(W), act : TaskStep, own : Nat]]
  /\ calls \subseteq TaskCall(W) /\ world \in TaskWorld(W)

(* A page waits for one operation, while it sends one.                       *)
AwaitedInv ==
  /\ \A c \in calls : c.awaited => ui[c.user].act.step = "send"
  /\ \A c, d \in calls : c.awaited /\ d.awaited /\ c.user = d.user => c = d

(* What a user did is no newer than the task; unless a page is about to read *)
(* the task again it has read it since, or it has not found it.              *)
OwnInv(W) ==
  \A u \in TaskUser(W) :
    /\ ui[u].own =< world.task.version
    /\ ui[u].act.step # "refresh" => ui[u].seen = NoTask \/ ui[u].seen.version >= ui[u].own

TaskInv(W) == TaskTypeOK(W) /\ AwaitedInv /\ OwnInv(W)

LEMMA TaskTypes ==
  ASSUME NEW W, TaskInv(W)
  PROVE  /\ ui \in [TaskUser(W) -> [seen : TaskRecord(W), act : TaskStep, own : Nat]]
         /\ calls \subseteq TaskCall(W) /\ world \in TaskWorld(W)
         /\ world.task \in TaskRecord(W) /\ world.task.version \in Nat
         /\ \A u \in TaskUser(W) : ui[u] \in [seen : TaskRecord(W), act : TaskStep, own : Nat]
         /\ \A c \in calls : c.user \in TaskUser(W)
BY DEF TaskInv, TaskTypeOK, TaskWorld, TaskRecord, TaskCall

LEMMA TaskIdle ==
  ASSUME NEW W, NEW L
  PROVE  /\ TaskOf(W, L)!Idle \in TaskStep /\ TaskOf(W, L)!Idle.step = "idle"
         /\ TaskOf(W, L)!NotFound = NoTask /\ NoTask \in TaskRecord(W)
         /\ TaskOf(W, L)!User = TaskUser(W)
<1> DEFINE f == FALSE
<1>1. f \in BOOLEAN
  OBVIOUS
<1>2. NoTask = [status |-> "NotFound", taskor |-> None, expired |-> f, window |-> "none", version |-> 0]
  BY DEF NoTask
<1>6. TaskOf(W, L)!NotFound = NoTask
  BY DEF TaskOf!NotFound, NoTask
<1> HIDE DEF f
<1>3. TaskOf(W, L)!Idle \in TaskStep /\ TaskOf(W, L)!Idle.step = "idle"
  BY DEF TaskOf!Idle, TaskStep, TaskOp, TaskSent
<1>4. NoTask \in TaskRecord(W)
  BY <1>1, <1>2 DEF TaskRecord
<1>5. TaskOf(W, L)!User = TaskUser(W)
  BY DEF TaskOf!User, TaskUser
<1> QED
  BY <1>3, <1>4, <1>5, <1>6

LEMMA TaskInit == ASSUME NEW W, NEW L, TaskOf(W, L)!Init PROVE TaskInv(W)
<1> DEFINE f == FALSE
           task == [status |-> "Open", taskor |-> None, expired |-> f, window |-> "none", version |-> 1]
           page == [seen |-> NoTask, act |-> TaskOf(W, L)!Idle, own |-> 0]
<1>1. /\ world = [task |-> task, allowance |-> f, verdict |-> f, lost |-> 0]
      /\ ui = [u \in TaskUser(W) |-> page] /\ calls = {}
  BY TaskIdle DEF TaskOf!Init
<1>2. f \in BOOLEAN
  OBVIOUS
<1> HIDE DEF f
<1>3. task \in TaskRecord(W) /\ task.version = 1
  BY <1>2 DEF TaskRecord
<1>4. page \in [seen : TaskRecord(W), act : TaskStep, own : Nat] /\ page.own = 0 /\ page.seen = NoTask
  BY TaskIdle
<1> HIDE DEF task, page
<1>5. world \in TaskWorld(W) /\ world.task.version = 1
  BY <1>1, <1>2, <1>3 DEF TaskWorld
<1>6. TaskTypeOK(W)
  BY <1>1, <1>4, <1>5 DEF TaskTypeOK
<1>7. AwaitedInv
  BY <1>1 DEF AwaitedInv
<1>8. OwnInv(W)
  BY <1>1, <1>4, <1>5 DEF OwnInv
<1> QED
  BY <1>6, <1>7, <1>8 DEF TaskInv

(* What one page does: its own state, and what it waits for.                 *)
LEMMA TaskPageStep ==
  ASSUME NEW W, TaskInv(W), NEW u \in TaskUser(W), NEW page \in [seen : TaskRecord(W), act : TaskStep, own : Nat],
         ui' \in [TaskUser(W) -> [seen : TaskRecord(W), act : TaskStep, own : Nat]], ui'[u] = page,
         \A v \in TaskUser(W) : v # u => ui'[v] = ui[v],
         calls' \subseteq TaskCall(W), world' \in TaskWorld(W), world'.task.version >= world.task.version,
         \A c \in calls' : c.awaited /\ c.user = u => page.act.step = "send",
         \A c, d \in calls' : c.awaited /\ c.user = u /\ d.awaited /\ d.user = u => c = d,
         \A c \in calls' : c.awaited /\ c.user # u => c \in calls,
         page.own =< world'.task.version,
         page.act.step # "refresh" => page.seen = NoTask \/ page.seen.version >= page.own
  PROVE  TaskInv(W)'
<1>1. /\ ui \in [TaskUser(W) -> [seen : TaskRecord(W), act : TaskStep, own : Nat]]
      /\ \A v \in TaskUser(W) : ui[v].own \in Nat
      /\ world.task.version \in Nat /\ world'.task.version \in Nat
  BY TaskTypes DEF TaskWorld, TaskRecord
<1>2. /\ ui' \in [TaskUser(W) -> [seen : TaskRecord(W), act : TaskStep, own : Nat]] /\ ui'[u] = page
      /\ \A v \in TaskUser(W) : v # u => ui'[v] = ui[v]
  OBVIOUS
<1>3. AwaitedInv'
  <2>1. ASSUME NEW c \in calls', c.awaited PROVE ui'[c.user].act.step = "send"
    <3>1. c.user \in TaskUser(W)
      BY DEF TaskCall
    <3>2. CASE c.user = u
      BY <1>2, <2>1, <3>2
    <3>3. CASE c.user # u
      BY <1>2, <2>1, <3>1, <3>3 DEF TaskInv, AwaitedInv
    <3> QED
      BY <3>2, <3>3
  <2>2. ASSUME NEW c \in calls', NEW d \in calls', c.awaited, d.awaited, c.user = d.user PROVE c = d
    BY <2>2 DEF TaskInv, AwaitedInv
  <2> QED
    BY <2>1, <2>2 DEF AwaitedInv
<1>4. OwnInv(W)'
  <2> SUFFICES ASSUME NEW v \in TaskUser(W)
               PROVE  /\ ui'[v].own =< world'.task.version
                      /\ ui'[v].act.step # "refresh" => ui'[v].seen = NoTask \/ ui'[v].seen.version >= ui'[v].own
    BY DEF OwnInv
  <2>1. CASE v = u
    BY <1>2, <2>1
  <2>2. CASE v # u
    <3>1. /\ ui[v].own =< world.task.version
          /\ ui[v].act.step # "refresh" => ui[v].seen = NoTask \/ ui[v].seen.version >= ui[v].own
      BY DEF TaskInv, OwnInv
    <3> QED
      BY <1>1, <1>2, <2>2, <3>1
  <2> QED
    BY <2>1, <2>2
<1> QED
  BY <1>2, <1>3, <1>4 DEF TaskInv, TaskTypeOK

(* The world moves on, and nobody's page does.                               *)
LEMMA TaskWorldStep ==
  ASSUME NEW W, TaskInv(W), ui' = ui, calls' \subseteq TaskCall(W), world' \in TaskWorld(W),
         world'.task.version >= world.task.version, \A c \in calls' : c.awaited => c \in calls
  PROVE  TaskInv(W)'
<1>1. /\ \A v \in TaskUser(W) : ui[v].own \in Nat
      /\ world.task.version \in Nat /\ world'.task.version \in Nat
  BY TaskTypes DEF TaskWorld, TaskRecord
<1>2. AwaitedInv'
  BY DEF TaskInv, AwaitedInv
<1>3. OwnInv(W)'
  BY <1>1 DEF TaskInv, OwnInv
<1> QED
  BY <1>2, <1>3 DEF TaskInv, TaskTypeOK

LEMMA TaskPassStep ==
  ASSUME NEW W, NEW L, TaskInv(W), TaskOf(W, L)!Pass
  PROVE  TaskInv(W)'
<1> DEFINE y == TRUE
<1>0. /\ ui' = ui /\ calls' = calls /\ calls \subseteq TaskCall(W) /\ world \in TaskWorld(W)
      /\ world.task \in TaskRecord(W) /\ world.task.version \in Nat /\ y \in BOOLEAN
  BY TaskTypes DEF TaskOf!Pass
<1>1. \/ world' = [world EXCEPT !.task.expired = y]
      \/ world' = [world EXCEPT !.task.window = "over"]
      \/ world' = [world EXCEPT !.verdict = y]
  BY DEF TaskOf!Pass
<1> HIDE DEF y
<1>2. world' \in TaskWorld(W) /\ world'.task.version = world.task.version
  BY <1>0, <1>1 DEF TaskWorld, TaskRecord
<1> QED
  BY <1>0, <1>2, TaskWorldStep

LEMMA TaskLoadsStep ==
  ASSUME NEW W, NEW L, TaskInv(W), NEW u \in TaskUser(W), TaskOf(W, L)!Loads(u) \/ TaskOf(W, L)!Refresh(u)
  PROVE  TaskInv(W)'
<1>0. /\ calls' = calls /\ world' = world /\ calls \subseteq TaskCall(W) /\ world \in TaskWorld(W)
      /\ ui[u] \in [seen : TaskRecord(W), act : TaskStep, own : Nat] /\ ui[u].own \in Nat
      /\ world.task \in TaskRecord(W) /\ world.task.version \in Nat /\ ui[u].act.step \in {"idle", "refresh"}
  BY TaskTypes, TaskIdle DEF TaskOf!Loads, TaskOf!Refresh
<1> DEFINE idle == TaskOf(W, L)!Idle
           notFound == NoTask
<1>1. PICK t \in {world.task, notFound} :
        \/ ui' = [ui EXCEPT ![u].seen = t] /\ ui[u].act = idle
        \/ ui' = [ui EXCEPT ![u].seen = t, ![u].act = idle]
  BY TaskIdle DEF TaskOf!Loads, TaskOf!Refresh, TaskOf!Read
<1>2. idle \in TaskStep /\ idle.step = "idle" /\ notFound \in TaskRecord(W)
  BY TaskIdle
<1> HIDE DEF idle
<1>3. t \in TaskRecord(W) /\ (t = NoTask \/ t.version = world.task.version)
  BY <1>0, <1>1, <1>2
<1>4. ui \in [TaskUser(W) -> [seen : TaskRecord(W), act : TaskStep, own : Nat]]
  BY TaskTypes
<1>5. /\ ui' \in [TaskUser(W) -> [seen : TaskRecord(W), act : TaskStep, own : Nat]]
      /\ ui'[u].act.step = "idle" /\ ui'[u].seen = t /\ ui'[u].own = ui[u].own
      /\ \A v \in TaskUser(W) : v # u => ui'[v] = ui[v]
  <2>1. CASE ui' = [ui EXCEPT ![u].seen = t] /\ ui[u].act = idle
    BY <1>2, <1>3, <1>4, <2>1
  <2>2. CASE ui' = [ui EXCEPT ![u].seen = t, ![u].act = idle]
    BY <1>2, <1>3, <1>4, <2>2
  <2> QED
    BY <1>1, <2>1, <2>2
<1>6. PICK page \in [seen : TaskRecord(W), act : TaskStep, own : Nat] :
        ui'[u] = page /\ page.act.step = "idle" /\ page.seen = t /\ page.own = ui[u].own
  BY <1>5
<1>7. \A c \in calls' : c.awaited => c.user # u
  BY <1>0 DEF TaskInv, AwaitedInv
<1>8. ui[u].own =< world.task.version
  BY DEF TaskInv, OwnInv
<1>9. page.seen = NoTask \/ page.seen.version >= page.own
  BY <1>0, <1>3, <1>6, <1>8
<1>10. world'.task.version >= world.task.version /\ page.own =< world'.task.version
  BY <1>0, <1>6, <1>8
<1>11. \A c \in calls' : c.awaited => c \in calls /\ c.user # u
  BY <1>0, <1>7
<1> QED
  BY <1>0, <1>5, <1>6, <1>9, <1>10, <1>11, TaskPageStep

LEMMA TaskChallengeStep ==
  ASSUME NEW W, NEW L, TaskInv(W), NEW u \in TaskUser(W), TaskOf(W, L)!Challenge(u)
  PROVE  TaskInv(W)'
<1> DEFINE act == [step |-> "allowance", op |-> "challengeWork"]
<1>a. act \in TaskStep /\ act.step = "allowance"
  BY DEF TaskStep, TaskOp, TaskSent
<1>b. calls' = calls /\ world' = world /\ ui[u].act.step = "idle" /\ ui' = [ui EXCEPT ![u].act = act]
  BY TaskIdle DEF TaskOf!Challenge
<1>0. /\ calls' = calls /\ world' = world /\ calls \subseteq TaskCall(W) /\ world \in TaskWorld(W)
      /\ ui[u] \in [seen : TaskRecord(W), act : TaskStep, own : Nat] /\ ui[u].own \in Nat
      /\ world.task.version \in Nat /\ ui[u].act.step = "idle"
      /\ ui' = [ui EXCEPT ![u].act = act] /\ act \in TaskStep /\ act.step = "allowance"
  BY <1>a, <1>b, TaskTypes
<1> HIDE DEF act
<1>1. PICK page : page = [seen |-> ui[u].seen, act |-> act, own |-> ui[u].own]
  OBVIOUS
<1>2. /\ page \in [seen : TaskRecord(W), act : TaskStep, own : Nat] /\ page.act.step = "allowance"
      /\ page.seen = ui[u].seen /\ page.own = ui[u].own
  BY <1>0, <1>1
<1>3. /\ ui' \in [TaskUser(W) -> [seen : TaskRecord(W), act : TaskStep, own : Nat]] /\ ui'[u] = page
      /\ \A v \in TaskUser(W) : v # u => ui'[v] = ui[v]
  <2>1. /\ ui \in [TaskUser(W) -> [seen : TaskRecord(W), act : TaskStep, own : Nat]]
        /\ [ui[u] EXCEPT !.act = act] = page
    BY <1>0, <1>1, TaskTypes
  <2> QED
    BY <1>0, <2>1
<1>4. \A c \in calls' : c.awaited => c.user # u
  BY <1>0 DEF TaskInv, AwaitedInv
<1>5. /\ ui[u].own =< world.task.version
      /\ ui[u].seen = NoTask \/ ui[u].seen.version >= ui[u].own
  BY <1>0 DEF TaskInv, OwnInv
<1>6. world'.task.version >= world.task.version /\ page.own =< world'.task.version
  BY <1>0, <1>2, <1>5
<1>7. \A c \in calls' : c.awaited => c \in calls /\ c.user # u
  BY <1>0, <1>4
<1>8. page.seen = NoTask \/ page.seen.version >= page.own
  BY <1>2, <1>5
<1> QED
  BY <1>0, <1>2, <1>3, <1>6, <1>7, <1>8, TaskPageStep

(* A page that waits for nothing sends an operation.                         *)
LEMMA TaskSendStep ==
  ASSUME NEW W, TaskInv(W), NEW u \in TaskUser(W), NEW op \in TaskSent, ui[u].act.step \in {"idle", "allowance"},
         ui' = [ui EXCEPT ![u].act = [step |-> "send", op |-> op]],
         calls' = calls \cup {[user |-> u, op |-> op, awaited |-> TRUE]}, world' = world
  PROVE  TaskInv(W)'
<1> DEFINE act == [step |-> "send", op |-> op]
           y == TRUE
<1>0. /\ calls \subseteq TaskCall(W) /\ world \in TaskWorld(W)
      /\ ui[u] \in [seen : TaskRecord(W), act : TaskStep, own : Nat] /\ ui[u].own \in Nat
      /\ world.task.version \in Nat /\ y \in BOOLEAN
      /\ ui' = [ui EXCEPT ![u].act = act] /\ act \in TaskStep /\ act.step = "send"
  <2>1. act \in TaskStep /\ act.step = "send" /\ y \in BOOLEAN
    BY DEF TaskStep, TaskOp
  <2> QED
    BY <2>1, TaskTypes
<1>c. PICK c : c = [user |-> u, op |-> op, awaited |-> y]
  OBVIOUS
<1>d. calls' = calls \cup {c}
  BY <1>c
<1> HIDE DEF act, y
<1>e. c \in TaskCall(W) /\ c.user = u
  BY <1>0, <1>c DEF TaskCall
<1>1. PICK page : page = [seen |-> ui[u].seen, act |-> act, own |-> ui[u].own]
  OBVIOUS
<1>2. /\ page \in [seen : TaskRecord(W), act : TaskStep, own : Nat] /\ page.act.step = "send"
      /\ page.seen = ui[u].seen /\ page.own = ui[u].own
  BY <1>0, <1>1
<1>3. /\ ui' \in [TaskUser(W) -> [seen : TaskRecord(W), act : TaskStep, own : Nat]] /\ ui'[u] = page
      /\ \A v \in TaskUser(W) : v # u => ui'[v] = ui[v]
  <2>1. /\ ui \in [TaskUser(W) -> [seen : TaskRecord(W), act : TaskStep, own : Nat]]
        /\ [ui[u] EXCEPT !.act = act] = page
    BY <1>0, <1>1, TaskTypes
  <2> QED
    BY <1>0, <2>1
<1>4. \A d \in calls : d.awaited => d.user # u
  BY DEF TaskInv, AwaitedInv
<1>5. /\ ui[u].own =< world.task.version
      /\ ui[u].seen = NoTask \/ ui[u].seen.version >= ui[u].own
  BY DEF TaskInv, OwnInv
<1>6. calls' \subseteq TaskCall(W) /\ \A d \in calls' : d.awaited /\ d.user = u => d = c
  BY <1>0, <1>d, <1>e, <1>4
<1>7. world'.task.version >= world.task.version /\ page.own =< world'.task.version
  BY <1>0, <1>2, <1>5
<1>8. /\ \A d, e \in calls' : d.awaited /\ d.user = u /\ e.awaited /\ e.user = u => d = e
      /\ \A d \in calls' : d.awaited /\ d.user # u => d \in calls
  BY <1>d, <1>e, <1>6
<1>9. page.seen = NoTask \/ page.seen.version >= page.own
  BY <1>2, <1>5
<1>10. world' \in TaskWorld(W)
  BY <1>0
<1> QED
  BY <1>2, <1>3, <1>6, <1>7, <1>8, <1>9, <1>10, TaskPageStep

(* What an awaited operation came to.                                        *)
LEMMA TaskAnsweredStep ==
  ASSUME NEW W, NEW L, TaskInv(W), NEW c \in calls, c.awaited, NEW own \in Nat, TaskOf(W, L)!Answered(c, own),
         world' \in TaskWorld(W), world'.task.version >= world.task.version, own =< world'.task.version
  PROVE  TaskInv(W)'
<1> DEFINE u == c.user
           y == TRUE
<1>0. /\ calls \subseteq TaskCall(W) /\ u \in TaskUser(W) /\ y \in BOOLEAN
      /\ ui \in [TaskUser(W) -> [seen : TaskRecord(W), act : TaskStep, own : Nat]]
      /\ ui[u] \in [seen : TaskRecord(W), act : TaskStep, own : Nat] /\ ui[u].own \in Nat /\ ui[u].act \in TaskStep
      /\ world.task.version \in Nat /\ world'.task.version \in Nat /\ ui[u].act.step = "send"
      /\ \A d \in calls : d.awaited /\ d.user = u => d = c
  BY TaskTypes DEF TaskInv, AwaitedInv, TaskWorld, TaskRecord
<1>1. /\ ui[u].own =< world.task.version
      /\ ui[u].seen = NoTask \/ ui[u].seen.version >= ui[u].own
  BY <1>0 DEF TaskInv, OwnInv
<1>2. CASE c.op = "approveStake"
  <2> DEFINE act == [step |-> "send", op |-> "challengeWork"]
  <2>1. PICK d : d = [user |-> u, op |-> "challengeWork", awaited |-> y]
    OBVIOUS
  <2>2. ui' = [ui EXCEPT ![u].act = act] /\ calls' = (calls \ {c}) \cup {d}
    BY <1>2, <2>1 DEF TaskOf!Answered
  <2>3. act \in TaskStep /\ act.step = "send"
    BY DEF TaskStep, TaskOp, TaskSent
  <2> HIDE DEF act, y, u
  <2>4. d \in TaskCall(W) /\ d.user = u
    BY <1>0, <2>1 DEF TaskCall, TaskSent
  <2>5. /\ ui' \in [TaskUser(W) -> [seen : TaskRecord(W), act : TaskStep, own : Nat]]
        /\ ui'[u].act.step = "send" /\ ui'[u].seen = ui[u].seen /\ ui'[u].own = ui[u].own
        /\ \A v \in TaskUser(W) : v # u => ui'[v] = ui[v]
    BY <1>0, <2>2, <2>3
  <2>6. PICK page \in [seen : TaskRecord(W), act : TaskStep, own : Nat] :
          ui'[u] = page /\ page.act.step = "send" /\ page.seen = ui[u].seen /\ page.own = ui[u].own
    BY <1>0, <2>5
  <2>8. calls' \subseteq TaskCall(W) /\ \A e \in calls' : e.awaited /\ e.user = u => e = d
    BY <1>0, <2>2, <2>4
  <2>9. \A e \in calls' : e.awaited /\ e.user # u => e \in calls
    BY <2>2, <2>4
  <2>10. page.own =< world'.task.version
    BY <1>0, <1>1, <2>6
  <2>11. \A e, f \in calls' : e.awaited /\ e.user = u /\ f.awaited /\ f.user = u => e = f
    BY <2>8
  <2>12. page.seen = NoTask \/ page.seen.version >= page.own
    BY <1>1, <2>6
  <2> QED
    BY <1>0, <2>5, <2>6, <2>8, <2>9, <2>10, <2>11, <2>12, TaskPageStep
<1>3. CASE c.op # "approveStake"
  <2> DEFINE act == [step |-> "refresh", op |-> ui[u].act.op]
  <2>1. ui' = [ui EXCEPT ![u].act = [step |-> "refresh", op |-> @.op], ![u].own = own] /\ calls' = calls \ {c}
    BY <1>3 DEF TaskOf!Answered, TaskOf!Done
  <2>2. act \in TaskStep /\ act.step = "refresh"
    BY <1>0 DEF TaskStep
  <2>3. ui' = [ui EXCEPT ![u].act = act, ![u].own = own]
    BY <1>0, <2>1
  <2> HIDE DEF u, act
  <2>4. /\ ui' \in [TaskUser(W) -> [seen : TaskRecord(W), act : TaskStep, own : Nat]]
        /\ ui'[u].act.step = "refresh" /\ ui'[u].own = own
        /\ \A v \in TaskUser(W) : v # u => ui'[v] = ui[v]
    BY <1>0, <2>2, <2>3
  <2>5. PICK page \in [seen : TaskRecord(W), act : TaskStep, own : Nat] :
          ui'[u] = page /\ page.act.step = "refresh" /\ page.own = own
    BY <1>0, <2>4
  <2>6. \A e \in calls' : e \in calls /\ (e.awaited => e.user # u)
    BY <1>0, <2>1
  <2>7. /\ calls' \subseteq TaskCall(W)
        /\ \A e \in calls' : e.awaited /\ e.user = u => page.act.step = "send"
        /\ \A e, f \in calls' : e.awaited /\ e.user = u /\ f.awaited /\ f.user = u => e = f
    BY <1>0, <2>6
  <2> QED
    BY <1>0, <2>4, <2>5, <2>6, <2>7, TaskPageStep
<1> QED
  BY <1>2, <1>3

(* The page gave up, or what it waited for did.                              *)
LEMMA TaskStopStep ==
  ASSUME NEW W, NEW L, TaskInv(W), NEW u \in TaskUser(W), ui[u].act.step \in {"send", "allowance"},
         ui' = TaskOf(W, L)!Failed(u),
         \A d \in calls' : d \in TaskCall(W) /\ (d.awaited => d \in calls /\ d.user # u),
         world' \in TaskWorld(W), world'.task = world.task
  PROVE  TaskInv(W)'
<1> DEFINE idle == TaskOf(W, L)!Idle
<1>0. /\ calls \subseteq TaskCall(W)
      /\ ui \in [TaskUser(W) -> [seen : TaskRecord(W), act : TaskStep, own : Nat]]
      /\ ui[u] \in [seen : TaskRecord(W), act : TaskStep, own : Nat] /\ ui[u].own \in Nat
      /\ world.task.version \in Nat /\ ui[u].act.step # "refresh"
  BY TaskTypes DEF TaskInv
<1>1. /\ ui[u].own =< world.task.version
      /\ ui[u].seen = NoTask \/ ui[u].seen.version >= ui[u].own
  BY <1>0 DEF TaskInv, OwnInv
<1>2. idle \in TaskStep /\ idle.step = "idle" /\ ui' = [ui EXCEPT ![u].act = idle]
  BY TaskIdle DEF TaskOf!Failed
<1> HIDE DEF idle
<1>3. PICK page : page = [seen |-> ui[u].seen, act |-> idle, own |-> ui[u].own]
  OBVIOUS
<1>4. /\ page \in [seen : TaskRecord(W), act : TaskStep, own : Nat] /\ page.act.step = "idle"
      /\ page.seen = ui[u].seen /\ page.own = ui[u].own
  BY <1>0, <1>2, <1>3
<1>5. /\ ui' \in [TaskUser(W) -> [seen : TaskRecord(W), act : TaskStep, own : Nat]] /\ ui'[u] = page
      /\ \A v \in TaskUser(W) : v # u => ui'[v] = ui[v]
  <2>1. [ui[u] EXCEPT !.act = idle] = page
    BY <1>0, <1>3
  <2> QED
    BY <1>0, <1>2, <2>1
<1>7. world'.task.version >= world.task.version /\ page.own =< world'.task.version
  BY <1>0, <1>1, <1>4
<1>8. /\ calls' \subseteq TaskCall(W)
      /\ \A e \in calls' : e.awaited /\ e.user = u => page.act.step = "send"
      /\ \A e, f \in calls' : e.awaited /\ e.user = u /\ f.awaited /\ f.user = u => e = f
      /\ \A e \in calls' : e.awaited /\ e.user # u => e \in calls
  OBVIOUS
<1>9. page.seen = NoTask \/ page.seen.version >= page.own
  BY <1>1, <1>4
<1> QED
  BY <1>0, <1>4, <1>5, <1>7, <1>8, <1>9, TaskPageStep

LEMMA TaskFailedStep ==
  ASSUME NEW W, NEW L, TaskInv(W), NEW c \in calls, c.awaited, ui' = TaskOf(W, L)!Failed(c.user),
         \A d \in calls' : d \in calls \ {c} \/ (d \in TaskCall(W) /\ ~d.awaited),
         world' \in TaskWorld(W), world'.task = world.task
  PROVE  TaskInv(W)'
<1>1. /\ calls \subseteq TaskCall(W) /\ c.user \in TaskUser(W) /\ ui[c.user].act.step = "send"
      /\ \A d \in calls : d.awaited /\ d.user = c.user => d = c
  BY TaskTypes DEF TaskInv, AwaitedInv
<1>2. \A d \in calls' : d \in TaskCall(W) /\ (d.awaited => d \in calls /\ d.user # c.user)
  BY <1>1
<1> QED
  BY <1>1, <1>2, TaskStopStep

(* What the contract makes of an operation it accepts.                       *)
LEMMA TaskEffect ==
  ASSUME NEW W, NEW L, TaskInv(W), NEW u \in TaskUser(W), NEW op \in TaskOf(W, L)!Operations,
         NEW w \in TaskOf(W, L)!Effect(u, op)
  PROVE  w \in TaskWorld(W) /\ w.task.version \in Nat /\ w.task.version >= world.task.version
<1> DEFINE y == TRUE
           f == FALSE
           n == world.task.version + 1
<1>0. /\ world \in TaskWorld(W) /\ world.task \in TaskRecord(W) /\ world.task.version \in Nat
      /\ n \in Nat /\ n > world.task.version /\ y \in BOOLEAN /\ f \in BOOLEAN
  BY TaskTypes
<1>1. \/ w = [world EXCEPT !.task.status = "Accepted", !.task.taskor = u, !.task.version = @ + 1]
      \/ w = [world EXCEPT !.task.status = "Submitted", !.task.window = "open", !.task.version = @ + 1]
      \/ \E s \in {"Finalized", "Refunded"} : w = [world EXCEPT !.task.status = s, !.task.version = @ + 1]
      \/ w = [world EXCEPT !.allowance = y]
      \/ w = [[world EXCEPT !.task.status = "Challenged", !.task.version = @ + 1] EXCEPT !.allowance = f]
  BY DEF TaskOf!Effect, TaskOf!Become, TaskOf!Operations
<1>2. \/ w = [world EXCEPT !.task.status = "Accepted", !.task.taskor = u, !.task.version = n]
      \/ w = [world EXCEPT !.task.status = "Submitted", !.task.window = "open", !.task.version = n]
      \/ \E s \in {"Finalized", "Refunded"} : w = [world EXCEPT !.task.status = s, !.task.version = n]
      \/ w = [world EXCEPT !.allowance = y]
      \/ w = [world EXCEPT !.task.status = "Challenged", !.task.version = n, !.allowance = f]
  BY <1>0, <1>1 DEF TaskWorld, TaskRecord
<1> HIDE DEF y, f, n
<1>3. CASE w = [world EXCEPT !.task.status = "Accepted", !.task.taskor = u, !.task.version = n]
  <2>1. PICK t : t = [world.task EXCEPT !.status = "Accepted", !.taskor = u, !.version = n]
    OBVIOUS
  <2>2. t \in TaskRecord(W) /\ t.version = n
    BY <1>0, <2>1 DEF TaskRecord
  <2>3. w = [world EXCEPT !.task = t]
    BY <1>0, <1>3, <2>1 DEF TaskWorld, TaskRecord
  <2> QED
    BY <1>0, <2>2, <2>3 DEF TaskWorld
<1>4. CASE w = [world EXCEPT !.task.status = "Submitted", !.task.window = "open", !.task.version = n]
  <2>1. PICK t : t = [world.task EXCEPT !.status = "Submitted", !.window = "open", !.version = n]
    OBVIOUS
  <2>2. t \in TaskRecord(W) /\ t.version = n
    BY <1>0, <2>1 DEF TaskRecord
  <2>3. w = [world EXCEPT !.task = t]
    BY <1>0, <1>4, <2>1 DEF TaskWorld, TaskRecord
  <2> QED
    BY <1>0, <2>2, <2>3 DEF TaskWorld
<1>5. ASSUME NEW s \in {"Finalized", "Refunded"}, w = [world EXCEPT !.task.status = s, !.task.version = n]
      PROVE  w \in TaskWorld(W) /\ w.task.version \in Nat /\ w.task.version >= world.task.version
  <2>1. PICK t : t = [world.task EXCEPT !.status = s, !.version = n]
    OBVIOUS
  <2>2. t \in TaskRecord(W) /\ t.version = n
    BY <1>0, <2>1 DEF TaskRecord
  <2>3. w = [world EXCEPT !.task = t]
    BY <1>0, <1>5, <2>1 DEF TaskWorld, TaskRecord
  <2> QED
    BY <1>0, <2>2, <2>3 DEF TaskWorld
<1>6. CASE w = [world EXCEPT !.allowance = y]
  BY <1>0, <1>6 DEF TaskWorld, TaskRecord
<1>7. CASE w = [world EXCEPT !.task.status = "Challenged", !.task.version = n, !.allowance = f]
  <2>1. PICK t : t = [world.task EXCEPT !.status = "Challenged", !.version = n]
    OBVIOUS
  <2>2. t \in TaskRecord(W) /\ t.version = n
    BY <1>0, <2>1 DEF TaskRecord
  <2>3. w = [world EXCEPT !.task = t, !.allowance = f]
    BY <1>0, <1>7, <2>1 DEF TaskWorld, TaskRecord
  <2>4. w \in TaskWorld(W) /\ w.task = t
    BY <1>0, <2>2, <2>3 DEF TaskWorld
  <2> QED
    BY <1>0, <2>2, <2>4
<1> QED
  BY <1>2, <1>3, <1>4, <1>5, <1>6, <1>7

LEMMA TaskSendsStep ==
  ASSUME NEW W, NEW L, TaskInv(W), NEW u \in TaskUser(W),
         TaskOf(W, L)!Allowance(u) \/ \E op \in TaskOf(W, L)!Operations : TaskOf(W, L)!Click(u, op)
  PROVE  TaskInv(W)'
<1>1. CASE TaskOf(W, L)!Allowance(u)
  <2>0. ui[u].act.step = "allowance" /\ world' = world
    BY <1>1 DEF TaskOf!Allowance
  <2>1. ASSUME NEW op \in {"challengeWork", "approveStake"},
               ui' = [ui EXCEPT ![u].act = [step |-> "send", op |-> op]], TaskOf(W, L)!Sent(u, op)
        PROVE  TaskInv(W)'
    <3>1. op \in TaskSent
      BY DEF TaskSent
    <3>2. calls' = calls \cup {[user |-> u, op |-> op, awaited |-> TRUE]}
      BY <2>1 DEF TaskOf!Sent
    <3> QED
      BY <2>0, <2>1, <3>1, <3>2, TaskSendStep
  <2>2. CASE ui' = TaskOf(W, L)!Failed(u) /\ calls' = calls
    <3>1. /\ \A d \in calls' : d \in TaskCall(W) /\ (d.awaited => d \in calls /\ d.user # u)
          /\ world' \in TaskWorld(W)
      BY <2>0, <2>2, TaskTypes DEF TaskInv, AwaitedInv
    <3> QED
      BY <2>0, <2>2, <3>1, TaskStopStep
  <2>3. \/ \E op \in {"challengeWork", "approveStake"} :
             ui' = [ui EXCEPT ![u].act = [step |-> "send", op |-> op]] /\ TaskOf(W, L)!Sent(u, op)
        \/ ui' = TaskOf(W, L)!Failed(u) /\ calls' = calls
    BY <1>1 DEF TaskOf!Allowance
  <2> QED
    BY <2>1, <2>2, <2>3
<1>2. CASE \E op \in TaskOf(W, L)!Operations : TaskOf(W, L)!Click(u, op)
  <2>1. PICK op \in TaskOf(W, L)!Operations : TaskOf(W, L)!Click(u, op)
    BY <1>2
  <2>2. op \in TaskSent
    BY <2>1 DEF TaskSent, TaskOf!Operations
  <2>3. /\ calls' = calls \cup {[user |-> u, op |-> op, awaited |-> TRUE]}
        /\ ui' = [ui EXCEPT ![u].act = [step |-> "send", op |-> op]] /\ world' = world
    BY <2>1 DEF TaskOf!Click, TaskOf!Sent
  <2>4. ui[u].act.step = "idle"
    BY <2>1, TaskIdle DEF TaskOf!Click
  <2> QED
    BY <2>2, <2>3, <2>4, TaskSendStep
<1> QED
  BY <1>1, <1>2

LEMMA TaskLandStep ==
  ASSUME NEW W, NEW L, TaskInv(W), NEW c \in calls, TaskOf(W, L)!Land(c)
  PROVE  TaskInv(W)'
<1>1. c \in TaskCall(W) /\ c.user \in TaskUser(W) /\ calls \subseteq TaskCall(W) /\ c.awaited \in BOOLEAN
  BY TaskTypes DEF TaskCall
<1>2. c.op \in TaskOf(W, L)!Operations
  BY <1>1 DEF TaskOf!Operations, TaskCall, TaskSent
<1>3. world' \in TaskWorld(W) /\ world'.task.version \in Nat /\ world'.task.version >= world.task.version
  BY <1>1, <1>2, TaskEffect DEF TaskOf!Land
<1>4. CASE c.awaited
  <2>1. TaskOf(W, L)!Answered(c, world'.task.version)
    BY <1>4 DEF TaskOf!Land
  <2>2. PICK own \in Nat : own = world'.task.version
    BY <1>3
  <2>3. own =< world'.task.version
    BY <1>3, <2>2
  <2> QED
    BY <1>3, <1>4, <2>1, <2>2, <2>3, TaskAnsweredStep
<1>5. CASE ~c.awaited
  <2>1. calls' = calls \ {c} /\ ui' = ui
    BY <1>5 DEF TaskOf!Land
  <2>2. calls' \subseteq TaskCall(W) /\ \A d \in calls' : d.awaited => d \in calls
    BY <1>1, <2>1
  <2> QED
    BY <1>3, <2>1, <2>2, TaskWorldStep
<1> QED
  BY <1>4, <1>5

LEMMA TaskRevertStep ==
  ASSUME NEW W, NEW L, TaskInv(W), NEW c \in calls,
         TaskOf(W, L)!Revert(c) \/ TaskOf(W, L)!Drop(c) \/ TaskOf(W, L)!GiveUp(c)
  PROVE  TaskInv(W)'
<1>1. /\ c \in TaskCall(W) /\ c.user \in TaskUser(W) /\ calls \subseteq TaskCall(W) /\ c.awaited \in BOOLEAN
      /\ world \in TaskWorld(W) /\ world.task.version \in Nat /\ ui[c.user].own \in Nat
      /\ ui[c.user].own =< world.task.version
  BY TaskTypes DEF TaskCall, TaskInv, OwnInv
<1>2. CASE calls' = calls \ {c} /\ ui' = TaskOf(W, L)!Failed(c.user) /\ c.awaited /\ world' = world
  <2>1. \A d \in calls' : d \in calls \ {c} \/ (d \in TaskCall(W) /\ ~d.awaited)
    BY <1>2
  <2>2. world' \in TaskWorld(W) /\ world'.task = world.task
    BY <1>1, <1>2
  <2> QED
    BY <1>2, <2>1, <2>2, TaskFailedStep
<1>3. CASE TaskOf(W, L)!Revert(c) /\ ~c.awaited
  <2>1. ui' = ui /\ world' = world /\ calls' \subseteq TaskCall(W) /\ \A d \in calls' : d.awaited => d \in calls
    BY <1>1, <1>3 DEF TaskOf!Revert
  <2>2. world' \in TaskWorld(W) /\ world'.task.version >= world.task.version
    BY <1>1, <2>1
  <2> QED
    BY <2>1, <2>2, TaskWorldStep
<1>4. CASE TaskOf(W, L)!Answered(c, ui[c.user].own) /\ c.awaited /\ world' = world
  <2>1. PICK own \in Nat : own = ui[c.user].own
    BY <1>1
  <2>2. world' \in TaskWorld(W) /\ world'.task.version >= world.task.version /\ own =< world'.task.version
    BY <1>1, <1>4, <2>1
  <2> QED
    BY <1>4, <2>1, <2>2, TaskAnsweredStep
<1>5. CASE TaskOf(W, L)!GiveUp(c)
  <2> DEFINE f == FALSE
             n == world.lost + 1
  <2>1. f \in BOOLEAN /\ ~f /\ n \in Nat
    BY <1>1 DEF TaskWorld
  <2>2. PICK d : d = [c EXCEPT !.awaited = f]
    OBVIOUS
  <2>3. /\ calls' = (calls \ {c}) \cup {d} /\ world' = [world EXCEPT !.lost = n] /\ c.awaited
        /\ ui' = TaskOf(W, L)!Failed(c.user)
    BY <1>1, <1>5, <2>2 DEF TaskOf!GiveUp, TaskWorld
  <2> HIDE DEF f, n
  <2>4. d \in TaskCall(W) /\ ~d.awaited
    BY <1>1, <2>1, <2>2 DEF TaskCall
  <2>5. world' \in TaskWorld(W) /\ world'.task = world.task
    BY <1>1, <2>1, <2>3 DEF TaskWorld
  <2>6. \A e \in calls' : e \in calls \ {c} \/ (e \in TaskCall(W) /\ ~e.awaited)
    BY <2>3, <2>4
  <2> QED
    BY <2>3, <2>5, <2>6, TaskFailedStep
<1> QED
  BY <1>2, <1>3, <1>4, <1>5 DEF TaskOf!Revert, TaskOf!Drop

LEMMA TaskNext == ASSUME NEW W, NEW L, TaskInv(W), TaskOf(W, L)!Next PROVE TaskInv(W)'
<1>1. TaskOf(W, L)!User = TaskUser(W)
  BY TaskIdle
<1> QED
  BY <1>1, TaskPassStep, TaskLoadsStep, TaskChallengeStep, TaskSendsStep, TaskLandStep, TaskRevertStep DEF TaskOf!Next

LEMMA TaskStutter == ASSUME NEW W, TaskInv(W), UNCHANGED vars PROVE TaskInv(W)'
<1>1. /\ ui' = ui /\ world' = world /\ calls' = calls /\ world \in TaskWorld(W) /\ calls \subseteq TaskCall(W)
      /\ world.task.version \in Nat
  BY TaskTypes DEF vars
<1>2. calls' \subseteq TaskCall(W) /\ world' \in TaskWorld(W) /\ world'.task.version >= world.task.version
  BY <1>1
<1> QED
  BY <1>1, <1>2, TaskWorldStep

LEMMA TaskInvImplies == ASSUME NEW W, NEW L, TaskInv(W) PROVE TaskOf(W, L)!OwnEffectSeen
<1>1. SUFFICES ASSUME NEW u \in TaskUser(W), ui[u].act.step = "idle", ui[u].seen # TaskOf(W, L)!NotFound
               PROVE  ui[u].seen.version >= ui[u].own
  BY TaskIdle DEF TaskOf!OwnEffectSeen
<1>2. TaskOf(W, L)!NotFound = NoTask
  BY TaskIdle
<1> QED
  BY <1>1, <1>2 DEF TaskInv, OwnInv

(* What the page offers on the task as it is, the contract accepts. *)
LEMMA TaskOffered == ASSUME NEW W, NEW L PROVE TaskOf(W, L)!OfferedIsAccepted
<1> SUFFICES ASSUME NEW u \in TaskOf(W, L)!User, ui[u].seen = world.task,
                    NEW op \in TaskOf(W, L)!Offered(u) \ {"challengeWork", "linkJuryValidation"}
             PROVE  TaskOf(W, L)!Accepts(u, op)
  BY DEF TaskOf!OfferedIsAccepted
<1>1. CASE op = "acceptTask"
  BY <1>1 DEF TaskOf!Offered, TaskOf!Accepts, TaskOf!Claimable
<1>2. CASE op = "submitWork"
  BY <1>2 DEF TaskOf!Offered, TaskOf!Accepts, TaskOf!Submittable
<1>3. CASE op = "approveWork"
  BY <1>3 DEF TaskOf!Offered, TaskOf!Accepts, TaskOf!Approvable
<1>4. CASE op = "finalizeTask"
  BY <1>4 DEF TaskOf!Offered, TaskOf!Accepts, TaskOf!Finalizable
<1>5. CASE op = "cancelTask"
  BY <1>5 DEF TaskOf!Offered, TaskOf!Accepts, TaskOf!Cancellable
<1> QED
  BY <1>1, <1>2, <1>3, <1>4, <1>5 DEF TaskOf!Offered

-----------------------------------------------------------------------------
(* The page that posts a task.                                               *)
CreatePage ==
  [reward : Reward \cup {0}, step : {"form", "allowance", "approved", "receipt", "approve", "create"},
   sends : Nat, told : Nat]
CreateWorld == [allowance : Nat, tasks : Nat, sent : Nat, unsure : Nat]
CreateCall == [n : Nat, kind : {"approve", "create"}, amount : Nat, awaited : BOOLEAN]

CreateTypeOK == ui \in CreatePage /\ world \in CreateWorld /\ calls \subseteq CreateCall

(* The page awaits one operation, that of its step. *)
AwaitInv ==
  /\ \A c \in calls : c.n =< world.sent
  /\ \A c, d \in calls : c.n = d.n \/ (c.awaited /\ d.awaited) => c = d
  /\ \A c \in calls : c.awaited => ui.step = c.kind /\ c.amount = ui.sends

(* An operation that the page lost sight of may post a task. *)
Lost == {c \in calls : ~c.awaited}
Read == IF ui.step = "receipt" THEN 1 ELSE 0

PostedInv == IsFiniteSet(Lost) /\ world.tasks + Cardinality(Lost) =< ui.told + world.unsure + Read

FundedInv ==
  world.unsure = 0 =>
    /\ Lost = {}
    /\ ui.step = "approved" => world.allowance >= ui.sends
    /\ \A c \in calls : c.kind = "create" => world.allowance >= c.amount

CreateInv == CreateTypeOK /\ AwaitInv /\ PostedInv /\ FundedInv

LEMMA CreateTypes ==
  ASSUME CreateInv
  PROVE  /\ ui \in CreatePage /\ world \in CreateWorld /\ calls \subseteq CreateCall
         /\ ui.told \in Nat /\ ui.sends \in Nat /\ world.allowance \in Nat /\ world.tasks \in Nat /\ world.sent \in Nat
         /\ world.unsure \in Nat /\ Read \in {0, 1} /\ (Read = 1 <=> ui.step = "receipt")
         /\ IsFiniteSet(Lost) /\ Cardinality(Lost) \in Nat
         /\ world.tasks + Cardinality(Lost) =< ui.told + world.unsure + Read
BY FS_CardinalityType DEF CreateInv, CreateTypeOK, CreatePage, CreateWorld, PostedInv, Read

LEMMA CreateInit == Create!Init => CreateInv
<1> SUFFICES ASSUME Create!Init PROVE CreateInv
  OBVIOUS
<1>1. /\ ui \in CreatePage /\ ui.told = 0 /\ ui.step = "form" /\ ui.sends = 0
      /\ world \in CreateWorld /\ world.tasks = 0 /\ world.unsure = 0 /\ calls = {}
  BY DEF Create!Init, CreatePage, CreateWorld
<1>2. Lost = {} /\ Read = 0
  BY <1>1 DEF Lost, Read
<1>3. PostedInv
  BY <1>1, <1>2, FS_EmptySet DEF PostedInv
<1> QED
  BY <1>1, <1>2, <1>3 DEF CreateInv, CreateTypeOK, AwaitInv, FundedInv

(* The form and the awaits without an operation. *)
LEMMA CreatePageStep ==
  ASSUME CreateInv, calls' = calls, world' \in CreateWorld, ui' \in CreatePage, world'.sent = world.sent,
         world'.allowance = world.allowance, world'.tasks = world.tasks,
         \/ ui'.step = ui.step /\ ui'.sends = ui.sends
         \/ \A c \in calls : ~c.awaited,
         ui'.step = "approved" => ui.step = "approved" /\ ui'.sends = ui.sends,
         world'.unsure >= world.unsure,
         ui'.told + world'.unsure + (IF ui'.step = "receipt" THEN 1 ELSE 0) >= ui.told + world.unsure + Read
  PROVE  CreateInv'
<1>1. Lost' = Lost
  BY DEF Lost
<1>2. AwaitInv'
  BY DEF CreateInv, AwaitInv
<1>3. PostedInv'
  <2>1. Read' = IF ui'.step = "receipt" THEN 1 ELSE 0
    BY DEF Read
  <2>2. /\ Cardinality(Lost)' = Cardinality(Lost) /\ IsFiniteSet(Lost)' /\ Read' \in Nat
        /\ ui'.told \in Nat /\ world'.unsure \in Nat /\ world.tasks \in Nat
    BY <1>1, <2>1, CreateTypes DEF CreatePage, CreateWorld
  <2>3. ui'.told + world'.unsure + Read' >= ui.told + world.unsure + Read
    BY <2>1
  <2> QED
    BY <2>2, <2>3, CreateTypes DEF PostedInv
<1>4. FundedInv'
  <2> SUFFICES ASSUME world'.unsure = 0
               PROVE  /\ Lost = {} /\ (ui'.step = "approved" => world.allowance >= ui'.sends)
                      /\ \A c \in calls : c.kind = "create" => world.allowance >= c.amount
    BY <1>1 DEF FundedInv
  <2>1. world.unsure = 0
    BY CreateTypes DEF CreateWorld
  <2> QED
    BY <2>1 DEF CreateInv, FundedInv
<1> QED
  BY <1>2, <1>3, <1>4, CreateTypes DEF CreateInv, CreateTypeOK

LEMMA CreateFormStep ==
  ASSUME CreateInv, \/ \E r \in Reward : Create!EditReward(r)
                    \/ Create!HandleSubmit \/ Create!ReadReceipt \/ Create!NoReceipt \/ Create!NoAllowance
  PROVE  CreateInv'
<1>0. /\ ui \in CreatePage /\ world \in CreateWorld /\ ui.told \in Nat /\ world.unsure \in Nat
      /\ Read \in {0, 1} /\ (Read = 1 <=> ui.step = "receipt")
  BY CreateTypes
<1>1. ui.step \in {"form", "receipt", "allowance"} => \A c \in calls : ~c.awaited
  BY CreateTypes DEF CreateInv, AwaitInv, CreateCall
<1>2. ASSUME NEW r \in Reward, Create!EditReward(r)
      PROVE  CreateInv'
  <2>1. /\ ui' \in CreatePage /\ ui'.step = ui.step /\ ui'.sends = ui.sends /\ ui'.told = ui.told
        /\ calls' = calls /\ world' = world
    BY <1>0, <1>2 DEF Create!EditReward, CreatePage
  <2> QED
    BY <1>0, <2>1, CreatePageStep
<1>3. CASE Create!HandleSubmit
  <2>0. ui.step = "form" /\ ui.reward \in Nat
    BY <1>0, <1>3, CreateAssumption DEF Create!HandleSubmit, Create!Offered, CreatePage
  <2>1. /\ ui' \in CreatePage /\ ui'.step = "allowance" /\ ui'.told = ui.told /\ calls' = calls /\ world' = world
    BY <1>0, <1>3, <2>0 DEF Create!HandleSubmit, CreatePage
  <2> QED
    BY <1>0, <1>1, <2>0, <2>1, CreatePageStep
<1>4. CASE Create!ReadReceipt
  <2> DEFINE n == ui.told + 1
  <2>0. ui.step = "receipt" /\ n \in Nat
    BY <1>0, <1>4 DEF Create!ReadReceipt
  <2>1. ui' = [ui EXCEPT !.step = "form", !.reward = 0, !.told = n] /\ calls' = calls /\ world' = world
    BY <1>0, <1>4 DEF Create!ReadReceipt, CreatePage
  <2>2. n = ui.told + 1
    OBVIOUS
  <2> HIDE DEF n
  <2>3. ui' \in CreatePage /\ ui'.step = "form" /\ ui'.told = n
    BY <1>0, <2>0, <2>1 DEF CreatePage
  <2> QED
    BY <1>0, <1>1, <2>0, <2>1, <2>2, <2>3, CreatePageStep
<1>5. CASE Create!NoReceipt
  <2> DEFINE n == world.unsure + 1
  <2>0. ui.step = "receipt" /\ n \in Nat
    BY <1>0, <1>5 DEF Create!NoReceipt
  <2>1. ui' = [ui EXCEPT !.step = "form"] /\ calls' = calls /\ world' = [world EXCEPT !.unsure = n]
    BY <1>0, <1>5 DEF Create!NoReceipt, Create!Failed, CreateWorld
  <2>2. n = world.unsure + 1
    OBVIOUS
  <2> HIDE DEF n
  <2>3. /\ ui' \in CreatePage /\ ui'.step = "form" /\ ui'.told = ui.told
        /\ world' \in CreateWorld /\ world'.unsure = n /\ world'.sent = world.sent
        /\ world'.allowance = world.allowance /\ world'.tasks = world.tasks
    BY <1>0, <2>0, <2>1 DEF CreatePage, CreateWorld
  <2> QED
    BY <1>0, <1>1, <2>0, <2>1, <2>2, <2>3, CreatePageStep
<1>6. CASE Create!NoAllowance
  <2>1. /\ ui.step = "allowance" /\ ui' \in CreatePage /\ ui'.step = "form" /\ ui'.told = ui.told
        /\ calls' = calls /\ world' = world
    BY <1>0, <1>6 DEF Create!NoAllowance, Create!Failed, CreatePage
  <2> QED
    BY <1>0, <1>1, <2>1, CreatePageStep
<1> QED
  BY <1>2, <1>3, <1>4, <1>5, <1>6

(* An operation is sent. *)
LEMMA CreateSendStep ==
  ASSUME CreateInv, Create!CheckAllowance \/ Create!Approved
  PROVE  CreateInv'
<1>0. /\ ui \in CreatePage /\ world \in CreateWorld /\ ui.sends \in Nat /\ world.sent \in Nat
      /\ calls \subseteq CreateCall /\ ui.step \in {"allowance", "approved"}
  BY CreateTypes DEF Create!CheckAllowance, Create!Approved
<1>1. PICK kind \in {"approve", "create"} :
        /\ Create!Operation(kind)
        /\ kind = "create" => world.allowance >= ui.sends \/ ui.step = "approved"
  BY DEF Create!CheckAllowance, Create!Approved, Create!Allowed
<1> DEFINE n == world.sent + 1
           y == TRUE
           c == [n |-> n, kind |-> kind, amount |-> ui.sends, awaited |-> y]
<1>2. n \in Nat /\ n > world.sent
  BY <1>0
<1>3. world' = [world EXCEPT !.sent = n]
  BY <1>0, <1>1 DEF Create!Operation, CreateWorld
<1>4. world' \in CreateWorld /\ world'.sent = n /\ world'.allowance = world.allowance /\ world'.tasks = world.tasks /\ world'.unsure = world.unsure
  BY <1>0, <1>2, <1>3 DEF CreateWorld
<1>5. calls' = calls \cup {c} /\ ui' = [ui EXCEPT !.step = kind]
  BY <1>1, <1>4 DEF Create!Operation
<1>6. y \in BOOLEAN /\ y
  OBVIOUS
<1> HIDE DEF n, y
<1>7. c \in CreateCall /\ c.n = n /\ c.kind = kind /\ c.amount = ui.sends /\ c.awaited
  BY <1>0, <1>2, <1>6 DEF CreateCall
<1> HIDE DEF c
<1>8. ui' \in CreatePage /\ ui'.step = kind /\ ui'.sends = ui.sends /\ ui'.told = ui.told
  BY <1>0, <1>5 DEF CreatePage
<1>9. \A d \in calls : ~d.awaited /\ d.n =< world.sent /\ d.n \in Nat
  BY <1>0 DEF CreateInv, AwaitInv, CreateCall
<1>10. \A d \in calls' : d \in calls \/ d = c
  BY <1>5
<1>11. AwaitInv'
  BY <1>0, <1>2, <1>4, <1>7, <1>8, <1>9, <1>10 DEF CreateInv, AwaitInv
<1>12. Lost' = Lost
  BY <1>5, <1>7 DEF Lost
<1>13. PostedInv'
  <2>1. Read' = 0 /\ Read = 0
    BY <1>0, <1>8 DEF Read
  <2> QED
    BY <1>4, <1>8, <1>12, <2>1 DEF CreateInv, PostedInv
<1>14. FundedInv'
  BY <1>1, <1>4, <1>7, <1>8, <1>10, <1>12 DEF CreateInv, FundedInv
<1> QED
  BY <1>0, <1>4, <1>7, <1>8, <1>10, <1>11, <1>13, <1>14 DEF CreateInv, CreateTypeOK

(* An operation ends, with or without a task. *)
LEMMA CreateEnds ==
  ASSUME CreateInv, NEW c \in calls, calls' = calls \ {c}, world' \in CreateWorld, ui' \in CreatePage,
         world'.sent = world.sent, world'.unsure = world.unsure,
         ui'.told = ui.told, ui'.sends = ui.sends,
         ~c.awaited => ui'.step = ui.step,
         \/ world'.tasks = world.tasks /\ ui'.step # "receipt" /\ c.awaited
         \/ world'.tasks = world.tasks /\ ~c.awaited
         \/ world'.tasks = world.tasks + 1 /\ ui'.step = "receipt" /\ c.awaited
         \/ world'.tasks = world.tasks + 1 /\ ~c.awaited,
         c.awaited /\ ui'.step = "approved" => world'.allowance >= ui.sends
  PROVE  CreateInv'
<1>0. calls \subseteq CreateCall
  BY CreateTypes
<1>1. \A d \in calls' : d \in calls /\ d # c
  OBVIOUS
<1>2. AwaitInv'
  BY <1>1 DEF CreateInv, AwaitInv
<1>3. c.awaited => Lost' = Lost
  BY DEF Lost
<1>4. ~c.awaited => c \in Lost /\ Lost' = Lost \ {c}
  BY DEF Lost
<1>5. PostedInv'
  <2>1. Read' \in {0, 1} /\ (Read' = 1 <=> ui'.step = "receipt")
    BY DEF Read
  <2>2. /\ ui.told \in Nat /\ world.tasks \in Nat /\ world.unsure \in Nat /\ Cardinality(Lost) \in Nat /\ Read \in {0, 1}
        /\ world.tasks + Cardinality(Lost) =< ui.told + world.unsure + Read
    BY CreateTypes
  <2>3. CASE c.awaited
    <3>1. ui.step # "receipt" /\ Read = 0
      BY <1>0, <2>3 DEF CreateInv, AwaitInv, CreateCall, Read
    <3>2. Cardinality(Lost)' = Cardinality(Lost) /\ IsFiniteSet(Lost)'
      BY <1>3, <2>3, CreateTypes
    <3> QED
      BY <2>1, <2>2, <2>3, <3>1, <3>2 DEF PostedInv
  <2>4. CASE ~c.awaited
    <3>1. Cardinality(Lost)' = Cardinality(Lost) - 1 /\ IsFiniteSet(Lost)'
      BY <1>4, <2>4, CreateTypes, FS_RemoveElement
    <3>2. Read' = Read
      BY <2>4 DEF Read
    <3> QED
      BY <2>1, <2>2, <2>4, <3>1, <3>2 DEF PostedInv
  <2> QED
    BY <2>3, <2>4
<1>6. FundedInv'
  <2> SUFFICES ASSUME world.unsure = 0
               PROVE  /\ Lost' = {} /\ (ui'.step = "approved" => world'.allowance >= ui.sends)
                      /\ \A d \in calls' : d.kind = "create" => world'.allowance >= d.amount
    BY DEF FundedInv
  <2>1. Lost = {}
    BY DEF CreateInv, FundedInv
  <2>2. \A d \in calls : d.awaited
    BY <2>1 DEF Lost
  <2>3. \A d \in calls : d = c
    BY <2>2 DEF CreateInv, AwaitInv
  <2> QED
    BY <1>3, <2>1, <2>2, <2>3
<1> QED
  BY <1>0, <1>1, <1>2, <1>5, <1>6 DEF CreateInv, CreateTypeOK

LEMMA CreateLandStep ==
  ASSUME CreateInv, NEW c \in calls, Create!Land(c) \/ Create!Revert(c) \/ Create!Drop(c)
  PROVE  CreateInv'
<1>0. /\ ui \in CreatePage /\ world \in CreateWorld /\ c \in CreateCall /\ calls' = calls \ {c}
      /\ c.kind \in {"approve", "create"} /\ c.amount \in Nat /\ world.tasks \in Nat /\ world.allowance \in Nat
      /\ c.awaited => c.amount = ui.sends
  BY CreateTypes DEF Create!Land, Create!Revert, Create!Drop, CreateCall, CreateInv, AwaitInv
<1>f. ASSUME NEW s \in {"form", "approved", "receipt"}, ui' = [ui EXCEPT !.step = s]
      PROVE  ui' \in CreatePage /\ ui'.step = s /\ ui'.sends = ui.sends /\ ui'.told = ui.told
  BY <1>0, <1>f DEF CreatePage
<1>1. CASE Create!Land(c) /\ c.kind = "approve"
  <2>1. /\ world' = [world EXCEPT !.allowance = c.amount]
        /\ IF c.awaited THEN ui' = [ui EXCEPT !.step = "approved"] ELSE ui' = ui
    BY <1>1 DEF Create!Land, Create!Mined, Create!Returned
  <2>2. /\ world' \in CreateWorld /\ world'.allowance = c.amount /\ world'.tasks = world.tasks
        /\ world'.sent = world.sent /\ world'.unsure = world.unsure
    BY <1>0, <2>1 DEF CreateWorld
  <2> QED
    BY <1>0, <1>f, <2>1, <2>2, CreateEnds
<1>2. CASE Create!Land(c) /\ c.kind = "create"
  <2> DEFINE a == world.allowance - c.amount
             n == world.tasks + 1
  <2>1. /\ world' = [world EXCEPT !.allowance = a, !.tasks = n] /\ world.allowance >= c.amount
        /\ IF c.awaited THEN ui' = [ui EXCEPT !.step = "receipt"] ELSE ui' = ui
    BY <1>0, <1>2 DEF Create!Land, Create!Mined, Create!Returned, CreateWorld
  <2>2. a \in Nat /\ n \in Nat /\ n = world.tasks + 1
    BY <1>0, <2>1
  <2> HIDE DEF a, n
  <2>3. /\ world' \in CreateWorld /\ world'.tasks = n
        /\ world'.sent = world.sent /\ world'.unsure = world.unsure
    BY <1>0, <2>1, <2>2 DEF CreateWorld
  <2> QED
    BY <1>0, <1>f, <2>1, <2>2, <2>3, CreateEnds
<1>3. CASE Create!Revert(c) \/ Create!Drop(c)
  <2>1. world' = world /\ IF c.awaited THEN ui' = [ui EXCEPT !.step = "form"] ELSE ui' = ui
    BY <1>3 DEF Create!Revert, Create!Drop, Create!Failed
  <2> QED
    BY <1>0, <1>f, <2>1, CreateEnds
<1> QED
  BY <1>0, <1>1, <1>2, <1>3

(* The page loses sight of its operation. *)
LEMMA CreateGiveUpStep ==
  ASSUME CreateInv, NEW c \in calls, Create!GiveUp(c)
  PROVE  CreateInv'
<1> DEFINE n == world.unsure + 1
           f == FALSE
           d == [c EXCEPT !.awaited = f]
<1>0. /\ ui \in CreatePage /\ world \in CreateWorld /\ c \in CreateCall /\ calls \subseteq CreateCall
      /\ c.awaited /\ ui.step = c.kind /\ world.unsure \in Nat /\ n \in Nat /\ n > 0
  BY CreateTypes DEF Create!GiveUp, CreateInv, AwaitInv
<1>1. /\ ui' = [ui EXCEPT !.step = "form"] /\ world' = [world EXCEPT !.unsure = n] /\ calls' = (calls \ {c}) \cup {d}
  BY <1>0 DEF Create!GiveUp, Create!Failed, CreateWorld
<1>2. f \in BOOLEAN /\ ~f /\ n = world.unsure + 1
  OBVIOUS
<1> HIDE DEF n, f
<1>3. d \in CreateCall /\ ~d.awaited /\ d.n = c.n
  BY <1>0, <1>2 DEF CreateCall
<1> HIDE DEF d
<1>4. ui' \in CreatePage /\ ui'.step = "form" /\ ui'.told = ui.told
  BY <1>0, <1>1 DEF CreatePage
<1>5. world' \in CreateWorld /\ world'.unsure = n /\ world'.tasks = world.tasks /\ world'.sent = world.sent
  BY <1>0, <1>1 DEF CreateWorld
<1>6. \A x \in calls' : x = d \/ (x \in calls /\ x # c)
  BY <1>1
<1>7. AwaitInv'
  BY <1>0, <1>3, <1>5, <1>6 DEF CreateInv, AwaitInv
<1>8. Lost' = Lost \cup {d} /\ d \notin Lost
  <2>1. d \notin calls
    BY <1>0, <1>3 DEF CreateInv, AwaitInv
  <2> QED
    BY <1>0, <1>1, <1>3, <2>1 DEF Lost
<1>9. PostedInv'
  <2>1. IsFiniteSet(Lost)' /\ Cardinality(Lost)' = Cardinality(Lost) + 1
    BY <1>8, CreateTypes, FS_AddElement
  <2>2. Read' = 0 /\ Read = 0
    BY <1>0, <1>4 DEF Read, CreateCall
  <2> QED
    BY <1>0, <1>2, <1>4, <1>5, <2>1, <2>2, CreateTypes DEF PostedInv
<1>10. FundedInv'
  BY <1>0, <1>5 DEF FundedInv
<1> QED
  BY <1>0, <1>3, <1>4, <1>5, <1>6, <1>7, <1>9, <1>10 DEF CreateInv, CreateTypeOK

LEMMA CreateNext == CreateInv /\ Create!Next => CreateInv'
BY CreateFormStep, CreateSendStep, CreateLandStep, CreateGiveUpStep DEF Create!Next

LEMMA CreateStutter == CreateInv /\ UNCHANGED vars => CreateInv'
BY DEF vars, CreateInv, CreateTypeOK, AwaitInv, PostedInv, FundedInv, Lost, Read

LEMMA CreateInvImplies ==
  ASSUME CreateInv
  PROVE  Create!CreateFunded /\ Create!PostedOnce
<1>1. Create!CreateFunded
  BY DEF CreateInv, FundedInv, Create!CreateFunded
<1>2. Create!PostedOnce
  <2>1. world.tasks =< ui.told + world.unsure + Read
    BY CreateTypes
  <2> QED
    BY <2>1 DEF Read, Create!PostedOnce
<1> QED
  BY <1>1, <1>2

-----------------------------------------------------------------------------
(* The lists of tasks.                                                       *)
ListKind == {"all", "mine"}
ListOwner == Account \cup {None}
ListShown == [of : ListOwner, version : Nat, whole : BOOLEAN]
ListsPage ==
  [lists : [ListKind -> ListShown], loading : BOOLEAN, error : BOOLEAN, tab : {"all", "open", "mine", "claimed"}]
ListLoad == [n : Nat, list : ListKind, of : ListOwner, from : Nat]
ListsWorld ==
  [who : ListOwner, version : Nat, loads : Nat, asked : [ListKind -> Nat], newest : [ListKind -> Nat],
   sure : [ListKind -> BOOLEAN]]

(* The last load of a list, or what it was when it ended and no older one     *)
(* ended after it, is not older than its request and of its account.          *)
ListFresh(list) ==
  /\ world.newest[list] =< world.loads
  /\ \A c \in calls :
       c.list = list /\ c.n = world.newest[list] =>
         c.from >= world.asked[list] /\ (list = "mine" => c.of = world.who)
  /\ world.sure[list] /\ (\A c \in calls : c.list = list => c.n # world.newest[list]) =>
       ui.lists[list].version >= world.asked[list] /\ (list = "mine" => ui.lists[list].of = world.who)

ListsPageInv ==
  /\ ui \in ListsPage /\ calls \subseteq ListLoad /\ world \in ListsWorld
  /\ \A c \in calls : c.n =< world.loads
  /\ \A list \in ListKind : ListFresh(list)

LEMMA ListsInit == Lists!Init => ListsPageInv
<1> SUFFICES ASSUME Lists!Init PROVE ListsPageInv
  OBVIOUS
<1> DEFINE y == TRUE
           f == FALSE
           asked == [list \in ListKind |-> IF list = "all" THEN 1 ELSE 0]
           sure == [list \in ListKind |-> y]
           lists == [list \in ListKind |-> Lists!Unread]
<1>1. /\ ui = [lists |-> lists, loading |-> y, error |-> f, tab |-> "all"]
      /\ calls = {[n |-> 1, list |-> "all", of |-> None, from |-> 1]}
      /\ world = [who |-> None, version |-> 1, loads |-> 1, asked |-> asked, newest |-> asked, sure |-> sure]
  BY DEF Lists!Init, ListKind
<1>2. y \in BOOLEAN /\ f \in BOOLEAN
  OBVIOUS
<1> HIDE DEF y, f
<1>3. Lists!Unread \in ListShown /\ Lists!Unread.of = None /\ Lists!Unread.version = 0
  BY DEF Lists!Unread, ListShown, ListOwner
<1>4. /\ lists \in [ListKind -> ListShown] /\ lists["mine"] = Lists!Unread
      /\ asked \in [ListKind -> Nat] /\ asked["mine"] = 0 /\ asked["all"] = 1 /\ sure \in [ListKind -> BOOLEAN]
  BY <1>2, <1>3 DEF ListKind
<1> HIDE DEF lists, asked, sure
<1>5. ui \in ListsPage /\ ui.lists = lists
  BY <1>1, <1>2, <1>4 DEF ListsPage
<1>6. /\ world \in ListsWorld /\ world.asked = asked /\ world.newest = asked /\ world.who = None /\ world.loads = 1
  BY <1>1, <1>4 DEF ListsWorld, ListOwner
<1>7. calls \subseteq ListLoad /\ \A c \in calls : c.list = "all" /\ c.from = 1 /\ c.n = 1
  BY <1>1 DEF ListLoad, ListKind, ListOwner
<1>8. ListFresh("all")
  <2>1. \E c \in calls : c.list = "all" /\ c.n = 1
    BY <1>1
  <2> QED
    BY <1>4, <1>6, <1>7, <2>1 DEF ListFresh
<1>9. ListFresh("mine")
  BY <1>3, <1>4, <1>5, <1>6, <1>7 DEF ListFresh
<1> QED
  BY <1>5, <1>6, <1>7, <1>8, <1>9 DEF ListsPageInv, ListKind

LEMMA ListsTabStep ==
  ASSUME ListsPageInv, (\E tab \in {"all", "open", "mine", "claimed"} : Lists!Tab(tab)) \/ Lists!Change
  PROVE  ListsPageInv'
<1>0. ui \in ListsPage /\ calls \subseteq ListLoad /\ world \in ListsWorld /\ calls' = calls
  BY DEF ListsPageInv, Lists!Tab, Lists!Change
<1>1. ui' \in ListsPage /\ ui'.lists = ui.lists
  BY <1>0 DEF ListsPage, Lists!Tab, Lists!Change
<1>2. /\ world' \in ListsWorld /\ world'.asked = world.asked /\ world'.sure = world.sure /\ world'.who = world.who
      /\ world'.newest = world.newest /\ world'.loads = world.loads
  <2> DEFINE n == world.version + 1
  <2>1. n \in Nat
    BY <1>0 DEF ListsWorld
  <2>2. world' = world \/ world' = [world EXCEPT !.version = n]
    BY <1>0 DEF Lists!Tab, Lists!Change, ListsWorld
  <2> HIDE DEF n
  <2> QED
    BY <1>0, <2>1, <2>2 DEF ListsWorld
<1>3. \A list \in ListKind : ListFresh(list)'
  BY <1>0, <1>1, <1>2 DEF ListsPageInv, ListFresh
<1> QED
  BY <1>0, <1>1, <1>2, <1>3 DEF ListsPageInv

LEMMA ListsBeginStep ==
  ASSUME ListsPageInv, NEW list \in ListKind, NEW of \in ListOwner, Lists!Begin(list, of),
         list = "all" => of = world.who
  PROVE  ListsPageInv'
<1>0. /\ ui \in ListsPage /\ calls \subseteq ListLoad /\ world \in ListsWorld /\ world.version \in Nat /\ world.loads \in Nat
      /\ world.asked \in [ListKind -> Nat] /\ world.newest \in [ListKind -> Nat]
      /\ \A c \in calls : c.n \in Nat /\ c.n =< world.loads
  BY DEF ListsPageInv, ListsWorld, ListLoad
<1> DEFINE y == TRUE
           f == FALSE
           n == world.loads + 1
           asked == [world.asked EXCEPT ![list] = world.version]
           newest == [world.newest EXCEPT ![list] = n]
<1>1. /\ calls' = calls \cup {[n |-> n, list |-> list, of |-> of, from |-> world.version]}
      /\ ui' = [ui EXCEPT !.loading = y, !.error = f]
      /\ world' = [world EXCEPT !.who = of, !.loads = n, !.asked = asked, !.newest = newest]
  BY <1>0 DEF Lists!Begin, Lists!Load, ListsWorld
<1>2. y \in BOOLEAN /\ f \in BOOLEAN /\ n \in Nat /\ \A k \in Nat : k =< world.loads => k =< n /\ k # n
  BY <1>0
<1> HIDE DEF y, f, n
<1>3. asked \in [ListKind -> Nat] /\ newest \in [ListKind -> Nat]
  BY <1>0, <1>2
<1>4. /\ asked[list] = world.version /\ newest[list] = n
      /\ \A l \in ListKind : l # list => asked[l] = world.asked[l] /\ newest[l] = world.newest[l]
  BY <1>0
<1> HIDE DEF asked, newest
<1>5. PICK c : c = [n |-> n, list |-> list, of |-> of, from |-> world.version]
  OBVIOUS
<1>6. /\ c \in ListLoad /\ c.list = list /\ c.of = of /\ c.from = world.version /\ c.n = n
      /\ calls' = calls \cup {c}
  BY <1>0, <1>1, <1>2, <1>5 DEF ListLoad
<1>7. ui' \in ListsPage /\ ui'.lists = ui.lists
  BY <1>0, <1>1, <1>2 DEF ListsPage
<1>8. /\ world' \in ListsWorld /\ world'.asked = asked /\ world'.newest = newest /\ world'.who = of
      /\ world'.loads = n /\ world'.sure = world.sure
  BY <1>0, <1>1, <1>2, <1>3 DEF ListsWorld
<1>9. ListFresh(list)'
  <2>1. \A d \in calls' : d.n = n => d = c
    BY <1>0, <1>2, <1>6
  <2>2. c \in calls' /\ world.version >= world.version /\ n =< n
    BY <1>0, <1>2, <1>6
  <2> QED
    BY <1>4, <1>6, <1>8, <2>1, <2>2 DEF ListFresh
<1>10. ASSUME NEW l \in ListKind, l # list PROVE ListFresh(l)'
  <2>1. ListFresh(l)
    BY DEF ListsPageInv
  <2>2. \A d \in calls' : d.list = l => d \in calls
    BY <1>6, <1>10
  <2>3. calls \subseteq calls' /\ world.newest[l] \in Nat /\ world.newest[l] =< n
    BY <1>0, <1>2, <1>6, <2>1 DEF ListFresh
  <2>4. l = "mine" => of = world.who
    BY <1>10 DEF ListKind
  <2> QED
    BY <1>4, <1>7, <1>8, <1>10, <2>1, <2>2, <2>3, <2>4 DEF ListFresh
<1>11. \A d \in calls' : d.n =< n
  BY <1>0, <1>2, <1>6
<1> QED
  BY <1>0, <1>6, <1>7, <1>8, <1>9, <1>10, <1>11 DEF ListsPageInv

(* A load has ended, with what it loaded or without. *)
LEMMA ListsEnds ==
  ASSUME ListsPageInv, NEW c \in calls, calls' = calls \ {c}, ui' \in ListsPage,
         NEW b \in BOOLEAN, world' = [world EXCEPT !.sure[c.list] = b],
         \A l \in ListKind : l # c.list => ui'.lists[l] = ui.lists[l],
         b => \/ c.n # world.newest[c.list] /\ world.sure[c.list] /\ ui'.lists[c.list] = ui.lists[c.list]
              \/ c.n = world.newest[c.list] /\ ui'.lists[c.list].of = c.of /\ ui'.lists[c.list].version >= c.from
  PROVE  ListsPageInv'
<1>0. /\ calls \subseteq ListLoad /\ world \in ListsWorld /\ c.list \in ListKind
      /\ c.from \in Nat /\ world.asked \in [ListKind -> Nat]
      /\ world.sure \in [ListKind -> BOOLEAN] /\ ui'.lists \in [ListKind -> ListShown]
  BY DEF ListsPageInv, ListsWorld, ListLoad, ListsPage
<1> DEFINE sure == [world.sure EXCEPT ![c.list] = b]
<1>1. sure \in [ListKind -> BOOLEAN] /\ (sure[c.list] <=> b) /\ \A l \in ListKind : l # c.list => (sure[l] <=> world.sure[l])
  BY <1>0
<1>2. world' = [world EXCEPT !.sure = sure]
  BY <1>0 DEF ListsWorld
<1> HIDE DEF sure
<1>3. /\ world' \in ListsWorld /\ world'.sure = sure /\ world'.asked = world.asked /\ world'.who = world.who
      /\ world'.newest = world.newest /\ world'.loads = world.loads
  BY <1>0, <1>1, <1>2 DEF ListsWorld
<1>4. ListFresh(c.list)'
  <2>1. ListFresh(c.list)
    BY <1>0 DEF ListsPageInv
  <2>2. CASE ~b
    BY <1>1, <1>3, <2>1, <2>2 DEF ListFresh
  <2>3. CASE b /\ c.n # world.newest[c.list]
    <3>1. (\A d \in calls' : d.list = c.list => d.n # world.newest[c.list]) =>
            \A d \in calls : d.list = c.list => d.n # world.newest[c.list]
      BY <2>3
    <3>2. world.sure[c.list] /\ ui'.lists[c.list] = ui.lists[c.list]
      BY <2>3
    <3> QED
      BY <1>3, <2>1, <3>1, <3>2 DEF ListFresh
  <2>4. CASE b /\ c.n = world.newest[c.list]
    <3>1. c.from >= world.asked[c.list] /\ (c.list = "mine" => c.of = world.who)
      BY <2>1, <2>4 DEF ListFresh
    <3>2. ui'.lists[c.list].version \in Nat /\ world.asked[c.list] \in Nat
      BY <1>0 DEF ListShown
    <3>3. ui'.lists[c.list].version >= world.asked[c.list]
      BY <1>0, <2>4, <3>1, <3>2
    <3> QED
      BY <1>3, <2>1, <2>4, <3>1, <3>3 DEF ListFresh
  <2> QED
    BY <2>2, <2>3, <2>4
<1>5. ASSUME NEW l \in ListKind, l # c.list PROVE ListFresh(l)'
  <2>1. ListFresh(l)
    BY DEF ListsPageInv
  <2>2. \A d \in calls : d \in calls' \/ d.list # l
    BY <1>5
  <2>3. ui'.lists[l] = ui.lists[l] /\ (sure[l] <=> world.sure[l])
    BY <1>1, <1>5
  <2> QED
    BY <1>3, <1>5, <2>1, <2>2, <2>3 DEF ListFresh
<1> QED
  BY <1>0, <1>3, <1>4, <1>5 DEF ListsPageInv

LEMMA ListsLoadedStep ==
  ASSUME ListsPageInv, NEW c \in calls, NEW v \in Nat, NEW whole \in BOOLEAN, Lists!Loaded(c, v, whole)
  PROVE  ListsPageInv'
<1>0. /\ ui \in ListsPage /\ calls' = calls \ {c}
      /\ c \in ListLoad /\ c.list \in ListKind /\ c.of \in ListOwner /\ c.from \in Nat
      /\ ui.lists \in [ListKind -> ListShown] /\ v >= c.from
  BY DEF ListsPageInv, ListsPage, ListLoad, Lists!Loaded, Lists!Ended
<1> DEFINE f == FALSE
           b == c.n = world.newest[c.list]
           shown == [of |-> c.of, version |-> v, whole |-> whole]
           lists == [ui.lists EXCEPT ![c.list] = shown]
<1>1. /\ ui' = [ui EXCEPT !.loading = f, !.lists = lists] /\ f \in BOOLEAN
      /\ world' = [world EXCEPT !.sure[c.list] = b] /\ b \in BOOLEAN
  BY <1>0 DEF Lists!Loaded, ListsPage
<1>2. b => c.n = world.newest[c.list]
  OBVIOUS
<1>3. shown \in ListShown /\ shown.of = c.of /\ shown.version = v
  BY <1>0 DEF ListShown
<1> HIDE DEF f, b, shown
<1>4. lists \in [ListKind -> ListShown] /\ lists[c.list] = shown /\ \A l \in ListKind : l # c.list => lists[l] = ui.lists[l]
  BY <1>0, <1>3
<1> HIDE DEF lists
<1>5. ui' \in ListsPage /\ ui'.lists = lists
  BY <1>0, <1>1, <1>4 DEF ListsPage
<1> QED
  BY <1>0, <1>1, <1>2, <1>3, <1>4, <1>5, ListsEnds

LEMMA ListsFailedStep ==
  ASSUME ListsPageInv, NEW c \in calls, Lists!LoadFailed(c)
  PROVE  ListsPageInv'
<1>0. ui \in ListsPage /\ calls' = calls \ {c} /\ c.list \in ListKind /\ world.sure \in [ListKind -> BOOLEAN]
  BY DEF ListsPageInv, ListLoad, ListsWorld, Lists!LoadFailed, Lists!Ended
<1> DEFINE f == FALSE
           y == TRUE
           b == world.sure[c.list] /\ c.n # world.newest[c.list]
<1>1. /\ ui' = [ui EXCEPT !.loading = f, !.error = y] /\ f \in BOOLEAN /\ y \in BOOLEAN
      /\ world' = [world EXCEPT !.sure[c.list] = b] /\ b \in BOOLEAN
  BY <1>0 DEF Lists!LoadFailed, ListsPageInv, ListsWorld
<1>2. b => c.n # world.newest[c.list] /\ world.sure[c.list]
  OBVIOUS
<1> HIDE DEF f, y, b
<1>3. ui' \in ListsPage /\ ui'.lists = ui.lists
  BY <1>0, <1>1 DEF ListsPage
<1> QED
  BY <1>0, <1>1, <1>2, <1>3, ListsEnds

LEMMA ListsNext == ListsPageInv /\ Lists!Next => ListsPageInv'
<1> SUFFICES ASSUME ListsPageInv, Lists!Next PROVE ListsPageInv'
  OBVIOUS
<1>1. ASSUME NEW a \in Account, Lists!AccountKnown(a) PROVE ListsPageInv'
  <2>1. Lists!Begin("mine", a) /\ "mine" \in ListKind /\ a \in ListOwner
    BY <1>1 DEF Lists!AccountKnown, ListKind, ListOwner
  <2> QED
    BY <2>1, ListsBeginStep
<1>2. ASSUME Lists!RefreshAll PROVE ListsPageInv'
  <2>1. Lists!Begin("all", world.who) /\ "all" \in ListKind /\ world.who \in ListOwner
    BY <1>2 DEF Lists!RefreshAll, ListKind, ListsPageInv, ListsWorld
  <2> QED
    BY <2>1, ListsBeginStep
<1>3. ASSUME NEW c \in calls, NEW v \in 1..MaxVersion, NEW whole \in BOOLEAN, Lists!Loaded(c, v, whole)
      PROVE  ListsPageInv'
  <2>1. v \in Nat
    <3>1. c.from \in Nat /\ world.version \in Nat
      BY DEF ListsPageInv, ListLoad, ListsWorld
    <3> QED
      BY <1>3, <3>1 DEF Lists!Loaded
  <2> QED
    BY <1>3, <2>1, ListsLoadedStep
<1> QED
  BY <1>1, <1>2, <1>3, ListsTabStep, ListsFailedStep DEF Lists!Next

LEMMA ListsStutter == ListsPageInv /\ UNCHANGED vars => ListsPageInv'
BY DEF vars, ListsPageInv, ListFresh, ListKind

LEMMA ListsInvImplies == ListsPageInv => Lists!ListIsOwn
<1>1. Lists!Showing \in ListKind /\ "mine" \in ListKind
  BY DEF Lists!Showing, ListKind
<1> QED
  BY <1>1 DEF ListsPageInv, ListFresh, Lists!ListIsOwn

-----------------------------------------------------------------------------
(* The jury panel.                                                           *)
JuryTask == [phase : {"open", "late", "done"}, votes : Nat, mine : BOOLEAN]
MaybeTask == Hash \cup {None}
JuryPanel ==
  [at : MaybeTask, seen : JuryTask, loading : BOOLEAN, juror : BOOLEAN, info : BOOLEAN, reward : BOOLEAN,
   action : {"none", "approved", "task", "state"} \cup Jury!Kind, of : MaybeTask, waits : Nat]
JuryWorld ==
  [tasks : [Hash -> JuryTask], juror : BOOLEAN, allowed : BOOLEAN, reward : BOOLEAN, loads : Nat, ops : Nat,
   failed : Nat, sure : BOOLEAN]
StateCall == [kind : {"state"}, n : Nat]
LookUpCall == [kind : {"task"}, n : Nat, hash : Hash, saw : JuryTask, refresh : BOOLEAN]
JuryOp == [kind : Jury!Kind, n : Nat, hash : MaybeTask]
JuryCall == StateCall \cup LookUpCall \cup JuryOp

JuryTypeOK == ui \in JuryPanel /\ world \in JuryWorld /\ calls \subseteq JuryCall

(* An operation on a task names it, and the page knows which one it awaits. *)
OnTask(kind) == kind \in {"vote", "finalize"}
NamedInv ==
  /\ \A c \in calls : OnTask(c.kind) => c.hash \in Hash
  /\ OnTask(ui.action) => ui.of \in Hash
  /\ \A c \in calls : Jury!Awaited(c) => c.hash = ui.of
  /\ ui.waits =< world.ops /\ \A c \in calls : c.kind \in Jury!Kind => c.n =< world.ops

(* While nothing was given up the one operation under way is awaited, and   *)
(* the approval comes before the registration.                              *)
BackedInv ==
  world.failed = 0 =>
    /\ \A c \in calls : c.kind \in Jury!Kind => Jury!Awaited(c)
    /\ ui.action = "approved" => world.allowed
    /\ \A c \in calls : c.kind = "register" => world.allowed

(* A page that is sure has one lookup under way, which saw its vote, or     *)
(* shows it.                                                                *)
SureInv ==
  world.sure =>
    /\ \A c, d \in calls : c.kind = "task" /\ d.kind = "task" => c = d
    /\ \A c \in calls : c.kind = "task" => (c.saw.mine <=> world.tasks[c.hash].mine)
    /\ (\A c \in calls : c.kind # "task") /\ ui.at # None => (ui.seen.mine <=> world.tasks[ui.at].mine)

JuryInv == JuryTypeOK /\ NamedInv /\ BackedInv /\ SureInv

LEMMA JuryTypes ==
  ASSUME JuryInv
  PROVE  /\ ui \in JuryPanel /\ world \in JuryWorld /\ calls \subseteq JuryCall
         /\ world.tasks \in [Hash -> JuryTask] /\ world.ops \in Nat /\ world.loads \in Nat /\ world.failed \in Nat
         /\ ui.seen \in JuryTask /\ ui.at \in MaybeTask /\ ui.of \in MaybeTask /\ ui.waits \in Nat
BY DEF JuryInv, JuryTypeOK, JuryPanel, JuryWorld

LEMMA JuryKinds ==
  /\ \A c \in StateCall : c.kind = "state"
  /\ \A c \in LookUpCall : c.kind = "task"
  /\ \A c \in JuryOp : c.kind \in Jury!Kind
  /\ \A c \in JuryCall : /\ c.kind = "task" => c \in LookUpCall
                         /\ c.kind \in Jury!Kind => c \in JuryOp
                         /\ c.kind = "state" \/ c.kind = "task" \/ c.kind \in Jury!Kind
  /\ "task" \notin Jury!Kind /\ "state" \notin Jury!Kind
BY DEF JuryCall, StateCall, LookUpCall, JuryOp, Jury!Kind

LEMMA JuryInit == Jury!Init => JuryInv
<1> SUFFICES ASSUME Jury!Init PROVE JuryInv
  OBVIOUS
<1>1. Jury!Open \in JuryTask
  BY DEF Jury!Open, JuryTask
<1>2. /\ ui = [at |-> None, seen |-> Jury!Open, loading |-> FALSE, juror |-> FALSE, info |-> FALSE,
               reward |-> FALSE, action |-> "none", of |-> None, waits |-> 0]
      /\ calls = {[kind |-> "state", n |-> 0]}
  BY DEF Jury!Init
<1>3. ui \in JuryPanel /\ ui.at = None /\ ui.action = "none" /\ ui.waits = 0
  BY <1>1, <1>2 DEF JuryPanel, MaybeTask
<1>4. PICK juror \in BOOLEAN :
        world = [tasks |-> [h \in Hash |-> Jury!Open], juror |-> juror, allowed |-> FALSE,
                 reward |-> juror, loads |-> 0, ops |-> 0, failed |-> 0, sure |-> TRUE]
  BY DEF Jury!Init
<1>5. [h \in Hash |-> Jury!Open] \in [Hash -> JuryTask]
  BY <1>1
<1>6. world \in JuryWorld /\ world.ops = 0
  BY <1>4, <1>5 DEF JuryWorld
<1>7. calls \subseteq JuryCall /\ \A c \in calls : c.kind = "state"
  BY <1>2 DEF JuryCall, StateCall
<1>8. NamedInv
  BY <1>3, <1>6, <1>7, JuryKinds DEF NamedInv, OnTask, Jury!Awaited
<1>9. BackedInv
  BY <1>3, <1>7, JuryKinds DEF BackedInv
<1>10. SureInv
  BY <1>3, <1>7 DEF SureInv
<1> QED
  BY <1>3, <1>6, <1>7, <1>8, <1>9, <1>10 DEF JuryInv, JuryTypeOK

(* With nothing given up there is one operation at most. *)
LEMMA JuryAlone ==
  ASSUME JuryInv, world.failed = 0, NEW c \in calls, c.kind \in Jury!Kind, NEW d \in calls, d.kind \in Jury!Kind
  PROVE  c = d
<1>1. c \in JuryOp /\ d \in JuryOp
  BY JuryTypes, JuryKinds
<1>2. Jury!Awaited(c) /\ Jury!Awaited(d)
  BY DEF JuryInv, BackedInv
<1>3. c.kind = d.kind /\ c.n = d.n
  BY <1>2 DEF Jury!Awaited
<1>4. c.hash = d.hash
  BY <1>2 DEF JuryInv, NamedInv
<1> QED
  BY <1>1, <1>3, <1>4 DEF JuryOp

(* A page at another await has none. *)
LEMMA JuryIdle ==
  ASSUME JuryInv, world.failed = 0, ui.action \notin Jury!Kind, NEW c \in calls
  PROVE  c.kind \notin Jury!Kind
BY DEF JuryInv, BackedInv, Jury!Awaited

(* No lookup comes, and what is shown and true of votes stays. *)
LEMMA JurySureStays ==
  ASSUME JuryInv, \A c \in calls' : c \in calls \/ c.kind # "task",
         world'.sure => /\ world.sure
                        /\ \A c \in calls : c.kind = "task" => c \in calls'
                        /\ \A h \in Hash : world'.tasks[h].mine <=> world.tasks[h].mine
                        /\ ui'.at = ui.at /\ ui'.seen = ui.seen
  PROVE  SureInv'
<1> SUFFICES ASSUME world'.sure
             PROVE  /\ \A c, d \in calls' : c.kind = "task" /\ d.kind = "task" => c = d
                    /\ \A c \in calls' : c.kind = "task" => (c.saw.mine <=> world'.tasks[c.hash].mine)
                    /\ (\A c \in calls' : c.kind # "task") /\ ui'.at # None => (ui'.seen.mine <=> world'.tasks[ui'.at].mine)
  BY DEF SureInv
<1>1. /\ \A c, d \in calls : c.kind = "task" /\ d.kind = "task" => c = d
      /\ \A c \in calls : c.kind = "task" => (c.saw.mine <=> world.tasks[c.hash].mine)
      /\ (\A c \in calls : c.kind # "task") /\ ui.at # None => (ui.seen.mine <=> world.tasks[ui.at].mine)
  BY DEF JuryInv, SureInv
<1>2. \A c \in calls : c.kind = "task" => c.hash \in Hash
  BY JuryTypes, JuryKinds DEF LookUpCall
<1>3. ui.at # None => ui.at \in Hash
  BY JuryTypes DEF MaybeTask
<1> QED
  BY <1>1, <1>2, <1>3

(* No operation comes, and the page goes on to none. *)
LEMMA JuryTurns ==
  ASSUME JuryInv, ui' \in JuryPanel, world' \in JuryWorld, calls' \subseteq JuryCall,
         \A c \in calls' : c \in calls \/ c.kind \notin Jury!Kind,
         world'.ops = world.ops, world'.failed >= world.failed,
         world'.failed = 0 => (world.allowed => world'.allowed),
         ui'.of = ui.of, ui'.waits = ui.waits,
         \/ ui'.action = ui.action
         \/ /\ ui'.action \in {"none", "state", "approved"}
            /\ world'.failed = 0 => ui'.action # "approved" /\ \A c \in calls' : c.kind \notin Jury!Kind,
         SureInv'
  PROVE  JuryInv'
<1>1. NamedInv'
  BY JuryKinds DEF JuryInv, NamedInv, OnTask, Jury!Awaited, Jury!Kind
<1>2. BackedInv'
  <2> SUFFICES ASSUME world'.failed = 0
               PROVE  /\ \A c \in calls' : c.kind \in Jury!Kind => Jury!Awaited(c)'
                      /\ ui'.action = "approved" => world'.allowed
                      /\ \A c \in calls' : c.kind = "register" => world'.allowed
    BY DEF BackedInv
  <2>1. world.failed = 0
    BY JuryTypes DEF JuryWorld
  <2>2. /\ \A c \in calls : c.kind \in Jury!Kind => Jury!Awaited(c)
        /\ ui.action = "approved" => world.allowed
        /\ \A c \in calls : c.kind = "register" => world.allowed
    BY <2>1 DEF JuryInv, BackedInv
  <2> QED
    BY <2>2, JuryKinds DEF Jury!Awaited, Jury!Kind
<1> QED
  BY <1>1, <1>2 DEF JuryInv, JuryTypeOK

LEMMA JuryPassStep ==
  ASSUME JuryInv, NEW h \in Hash, Jury!Pass(h)
  PROVE  JuryInv'
<1>0. /\ world \in JuryWorld /\ world.tasks \in [Hash -> JuryTask] /\ world.failed \in Nat /\ ui' = ui /\ calls' = calls
      /\ world.tasks[h] \in JuryTask
  BY JuryTypes DEF Jury!Pass
<1> DEFINE n == world.tasks[h].votes + 1
<1>1. PICK t \in JuryTask : world' = [world EXCEPT !.tasks[h] = t] /\ (t.mine = world.tasks[h].mine)
  <2>1. [world.tasks[h] EXCEPT !.phase = "late"] \in JuryTask /\ [world.tasks[h] EXCEPT !.phase = "late"].mine = world.tasks[h].mine
    BY <1>0 DEF JuryTask
  <2>2. n \in Nat
    BY <1>0 DEF JuryTask
  <2>3. /\ \/ world' = [world EXCEPT !.tasks[h] = [world.tasks[h] EXCEPT !.phase = "late"]]
           \/ world' = [world EXCEPT !.tasks[h] = [world.tasks[h] EXCEPT !.votes = n]]
    BY <1>0 DEF Jury!Pass, JuryWorld, JuryTask
  <2> HIDE DEF n
  <2>4. [world.tasks[h] EXCEPT !.votes = n] \in JuryTask /\ [world.tasks[h] EXCEPT !.votes = n].mine = world.tasks[h].mine
    BY <1>0, <2>2 DEF JuryTask
  <2> QED
    BY <2>1, <2>3, <2>4
<1> DEFINE tasks == [world.tasks EXCEPT ![h] = t]
<1>2. tasks \in [Hash -> JuryTask] /\ \A g \in Hash : tasks[g].mine = world.tasks[g].mine
  BY <1>0, <1>1
<1>3. world' = [world EXCEPT !.tasks = tasks]
  BY <1>0, <1>1 DEF JuryWorld
<1> HIDE DEF tasks
<1>4. /\ world' \in JuryWorld /\ world'.tasks = tasks /\ world'.ops = world.ops /\ world'.failed = world.failed
      /\ (world'.allowed = world.allowed) /\ (world'.sure = world.sure)
  BY <1>0, <1>2, <1>3 DEF JuryWorld
<1>5. SureInv'
  BY <1>0, <1>2, <1>4, JurySureStays
<1> QED
  BY <1>0, <1>4, <1>5, JuryTypes, JuryTurns

(* A read fails, or an operation ends without an effect. *)
LEMMA JuryMisread ==
  ASSUME JuryInv, Jury!Misread
  PROVE  /\ world' \in JuryWorld /\ world'.ops = world.ops /\ world'.failed = world.failed + 1 /\ ~world'.sure
         /\ world'.tasks = world.tasks /\ world'.failed > 0 /\ world'.failed >= world.failed
<1> DEFINE n == world.failed + 1
           f == FALSE
<1>1. world \in JuryWorld /\ n \in Nat /\ n > 0 /\ n >= world.failed
  BY JuryTypes
<1>2. world' = [world EXCEPT !.failed = n, !.sure = f] /\ f \in BOOLEAN /\ ~f
  BY <1>1 DEF Jury!Misread, JuryWorld
<1> HIDE DEF f
<1>3. n = world.failed + 1
  OBVIOUS
<1> HIDE DEF n
<1> QED
  BY <1>1, <1>2, <1>3 DEF JuryWorld

LEMMA JuryStateStep ==
  ASSUME JuryInv, NEW c \in calls,
         Jury!StateRead(c) \/ Jury!StateUnread(c)
  PROVE  JuryInv'
<1>0. ui \in JuryPanel /\ world \in JuryWorld /\ calls \subseteq JuryCall /\ calls' = calls \ {c} /\ c.kind = "state" /\ c.kind # "task"
  BY JuryTypes DEF Jury!StateRead, Jury!StateUnread, Jury!Ended
<1> DEFINE a == IF ui.action = "state" THEN "none" ELSE ui.action
<1>1. a \in {"none", "approved", "task", "state"} \cup Jury!Kind /\ (a = ui.action \/ (a = "none" /\ ui.action = "state"))
  BY <1>0 DEF JuryPanel
<1>2. PICK info \in BOOLEAN, juror \in BOOLEAN, reward \in BOOLEAN :
        ui' = [ui EXCEPT !.info = info, !.juror = juror, !.reward = reward, !.action = a]
  <2>1. CASE Jury!StateRead(c)
    <3> DEFINE y == TRUE
    <3>1. ui' = [ui EXCEPT !.info = y, !.juror = world.juror, !.reward = world.reward, !.action = a]
      BY <1>0, <2>1 DEF Jury!StateRead, JuryPanel
    <3>2. y \in BOOLEAN /\ world.juror \in BOOLEAN /\ world.reward \in BOOLEAN
      BY <1>0 DEF JuryWorld
    <3> HIDE DEF y, a
    <3> QED
      BY <3>1, <3>2
  <2>2. CASE Jury!StateUnread(c)
    <3> DEFINE n == FALSE
    <3>1. PICK info \in BOOLEAN : ui' = [ui EXCEPT !.info = info, !.juror = n, !.reward = n, !.action = a]
      BY <1>0, <2>2 DEF Jury!StateUnread, JuryPanel
    <3>2. n \in BOOLEAN
      OBVIOUS
    <3> HIDE DEF n, a
    <3> QED
      BY <3>1, <3>2
  <2> QED
    BY <2>1, <2>2
<1> HIDE DEF a
<1>3. /\ ui' \in JuryPanel /\ ui'.at = ui.at /\ ui'.seen = ui.seen /\ ui'.of = ui.of /\ ui'.waits = ui.waits
      /\ ui'.action = a
  BY <1>0, <1>1, <1>2 DEF JuryPanel
<1>4. /\ world' \in JuryWorld /\ world'.ops = world.ops /\ world'.failed >= world.failed /\ world'.tasks = world.tasks
      /\ (world'.sure => world.sure)
      /\ (world'.failed = 0 => world.failed = 0 /\ (world.allowed => world'.allowed))
  <2>1. CASE Jury!StateRead(c)
    <3>1. world' = world
      BY <2>1 DEF Jury!StateRead
    <3> QED
      BY <1>0, <3>1, JuryTypes
  <2>2. CASE Jury!StateUnread(c)
    <3>1. Jury!Misread
      BY <2>2 DEF Jury!StateUnread
    <3> QED
      BY <3>1, JuryMisread
  <2> QED
    BY <2>1, <2>2
<1>5. SureInv'
  BY <1>0, <1>3, <1>4, JurySureStays
<1>6. ui.action = "state" => ui.action \notin Jury!Kind
  BY JuryKinds
<1>7. \/ ui'.action = ui.action
      \/ /\ ui'.action = "none"
         /\ world'.failed = 0 => \A d \in calls' : d.kind \notin Jury!Kind
  BY <1>0, <1>1, <1>3, <1>4, <1>6, JuryIdle
<1> QED
  BY <1>0, <1>3, <1>4, <1>5, <1>7, JuryTurns

LEMMA JuryFailStep ==
  ASSUME JuryInv, NEW c \in calls,
         Jury!Fail(c) \/ Jury!GiveUp(c) \/ Jury!NotApproved(c)
  PROVE  JuryInv'
<1>0. /\ ui \in JuryPanel /\ world \in JuryWorld /\ calls \subseteq JuryCall /\ Jury!Awaited(c) /\ c.kind \in Jury!Kind /\ c.kind # "task"
      /\ calls' = calls \ {c} \/ (calls' = calls /\ Jury!GiveUp(c))
  BY JuryTypes, JuryKinds DEF Jury!Fail, Jury!GiveUp, Jury!NotApproved, Jury!Ended, Jury!Awaited
<1>1. PICK a \in {"none", "approved"} : ui' = [ui EXCEPT !.action = a] /\ (a = "approved" => Jury!NotApproved(c))
  BY DEF Jury!Fail, Jury!GiveUp, Jury!NotApproved
<1>2. /\ ui' \in JuryPanel /\ ui'.at = ui.at /\ ui'.seen = ui.seen /\ ui'.of = ui.of /\ ui'.waits = ui.waits
      /\ ui'.action = a
  BY <1>0, <1>1 DEF JuryPanel
<1>3. /\ world' \in JuryWorld /\ world'.ops = world.ops /\ world'.failed >= world.failed /\ world'.tasks = world.tasks
      /\ world'.sure => world.sure
      /\ world'.failed = 0 => world.failed = 0 /\ Jury!Fail(c) /\ (world.allowed => world'.allowed)
  BY <1>0, JuryTypes, JuryMisread DEF Jury!Fail, Jury!GiveUp, Jury!NotApproved
<1>4. SureInv'
  BY <1>0, <1>2, <1>3, JurySureStays
<1>5. world'.failed = 0 => a # "approved" /\ \A d \in calls' : d.kind \notin Jury!Kind
  <2> SUFFICES ASSUME world'.failed = 0
               PROVE  a # "approved" /\ \A d \in calls' : d.kind \notin Jury!Kind
    OBVIOUS
  <2>1. world' = world /\ calls' = calls \ {c} /\ world.failed = 0
    BY <1>3 DEF Jury!Fail, Jury!Ended
  <2>2. \A d \in calls : d.kind \in Jury!Kind => d = c
    BY <1>0, <2>1, JuryAlone
  <2>3. a # "approved"
    <3>1. ~Jury!NotApproved(c)
      BY <2>1, JuryTypes, JuryMisread DEF Jury!NotApproved
    <3> QED
      BY <1>1, <3>1
  <2> QED
    BY <2>1, <2>2, <2>3
<1> QED
  BY <1>0, <1>2, <1>3, <1>4, <1>5, JuryTurns

(* A lookup is answered. *)
LEMMA JuryTaskStep ==
  ASSUME JuryInv, NEW c \in calls, NEW at \in MaybeTask, NEW seen \in JuryTask, c.kind = "task",
         ui' = [(IF c.refresh THEN Jury!Refreshed ELSE ui) EXCEPT !.loading = FALSE, !.at = at, !.seen = seen],
         Jury!Follow(c), world' \in JuryWorld, world'.ops = world.ops, world'.failed >= world.failed,
         world'.failed = 0 => (world.allowed => world'.allowed),
         world'.sure => /\ world.sure /\ world'.tasks = world.tasks /\ at = c.hash
                        /\ (seen.mine <=> c.saw.mine) \/ (seen.mine <=> world.tasks[c.hash].mine)
  PROVE  JuryInv'
<1>0. ui \in JuryPanel /\ world \in JuryWorld /\ calls \subseteq JuryCall /\ world.failed \in Nat
  BY JuryTypes
<1> DEFINE a == IF c.refresh /\ ui.action = "task" THEN "state" ELSE ui.action
           f == FALSE
<1>1. ui' = [ui EXCEPT !.loading = f, !.at = at, !.seen = seen, !.action = a]
  BY <1>0 DEF Jury!Refreshed, JuryPanel
<1>2. a \in {"none", "approved", "task", "state"} \cup Jury!Kind /\ (a = ui.action \/ (a = "state" /\ ui.action = "task"))
  BY <1>0 DEF JuryPanel
<1>3. f \in BOOLEAN
  OBVIOUS
<1> HIDE DEF a, f
<1>4. ui' \in JuryPanel /\ ui'.at = at /\ ui'.seen = seen /\ ui'.action = a /\ ui'.of = ui.of /\ ui'.waits = ui.waits
  BY <1>0, <1>1, <1>2, <1>3 DEF JuryPanel
<1>5. Jury!State \in StateCall /\ Jury!State.kind = "state"
  BY JuryTypes DEF Jury!State, StateCall
<1>6. \A d \in calls' : (d \in calls /\ d # c) \/ (d = Jury!State)
  BY DEF Jury!Follow
<1>7. calls' \subseteq JuryCall /\ \A d \in calls' : d \in calls \/ d.kind \notin Jury!Kind
  BY <1>0, <1>5, <1>6, JuryKinds DEF JuryCall
<1>8. SureInv'
  <2> SUFFICES ASSUME world'.sure PROVE SureInv'
    BY DEF SureInv
  <2>1. /\ \A x, d \in calls : x.kind = "task" /\ d.kind = "task" => x = d
        /\ (c.saw.mine <=> world.tasks[c.hash].mine)
    BY DEF JuryInv, SureInv
  <2>2. \A d \in calls' : d.kind # "task"
    BY <1>5, <1>6, <2>1
  <2> QED
    BY <1>4, <2>1, <2>2 DEF SureInv
<1>9. ui'.action = ui.action \/ (ui'.action = "state" /\ (world'.failed = 0 => \A d \in calls' : d.kind \notin Jury!Kind))
  <2>1. ui.action = "task" /\ world.failed = 0 => \A d \in calls : d.kind \notin Jury!Kind
    BY JuryKinds, JuryIdle
  <2>2. world'.failed = 0 => world.failed = 0
    BY <1>0 DEF JuryWorld
  <2> QED
    BY <1>2, <1>4, <1>7, <2>1, <2>2
<1> QED
  BY <1>4, <1>7, <1>8, <1>9, JuryTurns

LEMMA JuryReadStep ==
  ASSUME JuryInv, NEW c \in calls,
         Jury!TaskAnswered(c) \/ \E found \in BOOLEAN : Jury!TaskUnread(c, found)
  PROVE  JuryInv'
<1>0. /\ ui \in JuryPanel /\ world \in JuryWorld /\ c \in LookUpCall /\ c.kind = "task" /\ c.hash \in Hash
      /\ world.tasks[c.hash] \in JuryTask /\ c.saw \in JuryTask
  BY JuryTypes, JuryKinds DEF Jury!TaskAnswered, Jury!TaskUnread, LookUpCall
<1>1. CASE Jury!TaskAnswered(c)
  <2>1. PICK task \in {c.saw, world.tasks[c.hash]}, votes \in {c.saw, world.tasks[c.hash]} : Jury!TaskRead(c, task, votes)
    BY <1>1 DEF Jury!TaskAnswered
  <2> DEFINE seen == [task EXCEPT !.mine = votes.mine]
  <2>2. /\ ui' = [(IF c.refresh THEN Jury!Refreshed ELSE ui) EXCEPT !.loading = FALSE, !.at = c.hash, !.seen = seen]
        /\ Jury!Follow(c) /\ world' = world
    BY <2>1 DEF Jury!TaskRead
  <2>3. seen \in JuryTask /\ (seen.mine = votes.mine) /\ c.hash \in MaybeTask
    BY <1>0, <2>1 DEF JuryTask, MaybeTask
  <2> HIDE DEF seen
  <2>4. (seen.mine <=> c.saw.mine) \/ (seen.mine <=> world.tasks[c.hash].mine)
    BY <2>1, <2>3
  <2>5. /\ world' \in JuryWorld /\ world'.ops = world.ops /\ world'.failed >= world.failed /\ world'.tasks = world.tasks
        /\ (world'.allowed <=> world.allowed) /\ (world'.sure <=> world.sure)
    BY <1>0, <2>2, JuryTypes
  <2> QED
    BY <1>0, <2>2, <2>3, <2>4, <2>5, JuryTaskStep
<1>2. ASSUME NEW found \in BOOLEAN, Jury!TaskUnread(c, found)
      PROVE  JuryInv'
  <2> DEFINE n == FALSE
             at == IF found THEN c.hash ELSE None
             seen == IF found THEN [world.tasks[c.hash] EXCEPT !.mine = n] ELSE Jury!Open
  <2>1. /\ ui' = [(IF c.refresh THEN Jury!Refreshed ELSE ui) EXCEPT !.loading = FALSE, !.at = at, !.seen = seen]
        /\ Jury!Follow(c) /\ Jury!Misread
    BY <1>2 DEF Jury!TaskUnread
  <2>2. n \in BOOLEAN
    OBVIOUS
  <2> HIDE DEF n
  <2>3. [world.tasks[c.hash] EXCEPT !.mine = n] \in JuryTask /\ Jury!Open \in JuryTask
    BY <1>0, <2>2 DEF JuryTask, Jury!Open
  <2>4. seen \in JuryTask /\ at \in MaybeTask
    BY <1>0, <2>3 DEF MaybeTask
  <2> HIDE DEF seen, at
  <2>5. /\ world' \in JuryWorld /\ world'.ops = world.ops /\ world'.failed >= world.failed /\ ~world'.sure
        /\ world'.failed # 0
    BY <2>1, JuryMisread, JuryTypes DEF JuryWorld
  <2> QED
    BY <1>0, <2>1, <2>4, <2>5, JuryTaskStep
<1> QED
  BY <1>1, <1>2

LEMMA JuryNamedStays ==
  ASSUME JuryInv, \A c \in calls' : c \in calls \/ c.kind \notin Jury!Kind, world'.ops = world.ops,
         ui'.of = ui.of, ui'.waits = ui.waits, ui'.action = ui.action \/ ui'.action \notin Jury!Kind
  PROVE  NamedInv'
BY JuryKinds DEF JuryInv, NamedInv, OnTask, Jury!Awaited, Jury!Kind

LEMMA JuryLoadStep ==
  ASSUME JuryInv, NEW h \in Hash, Jury!HandleLoadTask(h)
  PROVE  JuryInv'
<1>0. ui \in JuryPanel /\ world \in JuryWorld /\ calls \subseteq JuryCall /\ world.tasks[h] \in JuryTask
  BY JuryTypes
<1> DEFINE n == world.loads + 1
           f == FALSE
           y == TRUE
           alone == \A c \in calls : c.kind # "task"
<1>1. /\ calls' = calls \cup {[kind |-> "task", n |-> n, hash |-> h, saw |-> world.tasks[h], refresh |-> f]}
      /\ ui' = [ui EXCEPT !.loading = y]
      /\ world' = [world EXCEPT !.loads = n, !.sure = alone]
  BY <1>0 DEF Jury!HandleLoadTask, Jury!Started, Jury!LookUp, JuryWorld
<1>3. n \in Nat /\ f \in BOOLEAN /\ y \in BOOLEAN /\ alone \in BOOLEAN
  BY JuryTypes
<1>4. alone => \A c \in calls : c.kind # "task"
  OBVIOUS
<1> HIDE DEF n, f, y, alone
<1>c. PICK call : call = [kind |-> "task", n |-> n, hash |-> h, saw |-> world.tasks[h], refresh |-> f]
  OBVIOUS
<1>5. call \in LookUpCall /\ calls' = calls \cup {call} /\ call.kind = "task" /\ call.hash = h /\ call.saw = world.tasks[h]
  BY <1>0, <1>1, <1>3, <1>c DEF LookUpCall
<1>6. /\ ui' \in JuryPanel /\ ui'.at = ui.at /\ ui'.seen = ui.seen /\ ui'.of = ui.of /\ ui'.waits = ui.waits
      /\ ui'.action = ui.action
  BY <1>0, <1>1, <1>3 DEF JuryPanel
<1>7. /\ world' \in JuryWorld /\ world'.ops = world.ops /\ world'.failed = world.failed /\ world'.tasks = world.tasks
      /\ (world'.allowed <=> world.allowed) /\ (world'.sure <=> alone)
  BY <1>0, <1>1, <1>3 DEF JuryWorld
<1>8. calls' \subseteq JuryCall /\ \A c \in calls' : c \in calls \/ c.kind \notin Jury!Kind
  BY <1>0, <1>5, JuryKinds DEF JuryCall
<1>9. SureInv'
  <2> SUFFICES ASSUME world'.sure PROVE SureInv'
    BY DEF SureInv
  <2>1. \A c \in calls' : c.kind = "task" => c = call
    BY <1>4, <1>5, <1>7
  <2>2. call \in calls'
    BY <1>5
  <2> QED
    BY <1>5, <1>7, <2>1, <2>2 DEF SureInv
<1> QED
  BY <1>6, <1>7, <1>8, <1>9, JuryTypes, JuryTurns

(* An operation is sent and awaited. *)
LEMMA JurySendStep ==
  ASSUME JuryInv, NEW kind \in Jury!Kind, NEW h \in MaybeTask, Jury!Send(kind, h), ui.action \notin Jury!Kind,
         ui' = [ui EXCEPT !.action = kind, !.of = h, !.waits = world'.ops],
         OnTask(kind) => h \in Hash,
         kind = "register" /\ world.failed = 0 => world.allowed
  PROVE  JuryInv'
<1>0. ui \in JuryPanel /\ world \in JuryWorld /\ calls \subseteq JuryCall /\ world.ops \in Nat
  BY JuryTypes
<1> DEFINE n == world.ops + 1
<1>1. n \in Nat /\ n > world.ops /\ calls' = calls \cup {[kind |-> kind, n |-> n, hash |-> h]} /\ world' = [world EXCEPT !.ops = n]
  BY <1>0 DEF Jury!Send, Jury!Started, JuryWorld
<1> HIDE DEF n
<1>c. PICK call : call = [kind |-> kind, n |-> n, hash |-> h]
  OBVIOUS
<1>2. call \in JuryOp /\ calls' = calls \cup {call} /\ call.kind = kind /\ call.n = n /\ call.hash = h
  BY <1>1, <1>c DEF JuryOp
<1>3. /\ world' \in JuryWorld /\ world'.ops = n /\ world'.failed = world.failed /\ world'.tasks = world.tasks
      /\ (world'.allowed <=> world.allowed) /\ (world'.sure <=> world.sure)
  BY <1>0, <1>1 DEF JuryWorld
<1>4. /\ ui' \in JuryPanel /\ ui'.at = ui.at /\ ui'.seen = ui.seen /\ ui'.of = h /\ ui'.waits = n /\ ui'.action = kind
  BY <1>0, <1>1, <1>3 DEF JuryPanel
<1>5. calls' \subseteq JuryCall /\ kind # "task" /\ kind # "state" /\ kind # "approved" /\ kind # "none"
  BY <1>0, <1>1, <1>2 DEF JuryCall, Jury!Kind
<1>6. SureInv'
  BY <1>1, <1>2, <1>3, <1>4, <1>5, JurySureStays
<1>7. NamedInv'
  <2>1. /\ \A c \in calls : OnTask(c.kind) => c.hash \in Hash
        /\ \A c \in calls : c.kind \in Jury!Kind => c.n =< world.ops /\ c.n \in Nat
    BY <1>0, JuryKinds DEF JuryInv, NamedInv, JuryOp
  <2>2. \A c \in calls' : OnTask(c.kind) => c.hash \in Hash
    BY <1>1, <1>2, <2>1
  <2>3. \A c \in calls' : c.kind \in Jury!Kind => c.n =< n
    BY <1>0, <1>1, <1>2, <2>1
  <2>4. \A c \in calls : ~Jury!Awaited(c)'
    BY <1>0, <1>1, <1>4, <2>1 DEF Jury!Awaited
  <2>5. \A c \in calls' : Jury!Awaited(c)' => c.hash = h
    BY <1>1, <1>2, <2>4
  <2> QED
    BY <1>1, <1>3, <1>4, <2>2, <2>3, <2>5 DEF NamedInv, OnTask
<1>8. BackedInv'
  <2> SUFFICES ASSUME world.failed = 0 PROVE BackedInv'
    BY <1>3 DEF BackedInv
  <2>1. \A c \in calls' : c.kind \in Jury!Kind => c = call
    BY <1>2, JuryIdle
  <2>2. Jury!Awaited(call)'
    BY <1>2, <1>4 DEF Jury!Awaited
  <2>3. "register" \in Jury!Kind
    BY DEF Jury!Kind
  <2> QED
    BY <1>2, <1>3, <1>4, <1>5, <2>1, <2>2, <2>3 DEF BackedInv
<1> QED
  BY <1>3, <1>4, <1>5, <1>6, <1>7, <1>8 DEF JuryInv, JuryTypeOK

LEMMA JuryClickStep ==
  ASSUME JuryInv, NEW kind \in Jury!Kind, Jury!Click(kind)
  PROVE  JuryInv'
<1>1. /\ kind \in Jury!Offered /\ Jury!Send(kind, ui.at) /\ ui.at \in MaybeTask
      /\ ui' = [ui EXCEPT !.action = kind, !.of = ui.at, !.waits = world'.ops]
  BY JuryTypes DEF Jury!Click
<1>2. ui.action = "none" /\ kind # "register" /\ (OnTask(kind) => ui.at # None)
  BY <1>1 DEF Jury!Offered, OnTask, Jury!Votable, Jury!Finalizable
<1>3. ui.action \notin Jury!Kind /\ (OnTask(kind) => ui.at \in Hash)
  BY <1>1, <1>2 DEF Jury!Kind, MaybeTask
<1> QED
  BY <1>1, <1>2, <1>3, JurySendStep

LEMMA JuryRegisterStep ==
  ASSUME JuryInv, Jury!RegisterJuror
  PROVE  JuryInv'
<1>1. /\ Jury!Send("register", ui.of) /\ ui.action = "approved" /\ ui.of \in MaybeTask
      /\ ui' = [ui EXCEPT !.action = "register", !.waits = world'.ops]
  BY JuryTypes DEF Jury!RegisterJuror
<1>2. ui' = [ui EXCEPT !.action = "register", !.of = ui.of, !.waits = world'.ops]
  BY <1>1, JuryTypes DEF JuryPanel
<1>3. "register" \in Jury!Kind /\ ui.action \notin Jury!Kind /\ ~OnTask("register")
  BY <1>1 DEF Jury!Kind, OnTask
<1>4. world.failed = 0 => world.allowed
  BY <1>1 DEF JuryInv, BackedInv
<1> QED
  BY <1>1, <1>2, <1>3, <1>4, JurySendStep

(* What an operation that lands does to the contract. *)
LEMMA JuryMined ==
  ASSUME JuryInv, NEW c \in calls, Jury!Land(c)
  PROVE  /\ world' \in JuryWorld /\ world'.ops = world.ops /\ world'.failed = world.failed
         /\ (world'.sure <=> Jury!Sure(c))
         /\ (c.kind = "approve" => world'.allowed)
         /\ (c.kind # "vote" => \A h \in Hash : world'.tasks[h].mine <=> world.tasks[h].mine)
<1>0. /\ world \in JuryWorld /\ c.kind \in Jury!Kind /\ world.tasks \in [Hash -> JuryTask]
      /\ world' = [Jury!Mined(c) EXCEPT !.sure = Jury!Sure(c)]
      /\ (OnTask(c.kind) => c.hash \in Hash)
  BY JuryTypes DEF Jury!Land, JuryInv, NamedInv
<1> DEFINE q == Jury!Sure(c)
           y == TRUE
           f == FALSE
           n == world.tasks[c.hash].votes + 1
<1>1. q \in BOOLEAN /\ (q <=> Jury!Sure(c)) /\ y \in BOOLEAN /\ y /\ f \in BOOLEAN
  BY DEF Jury!Sure, Jury!Awaited
<1>2. CASE c.kind = "approve"
  <2>1. world' = [[world EXCEPT !.allowed = y] EXCEPT !.sure = q]
    BY <1>0, <1>2 DEF Jury!Mined
  <2> HIDE DEF q, y
  <2> QED
    BY <1>0, <1>1, <1>2, <2>1 DEF JuryWorld
<1>3. CASE c.kind = "register"
  <2>1. world' = [[world EXCEPT !.juror = y, !.allowed = f] EXCEPT !.sure = q]
    BY <1>0, <1>3 DEF Jury!Mined
  <2> HIDE DEF q, y, f
  <2> QED
    BY <1>0, <1>1, <1>3, <2>1 DEF JuryWorld
<1>4. CASE c.kind = "claim"
  <2>1. world' = [[world EXCEPT !.reward = f] EXCEPT !.sure = q]
    BY <1>0, <1>4 DEF Jury!Mined
  <2> HIDE DEF q, f
  <2> QED
    BY <1>0, <1>1, <1>4, <2>1 DEF JuryWorld
<1>5. CASE c.kind = "vote"
  <2>0. c.hash \in Hash /\ world.tasks[c.hash] \in JuryTask
    BY <1>0, <1>5 DEF OnTask
  <2> DEFINE t == [world.tasks[c.hash] EXCEPT !.mine = y, !.votes = n]
             tasks == [world.tasks EXCEPT ![c.hash] = t]
  <2>1. world' = [[world EXCEPT !.tasks = tasks] EXCEPT !.sure = q]
    BY <1>0, <1>5, <2>0 DEF Jury!Mined, JuryWorld, JuryTask
  <2>2. n \in Nat
    BY <2>0 DEF JuryTask
  <2> HIDE DEF q, y, n
  <2>3. t \in JuryTask
    BY <1>1, <2>0, <2>2 DEF JuryTask
  <2> HIDE DEF t
  <2>4. tasks \in [Hash -> JuryTask]
    BY <1>0, <2>0, <2>3
  <2> HIDE DEF tasks
  <2> QED
    BY <1>0, <1>1, <1>5, <2>1, <2>4 DEF JuryWorld
<1>6. CASE c.kind = "finalize"
  <2>0. c.hash \in Hash /\ world.tasks[c.hash] \in JuryTask
    BY <1>0, <1>6 DEF OnTask
  <2> DEFINE t == [world.tasks[c.hash] EXCEPT !.phase = "done"]
             tasks == [world.tasks EXCEPT ![c.hash] = t]
  <2>1. world' = [[world EXCEPT !.tasks = tasks, !.reward = y] EXCEPT !.sure = q]
    BY <1>0, <1>6, <2>0 DEF Jury!Mined, JuryWorld, JuryTask
  <2> HIDE DEF q, y
  <2>3. t \in JuryTask /\ (t.mine <=> world.tasks[c.hash].mine)
    BY <1>1, <2>0 DEF JuryTask
  <2> HIDE DEF t
  <2>4. tasks \in [Hash -> JuryTask] /\ \A h \in Hash : tasks[h].mine <=> world.tasks[h].mine
    BY <1>0, <2>0, <2>3
  <2> HIDE DEF tasks
  <2>5. world' \in JuryWorld /\ world'.ops = world.ops /\ world'.failed = world.failed /\ (world'.sure <=> q) /\ world'.tasks = tasks
    BY <1>0, <1>1, <2>1, <2>4 DEF JuryWorld
  <2> QED
    BY <1>1, <1>6, <2>4, <2>5
<1> QED
  BY <1>0, <1>2, <1>3, <1>4, <1>5, <1>6 DEF Jury!Kind

LEMMA JuryLandStep ==
  ASSUME JuryInv, NEW c \in calls, Jury!Land(c)
  PROVE  JuryInv'
<1>0. /\ ui \in JuryPanel /\ world \in JuryWorld /\ calls \subseteq JuryCall /\ c.kind \in Jury!Kind /\ c.kind # "task"
      /\ ui.of \in MaybeTask
  BY JuryTypes, JuryKinds DEF Jury!Land
<1>1. /\ world' \in JuryWorld /\ world'.ops = world.ops /\ world'.failed = world.failed
      /\ (world'.sure <=> Jury!Sure(c))
      /\ (c.kind = "approve" => world'.allowed)
      /\ (c.kind # "vote" => \A h \in Hash : world'.tasks[h].mine <=> world.tasks[h].mine)
      /\ world'.tasks \in [Hash -> JuryTask]
  BY JuryMined DEF JuryWorld
<1>2. CASE ~Jury!Awaited(c)
  <2>1. calls' = calls \ {c} /\ ui' = ui /\ ~world'.sure
    BY <1>1, <1>2 DEF Jury!Land, Jury!Ended, Jury!Sure
  <2>2. SureInv'
    BY <2>1 DEF SureInv
  <2>3. NamedInv'
    BY <1>1, <2>1, JuryNamedStays
  <2>4. BackedInv'
    BY <1>0, <1>1, <1>2 DEF JuryInv, BackedInv
  <2> QED
    BY <1>0, <1>1, <2>1, <2>2, <2>3, <2>4 DEF JuryInv, JuryTypeOK
<1>3. CASE Jury!Awaited(c)
  <2>0. Jury!Done(c) /\ ui.action = c.kind
    BY <1>3 DEF Jury!Land, Jury!Awaited
  <2> SUFFICES ASSUME TRUE
               PROVE  /\ ui' \in JuryPanel /\ calls' \subseteq JuryCall /\ SureInv'
                      /\ ui'.of = ui.of /\ ui'.waits = ui.waits /\ ui'.action \notin Jury!Kind
                      /\ (ui'.action = "approved" => c.kind = "approve")
                      /\ \A d \in calls' : (d \in calls /\ d # c) \/ d.kind \notin Jury!Kind
    <3>1. NamedInv'
      BY <1>1, JuryNamedStays
    <3>2. BackedInv'
      <4> SUFFICES ASSUME world.failed = 0 PROVE BackedInv'
        BY <1>1 DEF BackedInv
      <4>1. \A d \in calls' : d.kind \notin Jury!Kind
        BY <1>0, JuryAlone
      <4> QED
        BY <1>1, <4>1 DEF BackedInv, Jury!Kind
    <3> QED
      BY <1>1, <3>1, <3>2 DEF JuryInv, JuryTypeOK
  <2>1. CASE c.kind = "approve"
    <3>1. ui' = [ui EXCEPT !.action = "approved"] /\ calls' = calls \ {c}
      BY <2>0, <2>1 DEF Jury!Done, Jury!Ended
    <3>2. /\ ui' \in JuryPanel /\ ui'.at = ui.at /\ ui'.seen = ui.seen /\ ui'.of = ui.of /\ ui'.waits = ui.waits
          /\ ui'.action = "approved" /\ "approved" \notin Jury!Kind
      BY <1>0, <3>1 DEF JuryPanel, Jury!Kind
    <3>3. world'.sure => world.sure
      BY <1>1, <2>0, <2>1 DEF Jury!Sure, Jury!Refreshes
    <3>4. SureInv'
      BY <1>0, <1>1, <2>1, <3>1, <3>2, <3>3, JurySureStays
    <3> QED
      BY <1>0, <2>1, <3>1, <3>2, <3>4
  <2>2. CASE c.kind # "approve" /\ Jury!Refreshes
    <3> DEFINE y == TRUE
               n == world.loads + 1
    <3>1. /\ ui' = [ui EXCEPT !.action = "task", !.loading = y]
          /\ calls' = (calls \ {c}) \cup {[kind |-> "task", n |-> n, hash |-> ui.of, saw |-> world'.tasks[ui.of], refresh |-> y]}
      BY <2>0, <2>2 DEF Jury!Done, Jury!LookUp
    <3>3. y \in BOOLEAN /\ n \in Nat /\ ui.of \in Hash /\ world'.tasks[ui.of] \in JuryTask
      BY <1>0, <1>1, <2>2, JuryTypes DEF Jury!Refreshes, MaybeTask
    <3> HIDE DEF y, n
    <3>c. PICK call : call = [kind |-> "task", n |-> n, hash |-> ui.of, saw |-> world'.tasks[ui.of], refresh |-> y]
      OBVIOUS
    <3>4. /\ call \in LookUpCall /\ calls' = (calls \ {c}) \cup {call}
          /\ call.kind = "task" /\ call.hash = ui.of /\ call.saw = world'.tasks[ui.of]
      BY <3>1, <3>3, <3>c DEF LookUpCall
    <3>5. /\ ui' \in JuryPanel /\ ui'.of = ui.of /\ ui'.waits = ui.waits
          /\ ui'.action = "task" /\ "task" \notin Jury!Kind
      BY <1>0, <3>1, <3>3 DEF JuryPanel, Jury!Kind
    <3>6. SureInv'
      <4> SUFFICES ASSUME world'.sure PROVE SureInv'
        BY DEF SureInv
      <4>1. \A d \in calls : d.kind # "task"
        BY <1>1, <2>2 DEF Jury!Sure
      <4>2. \A d \in calls' : d.kind = "task" => d = call
        BY <3>4, <4>1
      <4>3. call \in calls'
        BY <3>4
      <4> QED
        BY <3>4, <4>2, <4>3 DEF SureInv
    <3> QED
      BY <1>0, <3>1, <3>4, <3>5, <3>6, JuryKinds DEF JuryCall
  <2>3. CASE c.kind # "approve" /\ ~Jury!Refreshes
    <3>1. ui' = [ui EXCEPT !.action = "state"] /\ calls' = (calls \ {c}) \cup {Jury!State}
      BY <2>0, <2>3 DEF Jury!Done
    <3>2. Jury!State \in StateCall /\ Jury!State.kind = "state"
      BY JuryTypes DEF Jury!State, StateCall
    <3>3. /\ ui' \in JuryPanel /\ ui'.at = ui.at /\ ui'.seen = ui.seen /\ ui'.of = ui.of /\ ui'.waits = ui.waits
          /\ ui'.action = "state" /\ "state" \notin Jury!Kind
      BY <1>0, <3>1 DEF JuryPanel, Jury!Kind
    <3>4. c.kind # "vote"
      <4>1. OnTask(ui.action) => ui.of \in Hash
        BY DEF JuryInv, NamedInv
      <4>2. ui.of = None \/ ui.action \notin {"vote", "finalize", "claim"}
        BY <2>3 DEF Jury!Refreshes
      <4>3. ui.action = "vote" => ui.of = None /\ None \in Hash
        BY <4>1, <4>2 DEF OnTask
      <4> QED
        BY <2>0, <4>3, JuryAssumption
    <3>5. world'.sure => world.sure
      BY <1>1, <2>3 DEF Jury!Sure
    <3>6. SureInv'
      BY <1>0, <1>1, <3>1, <3>2, <3>3, <3>4, <3>5, JurySureStays
    <3> QED
      BY <1>0, <2>3, <3>1, <3>2, <3>3, <3>6, JuryKinds DEF JuryCall
  <2> QED
    BY <2>1, <2>2, <2>3
<1> QED
  BY <1>2, <1>3

LEMMA JuryNext == JuryInv /\ Jury!Next => JuryInv'
BY JuryLoadStep, JuryPassStep, JuryClickStep, JuryRegisterStep, JuryReadStep, JuryStateStep, JuryLandStep, JuryFailStep
   DEF Jury!Next

LEMMA JuryStutter == JuryInv /\ UNCHANGED vars => JuryInv'
BY DEF vars, JuryInv, JuryTypeOK, NamedInv, BackedInv, SureInv, Jury!Awaited, Jury!Kind, OnTask

LEMMA JuryInvImplies == JuryInv => Jury!RegistrationBacked /\ Jury!OwnVoteSeen
<1> SUFFICES ASSUME JuryInv PROVE Jury!RegistrationBacked /\ Jury!OwnVoteSeen
  OBVIOUS
<1>1. Jury!RegistrationBacked
  BY DEF JuryInv, BackedInv, Jury!RegistrationBacked
<1>2. Jury!OwnVoteSeen
  <2> SUFFICES ASSUME ui.at # None, world.sure, \A c \in calls : c.kind = "state"
               PROVE  ui.seen.mine = world.tasks[ui.at].mine
    BY DEF Jury!OwnVoteSeen
  <2>1. ui.at \in Hash /\ ui.seen.mine \in BOOLEAN /\ world.tasks[ui.at].mine \in BOOLEAN
    BY JuryTypes DEF MaybeTask, JuryTask
  <2>2. ui.seen.mine <=> world.tasks[ui.at].mine
    BY DEF JuryInv, SureInv
  <2> QED
    BY <2>1, <2>2
<1> QED
  BY <1>1, <1>2

(* What the contract asks of an operation is what the panel looked at. *)
LEMMA JuryOffered == Jury!OfferedIsAccepted
<1> SUFFICES ASSUME NEW kind \in Jury!Offered, ui.at = None \/ ui.seen = world.tasks[ui.at],
                    ui.juror = world.juror, ui.reward = world.reward
             PROVE  Jury!Accepts(kind, ui.at)
  BY DEF Jury!OfferedIsAccepted
<1>1. kind \in {"approve", "vote", "finalize", "claim"}
  BY DEF Jury!Offered
<1>2. CASE kind = "approve"
  BY <1>2 DEF Jury!Accepts
<1>3. CASE kind = "vote"
  <2>1. Jury!Votable
    BY <1>3 DEF Jury!Offered
  <2> QED
    BY <1>3, <2>1 DEF Jury!Votable, Jury!Accepts
<1>4. CASE kind = "finalize"
  <2>1. Jury!Finalizable
    BY <1>4 DEF Jury!Offered
  <2> QED
    BY <1>4, <2>1 DEF Jury!Finalizable, Jury!Accepts, Jury!MinJurors
<1>5. CASE kind = "claim"
  BY <1>5 DEF Jury!Offered, Jury!Claimable, Jury!Accepts
<1> QED
  BY <1>1, <1>2, <1>3, <1>4, <1>5

-----------------------------------------------------------------------------
(* The dialog that creates an account.                                       *)
BirthHash == [salt : Nat, version : Version, limit : BOOLEAN]
MaybeHash == BirthHash \cup {None}
BirthSig == [who : Invited \cup {None}, hash : MaybeHash]
BirthSlot == Key \cup {None}
BirthDialog ==
  [open : BOOLEAN, mode : {"passkey", "ecdsa"}, version : Version, limit : BOOLEAN, loading : BOOLEAN,
   step : {"config", "guardian1", "guardian2", "creating"}, prep : MaybeHash, sigs : [Birth!Signer -> BirthSig],
   slots : [Birth!Signer -> BirthSlot], slot : {0, 1, 2}]
BirthWorld == [prepared : Nat, closed : Nat, stray : BOOLEAN]

SlotCall == [kind : {"slot"}, slot : Birth!Signer, other : BirthSlot]
KeysCall == [kind : {"birth"}, keys : SUBSET BirthSlot]
FieldsCall == [kind : {"submit"}, fields : {{"createId", "credential"}}]
PrepareCall == [kind : {"prepare"}, version : Version]
CreationCall == [kind : {"create"}, sigs : [Birth!Signer -> BirthSig], hash : BirthHash]
BirthCall == SlotCall \cup KeysCall \cup FieldsCall \cup PrepareCall \cup CreationCall

BirthTypeOK == ui \in BirthDialog /\ world \in BirthWorld /\ calls \subseteq BirthCall

(* The dialog waits for one answer, beside the ceremonies. *)
Awaits(c) == c.kind \in {"birth", "submit", "prepare", "create"}

LoadingInv ==
  /\ \A c, d \in calls : Awaits(c) /\ Awaits(d) => c = d
  /\ \A c \in calls : Awaits(c) => ui.loading
  /\ \A c \in calls : c.kind = "prepare" => ui.step = "config" /\ c.version = ui.version
  /\ \A c \in calls : c.kind \in {"birth", "submit", "create"} => ui.step = "creating"

(* Both signatures are over the hash of the dialog, if there are any. *)
SignaturesOK(d) ==
  /\ \A g \in Birth!Signer : d.sigs[g] = Birth!Unsigned \/ d.sigs[g].hash = d.prep
  /\ d.step = "config" => \A g \in Birth!Signer : d.sigs[g] = Birth!Unsigned
  /\ d.step \in {"guardian1", "guardian2"} => d.prep # None /\ d.prep.version = d.version
  /\ d.step = "guardian2" => d.sigs[1].hash = d.prep

CreationInv ==
  /\ SignaturesOK(ui)
  /\ \A c \in calls : c.kind \in {"birth", "submit"} => \A g \in Birth!Signer : ui.sigs[g] = Birth!Unsigned
  /\ \A c \in calls : c.kind = "create" => ui.prep # None /\ ui.prep.version = ui.version /\ ui.sigs[1].hash = ui.prep

(* One ceremony at a time, which knows the other slot. *)
CeremonyInv ==
  ~world.stray =>
    /\ \A c, d \in calls : c.kind = "slot" /\ d.kind = "slot" => c = d
    /\ \A c \in calls : c.kind = "slot" => ui.step = "config" /\ ui.slot # 0 /\ c.other = ui.slots[3 - c.slot]
    /\ \A c, d \in calls : c.kind = "slot" => ~Awaits(d)
    /\ ui.slots[1] = ui.slots[2] => ui.slots[1] = None

KeysInv == ~world.stray => \A c \in calls : c.kind = "birth" => \E a, b \in BirthSlot : a # b /\ c.keys = {a, b}

BirthInv ==
  BirthTypeOK /\ LoadingInv /\ CreationInv /\ CeremonyInv /\ KeysInv /\ Birth!CreatedAsSigned

LEMMA BirthTypes ==
  ASSUME BirthInv
  PROVE  /\ ui \in BirthDialog /\ world \in BirthWorld /\ calls \subseteq BirthCall
         /\ ui.step \in {"config", "guardian1", "guardian2", "creating"} /\ ui.prep \in MaybeHash
         /\ ui.sigs \in [Birth!Signer -> BirthSig] /\ ui.slots \in [Birth!Signer -> BirthSlot]
         /\ ui.version \in Version /\ world.closed \in Nat /\ world.prepared \in Nat
         /\ 1 \in Birth!Signer /\ 2 \in Birth!Signer /\ \A g \in Birth!Signer : g \in {1, 2}
BY DEF BirthInv, BirthTypeOK, BirthDialog, BirthWorld, Birth!Signer

LEMMA BirthKinds ==
  /\ \A c \in SlotCall : c.kind = "slot" /\ ~Awaits(c)
  /\ \A c \in KeysCall : c.kind = "birth" /\ Awaits(c)
  /\ \A c \in FieldsCall : c.kind = "submit" /\ Awaits(c)
  /\ \A c \in PrepareCall : c.kind = "prepare" /\ Awaits(c)
  /\ \A c \in CreationCall : c.kind = "create" /\ Awaits(c)
  /\ \A c \in BirthCall : /\ c.kind = "slot" => c \in SlotCall
                          /\ c.kind = "prepare" => c \in PrepareCall
                          /\ c.kind \in {"slot"} \/ Awaits(c)
BY DEF BirthCall, SlotCall, KeysCall, FieldsCall, PrepareCall, CreationCall, Awaits

LEMMA BirthReset ==
  ASSUME NEW d \in [open : BOOLEAN, mode : {"passkey", "ecdsa"}, version : Version, limit : BOOLEAN, loading : BOOLEAN,
                    step : {"config", "guardian1", "guardian2", "creating"}, prep : MaybeHash,
                    sigs : [Birth!Signer -> BirthSig] \cup {<<>>}, slots : [Birth!Signer -> BirthSlot] \cup {<<>>},
                    slot : {0, 1, 2}]
  PROVE  /\ Birth!Reset(d) \in BirthDialog /\ Birth!Reset(d).step = "config" /\ SignaturesOK(Birth!Reset(d))
         /\ Birth!Reset(d).version = d.version /\ (Birth!Reset(d).loading = d.loading) /\ (Birth!Reset(d).open = d.open)
         /\ Birth!Reset(d).slots[1] = None /\ Birth!Reset(d).slot = 0
         /\ \A g \in Birth!Signer : Birth!Reset(d).sigs[g] = Birth!Unsigned
<1> DEFINE sigs == [g \in Birth!Signer |-> Birth!Unsigned]
           slots == [g \in Birth!Signer |-> None]
           y == TRUE
<1>1. Birth!Reset(d) = [d EXCEPT !.step = "config", !.mode = "passkey", !.prep = None, !.limit = y,
                                 !.sigs = sigs, !.slots = slots, !.slot = 0]
  BY DEF Birth!Reset
<1>2. Birth!Unsigned \in BirthSig
  BY DEF Birth!Unsigned, BirthSig, MaybeHash
<1>3. sigs \in [Birth!Signer -> BirthSig] /\ \A g \in Birth!Signer : sigs[g] = Birth!Unsigned
  BY <1>2
<1>4. slots \in [Birth!Signer -> BirthSlot] /\ slots[1] = None
  BY DEF BirthSlot, Birth!Signer
<1>5. y \in BOOLEAN
  OBVIOUS
<1> HIDE DEF sigs, slots, y
<1>6. /\ Birth!Reset(d) \in BirthDialog /\ Birth!Reset(d).step = "config"
      /\ Birth!Reset(d).version = d.version /\ (Birth!Reset(d).loading = d.loading) /\ (Birth!Reset(d).open = d.open)
      /\ Birth!Reset(d).slots = slots /\ Birth!Reset(d).slot = 0 /\ Birth!Reset(d).sigs = sigs
  BY <1>1, <1>3, <1>4, <1>5 DEF BirthDialog, MaybeHash
<1>7. SignaturesOK(Birth!Reset(d))
  BY <1>3, <1>6 DEF SignaturesOK
<1> QED
  BY <1>3, <1>4, <1>6, <1>7

LEMMA BirthResetDialog ==
  ASSUME NEW d \in BirthDialog
  PROVE  /\ Birth!Reset(d) \in BirthDialog /\ Birth!Reset(d).step = "config" /\ SignaturesOK(Birth!Reset(d))
         /\ Birth!Reset(d).version = d.version /\ (Birth!Reset(d).loading = d.loading) /\ (Birth!Reset(d).open = d.open)
         /\ Birth!Reset(d).slots[1] = None /\ Birth!Reset(d).slot = 0
         /\ \A g \in Birth!Signer : Birth!Reset(d).sigs[g] = Birth!Unsigned
<1>1. d \in [open : BOOLEAN, mode : {"passkey", "ecdsa"}, version : Version, limit : BOOLEAN, loading : BOOLEAN,
                    step : {"config", "guardian1", "guardian2", "creating"}, prep : MaybeHash,
                    sigs : [Birth!Signer -> BirthSig] \cup {<<>>}, slots : [Birth!Signer -> BirthSlot] \cup {<<>>},
                    slot : {0, 1, 2}]
  BY DEF BirthDialog
<1> QED
  BY <1>1, BirthReset

LEMMA BirthInit == Birth!Init => BirthInv
<1> SUFFICES ASSUME Birth!Init PROVE BirthInv
  OBVIOUS
<1>1. PICK v \in Version :
        ui = Birth!Reset([open |-> TRUE, mode |-> "passkey", version |-> v, limit |-> TRUE, loading |-> FALSE,
                          step |-> "config", prep |-> None, sigs |-> <<>>, slots |-> <<>>, slot |-> 0])
  BY DEF Birth!Init
<1> DEFINE d == [open |-> TRUE, mode |-> "passkey", version |-> v, limit |-> TRUE, loading |-> FALSE,
                 step |-> "config", prep |-> None, sigs |-> <<>>, slots |-> <<>>, slot |-> 0]
<1>2. d \in [open : BOOLEAN, mode : {"passkey", "ecdsa"}, version : Version, limit : BOOLEAN, loading : BOOLEAN,
             step : {"config", "guardian1", "guardian2", "creating"}, prep : MaybeHash,
             sigs : [Birth!Signer -> BirthSig] \cup {<<>>}, slots : [Birth!Signer -> BirthSlot] \cup {<<>>},
             slot : {0, 1, 2}]
  BY DEF MaybeHash
<1>3. ui = Birth!Reset(d)
  BY <1>1
<1> HIDE DEF d
<1>4. ui \in BirthDialog /\ SignaturesOK(ui) /\ ui.slots[1] = None
  BY <1>2, <1>3, BirthReset
<1>5. world \in BirthWorld /\ calls = {}
  BY DEF Birth!Init, BirthWorld
<1> QED
  BY <1>4, <1>5 DEF BirthInv, BirthTypeOK, LoadingInv, CreationInv, CeremonyInv, KeysInv, Birth!CreatedAsSigned

(* What is in flight stays, and the dialog does not turn away from it. *)
LEMMA BirthDialogStep ==
  ASSUME BirthInv, calls' = calls, world' \in BirthWorld, ui' \in BirthDialog, SignaturesOK(ui'),
         world.stray => world'.stray,
         ui'.step = "creating" => ui.step = "creating" /\ ui' = [ui EXCEPT !.open = ui'.open],
         (\E c \in calls : Awaits(c)) =>
            /\ ui'.loading /\ ui'.version = ui.version
            /\ ui.step = "creating" => ui'.step = "creating"
            /\ ui.step = "config" => ui'.step = "config",
         \/ \A c \in calls : c.kind = "slot" => world'.stray
         \/ ui'.slots = ui.slots /\ ui'.slot = ui.slot /\ (ui.step = "config" => ui'.step = "config"),
         ui'.slots = ui.slots \/ ui'.slots[1] = None
  PROVE  BirthInv'
<1>1. BirthTypeOK'
  BY BirthTypes DEF BirthTypeOK
<1>2. LoadingInv'
  BY DEF BirthInv, LoadingInv, Awaits
<1>3. CreationInv'
  <2>1. \A c \in calls : c.kind \in {"birth", "submit", "create"} => ui'.step = "creating"
    BY <1>2 DEF LoadingInv
  <2>2. ui'.step = "creating" => ui'.sigs = ui.sigs /\ ui'.prep = ui.prep /\ ui'.version = ui.version
    BY BirthTypes DEF BirthDialog
  <2> QED
    BY <2>1, <2>2 DEF BirthInv, CreationInv
<1>4. CeremonyInv'
  BY DEF BirthInv, CeremonyInv, Awaits
<1>5. KeysInv'
  BY DEF BirthInv, KeysInv
<1>6. Birth!CreatedAsSigned'
  BY DEF BirthInv, Birth!CreatedAsSigned
<1> QED
  BY <1>1, <1>2, <1>3, <1>4, <1>5, <1>6 DEF BirthInv

LEMMA BirthCloseStep ==
  ASSUME BirthInv, Birth!Show \/ Birth!Close \/ Birth!Back
  PROVE  BirthInv'
<1>0. /\ ui \in BirthDialog /\ world \in BirthWorld /\ SignaturesOK(ui) /\ calls' = calls
      /\ world.closed + 1 \in Nat
  BY BirthTypes DEF BirthInv, CreationInv, Birth!Show, Birth!Close, Birth!Back
<1>w. \A c \in calls : Awaits(c) => ui.loading
  BY DEF BirthInv, LoadingInv
<1>s. \A c \in calls : Awaits(c) => ui.step \in {"config", "creating"}
  BY DEF BirthInv, LoadingInv, Awaits
<1>c. ~world.stray => \A c \in calls : c.kind = "slot" => ui.step = "config"
  BY DEF BirthInv, CeremonyInv
<1>1. CASE Birth!Show
  <2>1. ui' = [ui EXCEPT !.open = TRUE] /\ world' = world
    BY <1>1 DEF Birth!Show
  <2>2. /\ ui' \in BirthDialog /\ ui'.step = ui.step /\ ui'.slots = ui.slots /\ ui'.slot = ui.slot
        /\ ui'.version = ui.version /\ ui'.loading = ui.loading /\ ui'.sigs = ui.sigs /\ ui'.prep = ui.prep
        /\ ui' = [ui EXCEPT !.open = ui'.open]
    BY <1>0, <2>1 DEF BirthDialog
  <2>3. SignaturesOK(ui')
    BY <1>0, <2>2 DEF SignaturesOK
  <2> QED
    BY <1>0, <1>w, <2>1, <2>2, <2>3, BirthDialogStep
<1>2. CASE Birth!Close
  <2> DEFINE stray == world.stray \/ \E c \in calls : c.kind = "slot"
             n == world.closed + 1
             r == Birth!Reset(ui)
  <2>1. /\ ui' = [r EXCEPT !.open = FALSE] /\ world' = [world EXCEPT !.closed = n, !.stray = stray]
        /\ ui.step # "creating"
    BY <1>0, <1>2 DEF Birth!Close, BirthWorld
  <2>2. stray \in BOOLEAN /\ (world.stray => stray) /\ \A c \in calls : c.kind = "slot" => stray
    BY <1>0 DEF BirthWorld
  <2> HIDE DEF stray, n
  <2>3. world' \in BirthWorld /\ (world'.stray = stray)
    BY <1>0, <2>1, <2>2 DEF BirthWorld, n
  <2>4. /\ r \in BirthDialog /\ r.step = "config" /\ SignaturesOK(r) /\ r.version = ui.version
        /\ (r.loading = ui.loading) /\ r.slots[1] = None
    BY <1>0, BirthResetDialog
  <2> HIDE DEF r
  <2>5. /\ ui' \in BirthDialog /\ ui'.step = "config" /\ ui'.sigs = r.sigs /\ ui'.prep = r.prep /\ ui'.version = ui.version
        /\ (ui'.loading = ui.loading) /\ ui'.slots[1] = None
    BY <2>1, <2>4 DEF BirthDialog
  <2>6. SignaturesOK(ui')
    BY <2>4, <2>5 DEF SignaturesOK
  <2> QED
    BY <1>0, <1>w, <2>1, <2>2, <2>3, <2>5, <2>6, BirthDialogStep
<1>3. CASE Birth!Back
  <2> DEFINE n == world.closed + 1
  <2>1. world' = [world EXCEPT !.closed = n] /\ ui.step \in {"guardian1", "guardian2"}
    BY <1>0, <1>3 DEF Birth!Back, BirthWorld
  <2>2. world' \in BirthWorld /\ (world'.stray = world.stray)
    BY <1>0, <2>1 DEF BirthWorld
  <2>3. CASE ui' = Birth!Reset(ui)
    BY <1>0, <1>s, <1>c, <2>1, <2>2, <2>3, BirthResetDialog, BirthDialogStep
  <2>4. CASE ui' = [ui EXCEPT !.step = "guardian1"]
    <3>1. /\ ui' \in BirthDialog /\ ui'.step = "guardian1" /\ ui'.slots = ui.slots /\ ui'.slot = ui.slot
          /\ ui'.version = ui.version /\ (ui'.loading = ui.loading) /\ ui'.sigs = ui.sigs /\ ui'.prep = ui.prep
      BY <1>0, <2>4 DEF BirthDialog
    <3>2. SignaturesOK(ui')
      BY <1>0, <2>1, <3>1 DEF SignaturesOK
    <3> QED
      BY <1>0, <1>s, <1>c, <2>1, <2>2, <3>1, <3>2, BirthDialogStep
  <2> QED
    BY <1>3, <2>3, <2>4 DEF Birth!Back
<1> QED
  BY <1>1, <1>2, <1>3

LEMMA BirthConfigStep ==
  ASSUME BirthInv, \/ \E mode \in {"passkey", "ecdsa"} : Birth!SelectMode(mode)
                   \/ \E v \in Version : Birth!EditConfig(v)
  PROVE  BirthInv'
<1>0. /\ ui \in BirthDialog /\ world \in BirthWorld /\ SignaturesOK(ui) /\ ~ui.loading /\ ui.step = "config"
      /\ calls' = calls /\ world' = world
  BY BirthTypes DEF BirthInv, CreationInv, Birth!SelectMode, Birth!EditConfig, Birth!Config
<1>1. \A c \in calls : ~Awaits(c)
  BY <1>0 DEF BirthInv, LoadingInv
<1>2. PICK m \in {"passkey", "ecdsa"}, v \in Version, l \in BOOLEAN :
        ui' = [ui EXCEPT !.mode = m, !.version = v, !.limit = l]
  <2>1. ASSUME NEW mode \in {"passkey", "ecdsa"}, Birth!SelectMode(mode)
        PROVE  \E m \in {"passkey", "ecdsa"}, v \in Version, l \in BOOLEAN :
                 ui' = [ui EXCEPT !.mode = m, !.version = v, !.limit = l]
    <3> DEFINE l == IF mode = "ecdsa" THEN FALSE ELSE TRUE
    <3>1. ui' = [ui EXCEPT !.mode = mode, !.limit = l] /\ l \in BOOLEAN
      BY <2>1 DEF Birth!SelectMode
    <3> HIDE DEF l
    <3>2. ui' = [ui EXCEPT !.mode = mode, !.version = ui.version, !.limit = l] /\ ui.version \in Version
      BY <1>0, <3>1 DEF BirthDialog
    <3> QED
      BY <3>1, <3>2
  <2>2. ASSUME NEW v \in Version, Birth!EditConfig(v)
        PROVE  \E m \in {"passkey", "ecdsa"}, w \in Version, l \in BOOLEAN :
                 ui' = [ui EXCEPT !.mode = m, !.version = w, !.limit = l]
    <3>1. PICK l \in BOOLEAN : ui' = [ui EXCEPT !.version = v, !.limit = l]
      BY <1>0, <2>2 DEF Birth!EditConfig, BirthDialog
    <3>2. ui' = [ui EXCEPT !.mode = ui.mode, !.version = v, !.limit = l] /\ ui.mode \in {"passkey", "ecdsa"}
      BY <1>0, <3>1 DEF BirthDialog
    <3> QED
      BY <3>2
  <2> QED
    BY <2>1, <2>2
<1>3. /\ ui' \in BirthDialog /\ ui'.step = "config" /\ ui'.slots = ui.slots /\ ui'.slot = ui.slot
      /\ ui'.sigs = ui.sigs /\ ui'.prep = ui.prep
  BY <1>0, <1>2 DEF BirthDialog
<1>4. SignaturesOK(ui')
  BY <1>0, <1>3 DEF SignaturesOK
<1> QED
  BY <1>0, <1>1, <1>3, <1>4, BirthDialogStep

LEMMA BirthGuardianStep ==
  ASSUME BirthInv, \/ \E g \in Birth!Signer, who \in Invited : Birth!Paste(g, who)
                   \/ Birth!HandleGuardian1Next
  PROVE  BirthInv'
<1>0. /\ ui \in BirthDialog /\ world \in BirthWorld /\ SignaturesOK(ui) /\ ui.step \in {"guardian1", "guardian2"}
      /\ ui.sigs \in [Birth!Signer -> BirthSig] /\ 1 \in Birth!Signer /\ ui.prep \in MaybeHash
      /\ calls' = calls /\ world' = world
  BY BirthTypes DEF BirthInv, CreationInv, Birth!Paste, Birth!HandleGuardian1Next
<1>1. \A c \in calls : ~Awaits(c)
  BY <1>0 DEF BirthInv, LoadingInv, Awaits
<1>2. ~world.stray => \A c \in calls : c.kind # "slot"
  BY <1>0 DEF BirthInv, CeremonyInv
<1>3. ASSUME NEW g \in Birth!Signer, NEW who \in Invited, Birth!Paste(g, who)
      PROVE  BirthInv'
  <2> DEFINE s == [who |-> who, hash |-> ui.prep]
             sigs == [ui.sigs EXCEPT ![g] = s]
  <2>1. ui' = [ui EXCEPT !.sigs = sigs]
    BY <1>0, <1>3 DEF Birth!Paste, BirthDialog
  <2>2. s \in BirthSig /\ s.hash = ui.prep
    BY <1>0 DEF BirthSig
  <2> HIDE DEF s
  <2>3. sigs \in [Birth!Signer -> BirthSig] /\ \A h \in Birth!Signer : sigs[h] = IF h = g THEN s ELSE ui.sigs[h]
    BY <1>0, <2>2
  <2> HIDE DEF sigs
  <2>4. /\ ui' \in BirthDialog /\ ui'.step = ui.step /\ ui'.slots = ui.slots /\ ui'.slot = ui.slot
        /\ ui'.sigs = sigs /\ ui'.prep = ui.prep /\ ui'.version = ui.version
    BY <1>0, <2>1, <2>3 DEF BirthDialog
  <2>5. SignaturesOK(ui')
    BY <1>0, <2>2, <2>3, <2>4 DEF SignaturesOK
  <2> QED
    BY <1>0, <1>1, <1>2, <2>4, <2>5, BirthDialogStep
<1>4. CASE Birth!HandleGuardian1Next
  <2>1. ui' = [ui EXCEPT !.step = "guardian2"] /\ ui.sigs[1] # Birth!Unsigned
    BY <1>4 DEF Birth!HandleGuardian1Next
  <2>2. /\ ui' \in BirthDialog /\ ui'.step = "guardian2" /\ ui'.slots = ui.slots /\ ui'.slot = ui.slot
        /\ ui'.sigs = ui.sigs /\ ui'.prep = ui.prep /\ ui'.version = ui.version
    BY <1>0, <2>1 DEF BirthDialog
  <2>3. SignaturesOK(ui')
    BY <1>0, <2>1, <2>2 DEF SignaturesOK
  <2> QED
    BY <1>0, <1>1, <1>2, <2>2, <2>3, BirthDialogStep
<1> QED
  BY <1>3, <1>4

(* A ceremony begins and ends. *)
LEMMA BirthSlotStep ==
  ASSUME BirthInv, NEW g \in Birth!Signer, Birth!HandleCreateGuardianSlot(g)
  PROVE  BirthInv'
<1> DEFINE d == [kind |-> "slot", slot |-> g, other |-> ui.slots[3 - g]]
<1>0. /\ ui \in BirthDialog /\ world \in BirthWorld /\ calls \subseteq BirthCall /\ ui.slots \in [Birth!Signer -> BirthSlot]
      /\ g \in {1, 2} /\ 3 - g \in Birth!Signer /\ ~ui.loading /\ ui.step = "config" /\ ui.slot = 0
  BY BirthTypes DEF Birth!HandleCreateGuardianSlot, Birth!Config, Birth!Signer
<1>1. ui' = [ui EXCEPT !.slot = g] /\ calls' = calls \cup {d} /\ world' = world
  BY DEF Birth!HandleCreateGuardianSlot
<1>2. d \in SlotCall /\ d.slot = g /\ d.other = ui.slots[3 - g]
  BY <1>0 DEF SlotCall
<1> HIDE DEF d
<1>3. d \in BirthCall /\ d.kind = "slot" /\ ~Awaits(d)
  BY <1>2, BirthKinds DEF BirthCall
<1>4. /\ ui' \in BirthDialog /\ ui'.slot = g /\ ui'.step = ui.step /\ ui'.slots = ui.slots /\ ui'.version = ui.version
      /\ (ui'.loading = ui.loading) /\ ui'.sigs = ui.sigs /\ ui'.prep = ui.prep
  BY <1>0, <1>1 DEF BirthDialog
<1>5. \A c \in calls : ~Awaits(c)
  BY <1>0 DEF BirthInv, LoadingInv
<1>6. \A c \in calls' : c \in calls \/ c = d
  BY <1>1
<1>7. BirthTypeOK'
  BY <1>0, <1>1, <1>3, <1>4, <1>6 DEF BirthTypeOK
<1>8. LoadingInv'
  BY <1>3, <1>5, <1>6 DEF LoadingInv, Awaits
<1>9. CreationInv'
  BY <1>3, <1>4, <1>5, <1>6 DEF BirthInv, CreationInv, SignaturesOK, Awaits
<1>10. CeremonyInv'
  <2> SUFFICES ASSUME ~world.stray PROVE CeremonyInv'
    BY <1>1 DEF CeremonyInv
  <2>1. \A c \in calls : c.kind # "slot"
    BY <1>0 DEF BirthInv, CeremonyInv
  <2>2. ui.slots[1] = ui.slots[2] => ui.slots[1] = None
    BY DEF BirthInv, CeremonyInv
  <2> QED
    BY <1>0, <1>2, <1>3, <1>4, <1>5, <1>6, <2>1, <2>2 DEF CeremonyInv
<1>11. KeysInv'
  BY <1>1, <1>3, <1>6 DEF BirthInv, KeysInv
<1>12. Birth!CreatedAsSigned'
  BY <1>3, <1>6 DEF BirthInv, Birth!CreatedAsSigned
<1> QED
  BY <1>7, <1>8, <1>9, <1>10, <1>11, <1>12 DEF BirthInv

LEMMA BirthSlotEnds ==
  ASSUME BirthInv, NEW c \in calls, Birth!SlotCancelled(c) \/ \E key \in Key : Birth!SlotMade(c, key)
  PROVE  BirthInv'
<1>0. /\ ui \in BirthDialog /\ world \in BirthWorld /\ calls \subseteq BirthCall /\ ui.slots \in [Birth!Signer -> BirthSlot]
      /\ c \in SlotCall /\ c.slot \in {1, 2} /\ c.slot \in Birth!Signer /\ 1 \in Birth!Signer /\ 2 \in Birth!Signer
      /\ world' = world /\ calls' = calls \ {c} /\ c.kind = "slot"
  BY BirthTypes, BirthKinds DEF Birth!SlotCancelled, Birth!SlotMade, SlotCall
<1>1. PICK slots \in [Birth!Signer -> BirthSlot] :
        /\ ui' = [ui EXCEPT !.slot = 0, !.slots = slots]
        /\ ~world.stray => (slots[1] = slots[2] => slots[1] = None)
  <2>0. ~world.stray => c.other = ui.slots[3 - c.slot] /\ (ui.slots[1] = ui.slots[2] => ui.slots[1] = None)
    BY <1>0 DEF BirthInv, CeremonyInv
  <2>1. CASE Birth!SlotCancelled(c)
    <3>1. ui' = [ui EXCEPT !.slot = 0, !.slots = ui.slots]
      BY <1>0, <2>1 DEF Birth!SlotCancelled, BirthDialog
    <3> QED
      BY <1>0, <2>0, <3>1
  <2>2. ASSUME NEW key \in Key, Birth!SlotMade(c, key)
        PROVE  \E slots \in [Birth!Signer -> BirthSlot] :
                 /\ ui' = [ui EXCEPT !.slot = 0, !.slots = slots]
                 /\ ~world.stray => (slots[1] = slots[2] => slots[1] = None)
    <3> DEFINE v == IF key = c.other THEN ui.slots[c.slot] ELSE key
               slots == [ui.slots EXCEPT ![c.slot] = v]
    <3>1. ui' = [ui EXCEPT !.slot = 0, !.slots = slots]
      BY <1>0, <2>2 DEF Birth!SlotMade, BirthDialog
    <3>2. v \in BirthSlot /\ (v = ui.slots[c.slot] \/ v # c.other)
      BY <1>0 DEF BirthSlot
    <3> HIDE DEF v
    <3>3. slots \in [Birth!Signer -> BirthSlot] /\ \A g \in Birth!Signer : slots[g] = IF g = c.slot THEN v ELSE ui.slots[g]
      BY <1>0, <3>2
    <3> HIDE DEF slots
    <3>4. ~world.stray => (slots[1] = slots[2] => slots[1] = None)
      <4>1. CASE c.slot = 1
        BY <1>0, <2>0, <3>2, <3>3, <4>1
      <4>2. CASE c.slot = 2
        BY <1>0, <2>0, <3>2, <3>3, <4>2
      <4> QED
        BY <1>0, <4>1, <4>2
    <3> QED
      BY <3>1, <3>3, <3>4
  <2> QED
    BY <2>1, <2>2
<1>2. /\ ui' \in BirthDialog /\ ui'.slots = slots /\ ui'.step = ui.step /\ ui'.version = ui.version
      /\ (ui'.loading = ui.loading) /\ ui'.sigs = ui.sigs /\ ui'.prep = ui.prep
  BY <1>0, <1>1 DEF BirthDialog
<1>3. BirthTypeOK'
  BY <1>0, <1>2 DEF BirthTypeOK
<1>4. LoadingInv'
  BY <1>0, <1>2 DEF BirthInv, LoadingInv, Awaits
<1>5. CreationInv'
  BY <1>0, <1>2 DEF BirthInv, CreationInv, SignaturesOK
<1>6. CeremonyInv'
  BY <1>0, <1>1, <1>2 DEF BirthInv, CeremonyInv, Awaits
<1>7. KeysInv' /\ Birth!CreatedAsSigned'
  BY <1>0 DEF BirthInv, KeysInv, Birth!CreatedAsSigned
<1> QED
  BY <1>3, <1>4, <1>5, <1>6, <1>7 DEF BirthInv

(* The dialog begins to wait, while no ceremony goes on. *)
LEMMA BirthBegins ==
  ASSUME BirthInv, ~ui.loading, ~world.stray => \A c \in calls : c.kind # "slot",
         NEW d \in BirthCall, Awaits(d), calls' = calls \cup {d}, world' = world, ui' \in BirthDialog,
         ui'.loading, ui'.version = ui.version, ui'.sigs = ui.sigs, ui'.prep = ui.prep, ui'.slots = ui.slots,
         d.kind = "prepare" => ui.step = "config" /\ ui'.step = "config" /\ d.version = ui.version,
         d.kind \in {"birth", "submit"} => ui.step = "config" /\ ui'.step = "creating",
         d.kind = "create" => ui.step = "guardian2" /\ ui'.step = "creating",
         d.kind = "birth" => \E a, b \in BirthSlot : d.keys = {a, b} /\ (~world.stray => a # b),
         d.kind = "create" => \A g \in Birth!Signer : d.sigs[g].hash.salt = d.hash.salt /\ d.sigs[g].hash.version = d.hash.version
  PROVE  BirthInv'
<1>0. \A c \in calls : ~Awaits(c)
  BY DEF BirthInv, LoadingInv
<1>1. \A c \in calls' : c \in calls \/ c = d
  OBVIOUS
<1>2. d.kind \in {"birth", "submit", "prepare", "create"}
  BY DEF Awaits
<1>3. BirthTypeOK'
  BY <1>1, BirthTypes DEF BirthTypeOK
<1>4. LoadingInv'
  BY <1>0, <1>1, <1>2 DEF LoadingInv, Awaits
<1>5. CreationInv'
  BY <1>0, <1>1, <1>2 DEF BirthInv, CreationInv, SignaturesOK, Awaits
<1>6. CeremonyInv'
  BY <1>1, <1>2 DEF BirthInv, CeremonyInv
<1>7. KeysInv'
  BY <1>1 DEF BirthInv, KeysInv
<1>8. Birth!CreatedAsSigned'
  BY <1>1 DEF BirthInv, Birth!CreatedAsSigned
<1> QED
  BY <1>3, <1>4, <1>5, <1>6, <1>7, <1>8 DEF BirthInv

LEMMA BirthBeginStep ==
  ASSUME BirthInv, Birth!HandleCreatePasskeyAccount \/ Birth!HandlePrepare \/ Birth!HandleCreate
  PROVE  BirthInv'
<1>0. /\ ui \in BirthDialog /\ SignaturesOK(ui) /\ ~ui.loading /\ world' = world
      /\ ui.slots \in [Birth!Signer -> BirthSlot] /\ ui.sigs \in [Birth!Signer -> BirthSig] /\ ui.version \in Version
      /\ ui.prep \in MaybeHash /\ 1 \in Birth!Signer /\ 2 \in Birth!Signer /\ \A g \in Birth!Signer : g \in {1, 2}
  BY BirthTypes DEF BirthInv, CreationInv, Birth!HandleCreatePasskeyAccount, Birth!HandlePrepare, Birth!HandleCreate
<1>1. (ui.slot = 0 \/ ui.step # "config") => (~world.stray => \A c \in calls : c.kind # "slot")
  BY DEF BirthInv, CeremonyInv
<1>2. CASE Birth!HandleCreatePasskeyAccount
  <2> DEFINE d == [kind |-> "birth", keys |-> {ui.slots[1], ui.slots[2]}]
  <2>1. /\ ui' = [ui EXCEPT !.loading = TRUE, !.step = "creating"] /\ calls' = calls \cup {d}
        /\ ui.step = "config" /\ ui.slot = 0 /\ ui.slots[1] # None
    BY <1>0, <1>2 DEF Birth!HandleCreatePasskeyAccount, Birth!Config
  <2>2. d \in KeysCall /\ d.keys = {ui.slots[1], ui.slots[2]}
    BY <1>0 DEF KeysCall
  <2> HIDE DEF d
  <2>3. d \in BirthCall /\ d.kind = "birth" /\ Awaits(d)
    BY <2>2, BirthKinds DEF BirthCall
  <2>4. ~world.stray => ui.slots[1] # ui.slots[2]
    BY <2>1 DEF BirthInv, CeremonyInv
  <2>5. /\ ui' \in BirthDialog /\ ui'.step = "creating" /\ ui'.loading
        /\ ui'.version = ui.version /\ ui'.sigs = ui.sigs /\ ui'.prep = ui.prep /\ ui'.slots = ui.slots
    BY <1>0, <2>1 DEF BirthDialog
  <2>6. ui.slots[1] \in BirthSlot /\ ui.slots[2] \in BirthSlot
    BY <1>0
  <2> QED
    BY <1>0, <1>1, <2>1, <2>2, <2>3, <2>4, <2>5, <2>6, BirthBegins
<1>3. CASE Birth!HandlePrepare
  <2> DEFINE d == [kind |-> "prepare", version |-> ui.version]
  <2>1. /\ ui' = [ui EXCEPT !.loading = TRUE] /\ calls' = calls \cup {d}
        /\ ui.step = "config" /\ ui.slot = 0
    BY <1>0, <1>3 DEF Birth!HandlePrepare, Birth!Config
  <2>2. d \in PrepareCall /\ d.version = ui.version
    BY <1>0 DEF PrepareCall
  <2> HIDE DEF d
  <2>3. d \in BirthCall /\ d.kind = "prepare" /\ Awaits(d)
    BY <2>2, BirthKinds DEF BirthCall
  <2>5. /\ ui' \in BirthDialog /\ ui'.step = "config" /\ ui'.loading
        /\ ui'.version = ui.version /\ ui'.sigs = ui.sigs /\ ui'.prep = ui.prep /\ ui'.slots = ui.slots
    BY <1>0, <2>1 DEF BirthDialog
  <2> QED
    BY <1>0, <1>1, <2>1, <2>2, <2>3, <2>5, BirthBegins
<1>4. CASE Birth!HandleCreate
  <2> DEFINE h == [salt |-> ui.prep.salt, version |-> ui.version, limit |-> ui.limit]
             d == [kind |-> "create", sigs |-> ui.sigs, hash |-> h]
  <2>1. /\ ui' = [ui EXCEPT !.step = "creating", !.loading = TRUE] /\ calls' = calls \cup {d}
        /\ ui.step = "guardian2" /\ ui.sigs[2] # Birth!Unsigned
    BY <1>0, <1>4 DEF Birth!HandleCreate
  <2>2. ui.prep \in BirthHash /\ ui.prep.version = ui.version /\ \A g \in Birth!Signer : ui.sigs[g].hash = ui.prep
    BY <1>0, <2>1 DEF SignaturesOK, MaybeHash
  <2>3. h \in BirthHash /\ h.salt = ui.prep.salt /\ h.version = ui.version
    BY <1>0, <2>2 DEF BirthHash, BirthDialog
  <2> HIDE DEF h
  <2>4. d \in CreationCall /\ d.sigs = ui.sigs /\ d.hash = h
    BY <1>0, <2>3 DEF CreationCall
  <2> HIDE DEF d
  <2>5. d \in BirthCall /\ d.kind = "create" /\ Awaits(d)
    BY <2>4, BirthKinds DEF BirthCall
  <2>6. /\ ui' \in BirthDialog /\ ui'.step = "creating" /\ ui'.loading
        /\ ui'.version = ui.version /\ ui'.sigs = ui.sigs /\ ui'.prep = ui.prep /\ ui'.slots = ui.slots
    BY <1>0, <2>1 DEF BirthDialog
  <2>7. \A g \in Birth!Signer : d.sigs[g].hash.salt = d.hash.salt /\ d.sigs[g].hash.version = d.hash.version
    BY <2>2, <2>3, <2>4
  <2> QED
    BY <1>0, <1>1, <2>1, <2>5, <2>6, <2>7, BirthBegins
<1> QED
  BY <1>2, <1>3, <1>4

(* The dialog has its answer. *)
LEMMA BirthEnds ==
  ASSUME BirthInv, NEW c \in calls, Awaits(c), calls' = calls \ {c}, world' \in BirthWorld, (world'.stray = world.stray),
         ui' \in BirthDialog, SignaturesOK(ui'), ui'.slots = ui.slots \/ ui'.slots[1] = None
  PROVE  BirthInv'
<1>1. \A d \in calls' : d \in calls /\ ~Awaits(d)
  BY DEF BirthInv, LoadingInv
<1>2. BirthTypeOK'
  BY <1>1, BirthTypes DEF BirthTypeOK
<1>3. LoadingInv'
  BY <1>1 DEF LoadingInv, Awaits
<1>4. CreationInv'
  BY <1>1 DEF CreationInv, Awaits
<1>5. CeremonyInv'
  BY <1>1 DEF BirthInv, CeremonyInv
<1>6. KeysInv' /\ Birth!CreatedAsSigned'
  BY <1>1 DEF BirthInv, KeysInv, Birth!CreatedAsSigned
<1> QED
  BY <1>2, <1>3, <1>4, <1>5, <1>6 DEF BirthInv

LEMMA BirthEndStep ==
  ASSUME BirthInv, NEW c \in calls,
         Birth!BirthFailed(c) \/ Birth!Prepared(c) \/ Birth!PrepareFailed(c) \/ Birth!Created(c) \/ Birth!CreateFailed(c)
  PROVE  BirthInv'
<1>0. /\ ui \in BirthDialog /\ world \in BirthWorld /\ SignaturesOK(ui) /\ calls' = calls \ {c} /\ Awaits(c)
      /\ world.prepared + 1 \in Nat /\ c \in BirthCall /\ ui.version \in Version
  BY BirthTypes DEF BirthInv, CreationInv, Birth!BirthFailed, Birth!Prepared, Birth!PrepareFailed, Birth!Created,
     Birth!CreateFailed, Awaits
<1>1. CASE Birth!BirthFailed(c)
  <2>1. ui' = [ui EXCEPT !.loading = FALSE, !.step = "config"] /\ world' = world
    BY <1>1 DEF Birth!BirthFailed
  <2>2. \A g \in Birth!Signer : ui.sigs[g] = Birth!Unsigned
    BY <1>1 DEF Birth!BirthFailed, BirthInv, CreationInv
  <2>3. ui' \in BirthDialog /\ ui'.step = "config" /\ ui'.sigs = ui.sigs /\ ui'.slots = ui.slots
    BY <1>0, <2>1 DEF BirthDialog
  <2>4. SignaturesOK(ui')
    BY <2>2, <2>3 DEF SignaturesOK
  <2> QED
    BY <1>0, <2>1, <2>3, <2>4, BirthEnds
<1>2. CASE Birth!Prepared(c)
  <2> DEFINE n == world.prepared + 1
             l == FALSE
             h == [salt |-> n, version |-> c.version, limit |-> l]
  <2>1. /\ ui' = [ui EXCEPT !.loading = FALSE, !.step = "guardian1", !.prep = h] /\ world' = [world EXCEPT !.prepared = n]
    BY <1>0, <1>2 DEF Birth!Prepared, BirthWorld
  <2>2. l \in BOOLEAN /\ n \in Nat
    BY <1>0
  <2> HIDE DEF n, l
  <2>3. c.kind = "prepare" /\ ui.step = "config" /\ c.version = ui.version
    BY <1>2 DEF Birth!Prepared, BirthInv, LoadingInv
  <2>4. h \in BirthHash /\ h.version = ui.version /\ h # None
    BY <1>0, <2>2, <2>3, BirthAssumption DEF BirthHash
  <2> HIDE DEF h
  <2>5. /\ ui' \in BirthDialog /\ ui'.step = "guardian1" /\ ui'.sigs = ui.sigs /\ ui'.prep = h /\ ui'.slots = ui.slots
        /\ ui'.version = ui.version
    BY <1>0, <2>1, <2>4 DEF BirthDialog, MaybeHash
  <2>6. SignaturesOK(ui')
    BY <1>0, <2>3, <2>4, <2>5 DEF SignaturesOK
  <2>7. world' \in BirthWorld /\ (world'.stray = world.stray)
    BY <1>0, <2>1, <2>2 DEF BirthWorld
  <2> QED
    BY <1>0, <2>5, <2>6, <2>7, BirthEnds
<1>3. CASE Birth!PrepareFailed(c)
  <2>1. ui' = [ui EXCEPT !.loading = FALSE] /\ world' = world
    BY <1>3 DEF Birth!PrepareFailed
  <2>2. /\ ui' \in BirthDialog /\ ui'.step = ui.step /\ ui'.sigs = ui.sigs /\ ui'.prep = ui.prep /\ ui'.slots = ui.slots
        /\ ui'.version = ui.version
    BY <1>0, <2>1 DEF BirthDialog
  <2>3. SignaturesOK(ui')
    BY <1>0, <2>2 DEF SignaturesOK
  <2> QED
    BY <1>0, <2>1, <2>2, <2>3, BirthEnds
<1>4. CASE Birth!Created(c)
  <2> DEFINE r == Birth!Reset(ui)
  <2>1. ui' = [r EXCEPT !.loading = FALSE, !.open = FALSE] /\ world' = world
    BY <1>4 DEF Birth!Created
  <2>2. r \in BirthDialog /\ r.step = "config" /\ SignaturesOK(r) /\ r.slots[1] = None
    BY <1>0, BirthResetDialog
  <2> HIDE DEF r
  <2>3. /\ ui' \in BirthDialog /\ ui'.step = r.step /\ ui'.sigs = r.sigs /\ ui'.prep = r.prep /\ ui'.slots = r.slots
        /\ ui'.version = r.version
    BY <2>1, <2>2 DEF BirthDialog
  <2>4. SignaturesOK(ui')
    BY <2>2, <2>3 DEF SignaturesOK
  <2> QED
    BY <1>0, <2>1, <2>2, <2>3, <2>4, BirthEnds
<1>5. CASE Birth!CreateFailed(c)
  <2>1. ui' = [ui EXCEPT !.loading = FALSE, !.step = "guardian2"] /\ world' = world
    BY <1>5 DEF Birth!CreateFailed
  <2>2. ui.prep # None /\ ui.prep.version = ui.version /\ ui.sigs[1].hash = ui.prep
    BY <1>5 DEF Birth!CreateFailed, BirthInv, CreationInv
  <2>3. /\ ui' \in BirthDialog /\ ui'.step = "guardian2" /\ ui'.sigs = ui.sigs /\ ui'.prep = ui.prep /\ ui'.slots = ui.slots
        /\ ui'.version = ui.version
    BY <1>0, <2>1 DEF BirthDialog
  <2>4. SignaturesOK(ui')
    BY <1>0, <2>2, <2>3 DEF SignaturesOK
  <2> QED
    BY <1>0, <2>1, <2>3, <2>4, BirthEnds
<1> QED
  BY <1>1, <1>2, <1>3, <1>4, <1>5

LEMMA BirthPreparedStep ==
  ASSUME BirthInv, NEW c \in calls, Birth!BirthPrepared(c)
  PROVE  BirthInv'
<1> DEFINE d == [kind |-> "submit", fields |-> {"createId", "credential"}]
<1>0. calls' = (calls \ {c}) \cup {d} /\ ui' = ui /\ world' = world /\ c.kind = "birth" /\ calls \subseteq BirthCall
  BY BirthTypes DEF Birth!BirthPrepared
<1>1. d \in FieldsCall
  BY DEF FieldsCall
<1> HIDE DEF d
<1>2. d \in BirthCall /\ d.kind = "submit" /\ Awaits(d) /\ Awaits(c)
  BY <1>0, <1>1, BirthKinds DEF BirthCall, Awaits
<1>3. \A x \in calls' : x = d \/ (x \in calls /\ ~Awaits(x))
  BY <1>0, <1>2 DEF BirthInv, LoadingInv
<1>4. BirthTypeOK'
  BY <1>0, <1>2, <1>3, BirthTypes DEF BirthTypeOK
<1>5. LoadingInv'
  BY <1>0, <1>2, <1>3 DEF BirthInv, LoadingInv, Awaits
<1>6. CreationInv'
  BY <1>0, <1>2, <1>3 DEF BirthInv, CreationInv, Awaits
<1>7. CeremonyInv'
  BY <1>0, <1>2, <1>3 DEF BirthInv, CeremonyInv
<1>8. KeysInv' /\ Birth!CreatedAsSigned'
  BY <1>0, <1>2, <1>3 DEF BirthInv, KeysInv, Birth!CreatedAsSigned
<1> QED
  BY <1>4, <1>5, <1>6, <1>7, <1>8 DEF BirthInv

LEMMA BirthNext == BirthInv /\ Birth!Next => BirthInv'
<1> SUFFICES ASSUME BirthInv, Birth!Next PROVE BirthInv'
  OBVIOUS
<1>1. CASE Birth!Show \/ Birth!Close \/ Birth!Back
  BY <1>1, BirthCloseStep
<1>2. CASE \/ \E mode \in {"passkey", "ecdsa"} : Birth!SelectMode(mode)
           \/ \E v \in Version : Birth!EditConfig(v)
  BY <1>2, BirthConfigStep
<1>3. CASE \/ \E g \in Birth!Signer, who \in Invited : Birth!Paste(g, who)
           \/ Birth!HandleGuardian1Next
  BY <1>3, BirthGuardianStep
<1>4. ASSUME NEW g \in Birth!Signer, Birth!HandleCreateGuardianSlot(g)
      PROVE  BirthInv'
  BY <1>4, BirthSlotStep
<1>5. CASE Birth!HandleCreatePasskeyAccount \/ Birth!HandlePrepare \/ Birth!HandleCreate
  BY <1>5, BirthBeginStep
<1>6. ASSUME NEW c \in calls, Birth!Answer(c)
      PROVE  BirthInv'
  BY <1>6, BirthSlotEnds, BirthPreparedStep, BirthEndStep DEF Birth!Answer
<1> QED
  BY <1>1, <1>2, <1>3, <1>4, <1>5, <1>6 DEF Birth!Next

LEMMA BirthStutter == BirthInv /\ UNCHANGED vars => BirthInv'
BY DEF vars, BirthInv, BirthTypeOK, LoadingInv, CreationInv, SignaturesOK, CeremonyInv, KeysInv, Birth!CreatedAsSigned,
   Awaits

LEMMA BirthInvImplies ==
  ASSUME BirthInv
  PROVE  Birth!StepBacked /\ Birth!CreatedAsSigned /\ Birth!KeysDiffer
<1>1. Birth!StepBacked
  BY DEF BirthInv, CreationInv, SignaturesOK, Birth!StepBacked
<1>2. Birth!KeysDiffer
  <2> SUFFICES ASSUME ~world.stray, NEW c \in calls, c.kind = "birth"
               PROVE  Birth!Cardinality(c.keys) = 2
    BY DEF Birth!KeysDiffer
  <2>1. PICK a, b \in BirthSlot : a # b /\ c.keys = {a, b}
    BY DEF BirthInv, KeysInv
  <2>2. Cardinality({a}) = 1 /\ IsFiniteSet({a}) /\ {a, b} = {a} \cup {b} /\ b \notin {a}
    BY <2>1, FS_Singleton
  <2>3. Cardinality({a} \cup {b}) = Cardinality({a}) + 1
    BY <2>2, FS_AddElement
  <2>4. Cardinality({a, b}) = Cardinality({a}) + 1
    BY <2>2, <2>3, Zenon
  <2>5. Birth!Cardinality(c.keys) = Cardinality(c.keys)
    BY Zenon DEF Birth!Cardinality, Cardinality
  <2>6. Cardinality(c.keys) = Cardinality({a, b})
    BY <2>1, Zenon
  <2> QED
    BY <2>2, <2>4, <2>5, <2>6
<1> QED
  BY <1>1, <1>2 DEF BirthInv

-----------------------------------------------------------------------------
(* The recovery wizard.                                                      *)
RecoverOp == {"add", "initiate", "support", "execute", "cancel"}
RecoverRequest == [new : Successor \cup {None}, supporters : SUBSET Recover!User]
RecoverWizard == [step : {"setup", "initiate", "support", "execute", "done"}, loading : BOOLEAN, new : Successor]
RecoverWorld ==
  [who : Recover!User, guardians : SUBSET (Recover!User \X Trustee), request : RecoverRequest, unlocked : BOOLEAN,
   signer : {Owner, None} \cup Successor, foreign : Nat, lost : Nat, logins : Nat, repeated : BOOLEAN]
RecoverCall ==
  [op : RecoverOp, arg : Trustee \cup Successor \cup {None}, who : Recover!User, answer : {"none", "ok", "error"}]

(* A request that is pending has the support of the guardian who made it.    *)
Supported(request) ==
  IsFiniteSet(request.supporters) /\ (request # Recover!NoRequest => request.supporters # {})

RecoverTypeOK ==
  /\ ui \in RecoverWizard /\ calls \subseteq RecoverCall /\ world \in RecoverWorld /\ Supported(world.request)

(* One request is under way, of the step that the wizard is at.              *)
RequestInv ==
  /\ \A c, d \in calls : c = d
  /\ calls # {} => ui.loading
  /\ \A c \in calls :
       /\ c.op = "add" => c.arg \in Trustee /\ ui.step = "setup"
       /\ c.op = "initiate" => c.arg = ui.new /\ ui.step = "initiate"
       /\ c.op = "support" => ui.step = "support"
       /\ c.op = "execute" => ui.step = "execute"
       /\ c.op = "cancel" => ui.step \in {"support", "execute"}

Approved == world.request.new = ui.new /\ Recover!Cardinality(world.request.supporters) >= Recover!Quorum

(* Nothing is pending any more, which an answer will say or one that was     *)
(* lost did not.                                                             *)
Over ==
  /\ ~Recover!Pending
  /\ world.lost > 0 \/ \E c \in calls : c.answer = "ok" /\ c.op \in {"execute", "cancel"}

(* What was answered, and what the step says, is so.                         *)
TruthInv ==
  Recover!Alone =>
    /\ \A c \in calls :
         c.answer = "ok" =>
           /\ c.op = "initiate" => world.request.new = ui.new
           /\ c.op = "support" => Approved
           /\ c.op = "execute" => world.signer = ui.new
    /\ ui.step = "support" => world.request.new = ui.new \/ Over
    /\ ui.step = "execute" => Approved \/ Over
    /\ ui.step = "done" => world.signer = ui.new

RecoverInv == RecoverTypeOK /\ RequestInv /\ TruthInv

LEMMA RecoverTypes ==
  ASSUME RecoverInv
  PROVE  /\ ui \in RecoverWizard /\ ui.new \in Successor /\ calls \subseteq RecoverCall /\ world \in RecoverWorld
         /\ world.lost \in Nat /\ world.foreign \in Nat /\ world.request \in RecoverRequest /\ world.who \in Recover!User
         /\ world.request.new \in Successor \cup {None} /\ world.request.supporters \subseteq Recover!User
         /\ Supported(world.request)
BY DEF RecoverInv, RecoverTypeOK, RecoverWizard, RecoverWorld, RecoverRequest

LEMMA RecoverNamed == Recover!First \in Trustee /\ Recover!Second \in Trustee
<1>1. Recover!First \in Trustee
  BY RecoverAssumption DEF Recover!First
<1>2. \E g \in Trustee : g # Recover!First
  BY RecoverAssumption
<1> QED
  BY <1>1, <1>2 DEF Recover!Second

LEMMA RecoverInit == Recover!Init => RecoverInv
<1> SUFFICES ASSUME Recover!Init PROVE RecoverInv
  OBVIOUS
<1> DEFINE f == FALSE
<1>1. PICK s \in Successor : ui = [step |-> "setup", loading |-> f, new |-> s]
  BY DEF Recover!Init
<1>2. PICK u \in Recover!User :
        world = [who |-> u, guardians |-> {}, request |-> Recover!NoRequest, unlocked |-> f, signer |-> Owner,
                 foreign |-> 0, lost |-> 0, logins |-> 0, repeated |-> f]
  BY DEF Recover!Init
<1>3. f \in BOOLEAN /\ calls = {}
  BY DEF Recover!Init
<1> HIDE DEF f
<1>4. {} \in SUBSET Recover!User /\ {} \in SUBSET (Recover!User \X Trustee)
  OBVIOUS
<1>5. Recover!NoRequest \in RecoverRequest /\ Supported(Recover!NoRequest)
  BY <1>4, FS_EmptySet DEF Recover!NoRequest, RecoverRequest, Supported
<1>6. ui \in RecoverWizard /\ ui.step = "setup"
  BY <1>1, <1>3 DEF RecoverWizard
<1>7. world \in RecoverWorld /\ world.request = Recover!NoRequest
  BY <1>2, <1>3, <1>4, <1>5 DEF RecoverWorld
<1> QED
  BY <1>3, <1>5, <1>6, <1>7 DEF RecoverInv, RecoverTypeOK, RequestInv, TruthInv

(* Nothing that is judged changes. *)
LEMMA RecoverFrame ==
  ASSUME RecoverInv, calls' = calls, ui' = ui, world' \in RecoverWorld, world'.request = world.request,
         world'.signer = world.signer, world'.foreign = world.foreign, world'.lost = world.lost
  PROVE  RecoverInv'
BY DEF RecoverInv, RecoverTypeOK, RequestInv, TruthInv, Approved, Over, Recover!Pending, Recover!Alone, Recover!NoRequest,
       Recover!Quorum

LEMMA RecoverLoginStep ==
  ASSUME RecoverInv, (\E u \in Recover!User : Recover!Login(u)) \/ Recover!Unlock
  PROVE  RecoverInv'
<1>0. world \in RecoverWorld /\ ui' = ui /\ calls' = calls
  BY RecoverTypes DEF Recover!Login, Recover!Unlock
<1>1. ASSUME NEW u \in Recover!User, Recover!Login(u) PROVE RecoverInv'
  <2> DEFINE n == world.logins + 1
  <2>1. world' = [world EXCEPT !.who = u, !.logins = n]
    BY <1>1 DEF Recover!Login
  <2>n. n \in Nat
    BY <1>0 DEF RecoverWorld
  <2> HIDE DEF n
  <2>2. /\ world' \in RecoverWorld /\ world'.request = world.request /\ world'.signer = world.signer
        /\ world'.foreign = world.foreign /\ world'.lost = world.lost
    BY <1>0, <2>1, <2>n DEF RecoverWorld
  <2> QED
    BY <1>0, <2>2, RecoverFrame
<1>2. ASSUME Recover!Unlock PROVE RecoverInv'
  <2> DEFINE y == TRUE
  <2>1. world' = [world EXCEPT !.unlocked = y] /\ y \in BOOLEAN
    BY <1>2 DEF Recover!Unlock
  <2> HIDE DEF y
  <2>2. /\ world' \in RecoverWorld /\ world'.request = world.request /\ world'.signer = world.signer
        /\ world'.foreign = world.foreign /\ world'.lost = world.lost
    BY <1>0, <2>1 DEF RecoverWorld
  <2> QED
    BY <1>0, <2>2, RecoverFrame
<1> QED
  BY <1>1, <1>2

LEMMA RecoverFormStep ==
  ASSUME RecoverInv, (\E s \in Successor : Recover!EditNew(s)) \/ Recover!Back
  PROVE  RecoverInv'
<1>0. ui \in RecoverWizard /\ calls' = calls /\ world' = world
  BY RecoverTypes DEF Recover!EditNew, Recover!Back
<1>1. calls = {}
  <2>1. ~ui.loading \/ ui.step = "done"
    BY DEF Recover!EditNew, Recover!Back
  <2>2. \A c \in calls : c.op \in RecoverOp
    BY RecoverTypes DEF RecoverCall
  <2> QED
    BY <2>1, <2>2 DEF RecoverInv, RequestInv, RecoverOp
<1>2. ui' \in RecoverWizard /\ ui'.step = "setup"
  BY <1>0 DEF RecoverWizard, Recover!EditNew, Recover!Back
<1> QED
  BY <1>0, <1>1, <1>2, RecoverTypes DEF RecoverInv, RecoverTypeOK, RequestInv, TruthInv

LEMMA RecoverSendStep ==
  ASSUME RecoverInv, NEW op \in RecoverOp, NEW arg \in Trustee \cup Successor \cup {None}, Recover!Send(op, arg),
         /\ op = "add" => arg \in Trustee /\ ui.step = "setup"
         /\ op = "initiate" => arg = ui.new /\ ui.step = "initiate"
         /\ op = "support" => ui.step = "support"
         /\ op = "execute" => ui.step = "execute"
         /\ op = "cancel" => ui.step \in {"support", "execute"}
  PROVE  RecoverInv'
<1> DEFINE y == TRUE
<1>0. ui \in RecoverWizard /\ world' = world /\ ui' = [ui EXCEPT !.loading = y] /\ y \in BOOLEAN /\ y /\ ~ui.loading
  BY RecoverTypes DEF Recover!Send
<1> HIDE DEF y
<1>1. PICK c : c = Recover!Request(op, arg)
  OBVIOUS
<1>2. calls' = {c} /\ c \in RecoverCall /\ c.op = op /\ c.arg = arg /\ c.answer = "none"
  BY <1>1, RecoverTypes DEF Recover!Send, Recover!Request, RecoverCall
<1>3. ui' \in RecoverWizard /\ ui'.loading /\ ui'.step = ui.step /\ ui'.new = ui.new
  BY <1>0 DEF RecoverWizard
<1>4. RequestInv'
  BY <1>2, <1>3 DEF RequestInv
<1>5. TruthInv'
  <2>1. calls = {}
    BY <1>0 DEF RecoverInv, RequestInv
  <2>2. Over => Over'
    BY <1>0, <2>1 DEF Over, Recover!Pending, Recover!NoRequest
  <2>3. Approved <=> Approved'
    BY <1>0, <1>3 DEF Approved, Recover!Quorum
  <2> QED
    BY <1>0, <1>2, <1>3, <2>2, <2>3 DEF RecoverInv, TruthInv, Recover!Alone
<1> QED
  BY <1>0, <1>2, <1>3, <1>4, <1>5, RecoverTypes DEF RecoverInv, RecoverTypeOK

LEMMA RecoverHandleStep ==
  ASSUME RecoverInv,
         Recover!HandleSetup \/ Recover!HandleInitiate \/ Recover!HandleSupport \/ Recover!HandleExecute
           \/ Recover!HandleCancel
  PROVE  RecoverInv'
<1>0. ui.new \in Successor
  BY RecoverTypes
<1>1. CASE Recover!HandleSetup
  BY <1>1, RecoverNamed, RecoverSendStep DEF Recover!HandleSetup, RecoverOp
<1>2. CASE Recover!HandleInitiate
  BY <1>0, <1>2, RecoverSendStep DEF Recover!HandleInitiate, RecoverOp
<1>3. CASE Recover!HandleSupport
  BY <1>3, RecoverSendStep DEF Recover!HandleSupport, RecoverOp
<1>4. CASE Recover!HandleExecute
  BY <1>4, RecoverSendStep DEF Recover!HandleExecute, RecoverOp
<1>5. CASE Recover!HandleCancel
  BY <1>5, RecoverSendStep DEF Recover!HandleCancel, RecoverOp
<1> QED
  BY <1>1, <1>2, <1>3, <1>4, <1>5

(* What the service does with a request. *)
LEMMA RecoverServed ==
  ASSUME RecoverInv, NEW op \in RecoverOp, NEW who \in Recover!User, NEW arg,
         op = "add" => arg \in Trustee, op = "initiate" => arg \in Successor,
         NEW s, s = Recover!Served(op, who, arg)
  PROVE  /\ s.ok => s.after \in RecoverWorld /\ Supported(s.after.request)
         /\ s.after.repeated \in BOOLEAN
         /\ s.ok => s.after.lost = world.lost /\ s.after.foreign = world.foreign
         /\ op = "add" => s.after.request = world.request /\ s.after.signer = world.signer
         /\ op = "initiate" => s.after.request.new = arg /\ s.after.signer = world.signer
         /\ op = "support" /\ s.ok => /\ Recover!Pending /\ s.after.request.new = world.request.new
                                      /\ Recover!Cardinality(s.after.request.supporters) >= 2
                                      /\ s.after.signer = world.signer
         /\ op = "execute" /\ s.ok => /\ Recover!Pending /\ s.after.request = Recover!NoRequest
                                      /\ s.after.signer = world.request.new
         /\ op = "cancel" => s.after.request = Recover!NoRequest /\ s.after.signer = world.signer
<1>0. /\ world \in RecoverWorld /\ world.request \in RecoverRequest /\ Supported(world.request)
      /\ world.repeated \in BOOLEAN
  BY RecoverTypes DEF RecoverWorld
<1> DEFINE y == TRUE
           f == FALSE
<1>y. y \in BOOLEAN /\ f \in BOOLEAN
  OBVIOUS
<1>n. /\ Recover!NoRequest \in RecoverRequest /\ Supported(Recover!NoRequest)
  <2>1. {} \in SUBSET Recover!User
    OBVIOUS
  <2> QED
    BY <2>1, FS_EmptySet DEF Recover!NoRequest, RecoverRequest, Supported
<1>1. CASE op = "add"
  <2>1. s = Recover!AddGuardian(who, arg)
    BY <1>1 DEF Recover!Served
  <2>2. CASE <<who, arg>> \in world.guardians
    <3>1. s.after = [world EXCEPT !.repeated = y]
      BY <2>1, <2>2 DEF Recover!AddGuardian
    <3> HIDE DEF y
    <3> QED
      BY <1>0, <1>1, <1>y, <3>1 DEF RecoverWorld
  <2>3. CASE <<who, arg>> \notin world.guardians
    <3> DEFINE guardians == world.guardians \cup {<<who, arg>>}
    <3>1. s.after = [world EXCEPT !.guardians = guardians]
      BY <2>1, <2>3 DEF Recover!AddGuardian
    <3>2. guardians \in SUBSET (Recover!User \X Trustee)
      <4>1. world.guardians \subseteq Recover!User \X Trustee
        BY <1>0 DEF RecoverWorld
      <4>2. <<who, arg>> \in Recover!User \X Trustee
        BY <1>1
      <4> QED
        BY <4>1, <4>2
    <3> HIDE DEF guardians
    <3> QED
      BY <1>0, <1>1, <3>1, <3>2 DEF RecoverWorld
  <2> QED
    BY <2>2, <2>3
<1>2. CASE op = "initiate"
  <2> DEFINE request == [new |-> arg, supporters |-> {who}]
  <2>1. s.after = [world EXCEPT !.request = request, !.unlocked = f]
    BY <1>2 DEF Recover!Served, Recover!InitiateRecovery
  <2>2. request \in RecoverRequest /\ request.new = arg /\ request.supporters = {who}
    BY <1>2 DEF RecoverRequest
  <2>3. Supported(request)
    BY <2>2, FS_Singleton DEF Supported
  <2> HIDE DEF request, f
  <2> QED
    BY <1>0, <1>2, <1>y, <2>1, <2>2, <2>3 DEF RecoverWorld
<1>3. CASE op = "support"
  <2> DEFINE supporters == world.request.supporters \cup {who}
             request == [world.request EXCEPT !.supporters = supporters]
  <2>0. s = Recover!SupportRecovery(who)
    BY <1>3 DEF Recover!Served
  <2>1. s.after = [world EXCEPT !.request = request]
    BY <1>0, <2>0 DEF Recover!SupportRecovery, RecoverWorld, RecoverRequest
  <2> DEFINE q == Recover!IsGuardian(who) /\ Recover!Pending /\ who \notin world.request.supporters
             a == [world EXCEPT !.request.supporters = @ \cup {who}]
  <2>q. s = [ok |-> q, after |-> a] /\ q \in BOOLEAN /\ (q => Recover!Pending /\ who \notin world.request.supporters)
    BY <2>0 DEF Recover!SupportRecovery
  <2> HIDE DEF q, a
  <2>2. s.ok => Recover!Pending /\ who \notin world.request.supporters
    BY <2>q
  <2>3. IsFiniteSet(supporters) /\ supporters # {} /\ supporters \in SUBSET Recover!User
    BY <1>0, FS_AddElement DEF Supported, RecoverRequest
  <2>4. s.ok => Recover!Cardinality(supporters) >= 2
    <3> SUFFICES ASSUME s.ok PROVE Recover!Cardinality(supporters) >= 2
      OBVIOUS
    <3>1. Recover!Cardinality(supporters) = Cardinality(supporters)
      BY Zenon DEF Recover!Cardinality, Cardinality
    <3>2. IsFiniteSet(world.request.supporters) /\ world.request.supporters # {}
      BY <1>0, <2>2 DEF Supported, Recover!Pending
    <3>3. Cardinality(world.request.supporters) \in Nat /\ Cardinality(world.request.supporters) # 0
      BY <3>2, FS_CardinalityType, FS_EmptySet
    <3>4. Cardinality(supporters) = Cardinality(world.request.supporters) + 1
      BY <2>2, <3>2, FS_AddElement
    <3> QED
      BY <3>1, <3>3, <3>4
  <2> HIDE DEF supporters
  <2>5. request \in RecoverRequest /\ request.new = world.request.new /\ request.supporters = supporters
    BY <1>0, <2>3 DEF RecoverRequest
  <2> HIDE DEF request
  <2>6. s.after \in RecoverWorld /\ s.after.request = request /\ s.after.repeated \in BOOLEAN
        /\ s.after.lost = world.lost /\ s.after.foreign = world.foreign /\ s.after.signer = world.signer
    BY <1>0, <2>1, <2>5 DEF RecoverWorld
  <2>7. Supported(request)
    BY <2>3, <2>5 DEF Supported
  <2> QED
    BY <1>3, <2>2, <2>4, <2>5, <2>6, <2>7
<1>4. CASE op = "execute"
  <2>0. s = Recover!ExecuteRecovery
    BY <1>4 DEF Recover!Served
  <2> DEFINE q == Recover!Pending /\ Recover!Cardinality(world.request.supporters) >= Recover!Quorum /\ world.unlocked
             a == [world EXCEPT !.signer = world.request.new, !.request = Recover!NoRequest]
  <2>q. s = [ok |-> q, after |-> a] /\ (q => Recover!Pending)
    BY <2>0 DEF Recover!ExecuteRecovery
  <2>1. s.after = a
    BY <2>0 DEF Recover!ExecuteRecovery
  <2>s. s.ok => Recover!Pending
    <3> HIDE DEF q, a
    <3> QED
      BY <2>q
  <2>2. world.request.new \in {Owner, None} \cup Successor
    BY <1>0 DEF RecoverRequest
  <2> QED
    BY <1>0, <1>4, <1>n, <2>1, <2>2, <2>s DEF RecoverWorld
<1>5. CASE op = "cancel"
  <2>1. s.after = [world EXCEPT !.request = Recover!NoRequest]
    BY <1>5 DEF Recover!Served, Recover!CancelRecovery
  <2> QED
    BY <1>0, <1>5, <1>n, <2>1 DEF RecoverWorld
<1> QED
  BY <1>1, <1>2, <1>3, <1>4, <1>5 DEF RecoverOp

LEMMA RecoverServeStep ==
  ASSUME RecoverInv, NEW c \in calls, Recover!Serve(c)
  PROVE  RecoverInv'
<1>0. /\ ui' = ui /\ ui \in RecoverWizard /\ world \in RecoverWorld /\ c \in RecoverCall /\ c.op \in RecoverOp
      /\ c.who \in Recover!User /\ ui.loading /\ ui.new \in Successor /\ Supported(world.request)
      /\ \A d \in calls : d = c
  BY RecoverTypes DEF Recover!Serve, RecoverCall, RecoverInv, RequestInv
<1>1. PICK s : s = Recover!Served(c.op, c.who, c.arg)
  OBVIOUS
<1>2. /\ c.op = "add" => c.arg \in Trustee /\ ui.step = "setup"
      /\ c.op = "initiate" => c.arg = ui.new /\ ui.step = "initiate"
      /\ c.op = "support" => ui.step = "support"
      /\ c.op = "execute" => ui.step = "execute"
      /\ c.op = "cancel" => ui.step \in {"support", "execute"}
  BY DEF RecoverInv, RequestInv
<1>3. /\ s.ok => s.after \in RecoverWorld /\ Supported(s.after.request)
      /\ s.after.repeated \in BOOLEAN
      /\ s.ok => s.after.lost = world.lost /\ s.after.foreign = world.foreign
      /\ c.op = "add" => s.after.request = world.request /\ s.after.signer = world.signer
      /\ c.op = "initiate" => s.after.request.new = c.arg /\ s.after.signer = world.signer
      /\ c.op = "support" /\ s.ok => /\ Recover!Pending /\ s.after.request.new = world.request.new
                                     /\ Recover!Cardinality(s.after.request.supporters) >= 2
                                     /\ s.after.signer = world.signer
      /\ c.op = "execute" /\ s.ok => /\ Recover!Pending /\ s.after.request = Recover!NoRequest
                                     /\ s.after.signer = world.request.new
      /\ c.op = "cancel" => s.after.request = Recover!NoRequest /\ s.after.signer = world.signer
  BY <1>0, <1>1, <1>2, RecoverServed
<1>4. /\ calls' = {[c EXCEPT !.answer = IF s.ok THEN "ok" ELSE "error"]}
      /\ world' = IF s.ok THEN s.after ELSE [world EXCEPT !.repeated = s.after.repeated]
      /\ c.answer = "none"
  BY <1>1 DEF Recover!Serve
<1>5. PICK d : d = [c EXCEPT !.answer = IF s.ok THEN "ok" ELSE "error"]
  OBVIOUS
<1>6. /\ calls' = {d} /\ d \in RecoverCall /\ d.op = c.op /\ d.arg = c.arg
      /\ d.answer = IF s.ok THEN "ok" ELSE "error"
  BY <1>0, <1>4, <1>5 DEF RecoverCall
<1>7. RequestInv'
  BY <1>0, <1>2, <1>6 DEF RequestInv
<1>8. CASE ~s.ok
  <2>1. /\ world' \in RecoverWorld /\ world'.request = world.request /\ world'.signer = world.signer
        /\ world'.lost = world.lost /\ world'.foreign = world.foreign
    BY <1>0, <1>3, <1>4, <1>8 DEF RecoverWorld
  <2>2. (Over => Over') /\ (Approved <=> Approved')
    BY <1>0, <1>4, <2>1 DEF Over, Approved, Recover!Pending, Recover!NoRequest, Recover!Quorum
  <2>3. TruthInv'
    BY <1>0, <1>6, <1>8, <2>1, <2>2 DEF RecoverInv, TruthInv, Recover!Alone
  <2> QED
    BY <1>0, <1>6, <1>7, <2>1, <2>3 DEF RecoverInv, RecoverTypeOK
<1>9. CASE s.ok
  <2>1. /\ world' = s.after /\ world' \in RecoverWorld /\ Supported(world'.request) /\ d.answer = "ok"
        /\ world'.lost = world.lost /\ world'.foreign = world.foreign
    BY <1>3, <1>4, <1>6, <1>9
  <2>2. TruthInv'
    <3> SUFFICES ASSUME Recover!Alone
                 PROVE  /\ c.op = "initiate" => world'.request.new = ui.new
                        /\ c.op = "support" => Approved'
                        /\ c.op = "execute" => world'.signer = ui.new
                        /\ ui.step = "support" => world'.request.new = ui.new \/ Over'
                        /\ ui.step = "execute" => Approved' \/ Over'
                        /\ ui.step # "done"
      BY <1>0, <1>6, <2>1 DEF TruthInv, Recover!Alone
    <3>1. /\ ui.step = "support" => world.request.new = ui.new \/ Over
          /\ ui.step = "execute" => Approved \/ Over
      BY DEF RecoverInv, TruthInv
    <3>2. ui.step # "done"
      BY <1>0, <1>2 DEF RecoverOp
    <3>3. CASE c.op \in {"add", "initiate"}
      BY <1>2, <1>3, <2>1, <3>2, <3>3
    <3>4. CASE c.op = "support"
      <4>1. world.request.new = ui.new
        BY <1>2, <1>3, <1>9, <3>1, <3>4 DEF Over
      <4>2. Approved'
        BY <1>0, <1>3, <1>9, <2>1, <3>4, <4>1 DEF Approved, Recover!Quorum
      <4> QED
        BY <1>2, <1>0, <3>4, <4>2 DEF Approved
    <3>5. CASE c.op \in {"execute", "cancel"}
      <4>1. Over'
        BY <1>3, <1>6, <1>9, <2>1, <3>5 DEF Over, Recover!Pending, Recover!NoRequest
      <4>2. c.op = "execute" => world'.signer = ui.new
        <5> SUFFICES ASSUME c.op = "execute" PROVE world'.signer = ui.new
          OBVIOUS
        <5>1. Approved
          BY <1>2, <1>3, <1>9, <3>1 DEF Over
        <5> QED
          BY <1>3, <1>9, <2>1, <5>1 DEF Approved
      <4> QED
        BY <1>2, <3>2, <3>5, <4>1, <4>2
    <3> QED
      BY <1>0, <3>3, <3>4, <3>5 DEF RecoverOp
  <2> QED
    BY <1>0, <1>6, <1>7, <2>1, <2>2 DEF RecoverInv, RecoverTypeOK
<1> QED
  BY <1>8, <1>9

LEMMA RecoverForeignStep ==
  ASSUME RecoverInv, NEW op \in RecoverOp, NEW who \in Trustee, NEW arg, Recover!Foreign(op, who, arg),
         op # "add", op = "initiate" => arg \in Successor
  PROVE  RecoverInv'
<1>0. ui' = ui /\ calls' = calls /\ who \in Recover!User
  BY DEF Recover!Foreign, Recover!User
<1>1. PICK s : s = Recover!Served(op, who, arg)
  OBVIOUS
<1>2. s.ok /\ world' = [s.after EXCEPT !.foreign = s.after.foreign + 1]
  BY <1>1 DEF Recover!Foreign
<1>3. s.after \in RecoverWorld /\ Supported(s.after.request) /\ s.after.foreign = world.foreign
  BY <1>0, <1>1, <1>2, RecoverServed
<1> DEFINE n == s.after.foreign + 1
<1>4. world' = [s.after EXCEPT !.foreign = n] /\ n \in Nat /\ n # 0
  BY <1>2, <1>3, RecoverTypes
<1> HIDE DEF n
<1>5. world' \in RecoverWorld /\ world'.request = s.after.request /\ world'.foreign # 0
  BY <1>3, <1>4 DEF RecoverWorld
<1> QED
  BY <1>0, <1>3, <1>5 DEF RecoverInv, RecoverTypeOK, RequestInv, TruthInv, Recover!Alone

LEMMA RecoverAnsweredStep ==
  ASSUME RecoverInv, NEW c \in calls, Recover!Answered(c) \/ Recover!Refused(c)
  PROVE  RecoverInv'
<1>0. /\ ui \in RecoverWizard /\ world' = world /\ c \in RecoverCall /\ c.op \in RecoverOp /\ (\A d \in calls : d = c)
      /\ Recover!Alone' = Recover!Alone /\ ui.loading
  BY RecoverTypes DEF Recover!Answered, Recover!Refused, RecoverCall, RecoverInv, RequestInv, Recover!Alone
<1> DEFINE f == FALSE
<1>f. f \in BOOLEAN /\ ~f
  OBVIOUS
<1>1. CASE Recover!Answered(c) /\ c.op = "add" /\ c.arg = Recover!First
  <2>1. calls' = {Recover!Request("add", Recover!Second)} /\ ui' = ui
    BY <1>1 DEF Recover!Answered
  <2>2. PICK d : d = Recover!Request("add", Recover!Second)
    OBVIOUS
  <2>3. d \in RecoverCall /\ d.op = "add" /\ d.arg \in Trustee /\ d.answer = "none" /\ calls' = {d}
    BY <2>1, <2>2, RecoverTypes, RecoverNamed DEF Recover!Request, RecoverCall, RecoverOp
  <2>4. ui.step = "setup"
    BY <1>1 DEF RecoverInv, RequestInv
  <2> QED
    BY <1>0, <2>1, <2>3, <2>4, RecoverTypes DEF RecoverInv, RecoverTypeOK, RequestInv, TruthInv
<1>2. CASE Recover!Answered(c) /\ ~(c.op = "add" /\ c.arg = Recover!First)
  <2>1. ui' = [ui EXCEPT !.loading = f, !.step = Recover!Next1(c.op)] /\ calls' = {} /\ c.answer = "ok"
    BY <1>2 DEF Recover!Answered
  <2> HIDE DEF f
  <2>2. /\ c.op = "add" => Recover!Next1(c.op) = "initiate"
        /\ c.op = "initiate" => Recover!Next1(c.op) = "support"
        /\ c.op = "support" => Recover!Next1(c.op) = "execute"
        /\ c.op = "execute" => Recover!Next1(c.op) = "done"
        /\ c.op = "cancel" => Recover!Next1(c.op) = "setup"
    BY DEF Recover!Next1
  <2>3. Recover!Next1(c.op) \in {"setup", "initiate", "support", "execute", "done"}
    BY <1>0, <2>2 DEF RecoverOp
  <2>4. ui' \in RecoverWizard /\ ui'.new = ui.new /\ ui'.step = Recover!Next1(c.op)
    BY <1>0, <1>f, <2>1, <2>3 DEF RecoverWizard
  <2>5. Approved' = Approved
    BY <1>0, <2>4 DEF Approved, Recover!Quorum
  <2>6. TruthInv'
    BY <1>0, <2>1, <2>2, <2>4, <2>5 DEF RecoverInv, TruthInv, RecoverOp
  <2> QED
    BY <1>0, <2>1, <2>4, <2>6, RecoverTypes DEF RecoverInv, RecoverTypeOK, RequestInv
<1>3. CASE Recover!Refused(c)
  <2>1. ui' = [ui EXCEPT !.loading = f] /\ calls' = {} /\ c.answer = "error"
    BY <1>3 DEF Recover!Refused
  <2> HIDE DEF f
  <2>2. ui' \in RecoverWizard /\ ui'.new = ui.new /\ ui'.step = ui.step
    BY <1>0, <1>f, <2>1 DEF RecoverWizard
  <2>3. (Over => Over') /\ (Approved' <=> Approved)
    BY <1>0, <2>1, <2>2 DEF Over, Approved, Recover!Pending, Recover!NoRequest, Recover!Quorum
  <2>4. TruthInv'
    BY <1>0, <2>1, <2>2, <2>3 DEF RecoverInv, TruthInv
  <2> QED
    BY <1>0, <2>1, <2>2, <2>4, RecoverTypes DEF RecoverInv, RecoverTypeOK, RequestInv
<1> QED
  BY <1>1, <1>2, <1>3

LEMMA RecoverLostStep ==
  ASSUME RecoverInv, NEW c \in calls, Recover!Lost(c)
  PROVE  RecoverInv'
<1> DEFINE f == FALSE
           n == world.lost + 1
<1>0. /\ ui \in RecoverWizard /\ world \in RecoverWorld /\ calls' = {}
      /\ ui' = [ui EXCEPT !.loading = f] /\ f \in BOOLEAN /\ ~f
      /\ world' = [world EXCEPT !.lost = n] /\ n \in Nat /\ n > 0
  BY RecoverTypes DEF Recover!Lost, RecoverWorld
<1> HIDE DEF f, n
<1>1. ui' \in RecoverWizard /\ ui'.new = ui.new /\ ui'.step = ui.step
  BY <1>0 DEF RecoverWizard
<1>2. /\ world' \in RecoverWorld /\ world'.request = world.request /\ world'.signer = world.signer
      /\ world'.lost > 0 /\ world'.foreign = world.foreign
  BY <1>0 DEF RecoverWorld
<1>3. (Over => Over') /\ (Approved' <=> Approved)
  BY <1>1, <1>2 DEF Over, Approved, Recover!Pending, Recover!NoRequest, Recover!Quorum
<1>4. TruthInv'
  BY <1>0, <1>1, <1>2, <1>3 DEF RecoverInv, TruthInv, Recover!Alone
<1> QED
  BY <1>0, <1>1, <1>2, <1>4, RecoverTypes DEF RecoverInv, RecoverTypeOK, RequestInv

LEMMA RecoverNext == RecoverInv /\ Recover!Next => RecoverInv'
<1> SUFFICES ASSUME RecoverInv, Recover!Next PROVE RecoverInv'
  OBVIOUS
<1>1. ASSUME NEW who \in Trustee, NEW op \in {"support", "execute", "cancel"}, Recover!Foreign(op, who, None)
      PROVE  RecoverInv'
  BY <1>1, RecoverForeignStep DEF RecoverOp
<1>2. ASSUME NEW who \in Trustee, NEW s \in Successor, Recover!Foreign("initiate", who, s)
      PROVE  RecoverInv'
  BY <1>2, RecoverForeignStep DEF RecoverOp
<1> QED
  BY <1>1, <1>2, RecoverLoginStep, RecoverFormStep, RecoverHandleStep, RecoverServeStep, RecoverAnsweredStep, RecoverLostStep
     DEF Recover!Next

LEMMA RecoverStutter == RecoverInv /\ UNCHANGED vars => RecoverInv'
<1> SUFFICES ASSUME RecoverInv, UNCHANGED vars PROVE RecoverInv'
  OBVIOUS
<1>1. ui' = ui /\ calls' = calls /\ world' = world
  BY DEF vars
<1> QED
  BY <1>1, RecoverTypes, RecoverFrame

LEMMA RecoverInvImplies == RecoverInv => Recover!StepIsTrue
<1> SUFFICES ASSUME RecoverInv, Recover!Alone, ~ui.loading
             PROVE  /\ ui.step = "support" => world.request.new = ui.new \/ Over
                    /\ ui.step = "execute" => Approved \/ Over
                    /\ ui.step = "done" => world.signer = ui.new
                    /\ Over => world.lost > 0 /\ ~Recover!Pending
  BY DEF Recover!StepIsTrue, Approved
<1>1. calls = {}
  BY DEF RecoverInv, RequestInv
<1> QED
  BY <1>1 DEF RecoverInv, TruthInv, Over

-----------------------------------------------------------------------------
(* The page of a guardian who signs on a device of their own.                *)
DeviceAddress == Address \cup {None, Wallet}
DeviceResult == [address : DeviceAddress, signer : DeviceAddress]
DevicePage ==
  [method : Device!Method, address : DeviceAddress, named : BOOLEAN, loading : BOOLEAN, result : DeviceResult,
   key : BOOLEAN]
DeviceWorld == [made : SUBSET Address, ready : SUBSET (Address \cup Member), tries : Nat]
DeviceCall ==
  [at : {"challenge", "make", "wallet", "provision", "derive", "sign"}, of : DeviceAddress, own : BOOLEAN, polls : Nat]

DeviceInv ==
  /\ ui \in DevicePage /\ world \in DeviceWorld /\ calls \subseteq DeviceCall
  /\ Device!ResultIsSigners /\ Device!SignsWhenDerived

LEMMA DeviceInit == Device!Init => DeviceInv
<1> SUFFICES ASSUME Device!Init PROVE DeviceInv
  OBVIOUS
<1>1. Device!NoResult \in DeviceResult /\ Device!NoResult.address = Device!NoResult.signer
  BY DEF Device!NoResult, DeviceResult, DeviceAddress
<1>2. /\ ui = [method |-> "passkey", address |-> None, named |-> FALSE, loading |-> FALSE, result |-> Device!NoResult,
               key |-> FALSE]
      /\ calls = {} /\ world = [made |-> {}, ready |-> Member, tries |-> 0]
  BY DEF Device!Init
<1>3. ui \in DevicePage /\ ui.result = Device!NoResult
  BY <1>1, <1>2 DEF DevicePage, DeviceAddress, Device!Method
<1>4. world \in DeviceWorld
  BY <1>2 DEF DeviceWorld
<1> QED
  BY <1>1, <1>2, <1>3, <1>4 DEF DeviceInv, Device!ResultIsSigners, Device!SignsWhenDerived

(* The page changes, and shows the result it has. *)
LEMMA DevicePageStep ==
  ASSUME DeviceInv, calls' = calls, world' = world,
         \/ \E m \in Device!Method : Device!SelectMethod(m)
         \/ \E a \in Address : Device!EditAddress(a)
         \/ Device!EditEmail
  PROVE  DeviceInv'
<1>0. ui \in DevicePage
  BY DEF DeviceInv
<1>1. ui' \in DevicePage /\ ui'.result = ui.result
  <2>1. ASSUME NEW m \in Device!Method, Device!SelectMethod(m)
        PROVE  ui' \in DevicePage /\ ui'.result = ui.result
    <3> DEFINE a == IF m = "passkey" THEN ui.address ELSE None
               b == ui.named /\ m # "metamask"
    <3>1. ui' = [ui EXCEPT !.method = m, !.address = a, !.named = b]
      BY <1>0, <2>1 DEF Device!SelectMethod, DevicePage
    <3>2. a \in DeviceAddress /\ b \in BOOLEAN
      BY <1>0 DEF DevicePage, DeviceAddress
    <3> HIDE DEF a, b
    <3> QED
      BY <1>0, <3>1, <3>2 DEF DevicePage
  <2>2. ASSUME NEW a \in Address, Device!EditAddress(a)
        PROVE  ui' \in DevicePage /\ ui'.result = ui.result
    BY <1>0, <2>2 DEF Device!EditAddress, DevicePage, DeviceAddress
  <2>3. CASE Device!EditEmail
    BY <1>0, <2>3 DEF Device!EditEmail, DevicePage
  <2> QED
    BY <2>1, <2>2, <2>3
<1> QED
  BY <1>1 DEF DeviceInv, Device!ResultIsSigners, Device!SignsWhenDerived

LEMMA DeviceSignStep ==
  ASSUME DeviceInv, Device!HandleSign
  PROVE  DeviceInv'
<1> DEFINE n == FALSE
           at == Device!Begins[ui.method]
           c == [at |-> at, of |-> ui.address, own |-> n, polls |-> 0]
           tries == world.tries + 1
<1>0. ui \in DevicePage /\ world \in DeviceWorld
  BY DEF DeviceInv
<1>1. /\ ui' = [ui EXCEPT !.loading = TRUE] /\ calls' = {c} /\ world' = [world EXCEPT !.tries = tries]
  BY <1>0 DEF Device!HandleSign, DeviceWorld
<1>2. at \in {"challenge", "make", "wallet", "provision"} /\ n \in BOOLEAN /\ ~n /\ tries \in Nat
  BY <1>0 DEF Device!Begins, Device!Method, DevicePage, DeviceWorld
<1> HIDE DEF n, at, tries
<1>3. c \in DeviceCall /\ ~c.own
  BY <1>0, <1>2 DEF DeviceCall, DevicePage
<1> HIDE DEF c
<1>4. ui' \in DevicePage /\ ui'.result = ui.result
  BY <1>0, <1>1 DEF DevicePage
<1>5. world' \in DeviceWorld
  BY <1>0, <1>1, <1>2 DEF DeviceWorld
<1> QED
  BY <1>1, <1>3, <1>4, <1>5 DEF DeviceInv, Device!ResultIsSigners, Device!SignsWhenDerived

(* A key is made and derived. *)
LEMMA DeviceKeyStep ==
  ASSUME DeviceInv, (\E c \in calls : Device!Register(c)) \/ (\E a \in Address : Device!Derive(a))
  PROVE  DeviceInv'
<1>0. ui \in DevicePage /\ world \in DeviceWorld /\ calls \subseteq DeviceCall
  BY DEF DeviceInv
<1>1. ASSUME NEW c \in calls, Device!Register(c)
      PROVE  DeviceInv'
  <2>1. PICK a \in Address : /\ calls' = {[c EXCEPT !.at = "derive", !.of = a, !.own = TRUE]}
                             /\ world' = [world EXCEPT !.made = @ \cup {a}]
    BY <1>1 DEF Device!Register
  <2> DEFINE d == [c EXCEPT !.at = "derive", !.of = a, !.own = TRUE]
  <2>2. d \in DeviceCall /\ d.at = "derive" /\ calls' = {d}
    BY <1>0, <2>1 DEF DeviceCall, DeviceAddress
  <2> HIDE DEF d
  <2>3. world' \in DeviceWorld /\ ui' = ui
    BY <1>0, <1>1, <2>1 DEF DeviceWorld, Device!Register
  <2> QED
    BY <1>0, <2>2, <2>3 DEF DeviceInv, Device!ResultIsSigners, Device!SignsWhenDerived
<1>2. ASSUME NEW a \in Address, Device!Derive(a)
      PROVE  DeviceInv'
  <2>1. world' = [world EXCEPT !.ready = @ \cup {a}] /\ ui' = ui /\ calls' = calls
    BY <1>2 DEF Device!Derive
  <2>2. world' \in DeviceWorld /\ world.ready \subseteq world'.ready
    BY <1>0, <2>1 DEF DeviceWorld
  <2> QED
    BY <1>0, <2>1, <2>2 DEF DeviceInv, Device!ResultIsSigners, Device!SignsWhenDerived
<1> QED
  BY <1>1, <1>2

LEMMA DeviceGoStep ==
  ASSUME DeviceInv, NEW c \in calls, Device!PollUntilReady(c) \/ Device!BeginAuthentication(c)
  PROVE  DeviceInv'
<1> DEFINE polls == c.polls + 1
<1>0. ui \in DevicePage /\ world \in DeviceWorld /\ c \in DeviceCall /\ ui' = ui /\ world' = world /\ polls \in Nat
  BY DEF DeviceInv, DeviceCall, Device!PollUntilReady, Device!BeginAuthentication, Device!Goto
<1>1. /\ \/ calls' = {[c EXCEPT !.at = "challenge"]} /\ c.of \in world.ready
         \/ calls' = {[c EXCEPT !.at = "sign"]} /\ c.of \in world.ready
         \/ calls' = {[c EXCEPT !.polls = polls]} /\ c.at = "derive"
  BY <1>0 DEF Device!PollUntilReady, Device!BeginAuthentication, Device!Goto, DeviceCall
<1> HIDE DEF polls
<1>2. PICK d \in DeviceCall : calls' = {d} /\ ((c.of \in world.ready /\ d.of = c.of) \/ d.at = "derive")
  <2>1. ASSUME NEW at \in {"challenge", "sign"}
        PROVE  [c EXCEPT !.at = at] \in DeviceCall /\ [c EXCEPT !.at = at].of = c.of
    BY <1>0 DEF DeviceCall
  <2>2. [c EXCEPT !.polls = polls] \in DeviceCall /\ [c EXCEPT !.polls = polls].at = c.at
    BY <1>0 DEF DeviceCall
  <2> QED
    BY <1>1, <2>1, <2>2
<1> QED
  BY <1>0, <1>2 DEF DeviceInv, Device!ResultIsSigners, Device!SignsWhenDerived

LEMMA DeviceEndStep ==
  ASSUME DeviceInv, NEW c \in calls, Device!Signed(c) \/ Device!Provisioned(c) \/ Device!Fail(c)
  PROVE  DeviceInv'
<1>0. ui \in DevicePage /\ c \in DeviceCall /\ world' = world /\ calls' = {}
  BY DEF DeviceInv, Device!Signed, Device!Provisioned, Device!Fail
<1>1. ui' \in DevicePage /\ ui'.result.address = ui'.result.signer
  <2>1. CASE Device!Signed(c)
    <3> DEFINE a == IF c.at = "sign" THEN c.of ELSE Wallet
               r == [address |-> a, signer |-> a]
    <3>1. ui' = [ui EXCEPT !.loading = FALSE, !.result = r]
      BY <2>1 DEF Device!Signed
    <3>2. r \in DeviceResult /\ r.address = r.signer
      BY <1>0 DEF DeviceResult, DeviceCall, DeviceAddress
    <3> HIDE DEF r
    <3> QED
      BY <1>0, <3>1, <3>2 DEF DevicePage
  <2>2. CASE Device!Provisioned(c)
    BY <1>0, <2>2 DEF Device!Provisioned, DevicePage, DeviceInv, Device!ResultIsSigners
  <2>3. CASE Device!Fail(c)
    BY <1>0, <2>3 DEF Device!Fail, DevicePage, DeviceInv, Device!ResultIsSigners
  <2> QED
    BY <2>1, <2>2, <2>3
<1> QED
  BY <1>0, <1>1 DEF DeviceInv, Device!ResultIsSigners, Device!SignsWhenDerived

LEMMA DeviceNext == DeviceInv /\ Device!Next => DeviceInv'
<1> SUFFICES ASSUME DeviceInv, Device!Next PROVE DeviceInv'
  OBVIOUS
<1>1. CASE \/ \E m \in Device!Method : Device!SelectMethod(m)
           \/ \E a \in Address : Device!EditAddress(a)
           \/ Device!EditEmail
  <2>1. calls' = calls /\ world' = world
    BY <1>1 DEF Device!SelectMethod, Device!EditAddress, Device!EditEmail
  <2> QED
    BY <1>1, <2>1, DevicePageStep
<1>2. CASE Device!HandleSign
  BY <1>2, DeviceSignStep
<1>3. CASE (\E c \in calls : Device!Register(c)) \/ (\E a \in Address : Device!Derive(a))
  BY <1>3, DeviceKeyStep
<1>4. ASSUME NEW c \in calls, Device!PollUntilReady(c) \/ Device!BeginAuthentication(c)
      PROVE  DeviceInv'
  BY <1>4, DeviceGoStep
<1>5. ASSUME NEW c \in calls, Device!Signed(c) \/ Device!Provisioned(c) \/ Device!Fail(c)
      PROVE  DeviceInv'
  BY <1>5, DeviceEndStep
<1> QED
  BY <1>1, <1>2, <1>3, <1>4, <1>5 DEF Device!Next

LEMMA DeviceStutter == DeviceInv /\ UNCHANGED vars => DeviceInv'
BY DEF vars, DeviceInv, Device!ResultIsSigners, Device!SignsWhenDerived

-----------------------------------------------------------------------------
(* Recovery by a passkey.                                                    *)
PasskeyCard == [owner : Successor, loading : BOOLEAN, proposed : BOOLEAN]
PasskeyFlow == [at : {"prepare", "sign", "relay", "mined"}, owner : Successor, nonce : Nat]
PasskeyWorld == [keys : Nat, nonce : Nat, owners : SUBSET Successor, tries : Nat, foreign : BOOLEAN]

(* One flow is under way while the card waits for it; it is of the owner     *)
(* that is shown, its challenge of the nonce the account is at, unless       *)
(* someone else moved it, and what is mined or shown is on chain.            *)
PasskeyPageInv ==
  /\ ui \in PasskeyCard /\ calls \subseteq PasskeyFlow /\ world \in PasskeyWorld
  /\ \A c, d \in calls : c = d
  /\ \A c \in calls :
       /\ ui.loading /\ ~ui.proposed /\ c.owner = ui.owner
       /\ c.at \in {"sign", "relay"} /\ ~world.foreign => c.nonce = world.nonce
       /\ c.at = "mined" => c.owner \in world.owners
  /\ ui.proposed => ui.owner \in world.owners /\ ~ui.loading

LEMMA PasskeyInit == Passkey!Init => PasskeyPageInv
<1> SUFFICES ASSUME Passkey!Init PROVE PasskeyPageInv
  OBVIOUS
<1> DEFINE f == FALSE
<1>1. PICK o \in Successor : ui = [owner |-> o, loading |-> f, proposed |-> f]
  BY DEF Passkey!Init
<1>2. PICK keys \in 0..Passkey!Slots :
        world = [keys |-> keys, nonce |-> 0, owners |-> {}, tries |-> 0, foreign |-> f]
  BY DEF Passkey!Init
<1>3. f \in BOOLEAN /\ ~f /\ keys \in Nat /\ {} \in SUBSET Successor /\ calls = {}
  BY DEF Passkey!Init, Passkey!Slots
<1> HIDE DEF f
<1>4. ui \in PasskeyCard /\ ~ui.proposed
  BY <1>1, <1>3 DEF PasskeyCard
<1>5. world \in PasskeyWorld
  BY <1>2, <1>3 DEF PasskeyWorld
<1> QED
  BY <1>3, <1>4, <1>5 DEF PasskeyPageInv

LEMMA PasskeyEditStep ==
  ASSUME PasskeyPageInv, NEW o \in Successor, Passkey!Edit(o)
  PROVE  PasskeyPageInv'
<1>1. /\ ui' \in PasskeyCard /\ (ui'.loading <=> ui.loading) /\ (ui'.proposed <=> ui.proposed)
      /\ ~ui.loading /\ ~ui.proposed /\ calls' = calls /\ world' = world
  BY DEF PasskeyPageInv, Passkey!Edit, PasskeyCard
<1> QED
  BY <1>1 DEF PasskeyPageInv

LEMMA PasskeyProposeStep ==
  ASSUME PasskeyPageInv, Passkey!HandlePropose
  PROVE  PasskeyPageInv'
<1> DEFINE y == TRUE
           n == world.tries + 1
<1>0. ui \in PasskeyCard /\ world \in PasskeyWorld /\ ui.owner \in Successor /\ ~ui.loading /\ ~ui.proposed
  BY DEF PasskeyPageInv, PasskeyCard, Passkey!HandlePropose
<1>1. /\ ui' = [ui EXCEPT !.loading = y] /\ calls' = {[at |-> "prepare", owner |-> ui.owner, nonce |-> 0]}
      /\ world' = [world EXCEPT !.tries = n] /\ y \in BOOLEAN /\ y /\ n \in Nat
  BY <1>0 DEF Passkey!HandlePropose, PasskeyWorld
<1> HIDE DEF y, n
<1>2. ui' \in PasskeyCard /\ ui'.loading /\ ~ui'.proposed /\ ui'.owner = ui.owner
  BY <1>0, <1>1 DEF PasskeyCard
<1>3. world' \in PasskeyWorld
  BY <1>0, <1>1 DEF PasskeyWorld
<1>4. calls' \subseteq PasskeyFlow /\ \A c \in calls' : c.at = "prepare" /\ c.owner = ui.owner
  BY <1>0, <1>1 DEF PasskeyFlow
<1> QED
  BY <1>1, <1>2, <1>3, <1>4 DEF PasskeyPageInv

LEMMA PasskeyForeignStep ==
  ASSUME PasskeyPageInv, Passkey!Foreign
  PROVE  PasskeyPageInv'
<1> DEFINE y == TRUE
           n == world.nonce + 1
<1>0. world \in PasskeyWorld /\ ui' = ui /\ calls' = calls
  BY DEF PasskeyPageInv, Passkey!Foreign
<1>1. world' = [world EXCEPT !.nonce = n, !.foreign = y] /\ y \in BOOLEAN /\ y /\ n \in Nat
  BY <1>0 DEF Passkey!Foreign, PasskeyWorld
<1> HIDE DEF y, n
<1>2. world' \in PasskeyWorld /\ world'.foreign /\ world'.owners = world.owners
  BY <1>0, <1>1 DEF PasskeyWorld
<1> QED
  BY <1>0, <1>2 DEF PasskeyPageInv

LEMMA PasskeyFlowStep ==
  ASSUME PasskeyPageInv, NEW c \in calls,
         Passkey!PrepareP256Recovery(c) \/ Passkey!SignGuardianRecovery(c) \/ Passkey!SubmitP256Recovery(c)
  PROVE  PasskeyPageInv'
<1>0. /\ ui \in PasskeyCard /\ world \in PasskeyWorld /\ c \in PasskeyFlow /\ ui' = ui /\ world.nonce \in Nat
      /\ ui.loading /\ ~ui.proposed /\ c.owner = ui.owner /\ c.owner \in Successor
  BY DEF PasskeyPageInv, PasskeyFlow, PasskeyWorld,
         Passkey!PrepareP256Recovery, Passkey!SignGuardianRecovery, Passkey!SubmitP256Recovery
<1>1. CASE Passkey!PrepareP256Recovery(c)
  <2>1. calls' = {[c EXCEPT !.at = "sign", !.nonce = world.nonce]} /\ world' = world
    BY <1>1 DEF Passkey!PrepareP256Recovery
  <2>2. \A d \in calls' : d \in PasskeyFlow /\ d.at = "sign" /\ d.nonce = world.nonce /\ d.owner = ui.owner
    BY <1>0, <2>1 DEF PasskeyFlow
  <2> QED
    BY <1>0, <2>1, <2>2 DEF PasskeyPageInv
<1>2. CASE Passkey!SignGuardianRecovery(c)
  <2>1. calls' = {[c EXCEPT !.at = "relay"]} /\ world' = world /\ c.at = "sign"
    BY <1>2 DEF Passkey!SignGuardianRecovery
  <2>2. \A d \in calls' : d \in PasskeyFlow /\ d.at = "relay" /\ d.nonce = c.nonce /\ d.owner = ui.owner
    BY <1>0, <2>1 DEF PasskeyFlow
  <2>3. ~world.foreign => c.nonce = world.nonce
    BY <2>1 DEF PasskeyPageInv
  <2> QED
    BY <1>0, <2>1, <2>2, <2>3 DEF PasskeyPageInv
<1>3. CASE Passkey!SubmitP256Recovery(c)
  <2> DEFINE n == world.nonce + 1
             owners == world.owners \cup {c.owner}
  <2>1. /\ calls' = {[c EXCEPT !.at = "mined"]} /\ world' = [world EXCEPT !.nonce = n, !.owners = owners]
        /\ n \in Nat /\ owners \in SUBSET Successor /\ c.owner \in owners
    BY <1>0, <1>3 DEF Passkey!SubmitP256Recovery, PasskeyWorld
  <2> HIDE DEF n, owners
  <2>2. \A d \in calls' : d \in PasskeyFlow /\ d.at = "mined" /\ d.owner = ui.owner
    BY <1>0, <2>1 DEF PasskeyFlow
  <2>3. world' \in PasskeyWorld /\ world'.owners = owners
    BY <1>0, <2>1 DEF PasskeyWorld
  <2> QED
    BY <1>0, <2>1, <2>2, <2>3 DEF PasskeyPageInv
<1> QED
  BY <1>1, <1>2, <1>3

LEMMA PasskeyEndStep ==
  ASSUME PasskeyPageInv, NEW c \in calls, Passkey!Proposed(c) \/ Passkey!Fail(c)
  PROVE  PasskeyPageInv'
<1>0. /\ ui \in PasskeyCard /\ calls' = {} /\ world' = world
      /\ ~ui.proposed /\ c.owner = ui.owner /\ (c.at = "mined" => c.owner \in world.owners)
  BY DEF PasskeyPageInv, Passkey!Proposed, Passkey!Fail
<1> DEFINE f == FALSE
           y == TRUE
<1>1. f \in BOOLEAN /\ y \in BOOLEAN /\ ~f /\ y
  OBVIOUS
<1>2. CASE Passkey!Proposed(c)
  <2>1. ui' = [ui EXCEPT !.loading = f, !.proposed = y] /\ c.at = "mined"
    BY <1>2 DEF Passkey!Proposed
  <2> HIDE DEF f, y
  <2>2. ui' \in PasskeyCard /\ ui'.owner = ui.owner /\ ~ui'.loading
    BY <1>0, <1>1, <2>1 DEF PasskeyCard
  <2> QED
    BY <1>0, <2>1, <2>2 DEF PasskeyPageInv
<1>3. CASE Passkey!Fail(c)
  <2>1. ui' = [ui EXCEPT !.loading = f]
    BY <1>3 DEF Passkey!Fail
  <2> HIDE DEF f
  <2>2. ui' \in PasskeyCard /\ ~ui'.proposed
    BY <1>0, <1>1, <2>1 DEF PasskeyCard
  <2> QED
    BY <1>0, <2>2 DEF PasskeyPageInv
<1> QED
  BY <1>2, <1>3

LEMMA PasskeyNext == PasskeyPageInv /\ Passkey!Next => PasskeyPageInv'
BY PasskeyEditStep, PasskeyProposeStep, PasskeyForeignStep, PasskeyFlowStep, PasskeyEndStep DEF Passkey!Next

LEMMA PasskeyStutter == PasskeyPageInv /\ UNCHANGED vars => PasskeyPageInv'
BY DEF vars, PasskeyPageInv

LEMMA PasskeyInvImplies == PasskeyPageInv => Passkey!ShownIsProposed /\ Passkey!SignedIsAccepted
BY DEF PasskeyPageInv, Passkey!ShownIsProposed, Passkey!SignedIsAccepted

-----------------------------------------------------------------------------
(* The page that raises the tier limits.                                     *)
(* The page waits for one answer at a time and shows no form meanwhile; so   *)
(* limits and digest stand still under a guardian's prompt.                  *)
RaiseOneCall ==
  /\ \A c, d \in calls : c = d
  /\ calls # {} => ~Raise!Form

(* A guardian is asked only while there is a digest to sign.                 *)
AskedForDigest ==
  /\ \A c \in calls : c.kind = "start" => ui.pending = None
  /\ \A c \in calls : c.kind \in {"ask", "sign"} => ui.pending # None
  /\ \A c \in calls : c.kind = "sign" => c.signer \in Cosigner

RaiseLimit == Limit \cup {None}

DigestOrNone == [t1 : RaiseLimit, t2 : RaiseLimit, deadline : Nat, nonce : Nat] \cup {None}

RaiseSignature == [signer : Cosigner, digest : DigestOrNone]

RaiseInv ==
  /\ ui = [t1 |-> ui.t1, t2 |-> ui.t2, busy |-> ui.busy, pending |-> ui.pending,
           sigs |-> ui.sigs, current |-> ui.current, starts |-> ui.starts]
  /\ world = [limits |-> world.limits, nonce |-> world.nonce, foreign |-> world.foreign,
              ops |-> world.ops, expired |-> world.expired, selected |-> world.selected]
  /\ world.selected \in Cosigner
  /\ ui.sigs \in Seq(RaiseSignature) /\ {ui.t1, ui.t2} \subseteq RaiseLimit /\ ui.pending \in DigestOrNone
  /\ ui.starts \in Nat /\ world.nonce \in Nat
  /\ RaiseOneCall /\ AskedForDigest
  /\ Raise!SignedIsSent

LEMMA RaiseInit == Raise!Init => RaiseInv
BY DEF Raise!Init, RaiseInv, RaiseOneCall, AskedForDigest, Raise!Form, Raise!SignedIsSent, RaiseLimit, DigestOrNone

(* The form waits for the answer of a call that it makes. *)
LEMMA RaiseWaits ==
  ASSUME RaiseInv, Raise!Form, NEW c, Raise!Waits(c), c.kind # "sign",
         c.kind = "start" => ui.pending = None, c.kind = "ask" => ui.pending # None
  PROVE  RaiseInv'
<1> USE DEF RaiseInv
<1>1. calls = {} /\ calls' = {c}
  BY DEF Raise!Waits, RaiseOneCall
<1>2. ui' = [ui EXCEPT !.busy = TRUE] /\ world' = world
  BY DEF Raise!Waits
<1>3. /\ ui' = [t1 |-> ui'.t1, t2 |-> ui'.t2, busy |-> ui'.busy, pending |-> ui'.pending,
               sigs |-> ui'.sigs, current |-> ui'.current, starts |-> ui'.starts]
      /\ ui'.pending = ui.pending /\ ui'.busy
  BY <1>2
<1>4. RaiseOneCall'
  BY <1>1, <1>3 DEF RaiseOneCall, Raise!Form
<1>5. AskedForDigest'
  BY <1>1, <1>3 DEF AskedForDigest
<1>6. Raise!SignedIsSent'
  BY <1>2 DEF Raise!SignedIsSent
<1> QED
  BY <1>2, <1>3, <1>4, <1>5, <1>6

LEMMA RaiseStep == RaiseInv /\ [Raise!Next]_vars => RaiseInv'
<1> SUFFICES ASSUME RaiseInv, [Raise!Next]_vars PROVE RaiseInv'
  OBVIOUS
<1> USE DEF RaiseInv
<1>a. Raise!Form => calls = {}
  BY DEF RaiseOneCall
<1>b. \A c \in calls : calls = {c} /\ ~Raise!Form
  BY DEF RaiseOneCall
<1>c. ASSUME ui' = ui, calls' = calls, world'.selected \in Cosigner, world'.nonce \in Nat,
             world' = [limits |-> world'.limits, nonce |-> world'.nonce, foreign |-> world'.foreign,
                       ops |-> world'.ops, expired |-> world'.expired, selected |-> world'.selected]
      PROVE  RaiseInv'
  BY <1>c DEF RaiseOneCall, AskedForDigest, Raise!SignedIsSent, Raise!Form
<1>d. ASSUME world' = world,
             ui' = [t1 |-> ui'.t1, t2 |-> ui'.t2, busy |-> ui'.busy, pending |-> ui'.pending,
                    sigs |-> ui'.sigs, current |-> ui'.current, starts |-> ui'.starts],
             ui'.sigs \in Seq(RaiseSignature), {ui'.t1, ui'.t2} \subseteq RaiseLimit,
             ui'.pending \in DigestOrNone, ui'.starts \in Nat,
             RaiseOneCall', AskedForDigest', Raise!SignedIsSent'
      PROVE  RaiseInv'
  BY <1>d
<1>1. CASE Raise!Start \/ Raise!CollectSig \/ Raise!Submit
  BY <1>1, RaiseWaits DEF Raise!Start, Raise!CollectSig, Raise!Submit, Raise!Submittable
<1>2. CASE Raise!Cancel
  <2>1. calls' = {} /\ world' = world
    BY <1>2, <1>a DEF Raise!Cancel
  <2>2. ui' = [t1 |-> ui.t1, t2 |-> ui.t2, busy |-> ui.busy, pending |-> None,
               sigs |-> <<>>, current |-> ui.current, starts |-> ui.starts]
    BY <1>2 DEF Raise!Cancel
  <2>3. RaiseOneCall' /\ AskedForDigest' /\ Raise!SignedIsSent'
    BY <2>1, <2>2 DEF RaiseOneCall, AskedForDigest, Raise!SignedIsSent
  <2> QED
    BY <2>1, <2>2, <2>3, <1>d DEF DigestOrNone
<1>3. CASE Raise!Expires
  BY <1>3, <1>c DEF Raise!Expires
<1>4. ASSUME NEW a \in Limit, Raise!EditTier1(a) PROVE RaiseInv'
  BY <1>4, <1>a DEF Raise!EditTier1, Raise!Editable, RaiseOneCall, AskedForDigest, Raise!SignedIsSent, RaiseLimit
<1>5. ASSUME NEW a \in Limit, Raise!EditTier2(a) PROVE RaiseInv'
  BY <1>5, <1>a DEF Raise!EditTier2, Raise!Editable, RaiseOneCall, AskedForDigest, Raise!SignedIsSent, RaiseLimit
<1>6. ASSUME NEW a \in Limit, Raise!ForeignRaise(a) PROVE RaiseInv'
  <2>1. world' = [limits |-> <<a, a>>, nonce |-> world.nonce + 1, foreign |-> world.foreign + 1,
                  ops |-> world.ops, expired |-> world.expired, selected |-> world.selected]
    BY <1>6 DEF Raise!ForeignRaise
  <2> QED
    <3>1. ui' = ui /\ calls' = calls
      BY <1>6 DEF Raise!ForeignRaise
    <3> QED
      BY <2>1, <3>1, <1>c
<1>7. ASSUME NEW s \in Cosigner, Raise!SwitchAccount(s) PROVE RaiseInv'
  BY <1>7, <1>c DEF Raise!SwitchAccount
<1>8. ASSUME NEW op \in world.ops, Raise!Mined(op) PROVE RaiseInv'
  <2>1. CASE Raise!Takes(op)
    <3>1. world' = [limits |-> <<op.t1, op.t2>>, nonce |-> world.nonce + 1, foreign |-> world.foreign,
                    ops |-> world.ops \ {op}, expired |-> world.expired, selected |-> world.selected]
      BY <1>8, <2>1 DEF Raise!Mined
    <3>2. ui' = ui /\ calls' = calls
      BY <1>8 DEF Raise!Mined
    <3> QED
      BY <3>1, <3>2, <1>c
  <2>2. CASE ~Raise!Takes(op)
    BY <1>8, <2>2, <1>c DEF Raise!Mined
  <2> QED
    BY <2>1, <2>2
<1>9. ASSUME NEW c \in calls, Raise!Loaded(c) PROVE RaiseInv'
  BY <1>9, <1>b DEF Raise!Loaded, RaiseOneCall, AskedForDigest, Raise!SignedIsSent
<1>10. ASSUME NEW c \in calls, Raise!Failed(c) PROVE RaiseInv'
  BY <1>10, <1>b DEF Raise!Failed, RaiseOneCall, AskedForDigest, Raise!SignedIsSent
<1>11. ASSUME NEW c \in calls, Raise!Started(c) PROVE RaiseInv'
  <2> DEFINE digest == Raise!Digest(ui.t1, ui.t2, ui.starts + 1)
  <2>1. digest \in DigestOrNone /\ digest.t1 = ui.t1 /\ digest.t2 = ui.t2
    BY DEF Raise!Digest, DigestOrNone
  <2> HIDE DEF digest
  <2>2. calls' = {} /\ world' = world
    BY <1>11, <1>b DEF Raise!Started
  <2>3. ui' = [t1 |-> ui.t1, t2 |-> ui.t2, busy |-> FALSE, pending |-> digest,
               sigs |-> <<>>, current |-> ui.current, starts |-> ui.starts + 1]
    BY <1>11 DEF Raise!Started, digest
  <2>4. Raise!SignedIsSent'
    BY <2>1, <2>3 DEF Raise!SignedIsSent
  <2> QED
    BY <2>1, <2>2, <2>3, <2>4, <1>d DEF RaiseOneCall, AskedForDigest
<1>12. ASSUME NEW c \in calls, Raise!Asked(c) PROVE RaiseInv'
  BY <1>12, <1>b DEF Raise!Asked, RaiseOneCall, AskedForDigest, Raise!SignedIsSent, Raise!Form
<1>13. ASSUME NEW c \in calls, Raise!Signed(c) PROVE RaiseInv'
  <2>1. c.signer \in Cosigner
    BY <1>13 DEF Raise!Signed, AskedForDigest
  <2>2. [signer |-> c.signer, digest |-> ui.pending] \in RaiseSignature
    BY <2>1 DEF RaiseSignature
  <2>3. calls' = {} /\ world' = world
    BY <1>13, <1>b DEF Raise!Signed
  <2>4. ui' = [ui EXCEPT !.sigs = Append(ui.sigs, [signer |-> c.signer, digest |-> ui.pending]),
                         !.busy = FALSE]
    BY <1>13 DEF Raise!Signed
  <2>5. ui'.sigs \in Seq(RaiseSignature)
    BY <2>2, <2>4
  <2>6. Raise!SignedIsSent'
    BY <2>2, <2>4 DEF Raise!SignedIsSent
  <2> QED
    BY <2>3, <2>4, <2>5, <2>6, <1>d DEF RaiseOneCall, AskedForDigest
<1>14. ASSUME NEW c \in calls, Raise!Sends(c) PROVE RaiseInv'
  <2>1. calls' = {[kind |-> "sent"]} /\ ui' = ui /\ ~Raise!Form
    BY <1>14, <1>b DEF Raise!Sends
  <2>2. RaiseOneCall' /\ AskedForDigest' /\ Raise!SignedIsSent'
    BY <2>1 DEF RaiseOneCall, AskedForDigest, Raise!SignedIsSent, Raise!Form
  <2>3. world' = [world EXCEPT !.ops = world.ops \cup {c.op}]
    BY <1>14 DEF Raise!Sends
  <2> QED
    BY <2>1, <2>2, <2>3
<1>15. ASSUME NEW c \in calls, Raise!Submitted(c) PROVE RaiseInv'
  <2>1. calls' = {[kind |-> "load"]} /\ world' = world /\ ~Raise!Form
    BY <1>15, <1>b DEF Raise!Submitted
  <2>2. ui' = [t1 |-> None, t2 |-> None, busy |-> ui.busy, pending |-> None,
               sigs |-> <<>>, current |-> ui.current, starts |-> ui.starts]
    BY <1>15 DEF Raise!Submitted
  <2>3. RaiseOneCall' /\ AskedForDigest' /\ Raise!SignedIsSent'
    BY <2>1, <2>2 DEF RaiseOneCall, AskedForDigest, Raise!SignedIsSent, Raise!Form
  <2> QED
    BY <2>1, <2>2, <2>3, <1>d DEF RaiseLimit, DigestOrNone
<1>16. CASE UNCHANGED vars
  BY <1>16 DEF vars, RaiseOneCall, AskedForDigest, Raise!SignedIsSent, Raise!Form
<1> QED
  BY <1>1, <1>2, <1>3, <1>4, <1>5, <1>6, <1>7, <1>8, <1>9, <1>10, <1>11, <1>12, <1>13, <1>14,
     <1>15, <1>16 DEF Raise!Next

(* No guardian signs twice. *)
DistinctInv ==
  /\ \A i, j \in 1..Len(ui.sigs) : ui.sigs[i].signer = ui.sigs[j].signer => i = j
  /\ \A c \in calls : c.kind = "sign" => \A i \in 1..Len(ui.sigs) : ui.sigs[i].signer # c.signer

LEMMA RaiseDistinct ==
  ASSUME RaiseInv, DistinctInv, Raise!Next
  PROVE  DistinctInv'
<1>0. ui.sigs \in Seq(RaiseSignature) /\ Len(ui.sigs) \in Nat
  BY DEF RaiseInv
<1>1. ASSUME ui'.sigs = ui.sigs, \A c \in calls' : c \in calls \/ c.kind # "sign"
      PROVE  DistinctInv'
  BY <1>1 DEF DistinctInv
<1>2. ASSUME ui'.sigs = <<>>
      PROVE  DistinctInv'
  BY <1>2 DEF DistinctInv
<1>3. CASE Raise!Start \/ Raise!CollectSig \/ Raise!Submit \/ Raise!Expires
  BY <1>1, <1>3 DEF Raise!Start, Raise!CollectSig, Raise!Submit, Raise!Expires, Raise!Waits, RaiseInv
<1>4. CASE Raise!Cancel
  <2>1. ui' = [ui EXCEPT !.pending = None, !.sigs = <<>>]
    BY <1>4 DEF Raise!Cancel
  <2> QED
    BY <1>2, <2>1 DEF RaiseInv
<1>5. CASE \E a \in Limit : Raise!EditTier1(a) \/ Raise!EditTier2(a) \/ Raise!ForeignRaise(a)
  BY <1>1, <1>5 DEF Raise!EditTier1, Raise!EditTier2, Raise!ForeignRaise, RaiseInv
<1>6. CASE (\E s \in Cosigner : Raise!SwitchAccount(s)) \/ (\E op \in world.ops : Raise!Mined(op))
  BY <1>1, <1>6 DEF Raise!SwitchAccount, Raise!Mined
<1>7. ASSUME NEW c \in calls, Raise!Loaded(c) \/ Raise!Failed(c) \/ Raise!Sends(c)
      PROVE  DistinctInv'
  <2>1. CASE Raise!Loaded(c)
    <3>1. PICK l \in {world.limits, <<0, 0>>} : ui' = [ui EXCEPT !.current = l, !.busy = FALSE]
      BY <2>1 DEF Raise!Loaded
    <3>2. calls' = calls \ {c} /\ ui'.sigs = ui.sigs
      BY <2>1, <3>1 DEF Raise!Loaded, RaiseInv
    <3> QED
      BY <1>1, <3>2
  <2>2. CASE Raise!Failed(c) \/ Raise!Sends(c)
    BY <1>1, <2>2 DEF Raise!Failed, Raise!Sends, RaiseInv
  <2> QED
    BY <1>7, <2>1, <2>2
<1>8. ASSUME NEW c \in calls, Raise!Started(c) \/ Raise!Submitted(c)
      PROVE  DistinctInv'
  <2>1. ui'.sigs = <<>>
    BY <1>8 DEF Raise!Started, Raise!Submitted, RaiseInv
  <2> QED
    BY <1>2, <2>1
<1>9. ASSUME NEW c \in calls, Raise!Asked(c)
      PROVE  DistinctInv'
  <2>1. CASE Raise!Distinct(world.selected)
    <3> DEFINE d == [kind |-> "sign", signer |-> world.selected]
    <3>1. calls' = (calls \ {c}) \cup {d} /\ ui' = ui
      BY <1>9, <2>1 DEF Raise!Asked
    <3>2. \A i \in 1..Len(ui.sigs) : ui.sigs[i].signer # d.signer
      BY <2>1 DEF Raise!Distinct
    <3> HIDE DEF d
    <3>3. \A x \in calls' : x \in calls \/ x = d
      BY <3>1
    <3> QED
      BY <3>1, <3>2, <3>3 DEF DistinctInv
  <2>2. CASE ~Raise!Distinct(world.selected)
    BY <1>1, <1>9, <2>2 DEF Raise!Asked, RaiseInv
  <2> QED
    BY <2>1, <2>2
<1>10. ASSUME NEW c \in calls, Raise!Signed(c)
       PROVE  DistinctInv'
  <2> DEFINE s == [signer |-> c.signer, digest |-> ui.pending]
             sigs == Append(ui.sigs, s)
  <2>1. ui' = [ui EXCEPT !.sigs = sigs, !.busy = FALSE] /\ c.kind = "sign" /\ calls' = calls \ {c}
    BY <1>10 DEF Raise!Signed
  <2>2. s \in RaiseSignature /\ s.signer = c.signer
    BY <1>10 DEF RaiseSignature, Raise!Signed, RaiseInv, AskedForDigest
  <2> HIDE DEF s
  <2>3. /\ Len(sigs) = Len(ui.sigs) + 1 /\ sigs[Len(ui.sigs) + 1] = s
        /\ \A i \in 1..Len(ui.sigs) : sigs[i] = ui.sigs[i]
        /\ \A i \in 1..Len(sigs) : i \in 1..Len(ui.sigs) \/ i = Len(ui.sigs) + 1
    BY <1>0, <2>2
  <2> HIDE DEF sigs
  <2>4. ui'.sigs = sigs /\ calls' = {}
    BY <2>1 DEF RaiseInv, RaiseOneCall
  <2>5. \A i \in 1..Len(ui.sigs) : ui.sigs[i].signer # s.signer
    BY <2>1, <2>2 DEF DistinctInv
  <2>6. \A i, j \in 1..Len(sigs) : sigs[i].signer = sigs[j].signer => i = j
    BY <2>3, <2>5 DEF DistinctInv
  <2> QED
    BY <2>4, <2>6 DEF DistinctInv
<1> QED
  BY <1>3, <1>4, <1>5, <1>6, <1>7, <1>8, <1>9, <1>10 DEF Raise!Next

RaisePageInv == RaiseInv /\ DistinctInv

LEMMA RaisePageInit == Raise!Init => RaisePageInv
<1> SUFFICES ASSUME Raise!Init PROVE RaisePageInv
  OBVIOUS
<1>1. ui.sigs = <<>> /\ calls = {[kind |-> "load"]}
  BY DEF Raise!Init
<1>2. DistinctInv
  BY <1>1 DEF DistinctInv
<1> QED
  BY <1>2, RaiseInit DEF RaisePageInv

LEMMA RaiseNext == RaisePageInv /\ Raise!Next => RaisePageInv'
BY RaiseStep, RaiseDistinct DEF RaisePageInv

LEMMA RaiseStutter == RaisePageInv /\ UNCHANGED vars => RaisePageInv'
<1> SUFFICES ASSUME RaisePageInv, UNCHANGED vars PROVE RaisePageInv'
  OBVIOUS
<1>1. ui' = ui /\ calls' = calls /\ world' = world
  BY DEF vars
<1> QED
  BY <1>1 DEF RaisePageInv, RaiseInv, RaiseOneCall, AskedForDigest, Raise!Form, Raise!SignedIsSent, DistinctInv

(* Two distinct signatures over the digest of the call are a quorum. *)
LEMMA RaiseTaken == RaisePageInv => Raise!SubmitIsTaken
<1> SUFFICES ASSUME RaisePageInv, Raise!Submittable, \A i \in 1..Len(ui.sigs) : ui.sigs[i].signer \in Trustee,
                    ui.pending.deadline \notin world.expired, ui.pending.nonce = world.nonce
             PROVE  Raise!Takes(Raise!Call)
  BY DEF Raise!SubmitIsTaken
<1> DEFINE op == Raise!Call
           J == {j \in 1..Len(op.sigs) :
                  op.sigs[j].signer \in Trustee /\ op.sigs[j].digest = Raise!Digest(op.t1, op.t2, op.deadline)}
           S == {op.sigs[i].signer : i \in J}
<1>1. /\ op.t1 = ui.t1 /\ op.t2 = ui.t2 /\ op.deadline = ui.pending.deadline /\ op.sigs = ui.sigs
  BY DEF Raise!Call
<1>2. /\ ui.sigs \in Seq(RaiseSignature) /\ Len(ui.sigs) \in Nat /\ Len(ui.sigs) >= 2 /\ ui.pending # None
      /\ ui.pending \in DigestOrNone /\ ui.t1 = ui.pending.t1 /\ ui.t2 = ui.pending.t2
      /\ \A i \in 1..Len(ui.sigs) : ui.sigs[i].digest = ui.pending
  BY DEF RaisePageInv, RaiseInv, Raise!SignedIsSent, Raise!Submittable, Raise!Quorum
<1>3. Raise!Digest(op.t1, op.t2, op.deadline) = ui.pending
  BY <1>1, <1>2 DEF Raise!Digest, DigestOrNone
<1> HIDE DEF op
<1>4. J = 1..Len(ui.sigs)
  BY <1>1, <1>2, <1>3
<1>5. S = {ui.sigs[i].signer : i \in 1..Len(ui.sigs)}
  BY <1>1, <1>4
<1> HIDE DEF S, J
<1>6. IsFiniteSet(S)
  <2>1. IsFiniteSet(1..Len(ui.sigs))
    BY <1>2, FS_Interval
  <2> DEFINE f == [i \in 1..Len(ui.sigs) |-> ui.sigs[i].signer]
  <2>2. f \in Surjection(1..Len(ui.sigs), S)
    BY <1>5 DEF Surjection
  <2> HIDE DEF f
  <2> QED
    BY <2>1, <2>2, FS_Surjection
<1> DEFINE a == ui.sigs[1].signer
           b == ui.sigs[2].signer
<1>7. a # b /\ {a, b} \subseteq S
  BY <1>2, <1>5 DEF RaisePageInv, DistinctInv
<1> HIDE DEF a, b
<1>8. Cardinality({a, b}) = 2
  <2>1. Cardinality({a}) = 1 /\ IsFiniteSet({a}) /\ {a, b} = {a} \cup {b} /\ b \notin {a}
    BY <1>7, FS_Singleton
  <2>2. Cardinality({a} \cup {b}) = Cardinality({a}) + 1
    BY <2>1, FS_AddElement
  <2>3. Cardinality({a, b}) = Cardinality({a}) + 1
    BY <2>1, <2>2, Zenon
  <2> QED
    BY <2>1, <2>3
<1>9. Cardinality(S) \in Nat /\ Cardinality(S) >= 2
  BY <1>6, <1>7, <1>8, FS_CardinalityType, FS_Subset
<1>10. Raise!Cardinality(S) = Cardinality(S)
  BY Zenon DEF Raise!Cardinality, Cardinality
<1>11. op.deadline \notin world.expired /\ Raise!Cardinality(S) >= Raise!Quorum
  BY <1>1, <1>9, <1>10 DEF Raise!Quorum
<1>12. Raise!Takes(op)
  BY <1>11, Zenon DEF Raise!Takes, S, J
<1> QED
  BY <1>12 DEF op
=============================================================================

------------------------------ MODULE Recovery ------------------------------
(***************************************************************************)
(* Social recovery of one account                                          *)
(* (aastar/src/guardian/guardian.service.ts).                              *)
(*                                                                         *)
(* Calls of the HTTP API run concurrently and interleave at their awaits:  *)
(* `calls' holds what each has read so far and the step it is at. A call   *)
(* that throws simply ends. The database is the Postgres adapter, whose    *)
(* reads and updates of a row are atomic; `FirstMatch' selects how a find  *)
(* with several matching rows answers (the first of the JSON file, any of  *)
(* the table). The account contract is the environment: its own recovery   *)
(* is proposed, approved and cancelled by the guardians' wallets, and      *)
(* anyone may execute it once it is ready.                                 *)
(***************************************************************************)
EXTENDS Integers, Sequences, FiniteSets, TLC

CONSTANTS
  Guardian,       \* addresses that may be made guardians
  Signer,         \* addresses that may own the account
  FirstSigner,    \* the owner at first
  None,           \* no address
  Call,           \* bound: calls in flight at a time
  FirstMatch,     \* a find answers the oldest match
  Quorum,         \* RECOVERY_QUORUM
  Delay,          \* RECOVERY_DELAY_MS
  MaxTime,        \* bound: the clock
  MaxGuardians,   \* bound: rows of guardians
  MaxRequests,    \* bound: rows of recovery_requests
  MaxCrashes,     \* bound: process crashes
  MaxRelayed      \* bound: executions by the backend

ASSUME RecoveryAssumption ==
  /\ FirstSigner \in Signer
  /\ None \notin Guardian \cup Signer
  /\ IsFiniteSet(Call)
  /\ FirstMatch \in BOOLEAN
  /\ Quorum = 2
  /\ {Delay, MaxTime, MaxGuardians, MaxRequests, MaxCrashes, MaxRelayed} \subseteq Nat

VARIABLES
  guardians,      \* rows of the guardians table, oldest first
  requests,       \* rows of recovery_requests, oldest first
  signer,         \* the account's signerAddress in the database
  calls,          \* the API calls in flight
  now,
  chain,          \* the account contract: owner, proposed owner, whether it may execute
  relayed,        \* the executions the backend's transactions have made
  crashes

dbVars == <<guardians, requests, signer>>
vars == <<dbVars, calls, now, chain, relayed, crashes>>

Step == {"idle", "saveGuardian", "revoke", "findPending", "saveRequest", "findToSupport",
         "support", "send", "markExecuted", "changeSigner", "findCaller", "cancel"}

NoCall == [at |-> "idle", who |-> None, ref |-> 0, seen |-> <<>>, new |-> None]

At(c, step) == calls[c].at = step
Goto(c, call) == calls' = [calls EXCEPT ![c] = call]
Return(c) == Goto(c, NoCall)

(* What a find may answer: the index of a row, 0 for none. *)
FindOne(rows) ==
  IF rows = {} THEN {0}
  ELSE { i \in rows : FirstMatch => \A j \in rows : i =< j }

FindGuardian(g) == FindOne({ i \in DOMAIN guardians : guardians[i].address = g })

Pending == { i \in DOMAIN requests : requests[i].status = "pending" }
FindPendingRecovery == FindOne(Pending)

IsActive(i) == i # 0 /\ guardians[i].status = "active"

Supporters(i) == { requests[i].supporters[j] : j \in DOMAIN requests[i].supporters }

Init ==
  /\ guardians = <<>> /\ requests = <<>>
  /\ signer = FirstSigner
  /\ calls = [c \in Call |-> NoCall]
  /\ now = 0
  /\ chain = [owner |-> FirstSigner, proposed |-> None, ready |-> FALSE]
  /\ relayed = 0 /\ crashes = 0

-----------------------------------------------------------------------------
(* addGuardian: a revoked row does not stand in the way of a new one. *)
AddGuardian(c, g) ==
  /\ At(c, "idle")
  /\ \E i \in FindGuardian(g) : ~IsActive(i)
  /\ Goto(c, [NoCall EXCEPT !.at = "saveGuardian", !.who = g])
  /\ UNCHANGED <<dbVars, now, chain, relayed, crashes>>

SaveGuardian(c) ==
  /\ At(c, "saveGuardian")
  /\ Len(guardians) < MaxGuardians
  /\ guardians' = Append(guardians, [address |-> calls[c].who, status |-> "active"])
  /\ Return(c)
  /\ UNCHANGED <<requests, signer, now, chain, relayed, crashes>>

RemoveGuardian(c, g) ==
  /\ At(c, "idle")
  /\ \E i \in FindGuardian(g) :
       /\ IsActive(i)
       /\ Goto(c, [NoCall EXCEPT !.at = "revoke", !.ref = i])
  /\ UNCHANGED <<dbVars, now, chain, relayed, crashes>>

Revoke(c) ==
  /\ At(c, "revoke")
  /\ guardians' = [guardians EXCEPT ![calls[c].ref].status = "revoked"]
  /\ Return(c)
  /\ UNCHANGED <<requests, signer, now, chain, relayed, crashes>>

-----------------------------------------------------------------------------
InitiateRecovery(c, g, s) ==
  /\ At(c, "idle")
  /\ \E i \in FindGuardian(g) : IsActive(i)
  /\ Goto(c, [NoCall EXCEPT !.at = "findPending", !.who = g, !.new = s])
  /\ UNCHANGED <<dbVars, now, chain, relayed, crashes>>

CheckNonePending(c) ==
  /\ At(c, "findPending")
  /\ IF FindPendingRecovery = {0}
     THEN Goto(c, [calls[c] EXCEPT !.at = "saveRequest", !.ref = now + Delay])
     ELSE Return(c)
  /\ UNCHANGED <<dbVars, now, chain, relayed, crashes>>

(* Bug: the initiator has to support explicitly. *)
NewRequestUnsupported(call) ==
  [newSigner |-> call.new, supporters |-> <<>>, status |-> "pending", executeAfter |-> call.ref]

(* Bug: the caller becomes the new signer. *)
NewRequestOfCaller(call) ==
  [newSigner |-> call.who, supporters |-> <<call.who>>, status |-> "pending",
   executeAfter |-> call.ref]

(* The row a new request starts as; the initiator implicitly supports it.    *)
NewRequest(call) ==
  [newSigner |-> call.new, supporters |-> <<call.who>>, status |-> "pending",
   executeAfter |-> call.ref]

SaveRequest(c) ==
  /\ At(c, "saveRequest")
  /\ Len(requests) < MaxRequests
  /\ requests' = Append(requests, NewRequest(calls[c]))
  /\ Return(c)
  /\ UNCHANGED <<guardians, signer, now, chain, relayed, crashes>>

SupportRecovery(c, g) ==
  /\ At(c, "idle")
  /\ \E i \in FindGuardian(g) : IsActive(i)
  /\ Goto(c, [NoCall EXCEPT !.at = "findToSupport", !.who = g])
  /\ UNCHANGED <<dbVars, now, chain, relayed, crashes>>

FindToSupport(c) ==
  /\ At(c, "findToSupport")
  /\ \E i \in FindPendingRecovery :
       IF i # 0 /\ calls[c].who \notin Supporters(i)
       THEN Goto(c, [calls[c] EXCEPT !.at = "support", !.ref = i, !.seen = requests[i].supporters])
       ELSE Return(c)
  /\ UNCHANGED <<dbVars, now, chain, relayed, crashes>>

Support(c) ==
  /\ At(c, "support")
  /\ requests' = [requests EXCEPT ![calls[c].ref].supporters =
                                     Append(calls[c].seen, calls[c].who)]
  /\ Return(c)
  /\ UNCHANGED <<guardians, signer, now, chain, relayed, crashes>>

-----------------------------------------------------------------------------
(* Bug: the time lock is not checked. *)
MayExecuteAnyTime(i) ==
  /\ i # 0
  /\ Len(requests[i].supporters) >= Quorum

MayExecute(i) ==
  /\ i # 0
  /\ Len(requests[i].supporters) >= Quorum
  /\ now >= requests[i].executeAfter

ExecuteRecovery(c) ==
  /\ At(c, "idle")
  /\ \E i \in FindPendingRecovery :
       /\ MayExecute(i)
       /\ Goto(c, [NoCall EXCEPT !.at = "send", !.ref = i])
  /\ UNCHANGED <<dbVars, now, chain, relayed, crashes>>

Executed == [chain EXCEPT !.owner = chain.proposed, !.proposed = None, !.ready = FALSE]

(* Bug: the transaction is sent and its outcome not awaited. *)
SendWithoutWaiting(c) ==
  /\ At(c, "send")
  /\ \/ chain.ready /\ chain' = Executed /\ relayed' = relayed + 1
     \/ UNCHANGED <<chain, relayed>>
  /\ Goto(c, [calls[c] EXCEPT !.at = "markExecuted"])
  /\ UNCHANGED <<dbVars, now, crashes>>

(* The transaction is mined and the confirmation received; or it is mined    *)
(* and the wait fails; or it fails, as it must while the contract's own      *)
(* recovery is not ready.                                                    *)
Send(c) ==
  /\ At(c, "send")
  /\ \/ /\ chain.ready
        /\ chain' = Executed /\ relayed' = relayed + 1
        /\ \/ Goto(c, [calls[c] EXCEPT !.at = "markExecuted"])
           \/ Return(c)
     \/ Return(c) /\ UNCHANGED <<chain, relayed>>
  /\ UNCHANGED <<dbVars, now, crashes>>

MarkExecuted(c) ==
  /\ At(c, "markExecuted")
  /\ requests' = [requests EXCEPT ![calls[c].ref].status = "executed"]
  /\ Goto(c, [calls[c] EXCEPT !.at = "changeSigner"])
  /\ UNCHANGED <<guardians, signer, now, chain, relayed, crashes>>

ChangeSigner(c) ==
  /\ At(c, "changeSigner")
  /\ signer' = requests[calls[c].ref].newSigner
  /\ Return(c)
  /\ UNCHANGED <<guardians, requests, now, chain, relayed, crashes>>

-----------------------------------------------------------------------------
CancelRecovery(c, a) ==
  /\ At(c, "idle")
  /\ \E i \in FindPendingRecovery :
       /\ i # 0
       /\ Goto(c, [NoCall EXCEPT !.at = "findCaller", !.who = a, !.ref = i])
  /\ UNCHANGED <<dbVars, now, chain, relayed, crashes>>

(* findGuardian and findAccountByAddress: an active guardian or the signer.  *)
CheckCaller(c) ==
  /\ At(c, "findCaller")
  /\ \E i \in FindGuardian(calls[c].who) :
       IF IsActive(i) \/ signer = calls[c].who
       THEN Goto(c, [calls[c] EXCEPT !.at = "cancel"])
       ELSE Return(c)
  /\ UNCHANGED <<dbVars, now, chain, relayed, crashes>>

Cancel(c) ==
  /\ At(c, "cancel")
  /\ requests' = [requests EXCEPT ![calls[c].ref].status = "cancelled"]
  /\ Return(c)
  /\ UNCHANGED <<guardians, signer, now, chain, relayed, crashes>>

-----------------------------------------------------------------------------
Crash ==
  /\ crashes < MaxCrashes
  /\ crashes' = crashes + 1
  /\ calls' = [c \in Call |-> NoCall]
  /\ UNCHANGED <<dbVars, now, chain, relayed>>

Tick ==
  /\ now < MaxTime
  /\ now' = now + 1
  /\ UNCHANGED <<dbVars, calls, chain, relayed, crashes>>

(* The contract, as the guardians' wallets drive it. *)
ProposeOnChain(s) ==
  /\ chain.proposed = None
  /\ chain' = [chain EXCEPT !.proposed = s]
  /\ UNCHANGED <<dbVars, calls, now, relayed, crashes>>

ReadyOnChain ==
  /\ chain.proposed # None /\ ~chain.ready
  /\ relayed < MaxRelayed
  /\ chain' = [chain EXCEPT !.ready = TRUE]
  /\ UNCHANGED <<dbVars, calls, now, relayed, crashes>>

ExecuteOnChain ==
  /\ chain.ready
  /\ chain' = Executed
  /\ UNCHANGED <<dbVars, calls, now, relayed, crashes>>

CancelOnChain ==
  /\ chain.proposed # None
  /\ chain' = [chain EXCEPT !.proposed = None, !.ready = FALSE]
  /\ UNCHANGED <<dbVars, calls, now, relayed, crashes>>

CallStep(c) ==
  \/ SaveGuardian(c) \/ Revoke(c)
  \/ CheckNonePending(c) \/ SaveRequest(c)
  \/ FindToSupport(c) \/ Support(c)
  \/ Send(c) \/ MarkExecuted(c) \/ ChangeSigner(c)
  \/ CheckCaller(c) \/ Cancel(c)

NewCall(c) ==
  \/ \E g \in Guardian : AddGuardian(c, g) \/ RemoveGuardian(c, g) \/ SupportRecovery(c, g)
  \/ \E g \in Guardian, s \in Signer : InitiateRecovery(c, g, s)
  \/ ExecuteRecovery(c)
  \/ \E a \in Guardian \cup Signer : CancelRecovery(c, a)

Next ==
  \/ \E c \in Call : NewCall(c) \/ CallStep(c)
  \/ Crash \/ Tick
  \/ \E s \in Signer : ProposeOnChain(s)
  \/ ReadyOnChain \/ ExecuteOnChain \/ CancelOnChain

Spec == Init /\ [][Next]_vars
-----------------------------------------------------------------------------
GuardianRow == [address : Guardian, status : {"active", "revoked"}]

Request == [newSigner : Signer, supporters : Seq(Guardian),
            status : {"pending", "executed", "cancelled"}, executeAfter : Nat]

CallRecord == [at : Step, who : Guardian \cup Signer \cup {None}, ref : Nat,
               seen : Seq(Guardian), new : Signer \cup {None}]

TypeOK ==
  /\ guardians \in Seq(GuardianRow)
  /\ requests \in Seq(Request)
  /\ signer \in Signer
  /\ calls \in [Call -> CallRecord]
  /\ now \in 0..MaxTime
  /\ chain \in [owner : Signer, proposed : Signer \cup {None}, ready : BOOLEAN]
  /\ relayed \in 0..MaxRelayed /\ crashes \in 0..MaxCrashes

(* A request marked executed has the support of Quorum different guardians   *)
(* and its time lock is over, however supports, removals and executions of   *)
(* several calls interleave.                                                 *)
ExecutedWasDue ==
  \A i \in DOMAIN requests : requests[i].status = "executed" =>
    /\ Cardinality(Supporters(i)) >= Quorum
    /\ now >= requests[i].executeAfter

(* Racing supports may overwrite one another, but a request that has reached *)
(* its quorum never falls below it again.                                    *)
HasQuorum(i) == Cardinality(Supporters(i)) >= Quorum
QuorumKept == [][\A i \in DOMAIN requests : HasQuorum(i) => HasQuorum(i)']_vars

(* There is an execution on chain by the backend for every request marked    *)
(* executed, and no execution is recorded for two requests.                  *)
ExecutionsBacked ==
  Cardinality({ i \in DOMAIN requests : requests[i].status = "executed" }) =< relayed

-----------------------------------------------------------------------------
(* "Check no pending recovery already exists": an account never has two.     *)
OnePending == Cardinality(Pending) =< 1

(* "Cancel a pending recovery": a request that was cancelled or executed     *)
(* stays so.                                                                 *)
SettledForGood ==
  [][\A i \in DOMAIN requests :
       requests[i].status # "pending" => requests'[i].status = requests[i].status]_vars

(* "Guardian already exists for this account": a guardian has at most one    *)
(* row that is not revoked.                                                  *)
OneActiveRow ==
  \A i, j \in DOMAIN guardians :
    /\ guardians[i].address = guardians[j].address
    /\ guardians[i].status = "active" /\ guardians[j].status = "active"
    => i = j

(* "On-chain failure causes an exception; the database is NOT updated, so    *)
(* the recovery request stays in pending status and can be retried": with no *)
(* call in flight, every execution the backend made is recorded.             *)
RelayedIsRecorded ==
  (\A c \in Call : At(c, "idle")) =>
    relayed =< Cardinality({ i \in DOMAIN requests : requests[i].status # "pending" })

(* "Update the account's signerAddress in the database to reflect the new    *)
(* owner".                                                                   *)
SignerReflectsOwner == [][signer' # signer => signer' = chain'.owner]_vars

-----------------------------------------------------------------------------
(* Guardians are interchangeable, and so are calls. *)
Symmetry == Permutations(Guardian) \cup Permutations(Call)
=============================================================================

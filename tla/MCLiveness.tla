----------------------------- MODULE MCLiveness ------------------------------
(* What must come to an end, in the pages and in the indexer's poll loop,  *)
(* each on its own: part is which of them a behaviour is of.               *)
EXTENDS Naturals

CONSTANTS p, w1, w2, w3, NoOne

VARIABLES
  part,
  ui, calls, world,                                       \* of the pages
  head, cursor, up, timer, stopping, sources, disabled,   \* of PollLoop
  polling, queue, latest, lastProcessed, needsReconnect,
  roundFailed, currentError, errors, skip, restarts

pageVars == <<ui, calls, world>>
loopVars == <<head, cursor, up, timer, stopping, sources, disabled, polling, queue, latest,
              lastProcessed, needsReconnect, roundFailed, currentError, errors, skip, restarts>>
vars == <<part, pageVars, loopVars>>

Transfer == INSTANCE Transfer WITH Amount <- {3}, MaxTransfers <- 2, MaxNodes <- 1
Task == INSTANCE TaskPage WITH Publisher <- p, Worker <- {w1}, MaxLost <- 0
Create == INSTANCE TaskCreate WITH Reward <- {1, 2}, MaxOps <- 4, MaxUnsure <- 1
Jury == INSTANCE JuryPage WITH Hash <- {w1}, None <- NoOne, MaxLoads <- 1, MaxOps <- 2, MaxFailed <- 1
Recover == INSTANCE RecoveryPage WITH Owner <- p, Guardian <- {w1, w2}, Signer <- {w1}, None <- NoOne,
  MaxForeign <- 0, MaxLost <- 1, MaxLogins <- 2
Device == INSTANCE GuardianSign WITH Address <- {w1, w2}, Account <- {w1}, Wallet <- w3, None <- NoOne,
  MaxPolls <- 2, MaxTries <- 2
Passkey == INSTANCE PasskeyRecovery WITH Owner <- {w1}, None <- NoOne, MaxNonce <- 2, MaxTries <- 2

Loop == INSTANCE PollLoop WITH
  Source <- {p, w1}, MaxBackoff <- 2, MaxErrors <- 3, MaxHead <- 2, MaxRestarts <- 1

Of(name) == part = name /\ UNCHANGED <<part, loopVars>>
OfLoop == part = "loop" /\ UNCHANGED <<part, pageVars>>

Init ==
  /\ Loop!Init
  /\ \/ part = "transfer" /\ Transfer!Init
     \/ part = "task" /\ Task!Init
     \/ part = "create" /\ Create!Init
     \/ part = "jury" /\ Jury!Init
     \/ part = "recover" /\ Recover!Init
     \/ part = "device" /\ Device!Init
     \/ part = "passkey" /\ Passkey!Init
     \/ part = "loop" /\ ui = {} /\ calls = {} /\ world = {}

Next ==
  \/ Of("transfer") /\ Transfer!Next
  \/ Of("task") /\ Task!Next
  \/ Of("create") /\ Create!Next
  \/ Of("jury") /\ Jury!Next
  \/ Of("recover") /\ Recover!Next
  \/ Of("device") /\ Device!Next
  \/ Of("passkey") /\ Passkey!Next
  \/ OfLoop /\ Loop!Next

(* Requests answer or fail, prompts time out, intervals fire, bundled      *)
(* operations end; a status is answered now and then.  The interval of the  *)
(* poll loop fires, its awaits settle, a supervisor restarts the process,  *)
(* and an RPC node that is asked for the head again and again answers at   *)
(* last.                                                                   *)
Fairness ==
  /\ WF_vars(Of("transfer") /\ Transfer!Flow)
  /\ WF_vars(Of("transfer") /\ Transfer!Poll)
  /\ \A t \in 1..2 :
       /\ WF_vars(Of("transfer") /\ Transfer!Mine(t))
       /\ SF_vars(Of("transfer") /\ Transfer!StatusAnswered(t))
  /\ \A u \in {p, w1} : WF_vars(Of("task") /\ Task!Flow(u))
  /\ WF_vars(Of("create") /\ Create!Flow)
  /\ WF_vars(Of("jury") /\ Jury!Flow)
  /\ WF_vars(Of("recover") /\ Recover!Flow)
  /\ WF_vars(Of("device") /\ Device!Flow)
  /\ WF_vars(Of("passkey") /\ Passkey!Flow)
  /\ WF_vars(OfLoop /\ Loop!OnModuleInit) /\ WF_vars(OfLoop /\ Loop!TimerPoll)
  /\ WF_vars(OfLoop /\ Loop!SkippedTick) /\ WF_vars(OfLoop /\ Loop!RoundStep)
  /\ SF_vars(OfLoop /\ Loop!HeadKnown)
  /\ WF_vars(OfLoop /\ Loop!Exit) /\ WF_vars(OfLoop /\ Loop!StartProcess)
  /\ \A s \in {p, w1} : WF_vars(OfLoop /\ Loop!RegisterSource(s))

Spec == Init /\ [][Next]_vars /\ Fairness

-----------------------------------------------------------------------------
(* The page waits with its buttons off. *)
Busy ==
  \/ part = "transfer" /\ Transfer!Sending
  \/ part = "create" /\ Create!Busy
  \/ part = "jury" /\ Jury!Busy
  \/ part = "recover" /\ Recover!Busy
  \/ part = "device" /\ Device!Busy
  \/ part = "passkey" /\ Passkey!Busy

(* The buttons of a page come back, whichever await of their handler fails *)
(* and whether an operation lands, reverts, is cancelled or is given up    *)
(* (executeTransfer; runAction, handleChallenge; handleSubmit;             *)
(* runJuryAction, handleRegister; the steps of the recovery wizard;        *)
(* handleSign; handlePropose).                                             *)
ButtonsComeBack ==
  /\ Busy ~> ~Busy
  /\ \A u \in {p, w1} :
       (part = "task" /\ Task!Busy(u)) ~> (part = "task" /\ ~Task!Busy(u))

(* Polling of a transfer that was sent ends, also when the user sends      *)
(* another one or leaves (startStatusPolling, stopPolling).                *)
PollingEnds ==
  \A t \in 1..2 :
    (part = "transfer" /\ Transfer!Polled(t)) ~> (part = "transfer" /\ ~Transfer!Polled(t))

(* The poll loop: see PollLoop.tla. *)
SourcesServed == (part = "loop") => Loop!SourcesServed
(* A shutdown waits for the round in flight and no longer (onModuleDestroy). *)
ShutdownCompletes == (part = "loop" /\ stopping /\ up) ~> (part = "loop" /\ ~up)
=============================================================================

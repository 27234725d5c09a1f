------------------------------ MODULE Services ------------------------------
(***************************************************************************)
(* Services of the backend, each on its own: the login with a code, the    *)
(* limiter in front of it, the login with a passkey at the KMS, readers of *)
(* the event index, and the indexer's poll loop; part is which of them a   *)
(* behaviour is of. Codes, calls and keys are interchangeable.             *)
(***************************************************************************)
EXTENDS OtpLogin, TLC

CONSTANTS
  Key, Limit, Window, SweepWindow, MaxKeys, LimiterTime,                \* of RateLimit
  Address, Verifier, Lifetime, MaxChallenges, LastTime,                 \* of KmsLogin
  PageSize, MaxScan, Depth, Initial, MaxEvents, Challenges, Reorgs,     \* of MyTaskIndex
  Source, MaxBackoff, MaxErrors, MaxHead, MaxRestarts                   \* of PollLoop

(* A guard lets some calls pass, remembers some keys, and has no window that *)
(* is longer than the one of the sweep; a page has some events.             *)
ASSUME ServicesAssumption ==
  /\ {Limit, MaxKeys, PageSize, MaxErrors} \subseteq Nat \ {0}
  /\ {Window, SweepWindow, LimiterTime, MaxScan, Depth, Initial, MaxEvents, Reorgs} \subseteq Nat
  /\ Window =< SweepWindow
  /\ Initial =< MaxEvents

VARIABLES
  part,
  store, time, granted, retryAt,                          \* of RateLimit
  challenges, linked, verifying, clock, generated, used,  \* of KmsLogin
  index, stored, reorgs, reader, start,                   \* of MyTaskIndex
  head, cursor, up, timer, stopping, sources, disabled,   \* of PollLoop
  polling, queue, latest, lastProcessed, needsReconnect,
  roundFailed, currentError, errors, skip, restarts

limiterVars == <<store, time, granted, retryAt>>
kmsVars == <<challenges, linked, verifying, clock, generated, used>>
indexVars == <<index, stored, reorgs, reader, start>>
loopVars == <<head, cursor, up, timer, stopping, sources, disabled, polling, queue, latest,
              lastProcessed, needsReconnect, roundFailed, currentError, errors, skip, restarts>>
allVars == <<vars, part, limiterVars, kmsVars, indexVars, loopVars>>

Limiter == INSTANCE RateLimit WITH now <- time, MaxTime <- LimiterTime
Kms == INSTANCE KmsLogin
Index == INSTANCE MyTaskIndex
Loop == INSTANCE PollLoop

InitAll ==
  /\ part \in {"otp", "limiter", "kms", "index", "loop"}
  /\ Init /\ Limiter!Init /\ Kms!Init /\ Index!Init /\ Loop!Init
  /\ part # "kms" => linked = CHOOSE a \in Address : TRUE
  /\ part # "index" => index = <<>>

NextAll ==
  /\ UNCHANGED part
  /\ \/ part = "otp" /\ Next /\ UNCHANGED <<limiterVars, kmsVars, indexVars, loopVars>>
     \/ part = "limiter" /\ Limiter!Next /\ UNCHANGED <<vars, kmsVars, indexVars, loopVars>>
     \/ part = "kms" /\ Kms!Next /\ UNCHANGED <<vars, limiterVars, indexVars, loopVars>>
     \/ part = "index" /\ Index!Next /\ UNCHANGED <<vars, limiterVars, kmsVars, loopVars>>
     \/ part = "loop" /\ Loop!Next /\ UNCHANGED <<vars, limiterVars, kmsVars, indexVars>>

SpecAll == InitAll /\ [][NextAll]_allVars

Symmetry == Permutations(Code) \cup Permutations(Call) \cup Permutations(Key)

-----------------------------------------------------------------------------
(* The limiter: no window lets more calls of a remembered key pass than the  *)
(* limit, and a caller that was turned away is let in when it was told.      *)
LimiterHonest == Limiter!LimitHeld /\ Limiter!RetryAfterHonest

(* Login with a passkey at the KMS: see KmsLogin.tla. *)
UsedChallengeGone == Kms!UsedChallengeGone
(* Login with a passkey at the KMS: see KmsLogin.tla. *)
KeptUntilLogin == [][part = "kms" => Kms!KeptUntilLogin]_allVars

(* A drain of the index says what it read: it leaves no gap while the index  *)
(* only grows, says `truncated' only at the cap, and is complete when the    *)
(* indexer rests.                                                            *)
DrainHonest == Index!NoGap /\ Index!TruncatedOnlyAtCap /\ Index!AuthoritativeAtRest
(* The newest challenges: see MyTaskIndex.tla. *)
RecentAreNewest == Index!RecentAreNewest

(* The poll loop: see PollLoop.tla. *)
ErrorStateAgrees == Loop!ErrorStateAgrees
(* The poll loop: see PollLoop.tla. *)
CorruptStoreUntouched == Loop!CorruptStoreUntouched
=============================================================================

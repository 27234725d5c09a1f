------------------------------ MODULE KmsLogin ------------------------------
(* Login with a passkey that the KMS keeps (aastar/src/auth/auth.service.ts): *)
(* one challenge per wallet address, in memory.  A verification reads it       *)
(* before the KMS signs it, and afterwards deletes whatever is there by then.  *)
EXTENDS Naturals

CONSTANTS
  Address,       \* the wallets one user links, one after the other
  Verifier,      \* bound: verifications in flight at a time
  Lifetime,      \* the five minutes of a challenge
  MaxChallenges, \* bound: challenges generated
  LastTime       \* bound: the clock

VARIABLES
  challenges,    \* loginChallengeStore
  linked,        \* the walletAddress of the user's row
  verifying,     \* the verifications in flight, each with what it has read
  clock,
  generated,     \* challenges generated
  used           \* history: the challenges that have let a login pass

vars == <<challenges, linked, verifying, clock, generated, used>>

NoChallenge == [id |-> 0, expiresAt |-> 0]

(* A verification: the await it is at, its address, the challenge it read.     *)
At(v, point) == verifying[v].at = point

Init ==
  /\ challenges = [a \in Address |-> NoChallenge]
  /\ linked \in Address
  /\ verifying = [v \in Verifier |-> [at |-> "idle", of |-> linked, id |-> 0]]
  /\ clock = 0 /\ generated = 0 /\ used = {}

GenerateLoginChallenge ==
  /\ generated < MaxChallenges
  /\ generated' = generated + 1
  /\ challenges' = [challenges EXCEPT ![linked] =
                      [id |-> generated', expiresAt |-> clock + Lifetime]]
  /\ UNCHANGED <<linked, verifying, clock, used>>

(* A passkey re-created at the KMS gets an address of its own.                 *)
LinkWallet(a) ==
  /\ linked' = a
  /\ UNCHANGED <<challenges, verifying, clock, generated, used>>

-----------------------------------------------------------------------------
Expired(a) == clock > challenges[a].expiresAt

(* Bug: the challenge is gone as soon as a verification has read it. *)
TakenAtOnce(v, a) ==
  /\ ~Expired(a)
  /\ verifying' = [verifying EXCEPT ![v] = [at |-> "kms", of |-> a, id |-> challenges[a].id]]
  /\ challenges' = [challenges EXCEPT ![a] = NoChallenge]

Taken(v, a) ==
  /\ ~Expired(a)
  /\ verifying' = [verifying EXCEPT ![v] = [at |-> "kms", of |-> a, id |-> challenges[a].id]]
  /\ UNCHANGED challenges

Refused(a) ==
  /\ Expired(a)
  /\ challenges' = [challenges EXCEPT ![a] = NoChallenge]
  /\ UNCHANGED verifying

VerifyKmsLogin(v, a) ==
  /\ At(v, "idle") /\ challenges[a] # NoChallenge
  /\ Taken(v, a) \/ Refused(a)
  /\ UNCHANGED <<linked, clock, generated, used>>

(* Bug: a login leaves its challenge in the store. *)
KeptAfterLogin(v) == UNCHANGED challenges

CleanedUp(v) == challenges' = [challenges EXCEPT ![verifying[v].of] = NoChallenge]

(* The KMS has signed the challenge, and the signature is the wallet's.        *)
Signed(v) ==
  /\ At(v, "kms")
  /\ CleanedUp(v)
  /\ used' = used \cup {verifying[v].id}
  /\ verifying' = [verifying EXCEPT ![v].at = "find"]
  /\ UNCHANGED <<linked, clock, generated>>

(* The user of the wallet is found, or has linked another one meanwhile; or    *)
(* the KMS refused; or the database or the KMS did not answer.                 *)
Answered(v) ==
  /\ ~At(v, "idle")
  /\ verifying' = [verifying EXCEPT ![v].at = "idle"]
  /\ UNCHANGED <<challenges, linked, clock, generated, used>>

CleanupExpiredChallenges ==
  /\ challenges' = [a \in Address |-> IF Expired(a) THEN NoChallenge ELSE challenges[a]]
  /\ UNCHANGED <<linked, verifying, clock, generated, used>>

Tick ==
  /\ clock < LastTime
  /\ clock' = clock + 1
  /\ UNCHANGED <<challenges, linked, verifying, generated, used>>

Crash ==
  /\ challenges' = [a \in Address |-> NoChallenge]
  /\ verifying' = [v \in Verifier |-> [verifying[v] EXCEPT !.at = "idle"]]
  /\ UNCHANGED <<linked, clock, generated, used>>

Next ==
  \/ GenerateLoginChallenge \/ CleanupExpiredChallenges \/ Tick \/ Crash
  \/ \E a \in Address : LinkWallet(a) \/ \E v \in Verifier : VerifyKmsLogin(v, a)
  \/ \E v \in Verifier : Signed(v) \/ Answered(v)

Spec == Init /\ [][Next]_vars

-----------------------------------------------------------------------------
(* A challenge that has let a login pass lets no verification pass that        *)
(* begins later; only those that had read it already may still do so.          *)
UsedChallengeGone == \A a \in Address : challenges[a].id \notin used

(* A challenge that is alive goes only for a newer one, in a crash, or         *)
(* because a login of its wallet passed: a verification the KMS refuses or     *)
(* never answers costs the user nothing.                                       *)
KeptUntilLogin ==
  \A a \in Address :
    challenges[a] # NoChallenge /\ ~Expired(a) /\ challenges'[a] = NoChallenge =>
      \/ \A v \in Verifier : verifying'[v].at = "idle"
      \/ \E v \in Verifier :
           At(v, "kms") /\ verifying[v].of = a /\ verifying'[v].at = "find"
=============================================================================

------------------------------ MODULE OtpLogin ------------------------------
(***************************************************************************)
(* Login with a one-time code for one e-mail address                       *)
(* (aastar/src/auth/auth.service.ts). The code store is a map in memory;   *)
(* verifications interleave at their database awaits. Codes are numbered   *)
(* in the order they were issued.                                          *)
(***************************************************************************)
EXTENDS Integers, Sequences

CONSTANTS
  Code,           \* code values; two codes issued may have the same
  Call,           \* bound: verifications in flight at a time
  Ttl,            \* OTP_TTL_MS
  MaxAttempts,    \* OTP_MAX_ATTEMPTS
  UniqueEmail,    \* the users table has its unique constraint (Postgres)
  MaxIssued,      \* bound: codes requested
  MaxTime,        \* bound: the clock
  MaxCrashes      \* bound: crashes of the process

ASSUME OtpAssumption ==
  /\ MaxAttempts \in Nat \ {0}
  /\ UniqueEmail \in BOOLEAN
  /\ {Ttl, MaxIssued, MaxTime, MaxCrashes} \subseteq Nat

VARIABLES
  otp,            \* the otpStore entry, None without one
  users,          \* rows of the users table with this e-mail
  calls,          \* the verifications in flight and the code each used up
  now,
  issued,         \* codes issued so far
  admitted,       \* how many verifications each code let pass
  guesses,        \* how many wrong codes were compared with each code
  crashes

vars == <<otp, users, calls, now, issued, admitted, guesses, crashes>>

None == [code |-> {}, expiresAt |-> 0, attempts |-> 0, id |-> 0]
NoCall == [at |-> "idle", id |-> 0]

Init ==
  /\ otp = None /\ users = 0
  /\ calls = [c \in Call |-> NoCall]
  /\ now = 0 /\ issued = 0
  /\ admitted = [i \in 1..MaxIssued |-> 0]
  /\ guesses = [i \in 1..MaxIssued |-> 0]
  /\ crashes = 0

(* requestOtp stores the code before it awaits the mail, which may be late   *)
(* or lost; the user may enter any code at any time.                         *)
RequestOtp(code) ==
  /\ issued < MaxIssued
  /\ issued' = issued + 1
  /\ otp' = [code |-> {code}, expiresAt |-> now + Ttl, attempts |-> 0, id |-> issued']
  /\ UNCHANGED <<users, calls, now, admitted, guesses, crashes>>

-----------------------------------------------------------------------------
(* Bug: one attempt too many. *)
ExhaustedLate == otp.attempts > MaxAttempts

Exhausted == otp.attempts >= MaxAttempts

(* verifyOtp up to its first await: the code is refused and dropped, or      *)
(* counted as a wrong guess, or used up.                                     *)
DropOtp ==
  /\ otp # None
  /\ now > otp.expiresAt \/ Exhausted
  /\ otp' = None
  /\ UNCHANGED <<users, calls, now, issued, admitted, guesses, crashes>>

Live == otp # None /\ now =< otp.expiresAt /\ ~Exhausted

(* Bug: wrong guesses are not counted. *)
WrongCodeUncounted(code) ==
  /\ Live
  /\ code \notin otp.code
  /\ guesses' = [guesses EXCEPT ![otp.id] = IF @ > MaxAttempts THEN @ ELSE @ + 1]
  /\ UNCHANGED <<otp, users, calls, now, issued, admitted, crashes>>

WrongCode(code) ==
  /\ Live
  /\ code \notin otp.code
  /\ otp' = [otp EXCEPT !.attempts = @ + 1]
  /\ guesses' = [guesses EXCEPT ![otp.id] = @ + 1]
  /\ UNCHANGED <<users, calls, now, issued, admitted, crashes>>

(* Bug: the code is dropped only once the user is logged in. *)
RightCodeDroppedLate(c, code) ==
  /\ Live
  /\ code \in otp.code
  /\ calls[c] = NoCall
  /\ calls' = [calls EXCEPT ![c] = [at |-> "findUser", id |-> otp.id]]
  /\ admitted' = [admitted EXCEPT ![otp.id] = @ + 1]
  /\ UNCHANGED <<otp, users, now, issued, guesses, crashes>>

RightCode(c, code) ==
  /\ Live
  /\ code \in otp.code
  /\ calls[c] = NoCall
  /\ otp' = None
  /\ calls' = [calls EXCEPT ![c] = [at |-> "findUser", id |-> otp.id]]
  /\ admitted' = [admitted EXCEPT ![otp.id] = @ + 1]
  /\ UNCHANGED <<users, now, issued, guesses, crashes>>

FindUser(c) ==
  /\ calls[c].at = "findUser"
  /\ calls' = [calls EXCEPT ![c] = IF users = 0 THEN [@ EXCEPT !.at = "saveUser"] ELSE NoCall]
  /\ UNCHANGED <<otp, users, now, issued, admitted, guesses, crashes>>

(* With the constraint a second row is refused, and the call throws.         *)
InsertUser == users' = IF UniqueEmail THEN 1 ELSE users + 1

SaveUser(c) ==
  /\ calls[c].at = "saveUser"
  /\ InsertUser
  /\ calls' = [calls EXCEPT ![c] = NoCall]
  /\ UNCHANGED <<otp, now, issued, admitted, guesses, crashes>>

(* The database is unreachable: the call throws, and the code is gone.       *)
CallFails(c) ==
  /\ calls[c] # NoCall
  /\ calls' = [calls EXCEPT ![c] = NoCall]
  /\ UNCHANGED <<otp, users, now, issued, admitted, guesses, crashes>>

-----------------------------------------------------------------------------
(* The interval's sweep. *)
CleanupExpired ==
  /\ otp' = IF otp # None /\ now > otp.expiresAt THEN None ELSE otp
  /\ UNCHANGED <<users, calls, now, issued, admitted, guesses, crashes>>

Tick ==
  /\ now < MaxTime
  /\ now' = now + 1
  /\ UNCHANGED <<otp, users, calls, issued, admitted, guesses, crashes>>

Crash ==
  /\ crashes < MaxCrashes
  /\ crashes' = crashes + 1
  /\ otp' = None
  /\ calls' = [c \in Call |-> NoCall]
  /\ UNCHANGED <<users, now, issued, admitted, guesses>>

Next ==
  \/ \E code \in Code : RequestOtp(code) \/ WrongCode(code)
  \/ DropOtp
  \/ \E c \in Call : \/ \E code \in Code : RightCode(c, code)
                     \/ FindUser(c) \/ SaveUser(c) \/ CallFails(c)
  \/ CleanupExpired \/ Tick \/ Crash

Spec == Init /\ [][Next]_vars
-----------------------------------------------------------------------------
TypeOK ==
  /\ otp \in [code : SUBSET Code, expiresAt : 0..(MaxTime + Ttl), attempts : 0..MaxAttempts,
              id : 0..MaxIssued]
  /\ users \in Nat
  /\ calls \in [Call -> [at : {"idle", "findUser", "saveUser"}, id : 0..MaxIssued]]
  /\ now \in 0..MaxTime /\ issued \in 0..MaxIssued
  /\ admitted \in [1..MaxIssued -> Nat] /\ guesses \in [1..MaxIssued -> Nat]
  /\ crashes \in 0..MaxCrashes

(* A code lets one verification pass at most, however many are in flight,    *)
(* and none after MaxAttempts wrong guesses at it.                           *)
CodeUsedOnce == \A i \in 1..MaxIssued : admitted[i] =< 1

(* A code is compared with at most MaxAttempts wrong ones, and none of them  *)
(* after it was used.                                                        *)
GuessesBounded ==
  \A i \in 1..MaxIssued :
    /\ guesses[i] =< MaxAttempts
    /\ admitted[i] > 0 => guesses[i] < MaxAttempts

(* "create the user on first sight ... or log the existing one in": an       *)
(* address never has two users.                                              *)
OneUser == users =< 1
=============================================================================

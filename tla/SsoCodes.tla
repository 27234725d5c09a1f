------------------------------ MODULE SsoCodes ------------------------------
(***************************************************************************)
(* The one-time authorization codes of the single sign-on                  *)
(* (aastar/src/sso/sso.service.ts): a map in memory with an expiry per     *)
(* code and a cap on their number. Codes are numbered in the order they    *)
(* were minted, which is the order of the map's keys.                      *)
(***************************************************************************)
EXTENDS Integers, Sequences, FiniteSets

CONSTANTS
  Redirect,       \* whitelisted redirect URIs, normalized
  Call,           \* bound: authorizations in flight at a time
  Ttl,            \* CODE_TTL_MS
  MaxCodes,       \* MAX_CODES
  MaxMinted,      \* bound: codes minted
  MaxTime         \* bound: the clock

ASSUME SsoAssumption ==
  /\ MaxCodes \in Nat \ {0} /\ Ttl \in Nat \ {0}
  /\ {MaxMinted, MaxTime} \subseteq Nat

VARIABLES
  codes,          \* the map's entries
  calls,          \* for each authorization in flight, the redirect it is for
  now,
  minted,         \* the redirect of every code minted
  presented,      \* the codes any exchange was tried with
  exchanged       \* the tokens given out: [id, redirect]

vars == <<codes, calls, now, minted, presented, exchanged>>

Init ==
  /\ codes = {}
  /\ calls = [c \in Call |-> {}]
  /\ now = 0
  /\ minted = <<>> /\ presented = {} /\ exchanged = {}

Expired(entry) == entry.expiresAt =< now
Swept == { entry \in codes : ~Expired(entry) }
Newest(n, entries) == { e \in entries : Cardinality({ f \in entries : f.id > e.id }) < n }

(* authorize, up to the await of the user's account address. *)
Authorize(c, r) ==
  /\ calls[c] = {}
  /\ calls' = [calls EXCEPT ![c] = {r}]
  /\ UNCHANGED <<codes, now, minted, presented, exchanged>>

NoAccount(c) ==
  /\ calls[c] # {}
  /\ calls' = [calls EXCEPT ![c] = {}]
  /\ UNCHANGED <<codes, now, minted, presented, exchanged>>

(* Bug: what is over the cap is counted before the sweep. *)
EvictedBySizeBefore ==
  IF Cardinality(codes) < MaxCodes THEN codes
  ELSE Newest(Cardinality(Swept) - (Cardinality(codes) - MaxCodes + 1), Swept)

(* Bug: drops one too few. *)
EvictedOneShort ==
  IF Cardinality(codes) < MaxCodes THEN codes ELSE Newest(MaxCodes, Swept)

(* evictIfOverCap: the expired go first, then the oldest, until there is     *)
(* room for one more.                                                        *)
Evicted ==
  IF Cardinality(codes) < MaxCodes THEN codes ELSE Newest(MaxCodes - 1, Swept)

Mint(c) ==
  /\ Len(minted) < MaxMinted
  /\ \E r \in calls[c] :
       /\ minted' = Append(minted, r)
       /\ codes' = Evicted \cup
                     {[id |-> Len(minted) + 1, redirect |-> r, expiresAt |-> now + Ttl]}
  /\ calls' = [calls EXCEPT ![c] = {}]
  /\ UNCHANGED <<now, presented, exchanged>>

(* Bug: a code is used up only by an exchange that succeeds. *)
RemainingIfInvalid(id, valid) ==
  IF valid THEN { entry \in codes : entry.id # id } ELSE codes

Remaining(id, valid) == { entry \in codes : entry.id # id }

(* exchange: there is no await, and any attempt uses the code up.            *)
Exchange(id, r) ==
  LET valid == \E entry \in codes :
                 entry.id = id /\ ~Expired(entry) /\ entry.redirect = r
  IN /\ codes' = Remaining(id, valid)
     /\ presented' = presented \cup {id}
     /\ exchanged' = IF valid THEN exchanged \cup {[id |-> id, redirect |-> r,
                                                    again |-> id \in presented]}
                     ELSE exchanged
     /\ UNCHANGED <<calls, now, minted>>

SweepExpired ==
  /\ codes' = Swept
  /\ UNCHANGED <<calls, now, minted, presented, exchanged>>

Tick ==
  /\ now < MaxTime
  /\ now' = now + 1
  /\ UNCHANGED <<codes, calls, minted, presented, exchanged>>

Next ==
  \/ \E c \in Call : \/ \E r \in Redirect : Authorize(c, r)
                     \/ NoAccount(c) \/ Mint(c)
  \/ \E id \in DOMAIN minted, r \in Redirect : Exchange(id, r)
  \/ SweepExpired \/ Tick

Spec == Init /\ [][Next]_vars
-----------------------------------------------------------------------------
Entry == [id : Nat, redirect : Redirect, expiresAt : Nat]

(* The cap is part of the type: memory is bounded, whatever expires, is used *)
(* or is never swept.                                                        *)
TypeOK ==
  /\ codes \subseteq Entry /\ Cardinality(codes) =< MaxCodes
  /\ calls \in [Call -> SUBSET Redirect]
  /\ now \in Nat
  /\ minted \in Seq(Redirect)
  /\ presented \subseteq Nat
  /\ exchanged \subseteq [id : Nat, redirect : Redirect, again : BOOLEAN]

(* Only the first exchange tried with a code can succeed, only for the       *)
(* redirect it was minted for: a failed try uses it up as well.              *)
FirstTryOnly ==
  \A e \in exchanged : ~e.again /\ minted[e.id] = e.redirect

(* A code nobody presented is there until it expires, unless MAX_CODES codes *)
(* minted after it are all still alive: the cap never costs more logins than *)
(* it must.                                                                  *)
KeptWhileAlive ==
  [][\A entry \in codes \ codes' :
       ~Expired(entry) /\ entry.id \notin presented' =>
         /\ Cardinality(codes') = MaxCodes
         /\ \A other \in codes' : other.id > entry.id /\ other.expiresAt > now]_vars
=============================================================================

----------------------------- MODULE RateLimit -----------------------------
(***************************************************************************)
(* The sliding-window rate limiter of the OTP and SSO endpoints            *)
(* (aastar/src/auth/guards/otp-rate-limit.guard.ts and                     *)
(* aastar/src/sso/guards/sso-rate-limit.guard.ts, the same algorithm): a   *)
(* map from key to the times of its hits, with a periodic sweep and a cap  *)
(* on the number of keys. Updating a key of a JavaScript map leaves it     *)
(* where it was inserted, so the oldest-inserted key is the first of the   *)
(* sequence `store'. A limiter call has no await and is one step.          *)
(***************************************************************************)
EXTENDS Integers, Sequences, Filters

CONSTANTS
  Key,            \* bucket and e-mail address, or bucket and IP address
  Limit,          \* max of the guard
  Window,         \* windowMs of the guard, at most SweepWindow
  SweepWindow,    \* MAX_WINDOW_MS
  MaxKeys,        \* MAX_KEYS
  MaxTime         \* bound: the clock

VARIABLES
  store,          \* the map's entries in insertion order: [key, hits]
  now,
  granted,        \* the times each key was let pass since it was last evicted
  retryAt         \* the time a rejected key was told to come back, Never if not

vars == <<store, now, granted, retryAt>>

Never == -1

Init ==
  /\ store = <<>> /\ now = 0
  /\ granted = [k \in Key |-> <<>>]
  /\ retryAt = [k \in Key |-> Never]

Position(k) == { i \in DOMAIN store : store[i].key = k }

(* Bug: a hit exactly Window ago still counts. *)
InWindowClosed(t) == t >= now - Window

InWindow(t) == t > now - Window

(* The hits of a key that still count; those before are pruned.              *)
Recent(k) ==
  IF Position(k) = {} THEN <<>>
  ELSE Filter(store[CHOOSE i \in Position(k) : TRUE].hits, { t \in 0..now : InWindow(t) })

(* Map.set *)
Set(k, hits) ==
  IF Position(k) = {} THEN Append(store, [key |-> k, hits |-> hits])
  ELSE [i \in DOMAIN store |-> IF store[i].key = k THEN [key |-> k, hits |-> hits] ELSE store[i]]

(* Bug: one key more than the cap is kept. *)
EvictedOneShort(s) == IF Len(s) =< MaxKeys + 1 THEN s ELSE SubSeq(s, Len(s) - MaxKeys, Len(s))

(* evictIfOverCap *)
Evicted(s) == IF Len(s) =< MaxKeys THEN s ELSE SubSeq(s, Len(s) - MaxKeys + 1, Len(s))

Keys(s) == { s[i].key : i \in DOMAIN s }

Reject(k) ==
  /\ Len(Recent(k)) >= Limit
  /\ store' = Set(k, Recent(k))
  /\ retryAt' = [retryAt EXCEPT ![k] = Recent(k)[1] + Window]
  /\ UNCHANGED <<now, granted>>

(* An evicted key starts over; a retry promised to it is void.               *)
Grant(k) ==
  /\ Len(Recent(k)) < Limit
  /\ store' = Evicted(Set(k, Append(Recent(k), now)))
  /\ LET evicted == (Keys(store) \cup {k}) \ Keys(store') IN
       /\ granted' = [q \in Key |-> IF q \in evicted THEN <<>>
                                    ELSE IF q = k THEN Append(granted[k], now)
                                    ELSE granted[q]]
       /\ retryAt' = [retryAt EXCEPT ![k] = Never]
  /\ UNCHANGED now

(* Bug: any key not hit just now is swept. *)
SweptEagerly(entry) == entry.hits = <<>> \/ entry.hits[Len(entry.hits)] < now

Stale(entry) == entry.hits = <<>> \/ entry.hits[Len(entry.hits)] =< now - SweepWindow

Entries == { store[i] : i \in DOMAIN store }

Sweep ==
  /\ store' = Filter(store, { entry \in Entries : ~Stale(entry) })
  /\ UNCHANGED <<now, granted, retryAt>>

Tick ==
  /\ now < MaxTime
  /\ now' = now + 1
  /\ UNCHANGED <<store, granted, retryAt>>

Next ==
  \/ \E k \in Key : Reject(k) \/ Grant(k)
  \/ Sweep \/ Tick

Spec == Init /\ [][Next]_vars
-----------------------------------------------------------------------------
(* The cap on the keys is part of the type: memory is bounded.               *)
TypeOK ==
  /\ store \in Seq([key : Key, hits : Seq(Nat)])
  /\ Len(store) =< MaxKeys /\ \A i \in DOMAIN store : Len(store[i].hits) =< Limit
  /\ now \in Nat
  /\ granted \in [Key -> Seq(Nat)]
  /\ retryAt \in [Key -> Nat \cup {Never}]

(* Unless the cap made the limiter forget a key, no window of Window lets    *)
(* more than Limit of its calls pass, though the sweep and the pruning drop  *)
(* hits all the time.                                                        *)
LimitHeld ==
  \A k \in Key : \A i \in DOMAIN granted[k] :
    i > Limit => granted[k][i] - granted[k][i - Limit] >= Window

(* A caller that is rejected and comes back when Retry-After says is let     *)
(* pass.                                                                     *)
RetryAfterHonest ==
  \A k \in Key : retryAt[k] # Never /\ now >= retryAt[k] => Len(Recent(k)) < Limit
=============================================================================

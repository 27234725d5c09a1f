---------------------------- MODULE RecoveryProofs ----------------------------
(***************************************************************************)
(* Proofs about Recovery for every number of calls, guardians and requests. *)
(*                                                                         *)
(* A call works with what it read some awaits ago. What keeps it right all *)
(* the same is that what it read can only get truer: rows are never        *)
(* deleted, a request that is due stays due. GoodCall collects what a call *)
(* relies on at its step, Grows what every step of the others preserves.   *)
(***************************************************************************)
EXTENDS Recovery, FiniteSetTheorems, SequenceTheorems, TLAPS

Distinct(s) == \A j, k \in DOMAIN s : s[j] = s[k] => j = k
Elements(s) == { s[j] : j \in DOMAIN s }

Voted(r) == Len(r.supporters) >= Quorum
IsDue(r, t) == Voted(r) /\ t >= r.executeAfter

(* A request has at least the support of its initiator, nobody supports it   *)
(* twice, and it is due once executed.                                       *)
GoodRequest(r, t) ==
  /\ r.supporters # <<>> /\ Distinct(r.supporters)
  /\ r.status = "executed" => IsDue(r, t)

(* What the call x relies on, given guardians, requests and the time.        *)
GoodCall(x, gs, rs, t) ==
  /\ x \in CallRecord
  /\ x.at = "revoke" => x.ref \in DOMAIN gs
  /\ x.at \in {"support", "send", "markExecuted", "changeSigner", "findCaller", "cancel"} =>
       x.ref \in DOMAIN rs
  /\ x.at \in {"saveGuardian", "findPending", "saveRequest", "findToSupport", "support"} =>
       x.who \in Guardian
  /\ x.at \in {"findPending", "saveRequest"} => x.new \in Signer
  /\ x.at = "support" =>
       x.seen # <<>> /\ Distinct(x.seen) /\ x.who \notin Elements(x.seen)
  /\ x.at \in {"send", "markExecuted"} => IsDue(rs[x.ref], t)

Tables ==
  /\ guardians \in Seq(GuardianRow)
  /\ requests \in Seq(Request)
  /\ \A i \in DOMAIN requests : GoodRequest(requests[i], now)

Calls ==
  /\ calls \in [Call -> CallRecord]
  /\ \A c \in Call : GoodCall(calls[c], guardians, requests, now)

Rest ==
  /\ signer \in Signer
  /\ now \in 0..MaxTime
  /\ chain \in [owner : Signer, proposed : Signer \cup {None}, ready : BOOLEAN]
  /\ relayed \in 0..MaxRelayed /\ crashes \in 0..MaxCrashes
  /\ chain.ready => chain.proposed # None /\ relayed < MaxRelayed

IInv == Tables /\ Calls /\ Rest

Grows ==
  /\ DOMAIN guardians \subseteq DOMAIN guardians'
  /\ \A i \in DOMAIN requests :
       /\ i \in DOMAIN requests'
       /\ Voted(requests[i]) => Voted(requests'[i])
       /\ IsDue(requests[i], now) => IsDue(requests'[i], now')

-----------------------------------------------------------------------------
(* What the steps do to the calls, given that the tables only grow.          *)

LEMMA CallsKept ==
  ASSUME Calls, Grows, calls' = calls
  PROVE  Calls'
<1> SUFFICES ASSUME NEW c \in Call
             PROVE  GoodCall(calls[c], guardians', requests', now')
  BY DEF Calls
<1> QED
  BY DEF Calls, Grows, GoodCall

LEMMA CallMoved ==
  ASSUME Calls, Grows, NEW c \in Call, NEW x,
         GoodCall(x, guardians', requests', now'),
         calls' = [calls EXCEPT ![c] = x]
  PROVE  Calls'
<1>1. calls' \in [Call -> CallRecord]
  BY DEF Calls, GoodCall
<1>2. ASSUME NEW d \in Call
      PROVE  GoodCall(calls'[d], guardians', requests', now')
  <2>1. CASE d = c
    BY <2>1 DEF Calls
  <2>2. CASE d # c
    <3>1. calls'[d] = calls[d]
      BY <2>2 DEF Calls
    <3> QED
      BY <3>1 DEF Calls, Grows, GoodCall
  <2> QED
    BY <2>1, <2>2
<1> QED
  BY <1>1, <1>2 DEF Calls

LEMMA NoCallGood ==
  ASSUME NEW gs, NEW rs, NEW t
  PROVE  GoodCall(NoCall, gs, rs, t)
<1>1. NoCall \in CallRecord
  BY EmptySeq DEF NoCall, CallRecord, Step
<1> QED
  BY <1>1 DEF GoodCall, NoCall

LEMMA CallReturned ==
  ASSUME Calls, Grows, NEW c \in Call, Return(c)
  PROVE  Calls'
BY CallMoved, NoCallGood DEF Return, Goto

-----------------------------------------------------------------------------
(* What the steps do to the tables.                                          *)

LEMMA RequestFacts ==
  ASSUME Tables, NEW i \in DOMAIN requests
  PROVE  /\ i \in 1..Len(requests) /\ Len(requests) \in Nat
         /\ requests[i] \in Request
         /\ requests[i].supporters \in Seq(Guardian)
         /\ Len(requests[i].supporters) \in Nat
         /\ GoodRequest(requests[i], now)
<1>1. requests[i] \in Request
  BY DEF Tables
<1> QED
  BY <1>1 DEF Tables, Request

LEMMA TablesKept ==
  ASSUME Tables, now \in Nat, now' \in Nat, now' >= now,
         guardians' = guardians, requests' = requests
  PROVE  Tables' /\ Grows
<1>1. ASSUME NEW i \in DOMAIN requests
      PROVE  /\ IsDue(requests[i], now) => IsDue(requests[i], now')
             /\ GoodRequest(requests[i], now')
  <2>1. requests[i].executeAfter \in Nat
    BY RequestFacts DEF Request
  <2> QED
    BY <2>1, RequestFacts DEF IsDue, GoodRequest
<1> QED
  BY <1>1 DEF Tables, Grows

LEMMA RequestAdded ==
  ASSUME Tables, NEW r \in Request, GoodRequest(r, now),
         requests' = Append(requests, r), UNCHANGED <<guardians, now>>
  PROVE  Tables' /\ Grows
<1>1. /\ requests' \in Seq(Request)
      /\ DOMAIN requests' = DOMAIN requests \cup {Len(requests) + 1}
      /\ requests'[Len(requests) + 1] = r
      /\ \A i \in DOMAIN requests : requests'[i] = requests[i]
  BY DEF Tables
<1>2. \A i \in DOMAIN requests' : GoodRequest(requests'[i], now')
  BY <1>1 DEF Tables
<1> QED
  BY <1>1, <1>2 DEF Tables, Grows

LEMMA RequestChanged ==
  ASSUME Tables, NEW i \in DOMAIN requests, NEW r \in Request, GoodRequest(r, now),
         r.executeAfter = requests[i].executeAfter, Voted(requests[i]) => Voted(r),
         requests' = [requests EXCEPT ![i] = r], UNCHANGED <<guardians, now>>
  PROVE  Tables' /\ Grows
<1>1. /\ requests' \in Seq(Request)
      /\ DOMAIN requests' = DOMAIN requests
      /\ \A j \in DOMAIN requests : requests'[j] = IF j = i THEN r ELSE requests[j]
  BY DEF Tables
<1>2. \A j \in DOMAIN requests' : GoodRequest(requests'[j], now')
  BY <1>1 DEF Tables
<1>3. Grows
  BY <1>1 DEF Grows, IsDue
<1> QED
  BY <1>1, <1>2, <1>3 DEF Tables

LEMMA GuardiansGrow ==
  ASSUME Tables, guardians' \in Seq(GuardianRow), DOMAIN guardians \subseteq DOMAIN guardians',
         UNCHANGED <<requests, now>>
  PROVE  Tables' /\ Grows
BY DEF Tables, Grows

-----------------------------------------------------------------------------
(* The calls of the API, step by step.                                       *)

LEMMA FindFacts ==
  ASSUME Tables
  PROVE  /\ \A g \in Guardian : \A i \in FindGuardian(g) :
              i \in Nat /\ (i # 0 => i \in DOMAIN guardians)
         /\ \A i \in FindPendingRecovery :
              /\ i \in Nat
              /\ i # 0 => i \in DOMAIN requests /\ requests[i].status = "pending"
BY DEF Tables, FindGuardian, FindPendingRecovery, FindOne, Pending

(* A step that only moves the call on, having read.                          *)
LEMMA ReadStep ==
  ASSUME IInv, NEW c \in Call, NEW x, Goto(c, x), GoodCall(x, guardians, requests, now),
         UNCHANGED <<dbVars, now, chain, relayed, crashes>>
  PROVE  IInv' /\ Grows
<1>1. UNCHANGED <<guardians, requests, signer, now, chain, relayed, crashes>>
  BY DEF dbVars
<1>2. Tables' /\ Grows
  BY <1>1, TablesKept DEF IInv, Rest
<1>3. Calls'
  BY <1>1, <1>2, CallMoved DEF IInv, Goto
<1>4. Rest'
  BY <1>1 DEF IInv, Rest
<1> QED
  BY <1>2, <1>3, <1>4 DEF IInv

LEMMA ReturnStep ==
  ASSUME IInv, NEW c \in Call, Return(c), UNCHANGED <<dbVars, now, chain, relayed, crashes>>
  PROVE  IInv' /\ Grows
BY ReadStep, NoCallGood DEF Return

LEMMA NewCallStep ==
  ASSUME IInv, NEW c \in Call, NewCall(c)
  PROVE  IInv' /\ Grows
<1> USE DEF Step
<1>1. ASSUME NEW g \in Guardian, AddGuardian(c, g) PROVE IInv' /\ Grows
  <2>1. GoodCall([NoCall EXCEPT !.at = "saveGuardian", !.who = g], guardians, requests, now)
    BY NoCallGood DEF GoodCall, NoCall, CallRecord
  <2> QED
    BY <1>1, <2>1, ReadStep DEF AddGuardian
<1>2. ASSUME NEW g \in Guardian, RemoveGuardian(c, g) PROVE IInv' /\ Grows
  <2>1. PICK i \in FindGuardian(g) :
          IsActive(i) /\ Goto(c, [NoCall EXCEPT !.at = "revoke", !.ref = i])
    BY <1>2 DEF RemoveGuardian
  <2>2. i \in DOMAIN guardians /\ i \in Nat
    BY <2>1, FindFacts DEF IInv, IsActive
  <2>3. GoodCall([NoCall EXCEPT !.at = "revoke", !.ref = i], guardians, requests, now)
    BY <2>2, NoCallGood DEF GoodCall, NoCall, CallRecord
  <2> QED
    BY <1>2, <2>1, <2>3, ReadStep DEF RemoveGuardian
<1>3. ASSUME NEW g \in Guardian, SupportRecovery(c, g) PROVE IInv' /\ Grows
  <2>1. GoodCall([NoCall EXCEPT !.at = "findToSupport", !.who = g], guardians, requests, now)
    BY NoCallGood DEF GoodCall, NoCall, CallRecord
  <2> QED
    BY <1>3, <2>1, ReadStep DEF SupportRecovery
<1>4. ASSUME NEW g \in Guardian, NEW s \in Signer, InitiateRecovery(c, g, s) PROVE IInv' /\ Grows
  <2>1. GoodCall([NoCall EXCEPT !.at = "findPending", !.who = g, !.new = s],
                 guardians, requests, now)
    BY NoCallGood DEF GoodCall, NoCall, CallRecord
  <2> QED
    BY <1>4, <2>1, ReadStep DEF InitiateRecovery
<1>5. ASSUME ExecuteRecovery(c) PROVE IInv' /\ Grows
  <2>1. PICK i \in FindPendingRecovery :
          MayExecute(i) /\ Goto(c, [NoCall EXCEPT !.at = "send", !.ref = i])
    BY <1>5 DEF ExecuteRecovery
  <2>2. i \in Nat /\ i \in DOMAIN requests /\ IsDue(requests[i], now)
    BY <2>1, FindFacts DEF IInv, MayExecute, IsDue, Voted
  <2>3. GoodCall([NoCall EXCEPT !.at = "send", !.ref = i], guardians, requests, now)
    BY <2>2, NoCallGood DEF GoodCall, NoCall, CallRecord
  <2> QED
    BY <1>5, <2>1, <2>3, ReadStep DEF ExecuteRecovery
<1>6. ASSUME NEW a \in Guardian \cup Signer, CancelRecovery(c, a) PROVE IInv' /\ Grows
  <2>1. PICK i \in FindPendingRecovery :
          i # 0 /\ Goto(c, [NoCall EXCEPT !.at = "findCaller", !.who = a, !.ref = i])
    BY <1>6 DEF CancelRecovery
  <2>2. i \in Nat /\ i \in DOMAIN requests
    BY <2>1, FindFacts DEF IInv
  <2>3. GoodCall([NoCall EXCEPT !.at = "findCaller", !.who = a, !.ref = i],
                 guardians, requests, now)
    BY <2>2, NoCallGood DEF GoodCall, NoCall, CallRecord
  <2> QED
    BY <1>6, <2>1, <2>3, ReadStep DEF CancelRecovery
<1> QED
  BY <1>1, <1>2, <1>3, <1>4, <1>5, <1>6 DEF NewCall

LEMMA GuardianStep ==
  ASSUME IInv, NEW c \in Call, SaveGuardian(c) \/ Revoke(c)
  PROVE  IInv' /\ Grows
<1> /\ UNCHANGED <<requests, signer, now, chain, relayed, crashes>>
    /\ Return(c)
  BY DEF SaveGuardian, Revoke
<1>1. guardians' \in Seq(GuardianRow) /\ DOMAIN guardians \subseteq DOMAIN guardians'
  <2>0. guardians \in Seq(GuardianRow) /\ GoodCall(calls[c], guardians, requests, now)
    BY DEF IInv, Tables, Calls
  <2>1. CASE SaveGuardian(c)
    <3>1. [address |-> calls[c].who, status |-> "active"] \in GuardianRow
      BY <2>0, <2>1 DEF GoodCall, GuardianRow, SaveGuardian, At
    <3> QED
      BY <2>0, <2>1, <3>1, AppendProperties, LenProperties DEF SaveGuardian
  <2>2. CASE Revoke(c)
    <3>1. calls[c].ref \in DOMAIN guardians
      BY <2>0, <2>2 DEF GoodCall, Revoke, At
    <3> DEFINE row == guardians[calls[c].ref]
    <3>2. row \in GuardianRow
      BY <2>0, <3>1
    <3>2a. [row EXCEPT !.status = "revoked"] \in GuardianRow
      BY <3>2 DEF GuardianRow
    <3>3. guardians' = [guardians EXCEPT ![calls[c].ref] =
                          [guardians[calls[c].ref] EXCEPT !.status = "revoked"]]
      BY <2>2, <2>0 DEF Revoke
    <3> QED
      BY <2>0, <3>1, <3>2a, <3>3, ExceptSeq, LenProperties
  <2> QED
    BY <2>1, <2>2
<1>2. Tables' /\ Grows
  BY <1>1, GuardiansGrow DEF IInv
<1>3. Calls'
  BY <1>2, CallReturned DEF IInv
<1>4. Rest'
  BY DEF IInv, Rest
<1> QED
  BY <1>2, <1>3, <1>4 DEF IInv

LEMMA CheckNonePendingStep ==
  ASSUME IInv, NEW c \in Call, CheckNonePending(c)
  PROVE  IInv' /\ Grows
<1> DEFINE x == [calls[c] EXCEPT !.at = "saveRequest", !.ref = now + Delay]
<1>1. now + Delay \in Nat
  BY RecoveryAssumption DEF IInv, Rest
<1>2. GoodCall(x, guardians, requests, now)
  BY <1>1 DEF IInv, Calls, GoodCall, CallRecord, CheckNonePending, At, Step
<1> QED
  BY <1>2, ReadStep, ReturnStep DEF CheckNonePending

LEMMA FindToSupportStep ==
  ASSUME IInv, NEW c \in Call, FindToSupport(c)
  PROVE  IInv' /\ Grows
<1>1. PICK i \in FindPendingRecovery :
        IF i # 0 /\ calls[c].who \notin Supporters(i)
        THEN Goto(c, [calls[c] EXCEPT !.at = "support", !.ref = i, !.seen = requests[i].supporters])
        ELSE Return(c)
  BY DEF FindToSupport
<1>2. CASE i # 0 /\ calls[c].who \notin Supporters(i)
  <2> DEFINE x == [calls[c] EXCEPT !.at = "support", !.ref = i, !.seen = requests[i].supporters]
  <2>1. i \in Nat /\ i \in DOMAIN requests
    BY <1>2, FindFacts DEF IInv
  <2>2. requests[i].supporters \in Seq(Guardian) /\ GoodRequest(requests[i], now)
    BY <2>1, RequestFacts DEF IInv
  <2>3. GoodCall(calls[c], guardians, requests, now) /\ calls[c].at = "findToSupport"
    BY DEF IInv, Calls, FindToSupport, At
  <2>4. x \in CallRecord
    BY <2>1, <2>2, <2>3 DEF GoodCall, CallRecord, Step
  <2>5. /\ x.at = "support" /\ x.ref = i /\ x.who = calls[c].who
        /\ x.seen = requests[i].supporters
    BY <2>3 DEF GoodCall, CallRecord
  <2>6. x.who \in Guardian /\ x.who \notin Elements(x.seen)
    BY <1>2, <2>3, <2>5 DEF GoodCall, Supporters, Elements
  <2>7. GoodCall(x, guardians, requests, now)
    BY <2>1, <2>2, <2>4, <2>5, <2>6 DEF GoodCall, GoodRequest
  <2> QED
    BY <1>1, <1>2, <2>7, ReadStep DEF FindToSupport
<1>3. CASE ~(i # 0 /\ calls[c].who \notin Supporters(i))
  BY <1>1, <1>3, ReturnStep DEF FindToSupport
<1> QED
  BY <1>2, <1>3

LEMMA CheckCallerStep ==
  ASSUME IInv, NEW c \in Call, CheckCaller(c)
  PROVE  IInv' /\ Grows
<1>1. GoodCall([calls[c] EXCEPT !.at = "cancel"], guardians, requests, now)
  BY DEF IInv, Calls, GoodCall, CallRecord, CheckCaller, At, Step
<1> QED
  BY <1>1, ReadStep, ReturnStep DEF CheckCaller

(* The four steps that write a request. *)

LEMMA SaveRequestStep ==
  ASSUME IInv, NEW c \in Call, SaveRequest(c)
  PROVE  IInv' /\ Grows
<1> DEFINE r == NewRequest(calls[c])
<1>1. GoodCall(calls[c], guardians, requests, now) /\ calls[c].at = "saveRequest"
  BY DEF IInv, Calls, SaveRequest, At
<1>2. calls[c].who \in Guardian /\ calls[c].new \in Signer /\ calls[c].ref \in Nat
  BY <1>1 DEF GoodCall, CallRecord
<1>3. r \in Request /\ GoodRequest(r, now)
  BY <1>2 DEF NewRequest, Request, GoodRequest, Distinct
<1>4. Tables' /\ Grows
  BY <1>3, RequestAdded DEF IInv, SaveRequest
<1>5. Calls'
  BY <1>4, CallReturned DEF IInv, SaveRequest
<1>6. Rest'
  BY DEF IInv, Rest, SaveRequest
<1> QED
  BY <1>4, <1>5, <1>6 DEF IInv

(* A late write replaces the supporters by those seen and the caller: at     *)
(* least two, whatever others have written meanwhile.                        *)
LEMMA SupportWrites ==
  ASSUME NEW s \in Seq(Guardian), s # <<>>, Distinct(s), NEW g \in Guardian, g \notin Elements(s)
  PROVE  /\ Append(s, g) \in Seq(Guardian) /\ Append(s, g) # <<>>
         /\ Distinct(Append(s, g)) /\ Len(Append(s, g)) >= 2
<1>1. /\ Append(s, g) \in Seq(Guardian) /\ DOMAIN Append(s, g) = 1..Len(s) + 1
      /\ DOMAIN s = 1..Len(s) /\ Len(s) \in Nat /\ Len(Append(s, g)) = Len(s) + 1
      /\ Append(s, g)[Len(s) + 1] = g
      /\ \A j \in 1..Len(s) : Append(s, g)[j] = s[j]
  BY AppendProperties, LenProperties
<1>2. Len(s) # 0
  BY EmptySeq
<1>3. Distinct(Append(s, g))
  BY <1>1 DEF Distinct, Elements
<1> QED
  BY <1>1, <1>2, <1>3

LEMMA SupportStep ==
  ASSUME IInv, NEW c \in Call, Support(c)
  PROVE  IInv' /\ Grows
<1> DEFINE i == calls[c].ref
           old == requests[i]
           supporters == Append(calls[c].seen, calls[c].who)
           r == [old EXCEPT !.supporters = supporters]
<1>1. GoodCall(calls[c], guardians, requests, now) /\ calls[c].at = "support"
  BY DEF IInv, Calls, Support, At
<1>2. /\ i \in DOMAIN requests /\ calls[c].who \in Guardian /\ calls[c].seen \in Seq(Guardian)
      /\ calls[c].seen # <<>> /\ Distinct(calls[c].seen) /\ calls[c].who \notin Elements(calls[c].seen)
  BY <1>1 DEF GoodCall, CallRecord
<1>3. /\ supporters \in Seq(Guardian) /\ supporters # <<>>
      /\ Distinct(supporters) /\ Len(supporters) >= Quorum
  BY <1>2, SupportWrites, RecoveryAssumption
<1>4. old \in Request /\ GoodRequest(old, now)
  BY <1>2, RequestFacts DEF IInv
<1>5. /\ r \in Request /\ r.supporters = supporters
      /\ r.status = old.status /\ r.executeAfter = old.executeAfter
  BY <1>3, <1>4 DEF Request
<1>6. GoodRequest(r, now) /\ Voted(r)
  BY <1>3, <1>4, <1>5 DEF GoodRequest, IsDue, Voted
<1>7. requests' = [requests EXCEPT ![i] = r]
  BY DEF Support
<1>8. Tables' /\ Grows
  BY <1>2, <1>5, <1>6, <1>7, RequestChanged DEF IInv, Support
<1>9. Calls'
  BY <1>8, CallReturned DEF IInv, Support
<1>10. Rest'
  BY DEF IInv, Rest, Support
<1> QED
  BY <1>8, <1>9, <1>10 DEF IInv

LEMMA MarkExecutedStep ==
  ASSUME IInv, NEW c \in Call, MarkExecuted(c)
  PROVE  IInv' /\ Grows
<1> DEFINE i == calls[c].ref
           old == requests[i]
           r == [old EXCEPT !.status = "executed"]
           x == [calls[c] EXCEPT !.at = "changeSigner"]
<1>1. GoodCall(calls[c], guardians, requests, now) /\ calls[c].at = "markExecuted"
  BY DEF IInv, Calls, MarkExecuted, At
<1>2. i \in DOMAIN requests /\ IsDue(old, now)
  BY <1>1 DEF GoodCall
<1>3. old \in Request /\ GoodRequest(old, now)
  BY <1>2, RequestFacts DEF IInv
<1>4. /\ r \in Request /\ r.supporters = old.supporters /\ r.executeAfter = old.executeAfter
  BY <1>3 DEF Request
<1>5. GoodRequest(r, now) /\ Voted(r)
  BY <1>2, <1>3, <1>4 DEF GoodRequest, IsDue, Voted
<1>6. requests' = [requests EXCEPT ![i] = r]
  BY DEF MarkExecuted
<1>7. Tables' /\ Grows
  BY <1>2, <1>4, <1>5, <1>6, RequestChanged DEF IInv, MarkExecuted
<1>8. i \in DOMAIN requests'
  BY <1>2, <1>7 DEF Grows
<1>9. GoodCall(x, guardians', requests', now')
  BY <1>1, <1>8 DEF GoodCall, CallRecord, Step
<1>10. Calls'
  BY <1>7, <1>9, CallMoved DEF IInv, MarkExecuted, Goto
<1>11. Rest'
  BY DEF IInv, Rest, MarkExecuted
<1> QED
  BY <1>7, <1>10, <1>11 DEF IInv

LEMMA CancelStep ==
  ASSUME IInv, NEW c \in Call, Cancel(c)
  PROVE  IInv' /\ Grows
<1> DEFINE i == calls[c].ref
           old == requests[i]
           r == [old EXCEPT !.status = "cancelled"]
<1>1. i \in DOMAIN requests
  BY DEF IInv, Calls, Cancel, At, GoodCall
<1>2. old \in Request /\ GoodRequest(old, now)
  BY <1>1, RequestFacts DEF IInv
<1>3. /\ r \in Request /\ r.supporters = old.supporters
      /\ r.status = "cancelled" /\ r.executeAfter = old.executeAfter
  BY <1>2 DEF Request
<1>4. GoodRequest(r, now) /\ (Voted(old) => Voted(r))
  BY <1>2, <1>3 DEF GoodRequest, Voted
<1>5. requests' = [requests EXCEPT ![i] = r]
  BY DEF Cancel
<1>6. Tables' /\ Grows
  BY <1>1, <1>3, <1>4, <1>5, RequestChanged DEF IInv, Cancel
<1>7. Calls'
  BY <1>6, CallReturned DEF IInv, Cancel
<1>8. Rest'
  BY DEF IInv, Rest, Cancel
<1> QED
  BY <1>6, <1>7, <1>8 DEF IInv

-----------------------------------------------------------------------------
(* The steps that leave the tables alone. *)

LEMMA SendStep ==
  ASSUME IInv, NEW c \in Call, Send(c)
  PROVE  IInv' /\ Grows
<1> DEFINE x == [calls[c] EXCEPT !.at = "markExecuted"]
<1>1. UNCHANGED <<guardians, requests, signer, now, crashes>>
  BY DEF Send, dbVars
<1>2. Tables' /\ Grows
  BY <1>1, TablesKept DEF IInv, Rest
<1>3. GoodCall(calls[c], guardians, requests, now) /\ calls[c].at = "send"
  BY DEF IInv, Calls, Send, At
<1>4. GoodCall(x, guardians', requests', now')
  BY <1>1, <1>3 DEF GoodCall, CallRecord, Step
<1>5. Calls'
  BY <1>2, <1>4, CallMoved, CallReturned DEF IInv, Send, Goto
<1>6. /\ chain' \in [owner : Signer, proposed : Signer \cup {None}, ready : BOOLEAN]
      /\ relayed' \in 0..MaxRelayed
      /\ chain'.ready => chain'.proposed # None /\ relayed' < MaxRelayed
  <2>1. CASE chain.ready /\ chain' = Executed /\ relayed' = relayed + 1
    <3>1. chain.proposed \in Signer /\ relayed \in Nat /\ relayed < MaxRelayed /\ MaxRelayed \in Nat
      BY <2>1, RecoveryAssumption DEF IInv, Rest
    <3>2. Executed \in [owner : Signer, proposed : Signer \cup {None}, ready : BOOLEAN]
          /\ Executed.ready = FALSE
      BY <3>1 DEF IInv, Rest, Executed
    <3> QED
      BY <2>1, <3>1, <3>2
  <2>2. CASE UNCHANGED <<chain, relayed>>
    BY <2>2 DEF IInv, Rest
  <2> QED
    BY <2>1, <2>2 DEF Send
<1>7. Rest'
  BY <1>1, <1>6 DEF IInv, Rest
<1> QED
  BY <1>2, <1>5, <1>7 DEF IInv

LEMMA ChangeSignerStep ==
  ASSUME IInv, NEW c \in Call, ChangeSigner(c)
  PROVE  IInv' /\ Grows
<1>1. UNCHANGED <<guardians, requests, now, chain, relayed, crashes>>
  BY DEF ChangeSigner
<1>2. Tables' /\ Grows
  BY <1>1, TablesKept DEF IInv, Rest
<1>3. Calls'
  BY <1>2, CallReturned DEF IInv, ChangeSigner
<1>4. calls[c].ref \in DOMAIN requests
  BY DEF IInv, Calls, GoodCall, ChangeSigner, At
<1>5. requests[calls[c].ref].newSigner \in Signer
  BY <1>4, RequestFacts DEF IInv, Request
<1>6. Rest'
  BY <1>1, <1>5 DEF IInv, Rest, ChangeSigner
<1> QED
  BY <1>2, <1>3, <1>6 DEF IInv

LEMMA CrashStep ==
  ASSUME IInv, Crash
  PROVE  IInv' /\ Grows
<1>1. UNCHANGED <<guardians, requests, signer, now, chain, relayed>>
  BY DEF Crash, dbVars
<1>2. Tables' /\ Grows
  BY <1>1, TablesKept DEF IInv, Rest
<1>3. Calls'
  <2>1. \A c \in Call : GoodCall(NoCall, guardians', requests', now')
    BY NoCallGood
  <2> QED
    BY <2>1 DEF Calls, Crash, GoodCall
<1>4. Rest'
  BY <1>1, RecoveryAssumption DEF IInv, Rest, Crash
<1> QED
  BY <1>2, <1>3, <1>4 DEF IInv

LEMMA TickStep ==
  ASSUME IInv, Tick
  PROVE  IInv' /\ Grows
<1>1. UNCHANGED <<guardians, requests, signer, calls, chain, relayed, crashes>>
  BY DEF Tick, dbVars
<1>2. now' \in 0..MaxTime /\ now' >= now /\ now \in Nat
  BY RecoveryAssumption DEF IInv, Rest, Tick
<1>3. Tables' /\ Grows
  BY <1>1, <1>2, TablesKept DEF IInv
<1>4. Calls'
  BY <1>1, <1>3, CallsKept DEF IInv
<1>5. Rest'
  BY <1>1, <1>2 DEF IInv, Rest
<1> QED
  BY <1>3, <1>4, <1>5 DEF IInv

ChainStep == (\E s \in Signer : ProposeOnChain(s)) \/ ReadyOnChain \/ ExecuteOnChain \/ CancelOnChain

LEMMA ChainStepKeeps ==
  ASSUME IInv, ChainStep
  PROVE  IInv' /\ Grows
<1>1. UNCHANGED <<guardians, requests, signer, calls, now, relayed, crashes>>
  BY DEF ChainStep, ProposeOnChain, ReadyOnChain, ExecuteOnChain, CancelOnChain, dbVars
<1>2. Tables' /\ Grows
  BY <1>1, TablesKept DEF IInv, Rest
<1>3. Calls'
  BY <1>1, <1>2, CallsKept DEF IInv
<1>4. /\ chain' \in [owner : Signer, proposed : Signer \cup {None}, ready : BOOLEAN]
      /\ chain'.ready => chain'.proposed # None /\ relayed < MaxRelayed
  <2> USE RecoveryAssumption DEF IInv, Rest
  <2>1. CASE \E s \in Signer : ProposeOnChain(s)
    BY <2>1 DEF ProposeOnChain
  <2>2. CASE ReadyOnChain
    BY <2>2 DEF ReadyOnChain
  <2>3. CASE ExecuteOnChain
    BY <2>3 DEF ExecuteOnChain, Executed
  <2>4. CASE CancelOnChain
    BY <2>4 DEF CancelOnChain
  <2> QED
    BY <2>1, <2>2, <2>3, <2>4 DEF ChainStep
<1>5. Rest'
  BY <1>1, <1>4 DEF IInv, Rest
<1> QED
  BY <1>2, <1>3, <1>5 DEF IInv

-----------------------------------------------------------------------------
LEMMA InitInv == Init => IInv
<1> SUFFICES ASSUME Init PROVE IInv
  OBVIOUS
<1> USE RecoveryAssumption
<1>1. Tables
  BY DEF Init, Tables
<1>2. Calls
  BY NoCallGood DEF Init, Calls, GoodCall
<1>3. Rest
  BY DEF Init, Rest
<1> QED
  BY <1>1, <1>2, <1>3 DEF IInv

LEMMA StepKeepsInv == IInv /\ [Next]_vars => IInv' /\ Grows
<1> SUFFICES ASSUME IInv, [Next]_vars PROVE IInv' /\ Grows
  OBVIOUS
<1>1. ASSUME NEW c \in Call, CallStep(c) PROVE IInv' /\ Grows
  BY <1>1, GuardianStep, CheckNonePendingStep, SaveRequestStep, FindToSupportStep, SupportStep,
     SendStep, MarkExecutedStep, ChangeSignerStep, CheckCallerStep, CancelStep DEF CallStep
<1>2. CASE UNCHANGED vars
  <2>1. UNCHANGED <<guardians, requests, signer, calls, now, chain, relayed, crashes>>
    BY <1>2 DEF vars, dbVars
  <2>2. Tables' /\ Grows
    BY <2>1, TablesKept DEF IInv, Rest
  <2>3. Calls'
    BY <2>1, <2>2, CallsKept DEF IInv
  <2>4. Rest'
    BY <2>1 DEF IInv, Rest
  <2> QED
    BY <2>2, <2>3, <2>4 DEF IInv
<1> QED
  BY <1>1, <1>2, NewCallStep, CrashStep, TickStep, ChainStepKeeps DEF Next, ChainStep

(* The rows, the calls in flight and what is known of the contract keep      *)
(* their types: a call never works on a row that is not there.               *)
THEOREM TypeCorrect == Spec => []TypeOK
<1>1. IInv => TypeOK
  BY DEF IInv, Tables, Calls, Rest, TypeOK
<1> QED
  BY <1>1, InitInv, StepKeepsInv, PTL DEF Spec

(* The sets and the numbers of supporters agree, for nobody counts twice.    *)
VotesCount == \A i \in DOMAIN requests : HasQuorum(i) <=> Voted(requests[i])

LEMMA VotesAreGuardians == IInv => VotesCount
<1> SUFFICES ASSUME IInv, NEW i \in DOMAIN requests
             PROVE  HasQuorum(i) <=> Voted(requests[i])
  BY DEF VotesCount
<1> DEFINE s == requests[i].supporters
<1>1. /\ s \in Seq(Guardian) /\ Len(s) \in Nat /\ DOMAIN s = 1..Len(s)
      /\ s # <<>> /\ Distinct(s)
  BY RequestFacts, LenProperties DEF IInv, GoodRequest
<1>2. Supporters(i) = { s[j] : j \in DOMAIN s }
  BY DEF Supporters
<1>3. Len(s) # 0
  BY <1>1, EmptySeq
<1>4. IsFiniteSet(Supporters(i))
  <2>1. IsFiniteSet(DOMAIN s)
    BY <1>1, FS_Interval
  <2> DEFINE f == [j \in DOMAIN s |-> s[j]]
  <2>2. f \in Surjection(DOMAIN s, Supporters(i))
    BY <1>2 DEF Surjection
  <2> QED
    BY <2>1, <2>2, FS_Surjection
<1>5. CASE Len(s) = 1
  <2>1. Supporters(i) = {s[1]}
    BY <1>1, <1>2, <1>5
  <2>2. Cardinality(Supporters(i)) = 1
    BY <2>1, FS_Singleton
  <2> QED
    BY <1>5, <2>2, RecoveryAssumption DEF HasQuorum, Voted
<1>6. CASE Len(s) # 1
  <2>1. Len(s) >= 2
    <3> DEFINE n == Len(s)
    <3>1. n \in Nat /\ n # 0 /\ n # 1
      BY <1>1, <1>3, <1>6
    <3> HIDE DEF n
    <3>2. n >= 2
      BY <3>1
    <3> QED
      BY <3>2 DEF n
  <2>2. s[1] \in Supporters(i) /\ s[2] \in Supporters(i) /\ s[1] # s[2]
    BY <1>1, <1>2, <2>1 DEF Distinct
  <2>3. Cardinality(Supporters(i)) \in Nat
    BY <1>4, FS_CardinalityType
  <2>4. Cardinality(Supporters(i)) # 0
    BY <1>4, <2>2, FS_EmptySet
  <2>5. Cardinality(Supporters(i)) # 1
    BY <1>4, <2>2, FS_Singleton
  <2> QED
    BY <2>1, <2>3, <2>4, <2>5, RecoveryAssumption DEF HasQuorum, Voted
<1> QED
  BY <1>5, <1>6

(* A request is only ever marked executed with two different guardians       *)
(* behind it and its delay over.                                             *)
THEOREM NeverExecutedEarly == Spec => []ExecutedWasDue
<1>1. IInv => ExecutedWasDue
  <2> SUFFICES ASSUME IInv, NEW i \in DOMAIN requests, requests[i].status = "executed"
               PROVE  Cardinality(Supporters(i)) >= Quorum /\ now >= requests[i].executeAfter
    BY DEF ExecutedWasDue
  <2>1. IsDue(requests[i], now)
    BY RequestFacts DEF IInv, GoodRequest
  <2>2. HasQuorum(i)
    BY <2>1, VotesAreGuardians DEF IsDue, VotesCount
  <2> QED
    BY <2>1, <2>2 DEF IsDue, HasQuorum
<1> QED
  BY <1>1, InitInv, StepKeepsInv, PTL DEF Spec

(* However late the write of a support is, it leaves a request that had its  *)
(* quorum with a quorum.                                                     *)
THEOREM QuorumNeverLost == Spec => QuorumKept
<1> DEFINE Kept == \A i \in DOMAIN requests : HasQuorum(i) => HasQuorum(i)'
<1>1. (IInv => VotesCount)'
  BY VotesAreGuardians, PTL
<1>2. IInv /\ [Next]_vars => IInv' /\ [Kept]_vars
  <2> SUFFICES ASSUME IInv, [Next]_vars, NEW i \in DOMAIN requests, HasQuorum(i)
               PROVE  IInv' /\ HasQuorum(i)'
    BY StepKeepsInv
  <2>1. IInv' /\ Grows
    BY StepKeepsInv
  <2>2. i \in DOMAIN requests' /\ Voted(requests'[i])
    BY <2>1, VotesAreGuardians DEF Grows, VotesCount
  <2>3. VotesCount'
    BY <1>1, <2>1
  <2> QED
    BY <2>1, <2>2, <2>3 DEF VotesCount
<1> QED
  BY <1>2, InitInv, PTL DEF Spec, QuorumKept

-----------------------------------------------------------------------------
(* The executions of the backend: each is counted once, first by the call    *)
(* that has its confirmation and then by the row that call marks.            *)
ExecutedRows == { i \in DOMAIN requests : requests[i].status = "executed" }
Marking == { c \in Call : At(c, "markExecuted") }
Counted == Cardinality(ExecutedRows) + Cardinality(Marking) =< relayed

LEMMA SetsFinite ==
  ASSUME IInv
  PROVE  /\ IsFiniteSet(ExecutedRows) /\ Cardinality(ExecutedRows) \in Nat
         /\ IsFiniteSet(Marking) /\ Cardinality(Marking) \in Nat
<1>1. DOMAIN requests = 1..Len(requests) /\ Len(requests) \in Nat
  BY LenProperties DEF IInv, Tables
<1>2. IsFiniteSet(DOMAIN requests)
  BY <1>1, FS_Interval
<1>3. IsFiniteSet(ExecutedRows) /\ IsFiniteSet(Marking)
  BY <1>2, FS_Subset, RecoveryAssumption DEF ExecutedRows, Marking
<1> QED
  BY <1>3, FS_CardinalityType

LEMMA OneMore ==
  ASSUME NEW S, IsFiniteSet(S), NEW x
  PROVE  /\ IsFiniteSet(S \cup {x})
         /\ Cardinality(S \cup {x}) \in Nat
         /\ Cardinality(S \cup {x}) =< Cardinality(S) + 1
<1>1. /\ IsFiniteSet(S \cup {x})
      /\ Cardinality(S \cup {x}) = IF x \in S THEN Cardinality(S) ELSE Cardinality(S) + 1
  BY FS_AddElement
<1>2. Cardinality(S) \in Nat
  BY FS_CardinalityType
<1> QED
  BY <1>1, <1>2

(* A step that neither marks a row nor relays anything. *)
LEMMA FewerCounted ==
  ASSUME IInv, Counted, ExecutedRows' \subseteq ExecutedRows, Marking' \subseteq Marking,
         relayed' = relayed
  PROVE  Counted'
<1>1. /\ Cardinality(ExecutedRows') =< Cardinality(ExecutedRows)
      /\ Cardinality(Marking') =< Cardinality(Marking)
      /\ Cardinality(ExecutedRows') \in Nat /\ Cardinality(Marking') \in Nat
  BY SetsFinite, FS_Subset, FS_CardinalityType
<1> QED
  BY <1>1, SetsFinite DEF Counted, IInv, Rest

LEMMA MarkingMoved ==
  ASSUME IInv, NEW c \in Call, NEW x, Goto(c, x), x.at # "markExecuted"
  PROVE  Marking' = Marking \ {c}
BY DEF IInv, Calls, Goto, Marking, At

LEMMA RowsUnmarked ==
  ASSUME IInv, NEW i \in DOMAIN requests, NEW r \in Request,
         requests' = [requests EXCEPT ![i] = r],
         r.status = "executed" => requests[i].status = "executed"
  PROVE  ExecutedRows' \subseteq ExecutedRows
BY DEF IInv, Tables, ExecutedRows

LEMMA StepCounts == IInv /\ Counted /\ [Next]_vars => Counted'
<1> SUFFICES ASSUME IInv, Counted, [Next]_vars PROVE Counted'
  OBVIOUS
<1> USE DEF dbVars
<1>1. ASSUME NEW c \in Call, NewCall(c) PROVE Counted'
  <2>1. ExecutedRows' = ExecutedRows /\ relayed' = relayed
    BY <1>1 DEF NewCall, AddGuardian, RemoveGuardian, SupportRecovery, InitiateRecovery,
       ExecuteRecovery, CancelRecovery, ExecutedRows
  <2>2. Marking' \subseteq Marking
    <3>1. calls \in [Call -> CallRecord]
      BY DEF IInv, Calls
    <3>2. calls'[c].at # "markExecuted" /\ \A d \in Call : d # c => calls'[d] = calls[d]
      <4>1. CASE \E g \in Guardian : AddGuardian(c, g) \/ RemoveGuardian(c, g) \/ SupportRecovery(c, g)
        BY <3>1, <4>1 DEF AddGuardian, RemoveGuardian, SupportRecovery, NoCall, Goto
      <4>2. CASE \E g \in Guardian, s \in Signer : InitiateRecovery(c, g, s)
        BY <3>1, <4>2 DEF InitiateRecovery, NoCall, Goto
      <4>3. CASE ExecuteRecovery(c)
        BY <3>1, <4>3 DEF ExecuteRecovery, NoCall, Goto
      <4>4. CASE \E a \in Guardian \cup Signer : CancelRecovery(c, a)
        BY <3>1, <4>4 DEF CancelRecovery, NoCall, Goto
      <4> QED
        BY <1>1, <4>1, <4>2, <4>3, <4>4 DEF NewCall
    <3> QED
      BY <3>1, <3>2 DEF Marking, At
  <2> QED
    BY <2>1, <2>2, FewerCounted
<1>2. ASSUME NEW c \in Call, SaveGuardian(c) \/ Revoke(c) \/ ChangeSigner(c) PROVE Counted'
  BY <1>2, MarkingMoved, FewerCounted
     DEF SaveGuardian, Revoke, ChangeSigner, Return, NoCall, ExecutedRows
<1>3. ASSUME NEW c \in Call, CheckNonePending(c) \/ FindToSupport(c) \/ CheckCaller(c)
      PROVE  Counted'
  <2>1. ExecutedRows' = ExecutedRows /\ relayed' = relayed
    BY <1>3 DEF CheckNonePending, FindToSupport, CheckCaller, ExecutedRows
  <2>2. calls \in [Call -> CallRecord] /\ calls[c] \in CallRecord
    BY DEF IInv, Calls
  <2>3. /\ [calls[c] EXCEPT !.at = "saveRequest", !.ref = now + Delay].at # "markExecuted"
        /\ [calls[c] EXCEPT !.at = "cancel"].at # "markExecuted"
        /\ NoCall.at # "markExecuted"
        /\ \A i : [calls[c] EXCEPT !.at = "support", !.ref = i,
                                  !.seen = requests[i].supporters].at # "markExecuted"
    BY <2>2 DEF CallRecord, NoCall
  <2>4. Marking' = Marking \ {c}
    <3>1. CASE CheckNonePending(c)
      BY <2>3, <3>1, MarkingMoved DEF CheckNonePending, Return
    <3>2. CASE FindToSupport(c)
      BY <2>3, <3>2, MarkingMoved DEF FindToSupport, Return
    <3>3. CASE CheckCaller(c)
      BY <2>3, <3>3, MarkingMoved DEF CheckCaller, Return
    <3> QED
      BY <1>3, <3>1, <3>2, <3>3
  <2> QED
    BY <2>1, <2>4, FewerCounted
<1>4. ASSUME NEW c \in Call, SaveRequest(c) PROVE Counted'
  <2>1. Marking' \subseteq Marking /\ relayed' = relayed
    BY <1>4, MarkingMoved DEF SaveRequest, Return, NoCall
  <2>2. ExecutedRows' = ExecutedRows
    <3>1. NewRequest(calls[c]).status = "pending"
      BY DEF NewRequest
    <3>2. /\ DOMAIN requests' = DOMAIN requests \cup {Len(requests) + 1}
          /\ requests'[Len(requests) + 1].status = "pending"
          /\ \A i \in DOMAIN requests : requests'[i] = requests[i]
      BY <1>4, <3>1 DEF SaveRequest, IInv, Tables
    <3> QED
      BY <3>2 DEF ExecutedRows
  <2> QED
    BY <2>1, <2>2, FewerCounted
<1>5. ASSUME NEW c \in Call, Support(c) PROVE Counted'
  <2>1. Marking' \subseteq Marking /\ relayed' = relayed
    BY <1>5, MarkingMoved DEF Support, Return, NoCall
  <2>2. calls[c].ref \in DOMAIN requests /\ requests[calls[c].ref] \in Request
    BY <1>5 DEF Support, At, IInv, Calls, GoodCall, Tables
  <2>3. /\ DOMAIN requests' = DOMAIN requests
        /\ \A i \in DOMAIN requests : requests'[i].status = requests[i].status
    <3>1. \A i \in DOMAIN requests : requests[i] \in Request
      BY RequestFacts DEF IInv
    <3> QED
      BY <1>5, <2>2, <3>1 DEF Support, Request, IInv, Tables
  <2>4. ExecutedRows' = ExecutedRows
    BY <2>3 DEF ExecutedRows
  <2> QED
    BY <2>1, <2>4, FewerCounted
<1>6. ASSUME NEW c \in Call, Cancel(c) PROVE Counted'
  <2>1. Marking' \subseteq Marking /\ relayed' = relayed
    BY <1>6, MarkingMoved DEF Cancel, Return, NoCall
  <2>2. calls[c].ref \in DOMAIN requests /\ requests[calls[c].ref] \in Request
    BY <1>6 DEF Cancel, At, IInv, Calls, GoodCall, Tables
  <2> DEFINE r == [requests[calls[c].ref] EXCEPT !.status = "cancelled"]
  <2>3. r \in Request /\ r.status = "cancelled"
    BY <2>2 DEF Request
  <2>4. requests' = [requests EXCEPT ![calls[c].ref] = r]
    BY <1>6 DEF Cancel
  <2>5. ExecutedRows' \subseteq ExecutedRows
    BY <2>2, <2>3, <2>4, RowsUnmarked
  <2> QED
    BY <2>1, <2>5, FewerCounted
<1>7. ASSUME NEW c \in Call, Send(c) PROVE Counted'
  <2>1. ExecutedRows' = ExecutedRows
    BY <1>7 DEF Send, ExecutedRows
  <2>2. CASE relayed' = relayed
    <3>1. Return(c)
      BY <1>7, <2>2 DEF Send, IInv, Rest
    <3> QED
      BY <2>1, <2>2, <3>1, MarkingMoved, FewerCounted DEF Return, NoCall
  <2>3. CASE relayed' = relayed + 1
    <3>1. Marking' \subseteq Marking \cup {c}
      BY <1>7 DEF Send, Return, Goto, Marking, At, IInv, Calls
    <3>2. /\ Cardinality(Marking') =< Cardinality(Marking) + 1
          /\ Cardinality(Marking') \in Nat
      <4>1. /\ IsFiniteSet(Marking \cup {c})
            /\ Cardinality(Marking \cup {c}) =< Cardinality(Marking) + 1
        BY SetsFinite, OneMore
      <4>2. /\ IsFiniteSet(Marking')
            /\ Cardinality(Marking') =< Cardinality(Marking \cup {c})
        BY <3>1, <4>1, FS_Subset
      <4> QED
        BY <4>1, <4>2, SetsFinite, FS_CardinalityType
    <3> QED
      BY <2>1, <2>3, <3>2, SetsFinite DEF Counted, IInv, Rest
  <2> QED
    BY <1>7, <2>2, <2>3 DEF Send
<1>8. ASSUME NEW c \in Call, MarkExecuted(c) PROVE Counted'
  <2> DEFINE i == calls[c].ref
  <2>1. c \in Marking /\ i \in DOMAIN requests /\ calls[c] \in CallRecord
    BY <1>8 DEF MarkExecuted, Marking, At, IInv, Calls, GoodCall
  <2>2. Marking' = Marking \ {c} /\ relayed' = relayed
    BY <1>8, <2>1, MarkingMoved DEF MarkExecuted, CallRecord
  <2>3. ExecutedRows' = ExecutedRows \cup {i}
    <3>1. requests[i] \in Request /\ requests \in Seq(Request)
      BY <2>1 DEF IInv, Tables
    <3>2. /\ DOMAIN requests' = DOMAIN requests
          /\ requests'[i].status = "executed"
          /\ \A j \in DOMAIN requests : j # i => requests'[j] = requests[j]
      BY <1>8, <2>1, <3>1 DEF MarkExecuted, Request
    <3> QED
      BY <2>1, <3>2 DEF ExecutedRows
  <2>4. Cardinality(Marking') = Cardinality(Marking) - 1
    BY <2>1, <2>2, SetsFinite, FS_RemoveElement
  <2>5. /\ Cardinality(ExecutedRows') =< Cardinality(ExecutedRows) + 1
        /\ Cardinality(ExecutedRows') \in Nat
    BY <2>3, SetsFinite, OneMore
  <2> QED
    BY <2>2, <2>4, <2>5, SetsFinite DEF Counted, IInv, Rest
<1>9. ASSUME Crash PROVE Counted'
  <2>1. Marking' = {} /\ ExecutedRows' = ExecutedRows /\ relayed' = relayed
    BY <1>9 DEF Crash, Marking, At, NoCall, ExecutedRows
  <2> QED
    BY <2>1, FewerCounted
<1>10. ASSUME Tick \/ ChainStep \/ UNCHANGED vars PROVE Counted'
  <2>1. UNCHANGED <<requests, calls, relayed>>
    BY <1>10 DEF Tick, ChainStep, ProposeOnChain, ReadyOnChain, ExecuteOnChain, CancelOnChain, vars
  <2> QED
    BY <2>1, FewerCounted DEF ExecutedRows, Marking, At
<1> QED
  BY <1>1, <1>2, <1>3, <1>4, <1>5, <1>6, <1>7, <1>8, <1>9, <1>10 DEF Next, CallStep, ChainStep

(* No row is marked executed without an execution on chain of its own.       *)
THEOREM EveryExecutionBacked == Spec => []ExecutionsBacked
<1>1. Init => Counted
  <2> SUFFICES ASSUME Init PROVE Counted
    OBVIOUS
  <2>1. ExecutedRows = {} /\ Marking = {} /\ relayed = 0
    BY DEF Init, ExecutedRows, Marking, At, NoCall
  <2> QED
    BY <2>1, FS_EmptySet DEF Counted
<1>2. IInv /\ Counted => ExecutionsBacked
  BY SetsFinite DEF Counted, ExecutionsBacked, ExecutedRows, IInv, Rest
<1> QED
  BY <1>1, <1>2, InitInv, StepKeepsInv, StepCounts, PTL DEF Spec
=============================================================================

--------------------------- MODULE SsoCodesProofs ---------------------------
(***************************************************************************)
(* Proofs about SsoCodes for every cap, lifetime and number of calls.       *)
(***************************************************************************)
EXTENDS SsoCodes, FiniteSetTheorems, NaturalsInduction, TLAPS

(* Every code is kept as it was minted, under a number of its own, and what  *)
(* was presented is gone.                                                    *)
CodesInv ==
  /\ IsFiniteSet(codes) /\ Cardinality(codes) =< MaxCodes
  /\ \A e \in codes : /\ e.id \in DOMAIN minted /\ e.redirect = minted[e.id]
                      /\ e.id \notin presented
                      /\ e.expiresAt =< now + Ttl
  /\ \A e, f \in codes : e.id = f.id => e = f

ExchangedInv ==
  \A x \in exchanged : x.id \in DOMAIN minted /\ ~x.again /\ minted[x.id] = x.redirect

IInv == TypeOK /\ presented \subseteq DOMAIN minted /\ CodesInv /\ ExchangedInv

-----------------------------------------------------------------------------
(* Facts about Newest, the codes an eviction keeps.                          *)

LEMMA LeastNumber ==
  ASSUME NEW T \in SUBSET Nat, T # {}
  PROVE  \E m \in T : \A k \in T : m =< k
<1>1. PICK m \in T : \A k \in T : ~(<<k, m>> \in OpToRel(<, Nat))
  BY NatLessThanWellFounded, WFMin
<1>2. ASSUME NEW k \in T PROVE m =< k
  <2>1. k \in Nat /\ m \in Nat
    OBVIOUS
  <2>2. ~(<<k, m>> \in OpToRel(<, Nat))
    BY <1>1
  <2>3. ~(k < m)
    BY <2>1, <2>2 DEF OpToRel
  <2> QED
    BY <2>1, <2>3
<1> QED
  BY <1>2

Newer(e, S) == { f \in S : f.id > e.id }

(* At most n codes are kept: all but the oldest of them are newer than it.   *)
LEMMA NewestBounded ==
  ASSUME NEW S \in SUBSET Entry, IsFiniteSet(S), NEW n \in Nat,
         \A e, f \in S : e.id = f.id => e = f
  PROVE  /\ Newest(n, S) \subseteq S /\ IsFiniteSet(Newest(n, S))
         /\ Cardinality(Newest(n, S)) =< n
<1> DEFINE T == Newest(n, S)
<1>1. T \subseteq S
  BY DEF Newest
<1>2. IsFiniteSet(T)
  BY <1>1, FS_Subset
<1>3. CASE T = {}
  BY <1>1, <1>2, <1>3, FS_EmptySet
<1>4. CASE T # {}
  <2> DEFINE ids == { e.id : e \in T }
  <2>1. ids \in SUBSET Nat /\ ids # {}
    BY <1>1, <1>4 DEF Entry
  <2>2. PICK m \in ids : \A k \in ids : m =< k
    BY <2>1, LeastNumber
  <2>3. PICK e \in T : e.id = m
    BY <2>2
  <2>4. Newer(e, S) \subseteq S
    BY DEF Newer
  <2>5. IsFiniteSet(Newer(e, S)) /\ Cardinality(Newer(e, S)) \in Nat
    BY <2>4, FS_Subset, FS_CardinalityType
  <2>6. Cardinality(Newer(e, S)) < n
    BY <2>3 DEF Newest, Newer
  <2>7. T \subseteq Newer(e, S) \cup {e}
    <3> SUFFICES ASSUME NEW f \in T, f # e
                 PROVE  f.id > e.id
      BY <1>1 DEF Newer
    <3>1. e.id =< f.id /\ e.id # f.id
      BY <1>1, <2>2, <2>3
    <3>2. e.id \in Nat /\ f.id \in Nat
      BY <1>1 DEF Entry
    <3> QED
      BY <3>1, <3>2
  <2>8. /\ IsFiniteSet(Newer(e, S) \cup {e})
        /\ Cardinality(Newer(e, S) \cup {e}) =
             IF e \in Newer(e, S) THEN Cardinality(Newer(e, S)) ELSE Cardinality(Newer(e, S)) + 1
    BY <2>5, FS_AddElement
  <2>9. Cardinality(T) =< Cardinality(Newer(e, S) \cup {e}) /\ Cardinality(T) \in Nat
    BY <1>2, <2>7, <2>8, FS_Subset, FS_CardinalityType
  <2> QED
    BY <1>1, <1>2, <2>5, <2>6, <2>8, <2>9
<1> QED
  BY <1>3, <1>4

(* A code is only evicted when n newer ones are kept.                        *)
LEMMA NewestFull ==
  ASSUME NEW S \in SUBSET Entry, IsFiniteSet(S), NEW n \in Nat,
         \A e, f \in S : e.id = f.id => e = f,
         NEW gone \in S \ Newest(n, S)
  PROVE  /\ Cardinality(Newest(n, S)) = n
         /\ \A e \in Newest(n, S) : e.id > gone.id
<1> DEFINE T == Newest(n, S)
           Dropped == S \ T
           N == Cardinality(Newer(gone, S))
<1>1. /\ T \subseteq S /\ IsFiniteSet(T) /\ Cardinality(T) =< n /\ Cardinality(T) \in Nat
  BY NewestBounded, FS_CardinalityType
<1>2. \A e \in S : e.id \in Nat
  BY DEF Entry
<1>3. \A e \in S : IsFiniteSet(Newer(e, S)) /\ Cardinality(Newer(e, S)) \in Nat
  <2> SUFFICES ASSUME NEW e \in S
               PROVE  IsFiniteSet(Newer(e, S)) /\ Cardinality(Newer(e, S)) \in Nat
    OBVIOUS
  <2>1. Newer(e, S) \subseteq S
    BY DEF Newer
  <2> QED
    BY <2>1, FS_Subset, FS_CardinalityType
<1>4. \A e \in S : e \in T <=> Cardinality(Newer(e, S)) < n
  BY DEF Newest, Newer
<1>5. ASSUME NEW e \in T PROVE e.id > gone.id
  <2>1. CASE e.id =< gone.id
    <3>1. Newer(gone, S) \subseteq Newer(e, S)
      BY <1>1, <1>2, <2>1 DEF Newer
    <3>2. Cardinality(Newer(gone, S)) =< Cardinality(Newer(e, S))
      BY <1>1, <1>3, <3>1, FS_Subset
    <3>3. Cardinality(Newer(e, S)) < n /\ ~(Cardinality(Newer(gone, S)) < n)
      BY <1>1, <1>4
    <3>4. Cardinality(Newer(e, S)) \in Nat /\ Cardinality(Newer(gone, S)) \in Nat
      BY <1>1, <1>3
    <3> QED
      BY <3>2, <3>3, <3>4
  <2> QED
    BY <1>1, <1>2, <2>1
(* The codes newer than the newest of those dropped are all kept, and there  *)
(* are at least n of them.                                                   *)
<1>6. PICK m \in Dropped : \A e \in Dropped : Cardinality(Newer(m, S)) =< Cardinality(Newer(e, S))
  <2> DEFINE counts == { Cardinality(Newer(e, S)) : e \in Dropped }
  <2>1. counts \in SUBSET Nat /\ counts # {}
    BY <1>3
  <2>2. PICK k \in counts : \A j \in counts : k =< j
    BY <2>1, LeastNumber
  <2> QED
    BY <2>2
<1>7. Newer(m, S) \subseteq T
  <2> SUFFICES ASSUME NEW f \in S, f.id > m.id, f \notin T
               PROVE  FALSE
    BY DEF Newer
  <2>1. Newer(f, S) \cup {f} \subseteq Newer(m, S)
    BY <1>2 DEF Newer
  <2>2. f \notin Newer(f, S)
    BY <1>2 DEF Newer
  <2>3. Cardinality(Newer(f, S) \cup {f}) = Cardinality(Newer(f, S)) + 1
    BY <1>3, <2>2, FS_AddElement
  <2>4. Cardinality(Newer(f, S) \cup {f}) =< Cardinality(Newer(m, S))
    BY <1>3, <2>1, FS_Subset
  <2>5. Cardinality(Newer(m, S)) =< Cardinality(Newer(f, S))
    BY <1>6
  <2> QED
    BY <1>3, <2>3, <2>4, <2>5
<1>8. Cardinality(Newer(m, S)) =< Cardinality(T)
  BY <1>1, <1>7, FS_Subset
<1>9. ~(Cardinality(Newer(m, S)) < n)
  BY <1>4, <1>6
<1>10. Cardinality(T) = n
  BY <1>1, <1>3, <1>6, <1>8, <1>9
<1> QED
  BY <1>5, <1>10

-----------------------------------------------------------------------------
(* One step. *)

LEMMA SweptFacts ==
  ASSUME IInv
  PROVE  /\ Swept \in SUBSET Entry /\ IsFiniteSet(Swept) /\ Swept \subseteq codes
         /\ Cardinality(Swept) =< Cardinality(codes)
         /\ \A e, f \in Swept : e.id = f.id => e = f
BY FS_Subset DEF IInv, CodesInv, TypeOK, Swept

LEMMA EvictedFacts ==
  ASSUME IInv
  PROVE  /\ Evicted \subseteq codes /\ IsFiniteSet(Evicted)
         /\ Cardinality(Evicted) \in Nat /\ Cardinality(Evicted) < MaxCodes
<1>1. IsFiniteSet(codes) /\ Cardinality(codes) \in Nat
  BY FS_CardinalityType DEF IInv, CodesInv
<1>2. MaxCodes - 1 \in Nat
  BY SsoAssumption
<1>3. CASE Cardinality(codes) < MaxCodes
  BY <1>1, <1>3 DEF Evicted
<1>4. CASE ~(Cardinality(codes) < MaxCodes)
  <2>1. Evicted = Newest(MaxCodes - 1, Swept)
    BY <1>4 DEF Evicted
  <2>2. /\ Evicted \subseteq Swept /\ IsFiniteSet(Evicted)
        /\ Cardinality(Evicted) =< MaxCodes - 1
    BY <1>2, <2>1, SweptFacts, NewestBounded
  <2>3. Evicted \subseteq codes /\ Cardinality(Evicted) \in Nat
    BY <2>2, SweptFacts, FS_CardinalityType
  <2>4. Cardinality(Evicted) < MaxCodes
    BY <2>2, <2>3, SsoAssumption
  <2> QED
    BY <2>2, <2>3, <2>4
<1> QED
  BY <1>3, <1>4

(* The codes only become fewer. *)
LEMMA FewerCodes ==
  ASSUME IInv, codes' \subseteq codes, UNCHANGED <<minted, presented, exchanged>>,
         calls' \in [Call -> SUBSET Redirect], now' \in Nat, now' >= now
  PROVE  IInv'
<1>1. IsFiniteSet(codes') /\ Cardinality(codes') =< MaxCodes
  <2>1. /\ IsFiniteSet(codes') /\ Cardinality(codes') =< Cardinality(codes)
        /\ Cardinality(codes') \in Nat /\ Cardinality(codes) \in Nat
    BY FS_Subset, FS_CardinalityType DEF IInv, CodesInv
  <2> QED
    BY <2>1, SsoAssumption DEF IInv, CodesInv
<1>2. TypeOK'
  BY <1>1 DEF IInv, TypeOK
<1>3. \A e \in codes' : e.expiresAt =< now' + Ttl
  <2> SUFFICES ASSUME NEW e \in codes PROVE e.expiresAt =< now' + Ttl
    OBVIOUS
  <2>1. e.expiresAt \in Nat /\ e.expiresAt =< now + Ttl /\ now \in Nat
    BY DEF IInv, CodesInv, TypeOK, Entry
  <2> QED
    BY <2>1, SsoAssumption
<1>4. CodesInv'
  BY <1>1, <1>3 DEF IInv, CodesInv
<1> QED
  BY <1>2, <1>4 DEF IInv, ExchangedInv

LEMMA MintStep ==
  ASSUME IInv, NEW c \in Call, Mint(c)
  PROVE  IInv'
<1>1. PICK r \in calls[c] :
        /\ minted' = Append(minted, r)
        /\ codes' = Evicted \cup {[id |-> Len(minted) + 1, redirect |-> r, expiresAt |-> now + Ttl]}
  BY DEF Mint
<1> DEFINE new == [id |-> Len(minted) + 1, redirect |-> r, expiresAt |-> now + Ttl]
<1>2. r \in Redirect /\ minted \in Seq(Redirect) /\ now \in Nat /\ calls \in [Call -> SUBSET Redirect]
  BY DEF IInv, TypeOK
<1>3. /\ minted' \in Seq(Redirect) /\ Len(minted) \in Nat
      /\ DOMAIN minted = 1..Len(minted) /\ DOMAIN minted' = 1..(Len(minted) + 1)
      /\ minted'[Len(minted) + 1] = r
      /\ \A i \in DOMAIN minted : minted'[i] = minted[i]
  BY <1>1, <1>2
<1>4. new \in Entry
  BY <1>2, <1>3, SsoAssumption DEF Entry
<1>5. IsFiniteSet(codes') /\ Cardinality(codes') =< MaxCodes
  <2>1. /\ IsFiniteSet(codes')
        /\ Cardinality(codes') = IF new \in Evicted THEN Cardinality(Evicted) ELSE Cardinality(Evicted) + 1
    BY <1>1, EvictedFacts, FS_AddElement
  <2> QED
    BY <2>1, EvictedFacts, SsoAssumption
<1>6. UNCHANGED <<now, presented, exchanged>> /\ calls' = [calls EXCEPT ![c] = {}]
  BY DEF Mint
<1>7. TypeOK'
  <2>1. codes' \subseteq Entry
    BY <1>1, <1>4, EvictedFacts DEF IInv, TypeOK
  <2>2. calls' \in [Call -> SUBSET Redirect]
    BY <1>2, <1>6
  <2> QED
    BY <1>3, <1>5, <1>6, <2>1, <2>2 DEF IInv, TypeOK
<1>8. \A e \in Evicted : /\ e.id \in DOMAIN minted /\ e.redirect = minted[e.id]
                         /\ e.id \notin presented /\ e.expiresAt =< now + Ttl
  BY EvictedFacts DEF IInv, CodesInv
<1>9. CodesInv'
  <2>1. ASSUME NEW e \in codes'
        PROVE  /\ e.id \in DOMAIN minted' /\ e.redirect = minted'[e.id]
               /\ e.id \notin presented' /\ e.expiresAt =< now' + Ttl
    <3>1. CASE e \in Evicted
      BY <1>3, <1>6, <1>8, <3>1
    <3>2. CASE e = new
      <4>1. e.id = Len(minted) + 1 /\ e.redirect = r /\ e.expiresAt = now + Ttl
        BY <3>2
      <4>2. Len(minted) + 1 \notin presented
        BY <1>3 DEF IInv
      <4>3. now + Ttl =< now' + Ttl
        BY <1>2, <1>6, SsoAssumption
      <4> QED
        BY <1>3, <1>6, <4>1, <4>2, <4>3
    <3> QED
      BY <1>1, <3>1, <3>2
  <2>2. ASSUME NEW e \in codes', NEW f \in codes', e.id = f.id
        PROVE  e = f
    <3>1. \A g \in Evicted : g.id # Len(minted) + 1
      BY <1>3, <1>8
    <3> QED
      BY <1>1, <2>2, <3>1, EvictedFacts DEF IInv, CodesInv
  <2> QED
    BY <1>5, <2>1, <2>2 DEF CodesInv
<1>10. ExchangedInv' /\ presented' \subseteq DOMAIN minted'
  BY <1>3, <1>6 DEF IInv, ExchangedInv
<1> QED
  BY <1>7, <1>9, <1>10 DEF IInv

LEMMA ExchangeStep ==
  ASSUME IInv, NEW id \in DOMAIN minted, NEW r \in Redirect, Exchange(id, r)
  PROVE  IInv'
<1> DEFINE valid == \E entry \in codes : entry.id = id /\ ~Expired(entry) /\ entry.redirect = r
           token == [id |-> id, redirect |-> r, again |-> id \in presented]
<1>1. /\ codes' = { entry \in codes : entry.id # id }
      /\ presented' = presented \cup {id}
      /\ exchanged' = IF valid THEN exchanged \cup {token} ELSE exchanged
      /\ UNCHANGED <<calls, now, minted>>
  BY DEF Exchange, Remaining
<1>2. IsFiniteSet(codes') /\ Cardinality(codes') =< MaxCodes
  <2>1. codes' \subseteq codes
    BY <1>1
  <2>2. /\ IsFiniteSet(codes') /\ Cardinality(codes') =< Cardinality(codes)
        /\ Cardinality(codes') \in Nat /\ Cardinality(codes) \in Nat
    BY <2>1, FS_Subset, FS_CardinalityType DEF IInv, CodesInv
  <2> QED
    BY <2>2, SsoAssumption DEF IInv, CodesInv
<1>3. id \in Nat
  BY DEF IInv, TypeOK
<1>4. valid => minted[id] = r /\ id \notin presented
  BY DEF IInv, CodesInv
<1>5. CodesInv'
  BY <1>1, <1>2 DEF IInv, CodesInv
<1>6. exchanged' \subseteq exchanged \cup {[id |-> id, redirect |-> minted[id], again |-> FALSE]}
  <2>1. CASE valid
    <3>0. id \notin presented
      BY <1>4, <2>1
    <3>1. (id \in presented) = FALSE
      BY <3>0
    <3>2. token = [id |-> id, redirect |-> minted[id], again |-> FALSE]
      BY <1>4, <2>1, <3>1
    <3> QED
      BY <1>1, <2>1, <3>2
  <2>2. CASE ~valid
    BY <1>1, <2>2
  <2> QED
    BY <2>1, <2>2
<1>7. ExchangedInv'
  BY <1>1, <1>6 DEF IInv, ExchangedInv
<1>8. TypeOK'
  <2>1. minted[id] \in Redirect
    BY DEF IInv, TypeOK
  <2>2. [id |-> id, redirect |-> minted[id], again |-> FALSE]
           \in [id : Nat, redirect : Redirect, again : BOOLEAN]
    BY <1>3, <2>1
  <2>3. exchanged' \subseteq [id : Nat, redirect : Redirect, again : BOOLEAN]
    BY <1>6, <2>2 DEF IInv, TypeOK
  <2>4. codes' \subseteq Entry /\ presented' \subseteq Nat
    BY <1>1, <1>3 DEF IInv, TypeOK
  <2> QED
    BY <1>1, <1>2, <2>3, <2>4 DEF IInv, TypeOK
<1> QED
  BY <1>1, <1>5, <1>7, <1>8 DEF IInv

LEMMA InitInv == Init => IInv
<1> SUFFICES ASSUME Init PROVE IInv
  OBVIOUS
<1>1. IsFiniteSet(codes) /\ Cardinality(codes) =< MaxCodes
  BY FS_EmptySet, SsoAssumption DEF Init
<1> QED
  BY <1>1 DEF Init, IInv, TypeOK, CodesInv, ExchangedInv

LEMMA StepKeepsInv == IInv /\ [Next]_vars => IInv'
<1> SUFFICES ASSUME IInv, [Next]_vars PROVE IInv'
  OBVIOUS
<1>1. calls \in [Call -> SUBSET Redirect] /\ now \in Nat
  BY DEF IInv, TypeOK
<1>2. ASSUME NEW c \in Call, NEW r \in Redirect, Authorize(c, r) PROVE IInv'
  BY <1>1, <1>2, FewerCodes DEF Authorize
<1>3. ASSUME NEW c \in Call, NoAccount(c) PROVE IInv'
  BY <1>1, <1>3, FewerCodes DEF NoAccount
<1>4. CASE SweepExpired
  BY <1>1, <1>4, FewerCodes DEF SweepExpired, Swept
<1>5. CASE Tick
  BY <1>1, <1>5, FewerCodes DEF Tick
<1>6. CASE UNCHANGED vars
  BY <1>1, <1>6, FewerCodes DEF vars
<1> QED
  BY <1>2, <1>3, <1>4, <1>5, <1>6, MintStep, ExchangeStep DEF Next

-----------------------------------------------------------------------------
(* The variables keep their types, and never more than MAX_CODES codes are   *)
(* in memory.                                                                *)
THEOREM TypeCorrect == Spec => []TypeOK
<1>1. IInv => TypeOK
  BY DEF IInv
<1> QED
  BY <1>1, InitInv, StepKeepsInv, PTL DEF Spec

(* A token is given out only for the first exchange tried with its code, and *)
(* for the redirect the code was minted for.                                 *)
THEOREM RedeemedOnce == Spec => []FirstTryOnly
<1>1. IInv => FirstTryOnly
  BY DEF IInv, ExchangedInv, FirstTryOnly
<1> QED
  BY <1>1, InitInv, StepKeepsInv, PTL DEF Spec

(* A live code that nobody presented goes only when MAX_CODES newer ones are *)
(* alive.                                                                    *)
THEOREM NeverEvictedNeedlessly == Spec => KeptWhileAlive
<1> DEFINE Kept == \A entry \in codes \ codes' :
              ~Expired(entry) /\ entry.id \notin presented' =>
                /\ Cardinality(codes') = MaxCodes
                /\ \A other \in codes' : other.id > entry.id /\ other.expiresAt > now
<1>1. IInv /\ [Next]_vars => [Kept]_vars
  <2> SUFFICES ASSUME IInv, Next, NEW entry \in codes \ codes', ~Expired(entry),
                      entry.id \notin presented'
               PROVE  /\ Cardinality(codes') = MaxCodes
                      /\ \A other \in codes' : other.id > entry.id /\ other.expiresAt > now
    OBVIOUS
  <2>1. ~(\E id \in DOMAIN minted, r \in Redirect : Exchange(id, r))
    BY DEF Exchange, Remaining
  <2>2. ~SweepExpired
    BY DEF SweepExpired, Swept
  <2>3. PICK c \in Call : Mint(c)
    BY <2>1, <2>2 DEF Next, Authorize, NoAccount, Tick
  <2>4. PICK r \in calls[c] :
          codes' = Evicted \cup {[id |-> Len(minted) + 1, redirect |-> r, expiresAt |-> now + Ttl]}
    BY <2>3 DEF Mint
  <2> DEFINE new == [id |-> Len(minted) + 1, redirect |-> r, expiresAt |-> now + Ttl]
  <2>5. Evicted = Newest(MaxCodes - 1, Swept) /\ entry \in Swept \ Newest(MaxCodes - 1, Swept)
    BY <2>4 DEF Evicted, Swept
  <2>6. MaxCodes - 1 \in Nat /\ MaxCodes \in Nat
    BY SsoAssumption
  <2>7. /\ Cardinality(Newest(MaxCodes - 1, Swept)) = MaxCodes - 1
        /\ \A e \in Newest(MaxCodes - 1, Swept) : e.id > entry.id
    BY <2>5, <2>6, SweptFacts, NewestFull
  <2>8. \A e \in codes : e.id \in 1..Len(minted) /\ Len(minted) \in Nat
    BY DEF IInv, CodesInv, TypeOK
  <2>9. new \notin Evicted
    BY <2>8, EvictedFacts
  <2>10. Cardinality(codes') = MaxCodes
    <3>1. Cardinality(Evicted \cup {new}) = Cardinality(Evicted) + 1
      BY <2>9, EvictedFacts, FS_AddElement
    <3> QED
      BY <2>4, <2>5, <2>6, <2>7, <3>1
  <2>11. ASSUME NEW other \in codes' PROVE other.id > entry.id /\ other.expiresAt > now
    <3>1. CASE other \in Evicted
      <4>1. other.id > entry.id
        BY <2>5, <2>7, <3>1
      <4>2. other \in Swept /\ other.expiresAt \in Nat
        BY <2>5, <3>1, SweptFacts DEF Newest, Entry
      <4> QED
        BY <4>1, <4>2 DEF Swept, Expired, IInv, TypeOK
    <3>2. CASE other = new
      BY <2>8, <3>2, SsoAssumption DEF IInv, TypeOK
    <3> QED
      BY <2>4, <3>1, <3>2
  <2> QED
    BY <2>10, <2>11
<1> QED
  BY <1>1, InitInv, StepKeepsInv, PTL DEF Spec, KeptWhileAlive
=============================================================================

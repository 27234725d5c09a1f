--------------------------- MODULE ServicesProofs ---------------------------
(***************************************************************************)
(* Proofs about the backend's services for every number of codes, calls,   *)
(* keys, events and sources, and for every length of window, page and cap. *)
(*                                                                         *)
(* Each service keeps an invariant of its own: CodeInv the login with a    *)
(* code, LimiterInv the limiter, LoopInv and ErrorInv the poll loop,       *)
(* IndexInv the reader of the index, KmsInv the login with a passkey.      *)
(***************************************************************************)
EXTENDS Services, Filters, WellFoundedInduction, SequenceTheorems, TLAPS

-----------------------------------------------------------------------------
(* What Filter returns, for every sequence and every set: some of the        *)
(* sequence's elements, all of those in the set, in their order.              *)
(*                                                                           *)
(* Filter is a recursive function. What holds of it is shown at the least    *)
(* length at which it would fail, which there is because the naturals are    *)
(* well-founded.                                                              *)
LEMMA LeastOf ==
  ASSUME NEW T \in SUBSET Nat, T # {}
  PROVE  \E x \in T : \A y \in T : x =< y
<1> DEFINE Below == { ss \in Nat \X Nat : ss[1] < ss[2] }
<1>1. IsWellFoundedOn(Below, Nat)
  BY NatLessThanWellFounded DEF OpToRel
<1> HIDE DEF Below
<1>2. PICK x \in T : \A y \in T : ~ (<<y, x>> \in Below)
  BY <1>1, WFMin
<1>3. ASSUME NEW y \in T PROVE x =< y
  <2>1. <<y, x>> \in Nat \X Nat /\ <<y, x>>[1] = y /\ <<y, x>>[2] = x
    OBVIOUS
  <2>2. ~ (y < x)
    BY <1>2, <2>1 DEF Below
  <2> QED
    BY <2>2
<1> QED
  BY <1>3

(* Induction up to N, for the set of the numbers a statement holds of. *)
LEMMA UpTo ==
  ASSUME NEW N \in Nat, NEW G, 0 \in G, \A n \in 1..N : n - 1 \in G => n \in G
  PROVE  \A n \in 0..N : n \in G
<1> DEFINE T == { n \in 0..N : n \notin G }
<1> SUFFICES ASSUME T # {} PROVE FALSE
  OBVIOUS
<1>1. PICK x \in T : \A y \in T : x =< y
  <2>1. T \in SUBSET Nat
    OBVIOUS
  <2> HIDE DEF T
  <2> QED
    BY <2>1, LeastOf
<1>2. x \in 1..N /\ x - 1 \in 0..N
  OBVIOUS
<1>3. x - 1 \in G
  BY <1>1, <1>2
<1> QED
  BY <1>2, <1>3

(* What Filter has kept of the first n elements, for each n. *)
IsKept(kept, s, S, A) ==
  /\ kept \in [0..Len(s) -> Seq(A)]
  /\ kept[0] = <<>>
  /\ \A n \in 1..Len(s) :
       kept[n] = IF s[n] \in S THEN Append(kept[n - 1], s[n]) ELSE kept[n - 1]
  /\ Filter(s, S) = kept[Len(s)]

(* The recursion of Filter has a solution, and Filter takes its last value. *)
LEMMA FilterRecursion ==
  ASSUME NEW A, NEW s \in Seq(A), NEW S
  PROVE  \E kept : IsKept(kept, s, S, A)
<1> DEFINE Solves(f, N) ==
             /\ f[0] = <<>>
             /\ \A n \in 1..N : f[n] = IF s[n] \in S THEN Append(f[n - 1], s[n]) ELSE f[n - 1]
           G == { N \in 0..Len(s) : \E f \in [0..N -> Seq(A)] : Solves(f, N) }
<1>1. 0 \in G
  <2> DEFINE z == [i \in 0..0 |-> <<>>]
  <2>1. z \in [0..0 -> Seq(A)] /\ Solves(z, 0)
    OBVIOUS
  <2>2. Len(s) \in Nat /\ 0 \in 0..Len(s)
    OBVIOUS
  <2> HIDE DEF z, Solves
  <2> QED
    BY <2>1, <2>2
<1>2. ASSUME NEW n \in 1..Len(s), n - 1 \in G PROVE n \in G
  <2>1. PICK f \in [0..(n - 1) -> Seq(A)] : Solves(f, n - 1)
    BY <1>2
  <2> DEFINE x == IF s[n] \in S THEN Append(f[n - 1], s[n]) ELSE f[n - 1]
             g == [i \in 0..n |-> IF i = n THEN x ELSE f[i]]
  <2>2. n - 1 \in 0..(n - 1) /\ s[n] \in A /\ x \in Seq(A)
    OBVIOUS
  <2>3. g \in [0..n -> Seq(A)]
    BY <2>2
  <2>4. g[0] = <<>>
    BY <2>1
  <2>5. ASSUME NEW i \in 1..n
        PROVE  g[i] = IF s[i] \in S THEN Append(g[i - 1], s[i]) ELSE g[i - 1]
    <3>1. CASE i = n
      <4>1. g[i] = x /\ g[i - 1] = f[n - 1]
        BY <2>2, <3>1
      <4> QED
        BY <3>1, <4>1
    <3>2. CASE i # n
      <4>1. i \in 1..(n - 1) /\ g[i] = f[i] /\ g[i - 1] = f[i - 1]
        BY <3>2
      <4> QED
        BY <2>1, <4>1
    <3> QED
      BY <3>1, <3>2
  <2> HIDE DEF g
  <2>6. Solves(g, n) /\ n \in 0..Len(s)
    BY <2>4, <2>5
  <2> HIDE DEF Solves
  <2> QED
    BY <2>3, <2>6
<1>3. Len(s) \in G
  <2>1. Len(s) \in Nat /\ Len(s) \in 0..Len(s)
    OBVIOUS
  <2> HIDE DEF G
  <2> QED
    BY <1>1, <1>2, <2>1, UpTo
<1>4. PICK f \in [0..Len(s) -> Seq(A)] : Solves(f, Len(s))
  BY <1>3
<1> DEFINE step(k, n) ==
             IF n = 0 THEN <<>> ELSE IF s[n] \in S THEN Append(k[n - 1], s[n]) ELSE k[n - 1]
<1>5. f = [n \in 0..Len(s) |-> step(f, n)]
  <2>1. ASSUME NEW n \in 0..Len(s) PROVE f[n] = step(f, n)
    <3>1. CASE n = 0
      BY <1>4, <3>1
    <3>2. CASE n # 0
      <4>1. n \in 1..Len(s)
        BY <3>2
      <4> QED
        BY <1>4, <3>2, <4>1
    <3> QED
      BY <3>1, <3>2
  <2> QED
    BY <2>1
<1> DEFINE kept == CHOOSE k : k = [n \in 0..Len(s) |-> step(k, n)]
<1>6. kept = [n \in 0..Len(s) |-> step(kept, n)]
  BY <1>5
<1>7. \A n \in 0..Len(s) : kept[n] = step(kept, n)
  <2> HIDE DEF kept
  <2> QED
    BY <1>6
<1>8. Filter(s, S) = kept[Len(s)]
  BY DEF Filter
<1> HIDE DEF kept
<1>9. \A n \in 0..Len(s) : kept[n] = f[n]
  <2> DEFINE E == { n \in 0..Len(s) : kept[n] = f[n] }
  <2>1. 0 \in E
    BY <1>4, <1>7
  <2>2. ASSUME NEW n \in 1..Len(s), n - 1 \in E PROVE n \in E
    BY <1>4, <1>7, <2>2
  <2>3. Len(s) \in Nat
    OBVIOUS
  <2>4. \A n \in 0..Len(s) : n \in E
    <3> HIDE DEF E
    <3> QED
      BY <2>1, <2>2, <2>3, UpTo
  <2> QED
    BY <2>4
<1>10. Filter(s, S) = f[Len(s)]
  BY <1>8, <1>9
<1> QED
  BY <1>4, <1>10 DEF IsKept

(* e tells where in s the elements of t, those of S, come from. *)
Embeds(e, t, s, S) ==
  /\ e \in [1..Len(t) -> 1..Len(s)]
  /\ \A i \in 1..Len(t) : t[i] = s[e[i]] /\ s[e[i]] \in S
  /\ \A i, j \in 1..Len(t) : i < j => e[i] < e[j]
  /\ \A j \in 1..Len(s) : s[j] \in S => \E i \in 1..Len(t) : e[i] = j

(* Filter picks elements of s in their order, all those in S. *)
LEMMA FilterEmbeds ==
  ASSUME NEW A, NEW s \in Seq(A), NEW S
  PROVE  Filter(s, S) \in Seq(A) /\ \E e : Embeds(e, Filter(s, S), s, S)
<1>1. PICK kept : IsKept(kept, s, S, A)
  BY FilterRecursion
<1> DEFINE EmbedsUpTo(e, t, n) ==
             /\ e \in [1..Len(t) -> 1..n]
             /\ \A i \in 1..Len(t) : t[i] = s[e[i]] /\ s[e[i]] \in S
             /\ \A i, j \in 1..Len(t) : i < j => e[i] < e[j]
             /\ \A j \in 1..n : s[j] \in S => \E i \in 1..Len(t) : e[i] = j
           G == { n \in 0..Len(s) : \E e : EmbedsUpTo(e, kept[n], n) }
<1>2. Len(s) \in Nat
  OBVIOUS
<1>3. 0 \in G
  <2> DEFINE z == [i \in 1..0 |-> 0]
  <2>1. kept[0] = <<>> /\ 0 \in 0..Len(s)
    BY <1>1, <1>2 DEF IsKept
  <2>2. EmbedsUpTo(z, <<>>, 0)
    OBVIOUS
  <2> HIDE DEF EmbedsUpTo, z
  <2> QED
    BY <2>1, <2>2
<1>4. ASSUME NEW n \in 1..Len(s), n - 1 \in G PROVE n \in G
  <2>1. PICK e : EmbedsUpTo(e, kept[n - 1], n - 1)
    BY <1>4
  <2>2. /\ n \in 0..Len(s) /\ n - 1 \in 0..Len(s) /\ s[n] \in A
        /\ kept[n - 1] \in Seq(A)
        /\ kept[n] = IF s[n] \in S THEN Append(kept[n - 1], s[n]) ELSE kept[n - 1]
    BY <1>1, <1>2 DEF IsKept
  <2> DEFINE t == kept[n - 1]
  <2>3. CASE s[n] \notin S
    <3>1. EmbedsUpTo(e, t, n)
      BY <2>1, <2>2, <2>3
    <3> HIDE DEF EmbedsUpTo
    <3> QED
      BY <2>2, <2>3, <3>1
  <2>4. CASE s[n] \in S
    <3> DEFINE u == Append(t, s[n])
               f == [i \in 1..Len(u) |-> IF i = Len(u) THEN n ELSE e[i]]
    <3>1. /\ Len(t) \in Nat /\ Len(u) = Len(t) + 1 /\ u[Len(t) + 1] = s[n]
          /\ \A i \in 1..Len(t) : u[i] = t[i]
      BY <2>2
    <3> HIDE DEF u, t
    <3>2. e \in [1..Len(t) -> 1..(n - 1)]
      BY <2>1 DEF t
    <3>3. f \in [1..Len(u) -> 1..n]
      BY <3>1, <3>2
    <3>4. f[Len(u)] = n /\ \A i \in 1..Len(t) : f[i] = e[i]
      BY <3>1
    <3> HIDE DEF f
    <3>5. \A i \in 1..Len(u) : u[i] = s[f[i]] /\ s[f[i]] \in S
      <4> SUFFICES ASSUME NEW i \in 1..Len(u) PROVE u[i] = s[f[i]] /\ s[f[i]] \in S
        OBVIOUS
      <4>1. i = Len(u) \/ i \in 1..Len(t)
        BY <3>1
      <4> QED
        BY <2>1, <2>4, <3>1, <3>4, <4>1 DEF t
    <3>6. \A i, j \in 1..Len(u) : i < j => f[i] < f[j]
      <4> SUFFICES ASSUME NEW i \in 1..Len(u), NEW j \in 1..Len(u), i < j PROVE f[i] < f[j]
        OBVIOUS
      <4>1. i \in 1..Len(t) /\ f[i] = e[i] /\ e[i] \in 1..(n - 1)
        <5>1. i \in 1..Len(t)
          BY <3>1
        <5> QED
          BY <3>2, <3>4, <5>1
      <4>2. j = Len(u) \/ j \in 1..Len(t)
        BY <3>1
      <4> QED
        BY <2>1, <3>4, <4>1, <4>2 DEF t
    <3>7. \A j \in 1..n : s[j] \in S => \E i \in 1..Len(u) : f[i] = j
      <4> SUFFICES ASSUME NEW j \in 1..n, s[j] \in S PROVE \E i \in 1..Len(u) : f[i] = j
        OBVIOUS
      <4>1. CASE j = n
        BY <3>1, <3>4, <4>1
      <4>2. CASE j # n
        <5>1. PICK i \in 1..Len(t) : e[i] = j
          BY <2>1, <4>2 DEF t
        <5> QED
          BY <3>1, <3>4, <5>1
      <4> QED
        BY <4>1, <4>2
    <3>8. EmbedsUpTo(f, u, n)
      BY <3>3, <3>5, <3>6, <3>7
    <3>9. u = kept[n]
      BY <2>2, <2>4 DEF u, t
    <3> HIDE DEF EmbedsUpTo
    <3> QED
      BY <2>2, <3>8, <3>9
  <2> QED
    BY <2>3, <2>4
<1>5. Len(s) \in G
  <2>1. Len(s) \in 0..Len(s)
    BY <1>2
  <2> HIDE DEF G
  <2> QED
    BY <1>2, <1>3, <1>4, <2>1, UpTo
<1>6. PICK e : EmbedsUpTo(e, Filter(s, S), Len(s))
  BY <1>1, <1>5 DEF IsKept
<1>7. Filter(s, S) \in Seq(A)
  BY <1>1, <1>2 DEF IsKept
<1> QED
  BY <1>6, <1>7 DEF Embeds

(* The elements Filter returns. *)
LEMMA FilterElements ==
  ASSUME NEW A, NEW s \in Seq(A), NEW S
  PROVE  /\ Filter(s, S) \in Seq(A)
         /\ \A i \in 1..Len(Filter(s, S)) :
              Filter(s, S)[i] \in S /\ \E j \in 1..Len(s) : Filter(s, S)[i] = s[j]
         /\ \A j \in 1..Len(s) :
              s[j] \in S => \E i \in 1..Len(Filter(s, S)) : Filter(s, S)[i] = s[j]
<1>1. Filter(s, S) \in Seq(A)
  BY FilterEmbeds
<1>2. PICK e : Embeds(e, Filter(s, S), s, S)
  BY FilterEmbeds
<1>3. ASSUME NEW i \in 1..Len(Filter(s, S))
      PROVE  Filter(s, S)[i] \in S /\ \E j \in 1..Len(s) : Filter(s, S)[i] = s[j]
  BY <1>2 DEF Embeds
<1>4. ASSUME NEW j \in 1..Len(s), s[j] \in S
      PROVE  \E i \in 1..Len(Filter(s, S)) : Filter(s, S)[i] = s[j]
  BY <1>2, <1>4 DEF Embeds
<1> QED
  BY <1>1, <1>3, <1>4

(* The elements that are kept, when they are the last ones. *)
LEMMA FilterSuffix ==
  ASSUME NEW A, NEW s \in Seq(A), NEW S, NEW m \in 0..Len(s),
         \A j \in 1..Len(s) : s[j] \in S <=> j > m
  PROVE  /\ Filter(s, S) \in Seq(A) /\ Len(Filter(s, S)) = Len(s) - m
         /\ \A i \in 1..(Len(s) - m) : Filter(s, S)[i] = s[m + i]
<1>1. PICK kept : IsKept(kept, s, S, A)
  BY FilterRecursion
<1> DEFINE G == { n \in 0..Len(s) :
                    /\ Len(kept[n]) = IF n < m THEN 0 ELSE n - m
                    /\ \A i \in 1..Len(kept[n]) : kept[n][i] = s[m + i] }
<1>2. Len(s) \in Nat
  OBVIOUS
<1>3. 0 \in G
  BY <1>1, <1>2 DEF IsKept
<1>4. ASSUME NEW n \in 1..Len(s), n - 1 \in G PROVE n \in G
  <2>1. /\ n \in 0..Len(s) /\ n - 1 \in 0..Len(s) /\ s[n] \in A
        /\ kept[n - 1] \in Seq(A)
        /\ kept[n] = IF s[n] \in S THEN Append(kept[n - 1], s[n]) ELSE kept[n - 1]
    <3>1. n \in 0..Len(s) /\ n - 1 \in 0..Len(s) /\ s[n] \in A
      OBVIOUS
    <3>2. kept[n - 1] \in Seq(A)
      BY <1>1, <1>2, <3>1 DEF IsKept
    <3>3. kept[n] = IF s[n] \in S THEN Append(kept[n - 1], s[n]) ELSE kept[n - 1]
      BY <1>1, <1>2 DEF IsKept
    <3> QED
      BY <3>1, <3>2, <3>3
  <2>2. CASE n =< m
    BY <1>4, <2>1, <2>2
  <2>3. CASE n > m
    <3>1. kept[n] = Append(kept[n - 1], s[n]) /\ Len(kept[n - 1]) = n - 1 - m
      BY <1>4, <2>1, <2>3
    <3> DEFINE t == kept[n - 1]
    <3>2. t \in Seq(A) /\ Len(t) = n - 1 - m /\ Len(kept[n]) = n - m /\ kept[n][n - m] = s[n]
      BY <2>1, <3>1
    <3>3. ASSUME NEW i \in 1..(n - m) PROVE kept[n][i] = s[m + i]
      <4>1. CASE i = n - m
        BY <3>2, <4>1
      <4>2. CASE i # n - m
        <5>1. i \in 1..Len(t)
          BY <3>2, <4>2
        <5>2. kept[n][i] = t[i]
          BY <2>1, <3>1, <5>1
        <5> QED
          BY <1>4, <5>1, <5>2
      <4> QED
        BY <4>1, <4>2
    <3>4. Len(kept[n]) = IF n < m THEN 0 ELSE n - m
      BY <2>3, <3>2
    <3> QED
      BY <2>1, <2>3, <3>2, <3>3, <3>4
  <2> QED
    BY <2>2, <2>3
<1>5. Len(s) \in G
  <2>1. Len(s) \in 0..Len(s)
    BY <1>2
  <2> HIDE DEF G
  <2> QED
    BY <1>2, <1>3, <1>4, <2>1, UpTo
<1>6. Filter(s, S) = kept[Len(s)] /\ kept[Len(s)] \in Seq(A)
  BY <1>1, <1>2 DEF IsKept
<1> QED
  BY <1>2, <1>5, <1>6

LEMMA FilterEmpty ==
  ASSUME NEW S
  PROVE  Filter(<<>>, S) = <<>>
<1>1. <<>> \in Seq({}) /\ Len(<<>>) = 0
  OBVIOUS
<1>2. PICK kept : IsKept(kept, <<>>, S, {})
  BY <1>1, FilterRecursion
<1> QED
  BY <1>1, <1>2 DEF IsKept

(* Filter takes its elements one after the other. *)
LEMMA FilterAppend ==
  ASSUME NEW A, NEW s \in Seq(A), NEW x \in A, NEW S
  PROVE  Filter(Append(s, x), S) = IF x \in S THEN Append(Filter(s, S), x) ELSE Filter(s, S)
<1> DEFINE t == Append(s, x)
<1>1. PICK f : IsKept(f, s, S, A)
  BY FilterRecursion
<1>2. /\ t \in Seq(A) /\ Len(s) \in Nat /\ Len(t) = Len(s) + 1 /\ t[Len(s) + 1] = x
      /\ \A n \in 1..Len(s) : t[n] = s[n]
  OBVIOUS
<1> HIDE DEF t
<1>3. PICK g : IsKept(g, t, S, A)
  BY <1>2, FilterRecursion
<1>4. \A n \in 0..Len(s) : g[n] = f[n]
  <2> DEFINE E == { n \in 0..Len(s) : g[n] = f[n] }
  <2>1. 0 \in E
    BY <1>1, <1>2, <1>3 DEF IsKept
  <2>2. ASSUME NEW n \in 1..Len(s), n - 1 \in E PROVE n \in E
    <3>1. n \in 1..Len(t) /\ n \in 0..Len(s) /\ t[n] = s[n] /\ g[n - 1] = f[n - 1]
      BY <1>2, <2>2
    <3> QED
      BY <1>1, <1>3, <3>1 DEF IsKept
  <2>3. \A n \in 0..Len(s) : n \in E
    <3> HIDE DEF E
    <3> QED
      BY <1>2, <2>1, <2>2, UpTo
  <2> QED
    BY <2>3
<1>5. g[Len(t)] = IF x \in S THEN Append(g[Len(s)], x) ELSE g[Len(s)]
  <2>1. Len(t) \in 1..Len(t) /\ Len(t) - 1 = Len(s) /\ t[Len(t)] = x
    BY <1>2
  <2> QED
    BY <1>3, <2>1 DEF IsKept
<1>6. Len(s) \in 0..Len(s)
  BY <1>2
<1>7. Filter(s, S) = f[Len(s)] /\ Filter(t, S) = g[Len(t)]
  BY <1>1, <1>3 DEF IsKept
<1> QED
  BY <1>4, <1>5, <1>6, <1>7 DEF t

(* What a filtered concatenation is. *)
LEMMA FilterConcat ==
  ASSUME NEW A, NEW s \in Seq(A), NEW t \in Seq(A), NEW S
  PROVE  Filter(s \o t, S) = Filter(s, S) \o Filter(t, S)
<1> DEFINE pre(n) == SubSeq(t, 1, n)
           G == { n \in 0..Len(t) : Filter(s \o pre(n), S) = Filter(s, S) \o Filter(pre(n), S) }
<1>1. Len(t) \in Nat /\ Filter(s, S) \in Seq(A)
  BY FilterEmbeds
<1>2. 0 \in G
  <2>1. pre(0) = <<>> /\ s \o <<>> = s
    OBVIOUS
  <2>2. Filter(s, S) \o <<>> = Filter(s, S)
    BY <1>1
  <2>3. 0 \in 0..Len(t) /\ Filter(<<>>, S) = <<>>
    BY <1>1, FilterEmpty
  <2>4. Filter(s \o pre(0), S) = Filter(s, S) /\ Filter(pre(0), S) = <<>>
    BY <2>1, <2>3
  <2> QED
    BY <2>2, <2>3, <2>4
<1>3. ASSUME NEW n \in 1..Len(t), n - 1 \in G PROVE n \in G
  <2>1. pre(n - 1) \in Seq(A) /\ t[n] \in A /\ pre(n) = Append(pre(n - 1), t[n])
    OBVIOUS
  <2>2. s \o pre(n) = Append(s \o pre(n - 1), t[n]) /\ s \o pre(n - 1) \in Seq(A)
    BY <2>1
  <2> DEFINE p == pre(n - 1)
             u == s \o p
  <2>3. Filter(u, S) = Filter(s, S) \o Filter(p, S) /\ n \in 0..Len(t)
    BY <1>3
  <2>4. p \in Seq(A) /\ u \in Seq(A) /\ pre(n) = Append(p, t[n]) /\ s \o pre(n) = Append(u, t[n])
    BY <2>1, <2>2
  <2> HIDE DEF p, u, pre
  <2>5. /\ Filter(Append(p, t[n]), S) = IF t[n] \in S THEN Append(Filter(p, S), t[n]) ELSE Filter(p, S)
        /\ Filter(Append(u, t[n]), S) = IF t[n] \in S THEN Append(Filter(u, S), t[n]) ELSE Filter(u, S)
    <3>1. t[n] \in A
      BY <2>1
    <3> DEFINE x == t[n]
    <3>2. x \in A
      BY <3>1
    <3> HIDE DEF x
    <3>3. Filter(Append(p, x), S) = IF x \in S THEN Append(Filter(p, S), x) ELSE Filter(p, S)
      BY <2>4, <3>2, FilterAppend
    <3>4. Filter(Append(u, x), S) = IF x \in S THEN Append(Filter(u, S), x) ELSE Filter(u, S)
      BY <2>4, <3>2, FilterAppend
    <3> QED
      BY <3>3, <3>4 DEF x
  <2>6. Filter(p, S) \in Seq(A)
    BY <2>4, FilterEmbeds
  <2>7. \A a, b \in Seq(A) : \A x \in A : a \o Append(b, x) = Append(a \o b, x)
    OBVIOUS
  <2>8. Filter(s, S) \o Append(Filter(p, S), t[n]) = Append(Filter(s, S) \o Filter(p, S), t[n])
    BY <1>1, <2>1, <2>6, <2>7
  <2>9. Filter(s \o pre(n), S) = Filter(s, S) \o Filter(pre(n), S)
    BY <2>3, <2>4, <2>5, <2>8
  <2> QED
    BY <2>3, <2>9
<1>4. Len(t) \in G
  <2>1. Len(t) \in 0..Len(t)
    BY <1>1
  <2> HIDE DEF G
  <2> QED
    BY <1>1, <1>2, <1>3, <2>1, UpTo
<1>5. pre(Len(t)) = t
  OBVIOUS
<1> QED
  BY <1>4, <1>5

-----------------------------------------------------------------------------
(* Parts of a sequence. *)
LEMMA Slice ==
  ASSUME NEW A, NEW s \in Seq(A), NEW a \in Nat, NEW b \in Nat, b =< Len(s)
  PROVE  /\ SubSeq(s, a + 1, b) \in Seq(A)
         /\ Len(SubSeq(s, a + 1, b)) = IF a < b THEN b - a ELSE 0
         /\ \A i \in 1..(b - a) : SubSeq(s, a + 1, b)[i] = s[a + i]
<1>1. Len(s) \in Nat /\ a + 1 \in Int /\ b \in Int
  OBVIOUS
<1>2. \A i \in (a + 1)..b : i \in 1..Len(s)
  BY <1>1
<1>3. \A i \in (a + 1)..b : s[i] \in A
  BY <1>2, ElementOfSeq
<1>4. /\ SubSeq(s, a + 1, b) \in Seq(A)
      /\ Len(SubSeq(s, a + 1, b)) = IF a + 1 <= b THEN b - (a + 1) + 1 ELSE 0
      /\ \A i \in 1..(b - (a + 1) + 1) : SubSeq(s, a + 1, b)[i] = s[(a + 1) + i - 1]
  BY <1>1, <1>3, SubSeqProperties
<1>5. b - (a + 1) + 1 = b - a /\ \A i \in 1..(b - a) : (a + 1) + i - 1 = a + i
  OBVIOUS
<1> QED
  BY <1>4, <1>5

LEMMA Prefix ==
  ASSUME NEW A, NEW s \in Seq(A), NEW n \in 0..Len(s)
  PROVE  /\ SubSeq(s, 1, n) \in Seq(A) /\ Len(SubSeq(s, 1, n)) = n
         /\ \A i \in 1..n : SubSeq(s, 1, n)[i] = s[i]
<1>1. Len(s) \in Nat /\ n \in Nat /\ n =< Len(s)
  OBVIOUS
<1>2. 0 + 1 = 1 /\ n - 0 = n /\ 0 \in Nat /\ \A i \in 1..n : 0 + i = i
  BY <1>1
<1>3. SubSeq(s, 0 + 1, n) \in Seq(A) /\ Len(SubSeq(s, 0 + 1, n)) = (IF 0 < n THEN n - 0 ELSE 0)
      /\ \A i \in 1..(n - 0) : SubSeq(s, 0 + 1, n)[i] = s[0 + i]
  BY <1>1, <1>2, Slice
<1> QED
  BY <1>1, <1>2, <1>3

LEMMA PrefixOfConcat ==
  ASSUME NEW A, NEW s \in Seq(A), NEW t \in Seq(A)
  PROVE  SubSeq(s \o t, 1, Len(s)) = s /\ Len(s) =< Len(s \o t)
<1>1. /\ s \o t \in Seq(A) /\ Len(s \o t) = Len(s) + Len(t)
      /\ \A i \in 1 .. Len(s) + Len(t) : (s \o t)[i] = IF i <= Len(s) THEN s[i] ELSE t[i - Len(s)]
  BY ConcatProperties
<1>2. Len(s) \in Nat /\ Len(t) \in Nat
  OBVIOUS
<1>3. Len(s) \in 0..Len(s \o t) /\ Len(s) =< Len(s \o t)
  BY <1>1, <1>2
<1>4. \A i \in 1..Len(s) : (s \o t)[i] = s[i]
  BY <1>1, <1>2
<1>5. /\ SubSeq(s \o t, 1, Len(s)) \in Seq(A) /\ Len(SubSeq(s \o t, 1, Len(s))) = Len(s)
      /\ \A i \in 1..Len(s) : SubSeq(s \o t, 1, Len(s))[i] = (s \o t)[i]
  BY <1>1, <1>3, Prefix
<1>6. \A i \in 1..Len(SubSeq(s \o t, 1, Len(s))) : SubSeq(s \o t, 1, Len(s))[i] = s[i]
  BY <1>4, <1>5
<1> QED
  BY <1>3, <1>5, <1>6, SeqEqual

LEMMA SplitAt ==
  ASSUME NEW A, NEW s \in Seq(A), NEW n \in 0..Len(s)
  PROVE  /\ SubSeq(s, n + 1, Len(s)) \in Seq(A)
         /\ s = SubSeq(s, 1, n) \o SubSeq(s, n + 1, Len(s))
<1> DEFINE a == SubSeq(s, 1, n)
           m == Len(s)
           b == SubSeq(s, n + 1, m)
<1>1. m \in Nat /\ n \in Nat /\ n =< m /\ m =< Len(s) /\ m = Len(s)
  OBVIOUS
<1>2. a \in Seq(A) /\ Len(a) = n /\ \A i \in 1..n : a[i] = s[i]
  BY Prefix
<1> HIDE DEF m
<1>3. b \in Seq(A) /\ Len(b) = (IF n < m THEN m - n ELSE 0) /\ \A i \in 1..(m - n) : b[i] = s[n + i]
  BY <1>1, Slice
<1>4. Len(b) = m - n
  BY <1>1, <1>3
<1> HIDE DEF a, b
<1>5. /\ a \o b \in Seq(A) /\ Len(a \o b) = Len(a) + Len(b)
      /\ \A i \in 1 .. Len(a) + Len(b) : (a \o b)[i] = IF i <= Len(a) THEN a[i] ELSE b[i - Len(a)]
  BY <1>2, <1>3, ConcatProperties
<1>6. Len(a) + Len(b) = m
  BY <1>1, <1>2, <1>4
<1>7. ASSUME NEW i \in 1..m PROVE (a \o b)[i] = s[i]
  <2>1. CASE i =< n
    <3>1. i \in 1..n
      BY <1>1, <2>1
    <3> QED
      BY <1>2, <1>5, <1>6, <2>1, <3>1
  <2>2. CASE ~(i =< n)
    <3>1. i - n \in 1..(m - n) /\ n + (i - n) = i /\ ~(i <= Len(a)) /\ i - Len(a) = i - n
      BY <1>1, <1>2, <2>2
    <3> QED
      BY <1>3, <1>5, <1>6, <3>1
  <2> QED
    BY <2>1, <2>2
<1>8. Len(a \o b) = Len(s) /\ \A i \in 1..Len(a \o b) : (a \o b)[i] = s[i]
  BY <1>1, <1>5, <1>6, <1>7
<1>9. a \o b = s
  BY <1>5, <1>8, SeqEqual
<1> QED
  BY <1>1, <1>3, <1>9 DEF a, b, m

(* What is kept of a beginning is the beginning of what is kept. *)
LEMMA FilterPrefix ==
  ASSUME NEW A, NEW s \in Seq(A), NEW n \in 0..Len(s), NEW S
  PROVE  /\ Len(Filter(SubSeq(s, 1, n), S)) =< Len(Filter(s, S))
         /\ SubSeq(Filter(s, S), 1, Len(Filter(SubSeq(s, 1, n), S))) = Filter(SubSeq(s, 1, n), S)
<1> DEFINE a == SubSeq(s, 1, n)
           b == SubSeq(s, n + 1, Len(s))
<1>1. a \in Seq(A) /\ b \in Seq(A) /\ s = a \o b
  BY Prefix, SplitAt
<1> HIDE DEF a, b
<1>2. Filter(s, S) = Filter(a, S) \o Filter(b, S)
  BY <1>1, FilterConcat
<1>3. Filter(a, S) \in Seq(A) /\ Filter(b, S) \in Seq(A)
  BY <1>1, FilterEmbeds
<1>4. /\ SubSeq(Filter(a, S) \o Filter(b, S), 1, Len(Filter(a, S))) = Filter(a, S)
      /\ Len(Filter(a, S)) =< Len(Filter(a, S) \o Filter(b, S))
  BY <1>3, PrefixOfConcat
<1> QED
  BY <1>2, <1>4 DEF a

(* One element more keeps at most one more. *)
LEMMA FilterGrows ==
  ASSUME NEW A, NEW s \in Seq(A), NEW n \in 1..Len(s), NEW S
  PROVE  Len(Filter(SubSeq(s, 1, n), S)) =< Len(Filter(SubSeq(s, 1, n - 1), S)) + 1
<1>1. n - 1 \in 0..Len(s) /\ n \in 0..Len(s) /\ Len(s) \in Nat /\ n \in Nat
  OBVIOUS
<1> DEFINE a == SubSeq(s, 1, n - 1)
           b == SubSeq(s, 1, n)
<1>2. a \in Seq(A) /\ Len(a) = n - 1 /\ \A i \in 1..(n - 1) : a[i] = s[i]
  BY <1>1, Prefix
<1>3. b \in Seq(A) /\ Len(b) = n /\ \A i \in 1..n : b[i] = s[i]
  BY <1>1, Prefix
<1>4. s[n] \in A
  BY ElementOfSeq
<1> HIDE DEF a, b
<1>5. Append(a, s[n]) \in Seq(A) /\ Len(Append(a, s[n])) = n
      /\ \A i \in 1..n : Append(a, s[n])[i] = IF i = n THEN s[n] ELSE a[i]
  BY <1>1, <1>2, <1>4
<1>6. \A i \in 1..n : Append(a, s[n])[i] = b[i]
  BY <1>1, <1>2, <1>3, <1>5
<1>7. b = Append(a, s[n])
  BY <1>3, <1>5, <1>6, SeqEqual
<1>8. Filter(b, S) = IF s[n] \in S THEN Append(Filter(a, S), s[n]) ELSE Filter(a, S)
  BY <1>2, <1>4, <1>7, FilterAppend
<1>9. Filter(a, S) \in Seq(A)
  BY <1>2, FilterEmbeds
<1>10. Len(Filter(b, S)) =< Len(Filter(a, S)) + 1
  BY <1>4, <1>8, <1>9
<1> QED
  BY <1>10 DEF a, b


-----------------------------------------------------------------------------
(* The login with a code. The history counters of the code in the store are *)
(* tied to the entry: as long as it is there it has let nobody pass, and     *)
(* every wrong guess at it was counted in `attempts'. A code that left the   *)
(* store never returns.                                                       *)
StoreInv ==
  /\ otp.id \in 0..issued
  /\ otp.id = 0 => otp = None
  /\ otp.id # 0 => admitted[otp.id] = 0 /\ guesses[otp.id] = otp.attempts

UnissuedInv == \A i \in 1..MaxIssued : i > issued => admitted[i] = 0 /\ guesses[i] = 0

CodeInv == TypeOK /\ StoreInv /\ UnissuedInv /\ CodeUsedOnce /\ GuessesBounded

LEMMA NoneType ==
  /\ None \in [code : SUBSET Code, expiresAt : 0..(MaxTime + Ttl), attempts : 0..MaxAttempts,
               id : 0..MaxIssued]
  /\ None.id = 0
BY OtpAssumption DEF None

LEMMA NoCallType == NoCall \in [at : {"idle", "findUser", "saveUser"}, id : 0..MaxIssued]
BY OtpAssumption DEF NoCall

LEMMA CodeInit == Init => CodeInv
<1> SUFFICES ASSUME Init PROVE CodeInv
  OBVIOUS
<1> USE OtpAssumption, NoneType, NoCallType
<1>1. TypeOK
  BY DEF Init, TypeOK
<1>2. StoreInv
  BY DEF Init, StoreInv
<1> QED
  BY <1>1, <1>2 DEF Init, CodeInv, UnissuedInv, CodeUsedOnce, GuessesBounded

(* The counters rest, and so does the code, or it leaves the store.          *)
LEMMA CodeRests ==
  ASSUME CodeInv, TypeOK', otp' \in {otp, None}, UNCHANGED <<issued, admitted, guesses>>
  PROVE  CodeInv'
<1>1. issued' = issued /\ admitted' = admitted /\ guesses' = guesses
  OBVIOUS
<1>2. StoreInv'
  <2>1. CASE otp' = otp
    BY <1>1, <2>1 DEF CodeInv, StoreInv
  <2>2. CASE otp' = None
    <3>1. otp'.id = 0
      BY <2>2 DEF None
    <3>2. issued \in Nat
      BY OtpAssumption DEF CodeInv, TypeOK
    <3> QED
      BY <1>1, <2>2, <3>1, <3>2 DEF StoreInv
  <2> QED
    BY <2>1, <2>2
<1> QED
  BY <1>1, <1>2 DEF CodeInv, UnissuedInv, CodeUsedOnce, GuessesBounded

LEMMA RequestStep ==
  ASSUME CodeInv, NEW code \in Code, RequestOtp(code)
  PROVE  CodeInv'
<1>1. /\ issued \in Nat /\ issued < MaxIssued /\ MaxIssued \in Nat /\ issued' = issued + 1
      /\ now \in 0..MaxTime /\ Ttl \in Nat /\ MaxTime \in Nat /\ MaxAttempts \in Nat
  BY OtpAssumption DEF RequestOtp, CodeInv, TypeOK
<1>2. otp' = [code |-> {code}, expiresAt |-> now + Ttl, attempts |-> 0, id |-> issued + 1]
  BY DEF RequestOtp
<1>3. UNCHANGED <<users, calls, now, admitted, guesses, crashes>>
  BY DEF RequestOtp
<1>4. TypeOK'
  <2>1. otp' \in [code : SUBSET Code, expiresAt : 0..(MaxTime + Ttl), attempts : 0..MaxAttempts,
                  id : 0..MaxIssued]
    BY <1>1, <1>2
  <2>2. issued' \in 0..MaxIssued
    BY <1>1
  <2>3. TypeOK
    BY DEF CodeInv
  <2> QED
    BY <1>3, <2>1, <2>2, <2>3 DEF TypeOK
<1>5. StoreInv' /\ UnissuedInv'
  BY <1>1, <1>2, <1>3 DEF CodeInv, StoreInv, UnissuedInv
<1> QED
  BY <1>3, <1>4, <1>5 DEF CodeInv, CodeUsedOnce, GuessesBounded

LEMMA WrongCodeStep ==
  ASSUME CodeInv, NEW code \in Code, WrongCode(code)
  PROVE  CodeInv'
<1> DEFINE i == otp.id
<1>1. UNCHANGED <<users, calls, now, issued, admitted, crashes>>
  BY DEF WrongCode
<1>2. /\ i \in 1..issued /\ i \in 1..MaxIssued /\ admitted[i] = 0 /\ guesses[i] = otp.attempts
      /\ otp.attempts \in Nat /\ otp.attempts < MaxAttempts /\ MaxAttempts \in Nat
  BY OtpAssumption DEF WrongCode, Live, Exhausted, CodeInv, StoreInv, TypeOK
<1>3. otp' = [otp EXCEPT !.attempts = otp.attempts + 1]
  BY DEF WrongCode
<1>4. guesses' = [guesses EXCEPT ![i] = guesses[i] + 1]
  BY DEF WrongCode
<1>5. /\ guesses' \in [1..MaxIssued -> Nat] /\ guesses'[i] = otp.attempts + 1
      /\ \A j \in 1..MaxIssued : j # i => guesses'[j] = guesses[j]
  BY <1>2, <1>4 DEF CodeInv, TypeOK
<1>6. otp' \in [code : SUBSET Code, expiresAt : 0..(MaxTime + Ttl), attempts : 0..MaxAttempts,
                id : 0..MaxIssued]
      /\ otp'.id = i /\ otp'.attempts = otp.attempts + 1
  <2>1. otp \in [code : SUBSET Code, expiresAt : 0..(MaxTime + Ttl), attempts : 0..MaxAttempts,
                 id : 0..MaxIssued]
    BY DEF CodeInv, TypeOK
  <2>2. otp.attempts + 1 \in 0..MaxAttempts
    BY <1>2
  <2> QED
    BY <1>3, <2>1, <2>2
<1>7. TypeOK'
  BY <1>1, <1>5, <1>6 DEF CodeInv, TypeOK
<1>8. StoreInv' /\ UnissuedInv'
  BY <1>1, <1>2, <1>5, <1>6 DEF CodeInv, StoreInv, UnissuedInv, TypeOK
<1>9. CodeUsedOnce' /\ GuessesBounded'
  BY <1>1, <1>2, <1>5 DEF CodeInv, CodeUsedOnce, GuessesBounded
<1> QED
  BY <1>7, <1>8, <1>9 DEF CodeInv

LEMMA RightCodeStep ==
  ASSUME CodeInv, NEW c \in Call, NEW code \in Code, RightCode(c, code)
  PROVE  CodeInv'
<1> DEFINE i == otp.id
<1>1. UNCHANGED <<users, now, issued, guesses, crashes>> /\ otp' = None
  BY DEF RightCode
<1>2. /\ i \in 1..issued /\ i \in 1..MaxIssued /\ admitted[i] = 0 /\ guesses[i] = otp.attempts
      /\ otp.attempts \in Nat /\ otp.attempts < MaxAttempts
  BY OtpAssumption DEF RightCode, Live, Exhausted, CodeInv, StoreInv, TypeOK
<1>3. admitted' = [admitted EXCEPT ![i] = admitted[i] + 1]
  BY DEF RightCode
<1>4. /\ admitted' \in [1..MaxIssued -> Nat] /\ admitted'[i] = 1
      /\ \A j \in 1..MaxIssued : j # i => admitted'[j] = admitted[j]
  BY <1>2, <1>3 DEF CodeInv, TypeOK
<1>5. calls' \in [Call -> [at : {"idle", "findUser", "saveUser"}, id : 0..MaxIssued]]
  <2> DEFINE Shape == [at : {"idle", "findUser", "saveUser"}, id : 0..MaxIssued]
             found == [at |-> "findUser", id |-> i]
  <2>1. found \in Shape
    BY <1>2
  <2>2. calls' = [calls EXCEPT ![c] = found]
    BY DEF RightCode
  <2>3. calls \in [Call -> Shape]
    BY DEF CodeInv, TypeOK
  <2> HIDE DEF Shape, found
  <2>4. calls' \in [Call -> Shape]
    BY <2>1, <2>2, <2>3
  <2> QED
    BY <2>4 DEF Shape
<1>6. TypeOK'
  BY <1>1, <1>4, <1>5, NoneType DEF CodeInv, TypeOK
<1>7. StoreInv' /\ UnissuedInv'
  BY <1>1, <1>2, <1>4, NoneType DEF CodeInv, StoreInv, UnissuedInv, TypeOK
<1>8. CodeUsedOnce' /\ GuessesBounded'
  BY <1>1, <1>2, <1>4 DEF CodeInv, CodeUsedOnce, GuessesBounded
<1> QED
  BY <1>6, <1>7, <1>8 DEF CodeInv

(* After the code is used up a verification touches only the users.          *)
LEMMA CallStep ==
  ASSUME CodeInv, NEW c \in Call, FindUser(c) \/ SaveUser(c) \/ CallFails(c)
  PROVE  CodeInv'
<1>1. UNCHANGED <<otp, now, issued, admitted, guesses, crashes>>
  BY DEF FindUser, SaveUser, CallFails
<1>2. users' \in Nat
  BY DEF FindUser, SaveUser, CallFails, InsertUser, CodeInv, TypeOK
<1>3. calls' \in [Call -> [at : {"idle", "findUser", "saveUser"}, id : 0..MaxIssued]]
  <2> DEFINE Shape == [at : {"idle", "findUser", "saveUser"}, id : 0..MaxIssued]
  <2>1. calls \in [Call -> Shape] /\ NoCall \in Shape
    BY NoCallType DEF CodeInv, TypeOK
  <2>2. [calls[c] EXCEPT !.at = "saveUser"] \in Shape
    BY <2>1
  <2> HIDE DEF Shape
  <2>3. calls' \in [Call -> Shape]
    BY <2>1, <2>2 DEF FindUser, SaveUser, CallFails
  <2> QED
    BY <2>3 DEF Shape
<1>4. TypeOK'
  BY <1>1, <1>2, <1>3 DEF CodeInv, TypeOK
<1> QED
  BY <1>1, <1>4, CodeRests

LEMMA CodeNext == CodeInv /\ [Next]_vars => CodeInv'
<1> SUFFICES ASSUME CodeInv, [Next]_vars PROVE CodeInv'
  OBVIOUS
<1> USE NoneType, NoCallType, OtpAssumption
<1>1. CASE DropOtp
  BY <1>1, CodeRests DEF DropOtp, CodeInv, TypeOK
<1>2. CASE CleanupExpired
  BY <1>2, CodeRests DEF CleanupExpired, CodeInv, TypeOK
<1>3. CASE Tick
  <2>1. UNCHANGED <<otp, users, calls, issued, admitted, guesses, crashes>>
    BY <1>3 DEF Tick
  <2>2. now' \in 0..MaxTime
    BY <1>3 DEF Tick, CodeInv, TypeOK
  <2>3. TypeOK'
    BY <2>1, <2>2 DEF CodeInv, TypeOK
  <2> QED
    BY <2>1, <2>3, CodeRests
<1>4. CASE Crash
  <2>1. otp' = None /\ UNCHANGED <<users, now, issued, admitted, guesses>>
    BY <1>4 DEF Crash
  <2>2. crashes' \in 0..MaxCrashes
    <3>1. crashes \in 0..MaxCrashes /\ crashes < MaxCrashes /\ crashes' = crashes + 1
      BY <1>4 DEF Crash, CodeInv, TypeOK
    <3>2. MaxCrashes \in Nat
      BY OtpAssumption
    <3> QED
      BY <3>1, <3>2
  <2>3. calls' \in [Call -> [at : {"idle", "findUser", "saveUser"}, id : 0..MaxIssued]]
    BY <1>4 DEF Crash
  <2>4. TypeOK'
    BY <2>1, <2>2, <2>3 DEF CodeInv, TypeOK
  <2> QED
    BY <2>1, <2>4, CodeRests
<1>5. CASE UNCHANGED vars
  BY <1>5, CodeRests DEF vars, CodeInv, TypeOK
<1> QED
  BY <1>1, <1>2, <1>3, <1>4, <1>5, RequestStep, WrongCodeStep, RightCodeStep, CallStep DEF Next

(* The store, the calls and the counters keep their types.                   *)
THEOREM TypeCorrect == Spec => []TypeOK
<1>1. CodeInv => TypeOK
  BY DEF CodeInv
<1> QED
  BY <1>1, CodeInit, CodeNext, PTL DEF Spec

(* A code lets at most one verification pass.                                *)
THEOREM UsedOnce == Spec => []CodeUsedOnce
<1>1. CodeInv => CodeUsedOnce
  BY DEF CodeInv
<1> QED
  BY <1>1, CodeInit, CodeNext, PTL DEF Spec

(* No code is guessed at more than OTP_MAX_ATTEMPTS times, whoever tries.    *)
THEOREM GuessingBounded == Spec => []GuessesBounded
<1>1. CodeInv => GuessesBounded
  BY DEF CodeInv
<1> QED
  BY <1>1, CodeInit, CodeNext, PTL DEF Spec

-----------------------------------------------------------------------------
(* The limiter. *)
LEMMA LimiterFilter == \A s, S : Limiter!Filter(s, S) = Filter(s, S)
BY DEF Limiter!Filter, Filter

LEMMA LimiterNumbers ==
  /\ Limit \in Nat /\ Limit >= 1 /\ Window \in Nat /\ SweepWindow \in Nat /\ Window =< SweepWindow
  /\ MaxKeys \in Nat
BY ServicesAssumption

Rising(g) == \A i, j \in 1..Len(g) : i =< j => g[i] =< g[j]

(* The hits h kept for a key are the last of the calls g it was granted; those *)
(* before them do not count at t any more. *)
Remembers(h, g, t) ==
  \E d \in 0..Len(g) :
    /\ Len(h) = Len(g) - d
    /\ \A i \in 1..Len(h) : h[i] = g[d + i]
    /\ \A i \in 1..d : g[i] + Window =< t

(* The first of the hits h is gone when a caller told r comes back. *)
FreedAt(h, r) == r # Limiter!Never /\ Len(h) > 0 => h[1] + Window =< r

EntryOK(e, t, g, r) ==
  /\ Len(e.hits) =< Limit
  /\ Remembers(e.hits, g[e.key], t)
  /\ FreedAt(e.hits, r[e.key])

(* Any Limit + 1 calls granted take longer than a window. *)
Spread(g) == \A i \in DOMAIN g : i > Limit => g[i] - g[i - Limit] >= Window

StoreOK(s, t, g, r) ==
  /\ s \in Seq([key : Key, hits : Seq(Nat)])
  /\ \A i, j \in 1..Len(s) : s[i].key = s[j].key => i = j
  /\ \A i \in 1..Len(s) : EntryOK(s[i], t, g, r)
  /\ \A k \in Key : (\A i \in 1..Len(s) : s[i].key # k) => Remembers(<<>>, g[k], t)

GrantsOK(g, t) ==
  /\ g \in [Key -> Seq(Nat)]
  /\ \A k \in Key :
       /\ Rising(g[k]) /\ Spread(g[k])
       /\ \A i \in 1..Len(g[k]) : g[k][i] =< t

LimiterInv ==
  /\ time \in Nat
  /\ retryAt \in [Key -> Nat \cup {Limiter!Never}]
  /\ GrantsOK(granted, time)
  /\ StoreOK(store, time, granted, retryAt)
  /\ Len(store) =< MaxKeys

LEMMA LimiterInit == Limiter!Init => LimiterInv
<1> SUFFICES ASSUME Limiter!Init PROVE LimiterInv
  OBVIOUS
<1> USE DEF Limiter!Init
<1>1. \A k \in Key : granted[k] = <<>>
  OBVIOUS
<1>2. GrantsOK(granted, time)
  BY <1>1 DEF GrantsOK, Rising, Spread
<1>3. Remembers(<<>>, <<>>, 0)
  BY DEF Remembers
<1>4. StoreOK(store, time, granted, retryAt)
  BY <1>1, <1>3 DEF StoreOK
<1> QED
  BY <1>2, <1>4, LimiterNumbers DEF LimiterInv

(* An increasing map to the numbers up to N has at most N arguments. *)
LEMMA StrictlyBounded ==
  ASSUME NEW M \in Nat, NEW N \in Nat, NEW e \in [1..M -> 1..N],
         \A i, j \in 1..M : i < j => e[i] < e[j]
  PROVE  M =< N
<1> DEFINE G == { n \in 0..M : n = 0 \/ n =< e[n] }
<1>1. 0 \in G
  OBVIOUS
<1>2. ASSUME NEW n \in 1..M, n - 1 \in G PROVE n \in G
  <2>1. CASE n = 1
    <3>1. e[1] \in 1..N
      BY <2>1
    <3> QED
      BY <2>1, <3>1
  <2>2. CASE n # 1
    <3>1. n - 1 \in 1..M /\ n - 1 =< e[n - 1] /\ e[n - 1] < e[n] /\ e[n] \in 1..N /\ e[n - 1] \in 1..N
      BY <1>2, <2>2
    <3> QED
      BY <3>1
  <2> QED
    BY <2>1, <2>2
<1>3. M \in G
  <2>1. M \in 0..M
    OBVIOUS
  <2> HIDE DEF G
  <2> QED
    BY <1>1, <1>2, <2>1, UpTo
<1>4. CASE M # 0
  <2>1. e[M] \in 1..N /\ M =< e[M]
    BY <1>3, <1>4
  <2> QED
    BY <2>1
<1> QED
  BY <1>4

LEMMA ElementOf ==
  ASSUME NEW A, NEW s \in Seq(A), NEW i \in 1..Len(s)
  PROVE  s[i] \in A
OBVIOUS

(* Where the hits end that do not count any more. *)
LEMMA Threshold ==
  ASSUME NEW h \in Seq(Nat), Rising(h), NEW x \in Int
  PROVE  \E m \in 0..Len(h) : \A j \in 1..Len(h) : h[j] > x <=> j > m
<1> DEFINE T == { j \in 1..Len(h) : h[j] > x }
<1>0. Len(h) \in Nat /\ \A j \in 1..Len(h) : h[j] \in Nat
  OBVIOUS
<1>1. CASE T = {}
  <2>1. Len(h) \in 0..Len(h)
    BY <1>0
  <2>2. ASSUME NEW j \in 1..Len(h) PROVE h[j] > x <=> j > Len(h)
    BY <1>0, <1>1
  <2> QED
    BY <2>1, <2>2
<1>2. CASE T # {}
  <2>1. T \in SUBSET Nat
    OBVIOUS
  <2>2. PICK f \in T : \A j \in T : f =< j
    <3> HIDE DEF T
    <3> QED
      BY <1>2, <2>1, LeastOf
  <2>3. f \in 1..Len(h) /\ h[f] > x /\ f - 1 \in 0..Len(h)
    BY <1>0, <2>2
  <2>4. ASSUME NEW j \in 1..Len(h) PROVE h[j] > x <=> j > f - 1
    BY <1>0, <2>2, <2>3, <2>4 DEF Rising
  <2> QED
    BY <2>3, <2>4
<1> QED
  BY <1>1, <1>2

(* The hits of a key that is in the store, and of one that is not. *)
LEMMA RecentOf ==
  ASSUME NEW k \in Key, StoreOK(store, time, granted, retryAt)
  PROVE  /\ \A i \in 1..Len(store) : store[i].key = k =>
              Limiter!Recent(k) = Filter(store[i].hits, { t \in 0..time : t > time - Window })
         /\ (\A i \in 1..Len(store) : store[i].key # k) => Limiter!Recent(k) = <<>>
<1>1. DOMAIN store = 1..Len(store)
  BY DEF StoreOK
<1>2. ASSUME NEW i \in 1..Len(store), store[i].key = k
      PROVE  Limiter!Recent(k) = Filter(store[i].hits, { t \in 0..time : t > time - Window })
  <2>1. Limiter!Position(k) = {i}
    BY <1>1, <1>2 DEF StoreOK, Limiter!Position
  <2>2. (CHOOSE j \in Limiter!Position(k) : TRUE) = i
    BY <2>1
  <2> QED
    BY <2>1, <2>2, LimiterFilter DEF Limiter!Recent, Limiter!InWindow
<1>3. ASSUME \A i \in 1..Len(store) : store[i].key # k PROVE Limiter!Recent(k) = <<>>
  BY <1>1, <1>3 DEF Limiter!Recent, Limiter!Position
<1> QED
  BY <1>2, <1>3

(* What a call of k finds: the last of its granted calls, those of the window. *)
LEMMA RecentRemembers ==
  ASSUME NEW k \in Key, LimiterInv
  PROVE  LET h == Limiter!Recent(k) IN
         /\ h \in Seq(Nat) /\ Len(h) =< Limit
         /\ Remembers(h, granted[k], time)
         /\ \A i \in 1..Len(h) : h[i] > time - Window
         /\ retryAt[k] # Limiter!Never /\ time >= retryAt[k] => Len(h) < Limit
<1> USE LimiterNumbers
<1> DEFINE g == granted[k]
<1>1. /\ time \in Nat /\ g \in Seq(Nat) /\ Rising(g) /\ retryAt[k] \in Nat \cup {Limiter!Never}
      /\ \A i \in 1..Len(g) : g[i] =< time
      /\ StoreOK(store, time, granted, retryAt)
  BY DEF LimiterInv, GrantsOK
<1>2. CASE \A i \in 1..Len(store) : store[i].key # k
  <2>1. Limiter!Recent(k) = <<>>
    BY <1>1, <1>2, RecentOf
  <2>2. Remembers(<<>>, g, time)
    BY <1>1, <1>2 DEF StoreOK
  <2> QED
    BY <2>1, <2>2 DEF FreedAt
<1>3. ASSUME NEW i \in 1..Len(store), store[i].key = k
      PROVE  LET h == Limiter!Recent(k) IN
         /\ h \in Seq(Nat) /\ Len(h) =< Limit
         /\ Remembers(h, granted[k], time)
         /\ \A j \in 1..Len(h) : h[j] > time - Window
         /\ retryAt[k] # Limiter!Never /\ time >= retryAt[k] => Len(h) < Limit
  <2> DEFINE old == store[i].hits
             S == { t \in 0..time : t > time - Window }
             h == Filter(old, S)
  <2>1. old \in Seq(Nat) /\ EntryOK(store[i], time, granted, retryAt)
    <3>1. store \in Seq([key : Key, hits : Seq(Nat)]) /\ EntryOK(store[i], time, granted, retryAt)
      BY <1>1, <1>3 DEF StoreOK
    <3>2. store[i] \in [key : Key, hits : Seq(Nat)]
      BY <1>3, <3>1, ElementOf
    <3> QED
      BY <3>1, <3>2
  <2>2. Limiter!Recent(k) = h
    BY <1>1, <1>3, RecentOf
  <2>3. PICK d \in 0..Len(g) :
          /\ Len(old) = Len(g) - d
          /\ \A j \in 1..Len(old) : old[j] = g[d + j]
          /\ \A j \in 1..d : g[j] + Window =< time
    BY <1>3, <2>1 DEF EntryOK, Remembers
  <2>4. Len(old) \in Nat /\ Len(g) \in Nat /\ (\A j \in 1..Len(old) : old[j] \in Nat) /\ Len(old) =< Limit
    <3>1. Len(old) =< Limit
      BY <2>1 DEF EntryOK
    <3>2. old \in Seq(Nat) /\ g \in Seq(Nat)
      BY <1>1, <2>1
    <3> HIDE DEF g, old, h, S
    <3>3. \A j \in 1..Len(old) : old[j] \in Nat
      BY <3>2, ElementOf
    <3> QED
      BY <3>1, <3>2, <3>3
  <2> HIDE DEF g, old
  <2>5. Rising(old)
    <3> SUFFICES ASSUME NEW a \in 1..Len(old), NEW b \in 1..Len(old), a =< b PROVE old[a] =< old[b]
      BY DEF Rising
    <3>1. old[a] = g[d + a] /\ old[b] = g[d + b] /\ d + a \in 1..Len(g) /\ d + b \in 1..Len(g) /\ d + a =< d + b
      BY <2>3, <2>4
    <3> QED
      BY <1>1, <3>1 DEF Rising
  <2>6. PICK m \in 0..Len(old) : \A j \in 1..Len(old) : old[j] > time - Window <=> j > m
    <3>1. old \in Seq(Nat) /\ time - Window \in Int
      BY <1>1, <2>1 DEF old
    <3> QED
      BY <2>5, <3>1, Threshold
  <2>7. \A j \in 1..Len(old) : old[j] \in S <=> j > m
    <3> SUFFICES ASSUME NEW j \in 1..Len(old) PROVE old[j] \in S <=> j > m
      OBVIOUS
    <3>1. d + j \in 1..Len(g) /\ old[j] = g[d + j]
      BY <2>3, <2>4
    <3>2. old[j] \in 0..time
      BY <1>1, <2>4, <3>1
    <3> QED
      BY <2>6, <3>2
  <2>8. h \in Seq(Nat) /\ Len(h) = Len(old) - m /\ \A j \in 1..(Len(old) - m) : h[j] = old[m + j]
    <3>1. old \in Seq(Nat)
      BY <2>1 DEF old
    <3>2. m \in 0..Len(old)
      OBVIOUS
    <3> HIDE DEF S
    <3> QED
      BY <2>7, <3>1, <3>2, FilterSuffix
  <2> HIDE DEF h
  <2>9. Remembers(h, g, time)
    <3>1. d + m \in 0..Len(g) /\ Len(h) = Len(g) - (d + m)
      BY <2>3, <2>4, <2>8
    <3>2. \A j \in 1..Len(h) : h[j] = g[(d + m) + j]
      BY <2>3, <2>4, <2>8
    <3>3. ASSUME NEW j \in 1..(d + m) PROVE g[j] + Window =< time
      <4>1. CASE j =< d
        BY <2>3, <4>1
      <4>2. CASE j > d
        <5>1. j - d \in 1..Len(old) /\ j - d =< m /\ old[j - d] = g[j]
          BY <2>3, <2>4, <4>2
        <5>2. ~ (old[j - d] > time - Window)
          BY <2>6, <5>1
        <5>3. g[j] \in Nat
          BY <2>4, <5>1
        <5> QED
          BY <1>1, <5>1, <5>2, <5>3
      <4> QED
        BY <4>1, <4>2
    <3> QED
      BY <3>1, <3>2, <3>3 DEF Remembers
  <2>10. ASSUME NEW j \in 1..Len(h) PROVE h[j] > time - Window
    <3>1. m + j \in 1..Len(old) /\ m + j > m
      BY <2>4, <2>8
    <3>2. h[j] = old[m + j]
      BY <2>8
    <3> QED
      BY <2>6, <3>1, <3>2
  <2>11. ASSUME retryAt[k] # Limiter!Never, time >= retryAt[k] PROVE Len(h) < Limit
    <3>1. CASE Len(old) = 0
      BY <2>4, <2>8, <3>1
    <3>2. CASE Len(old) > 0
      <4>1. old[1] + Window =< retryAt[k]
        BY <1>3, <2>1, <2>11, <3>2 DEF EntryOK, FreedAt, old
      <4>2. ~ (old[1] > time - Window)
        <5>1. old[1] \in Nat
          BY <2>4, <3>2
        <5>2. time \in Nat /\ retryAt[k] \in Nat /\ time >= retryAt[k]
          BY <1>1, <2>11
        <5> QED
          BY <4>1, <5>1, <5>2
      <4>3. m >= 1
        BY <2>4, <2>6, <3>2, <4>2
      <4> QED
        BY <2>4, <2>8, <4>3
    <3> QED
      BY <2>4, <3>1, <3>2
  <2>12. Len(h) =< Limit
    BY <2>4, <2>8
  <2> QED
    BY <2>2, <2>8, <2>9, <2>10, <2>11, <2>12 DEF g
<1> QED
  BY <1>2, <1>3

LEMMA AppendFacts ==
  ASSUME NEW g \in Seq(Nat), NEW t \in Nat, NEW n, n = Append(g, t)
  PROVE  /\ n \in Seq(Nat) /\ Len(g) \in Nat /\ Len(n) = Len(g) + 1 /\ n[Len(g) + 1] = t
         /\ DOMAIN n = 1..Len(n) /\ DOMAIN g = 1..Len(g)
         /\ \A i \in 1..Len(g) : n[i] = g[i] /\ g[i] \in Nat
         /\ \A i \in 1..Len(n) : i = Len(g) + 1 \/ i \in 1..Len(g)
OBVIOUS

(* The calls granted to a key stay in the order of their times. *)
LEMMA RisingAppend ==
  ASSUME NEW g \in Seq(Nat), NEW t \in Nat, Rising(g), \A i \in 1..Len(g) : g[i] =< t
  PROVE  Rising(Append(g, t)) /\ \A i \in 1..Len(Append(g, t)) : Append(g, t)[i] =< t
<1> DEFINE n == Append(g, t)
<1> HIDE DEF n
<1>1. /\ n \in Seq(Nat) /\ Len(g) \in Nat /\ Len(n) = Len(g) + 1 /\ n[Len(g) + 1] = t
      /\ \A i \in 1..Len(g) : n[i] = g[i] /\ g[i] \in Nat
      /\ \A i \in 1..Len(n) : i = Len(g) + 1 \/ i \in 1..Len(g)
  BY AppendFacts DEF n
<1>2. \A i \in 1..Len(n) : n[i] =< t
  BY <1>1
<1>3. ASSUME NEW i \in 1..Len(n), NEW j \in 1..Len(n), i =< j PROVE n[i] =< n[j]
  <2>1. CASE j \in 1..Len(g)
    <3>1. i \in 1..Len(g)
      BY <1>1, <1>3, <2>1
    <3>2. n[i] = g[i] /\ n[j] = g[j]
      BY <1>1, <2>1, <3>1
    <3> QED
      BY <1>3, <2>1, <3>1, <3>2 DEF Rising
  <2>2. CASE j = Len(g) + 1
    BY <1>1, <1>2, <2>2
  <2> QED
    BY <1>1, <2>1, <2>2
<1> QED
  BY <1>2, <1>3 DEF n, Rising

(* One more granted call: the window it is in holds fewer than Limit others. *)
LEMMA SpreadAppend ==
  ASSUME NEW g \in Seq(Nat), NEW t \in Nat, Spread(g),
         NEW d \in 0..Len(g), Len(g) - d < Limit, \A i \in 1..d : g[i] + Window =< t
  PROVE  Spread(Append(g, t))
<1> DEFINE n == Append(g, t)
<1> HIDE DEF n
<1>1. /\ n \in Seq(Nat) /\ Len(g) \in Nat /\ Len(n) = Len(g) + 1 /\ n[Len(g) + 1] = t
      /\ DOMAIN n = 1..Len(n) /\ DOMAIN g = 1..Len(g)
      /\ \A i \in 1..Len(g) : n[i] = g[i] /\ g[i] \in Nat
      /\ \A i \in 1..Len(n) : i = Len(g) + 1 \/ i \in 1..Len(g)
  BY AppendFacts DEF n
<1>2. Limit \in Nat /\ Limit >= 1 /\ Window \in Nat
  BY LimiterNumbers
<1>3. ASSUME NEW i \in 1..Len(n), i > Limit PROVE n[i] - n[i - Limit] >= Window
  <2>1. CASE i \in 1..Len(g)
    <3>1. i - Limit \in 1..Len(g)
      BY <1>1, <1>2, <1>3, <2>1
    <3>2. n[i] = g[i] /\ n[i - Limit] = g[i - Limit] /\ i \in DOMAIN g
      BY <1>1, <2>1, <3>1
    <3> QED
      BY <1>3, <3>2 DEF Spread
  <2>2. CASE i = Len(g) + 1
    <3> DEFINE j == i - Limit
    <3>1. j \in 1..Len(g) /\ j \in 1..d
      <4>1. Len(g) \in Nat /\ i \in Nat /\ i > Limit
        BY <1>1, <1>3, <2>2
      <4> QED
        BY <1>2, <2>2, <4>1
    <3> HIDE DEF j
    <3>2. n[j] = g[j] /\ g[j] \in Nat
      BY <1>1, <3>1
    <3>3. g[j] + Window =< t
      BY <3>1
    <3>4. n[i] = t
      BY <1>1, <2>2
    <3>5. n[i] - n[j] >= Window
      BY <1>2, <3>2, <3>3, <3>4
    <3> QED
      BY <3>5 DEF j
  <2> QED
    BY <1>1, <2>1, <2>2
<1> QED
  BY <1>1, <1>3 DEF n, Spread

(* The call is remembered with those before it. *)
LEMMA RemembersAppend ==
  ASSUME NEW g \in Seq(Nat), NEW h \in Seq(Nat), NEW t \in Nat,
         NEW d \in 0..Len(g), Len(h) = Len(g) - d, \A i \in 1..Len(h) : h[i] = g[d + i],
         \A i \in 1..d : g[i] + Window =< t
  PROVE  Remembers(Append(h, t), Append(g, t), t)
<1> DEFINE n == Append(g, t)
           o == Append(h, t)
<1> HIDE DEF n, o
<1>1. /\ n \in Seq(Nat) /\ Len(g) \in Nat /\ Len(n) = Len(g) + 1 /\ n[Len(g) + 1] = t
      /\ \A i \in 1..Len(g) : n[i] = g[i] /\ g[i] \in Nat
  BY AppendFacts DEF n
<1>2. /\ o \in Seq(Nat) /\ Len(h) \in Nat /\ Len(o) = Len(h) + 1 /\ o[Len(h) + 1] = t
      /\ DOMAIN o = 1..Len(o) /\ DOMAIN h = 1..Len(h)
      /\ \A i \in 1..Len(h) : o[i] = h[i] /\ h[i] \in Nat
      /\ \A i \in 1..Len(o) : i = Len(h) + 1 \/ i \in 1..Len(h)
  BY AppendFacts DEF o
<1>3. d \in 0..Len(n) /\ Len(o) = Len(n) - d
  BY <1>1, <1>2
<1>4. ASSUME NEW i \in 1..Len(o) PROVE o[i] = n[d + i]
  <2>1. CASE i \in 1..Len(h)
    <3>1. d + i \in 1..Len(g)
      BY <1>1, <1>2, <2>1
    <3> QED
      BY <1>1, <1>2, <2>1, <3>1
  <2>2. CASE i = Len(h) + 1
    <3>1. d + i = Len(g) + 1
      BY <1>1, <1>2, <2>2
    <3> QED
      BY <1>1, <1>2, <2>2, <3>1
  <2> QED
    BY <1>2, <2>1, <2>2
<1>5. ASSUME NEW i \in 1..d PROVE n[i] + Window =< t
  <2>1. i \in 1..Len(g)
    BY <1>1
  <2>2. n[i] = g[i]
    BY <1>1, <2>1
  <2> QED
    BY <2>2
<1> QED
  BY <1>3, <1>4, <1>5 DEF Remembers, n, o

(* The entries of the store once the hits of k are set to h. *)
LEMMA SetEntries ==
  ASSUME LimiterInv, NEW k \in Key, NEW h \in Seq(Nat)
  PROVE  LET s == Limiter!Set(k, h) IN
         /\ s \in Seq([key : Key, hits : Seq(Nat)])
         /\ \A i, j \in 1..Len(s) : s[i].key = s[j].key => i = j
         /\ \A i \in 1..Len(s) :
              IF s[i].key = k THEN s[i].hits = h ELSE \E j \in 1..Len(store) : s[i] = store[j]
         /\ \A j \in 1..Len(store) : \E i \in 1..Len(s) : s[i].key = store[j].key
         /\ \E i \in 1..Len(s) : s[i].key = k
         /\ (\E j \in 1..Len(store) : store[j].key = k) => Len(s) = Len(store)
<1> DEFINE s == Limiter!Set(k, h)
           e == [key |-> k, hits |-> h]
           E == [key : Key, hits : Seq(Nat)]
<1>1. /\ store \in Seq(E) /\ Len(store) \in Nat /\ DOMAIN store = 1..Len(store)
      /\ \A i, j \in 1..Len(store) : store[i].key = store[j].key => i = j
  <2> HIDE DEF E
  <2>1. store \in Seq(E) /\ \A i, j \in 1..Len(store) : store[i].key = store[j].key => i = j
    BY DEF LimiterInv, StoreOK, E
  <2> QED
    BY <2>1
<1>2. e \in E /\ e.key = k /\ e.hits = h
  OBVIOUS
<1> HIDE DEF e, E
<1>3. \A i \in 1..Len(store) : store[i] \in E
  BY <1>1, ElementOf
<1>4. CASE \A i \in 1..Len(store) : store[i].key # k
  <2>1. s = Append(store, e)
    BY <1>1, <1>4 DEF Limiter!Set, Limiter!Position, e
  <2>2. /\ s \in Seq(E) /\ Len(s) = Len(store) + 1 /\ s[Len(store) + 1] = e
        /\ \A i \in 1..Len(store) : s[i] = store[i]
    BY <1>1, <1>2, <2>1
  <2> HIDE DEF s
  <2>3. \A i \in 1..Len(s) : i = Len(store) + 1 \/ i \in 1..Len(store)
    BY <1>1, <2>2
  <2>4. \A i \in 1..Len(store) : i \in 1..Len(s)
    BY <1>1, <2>2
  <2>5. Len(store) + 1 \in 1..Len(s)
    BY <1>1, <2>2
  <2>6. \A i, j \in 1..Len(s) : s[i].key = s[j].key => i = j
    BY <1>1, <1>2, <1>4, <2>2, <2>3
  <2>7. \A i \in 1..Len(s) :
              IF s[i].key = k THEN s[i].hits = h ELSE \E j \in 1..Len(store) : s[i] = store[j]
    BY <1>1, <1>2, <1>4, <2>2, <2>3
  <2>8. \A j \in 1..Len(store) : \E i \in 1..Len(s) : s[i].key = store[j].key
    BY <2>2, <2>4
  <2>9. \E i \in 1..Len(s) : s[i].key = k
    BY <1>2, <2>2, <2>5
  <2> QED
    BY <1>4, <2>2, <2>6, <2>7, <2>8, <2>9 DEF s, E
<1>5. CASE \E i \in 1..Len(store) : store[i].key = k
  <2>1. s = [i \in 1..Len(store) |-> IF store[i].key = k THEN e ELSE store[i]]
    BY <1>1, <1>5 DEF Limiter!Set, Limiter!Position, e
  <2> DEFINE f(i) == IF store[i].key = k THEN e ELSE store[i]
  <2>2. \A i \in 1..Len(store) : f(i) \in E
    BY <1>2, <1>3
  <2>3. s = [i \in 1..Len(store) |-> f(i)]
    BY <2>1
  <2> HIDE DEF f, s
  <2>4. s \in Seq(E) /\ Len(s) = Len(store) /\ \A i \in 1..Len(store) : s[i] = f(i)
    BY <1>1, <2>2, <2>3
  <2>5. \A i \in 1..Len(store) : f(i).key = store[i].key
    BY <1>2 DEF f
  <2>6. \A i, j \in 1..Len(s) : s[i].key = s[j].key => i = j
    BY <1>1, <2>4, <2>5
  <2>7. \A i \in 1..Len(s) :
              IF s[i].key = k THEN s[i].hits = h ELSE \E j \in 1..Len(store) : s[i] = store[j]
    <3> SUFFICES ASSUME NEW i \in 1..Len(store)
                 PROVE IF s[i].key = k THEN s[i].hits = h ELSE \E j \in 1..Len(store) : s[i] = store[j]
      BY <2>4
    <3>1. s[i] = f(i) /\ s[i].key = store[i].key
      BY <2>4, <2>5
    <3> QED
      BY <1>2, <3>1 DEF f
  <2>8. \A j \in 1..Len(store) : \E i \in 1..Len(s) : s[i].key = store[j].key
    BY <2>4, <2>5
  <2>9. \E i \in 1..Len(s) : s[i].key = k
    BY <1>5, <2>4, <2>5
  <2> QED
    BY <2>4, <2>6, <2>7, <2>8, <2>9 DEF s, E
<1> QED
  BY <1>4, <1>5

LEMMA LimiterTick == LimiterInv /\ Limiter!Tick => LimiterInv'
<1> SUFFICES ASSUME LimiterInv, Limiter!Tick PROVE LimiterInv'
  OBVIOUS
<1>1. /\ time \in Nat /\ time' = time + 1 /\ store' = store /\ granted' = granted /\ retryAt' = retryAt
      /\ GrantsOK(granted, time) /\ StoreOK(store, time, granted, retryAt)
  BY DEF LimiterInv, Limiter!Tick
<1>2. ASSUME NEW h, NEW k \in Key, Remembers(h, granted[k], time) PROVE Remembers(h, granted[k], time')
  <2> DEFINE g == granted[k]
  <2>1. g \in Seq(Nat)
    BY <1>1 DEF GrantsOK
  <2> HIDE DEF g
  <2>2. Window \in Nat /\ Len(g) \in Nat /\ \A i \in 1..Len(g) : g[i] \in Nat
    BY <2>1, LimiterNumbers
  <2>3. PICK d \in 0..Len(g) :
          /\ Len(h) = Len(g) - d
          /\ \A i \in 1..Len(h) : h[i] = g[d + i]
          /\ \A i \in 1..d : g[i] + Window =< time
    BY <1>2 DEF Remembers, g
  <2>4. ASSUME NEW i \in 1..d PROVE g[i] + Window =< time'
    <3>1. g[i] \in Nat /\ g[i] + Window =< time
      BY <2>2, <2>3
    <3>2. time \in Nat /\ time' = time + 1
      BY <1>1
    <3> QED
      BY <2>2, <3>1, <3>2
  <2> QED
    BY <2>3, <2>4 DEF Remembers, g
<1>3. GrantsOK(granted, time')
  <2>1. ASSUME NEW k \in Key, NEW i \in 1..Len(granted[k]) PROVE granted[k][i] =< time'
    <3>1. granted[k][i] \in Nat /\ granted[k][i] =< time
      BY <1>1, ElementOf DEF GrantsOK
    <3> QED
      BY <1>1, <3>1
  <2> QED
    BY <1>1, <2>1 DEF GrantsOK
<1>4. StoreOK(store, time', granted, retryAt)
  <2>1. ASSUME NEW i \in 1..Len(store) PROVE EntryOK(store[i], time', granted, retryAt)
    <3>1. store[i] \in [key : Key, hits : Seq(Nat)] /\ EntryOK(store[i], time, granted, retryAt)
      BY <1>1, ElementOf DEF StoreOK
    <3>2. store[i].key \in Key
      BY <3>1
    <3> QED
      BY <1>2, <3>1, <3>2 DEF EntryOK
  <2>2. ASSUME NEW k \in Key, \A i \in 1..Len(store) : store[i].key # k
        PROVE  Remembers(<<>>, granted[k], time')
    BY <1>1, <1>2, <2>2 DEF StoreOK
  <2> QED
    BY <1>1, <2>1, <2>2 DEF StoreOK
<1> QED
  BY <1>1, <1>3, <1>4 DEF LimiterInv

(* The sweep forgets a key only when no call of it counts any more. *)
LEMMA StaleForgotten ==
  ASSUME NEW e, NEW g \in Seq(Nat), e.hits \in Seq(Nat), Rising(g), time \in Nat,
         Remembers(e.hits, g, time), Limiter!Stale(e)
  PROVE  Remembers(<<>>, g, time)
<1> DEFINE h == e.hits
<1>1. PICK d \in 0..Len(g) :
        /\ Len(h) = Len(g) - d
        /\ \A i \in 1..Len(h) : h[i] = g[d + i]
        /\ \A i \in 1..d : g[i] + Window =< time
  BY DEF Remembers
<1>2. h \in Seq(Nat) /\ (h = <<>> \/ h[Len(h)] =< time - SweepWindow)
  BY DEF Limiter!Stale
<1> HIDE DEF h
<1>3. /\ Len(g) \in Nat /\ Len(h) \in Nat /\ \A i \in 1..Len(g) : g[i] \in Nat
      /\ Window \in Nat /\ SweepWindow \in Nat /\ Window =< SweepWindow
  BY <1>2, LimiterNumbers
<1>4. ASSUME NEW i \in 1..Len(g) PROVE g[i] + Window =< time
  <2>1. CASE i =< d
    BY <1>1, <2>1
  <2>2. CASE i > d
    <3>1. Len(h) > 0 /\ Len(g) \in 1..Len(g) /\ h[Len(h)] = g[Len(g)]
      <4>1. Len(h) > 0 /\ Len(g) \in 1..Len(g) /\ d + Len(h) = Len(g) /\ Len(h) \in 1..Len(h)
        BY <1>1, <1>3, <2>2
      <4> QED
        BY <1>1, <4>1
    <3>2. g[Len(g)] =< time - SweepWindow /\ g[i] =< g[Len(g)] /\ g[i] \in Nat /\ g[Len(g)] \in Nat
      <4>1. h # <<>>
        BY <3>1
      <4>2. g[i] =< g[Len(g)]
        BY <1>3, <3>1 DEF Rising
      <4> QED
        BY <1>2, <1>3, <3>1, <4>1, <4>2
    <3> QED
      BY <1>3, <3>2
  <2> QED
    BY <1>1, <1>3, <2>1, <2>2
<1> DEFINE none == <<>>
<1>5. Len(g) \in 0..Len(g) /\ Len(none) = Len(g) - Len(g) /\ \A i \in 1..Len(none) : none[i] = g[Len(g) + i]
  BY <1>3
<1> HIDE DEF none
<1>6. Remembers(none, g, time)
  BY <1>4, <1>5 DEF Remembers
<1> QED
  BY <1>6 DEF h, none

LEMMA LimiterSweep == LimiterInv /\ Limiter!Sweep => LimiterInv'
<1> SUFFICES ASSUME LimiterInv, Limiter!Sweep PROVE LimiterInv'
  OBVIOUS
<1> DEFINE E == [key : Key, hits : Seq(Nat)]
           S == { entry \in Limiter!Entries : ~Limiter!Stale(entry) }
           s == Filter(store, S)
<1>1. /\ time' = time /\ granted' = granted /\ retryAt' = retryAt /\ store' = s
      /\ time \in Nat /\ GrantsOK(granted, time) /\ StoreOK(store, time, granted, retryAt)
      /\ Len(store) =< MaxKeys
  BY LimiterFilter DEF LimiterInv, Limiter!Sweep
<1>2. store \in Seq(E) /\ DOMAIN store = 1..Len(store) /\ Len(store) \in Nat
  <2>1. store \in Seq(E)
    BY <1>1 DEF StoreOK
  <2> HIDE DEF E
  <2> QED
    BY <2>1
<1>3. \A j \in 1..Len(store) : store[j] \in S <=> ~Limiter!Stale(store[j])
  BY <1>2 DEF Limiter!Entries
<1> HIDE DEF E, S
<1>4. s \in Seq(E)
  BY <1>2, FilterEmbeds
<1>5. PICK e : Embeds(e, s, store, S)
  BY <1>2, FilterEmbeds
<1> HIDE DEF s
<1>6. ASSUME NEW i \in 1..Len(s), NEW j \in 1..Len(s), s[i].key = s[j].key PROVE i = j
  <2>1. e[i] \in 1..Len(store) /\ e[j] \in 1..Len(store) /\ s[i] = store[e[i]] /\ s[j] = store[e[j]]
    BY <1>5 DEF Embeds
  <2>2. e[i] = e[j] /\ e[i] \in Nat
    <3>1. \A a, b \in 1..Len(store) : store[a].key = store[b].key => a = b
      BY <1>1 DEF StoreOK
    <3> QED
      BY <1>6, <2>1, <3>1
  <2>3. Len(s) \in Nat /\ (i < j => e[i] < e[j]) /\ (j < i => e[j] < e[i])
    BY <1>4, <1>5 DEF Embeds
  <2> QED
    BY <2>2, <2>3
<1>7. \A i \in 1..Len(s) : EntryOK(s[i], time, granted, retryAt)
  BY <1>1, <1>5 DEF StoreOK, Embeds
<1>8. ASSUME NEW k \in Key, \A i \in 1..Len(s) : s[i].key # k PROVE Remembers(<<>>, granted[k], time)
  <2>1. CASE \A j \in 1..Len(store) : store[j].key # k
    BY <1>1, <2>1 DEF StoreOK
  <2>2. ASSUME NEW j \in 1..Len(store), store[j].key = k PROVE Remembers(<<>>, granted[k], time)
    <3>1. Limiter!Stale(store[j])
      <4> SUFFICES ASSUME ~Limiter!Stale(store[j]) PROVE FALSE
        OBVIOUS
      <4>1. PICK i \in 1..Len(s) : e[i] = j
        BY <1>3, <1>5 DEF Embeds
      <4>2. s[i] = store[j]
        BY <1>5, <4>1 DEF Embeds
      <4> QED
        BY <1>8, <2>2, <4>2
    <3>2. store[j].hits \in Seq(Nat)
      <4>1. store[j] \in E
        BY <1>2, <2>2, ElementOf
      <4> QED
        BY <4>1 DEF E
    <3>3. granted[k] \in Seq(Nat) /\ Rising(granted[k]) /\ Remembers(store[j].hits, granted[k], time)
      BY <1>1, <2>2 DEF GrantsOK, StoreOK, EntryOK
    <3> QED
      BY <1>1, <3>1, <3>2, <3>3, StaleForgotten
  <2> QED
    BY <2>1, <2>2
<1>9. Len(s) =< Len(store)
  <2>1. Len(s) \in Nat /\ e \in [1..Len(s) -> 1..Len(store)] /\ \A i, j \in 1..Len(s) : i < j => e[i] < e[j]
    BY <1>4, <1>5 DEF Embeds
  <2> QED
    BY <1>2, <2>1, StrictlyBounded
<1>10. StoreOK(s, time, granted, retryAt)
  BY <1>4, <1>6, <1>7, <1>8 DEF StoreOK, E
<1>11. Len(s) =< MaxKeys
  BY <1>1, <1>2, <1>4, <1>9, LimiterNumbers
<1> QED
  BY <1>1, <1>10, <1>11 DEF LimiterInv

LEMMA LimiterReject == ASSUME NEW k \in Key, LimiterInv, Limiter!Reject(k) PROVE LimiterInv'
<1> DEFINE h == Limiter!Recent(k)
           s == Limiter!Set(k, h)
<1>1. /\ Len(h) >= Limit /\ store' = s /\ retryAt' = [retryAt EXCEPT ![k] = h[1] + Window]
      /\ time' = time /\ granted' = granted
      /\ time \in Nat /\ GrantsOK(granted, time) /\ StoreOK(store, time, granted, retryAt)
      /\ Len(store) =< MaxKeys /\ retryAt \in [Key -> Nat \cup {Limiter!Never}]
  BY DEF LimiterInv, Limiter!Reject
<1>2. h \in Seq(Nat) /\ Len(h) =< Limit /\ Remembers(h, granted[k], time)
  BY RecentRemembers
<1>3. /\ s \in Seq([key : Key, hits : Seq(Nat)])
      /\ \A i, j \in 1..Len(s) : s[i].key = s[j].key => i = j
      /\ \A i \in 1..Len(s) :
           IF s[i].key = k THEN s[i].hits = h ELSE \E j \in 1..Len(store) : s[i] = store[j]
      /\ \A j \in 1..Len(store) : \E i \in 1..Len(s) : s[i].key = store[j].key
      /\ \E i \in 1..Len(s) : s[i].key = k
      /\ (\E j \in 1..Len(store) : store[j].key = k) => Len(s) = Len(store)
  BY <1>2, SetEntries
<1>4. Limit \in Nat /\ Limit >= 1 /\ Window \in Nat
  BY LimiterNumbers
<1>5. h # <<>>
  BY <1>1, <1>4
<1>6. Len(s) = Len(store)
  <2>1. \E j \in 1..Len(store) : store[j].key = k
    BY <1>1, <1>5, RecentOf
  <2> QED
    BY <1>3, <2>1
<1> HIDE DEF h, s
<1>7. h[1] \in Nat
  BY <1>2, <1>5
<1>8. /\ retryAt' \in [Key -> Nat \cup {Limiter!Never}] /\ retryAt'[k] = h[1] + Window
      /\ \A q \in Key : q # k => retryAt'[q] = retryAt[q]
  BY <1>1, <1>4, <1>7
<1>9. ASSUME NEW i \in 1..Len(s) PROVE EntryOK(s[i], time, granted, retryAt')
  <2>1. CASE s[i].key = k
    <3>1. s[i].hits = h
      BY <1>3, <2>1
    <3> QED
      BY <1>2, <1>4, <1>7, <1>8, <2>1, <3>1 DEF EntryOK, FreedAt
  <2>2. CASE s[i].key # k
    <3>1. PICK j \in 1..Len(store) : s[i] = store[j]
      BY <1>3, <2>2
    <3>2. EntryOK(s[i], time, granted, retryAt) /\ s[i].key \in Key
      <4>1. EntryOK(s[i], time, granted, retryAt)
        BY <1>1, <3>1 DEF StoreOK
      <4>2. s[i] \in [key : Key, hits : Seq(Nat)]
        BY <1>3, ElementOf
      <4> QED
        BY <4>1, <4>2
    <3> QED
      BY <1>8, <2>2, <3>2 DEF EntryOK
  <2> QED
    BY <2>1, <2>2
<1>10. ASSUME NEW q \in Key, \A i \in 1..Len(s) : s[i].key # q PROVE Remembers(<<>>, granted[q], time)
  <2>1. ASSUME NEW j \in 1..Len(store) PROVE store[j].key # q
    <3>1. PICK i \in 1..Len(s) : s[i].key = store[j].key
      BY <1>3
    <3> QED
      BY <1>10, <3>1
  <2> QED
    BY <1>1, <2>1 DEF StoreOK
<1>11. StoreOK(s, time, granted, retryAt')
  BY <1>3, <1>9, <1>10 DEF StoreOK
<1> QED
  BY <1>1, <1>6, <1>8, <1>11 DEF LimiterInv

(* The newest entries of a sequence, as the cap leaves them. *)
LEMMA EvictedEntries ==
  ASSUME NEW E, NEW s \in Seq(E)
  PROVE  LET c == Limiter!Evicted(s) IN
         /\ c \in Seq(E) /\ Len(c) =< MaxKeys
         /\ \E x \in Nat : \A i \in 1..Len(c) : x + i \in 1..Len(s) /\ c[i] = s[x + i]
<1> DEFINE c == Limiter!Evicted(s)
<1>1. Len(s) \in Nat /\ MaxKeys \in Nat /\ 0 \in Nat
  BY LimiterNumbers
<1> DEFINE Goal(x) == \A i \in 1..Len(c) : x + i \in 1..Len(s) /\ c[i] = s[x + i]
<1>2. c \in Seq(E) /\ Len(c) =< MaxKeys /\ \E x \in Nat : Goal(x)
  <2>1. CASE Len(s) =< MaxKeys
    <3>1. c = s
      BY <1>1, <2>1 DEF Limiter!Evicted
    <3> HIDE DEF c
    <3>2. Goal(0) /\ c \in Seq(E) /\ Len(c) =< MaxKeys
      BY <1>1, <2>1, <3>1
    <3> HIDE DEF Goal
    <3> QED
      BY <1>1, <3>2
  <2>2. CASE Len(s) > MaxKeys
    <3> DEFINE x == Len(s) - MaxKeys
    <3>1. x \in Nat /\ x + 1 \in 1..(Len(s) + 1)
      BY <1>1, <2>2
    <3>2. c = SubSeq(s, x + 1, Len(s))
      BY <1>1, <2>2 DEF Limiter!Evicted
    <3> HIDE DEF c
    <3>3. /\ c \in Seq(E)
          /\ Len(c) = MaxKeys
          /\ \A i \in 1..MaxKeys : c[i] = s[x + i]
      BY <1>1, <2>2, <3>1, <3>2
    <3>4. \A i \in 1..MaxKeys : x + i \in 1..Len(s)
      BY <1>1, <2>2
    <3> HIDE DEF x
    <3>5. Goal(x) /\ Len(c) =< MaxKeys
      BY <1>1, <3>3, <3>4
    <3> HIDE DEF Goal
    <3> QED
      BY <3>1, <3>3, <3>5
  <2> QED
    BY <1>1, <2>1, <2>2
<1> QED
  BY <1>2

LEMMA LimiterGrant == ASSUME NEW k \in Key, LimiterInv, Limiter!Grant(k) PROVE LimiterInv'
<1> DEFINE h == Limiter!Recent(k)
           o == Append(h, time)
           s == Limiter!Set(k, o)
           c == Limiter!Evicted(s)
           E == [key : Key, hits : Seq(Nat)]
           evicted == (Limiter!Keys(store) \cup {k}) \ Limiter!Keys(c)
<1>1. /\ Len(h) < Limit /\ store' = c /\ time' = time
      /\ granted' = [q \in Key |-> IF q \in evicted THEN <<>>
                                   ELSE IF q = k THEN Append(granted[k], time)
                                   ELSE granted[q]]
      /\ retryAt' = [retryAt EXCEPT ![k] = Limiter!Never]
  BY DEF Limiter!Grant
<1>2. /\ time \in Nat /\ GrantsOK(granted, time) /\ StoreOK(store, time, granted, retryAt)
      /\ retryAt \in [Key -> Nat \cup {Limiter!Never}]
  BY DEF LimiterInv
<1>3. h \in Seq(Nat) /\ Remembers(h, granted[k], time)
  BY RecentRemembers
<1>4. o \in Seq(Nat) /\ Len(o) =< Limit
  <2>1. Limit \in Nat
    BY LimiterNumbers
  <2> QED
    BY <1>1, <1>2, <1>3, <2>1
<1>5. /\ s \in Seq(E)
      /\ \A i, j \in 1..Len(s) : s[i].key = s[j].key => i = j
      /\ \A i \in 1..Len(s) :
           IF s[i].key = k THEN s[i].hits = o ELSE \E j \in 1..Len(store) : s[i] = store[j]
  BY <1>4, SetEntries
<1>6. c \in Seq(E) /\ Len(c) =< MaxKeys
  <2> HIDE DEF E
  <2> QED
    BY <1>5, EvictedEntries
<1>7. PICK x \in Nat : \A i \in 1..Len(c) : x + i \in 1..Len(s) /\ c[i] = s[x + i]
  <2> HIDE DEF E
  <2> QED
    BY <1>5, EvictedEntries
<1>8. Limiter!Keys(c) = { c[i].key : i \in 1..Len(c) }
  <2>1. DOMAIN c = 1..Len(c)
    <3> HIDE DEF c, E
    <3> QED
      BY <1>6
  <2> QED
    BY <2>1 DEF Limiter!Keys
<1>9. Limiter!Keys(store) = { store[i].key : i \in 1..Len(store) }
  <2>1. DOMAIN store = 1..Len(store)
    BY <1>2 DEF StoreOK
  <2> QED
    BY <2>1 DEF Limiter!Keys
<1> HIDE DEF h, o, s, c
<1>10. \A i, j \in 1..Len(c) : c[i].key = c[j].key => i = j
  <2> SUFFICES ASSUME NEW i \in 1..Len(c), NEW j \in 1..Len(c), c[i].key = c[j].key PROVE i = j
    OBVIOUS
  <2>1. x + i \in 1..Len(s) /\ x + j \in 1..Len(s) /\ s[x + i].key = s[x + j].key
    BY <1>7
  <2>2. x + i = x + j
    BY <1>5, <2>1
  <2>3. i \in Int /\ j \in Int
    OBVIOUS
  <2> QED
    BY <2>2, <2>3
<1>11. \A i \in 1..Len(c) :
         IF c[i].key = k THEN c[i].hits = o ELSE \E j \in 1..Len(store) : c[i] = store[j]
  <2> SUFFICES ASSUME NEW i \in 1..Len(c)
               PROVE  IF c[i].key = k THEN c[i].hits = o ELSE \E j \in 1..Len(store) : c[i] = store[j]
    OBVIOUS
  <2>1. PICK y \in 1..Len(s) : c[i] = s[y]
    BY <1>7
  <2> QED
    BY <1>5, <2>1
<1>12. \A i \in 1..Len(c) : c[i].key \in Key /\ c[i].key \notin evicted
  <2> SUFFICES ASSUME NEW i \in 1..Len(c) PROVE c[i].key \in Key /\ c[i].key \notin evicted
    OBVIOUS
  <2>1. c[i] \in E
    <3> HIDE DEF E
    <3> QED
      BY <1>6, ElementOf
  <2> QED
    BY <1>8, <2>1
<1>13. /\ retryAt' \in [Key -> Nat \cup {Limiter!Never}] /\ retryAt'[k] = Limiter!Never
       /\ \A q \in Key : q # k => retryAt'[q] = retryAt[q]
  BY <1>1, <1>2
<1> DEFINE g == granted[k]
<1>14. g \in Seq(Nat) /\ Rising(g) /\ Spread(g) /\ \A i \in 1..Len(g) : g[i] =< time
  BY <1>2 DEF GrantsOK
<1>15. Rising(Append(g, time)) /\ \A i \in 1..Len(Append(g, time)) : Append(g, time)[i] =< time
  <2> HIDE DEF g
  <2> QED
    BY <1>2, <1>14, RisingAppend
<1>16. Spread(Append(g, time)) /\ Remembers(o, Append(g, time), time)
  <2>1. PICK d \in 0..Len(g) :
          /\ Len(h) = Len(g) - d
          /\ \A i \in 1..Len(h) : h[i] = g[d + i]
          /\ \A i \in 1..d : g[i] + Window =< time
    BY <1>3 DEF Remembers
  <2> HIDE DEF g
  <2>2. Spread(Append(g, time))
    BY <1>1, <1>2, <1>14, <2>1, SpreadAppend
  <2>3. Remembers(Append(h, time), Append(g, time), time)
    BY <1>2, <1>3, <1>14, <2>1, RemembersAppend
  <2> QED
    BY <2>2, <2>3 DEF o
<1>17. /\ \A q \in Key : q \in evicted => granted'[q] = <<>>
       /\ \A q \in Key : q \notin evicted /\ q # k => granted'[q] = granted[q]
       /\ k \notin evicted => granted'[k] = Append(g, time)
       /\ granted' = [q \in Key |-> granted'[q]]
  BY <1>1
<1> HIDE DEF evicted, g
<1>18. GrantsOK(granted', time)
  <2>1. ASSUME NEW q \in Key
        PROVE  /\ granted'[q] \in Seq(Nat) /\ Rising(granted'[q]) /\ Spread(granted'[q])
               /\ \A i \in 1..Len(granted'[q]) : granted'[q][i] =< time
    <3>1. CASE q \in evicted
      <4>1. granted'[q] = <<>>
        BY <1>17, <3>1
      <4>2. Rising(<<>>) /\ Spread(<<>>) /\ <<>> \in Seq(Nat) /\ Len(<<>>) = 0
        BY DEF Rising, Spread
      <4> QED
        BY <4>1, <4>2
    <3>2. CASE q \notin evicted /\ q # k
      <4>1. granted'[q] = granted[q]
        BY <1>17, <3>2
      <4> QED
        BY <1>2, <4>1 DEF GrantsOK
    <3>3. CASE q \notin evicted /\ q = k
      <4>1. granted'[q] = Append(g, time)
        BY <1>17, <3>3
      <4>2. Append(g, time) \in Seq(Nat)
        BY <1>2, <1>14
      <4> QED
        BY <1>15, <1>16, <4>1, <4>2
    <3> QED
      BY <3>1, <3>2, <3>3
  <2>2. granted' \in [Key -> Seq(Nat)]
    BY <1>17, <2>1
  <2> QED
    BY <2>1, <2>2 DEF GrantsOK
<1>19. ASSUME NEW i \in 1..Len(c) PROVE EntryOK(c[i], time, granted', retryAt')
  <2>1. CASE c[i].key = k
    <3>1. c[i].hits = o /\ granted'[k] = Append(g, time)
      BY <1>11, <1>12, <1>17, <2>1
    <3> QED
      BY <1>4, <1>13, <1>16, <2>1, <3>1 DEF EntryOK, FreedAt
  <2>2. CASE c[i].key # k
    <3>1. PICK j \in 1..Len(store) : c[i] = store[j]
      BY <1>11, <2>2
    <3>2. EntryOK(c[i], time, granted, retryAt)
      BY <1>2, <3>1 DEF StoreOK
    <3>3. granted'[c[i].key] = granted[c[i].key] /\ retryAt'[c[i].key] = retryAt[c[i].key]
      BY <1>12, <1>13, <1>17, <2>2
    <3> QED
      BY <3>2, <3>3 DEF EntryOK
  <2> QED
    BY <2>1, <2>2
<1>20. ASSUME NEW q \in Key, \A i \in 1..Len(c) : c[i].key # q PROVE Remembers(<<>>, granted'[q], time)
  <2>1. q \notin Limiter!Keys(c)
    BY <1>8, <1>20
  <2>2. CASE q \in evicted
    <3>1. granted'[q] = <<>>
      BY <1>17, <2>2
    <3> QED
      BY <3>1 DEF Remembers
  <2>3. CASE q \notin evicted
    <3>1. q \notin Limiter!Keys(store) /\ q # k
      BY <2>1, <2>3 DEF evicted
    <3>2. \A j \in 1..Len(store) : store[j].key # q
      BY <1>9, <3>1
    <3>3. granted'[q] = granted[q]
      BY <1>17, <2>3, <3>1
    <3> QED
      BY <1>2, <3>2, <3>3 DEF StoreOK
  <2> QED
    BY <2>2, <2>3
<1>21. StoreOK(c, time, granted', retryAt')
  BY <1>6, <1>10, <1>19, <1>20 DEF StoreOK
<1> QED
  BY <1>1, <1>2, <1>6, <1>13, <1>18, <1>21 DEF LimiterInv

LEMMA LimiterNext == LimiterInv /\ [Limiter!Next]_(Limiter!vars) => LimiterInv'
<1> SUFFICES ASSUME LimiterInv, [Limiter!Next]_(Limiter!vars) PROVE LimiterInv'
  OBVIOUS
<1>1. CASE UNCHANGED Limiter!vars
  BY <1>1 DEF Limiter!vars, LimiterInv
<1> QED
  BY <1>1, LimiterTick, LimiterSweep, LimiterReject, LimiterGrant DEF Limiter!Next

LEMMA LimiterIsHonest == LimiterInv => LimiterHonest
<1> SUFFICES ASSUME LimiterInv PROVE LimiterHonest
  OBVIOUS
<1>1. Limiter!LimitHeld
  BY DEF LimiterInv, GrantsOK, Spread, Limiter!LimitHeld
<1>2. Limiter!RetryAfterHonest
  BY RecentRemembers, LimiterNumbers DEF Limiter!RetryAfterHonest
<1> QED
  BY <1>1, <1>2 DEF LimiterHonest

LEMMA LimiterKeeps == Limiter!Spec => []LimiterInv
BY LimiterInit, LimiterNext, PTL DEF Limiter!Spec

LEMMA LimiterTypes == LimiterInv => Limiter!TypeOK
<1> SUFFICES ASSUME LimiterInv PROVE Limiter!TypeOK
  OBVIOUS
<1>1. store \in Seq([key : Key, hits : Seq(Nat)]) /\ \A i \in 1..Len(store) : Len(store[i].hits) =< Limit
  BY DEF LimiterInv, StoreOK, EntryOK
<1>2. DOMAIN store = 1..Len(store)
  BY <1>1
<1> QED
  BY <1>1, <1>2 DEF LimiterInv, GrantsOK, Limiter!TypeOK

-----------------------------------------------------------------------------
(* The poll loop. *)
LEMMA LoopFilter == \A s, S : Loop!Filter(s, S) = Filter(s, S)
BY DEF Loop!Filter, Filter

(* The sources a round still polls are registered, each once, and none of them *)
(* is disabled; a round begins only when there is one. *)
LoopInv ==
  /\ sources \in Seq(Source) /\ disabled \subseteq Source
  /\ \A i, j \in 1..Len(sources) : sources[i] = sources[j] => i = j
  /\ queue \in Seq(Source \ disabled)
  /\ \A i, j \in 1..Len(queue) : queue[i] = queue[j] => i = j
  /\ ~polling => queue = <<>>
  /\ polling /\ queue = <<>> => Loop!Active # <<>>

LEMMA ActiveFilter == Loop!Active = Filter(sources, Source \ disabled)
BY LoopFilter DEF Loop!Active

LEMMA ActiveIs ==
  ASSUME NEW D, NEW s \in Seq(Source), \A i, j \in 1..Len(s) : s[i] = s[j] => i = j
  PROVE  LET a == Filter(s, Source \ D) IN
         /\ a \in Seq(Source \ D)
         /\ \A i, j \in 1..Len(a) : a[i] = a[j] => i = j
         /\ a = <<>> <=> \A i \in 1..Len(s) : s[i] \in D
<1> DEFINE S == Source \ D
           a == Filter(s, S)
<1>2. \A i \in 1..Len(s) : s[i] \in S <=> s[i] \notin D
  OBVIOUS
<1>0. Len(s) \in Nat
  OBVIOUS
<1> HIDE DEF S
<1>3. a \in Seq(Source)
  BY FilterEmbeds
<1>4. PICK e : Embeds(e, a, s, S)
  BY FilterEmbeds
<1> HIDE DEF a
<1>5. a \in Seq(S)
  <2>1. \A i \in 1..Len(a) : a[i] \in S
    BY <1>4 DEF Embeds
  <2> QED
    BY <1>3, <2>1
<1>6. ASSUME NEW i \in 1..Len(a), NEW j \in 1..Len(a), a[i] = a[j] PROVE i = j
  <2>1. e[i] \in 1..Len(s) /\ e[j] \in 1..Len(s) /\ a[i] = s[e[i]] /\ a[j] = s[e[j]]
    BY <1>4 DEF Embeds
  <2>2. e[i] = e[j]
    <3>1. s[e[i]] = s[e[j]]
      BY <1>6, <2>1
    <3> QED
      BY <2>1, <3>1
  <2>4. e[i] \in Nat
    BY <2>1
  <2>3. Len(a) \in Nat /\ (i < j => e[i] < e[j]) /\ (j < i => e[j] < e[i])
    BY <1>3, <1>4 DEF Embeds
  <2> QED
    BY <2>2, <2>3, <2>4
<1>7. a = <<>> <=> \A i \in 1..Len(s) : s[i] \in D
  <2>1. a = <<>> <=> Len(a) = 0
    BY <1>3
  <2>2. ASSUME Len(a) = 0, NEW i \in 1..Len(s) PROVE s[i] \in D
    BY <1>2, <1>4, <2>2 DEF Embeds
  <2>3. ASSUME Len(a) # 0 PROVE \E i \in 1..Len(s) : s[i] \notin D
    <3>1. 1 \in 1..Len(a)
      BY <1>3, <2>3
    <3>2. e[1] \in 1..Len(s) /\ s[e[1]] \in S
      BY <1>4, <3>1 DEF Embeds
    <3> QED
      BY <1>2, <3>2
  <2> QED
    BY <2>1, <2>2, <2>3
<1> QED
  BY <1>5, <1>6, <1>7 DEF S, a

LEMMA LoopInit == Loop!Init => LoopInv
<1> SUFFICES ASSUME Loop!Init PROVE LoopInv
  OBVIOUS
<1> QED
  BY DEF Loop!Init, LoopInv

(* What is left of the round once its first source is done. *)
LEMMA RestOfQueue ==
  ASSUME LoopInv, queue # <<>>
  PROVE  /\ Head(queue) \in Source /\ Tail(queue) \in Seq(Source \ disabled)
         /\ \A i \in 1..Len(Tail(queue)) : Tail(queue)[i] # Head(queue)
         /\ \A i, j \in 1..Len(Tail(queue)) : Tail(queue)[i] = Tail(queue)[j] => i = j
<1> DEFINE q == queue
           S == Source \ disabled
<1>1. q \in Seq(S) /\ q # <<>> /\ \A i, j \in 1..Len(q) : q[i] = q[j] => i = j
  BY DEF LoopInv
<1>2. \A x \in S : x \in Source
  OBVIOUS
<1> HIDE DEF q, S
<1>3. /\ Head(q) = q[1] /\ q[1] \in S /\ Tail(q) \in Seq(S) /\ Len(q) \in Nat /\ Len(Tail(q)) = Len(q) - 1
      /\ \A i \in 1..(Len(q) - 1) : Tail(q)[i] = q[i + 1]
  BY <1>1
<1>4. \A i \in 1..(Len(q) - 1) : i + 1 \in 1..Len(q) /\ i + 1 # 1 /\ 1 \in 1..Len(q) /\ i \in Nat
  BY <1>3
<1>5. \A i \in 1..Len(Tail(q)) : Tail(q)[i] # Head(q)
  BY <1>1, <1>3, <1>4
<1>6. ASSUME NEW i \in 1..Len(Tail(q)), NEW j \in 1..Len(Tail(q)), Tail(q)[i] = Tail(q)[j] PROVE i = j
  <2>1. q[i + 1] = q[j + 1] /\ i + 1 \in 1..Len(q) /\ j + 1 \in 1..Len(q)
    BY <1>3, <1>4, <1>6
  <2>2. i + 1 = j + 1 /\ i \in Nat /\ j \in Nat
    BY <1>1, <1>3, <1>4, <2>1
  <2> QED
    BY <2>2
<1> QED
  BY <1>2, <1>3, <1>5, <1>6 DEF q, S

(* The end of a source's turn, after which it may be disabled. *)
LEMMA TurnEnds ==
  ASSUME LoopInv, polling, queue # <<>>, sources' = sources,
         disabled' = disabled \/ disabled' = disabled \cup {Head(queue)},
         NEW failed, NEW error, Loop!NextSource(failed, error)
  PROVE  LoopInv'
<1>1. disabled' \subseteq Source
  BY RestOfQueue DEF LoopInv
<1>2. (queue' = <<>> /\ polling' = FALSE) \/ (queue' = Tail(queue) /\ Tail(queue) # <<>> /\ polling' = polling)
  BY DEF Loop!NextSource, Loop!EndRound
<1>3. CASE queue' = <<>> /\ polling' = FALSE
  BY <1>1, <1>3 DEF LoopInv
<1>4. CASE queue' = Tail(queue) /\ Tail(queue) # <<>> /\ polling' = polling
  <2> DEFINE t == Tail(queue)
             h == Head(queue)
  <2>1. /\ t \in Seq(Source \ disabled) /\ \A i \in 1..Len(t) : t[i] # h
        /\ \A i, j \in 1..Len(t) : t[i] = t[j] => i = j
    BY RestOfQueue
  <2> HIDE DEF t, h
  <2>2. t \in Seq(Source \ disabled')
    <3>1. \A i \in 1..Len(t) : t[i] \in Source \ disabled /\ t[i] \in Source \ disabled'
      BY <2>1 DEF h
    <3> QED
      BY <2>1, <3>1
  <2>3. queue' = t /\ t # <<>>
    BY <1>4 DEF t
  <2> QED
    BY <1>1, <1>4, <2>1, <2>2, <2>3 DEF LoopInv
<1> QED
  BY <1>2, <1>3, <1>4

LEMMA LoopNext == LoopInv /\ [Loop!Next]_(Loop!vars) => LoopInv'
<1> SUFFICES ASSUME LoopInv, [Loop!Next]_(Loop!vars) PROVE LoopInv'
  OBVIOUS
<1> USE DEF Loop!serviceVars, Loop!chainVars, Loop!roundVars, Loop!metricVars
<1>0. sources \in Seq(Source) /\ \A i, j \in 1..Len(sources) : sources[i] = sources[j] => i = j
  BY DEF LoopInv
<1>1. ASSUME UNCHANGED <<sources, disabled, polling, queue>> PROVE LoopInv'
  BY <1>1 DEF LoopInv, Loop!Active
<1>2. CASE Loop!NewBlock \/ Loop!OnModuleInit \/ Loop!SkippedTick \/ Loop!IdlePoll \/ UNCHANGED Loop!vars
  BY <1>1, <1>2 DEF Loop!NewBlock, Loop!OnModuleInit, Loop!SkippedTick, Loop!IdlePoll, Loop!vars
<1>3. ASSUME NEW s \in Source, Loop!RegisterSource(s) PROVE LoopInv'
  <2>1. /\ UNCHANGED <<disabled, polling, queue>> /\ sources' = Append(sources, s)
        /\ \A i \in DOMAIN sources : sources[i] # s
    BY <1>3 DEF Loop!RegisterSource
  <2> DEFINE t == Append(sources, s)
  <2>2. /\ t \in Seq(Source) /\ Len(sources) \in Nat /\ Len(t) = Len(sources) + 1 /\ t[Len(sources) + 1] = s
        /\ DOMAIN sources = 1..Len(sources)
        /\ \A i \in 1..Len(sources) : t[i] = sources[i]
        /\ \A i \in 1..Len(t) : i = Len(sources) + 1 \/ i \in 1..Len(sources)
    BY <1>0
  <2> HIDE DEF t
  <2>3. \A i, j \in 1..Len(t) : t[i] = t[j] => i = j
    BY <1>0, <2>1, <2>2
  <2>4. sources' = t
    BY <2>1 DEF t
  <2>5. ASSUME polling, queue = <<>> PROVE Loop!Active' # <<>>
    <3>1. ~ \A i \in 1..Len(sources) : sources[i] \in disabled
      BY <1>0, <2>5, ActiveIs, ActiveFilter DEF LoopInv
    <3>2. PICK i \in 1..Len(sources) : sources[i] \notin disabled
      BY <3>1
    <3>3. i \in 1..Len(t) /\ t[i] \notin disabled
      BY <2>2, <3>2
    <3>4. Loop!Active' = <<>> <=> \A j \in 1..Len(sources') : sources'[j] \in disabled'
      <4>1. sources' \in Seq(Source) /\ \A j, k \in 1..Len(sources') : sources'[j] = sources'[k] => j = k
        BY <2>2, <2>3, <2>4
      <4>2. Loop!Active' = Filter(sources', Source \ disabled')
        BY ActiveFilter, LoopFilter DEF Loop!Active
      <4> QED
        BY <4>1, <4>2, ActiveIs
    <3> QED
      BY <2>1, <2>4, <3>3, <3>4
  <2> QED
    BY <2>1, <2>2, <2>3, <2>4, <2>5 DEF LoopInv
<1>4. CASE Loop!TimerPoll \/ Loop!ForcedPoll
  <2>1. UNCHANGED <<sources, disabled>> /\ Loop!Active # <<>> /\ queue' = <<>> /\ polling' = TRUE
    BY <1>4 DEF Loop!TimerPoll, Loop!ForcedPoll, Loop!PollOnce
  <2>2. Loop!Active' = Loop!Active
    BY <2>1 DEF Loop!Active
  <2> QED
    BY <2>1, <2>2 DEF LoopInv
<1>5. CASE Loop!HeadKnown
  <2>1. UNCHANGED <<sources, disabled>> /\ Loop!Active # <<>> /\ polling /\ queue = <<>>
    BY <1>5 DEF Loop!HeadKnown, LoopInv
  <2>2. CASE stopping
    BY <1>5, <2>1, <2>2 DEF Loop!HeadKnown, LoopInv
  <2>3. CASE ~stopping
    <3>1. queue' = Loop!Active /\ polling' = polling
      BY <1>5, <2>3 DEF Loop!HeadKnown
    <3> DEFINE a == Loop!Active
    <3>2. a \in Seq(Source \ disabled) /\ \A i, j \in 1..Len(a) : a[i] = a[j] => i = j
      BY <1>0, ActiveIs, ActiveFilter
    <3>3. a # <<>> /\ queue' = a
      BY <2>1, <3>1
    <3> HIDE DEF a
    <3> QED
      BY <2>1, <3>1, <3>2, <3>3 DEF LoopInv
  <2> QED
    BY <2>2, <2>3
<1>6. CASE Loop!HeadFails
  <2>1. UNCHANGED <<sources, disabled>> /\ queue' = <<>> /\ polling' = FALSE
    BY <1>6 DEF Loop!HeadFails, Loop!EndRound
  <2> QED
    BY <2>1 DEF LoopInv
<1>7. CASE Loop!SourceSucceeds \/ Loop!SourceFails \/ Loop!SourceCorrupt
  <2>1. /\ polling /\ queue # <<>> /\ sources' = sources
        /\ disabled' = disabled \/ disabled' = disabled \cup {Head(queue)}
        /\ \E failed, error : Loop!NextSource(failed, error)
    BY <1>7 DEF Loop!SourceSucceeds, Loop!SourceFails, Loop!SourceCorrupt
  <2> QED
    BY <2>1, TurnEnds
<1>8. CASE Loop!OnModuleDestroy \/ Loop!Exit
  BY <1>1, <1>8 DEF Loop!OnModuleDestroy, Loop!Exit
<1>9. CASE Loop!Crash
  <2>1. UNCHANGED <<sources, disabled>> /\ queue' = <<>> /\ polling' = FALSE
    BY <1>9 DEF Loop!Crash
  <2> QED
    BY <2>1 DEF LoopInv
<1>10. CASE Loop!StartProcess
  <2>1. sources' = <<>> /\ disabled' = {} /\ queue' = <<>> /\ polling' = FALSE
    BY <1>10 DEF Loop!StartProcess
  <2> QED
    BY <2>1 DEF LoopInv
<1> QED
  BY <1>2, <1>3, <1>4, <1>5, <1>6, <1>7, <1>8, <1>9, <1>10 DEF Loop!Next, Loop!RoundStep

LEMMA LoopHonest == LoopInv => CorruptStoreUntouched
<1> SUFFICES ASSUME LoopInv, NEW s \in disabled, NEW i \in DOMAIN queue PROVE queue[i] # s
  BY DEF LoopInv, CorruptStoreUntouched, Loop!CorruptStoreUntouched
<1>1. queue[i] \in Source \ disabled
  BY DEF LoopInv
<1> QED
  BY <1>1

LEMMA LoopKeeps == Loop!Spec => []LoopInv
BY LoopInit, LoopNext, PTL DEF Loop!Spec

(* A round that has failed shows its error from then on, whatever the other  *)
(* sources do, and between rounds what is shown agrees.                      *)
ErrorInv ==
  /\ errors \in Nat
  /\ skip > 0 => errors > 0
  /\ polling /\ roundFailed => currentError
  /\ Loop!ErrorStateAgrees

LEMMA ErrorInit == Loop!Init => ErrorInv
BY DEF Loop!Init, ErrorInv, Loop!ErrorStateAgrees

(* The accounting at the end of a round agrees with itself, however the      *)
(* round went, if a failed one has an error to show.                         *)
LEMMA AccountingAgrees ==
  ASSUME ErrorInv,
         NEW failed, NEW error, failed => error, Loop!EndRound(failed, error)
  PROVE  ErrorInv'
<1>1. CASE failed
  <2>1. errors' \in Nat /\ errors' > 0 /\ currentError' = error /\ ~polling'
    BY <1>1, ServicesAssumption DEF Loop!EndRound, ErrorInv
  <2> QED
    BY <1>1, <2>1 DEF ErrorInv, Loop!ErrorStateAgrees
<1>2. CASE ~failed
  BY <1>2 DEF Loop!EndRound, ErrorInv, Loop!ErrorStateAgrees
<1> QED
  BY <1>1, <1>2

(* So does the end of a source's turn, at which the round may stop, go on or *)
(* be accounted for.                                                         *)
LEMMA NextSourceAgrees ==
  ASSUME ErrorInv, polling, UNCHANGED stopping,
         NEW failed, NEW error, failed => error, Loop!NextSource(failed, error)
  PROVE  ErrorInv'
<1>1. CASE Loop!EndRound(failed, error)
  BY <1>1, AccountingAgrees
<1>2. CASE ~Loop!EndRound(failed, error) /\ stopping
  BY <1>2 DEF Loop!NextSource, ErrorInv, Loop!ErrorStateAgrees
<1>3. CASE ~Loop!EndRound(failed, error) /\ ~stopping
  BY <1>3 DEF Loop!NextSource, ErrorInv, Loop!ErrorStateAgrees
<1> QED
  BY <1>1, <1>2, <1>3

LEMMA ErrorNext == ErrorInv /\ [Loop!Next]_(Loop!vars) => ErrorInv'
<1> SUFFICES ASSUME ErrorInv, [Loop!Next]_(Loop!vars) PROVE ErrorInv'
  OBVIOUS
<1> USE DEF Loop!serviceVars, Loop!chainVars, Loop!roundVars, Loop!metricVars
<1>1. CASE Loop!NewBlock \/ Loop!OnModuleInit \/ \E s \in Source : Loop!RegisterSource(s)
  BY <1>1 DEF Loop!NewBlock, Loop!OnModuleInit, Loop!RegisterSource, ErrorInv, Loop!ErrorStateAgrees
<1>2. CASE Loop!TimerPoll \/ Loop!ForcedPoll
  BY <1>2 DEF Loop!TimerPoll, Loop!ForcedPoll, Loop!PollOnce, ErrorInv, Loop!ErrorStateAgrees
<1>3. CASE Loop!SkippedTick
  BY <1>3 DEF Loop!SkippedTick, ErrorInv, Loop!ErrorStateAgrees
<1>4. CASE Loop!HeadKnown
  BY <1>4 DEF Loop!HeadKnown, ErrorInv, Loop!ErrorStateAgrees
<1>5. CASE Loop!HeadFails
  BY <1>5, AccountingAgrees DEF Loop!HeadFails
<1>6. CASE Loop!SourceSucceeds
  <2>1. polling /\ UNCHANGED stopping /\ Loop!NextSource(roundFailed, currentError)
    BY <1>6 DEF Loop!SourceSucceeds
  <2>2. roundFailed => currentError
    BY <2>1 DEF ErrorInv
  <2> QED
    BY <2>1, <2>2, NextSourceAgrees
<1>7. CASE Loop!SourceFails
  BY <1>7, NextSourceAgrees DEF Loop!SourceFails
<1>8. CASE Loop!SourceCorrupt
  BY <1>8, NextSourceAgrees DEF Loop!SourceCorrupt
<1>9. CASE Loop!OnModuleDestroy \/ Loop!Exit \/ Loop!Crash
  BY <1>9 DEF Loop!OnModuleDestroy, Loop!Exit, Loop!Crash, ErrorInv, Loop!ErrorStateAgrees
<1>10. CASE Loop!StartProcess
  BY <1>10 DEF Loop!StartProcess, ErrorInv, Loop!ErrorStateAgrees
<1>11. CASE UNCHANGED Loop!vars
  BY <1>11 DEF Loop!vars, ErrorInv, Loop!ErrorStateAgrees
<1>12. CASE Loop!IdlePoll
  BY <1>11, <1>12 DEF Loop!IdlePoll
<1> QED
  BY <1>1, <1>2, <1>3, <1>4, <1>5, <1>6, <1>7, <1>8, <1>9, <1>10, <1>11, <1>12 DEF Loop!Next, Loop!RoundStep

LEMMA ErrorKeeps == Loop!Spec => []ErrorInv
BY ErrorInit, ErrorNext, PTL DEF Loop!Spec

-----------------------------------------------------------------------------
(* The reader of the index. *)
LEMMA IndexFilter == \A s, S : Index!Filter(s, S) = Filter(s, S)
BY DEF Index!Filter, Filter

LEMMA IndexNumbers ==
  /\ PageSize \in Nat /\ PageSize >= 1 /\ MaxScan \in Nat /\ Depth \in Nat /\ Initial \in Nat
  /\ MaxEvents \in Nat /\ Initial =< MaxEvents /\ Reorgs \in Nat
BY ServicesAssumption

Event == 1..MaxEvents
Once(s) == \A i, j \in 1..Len(s) : s[i] = s[j] => i = j

(* The events a call with this limit asks for. *)
Asked(limit) == IF limit = 0 THEN Event ELSE Challenges

(* The page that starts after the first k events of s. *)
PageOf(s, k) == SubSeq(s, k + 1, IF k + PageSize < Len(s) THEN k + PageSize ELSE Len(s))

Fetching == {"query", "page", "count", "gather"}

(* The index has not changed since the call began: the answer so far is what *)
(* is asked for of the events scanned, and the last one of all of them.       *)
RestOK(r, s) ==
  /\ r.pc \in Fetching =>
       /\ r.scanned =< Len(s)
       /\ r.out = Filter(SubSeq(s, 1, r.scanned), Asked(r.limit))
  /\ r.pc \in {"count", "gather"} => r.page = PageOf(s, r.scanned)
  /\ r.pc \in {"page", "gather"} => r.total = Len(s)
  /\ r.pc = "done" /\ ~r.truncated =>
       IF r.limit = 0 THEN r.out = s
       ELSE LET current == Filter(s, Challenges)
            IN r.out = SubSeq(current, 1, IF r.limit < Len(current) THEN r.limit ELSE Len(current))

(* The index has only grown since the call began, and it was not empty: there *)
(* is a next page until all of it is scanned.                                 *)
CapOK(r, s) ==
  /\ r.pc \in {"query", "page"} => r.scanned < Len(s)
  /\ r.pc \in {"count", "gather"} => r.page # <<>>
  /\ r.pc \in {"page", "gather"} => r.total =< Len(s)
  /\ r.pc = "done" /\ r.truncated => r.scanned >= MaxScan

(* The page that is read but not yet returned.                                *)
Pending(r) == IF r.pc \in {"count", "gather"} THEN r.page ELSE <<>>

Seen(r) == Index!Elements(r.out) \cup Index!Elements(Pending(r))

(* With an event of o all the newer ones are in S. *)
NewerToo(o, S) == \A j \in 1..Len(o) : o[j] \in S => \A i \in 1..j : o[i] \in S

(* f tells where in s the events of o are. *)
Places(f, o, s) ==
  /\ f \in [1..Len(o) -> 1..Len(s)]
  /\ \A i, j \in 1..Len(o) : i =< j => f[i] =< f[j]
  /\ \A i \in 1..Len(o) : s[f[i]] = o[i]

(* The index has only grown: the events of the beginning that are among those *)
(* scanned have been seen.                                                    *)
GapOK(r, o, s) ==
  /\ NewerToo(o, Index!Elements(r.out))
  /\ r.pc \in Fetching =>
       /\ NewerToo(o, Seen(r))
       /\ \E f : /\ Places(f, o, s)
                 /\ \A i \in 1..Len(o) : f[i] =< r.scanned + Len(Pending(r)) => o[i] \in Seen(r)

Readers == [pc : Fetching \cup {"idle", "done"}, limit : Nat, out : Seq(Event), scanned : Nat,
            total : Nat, page : Seq(Event), truncated : BOOLEAN]

(* Each stored event is in the list once. *)
ListOK(s, n) == s \in Seq(Event) /\ Once(s) /\ \A i \in 1..Len(s) : s[i] =< n

(* A call goes on as long as it has not got what it was asked for. *)
Unfilled(r) == r.pc \in Fetching /\ r.limit > 0 => Len(r.out) < r.limit

IndexTypeOK ==
  /\ ListOK(index, stored)
  /\ stored \in 0..MaxEvents /\ reorgs \in Nat
  /\ reader \in Readers /\ Unfilled(reader)
  /\ start \in [index : Seq(Event), stored : Nat, reorgs : Nat]
  /\ reader.pc = "idle" => reader = Index!Idle /\ start = Index!NoCall
  /\ start.stored =< stored /\ start.reorgs =< reorgs

IndexInv ==
  /\ IndexTypeOK
  /\ reader.pc # "idle" /\ stored = start.stored /\ reorgs = start.reorgs =>
       index = start.index /\ RestOK(reader, index)
  /\ reader.pc # "idle" /\ reorgs = start.reorgs /\ start.index # <<>> => CapOK(reader, index)
  /\ reader.pc # "idle" /\ reorgs = start.reorgs /\ reader.limit = 0 => GapOK(reader, start.index, index)

LEMMA IdleType ==
  /\ Index!Idle \in Readers /\ Unfilled(Index!Idle)
  /\ Index!NoCall \in [index : Seq(Event), stored : Nat, reorgs : Nat]
  /\ Index!Idle.pc = "idle" /\ Index!NoCall.stored = 0 /\ Index!NoCall.reorgs = 0
BY DEF Index!Idle, Index!NoCall, Readers, Unfilled, Fetching

LEMMA IndexInit == Index!Init => IndexInv
<1> SUFFICES ASSUME Index!Init PROVE IndexInv
  OBVIOUS
<1> USE IndexNumbers
<1>1. PICK n \in 0..Initial : index = [i \in 1..n |-> n + 1 - i]
  BY DEF Index!Init
<1>2. \A i \in 1..n : n + 1 - i \in Event /\ n + 1 - i =< Initial
  BY DEF Event
<1>3. index \in Seq(Event) /\ Len(index) = n /\ \A i \in 1..n : index[i] = n + 1 - i
  BY <1>1, <1>2
<1>4. Once(index)
  BY <1>3 DEF Once
<1>5. IndexTypeOK
  BY <1>2, <1>3, <1>4, IdleType DEF Index!Init, IndexTypeOK, ListOK
<1> QED
  BY <1>5, IdleType DEF IndexInv, Index!Init

-----------------------------------------------------------------------------
LEMMA PageFacts ==
  ASSUME NEW A, NEW s \in Seq(A), NEW k \in Nat
  PROVE  /\ PageOf(s, k) \in Seq(A) /\ Len(PageOf(s, k)) \in Nat
         /\ \A i \in 1..Len(PageOf(s, k)) : k + i \in 1..Len(s) /\ PageOf(s, k)[i] = s[k + i]
         /\ k < Len(s) => Len(PageOf(s, k)) > 0
         /\ k =< Len(s) => k + Len(PageOf(s, k)) =< Len(s)
         /\ k >= Len(s) => Len(PageOf(s, k)) = 0
<1> DEFINE m == IF k + PageSize < Len(s) THEN k + PageSize ELSE Len(s)
           p == SubSeq(s, k + 1, m)
<1>1. PageSize \in Nat /\ PageSize >= 1 /\ Len(s) \in Nat
  BY IndexNumbers
<1>2. m \in Nat /\ m =< Len(s) /\ (k < Len(s) => m > k) /\ (k >= Len(s) => m =< k)
  BY <1>1
<1> HIDE DEF m
<1>3. /\ p \in Seq(A) /\ Len(p) = IF k < m THEN m - k ELSE 0
      /\ \A i \in 1..(m - k) : p[i] = s[k + i]
  BY <1>2, Slice
<1>4. PageOf(s, k) = p
  BY DEF PageOf, m
<1> HIDE DEF p
<1>5. \A i \in 1..Len(p) : k + i \in 1..Len(s) /\ i \in 1..(m - k)
  BY <1>1, <1>2, <1>3
<1>6. \A i \in 1..Len(p) : k + i \in 1..Len(s) /\ p[i] = s[k + i]
  BY <1>3, <1>5
<1>7. /\ Len(p) \in Nat /\ (k < Len(s) => Len(p) > 0) /\ (k =< Len(s) => k + Len(p) =< Len(s))
      /\ (k >= Len(s) => Len(p) = 0)
  BY <1>1, <1>2, <1>3
<1> QED
  BY <1>3, <1>4, <1>6, <1>7

(* The page continues the prefix it starts after. *)
LEMMA PrefixPage ==
  ASSUME NEW A, NEW s \in Seq(A), NEW k \in 0..Len(s), NEW n \in 0..Len(PageOf(s, k))
  PROVE  /\ k + n =< Len(s)
         /\ SubSeq(PageOf(s, k), 1, n) \in Seq(A) /\ SubSeq(s, 1, k) \in Seq(A)
         /\ SubSeq(s, 1, k) \o SubSeq(PageOf(s, k), 1, n) = SubSeq(s, 1, k + n)
<1>1. Len(s) \in Nat /\ k \in Nat /\ k =< Len(s)
  OBVIOUS
<1> DEFINE p == PageOf(s, k)
<1>2. /\ p \in Seq(A) /\ Len(p) \in Nat /\ k + Len(p) =< Len(s)
      /\ \A i \in 1..Len(p) : p[i] = s[k + i]
  BY <1>1, PageFacts
<1>3. n \in Nat /\ n =< Len(p) /\ k + n =< Len(s) /\ k + n \in Nat
  BY <1>1, <1>2
<1> HIDE DEF p
<1> DEFINE a == SubSeq(s, 1, k)
           b == SubSeq(p, 1, n)
           c == SubSeq(s, 1, k + n)
<1>4. a \in Seq(A) /\ Len(a) = k /\ \A i \in 1..k : a[i] = s[i]
  <2>1. 0 + 1 = 1 /\ k - 0 = k /\ 0 \in Nat /\ \A i \in 1..k : 0 + i = i
    BY <1>1
  <2>2. SubSeq(s, 0 + 1, k) \in Seq(A) /\ Len(SubSeq(s, 0 + 1, k)) = (IF 0 < k THEN k - 0 ELSE 0)
        /\ \A i \in 1..(k - 0) : SubSeq(s, 0 + 1, k)[i] = s[0 + i]
    BY <1>1, <2>1, Slice
  <2> QED
    BY <1>1, <2>1, <2>2
<1>5. b \in Seq(A) /\ Len(b) = n /\ \A i \in 1..n : b[i] = p[i]
  <2>1. 0 + 1 = 1 /\ n - 0 = n /\ 0 \in Nat /\ \A i \in 1..n : 0 + i = i
    BY <1>3
  <2>2. SubSeq(p, 0 + 1, n) \in Seq(A) /\ Len(SubSeq(p, 0 + 1, n)) = (IF 0 < n THEN n - 0 ELSE 0)
        /\ \A i \in 1..(n - 0) : SubSeq(p, 0 + 1, n)[i] = p[0 + i]
    BY <1>2, <1>3, <2>1, Slice
  <2> QED
    BY <1>3, <2>1, <2>2
<1>6. c \in Seq(A) /\ Len(c) = k + n /\ \A i \in 1..(k + n) : c[i] = s[i]
  <2> DEFINE m == k + n
  <2>1. 0 + 1 = 1 /\ m - 0 = m /\ 0 \in Nat /\ m \in Nat /\ m =< Len(s) /\ \A i \in 1..m : 0 + i = i
    BY <1>3
  <2> HIDE DEF m
  <2>2. SubSeq(s, 0 + 1, m) \in Seq(A) /\ Len(SubSeq(s, 0 + 1, m)) = (IF 0 < m THEN m - 0 ELSE 0)
        /\ \A i \in 1..(m - 0) : SubSeq(s, 0 + 1, m)[i] = s[0 + i]
    BY <1>1, <2>1, Slice
  <2>3. SubSeq(s, 1, m) \in Seq(A) /\ Len(SubSeq(s, 1, m)) = m /\ \A i \in 1..m : SubSeq(s, 1, m)[i] = s[i]
    BY <2>1, <2>2
  <2> QED
    BY <2>3 DEF m
<1> HIDE DEF a, b, c
<1>7. /\ a \o b \in Seq(A) /\ Len(a \o b) = Len(a) + Len(b)
      /\ \A i \in 1 .. Len(a) + Len(b) : (a \o b)[i] = IF i <= Len(a) THEN a[i] ELSE b[i - Len(a)]
  BY <1>4, <1>5, ConcatProperties
<1>8. ASSUME NEW i \in 1..(k + n) PROVE (a \o b)[i] = c[i]
  <2>1. CASE i =< k
    <3>1. i \in 1..k /\ i \in 1..(Len(a) + Len(b)) /\ i <= Len(a)
      BY <1>1, <1>3, <1>4, <1>5, <2>1
    <3> QED
      BY <1>4, <1>6, <1>7, <3>1
  <2>2. CASE i > k
    <3>1. /\ i - k \in 1..n /\ i - k \in 1..Len(p) /\ k + (i - k) = i
          /\ i \in 1..(Len(a) + Len(b)) /\ ~(i <= Len(a)) /\ i - Len(a) = i - k
      BY <1>1, <1>3, <1>4, <1>5, <2>2
    <3>2. b[i - k] = s[i]
      BY <1>2, <1>5, <3>1
    <3> QED
      BY <1>6, <1>7, <3>1, <3>2
  <2>3. i =< k \/ i > k
    BY <1>1, <1>3
  <2> QED
    BY <2>1, <2>2, <2>3
<1>9. a \o b = c
  <2>1. Len(a \o b) = Len(c) /\ \A i \in 1..Len(a \o b) : (a \o b)[i] = c[i]
    BY <1>4, <1>5, <1>6, <1>7, <1>8
  <2> QED
    BY <1>6, <1>7, <2>1, SeqEqual
<1> QED
  BY <1>3, <1>4, <1>5, <1>9 DEF a, b, c, p

(* A new event put after the first w ones. *)
Insert(s, w, x) == SubSeq(s, 1, w) \o <<x>> \o SubSeq(s, w + 1, Len(s))

IsInsert(t, s, w, x) ==
  /\ t \in Seq(Event) /\ Len(t) = Len(s) + 1
  /\ \A i \in 1..w : t[i] = s[i]
  /\ t[w + 1] = x
  /\ \A i \in (w + 1)..Len(s) : t[i + 1] = s[i]

LEMMA InsertFacts ==
  ASSUME NEW s \in Seq(Event), NEW w \in 0..Len(s), NEW x \in Event
  PROVE  IsInsert(Insert(s, w, x), s, w, x)
<1> DEFINE a == SubSeq(s, 1, w)
           b == SubSeq(s, w + 1, Len(s))
           c == a \o <<x>>
           u == c \o b
<1>1. Len(s) \in Nat /\ w \in Nat /\ w =< Len(s)
  OBVIOUS
<1>2. a \in Seq(Event) /\ Len(a) = w /\ \A i \in 1..w : a[i] = s[i]
  <2>1. 0 + 1 = 1 /\ w - 0 = w /\ 0 \in Nat /\ \A i \in 1..w : 0 + i = i
    BY <1>1
  <2>2. SubSeq(s, 0 + 1, w) \in Seq(Event) /\ Len(SubSeq(s, 0 + 1, w)) = (IF 0 < w THEN w - 0 ELSE 0)
        /\ \A i \in 1..(w - 0) : SubSeq(s, 0 + 1, w)[i] = s[0 + i]
    BY <1>1, <2>1, Slice
  <2> QED
    BY <1>1, <2>1, <2>2
<1>3. b \in Seq(Event) /\ Len(b) = Len(s) - w /\ \A i \in 1..(Len(s) - w) : b[i] = s[w + i]
  <2> DEFINE m == Len(s)
  <2>0. m \in Nat /\ m =< Len(s)
    BY <1>1
  <2> HIDE DEF m
  <2>1. /\ SubSeq(s, w + 1, m) \in Seq(Event)
        /\ Len(SubSeq(s, w + 1, m)) = IF w < m THEN m - w ELSE 0
        /\ \A i \in 1..(m - w) : SubSeq(s, w + 1, m)[i] = s[w + i]
    BY <1>1, <2>0, Slice
  <2>2. Len(b) = (IF w < m THEN m - w ELSE 0) /\ b \in Seq(Event) /\ m = Len(s)
        /\ \A i \in 1..(m - w) : b[i] = s[w + i]
    BY <2>1 DEF m
  <2> QED
    BY <1>1, <2>2
<1> HIDE DEF a, b
<1>4. <<x>> \in Seq(Event) /\ Len(<<x>>) = 1 /\ <<x>>[1] = x
  OBVIOUS
<1>5. /\ c \in Seq(Event) /\ Len(c) = Len(a) + 1
      /\ \A i \in 1 .. Len(a) + 1 : c[i] = IF i <= Len(a) THEN a[i] ELSE <<x>>[i - Len(a)]
  BY <1>2, <1>4, ConcatProperties
<1>6. Len(c) = w + 1 /\ c[w + 1] = x /\ \A i \in 1..w : c[i] = s[i]
  <2>1. w + 1 \in 1..(Len(a) + 1) /\ ~(w + 1 <= Len(a)) /\ w + 1 - Len(a) = 1
    BY <1>1, <1>2
  <2>2. \A i \in 1..w : i \in 1..(Len(a) + 1) /\ i <= Len(a)
    BY <1>1, <1>2
  <2>3. c[w + 1] = <<x>>[w + 1 - Len(a)]
    BY <1>5, <2>1
  <2> QED
    BY <1>2, <1>4, <1>5, <2>1, <2>2, <2>3
<1> HIDE DEF c
<1>7. /\ u \in Seq(Event) /\ Len(u) = Len(c) + Len(b)
      /\ \A i \in 1 .. Len(c) + Len(b) : u[i] = IF i <= Len(c) THEN c[i] ELSE b[i - Len(c)]
  BY <1>3, <1>5, ConcatProperties
<1> HIDE DEF u
<1>8. Len(u) = Len(s) + 1 /\ Len(c) + Len(b) = Len(s) + 1
  BY <1>1, <1>3, <1>6, <1>7
<1>9. \A i \in 1..(w + 1) : u[i] = c[i]
  <2>1. \A i \in 1..(w + 1) : i \in 1..(Len(c) + Len(b)) /\ i <= Len(c)
    BY <1>1, <1>6, <1>8
  <2> QED
    BY <1>7, <2>1
<1>10. ASSUME NEW i \in (w + 1)..Len(s) PROVE u[i + 1] = s[i]
  <2>1. /\ i - w \in 1..(Len(s) - w) /\ i + 1 - Len(c) = i - w /\ ~(i + 1 <= Len(c)) /\ w + (i - w) = i
        /\ i + 1 \in 1..(Len(c) + Len(b))
    BY <1>1, <1>6, <1>8
  <2>2. u[i + 1] = b[i + 1 - Len(c)]
    BY <1>7, <2>1
  <2> QED
    BY <1>3, <2>1, <2>2
<1>11. \A i \in 1..w : i \in 1..(w + 1)
  BY <1>1
<1>12. w + 1 \in 1..(w + 1)
  BY <1>1
<1>13. Insert(s, w, x) = u
  BY DEF u, c, a, b, Insert
<1> QED
  BY <1>6, <1>7, <1>8, <1>9, <1>10, <1>11, <1>12, <1>13 DEF IsInsert

-----------------------------------------------------------------------------
(* A call begins. *)
LEMMA BeginsOK ==
  ASSUME NEW s \in Seq(Event), Once(s), NEW q \in Readers,
         q.pc = "query", q.out = <<>>, q.scanned = 0
  PROVE  RestOK(q, s) /\ (s # <<>> => CapOK(q, s)) /\ GapOK(q, s, s)
<1>1. Len(s) \in Nat /\ SubSeq(s, 1, 0) = <<>> /\ (s # <<>> => Len(s) > 0)
  BY EmptySeq
<1>2. RestOK(q, s)
  <2>1. Filter(<<>>, Asked(q.limit)) = <<>>
    BY FilterEmpty
  <2>2. SubSeq(s, 1, q.scanned) = <<>>
    BY <1>1
  <2>4. q.scanned =< Len(s) /\ q.out = Filter(SubSeq(s, 1, q.scanned), Asked(q.limit))
    <3>1. Filter(SubSeq(s, 1, q.scanned), Asked(q.limit)) = Filter(<<>>, Asked(q.limit))
      BY <2>2, Zenon
    <3>2. q.out = Filter(SubSeq(s, 1, q.scanned), Asked(q.limit))
      BY <2>1, <3>1, Zenon
    <3> QED
      BY <1>1, <3>2
  <2> QED
    BY <2>4 DEF RestOK
<1>3. s # <<>> => CapOK(q, s)
  BY <1>1 DEF CapOK
<1>4. GapOK(q, s, s)
  <2>1. Pending(q) = <<>> /\ Seen(q) = {} /\ Index!Elements(q.out) = {}
    BY DEF Pending, Seen, Index!Elements
  <2> DEFINE f == [i \in 1..Len(s) |-> i]
  <2>2. Places(f, s, s)
    BY DEF Places
  <2>3. \A i \in 1..Len(s) : ~ (f[i] =< q.scanned + Len(Pending(q)))
    BY <1>1, <2>1
  <2> HIDE DEF f
  <2> QED
    BY <2>1, <2>2, <2>3 DEF GapOK, NewerToo
<1> QED
  BY <1>2, <1>3, <1>4

(* The call reads a page. *)
LEMMA PageOK ==
  ASSUME NEW s \in Seq(Event), NEW o \in Seq(Event), Once(s), NEW r \in Readers, NEW q \in Readers,
         r.pc \in {"query", "page"},
         q.pc = IF r.pc = "query" THEN "count" ELSE "gather",
         q.page = PageOf(s, r.scanned),
         q.limit = r.limit, q.out = r.out, q.scanned = r.scanned, q.total = r.total
  PROVE  /\ RestOK(r, s) => RestOK(q, s)
         /\ CapOK(r, s) => CapOK(q, s)
         /\ GapOK(r, o, s) => GapOK(q, o, s)
<1> DEFINE k == r.scanned
           p == PageOf(s, k)
<1>1. k \in Nat /\ Len(s) \in Nat /\ r.pc \in Fetching /\ q.pc \in {"count", "gather"}
  BY DEF Readers, Fetching
<1>2. /\ p \in Seq(Event) /\ Len(p) \in Nat
      /\ \A i \in 1..Len(p) : k + i \in 1..Len(s) /\ p[i] = s[k + i]
      /\ k < Len(s) => Len(p) > 0
  BY <1>1, PageFacts
<1>3. RestOK(r, s) => RestOK(q, s)
  BY <1>1 DEF RestOK, Fetching
<1>4. CapOK(r, s) => CapOK(q, s)
  BY <1>1, <1>2 DEF CapOK
<1>5. ASSUME GapOK(r, o, s) PROVE GapOK(q, o, s)
  <2>1. Pending(r) = <<>> /\ Pending(q) = p /\ q.pc \in Fetching
    BY <1>1 DEF Pending, Fetching
  <2>2. Index!Elements(<<>>) = {} /\ Len(<<>>) = 0
    BY DEF Index!Elements
  <2>3. Seen(r) = Index!Elements(r.out) /\ Seen(q) = Index!Elements(r.out) \cup Index!Elements(p)
    BY <2>1, <2>2 DEF Seen
  <2>4. NewerToo(o, Index!Elements(r.out)) /\ NewerToo(o, Index!Elements(q.out))
    BY <1>5 DEF GapOK
  <2>5. PICK f : /\ Places(f, o, s)
                 /\ \A i \in 1..Len(o) : f[i] =< r.scanned + Len(Pending(r)) => o[i] \in Seen(r)
    BY <1>1, <1>5 DEF GapOK
  <2>6. f \in [1..Len(o) -> 1..Len(s)] /\ Len(o) \in Nat
    BY <2>5 DEF Places
  <2>7. ASSUME NEW i \in 1..Len(o), f[i] =< k + Len(p) PROVE o[i] \in Seen(q)
    <3>1. f[i] \in 1..Len(s)
      BY <2>6
    <3>2. CASE f[i] =< k
      <4>1. r.scanned + Len(Pending(r)) = k
        BY <1>1, <2>1, <2>2
      <4> QED
        BY <2>3, <2>5, <3>2, <4>1
    <3>3. CASE f[i] > k
      <4>1. f[i] - k \in 1..Len(p) /\ k + (f[i] - k) = f[i]
        BY <1>1, <1>2, <2>7, <3>1, <3>3
      <4>2. p[f[i] - k] = o[i]
        BY <1>2, <2>5, <4>1 DEF Places
      <4>3. DOMAIN p = 1..Len(p)
        BY <1>2
      <4>4. p[f[i] - k] \in Index!Elements(p)
        BY <4>1, <4>3 DEF Index!Elements
      <4> QED
        BY <2>3, <4>2, <4>4
    <3> QED
      BY <1>1, <3>1, <3>2, <3>3
  <2>8. NewerToo(o, Seen(q))
    <3> SUFFICES ASSUME NEW j \in 1..Len(o), o[j] \in Seen(q), NEW i \in 1..j PROVE o[i] \in Seen(q)
      BY DEF NewerToo
    <3>1. i \in 1..Len(o) /\ i =< j
      BY <2>6
    <3>2. CASE o[j] \in Index!Elements(r.out)
      BY <2>3, <2>4, <3>2 DEF NewerToo
    <3>3. CASE o[j] \in Index!Elements(p)
      <4>1. DOMAIN p = 1..Len(p)
        BY <1>2
      <4>2. PICK n \in 1..Len(p) : o[j] = p[n]
        BY <3>3, <4>1 DEF Index!Elements
      <4>3. k + n \in 1..Len(s) /\ o[j] = s[k + n]
        BY <1>2, <4>2
      <4>4. f[j] \in 1..Len(s) /\ s[f[j]] = o[j]
        BY <2>5, <2>6 DEF Places
      <4>5. f[j] = k + n
        BY <4>3, <4>4 DEF Once
      <4>6. f[i] =< f[j] /\ f[i] \in 1..Len(s)
        BY <2>5, <2>6, <3>1 DEF Places
      <4>7. f[i] =< k + Len(p)
        BY <1>1, <1>2, <4>2, <4>5, <4>6
      <4> QED
        BY <2>7, <3>1, <4>7
    <3> QED
      BY <2>3, <3>2, <3>3
  <2>9. \A i \in 1..Len(o) : f[i] =< q.scanned + Len(Pending(q)) => o[i] \in Seen(q)
    BY <2>1, <2>7
  <2> QED
    BY <2>4, <2>5, <2>8, <2>9 DEF GapOK
<1> QED
  BY <1>3, <1>4, <1>5

(* The call counts the events. *)
LEMMA CountOK ==
  ASSUME NEW s \in Seq(Event), NEW o \in Seq(Event), NEW r \in Readers, NEW q \in Readers,
         r.pc \in {"query", "count"},
         q.pc = IF r.pc = "query" THEN "page" ELSE "gather",
         q.total = Len(s),
         q.limit = r.limit, q.out = r.out, q.scanned = r.scanned, q.page = r.page
  PROVE  /\ RestOK(r, s) => RestOK(q, s)
         /\ CapOK(r, s) => CapOK(q, s)
         /\ GapOK(r, o, s) => GapOK(q, o, s)
<1>1. Len(s) \in Nat /\ r.pc \in Fetching /\ q.pc \in {"page", "gather"} /\ q.pc \in Fetching
  BY DEF Fetching
<1>2. RestOK(r, s) => RestOK(q, s)
  BY <1>1 DEF RestOK
<1>3. CapOK(r, s) => CapOK(q, s)
  BY <1>1 DEF CapOK
<1>4. Pending(q) = Pending(r) /\ Seen(q) = Seen(r)
  BY DEF Pending, Seen
<1>5. GapOK(r, o, s) => GapOK(q, o, s)
  BY <1>1, <1>4 DEF GapOK
<1> QED
  BY <1>2, <1>3, <1>5

-----------------------------------------------------------------------------
LEMMA AllKept ==
  ASSUME NEW s \in Seq(Event)
  PROVE  Filter(s, Event) = s
<1>1. Len(s) \in Nat /\ 0 \in 0..Len(s) /\ \A j \in 1..Len(s) : s[j] \in Event <=> j > 0
  OBVIOUS
<1>2. /\ Filter(s, Event) \in Seq(Event) /\ Len(Filter(s, Event)) = Len(s) - 0
      /\ \A i \in 1..(Len(s) - 0) : Filter(s, Event)[i] = s[0 + i]
  BY <1>1, FilterSuffix
<1>3. Len(Filter(s, Event)) = Len(s) /\ \A i \in 1..Len(Filter(s, Event)) : Filter(s, Event)[i] = s[i]
  BY <1>1, <1>2
<1> QED
  BY <1>2, <1>3, SeqEqual

-----------------------------------------------------------------------------
(* What is returned of the first n events of the page. *)
Got(r, n) == Filter(SubSeq(r.page, 1, n), Asked(r.limit))
EnoughGot(r, n) == r.limit > 0 /\ Len(r.out) + Len(Got(r, n)) >= r.limit

LEMMA GotType ==
  ASSUME NEW r \in Readers, NEW n \in 0..Len(r.page)
  PROVE  /\ Got(r, n) \in Seq(Event) /\ Len(Got(r, n)) \in Nat
         /\ r.out \o Got(r, n) \in Seq(Event)
         /\ Len(r.out \o Got(r, n)) = Len(r.out) + Len(Got(r, n))
<1>1. r.page \in Seq(Event) /\ r.out \in Seq(Event)
  BY DEF Readers
<1>2. SubSeq(r.page, 1, n) \in Seq(Event)
  BY <1>1, Prefix
<1>3. Got(r, n) \in Seq(Event)
  BY <1>2, FilterEmbeds DEF Got
<1>4. Len(Got(r, n)) \in Nat
  BY <1>3
<1> QED
  BY <1>1, <1>3, <1>4, ConcatProperties

(* A call that gets enough from the page stops at the first event with which *)
(* it has enough.                                                             *)
LEMMA StopsAt ==
  ASSUME NEW r \in Readers, r.pc \in Fetching, Unfilled(r), EnoughGot(r, Len(r.page))
  PROVE  \E n \in 1..Len(r.page) : EnoughGot(r, n) /\ ~EnoughGot(r, n - 1)
<1> DEFINE T == { n \in 0..Len(r.page) : EnoughGot(r, n) }
<1>1. Len(r.page) \in Nat /\ Len(r.out) \in Nat /\ r.limit \in Nat /\ r.page \in Seq(Event)
  BY DEF Readers
<1>2. T \in SUBSET Nat /\ T # {}
  <2>1. Len(r.page) \in 0..Len(r.page)
    BY <1>1
  <2> QED
    BY <1>1, <2>1
<1> HIDE DEF T
<1>3. PICK n \in T : \A m \in T : n =< m
  BY <1>2, LeastOf
<1>4. n \in 0..Len(r.page) /\ EnoughGot(r, n)
  BY <1>3 DEF T
<1>5. n # 0
  <2>1. SubSeq(r.page, 1, 0) = <<>>
    BY <1>1
  <2>2. Got(r, 0) = <<>>
    BY <2>1, FilterEmpty DEF Got
  <2>3. Len(<<>>) = 0
    OBVIOUS
  <2>4. ~EnoughGot(r, 0)
    BY <1>1, <2>2, <2>3 DEF EnoughGot, Unfilled
  <2> QED
    BY <1>4, <2>4
<1>6. n \in 1..Len(r.page) /\ n - 1 \in 0..Len(r.page) /\ ~(n =< n - 1)
  BY <1>1, <1>4, <1>5
<1>7. ~EnoughGot(r, n - 1)
  BY <1>3, <1>6 DEF T
<1> QED
  BY <1>4, <1>6, <1>7

(* So it has exactly what was asked for. *)
LEMMA StopsFull ==
  ASSUME NEW r \in Readers, NEW n \in 1..Len(r.page), EnoughGot(r, n), ~EnoughGot(r, n - 1)
  PROVE  Len(r.out) + Len(Got(r, n)) = r.limit
<1>1. Len(r.page) \in Nat /\ Len(r.out) \in Nat /\ r.limit \in Nat /\ r.page \in Seq(Event)
  BY DEF Readers
<1>2. n \in 0..Len(r.page) /\ n - 1 \in 0..Len(r.page)
  BY <1>1
<1>3. Len(Got(r, n)) \in Nat /\ Len(Got(r, n - 1)) \in Nat
  BY <1>2, GotType
<1>4. Len(Got(r, n)) =< Len(Got(r, n - 1)) + 1
  BY <1>1, FilterGrows DEF Got
<1>5. ~(Len(r.out) + Len(Got(r, n - 1)) >= r.limit) /\ Len(r.out) + Len(Got(r, n)) >= r.limit
  BY DEF EnoughGot
<1> DEFINE x == Len(r.out)
           y == Len(Got(r, n))
           z == Len(Got(r, n - 1))
<1>6. x \in Nat /\ y \in Nat /\ z \in Nat /\ y =< z + 1 /\ ~(x + z >= r.limit) /\ x + y >= r.limit
  BY <1>1, <1>3, <1>4, <1>5
<1> HIDE DEF x, y, z
<1>7. x + y = r.limit
  BY <1>1, <1>6
<1> QED
  BY <1>7 DEF x, y

(* At rest it is what is asked for of all the events scanned. *)
LEMMA GatheredPrefix ==
  ASSUME NEW s \in Seq(Event), NEW r \in Readers, r.pc = "gather", RestOK(r, s),
         NEW n \in 0..Len(r.page)
  PROVE  /\ r.scanned + n \in 0..Len(s)
         /\ r.out \o Got(r, n) = Filter(SubSeq(s, 1, r.scanned + n), Asked(r.limit))
<1>1. /\ r.scanned \in 0..Len(s) /\ Len(s) \in Nat
      /\ r.out = Filter(SubSeq(s, 1, r.scanned), Asked(r.limit)) /\ r.page = PageOf(s, r.scanned)
  BY DEF RestOK, Readers, Fetching
<1> DEFINE k == r.scanned
           p == r.page
           S == Asked(r.limit)
<1>2. k \in 0..Len(s) /\ n \in 0..Len(PageOf(s, k)) /\ p = PageOf(s, k)
  BY <1>1
<1> HIDE DEF k, p, S
<1>3. /\ k + n =< Len(s)
      /\ SubSeq(PageOf(s, k), 1, n) \in Seq(Event) /\ SubSeq(s, 1, k) \in Seq(Event)
      /\ SubSeq(s, 1, k) \o SubSeq(PageOf(s, k), 1, n) = SubSeq(s, 1, k + n)
  BY <1>2, PrefixPage
<1>4. k + n \in 0..Len(s)
  <2>1. Len(PageOf(s, k)) \in Nat
    BY <1>2, PageFacts
  <2> QED
    BY <1>1, <1>2, <1>3, <2>1
<1>5. Filter(SubSeq(s, 1, k), S) \o Filter(SubSeq(p, 1, n), S) = Filter(SubSeq(s, 1, k + n), S)
  <2> DEFINE a == SubSeq(s, 1, k)
             b == SubSeq(p, 1, n)
  <2>1. a \in Seq(Event) /\ b \in Seq(Event) /\ a \o b = SubSeq(s, 1, k + n)
    BY <1>2, <1>3
  <2> HIDE DEF a, b
  <2>2. \A x, y \in Seq(Event) : Filter(x \o y, S) = Filter(x, S) \o Filter(y, S)
    BY FilterConcat
  <2> QED
    BY <2>1, <2>2 DEF a, b
<1>6. r.out \o Got(r, n) = Filter(SubSeq(s, 1, k), S) \o Filter(SubSeq(p, 1, n), S)
  BY <1>1 DEF Got, k, p, S
<1> QED
  BY <1>4, <1>5, <1>6 DEF k, S

LEMMA GatherEnough ==
  ASSUME NEW s \in Seq(Event), NEW r \in Readers, NEW q \in Readers, r.pc = "gather", RestOK(r, s),
         NEW n \in 1..Len(r.page), EnoughGot(r, n), ~EnoughGot(r, n - 1),
         q.pc = "done", q.limit = r.limit, q.out = r.out \o Got(r, n)
  PROVE  RestOK(q, s)
<1>1. r.limit \in Nat /\ r.limit > 0 /\ Asked(r.limit) = Challenges
  BY DEF EnoughGot, Asked, Readers
<1>2. n \in 0..Len(r.page)
  BY DEF Readers
<1> DEFINE a == SubSeq(s, 1, r.scanned + n)
<1>3. r.scanned + n \in 0..Len(s) /\ q.out = Filter(a, Challenges)
  BY <1>1, <1>2, GatheredPrefix
<1>4. Len(q.out) = r.limit
  BY <1>2, StopsFull, GotType
<1>5. /\ Len(Filter(a, Challenges)) =< Len(Filter(s, Challenges))
      /\ SubSeq(Filter(s, Challenges), 1, Len(Filter(a, Challenges))) = Filter(a, Challenges)
  BY <1>3, FilterPrefix
<1> HIDE DEF a
<1>6. Filter(s, Challenges) \in Seq(Event)
  BY FilterEmbeds
<1> DEFINE current == Filter(s, Challenges)
<1>7. Len(current) \in Nat
  BY <1>6
<1>8. r.limit =< Len(current) /\ SubSeq(current, 1, r.limit) = q.out
  BY <1>3, <1>4, <1>5
<1> HIDE DEF current
<1>9. q.out = SubSeq(current, 1, IF r.limit < Len(current) THEN r.limit ELSE Len(current))
  <2>1. (IF r.limit < Len(current) THEN r.limit ELSE Len(current)) = r.limit
    BY <1>1, <1>7, <1>8
  <2> QED
    BY <1>8, <2>1
<1>10. q.pc \notin Fetching /\ q.limit # 0
  BY <1>1 DEF Fetching
<1>11. q.pc \notin {"count", "gather"} /\ q.pc \notin {"page", "gather"}
  OBVIOUS
<1> QED
  BY <1>9, <1>10, <1>11 DEF RestOK, current

LEMMA GatherAll ==
  ASSUME NEW s \in Seq(Event), NEW r \in Readers, NEW q \in Readers, r.pc = "gather", Unfilled(r),
         NEW more \in BOOLEAN,
         ~EnoughGot(r, Len(r.page)), q.limit = r.limit, q.out = r.out \o Got(r, Len(r.page)),
         q.scanned = r.scanned + Len(r.page), q.pc = IF more THEN "query" ELSE "done",
         more <=> ~ (Len(r.page) = 0 \/ q.scanned >= r.total \/ q.scanned >= MaxScan),
         q.truncated <=> ~more /\ q.scanned < r.total
  PROVE  /\ Unfilled(q)
         /\ RestOK(r, s) => RestOK(q, s)
         /\ CapOK(r, s) => CapOK(q, s)
<1>1. /\ Len(r.page) \in Nat /\ Len(r.out) \in Nat /\ r.limit \in Nat /\ r.page \in Seq(Event)
      /\ r.scanned \in Nat /\ r.total \in Nat /\ q.scanned \in Nat /\ Len(s) \in Nat
      /\ MaxScan \in Nat
  BY IndexNumbers DEF Readers
<1>2. /\ r.pc \in Fetching /\ r.pc \in {"count", "gather"} /\ r.pc \in {"page", "gather"}
      /\ q.pc \notin {"count", "gather"} /\ q.pc \notin {"page", "gather"}
      /\ q.pc \in Fetching <=> more
      /\ q.pc = "done" <=> ~more
      /\ q.pc \in {"query", "page"} <=> more
  BY DEF Fetching
<1>3. Len(r.page) \in 0..Len(r.page)
  BY <1>1
<1>4. Len(q.out) = Len(r.out) + Len(Got(r, Len(r.page))) /\ Len(Got(r, Len(r.page))) \in Nat
  BY <1>3, GotType
<1>5. q.limit > 0 => Len(q.out) < q.limit
  <2> DEFINE x == Len(r.out)
             y == Len(Got(r, Len(r.page)))
  <2>1. x \in Nat /\ y \in Nat /\ ~(r.limit > 0 /\ x + y >= r.limit) /\ Len(q.out) = x + y
    BY <1>1, <1>4 DEF EnoughGot
  <2> HIDE DEF x, y
  <2> QED
    BY <1>1, <2>1
<1>6. Unfilled(q)
  BY <1>5 DEF Unfilled
<1>7. ASSUME RestOK(r, s) PROVE RestOK(q, s)
  <2>1. q.scanned \in 0..Len(s) /\ q.out = Filter(SubSeq(s, 1, q.scanned), Asked(q.limit))
    BY <1>3, <1>7, GatheredPrefix
  <2>2. r.total = Len(s) /\ r.page = PageOf(s, r.scanned) /\ r.scanned =< Len(s)
    BY <1>2, <1>7 DEF RestOK
  <2>3. Len(r.page) = 0 => r.scanned >= Len(s)
    BY <1>1, <2>2, PageFacts
  <2>4. ASSUME ~more, ~q.truncated
        PROVE  IF q.limit = 0 THEN q.out = s
               ELSE LET current == Filter(s, Challenges)
                    IN q.out = SubSeq(current, 1, IF q.limit < Len(current) THEN q.limit ELSE Len(current))
    <3>1. q.scanned = Len(s)
      <4>1. ~(q.scanned < Len(s))
        BY <2>2, <2>4
      <4> QED
        BY <1>1, <2>1, <4>1
    <3>2. q.out = Filter(s, Asked(q.limit))
      <4>1. SubSeq(s, 1, q.scanned) = s
        BY <3>1, SubSeqFull
      <4> QED
        BY <2>1, <4>1
    <3>3. CASE q.limit = 0
      BY <3>2, <3>3, AllKept DEF Asked
    <3>4. CASE q.limit # 0
      <4> DEFINE current == Filter(s, Challenges)
      <4>1. current \in Seq(Event)
        BY FilterEmbeds
      <4>2. q.out = current
        BY <3>2, <3>4 DEF Asked
      <4>3. SubSeq(current, 1, Len(current)) = current
        BY <4>1, SubSeqFull
      <4> HIDE DEF current
      <4>4. Len(current) \in Nat
        BY <4>1
      <4>5. ~ (q.limit < Len(current))
        BY <1>1, <1>5, <3>4, <4>2, <4>4
      <4>6. q.out = SubSeq(current, 1, IF q.limit < Len(current) THEN q.limit ELSE Len(current))
        BY <4>2, <4>3, <4>5
      <4> QED
        BY <3>4, <4>6 DEF current
    <3> QED
      BY <3>3, <3>4
  <2>5. q.scanned =< Len(s)
    BY <1>1, <2>1
  <2> QED
    BY <1>2, <2>1, <2>4, <2>5 DEF RestOK
<1>8. ASSUME CapOK(r, s) PROVE CapOK(q, s)
  <2>1. r.page # <<>> /\ r.total =< Len(s)
    BY <1>2, <1>8 DEF CapOK
  <2>2. Len(r.page) # 0
    BY <1>1, <2>1, EmptySeq
  <2>3. more => q.scanned < Len(s)
    BY <1>1, <2>1
  <2>4. ~more /\ q.truncated => q.scanned >= MaxScan
    BY <1>1, <2>2
  <2> QED
    BY <1>2, <2>3, <2>4 DEF CapOK
<1> QED
  BY <1>6, <1>7, <1>8

LEMMA ConcatElements ==
  ASSUME NEW A, NEW a \in Seq(A), NEW b \in Seq(A)
  PROVE  Index!Elements(a \o b) = Index!Elements(a) \cup Index!Elements(b)
<1> DEFINE c == a \o b
           m == Len(a)
<1>1. /\ c \in Seq(A) /\ Len(c) = m + Len(b)
      /\ \A i \in 1 .. m + Len(b) : c[i] = IF i <= m THEN a[i] ELSE b[i - m]
  BY ConcatProperties
<1>2. /\ DOMAIN a = 1..m /\ DOMAIN b = 1..Len(b) /\ m \in Nat /\ Len(b) \in Nat
  OBVIOUS
<1> HIDE DEF c, m
<1>3. DOMAIN c = 1..(m + Len(b))
  BY <1>1
<1>4. ASSUME NEW i \in DOMAIN c PROVE c[i] \in Index!Elements(a) \cup Index!Elements(b)
  <2>1. CASE i =< m
    <3>1. i \in DOMAIN a /\ c[i] = a[i]
      BY <1>1, <1>2, <1>3, <2>1
    <3> QED
      BY <3>1 DEF Index!Elements
  <2>2. CASE ~(i =< m)
    <3>1. i - m \in DOMAIN b /\ c[i] = b[i - m]
      BY <1>1, <1>2, <1>3, <2>2
    <3> QED
      BY <3>1 DEF Index!Elements
  <2> QED
    BY <2>1, <2>2
<1>5. ASSUME NEW i \in DOMAIN a PROVE a[i] \in Index!Elements(c)
  <2>1. i \in DOMAIN c /\ c[i] = a[i]
    BY <1>1, <1>2, <1>3
  <2> QED
    BY <2>1 DEF Index!Elements
<1>6. ASSUME NEW i \in DOMAIN b PROVE b[i] \in Index!Elements(c)
  <2>1. m + i \in DOMAIN c /\ ~(m + i =< m) /\ m + i - m = i
    BY <1>2, <1>3
  <2> DEFINE j == m + i
  <2>2. j \in 1 .. m + Len(b) /\ ~(j <= m) /\ j - m = i
    BY <1>2
  <2> HIDE DEF j
  <2>3. c[j] = b[i]
    BY <1>1, <2>2
  <2>4. c[m + i] = b[i]
    BY <2>3 DEF j
  <2> QED
    BY <2>1, <2>4 DEF Index!Elements
<1>7. Index!Elements(c) = Index!Elements(a) \cup Index!Elements(b)
  BY <1>4, <1>5, <1>6 DEF Index!Elements
<1> QED
  BY <1>7 DEF c

(* A drain returns the whole page. *)
LEMMA GatherGap ==
  ASSUME NEW s \in Seq(Event), NEW o \in Seq(Event), NEW r \in Readers, NEW q \in Readers,
         r.pc = "gather", r.limit = 0, GapOK(r, o, s),
         q.pc \in {"query", "done"}, q.out = r.out \o Got(r, Len(r.page)),
         q.scanned = r.scanned + Len(r.page)
  PROVE  GapOK(q, o, s)
<1>1. Len(r.page) \in Nat /\ r.page \in Seq(Event) /\ r.out \in Seq(Event) /\ r.scanned \in Nat
  BY DEF Readers
<1>2. Got(r, Len(r.page)) = r.page
  BY <1>1, SubSeqFull, AllKept DEF Got, Asked
<1>3. Index!Elements(q.out) = Index!Elements(r.out) \cup Index!Elements(r.page)
  BY <1>1, <1>2, ConcatElements
<1>4. /\ Pending(r) = r.page /\ Pending(q) = <<>> /\ r.pc \in Fetching
      /\ Index!Elements(<<>>) = {} /\ Len(<<>>) = 0
  BY DEF Pending, Fetching, Index!Elements
<1>5. Seen(r) = Index!Elements(q.out) /\ Seen(q) = Index!Elements(q.out)
  BY <1>3, <1>4 DEF Seen
<1>6. NewerToo(o, Index!Elements(q.out)) /\ NewerToo(o, Seen(q))
  BY <1>4, <1>5 DEF GapOK
<1>7. r.scanned + Len(Pending(r)) = q.scanned + Len(Pending(q))
  BY <1>1, <1>4
<1> QED
  BY <1>4, <1>5, <1>6, <1>7 DEF GapOK

-----------------------------------------------------------------------------
(* The indexer stores an event, or drops some. *)
LEMMA EventStored ==
  ASSUME NEW s \in Seq(Event), NEW n \in 0..MaxEvents, ListOK(s, n), n < MaxEvents,
         NEW w \in 0..Len(s), NEW t \in Seq(Event), Len(t) = Len(s) + 1,
         \A i \in 1..w : t[i] = s[i],
         t[w + 1] = n + 1,
         \A i \in (w + 1)..Len(s) : t[i + 1] = s[i],
         NEW o \in Seq(Event), NEW r \in Readers
  PROVE  /\ ListOK(t, n + 1)
         /\ CapOK(r, s) => CapOK(r, t)
         /\ GapOK(r, o, s) => GapOK(r, o, t)
<1>1. n \in Nat /\ w \in Nat /\ Len(s) \in Nat /\ w =< Len(s)
  BY IndexNumbers
<1>2. /\ t \in Seq(Event) /\ Len(t) = Len(s) + 1
      /\ \A i \in 1..w : t[i] = s[i]
      /\ t[w + 1] = n + 1
      /\ \A i \in (w + 1)..Len(s) : t[i + 1] = s[i]
  OBVIOUS
<1> DEFINE Old(j) == IF j =< w THEN j ELSE j - 1
<1>3. ASSUME NEW j \in 1..Len(t), j # w + 1 PROVE Old(j) \in 1..Len(s) /\ t[j] = s[Old(j)]
  <2>1. CASE j =< w
    BY <1>1, <1>2, <2>1
  <2>2. CASE ~(j =< w)
    <3>1. j - 1 \in (w + 1)..Len(s) /\ (j - 1) + 1 = j /\ j - 1 \in 1..Len(s)
      BY <1>1, <1>2, <1>3, <2>2
    <3> QED
      BY <1>2, <2>2, <3>1
  <2> QED
    BY <2>1, <2>2
<1>4. ListOK(t, n + 1)
  <2>1. \A i \in 1..Len(s) : s[i] \in Int /\ s[i] =< n
    <3>1. \A i \in 1..Len(s) : s[i] \in Event
      BY ElementOfSeq
    <3> QED
      BY <3>1 DEF ListOK, Event
  <2>2. \A j \in 1..Len(t) : j # w + 1 => t[j] \in Int /\ t[j] =< n
    BY <1>3, <2>1
  <2>3. \A j \in 1..Len(t) : t[j] =< n + 1
    BY <1>1, <1>2, <2>2
  <2>4. \A i, j \in 1..Len(s) : s[i] = s[j] => i = j
    BY DEF ListOK, Once
  <2>5. ASSUME NEW i \in 1..Len(t), NEW j \in 1..Len(t), t[i] = t[j] PROVE i = j
    <3>1. CASE i = w + 1 /\ j = w + 1
      BY <3>1
    <3>2. CASE i = w + 1 /\ j # w + 1
      <4>1. t[j] \in Int /\ t[j] =< n /\ t[i] = n + 1
        BY <1>2, <2>2, <3>2
      <4> QED
        BY <1>1, <2>5, <4>1
    <3>3. CASE i # w + 1 /\ j = w + 1
      <4>1. t[i] \in Int /\ t[i] =< n /\ t[j] = n + 1
        BY <1>2, <2>2, <3>3
      <4> QED
        BY <1>1, <2>5, <4>1
    <3>4. CASE i # w + 1 /\ j # w + 1
      <4>1. Old(i) = Old(j)
        <5>1. Old(i) \in 1..Len(s) /\ t[i] = s[Old(i)]
          BY <1>3, <3>4
        <5>2. Old(j) \in 1..Len(s) /\ t[j] = s[Old(j)]
          BY <1>3, <3>4
        <5> DEFINE a == Old(i)
                   b == Old(j)
        <5>3. a \in 1..Len(s) /\ b \in 1..Len(s) /\ s[a] = s[b]
          BY <2>5, <5>1, <5>2
        <5> HIDE DEF a, b
        <5>4. a = b
          BY <2>4, <5>3
        <5> QED
          BY <5>4 DEF a, b
      <4> QED
        BY <1>1, <1>2, <3>4, <4>1
    <3> QED
      BY <3>1, <3>2, <3>3, <3>4
  <2> QED
    BY <1>2, <2>3, <2>5 DEF ListOK, Once
<1>5. CapOK(r, s) => CapOK(r, t)
  <2>1. r.scanned \in Nat /\ r.total \in Nat
    BY DEF Readers
  <2>2. /\ r.scanned < Len(s) => r.scanned < Len(t)
        /\ r.total =< Len(s) => r.total =< Len(t)
    BY <1>1, <1>2, <2>1
  <2> QED
    BY <2>2 DEF CapOK
<1>6. ASSUME GapOK(r, o, s) PROVE GapOK(r, o, t)
  <2>1. NewerToo(o, Index!Elements(r.out)) /\ (r.pc \in Fetching => NewerToo(o, Seen(r)))
    BY <1>6 DEF GapOK
  <2>2. ASSUME r.pc \in Fetching
        PROVE  \E g : /\ Places(g, o, t)
                      /\ \A i \in 1..Len(o) : g[i] =< r.scanned + Len(Pending(r)) => o[i] \in Seen(r)
    <3>1. PICK f : /\ Places(f, o, s)
                   /\ \A i \in 1..Len(o) : f[i] =< r.scanned + Len(Pending(r)) => o[i] \in Seen(r)
      BY <1>6, <2>2 DEF GapOK
    <3> DEFINE g == [i \in 1..Len(o) |-> IF f[i] =< w THEN f[i] ELSE f[i] + 1]
    <3>2. f \in [1..Len(o) -> 1..Len(s)] /\ Len(o) \in Nat
      BY <3>1 DEF Places
    <3>3. \A i \in 1..Len(o) : f[i] \in 1..Len(s) /\ g[i] = IF f[i] =< w THEN f[i] ELSE f[i] + 1
      BY <3>2
    <3>4. g \in [1..Len(o) -> 1..Len(t)]
      <4>1. \A i \in 1..Len(o) : (IF f[i] =< w THEN f[i] ELSE f[i] + 1) \in 1..Len(t)
        BY <1>1, <1>2, <3>3
      <4> QED
        BY <4>1
    <3> HIDE DEF g
    <3>5. ASSUME NEW i \in 1..Len(o), NEW j \in 1..Len(o), i =< j PROVE g[i] =< g[j]
      <4>1. f[i] =< f[j]
        BY <3>1, <3>5 DEF Places
      <4> QED
        BY <1>1, <3>3, <4>1
    <3>6. ASSUME NEW i \in 1..Len(o) PROVE t[g[i]] = o[i]
      <4>1. s[f[i]] = o[i]
        BY <3>1 DEF Places
      <4>2. CASE f[i] =< w
        <5>1. f[i] \in 1..w /\ g[i] = f[i]
          BY <3>3, <4>2, <1>1
        <5> QED
          BY <1>2, <4>1, <5>1
      <4>3. CASE ~(f[i] =< w)
        <5>1. f[i] \in (w + 1)..Len(s) /\ g[i] = f[i] + 1
          BY <3>3, <4>3, <1>1
        <5> QED
          BY <1>2, <4>1, <5>1
      <4> QED
        BY <4>2, <4>3
    <3>7. ASSUME NEW i \in 1..Len(o), g[i] =< r.scanned + Len(Pending(r)) PROVE o[i] \in Seen(r)
      <4> DEFINE h == r.scanned + Len(Pending(r))
      <4>1. h \in Nat
        <5>1. r.scanned \in Nat /\ r.page \in Seq(Event)
          BY DEF Readers
        <5>2. Len(Pending(r)) \in Nat
          BY <5>1 DEF Pending
        <5> QED
          BY <5>1, <5>2
      <4>2. g[i] =< h
        BY <3>7
      <4> HIDE DEF h
      <4>3. f[i] =< h
        BY <3>3, <4>1, <4>2
      <4> QED
        BY <3>1, <4>3 DEF h
    <3>8. Places(g, o, t)
      BY <3>4, <3>5, <3>6 DEF Places
    <3> QED
      BY <3>7, <3>8
  <2> QED
    BY <2>1, <2>2 DEF GapOK
<1> QED
  BY <1>4, <1>5, <1>6

LEMMA OrphansDropped ==
  ASSUME NEW s \in Seq(Event), NEW n \in 0..MaxEvents, ListOK(s, n), NEW k \in 0..Len(s)
  PROVE  ListOK(SubSeq(s, k + 1, Len(s)), n)
<1> DEFINE m == Len(s)
           t == SubSeq(s, k + 1, m)
<1>1. m \in Nat /\ k \in Nat /\ k =< m /\ m =< Len(s) /\ m = Len(s)
  OBVIOUS
<1> HIDE DEF m
<1>2. t \in Seq(Event) /\ Len(t) = (IF k < m THEN m - k ELSE 0) /\ \A i \in 1..(m - k) : t[i] = s[k + i]
  BY <1>1, Slice
<1>3. Len(t) = m - k
  BY <1>1, <1>2
<1> HIDE DEF t
<1>4. \A i \in 1..Len(t) : k + i \in 1..Len(s) /\ t[i] = s[k + i]
  BY <1>1, <1>2, <1>3
<1>5. \A i \in 1..Len(t) : t[i] =< n
  BY <1>4 DEF ListOK
<1>6. Once(t)
  <2>1. \A i, j \in 1..Len(s) : s[i] = s[j] => i = j
    BY DEF ListOK, Once
  <2>2. ASSUME NEW i \in 1..Len(t), NEW j \in 1..Len(t), t[i] = t[j] PROVE i = j
    <3>1. k + i = k + j
      BY <1>4, <2>1, <2>2
    <3> QED
      BY <1>1, <1>3, <3>1
  <2> QED
    BY <2>2 DEF Once
<1>7. ListOK(t, n)
  BY <1>2, <1>5, <1>6 DEF ListOK
<1> QED
  BY <1>7 DEF t, m

-----------------------------------------------------------------------------
(* The reader's fields after a step. *)
LEMMA IndexPage ==
  ASSUME IndexInv, Index!ReadPage
  PROVE  IndexInv'
<1> DEFINE q == [reader EXCEPT !.pc = IF reader.pc = "query" THEN "count" ELSE "gather",
                               !.page = Index!Page(reader.scanned)]
<1>1. /\ IndexTypeOK /\ reader \in Readers /\ ListOK(index, stored) /\ index \in Seq(Event)
      /\ start.index \in Seq(Event) /\ reader.pc \in {"query", "page"} /\ Once(index)
      /\ reader' = q /\ UNCHANGED <<index, stored, reorgs, start>>
  BY DEF IndexInv, IndexTypeOK, ListOK, Index!ReadPage
<1>2. Index!Page(reader.scanned) = PageOf(index, reader.scanned)
  BY DEF Index!Page, Index!LesserOf, PageOf
<1>3. PageOf(index, reader.scanned) \in Seq(Event)
  <2>1. reader.scanned \in Nat
    BY <1>1 DEF Readers
  <2> QED
    BY <1>1, <2>1, PageFacts
<1>4. /\ q \in Readers
      /\ q.pc = IF reader.pc = "query" THEN "count" ELSE "gather"
      /\ q.page = PageOf(index, reader.scanned)
      /\ q.limit = reader.limit /\ q.out = reader.out /\ q.scanned = reader.scanned
      /\ q.total = reader.total
  BY <1>1, <1>2, <1>3 DEF Readers, Fetching
<1> HIDE DEF q
<1>5. /\ RestOK(reader, index) => RestOK(q, index)
      /\ CapOK(reader, index) => CapOK(q, index)
      /\ GapOK(reader, start.index, index) => GapOK(q, start.index, index)
  BY <1>1, <1>4, PageOK
<1>6. q.pc # "idle" /\ reader.pc # "idle" /\ Unfilled(q)
  BY <1>1, <1>4 DEF Unfilled, Fetching, IndexTypeOK
<1>7. IndexTypeOK'
  BY <1>1, <1>4, <1>6 DEF IndexTypeOK
<1> QED
  BY <1>1, <1>4, <1>5, <1>6, <1>7 DEF IndexInv

LEMMA IndexCount ==
  ASSUME IndexInv, Index!CountEvents
  PROVE  IndexInv'
<1> DEFINE q == [reader EXCEPT !.pc = IF reader.pc = "query" THEN "page" ELSE "gather",
                               !.total = Len(index)]
<1>1. /\ IndexTypeOK /\ reader \in Readers /\ index \in Seq(Event)
      /\ start.index \in Seq(Event) /\ reader.pc \in {"query", "count"}
      /\ reader' = q /\ UNCHANGED <<index, stored, reorgs, start>>
  BY DEF IndexInv, IndexTypeOK, ListOK, Index!CountEvents
<1>2. Len(index) \in Nat
  BY <1>1
<1>3. /\ q \in Readers
      /\ q.pc = IF reader.pc = "query" THEN "page" ELSE "gather"
      /\ q.total = Len(index)
      /\ q.limit = reader.limit /\ q.out = reader.out /\ q.scanned = reader.scanned
      /\ q.page = reader.page
  BY <1>1, <1>2 DEF Readers, Fetching
<1> HIDE DEF q
<1>4. /\ RestOK(reader, index) => RestOK(q, index)
      /\ CapOK(reader, index) => CapOK(q, index)
      /\ GapOK(reader, start.index, index) => GapOK(q, start.index, index)
  BY <1>1, <1>3, CountOK
<1>5. q.pc # "idle" /\ reader.pc # "idle" /\ Unfilled(q)
  BY <1>1, <1>3 DEF Unfilled, Fetching, IndexTypeOK
<1>6. IndexTypeOK'
  BY <1>1, <1>3, <1>5 DEF IndexTypeOK
<1> QED
  BY <1>1, <1>3, <1>4, <1>5, <1>6 DEF IndexInv

LEMMA WantedIs == \A n : Index!WantedOfPage(n) = Got(reader, n)
BY IndexFilter DEF Index!WantedOfPage, Index!Wanted, Got, Asked, Event

LEMMA IndexGather ==
  ASSUME IndexInv, Index!Gather
  PROVE  IndexInv'
<1> DEFINE all == Len(reader.page)
           scanned == reader.scanned + all
<1>1. /\ IndexTypeOK /\ reader \in Readers /\ index \in Seq(Event) /\ Unfilled(reader)
      /\ start.index \in Seq(Event) /\ reader.pc = "gather" /\ reader.pc \in Fetching
      /\ UNCHANGED <<index, stored, reorgs, start>>
  BY DEF IndexInv, IndexTypeOK, ListOK, Index!Gather, Fetching
<1>2. reader.page \in Seq(Event) /\ all \in Nat /\ reader.scanned \in Nat /\ scanned \in Nat
  BY <1>1 DEF Readers
<1>3. \A n : Index!EnoughAt(n) <=> EnoughGot(reader, n)
  BY WantedIs DEF Index!EnoughAt, EnoughGot
<1>4. CASE Index!EnoughAt(all)
  <2>1. EnoughGot(reader, all)
    BY <1>3, <1>4
  <2> DEFINE n == CHOOSE n \in 1..all : Index!EnoughAt(n) /\ ~Index!EnoughAt(n - 1)
             q == [reader EXCEPT !.pc = "done", !.out = @ \o Got(reader, n),
                                 !.scanned = @ + n, !.truncated = FALSE]
  <2>2. n \in 1..all /\ Index!EnoughAt(n) /\ ~Index!EnoughAt(n - 1)
    <3>1. \E m \in 1..all : EnoughGot(reader, m) /\ ~EnoughGot(reader, m - 1)
      BY <1>1, <2>1, StopsAt
    <3>2. \E m \in 1..all : Index!EnoughAt(m) /\ ~Index!EnoughAt(m - 1)
      BY <1>3, <3>1
    <3> QED
      BY <3>2
  <2>3. reader' = q
    BY <1>4, WantedIs DEF Index!Gather
  <2> HIDE DEF n
  <2>4. EnoughGot(reader, n) /\ ~EnoughGot(reader, n - 1)
    BY <1>3, <2>2
  <2>5. n \in 0..all /\ reader.scanned + n \in Nat
    BY <1>2, <2>2
  <2>6. reader.out \o Got(reader, n) \in Seq(Event)
    BY <1>1, <2>5, GotType
  <2>7. /\ q \in Readers /\ q.pc = "done" /\ q.limit = reader.limit
        /\ q.out = reader.out \o Got(reader, n) /\ q.truncated = FALSE
    BY <1>1, <2>5, <2>6 DEF Readers, Fetching
  <2> HIDE DEF q
  <2>8. RestOK(reader, index) => RestOK(q, index)
    BY <1>1, <2>2, <2>4, <2>7, GatherEnough
  <2>9. q.limit # 0
    BY <2>4, <2>7 DEF EnoughGot
  <2>10. CapOK(q, index) /\ Unfilled(q)
    BY <2>7 DEF CapOK, Unfilled, Fetching
  <2>11. IndexTypeOK'
    BY <1>1, <2>3, <2>7, <2>10 DEF IndexTypeOK
  <2> QED
    BY <1>1, <2>3, <2>7, <2>8, <2>9, <2>10, <2>11 DEF IndexInv
<1>5. CASE ~Index!EnoughAt(all)
  <2> DEFINE more == ~Index!NoMorePages(scanned)
             q == [reader EXCEPT !.pc = IF Index!NoMorePages(scanned) THEN "done" ELSE "query",
                                 !.out = @ \o Got(reader, all), !.scanned = scanned,
                                 !.truncated = Index!NoMorePages(scanned) /\ Index!Truncated(scanned)]
  <2>1. reader' = q
    BY <1>5, WantedIs DEF Index!Gather
  <2>2. ~EnoughGot(reader, all)
    BY <1>3, <1>5
  <2>3. all \in 0..all
    BY <1>2
  <2>4. reader.out \o Got(reader, all) \in Seq(Event)
    BY <1>1, <2>3, GotType
  <2>5. more \in BOOLEAN /\ more <=> ~ (all = 0 \/ scanned >= reader.total \/ scanned >= MaxScan)
    BY DEF Index!NoMorePages
  <2>6. (Index!NoMorePages(scanned) /\ Index!Truncated(scanned)) \in BOOLEAN
    BY DEF Index!NoMorePages, Index!Truncated
  <2>7. /\ q \in Readers /\ q.limit = reader.limit /\ q.out = reader.out \o Got(reader, all)
        /\ q.scanned = scanned /\ q.pc = (IF more THEN "query" ELSE "done")
        /\ q.truncated = (Index!NoMorePages(scanned) /\ Index!Truncated(scanned))
    BY <1>1, <1>2, <2>4, <2>6 DEF Readers, Fetching
  <2>8. q.truncated <=> ~more /\ q.scanned < reader.total
    BY <2>7 DEF Index!Truncated
  <2>9. more <=> ~ (all = 0 \/ q.scanned >= reader.total \/ q.scanned >= MaxScan)
    BY <2>5, <2>7
  <2> HIDE DEF more, q
  <2>10. /\ Unfilled(q)
         /\ RestOK(reader, index) => RestOK(q, index)
         /\ CapOK(reader, index) => CapOK(q, index)
    BY <1>1, <2>2, <2>5, <2>7, <2>8, <2>9, GatherAll
  <2>11. q.pc \in {"query", "done"} /\ q.pc # "idle" /\ reader.pc # "idle"
    BY <1>1, <2>7
  <2>12. reader.limit = 0 /\ GapOK(reader, start.index, index) => GapOK(q, start.index, index)
    BY <1>1, <2>7, <2>11, GatherGap
  <2>13. IndexTypeOK'
    BY <1>1, <2>1, <2>7, <2>10, <2>11 DEF IndexTypeOK
  <2> QED
    BY <1>1, <2>1, <2>7, <2>10, <2>11, <2>12, <2>13 DEF IndexInv
<1> QED
  BY <1>4, <1>5

LEMMA IndexBegin ==
  ASSUME IndexInv, NEW limit \in 0..2, Index!Begin(limit)
  PROVE  IndexInv'
<1> DEFINE q == [Index!Idle EXCEPT !.pc = "query", !.limit = limit]
           o == [index |-> index, stored |-> stored, reorgs |-> reorgs]
<1>1. /\ IndexTypeOK /\ index \in Seq(Event) /\ Once(index) /\ stored \in Nat /\ reorgs \in Nat
      /\ reader' = q /\ start' = o /\ UNCHANGED <<index, stored, reorgs>>
  BY IndexNumbers DEF IndexInv, IndexTypeOK, ListOK, Index!Begin
<1>2. q \in Readers /\ q.pc = "query" /\ q.out = <<>> /\ q.scanned = 0 /\ q.limit = limit
  <2>1. Index!Idle \in Readers /\ Index!Idle.out = <<>> /\ Index!Idle.scanned = 0 /\ limit \in Nat
    BY IdleType DEF Index!Idle
  <2>2. q \in Readers
    BY <2>1 DEF Readers, Fetching
  <2>3. q.pc = "query" /\ q.out = Index!Idle.out /\ q.scanned = Index!Idle.scanned /\ q.limit = limit
    BY <2>1 DEF Readers
  <2> QED
    BY <2>1, <2>2, <2>3
<1>3. Unfilled(q)
  <2>1. Len(<<>>) = 0
    OBVIOUS
  <2> QED
    BY <1>2, <2>1 DEF Unfilled
<1>4. /\ o \in [index : Seq(Event), stored : Nat, reorgs : Nat]
      /\ o.index = index /\ o.stored = stored /\ o.reorgs = reorgs
      /\ o.stored =< stored /\ o.reorgs =< reorgs
  BY <1>1
<1> HIDE DEF q, o
<1>5. RestOK(q, index) /\ (index # <<>> => CapOK(q, index)) /\ GapOK(q, index, index)
  BY <1>1, <1>2, BeginsOK
<1>6. IndexTypeOK'
  BY <1>1, <1>2, <1>3, <1>4 DEF IndexTypeOK
<1> QED
  BY <1>1, <1>2, <1>4, <1>5, <1>6 DEF IndexInv

LEMMA IndexAnswered ==
  ASSUME IndexInv, Index!Answered
  PROVE  IndexInv'
<1>1. IndexTypeOK /\ reader' = Index!Idle /\ start' = Index!NoCall /\ UNCHANGED <<index, stored, reorgs>>
  BY DEF IndexInv, Index!Answered
<1>2. stored \in Nat /\ reorgs \in Nat
  BY <1>1, IndexNumbers DEF IndexTypeOK
<1>3. 0 =< stored /\ 0 =< reorgs
  BY <1>2
<1>4. IndexTypeOK'
  BY <1>1, <1>3, IdleType DEF IndexTypeOK
<1> QED
  BY <1>1, <1>4, IdleType DEF IndexInv

LEMMA IndexStore ==
  ASSUME IndexInv, Index!StoreEvent
  PROVE  IndexInv'
<1>1. /\ IndexTypeOK /\ index \in Seq(Event) /\ ListOK(index, stored) /\ stored \in 0..MaxEvents
      /\ stored < MaxEvents /\ reader \in Readers /\ start.index \in Seq(Event)
      /\ start.stored \in Nat /\ start.stored =< stored
      /\ stored' = stored + 1 /\ UNCHANGED <<reorgs, reader, start>>
  BY DEF IndexInv, IndexTypeOK, ListOK, Index!StoreEvent
<1>2. stored \in Nat /\ MaxEvents \in Nat /\ stored + 1 \in Event /\ stored + 1 \in 0..MaxEvents
  BY <1>1, IndexNumbers DEF Event
<1>3. PICK w \in 0..Index!LesserOf(Depth, Len(index)) :
        index' = SubSeq(index, 1, w) \o <<stored + 1>> \o SubSeq(index, w + 1, Len(index))
  BY DEF Index!StoreEvent
<1>4. w \in 0..Len(index)
  <2>1. Len(index) \in Nat /\ Depth \in Nat
    BY <1>1, IndexNumbers
  <2> QED
    BY <1>3, <2>1 DEF Index!LesserOf
<1> DEFINE t == SubSeq(index, 1, w) \o <<stored + 1>> \o SubSeq(index, w + 1, Len(index))
<1>5. /\ t \in Seq(Event) /\ Len(t) = Len(index) + 1
      /\ \A i \in 1..w : t[i] = index[i]
      /\ t[w + 1] = stored + 1
      /\ \A i \in (w + 1)..Len(index) : t[i + 1] = index[i]
  <2>1. IsInsert(Insert(index, w, stored + 1), index, w, stored + 1)
    BY <1>1, <1>2, <1>4, InsertFacts
  <2>2. t = Insert(index, w, stored + 1)
    BY DEF Insert
  <2> HIDE DEF t
  <2>3. IsInsert(t, index, w, stored + 1)
    BY <2>1, <2>2
  <2> QED
    BY <2>3 DEF IsInsert
<1>6. index' = t
  BY <1>3
<1> HIDE DEF t
<1>7. /\ ListOK(t, stored + 1)
      /\ CapOK(reader, index) => CapOK(reader, t)
      /\ GapOK(reader, start.index, index) => GapOK(reader, start.index, t)
  BY <1>1, <1>4, <1>5, EventStored
<1>8. start.stored =< stored + 1 /\ stored + 1 # start.stored
  BY <1>1, <1>2
<1>9. IndexTypeOK'
  BY <1>1, <1>2, <1>6, <1>7, <1>8 DEF IndexTypeOK
<1> QED
  BY <1>1, <1>6, <1>7, <1>8, <1>9 DEF IndexInv

LEMMA IndexDrop ==
  ASSUME IndexInv, Index!DropOrphans
  PROVE  IndexInv'
<1>1. /\ IndexTypeOK /\ index \in Seq(Event) /\ ListOK(index, stored) /\ stored \in 0..MaxEvents
      /\ reorgs \in Nat /\ start.reorgs \in Nat /\ start.reorgs =< reorgs
      /\ reorgs' = reorgs + 1 /\ UNCHANGED <<stored, reader, start>>
  BY DEF IndexInv, IndexTypeOK, ListOK, Index!DropOrphans
<1>2. PICK k \in 1..Index!LesserOf(Depth, Len(index)) : index' = SubSeq(index, k + 1, Len(index))
  BY DEF Index!DropOrphans
<1>3. k \in 0..Len(index)
  <2>1. Len(index) \in Nat /\ Depth \in Nat
    BY <1>1, IndexNumbers
  <2> QED
    BY <1>2, <2>1 DEF Index!LesserOf
<1>4. ListOK(SubSeq(index, k + 1, Len(index)), stored)
  BY <1>1, <1>3, OrphansDropped
<1>5. start.reorgs =< reorgs + 1 /\ reorgs + 1 # start.reorgs /\ reorgs + 1 \in Nat
  BY <1>1
<1>6. IndexTypeOK'
  BY <1>1, <1>2, <1>4, <1>5 DEF IndexTypeOK
<1> QED
  BY <1>1, <1>5, <1>6 DEF IndexInv

LEMMA IndexNext == IndexInv /\ [Index!Next]_(Index!vars) => IndexInv'
<1> SUFFICES ASSUME IndexInv, [Index!Next]_(Index!vars) PROVE IndexInv'
  OBVIOUS
<1>1. CASE Index!Next
  BY <1>1, IndexStore, IndexDrop, IndexBegin, IndexPage, IndexCount, IndexGather, IndexAnswered
     DEF Index!Next, Index!Read
<1>2. CASE UNCHANGED Index!vars
  BY <1>2 DEF Index!vars, IndexInv, IndexTypeOK
<1> QED
  BY <1>1, <1>2

(* What the invariant says of an answer. *)
LEMMA IndexHonest == IndexInv => DrainHonest /\ RecentAreNewest
<1> SUFFICES ASSUME IndexInv PROVE DrainHonest /\ RecentAreNewest
  OBVIOUS
<1>1. /\ IndexTypeOK /\ start.index \in Seq(Event) /\ index \in Seq(Event)
      /\ reader.limit \in Nat
  BY DEF IndexInv, IndexTypeOK, ListOK, Readers
<1>2. Index!NoGap
  <2> SUFFICES ASSUME reader.limit = 0, reorgs = start.reorgs,
                      NEW j \in DOMAIN start.index, start.index[j] \in Index!Elements(reader.out),
                      NEW i \in 1..j
               PROVE  start.index[i] \in Index!Elements(reader.out)
    BY DEF Index!NoGap
  <2>1. DOMAIN start.index = 1..Len(start.index)
    BY <1>1
  <2>2. CASE reader.pc = "idle"
    <3>1. start.index = <<>>
      BY <1>1, <2>2 DEF IndexTypeOK, Index!NoCall
    <3> QED
      BY <3>1
  <2>3. CASE reader.pc # "idle"
    <3>1. NewerToo(start.index, Index!Elements(reader.out))
      BY <2>3 DEF IndexInv, GapOK
    <3> QED
      BY <2>1, <3>1 DEF NewerToo
  <2> QED
    BY <2>2, <2>3
<1>3. Index!TruncatedOnlyAtCap
  BY DEF IndexInv, CapOK, Index!TruncatedOnlyAtCap
<1>4. ASSUME Index!Undisturbed, reader.pc = "done", ~reader.truncated
      PROVE  /\ index = start.index
             /\ IF reader.limit = 0 THEN reader.out = index
                ELSE LET current == Filter(index, Challenges)
                     IN reader.out = SubSeq(current, 1, IF reader.limit < Len(current)
                                                        THEN reader.limit ELSE Len(current))
  BY <1>4 DEF IndexInv, RestOK, Index!Undisturbed
<1>5. Index!AuthoritativeAtRest
  BY <1>4 DEF Index!AuthoritativeAtRest, Index!NotFoundIsAuthoritative, Index!Complete
<1>6. Index!RecentAreNewest
  <2> SUFFICES ASSUME Index!Undisturbed, reader.pc = "done", reader.limit > 0, ~reader.truncated
               PROVE  LET current == Filter(start.index, Challenges)
                      IN reader.out = SubSeq(current, 1, Index!LesserOf(reader.limit, Len(current)))
    BY IndexFilter DEF Index!RecentAreNewest
  <2>1. reader.limit # 0
    BY <1>1
  <2> QED
    BY <1>4, <2>1 DEF Index!LesserOf
<1> QED
  BY <1>2, <1>3, <1>5, <1>6 DEF DrainHonest, RecentAreNewest

LEMMA IndexKeeps == Index!Spec => []IndexInv
<1>1. Index!Init => IndexInv
  BY IndexInit
<1>2. IndexInv /\ [Index!Next]_(Index!vars) => IndexInv'
  BY IndexNext
<1> QED
  BY <1>1, <1>2, PTL DEF Index!Spec

-----------------------------------------------------------------------------
(* Every challenge has a number of its own, which the verifications that read  *)
(* it know it by, and none that has let a login pass is in the store.          *)
KmsInv ==
  /\ generated \in Nat
  /\ linked \in Address
  /\ challenges = [a \in Address |-> challenges[a]]
  /\ verifying \in [Verifier -> [at : {"idle", "kms", "find"}, of : Address, id : Nat]]
  /\ \A a \in Address :
       /\ challenges[a].id \in 0..generated
       /\ challenges[a].id = 0 => challenges[a] = Kms!NoChallenge
       /\ \A b \in Address : challenges[a].id = challenges[b].id /\ a # b => challenges[a].id = 0
  /\ used \subseteq 1..generated
  /\ \A v \in Verifier : Kms!At(v, "kms") =>
       /\ verifying[v].id \in 1..generated
       /\ verifying[v].of \in Address
       /\ \A a \in Address : challenges[a].id = verifying[v].id => a = verifying[v].of
  /\ Kms!UsedChallengeGone

LEMMA KmsInit == Kms!Init => KmsInv
BY DEF Kms!Init, KmsInv, Kms!NoChallenge, Kms!At, Kms!UsedChallengeGone

LEMMA KmsNext == KmsInv /\ [Kms!Next]_(Kms!vars) => KmsInv'
<1> SUFFICES ASSUME KmsInv, [Kms!Next]_(Kms!vars) PROVE KmsInv'
  OBVIOUS
<1> USE DEF KmsInv, Kms!At, Kms!UsedChallengeGone
<1>1. CASE Kms!GenerateLoginChallenge
  BY <1>1 DEF Kms!GenerateLoginChallenge, Kms!NoChallenge
<1>2. CASE Kms!CleanupExpiredChallenges
  BY <1>2 DEF Kms!CleanupExpiredChallenges, Kms!NoChallenge
<1>3. CASE Kms!Tick
  BY <1>3 DEF Kms!Tick
<1>4. CASE Kms!Crash
  BY <1>4 DEF Kms!Crash, Kms!NoChallenge
<1>5. ASSUME NEW a \in Address, Kms!LinkWallet(a) PROVE KmsInv'
  BY <1>5 DEF Kms!LinkWallet
<1>6. ASSUME NEW v \in Verifier, NEW a \in Address, Kms!VerifyKmsLogin(v, a) PROVE KmsInv'
  <2>1. CASE Kms!Taken(v, a)
    BY <1>6, <2>1 DEF Kms!VerifyKmsLogin, Kms!Taken
  <2>2. CASE Kms!Refused(a)
    BY <1>6, <2>2 DEF Kms!VerifyKmsLogin, Kms!Refused, Kms!NoChallenge
  <2> QED
    BY <1>6, <2>1, <2>2 DEF Kms!VerifyKmsLogin
<1>7. ASSUME NEW v \in Verifier, Kms!Signed(v) PROVE KmsInv'
  BY <1>7 DEF Kms!Signed, Kms!CleanedUp, Kms!NoChallenge
<1>8. ASSUME NEW v \in Verifier, Kms!Answered(v) PROVE KmsInv'
  BY <1>8 DEF Kms!Answered
<1>9. CASE UNCHANGED Kms!vars
  BY <1>9 DEF Kms!vars
<1> QED
  BY <1>1, <1>2, <1>3, <1>4, <1>5, <1>6, <1>7, <1>8, <1>9 DEF Kms!Next

(* A challenge is good for the login it lets pass and for none that begins     *)
(* after it (verifyKmsLogin).                                                  *)
LEMMA ChallengeUsedOnce == Kms!Spec => []Kms!UsedChallengeGone
<1>1. KmsInv => Kms!UsedChallengeGone
  BY DEF KmsInv
<1> QED
  BY <1>1, KmsInit, KmsNext, PTL DEF Kms!Spec

LEMMA KmsKept == KmsInv /\ [Kms!Next]_(Kms!vars) => Kms!KeptUntilLogin
<1> SUFFICES ASSUME KmsInv, [Kms!Next]_(Kms!vars), NEW a \in Address,
                    challenges[a] # Kms!NoChallenge, ~Kms!Expired(a), challenges'[a] = Kms!NoChallenge
             PROVE  \/ \A v \in Verifier : verifying'[v].at = "idle"
                    \/ \E v \in Verifier :
                         Kms!At(v, "kms") /\ verifying[v].of = a /\ verifying'[v].at = "find"
  BY DEF Kms!KeptUntilLogin
<1> USE DEF KmsInv
<1>1. CASE Kms!GenerateLoginChallenge
  BY <1>1 DEF Kms!GenerateLoginChallenge, Kms!NoChallenge
<1>2. CASE Kms!CleanupExpiredChallenges
  BY <1>2 DEF Kms!CleanupExpiredChallenges
<1>3. CASE Kms!Tick
  BY <1>3 DEF Kms!Tick
<1>4. CASE Kms!Crash
  BY <1>4 DEF Kms!Crash
<1>5. ASSUME NEW b \in Address, Kms!LinkWallet(b) PROVE FALSE
  BY <1>5 DEF Kms!LinkWallet
<1>6. ASSUME NEW v \in Verifier, NEW b \in Address, Kms!VerifyKmsLogin(v, b) PROVE FALSE
  BY <1>6 DEF Kms!VerifyKmsLogin, Kms!Taken, Kms!Refused, Kms!Expired
<1>7. ASSUME NEW v \in Verifier, Kms!Signed(v)
      PROVE  Kms!At(v, "kms") /\ verifying[v].of = a /\ verifying'[v].at = "find"
  BY <1>7 DEF Kms!Signed, Kms!CleanedUp, Kms!At
<1>8. ASSUME NEW v \in Verifier, Kms!Answered(v) PROVE FALSE
  BY <1>8 DEF Kms!Answered
<1>9. CASE UNCHANGED Kms!vars
  BY <1>9 DEF Kms!vars
<1> QED
  BY <1>1, <1>2, <1>3, <1>4, <1>5, <1>6, <1>7, <1>8, <1>9 DEF Kms!Next

(* A refused or unanswered verification costs its user nothing: the challenge  *)
(* stays (verifyKmsLogin).                                                     *)
LEMMA ChallengeKept == Kms!Spec => [][Kms!KeptUntilLogin]_(Kms!vars)
<1>1. Kms!Spec => []KmsInv
  BY KmsInit, KmsNext, PTL DEF Kms!Spec
<1> QED
  BY <1>1, KmsKept, PTL DEF Kms!Spec

-----------------------------------------------------------------------------
(* A behaviour of the services is one of each of them: of the one it is of   *)
(* and of the others, which rest.                                            *)
LEMMA EachIsServed == SpecAll => Spec /\ Limiter!Spec /\ Kms!Spec /\ Index!Spec /\ Loop!Spec
<1>1. InitAll => Init /\ Limiter!Init /\ Kms!Init /\ Index!Init /\ Loop!Init
  BY DEF InitAll
<1>2. [NextAll]_allVars => /\ [Next]_vars /\ [Limiter!Next]_(Limiter!vars) /\ [Kms!Next]_(Kms!vars)
                           /\ [Index!Next]_(Index!vars) /\ [Loop!Next]_(Loop!vars)
  <2> SUFFICES ASSUME [NextAll]_allVars
               PROVE  /\ [Next]_vars /\ [Limiter!Next]_(Limiter!vars) /\ [Kms!Next]_(Kms!vars)
                      /\ [Index!Next]_(Index!vars) /\ [Loop!Next]_(Loop!vars)
    OBVIOUS
  <2>1. /\ UNCHANGED limiterVars => UNCHANGED Limiter!vars
        /\ UNCHANGED kmsVars => UNCHANGED Kms!vars
        /\ UNCHANGED indexVars => UNCHANGED Index!vars
        /\ UNCHANGED loopVars => UNCHANGED Loop!vars
    BY DEF limiterVars, kmsVars, indexVars, loopVars, Limiter!vars, Kms!vars, Index!vars, Loop!vars,
           Loop!chainVars, Loop!serviceVars, Loop!roundVars, Loop!metricVars
  <2>2. CASE UNCHANGED allVars
    BY <2>1, <2>2 DEF allVars
  <2>3. CASE NextAll
    BY <2>1, <2>3 DEF NextAll
  <2> QED
    BY <2>2, <2>3
<1> QED
  BY <1>1, <1>2, PTL DEF SpecAll, Spec, Limiter!Spec, Kms!Spec, Index!Spec, Loop!Spec

(* No window of a remembered key lets more calls pass than the limit, and a  *)
(* caller that is turned away is let in when it was told (RateLimitGuard's   *)
(* canActivate, with its sweep and its eviction of the oldest keys).         *)
THEOREM LimiterCorrect == SpecAll => []LimiterHonest
BY EachIsServed, LimiterKeeps, LimiterIsHonest, PTL

(* The store of a limiter never holds more keys than its bound, nor more     *)
(* hits of a key than its limit (sweep and evictOldest).                     *)
THEOREM LimiterBounded == SpecAll => []Limiter!TypeOK
BY EachIsServed, LimiterKeeps, LimiterTypes, PTL

(* A challenge that has let a login pass lets none pass that begins later    *)
(* (verifyKmsLogin).                                                         *)
THEOREM ChallengeGone == SpecAll => []UsedChallengeGone
<1>1. Kms!UsedChallengeGone => UsedChallengeGone
  BY DEF UsedChallengeGone
<1> QED
  BY <1>1, EachIsServed, ChallengeUsedOnce, PTL

(* A verification that is refused or never answered costs its user nothing:  *)
(* the challenge stays (verifyKmsLogin).                                     *)
THEOREM ChallengeStays == SpecAll => KeptUntilLogin
<1>1. [Kms!KeptUntilLogin]_(Kms!vars) => [part = "kms" => Kms!KeptUntilLogin]_allVars
  BY DEF Kms!KeptUntilLogin, Kms!vars
<1> QED
  BY <1>1, EachIsServed, ChallengeKept, PTL DEF KeptUntilLogin

(* However the pages fall and whatever the indexer adds meanwhile, a drain   *)
(* leaves no gap and reports a cut only at the cap; at rest it is complete   *)
(* (getChallengesByTaskId over queryEvents).                                 *)
THEOREM DrainsHonest == SpecAll => []DrainHonest
BY EachIsServed, IndexKeeps, IndexHonest, PTL

(* Of an index at rest exactly the newest challenges are returned, wherever  *)
(* the pages end (getRecentChallenges).                                      *)
THEOREM NewestReturned == SpecAll => []RecentAreNewest
BY EachIsServed, IndexKeeps, IndexHonest, PTL

(* No error outlives a success and none is hidden, with any number of        *)
(* sources failing in any order (doPoll's accounting).                       *)
THEOREM ErrorNeverStale == SpecAll => []ErrorStateAgrees
<1>1. ErrorInv => ErrorStateAgrees
  BY DEF ErrorInv, ErrorStateAgrees
<1> QED
  BY <1>1, EachIsServed, ErrorKeeps, PTL

(* A source whose store is corrupt is not polled again by this process, not  *)
(* even in the round that found it so (disabledSources).                     *)
THEOREM CorruptStoresUntouched == SpecAll => []CorruptStoreUntouched
BY EachIsServed, LoopKeeps, LoopHonest, PTL
=============================================================================

-------------------------- MODULE ClientPairing_proofs --------------------------
(***************************************************************************)
(* Why an approval yields one credential and is not lost, why the maps of  *)
(* the pairing store stay bounded, and why no write of the credential      *)
(* store undoes another: for any number of requests, credentials, failures *)
(* and restarts, and any size of the maps.                                 *)
(*                                                                         *)
(* First what filtering a sequence and keeping its newest entries do; then *)
(* what pruning does to the two maps; then the credential store, where the *)
(* queue makes what an operation has in memory what is on disk; and last   *)
(* the account of every request, one lemma per action.                     *)
(***************************************************************************)
EXTENDS ClientPairing, SequenceTheorems, FiniteSetTheorems, WellFoundedInduction, TLAPS


(* What comes earlier in s stands in the relation R to what comes later. *)
Ordered(s, R) == \A m, n \in DOMAIN s : m < n => <<s[m], s[n]>> \in R

(* A step of Only, when g has what the shorter prefixes of s leave. *)
OnlyOf(s, S, g, n) ==
    IF n = 0 THEN <<>>
    ELSE IF s[n] \in S THEN Append(g[n - 1], s[n]) ELSE g[n - 1]

LEMMA LeastElement ==
  ASSUME NEW T, T \subseteq Nat, T # {}
  PROVE  \E m \in T : \A n \in T : m <= n
<1>1. IsWellFoundedOn(OpToRel(<, Nat), Nat)
  BY NatLessThanWellFounded
<1>2. PICK m \in T : \A n \in T : ~(<<n, m>> \in OpToRel(<, Nat))
  BY <1>1, WFMin
<1>3. \A n \in T : ~(n < m)
  BY <1>2 DEF OpToRel
<1> QED
  BY <1>3

(* The function by which Only is defined exists, on any length: induction by   *)
(* the least length on which it would not.                                     *)
LEMMA OnlyPrefixes ==
  ASSUME NEW s, NEW S
  PROVE  \A m \in Nat : \E g : g = [n \in 0 .. m |-> OnlyOf(s, S, g, n)]
<1> DEFINE Good(m) == \E g : g = [n \in 0 .. m |-> OnlyOf(s, S, g, n)]
           Bad == {m \in Nat : ~Good(m)}
<1>1. SUFFICES ASSUME Bad # {} PROVE FALSE
  OBVIOUS
<1>2. PICK m \in Bad : \A n \in Bad : m <= n
  <2>1. Bad \subseteq Nat
    OBVIOUS
  <2> QED
    BY <1>1, <2>1, LeastElement
<1>3. m # 0
  <2> SUFFICES ASSUME m = 0 PROVE FALSE
    OBVIOUS
  <2> DEFINE g == [n \in 0 .. 0 |-> <<>>]
  <2>1. g = [n \in 0 .. 0 |-> OnlyOf(s, S, g, n)]
    BY DEF OnlyOf
  <2> QED
    BY <1>2, <2>1
<1>4. PICK g : g = [n \in 0 .. (m - 1) |-> OnlyOf(s, S, g, n)]
  <2>1. m - 1 \in Nat /\ ~(m <= m - 1)
    BY <1>3
  <2> QED
    BY <1>2, <2>1
<1> DEFINE h == [n \in 0 .. m |-> IF n < m THEN g[n] ELSE OnlyOf(s, S, g, m)]
<1>5. ASSUME NEW n \in 0 .. m
      PROVE  h[n] = OnlyOf(s, S, h, n)
  <2>1. CASE n < m
    <3>1. n \in 0 .. (m - 1)
      BY <2>1
    <3>2. g[n] = OnlyOf(s, S, g, n)
      BY <1>4, <3>1
    <3>3. n # 0 => n - 1 \in 0 .. m /\ n - 1 < m
      BY <3>1
    <3> QED
      BY <3>2, <3>3, <2>1 DEF OnlyOf
  <2>2. CASE n = m
    <3>1. n - 1 \in 0 .. m /\ n - 1 < m
      BY <2>2, <1>3
    <3> QED
      BY <3>1, <2>2 DEF OnlyOf
  <2> QED
    BY <2>1, <2>2
<1>6. h = [n \in 0 .. m |-> OnlyOf(s, S, h, n)]
  BY <1>5
<1> QED
  BY <1>2, <1>6

LEMMA OnlyUnfolds ==
  ASSUME NEW s, Len(s) \in Nat, NEW S
  PROVE  \E g : /\ Only(s, S) = g[Len(s)]
                /\ \A n \in 0 .. Len(s) : g[n] = OnlyOf(s, S, g, n)
<1> DEFINE Is(g) == g = [n \in 0 .. Len(s) |-> OnlyOf(s, S, g, n)]
<1>1. \E g : Is(g)
  BY OnlyPrefixes
<1>2. Only(s, S) = (CHOOSE g : Is(g))[Len(s)]
  BY DEF Only, OnlyOf
<1>3. Is(CHOOSE g : Is(g))
  BY <1>1
<1> QED
  BY <1>2, <1>3

(* What filtering keeps: the entries of s that are in S, in their order.       *)
LEMMA OnlyProperties ==
  ASSUME NEW X, NEW s \in Seq(X), NEW S, NEW R
  PROVE  /\ Only(s, S) \in Seq(X)
         /\ Len(Only(s, S)) <= Len(s)
         /\ ToSet(Only(s, S)) = ToSet(s) \cap S
         /\ ~(ToSet(s) \subseteq S) => Len(Only(s, S)) < Len(s)
         /\ Ordered(s, R) => Ordered(Only(s, S), R)
         /\ \A k \in DOMAIN Only(s, S) : \E l \in DOMAIN s : k <= l /\ Only(s, S)[k] = s[l]
<1>1. PICK g : /\ Only(s, S) = g[Len(s)]
               /\ \A n \in 0 .. Len(s) : g[n] = OnlyOf(s, S, g, n)
  BY OnlyUnfolds
<1> DEFINE
      Typed(n) == g[n] \in Seq(X) /\ Len(g[n]) <= n
      Sound(n) == \A k \in 1 .. Len(g[n]) : \E l \in 1 .. n : k <= l /\ g[n][k] = s[l] /\ s[l] \in S
      Complete(n) == \A l \in 1 .. n : s[l] \in S => \E k \in 1 .. Len(g[n]) : g[n][k] = s[l]
      Shorter(n) == (\E l \in 1 .. n : s[l] \notin S) => Len(g[n]) < n
      InOrder(n) == Ordered(s, R) => \A k, l \in 1 .. Len(g[n]) : k < l => <<g[n][k], g[n][l]>> \in R
      Good(n) == Typed(n) /\ Sound(n) /\ Complete(n) /\ Shorter(n) /\ InOrder(n)
      Bad == {n \in 0 .. Len(s) : ~Good(n)}
<1>2. Good(0)
  <2>1. g[0] = <<>>
    BY <1>1 DEF OnlyOf
  <2> QED
    BY <2>1
<1>3. ASSUME NEW n \in 1 .. Len(s), Good(n - 1)
      PROVE  Good(n)
  <2>1. n \in Nat /\ s[n] \in X
    OBVIOUS
  <2>2. g[n] = IF s[n] \in S THEN Append(g[n - 1], s[n]) ELSE g[n - 1]
    BY <1>1, <2>1 DEF OnlyOf
  <2>3. PICK p : p = g[n - 1]
    OBVIOUS
  <2>4. p \in Seq(X) /\ Len(p) \in Nat /\ Len(p) <= n - 1
    BY <1>3, <2>3
  <2>5. \A k \in 1 .. Len(p) : \E l \in 1 .. n - 1 : k <= l /\ p[k] = s[l] /\ s[l] \in S
    BY <1>3, <2>3
  <2>6. \A l \in 1 .. n - 1 : s[l] \in S => \E k \in 1 .. Len(p) : p[k] = s[l]
    BY <1>3, <2>3
  <2>7. (\E l \in 1 .. n - 1 : s[l] \notin S) => Len(p) < n - 1
    BY <1>3, <2>3
  <2>8. Ordered(s, R) => \A k, l \in 1 .. Len(p) : k < l => <<p[k], p[l]>> \in R
    BY <1>3, <2>3
  <2>9. /\ \A l \in 1 .. n : l \in 1 .. n - 1 \/ l = n
        /\ \A l \in 1 .. n - 1 : l \in 1 .. n
    BY <2>1
  <2>10. CASE s[n] \notin S
    <3>1. g[n] = p
      BY <2>2, <2>3, <2>10
    <3>2. Typed(n)
      BY <2>1, <2>4, <3>1
    <3>3. Sound(n)
      BY <2>5, <2>9, <3>1
    <3>4. Complete(n)
      BY <2>6, <2>9, <2>10, <3>1
    <3>5. Shorter(n)
      BY <2>1, <2>4, <3>1
    <3>6. InOrder(n)
      BY <2>8, <3>1
    <3> QED
      BY <3>2, <3>3, <3>4, <3>5, <3>6
  <2>11. CASE s[n] \in S
    <3>1. g[n] = Append(p, s[n])
      BY <2>2, <2>3, <2>11
    <3>2. /\ g[n] \in Seq(X) /\ Len(g[n]) = Len(p) + 1
          /\ \A k \in 1 .. Len(p) : g[n][k] = p[k]
          /\ g[n][Len(p) + 1] = s[n]
      BY <2>1, <2>4, <3>1, AppendProperties
    <3>3. \A k \in 1 .. Len(g[n]) : k \in 1 .. Len(p) \/ k = Len(p) + 1
      BY <2>4, <3>2
    <3>4. Len(p) + 1 \in 1 .. Len(g[n]) /\ \A k \in 1 .. Len(p) : k \in 1 .. Len(g[n])
      BY <2>4, <3>2
    <3>5. Typed(n)
      BY <2>1, <2>4, <3>2
    <3>6. Sound(n)
      <4> SUFFICES ASSUME NEW k \in 1 .. Len(g[n])
                   PROVE  \E l \in 1 .. n : k <= l /\ g[n][k] = s[l] /\ s[l] \in S
        OBVIOUS
      <4>1. CASE k \in 1 .. Len(p)
        BY <2>5, <2>9, <3>2, <4>1
      <4>2. CASE k = Len(p) + 1
        BY <2>1, <2>4, <2>11, <3>2, <4>2
      <4> QED
        BY <3>3, <4>1, <4>2
    <3>7. Complete(n)
      <4> SUFFICES ASSUME NEW l \in 1 .. n, s[l] \in S
                   PROVE  \E k \in 1 .. Len(g[n]) : g[n][k] = s[l]
        OBVIOUS
      <4>1. CASE l \in 1 .. n - 1
        BY <2>6, <3>2, <3>4, <4>1
      <4>2. CASE l = n
        BY <3>2, <3>4, <4>2
      <4> QED
        BY <2>9, <4>1, <4>2
    <3>8. Shorter(n)
      BY <2>1, <2>4, <2>7, <2>9, <2>11, <3>2
    <3>9. InOrder(n)
      <4> SUFFICES ASSUME Ordered(s, R), NEW k \in 1 .. Len(g[n]), NEW l \in 1 .. Len(g[n]), k < l
                   PROVE  <<g[n][k], g[n][l]>> \in R
        OBVIOUS
      <4>1. k \in 1 .. Len(p)
        BY <2>4, <3>2
      <4>2. CASE l \in 1 .. Len(p)
        BY <2>8, <3>2, <4>1, <4>2
      <4>3. CASE l = Len(p) + 1
        <5>1. PICK m \in 1 .. n - 1 : p[k] = s[m]
          BY <2>5, <4>1
        <5>2. m \in DOMAIN s /\ n \in DOMAIN s /\ m < n
          BY <2>1
        <5>3. <<s[m], s[n]>> \in R
          BY <5>2 DEF Ordered
        <5> QED
          BY <3>2, <4>1, <4>3, <5>1, <5>3
      <4> QED
        BY <3>3, <4>2, <4>3
    <3> QED
      BY <3>5, <3>6, <3>7, <3>8, <3>9
  <2> QED
    BY <2>10, <2>11
<1>4. Bad = {}
  <2> SUFFICES ASSUME Bad # {} PROVE FALSE
    OBVIOUS
  <2>1. Bad \subseteq Nat
    OBVIOUS
  <2>2. PICK m \in Bad : \A n \in Bad : m <= n
    BY <2>1, LeastElement
  <2>3. m \in 1 .. Len(s)
    BY <1>2, <2>2
  <2>4. m - 1 \in 0 .. Len(s) /\ ~(m <= m - 1)
    BY <2>3
  <2>5. Good(m - 1)
    BY <2>2, <2>4
  <2> QED
    BY <1>3, <2>2, <2>3, <2>5
<1> DEFINE t == Only(s, S)
<1>5. Good(Len(s)) /\ t = g[Len(s)]
  BY <1>1, <1>4
<1>6. /\ t \in Seq(X) /\ Len(t) <= Len(s)
      /\ \A k \in 1 .. Len(t) : \E l \in 1 .. Len(s) : k <= l /\ t[k] = s[l] /\ s[l] \in S
      /\ \A l \in 1 .. Len(s) : s[l] \in S => \E k \in 1 .. Len(t) : t[k] = s[l]
      /\ (\E l \in 1 .. Len(s) : s[l] \notin S) => Len(t) < Len(s)
      /\ Ordered(s, R) => \A k, l \in 1 .. Len(t) : k < l => <<t[k], t[l]>> \in R
  BY <1>5
<1> HIDE DEF t
<1>7. DOMAIN t = 1 .. Len(t) /\ DOMAIN s = 1 .. Len(s)
  BY <1>6
<1>8. ToSet(t) = ToSet(s) \cap S
  <2>1. ASSUME NEW e \in ToSet(t)
        PROVE  e \in ToSet(s) \cap S
    <3>1. PICK k \in 1 .. Len(t) : e = t[k]
      BY <1>7 DEF ToSet
    <3>2. PICK l \in 1 .. Len(s) : t[k] = s[l] /\ s[l] \in S
      BY <1>6
    <3> QED
      BY <1>7, <3>1, <3>2 DEF ToSet
  <2>2. ASSUME NEW e \in ToSet(s), e \in S
        PROVE  e \in ToSet(t)
    <3>1. PICK l \in 1 .. Len(s) : e = s[l]
      BY <1>7 DEF ToSet
    <3>2. PICK k \in 1 .. Len(t) : t[k] = s[l]
      BY <1>6, <2>2, <3>1
    <3> QED
      BY <1>7, <3>1, <3>2 DEF ToSet
  <2> QED
    BY <2>1, <2>2
<1>9. ~(ToSet(s) \subseteq S) => Len(t) < Len(s)
  BY <1>6, <1>7 DEF ToSet
<1>10. Ordered(s, R) => Ordered(t, R)
  BY <1>6, <1>7 DEF Ordered
<1>11. \A k \in DOMAIN t : \E l \in DOMAIN s : k <= l /\ t[k] = s[l]
  BY <1>6, <1>7
<1> QED
  BY <1>6, <1>8, <1>9, <1>10, <1>11 DEF t

(* What dropping the oldest keeps: the last entries, k of them if any is gone. *)
LEMMA NewestProperties ==
  ASSUME NEW X, NEW s \in Seq(X), NEW k \in Nat, NEW R
  PROVE  /\ Newest(s, k) \in Seq(X)
         /\ Len(Newest(s, k)) <= k
         /\ Len(Newest(s, k)) <= Len(s)
         /\ Newest(s, k) = s \/ Len(Newest(s, k)) = k
         /\ ToSet(Newest(s, k)) \subseteq ToSet(s)
         /\ Ordered(s, R) => Ordered(Newest(s, k), R)
         /\ s # <<>> /\ k > 0 => s[Len(s)] \in ToSet(Newest(s, k))
<1>1. CASE Len(s) <= k
  <2>1. Newest(s, k) = s
    BY <1>1 DEF Newest
  <2>2. s # <<>> => s[Len(s)] \in ToSet(s)
    BY DEF ToSet
  <2> QED
    BY <1>1, <2>1, <2>2
<1>2. CASE Len(s) > k
  <2> DEFINE d == Len(s) - k
             t == SubSeq(s, d + 1, Len(s))
  <2>1. d \in Nat /\ d + k = Len(s) /\ d > 0
    BY <1>2
  <2>2. Newest(s, k) = t
    BY <1>2 DEF Newest
  <2>3. \A n \in d + 1 .. Len(s) : s[n] \in X
    BY <2>1
  <2>4. t \in Seq(X) /\ Len(t) = k /\ \A n \in 1 .. k : t[n] = s[d + n]
    <3>1. /\ t \in Seq(X)
          /\ Len(t) = IF d + 1 <= Len(s) THEN Len(s) - (d + 1) + 1 ELSE 0
          /\ \A n \in 1 .. Len(s) - (d + 1) + 1 : t[n] = s[(d + 1) + n - 1]
      BY <2>1, <2>3, SubSeqProperties
    <3>2. Len(s) - (d + 1) + 1 = k /\ \A n \in 1 .. k : (d + 1) + n - 1 = d + n
      BY <2>1
    <3> QED
      BY <2>1, <3>1, <3>2
  <2> HIDE DEF d, t
  <2>5. DOMAIN t = 1 .. k /\ DOMAIN s = 1 .. Len(s)
    BY <2>4
  <2>6. \A n \in 1 .. k : d + n \in DOMAIN s
    BY <2>1, <2>5
  <2>7. ToSet(t) \subseteq ToSet(s)
    BY <2>4, <2>5, <2>6 DEF ToSet
  <2>8. Ordered(s, R) => Ordered(t, R)
    <3> SUFFICES ASSUME Ordered(s, R), NEW m \in 1 .. k, NEW n \in 1 .. k, m < n
                 PROVE  <<t[m], t[n]>> \in R
      BY <2>5 DEF Ordered
    <3>1. d + m \in DOMAIN s /\ d + n \in DOMAIN s /\ d + m < d + n
      BY <2>1, <2>6
    <3>2. <<s[d + m], s[d + n]>> \in R
      BY <3>1 DEF Ordered
    <3> QED
      BY <2>4, <3>2
  <2>9. k > 0 => s[Len(s)] \in ToSet(t)
    BY <2>1, <2>4, <2>5 DEF ToSet
  <2> QED
    BY <1>2, <2>2, <2>4, <2>7, <2>8, <2>9
<1> QED
  BY <1>1, <1>2

(* Two ids, or two entries of different ids. *)
OtherId == {p \in Pairing \X Pairing : p[1] # p[2]}
OtherEnding == {p \in Ending \X Ending : p[1].id # p[2].id}

(* A map has as many ids as entries. *)
LEMMA DistinctCount ==
  ASSUME NEW s \in Seq(Pairing), Ordered(s, OtherId)
  PROVE  IsFiniteSet(ToSet(s)) /\ Cardinality(ToSet(s)) = Len(s)
<1>1. Len(s) \in Nat /\ DOMAIN s = 1 .. Len(s) /\ s \in [1 .. Len(s) -> Pairing]
  OBVIOUS
<1>2. \A m, n \in 1 .. Len(s) : s[m] = s[n] => m = n
  <2> SUFFICES ASSUME NEW m \in 1 .. Len(s), NEW n \in 1 .. Len(s), m < n
               PROVE  s[m] # s[n]
    BY <1>1
  <2> QED
    BY <1>1 DEF Ordered, OtherId
<1>3. s \in [1 .. Len(s) -> ToSet(s)]
  BY <1>1 DEF ToSet
<1>4. \A e \in ToSet(s) : \E n \in 1 .. Len(s) : s[n] = e
  BY <1>1 DEF ToSet
<1>5. s \in Bijection(1 .. Len(s), ToSet(s))
  BY <1>1, <1>2, <1>3, <1>4 DEF Bijection, Injection, IsInjective, Surjection
<1>6. ExistsBijection(1 .. Len(s), ToSet(s))
  BY <1>5 DEF ExistsBijection
<1> QED
  BY <1>1, <1>6, FS_NatBijection, FS_CountingElements

LEMMA DistinctIds ==
  ASSUME NEW t \in Seq(Ending), Ordered(t, OtherEnding)
  PROVE  IsFiniteSet(Ids(t)) /\ Cardinality(Ids(t)) = Len(t) /\ Ids(t) \subseteq Pairing
<1> DEFINE u == [n \in 1 .. Len(t) |-> t[n].id]
<1>1. Len(t) \in Nat /\ DOMAIN t = 1 .. Len(t) /\ \A n \in 1 .. Len(t) : t[n] \in Ending
  OBVIOUS
<1>2. \A n \in 1 .. Len(t) : t[n].id \in Pairing
  BY <1>1 DEF Ending
<1>3. u \in Seq(Pairing) /\ Len(u) = Len(t) /\ DOMAIN u = 1 .. Len(t)
  BY <1>1, <1>2
<1>4. Ordered(u, OtherId)
  <2> SUFFICES ASSUME NEW m \in 1 .. Len(t), NEW n \in 1 .. Len(t), m < n
               PROVE  <<t[m].id, t[n].id>> \in OtherId
    BY <1>3 DEF Ordered
  <2>1. t[m].id # t[n].id
    BY <1>1 DEF Ordered, OtherEnding
  <2> QED
    BY <1>2, <2>1 DEF OtherId
<1>5. Ids(t) = ToSet(u)
  BY <1>1, <1>3 DEF Ids, ToSet
<1> HIDE DEF u
<1> QED
  BY <1>1, <1>2, <1>3, <1>4, <1>5, DistinctCount DEF Ids

Spent(t) == {i \in Pairing : Contains(t, [id |-> i, kind |-> "consumed"])}

LEMMA SpentCount ==
  ASSUME NEW t \in Seq(Ending), Ordered(t, OtherEnding)
  PROVE  /\ Spent(t) \subseteq Ids(t)
         /\ IsFiniteSet(Spent(t)) /\ Cardinality(Spent(t)) \in Nat
         /\ Cardinality(Spent(t)) <= Len(t)
<1>1. Spent(t) \subseteq Ids(t)
  <2> SUFFICES ASSUME NEW i \in Spent(t)
               PROVE  i \in Ids(t)
    OBVIOUS
  <2>1. PICK n \in 1 .. Len(t) : t[n] = [id |-> i, kind |-> "consumed"]
    BY DEF Spent, Contains
  <2>2. n \in DOMAIN t /\ t[n].id = i
    BY <2>1
  <2> QED
    BY <2>2 DEF Ids
<1> QED
  BY <1>1, DistinctIds, FS_Subset, FS_CardinalityType

(* An entry that is not among the newest gave way to others. *)
LEMMA PushedOut ==
  ASSUME NEW t \in Seq(Ending), Ordered(t, OtherEnding), NEW k \in Nat,
         NEW e \in ToSet(t), e \notin ToSet(Newest(t, k))
  PROVE  Len(Newest(t, k)) = k /\ e.id \notin Ids(Newest(t, k))
<1> DEFINE u == Newest(t, k)
<1>1. u \in Seq(Ending) /\ ToSet(u) \subseteq ToSet(t) /\ (u = t \/ Len(u) = k)
  BY NewestProperties
<1>2. Len(u) = k
  BY <1>1
<1>3. ASSUME NEW f \in ToSet(t), f.id = e.id
      PROVE  f = e
  <2>1. PICK m \in DOMAIN t : f = t[m]
    BY DEF ToSet
  <2>2. PICK n \in DOMAIN t : e = t[n]
    BY DEF ToSet
  <2>3. m \in Nat /\ n \in Nat
    BY <2>1, <2>2
  <2>4. ~(m < n) /\ ~(n < m)
    BY <1>3, <2>1, <2>2 DEF Ordered, OtherEnding
  <2> QED
    BY <2>1, <2>2, <2>3, <2>4
<1>4. e.id \notin Ids(u)
  <2> SUFFICES ASSUME NEW n \in DOMAIN u, u[n].id = e.id
               PROVE  FALSE
    BY DEF Ids
  <2>1. u[n] \in ToSet(u)
    BY DEF ToSet
  <2> QED
    BY <1>1, <1>3, <2>1
<1> QED
  BY <1>2, <1>4

-----------------------------------------------------------------------------
(* r and t are maps in the order of insertion, of ids that are live.  Together *)
(* with the spent ones, which may be given back, r has room for 2 * MaxEntries. *)
AreMaps(r, t, live) ==
    /\ r \in Seq(Pairing) /\ Ordered(r, OtherId) /\ ToSet(r) \subseteq live
    /\ t \in Seq(Ending) /\ Ordered(t, OtherEnding) /\ Ids(t) \subseteq live
    /\ Len(t) <= MaxEntries
    /\ Len(r) + Cardinality(Spent(t)) <= 2 * MaxEntries
    /\ Ids(t) \cap ToSet(r) = {}

MapsInv ==
    /\ clock \in Nat
    /\ request \in [Pairing -> [status : Decision \cup {"none", "pending"}, expires : Nat]]
    /\ IsFiniteSet(Created)
    /\ gone \subseteq Created
    /\ AreMaps(records, terminal, Created \ gone)

(* What stands beyond the limit of the live map has its approval. *)
SurplusInv == \A n \in DOMAIN records : n > MaxEntries => request[records[n]].status = "approved"

LEMMA BoundsFollow == MapsInv /\ SurplusInv => MapsBounded
<1> SUFFICES ASSUME MapsInv, SurplusInv PROVE MapsBounded
  OBVIOUS
<1>1. /\ records \in Seq(Pairing) /\ Ordered(records, OtherId)
      /\ terminal \in Seq(Ending) /\ Ordered(terminal, OtherEnding)
  BY DEF MapsInv, AreMaps
<1>2. ASSUME NEW m \in DOMAIN records, NEW n \in DOMAIN records, m # n
      PROVE  records[m] # records[n]
  <2>1. m \in Nat /\ n \in Nat
    BY <1>1
  <2>2. m < n \/ n < m
    BY <1>2, <2>1
  <2> QED
    BY <1>1, <2>2 DEF Ordered, OtherId
<1>3. ASSUME NEW m \in DOMAIN terminal, NEW n \in DOMAIN terminal, m # n
      PROVE  terminal[m].id # terminal[n].id
  <2>1. m \in Nat /\ n \in Nat
    BY <1>1
  <2>2. m < n \/ n < m
    BY <1>3, <2>1
  <2> QED
    BY <1>1, <2>2 DEF Ordered, OtherEnding
<1> QED
  BY <1>2, <1>3 DEF MapsInv, AreMaps, SurplusInv, MapsBounded

LEMMA OnlyIds ==
  ASSUME NEW s \in Seq(Pairing), Ordered(s, OtherId), NEW S
  PROVE  /\ Only(s, S) \in Seq(Pairing) /\ Ordered(Only(s, S), OtherId)
         /\ ToSet(Only(s, S)) = ToSet(s) \cap S
         /\ Len(Only(s, S)) <= Len(s)
         /\ ~(ToSet(s) \subseteq S) => Len(Only(s, S)) < Len(s)
         /\ \A k \in DOMAIN Only(s, S) : \E l \in DOMAIN s : k <= l /\ Only(s, S)[k] = s[l]
  BY OnlyProperties

LEMMA OnlyEndings ==
  ASSUME NEW t \in Seq(Ending), Ordered(t, OtherEnding), NEW S
  PROVE  /\ Only(t, S) \in Seq(Ending) /\ Ordered(Only(t, S), OtherEnding)
         /\ ToSet(Only(t, S)) = ToSet(t) \cap S
         /\ Len(Only(t, S)) <= Len(t)
  BY OnlyProperties

Remembered ==
    Only(terminal, {e \in Ending : ~Contains(Expired, e.id)})
       \o [n \in DOMAIN Expired |-> [id |-> Expired[n], kind |-> "expired"]]

(* The map of spent ones before the oldest of it are dropped. *)
LEMMA RememberedProperties ==
  ASSUME MapsInv
  PROVE  /\ Remembered \in Seq(Ending) /\ Ordered(Remembered, OtherEnding)
         /\ Ids(Remembered) \subseteq Ids(terminal) \cup (ToSet(records) \ Unlapsed)
         /\ Spent(Remembered) = Spent(terminal)
<1>1. /\ records \in Seq(Pairing) /\ terminal \in Seq(Ending)
      /\ Ordered(records, OtherId) /\ Ordered(terminal, OtherEnding)
      /\ Ids(terminal) \cap ToSet(records) = {}
  BY DEF MapsInv, AreMaps
<1> DEFINE x == Expired
           A == {e \in Ending : ~Contains(x, e.id)}
           a == Only(terminal, A)
           b == [n \in DOMAIN x |-> [id |-> x[n], kind |-> "expired"]]
<1>2. /\ x \in Seq(Pairing) /\ Ordered(x, OtherId)
      /\ ToSet(x) = ToSet(records) \cap (Pairing \ Unlapsed)
  BY <1>1, OnlyIds DEF Expired
<1>3. Remembered = a \o b
  BY DEF Remembered
<1> HIDE DEF x, A
<1>4. /\ a \in Seq(Ending) /\ Ordered(a, OtherEnding)
      /\ ToSet(a) = ToSet(terminal) \cap A
  BY <1>1, OnlyEndings
<1>5. b \in Seq(Ending) /\ Len(b) = Len(x) /\ DOMAIN b = 1 .. Len(x) /\ DOMAIN x = 1 .. Len(x)
  <2>1. DOMAIN x = 1 .. Len(x) /\ Len(x) \in Nat /\ \A n \in 1 .. Len(x) : x[n] \in Pairing
    BY <1>2
  <2>2. \A n \in 1 .. Len(x) : [id |-> x[n], kind |-> "expired"] \in Ending
    BY <2>1 DEF Ending
  <2>3. [n \in 1 .. Len(x) |-> [id |-> x[n], kind |-> "expired"]] \in Seq(Ending)
    BY <2>1, <2>2
  <2> QED
    BY <2>1, <2>3
<1>6. \A n \in 1 .. Len(b) : x[n] \in ToSet(x) /\ b[n].id = x[n] /\ b[n].kind = "expired"
  BY <1>5 DEF ToSet
<1> HIDE DEF a, b
<1> DEFINE c == a \o b
<1>7. /\ c \in Seq(Ending) /\ Len(c) = Len(a) + Len(b) /\ DOMAIN c = 1 .. Len(c)
      /\ \A n \in 1 .. Len(a) : c[n] = a[n]
      /\ \A n \in 1 .. Len(b) : c[Len(a) + n] = b[n]
      /\ Len(a) \in Nat /\ Len(b) \in Nat /\ DOMAIN a = 1 .. Len(a)
  BY <1>4, <1>5
<1> HIDE DEF c
<1>8. \A n \in DOMAIN c : n \in 1 .. Len(a) \/ \E k \in 1 .. Len(b) : n = Len(a) + k
  <2> SUFFICES ASSUME NEW n \in DOMAIN c, ~(n \in 1 .. Len(a))
               PROVE  \E k \in 1 .. Len(b) : n = Len(a) + k
    OBVIOUS
  <2>1. n - Len(a) \in 1 .. Len(b) /\ n = Len(a) + (n - Len(a))
    BY <1>7
  <2> QED
    BY <2>1
<1>9. \A n \in 1 .. Len(a) : a[n] \in ToSet(terminal) /\ a[n] \in Ending /\ a[n].id \notin ToSet(x)
  <2>1. \A n \in 1 .. Len(a) : a[n] \in ToSet(a)
    BY <1>7 DEF ToSet
  <2>2. \A e \in A : e.id \notin ToSet(x) /\ e \in Ending
    BY <1>5 DEF Contains, ToSet, A
  <2> QED
    BY <1>4, <2>1, <2>2
<1>10. Ordered(c, OtherEnding)
  <2> SUFFICES ASSUME NEW m \in DOMAIN c, NEW n \in DOMAIN c, m < n
               PROVE  c[m].id # c[n].id
    <3>1. \A n \in DOMAIN c : c[n] \in Ending
      BY <1>7
    <3> QED
      BY <3>1 DEF Ordered, OtherEnding
  <2>1. CASE m \in 1 .. Len(a) /\ n \in 1 .. Len(a)
    <3>1. <<a[m], a[n]>> \in OtherEnding
      BY <1>4, <1>7, <2>1 DEF Ordered
    <3> QED
      BY <1>7, <2>1, <3>1 DEF OtherEnding
  <2>2. ASSUME m \in 1 .. Len(a), NEW k \in 1 .. Len(b), n = Len(a) + k
        PROVE  c[m].id # c[n].id
    BY <1>6, <1>7, <1>9, <2>2
  <2>3. ASSUME NEW l \in 1 .. Len(b), m = Len(a) + l, NEW k \in 1 .. Len(b), n = Len(a) + k
        PROVE  c[m].id # c[n].id
    <3>1. l \in DOMAIN x /\ k \in DOMAIN x /\ l < k
      BY <1>5, <1>7, <2>3
    <3>2. x[l] # x[k]
      BY <1>2, <3>1 DEF Ordered, OtherId
    <3> QED
      BY <1>6, <1>7, <2>3, <3>2
  <2>4. ASSUME NEW l \in 1 .. Len(b), m = Len(a) + l, n \in 1 .. Len(a)
        PROVE  FALSE
    BY <1>7, <2>4
  <2> QED
    BY <1>8, <2>1, <2>2, <2>3, <2>4
<1>11. Ids(c) \subseteq Ids(terminal) \cup (ToSet(records) \ Unlapsed)
  <2> SUFFICES ASSUME NEW n \in DOMAIN c
               PROVE  c[n].id \in Ids(terminal) \cup (ToSet(records) \ Unlapsed)
    BY DEF Ids
  <2>1. CASE n \in 1 .. Len(a)
    <3>1. PICK m \in DOMAIN terminal : c[n] = terminal[m]
      BY <1>7, <1>9, <2>1 DEF ToSet
    <3> QED
      BY <3>1 DEF Ids
  <2>2. ASSUME NEW k \in 1 .. Len(b), n = Len(a) + k
        PROVE  c[n].id \in ToSet(records) \ Unlapsed
    BY <1>2, <1>6, <1>7, <2>2
  <2> QED
    BY <1>8, <2>1, <2>2
<1>12. Spent(c) = Spent(terminal)
  <2> DEFINE s(i) == [id |-> i, kind |-> "consumed"]
  <2>1. ASSUME NEW i \in Pairing, Contains(c, s(i))
        PROVE  Contains(terminal, s(i))
    <3>1. PICK n \in DOMAIN c : c[n] = s(i)
      BY <1>7, <2>1 DEF Contains
    <3>2. \A k \in 1 .. Len(b) : n # Len(a) + k
      BY <1>6, <1>7, <3>1
    <3>3. c[n] \in ToSet(terminal)
      BY <1>7, <1>8, <1>9, <3>2
    <3> QED
      BY <1>1, <3>1, <3>3 DEF Contains, ToSet
  <2>2. ASSUME NEW i \in Pairing, Contains(terminal, s(i))
        PROVE  Contains(c, s(i))
    <3>1. PICK m \in DOMAIN terminal : terminal[m] = s(i)
      BY <1>1, <2>2 DEF Contains
    <3>2. i \in Ids(terminal) /\ s(i) \in ToSet(terminal) /\ s(i).id = i /\ s(i) \in Ending
      BY <1>1, <3>1 DEF Ids, ToSet, Ending
    <3>3. i \notin ToSet(x)
      BY <1>1, <1>2, <3>2
    <3>4. s(i) \in A
      BY <1>5, <3>2, <3>3 DEF Contains, ToSet, A
    <3>5. s(i) \in ToSet(a)
      BY <1>4, <3>2, <3>4
    <3>6. PICK n \in 1 .. Len(a) : a[n] = s(i)
      BY <1>7, <3>5 DEF ToSet
    <3>7. n \in 1 .. Len(c) /\ c[n] = s(i)
      BY <1>7, <3>6
    <3> QED
      BY <3>7 DEF Contains
  <2> QED
    BY <2>1, <2>2 DEF Spent
<1> QED
  BY <1>3, <1>7, <1>10, <1>11, <1>12 DEF c

LEMMA EntriesOf ==
  ASSUME NEW t \in Seq(Ending)
  PROVE  /\ \A i : i \in Ids(t) <=> \E e \in ToSet(t) : e.id = i
         /\ \A i : i \in Spent(t) <=> i \in Pairing /\ [id |-> i, kind |-> "consumed"] \in ToSet(t)
         /\ ToSet(t) \subseteq Ending
<1>1. DOMAIN t = 1 .. Len(t) /\ \A n \in 1 .. Len(t) : t[n] \in Ending
  OBVIOUS
<1> QED
  BY <1>1 DEF Ids, Spent, ToSet, Contains

LEMMA AppendId ==
  ASSUME NEW s \in Seq(Pairing), Ordered(s, OtherId), NEW i \in Pairing, i \notin ToSet(s)
  PROVE  /\ Append(s, i) \in Seq(Pairing) /\ Ordered(Append(s, i), OtherId)
         /\ ToSet(Append(s, i)) = ToSet(s) \cup {i}
         /\ Len(Append(s, i)) = Len(s) + 1
<1> DEFINE t == Append(s, i)
<1>1. /\ t \in Seq(Pairing) /\ Len(t) = Len(s) + 1 /\ Len(s) \in Nat
      /\ DOMAIN s = 1 .. Len(s) /\ DOMAIN t = 1 .. Len(t)
      /\ \A n \in 1 .. Len(s) : t[n] = s[n] /\ s[n] \in Pairing
      /\ t[Len(s) + 1] = i
  BY AppendProperties
<1> HIDE DEF t
<1>2. \A n \in DOMAIN t : n \in 1 .. Len(s) \/ n = Len(s) + 1
  BY <1>1
<1>3. \A n \in 1 .. Len(s) + 1 : n \in DOMAIN t
  BY <1>1
<1>4. ToSet(t) = ToSet(s) \cup {i}
  <2>1. ToSet(t) \subseteq ToSet(s) \cup {i}
    BY <1>1, <1>2 DEF ToSet
  <2>2. ToSet(s) \subseteq ToSet(t)
    BY <1>1, <1>3 DEF ToSet
  <2>3. i \in ToSet(t)
    BY <1>1, <1>3 DEF ToSet
  <2> QED
    BY <2>1, <2>2, <2>3
<1>5. Ordered(t, OtherId)
  <2> SUFFICES ASSUME NEW m \in DOMAIN t, NEW n \in DOMAIN t, m < n
               PROVE  <<t[m], t[n]>> \in OtherId
    BY DEF Ordered
  <2>1. m \in 1 .. Len(s)
    BY <1>1
  <2>2. CASE n \in 1 .. Len(s)
    BY <1>1, <2>1, <2>2 DEF Ordered
  <2>3. CASE n = Len(s) + 1
    BY <1>1, <2>1, <2>3 DEF ToSet, OtherId
  <2> QED
    BY <1>2, <2>2, <2>3
<1> QED
  BY <1>1, <1>4, <1>5 DEF t

LEMMA AppendEnding ==
  ASSUME NEW s \in Seq(Ending), Ordered(s, OtherEnding), NEW e \in Ending, e.id \notin Ids(s)
  PROVE  /\ Append(s, e) \in Seq(Ending) /\ Ordered(Append(s, e), OtherEnding)
         /\ ToSet(Append(s, e)) = ToSet(s) \cup {e}
         /\ Len(Append(s, e)) = Len(s) + 1 /\ Append(s, e)[Len(s) + 1] = e
<1> DEFINE t == Append(s, e)
<1>1. /\ t \in Seq(Ending) /\ Len(t) = Len(s) + 1 /\ Len(s) \in Nat
      /\ DOMAIN s = 1 .. Len(s) /\ DOMAIN t = 1 .. Len(t)
      /\ \A n \in 1 .. Len(s) : t[n] = s[n] /\ s[n] \in Ending
      /\ t[Len(s) + 1] = e
  BY AppendProperties
<1> HIDE DEF t
<1>2. \A n \in DOMAIN t : n \in 1 .. Len(s) \/ n = Len(s) + 1
  BY <1>1
<1>3. \A n \in 1 .. Len(s) + 1 : n \in DOMAIN t
  BY <1>1
<1>4. ToSet(t) = ToSet(s) \cup {e}
  <2>1. ToSet(t) \subseteq ToSet(s) \cup {e}
    BY <1>1, <1>2 DEF ToSet
  <2>2. ToSet(s) \subseteq ToSet(t)
    BY <1>1, <1>3 DEF ToSet
  <2>3. e \in ToSet(t)
    BY <1>1, <1>3 DEF ToSet
  <2> QED
    BY <2>1, <2>2, <2>3
<1>5. Ordered(t, OtherEnding)
  <2> SUFFICES ASSUME NEW m \in DOMAIN t, NEW n \in DOMAIN t, m < n
               PROVE  <<t[m], t[n]>> \in OtherEnding
    BY DEF Ordered
  <2>1. m \in 1 .. Len(s)
    BY <1>1
  <2>2. CASE n \in 1 .. Len(s)
    BY <1>1, <2>1, <2>2 DEF Ordered
  <2>3. CASE n = Len(s) + 1
    BY <1>1, <2>1, <2>3 DEF Ids, OtherEnding
  <2> QED
    BY <1>2, <2>2, <2>3
<1> QED
  BY <1>1, <1>4, <1>5 DEF t

(* What pruneExpired leaves is two maps again, and an approval that was spent  *)
(* is forgotten only when the map is full of others.                           *)
LEMMA PruneKeepsMaps ==
  ASSUME MapsInv
  PROVE  /\ AreMaps(Kept, Ended, Created \ gone)
         /\ ToSet(Kept) = ToSet(records) \cap Unlapsed
         /\ Len(Kept) <= Len(records)
         /\ Spent(Ended) \subseteq Spent(terminal)
         /\ Cardinality(Spent(Ended)) <= Cardinality(Spent(terminal))
         /\ \A i \in Spent(terminal) :
               i \in Spent(Ended) \/ (Len(Ended) = MaxEntries /\ i \notin Ids(Ended))
<1>1. /\ records \in Seq(Pairing) /\ terminal \in Seq(Ending)
      /\ Ordered(records, OtherId) /\ Ordered(terminal, OtherEnding)
      /\ Ids(terminal) \cap ToSet(records) = {}
      /\ ToSet(records) \subseteq Created \ gone /\ Ids(terminal) \subseteq Created \ gone
      /\ Len(records) + Cardinality(Spent(terminal)) <= 2 * MaxEntries
  BY DEF MapsInv, AreMaps
<1>2. MaxEntries \in Nat
  BY PairingAssumption
<1>3. /\ Kept \in Seq(Pairing) /\ Ordered(Kept, OtherId)
      /\ ToSet(Kept) = ToSet(records) \cap Unlapsed
      /\ Len(Kept) <= Len(records)
  BY <1>1, OnlyIds DEF Kept
<1>4. /\ Remembered \in Seq(Ending) /\ Ordered(Remembered, OtherEnding)
      /\ Ids(Remembered) \subseteq Ids(terminal) \cup (ToSet(records) \ Unlapsed)
      /\ Spent(Remembered) = Spent(terminal)
  BY RememberedProperties
<1>5. Ended = Newest(Remembered, MaxEntries)
  BY DEF Ended, Remembered
<1>6. /\ Ended \in Seq(Ending) /\ Ordered(Ended, OtherEnding) /\ Len(Ended) <= MaxEntries
      /\ ToSet(Ended) \subseteq ToSet(Remembered)
  BY <1>2, <1>4, <1>5, NewestProperties
<1>7. Ids(Ended) \subseteq Ids(Remembered) /\ Spent(Ended) \subseteq Spent(Remembered)
  BY <1>4, <1>6, EntriesOf
<1>8. /\ Cardinality(Spent(Ended)) <= Cardinality(Spent(terminal))
      /\ Cardinality(Spent(Ended)) \in Nat /\ Cardinality(Spent(terminal)) \in Nat
  BY <1>1, <1>4, <1>6, <1>7, SpentCount, FS_Subset
<1>9. ASSUME NEW i \in Spent(terminal), i \notin Spent(Ended)
      PROVE  Len(Ended) = MaxEntries /\ i \notin Ids(Ended)
  <2> DEFINE e == [id |-> i, kind |-> "consumed"]
  <2>1. e \in ToSet(Remembered) /\ i \in Pairing
    BY <1>4, EntriesOf
  <2>2. e \notin ToSet(Ended)
    BY <1>6, <1>9, <2>1, EntriesOf
  <2>3. e.id = i
    OBVIOUS
  <2> HIDE DEF e
  <2> QED
    BY <1>2, <1>4, <1>5, <2>1, <2>2, <2>3, PushedOut
<1>10. Ids(Ended) \subseteq Created \ gone /\ ToSet(Kept) \subseteq Created \ gone
  BY <1>1, <1>3, <1>4, <1>7
<1>11. Ids(Ended) \cap ToSet(Kept) = {}
  BY <1>1, <1>3, <1>4, <1>7
<1>12. Len(Kept) + Cardinality(Spent(Ended)) <= 2 * MaxEntries
  BY <1>1, <1>2, <1>3, <1>8
<1> QED
  BY <1>3, <1>4, <1>6, <1>7, <1>8, <1>9, <1>10, <1>11, <1>12 DEF AreMaps
-----------------------------------------------------------------------------
StoreTypeOK ==
    /\ queue \in Seq(Job)
    /\ at \in [Job -> {"idle", "queued", "running", "failed"}]
    /\ memory \in Credentials
    /\ file \in Credentials

(* Only the first of the queue runs, on what is in the file; and a credential *)
(* is not in the file before its issue is over.                               *)
StoreInv ==
    /\ StoreTypeOK
    /\ \A j \in Job : at[j] = "running" => queue # <<>> /\ j = Head(queue) /\ memory = file
    /\ \A c \in Cred : at[<<"issue", c>>] # "idle" => file[c] = "absent"

Undoes(c) ==
    ~ /\ file[c] # "absent" => file'[c] # "absent"
      /\ file[c] = "revoked" => file'[c] = "revoked"

LEMMA JobParts ==
  ASSUME NEW j \in Job
  PROVE  j[1] \in {"issue", "use", "revoke"} /\ j[2] \in Cred /\ j = <<j[1], j[2]>>
  BY DEF Job

LEMMA EnqueueKeeps ==
  ASSUME StoreInv, NEW j \in Job, Enqueue(j), UNCHANGED <<memory, file>>,
         \A c \in Cred : j = <<"issue", c>> => file[c] = "absent"
  PROVE  StoreInv'
<1>1. /\ at[j] = "idle"
      /\ at' = [at EXCEPT ![j] = "queued"]
      /\ queue' = Append(queue, j)
      /\ queue \in Seq(Job)
  BY DEF Enqueue, StoreInv, StoreTypeOK
<1>2. StoreTypeOK'
  BY <1>1 DEF StoreInv, StoreTypeOK
<1>3. queue # <<>> => queue' # <<>> /\ Head(queue') = Head(queue)
  BY <1>1
<1>4. \A k \in Job : at'[k] = "running" => at[k] = "running"
  BY <1>1 DEF StoreInv, StoreTypeOK
<1>5. \A k \in Job : at'[k] = "running" => queue' # <<>> /\ k = Head(queue') /\ memory' = file'
  BY <1>3, <1>4 DEF StoreInv
<1>6. ASSUME NEW c \in Cred, at'[<<"issue", c>>] # "idle"
      PROVE  file'[c] = "absent"
  <2>1. <<"issue", c>> \in Job
    BY DEF Job
  <2>2. CASE j = <<"issue", c>>
    BY <2>2
  <2>3. CASE j # <<"issue", c>>
    BY <1>1, <1>6, <2>1, <2>3 DEF StoreInv, StoreTypeOK
  <2> QED
    BY <2>2, <2>3
<1> QED
  BY <1>2, <1>5, <1>6 DEF StoreInv

LEMMA ExchangeKeeps ==
  ASSUME StoreInv, NEW i \in Pairing, Exchange(i)
  PROVE  StoreInv' /\ UNCHANGED file
<1> DEFINE c == Fresh(i)
<1>1. PICK n \in Serial : Unissued(<<i, n>>)
  BY DEF Exchange
<1>2. c \in Cred /\ file[c] = "absent"
  BY <1>1 DEF Fresh, Cred, Unissued
<1>3. <<"issue", c>> \in Job
  BY <1>2 DEF Job
<1>4. Enqueue(<<"issue", c>>) /\ UNCHANGED <<memory, file>>
  BY DEF Exchange
<1>5. \A d \in Cred : <<"issue", c>> = <<"issue", d>> => file[d] = "absent"
  BY <1>2
<1> HIDE DEF c
<1> QED
  BY <1>3, <1>4, <1>5, EnqueueKeeps

LEMMA AskKeeps ==
  ASSUME StoreInv, NEW c \in Cred, Use(c) \/ Revoke(c)
  PROVE  StoreInv' /\ UNCHANGED file
<1>1. <<"use", c>> \in Job /\ <<"revoke", c>> \in Job
  BY DEF Job
<1>2. UNCHANGED <<memory, file>> /\ (Enqueue(<<"use", c>>) \/ Enqueue(<<"revoke", c>>))
  BY DEF Use, Revoke
<1> QED
  BY <1>1, <1>2, EnqueueKeeps

LEMMA RestoreKeeps ==
  ASSUME StoreInv, NEW c \in Cred, Restore(c)
  PROVE  StoreInv' /\ UNCHANGED file
<1>1. /\ at' = [at EXCEPT ![<<"issue", c>>] = "idle"]
      /\ UNCHANGED <<queue, memory, file>>
  BY DEF Restore
<1>2. <<"issue", c>> \in Job /\ at \in [Job -> {"idle", "queued", "running", "failed"}]
  BY DEF Job, StoreInv, StoreTypeOK
<1>3. \A k \in Job : at'[k] = "idle" \/ at'[k] = at[k]
  BY <1>1, <1>2
<1>4. StoreTypeOK'
  BY <1>1, <1>2 DEF StoreInv, StoreTypeOK
<1>5. \A d \in Cred : <<"issue", d>> \in Job
  BY DEF Job
<1> QED
  BY <1>1, <1>3, <1>4, <1>5 DEF StoreInv

LEMMA LoadKeeps ==
  ASSUME StoreInv, NEW j \in Job, Load(j)
  PROVE  StoreInv' /\ UNCHANGED file
<1>1. /\ queue # <<>> /\ j = Head(queue)
      /\ at[j] = "queued"
      /\ memory' = file
      /\ at' = [at EXCEPT ![j] = "running"]
      /\ UNCHANGED <<queue, file>>
  BY DEF Load
<1>2. StoreTypeOK'
  BY <1>1 DEF StoreInv, StoreTypeOK
<1>3. \A k \in Job : at'[k] = IF k = j THEN "running" ELSE at[k]
  BY <1>1 DEF StoreInv, StoreTypeOK
<1>4. \A d \in Cred : <<"issue", d>> \in Job
  BY DEF Job
<1> QED
  BY <1>1, <1>2, <1>3, <1>4 DEF StoreInv

(* The first of the queue leaves it: nothing runs. *)
LEMMA LeaveKeeps ==
  ASSUME StoreInv, NEW j \in Job, NEW result \in {"idle", "failed"},
         queue # <<>>, j = Head(queue), Leave(j, result),
         memory' \in Credentials, file' \in Credentials,
         result = "failed" => j[1] = "issue" /\ at[j] # "idle",
         \A c \in Cred : file'[c] # file[c] =>
           (j = <<"issue", c>> /\ result = "idle") \/ file[c] # "absent"
  PROVE  StoreInv'
<1>1. /\ at' = [at EXCEPT ![j] = result]
      /\ queue' = Tail(queue)
      /\ queue \in Seq(Job)
  BY DEF Leave, StoreInv, StoreTypeOK
<1>2. StoreTypeOK'
  BY <1>1 DEF StoreInv, StoreTypeOK
<1>3. \A k \in Job : at'[k] = IF k = j THEN result ELSE at[k]
  BY <1>1 DEF StoreInv, StoreTypeOK
<1>4. \A k \in Job : at'[k] # "running"
  BY <1>3 DEF StoreInv
<1>5. ASSUME NEW c \in Cred, at'[<<"issue", c>>] # "idle"
      PROVE  file'[c] = "absent"
  <2>1. <<"issue", c>> \in Job
    BY DEF Job
  <2>2. at[<<"issue", c>>] # "idle"
    BY <1>3, <1>5, <2>1
  <2>3. file[c] = "absent"
    BY <2>2 DEF StoreInv
  <2>4. ~(j = <<"issue", c>> /\ result = "idle")
    BY <1>3, <1>5, <2>1
  <2> QED
    BY <2>3, <2>4
<1> QED
  BY <1>2, <1>4, <1>5 DEF StoreInv

LEMMA CommitKeeps ==
  ASSUME StoreInv, NEW j \in Job, Commit(j)
  PROVE  StoreInv' /\ \A c \in Cred : ~Undoes(c)
<1>1. /\ at[j] = "running" /\ Writes(j)
      /\ memory' = Changed(j) /\ file' = Changed(j)
      /\ Leave(j, "idle")
  BY DEF Commit
<1>2. queue # <<>> /\ j = Head(queue) /\ memory = file /\ file \in Credentials
  BY <1>1 DEF StoreInv, StoreTypeOK
<1>3. j[1] \in {"issue", "use", "revoke"} /\ j[2] \in Cred /\ j = <<j[1], j[2]>>
  BY JobParts
<1>4. CASE j[1] = "issue"
  <2>1. file' = [file EXCEPT ![j[2]] = "live"] /\ file[j[2]] = "absent"
    BY <1>1, <1>2, <1>3, <1>4 DEF Changed, StoreInv
  <2>2. file' \in Credentials /\ \A c \in Cred : ~Undoes(c)
    BY <1>2, <1>3, <2>1 DEF Credentials, Undoes
  <2>3. \A c \in Cred : file'[c] # file[c] => j = <<"issue", c>>
    BY <1>2, <1>3, <1>4, <2>1 DEF Credentials
  <2> QED
    BY <1>1, <1>2, <2>2, <2>3, LeaveKeeps
<1>5. CASE j[1] = "revoke"
  <2>1. file' = [file EXCEPT ![j[2]] = "revoked"] /\ file[j[2]] = "live"
    BY <1>1, <1>2, <1>5 DEF Changed, Writes
  <2>2. file' \in Credentials /\ \A c \in Cred : ~Undoes(c)
    BY <1>2, <1>3, <2>1 DEF Credentials, Undoes
  <2>3. \A c \in Cred : file'[c] # file[c] => file[c] # "absent"
    BY <1>2, <1>3, <2>1 DEF Credentials
  <2> QED
    BY <1>1, <1>2, <2>2, <2>3, LeaveKeeps
<1>6. CASE j[1] = "use"
  <2>1. file' = file
    BY <1>1, <1>2, <1>6 DEF Changed
  <2> QED
    BY <1>1, <1>2, <2>1, LeaveKeeps DEF Undoes
<1> QED
  BY <1>3, <1>4, <1>5, <1>6

LEMMA SkipKeeps ==
  ASSUME StoreInv, NEW j \in Job, Skip(j)
  PROVE  StoreInv' /\ UNCHANGED file
<1>1. at[j] = "running" /\ Leave(j, "idle") /\ UNCHANGED <<memory, file>>
  BY DEF Skip
<1>2. queue # <<>> /\ j = Head(queue)
  BY <1>1 DEF StoreInv
<1>3. memory' \in Credentials /\ file' \in Credentials
  BY <1>1 DEF StoreInv, StoreTypeOK
<1> QED
  BY <1>1, <1>2, <1>3, LeaveKeeps

LEMMA FailKeeps ==
  ASSUME StoreInv, NEW j \in Job, Fail(j)
  PROVE  StoreInv' /\ UNCHANGED file
<1>1. /\ at[j] # "idle" /\ UNCHANGED file
      /\ Leave(j, Failed(j))
      /\ memory' = memory \/ memory' = Changed(j)
  BY DEF Fail
<1>2. queue # <<>> /\ j = Head(queue)
  BY DEF Fail, StoreInv
<1>3. Changed(j) \in Credentials /\ memory \in Credentials /\ file \in Credentials
  BY JobParts DEF StoreInv, StoreTypeOK, Changed, Credentials
<1>4. Failed(j) \in {"idle", "failed"} /\ (Failed(j) = "failed" => j[1] = "issue")
  BY DEF Failed
<1> QED
  BY <1>1, <1>2, <1>3, <1>4, LeaveKeeps

LEMMA RestartKeeps ==
  ASSUME StoreInv, Restart
  PROVE  StoreInv' /\ UNCHANGED file
<1>1. /\ queue' = <<>> /\ at' = [j \in Job |-> "idle"]
      /\ memory' = Empty /\ UNCHANGED file
  BY DEF Restart
<1>2. \A c \in Cred : <<"issue", c>> \in Job
  BY DEF Job
<1>3. Empty \in Credentials
  BY DEF Empty, Credentials
<1> QED
  BY <1>1, <1>2, <1>3 DEF StoreInv, StoreTypeOK

LEMMA Untouched ==
  ASSUME StoreInv, UNCHANGED storeVars
  PROVE  StoreInv' /\ UNCHANGED file
  BY DEF StoreInv, StoreTypeOK, storeVars

LEMMA StoreInit == Init => StoreInv
<1> SUFFICES ASSUME Init PROVE StoreInv
  OBVIOUS
<1>1. Empty \in Credentials
  BY DEF Empty, Credentials
<1>2. \A c \in Cred : <<"issue", c>> \in Job
  BY DEF Job
<1> QED
  BY <1>1, <1>2 DEF Init, StoreInv, StoreTypeOK

LEMMA StoreStep ==
  ASSUME StoreInv, [Next]_vars
  PROVE  StoreInv' /\ \A c \in Cred : ~Undoes(c)
<1>1. (StoreInv' /\ UNCHANGED file) => (StoreInv' /\ \A c \in Cred : ~Undoes(c))
  BY DEF Undoes
<1>2. CASE Create \/ Look \/ Elapse
  BY <1>1, <1>2, Untouched DEF Create, Look, Elapse
<1>3. CASE \E i \in Pairing, d \in Decision : Decide(i, d)
  BY <1>1, <1>3, Untouched DEF Decide
<1>4. CASE \E i \in Pairing : Exchange(i)
  BY <1>1, <1>4, ExchangeKeeps
<1>5. CASE \E c \in Cred : Restore(c) \/ Use(c) \/ Revoke(c)
  BY <1>1, <1>5, RestoreKeeps, AskKeeps
<1>6. CASE \E j \in ToSet(queue) : Load(j) \/ Commit(j) \/ Skip(j) \/ Fail(j)
  <2>1. ToSet(queue) \subseteq Job
    BY DEF StoreInv, StoreTypeOK, ToSet
  <2>2. PICK j \in Job : Load(j) \/ Commit(j) \/ Skip(j) \/ Fail(j)
    BY <1>6, <2>1
  <2> QED
    BY <1>1, <2>2, LoadKeeps, CommitKeeps, SkipKeeps, FailKeeps
<1>7. CASE Restart
  BY <1>1, <1>7, RestartKeeps
<1>8. CASE UNCHANGED vars
  BY <1>1, <1>8, Untouched DEF vars, storeVars
<1> QED
  BY <1>2, <1>3, <1>4, <1>5, <1>6, <1>7, <1>8 DEF Next

(* A credential on disk stays there, and a revoked one stays revoked. *)
THEOREM SpecNothingUndone == Spec => NothingUndone
<1>1. StoreInv /\ [Next]_vars => StoreInv'
  BY StoreStep
<1>2. StoreInv /\ [Next]_vars =>
        [\A c \in Cred :
            /\ file[c] # "absent" => file'[c] # "absent"
            /\ file[c] = "revoked" => file'[c] = "revoked"]_vars
  BY StoreStep DEF Undoes
<1> QED
  BY StoreInit, <1>1, <1>2, PTL DEF Spec, NothingUndone

-----------------------------------------------------------------------------
(* The credentials of i that exist or are being issued. *)
Issuing(i) == {n \in Serial : ~Unissued(<<i, n>>)}
InFlight(i) == \E n \in Serial : at[<<"issue", <<i, n>>>>] # "idle"

(* There is one at most, for an approval that is no longer in the map. *)
Once(i) ==
    /\ \A m, n \in Issuing(i) : m = n
    /\ Issuing(i) # {} => request[i].status = "approved" /\ i \notin ToSet(records)

(* A request of this process that has not lapsed is in the map, has been       *)
(* crowded out, or was exchanged; and while the exchange can fail, the map of  *)
(* spent ones says so.                                                         *)
Accounted(i) ==
    i \in Created \ gone /\ ~Lapsed(i) =>
      \/ i \in ToSet(records)
      \/ Crowded(i)
      \/ Issuing(i) # {} /\ (InFlight(i) => i \in Spent(terminal))

ApprovalInv ==
    /\ StoreInv
    /\ MapsInv
    /\ \A i \in Pairing : Once(i) /\ Accounted(i)

LEMMA Crowding ==
  ASSUME NEW C, IsFiniteSet(C), NEW G, NEW k,
         NEW T \in SUBSET (C \ (G \cup {k})), Cardinality(T) >= MaxEntries
  PROVE  Cardinality(C \ (G \cup {k})) >= MaxEntries
<1>1. IsFiniteSet(C \ (G \cup {k}))
  BY FS_Difference
<1>2. /\ IsFiniteSet(T) /\ Cardinality(T) <= Cardinality(C \ (G \cup {k}))
      /\ Cardinality(C \ (G \cup {k})) \in Nat /\ Cardinality(T) \in Nat
  BY <1>1, FS_Subset, FS_CardinalityType
<1> QED
  BY <1>2, PairingAssumption

LEMMA FullOfOthers ==
  ASSUME NEW C, IsFiniteSet(C), NEW G, NEW k,
         NEW t \in Seq(Ending), Ordered(t, OtherEnding), Len(t) = MaxEntries,
         Ids(t) \subseteq C \ G, k \notin Ids(t)
  PROVE  Cardinality(C \ (G \cup {k})) >= MaxEntries
<1>1. Ids(t) \in SUBSET (C \ (G \cup {k}))
  OBVIOUS
<1>2. Cardinality(Ids(t)) = MaxEntries
  BY DistinctIds
<1>3. Cardinality(Ids(t)) >= MaxEntries
  BY <1>2, PairingAssumption
<1> QED
  BY <1>1, <1>3, Crowding

LEMMA StaysCrowded ==
  ASSUME NEW k \in Pairing, Crowded(k), Created \subseteq Created', IsFiniteSet(Created'), gone' = gone
  PROVE  Crowded(k)'
<1>1. Created \ (gone \cup {k}) \in SUBSET (Created' \ (gone' \cup {k}))
  OBVIOUS
<1> QED
  BY <1>1, Crowding DEF Crowded

(* How a handler that prunes keeps account of k. *)
LEMMA AccountStep ==
  ASSUME MapsInv, NEW k \in Pairing, Accounted(k),
         k \in Created' \ gone' => k \in Created \ gone,
         Lapsed(k) => Lapsed(k)',
         Crowded(k) => Crowded(k)',
         Issuing(k)' = Issuing(k), InFlight(k)' => InFlight(k),
         k \in ToSet(Kept) => k \in ToSet(records)' \/ Crowded(k)',
         k \in Spent(Ended) => k \in Spent(terminal)' \/ Crowded(k)'
  PROVE  Accounted(k)'
<1> SUFFICES ASSUME k \in Created' \ gone', ~Lapsed(k)', ~Crowded(k)'
             PROVE  \/ k \in ToSet(records)'
                    \/ Issuing(k)' # {} /\ (InFlight(k)' => k \in Spent(terminal)')
  BY DEF Accounted
<1>1. k \in Created \ gone /\ ~Lapsed(k) /\ ~Crowded(k)
  OBVIOUS
<1>2. CASE k \in ToSet(records)
  <2>1. k \in Unlapsed
    BY <1>1 DEF Unlapsed
  <2>2. k \in ToSet(Kept)
    BY <1>2, <2>1, PruneKeepsMaps
  <2> QED
    BY <2>2
<1>3. CASE Issuing(k) # {} /\ (InFlight(k) => k \in Spent(terminal))
  <2>1. ASSUME InFlight(k)'
        PROVE  k \in Spent(Ended)
    <3>1. k \in Spent(terminal)
      BY <1>3, <2>1
    <3>2. ASSUME Len(Ended) = MaxEntries, k \notin Ids(Ended)
          PROVE  FALSE
      <4>1. /\ Ended \in Seq(Ending) /\ Ordered(Ended, OtherEnding)
            /\ Ids(Ended) \subseteq Created \ gone /\ IsFiniteSet(Created)
        BY PruneKeepsMaps DEF AreMaps, MapsInv
      <4> QED
        BY <1>1, <3>2, <4>1, FullOfOthers DEF Crowded
    <3> QED
      BY <3>1, <3>2, PruneKeepsMaps
  <2> QED
    BY <1>3, <2>1
<1> QED
  BY <1>1, <1>2, <1>3 DEF Accounted

LEMMA SameIssues ==
  ASSUME UNCHANGED <<at, file>>, NEW k \in Pairing
  PROVE  Issuing(k)' = Issuing(k) /\ InFlight(k)' = InFlight(k)
  BY DEF Issuing, InFlight, Unissued

(* A step that only prunes, and may decide. *)
LEMMA PruneStep ==
  ASSUME ApprovalInv, records' = Kept, terminal' = Ended,
         UNCHANGED <<clock, gone, storeVars>>,
         request' \in [Pairing -> [status : Decision \cup {"none", "pending"}, expires : Nat]],
         Created' = Created,
         \A k \in Pairing : /\ request'[k].expires = request[k].expires
                            /\ request[k].status = "approved" => request'[k].status = "approved"
  PROVE  ApprovalInv'
<1>1. StoreInv'
  BY Untouched DEF ApprovalInv
<1>2. UNCHANGED <<at, file>>
  BY DEF storeVars
<1>3. MapsInv
  BY DEF ApprovalInv
<1>4. AreMaps(Kept, Ended, Created \ gone) /\ ToSet(Kept) = ToSet(records) \cap Unlapsed
  BY <1>3, PruneKeepsMaps
<1>5. MapsInv'
  BY <1>3, <1>4 DEF MapsInv
<1>6. ASSUME NEW k \in Pairing
      PROVE  Once(k)'
  <2>1. Once(k) /\ Issuing(k)' = Issuing(k)
    BY <1>2, SameIssues DEF ApprovalInv
  <2> QED
    BY <1>4, <2>1 DEF Once
<1>7. ASSUME NEW k \in Pairing
      PROVE  Accounted(k)'
  <2>1. Accounted(k) /\ Issuing(k)' = Issuing(k) /\ InFlight(k)' = InFlight(k)
    BY <1>2, SameIssues DEF ApprovalInv
  <2>2. Lapsed(k)' = Lapsed(k)
    BY DEF Lapsed
  <2>3. Crowded(k)' = Crowded(k)
    BY DEF Crowded
  <2> QED
    BY <1>3, <2>1, <2>2, <2>3, AccountStep
<1> QED
  BY <1>1, <1>5, <1>6, <1>7 DEF ApprovalInv

LEMMA LookStep ==
  ASSUME ApprovalInv, Look
  PROVE  ApprovalInv'
<1>1. /\ records' = Kept /\ terminal' = Ended
      /\ UNCHANGED <<clock, gone, storeVars>> /\ UNCHANGED request
  BY DEF Look
<1>2. request' \in [Pairing -> [status : Decision \cup {"none", "pending"}, expires : Nat]]
  BY <1>1 DEF ApprovalInv, MapsInv
<1>3. Created' = Created
  BY <1>1 DEF Created
<1> QED
  BY <1>1, <1>2, <1>3, PruneStep

LEMMA DecideStep ==
  ASSUME ApprovalInv, NEW i \in Pairing, NEW d \in Decision, Decide(i, d)
  PROVE  ApprovalInv'
<1>1. /\ records' = Kept /\ terminal' = Ended
      /\ UNCHANGED <<clock, gone, storeVars>>
      /\ request[i].status = "pending"
      /\ request' = [request EXCEPT ![i].status = d]
  BY DEF Decide
<1>2. request \in [Pairing -> [status : Decision \cup {"none", "pending"}, expires : Nat]]
  BY DEF ApprovalInv, MapsInv
<1>3. request' \in [Pairing -> [status : Decision \cup {"none", "pending"}, expires : Nat]]
  BY <1>1, <1>2
<1>4. \A k \in Pairing : /\ request'[k].expires = request[k].expires
                         /\ request'[k].status = IF k = i THEN d ELSE request[k].status
  BY <1>1, <1>2
<1>5. Created' = Created
  BY <1>1, <1>4 DEF Created, Decision
<1>6. \A k \in Pairing : request[k].status = "approved" => request'[k].status = "approved"
  BY <1>1, <1>4
<1> QED
  BY <1>1, <1>3, <1>4, <1>5, <1>6, PruneStep

(* A new request: the oldest make room, and are crowded out. *)
LEMMA CreateStep ==
  ASSUME ApprovalInv, Create
  PROVE  ApprovalInv'
<1> DEFINE new == NewId
           some == Newest(Kept, MaxEntries - 1)
<1>1. /\ Created # Pairing
      /\ request' = [request EXCEPT ![new] = [status |-> "pending", expires |-> clock + Ttl]]
      /\ records' = Append(some, new) /\ terminal' = Ended
      /\ UNCHANGED <<clock, gone, faults, storeVars>>
  BY DEF Create
<1>2. new \in Pairing /\ new \notin Created
  <2>1. \E i \in Pairing : i \notin Created
    BY <1>1 DEF Created
  <2> QED
    BY <2>1 DEF NewId
<1>3. /\ MapsInv /\ clock \in Nat /\ Ttl \in Nat /\ MaxEntries \in Nat \ {0}
      /\ request \in [Pairing -> [status : Decision \cup {"none", "pending"}, expires : Nat]]
      /\ IsFiniteSet(Created) /\ gone \subseteq Created
  BY PairingAssumption DEF ApprovalInv, MapsInv
<1> HIDE DEF new
<1>4. request' \in [Pairing -> [status : Decision \cup {"none", "pending"}, expires : Nat]]
  BY <1>1, <1>2, <1>3
<1>5. \A k \in Pairing : request'[k] = IF k = new THEN [status |-> "pending", expires |-> clock + Ttl]
                                       ELSE request[k]
  BY <1>1, <1>3
<1>6. Created' = Created \cup {new} /\ IsFiniteSet(Created')
  <2>1. Created' = Created \cup {new}
    BY <1>2, <1>5 DEF Created
  <2> QED
    BY <1>3, <2>1, FS_AddElement
<1>7. /\ AreMaps(Kept, Ended, Created \ gone)
      /\ ToSet(Kept) = ToSet(records) \cap Unlapsed
  BY <1>3, PruneKeepsMaps
<1>8. /\ some \in Seq(Pairing) /\ Ordered(some, OtherId)
      /\ ToSet(some) \subseteq ToSet(Kept) /\ Len(some) <= MaxEntries - 1
      /\ some = Kept \/ Len(some) = MaxEntries - 1
  <2>1. MaxEntries - 1 \in Nat /\ Kept \in Seq(Pairing) /\ Ordered(Kept, OtherId)
    BY <1>3, <1>7 DEF AreMaps
  <2> QED
    BY <2>1, NewestProperties
<1> HIDE DEF some
<1>9. new \notin ToSet(some)
  BY <1>2, <1>7, <1>8 DEF AreMaps
<1>10. /\ records' \in Seq(Pairing) /\ Ordered(records', OtherId)
       /\ ToSet(records)' = ToSet(some) \cup {new} /\ Len(records') <= MaxEntries
       /\ Len(records') \in Nat
  <2>1. /\ records' \in Seq(Pairing) /\ Ordered(records', OtherId)
        /\ ToSet(records') = ToSet(some) \cup {new} /\ Len(records') = Len(some) + 1
    BY <1>1, <1>2, <1>8, <1>9, AppendId
  <2> QED
    BY <1>3, <1>8, <2>1
<1>11. AreMaps(records', terminal', Created' \ gone')
  <2>1. /\ Ended \in Seq(Ending) /\ Ordered(Ended, OtherEnding)
        /\ Ids(Ended) \subseteq Created \ gone /\ Len(Ended) <= MaxEntries
        /\ Ids(Ended) \cap ToSet(Kept) = {} /\ ToSet(Kept) \subseteq Created \ gone
    BY <1>7 DEF AreMaps
  <2>2. Cardinality(Spent(Ended)) \in Nat /\ Cardinality(Spent(Ended)) <= MaxEntries
    BY <1>3, <2>1, SpentCount
  <2>3. Len(records') + Cardinality(Spent(Ended)) <= 2 * MaxEntries
    BY <1>3, <1>10, <2>2
  <2>4. ToSet(records') \subseteq Created' \ gone' /\ Ids(Ended) \subseteq Created' \ gone'
    BY <1>1, <1>2, <1>3, <1>6, <1>8, <1>10, <2>1
  <2>5. Ids(Ended) \cap ToSet(records') = {}
    BY <1>2, <1>8, <1>10, <2>1
  <2> QED
    BY <1>1, <1>10, <2>1, <2>3, <2>4, <2>5 DEF AreMaps
<1>12. MapsInv'
  BY <1>1, <1>3, <1>4, <1>6, <1>11 DEF MapsInv
<1>13. UNCHANGED <<at, file>>
  BY <1>1 DEF storeVars
<1>14. ASSUME NEW k \in Pairing
       PROVE  Once(k)'
  <2>1. Once(k) /\ Issuing(k)' = Issuing(k)
    BY <1>13, SameIssues DEF ApprovalInv
  <2>2. k \in Created => request'[k] = request[k] /\ k # new
    BY <1>2, <1>5
  <2>3. Issuing(k) # {} => k \in Created
    BY <2>1 DEF Once, Created
  <2> QED
    BY <1>7, <1>8, <1>10, <2>1, <2>2, <2>3 DEF Once
<1>15. ASSUME NEW k \in Pairing
       PROVE  Accounted(k)'
  <2>1. CASE k = new
    BY <1>10, <2>1 DEF Accounted
  <2>2. CASE k # new
    <3>1. Accounted(k) /\ Issuing(k)' = Issuing(k) /\ InFlight(k)' = InFlight(k)
      BY <1>13, SameIssues DEF ApprovalInv
    <3>2. Lapsed(k)' = Lapsed(k)
      BY <1>1, <1>5, <2>2 DEF Lapsed
    <3>3. Crowded(k) => Crowded(k)'
      BY <1>1, <1>6, StaysCrowded
    <3>4. k \in Created' \ gone' => k \in Created \ gone
      BY <1>1, <1>6, <2>2
    <3>5. ASSUME k \in ToSet(Kept), k \notin ToSet(some)
          PROVE  Crowded(k)'
      <4>1. Len(some) = MaxEntries - 1
        BY <1>8, <3>5
      <4>2. IsFiniteSet(ToSet(some)) /\ Cardinality(ToSet(some)) = MaxEntries - 1
        BY <1>8, <4>1, DistinctCount
      <4>3. Cardinality(ToSet(some) \cup {new}) = MaxEntries
        <5>1. Cardinality(ToSet(some) \cup {new}) = Cardinality(ToSet(some)) + 1
          BY <1>9, <4>2, FS_AddElement
        <5> QED
          BY <1>3, <4>2, <5>1
      <4>4. ToSet(some) \cup {new} \in SUBSET (Created' \ (gone' \cup {k}))
        BY <1>1, <1>2, <1>3, <1>6, <1>7, <1>8, <2>2, <3>5 DEF AreMaps
      <4>5. Cardinality(ToSet(some) \cup {new}) >= MaxEntries
        BY <1>3, <4>3
      <4> QED
        BY <1>6, <4>4, <4>5, Crowding DEF Crowded
    <3>6. k \in ToSet(Kept) => k \in ToSet(records)' \/ Crowded(k)'
      BY <1>10, <3>5
    <3>7. k \in Spent(Ended) => k \in Spent(terminal)' \/ Crowded(k)'
      BY <1>1
    <3> QED
      BY <1>3, <3>1, <3>2, <3>3, <3>4, <3>6, <3>7, AccountStep
  <2> QED
    BY <2>1, <2>2
<1>16. StoreInv'
  BY <1>1, Untouched DEF ApprovalInv
<1> QED
  BY <1>12, <1>14, <1>15, <1>16 DEF ApprovalInv

(* An approval is spent: it is the last of the spent ones, and the oldest of   *)
(* them make room for it.                                                      *)
LEMMA ExchangeStep ==
  ASSUME ApprovalInv, NEW i \in Pairing, Exchange(i)
  PROVE  ApprovalInv'
<1> DEFINE e == [id |-> i, kind |-> "consumed"]
           n0 == CHOOSE n \in Serial : Unissued(<<i, n>>)
           t == Append(Ended, e)
<1>1. /\ Exchangeable(i)
      /\ Enqueue(<<"issue", <<i, n0>>>>)
      /\ records' = Only(records, Unlapsed \ {i})
      /\ terminal' = Newest(t, MaxEntries)
      /\ UNCHANGED <<clock, request, gone, file>>
  BY DEF Exchange, Fresh
<1>2. n0 \in Serial /\ Unissued(<<i, n0>>)
  <2>1. \E n \in Serial : Unissued(<<i, n>>)
    BY DEF Exchange
  <2> QED
    BY <2>1
<1> HIDE DEF n0
<1>3. /\ MapsInv /\ MaxEntries \in Nat \ {0}
      /\ request \in [Pairing -> [status : Decision \cup {"none", "pending"}, expires : Nat]]
      /\ IsFiniteSet(Created)
  BY PairingAssumption DEF ApprovalInv, MapsInv
<1>4. /\ records \in Seq(Pairing) /\ Ordered(records, OtherId)
      /\ ToSet(records) \subseteq Created \ gone
      /\ Len(records) + Cardinality(Spent(terminal)) <= 2 * MaxEntries
      /\ terminal \in Seq(Ending) /\ Ordered(terminal, OtherEnding)
  BY <1>3 DEF MapsInv, AreMaps
<1>5. /\ AreMaps(Kept, Ended, Created \ gone)
      /\ ToSet(Kept) = ToSet(records) \cap Unlapsed
      /\ Cardinality(Spent(Ended)) <= Cardinality(Spent(terminal))
  BY <1>3, PruneKeepsMaps
<1>6. /\ Kept \in Seq(Pairing) /\ Ended \in Seq(Ending) /\ Ordered(Ended, OtherEnding)
      /\ Ids(Ended) \subseteq Created \ gone /\ Ids(Ended) \cap ToSet(Kept) = {}
  BY <1>5 DEF AreMaps
<1>7. request[i].status = "approved" /\ i \in ToSet(Kept) /\ i \notin Ids(Ended)
  BY <1>1, <1>6 DEF Exchangeable, Contains, ToSet
<1>8. i \in ToSet(records) /\ i \in Unlapsed /\ i \in Created \ gone
  BY <1>4, <1>5, <1>7
<1>9. /\ records' \in Seq(Pairing) /\ Ordered(records', OtherId)
      /\ ToSet(records') = ToSet(records) \cap (Unlapsed \ {i})
      /\ Len(records') < Len(records)
  <2> DEFINE S == Unlapsed \ {i}
  <2>1. ~(ToSet(records) \subseteq S)
    BY <1>8
  <2> HIDE DEF S
  <2>2. /\ Only(records, S) \in Seq(Pairing) /\ Ordered(Only(records, S), OtherId)
        /\ ToSet(Only(records, S)) = ToSet(records) \cap S
        /\ Len(Only(records, S)) < Len(records)
    BY <1>4, <2>1, OnlyIds
  <2> QED
    BY <1>1, <2>2 DEF S
<1>10. e \in Ending /\ e.id = i
  BY DEF Ending
<1> HIDE DEF e
<1>11. /\ t \in Seq(Ending) /\ Ordered(t, OtherEnding)
       /\ ToSet(t) = ToSet(Ended) \cup {e}
       /\ Len(t) = Len(Ended) + 1 /\ t[Len(t)] = e /\ t # <<>>
  <2>1. /\ t \in Seq(Ending) /\ Ordered(t, OtherEnding)
        /\ ToSet(t) = ToSet(Ended) \cup {e}
        /\ Len(t) = Len(Ended) + 1 /\ t[Len(Ended) + 1] = e
    BY <1>6, <1>7, <1>10, AppendEnding
  <2>2. Len(Ended) \in Nat
    BY <1>6
  <2>3. t # <<>>
    BY <2>1, <2>2
  <2> QED
    BY <2>1, <2>3
<1> HIDE DEF t
<1>12. /\ terminal' \in Seq(Ending) /\ Ordered(terminal', OtherEnding)
       /\ Len(terminal') <= MaxEntries /\ ToSet(terminal') \subseteq ToSet(t)
       /\ e \in ToSet(terminal')
  <2>1. MaxEntries \in Nat /\ MaxEntries > 0
    BY <1>3
  <2> QED
    BY <1>1, <1>11, <2>1, NewestProperties
<1>13. i \in Spent(terminal')
  BY <1>12, EntriesOf DEF e
<1>14. Ids(terminal') \subseteq Ids(Ended) \cup {i}
  BY <1>6, <1>10, <1>11, <1>12, EntriesOf
<1>15. Spent(terminal') \subseteq Spent(Ended) \cup {i}
  <2>1. \A k \in Spent(terminal') : [id |-> k, kind |-> "consumed"] \in ToSet(Ended) \cup {e}
    BY <1>11, <1>12, EntriesOf
  <2>2. \A k \in Pairing : [id |-> k, kind |-> "consumed"] = e => k = i
    BY <1>10
  <2> QED
    BY <1>6, <1>12, <2>1, <2>2, EntriesOf
<1>16. Len(records') + Cardinality(Spent(terminal')) <= 2 * MaxEntries
  <2>1. /\ IsFiniteSet(Spent(Ended)) /\ Cardinality(Spent(Ended)) \in Nat
        /\ Cardinality(Spent(terminal)) \in Nat /\ Cardinality(Spent(terminal')) \in Nat
    BY <1>4, <1>6, <1>12, SpentCount
  <2>2. /\ IsFiniteSet(Spent(Ended) \cup {i})
        /\ \/ Cardinality(Spent(Ended) \cup {i}) = Cardinality(Spent(Ended))
           \/ Cardinality(Spent(Ended) \cup {i}) = Cardinality(Spent(Ended)) + 1
    BY <2>1, FS_AddElement
  <2>3. Cardinality(Spent(terminal')) <= Cardinality(Spent(Ended) \cup {i})
    BY <1>15, <2>2, FS_Subset
  <2>4. Cardinality(Spent(terminal')) <= Cardinality(Spent(terminal)) + 1
    BY <1>5, <2>1, <2>2, <2>3
  <2>5. Len(records) \in Nat /\ Len(records') \in Nat
    BY <1>4, <1>9
  <2> QED
    BY <1>3, <1>4, <1>9, <2>1, <2>4, <2>5
<1>17. Created' = Created /\ \A k \in Pairing : Lapsed(k)' = Lapsed(k) /\ Crowded(k)' = Crowded(k)
  BY <1>1 DEF Created, Lapsed, Crowded
<1>18. Ids(terminal') \cap ToSet(records') = {}
  BY <1>5, <1>6, <1>9, <1>14
<1>19. AreMaps(records', terminal', Created \ gone)
  BY <1>4, <1>6, <1>8, <1>9, <1>12, <1>14, <1>16, <1>18 DEF AreMaps
<1>20. MapsInv'
  BY <1>1, <1>3, <1>17, <1>19 DEF MapsInv
<1>21. StoreInv'
  BY ExchangeKeeps DEF ApprovalInv
<1>22. ASSUME NEW k \in Pairing, NEW n \in Serial
       PROVE  at'[<<"issue", <<k, n>>>>] = IF k = i /\ n = n0 THEN "queued" ELSE at[<<"issue", <<k, n>>>>]
  <2>1. <<"issue", <<k, n>>>> \in Job /\ <<"issue", <<i, n0>>>> \in Job
    BY <1>2 DEF Job, Cred
  <2>2. at \in [Job -> {"idle", "queued", "running", "failed"}]
    BY DEF ApprovalInv, StoreInv, StoreTypeOK
  <2>3. at' = [at EXCEPT ![<<"issue", <<i, n0>>>>] = "queued"]
    BY <1>1 DEF Enqueue
  <2> QED
    BY <2>1, <2>2, <2>3
<1>23. ASSUME NEW k \in Pairing, k # i
       PROVE  Issuing(k)' = Issuing(k) /\ InFlight(k)' = InFlight(k)
  BY <1>1, <1>22, <1>23 DEF Issuing, InFlight, Unissued
<1>24. Issuing(i)' = {n0}
  <2>1. Once(i)
    BY DEF ApprovalInv
  <2>2. \A n \in Serial : Unissued(<<i, n>>)
    BY <1>8, <2>1 DEF Once, Issuing
  <2> QED
    BY <1>1, <1>2, <1>22, <2>2 DEF Issuing, Unissued
<1>25. ASSUME NEW k \in Pairing
       PROVE  Once(k)'
  <2>1. CASE k = i
    BY <1>1, <1>7, <1>9, <1>24, <2>1 DEF Once
  <2>2. CASE k # i
    <3>1. Once(k) /\ Issuing(k)' = Issuing(k)
      BY <1>23, <2>2 DEF ApprovalInv
    <3> QED
      BY <1>1, <1>9, <3>1 DEF Once
  <2> QED
    BY <2>1, <2>2
<1>26. ASSUME NEW k \in Pairing
       PROVE  Accounted(k)'
  <2>1. CASE k = i
    BY <1>13, <1>24, <2>1 DEF Accounted
  <2>2. CASE k # i
    <3>1. Accounted(k) /\ Issuing(k)' = Issuing(k) /\ InFlight(k)' = InFlight(k)
      BY <1>23, <2>2 DEF ApprovalInv
    <3>2. k \in ToSet(Kept) => k \in ToSet(records')
      BY <1>5, <1>9, <2>2
    <3>3. ASSUME k \in Spent(Ended), k \notin Spent(terminal')
          PROVE  Crowded(k)'
      <4> DEFINE f == [id |-> k, kind |-> "consumed"]
      <4>1. f \in ToSet(t) /\ f.id = k
        BY <1>6, <1>11, <3>3, EntriesOf
      <4>2. f \notin ToSet(terminal')
        BY <1>12, <3>3, EntriesOf
      <4> HIDE DEF f
      <4>3. Len(terminal') = MaxEntries /\ k \notin Ids(terminal')
        BY <1>1, <1>3, <1>11, <4>1, <4>2, PushedOut
      <4>4. Ids(terminal') \subseteq Created \ gone
        BY <1>19 DEF AreMaps
      <4> QED
        BY <1>3, <1>12, <1>17, <4>3, <4>4, FullOfOthers DEF Crowded
    <3> QED
      BY <1>1, <1>3, <1>17, <3>1, <3>2, <3>3, AccountStep
  <2> QED
    BY <2>1, <2>2
<1> QED
  BY <1>20, <1>21, <1>25, <1>26 DEF ApprovalInv

(* The approval is given back, unless it has expired or been crowded out. *)
LEMMA RestoreStep ==
  ASSUME ApprovalInv, NEW i \in Pairing, NEW n0 \in Serial, Restore(<<i, n0>>)
  PROVE  ApprovalInv'
<1> DEFINE e == [id |-> i, kind |-> "consumed"]
           spent == Contains(Ended, e)
           restored == spent /\ ~Contains(Kept, i) /\ ~Lapsed(i)
           others == {f \in Ending : f.id # i}
<1>1. /\ at[<<"issue", <<i, n0>>>>] = "failed"
      /\ at' = [at EXCEPT ![<<"issue", <<i, n0>>>>] = "idle"]
      /\ records' = IF restored THEN Append(Kept, i) ELSE Kept
      /\ terminal' = IF restored THEN Only(Ended, others) ELSE Ended
      /\ UNCHANGED <<clock, request, gone, queue, memory, file, faults>>
  BY DEF Restore
<1>2. /\ MapsInv /\ MaxEntries \in Nat \ {0}
      /\ IsFiniteSet(Created)
  BY PairingAssumption DEF ApprovalInv, MapsInv
<1>3. /\ AreMaps(Kept, Ended, Created \ gone)
      /\ ToSet(Kept) = ToSet(records) \cap Unlapsed
  BY <1>2, PruneKeepsMaps
<1>4. /\ Kept \in Seq(Pairing) /\ Ordered(Kept, OtherId) /\ ToSet(Kept) \subseteq Created \ gone
      /\ Ended \in Seq(Ending) /\ Ordered(Ended, OtherEnding) /\ Ids(Ended) \subseteq Created \ gone
      /\ Len(Ended) <= MaxEntries /\ Ids(Ended) \cap ToSet(Kept) = {}
      /\ Len(Kept) + Cardinality(Spent(Ended)) <= 2 * MaxEntries
  BY <1>3 DEF AreMaps
<1>5. /\ spent <=> i \in Spent(Ended)
      /\ Contains(Kept, i) <=> i \in ToSet(Kept)
  BY <1>4 DEF Spent, Contains, ToSet
<1> HIDE DEF spent
<1>6. ASSUME NEW k \in Pairing, NEW n \in Serial
      PROVE  at'[<<"issue", <<k, n>>>>] = IF k = i /\ n = n0 THEN "idle" ELSE at[<<"issue", <<k, n>>>>]
  <2>1. <<"issue", <<k, n>>>> \in Job /\ <<"issue", <<i, n0>>>> \in Job
    BY DEF Job, Cred
  <2>2. at \in [Job -> {"idle", "queued", "running", "failed"}]
    BY DEF ApprovalInv, StoreInv, StoreTypeOK
  <2> QED
    BY <1>1, <2>1, <2>2
<1>7. Once(i) /\ Accounted(i)
  BY DEF ApprovalInv
<1>8. /\ Issuing(i) = {n0} /\ InFlight(i) /\ i \notin ToSet(records)
  <2>1. n0 \in Issuing(i) /\ InFlight(i)
    BY <1>1 DEF Issuing, InFlight, Unissued
  <2> QED
    BY <1>7, <2>1 DEF Once
<1>9. file[<<i, n0>>] = "absent"
  <2>1. <<i, n0>> \in Cred
    BY DEF Cred
  <2> QED
    BY <1>1, <2>1 DEF ApprovalInv, StoreInv
<1>10. Issuing(i)' = {}
  <2>1. \A n \in Serial : Unissued(<<i, n>>) <=> n # n0
    BY <1>8 DEF Issuing
  <2> QED
    BY <1>1, <1>6, <1>9, <2>1 DEF Issuing, Unissued
<1>11. ASSUME NEW k \in Pairing, k # i
       PROVE  Issuing(k)' = Issuing(k) /\ InFlight(k)' = InFlight(k)
  BY <1>1, <1>6, <1>11 DEF Issuing, InFlight, Unissued
<1>12. Created' = Created /\ \A k \in Pairing : Lapsed(k)' = Lapsed(k) /\ Crowded(k)' = Crowded(k)
  BY <1>1 DEF Created, Lapsed, Crowded
<1>13. CASE ~restored
  <2>1. records' = Kept /\ terminal' = Ended
    BY <1>1, <1>13
  <2>2. MapsInv'
    BY <1>1, <1>2, <1>3, <1>12, <2>1 DEF MapsInv
  <2>3. ASSUME NEW k \in Pairing
        PROVE  Once(k)'
    <3>1. CASE k = i
      BY <1>10, <3>1 DEF Once
    <3>2. CASE k # i
      <4>1. Once(k) /\ Issuing(k)' = Issuing(k)
        BY <1>11, <3>2 DEF ApprovalInv
      <4> QED
        BY <1>1, <1>3, <2>1, <4>1 DEF Once
    <3> QED
      BY <3>1, <3>2
  <2>4. ASSUME NEW k \in Pairing
        PROVE  Accounted(k)'
    <3>1. CASE k = i
      <4> SUFFICES ASSUME i \in Created \ gone, ~Lapsed(i), ~Crowded(i)
                   PROVE  FALSE
        BY <1>1, <1>12, <3>1 DEF Accounted
      <4>1. i \in Spent(terminal)
        BY <1>7, <1>8 DEF Accounted
      <4>2. i \notin Spent(Ended)
        BY <1>3, <1>5, <1>8, <1>13
      <4>3. Len(Ended) = MaxEntries /\ i \notin Ids(Ended)
        BY <1>2, <4>1, <4>2, PruneKeepsMaps
      <4> QED
        BY <1>2, <1>4, <4>3, FullOfOthers DEF Crowded
    <3>2. CASE k # i
      <4>1. Accounted(k) /\ Issuing(k)' = Issuing(k) /\ InFlight(k)' = InFlight(k)
        BY <1>11, <3>2 DEF ApprovalInv
      <4> QED
        BY <1>1, <1>2, <1>12, <2>1, <4>1, AccountStep
    <3> QED
      BY <3>1, <3>2
  <2> QED
    BY <2>2, <2>3, <2>4, RestoreKeeps DEF ApprovalInv, Cred
<1>14. CASE restored
  <2>1. records' = Append(Kept, i) /\ terminal' = Only(Ended, others)
    BY <1>1, <1>14
  <2>2. i \in Spent(Ended) /\ i \notin ToSet(Kept) /\ ~Lapsed(i)
    BY <1>5, <1>14
  <2>3. Spent(Ended) \subseteq Ids(Ended) /\ IsFiniteSet(Spent(Ended)) /\ Cardinality(Spent(Ended)) \in Nat
    BY <1>4, SpentCount
  <2>4. i \in Ids(Ended)
    BY <2>2, <2>3
  <2>5. /\ records' \in Seq(Pairing) /\ Ordered(records', OtherId)
        /\ ToSet(records') = ToSet(Kept) \cup {i}
        /\ Len(records') = Len(Kept) + 1
    BY <1>4, <2>1, <2>2, AppendId
  <2>6. \A f \in others : f.id # i
    OBVIOUS
  <2>7. \A f \in Ending : f.id # i => f \in others
    OBVIOUS
  <2> HIDE DEF others
  <2>8. /\ terminal' \in Seq(Ending) /\ Ordered(terminal', OtherEnding)
        /\ ToSet(terminal') = ToSet(Ended) \cap others
        /\ Len(terminal') <= Len(Ended)
    BY <1>4, <2>1, OnlyEndings
  <2>9. Ids(terminal') \subseteq Ids(Ended) \ {i}
    <3>1. \A k \in Ids(terminal') : \E f \in ToSet(terminal') : f.id = k
      BY <2>8, EntriesOf
    <3>2. \A f \in ToSet(terminal') : f.id # i /\ f.id \in Ids(Ended)
      BY <1>4, <2>6, <2>8, EntriesOf
    <3> QED
      BY <3>1, <3>2
  <2>10. Spent(terminal') = Spent(Ended) \ {i}
    <3>1. ASSUME NEW k \in Spent(terminal')
          PROVE  k \in Spent(Ended) \ {i}
      <4>1. k \in Pairing /\ [id |-> k, kind |-> "consumed"] \in ToSet(terminal')
        BY <2>8, EntriesOf
      <4>2. [id |-> k, kind |-> "consumed"] \in ToSet(Ended) /\ [id |-> k, kind |-> "consumed"].id # i
        BY <2>6, <2>8, <4>1
      <4> QED
        BY <1>4, <4>1, <4>2, EntriesOf
    <3>2. ASSUME NEW k \in Spent(Ended), k # i
          PROVE  k \in Spent(terminal')
      <4>1. k \in Pairing /\ [id |-> k, kind |-> "consumed"] \in ToSet(Ended)
        BY <1>4, EntriesOf
      <4>2. [id |-> k, kind |-> "consumed"] \in Ending /\ [id |-> k, kind |-> "consumed"].id = k
        BY <4>1 DEF Ending
      <4>3. [id |-> k, kind |-> "consumed"] \in ToSet(terminal')
        BY <2>7, <2>8, <3>2, <4>1, <4>2
      <4> QED
        BY <2>8, <4>1, <4>3, EntriesOf
    <3> QED
      BY <3>1, <3>2
  <2>11. Len(records') + Cardinality(Spent(terminal')) <= 2 * MaxEntries
    <3>1. Cardinality(Spent(terminal')) = Cardinality(Spent(Ended)) - 1
      BY <2>2, <2>3, <2>10, FS_RemoveElement
    <3>2. Len(Kept) \in Nat
      BY <1>4
    <3> QED
      BY <1>2, <1>4, <2>3, <2>5, <3>1, <3>2
  <2>12. Len(terminal') <= MaxEntries
    <3>1. Len(terminal') \in Nat /\ Len(Ended) \in Nat
      BY <1>4, <2>8
    <3> QED
      BY <1>2, <1>4, <2>8, <3>1
  <2>13. AreMaps(records', terminal', Created \ gone)
    <3>1. ToSet(records') \subseteq Created \ gone /\ Ids(terminal') \subseteq Created \ gone
      BY <1>4, <2>4, <2>5, <2>9
    <3>2. Ids(terminal') \cap ToSet(records') = {}
      BY <1>4, <2>5, <2>9
    <3> QED
      BY <2>5, <2>8, <2>11, <2>12, <3>1, <3>2 DEF AreMaps
  <2>14. MapsInv'
    BY <1>1, <1>2, <1>12, <2>13 DEF MapsInv
  <2>15. ASSUME NEW k \in Pairing
         PROVE  Once(k)'
    <3>1. CASE k = i
      BY <1>10, <3>1 DEF Once
    <3>2. CASE k # i
      <4>1. Once(k) /\ Issuing(k)' = Issuing(k)
        BY <1>11, <3>2 DEF ApprovalInv
      <4> QED
        BY <1>1, <1>3, <2>5, <3>2, <4>1 DEF Once
    <3> QED
      BY <3>1, <3>2
  <2>16. ASSUME NEW k \in Pairing
         PROVE  Accounted(k)'
    <3>1. CASE k = i
      BY <2>5, <3>1 DEF Accounted
    <3>2. CASE k # i
      <4>1. Accounted(k) /\ Issuing(k)' = Issuing(k) /\ InFlight(k)' = InFlight(k)
        BY <1>11, <3>2 DEF ApprovalInv
      <4>2. k \in ToSet(Kept) => k \in ToSet(records')
        BY <2>5
      <4>3. k \in Spent(Ended) => k \in Spent(terminal')
        BY <2>10, <3>2
      <4> QED
        BY <1>1, <1>2, <1>12, <4>1, <4>2, <4>3, AccountStep
    <3> QED
      BY <3>1, <3>2
  <2> QED
    BY <2>14, <2>15, <2>16, RestoreKeeps DEF ApprovalInv, Cred
<1> QED
  BY <1>13, <1>14

(* A step that does not touch the maps, and neither issues for an approval nor *)
(* takes an issue back.                                                        *)
LEMMA AsideStep ==
  ASSUME ApprovalInv, StoreInv', UNCHANGED pairingVars,
         clock' \in Nat, clock' >= clock,
         \A c \in Cred : /\ Unissued(c)' = Unissued(c)
                         /\ at'[<<"issue", c>>] # "idle" => at[<<"issue", c>>] # "idle"
  PROVE  ApprovalInv'
<1>1. UNCHANGED <<request, records, terminal, gone>>
  BY DEF pairingVars
<1>2. MapsInv /\ clock \in Nat
      /\ request \in [Pairing -> [status : Decision \cup {"none", "pending"}, expires : Nat]]
  BY DEF ApprovalInv, MapsInv
<1>3. Created' = Created /\ \A k \in Pairing : Crowded(k)' = Crowded(k)
  BY <1>1 DEF Created, Crowded
<1>4. MapsInv'
  BY <1>1, <1>2, <1>3 DEF MapsInv
<1>5. ASSUME NEW k \in Pairing
      PROVE  /\ Lapsed(k) => Lapsed(k)'
             /\ Issuing(k)' = Issuing(k)
             /\ InFlight(k)' => InFlight(k)
  <2>1. request[k].expires \in Nat
    BY <1>2
  <2>2. Lapsed(k) => Lapsed(k)'
    BY <1>1, <1>2, <2>1 DEF Lapsed
  <2>3. \A n \in Serial : <<k, n>> \in Cred
    BY DEF Cred
  <2>4. Issuing(k)' = Issuing(k)
    BY <2>3 DEF Issuing
  <2>5. InFlight(k)' => InFlight(k)
    BY <2>3 DEF InFlight
  <2> QED
    BY <2>2, <2>4, <2>5
<1>6. ASSUME NEW k \in Pairing
      PROVE  Once(k)'
  <2>1. Once(k) /\ Issuing(k)' = Issuing(k)
    BY <1>5 DEF ApprovalInv
  <2> QED
    BY <1>1, <2>1 DEF Once
<1>7. ASSUME NEW k \in Pairing
      PROVE  Accounted(k)'
  <2>1. Accounted(k)
    BY DEF ApprovalInv
  <2> QED
    BY <1>1, <1>3, <1>5, <2>1 DEF Accounted
<1> QED
  BY <1>4, <1>6, <1>7 DEF ApprovalInv

LEMMA StoreOperationStep ==
  ASSUME ApprovalInv, NEW j \in Job, Load(j) \/ Commit(j) \/ Skip(j) \/ Fail(j)
  PROVE  ApprovalInv'
<1>1. /\ StoreInv /\ clock \in Nat
      /\ at \in [Job -> {"idle", "queued", "running", "failed"}] /\ file \in Credentials
  BY DEF ApprovalInv, MapsInv, StoreInv, StoreTypeOK
<1>2. UNCHANGED <<clock, pairingVars>>
  BY DEF Load, Commit, Skip, Fail
<1>3. j[1] \in {"issue", "use", "revoke"} /\ j[2] \in Cred /\ j = <<j[1], j[2]>>
  BY JobParts
<1>4. \A c \in Cred : <<"issue", c>> \in Job /\ (j = <<"issue", c>> => j[1] = "issue")
  BY DEF Job
<1>5. StoreInv'
  BY <1>1, LoadKeeps, CommitKeeps, SkipKeeps, FailKeeps
<1>6. CASE Load(j)
  <2>1. at[j] = "queued" /\ at' = [at EXCEPT ![j] = "running"] /\ UNCHANGED file
    BY <1>6 DEF Load
  <2>2. \A c \in Cred : at'[<<"issue", c>>] # "idle" <=> at[<<"issue", c>>] # "idle"
    BY <1>1, <1>4, <2>1
  <2>3. \A c \in Cred : Unissued(c)' = Unissued(c)
    BY <2>1, <2>2 DEF Unissued
  <2> QED
    BY <1>1, <1>2, <1>5, <2>2, <2>3, AsideStep
<1>7. CASE Commit(j)
  <2>1. /\ at[j] = "running" /\ Writes(j) /\ file' = Changed(j) /\ memory = file
        /\ at' = [at EXCEPT ![j] = "idle"]
    BY <1>1, <1>7 DEF Commit, Leave, StoreInv
  <2>2. \A c \in Cred : at'[<<"issue", c>>] = IF j = <<"issue", c>> THEN "idle" ELSE at[<<"issue", c>>]
    BY <1>1, <1>4, <2>1
  <2>3. CASE j[1] = "issue"
    <3>1. file' = [file EXCEPT ![j[2]] = "live"]
      BY <2>1, <2>3 DEF Changed
    <3>2. \A c \in Cred : file'[c] = IF c = j[2] THEN "live" ELSE file[c]
      BY <1>1, <3>1 DEF Credentials
    <3>3. ASSUME NEW c \in Cred
          PROVE  Unissued(c)' = Unissued(c)
      <4>1. CASE c = j[2]
        <5>1. at[<<"issue", c>>] = "running" /\ file'[c] = "live"
          BY <1>3, <2>1, <2>3, <3>2, <4>1
        <5> QED
          BY <5>1 DEF Unissued
      <4>2. CASE c # j[2]
        <5>1. at'[<<"issue", c>>] = at[<<"issue", c>>] /\ file'[c] = file[c]
          BY <1>3, <2>2, <3>2, <4>2
        <5> QED
          BY <5>1 DEF Unissued
      <4> QED
        BY <4>1, <4>2
    <3> QED
      BY <1>1, <1>2, <1>5, <2>2, <3>3, AsideStep
  <2>4. CASE j[1] = "revoke"
    <3>1. file' = [file EXCEPT ![j[2]] = "revoked"] /\ file[j[2]] = "live"
      BY <2>1, <2>4 DEF Changed, Writes
    <3>2. \A c \in Cred : file'[c] = "absent" <=> file[c] = "absent"
      BY <1>1, <3>1 DEF Credentials
    <3>3. \A c \in Cred : at'[<<"issue", c>>] = at[<<"issue", c>>]
      BY <1>4, <2>2, <2>4
    <3>4. \A c \in Cred : Unissued(c)' = Unissued(c)
      BY <3>2, <3>3 DEF Unissued
    <3> QED
      BY <1>1, <1>2, <1>5, <3>3, <3>4, AsideStep
  <2>5. CASE j[1] = "use"
    <3>1. file' = file
      BY <2>1, <2>5 DEF Changed
    <3>2. \A c \in Cred : at'[<<"issue", c>>] = at[<<"issue", c>>]
      BY <1>4, <2>2, <2>5
    <3>3. \A c \in Cred : Unissued(c)' = Unissued(c)
      BY <3>1, <3>2 DEF Unissued
    <3> QED
      BY <1>1, <1>2, <1>5, <3>2, <3>3, AsideStep
  <2> QED
    BY <1>3, <2>3, <2>4, <2>5
<1>8. CASE Skip(j)
  <2>1. j[1] # "issue" /\ at' = [at EXCEPT ![j] = "idle"] /\ UNCHANGED file
    BY <1>8 DEF Skip, Leave, Writes
  <2>2. \A c \in Cred : at'[<<"issue", c>>] = at[<<"issue", c>>]
    BY <1>1, <1>4, <2>1
  <2>3. \A c \in Cred : Unissued(c)' = Unissued(c)
    BY <2>1, <2>2 DEF Unissued
  <2> QED
    BY <1>1, <1>2, <1>5, <2>2, <2>3, AsideStep
<1>9. CASE Fail(j)
  <2>1. at[j] # "idle" /\ at' = [at EXCEPT ![j] = Failed(j)] /\ UNCHANGED file
    BY <1>9 DEF Fail, Leave
  <2>2. ASSUME NEW c \in Cred
        PROVE  at'[<<"issue", c>>] # "idle" <=> at[<<"issue", c>>] # "idle"
    <3>1. CASE j = <<"issue", c>>
      <4>1. Failed(j) = "failed"
        BY <3>1 DEF Failed
      <4> QED
        BY <1>1, <1>4, <2>1, <3>1, <4>1
    <3>2. CASE j # <<"issue", c>>
      BY <1>1, <1>4, <2>1, <3>2
    <3> QED
      BY <3>1, <3>2
  <2>3. \A c \in Cred : Unissued(c)' = Unissued(c)
    BY <2>1, <2>2 DEF Unissued
  <2> QED
    BY <1>1, <1>2, <1>5, <2>2, <2>3, AsideStep
<1> QED
  BY <1>6, <1>7, <1>8, <1>9

LEMMA AskStep ==
  ASSUME ApprovalInv, NEW c \in Cred, Use(c) \/ Revoke(c)
  PROVE  ApprovalInv'
<1>1. /\ StoreInv /\ clock \in Nat
      /\ at \in [Job -> {"idle", "queued", "running", "failed"}]
  BY DEF ApprovalInv, MapsInv, StoreInv, StoreTypeOK
<1>2. StoreInv' /\ UNCHANGED <<clock, file, pairingVars>>
  BY <1>1, AskKeeps DEF Use, Revoke
<1>3. at' = [at EXCEPT ![<<"use", c>>] = "queued"] \/ at' = [at EXCEPT ![<<"revoke", c>>] = "queued"]
  BY DEF Use, Revoke, Enqueue
<1>4. \A d \in Cred : <<"issue", d>> \in Job
  BY DEF Job
<1>5. \A d \in Cred : at'[<<"issue", d>>] = at[<<"issue", d>>]
  BY <1>1, <1>3, <1>4
<1>6. \A d \in Cred : Unissued(d)' = Unissued(d)
  BY <1>2, <1>5 DEF Unissued
<1> QED
  BY <1>1, <1>2, <1>5, <1>6, AsideStep

LEMMA NoMaps == AreMaps(<<>>, <<>>, {})
<1>1. Spent(<<>>) = {} /\ Ids(<<>>) = {} /\ ToSet(<<>>) = {}
  BY DEF Spent, Ids, ToSet, Contains
<1>2. Ordered(<<>>, OtherId) /\ Ordered(<<>>, OtherEnding)
  BY DEF Ordered
<1>3. Cardinality(Spent(<<>>)) = 0
  BY <1>1, FS_EmptySet
<1>4. Len(<<>>) = 0 /\ MaxEntries \in Nat
  BY PairingAssumption
<1>5. Len(<<>>) <= MaxEntries /\ Len(<<>>) + Cardinality(Spent(<<>>)) <= 2 * MaxEntries
  BY <1>3, <1>4
<1> QED
  BY <1>1, <1>2, <1>5 DEF AreMaps

(* The process ends: its requests with it, but not the credentials. *)
LEMMA RestartStep ==
  ASSUME ApprovalInv, Restart
  PROVE  ApprovalInv'
<1>1. /\ records' = <<>> /\ terminal' = <<>> /\ gone' = Created
      /\ at' = [j \in Job |-> "idle"] /\ UNCHANGED <<clock, request, file>>
  BY DEF Restart
<1>2. StoreInv'
  BY RestartKeeps DEF ApprovalInv
<1>3. MapsInv /\ MaxEntries \in Nat
  BY PairingAssumption DEF ApprovalInv, MapsInv
<1>4. Created' = Created
  BY <1>1 DEF Created
<1>5. AreMaps(<<>>, <<>>, {})
  BY NoMaps
<1>6. MapsInv'
  <2>1. Created' \ gone' = {}
    BY <1>1, <1>4
  <2> QED
    BY <1>1, <1>3, <1>4, <1>5, <2>1 DEF MapsInv
<1>7. ASSUME NEW k \in Pairing
      PROVE  Once(k)'
  <2>1. Once(k)
    BY DEF ApprovalInv
  <2>2. Issuing(k)' \subseteq Issuing(k)
    <3>1. \A n \in Serial : <<"issue", <<k, n>>>> \in Job
      BY DEF Job, Cred
    <3> QED
      BY <1>1, <3>1 DEF Issuing, Unissued
  <2>3. k \notin ToSet(records')
    BY <1>1 DEF ToSet
  <2> QED
    BY <1>1, <2>1, <2>2, <2>3 DEF Once
<1>8. \A k \in Pairing : Accounted(k)'
  BY <1>1, <1>4 DEF Accounted
<1> QED
  BY <1>2, <1>6, <1>7, <1>8 DEF ApprovalInv

LEMMA ApprovalInit == Init => ApprovalInv
<1> SUFFICES ASSUME Init PROVE ApprovalInv
  OBVIOUS
<1>1. /\ clock = 0 /\ records = <<>> /\ terminal = <<>> /\ gone = {} /\ file = Empty
      /\ request = [i \in Pairing |-> [status |-> "none", expires |-> 0]]
      /\ at = [j \in Job |-> "idle"]
  BY DEF Init
<1>2. MaxEntries \in Nat
  BY PairingAssumption
<1>3. Created = {}
  BY <1>1 DEF Created
<1>4. AreMaps(<<>>, <<>>, {})
  BY NoMaps
<1>5. MapsInv
  <2>1. Created \ gone = {}
    BY <1>1, <1>3
  <2>2. IsFiniteSet(Created)
    BY <1>3, FS_EmptySet
  <2> QED
    BY <1>1, <1>3, <1>4, <2>1, <2>2 DEF MapsInv
<1>6. ASSUME NEW k \in Pairing
      PROVE  Once(k) /\ Accounted(k)
  <2>1. \A n \in Serial : <<k, n>> \in Cred /\ <<"issue", <<k, n>>>> \in Job
    BY DEF Job, Cred
  <2>2. Issuing(k) = {}
    BY <1>1, <2>1 DEF Issuing, Unissued, Empty
  <2> QED
    BY <1>3, <2>2 DEF Once, Accounted
<1> QED
  BY <1>5, <1>6, StoreInit DEF ApprovalInv

LEMMA ApprovalStep ==
  ASSUME ApprovalInv, [Next]_vars
  PROVE  ApprovalInv'
<1>1. CASE Create
  BY <1>1, CreateStep
<1>2. CASE \E i \in Pairing : Exchange(i)
  BY <1>2, ExchangeStep
<1>3. CASE \E i \in Pairing, d \in Decision : Decide(i, d)
  BY <1>3, DecideStep
<1>4. CASE \E c \in Cred : Restore(c) \/ Use(c) \/ Revoke(c)
  <2>1. PICK c \in Cred : Restore(c) \/ Use(c) \/ Revoke(c)
    BY <1>4
  <2>2. PICK i \in Pairing, n \in Serial : c = <<i, n>>
    BY DEF Cred
  <2> QED
    BY <2>1, <2>2, RestoreStep, AskStep
<1>5. CASE \E j \in ToSet(queue) : Load(j) \/ Commit(j) \/ Skip(j) \/ Fail(j)
  <2>1. ToSet(queue) \subseteq Job
    BY DEF ApprovalInv, StoreInv, StoreTypeOK, ToSet
  <2> QED
    BY <1>5, <2>1, StoreOperationStep
<1>6. CASE Look
  BY <1>6, LookStep
<1>7. CASE Restart
  BY <1>7, RestartStep
<1>8. CASE Elapse \/ UNCHANGED vars
  <2>1. clock \in Nat /\ StoreInv
    BY DEF ApprovalInv, MapsInv
  <2>2. UNCHANGED <<pairingVars, storeVars>> /\ clock' \in Nat /\ clock' >= clock
    BY <1>8, <2>1 DEF Elapse, vars, pairingVars, storeVars
  <2>3. StoreInv'
    BY <2>1, <2>2, Untouched
  <2>4. UNCHANGED <<at, file>>
    BY <2>2 DEF storeVars
  <2>5. \A c \in Cred : Unissued(c)' = Unissued(c) /\ at'[<<"issue", c>>] = at[<<"issue", c>>]
    BY <2>4 DEF Unissued
  <2> QED
    BY <2>2, <2>3, <2>5, AsideStep
<1> QED
  BY <1>1, <1>2, <1>3, <1>4, <1>5, <1>6, <1>7, <1>8 DEF Next

LEMMA ApprovalAlways == Spec => []ApprovalInv
<1>1. ApprovalInv /\ [Next]_vars => ApprovalInv'
  BY ApprovalStep
<1> QED
  BY ApprovalInit, <1>1, PTL DEF Spec

LEMMA IssuedOnce == ApprovalInv => OneCredentialPerApproval
<1> SUFFICES ASSUME ApprovalInv, NEW i \in Pairing
             PROVE  /\ Cardinality(IssuedFor(i)) <= 1
                    /\ request[i].status # "approved" => IssuedFor(i) = {}
  BY DEF OneCredentialPerApproval
<1>1. IssuedFor(i) \subseteq Issuing(i)
  BY DEF IssuedFor, Issuing, Unissued
<1>2. Once(i)
  BY DEF ApprovalInv
<1>3. \A m, n \in IssuedFor(i) : m = n
  BY <1>1, <1>2 DEF Once
<1>4. request[i].status # "approved" => IssuedFor(i) = {}
  BY <1>1, <1>2 DEF Once
<1>5. CASE IssuedFor(i) = {}
  <2>1. Cardinality(IssuedFor(i)) = 0
    BY <1>5, FS_EmptySet
  <2> QED
    BY <1>4, <2>1
<1>6. CASE IssuedFor(i) # {}
  <2>1. PICK n \in IssuedFor(i) : TRUE
    BY <1>6
  <2>2. IssuedFor(i) = {n}
    BY <1>3, <2>1
  <2>3. Cardinality(IssuedFor(i)) = 1
    BY <2>2, FS_Singleton
  <2> QED
    BY <1>4, <2>3
<1> QED
  BY <1>5, <1>6

LEMMA AccountedIsKept == ApprovalInv => ApprovalKept
<1> SUFFICES ASSUME ApprovalInv, NEW i \in Pairing \ gone,
                    request[i].status = "approved", ~Lapsed(i),
                    \A n \in Serial : Unissued(<<i, n>>), ~Crowded(i)
             PROVE  Exchangeable(i)
  BY DEF ApprovalKept
<1>1. i \in Created \ gone /\ Issuing(i) = {} /\ Accounted(i) /\ MapsInv
  BY DEF Created, Issuing, ApprovalInv
<1>2. i \in ToSet(records) /\ i \in Unlapsed
  BY <1>1 DEF Accounted, Unlapsed
<1>3. AreMaps(Kept, Ended, Created \ gone) /\ i \in ToSet(Kept)
  BY <1>1, <1>2, PruneKeepsMaps
<1>4. i \notin Ids(Ended) /\ Contains(Kept, i)
  BY <1>3 DEF AreMaps, ToSet, Contains
<1> QED
  BY <1>4 DEF Exchangeable

(* One approval is good for one credential, however many exchanges, failures,  *)
(* retries and restarts there are: the exchange spends it before it awaits.    *)
THEOREM SpecOneCredential == Spec => []OneCredentialPerApproval
  BY ApprovalAlways, IssuedOnce, PTL

(* An approval that has not lapsed and was not exchanged can be exchanged,     *)
(* unless a map is full of others: a failed exchange gave it back.             *)
THEOREM SpecApprovalKept == Spec => []ApprovalKept
  BY ApprovalAlways, AccountedIsKept, PTL

(* What is left of the live map has moved towards its front. *)
LEMMA SurplusShrinks ==
  ASSUME MapsInv, SurplusInv, NEW S, NEW n \in DOMAIN Only(records, S), n > MaxEntries
  PROVE  request[Only(records, S)[n]].status = "approved"
<1>1. /\ records \in Seq(Pairing) /\ Ordered(records, OtherId) /\ MaxEntries \in Nat
      /\ Only(records, S) \in Seq(Pairing)
  BY PairingAssumption, OnlyIds DEF MapsInv, AreMaps
<1>2. PICK l \in DOMAIN records : n <= l /\ Only(records, S)[n] = records[l]
  BY <1>1, OnlyIds
<1>3. l > MaxEntries
  BY <1>1, <1>2
<1> QED
  BY <1>2, <1>3 DEF SurplusInv

(* A new request makes room for itself; only what is given back does not. *)
LEMMA SurplusStep ==
  ASSUME ApprovalInv, SurplusInv, [Next]_vars
  PROVE  SurplusInv'
<1>1. /\ MapsInv /\ MaxEntries \in Nat \ {0} /\ records \in Seq(Pairing)
      /\ Ordered(records, OtherId) /\ Kept \in Seq(Pairing)
  BY PairingAssumption, OnlyIds DEF ApprovalInv, MapsInv, AreMaps, Kept
<1>2. \A n \in DOMAIN Kept : n > MaxEntries => request[Kept[n]].status = "approved"
  BY <1>1, SurplusShrinks DEF Kept
<1>3. CASE Create
  <2>1. PICK w : w = Newest(Kept, MaxEntries - 1)
    OBVIOUS
  <2>2. MaxEntries - 1 \in Nat
    BY <1>1
  <2>3. w \in Seq(Pairing) /\ Len(w) <= MaxEntries - 1
    BY <1>1, <2>1, <2>2, NewestProperties
  <2>4. NewId \in Pairing
    BY <1>3 DEF Create, NewId, Created
  <2>5. records' = Append(w, NewId)
    BY <1>3, <2>1 DEF Create
  <2>6. records' \in Seq(Pairing) /\ Len(records') <= MaxEntries
    BY <1>1, <2>3, <2>4, <2>5, AppendProperties
  <2> QED
    BY <1>1, <2>6 DEF SurplusInv
<1>4. ASSUME NEW i \in Pairing, Exchange(i)
      PROVE  SurplusInv'
  BY <1>1, <1>4, SurplusShrinks DEF Exchange, SurplusInv
<1>5. ASSUME NEW i \in Pairing, NEW d \in Decision, Decide(i, d)
      PROVE  SurplusInv'
  <2>1. /\ request[i].status = "pending" /\ records' = Kept
        /\ request' = [request EXCEPT ![i].status = d]
    BY <1>5 DEF Decide
  <2>2. \A k \in Pairing : k # i => request'[k] = request[k]
    BY <1>1, <2>1 DEF MapsInv
  <2>3. ASSUME NEW n \in DOMAIN Kept, n > MaxEntries
        PROVE  request'[Kept[n]].status = "approved"
    <3>1. Kept[n] \in Pairing /\ request[Kept[n]].status = "approved"
      BY <1>1, <1>2, <2>3
    <3> QED
      BY <2>1, <2>2, <3>1
  <2> QED
    BY <2>1, <2>3 DEF SurplusInv
<1>6. ASSUME NEW c \in Cred, Restore(c)
      PROVE  SurplusInv'
  <2>1. PICK i \in Pairing, m \in Serial : c = <<i, m>>
    BY DEF Cred
  <2>2. /\ records' = Kept \/ records' = Append(Kept, i)
        /\ request' = request /\ at[<<"issue", <<i, m>>>>] = "failed"
    BY <1>6, <2>1 DEF Restore
  <2>3. request[i].status = "approved"
    <3>1. m \in Issuing(i)
      BY <2>2 DEF Issuing, Unissued
    <3> QED
      BY <3>1 DEF ApprovalInv, Once
  <2>4. CASE records' = Kept
    BY <1>2, <2>2, <2>4 DEF SurplusInv
  <2>5. CASE records' = Append(Kept, i)
    <3>1. \A n \in DOMAIN records' : records'[n] = i \/ (n \in DOMAIN Kept /\ records'[n] = Kept[n])
      BY <1>1, <2>5, AppendProperties
    <3> QED
      BY <1>2, <2>2, <2>3, <3>1 DEF SurplusInv
  <2> QED
    BY <2>2, <2>4, <2>5
<1>7. CASE Look
  BY <1>2, <1>7 DEF Look, SurplusInv
<1>8. CASE Restart
  BY <1>8 DEF Restart, SurplusInv
<1>9. CASE \/ \E c \in Cred : Use(c) \/ Revoke(c)
           \/ \E j \in ToSet(queue) : Load(j) \/ Commit(j) \/ Skip(j) \/ Fail(j)
           \/ Elapse \/ UNCHANGED vars
  <2>1. UNCHANGED <<records, request>>
    BY <1>9 DEF Use, Revoke, Load, Commit, Skip, Fail, Elapse, pairingVars, vars
  <2> QED
    BY <2>1 DEF SurplusInv
<1> QED
  BY <1>3, <1>4, <1>5, <1>6, <1>7, <1>8, <1>9 DEF Next

(* What stands beyond the limit of the live map was given back: a new request  *)
(* always makes room for itself.  The map of ended ones is within the limit,   *)
(* and no id is twice in a map or in both.                                     *)
THEOREM SpecMapsBounded == Spec => []MapsBounded
<1>1. ApprovalInv /\ SurplusInv => MapsBounded
  BY BoundsFollow DEF ApprovalInv
<1>2. Init => SurplusInv
  BY DEF Init, SurplusInv
<1>3. ApprovalInv /\ SurplusInv /\ [Next]_vars => SurplusInv'
  BY SurplusStep
<1> QED
  BY ApprovalAlways, <1>1, <1>2, <1>3, PTL DEF Spec

-----------------------------------------------------------------------------
(* An operation is in progress exactly while it stands in the queue, once: so  *)
(* the queue neither forgets one nor lets it run twice.                        *)
QueueInv ==
    /\ clock \in 0 .. MaxTime /\ faults \in 0 .. MaxFaults
    /\ \A m, n \in DOMAIN queue : queue[m] = queue[n] => m = n
    /\ \A j \in Job : at[j] \in {"queued", "running"} <=> Contains(queue, j)

LEMMA EnqueueQueues ==
  ASSUME StoreInv, QueueInv, NEW j \in Job, Enqueue(j), UNCHANGED <<clock, faults>>
  PROVE  QueueInv'
<1>1. /\ queue \in Seq(Job) /\ queue' = Append(queue, j) /\ Len(queue) \in Nat
      /\ at' = [at EXCEPT ![j] = "queued"] /\ at[j] = "idle"
      /\ at \in [Job -> {"idle", "queued", "running", "failed"}]
  BY DEF Enqueue, StoreInv, StoreTypeOK
<1>2. ~Contains(queue, j)
  BY <1>1 DEF QueueInv
<1>3. /\ DOMAIN queue = 1 .. Len(queue) /\ DOMAIN queue' = 1 .. (Len(queue) + 1)
      /\ \A n \in 1 .. Len(queue) : queue'[n] = queue[n] /\ queue[n] # j
      /\ queue'[Len(queue) + 1] = j
  BY <1>1, <1>2, AppendProperties DEF Contains
<1>4. \A m, n \in DOMAIN queue' : queue'[m] = queue'[n] => m = n
  BY <1>1, <1>3 DEF QueueInv
<1>5. \A k \in Job : Contains(queue', k) <=> (Contains(queue, k) \/ k = j)
  BY <1>1, <1>3 DEF Contains
<1>6. \A k \in Job : at'[k] = IF k = j THEN "queued" ELSE at[k]
  BY <1>1
<1> QED
  BY <1>4, <1>5, <1>6 DEF QueueInv

LEMMA LeaveDequeues ==
  ASSUME StoreInv, QueueInv, NEW j \in Job, NEW result \in {"idle", "failed"},
         queue # <<>>, j = Head(queue), Leave(j, result),
         UNCHANGED clock, faults' \in 0 .. MaxFaults
  PROVE  QueueInv'
<1>1. /\ queue \in Seq(Job) /\ queue' = Tail(queue) /\ Len(queue) \in Nat \ {0}
      /\ at' = [at EXCEPT ![j] = result]
      /\ at \in [Job -> {"idle", "queued", "running", "failed"}]
  BY DEF Leave, StoreInv, StoreTypeOK
<1>2. /\ DOMAIN queue = 1 .. Len(queue) /\ DOMAIN queue' = 1 .. (Len(queue) - 1)
      /\ \A n \in 1 .. (Len(queue) - 1) : queue'[n] = queue[n + 1]
      /\ queue[1] = j
  BY <1>1, HeadTailProperties
<1>3. \A m, n \in DOMAIN queue' : queue'[m] = queue'[n] => m = n
  <2> SUFFICES ASSUME NEW m \in DOMAIN queue', NEW n \in DOMAIN queue', queue'[m] = queue'[n]
               PROVE  m = n
    OBVIOUS
  <2>1. m + 1 \in DOMAIN queue /\ n + 1 \in DOMAIN queue /\ queue[m + 1] = queue[n + 1]
    BY <1>1, <1>2
  <2>2. m + 1 = n + 1
    BY <2>1 DEF QueueInv
  <2> QED
    BY <1>1, <1>2, <2>2
<1>4. ASSUME NEW k \in Job
      PROVE  Contains(queue', k) <=> (Contains(queue, k) /\ k # j)
  <2>1. ASSUME NEW n \in DOMAIN queue', queue'[n] = k
        PROVE  Contains(queue, k) /\ k # j
    <3>1. n + 1 \in DOMAIN queue /\ queue[n + 1] = k /\ 1 \in DOMAIN queue /\ n + 1 # 1
      BY <1>1, <1>2, <2>1
    <3> QED
      BY <1>2, <3>1 DEF QueueInv, Contains
  <2>2. ASSUME NEW n \in DOMAIN queue, queue[n] = k, k # j
        PROVE  Contains(queue', k)
    <3>1. n # 1 /\ n - 1 \in DOMAIN queue' /\ queue'[n - 1] = k
      BY <1>1, <1>2, <2>2
    <3> QED
      BY <3>1 DEF Contains
  <2> QED
    BY <2>1, <2>2 DEF Contains
<1>5. \A k \in Job : at'[k] = IF k = j THEN result ELSE at[k]
  BY <1>1
<1> QED
  BY <1>3, <1>4, <1>5 DEF QueueInv

LEMMA LoadStays ==
  ASSUME StoreInv, QueueInv, NEW j \in Job, Load(j)
  PROVE  QueueInv'
<1>1. /\ at[j] = "queued" /\ at' = [at EXCEPT ![j] = "running"]
      /\ UNCHANGED <<clock, queue, faults>>
  BY DEF Load
<1>2. \A k \in Job : at'[k] = IF k = j THEN "running" ELSE at[k]
  BY <1>1 DEF StoreInv, StoreTypeOK
<1> QED
  BY <1>1, <1>2 DEF QueueInv

LEMMA OperationQueue ==
  ASSUME StoreInv, QueueInv, NEW j \in Job, Commit(j) \/ Skip(j) \/ Fail(j)
  PROVE  QueueInv'
<1>1. \E result \in {"idle", "failed"} : Leave(j, result)
  BY DEF Commit, Skip, Fail, Failed
<1>2. queue # <<>> /\ j = Head(queue)
  BY DEF Commit, Skip, Fail, StoreInv
<1>3. UNCHANGED clock
  BY DEF Commit, Skip, Fail
<1>4. faults' \in 0 .. MaxFaults
  BY PairingAssumption DEF Commit, Skip, Fail, QueueInv
<1> QED
  BY <1>1, <1>2, <1>3, <1>4, LeaveDequeues

LEMMA RestoreQueue ==
  ASSUME StoreInv, QueueInv, NEW c \in Cred, Restore(c)
  PROVE  QueueInv'
<1>1. /\ <<"issue", c>> \in Job /\ at[<<"issue", c>>] = "failed"
      /\ at' = [at EXCEPT ![<<"issue", c>>] = "idle"]
      /\ UNCHANGED <<clock, queue, faults>>
  BY DEF Restore, Job
<1>2. \A k \in Job : at'[k] = IF k = <<"issue", c>> THEN "idle" ELSE at[k]
  BY <1>1 DEF StoreInv, StoreTypeOK
<1> QED
  BY <1>1, <1>2 DEF QueueInv

LEMMA ExchangeQueue ==
  ASSUME StoreInv, QueueInv, NEW i \in Pairing, Exchange(i)
  PROVE  QueueInv'
<1> DEFINE c == Fresh(i)
<1>1. <<"issue", c>> \in Job
  BY DEF Exchange, Fresh, Cred, Job
<1>2. Enqueue(<<"issue", c>>) /\ UNCHANGED <<clock, faults>>
  BY DEF Exchange
<1> HIDE DEF c
<1> QED
  BY <1>1, <1>2, EnqueueQueues

LEMMA RestartQueue ==
  ASSUME QueueInv, Restart
  PROVE  QueueInv'
<1>1. /\ queue' = <<>> /\ at' = [j \in Job |-> "idle"]
      /\ UNCHANGED clock /\ faults' = faults + 1 /\ faults < MaxFaults
  BY DEF Restart
<1>2. faults' \in 0 .. MaxFaults
  BY <1>1, PairingAssumption DEF QueueInv
<1> QED
  BY <1>1, <1>2 DEF QueueInv, Contains

LEMMA QueueStep ==
  ASSUME StoreInv, QueueInv, [Next]_vars
  PROVE  QueueInv'
<1>1. CASE Create \/ Look \/ (\E i \in Pairing, d \in Decision : Decide(i, d)) \/ UNCHANGED vars
  BY <1>1 DEF Create, Look, Decide, QueueInv, vars, storeVars
<1>2. CASE \E i \in Pairing : Exchange(i)
  BY <1>2, ExchangeQueue
<1>3. CASE \E c \in Cred : Restore(c) \/ Use(c) \/ Revoke(c)
  <2>1. PICK c \in Cred : Restore(c) \/ Use(c) \/ Revoke(c)
    BY <1>3
  <2>2. <<"use", c>> \in Job /\ <<"revoke", c>> \in Job
    BY DEF Job
  <2> QED
    BY <2>1, <2>2, RestoreQueue, EnqueueQueues DEF Use, Revoke
<1>4. CASE \E j \in ToSet(queue) : Load(j) \/ Commit(j) \/ Skip(j) \/ Fail(j)
  <2>1. ToSet(queue) \subseteq Job
    BY DEF StoreInv, StoreTypeOK, ToSet
  <2> QED
    BY <1>4, <2>1, LoadStays, OperationQueue
<1>5. CASE Restart
  BY <1>5, RestartQueue
<1>6. CASE Elapse
  <2>1. clock' \in 0 .. MaxTime
    BY <1>6, PairingAssumption DEF Elapse, QueueInv
  <2> QED
    BY <1>6, <2>1 DEF Elapse, QueueInv, storeVars
<1> QED
  BY <1>1, <1>2, <1>3, <1>4, <1>5, <1>6 DEF Next

(* The variables keep their types, and an operation on the credentials is in   *)
(* progress exactly while it stands in the queue.                              *)
THEOREM SpecTypeOK == Spec => []TypeOK
<1>1. Init => QueueInv
  BY PairingAssumption DEF Init, QueueInv, Contains
<1>2. StoreInv /\ QueueInv /\ [Next]_vars => QueueInv'
  BY QueueStep
<1>3. ApprovalInv => StoreInv
  BY DEF ApprovalInv
<1>4. ApprovalInv /\ QueueInv => TypeOK
  BY DEF ApprovalInv, StoreInv, StoreTypeOK, MapsInv, AreMaps, QueueInv, Created, TypeOK
<1> QED
  BY <1>1, <1>2, <1>3, <1>4, ApprovalAlways, PTL DEF Spec
=============================================================================

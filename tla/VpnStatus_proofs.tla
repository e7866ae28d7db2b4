--------------------------- MODULE VpnStatus_proofs ---------------------------
(***************************************************************************)
(* The log stays ordered although threads enter their items late, and the  *)
(* history of byte counts thins out with age without losing a period.      *)
(*                                                                         *)
(* The lists are filtered and searched by recursion and by CHOOSE; what    *)
(* these give follows from the least number that would be an exception.    *)
(***************************************************************************)
EXTENDS VpnStatus, FiniteSetTheorems, TLAPS

-----------------------------------------------------------------------------
(* Lists filtered by recursion.                                            *)

(* A set of numbers that is not empty has a least one: there is no endless *)
(* chain of smaller and smaller finite sets.                               *)
LEMMA LeastNat ==
  ASSUME NEW S \in SUBSET Nat, S # {}
  PROVE  \E n \in S : \A m \in S : n <= m
<1> DEFINE R == StrictSubsetOrdering(Nat)
           F == FiniteSubsetsOf(Nat)
           T == {0 .. n : n \in S}
<1>1. IsWellFoundedOn(R, F)
  BY FS_StrictSubsetOrderingWellFounded
<1>2. T \subseteq F /\ T # {}
  <2>1. ASSUME NEW n \in S PROVE 0 .. n \in F
    <3>1. IsFiniteSet(0 .. n)
      BY FS_Interval
    <3> QED BY <3>1 DEF FiniteSubsetsOf
  <2>2. T # {}
    OBVIOUS
  <2> HIDE DEF F
  <2> QED BY <2>1, <2>2
<1> HIDE DEF R, F, T
<1>3. PICK x \in T : \A y \in T : ~ (<<y, x>> \in R)
  BY <1>1, <1>2, WFMin
<1>4. PICK n \in S : x = 0 .. n
  BY <1>3 DEF T
<1>5. ASSUME NEW m \in S, m < n PROVE FALSE
  <2>1. 0 .. m \in T
    BY DEF T
  <2>2. /\ 0 .. m \in SUBSET Nat /\ 0 .. n \in SUBSET Nat
        /\ 0 .. m \subseteq 0 .. n /\ n \in 0 .. n /\ n \notin 0 .. m
    BY <1>5
  <2>3. <<0 .. m, 0 .. n>> \in R
    BY <2>2 DEF R, StrictSubsetOrdering
  <2> QED BY <2>1, <2>3, <1>3, <1>4
<1> QED BY <1>5

(* The list before, and the element s[i] if i is one to keep.              *)
Picked(before, s, i, keep) ==
    IF i \in keep THEN Append(before, s[i]) ELSE before

(* f[i] is what is kept of the first i elements: the recursion of Recent.  *)
Filtering(f, s, keep) ==
    f = [i \in 0 .. Len(s) |->
           IF i = 0 THEN << >> ELSE Picked(f[i - 1], s, i, keep)]

(* The recursion defines a function: of the least length for which it does *)
(* not, the function for one less could be extended.                       *)
LEMMA FilterExists ==
  ASSUME NEW D, NEW s \in Seq(D), NEW keep
  PROVE  \E f : Filtering(f, s, keep)
<1> DEFINE Upto(n, f) ==
              f = [i \in 0 .. n |->
                     IF i = 0 THEN << >> ELSE Picked(f[i - 1], s, i, keep)]
           Bad == {n \in Nat : ~ \E f : Upto(n, f)}
<1>1. 0 \notin Bad
  <2>1. Upto(0, [i \in 0 .. 0 |-> << >>])
    OBVIOUS
  <2> QED BY <2>1
<1>2. ASSUME NEW n \in Nat, n + 1 \in Bad
      PROVE  n \in Bad
  <2>1. ASSUME NEW f, Upto(n, f)
        PROVE  FALSE
    <3> DEFINE g == [i \in 0 .. n + 1 |->
                       IF i <= n THEN f[i] ELSE Picked(f[n], s, i, keep)]
    <3>1. \A i \in 0 .. n + 1 :
            g[i] = IF i = 0 THEN << >> ELSE Picked(g[i - 1], s, i, keep)
      BY <2>1
    <3>2. g = [i \in 0 .. n + 1 |-> g[i]]
      OBVIOUS
    <3>3. Upto(n + 1, g)
      <4> HIDE DEF g
      <4> QED BY <3>1, <3>2
    <3> HIDE DEF Upto
    <3> QED BY <3>3, <1>2
  <2> HIDE DEF Upto
  <2> QED BY <2>1
<1>3. Bad = {}
  <2> HIDE DEF Bad
  <2>1. SUFFICES ASSUME Bad # {}
                 PROVE  FALSE
    OBVIOUS
  <2>2. Bad \in SUBSET Nat
    BY DEF Bad
  <2>3. PICK n \in Bad : \A m \in Bad : n <= m
    BY <2>1, <2>2, LeastNat
  <2>4. n \in Nat \ {0} /\ n - 1 \in Nat /\ (n - 1) + 1 = n
    BY <2>2, <2>3, <1>1
  <2>5. n - 1 \in Bad
    BY <2>3, <2>4, <1>2
  <2> QED BY <2>3, <2>4, <2>5
<1>4. PICK f : Upto(Len(s), f)
  BY <1>3
<1> QED BY <1>4 DEF Filtering

(* The elements of r are those of s at the positions ys, in their order.   *)
Selects(r, s, ys, at) ==
    /\ at \in [DOMAIN r -> ys]
    /\ \A k \in DOMAIN r : r[k] = s[at[k]]
    /\ \A k, l \in DOMAIN r : k < l => at[k] < at[l]
    /\ \A i \in ys : \E k \in DOMAIN r : at[k] = i

(* Filtering a list gives the elements at the positions kept.              *)
LEMMA FilterPicks ==
  ASSUME NEW D, NEW s \in Seq(D), NEW keep, NEW f, Filtering(f, s, keep)
  PROVE  /\ f[Len(s)] \in Seq(D)
         /\ \E at : Selects(f[Len(s)], s, keep \cap DOMAIN s, at)
<1> DEFINE Good(n) ==
             /\ f[n] \in Seq(D)
             /\ \E at : Selects(f[n], s, keep \cap (1 .. n), at)
           Bad == {n \in 0 .. Len(s) : ~ Good(n)}
<1>1. f[0] = << >> /\ \A n \in 1 .. Len(s) :
                        f[n] = Picked(f[n - 1], s, n, keep)
  BY DEF Filtering
<1>2. Good(0)
  <2>1. DOMAIN f[0] = {} /\ f[0] \in Seq(D) /\ keep \cap (1 .. 0) = {}
    BY <1>1
  <2> DEFINE none == [k \in {} |-> 0]
  <2>2. none \in [{} -> {}]
    OBVIOUS
  <2>3. Selects(f[0], s, keep \cap (1 .. 0), none)
    BY <2>1, <2>2 DEF Selects
  <2> QED BY <2>1, <2>3
<1>3. ASSUME NEW n \in 1 .. Len(s), Good(n - 1)
      PROVE  Good(n)
  <2>1. PICK at : Selects(f[n - 1], s, keep \cap (1 .. n - 1), at)
    BY <1>3
  <2>2. f[n - 1] \in Seq(D) /\ s[n] \in D
    BY <1>3
  <2>3. CASE n \notin keep
    <3>1. f[n] = f[n - 1] /\ keep \cap (1 .. n) = keep \cap (1 .. n - 1)
      BY <2>3, <1>1 DEF Picked
    <3> QED BY <2>1, <2>2, <3>1
  <2>4. CASE n \in keep
    <3> DEFINE m == Len(f[n - 1])
               to == [k \in 1 .. m + 1 |-> IF k = m + 1 THEN n ELSE at[k]]
    <3>1. f[n] = Append(f[n - 1], s[n])
      BY <2>4, <1>1 DEF Picked
    <3>2. /\ f[n] \in Seq(D) /\ DOMAIN f[n] = 1 .. m + 1 /\ m \in Nat
          /\ DOMAIN f[n - 1] = 1 .. m
          /\ f[n][m + 1] = s[n] /\ \A k \in 1 .. m : f[n][k] = f[n - 1][k]
      BY <2>2, <3>1
    <3>3. to \in [1 .. m + 1 -> keep \cap (1 .. n)]
      BY <2>1, <2>4, <3>2 DEF Selects
    <3>4. \A k \in 1 .. m + 1 : f[n][k] = s[to[k]]
      <4>1. \A k \in 1 .. m : f[n][k] = s[at[k]] /\ k # m + 1
        <5>1. DOMAIN f[n - 1] = 1 .. m
          BY <3>2
        <5>2. \A k \in 1 .. m : f[n - 1][k] = s[at[k]]
          BY <5>1, <2>1, Zenon DEF Selects
        <5>3. \A k \in 1 .. m : f[n][k] = f[n - 1][k] /\ k # m + 1
          BY <3>2
        <5> HIDE DEF m
        <5> QED BY <5>2, <5>3
      <4>2. \A k \in 1 .. m + 1 : k = m + 1 \/ k \in 1 .. m
        BY <3>2
      <4> HIDE DEF m
      <4> QED BY <3>2, <4>1, <4>2, Zenon
    <3>5. \A k, l \in 1 .. m + 1 : k < l => to[k] < to[l]
      <4>1. \A k \in 1 .. m : at[k] \in 1 .. n - 1
        <5> HIDE DEF m
        <5> QED BY <2>1, <3>2 DEF Selects
      <4>2. \A k, l \in 1 .. m : k < l => at[k] < at[l]
        BY <2>1, <3>2 DEF Selects
      <4>3. n \in Nat /\ m \in Nat
        BY <3>2
      <4> HIDE DEF m
      <4>4. ASSUME NEW k \in 1 .. m + 1, NEW l \in 1 .. m + 1, k < l
            PROVE  to[k] < to[l]
        <5>1. k \in 1 .. m /\ k # m + 1 /\ to[k] = at[k]
          BY <4>3, <4>4
        <5>2. CASE l = m + 1
          BY <5>1, <5>2, <4>1, <4>3
        <5>3. CASE l # m + 1
          <6>1. l \in 1 .. m /\ to[l] = at[l]
            BY <5>3, <4>3
          <6> QED BY <5>1, <6>1, <4>2, <4>4
        <5> QED BY <5>2, <5>3
      <4> QED BY <4>4
    <3>6. \A i \in keep \cap (1 .. n) : \E k \in 1 .. m + 1 : to[k] = i
      <4>1. ASSUME NEW i \in keep \cap (1 .. n), i # n
            PROVE  \E k \in 1 .. m + 1 : to[k] = i
        <5>1. PICK k \in 1 .. m : at[k] = i
          <6>1. i \in keep \cap (1 .. n - 1)
            BY <4>1
          <6> QED BY <6>1, <2>1, <3>2 DEF Selects
        <5>2. k \in 1 .. m + 1 /\ k # m + 1
          BY <3>2
        <5> HIDE DEF m
        <5> QED BY <5>1, <5>2
      <4>2. to[m + 1] = n
        BY <3>2
      <4>3. m + 1 \in 1 .. m + 1
        BY <3>2
      <4> HIDE DEF m, to
      <4> QED BY <4>1, <4>2, <4>3
    <3>7. DOMAIN f[n] = 1 .. m + 1 /\ f[n] \in Seq(D)
      BY <3>2
    <3> HIDE DEF to, m
    <3>8. Selects(f[n], s, keep \cap (1 .. n), to)
      BY <3>3, <3>4, <3>5, <3>6, <3>7 DEF Selects
    <3> QED BY <3>7, <3>8
  <2> HIDE DEF Good
  <2> QED BY <2>3, <2>4
<1> HIDE DEF Good
<1>4. Bad = {}
  <2> HIDE DEF Bad
  <2>1. SUFFICES ASSUME Bad # {}
                 PROVE  FALSE
    OBVIOUS
  <2>2. Bad \in SUBSET Nat /\ Bad \subseteq 0 .. Len(s)
    BY DEF Bad
  <2>3. PICK n \in Bad : \A m \in Bad : n <= m
    BY <2>1, <2>2, LeastNat
  <2>4. n \in 1 .. Len(s) /\ n - 1 \in 0 .. Len(s) /\ n - 1 < n
    BY <2>2, <2>3, <1>2 DEF Bad
  <2>5. n - 1 \notin Bad
    BY <2>2, <2>3, <2>4
  <2> QED BY <2>3, <2>4, <2>5, <1>3 DEF Bad
<1>5. Len(s) \in 0 .. Len(s) /\ DOMAIN s = 1 .. Len(s)
  OBVIOUS
<1> QED BY <1>4, <1>5 DEF Good

(* What removeAndAverage keeps of a level.                                 *)
Young(point, period) == (clock - point.time) \div period < PeriodsToKeep

(* Recent gives the young points, in their order.                          *)
LEMMA RecentSelects ==
  ASSUME NEW points \in Seq(Points), NEW period
  PROVE  /\ Recent(points, period) \in Seq(Points)
         /\ \E at : Selects(Recent(points, period), points,
                            {i \in DOMAIN points : Young(points[i], period)}, at)
<1> DEFINE keep == {i \in DOMAIN points : Young(points[i], period)}
           Kept(f) == f = [i \in 0 .. Len(points) |->
                             IF i = 0 THEN << >>
                             ELSE IF (clock - points[i].time) \div period < PeriodsToKeep
                                  THEN Append(f[i - 1], points[i])
                                  ELSE f[i - 1]]
           kept == CHOOSE f : Kept(f)
<1>1. ASSUME NEW f
      PROVE  Kept(f) <=> Filtering(f, points, keep)
  <2>1. \A i \in 0 .. Len(points) : i # 0 =>
          (i \in keep <=> (clock - points[i].time) \div period < PeriodsToKeep)
    BY DEF Young
  <2> HIDE DEF keep
  <2>2. \A i \in 0 .. Len(points) :
          (IF i = 0 THEN << >>
           ELSE IF (clock - points[i].time) \div period < PeriodsToKeep
                THEN Append(f[i - 1], points[i])
                ELSE f[i - 1])
        = IF i = 0 THEN << >> ELSE Picked(f[i - 1], points, i, keep)
    BY <2>1, Zenon DEF Picked
  <2>3. [i \in 0 .. Len(points) |->
           IF i = 0 THEN << >>
           ELSE IF (clock - points[i].time) \div period < PeriodsToKeep
                THEN Append(f[i - 1], points[i])
                ELSE f[i - 1]]
        = [i \in 0 .. Len(points) |->
             IF i = 0 THEN << >> ELSE Picked(f[i - 1], points, i, keep)]
    BY <2>2, Zenon
  <2> QED BY <2>3, Zenon DEF Filtering
<1>2. \E f : Kept(f)
  BY <1>1, FilterExists, Zenon
<1>3. Kept(kept)
  <2> HIDE DEF Kept
  <2> QED BY <1>2, Zenon
<1>4. Recent(points, period) = kept[Len(points)]
  BY Zenon DEF Recent
<1>5. Filtering(kept, points, keep)
  BY <1>1, <1>3, Zenon
<1>6. keep \cap DOMAIN points = keep
  OBVIOUS
<1> HIDE DEF kept, keep, Kept
<1>7. /\ kept[Len(points)] \in Seq(Points)
      /\ \E at : Selects(kept[Len(points)], points, keep, at)
  BY <1>5, <1>6, FilterPicks, Zenon
<1> QED BY <1>4, <1>7, Zenon DEF keep

(* What is used of it: which points are left, that their order is kept,    *)
(* and that a young last point is the last again.                          *)
LEMMA RecentPoints ==
  ASSUME NEW points \in Seq(Points), NEW period
  PROVE  LET recent == Recent(points, period)
         IN  /\ recent \in Seq(Points)
             /\ \A p : p \in ToSet(recent) <=> p \in ToSet(points) /\ Young(p, period)
             /\ \A i, j \in DOMAIN recent : i < j =>
                  \E k, l \in DOMAIN points :
                    k < l /\ recent[i] = points[k] /\ recent[j] = points[l]
             /\ points # << >> /\ Young(points[Len(points)], period) =>
                  recent # << >> /\ recent[Len(recent)] = points[Len(points)]
<1> DEFINE recent == Recent(points, period)
           keep == {i \in DOMAIN points : Young(points[i], period)}
<1>1. PICK at : Selects(recent, points, keep, at)
  BY RecentSelects, Zenon
<1>2. recent \in Seq(Points)
  BY RecentSelects, Zenon
<1>3. /\ \A k \in DOMAIN recent : at[k] \in keep /\ recent[k] = points[at[k]]
      /\ \A k, l \in DOMAIN recent : k < l => at[k] < at[l]
      /\ \A i \in keep : \E k \in DOMAIN recent : at[k] = i
  <2> HIDE DEF recent, keep
  <2> QED BY <1>1 DEF Selects
<1> HIDE DEF recent
<1>4. ASSUME NEW p
      PROVE  p \in ToSet(recent) <=> p \in ToSet(points) /\ Young(p, period)
  <2>1. p \in ToSet(recent) => p \in ToSet(points) /\ Young(p, period)
    BY <1>3, Zenon DEF ToSet
  <2>2. ASSUME p \in ToSet(points), Young(p, period)
        PROVE  p \in ToSet(recent)
    <3>1. PICK i \in DOMAIN points : p = points[i]
      BY <2>2, Zenon DEF ToSet
    <3>2. i \in keep
      BY <2>2, <3>1, Zenon
    <3>3. PICK k \in DOMAIN recent : at[k] = i
      BY <1>3, <3>2
    <3>4. recent[k] = p
      BY <1>3, <3>1, <3>3
    <3> QED BY <3>4, Zenon DEF ToSet
  <2> QED BY <2>1, <2>2
<1>5. ASSUME NEW i \in DOMAIN recent, NEW j \in DOMAIN recent, i < j
      PROVE  \E k, l \in DOMAIN points :
               k < l /\ recent[i] = points[k] /\ recent[j] = points[l]
  BY <1>3, <1>5
<1>6. ASSUME points # << >>, Young(points[Len(points)], period)
      PROVE  recent # << >> /\ recent[Len(recent)] = points[Len(points)]
  <2>1. /\ Len(points) \in DOMAIN points /\ DOMAIN recent = 1 .. Len(recent)
        /\ Len(recent) \in Nat /\ DOMAIN points = 1 .. Len(points)
        /\ Len(points) \in Nat
    BY <1>2, <1>6
  <2>2. PICK k \in DOMAIN recent : at[k] = Len(points)
    BY <1>3, <1>6, <2>1
  <2>3. CASE k = Len(recent)
    BY <2>1, <2>2, <2>3, <1>3
  <2>4. CASE k # Len(recent)
    <3>1. k \in 1 .. Len(recent) /\ k < Len(recent) /\ Len(recent) \in DOMAIN recent
      BY <2>1, <2>4
    <3>2. at[k] < at[Len(recent)] /\ at[Len(recent)] \in DOMAIN points
      BY <3>1, <1>3
    <3> QED BY <3>2, <2>1, <2>2
  <2> QED BY <2>3, <2>4
<1> HIDE DEF keep
<1> QED BY <1>2, <1>4, <1>5, <1>6 DEF recent

-----------------------------------------------------------------------------
(* The log.                                                                *)

(* No item has a later one before it.                                      *)
Ordered(s) == \A i, j \in DOMAIN s : i < j => s[i] <= s[j]

(* InsertAt by position.                                                   *)
LEMMA Inserted ==
  ASSUME NEW S, NEW s \in Seq(S), NEW k \in 1 .. Len(s), NEW e \in S
  PROVE  InsertAt(s, k, e)
         = [i \in 1 .. Len(s) + 1 |-> IF i < k THEN s[i]
                                     ELSE IF i = k THEN e ELSE s[i - 1]]
BY DEF InsertAt

(* insertLogItemByLogTime puts the item behind all that are not later and  *)
(* in front of all that are.                                               *)
LEMMA InsertKeepsOrder ==
  ASSUME logbuffer \in Seq(Times), Ordered(logbuffer), NEW time \in Times
  PROVE  LET new == InsertLogItemByLogTime(time)
         IN  new \in Seq(Times) /\ Ordered(new) /\ Len(new) = Len(logbuffer) + 1
<1> DEFINE n == Len(logbuffer)
           new == InsertLogItemByLogTime(time)
<1>1. /\ n \in Nat /\ DOMAIN logbuffer = 1 .. n /\ time \in Int
      /\ \A i \in 1 .. n : logbuffer[i] \in Times /\ logbuffer[i] \in Int
  BY BoundsAssumption DEF Times
<1>2. CASE logbuffer = << >> \/ Last(logbuffer) <= time
  <2>1. new = Append(logbuffer, time)
    BY <1>2, Zenon DEF InsertLogItemByLogTime
  <2>2. /\ new \in Seq(Times) /\ Len(new) = n + 1 /\ DOMAIN new = 1 .. n + 1
        /\ new[n + 1] = time /\ \A i \in 1 .. n : new[i] = logbuffer[i]
    BY <2>1
  <2>3. \A i \in 1 .. n : logbuffer[i] <= time
    <3>1. CASE n = 0
      BY <3>1
    <3>2. CASE n # 0
      <4>1. logbuffer[n] <= time
        BY <1>2, <3>2 DEF Last
      <4> HIDE DEF n
      <4> QED BY <4>1, <1>1 DEF Ordered
    <3> QED BY <3>1, <3>2
  <2> HIDE DEF n, new
  <2>4. ASSUME NEW i \in 1 .. n + 1, NEW j \in 1 .. n + 1, i < j
        PROVE  new[i] <= new[j]
    <3>1. i \in 1 .. n
      BY <2>4, <1>1
    <3>2. CASE j = n + 1
      BY <3>1, <3>2, <2>2, <2>3
    <3>3. CASE j # n + 1
      <4>1. j \in 1 .. n
        BY <3>3, <1>1
      <4> QED BY <3>1, <4>1, <2>2, <2>4, <1>1 DEF Ordered
    <3> QED BY <3>2, <3>3
  <2> QED BY <2>2, <2>4 DEF n, new, Ordered
<1>3. CASE ~(logbuffer = << >> \/ Last(logbuffer) <= time)
  <2> DEFINE later == {i \in DOMAIN logbuffer : logbuffer[i] > time}
             First(i) == /\ logbuffer[i] > time
                         /\ \A j \in DOMAIN logbuffer : logbuffer[j] > time => i <= j
             at == CHOOSE i \in DOMAIN logbuffer : First(i)
  <2>1. n \in later
    <3>1. n \in DOMAIN logbuffer
      BY <1>3, <1>1
    <3>2. ~(logbuffer[n] <= time)
      BY <1>3, Zenon DEF Last
    <3> HIDE DEF n
    <3> QED BY <3>1, <3>2, <1>1
  <2>2. later \in SUBSET Nat
    BY <1>1
  <2>3. \E i \in later : \A j \in later : i <= j
    <3> HIDE DEF later
    <3> QED BY <2>1, <2>2, LeastNat
  <2>4. at \in DOMAIN logbuffer /\ First(at)
    <3>1. \E i \in DOMAIN logbuffer : First(i)
      BY <2>3
    <3> HIDE DEF First
    <3> QED BY <3>1, Zenon
  <2>5. new = InsertAt(logbuffer, at, time)
    BY <1>3, Zenon DEF InsertLogItemByLogTime
  <2> HIDE DEF at
  <2>6. at \in 1 .. n /\ \A j \in 1 .. at - 1 : logbuffer[j] <= time
    BY <2>4, <1>1
  <2>7. logbuffer[at] > time
    BY <2>4
  <2>8. /\ new \in Seq(Times) /\ Len(new) = n + 1 /\ DOMAIN new = 1 .. n + 1
        /\ new[at] = time
        /\ \A i \in 1 .. at - 1 : new[i] = logbuffer[i]
        /\ \A i \in at + 1 .. n + 1 : new[i] = logbuffer[i - 1]
    <3> DEFINE t == [i \in 1 .. n + 1 |-> IF i < at THEN logbuffer[i]
                                          ELSE IF i = at THEN time ELSE logbuffer[i - 1]]
    <3>1. new = t
      BY <2>5, <2>6, Inserted
    <3>2. \A i \in 1 .. n + 1 : t[i] \in Times
      BY <2>6, <1>1
    <3>3. t \in Seq(Times) /\ Len(t) = n + 1 /\ DOMAIN t = 1 .. n + 1
      BY <3>2, <1>1
    <3> QED BY <3>1, <3>3, <2>6, <1>1
  <2> HIDE DEF n, new, First
  <2>9. ASSUME NEW i \in 1 .. n + 1, NEW j \in 1 .. n + 1, i < j
        PROVE  new[i] <= new[j]
    <3>1. \A k, l \in 1 .. n : k < l => logbuffer[k] <= logbuffer[l]
      BY <1>1 DEF Ordered
    <3>2. \A k \in at .. n : time <= logbuffer[k]
      BY <3>1, <2>6, <2>7, <1>1
    <3>3. CASE j < at
      BY <3>3, <3>1, <2>6, <2>8, <2>9, <1>1
    <3>4. CASE j = at
      BY <3>4, <2>6, <2>8, <2>9, <1>1
    <3>5. CASE j > at /\ i < at
      <4>1. new[i] = logbuffer[i] /\ logbuffer[i] <= time
        BY <3>5, <2>6, <2>8, <2>9, <1>1
      <4>2. new[j] = logbuffer[j - 1] /\ time <= logbuffer[j - 1]
        BY <3>5, <3>2, <2>6, <2>8, <2>9, <1>1
      <4>3. i \in 1 .. n /\ j - 1 \in 1 .. n
        BY <3>5, <2>6, <2>9, <1>1
      <4> QED BY <4>1, <4>2, <4>3, <1>1
    <3>6. CASE j > at /\ i = at
      BY <3>6, <3>2, <2>6, <2>8, <2>9, <1>1
    <3>7. CASE j > at /\ i > at
      <4>1. i \in at + 1 .. n + 1 /\ j \in at + 1 .. n + 1
            /\ i - 1 \in 1 .. n /\ j - 1 \in 1 .. n /\ i - 1 < j - 1
        BY <3>7, <2>6, <2>9, <1>1
      <4> QED BY <4>1, <3>1, <2>8
    <3> QED BY <3>3, <3>4, <3>5, <3>6, <3>7, <2>6, <1>1
  <2> QED BY <2>8, <2>9 DEF n, new, Ordered
<1> QED BY <1>2, <1>3

(* A list cut down is in order and short enough.                           *)
LEMMA TrimKeepsOrder ==
  ASSUME NEW buffer \in Seq(Times), Ordered(buffer),
         Len(buffer) <= MaxLogEntries + MaxLogEntries \div 2 + 1
  PROVE  /\ Trim(buffer) \in Seq(Times) /\ Ordered(Trim(buffer))
         /\ Len(Trim(buffer)) <= MaxLogEntries + MaxLogEntries \div 2
<1> DEFINE n == Len(buffer)
           a == n - MaxLogEntries
<1>1. CASE n > MaxLogEntries + MaxLogEntries \div 2
  <2>1. /\ n \in Nat /\ MaxLogEntries \in Nat \ {0} /\ a \in Nat
        /\ DOMAIN buffer = 1 .. n
        /\ \A i \in 1 .. n : buffer[i] \in Times /\ buffer[i] \in Int
        /\ MaxLogEntries \div 2 \in Nat
    BY <1>1, MaxLogEntriesAssumption, BoundsAssumption DEF Times
  <2>2. Trim(buffer) = SubSeq(buffer, a + 1, n)
    BY <1>1 DEF Trim
  <2>3. /\ Trim(buffer) \in Seq(Times) /\ Len(Trim(buffer)) = MaxLogEntries
        /\ DOMAIN Trim(buffer) = 1 .. MaxLogEntries
        /\ \A i \in 1 .. MaxLogEntries : Trim(buffer)[i] = buffer[a + i]
    BY <2>1, <2>2
  <2> HIDE DEF n
  <2>4. ASSUME NEW i \in 1 .. MaxLogEntries, NEW j \in 1 .. MaxLogEntries, i < j
        PROVE  buffer[a + i] <= buffer[a + j]
    BY <2>1, <2>4 DEF Ordered
  <2> HIDE DEF a
  <2>5. Ordered(Trim(buffer))
    BY <2>3, <2>4 DEF Ordered
  <2> QED BY <2>1, <2>3, <2>5
<1>2. CASE ~(n > MaxLogEntries + MaxLogEntries \div 2)
  <2>1. n \in Nat /\ MaxLogEntries \in Nat /\ MaxLogEntries \div 2 \in Nat
    BY MaxLogEntriesAssumption
  <2>2. Trim(buffer) = buffer
    BY <1>2 DEF Trim
  <2> QED BY <1>2, <2>1, <2>2
<1> QED BY <1>1, <1>2
-----------------------------------------------------------------------------
(* The invariant.                                                          *)

TypeInv ==
    /\ clock \in Hour .. MaxClock /\ setBack \in BOOLEAN
    /\ logbuffer \in Seq(Times) /\ made \in Times \cup {None}
    /\ events \in 0 .. MaxEvents
    /\ total \in [Reporters -> 0 .. MaxBytes]
    /\ seconds \in Seq(Points) /\ minutes \in Seq(Points) /\ hours \in Seq(Points)
    /\ lastSecond \in Times /\ lastMinute \in Times
    /\ reporter \in Reporters \cup {None}
    /\ turns \in Nat /\ counted \in Nat

(* What was counted, against the counts of the session that reported last  *)
(* and of the one before it.                                               *)
CountInv ==
    /\ turns <= events /\ counted <= events * MaxBytes
    /\ reporter = None <=> seconds = << >>
    /\ reporter = None => counted = 0 /\ turns = 0
    /\ reporter # None => seconds[Len(seconds)].bytes = total[reporter]
    /\ turns = 0 /\ reporter # None => counted = total[reporter]
    /\ turns = 1 => \E r \in Reporters \ {reporter} :
                      counted <= total[r] + total[reporter]

(* One level: the points of list up to the time last, the last point that  *)
(* was passed on, with next the list they are passed on to.                *)
Level(list, last, next, period) ==
    /\ list = << >> => last = 0
    /\ \A p \in ToSet(list) : p.time \div period <= last \div period
    /\ \A p \in ToSet(list) : (last - p.time) \div period < PeriodsToKeep
    /\ list # << >> => \E q \in ToSet(next) : q.time = last
    /\ \A p \in ToSet(list) : \E q \in ToSet(next) :
         q.time \div period = p.time \div period

(* However the clock is set, a level holds points of periods already       *)
(* passed on, in their order.                                              *)
PeriodInv ==
    /\ seconds = << >> => lastSecond = 0
    /\ minutes = << >> => lastSecond = 0 /\ lastMinute = 0
    /\ \A p \in ToSet(minutes) : p.time \div Minute <= lastSecond \div Minute
    /\ \A p \in ToSet(hours) : p.time \div Hour <= lastMinute \div Hour
    /\ OnePointPerPeriod

LevelInv ==
    ~setBack =>
        /\ lastSecond <= clock /\ lastMinute <= clock
        /\ Level(seconds, lastSecond, minutes, Minute)
        /\ Level(minutes, lastMinute, hours, Hour)

StatusInv == TypeInv /\ LogIsOrdered /\ CountInv /\ PeriodInv /\ LevelInv

-----------------------------------------------------------------------------
(* The levels of the history.                                              *)

(* The points of list are of later and later periods.                      *)
OnePerPeriod(list, period) ==
    \A i, j \in DOMAIN list :
      i < j => list[i].time \div period < list[j].time \div period

(* The period of a time, and when it starts and ends.                      *)
LEMMA DivisionBounds ==
  ASSUME NEW d \in Nat \ {0}, NEW a \in Int
  PROVE  a \div d \in Int /\ d * (a \div d) <= a /\ a < d * (a \div d) + d
OBVIOUS

(* A later time is in no earlier period.                                   *)
LEMMA DivisionMonotone ==
  ASSUME NEW d \in Nat \ {0}, NEW a \in Int, NEW b \in Int, a <= b
  PROVE  a \div d <= b \div d
OBVIOUS

(* Less than k periods.                                                    *)
LEMMA DivisionBelow ==
  ASSUME NEW d \in Nat \ {0}, NEW a \in Int, NEW k \in Int
  PROVE  a \div d < k <=> a < d * k
OBVIOUS

(* A point more at the end of a list.                                      *)
LEMMA AppendSet ==
  ASSUME NEW list \in Seq(Points), NEW new \in Points
  PROVE  /\ Append(list, new) \in Seq(Points)
         /\ ToSet(Append(list, new)) = ToSet(list) \cup {new}
         /\ ToSet(list) \subseteq Points
         /\ Append(list, new) # << >>
         /\ Append(list, new)[Len(Append(list, new))] = new
<1>1. /\ Append(list, new) \in Seq(Points)
      /\ Len(Append(list, new)) = Len(list) + 1 /\ Len(list) \in Nat
      /\ DOMAIN Append(list, new) = 1 .. Len(list) + 1
      /\ DOMAIN list = 1 .. Len(list)
      /\ Append(list, new)[Len(list) + 1] = new
      /\ \A i \in 1 .. Len(list) : Append(list, new)[i] = list[i] /\ list[i] \in Points
  OBVIOUS
<1>2. ToSet(Append(list, new)) = ToSet(list) \cup {new}
  BY <1>1 DEF ToSet
<1>3. ToSet(list) \subseteq Points
  BY <1>1 DEF ToSet
<1>4. Append(list, new) # << >>
  BY <1>1
<1> QED BY <1>1, <1>2, <1>3, <1>4

(* A point of a new period keeps a list one point per period.              *)
LEMMA AppendPeriod ==
  ASSUME NEW list \in Seq(Points), NEW new \in Points, NEW period \in Nat \ {0},
         OnePerPeriod(list, period),
         \A p \in ToSet(list) : p.time \div period < new.time \div period
  PROVE  OnePerPeriod(Append(list, new), period)
<1>1. /\ Len(list) \in Nat
      /\ DOMAIN Append(list, new) = 1 .. Len(list) + 1
      /\ DOMAIN list = 1 .. Len(list)
      /\ Append(list, new)[Len(list) + 1] = new
      /\ \A i \in 1 .. Len(list) : Append(list, new)[i] = list[i]
  OBVIOUS
<1>2. SUFFICES ASSUME NEW i \in 1 .. Len(list) + 1, NEW j \in 1 .. Len(list) + 1, i < j
               PROVE  Append(list, new)[i].time \div period
                      < Append(list, new)[j].time \div period
  BY <1>1 DEF OnePerPeriod
<1>3. i \in 1 .. Len(list) /\ (j = Len(list) + 1 \/ j \in 1 .. Len(list))
  BY <1>1, <1>2
<1>4. list[i] \in ToSet(list)
  BY <1>1, <1>3 DEF ToSet
<1>5. CASE j = Len(list) + 1
  BY <1>1, <1>3, <1>4, <1>5
<1>6. CASE j \in 1 .. Len(list)
  BY <1>1, <1>2, <1>3, <1>6 DEF OnePerPeriod
<1> QED BY <1>3, <1>5, <1>6

(* So does forgetting points.                                              *)
LEMMA RecentPeriod ==
  ASSUME NEW list \in Seq(Points), NEW period, NEW age, OnePerPeriod(list, period)
  PROVE  OnePerPeriod(Recent(list, age), period)
<1> DEFINE recent == Recent(list, age)
<1>1. ASSUME NEW i \in DOMAIN recent, NEW j \in DOMAIN recent, i < j
      PROVE  recent[i].time \div period < recent[j].time \div period
  <2>1. PICK k \in DOMAIN list, l \in DOMAIN list :
               k < l /\ recent[i] = list[k] /\ recent[j] = list[l]
    BY <1>1, RecentPoints
  <2> HIDE DEF recent
  <2> QED BY <2>1 DEF OnePerPeriod
<1> HIDE DEF recent
<1>2. OnePerPeriod(recent, period)
  BY <1>1 DEF OnePerPeriod
<1> QED BY <1>2 DEF recent

(* A level takes a point of the period that was passed on already.         *)
LEMMA LevelStays ==
  ASSUME NEW list \in Seq(Points), NEW last \in Times, NEW next,
         NEW period \in Nat \ {0}, NEW new \in Points, new.time = clock,
         list # << >>, last <= clock, Level(list, last, next, period),
         ~NewPeriod(last, period)
  PROVE  Level(Append(list, new), last, next, period)
<1>1. last \in Int /\ clock \in Int /\ \A p \in Points : p.time \in Int
  BY BoundsAssumption DEF Points, Times
<1>2. /\ last \div period \in Int /\ clock \div period \in Int
      /\ last \div period = clock \div period
  <2>1. last \div period \in Int /\ clock \div period \in Int
    BY <1>1, DivisionBounds
  <2>2. last \div period <= clock \div period
    BY <1>1, DivisionMonotone
  <2>3. ~(clock \div period > last \div period)
    BY DEF NewPeriod
  <2> QED BY <2>1, <2>2, <2>3
<1>3. (last - new.time) \div period < PeriodsToKeep
  <2>1. last - new.time < period * PeriodsToKeep
    BY <1>1, PeriodAssumption
  <2> QED BY <1>1, <2>1, DivisionBelow, PeriodAssumption
<1>4. PICK at \in ToSet(next) : at.time = last
  BY DEF Level
<1>5. ToSet(Append(list, new)) = ToSet(list) \cup {new} /\ Append(list, new) # << >>
  BY AppendSet, Zenon
<1>6. ASSUME NEW p \in ToSet(Append(list, new))
      PROVE  /\ p.time \div period <= last \div period
             /\ (last - p.time) \div period < PeriodsToKeep
             /\ \E q \in ToSet(next) : q.time \div period = p.time \div period
  <2>1. CASE p = new
    <3>1. at.time \div period = p.time \div period
      BY <2>1, <1>2, <1>4
    <3> QED BY <2>1, <3>1, <1>2, <1>3
  <2>2. CASE p \in ToSet(list)
    BY <2>2, Zenon DEF Level
  <2> QED BY <2>1, <2>2, <1>5
<1> QED BY <1>4, <1>5, <1>6, Zenon DEF Level

(* A level passes on the first point of a new period and forgets old ones. *)
LEMMA LevelPasses ==
  ASSUME NEW list \in Seq(Points), NEW last \in Times, NEW next, NEW next2,
         NEW period \in Nat \ {0}, NEW new \in Points, new.time = clock,
         Level(list, last, next, period), NewPeriod(last, period),
         new \in ToSet(next2),
         \A p \in ToSet(list) : Young(p, period) =>
           \E q \in ToSet(next2) : q.time \div period = p.time \div period
  PROVE  Level(Recent(Append(list, new), period), clock, next2, period)
<1> DEFINE recent == Recent(Append(list, new), period)
<1>1. /\ last \in Int /\ clock \in Int
      /\ \A p \in Points : p.time \in Int /\ p.time \div period \in Int
  BY BoundsAssumption, DivisionBounds DEF Points, Times
<1>2. Young(new, period)
  BY <1>1, PeriodAssumption DEF Young
<1>3. recent # << >> /\ ToSet(recent) \subseteq ToSet(list) \cup {new}
  <2> DEFINE longer == Append(list, new)
  <2>1. /\ longer \in Seq(Points) /\ longer # << >> /\ longer[Len(longer)] = new
        /\ ToSet(longer) = ToSet(list) \cup {new}
    BY AppendSet, Zenon
  <2> HIDE DEF longer
  <2>2. /\ \A p : p \in ToSet(Recent(longer, period)) => p \in ToSet(longer)
        /\ Young(longer[Len(longer)], period) => Recent(longer, period) # << >>
    BY <2>1, RecentPoints, Zenon
  <2> QED BY <2>1, <2>2, <1>2 DEF longer
<1>4. \A p \in ToSet(recent) : Young(p, period)
  BY AppendSet, RecentPoints
<1> HIDE DEF recent
<1>5. ASSUME NEW p \in ToSet(recent)
      PROVE  /\ p.time \div period <= clock \div period
             /\ (clock - p.time) \div period < PeriodsToKeep
             /\ \E q \in ToSet(next2) : q.time \div period = p.time \div period
  <2>1. (clock - p.time) \div period < PeriodsToKeep
    BY <1>4 DEF Young
  <2>2. CASE p = new
    BY <2>1, <2>2, <1>1
  <2>3. CASE p \in ToSet(list)
    <3>1. p.time \div period <= last \div period
      BY <2>3, Zenon DEF Level
    <3>2. p.time \div period \in Int /\ last \div period \in Int /\ clock \div period \in Int
      BY <2>3, <1>1, AppendSet, DivisionBounds
    <3> QED BY <2>1, <2>3, <3>1, <3>2, <1>4 DEF NewPeriod
  <2> QED BY <2>2, <2>3, <1>3
<1>6. \E q \in ToSet(next2) : q.time = clock
  OBVIOUS
<1> QED BY <1>3, <1>5, <1>6 DEF Level, recent

(* While a point of a minute is young among the seconds, the point of that *)
(* minute is young among the minutes: an hour is two minutes at least.     *)
LEMMA PassedOn ==
  ASSUME NEW p \in Points, NEW q \in Points, clock \in Times,
         q.time \div Minute = p.time \div Minute, Young(p, Minute)
  PROVE  Young(q, Hour)
<1> DEFINE m == p.time \div Minute
<1>1. /\ p.time \in Int /\ q.time \in Int /\ clock \in Int
      /\ Minute \in Nat \ {0} /\ Hour \in Nat \ {0} /\ PeriodsToKeep \in Nat \ {0}
      /\ Hour >= 2 * Minute
  BY PeriodAssumption, BoundsAssumption DEF Points, Times
<1>2. m \in Int /\ p.time < Minute * m + Minute /\ Minute * m <= q.time
  BY <1>1, DivisionBounds
<1>3. clock - p.time < Minute * PeriodsToKeep
  BY <1>1, DivisionBelow DEF Young
<1>4. clock - q.time < Minute * PeriodsToKeep + Minute
  <2> DEFINE a == Minute * m
             b == Minute * PeriodsToKeep
  <2>1. a \in Int /\ b \in Int /\ p.time < a + Minute /\ a <= q.time /\ clock - p.time < b
    BY <1>1, <1>2, <1>3
  <2> HIDE DEF a, b
  <2>2. clock - q.time < b + Minute
    BY <1>1, <2>1
  <2> QED BY <2>2 DEF b
<1>5. Minute * PeriodsToKeep + Minute <= Hour * PeriodsToKeep
  <2>1. Minute <= Minute * PeriodsToKeep
    BY <1>1
  <2>2. Hour * PeriodsToKeep >= 2 * Minute * PeriodsToKeep
    BY <1>1
  <2> QED BY <1>1, <2>1, <2>2
<1>6. clock - q.time < Hour * PeriodsToKeep
  <2> HIDE DEF m
  <2>1. Minute * PeriodsToKeep \in Int /\ Hour * PeriodsToKeep \in Int
    BY <1>1
  <2> QED BY <1>1, <1>4, <1>5, <2>1
<1> QED BY <1>1, <1>6, DivisionBelow DEF Young

(* The points of a level are no older than the level allows.               *)
LEMMA ForgottenInTime ==
  ASSUME NEW list \in Seq(Points), NEW last \in Times, NEW next,
         NEW period \in Nat \ {0}, Level(list, last, next, period),
         NEW p \in ToSet(list)
  PROVE  (Last(list).time - p.time) \div period <= PeriodsToKeep
<1> DEFINE t == Last(list).time
           k == last \div period
<1>1. Last(list) \in ToSet(list) /\ ToSet(list) \subseteq Points
  <2>1. DOMAIN list = 1 .. Len(list) /\ Len(list) \in Nat
    OBVIOUS
  <2>2. DOMAIN list # {}
    BY DEF ToSet
  <2>3. Len(list) \in DOMAIN list
    BY <2>1, <2>2
  <2> QED BY <2>3 DEF ToSet, Last
<1>2. t \in Int /\ p.time \in Int /\ last \in Int /\ PeriodsToKeep \in Int
  BY <1>1, PeriodAssumption, BoundsAssumption DEF Points, Times
<1>3. t \div period <= k /\ (last - p.time) \div period < PeriodsToKeep
  BY <1>1, Zenon DEF Level
<1> HIDE DEF t
<1>4. k \in Int /\ period * k <= last
  BY <1>2, DivisionBounds
<1>5. t < period * (k + 1)
  BY <1>2, <1>3, <1>4, DivisionBelow
<1>6. last - p.time < period * PeriodsToKeep
  BY <1>2, <1>3, DivisionBelow
<1>7. t - p.time < period * (PeriodsToKeep + 1)
  <2> DEFINE a == period * k
             b == period * PeriodsToKeep
  <2>1. /\ a \in Int /\ b \in Int /\ period * (k + 1) = a + period
        /\ period * (PeriodsToKeep + 1) = b + period
    BY <1>2, <1>4
  <2> HIDE DEF k
  <2>2. a <= last /\ t < a + period /\ last - p.time < b
    BY <1>4, <1>5, <1>6, <2>1
  <2> HIDE DEF a, b
  <2> QED BY <2>1, <2>2, <1>2
<1>8. (t - p.time) \div period < PeriodsToKeep + 1 /\ (t - p.time) \div period \in Int
  <2> DEFINE a == t - p.time
             b == PeriodsToKeep + 1
  <2>1. a \in Int /\ b \in Int /\ a < period * b
    BY <1>2, <1>7
  <2> HIDE DEF a, b
  <2>2. a \div period < b /\ a \div period \in Int
    BY <2>1, DivisionBelow, DivisionBounds
  <2> QED BY <2>2 DEF a, b
<1> QED BY <1>2, <1>8 DEF t

(* addData keeps the levels: the point stays in the first, is passed on to *)
(* the second or to the third.                                             *)
LEMMA DataPointKept ==
  ASSUME TypeInv, PeriodInv, LevelInv, NEW new \in Points, new.time = clock,
         AddDataPoint(new), UNCHANGED <<clock, setBack>>
  PROVE  /\ seconds' \in Seq(Points) /\ minutes' \in Seq(Points)
         /\ hours' \in Seq(Points)
         /\ lastSecond' \in Times /\ lastMinute' \in Times
         /\ seconds' # << >> /\ seconds'[Len(seconds')] = new
         /\ PeriodInv' /\ LevelInv'
<1> USE PeriodAssumption, BoundsAssumption
<1>1. /\ clock \in Times /\ clock \in Int /\ clock >= Hour /\ clock >= Minute
      /\ lastSecond \in Times /\ lastSecond \in Int
      /\ lastMinute \in Times /\ lastMinute \in Int
      /\ seconds \in Seq(Points) /\ minutes \in Seq(Points) /\ hours \in Seq(Points)
      /\ Minute \in Nat \ {0} /\ Hour \in Nat \ {0}
  BY DEF TypeInv, Times
<1>2. /\ clock \div Minute \in Int /\ clock \div Hour \in Int
      /\ lastSecond \div Minute \in Int /\ lastMinute \div Hour \in Int
      /\ \A p \in Points : /\ p.time \in Int /\ p.time \div Minute \in Int
                          /\ p.time \div Hour \in Int
      /\ clock \div Minute > 0 \div Minute /\ clock \div Hour > 0 \div Hour
  <2>1. /\ 0 \div Minute = 0 /\ 0 \div Hour = 0
        /\ clock \div Minute > 0 /\ clock \div Hour > 0
    <3>1. /\ 0 \div Minute = 0 /\ 0 \div Hour = 0
          /\ clock \div Minute \in Int /\ clock \div Hour \in Int
      BY <1>1, DivisionBounds
    <3>2. ~(clock \div Minute < 1) /\ ~(clock \div Hour < 1)
      BY <1>1, DivisionBelow
    <3> QED BY <3>1, <3>2
  <2>2. \A p \in Points : p.time \in Int
    BY DEF Points, Times
  <2> QED BY <1>1, <2>1, <2>2, DivisionBounds
<1> DEFINE longerS == Append(seconds, new)
           longerM == Append(minutes, new)
           longerH == Append(hours, new)
<1>3. /\ longerS \in Seq(Points) /\ longerM \in Seq(Points) /\ longerH \in Seq(Points)
      /\ longerS # << >> /\ longerM # << >>
      /\ longerS[Len(longerS)] = new /\ longerM[Len(longerM)] = new
      /\ ToSet(longerS) = ToSet(seconds) \cup {new}
      /\ ToSet(longerM) = ToSet(minutes) \cup {new}
      /\ ToSet(longerH) = ToSet(hours) \cup {new}
      /\ ToSet(seconds) \subseteq Points /\ ToSet(minutes) \subseteq Points
      /\ ToSet(hours) \subseteq Points
  BY <1>1, AppendSet, Zenon
<1>4. Young(new, Minute) /\ Young(new, Hour)
  BY <1>1 DEF Young
<1>5. /\ seconds = << >> => NewPeriod(lastSecond, Minute)
      /\ minutes = << >> => NewPeriod(lastMinute, Hour)
  BY <1>2 DEF PeriodInv, NewPeriod
<1>6. OnePerPeriod(minutes, Minute) /\ OnePerPeriod(hours, Hour)
  BY Zenon DEF PeriodInv, OnePointPerPeriod, OnePerPeriod
<1> HIDE DEF longerS, longerM, longerH
<1>7. CASE ~NewPeriod(lastSecond, Minute)
  <2>1. /\ seconds' = longerS
        /\ UNCHANGED <<minutes, hours, lastSecond, lastMinute, clock, setBack>>
    BY <1>7, Zenon DEF AddDataPoint, longerS
  <2>2. PeriodInv'
    BY <1>3, <2>1 DEF PeriodInv, OnePointPerPeriod
  <2>3. ASSUME ~setBack
        PROVE  Level(longerS, lastSecond, minutes, Minute)
    BY <1>1, <1>5, <1>7, <2>3, LevelStays DEF LevelInv, longerS
  <2>4. LevelInv'
    BY <2>1, <2>3 DEF LevelInv
  <2> QED BY <1>1, <1>3, <2>1, <2>2, <2>4
<1>8. CASE NewPeriod(lastSecond, Minute)
  <2> DEFINE recentS == Recent(longerS, Minute)
             recentM == Recent(longerM, Hour)
  <2>1. /\ seconds' = recentS /\ lastSecond' = clock /\ UNCHANGED <<clock, setBack>>
        /\ PassToHours(longerM, new)
    BY <1>8, Zenon DEF AddDataPoint, longerS, longerM
  <2>2. recentS \in Seq(Points) /\ recentS # << >> /\ recentS[Len(recentS)] = new
    BY <1>3, <1>4, RecentPoints
  <2>3. /\ recentM \in Seq(Points) /\ recentM # << >>
        /\ \A p : p \in ToSet(recentM) <=> p \in ToSet(longerM) /\ Young(p, Hour)
    BY <1>3, <1>4, RecentPoints
  <2>4. OnePerPeriod(longerM, Minute)
    <3>1. \A p \in ToSet(minutes) : p.time \div Minute < new.time \div Minute
      BY <1>2, <1>3, <1>8 DEF PeriodInv, NewPeriod
    <3> QED BY <1>1, <1>6, <3>1, AppendPeriod DEF longerM
  <2>5. \A p \in ToSet(longerM) : p.time \div Minute <= clock \div Minute
    <3>1. new.time \div Minute <= clock \div Minute
      BY <1>2
    <3>2. \A p \in ToSet(minutes) : p.time \div Minute <= clock \div Minute
      BY <1>2, <1>3, <1>8 DEF PeriodInv, NewPeriod
    <3> QED BY <1>3, <3>1, <3>2
  <2> HIDE DEF recentS, recentM
  <2>6. CASE ~NewPeriod(lastMinute, Hour)
    <3>1. minutes' = longerM /\ UNCHANGED <<hours, lastMinute>>
      BY <2>1, <2>6, Zenon DEF PassToHours
    <3>2. PeriodInv'
      BY <1>3, <2>1, <2>2, <2>4, <2>5, <3>1 DEF PeriodInv, OnePointPerPeriod, OnePerPeriod
    <3>3. ASSUME ~setBack
          PROVE  /\ Level(recentS, clock, longerM, Minute)
                 /\ Level(longerM, lastMinute, hours, Hour)
      <4>1. Level(longerM, lastMinute, hours, Hour)
        BY <1>1, <1>5, <2>6, <3>3, LevelStays DEF LevelInv, longerM
      <4>2. \A p \in ToSet(seconds) : \E q \in ToSet(longerM) :
              q.time \div Minute = p.time \div Minute
        BY <1>3, <3>3 DEF LevelInv, Level
      <4>3. Level(seconds, lastSecond, minutes, Minute)
        BY <3>3 DEF LevelInv
      <4> QED BY <1>1, <1>3, <1>8, <4>1, <4>2, <4>3, LevelPasses DEF longerS, recentS
    <3>4. LevelInv'
      BY <1>1, <2>1, <3>1, <3>3 DEF LevelInv
    <3> QED BY <1>1, <1>3, <2>1, <2>2, <3>1, <3>2, <3>4
  <2>7. CASE NewPeriod(lastMinute, Hour)
    <3>1. minutes' = recentM /\ hours' = longerH /\ lastMinute' = clock
      BY <2>1, <2>7, Zenon DEF PassToHours, recentM, longerH
    <3>2. OnePerPeriod(recentM, Minute)
      BY <1>3, <2>4, RecentPeriod DEF recentM
    <3>3. OnePerPeriod(longerH, Hour)
      <4>1. \A p \in ToSet(hours) : p.time \div Hour < new.time \div Hour
        BY <1>2, <1>3, <2>7 DEF PeriodInv, NewPeriod
      <4> QED BY <1>1, <1>6, <4>1, AppendPeriod DEF longerH
    <3>4. \A p \in ToSet(longerH) : p.time \div Hour <= clock \div Hour
      <4>1. new.time \div Hour <= clock \div Hour
        BY <1>2
      <4>2. \A p \in ToSet(hours) : p.time \div Hour <= clock \div Hour
        BY <1>2, <1>3, <2>7 DEF PeriodInv, NewPeriod
      <4> QED BY <1>3, <4>1, <4>2
    <3>5. PeriodInv'
      BY <2>1, <2>2, <2>3, <2>5, <3>1, <3>2, <3>3, <3>4
         DEF PeriodInv, OnePointPerPeriod, OnePerPeriod
    <3>6. ASSUME ~setBack
          PROVE  /\ Level(recentS, clock, recentM, Minute)
                 /\ Level(recentM, clock, longerH, Hour)
      <4>1. /\ Level(seconds, lastSecond, minutes, Minute)
            /\ Level(minutes, lastMinute, hours, Hour)
        BY <3>6 DEF LevelInv
      <4>2. new \in ToSet(recentM)
        BY <1>3, <1>4, <2>3
      <4>3. ASSUME NEW p \in ToSet(seconds), Young(p, Minute)
            PROVE  \E q \in ToSet(recentM) : q.time \div Minute = p.time \div Minute
        <5>1. PICK q \in ToSet(minutes) : q.time \div Minute = p.time \div Minute
          BY <4>1 DEF Level
        <5>2. Young(q, Hour)
          BY <1>1, <1>3, <4>3, <5>1, PassedOn
        <5> QED BY <1>3, <2>3, <5>1, <5>2
      <4>4. Level(recentS, clock, recentM, Minute)
        BY <1>1, <1>8, <4>1, <4>2, <4>3, LevelPasses DEF longerS, recentS
      <4>5. \A p \in ToSet(minutes) : \E q \in ToSet(longerH) :
              q.time \div Hour = p.time \div Hour
        BY <1>3, <4>1 DEF Level
      <4>6. Level(recentM, clock, longerH, Hour)
        BY <1>1, <1>3, <2>7, <4>1, <4>5, LevelPasses DEF longerM, recentM
      <4> QED BY <4>4, <4>6
    <3>7. LevelInv'
      BY <1>1, <2>1, <3>1, <3>6 DEF LevelInv
    <3> QED BY <1>1, <1>3, <2>1, <2>2, <2>3, <3>1, <3>5, <3>7
  <2> QED BY <2>6, <2>7
<1> QED BY <1>7, <1>8

-----------------------------------------------------------------------------
(* The steps.                                                              *)

(* updateByteCount keeps the count of the differences.                     *)
LEMMA BytesCounted ==
  ASSUME TypeInv, CountInv, NEW r \in Reporters, NEW more \in 0 .. MaxBytes,
         UpdateByteCount(r, more),
         seconds' # << >>, seconds'[Len(seconds')].bytes = total'[r]
  PROVE  /\ CountInv'
         /\ total' \in [Reporters -> 0 .. MaxBytes]
         /\ reporter' \in Reporters /\ turns' \in Nat /\ counted' \in Nat
         /\ events' \in 0 .. MaxEvents
<1> USE BoundsAssumption, ReportersAssumption
<1> DEFINE last == IF seconds = << >> THEN 0 ELSE Last(seconds).bytes
           diff == IF total'[r] > last THEN total'[r] - last ELSE 0
<1>1. /\ total \in [Reporters -> 0 .. MaxBytes] /\ total[r] \in 0 .. MaxBytes
      /\ reporter \in Reporters \cup {None}
      /\ turns \in Nat /\ counted \in Nat /\ events \in 0 .. MaxEvents
      /\ MaxBytes \in Nat /\ MaxEvents \in Nat
      /\ \A a \in Reporters : total[a] \in 0 .. MaxBytes
  BY DEF TypeInv
<1>2. /\ total' = [total EXCEPT ![r] = total[r] + more]
      /\ counted' = counted + diff
      /\ events < MaxEvents /\ events' = events + 1 /\ reporter' = r
      /\ turns' = IF reporter \in {None, r} THEN turns ELSE turns + 1
      /\ total[r] + more <= MaxBytes
  BY Zenon DEF UpdateByteCount, Diff
<1>3. /\ total' \in [Reporters -> 0 .. MaxBytes] /\ total'[r] = total[r] + more
      /\ total'[r] \in 0 .. MaxBytes /\ more \in Nat
      /\ \A a \in Reporters : a # r => total'[a] = total[a]
  BY <1>1, <1>2
<1>4. /\ last = IF reporter = None THEN 0 ELSE total[reporter]
      /\ last \in 0 .. MaxBytes
  BY <1>1 DEF CountInv, Last
<1>5. diff \in 0 .. MaxBytes
  BY <1>3, <1>4
<1>6. counted' \in Nat /\ counted' <= events' * MaxBytes
  <2> DEFINE before == events * MaxBytes
  <2>1. before \in Nat /\ (events + 1) * MaxBytes = before + MaxBytes
    BY <1>1
  <2>2. counted <= before
    BY DEF CountInv
  <2> HIDE DEF before, diff
  <2> QED BY <1>1, <1>2, <1>5, <2>1, <2>2
<1>7. turns' \in Nat /\ turns' <= events' /\ events' \in 0 .. MaxEvents
  BY <1>1, <1>2 DEF CountInv
<1>8. turns' = 0 => counted' = total'[r]
  <2>1. ASSUME turns' = 0
        PROVE  turns = 0 /\ reporter \in {None, r}
    BY <1>1, <1>2, <2>1
  <2>2. CASE reporter = None
    BY <1>1, <1>2, <1>3, <1>4, <2>2 DEF CountInv
  <2>3. CASE reporter = r
    BY <1>1, <1>2, <1>3, <1>4, <2>1, <2>3 DEF CountInv
  <2> QED BY <2>1, <2>2, <2>3
<1>9. ASSUME turns' = 1
      PROVE  \E a \in Reporters \ {r} : counted' <= total'[a] + total'[r]
  <2>1. CASE reporter = None
    BY <1>2, <1>9, <2>1 DEF CountInv
  <2>2. CASE reporter = r
    <3>1. diff = more /\ turns = 1
      BY <1>1, <1>2, <1>3, <1>4, <1>9, <2>2
    <3>2. PICK a \in Reporters \ {r} : counted <= total[a] + total[r]
      BY <2>2, <3>1 DEF CountInv
    <3> HIDE DEF diff
    <3>3. counted' <= total'[a] + total'[r]
      BY <1>1, <1>2, <1>3, <3>1, <3>2
    <3> QED BY <3>3
  <2>3. CASE reporter \notin {None, r}
    <3>1. turns = 0 /\ reporter \in Reporters \ {r}
      BY <1>1, <1>2, <1>9, <2>3
    <3>2. counted = total[reporter] /\ last = total[reporter]
      BY <1>4, <2>3, <3>1 DEF CountInv
    <3>3. total'[reporter] = total[reporter]
      BY <1>3, <3>1
    <3>4. counted' <= total'[reporter] + total'[r]
      BY <1>1, <1>2, <1>3, <3>1, <3>2, <3>3
    <3> QED BY <3>1, <3>4
  <2> QED BY <2>1, <2>2, <2>3
<1>10. reporter' # None
  BY <1>2
<1>11. seconds'[Len(seconds')].bytes = total'[reporter']
  BY <1>2
<1> HIDE DEF diff, last
<1>12. CountInv'
  BY <1>2, <1>6, <1>7, <1>8, <1>9, <1>10, <1>11 DEF CountInv
<1> QED BY <1>2, <1>3, <1>6, <1>7, <1>12

(* Nothing is logged and nothing is counted when the class is loaded.      *)
THEOREM StatusInitially == Init => StatusInv
<1> SUFFICES ASSUME Init
             PROVE  StatusInv
  OBVIOUS
<1> USE BoundsAssumption, PeriodAssumption, MaxLogEntriesAssumption, ReportersAssumption
<1>1. /\ logbuffer = << >> /\ seconds = << >> /\ minutes = << >> /\ hours = << >>
      /\ DOMAIN << >> = {} /\ Len(<< >>) = 0
      /\ ToSet(seconds) = {} /\ ToSet(minutes) = {} /\ ToSet(hours) = {}
  BY DEF Init, ToSet
<1>2. TypeInv
  <2>1. << >> \in Seq(Times) /\ << >> \in Seq(Points)
    OBVIOUS
  <2>2. total \in [Reporters -> 0 .. MaxBytes]
    BY DEF Init
  <2>3. clock \in Hour .. MaxClock /\ 0 \in Times /\ 0 \in 0 .. MaxEvents
    BY DEF Init, Times
  <2> QED BY <2>1, <2>2, <2>3 DEF Init, TypeInv
<1>3. LogIsOrdered
  BY <1>1 DEF LogIsOrdered
<1>4. CountInv
  BY <1>1 DEF Init, CountInv
<1>5. PeriodInv
  BY <1>1 DEF Init, PeriodInv, OnePointPerPeriod
<1>6. LevelInv
  BY <1>1 DEF Init, LevelInv, Level
<1> QED BY <1>2, <1>3, <1>4, <1>5, <1>6 DEF StatusInv

(* newLogItem keeps the log in order, whenever the item was made.          *)
LEMMA LogStep ==
  ASSUME TypeInv, LogIsOrdered, NEW time \in Times, NewLogItem(time)
  PROVE  logbuffer' \in Seq(Times) /\ LogIsOrdered'
<1> DEFINE new == InsertLogItemByLogTime(time)
<1>1. logbuffer \in Seq(Times) /\ Ordered(logbuffer)
      /\ Len(logbuffer) <= MaxLogEntries + MaxLogEntries \div 2
  BY DEF TypeInv, LogIsOrdered, Ordered
<1>2. new \in Seq(Times) /\ Ordered(new) /\ Len(new) = Len(logbuffer) + 1
  BY <1>1, InsertKeepsOrder
<1> HIDE DEF new
<1>3. Len(new) <= MaxLogEntries + MaxLogEntries \div 2 + 1
  BY <1>1, <1>2, MaxLogEntriesAssumption
<1>4. /\ Trim(new) \in Seq(Times) /\ Ordered(Trim(new))
      /\ Len(Trim(new)) <= MaxLogEntries + MaxLogEntries \div 2
  BY <1>2, <1>3, TrimKeepsOrder
<1>5. logbuffer' = Trim(new)
  BY Zenon DEF NewLogItem, new
<1> QED BY <1>4, <1>5, Zenon DEF LogIsOrdered, Ordered

(* Every step of the clock, of a logging thread or of a session keeps the  *)
(* invariant.                                                              *)
THEOREM StatusPreserved == StatusInv /\ [Next]_vars => StatusInv'
<1> SUFFICES ASSUME StatusInv, [Next]_vars
             PROVE  StatusInv'
  OBVIOUS
<1> USE BoundsAssumption, PeriodAssumption
<1>1. TypeInv /\ LogIsOrdered /\ CountInv /\ PeriodInv /\ LevelInv
  BY DEF StatusInv
<1>2. CASE Tick
  <2>1. /\ clock' = clock + 1 /\ clock' \in Hour .. MaxClock
        /\ UNCHANGED <<setBack, log, traffic, events>>
    BY <1>1, <1>2 DEF Tick, TypeInv
  <2>2. TypeInv' /\ LogIsOrdered' /\ CountInv' /\ PeriodInv'
    BY <1>1, <2>1 DEF TypeInv, LogIsOrdered, CountInv, PeriodInv, OnePointPerPeriod,
                      log, traffic
  <2>3. LevelInv'
    BY <1>1, <2>1 DEF LevelInv, traffic, TypeInv, Times
  <2> QED BY <2>2, <2>3 DEF StatusInv
<1>3. CASE SetClockBack
  <2>1. /\ setBack' = TRUE /\ clock' \in Hour .. MaxClock
        /\ UNCHANGED <<log, traffic, events>>
    BY <1>1, <1>3 DEF SetClockBack, TypeInv
  <2>2. TypeInv' /\ LogIsOrdered' /\ CountInv' /\ PeriodInv'
    BY <1>1, <2>1 DEF TypeInv, LogIsOrdered, CountInv, PeriodInv, OnePointPerPeriod,
                      log, traffic
  <2>3. LevelInv'
    BY <2>1 DEF LevelInv
  <2> QED BY <2>2, <2>3 DEF StatusInv
<1>4. CASE MakeLogItem
  <2>1. /\ made' \in Times /\ events' = events + 1 /\ events' \in 0 .. MaxEvents
        /\ UNCHANGED <<clock, setBack, logbuffer, traffic>>
    BY <1>1, <1>4 DEF MakeLogItem, TypeInv, Times
  <2>2. TypeInv' /\ LogIsOrdered' /\ PeriodInv' /\ LevelInv'
    BY <1>1, <2>1 DEF TypeInv, LogIsOrdered, PeriodInv, OnePointPerPeriod, LevelInv,
                      traffic
  <2>3. CountInv'
    <3>1. turns <= events + 1 /\ counted <= (events + 1) * MaxBytes
      BY <1>1 DEF CountInv, TypeInv
    <3> QED BY <1>1, <2>1, <3>1 DEF CountInv, traffic
  <2> QED BY <2>2, <2>3 DEF StatusInv
<1>5. CASE LateLogItem
  <2>1. /\ NewLogItem(made) /\ made \in Times /\ made' = None
        /\ UNCHANGED <<clock, setBack, traffic, events>>
    BY <1>1, <1>5 DEF LateLogItem, NewLogItem, TypeInv
  <2>2. logbuffer' \in Seq(Times) /\ LogIsOrdered'
    BY <1>1, <2>1, LogStep
  <2>3. TypeInv' /\ CountInv' /\ PeriodInv' /\ LevelInv'
    BY <1>1, <2>1, <2>2 DEF TypeInv, CountInv, PeriodInv, OnePointPerPeriod, LevelInv,
                            traffic
  <2> QED BY <2>2, <2>3 DEF StatusInv
<1>6. CASE PromptLogItem
  <2>1. /\ NewLogItem(clock) /\ clock \in Times /\ made' = made
        /\ events' = events + 1 /\ events' \in 0 .. MaxEvents
        /\ UNCHANGED <<clock, setBack, traffic>>
    BY <1>1, <1>6 DEF PromptLogItem, NewLogItem, TypeInv, Times
  <2>2. logbuffer' \in Seq(Times) /\ LogIsOrdered'
    BY <1>1, <2>1, LogStep
  <2>3. TypeInv' /\ PeriodInv' /\ LevelInv'
    BY <1>1, <2>1, <2>2 DEF TypeInv, PeriodInv, OnePointPerPeriod, LevelInv, traffic
  <2>4. CountInv'
    <3>1. turns <= events + 1 /\ counted <= (events + 1) * MaxBytes
      BY <1>1 DEF CountInv, TypeInv
    <3> QED BY <1>1, <2>1, <3>1 DEF CountInv, traffic
  <2> QED BY <2>2, <2>3, <2>4 DEF StatusInv
<1>7. ASSUME NEW r \in Reporters, NEW more \in 0 .. MaxBytes, UpdateByteCount(r, more)
      PROVE  StatusInv'
  <2> DEFINE new == [time |-> clock, bytes |-> total'[r]]
  <2>1. /\ AddDataPoint(new) /\ UNCHANGED <<clock, setBack, log>>
        /\ total[r] + more <= MaxBytes
        /\ total' = [total EXCEPT ![r] = total[r] + more]
    BY <1>7, Zenon DEF UpdateByteCount
  <2>2. new \in Points /\ new.time = clock /\ new.bytes = total'[r]
    BY <1>1, <2>1 DEF TypeInv, Points, Times
  <2> HIDE DEF new
  <2>3. /\ seconds' \in Seq(Points) /\ minutes' \in Seq(Points)
        /\ hours' \in Seq(Points)
        /\ lastSecond' \in Times /\ lastMinute' \in Times
        /\ seconds' # << >> /\ seconds'[Len(seconds')] = new
        /\ PeriodInv' /\ LevelInv'
    BY <1>1, <2>1, <2>2, DataPointKept
  <2>4. /\ CountInv'
        /\ total' \in [Reporters -> 0 .. MaxBytes]
        /\ reporter' \in Reporters /\ turns' \in Nat /\ counted' \in Nat
        /\ events' \in 0 .. MaxEvents
    BY <1>1, <1>7, <2>2, <2>3, BytesCounted
  <2>5. TypeInv' /\ LogIsOrdered'
    BY <1>1, <2>1, <2>3, <2>4 DEF TypeInv, LogIsOrdered, log
  <2> QED BY <2>3, <2>4, <2>5 DEF StatusInv
<1>8. CASE UNCHANGED vars
  BY <1>1, <1>8 DEF vars, log, traffic, StatusInv, TypeInv, LogIsOrdered, CountInv,
                    PeriodInv, OnePointPerPeriod, LevelInv
<1> QED BY <1>2, <1>3, <1>4, <1>5, <1>6, <1>7, <1>8 DEF Next

-----------------------------------------------------------------------------
(* The properties.                                                         *)

(* The invariant of every state.                                           *)
LEMMA StatusInvariant == Spec => []StatusInv
BY StatusInitially, StatusPreserved, PTL DEF Spec

(* The state has its types, and the counts stay within their bounds.       *)
THEOREM StatusTypesCorrect == Spec => []TypeOK
<1>1. StatusInv => TypeOK
  <2> SUFFICES ASSUME StatusInv
               PROVE  TypeOK
    OBVIOUS
  <2>1. TypeInv /\ CountInv
    BY DEF StatusInv
  <2>2. events * MaxBytes <= MaxEvents * MaxBytes
    BY <2>1, BoundsAssumption DEF TypeInv
  <2>3. MaxEvents * MaxBytes \in Nat /\ events * MaxBytes \in Nat
    BY <2>1, BoundsAssumption DEF TypeInv
  <2>4. counted \in 0 .. MaxEvents * MaxBytes /\ turns \in 0 .. MaxEvents
    <3> DEFINE now == events * MaxBytes
               most == MaxEvents * MaxBytes
    <3>1. now <= most /\ now \in Nat /\ most \in Nat
      BY <2>2, <2>3
    <3>2. counted <= now /\ counted \in Nat /\ turns \in Nat /\ turns <= events
          /\ events \in 0 .. MaxEvents
      BY <2>1 DEF TypeInv, CountInv
    <3> HIDE DEF now, most
    <3>3. counted \in 0 .. most /\ turns \in 0 .. MaxEvents
      BY <3>1, <3>2, BoundsAssumption
    <3> QED BY <3>3 DEF most
  <2> QED BY <2>1, <2>4, PeriodAssumption, BoundsAssumption DEF TypeInv, TypeOK, Times
<1> QED BY <1>1, StatusInvariant, PTL

(* The log buffer is in the order of the times of its items, whichever     *)
(* thread entered its item first, and never longer than newLogItem allows. *)
THEOREM LogStaysOrdered == Spec => []LogIsOrdered
<1>1. StatusInv => LogIsOrdered
  BY DEF StatusInv
<1> QED BY <1>1, StatusInvariant, PTL

(* Old seconds and minutes are forgotten, a level has one point of each    *)
(* period, and the next level has the period of every point, for periods   *)
(* of any length.                                                          *)
THEOREM HistoryThinsOut == Spec => []HistoryThins
<1>1. StatusInv => HistoryThins
  <2> SUFFICES ASSUME StatusInv
               PROVE  HistoryThins
    OBVIOUS
  <2>1. TypeInv /\ PeriodInv /\ LevelInv
    BY DEF StatusInv
  <2>2. OnePointPerPeriod
    BY <2>1 DEF PeriodInv
  <2>3. LevelsAgree
    BY <2>1, Zenon DEF LevelInv, Level, LevelsAgree
  <2>4. OldPointsForgotten
    <3>1. /\ seconds \in Seq(Points) /\ minutes \in Seq(Points)
          /\ lastSecond \in Times /\ lastMinute \in Times
          /\ Minute \in Nat \ {0} /\ Hour \in Nat \ {0}
      BY <2>1, PeriodAssumption DEF TypeInv
    <3>2. ~setBack => /\ Level(seconds, lastSecond, minutes, Minute)
                      /\ Level(minutes, lastMinute, hours, Hour)
      BY <2>1 DEF LevelInv
    <3> QED BY <3>1, <3>2, ForgottenInTime DEF OldPointsForgotten
  <2> QED BY <2>2, <2>3, <2>4 DEF HistoryThins
<1> QED BY <1>1, StatusInvariant, PTL

(* The differences given to the listeners add up to what the session       *)
(* received, and after one replacement to no more than both sessions did.  *)
THEOREM DifferencesAddUp == Spec => []DiffsAddUp
<1>1. StatusInv => DiffsAddUp
  BY DEF StatusInv, CountInv, DiffsAddUp
<1> QED BY <1>1, StatusInvariant, PTL
=============================================================================

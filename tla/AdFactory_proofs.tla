--------------------------- MODULE AdFactory_proofs ---------------------------
(***************************************************************************)
(* The coroutines of all scopes are counted: a place is in loadingPlace    *)
(* once for each coroutine that waits for it and once for each that was    *)
(* cancelled during the wait.  A count over the scopes is the cardinality  *)
(* of a set with one unit for each coroutine, so every step adds one unit, *)
(* removes one, or removes those of a scope.                               *)
(***************************************************************************)
EXTENDS AdFactory, FiniteSetTheorems, TLAPS

-----------------------------------------------------------------------------
(* Counting what the scopes have.                                          *)

(* One unit for each of the g[a] coroutines of scope a.                    *)
Units(g) == UNION {{a} \X (1 .. g[a]) : a \in Scopes}

Count(g) == Cardinality(Units(g))

(* Nobody has a coroutine, nobody has a unit.                              *)
LEMMA NoUnits ==
  ASSUME NEW g \in [Scopes -> Nat]
  PROVE  (\A a \in Scopes : g[a] = 0) <=> Units(g) = {}
<1>1. ASSUME NEW a \in Scopes, g[a] # 0
      PROVE  <<a, 1>> \in Units(g)
  BY <1>1 DEF Units
<1>2. ASSUME NEW c \in Units(g)
      PROVE  c[1] \in Scopes /\ g[c[1]] # 0
  BY <1>2 DEF Units
<1> QED BY <1>1, <1>2

(* A count is 0 only if nobody has a coroutine.                            *)
LEMMA CountZero ==
  ASSUME NEW g \in [Scopes -> Nat], IsFiniteSet(Units(g))
  PROVE  Count(g) \in Nat /\ (Count(g) = 0 <=> \A a \in Scopes : g[a] = 0)
BY NoUnits, FS_EmptySet, FS_CardinalityType DEF Count

(* One coroutine more.                                                     *)
LEMMA CountMore ==
  ASSUME NEW g \in [Scopes -> Nat], IsFiniteSet(Units(g)), NEW a \in Scopes,
         NEW h \in [Scopes -> Nat], h = [g EXCEPT ![a] = @ + 1]
  PROVE  IsFiniteSet(Units(h)) /\ Count(h) = Count(g) + 1
<1> DEFINE u == <<a, g[a] + 1>>
<1>1. Units(h) = Units(g) \cup {u}
  <2>1. ASSUME NEW c \in Scopes \X Nat
        PROVE  c \in Units(h) <=> c \in Units(g) \/ c = u
    <3>1. PICK b \in Scopes, i \in Nat : c = <<b, i>>
      OBVIOUS
    <3> QED BY <3>1 DEF Units
  <2>2. Units(h) \subseteq Scopes \X Nat /\ Units(g) \subseteq Scopes \X Nat
        /\ u \in Scopes \X Nat
    BY DEF Units
  <2> QED BY <2>1, <2>2
<1>2. u \notin Units(g)
  BY DEF Units
<1>3. /\ IsFiniteSet(Units(g) \cup {u})
      /\ Cardinality(Units(g) \cup {u}) = Cardinality(Units(g)) + 1
  <2> HIDE DEF u
  <2> QED BY <1>2, FS_AddElement
<1> QED BY <1>1, <1>3 DEF Count

(* One coroutine fewer.                                                    *)
LEMMA CountLess ==
  ASSUME NEW g \in [Scopes -> Nat], IsFiniteSet(Units(g)),
         NEW a \in Scopes, g[a] > 0,
         NEW h \in [Scopes -> Nat], h = [g EXCEPT ![a] = @ - 1]
  PROVE  IsFiniteSet(Units(h)) /\ Count(h) = Count(g) - 1
<1> DEFINE u == <<a, g[a]>>
<1>1. Units(h) = Units(g) \ {u}
  <2>1. ASSUME NEW c \in Scopes \X Nat
        PROVE  c \in Units(h) <=> c \in Units(g) /\ c # u
    <3>1. PICK b \in Scopes, i \in Nat : c = <<b, i>>
      OBVIOUS
    <3> QED BY <3>1 DEF Units
  <2>2. Units(h) \subseteq Scopes \X Nat /\ Units(g) \subseteq Scopes \X Nat
    BY DEF Units
  <2> QED BY <2>1, <2>2
<1>2. u \in Units(g)
  BY DEF Units
<1>3. /\ IsFiniteSet(Units(g) \ {u})
      /\ Cardinality(Units(g) \ {u}) = Cardinality(Units(g)) - 1
  <2> HIDE DEF u
  <2> QED BY <1>2, FS_RemoveElement
<1> QED BY <1>1, <1>3 DEF Count

(* All coroutines of a scope end.                                          *)
LEMMA CountCancelled ==
  ASSUME NEW g \in [Scopes -> Nat], IsFiniteSet(Units(g)), NEW a \in Scopes,
         NEW h \in [Scopes -> Nat], h = [g EXCEPT ![a] = 0]
  PROVE  IsFiniteSet(Units(h)) /\ Count(h) = Count(g) - g[a]
<1> DEFINE Own == {a} \X (1 .. g[a])
<1>1. Units(h) = Units(g) \ Own /\ Units(g) \cap Own = Own
  <2>1. ASSUME NEW c \in Scopes \X Nat
        PROVE  /\ c \in Units(h) <=> c \in Units(g) /\ c \notin Own
               /\ c \in Own => c \in Units(g)
    <3>1. PICK b \in Scopes, i \in Nat : c = <<b, i>>
      OBVIOUS
    <3> QED BY <3>1 DEF Units
  <2>2. Units(h) \subseteq Scopes \X Nat /\ Units(g) \subseteq Scopes \X Nat
        /\ Own \subseteq Scopes \X Nat
    BY DEF Units
  <2> QED BY <2>1, <2>2
<1>2. Cardinality(Own) = g[a]
  <2>1. IsFiniteSet({a}) /\ Cardinality({a}) = 1
    BY FS_Singleton
  <2>2. IsFiniteSet(1 .. g[a]) /\ Cardinality(1 .. g[a]) = g[a]
    BY FS_Interval
  <2>3. Cardinality(Own) = Cardinality({a}) * Cardinality(1 .. g[a])
    BY <2>1, <2>2, FS_Product, Zenon
  <2> QED BY <2>1, <2>2, <2>3
<1>3. /\ IsFiniteSet(Units(g) \ Own)
      /\ Cardinality(Units(g) \ Own) = Cardinality(Units(g)) - Cardinality(Own)
  <2> HIDE DEF Own
  <2> QED BY <1>1, FS_Difference
<1> QED BY <1>1, <1>2, <1>3 DEF Count

(* Nobody has more coroutines than there are.                              *)
LEMMA CountBounds ==
  ASSUME NEW g \in [Scopes -> Nat], IsFiniteSet(Units(g)), NEW a \in Scopes
  PROVE  g[a] <= Count(g)
<1> DEFINE h == [g EXCEPT ![a] = 0]
<1>1. h \in [Scopes -> Nat]
  OBVIOUS
<1>2. IsFiniteSet(Units(h)) /\ Count(h) = Count(g) - g[a]
  BY <1>1, CountCancelled
<1>3. Count(h) \in Nat /\ Count(g) \in Nat
  BY <1>1, <1>2, FS_CardinalityType DEF Count
<1> QED BY <1>2, <1>3

-----------------------------------------------------------------------------
(* The inductive invariant.                                                *)

(* How many coroutines of each scope are at place p.                       *)
At(f, p) == [a \in Scopes |-> f[a][p]]

TypeInv ==
    /\ result \in [Places -> Nat] /\ loadingPlace \in [Places -> Nat]
    /\ life \in [Scopes -> {"new", "open", "destroyed"}]
    /\ checks \in [Scopes -> Nat]
    /\ launched \in [Scopes -> [Places -> Nat]]
    /\ loading \in [Scopes -> [Places -> Nat]]
    /\ shows \in 0 .. MaxShow
    /\ abandoned \in [Places -> Nat]
    /\ overlap \in [Places -> BOOLEAN] /\ setback \in BOOLEAN

FiniteInv ==
    /\ IsFiniteSet(Units(checks))
    /\ \A p \in Places : IsFiniteSet(Units(At(launched, p)))
    /\ \A p \in Places : IsFiniteSet(Units(At(loading, p)))

(* A scope that has not opened has posted nothing.                         *)
NewInv == \A a \in Scopes : life[a] = "new" => checks[a] = 0

(* loadingPlace counts the waiting and those cancelled while they waited.  *)
PlaceInv ==
    \A p \in Places : loadingPlace[p] = abandoned[p] + Count(At(loading, p))

(* Everything at a place stems from a check of its own: the one of the     *)
(* first activity or the one after an ad was shown.                        *)
Checked == shows + (IF life[Starter] = "new" THEN 0 ELSE 1)

ChecksInv == Count(checks) <= Checked

BudgetInv ==
    \A p \in Places :
        Count(checks) + Count(At(launched, p)) + loadingPlace[p] + result[p]
            <= Checked

(* As OneAdPerPlace, with the children that have been launched.            *)
OneInv ==
    \A p \in Places :
        ~overlap[p] =>
            result[p] + Count(At(loading, p)) + Count(At(launched, p)) <= 1

AdInv ==
    TypeInv /\ FiniteInv /\ NewInv /\ PlaceInv /\ ChecksInv /\ BudgetInv
    /\ OneInv

(* The counts of the invariant are natural numbers.                        *)
LEMMA AtType ==
  ASSUME NEW f \in [Scopes -> [Places -> Nat]], NEW p \in Places
  PROVE  At(f, p) \in [Scopes -> Nat]
BY DEF At

LEMMA CountsAreNat ==
  ASSUME TypeInv, FiniteInv
  PROVE  /\ Count(checks) \in Nat
         /\ \A p \in Places : /\ Count(At(launched, p)) \in Nat
                              /\ Count(At(loading, p)) \in Nat
<1>1. Count(checks) \in Nat
  BY CountZero DEF TypeInv, FiniteInv
<1>2. ASSUME NEW p \in Places
      PROVE  Count(At(launched, p)) \in Nat /\ Count(At(loading, p)) \in Nat
  <2>1. At(launched, p) \in [Scopes -> Nat] /\ At(loading, p) \in [Scopes -> Nat]
    BY AtType DEF TypeInv
  <2>2. IsFiniteSet(Units(At(launched, p))) /\ IsFiniteSet(Units(At(loading, p)))
    BY DEF FiniteInv
  <2> QED BY <2>1, <2>2, CountZero
<1> QED BY <1>1, <1>2

LEMMA AdInit == Init => AdInv
<1> SUFFICES ASSUME Init PROVE AdInv
  OBVIOUS
<1>1. TypeInv
  <2>1. shows \in 0 .. MaxShow
    BY MaxShowAssumption DEF Init
  <2> QED BY <2>1 DEF Init, TypeInv
<1>2. NewInv
  BY DEF Init, NewInv
<1>3. Units(checks) = {}
  BY NoUnits DEF Init
<1>4. \A p \in Places : Units(At(launched, p)) = {} /\ Units(At(loading, p)) = {}
  BY NoUnits DEF Init, At
<1>5. FiniteInv
  BY <1>3, <1>4, FS_EmptySet DEF FiniteInv
<1>6. Count(checks) = 0
      /\ \A p \in Places : Count(At(launched, p)) = 0 /\ Count(At(loading, p)) = 0
  BY <1>3, <1>4, FS_EmptySet DEF Count
<1>7. PlaceInv
  BY <1>6 DEF Init, PlaceInv
<1>8. ChecksInv /\ BudgetInv
  BY <1>6, StarterAssumption DEF Init, ChecksInv, BudgetInv, Checked
<1>9. OneInv
  BY <1>6 DEF Init, OneInv
<1> QED BY <1>1, <1>2, <1>5, <1>7, <1>8, <1>9 DEF AdInv

(* One lemma for each step.                                                *)
LEMMA OpenKeeps ==
  ASSUME AdInv, NEW a \in Scopes, Open(a)
  PROVE  AdInv'
<1> USE DEF AdInv
<1>1. TypeInv'
  BY DEF TypeInv, Open
<1>2. CASE a = Starter
  <2>1. checks' = [checks EXCEPT ![a] = @ + 1]
    <3>1. checks[a] = 0 /\ checks' = [checks EXCEPT ![a] = 1]
      BY <1>2 DEF Open, NewInv
    <3> QED BY <3>1
  <2>2. IsFiniteSet(Units(checks')) /\ Count(checks') = Count(checks) + 1
    BY <2>1, <1>1, CountMore DEF TypeInv, FiniteInv
  <2>3. Checked' = Checked + 1
    BY <1>2, MaxShowAssumption DEF Checked, Open, TypeInv
  <2>4. BudgetInv' /\ ChecksInv'
    BY <2>2, <2>3, CountsAreNat DEF ChecksInv, BudgetInv, Open, Checked, TypeInv
  <2> QED BY <1>1, <1>2, <2>2, <2>4
          DEF Open, FiniteInv, NewInv, PlaceInv, OneInv, TypeInv
<1>3. CASE a # Starter
  <2>1. checks' = checks
    BY <1>3 DEF Open, NewInv, TypeInv
  <2>2. Checked' = Checked
    BY <1>3, StarterAssumption DEF Checked, Open, TypeInv
  <2> QED BY <1>1, <2>1, <2>2
          DEF Open, FiniteInv, NewInv, PlaceInv, OneInv, TypeInv, ChecksInv,
              BudgetInv
<1> QED BY <1>2, <1>3

LEMMA LoadAllKeeps ==
  ASSUME AdInv, NEW a \in Scopes, LoadAll(a)
  PROVE  AdInv'
<1> USE DEF AdInv
<1>1. TypeInv'
  BY DEF TypeInv, LoadAll, CheckIfNeedLoad
<1>2. IsFiniteSet(Units(checks')) /\ Count(checks') = Count(checks) - 1
  BY <1>1, CountLess DEF LoadAll, TypeInv, FiniteInv
<1>3. ASSUME NEW p \in Places
      PROVE  /\ IsFiniteSet(Units(At(launched', p)))
             /\ Count(At(launched', p)) =
                  IF CheckIfNeedLoad(p) THEN Count(At(launched, p)) + 1
                  ELSE Count(At(launched, p))
  <2>1. At(launched, p) \in [Scopes -> Nat] /\ At(launched', p) \in [Scopes -> Nat]
        /\ IsFiniteSet(Units(At(launched, p)))
    BY <1>1, AtType DEF TypeInv, FiniteInv
  <2>2. CASE CheckIfNeedLoad(p)
    <3>1. At(launched', p) = [At(launched, p) EXCEPT ![a] = @ + 1]
      BY <2>2 DEF At, LoadAll, TypeInv
    <3> QED BY <2>1, <2>2, <3>1, CountMore
  <2>3. CASE ~CheckIfNeedLoad(p)
    <3>1. At(launched', p) = At(launched, p)
      BY <2>3 DEF At, LoadAll, TypeInv
    <3> QED BY <2>1, <2>3, <3>1
  <2> QED BY <2>2, <2>3
<1>4. FiniteInv'
  BY <1>2, <1>3 DEF FiniteInv, LoadAll
<1>5. NewInv'
  BY DEF NewInv, LoadAll, TypeInv
<1>6. PlaceInv'
  BY DEF PlaceInv, LoadAll
<1>7. BudgetInv'
  <2> SUFFICES ASSUME NEW p \in Places
               PROVE  Count(checks') + Count(At(launched', p)) + loadingPlace[p]
                        + result[p] <= Checked
    BY DEF BudgetInv, LoadAll, Checked
  <2>1. Checked \in Nat /\ result[p] \in Nat /\ loadingPlace[p] \in Nat
    BY DEF Checked, TypeInv
  <2> QED BY <1>2, <1>3, <2>1, CountsAreNat DEF BudgetInv
<1>8. OneInv'
  <2> SUFFICES ASSUME NEW p \in Places, ~overlap'[p]
               PROVE  result[p] + Count(At(loading, p)) + Count(At(launched', p)) <= 1
    BY DEF OneInv, LoadAll
  <2>1. result[p] + Count(At(loading, p)) + Count(At(launched, p)) <= 1
        /\ ~(CheckIfNeedLoad(p) /\ Launched(p))
    BY DEF OneInv, LoadAll, TypeInv
  <2>2. CASE CheckIfNeedLoad(p)
    <3>1. result[p] = 0 /\ Count(At(loading, p)) = 0
      BY <2>2, CountsAreNat DEF CheckIfNeedLoad, PlaceInv, TypeInv
    <3>2. \A b \in Scopes : At(launched, p)[b] = 0
      BY <2>1, <2>2 DEF Launched, At, TypeInv
    <3>3. Count(At(launched, p)) = 0
      BY <3>2, AtType, CountZero DEF TypeInv, FiniteInv
    <3> QED BY <2>2, <3>1, <3>3, <1>3
  <2> QED BY <2>1, <2>2, <1>3
<1>9. ChecksInv'
  BY <1>2, CountsAreNat DEF ChecksInv, LoadAll, Checked, TypeInv
<1> QED BY <1>1, <1>4, <1>5, <1>6, <1>7, <1>8, <1>9

LEMMA BeginLoadKeeps ==
  ASSUME AdInv, NEW a \in Scopes, NEW p \in Places, BeginLoad(a, p)
  PROVE  AdInv'
<1> USE DEF AdInv
<1>1. TypeInv'
  BY DEF TypeInv, BeginLoad
<1>2. /\ IsFiniteSet(Units(At(launched', p)))
      /\ Count(At(launched', p)) = Count(At(launched, p)) - 1
  <2>1. At(launched, p)[a] > 0
        /\ At(launched', p) = [At(launched, p) EXCEPT ![a] = @ - 1]
    BY DEF At, BeginLoad, TypeInv
  <2>2. At(launched, p) \in [Scopes -> Nat] /\ At(launched', p) \in [Scopes -> Nat]
        /\ IsFiniteSet(Units(At(launched, p)))
    BY <1>1, AtType DEF TypeInv, FiniteInv
  <2> QED BY <2>1, <2>2, CountLess
<1>3. /\ IsFiniteSet(Units(At(loading', p)))
      /\ Count(At(loading', p)) = Count(At(loading, p)) + 1
  <2>1. At(loading', p) = [At(loading, p) EXCEPT ![a] = @ + 1]
    BY DEF At, BeginLoad, TypeInv
  <2>2. At(loading, p) \in [Scopes -> Nat] /\ At(loading', p) \in [Scopes -> Nat]
        /\ IsFiniteSet(Units(At(loading, p)))
    BY <1>1, AtType DEF TypeInv, FiniteInv
  <2> QED BY <2>1, <2>2, CountMore
<1>4. ASSUME NEW q \in Places, q # p
      PROVE  At(launched', q) = At(launched, q) /\ At(loading', q) = At(loading, q)
             /\ loadingPlace'[q] = loadingPlace[q]
  BY <1>4 DEF At, BeginLoad, TypeInv
<1>5. loadingPlace'[p] = loadingPlace[p] + 1
  BY DEF BeginLoad, TypeInv
<1>6. FiniteInv'
  BY <1>2, <1>3, <1>4 DEF FiniteInv, BeginLoad
<1>7. NewInv'
  BY DEF NewInv, BeginLoad
<1>8. PlaceInv'
  <2> SUFFICES ASSUME NEW q \in Places
               PROVE  loadingPlace'[q] = abandoned[q] + Count(At(loading', q))
    BY DEF PlaceInv, BeginLoad
  <2>1. abandoned[q] \in Nat
    BY DEF TypeInv
  <2> QED BY <2>1, <1>3, <1>4, <1>5, CountsAreNat DEF PlaceInv
<1>9. BudgetInv'
  <2> SUFFICES ASSUME NEW q \in Places
               PROVE  Count(checks) + Count(At(launched', q)) + loadingPlace'[q]
                        + result[q] <= Checked
    BY DEF BudgetInv, BeginLoad, Checked
  <2>1. Checked \in Nat /\ result[q] \in Nat /\ loadingPlace[q] \in Nat
    BY DEF Checked, TypeInv
  <2> QED BY <2>1, <1>2, <1>4, <1>5, CountsAreNat DEF BudgetInv
<1>10. OneInv'
  <2> SUFFICES ASSUME NEW q \in Places, ~overlap[q]
               PROVE  result[q] + Count(At(loading', q)) + Count(At(launched', q)) <= 1
    BY DEF OneInv, BeginLoad
  <2>1. result[q] \in Nat
    BY DEF TypeInv
  <2> QED BY <2>1, <1>2, <1>3, <1>4, CountsAreNat DEF OneInv
<1>11. ChecksInv'
  BY DEF ChecksInv, BeginLoad, Checked
<1> QED BY <1>1, <1>6, <1>7, <1>8, <1>9, <1>10, <1>11

LEMMA EndLoadKeeps ==
  ASSUME AdInv, NEW a \in Scopes, NEW p \in Places, NEW loaded \in BOOLEAN,
         EndLoad(a, p, loaded)
  PROVE  AdInv'
<1> USE DEF AdInv
<1>1. /\ At(loading, p)[a] > 0
      /\ At(loading, p) \in [Scopes -> Nat]
      /\ IsFiniteSet(Units(At(loading, p)))
  BY AtType DEF At, EndLoad, TypeInv, FiniteInv
<1>2. Count(At(loading, p)) > 0 /\ loadingPlace[p] > 0
  BY <1>1, CountBounds, CountsAreNat DEF PlaceInv, TypeInv
<1>3. TypeInv'
  BY <1>2 DEF TypeInv, EndLoad
<1>4. /\ IsFiniteSet(Units(At(loading', p)))
      /\ Count(At(loading', p)) = Count(At(loading, p)) - 1
  <2>1. At(loading', p) = [At(loading, p) EXCEPT ![a] = @ - 1]
    BY DEF At, EndLoad, TypeInv
  <2>2. At(loading', p) \in [Scopes -> Nat]
    BY <1>3, AtType DEF TypeInv
  <2> QED BY <1>1, <2>1, <2>2, CountLess
<1>5. ASSUME NEW q \in Places, q # p
      PROVE  At(loading', q) = At(loading, q) /\ result'[q] = result[q]
             /\ loadingPlace'[q] = loadingPlace[q]
  BY <1>5 DEF At, EndLoad, TypeInv
<1>6. loadingPlace'[p] = loadingPlace[p] - 1 /\ result'[p] <= result[p] + 1
  BY DEF EndLoad, TypeInv
<1>7. FiniteInv'
  BY <1>4, <1>5 DEF FiniteInv, EndLoad
<1>8. NewInv'
  BY DEF NewInv, EndLoad
<1>9. PlaceInv'
  <2> SUFFICES ASSUME NEW q \in Places
               PROVE  loadingPlace'[q] = abandoned[q] + Count(At(loading', q))
    BY DEF PlaceInv, EndLoad
  <2>1. abandoned[q] \in Nat
    BY DEF TypeInv
  <2> QED BY <2>1, <1>4, <1>5, <1>6, CountsAreNat DEF PlaceInv
<1>10. BudgetInv'
  <2> SUFFICES ASSUME NEW q \in Places
               PROVE  Count(checks) + Count(At(launched, q)) + loadingPlace'[q]
                        + result'[q] <= Checked
    BY DEF BudgetInv, EndLoad, Checked
  <2>1. /\ Checked \in Nat /\ result[q] \in Nat /\ loadingPlace[q] \in Nat
        /\ result'[q] \in Nat
    BY <1>3 DEF Checked, TypeInv
  <2> QED BY <2>1, <1>5, <1>6, CountsAreNat DEF BudgetInv
<1>11. OneInv'
  <2> SUFFICES ASSUME NEW q \in Places, ~overlap[q]
               PROVE  result'[q] + Count(At(loading', q)) + Count(At(launched, q)) <= 1
    BY DEF OneInv, EndLoad
  <2>1. result[q] \in Nat /\ result'[q] \in Nat
    BY <1>3 DEF TypeInv
  <2> QED BY <2>1, <1>4, <1>5, <1>6, CountsAreNat DEF OneInv
<1>12. ChecksInv'
  BY DEF ChecksInv, EndLoad, Checked
<1> QED BY <1>3, <1>7, <1>8, <1>9, <1>10, <1>11, <1>12

LEMMA ShowKeeps ==
  ASSUME AdInv, NEW a \in Scopes, NEW p \in Places, Show(a, p)
  PROVE  AdInv'
<1> USE DEF AdInv
<1>1. CASE UNCHANGED <<result, checks>>
  <2>1. result' = result /\ checks' = checks
    BY <1>1 DEF Show
  <2>2. TypeInv'
    BY <2>1, MaxShowAssumption DEF TypeInv, Show
  <2>3. BudgetInv'
    <3> SUFFICES ASSUME NEW q \in Places
                 PROVE  Count(checks) + Count(At(launched, q)) + loadingPlace[q]
                          + result[q] <= Checked'
      BY <2>1 DEF BudgetInv, Show
    <3>1. /\ Checked' = Checked + 1
          /\ Checked \in Nat /\ result[q] \in Nat /\ loadingPlace[q] \in Nat
      BY DEF Checked, TypeInv, Show
    <3> QED BY <3>1, CountsAreNat DEF BudgetInv
  <2>4. ChecksInv'
    BY <2>1, CountsAreNat DEF ChecksInv, Checked, TypeInv, Show
  <2> QED BY <2>1, <2>2, <2>3, <2>4 DEF Show, FiniteInv, NewInv, PlaceInv, OneInv
<1>2. CASE /\ result[p] > 0 /\ result' = [result EXCEPT ![p] = @ - 1]
          /\ checks' = [checks EXCEPT ![a] = @ + 1]
  <2>1. /\ result' = [result EXCEPT ![p] = @ - 1]
        /\ checks' = [checks EXCEPT ![a] = @ + 1]
    BY <1>2
  <2>2. TypeInv'
    <3>1. result[p] \in Nat /\ shows \in Nat /\ shows < MaxShow
      BY DEF TypeInv, Show
    <3>2. result[p] - 1 \in Nat /\ shows + 1 \in 0 .. MaxShow
      BY <3>1, <1>2, MaxShowAssumption
    <3>3. result' \in [Places -> Nat] /\ checks' \in [Scopes -> Nat]
      BY <2>1, <3>2 DEF TypeInv
    <3> QED BY <3>2, <3>3 DEF TypeInv, Show
  <2>3. IsFiniteSet(Units(checks')) /\ Count(checks') = Count(checks) + 1
    BY <2>1, <2>2, CountMore DEF TypeInv, FiniteInv
  <2>4. BudgetInv'
    <3> SUFFICES ASSUME NEW q \in Places
                 PROVE  Count(checks') + Count(At(launched, q)) + loadingPlace[q]
                          + result'[q] <= Checked'
      BY DEF BudgetInv, Show
    <3>1. /\ Checked' = Checked + 1
          /\ Checked \in Nat /\ result[q] \in Nat /\ loadingPlace[q] \in Nat
      BY DEF Checked, TypeInv, Show
    <3>2. result'[q] <= result[q] /\ result'[q] \in Nat
      BY <2>1, <2>2 DEF TypeInv
    <3> QED BY <2>3, <3>1, <3>2, CountsAreNat DEF BudgetInv
  <2>5. OneInv'
    <3> SUFFICES ASSUME NEW q \in Places, ~overlap[q]
                 PROVE  result'[q] + Count(At(loading, q)) + Count(At(launched, q)) <= 1
      BY DEF OneInv, Show
    <3>1. result'[q] <= result[q] /\ result'[q] \in Nat /\ result[q] \in Nat
      BY <2>1, <2>2 DEF TypeInv
    <3> QED BY <3>1, CountsAreNat DEF OneInv
  <2>6. NewInv'
    BY <2>1 DEF NewInv, Show, TypeInv
  <2>7. FiniteInv' /\ PlaceInv'
    BY <2>3 DEF Show, FiniteInv, PlaceInv
  <2>8. ChecksInv'
    BY <2>3, CountsAreNat DEF ChecksInv, Checked, TypeInv, Show
  <2> QED BY <2>2, <2>4, <2>5, <2>6, <2>7, <2>8
<1> QED BY <1>1, <1>2 DEF Show

LEMMA DestroyKeeps ==
  ASSUME AdInv, NEW a \in Scopes, Destroy(a)
  PROVE  AdInv'
<1> USE DEF AdInv
<1>1. TypeInv'
  BY DEF TypeInv, Destroy
<1>2. IsFiniteSet(Units(checks')) /\ Count(checks') <= Count(checks)
      /\ Count(checks') \in Nat
  <2>1. IsFiniteSet(Units(checks')) /\ Count(checks') = Count(checks) - checks[a]
    BY <1>1, CountCancelled DEF Destroy, TypeInv, FiniteInv
  <2>2. checks[a] <= Count(checks) /\ checks[a] \in Nat
    BY CountBounds DEF TypeInv, FiniteInv
  <2> QED BY <2>1, <2>2, CountsAreNat
<1>3. ASSUME NEW p \in Places
      PROVE  /\ IsFiniteSet(Units(At(launched', p)))
             /\ Count(At(launched', p)) <= Count(At(launched, p))
             /\ Count(At(launched', p)) \in Nat
  <2>1. At(launched', p) = [At(launched, p) EXCEPT ![a] = 0]
    BY DEF At, Destroy, TypeInv
  <2>2. At(launched, p) \in [Scopes -> Nat] /\ At(launched', p) \in [Scopes -> Nat]
        /\ IsFiniteSet(Units(At(launched, p)))
    BY <1>1, AtType DEF TypeInv, FiniteInv
  <2>3. /\ IsFiniteSet(Units(At(launched', p)))
        /\ Count(At(launched', p)) = Count(At(launched, p)) - At(launched, p)[a]
    BY <2>1, <2>2, CountCancelled
  <2>4. At(launched, p)[a] <= Count(At(launched, p)) /\ At(launched, p)[a] \in Nat
    BY <2>2, CountBounds
  <2> QED BY <2>3, <2>4, CountsAreNat
<1>4. ASSUME NEW p \in Places
      PROVE  /\ IsFiniteSet(Units(At(loading', p)))
             /\ Count(At(loading', p)) = Count(At(loading, p)) - loading[a][p]
             /\ Count(At(loading', p)) \in Nat
  <2>1. At(loading', p) = [At(loading, p) EXCEPT ![a] = 0]
        /\ At(loading, p)[a] = loading[a][p]
    BY DEF At, Destroy, TypeInv
  <2>2. At(loading, p) \in [Scopes -> Nat] /\ At(loading', p) \in [Scopes -> Nat]
        /\ IsFiniteSet(Units(At(loading, p)))
    BY <1>1, AtType DEF TypeInv, FiniteInv
  <2>3. /\ IsFiniteSet(Units(At(loading', p)))
        /\ Count(At(loading', p)) = Count(At(loading, p)) - At(loading, p)[a]
    BY <2>1, <2>2, CountCancelled
  <2> QED BY <2>1, <2>2, <2>3, CountZero
<1>5. FiniteInv'
  BY <1>2, <1>3, <1>4 DEF FiniteInv
<1>6. NewInv'
  BY DEF NewInv, Destroy, TypeInv
<1>7. PlaceInv'
  <2> SUFFICES ASSUME NEW p \in Places
               PROVE  loadingPlace[p] = abandoned'[p] + Count(At(loading', p))
    BY DEF PlaceInv, Destroy
  <2>1. abandoned'[p] = abandoned[p] + loading[a][p]
        /\ abandoned[p] \in Nat /\ loading[a][p] \in Nat
    BY DEF Destroy, TypeInv
  <2> QED BY <2>1, <1>4, CountsAreNat DEF PlaceInv
<1>8. BudgetInv'
  <2> SUFFICES ASSUME NEW p \in Places
               PROVE  Count(checks') + Count(At(launched', p)) + loadingPlace[p]
                        + result[p] <= Checked'
    BY DEF BudgetInv, Destroy
  <2>1. Checked' = Checked
    BY DEF Checked, Destroy, TypeInv
  <2>2. Checked \in Nat /\ result[p] \in Nat /\ loadingPlace[p] \in Nat
    BY DEF Checked, TypeInv
  <2> QED BY <2>1, <2>2, <1>2, <1>3, CountsAreNat DEF BudgetInv
<1>9. OneInv'
  <2> SUFFICES ASSUME NEW p \in Places, ~overlap[p]
               PROVE  result[p] + Count(At(loading', p)) + Count(At(launched', p)) <= 1
    BY DEF OneInv, Destroy
  <2>1. result[p] \in Nat /\ loading[a][p] \in Nat
    BY DEF TypeInv
  <2> QED BY <2>1, <1>3, <1>4, CountsAreNat DEF OneInv
<1>10. ChecksInv'
  BY <1>2, CountsAreNat DEF ChecksInv, Destroy, Checked, TypeInv
<1> QED BY <1>1, <1>5, <1>6, <1>7, <1>8, <1>9, <1>10

LEMMA AdStep == AdInv /\ [Next]_vars => AdInv'
<1> SUFFICES ASSUME AdInv, [Next]_vars PROVE AdInv'
  OBVIOUS
<1>1. ASSUME NEW a \in Scopes, Open(a) PROVE AdInv'
  BY <1>1, OpenKeeps
<1>2. ASSUME NEW a \in Scopes, LoadAll(a) PROVE AdInv'
  BY <1>2, LoadAllKeeps
<1>3. ASSUME NEW a \in Scopes, Destroy(a) PROVE AdInv'
  BY <1>3, DestroyKeeps
<1>4. ASSUME NEW a \in Scopes, NEW p \in Places, BeginLoad(a, p) PROVE AdInv'
  BY <1>4, BeginLoadKeeps
<1>5. ASSUME NEW a \in Scopes, NEW p \in Places, Show(a, p) PROVE AdInv'
  BY <1>5, ShowKeeps
<1>6. ASSUME NEW a \in Scopes, NEW p \in Places, NEW loaded \in BOOLEAN,
             EndLoad(a, p, loaded)
      PROVE  AdInv'
  BY <1>6, EndLoadKeeps
<1>7. CASE UNCHANGED vars
  BY <1>7 DEF vars, AdInv, TypeInv, FiniteInv, NewInv, PlaceInv,
              ChecksInv, BudgetInv, OneInv, Checked
<1> QED BY <1>1, <1>2, <1>3, <1>4, <1>5, <1>6, <1>7 DEF Next

LEMMA AdInvariant == Spec => []AdInv
BY AdInit, AdStep, PTL DEF Spec

-----------------------------------------------------------------------------
(* The bound on every counter comes from the shows: no place ever holds    *)
(* more ads, loads and coroutines than there were checks.                  *)
THEOREM AdTypesCorrect == Spec => []TypeOK
<1>1. AdInv => TypeOK
  <2> SUFFICES ASSUME AdInv PROVE TypeOK
    OBVIOUS
  <2> USE DEF AdInv
  <2>1. Checked \in Nat /\ Checked <= MaxShow + 1
    BY MaxShowAssumption DEF Checked, TypeInv
  <2>2. ASSUME NEW a \in Scopes
        PROVE  checks[a] \in Nat /\ checks[a] <= Count(checks)
    BY CountBounds DEF TypeInv, FiniteInv
  <2>3. ASSUME NEW a \in Scopes, NEW p \in Places
        PROVE  /\ launched[a][p] \in Nat /\ launched[a][p] <= Count(At(launched, p))
               /\ loading[a][p] \in Nat /\ loading[a][p] <= Count(At(loading, p))
    <3>1. /\ At(launched, p) \in [Scopes -> Nat] /\ At(launched, p)[a] = launched[a][p]
          /\ At(loading, p) \in [Scopes -> Nat] /\ At(loading, p)[a] = loading[a][p]
          /\ IsFiniteSet(Units(At(launched, p))) /\ IsFiniteSet(Units(At(loading, p)))
      BY AtType DEF At, TypeInv, FiniteInv
    <3> QED BY <3>1, CountBounds
  <2>4. ASSUME NEW p \in Places
        PROVE  /\ result[p] \in Counts /\ loadingPlace[p] \in Counts
               /\ abandoned[p] \in Counts
               /\ Count(At(launched, p)) <= MaxShow + 1
               /\ Count(At(loading, p)) <= MaxShow + 1
    <3>1. result[p] \in Nat /\ loadingPlace[p] \in Nat /\ abandoned[p] \in Nat
      BY DEF TypeInv
    <3>2. loadingPlace[p] = abandoned[p] + Count(At(loading, p))
      BY DEF PlaceInv
    <3>3. Count(checks) + Count(At(launched, p)) + loadingPlace[p] + result[p]
            <= Checked
      BY DEF BudgetInv
    <3> QED BY <2>1, <3>1, <3>2, <3>3, CountsAreNat, MaxShowAssumption DEF Counts
  <2>5. ASSUME NEW a \in Scopes
        PROVE  checks[a] \in Counts
    BY <2>1, <2>2, CountsAreNat, MaxShowAssumption DEF Counts, ChecksInv
  <2>6. ASSUME NEW a \in Scopes, NEW p \in Places
        PROVE  launched[a][p] \in Counts /\ loading[a][p] \in Counts
    BY <2>3, <2>4, CountsAreNat, MaxShowAssumption DEF Counts
  <2> QED BY <2>4, <2>5, <2>6 DEF TypeOK, TypeInv
<1> QED BY <1>1, AdInvariant, PTL

(* A place counts as loading only while a coroutine of some activity waits *)
(* for its ad, or because a scope was cancelled during such a wait.        *)
THEOREM LoadsAreReal == Spec => []LoadingIsReal
<1>1. AdInv => LoadingIsReal
  <2> SUFFICES ASSUME AdInv, NEW p \in Places
               PROVE  loadingPlace[p] > abandoned[p] <=> Busy(p) # {}
    BY DEF LoadingIsReal
  <2> USE DEF AdInv
  <2>1. At(loading, p) \in [Scopes -> Nat] /\ IsFiniteSet(Units(At(loading, p)))
    BY AtType DEF TypeInv, FiniteInv
  <2>2. Count(At(loading, p)) = 0 <=> \A a \in Scopes : At(loading, p)[a] = 0
    BY <2>1, CountZero
  <2>3. Count(At(loading, p)) = 0 <=> Busy(p) = {}
    BY <2>2 DEF Busy, At, TypeInv
  <2>4. loadingPlace[p] \in Nat /\ abandoned[p] \in Nat
    BY DEF TypeInv
  <2> QED BY <2>3, <2>4, CountsAreNat DEF PlaceInv
<1> QED BY <1>1, AdInvariant, PTL

(* No place has two ads or two loads at once, but through the gap between  *)
(* the check and the first step of the child it launches.                  *)
THEOREM PlacesHaveOneAd == Spec => []OneAdPerPlace
<1>1. AdInv => OneAdPerPlace
  <2> SUFFICES ASSUME AdInv, NEW p \in Places, ~overlap[p]
               PROVE  result[p] + loadingPlace[p] - abandoned[p] <= 1
    BY DEF OneAdPerPlace
  <2> USE DEF AdInv
  <2>1. result[p] \in Nat /\ loadingPlace[p] \in Nat /\ abandoned[p] \in Nat
    BY DEF TypeInv
  <2>2. loadingPlace[p] = abandoned[p] + Count(At(loading, p))
    BY DEF PlaceInv
  <2>3. result[p] + Count(At(loading, p)) + Count(At(launched, p)) <= 1
    BY DEF OneInv
  <2> QED BY <2>1, <2>2, <2>3, CountsAreNat
<1> QED BY <1>1, AdInvariant, PTL
=============================================================================

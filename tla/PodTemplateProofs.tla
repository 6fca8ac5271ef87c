--------------------------- MODULE PodTemplateProofs ---------------------------
(* Proofs about PodTemplate, for overrides of any length and any number of edits *)
(* and failures, with jobs and without.                                          *)
EXTENDS PodTemplate, FiniteSetTheorems, TLAPS

Keys == {"version", "mine", "other"}

-----------------------------------------------------------------------------
(* The lists of the overrides. *)

LEMMA ShortLists ==
  ASSUME NEW S, NEW n \in Nat, NEW list
  PROVE  list \in BoundedSeq(S, n) <=> list \in Seq(S) /\ Len(list) <= n
<1>1. BoundedSeq(S, n) = UNION {[1 .. m -> S] : m \in 0 .. n}
  BY DEF BoundedSeq, SeqOf
<1>2. ASSUME list \in BoundedSeq(S, n)
      PROVE  list \in Seq(S) /\ Len(list) <= n
  <2>1. PICK m \in 0 .. n : list \in [1 .. m -> S]
    BY <1>1, <1>2
  <2> QED
    BY <2>1
<1>3. ASSUME list \in Seq(S), Len(list) <= n
      PROVE  list \in BoundedSeq(S, n)
  <2>1. Len(list) \in 0 .. n /\ list \in [1 .. Len(list) -> S]
    BY <1>3
  <2> QED
    BY <1>1, <2>1
<1> QED
  BY <1>2, <1>3

\* Whatever a user edits, the spec is one of those the model is about.
LEMMA EditedTyped ==
  ASSUME TypeOK, EditSpec
  PROVE  spec' \in Specs
<1>1. spec \in Specs
  BY DEF TypeOK
<1>2. CASE \E i \in Images : spec' = [spec EXCEPT !.image = i]
  BY <1>1, <1>2 DEF Specs
<1>3. CASE \/ spec' = [spec EXCEPT !.downloader = ~@]
           \/ spec' = [spec EXCEPT !.probe = ~@]
  BY <1>1, <1>3 DEF Specs
<1>4. CASE \E n \in {"any", "chosen"} : spec' = [spec EXCEPT !.node = n]
  BY <1>1, <1>4 DEF Specs
<1>5. CASE \E list \in Edited(spec.containers, UserContainers, MaxContainers) :
             spec' = [spec EXCEPT !.containers = list]
  BY <1>1, <1>5 DEF Specs, Edited
<1>6. CASE \E list \in Edited(spec.initContainers, UserInits, MaxContainers) :
             spec' = [spec EXCEPT !.initContainers = list]
  BY <1>1, <1>6 DEF Specs, Edited
<1>7. CASE \E list \in Edited(spec.volumes, UserVolumes, MaxVolumes) :
             spec' = [spec EXCEPT !.volumes = list]
  BY <1>1, <1>7 DEF Specs, Edited
<1>8. CASE \/ \E k \in {"version", "mine"} : spec' = [spec EXCEPT !.labels = @ \cup {k}]
           \/ spec' = [spec EXCEPT !.labels = {}]
  BY <1>1, <1>8 DEF Specs
<1> QED
  BY <1>2, <1>3, <1>4, <1>5, <1>6, <1>7, <1>8 DEF EditSpec

-----------------------------------------------------------------------------
(* What the overrides make of a list. *)

\* A set of natural numbers that is not empty has a least element; this takes
\* the place of induction below.
LEMMA LeastNatural ==
  ASSUME NEW T \in SUBSET Nat, T # {}
  PROVE  \E x \in T : \A y \in T : x <= y
<1>1. PICK x \in T : \A y \in T : ~(<<y, x>> \in OpToRel(<, Nat))
  BY NatLessThanWellFounded, WFMin
<1>2. ASSUME NEW y \in T PROVE x <= y
  <2>1. ~(y < x)
    BY <1>1 DEF OpToRel
  <2> QED
    BY <2>1
<1> QED
  BY <1>2

LEMMA GreatestPosition ==
  ASSUME NEW n \in Nat, NEW T \in SUBSET (1 .. n), T # {}
  PROVE  \E x \in T : \A y \in T : x >= y
<1> DEFINE bounds == {b \in Nat : \A i \in T : i <= b}
<1>1. n \in bounds
  OBVIOUS
<1>2. PICK b \in bounds : \A c \in bounds : b <= c
  BY <1>1, LeastNatural
<1>3. CASE b \in T
  BY <1>3
<1>4. CASE b \notin T
  <2>0. PICK i \in T : TRUE
    OBVIOUS
  <2>1. b >= 1 /\ b - 1 \in Nat
    <3>1. i \in 1 .. n /\ i <= b /\ b \in Nat
      BY <1>2
    <3> QED
      BY <3>1
  <2>2. \A x \in T : x <= b - 1
    BY <1>4
  <2>3. b - 1 \in bounds
    BY <2>1, <2>2
  <2> QED
    BY <1>2, <2>1, <2>3
<1> QED
  BY <1>3, <1>4

Increasing(f) == \A i, j \in DOMAIN f : i < j => f[i] < f[j]

LEMMA FinitePositions ==
  ASSUME NEW n \in Nat, NEW T \in SUBSET (1 .. n)
  PROVE  IsFiniteSet(T) /\ Cardinality(T) \in Nat
<1>1. IsFiniteSet(1 .. n)
  BY FS_Interval
<1>2. IsFiniteSet(T)
  BY <1>1, FS_Subset
<1> QED
  BY <1>2, FS_CardinalityType

\* Some positions of a list can be put in order.
Ordered(T) == \E f \in [1 .. Cardinality(T) -> T] : Increasing(f)

LEMMA LastOrdered ==
  ASSUME NEW n \in Nat, NEW T \in SUBSET (1 .. n + 1), n + 1 \in T,
         \A U \in SUBSET (1 .. n) : Ordered(U)
  PROVE  Ordered(T)
<1> DEFINE U == T \ {n + 1}
           k == Cardinality(U)
<1>1. U \in SUBSET (1 .. n) /\ T = U \cup {n + 1} /\ n + 1 \notin U
  OBVIOUS
<1>2. IsFiniteSet(U) /\ k \in Nat
  BY <1>1, FinitePositions
<1>3. Cardinality(T) = k + 1
  BY <1>1, <1>2, FS_AddElement
<1>4. PICK f \in [1 .. k -> U] : Increasing(f)
  BY <1>1 DEF Ordered
<1> HIDE DEF U, k
<1> DEFINE g == [i \in 1 .. k + 1 |-> IF i <= k THEN f[i] ELSE n + 1]
<1>5. g \in [1 .. k + 1 -> T]
  <2>1. ASSUME NEW i \in 1 .. k + 1 PROVE g[i] \in T
    <3>1. i <= k => i \in 1 .. k
      BY <1>2
    <3>2. i <= k => f[i] \in U
      BY <3>1
    <3> QED
      BY <1>1, <3>2
  <2> QED
    BY <2>1
<1>6. Increasing(g)
  <2>1. ASSUME NEW i \in 1 .. k + 1, NEW j \in 1 .. k + 1, i < j
        PROVE  g[i] < g[j]
    <3>1. i \in 1 .. k /\ g[i] = f[i] /\ f[i] \in 1 .. n
      <4>1. i \in 1 .. k /\ i <= k
        BY <1>2, <2>1
      <4> QED
        BY <1>1, <4>1
    <3>2. CASE j <= k
      <4>1. j \in 1 .. k /\ g[j] = f[j]
        BY <1>2, <3>2
      <4>2. DOMAIN f = 1 .. k
        OBVIOUS
      <4> QED
        BY <1>4, <2>1, <3>1, <4>1, <4>2 DEF Increasing
    <3>3. CASE ~(j <= k)
      BY <3>1, <3>3
    <3> QED
      BY <3>2, <3>3
  <2>2. DOMAIN g = 1 .. k + 1
    OBVIOUS
  <2> HIDE DEF g
  <2> QED
    BY <2>1, <2>2 DEF Increasing
<1> HIDE DEF g
<1> QED
  BY <1>3, <1>5, <1>6 DEF Ordered

LEMMA AllOrdered == \A n \in Nat : \A T \in SUBSET (1 .. n) : Ordered(T)
<1> DEFINE odd == {n \in Nat : ~(\A T \in SUBSET (1 .. n) : Ordered(T))}
<1>1. ASSUME odd # {}
      PROVE  FALSE
  <2>1. PICK n \in odd : \A m \in odd : n <= m
    BY <1>1, LeastNatural
  <2>2. PICK T \in SUBSET (1 .. n) : ~Ordered(T)
    BY <2>1
  <2>3. CASE n = 0
    <3>1. T = {}
      BY <2>3
    <3>2. Cardinality(T) = 0 /\ 1 .. 0 = {}
      BY <3>1, FS_EmptySet
    <3>3. [i \in 1 .. 0 |-> i] \in [1 .. 0 -> T] /\ Increasing([i \in 1 .. 0 |-> i])
      BY <3>2 DEF Increasing
    <3> QED
      BY <2>2, <3>2, <3>3 DEF Ordered
  <2>4. CASE n # 0
    <3>1. n - 1 \in Nat /\ ~(n <= n - 1) /\ (n - 1) + 1 = n
      BY <2>1, <2>4
    <3>2. n - 1 \notin odd
      BY <2>1, <3>1
    <3>3. \A U \in SUBSET (1 .. n - 1) : Ordered(U)
      BY <3>1, <3>2
    <3>4. CASE n \in T
      BY <2>2, <3>1, <3>3, <3>4, LastOrdered
    <3>5. CASE n \notin T
      <4>1. T \in SUBSET (1 .. n - 1)
        BY <2>1, <2>2, <3>5
      <4> QED
        BY <2>2, <3>3, <4>1
    <3> QED
      BY <3>4, <3>5
  <2> QED
    BY <2>3, <2>4
<1> QED
  BY <1>1

\* Such an order leaves none of the positions out.
LEMMA OrderComplete ==
  ASSUME NEW n \in Nat, NEW T \in SUBSET (1 .. n),
         NEW f \in [1 .. Cardinality(T) -> T], Increasing(f)
  PROVE  /\ Cardinality(T) \in Nat
         /\ \A p \in T : \E i \in 1 .. Cardinality(T) : f[i] = p
<1> DEFINE k == Cardinality(T)
<1>1. IsFiniteSet(T) /\ k \in Nat
  BY FinitePositions
<1>2. IsFiniteSet(1 .. k) /\ Cardinality(1 .. k) = k
  BY <1>1, FS_Interval
<1>3. ASSUME NEW i \in 1 .. k, NEW j \in 1 .. k, f[i] = f[j]
      PROVE  i = j
  <2>1. f[i] \in 1 .. n /\ f[j] \in 1 .. n /\ DOMAIN f = 1 .. k
    OBVIOUS
  <2>2. ~(i < j) /\ ~(j < i)
    BY <1>3, <2>1 DEF Increasing
  <2> QED
    BY <1>1, <2>2
<1>4. f \in Injection(1 .. k, T)
  BY <1>3 DEF Injection, IsInjective
<1>5. f \in Surjection(1 .. k, T)
  BY <1>1, <1>2, <1>4, FS_Injection
<1> QED
  BY <1>1, <1>5 DEF Surjection

LEMMA PickedThose ==
  ASSUME NEW S, NEW list \in Seq(S), NEW positions \in SUBSET DOMAIN list
  PROVE  /\ Those(list, positions) \in Seq(S)
         /\ \A i \in DOMAIN Those(list, positions) :
              \E p \in positions : Those(list, positions)[i] = list[p]
         /\ \A p \in positions :
              \E i \in DOMAIN Those(list, positions) : Those(list, positions)[i] = list[p]
<1> DEFINE n == Cardinality(positions)
           order == CHOOSE f \in [1 .. n -> positions] : Increasing(f)
<1>1. /\ Len(list) \in Nat /\ positions \in SUBSET (1 .. Len(list))
      /\ \A p \in positions : list[p] \in S
  OBVIOUS
<1>2. Ordered(positions)
  BY <1>1, AllOrdered
<1>3. order \in [1 .. n -> positions] /\ Increasing(order)
  BY <1>2 DEF Ordered
<1>4. Those(list, positions) = [i \in DOMAIN order |-> list[order[i]]]
  BY DEF Those, Increasing
<1> HIDE DEF order
<1>5. n \in Nat /\ \A p \in positions : \E i \in 1 .. n : order[i] = p
  BY <1>1, <1>3, OrderComplete
<1> HIDE DEF n
<1>6. Those(list, positions) = [i \in 1 .. n |-> list[order[i]]]
  BY <1>3, <1>4
<1>7. \A i \in 1 .. n : order[i] \in positions /\ list[order[i]] \in S
  BY <1>1, <1>3
<1> DEFINE those == Those(list, positions)
<1>8. those = [i \in 1 .. n |-> list[order[i]]]
  BY <1>6
<1> HIDE DEF those
<1>9. those \in Seq(S) /\ DOMAIN those = 1 .. n
  BY <1>5, <1>7, <1>8
<1>10. \A i \in DOMAIN those : those[i] = list[order[i]]
  BY <1>8, <1>9
<1>11. \A i \in DOMAIN those : \E p \in positions : those[i] = list[p]
  BY <1>7, <1>9, <1>10
<1>12. ASSUME NEW p \in positions
       PROVE  \E i \in DOMAIN those : those[i] = list[p]
  <2>1. PICK i \in 1 .. n : order[i] = p
    BY <1>5
  <2> QED
    BY <1>9, <1>10, <2>1
<1> QED
  BY <1>9, <1>11, <1>12 DEF those

\* The override that counts of those of a name.
IsLast(list, j) == \A k \in DOMAIN list : k > j => list[k].name # list[j].name

\* Every element of the result is an existing one that no override names, or
\* an override; no name is lost or added, the last override of each is there,
\* and what exists keeps its place.
Overridden(result, existing, overrides) ==
  /\ \A i \in DOMAIN result :
       \/ /\ \E j \in DOMAIN existing : result[i] = existing[j]
          /\ result[i].name \notin Names(overrides)
       \/ \E j \in DOMAIN overrides : result[i] = overrides[j]
  /\ Names(result) = Names(existing) \cup Names(overrides)
  /\ \A name \in Names(overrides) :
       \E i \in DOMAIN result, j \in DOMAIN overrides :
         result[i] = overrides[j] /\ overrides[j].name = name /\ IsLast(overrides, j)
  /\ \A i \in DOMAIN existing : i \in DOMAIN result /\ result[i].name = existing[i].name

LEMMA AppliedOverrides ==
  ASSUME NEW S, NEW existing \in Seq(S), NEW overrides \in Seq(S)
  PROVE  /\ applyContainerOverrides(existing, overrides) \in Seq(S)
         /\ Overridden(applyContainerOverrides(existing, overrides), existing, overrides)
<1> DEFINE At(name) == {i \in 1 .. Len(overrides) : overrides[i].name = name}
           Named(name) == IF At(name) # {} THEN Max(At(name)) ELSE 0
           rest == {i \in DOMAIN overrides : overrides[i].name \notin Names(existing)}
           replaced == [i \in DOMAIN existing |->
                          IF existing[i].name \in Names(overrides)
                            THEN overrides[Named(existing[i].name)] ELSE existing[i]]
           result == applyContainerOverrides(existing, overrides)
<1>1. result = replaced \o Those(overrides, rest)
  BY DEF applyContainerOverrides, SelectLastInSeq
<1>2. \A list \in Seq(S) : \A name : name \in Names(list) <=> \E i \in DOMAIN list : list[i].name = name
  BY DEF Names, Range
<1>3. ASSUME NEW name \in Names(overrides)
      PROVE  /\ Named(name) \in DOMAIN overrides /\ overrides[Named(name)].name = name
             /\ IsLast(overrides, Named(name))
  <2>1. /\ Len(overrides) \in Nat
        /\ At(name) # {} /\ At(name) \in SUBSET (1 .. Len(overrides))
    BY <1>2
  <2>2. \E i \in At(name) : \A j \in At(name) : i >= j
    <3> HIDE DEF At
    <3> QED
      BY <2>1, GreatestPosition
  <2>3. Max(At(name)) \in At(name) /\ \A j \in At(name) : Max(At(name)) >= j
    BY <2>2 DEF Max
  <2>4. Named(name) = Max(At(name))
    BY <2>1
  <2>5. Named(name) \in DOMAIN overrides /\ overrides[Named(name)].name = name
    BY <2>3, <2>4
  <2>6. ASSUME NEW k \in DOMAIN overrides, k > Named(name)
        PROVE  overrides[k].name # name
    <3>1. k \in 1 .. Len(overrides) /\ Named(name) \in 1 .. Len(overrides)
      BY <2>5
    <3>2. k \notin At(name)
      BY <2>3, <2>4, <2>6, <3>1
    <3> QED
      BY <3>1, <3>2
  <2> QED
    BY <2>5, <2>6 DEF IsLast
<1>4. /\ Those(overrides, rest) \in Seq(S)
      /\ \A i \in DOMAIN Those(overrides, rest) :
           \E p \in rest : Those(overrides, rest)[i] = overrides[p]
      /\ \A p \in rest :
           \E i \in DOMAIN Those(overrides, rest) : Those(overrides, rest)[i] = overrides[p]
  <2>1. overrides \in Seq(S) /\ rest \in SUBSET DOMAIN overrides
    OBVIOUS
  <2> HIDE DEF rest
  <2> QED
    BY <2>1, PickedThose
<1> HIDE DEF Named, At
<1>5. /\ replaced \in Seq(S) /\ DOMAIN replaced = DOMAIN existing
      /\ \A i \in DOMAIN replaced :
           /\ replaced[i].name = existing[i].name
           /\ \/ /\ replaced[i] = existing[i]
                 /\ replaced[i].name \notin Names(overrides)
              \/ \E j \in DOMAIN overrides : replaced[i] = overrides[j] /\ IsLast(overrides, j)
  <2>1. \A i \in DOMAIN existing :
          /\ replaced[i].name = existing[i].name
          /\ \/ replaced[i] = existing[i] /\ replaced[i].name \notin Names(overrides)
             \/ \E j \in DOMAIN overrides : replaced[i] = overrides[j] /\ IsLast(overrides, j)
    BY <1>3
  <2>2. \A i \in DOMAIN existing : replaced[i] \in S
    BY <2>1
  <2>3. replaced \in [1 .. Len(existing) -> S]
    BY <2>2
  <2> QED
    BY <2>1, <2>3
<1> HIDE DEF replaced, rest
<1> DEFINE others == Those(overrides, rest)
<1>6. /\ others \in Seq(S)
      /\ \A i \in DOMAIN others : \E p \in rest : others[i] = overrides[p]
      /\ \A p \in rest : \E i \in DOMAIN others : others[i] = overrides[p]
  BY <1>4
<1> HIDE DEF others
<1>7. result = replaced \o others
  BY <1>1 DEF others
<1> HIDE DEF result
<1>8. /\ result \in Seq(S)
      /\ \A i \in DOMAIN result :
           \/ i \in DOMAIN replaced /\ result[i] = replaced[i]
           \/ \E j \in DOMAIN others : result[i] = others[j]
      /\ \A i \in DOMAIN replaced : i \in DOMAIN result /\ result[i] = replaced[i]
      /\ \A j \in DOMAIN others : \E i \in DOMAIN result : result[i] = others[j]
  <2>1. /\ result \in Seq(S) /\ Len(result) = Len(replaced) + Len(others)
        /\ \A i \in 1 .. Len(result) :
             result[i] = IF i <= Len(replaced) THEN replaced[i] ELSE others[i - Len(replaced)]
    BY <1>5, <1>6, <1>7
  <2>2. ASSUME NEW j \in DOMAIN others
        PROVE  j + Len(replaced) \in 1 .. Len(result) /\ result[j + Len(replaced)] = others[j]
    <3>1. j \in 1 .. Len(others) /\ Len(others) \in Nat /\ Len(replaced) \in Nat
      BY <1>5, <1>6
    <3>2. j + Len(replaced) \in 1 .. Len(result) /\ ~(j + Len(replaced) <= Len(replaced))
          /\ (j + Len(replaced)) - Len(replaced) = j
      BY <2>1, <3>1
    <3> QED
      BY <2>1, <3>2
  <2>3. \A i \in 1 .. Len(result) : i > Len(replaced) => i - Len(replaced) \in DOMAIN others
    BY <1>5, <1>6, <2>1
  <2>4. DOMAIN result = 1 .. Len(result) /\ DOMAIN replaced = 1 .. Len(replaced)
        /\ Len(replaced) \in Nat /\ Len(others) \in Nat
    BY <1>5, <1>6, <2>1
  <2>5. ASSUME NEW i \in DOMAIN replaced
        PROVE  i \in DOMAIN result /\ result[i] = replaced[i]
    <3>1. i \in 1 .. Len(result) /\ i <= Len(replaced)
      BY <2>1, <2>4
    <3> QED
      BY <2>1, <2>4, <3>1
  <2>6. ASSUME NEW i \in DOMAIN result
        PROVE  \/ i \in DOMAIN replaced /\ result[i] = replaced[i]
               \/ \E j \in DOMAIN others : result[i] = others[j]
    <3>1. CASE i <= Len(replaced)
      BY <2>1, <2>4, <3>1
    <3>2. CASE ~(i <= Len(replaced))
      BY <2>1, <2>3, <2>4, <3>2
    <3> QED
      BY <3>1, <3>2
  <2>7. ASSUME NEW j \in DOMAIN others
        PROVE  \E i \in DOMAIN result : result[i] = others[j]
    BY <2>2, <2>4
  <2> QED
    BY <2>1, <2>5, <2>6, <2>7
<1>9. rest \subseteq DOMAIN overrides
  BY DEF rest
<1>10. \A i \in DOMAIN result :
         \/ /\ \E j \in DOMAIN existing : result[i] = existing[j]
            /\ result[i].name \notin Names(overrides)
         \/ \E j \in DOMAIN overrides : result[i] = overrides[j]
  <2> SUFFICES ASSUME NEW i \in DOMAIN result
               PROVE  \/ /\ \E j \in DOMAIN existing : result[i] = existing[j]
                         /\ result[i].name \notin Names(overrides)
                      \/ \E j \in DOMAIN overrides : result[i] = overrides[j]
    OBVIOUS
  <2>1. CASE i \in DOMAIN replaced /\ result[i] = replaced[i]
    BY <1>5, <2>1
  <2>2. CASE \E j \in DOMAIN others : result[i] = others[j]
    BY <1>6, <1>9, <2>2
  <2> QED
    BY <1>8, <2>1, <2>2
<1>11. Names(result) \subseteq Names(existing) \cup Names(overrides)
  BY <1>2, <1>8, <1>10
<1>12. Names(existing) \subseteq Names(result)
  BY <1>2, <1>5, <1>8
<1>13. ASSUME NEW name \in Names(overrides)
       PROVE  name \in Names(result)
  <2>1. PICK p \in DOMAIN overrides : overrides[p].name = name
    BY <1>2
  <2>2. CASE name \in Names(existing)
    BY <1>12, <2>2
  <2>3. CASE name \notin Names(existing)
    <3>1. p \in rest
      BY <2>1, <2>3 DEF rest
    <3>2. PICK i \in DOMAIN result : result[i] = overrides[p]
      BY <1>6, <1>8, <3>1
    <3> QED
      BY <1>2, <1>8, <2>1, <3>2
  <2> QED
    BY <2>2, <2>3
<1>14. Names(result) = Names(existing) \cup Names(overrides)
  BY <1>11, <1>12, <1>13
<1>15. ASSUME NEW name \in Names(overrides)
       PROVE  \E i \in DOMAIN result, j \in DOMAIN overrides :
                result[i] = overrides[j] /\ overrides[j].name = name /\ IsLast(overrides, j)
  <2>1. CASE name \in Names(existing)
    <3>1. PICK i \in DOMAIN existing : existing[i].name = name
      BY <1>2, <2>1
    <3>2. PICK j \in DOMAIN overrides : replaced[i] = overrides[j] /\ IsLast(overrides, j)
      BY <1>5, <1>15, <3>1
    <3> QED
      BY <1>5, <1>8, <3>1, <3>2
  <2>2. CASE name \notin Names(existing)
    <3>1. Named(name) \in rest
      BY <1>3, <2>2 DEF rest
    <3>2. PICK i \in DOMAIN result : result[i] = overrides[Named(name)]
      BY <1>6, <1>8, <3>1
    <3> QED
      BY <1>3, <3>2
  <2> QED
    BY <2>1, <2>2
<1>16. \A i \in DOMAIN existing : i \in DOMAIN result /\ result[i].name = existing[i].name
  BY <1>5, <1>8
<1> QED
  BY <1>8, <1>10, <1>14, <1>15, <1>16 DEF result, Overridden

-----------------------------------------------------------------------------
(* What the merge makes of a list of containers. *)

OwnNames == {"ramdisk-downloader", "ironic", "httpd", "database-upgrade", "online-data-migrations"}
AnyName == OwnNames \cup {c.name : c \in UserContainers \cup UserInits}
Defaults == {"Always", "IfNotPresent"}
AnyPolicy == {"unset", "user"} \cup Defaults \cup AnyName

AnyContainer == [name : AnyName, image : Images, body : Bodies,
                 timing : {"none", "user", "operator"}, policy : AnyPolicy]
AnyVolume == [name : {"ironic-shared"} \cup {v.name : v \in UserVolumes}, body : Bodies]

\* No container has the name of a value of another field.
LEMMA NamesApart == \A n \in AnyName : n \notin {"unset", "user"}
BY PodTemplateBounds DEF AnyName, OwnNames

NothingLeftOut(list) == \A i \in DOMAIN list : list[i].body = "complete"

Fields == {"name", "image", "body", "timing", "policy"}
IsContainer(c) == c = [x \in Fields |-> c[x]]

LEMMA SameContainer ==
  ASSUME NEW c, NEW d, IsContainer(c), IsContainer(d),
         c.name = d.name, c.image = d.image, c.body = d.body,
         c.timing = d.timing, c.policy = d.policy
  PROVE  c = d
BY DEF IsContainer, Fields

LEMMA ContainerTyped ==
  ASSUME NEW c, IsContainer(c),
         c.name \in AnyName, c.image \in Images, c.body \in Bodies,
         c.timing \in {"none", "user", "operator"}, c.policy \in AnyPolicy
  PROVE  c \in AnyContainer
BY DEF IsContainer, Fields, AnyContainer

\* What the merge changes of a container, and what the server does.
Timed(c, timing, policy) == [c EXCEPT !.timing = timing, !.policy = policy]
Whole(c, policy) == [c EXCEPT !.body = "complete", !.policy = policy]

LEMMA Changed ==
  ASSUME NEW c, IsContainer(c), NEW timing, NEW policy
  PROVE  /\ IsContainer(Timed(c, timing, policy))
         /\ Timed(c, timing, policy).name = c.name
         /\ Timed(c, timing, policy).image = c.image
         /\ Timed(c, timing, policy).body = c.body
         /\ Timed(c, timing, policy).timing = timing
         /\ Timed(c, timing, policy).policy = policy
         /\ IsContainer(Whole(c, policy))
         /\ Whole(c, policy).name = c.name
         /\ Whole(c, policy).image = c.image
         /\ Whole(c, policy).timing = c.timing
         /\ Whole(c, policy).body = "complete"
<1>1. /\ IsContainer(Timed(c, timing, policy))
      /\ Timed(c, timing, policy).name = c.name
      /\ Timed(c, timing, policy).image = c.image
      /\ Timed(c, timing, policy).body = c.body
      /\ Timed(c, timing, policy).timing = timing
      /\ Timed(c, timing, policy).policy = policy
  BY DEF IsContainer, Fields, Timed
<1>2. /\ IsContainer(Whole(c, policy))
      /\ Whole(c, policy).name = c.name
      /\ Whole(c, policy).image = c.image
      /\ Whole(c, policy).timing = c.timing
      /\ Whole(c, policy).body = "complete"
  BY DEF IsContainer, Fields, Whole
<1> QED
  BY <1>1, <1>2

OldOf(target, source) ==
  IF Len(target) = Len(source) THEN target ELSE [i \in DOMAIN source |-> Blank]

\* Whatever was there before, a merged container is the one asked for but for
\* the timing of its probe and the fields that the merge leaves alone.
LEMMA MergedContainers ==
  ASSUME NEW source \in Seq(AnyContainer), NEW target, NEW i \in DOMAIN source
  PROVE  LET merged == mergeContainers(target, source)[i]
             old == OldOf(target, source)[i]
         IN  /\ IsContainer(merged)
             /\ merged.name = source[i].name /\ merged.image = source[i].image
             /\ merged.body = source[i].body
             /\ merged.timing = IF source[i].timing = "none" THEN "none" ELSE updateProbe(old.timing)
             /\ merged.policy = old.policy
<1> DEFINE old == OldOf(target, source)[i]
           timing == IF source[i].timing = "none" THEN "none" ELSE updateProbe(old.timing)
<1>1. mergeContainers(target, source)[i] = Timed(source[i], timing, old.policy)
  BY DEF mergeContainers, OldOf, Timed
<1>2. source[i] \in AnyContainer
  OBVIOUS
<1>3. IsContainer(source[i])
  BY <1>2 DEF AnyContainer, IsContainer, Fields
<1> HIDE DEF timing, old
<1>4. LET merged == Timed(source[i], timing, old.policy)
      IN  /\ IsContainer(merged)
          /\ merged.name = source[i].name /\ merged.image = source[i].image
          /\ merged.body = source[i].body /\ merged.timing = timing /\ merged.policy = old.policy
  BY <1>3, Changed
<1> QED
  BY <1>1, <1>4 DEF timing, old

LEMMA MergedLength ==
  ASSUME NEW source \in Seq(AnyContainer), NEW target
  PROVE  LET merged == mergeContainers(target, source)
         IN  DOMAIN merged = DOMAIN source /\ merged = [i \in DOMAIN source |-> merged[i]]
BY DEF mergeContainers

\* The timing of a probe is never "none".
LEMMA ProbesTimed == \A current : updateProbe(current) # "none"
BY DEF updateProbe

Complete(list) ==
  [i \in DOMAIN list |->
     [list[i] EXCEPT
        !.body = "complete",
        !.policy = IF @ # "unset" THEN @
                   ELSE IF list[i].image = "latest" THEN "Always" ELSE "IfNotPresent"]]

\* With nothing left out, a list that was merged and completed by the server is
\* merged into itself.
LEMMA CompletedStays ==
  ASSUME NEW source \in Seq(AnyContainer), NEW target,
         \A i \in DOMAIN source : source[i].body = "complete"
  PROVE  LET stays == Complete(mergeContainers(target, source))
         IN  mergeContainers(stays, source) = stays
<1> DEFINE merged == mergeContainers(target, source)
           stays == Complete(merged)
           again == mergeContainers(stays, source)
<1>1. DOMAIN merged = DOMAIN source
  BY MergedLength
<1>2. DOMAIN stays = DOMAIN source /\ stays = [i \in DOMAIN source |-> stays[i]]
  BY <1>1 DEF Complete
<1>3. Len(stays) = Len(source)
  <2> HIDE DEF stays
  <2>1. DOMAIN source = 1 .. Len(source) /\ Len(source) \in Nat
    OBVIOUS
  <2>2. stays \in Seq({stays[i] : i \in DOMAIN source})
    BY <1>2, <2>1
  <2> QED
    BY <1>2, <2>1, <2>2
<1>4. OldOf(stays, source) = stays
  BY <1>3 DEF OldOf
<1>5. DOMAIN again = DOMAIN source /\ again = [i \in DOMAIN source |-> again[i]]
  BY MergedLength
<1>6. ASSUME NEW i \in DOMAIN source
      PROVE  again[i] = stays[i]
  <2> DEFINE policy == IF merged[i].policy # "unset" THEN merged[i].policy
                       ELSE IF merged[i].image = "latest" THEN "Always" ELSE "IfNotPresent"
  <2>1. /\ IsContainer(merged[i])
        /\ merged[i].name = source[i].name /\ merged[i].image = source[i].image
        /\ merged[i].timing = "none" <=> source[i].timing = "none"
    BY MergedContainers, ProbesTimed
  <2>2. stays[i] = Whole(merged[i], policy)
    BY <1>1 DEF Complete, Whole
  <2> HIDE DEF merged, policy
  <2>3. /\ IsContainer(stays[i])
        /\ stays[i].name = source[i].name /\ stays[i].image = source[i].image
        /\ stays[i].body = "complete" /\ stays[i].timing = merged[i].timing
    BY <2>1, <2>2, Changed
  <2> HIDE DEF stays
  <2>4. /\ IsContainer(again[i])
        /\ again[i].name = source[i].name /\ again[i].image = source[i].image
        /\ again[i].body = source[i].body
        /\ again[i].timing = IF source[i].timing = "none" THEN "none"
                             ELSE updateProbe(stays[i].timing)
        /\ again[i].policy = stays[i].policy
    BY <1>4, MergedContainers
  <2>5. again[i].timing = stays[i].timing
    BY <2>1, <2>3, <2>4 DEF updateProbe
  <2> HIDE DEF again
  <2> QED
    BY <2>3, <2>4, <2>5, SameContainer
<1> HIDE DEF again, stays
<1>7. again = stays
  BY <1>2, <1>5, <1>6
<1> QED
  BY <1>7 DEF again, stays, merged

-----------------------------------------------------------------------------
(* What is asked for. *)

OwnInit(s) == IF s.downloader THEN <<Container("ramdisk-downloader", s.image, "none")>> ELSE <<>>
OwnContainers(s) ==
  <<Container("ironic", s.image, "operator"),
    Container("httpd", s.image, IF s.probe THEN "user" ELSE "operator")>>
OwnVolumes == <<[name |-> "ironic-shared", body |-> "complete"]>>

LEMMA Asked ==
  ASSUME NEW s
  PROVE  /\ newIronicPodTemplate(s).initContainers =
              applyContainerOverrides(OwnInit(s), s.initContainers)
         /\ newIronicPodTemplate(s).containers =
              applyContainerOverrides(OwnContainers(s), s.containers)
         /\ newIronicPodTemplate(s).volumes = applyContainerOverrides(OwnVolumes, s.volumes)
         /\ newIronicPodTemplate(s).node = s.node
BY DEF newIronicPodTemplate, applyOverridesToPod, applyVolumeOverrides,
       OwnInit, OwnContainers, OwnVolumes

LEMMA SpecLists ==
  ASSUME NEW s \in Specs
  PROVE  /\ s.image \in Images /\ s.probe \in BOOLEAN /\ s.downloader \in BOOLEAN
         /\ s.containers \in Seq(AnyContainer)
         /\ s.initContainers \in Seq(AnyContainer)
         /\ s.volumes \in Seq(AnyVolume)
         /\ ~Sparse => /\ NothingLeftOut(s.containers) /\ NothingLeftOut(s.initContainers)
                       /\ NothingLeftOut(s.volumes)
<1>1. /\ s.image \in Images /\ s.probe \in BOOLEAN /\ s.downloader \in BOOLEAN
      /\ s.containers \in BoundedSeq(UserContainers, MaxContainers)
      /\ s.initContainers \in BoundedSeq(UserInits, MaxContainers)
      /\ s.volumes \in BoundedSeq(UserVolumes, MaxVolumes)
  BY DEF Specs
<1>2. /\ s.containers \in Seq(UserContainers) /\ s.initContainers \in Seq(UserInits)
      /\ s.volumes \in Seq(UserVolumes)
  BY <1>1, ShortLists, PodTemplateBounds
<1>3. /\ UserContainers \subseteq AnyContainer /\ UserInits \subseteq AnyContainer
      /\ UserVolumes \subseteq AnyVolume
  <2>1. ASSUME NEW c \in UserContainers \cup UserInits
        PROVE  c \in AnyContainer
    <3>1. c \in Overriding
      BY PodTemplateBounds
    <3>2. /\ IsContainer(c) /\ c.image \in Images /\ c.body \in Bodies
          /\ c.timing \in {"none", "user"} /\ c.policy \in {"unset", "user"}
      BY <3>1 DEF Overriding, IsContainer, Fields
    <3> QED
      BY <3>2, ContainerTyped DEF AnyName, AnyPolicy
  <2>2. ASSUME NEW v \in UserVolumes
        PROVE  v \in AnyVolume
    <3>1. v \in [name : STRING, body : Bodies]
      BY PodTemplateBounds
    <3>2. v = [x \in {"name", "body"} |-> v[x]] /\ v.body \in Bodies
      BY <3>1
    <3>3. v.name \in {"ironic-shared"} \cup {w.name : w \in UserVolumes}
      OBVIOUS
    <3> QED
      BY <3>2, <3>3 DEF AnyVolume
  <2> QED
    BY <2>1, <2>2
<1>4. /\ s.containers \in Seq(AnyContainer) /\ s.initContainers \in Seq(AnyContainer)
      /\ s.volumes \in Seq(AnyVolume)
  BY <1>2, <1>3
<1>5. ASSUME ~Sparse
      PROVE  NothingLeftOut(s.containers) /\ NothingLeftOut(s.initContainers) /\ NothingLeftOut(s.volumes)
  <2>1. /\ \A c \in UserContainers : c.body = "complete"
        /\ \A c \in UserInits : c.body = "complete"
        /\ \A c \in UserVolumes : c.body = "complete"
    <3>1. /\ \A c \in UserContainers \cup UserInits : c.body \in Bodies
          /\ \A c \in UserVolumes : c.body \in Bodies
      BY PodTemplateBounds DEF Overriding
    <3> QED
      BY <1>5, <3>1 DEF Sparse, Bodies
  <2> QED
    BY <1>2, <2>1 DEF NothingLeftOut
<1> QED
  BY <1>1, <1>4, <1>5

\* What every pod has comes first.
CoreFirst(list) == {1, 2} \subseteq DOMAIN list /\ list[1].name = "ironic" /\ list[2].name = "httpd"

LEMMA BuiltTyped ==
  ASSUME NEW name \in OwnNames, NEW image \in Images,
         NEW timing \in {"none", "user", "operator"}
  PROVE  LET c == Container(name, image, timing)
         IN  /\ c \in AnyContainer /\ c.name = name /\ c.image = image
             /\ c.body = "complete" /\ c.timing = timing
<1> DEFINE c == Container(name, image, timing)
<1>1. /\ IsContainer(c) /\ c.name = name /\ c.image = image
      /\ c.body = "complete" /\ c.timing = timing /\ c.policy = "unset"
  BY DEF Container, IsContainer, Fields
<1> HIDE DEF c
<1>2. c \in AnyContainer
  BY <1>1, ContainerTyped DEF AnyName, AnyPolicy, Bodies
<1> QED
  BY <1>1, <1>2 DEF c

LEMMA OwnLists ==
  ASSUME NEW s \in Specs
  PROVE  /\ OwnInit(s) \in Seq(AnyContainer)
         /\ OwnContainers(s) \in Seq(AnyContainer)
         /\ OwnVolumes \in Seq(AnyVolume)
         /\ NothingLeftOut(OwnInit(s)) /\ \A i \in DOMAIN OwnInit(s) : OwnInit(s)[i].image = s.image
         /\ NothingLeftOut(OwnContainers(s))
         /\ \A i \in DOMAIN OwnContainers(s) : OwnContainers(s)[i].image = s.image
         /\ NothingLeftOut(OwnVolumes)
         /\ CoreFirst(OwnContainers(s))
         /\ Names(OwnInit(s)) = BuiltInits(s)
         /\ Names(OwnContainers(s)) = {"ironic", "httpd"}
         /\ Names(OwnVolumes) = {"ironic-shared"}
<1>1. s.image \in Images
  BY SpecLists
<1>2. ASSUME NEW name \in {"ramdisk-downloader", "ironic", "httpd"},
             NEW timing \in {"none", "user", "operator"}
      PROVE  LET c == Container(name, s.image, timing)
             IN  /\ c \in AnyContainer /\ c.name = name /\ c.image = s.image
                 /\ c.body = "complete" /\ c.timing = timing
  BY <1>1, BuiltTyped DEF OwnNames
<1> DEFINE down == Container("ramdisk-downloader", s.image, "none")
           ironic == Container("ironic", s.image, "operator")
           httpd == Container("httpd", s.image, IF s.probe THEN "user" ELSE "operator")
           volume == [name |-> "ironic-shared", body |-> "complete"]
<1>3. /\ down \in AnyContainer /\ down.name = "ramdisk-downloader" /\ down.image = s.image
      /\ down.body = "complete"
  BY <1>2
<1>4. /\ ironic \in AnyContainer /\ ironic.name = "ironic" /\ ironic.image = s.image
      /\ ironic.body = "complete"
  BY <1>2
<1>5. /\ httpd \in AnyContainer /\ httpd.name = "httpd" /\ httpd.image = s.image
      /\ httpd.body = "complete"
  BY <1>2
<1>6. volume \in AnyVolume /\ volume.name = "ironic-shared" /\ volume.body = "complete"
  BY DEF AnyVolume, Bodies
<1>7. /\ OwnInit(s) = IF s.downloader THEN <<down>> ELSE <<>>
      /\ OwnContainers(s) = <<ironic, httpd>>
      /\ OwnVolumes = <<volume>>
  BY DEF OwnInit, OwnContainers, OwnVolumes
<1> HIDE DEF down, ironic, httpd, volume
<1>8. ASSUME NEW c
      PROVE  Names(<<c>>) = {c.name} /\ DOMAIN <<c>> = {1} /\ <<c>>[1] = c
  BY DEF Names, Range
<1>9. Names(<<>>) = {} /\ DOMAIN <<>> = {}
  BY DEF Names, Range
<1>10. /\ Names(<<ironic, httpd>>) = {ironic.name, httpd.name}
       /\ DOMAIN <<ironic, httpd>> = {1, 2}
       /\ <<ironic, httpd>>[1] = ironic /\ <<ironic, httpd>>[2] = httpd
  <2>1. /\ DOMAIN <<ironic, httpd>> = {1, 2}
        /\ <<ironic, httpd>>[1] = ironic /\ <<ironic, httpd>>[2] = httpd
    OBVIOUS
  <2>2. Range(<<ironic, httpd>>) = {ironic, httpd}
    BY <2>1 DEF Range
  <2> QED
    BY <2>1, <2>2 DEF Names
<1>11. /\ OwnInit(s) \in Seq(AnyContainer)
       /\ NothingLeftOut(OwnInit(s)) /\ \A i \in DOMAIN OwnInit(s) : OwnInit(s)[i].image = s.image
       /\ Names(OwnInit(s)) = BuiltInits(s)
  <2>1. CASE s.downloader
    BY <1>3, <1>7, <1>8, <2>1 DEF NothingLeftOut, BuiltInits
  <2>2. CASE ~s.downloader
    BY <1>7, <1>9, <2>2 DEF NothingLeftOut, BuiltInits
  <2> QED
    BY <2>1, <2>2
<1>12. /\ OwnContainers(s) \in Seq(AnyContainer)
       /\ NothingLeftOut(OwnContainers(s)) /\ CoreFirst(OwnContainers(s))
       /\ \A i \in DOMAIN OwnContainers(s) : OwnContainers(s)[i].image = s.image
       /\ Names(OwnContainers(s)) = {"ironic", "httpd"}
  BY <1>4, <1>5, <1>7, <1>10 DEF NothingLeftOut, CoreFirst
<1>13. /\ OwnVolumes \in Seq(AnyVolume)
       /\ NothingLeftOut(OwnVolumes)
       /\ Names(OwnVolumes) = {"ironic-shared"}
  BY <1>6, <1>7, <1>8 DEF NothingLeftOut
<1> QED
  BY <1>11, <1>12, <1>13

\* Overrides that leave nothing out put nothing incomplete into a list.
LEMMA OverriddenWhole ==
  ASSUME NEW result, NEW existing, NEW overrides, Overridden(result, existing, overrides),
         NothingLeftOut(existing), NothingLeftOut(overrides)
  PROVE  NothingLeftOut(result)
BY DEF Overridden, NothingLeftOut

\* The template that is asked for.
LEMMA AskedLists ==
  ASSUME NEW s \in Specs
  PROVE  LET asked == newIronicPodTemplate(s)
         IN  /\ asked.initContainers \in Seq(AnyContainer)
             /\ asked.containers \in Seq(AnyContainer)
             /\ asked.volumes \in Seq(AnyVolume)
             /\ Overridden(asked.initContainers, OwnInit(s), s.initContainers)
             /\ Overridden(asked.containers, OwnContainers(s), s.containers)
             /\ Overridden(asked.volumes, OwnVolumes, s.volumes)
             /\ CoreFirst(asked.containers)
             /\ ~Sparse => /\ NothingLeftOut(asked.initContainers) /\ NothingLeftOut(asked.containers)
                           /\ NothingLeftOut(asked.volumes)
<1> DEFINE inits == newIronicPodTemplate(s).initContainers
           containers == newIronicPodTemplate(s).containers
           volumes == newIronicPodTemplate(s).volumes
<1>1. inits \in Seq(AnyContainer) /\ Overridden(inits, OwnInit(s), s.initContainers)
  BY Asked, SpecLists, OwnLists, AppliedOverrides
<1>2. containers \in Seq(AnyContainer) /\ Overridden(containers, OwnContainers(s), s.containers)
  BY Asked, SpecLists, OwnLists, AppliedOverrides
<1>3. volumes \in Seq(AnyVolume) /\ Overridden(volumes, OwnVolumes, s.volumes)
  BY Asked, SpecLists, OwnLists, AppliedOverrides
<1> HIDE DEF inits, containers, volumes
<1>4. CoreFirst(containers)
  BY <1>2, OwnLists DEF CoreFirst, Overridden
<1>5. ~Sparse => NothingLeftOut(inits) /\ NothingLeftOut(containers) /\ NothingLeftOut(volumes)
  BY <1>1, <1>2, <1>3, SpecLists, OwnLists, OverriddenWhole
<1> QED
  BY <1>1, <1>2, <1>3, <1>4, <1>5 DEF inits, containers, volumes

-----------------------------------------------------------------------------
(* The labels of what is written. *)

LEMMA Merged ==
  ASSUME NEW a \in Labels, NEW b \in Labels
  PROVE  /\ mergeMaps(a, b) \in Labels
         /\ \A k \in Keys : mergeMaps(a, b)[k] = IF a[k] # "none" THEN a[k] ELSE b[k]
BY DEF mergeMaps, Labels, Keys

LEMMA AskedLabels ==
  ASSUME NEW s \in Specs
  PROVE  /\ newIronicPodTemplate(s).labels \in Labels
         /\ newIronicPodTemplate(s).labels["version"] = s.image
         /\ newIronicPodTemplate(s).labels["other"] = "none"
<1> DEFINE own == [version |-> s.image, mine |-> "none", other |-> "none"]
           users == [k \in DOMAIN own |-> IF k \in s.labels THEN "user" ELSE "none"]
<1>1. own \in Labels /\ own["version"] = s.image /\ own["version"] # "none" /\ own["other"] = "none"
  BY DEF Specs, Images, Labels
<1>2. users \in Labels /\ users["other"] = "none"
  BY <1>1 DEF Specs, Labels
<1>3. newIronicPodTemplate(s).labels = mergeMaps(own, users)
  BY DEF newIronicPodTemplate, applyOverridesToPod
<1> QED
  BY <1>1, <1>2, <1>3, Merged DEF Keys

LEMMA WrittenLabels ==
  ASSUME NEW s \in Specs, NEW target, target.labels \in Labels
  PROVE  LET t == Defaulted(mergePodTemplates(target, newIronicPodTemplate(s)))
         IN  /\ DOMAIN t = DOMAIN Absent
             /\ t.labels \in Labels
             /\ t.labels["version"] \in Images
             /\ target.labels["other"] = "user" => t.labels["other"] = "user"
<1> DEFINE asked == newIronicPodTemplate(s)
           t == Defaulted(mergePodTemplates(target, asked))
<1>1. /\ DOMAIN t = DOMAIN Absent
      /\ t.labels = mergeMaps(asked.labels, target.labels)
  BY DEF Defaulted, mergePodTemplates, Absent
<1>2. s.image \in Images /\ s.image # "none"
  BY DEF Specs, Images
<1> HIDE DEF asked
<1>3. asked.labels \in Labels /\ asked.labels["version"] = s.image /\ asked.labels["other"] = "none"
  BY AskedLabels DEF asked
<1> HIDE DEF t
<1>4. /\ t.labels \in Labels
      /\ t.labels["version"] = s.image
      /\ target.labels["other"] = "user" => t.labels["other"] = "user"
  BY <1>1, <1>2, <1>3, Merged DEF Keys
<1> QED
  BY <1>1, <1>2, <1>4 DEF t, asked

-----------------------------------------------------------------------------
(* What is written. *)

Parts == {"initContainers", "containers", "volumes", "node", "labels"}
IsTemplate(t) == t = [x \in Parts |-> t[x]]

LEMMA SameTemplate ==
  ASSUME NEW t, NEW u, IsTemplate(t), IsTemplate(u),
         t.initContainers = u.initContainers, t.containers = u.containers,
         t.volumes = u.volumes, t.node = u.node, t.labels = u.labels
  PROVE  t = u
BY DEF IsTemplate, Parts

LEMMA MergedParts ==
  ASSUME NEW target, NEW source
  PROVE  /\ IsTemplate(mergePodTemplates(target, source))
         /\ mergePodTemplates(target, source).initContainers =
              mergeContainers(target.initContainers, source.initContainers)
         /\ mergePodTemplates(target, source).containers =
              mergeContainers(target.containers, source.containers)
         /\ mergePodTemplates(target, source).volumes = source.volumes
         /\ mergePodTemplates(target, source).node =
              IF source.node # "any" THEN source.node ELSE target.node
         /\ mergePodTemplates(target, source).labels = mergeMaps(source.labels, target.labels)
<1> DEFINE merged == mergePodTemplates(target, source)
<1>1. IsTemplate(merged)
  BY DEF IsTemplate, Parts, mergePodTemplates
<1>2. /\ merged.initContainers = mergeContainers(target.initContainers, source.initContainers)
      /\ merged.containers = mergeContainers(target.containers, source.containers)
      /\ merged.volumes = source.volumes
      /\ merged.node = IF source.node # "any" THEN source.node ELSE target.node
      /\ merged.labels = mergeMaps(source.labels, target.labels)
  BY DEF mergePodTemplates
<1> QED
  BY <1>1, <1>2

LEMMA DefaultedParts ==
  ASSUME NEW t, IsTemplate(t)
  PROVE  /\ IsTemplate(Defaulted(t))
         /\ Defaulted(t).initContainers = Complete(t.initContainers)
         /\ Defaulted(t).containers = Complete(t.containers)
         /\ Defaulted(t).volumes =
              [i \in DOMAIN t.volumes |-> [t.volumes[i] EXCEPT !.body = "complete"]]
         /\ Defaulted(t).node = t.node
         /\ Defaulted(t).labels = t.labels
<1> DEFINE inits == Complete(t.initContainers)
           conts == Complete(t.containers)
           vols == [i \in DOMAIN t.volumes |-> [t.volumes[i] EXCEPT !.body = "complete"]]
<1>1. Defaulted(t) = [t EXCEPT !.initContainers = inits, !.containers = conts, !.volumes = vols]
  BY DEF Defaulted, Complete
<1>2. DOMAIN t = Parts
  BY DEF IsTemplate
<1> HIDE DEF inits, conts, vols
<1> QED
  BY <1>1, <1>2 DEF IsTemplate, Parts, inits, conts, vols

\* Merging the labels again, or after others added one, changes nothing.
LEMMA LabelsStay ==
  ASSUME NEW a \in Labels, NEW b \in Labels
  PROVE  /\ mergeMaps(a, mergeMaps(a, b)) = mergeMaps(a, b)
         /\ a["other"] = "none" /\ mergeMaps(a, b) = b =>
              mergeMaps(a, [b EXCEPT !["other"] = "user"]) = [b EXCEPT !["other"] = "user"]
<1>1. DOMAIN a = Keys /\ DOMAIN b = Keys
  BY DEF Labels, Keys
<1>2. \A m : mergeMaps(a, m) = [k \in Keys |-> IF a[k] # "none" THEN a[k] ELSE m[k]]
  BY <1>1 DEF mergeMaps
<1>3. mergeMaps(a, mergeMaps(a, b)) = mergeMaps(a, b)
  BY <1>2
<1>4. ASSUME a["other"] = "none", mergeMaps(a, b) = b
      PROVE  mergeMaps(a, [b EXCEPT !["other"] = "user"]) = [b EXCEPT !["other"] = "user"]
  <2> DEFINE c == [b EXCEPT !["other"] = "user"]
  <2>1. DOMAIN c = Keys /\ c = [k \in Keys |-> c[k]]
    BY <1>1
  <2>2. \A k \in Keys : c[k] = IF k = "other" THEN "user" ELSE b[k]
    BY <1>1
  <2> HIDE DEF c
  <2>3. \A k \in Keys : b[k] = IF a[k] # "none" THEN a[k] ELSE b[k]
    BY <1>2, <1>4
  <2>4. \A k \in Keys : c[k] = IF a[k] # "none" THEN a[k] ELSE c[k]
    BY <1>4, <2>2, <2>3
  <2>5. mergeMaps(a, c) = [k \in Keys |-> c[k]]
    BY <1>2, <2>4
  <2> QED
    BY <2>1, <2>5 DEF c
<1> QED
  BY <1>3, <1>4

\* Templates that may be asked for, and those of them that leave nothing out.
Askable(t) ==
  /\ t.labels \in Labels /\ t.labels["other"] = "none"
  /\ t.initContainers \in Seq(AnyContainer)
  /\ t.containers \in Seq(AnyContainer)
  /\ t.volumes \in Seq(AnyVolume)

LeavesNothingOut(t) ==
  /\ NothingLeftOut(t.initContainers) /\ NothingLeftOut(t.containers)
  /\ NothingLeftOut(t.volumes)

\* What is written of a template that leaves nothing out is merged into itself.
LEMMA WrittenStays ==
  ASSUME NEW asked, Askable(asked), LeavesNothingOut(asked),
         NEW target, target.labels \in Labels
  PROVE  LET written == Defaulted(mergePodTemplates(target, asked))
         IN  /\ mergePodTemplates(written, asked) = written
             /\ written.labels \in Labels
<1> DEFINE merged == mergePodTemplates(target, asked)
           written == Defaulted(merged)
           again == mergePodTemplates(written, asked)
<1>1. /\ asked.labels \in Labels
      /\ asked.initContainers \in Seq(AnyContainer)
      /\ asked.containers \in Seq(AnyContainer)
      /\ asked.volumes \in Seq(AnyVolume)
      /\ \A i \in DOMAIN asked.initContainers : asked.initContainers[i].body = "complete"
      /\ \A i \in DOMAIN asked.containers : asked.containers[i].body = "complete"
      /\ \A i \in DOMAIN asked.volumes : asked.volumes[i].body = "complete"
  BY DEF Askable, LeavesNothingOut, NothingLeftOut
<1>2. /\ IsTemplate(merged)
      /\ merged.initContainers = mergeContainers(target.initContainers, asked.initContainers)
      /\ merged.containers = mergeContainers(target.containers, asked.containers)
      /\ merged.volumes = asked.volumes
      /\ merged.node = IF asked.node # "any" THEN asked.node ELSE target.node
      /\ merged.labels = mergeMaps(asked.labels, target.labels)
  BY MergedParts
<1> HIDE DEF merged
<1>3. /\ IsTemplate(written)
      /\ written.initContainers = Complete(merged.initContainers)
      /\ written.containers = Complete(merged.containers)
      /\ written.volumes =
           [i \in DOMAIN merged.volumes |-> [merged.volumes[i] EXCEPT !.body = "complete"]]
      /\ written.node = merged.node
      /\ written.labels = merged.labels
  BY <1>2, DefaultedParts
<1> HIDE DEF written
<1>4. /\ IsTemplate(again)
      /\ again.initContainers = mergeContainers(written.initContainers, asked.initContainers)
      /\ again.containers = mergeContainers(written.containers, asked.containers)
      /\ again.volumes = asked.volumes
      /\ again.node = IF asked.node # "any" THEN asked.node ELSE written.node
      /\ again.labels = mergeMaps(asked.labels, written.labels)
  BY MergedParts
<1> HIDE DEF again
<1>5. again.initContainers = written.initContainers
  BY <1>1, <1>2, <1>3, <1>4, CompletedStays
<1>6. again.containers = written.containers
  BY <1>1, <1>2, <1>3, <1>4, CompletedStays
<1>7. again.volumes = written.volumes
  <2>1. ASSUME NEW v \in AnyVolume, v.body = "complete"
        PROVE  [v EXCEPT !.body = "complete"] = v
    BY <2>1 DEF AnyVolume
  <2>2. \A i \in DOMAIN asked.volumes : asked.volumes[i] \in AnyVolume
    BY <1>1
  <2>3. \A i \in DOMAIN asked.volumes : [asked.volumes[i] EXCEPT !.body = "complete"] = asked.volumes[i]
    BY <1>1, <2>1, <2>2
  <2>4. written.volumes = [i \in DOMAIN asked.volumes |-> asked.volumes[i]]
    BY <1>2, <1>3, <2>3
  <2> QED
    BY <1>1, <1>4, <2>4
<1>8. again.node = written.node
  BY <1>2, <1>3, <1>4
<1>9. again.labels = written.labels
  <2>1. mergeMaps(asked.labels, mergeMaps(asked.labels, target.labels)) =
          mergeMaps(asked.labels, target.labels)
    BY <1>1, LabelsStay
  <2> QED
    BY <1>2, <1>3, <1>4, <2>1
<1>10. again = written
  BY <1>3, <1>4, <1>5, <1>6, <1>7, <1>8, <1>9, SameTemplate
<1>11. written.labels \in Labels
  BY <1>1, <1>2, <1>3, Merged
<1> QED
  BY <1>10, <1>11 DEF again, written, merged

\* A label that others put on the workload does not make it differ.
LEMMA LabelledStays ==
  ASSUME NEW asked, Askable(asked), NEW target, target.labels \in Labels,
         mergePodTemplates(target, asked) = target
  PROVE  mergePodTemplates(Labelled(target), asked) = Labelled(target)
<1> DEFINE merged == mergePodTemplates(target, asked)
           labelled == Labelled(target)
           again == mergePodTemplates(labelled, asked)
<1>1. asked.labels \in Labels /\ asked.labels["other"] = "none"
  BY DEF Askable
<1>2. /\ IsTemplate(merged)
      /\ merged.initContainers = mergeContainers(target.initContainers, asked.initContainers)
      /\ merged.containers = mergeContainers(target.containers, asked.containers)
      /\ merged.volumes = asked.volumes
      /\ merged.node = IF asked.node # "any" THEN asked.node ELSE target.node
      /\ merged.labels = mergeMaps(asked.labels, target.labels)
  BY MergedParts
<1>3. merged = target
  OBVIOUS
<1>4. DOMAIN target = Parts
  BY <1>2, <1>3 DEF IsTemplate
<1>5. /\ IsTemplate(labelled)
      /\ labelled.initContainers = target.initContainers
      /\ labelled.containers = target.containers
      /\ labelled.volumes = target.volumes
      /\ labelled.node = target.node
      /\ labelled.labels = [target.labels EXCEPT !["other"] = "user"]
  BY <1>4 DEF IsTemplate, Parts, Labelled
<1> HIDE DEF labelled, merged
<1>6. /\ IsTemplate(again)
      /\ again.initContainers = mergeContainers(labelled.initContainers, asked.initContainers)
      /\ again.containers = mergeContainers(labelled.containers, asked.containers)
      /\ again.volumes = asked.volumes
      /\ again.node = IF asked.node # "any" THEN asked.node ELSE labelled.node
      /\ again.labels = mergeMaps(asked.labels, labelled.labels)
  BY MergedParts
<1> HIDE DEF again
<1>7. again.labels = labelled.labels
  <2>1. mergeMaps(asked.labels, target.labels) = target.labels
    BY <1>2, <1>3
  <2> QED
    BY <1>1, <1>5, <1>6, <2>1, LabelsStay
<1>8. /\ again.initContainers = labelled.initContainers
      /\ again.containers = labelled.containers
      /\ again.volumes = labelled.volumes
      /\ again.node = labelled.node
  BY <1>2, <1>3, <1>5, <1>6
<1>9. again = labelled
  BY <1>5, <1>6, <1>7, <1>8, SameTemplate
<1> QED
  BY <1>9 DEF again, labelled

\* The template of the workload is such a template.
LEMMA AskedPlain ==
  ASSUME NEW s \in Specs
  PROVE  /\ Askable(newIronicPodTemplate(s))
         /\ ~Sparse => LeavesNothingOut(newIronicPodTemplate(s))
<1> DEFINE asked == newIronicPodTemplate(s)
<1>1. /\ asked.initContainers \in Seq(AnyContainer)
      /\ asked.containers \in Seq(AnyContainer)
      /\ asked.volumes \in Seq(AnyVolume)
      /\ ~Sparse => /\ NothingLeftOut(asked.initContainers) /\ NothingLeftOut(asked.containers)
                    /\ NothingLeftOut(asked.volumes)
  BY AskedLists
<1>2. asked.labels \in Labels /\ asked.labels["other"] = "none"
  BY AskedLabels
<1> HIDE DEF asked
<1>3. Askable(asked) /\ (~Sparse => LeavesNothingOut(asked))
  BY <1>1, <1>2 DEF Askable, LeavesNothingOut
<1> QED
  BY <1>3 DEF asked

\* A template that merging changes nothing of has what its spec asks for.
Follows(s, t) ==
  /\ Carries(t.containers, {"ironic", "httpd"}, s.image, s.containers)
  /\ Carries(t.initContainers, BuiltInits(s), s.image, s.initContainers)
  /\ Names(t.volumes) = {"ironic-shared"} \cup Names(s.volumes)
  /\ s.node = "chosen" => t.node = "chosen"
  /\ t.labels["version"] = s.image
  /\ "mine" \in s.labels => t.labels["mine"] = "user"

LEMMA AskedMine ==
  ASSUME NEW s \in Specs, "mine" \in s.labels
  PROVE  newIronicPodTemplate(s).labels["mine"] = "user"
<1> DEFINE own == [version |-> s.image, mine |-> "none", other |-> "none"]
           users == [k \in DOMAIN own |-> IF k \in s.labels THEN "user" ELSE "none"]
<1>1. own \in Labels /\ own["mine"] = "none"
  BY DEF Specs, Images, Labels
<1>2. users \in Labels /\ users["mine"] = "user"
  BY <1>1 DEF Specs, Labels
<1>3. newIronicPodTemplate(s).labels = mergeMaps(own, users)
  BY DEF newIronicPodTemplate, applyOverridesToPod
<1> QED
  BY <1>1, <1>2, <1>3, Merged DEF Keys

\* A list with the elements asked for, but for what the merge and the server do
\* to them.
Resembles(list, asked) ==
  /\ DOMAIN list = DOMAIN asked
  /\ \A i \in DOMAIN asked :
       /\ list[i].name = asked[i].name /\ list[i].image = asked[i].image
       /\ list[i].timing = "none" <=> asked[i].timing = "none"

LEMMA MergedResembles ==
  ASSUME NEW source \in Seq(AnyContainer), NEW target
  PROVE  Resembles(mergeContainers(target, source), source)
<1> DEFINE merged == mergeContainers(target, source)
<1>1. DOMAIN merged = DOMAIN source
  BY MergedLength
<1>2. ASSUME NEW i \in DOMAIN source
      PROVE  /\ merged[i].name = source[i].name /\ merged[i].image = source[i].image
             /\ merged[i].timing = "none" <=> source[i].timing = "none"
  BY MergedContainers, ProbesTimed
<1> QED
  BY <1>1, <1>2 DEF Resembles

LEMMA ResemblesNames ==
  ASSUME NEW list, NEW asked, Resembles(list, asked)
  PROVE  Names(list) = Names(asked) /\ (Twice(list, {}) <=> Twice(asked, {}))
<1>1. Names(list) = Names(asked)
  BY DEF Resembles, Names, Range
<1>2. Twice(list, {}) <=> Twice(asked, {})
  BY DEF Resembles, Twice
<1> QED
  BY <1>1, <1>2

\* What has each name once has the last override of each.
LEMMA Carried ==
  ASSUME NEW list, NEW asked \in Seq(AnyContainer), NEW own \in Seq(AnyContainer),
         NEW overrides \in Seq(AnyContainer), NEW image,
         Overridden(asked, own, overrides), Resembles(list, asked), ~Twice(list, {}),
         \A i \in DOMAIN own : own[i].image = image
  PROVE  Carries(list, Names(own), image, overrides)
<1>1. Names(list) = Names(own) \cup Names(overrides)
  BY ResemblesNames DEF Overridden
<1>2. ASSUME NEW c \in Range(list), c.name \notin Names(overrides)
      PROVE  c.image = image
  <2>1. PICK i \in DOMAIN asked : c = list[i]
    BY DEF Range, Resembles
  <2>2. c.name = asked[i].name /\ c.image = asked[i].image
    BY <2>1 DEF Resembles
  <2>3. ~(\E j \in DOMAIN overrides : asked[i] = overrides[j])
    BY <1>2, <2>2 DEF Names, Range
  <2>4. \E j \in DOMAIN own : asked[i] = own[j]
    BY <2>3 DEF Overridden
  <2> QED
    BY <2>2, <2>4
<1>3. ASSUME NEW c \in Range(list), c.name \in Names(overrides)
      PROVE  \E i \in DOMAIN overrides :
               /\ overrides[i].name = c.name
               /\ \A j \in DOMAIN overrides : j > i => overrides[j].name # c.name
               /\ c.image = overrides[i].image
               /\ c.timing = "none" <=> overrides[i].timing = "none"
  <2>1. PICK i \in DOMAIN asked : c = list[i]
    BY DEF Range, Resembles
  <2>2. PICK k \in DOMAIN asked, j \in DOMAIN overrides :
          asked[k] = overrides[j] /\ overrides[j].name = c.name /\ IsLast(overrides, j)
    BY <1>3 DEF Overridden
  <2>3. list[i].name = list[k].name
    BY <2>1, <2>2 DEF Resembles
  <2>4. i \in Nat /\ k \in Nat /\ i \in DOMAIN list /\ k \in DOMAIN list
    BY DEF Resembles
  <2>5. ~(i < k) /\ ~(k < i)
    BY <2>3, <2>4 DEF Twice
  <2>6. i = k
    BY <2>4, <2>5
  <2>7. c.image = overrides[j].image /\ (c.timing = "none" <=> overrides[j].timing = "none")
    BY <2>1, <2>2, <2>6 DEF Resembles
  <2> QED
    BY <2>2, <2>7 DEF IsLast
<1> QED
  BY <1>1, <1>2, <1>3 DEF Carries

LEMMA StaysFollows ==
  ASSUME NEW s \in Specs, NEW t, t.labels \in Labels,
         mergePodTemplates(t, newIronicPodTemplate(s)) = t,
         ~Twice(t.containers, {}), ~Twice(t.initContainers, {})
  PROVE  Follows(s, t)
<1> DEFINE asked == newIronicPodTemplate(s)
<1>1. /\ asked.labels \in Labels /\ asked.labels["version"] = s.image
      /\ "mine" \in s.labels => asked.labels["mine"] = "user"
      /\ asked.node = s.node
      /\ asked.initContainers \in Seq(AnyContainer)
      /\ asked.containers \in Seq(AnyContainer)
      /\ Overridden(asked.initContainers, OwnInit(s), s.initContainers)
      /\ Overridden(asked.containers, OwnContainers(s), s.containers)
      /\ Overridden(asked.volumes, OwnVolumes, s.volumes)
  BY AskedLists, AskedLabels, AskedMine, Asked
<1>2. mergePodTemplates(t, asked) = t
  OBVIOUS
<1> HIDE DEF asked
<1>3. /\ t.initContainers = mergeContainers(t.initContainers, asked.initContainers)
      /\ t.containers = mergeContainers(t.containers, asked.containers)
      /\ t.volumes = asked.volumes
      /\ t.node = IF asked.node # "any" THEN asked.node ELSE t.node
      /\ t.labels = mergeMaps(asked.labels, t.labels)
  BY <1>2, MergedParts
<1>4. /\ Resembles(t.initContainers, asked.initContainers)
      /\ Resembles(t.containers, asked.containers)
  BY <1>1, <1>3, MergedResembles
<1>5. Carries(t.containers, {"ironic", "httpd"}, s.image, s.containers)
  <2>1. /\ OwnContainers(s) \in Seq(AnyContainer)
        /\ \A i \in DOMAIN OwnContainers(s) : OwnContainers(s)[i].image = s.image
    BY OwnLists
  <2>2. s.containers \in Seq(AnyContainer)
    BY SpecLists
  <2>3. Carries(t.containers, Names(OwnContainers(s)), s.image, s.containers)
    BY <1>1, <1>4, <2>1, <2>2, Carried
  <2> QED
    BY <2>3, OwnLists
<1>6. Carries(t.initContainers, BuiltInits(s), s.image, s.initContainers)
  <2>1. /\ OwnInit(s) \in Seq(AnyContainer)
        /\ \A i \in DOMAIN OwnInit(s) : OwnInit(s)[i].image = s.image
    BY OwnLists
  <2>2. s.initContainers \in Seq(AnyContainer)
    BY SpecLists
  <2>3. Carries(t.initContainers, Names(OwnInit(s)), s.image, s.initContainers)
    BY <1>1, <1>4, <2>1, <2>2, Carried
  <2> QED
    BY <2>3, OwnLists
<1>7. Names(t.volumes) = {"ironic-shared"} \cup Names(s.volumes)
  BY <1>1, <1>3, OwnLists DEF Overridden
<1>8. s.node = "chosen" => t.node = "chosen"
  BY <1>1, <1>3
<1>9. t.labels["version"] = s.image /\ ("mine" \in s.labels => t.labels["mine"] = "user")
  <2>1. s.image # "none"
    BY SpecLists DEF Images
  <2> QED
    BY <1>1, <1>3, <2>1, Merged DEF Keys
<1> QED
  BY <1>5, <1>6, <1>7, <1>8, <1>9 DEF Follows

-----------------------------------------------------------------------------
(* The templates of the jobs. *)

OwnJob(s, phase) == <<Container(commandPerPhase[phase], s.image, "none")>>

LEMMA AskedOfJob ==
  ASSUME NEW s \in Specs, NEW phase \in Phases
  PROVE  LET asked == newMigrationTemplate(s, phase)
         IN  /\ asked.initContainers = applyContainerOverrides(<<>>, s.initContainers)
             /\ asked.containers = applyContainerOverrides(OwnJob(s, phase), s.containers)
             /\ asked.volumes = applyContainerOverrides(OwnVolumes, s.volumes)
             /\ asked.labels \in Labels /\ asked.labels["other"] = "none"
<1> DEFINE own == [Absent.labels EXCEPT !["version"] = s.image]
           users == [k \in DOMAIN own |-> IF k \in s.labels THEN "user" ELSE "none"]
           plain == [Absent EXCEPT !.containers = OwnJob(s, phase), !.volumes = OwnVolumes,
                                   !.labels["version"] = s.image]
           asked == newMigrationTemplate(s, phase)
<1>1. DOMAIN Absent = Parts
  BY DEF Absent, Parts
<1>2. /\ plain.initContainers = <<>> /\ plain.containers = OwnJob(s, phase)
      /\ plain.volumes = OwnVolumes /\ plain.labels = own /\ DOMAIN plain = Parts
  BY <1>1 DEF Parts, Absent
<1>3. own \in Labels /\ own["other"] = "none"
  BY DEF Specs, Images, Labels, Absent
<1>4. users \in Labels /\ users["other"] = "none"
  BY <1>3 DEF Specs, Labels
<1>5. asked = applyOverridesToPod(s, plain)
  BY DEF newMigrationTemplate, OwnJob, OwnVolumes
<1> HIDE DEF plain, own
<1>6. /\ asked.initContainers = applyContainerOverrides(plain.initContainers, s.initContainers)
      /\ asked.containers = applyContainerOverrides(plain.containers, s.containers)
      /\ asked.volumes = applyContainerOverrides(plain.volumes, s.volumes)
      /\ asked.labels = mergeMaps(plain.labels, users)
  BY <1>2, <1>5 DEF applyOverridesToPod, applyVolumeOverrides, Parts
<1> HIDE DEF asked, users
<1>7. asked.labels \in Labels /\ asked.labels["other"] = "none"
  BY <1>2, <1>3, <1>4, <1>6, Merged DEF Keys
<1>8. /\ asked.initContainers = applyContainerOverrides(<<>>, s.initContainers)
      /\ asked.containers = applyContainerOverrides(OwnJob(s, phase), s.containers)
      /\ asked.volumes = applyContainerOverrides(OwnVolumes, s.volumes)
  BY <1>2, <1>6
<1> QED
  BY <1>7, <1>8 DEF asked

LEMMA JobPlain ==
  ASSUME NEW s \in Specs, NEW phase \in Phases
  PROVE  LET asked == newMigrationTemplate(s, phase)
         IN  /\ Askable(asked)
             /\ ~Sparse => LeavesNothingOut(asked)
             /\ Overridden(asked.initContainers, <<>>, s.initContainers)
             /\ Overridden(asked.containers, OwnJob(s, phase), s.containers)
             /\ OwnJob(s, phase) \in Seq(AnyContainer)
             /\ Names(OwnJob(s, phase)) = {commandPerPhase[phase]}
             /\ \A i \in DOMAIN OwnJob(s, phase) : OwnJob(s, phase)[i].image = s.image
<1> DEFINE asked == newMigrationTemplate(s, phase)
           inits == asked.initContainers
           containers == asked.containers
           volumes == asked.volumes
           own == OwnJob(s, phase)
           command == commandPerPhase[phase]
<1>1. command \in {"database-upgrade", "online-data-migrations"}
  BY DEF commandPerPhase, Phases
<1>2. /\ own \in Seq(AnyContainer) /\ Names(own) = {command} /\ NothingLeftOut(own)
      /\ \A i \in DOMAIN own : own[i].image = s.image
  <2> DEFINE c == Container(command, s.image, "none")
  <2>1. c \in AnyContainer /\ c.name = command /\ c.body = "complete" /\ c.image = s.image
    BY <1>1, SpecLists, BuiltTyped DEF OwnNames
  <2>2. own = <<c>>
    BY DEF OwnJob
  <2> HIDE DEF c, command, own
  <2>3. Range(own) = {c} /\ DOMAIN own = {1} /\ own[1] = c
    BY <2>2 DEF Range
  <2> QED
    BY <2>1, <2>2, <2>3 DEF Names, NothingLeftOut
<1>3. inits \in Seq(AnyContainer) /\ Overridden(inits, <<>>, s.initContainers)
  <2>1. <<>> \in Seq(AnyContainer)
    OBVIOUS
  <2> QED
    BY <2>1, AskedOfJob, SpecLists, AppliedOverrides
<1>4. containers \in Seq(AnyContainer) /\ Overridden(containers, own, s.containers)
  <2> HIDE DEF own
  <2>1. containers = applyContainerOverrides(own, s.containers)
    BY AskedOfJob DEF own
  <2> QED
    BY <1>2, <2>1, SpecLists, AppliedOverrides
<1>5. volumes \in Seq(AnyVolume) /\ Overridden(volumes, OwnVolumes, s.volumes)
  BY AskedOfJob, OwnLists, SpecLists, AppliedOverrides
<1>6. asked.labels \in Labels /\ asked.labels["other"] = "none"
  BY AskedOfJob
<1> HIDE DEF inits, containers, volumes, own, command
<1>7. ~Sparse => NothingLeftOut(inits) /\ NothingLeftOut(containers) /\ NothingLeftOut(volumes)
  <2>1. NothingLeftOut(<<>>)
    BY DEF NothingLeftOut
  <2> QED
    BY <1>2, <1>3, <1>4, <1>5, <2>1, SpecLists, OwnLists, OverriddenWhole
<1>8. Askable(asked) /\ (~Sparse => LeavesNothingOut(asked))
  BY <1>3, <1>4, <1>5, <1>6, <1>7 DEF Askable, LeavesNothingOut, inits, containers, volumes
<1> QED
  BY <1>2, <1>3, <1>4, <1>8 DEF inits, containers, own, command

\* The template of a new job.
MadeFor(s, phase) ==
  Labelled(Defaulted(mergePodTemplates(Absent, newMigrationTemplate(s, phase))))

\* What the server completes keeps its names, images and probes.
LEMMA CompleteResembles ==
  ASSUME NEW source \in Seq(AnyContainer), NEW target
  PROVE  Resembles(Complete(mergeContainers(target, source)), source)
<1> DEFINE merged == mergeContainers(target, source)
           stays == Complete(merged)
<1>1. Resembles(merged, source)
  BY MergedResembles
<1>2. DOMAIN stays = DOMAIN source
  BY <1>1 DEF Complete, Resembles
<1>3. ASSUME NEW i \in DOMAIN source
      PROVE  /\ stays[i].name = source[i].name /\ stays[i].image = source[i].image
             /\ stays[i].timing = "none" <=> source[i].timing = "none"
  <2> DEFINE c == merged[i]
             policy == IF c.policy # "unset" THEN c.policy
                       ELSE IF c.image = "latest" THEN "Always" ELSE "IfNotPresent"
  <2>1. stays[i] = Whole(c, policy)
    BY <1>1 DEF Complete, Whole, Resembles
  <2>2. IsContainer(c)
    BY MergedContainers
  <2>3. /\ c.name = source[i].name /\ c.image = source[i].image
        /\ c.timing = "none" <=> source[i].timing = "none"
    BY <1>1 DEF Resembles
  <2> HIDE DEF c, policy
  <2> QED
    BY <2>1, <2>2, <2>3, Changed
<1> QED
  BY <1>2, <1>3 DEF Resembles

\* A job has the container of its phase and the overrides of its spec.
JobFollows(s, phase, t) ==
  /\ Carries(t.containers, {commandPerPhase[phase]}, s.image, s.containers)
  /\ Carries(t.initContainers, {}, s.image, s.initContainers)

LEMMA MadeJob ==
  ASSUME NEW s \in Specs, NEW phase \in Phases
  PROVE  /\ MadeFor(s, phase) # Absent
         /\ ~Sparse => mergePodTemplates(MadeFor(s, phase), newMigrationTemplate(s, phase))
                         = MadeFor(s, phase)
         /\ ~Refused(mergePodTemplates(Absent, newMigrationTemplate(s, phase)))
              => JobFollows(s, phase, MadeFor(s, phase))
<1> DEFINE asked == newMigrationTemplate(s, phase)
           merged == mergePodTemplates(Absent, asked)
           written == Defaulted(merged)
           made == Labelled(written)
<1>1. /\ Askable(asked) /\ (~Sparse => LeavesNothingOut(asked))
      /\ Overridden(asked.initContainers, <<>>, s.initContainers)
      /\ Overridden(asked.containers, OwnJob(s, phase), s.containers)
  BY JobPlain
<1>2. made = MadeFor(s, phase)
  BY DEF MadeFor
<1> HIDE DEF asked
<1>3. Absent.labels \in Labels
  BY DEF Absent, Labels
<1>4. /\ IsTemplate(merged)
      /\ merged.initContainers = mergeContainers(Absent.initContainers, asked.initContainers)
      /\ merged.containers = mergeContainers(Absent.containers, asked.containers)
      /\ merged.labels = mergeMaps(asked.labels, Absent.labels)
  BY MergedParts
<1>5. /\ asked.labels \in Labels /\ asked.containers \in Seq(AnyContainer)
      /\ asked.initContainers \in Seq(AnyContainer)
  BY <1>1 DEF Askable
<1>6. merged.labels \in Labels
  BY <1>3, <1>4, <1>5, Merged
<1>7. ~Sparse => mergePodTemplates(written, asked) = written /\ written.labels \in Labels
  BY <1>1, <1>3, WrittenStays
<1> HIDE DEF merged
<1>8. /\ IsTemplate(written) /\ written.labels = merged.labels
      /\ written.initContainers = Complete(merged.initContainers)
      /\ written.containers = Complete(merged.containers)
  BY <1>4, DefaultedParts
<1> HIDE DEF written
<1>9. /\ made.initContainers = written.initContainers /\ made.containers = written.containers
      /\ made.labels["other"] = "user"
  <2>1. DOMAIN written = Parts
    BY <1>8 DEF IsTemplate
  <2>2. made.initContainers = written.initContainers /\ made.containers = written.containers
    BY <2>1 DEF Labelled, Parts
  <2>3. made.labels = [written.labels EXCEPT !["other"] = "user"]
    BY <2>1 DEF Labelled, Parts
  <2> QED
    BY <1>6, <1>8, <2>2, <2>3 DEF Labels
<1>10. made # Absent
  BY <1>9 DEF Absent
<1>11. ~Sparse => mergePodTemplates(made, asked) = made
  BY <1>1, <1>7, LabelledStays
<1>12. /\ Resembles(made.initContainers, asked.initContainers)
       /\ Resembles(made.containers, asked.containers)
  BY <1>4, <1>5, <1>8, <1>9, CompleteResembles
<1>13. ASSUME ~Refused(merged)
       PROVE  JobFollows(s, phase, made)
  <2>1. ~Twice(merged.initContainers, {}) /\ ~Twice(merged.containers, {})
    BY <1>13 DEF Refused
  <2>2. ~Twice(made.initContainers, {}) /\ ~Twice(made.containers, {})
    BY <1>4, <1>5, <1>12, <2>1, MergedResembles, ResemblesNames
  <2> HIDE DEF made
  <2>3. Carries(made.containers, {commandPerPhase[phase]}, s.image, s.containers)
    <3>1. s.containers \in Seq(AnyContainer)
      BY SpecLists
    <3>2. /\ OwnJob(s, phase) \in Seq(AnyContainer)
          /\ \A i \in DOMAIN OwnJob(s, phase) : OwnJob(s, phase)[i].image = s.image
          /\ Names(OwnJob(s, phase)) = {commandPerPhase[phase]}
      BY JobPlain
    <3>3. Carries(made.containers, Names(OwnJob(s, phase)), s.image, s.containers)
      BY <1>1, <1>5, <1>12, <2>2, <3>1, <3>2, Carried
    <3> QED
      BY <3>2, <3>3
  <2>4. Carries(made.initContainers, {}, s.image, s.initContainers)
    <3>1. /\ <<>> \in Seq(AnyContainer) /\ Names(<<>>) = {}
          /\ \A i \in DOMAIN <<>> : <<>>[i].image = s.image
      BY DEF Names, Range
    <3> QED
      BY <1>1, <1>5, <1>12, <2>2, <3>1, SpecLists, Carried
  <2> QED
    BY <2>3, <2>4 DEF JobFollows
<1> QED
  BY <1>2, <1>10, <1>11, <1>13 DEF asked, merged

-----------------------------------------------------------------------------
(* What a step does to the jobs: nothing but make one, end one or remove one. *)

JobsTyped ==
  /\ DOMAIN jobs = JobNames
  /\ \A n \in JobNames :
       /\ DOMAIN jobs[n] = DOMAIN NoJob
       /\ jobs[n].done \in BOOLEAN
       /\ jobs[n].for \in Specs \cup {NoSpec}
       /\ jobs[n].template = Absent <=> jobs[n].for = NoSpec

JobsChange ==
  \A n \in JobNames :
    \/ jobs'[n] = NoJob
    \/ /\ jobs[n] # NoJob
       /\ jobs'[n].template = jobs[n].template /\ jobs'[n].for = jobs[n].for
    \/ /\ conf \in Specs
       /\ ~Refused(mergePodTemplates(Absent, newMigrationTemplate(conf, n.phase)))
       /\ jobs'[n].template = MadeFor(conf, n.phase) /\ jobs'[n].for = conf

LEMMA JobsUnchanged == ASSUME UNCHANGED jobs PROVE JobsChange
<1>1. ASSUME NEW n \in JobNames
      PROVE  \/ jobs'[n] = NoJob
             \/ /\ jobs[n] # NoJob
                /\ jobs'[n].template = jobs[n].template /\ jobs'[n].for = jobs[n].for
  OBVIOUS
<1> QED
  BY <1>1 DEF JobsChange

LEMMA NoJobTyped ==
  /\ DOMAIN NoJob = {"template", "done", "for"} /\ NoJob.done = FALSE
  /\ NoJob.template = Absent /\ NoJob.for = NoSpec
BY DEF NoJob

LEMMA JobCreated ==
  ASSUME JobsTyped, conf \in Specs, installed \in {"none"} \cup Images,
         NEW phase \in Phases, CreateJob(phase)
  PROVE  JobsTyped' /\ JobsChange /\ (ready' = ready \/ ready' = NoSpec)
<1> DEFINE name == JobName(conf, phase)
           job == [template |-> MadeFor(conf, phase), done |-> FALSE, for |-> conf]
           refused == Refused(mergePodTemplates(Absent, newMigrationTemplate(conf, phase)))
<1>1. /\ \/ jobs' = [jobs EXCEPT ![name] = job] /\ ~refused
         \/ jobs' = jobs
      /\ ready' = ready \/ ready' = NoSpec
  BY DEF CreateJob, MadeFor
<1>2. name \in JobNames /\ name.phase = phase
  BY DEF JobName, JobNames, Specs
<1>3. conf # NoSpec
  BY DEF Specs, NoSpec
<1>4. /\ DOMAIN job = DOMAIN NoJob /\ job.done \in BOOLEAN /\ job.for = conf
      /\ job.template = MadeFor(conf, phase) /\ job.template # Absent
  <2>1. MadeFor(conf, phase) # Absent
    BY MadeJob
  <2> QED
    BY <2>1, NoJobTyped
<1> HIDE DEF name, job, refused
<1>5. CASE jobs' = jobs
  <2>1. JobsTyped'
    BY <1>5 DEF JobsTyped
  <2> QED
    BY <1>1, <1>5, <2>1, JobsUnchanged
<1>6. CASE jobs' = [jobs EXCEPT ![name] = job] /\ ~refused
  <2>1. DOMAIN jobs' = JobNames /\ jobs'[name] = job
    BY <1>2, <1>6 DEF JobsTyped
  <2>2. \A n \in JobNames : n # name => jobs'[n] = jobs[n]
    BY <1>6 DEF JobsTyped
  <2>3. JobsTyped'
    BY <1>3, <1>4, <2>1, <2>2 DEF JobsTyped
  <2>4. ASSUME NEW n \in JobNames, n # name
        PROVE  \/ jobs'[n] = NoJob
               \/ /\ jobs[n] # NoJob
                  /\ jobs'[n].template = jobs[n].template /\ jobs'[n].for = jobs[n].for
    BY <2>2, <2>4
  <2>5. /\ jobs'[name].template = MadeFor(conf, name.phase) /\ jobs'[name].for = conf
        /\ ~Refused(mergePodTemplates(Absent, newMigrationTemplate(conf, name.phase)))
    BY <1>2, <1>4, <1>6, <2>1 DEF refused
  <2>6. ASSUME NEW n \in JobNames
        PROVE  \/ jobs'[n] = NoJob
               \/ /\ jobs[n] # NoJob
                  /\ jobs'[n].template = jobs[n].template /\ jobs'[n].for = jobs[n].for
               \/ /\ conf \in Specs
                  /\ ~Refused(mergePodTemplates(Absent, newMigrationTemplate(conf, n.phase)))
                  /\ jobs'[n].template = MadeFor(conf, n.phase) /\ jobs'[n].for = conf
    <3>1. CASE n = name
      BY <2>5, <3>1
    <3>2. CASE n # name
      BY <2>4, <3>2
    <3> QED
      BY <3>1, <3>2
  <2>7. JobsChange
    BY <2>6 DEF JobsChange
  <2> QED
    BY <1>1, <2>3, <2>7
<1> QED
  BY <1>1, <1>5, <1>6

LEMMA JobEnded ==
  ASSUME JobsTyped, NEW name \in JobNames, FinishJob(name) \/ ExpireJob(name)
  PROVE  JobsTyped' /\ JobsChange
<1>1. CASE FinishJob(name)
  <2>1. jobs' = [jobs EXCEPT ![name].done = TRUE] /\ jobs[name] # NoJob
    BY <1>1 DEF FinishJob
  <2>2. DOMAIN jobs[name] = {"template", "done", "for"}
    BY NoJobTyped DEF JobsTyped
  <2>3. /\ DOMAIN jobs' = JobNames /\ DOMAIN jobs'[name] = DOMAIN jobs[name]
        /\ jobs'[name].done = TRUE
        /\ jobs'[name].template = jobs[name].template /\ jobs'[name].for = jobs[name].for
    BY <2>1, <2>2 DEF JobsTyped
  <2>4. \A n \in JobNames : n # name => jobs'[n] = jobs[n]
    BY <2>1 DEF JobsTyped
  <2> QED
    BY <2>1, <2>3, <2>4 DEF JobsTyped, JobsChange
<1>2. CASE ExpireJob(name)
  <2>1. jobs' = [jobs EXCEPT ![name] = NoJob]
    BY <1>2 DEF ExpireJob
  <2>2. DOMAIN jobs' = JobNames /\ jobs'[name] = NoJob
    BY <2>1 DEF JobsTyped
  <2>3. \A n \in JobNames : n # name => jobs'[n] = jobs[n]
    BY <2>1 DEF JobsTyped
  <2> QED
    BY <2>2, <2>3, NoJobTyped DEF JobsTyped, JobsChange
<1> QED
  BY <1>1, <1>2

-----------------------------------------------------------------------------
(* The invariant, and what each step does to the labels and the jobs. *)

LabelsInv ==
  /\ TypeOK
  /\ stored # Absent => stored.labels["version"] \in Images

Kept ==
  /\ stored' # Absent => stored'.labels["version"] \in Images
  /\ stored.labels["other"] = "user" => stored'.labels["other"] = "user"

\* The parts of TypeOK.
OthersTyped ==
  /\ spec \in Specs
  /\ {conf, applied, ready} \subseteq Specs \cup {NoSpec}
  /\ installed \in {"none"} \cup Images
  /\ queued \in BOOLEAN
  /\ edits \in 0 .. MaxEdits
  /\ faults \in 0 .. MaxFaults

StoredTyped ==
  /\ DOMAIN stored = DOMAIN Absent
  /\ stored.labels \in Labels
  /\ stored # Absent => stored.labels["version"] \in Images

LEMMA InvParts == LabelsInv <=> OthersTyped /\ StoredTyped /\ JobsTyped
BY DEF LabelsInv, TypeOK, OthersTyped, StoredTyped, JobsTyped

LEMMA InvInit == Init => LabelsInv
<1> SUFFICES ASSUME Init PROVE LabelsInv
  OBVIOUS
<1>2. spec \in Specs
  BY FirstSpecsTyped DEF Init
<1>3. OthersTyped
  BY <1>2, PodTemplateBounds DEF Init, OthersTyped
<1>4. StoredTyped
  BY DEF Init, Absent, Labels, StoredTyped
<1>5. JobsTyped
  BY NoJobTyped DEF Init, JobsTyped
<1> QED
  BY <1>3, <1>4, <1>5, InvParts

\* A reconcile that looks at the workload: what it writes and what it makes.
LEMMA ReconcileStep ==
  ASSUME LabelsInv, CreateOrUpdate
  PROVE  LabelsInv' /\ Kept /\ JobsChange
<1> DEFINE merged == mergePodTemplates(stored, newIronicPodTemplate(conf))
<1>1. /\ conf \in Specs /\ stored.labels \in Labels /\ conf.image \in Images
      /\ installed \in {"none"} \cup Images
  BY InvParts DEF CreateOrUpdate, OthersTyped, StoredTyped, Specs
<1>2. /\ DOMAIN Defaulted(merged) = DOMAIN Absent
      /\ Defaulted(merged).labels \in Labels
      /\ Defaulted(merged).labels["version"] \in Images
      /\ stored.labels["other"] = "user" => Defaulted(merged).labels["other"] = "user"
  BY <1>1, WrittenLabels
<1>3. \/ \E phase \in Phases : ensureIronicUpgradeJob(phase)
      \/ WriteTemplate(merged) \/ RefuseTemplate(merged) \/ ReportReady(merged)
  BY DEF CreateOrUpdate, Phases
<1> HIDE DEF merged
<1>4. OthersTyped /\ StoredTyped /\ JobsTyped
  BY InvParts
<1>5. ASSUME NEW phase \in Phases, ensureIronicUpgradeJob(phase)
      PROVE  LabelsInv' /\ Kept /\ JobsChange
  <2>1. JobsTyped' /\ JobsChange /\ (ready' = ready \/ ready' = NoSpec)
    BY <1>1, <1>4, <1>5, JobCreated DEF ensureIronicUpgradeJob
  <2>2. /\ UNCHANGED <<spec, stored, applied, installed, edits, faults>>
        /\ conf' = NoSpec /\ queued' \in BOOLEAN
    <3> DEFINE again == ~Awaits(conf, phase)
    <3>1. again \in BOOLEAN
      OBVIOUS
    <3>2. /\ EndReconcile(again)
          /\ UNCHANGED <<spec, stored, applied, installed, edits, faults>>
      BY <1>5 DEF ensureIronicUpgradeJob
    <3> HIDE DEF again
    <3> QED
      BY <1>4, <3>1, <3>2 DEF EndReconcile, OthersTyped
  <2>3. OthersTyped' /\ StoredTyped' /\ Kept
    BY <1>4, <2>1, <2>2 DEF OthersTyped, StoredTyped, Kept
  <2> QED
    BY <2>1, <2>3, InvParts, PTL
<1>6. CASE WriteTemplate(merged)
  <2>1. JobsTyped' /\ JobsChange /\ (ready' = ready \/ ready' = NoSpec)
    BY <1>1, <1>4, <1>6, JobCreated DEF WriteTemplate, Phases
  <2>2. OthersTyped' /\ StoredTyped' /\ Kept
    BY <1>1, <1>2, <1>4, <1>6, <2>1 DEF WriteTemplate, EndReconcile, OthersTyped, StoredTyped, Kept
  <2> QED
    BY <2>1, <2>2, InvParts, PTL
<1>7. CASE RefuseTemplate(merged)
  <2>1. JobsTyped' /\ JobsChange
    BY <1>4, <1>7, JobsUnchanged DEF RefuseTemplate, JobsTyped
  <2>2. OthersTyped' /\ StoredTyped' /\ Kept
    BY <1>4, <1>7 DEF RefuseTemplate, EndReconcile, OthersTyped, StoredTyped, Kept
  <2> QED
    BY <2>1, <2>2, InvParts, PTL
<1>8. CASE ReportReady(merged)
  <2>1. JobsTyped' /\ JobsChange
    BY <1>4, <1>8, JobsUnchanged DEF ReportReady, JobsTyped
  <2>2. OthersTyped' /\ StoredTyped' /\ Kept
    BY <1>1, <1>4, <1>8 DEF ReportReady, EndReconcile, OthersTyped, StoredTyped, Kept
  <2> QED
    BY <2>1, <2>2, InvParts, PTL
<1> QED
  BY <1>3, <1>5, <1>6, <1>7, <1>8

LEMMA InvStep == LabelsInv /\ [Next]_vars => LabelsInv' /\ JobsChange /\ (Kept \/ UNCHANGED vars)
<1> SUFFICES ASSUME LabelsInv, [Next]_vars
             PROVE  LabelsInv' /\ JobsChange /\ (Kept \/ UNCHANGED vars)
  OBVIOUS
<1> USE PodTemplateBounds
<1>0. OthersTyped /\ StoredTyped /\ JobsTyped
  BY InvParts
<1>1. ASSUME UNCHANGED jobs
      PROVE  JobsTyped' /\ JobsChange
  BY <1>0, <1>1, JobsUnchanged DEF JobsTyped
<1>2. CASE StartReconcile
  <2>1. OthersTyped' /\ StoredTyped' /\ Kept /\ UNCHANGED jobs
    BY <1>0, <1>2 DEF StartReconcile, OthersTyped, StoredTyped, Kept
  <2> QED
    BY <1>1, <2>1, InvParts, PTL
<1>3. CASE CreateOrUpdate
  BY <1>3, ReconcileStep
<1>4. CASE TransientError
  <2>1. OthersTyped' /\ StoredTyped' /\ Kept /\ UNCHANGED jobs
    BY <1>0, <1>4 DEF TransientError, EndReconcile, OthersTyped, StoredTyped, Kept
  <2> QED
    BY <1>1, <2>1, InvParts, PTL
<1>5. ASSUME NEW n \in JobNames, FinishJob(n) \/ ExpireJob(n)
      PROVE  LabelsInv' /\ JobsChange /\ Kept
  <2>1. JobsTyped' /\ JobsChange
    BY <1>0, <1>5, JobEnded
  <2>2. /\ UNCHANGED <<spec, conf, stored, applied, ready, installed, edits>>
        /\ queued' = TRUE /\ faults' \in 0 .. MaxFaults
    BY <1>0, <1>5 DEF FinishJob, ExpireJob, OthersTyped
  <2>3. OthersTyped' /\ StoredTyped' /\ Kept
    BY <1>0, <2>2 DEF OthersTyped, StoredTyped, Kept
  <2> QED
    BY <2>1, <2>3, InvParts, PTL
<1>6. CASE EditSpec
  <2>1. spec' \in Specs
    BY <1>6, EditedTyped DEF LabelsInv
  <2>2. /\ UNCHANGED <<conf, ready, faults, stored, applied, installed, jobs>>
        /\ queued' = TRUE /\ edits' \in 0 .. MaxEdits
    BY <1>0, <1>6 DEF EditSpec, Edit, OthersTyped
  <2>3. OthersTyped' /\ StoredTyped' /\ Kept
    BY <1>0, <2>1, <2>2 DEF OthersTyped, StoredTyped, Kept
  <2>4. JobsTyped' /\ JobsChange
    BY <1>1, <2>2
  <2> QED
    BY <2>3, <2>4, InvParts, PTL
<1>7. CASE LabelWorkload
  <2>1. /\ stored' = [stored EXCEPT !.labels["other"] = "user"]
        /\ stored # Absent
        /\ UNCHANGED <<conf, ready, faults, spec, applied, installed, jobs>>
        /\ queued' = TRUE /\ edits' \in 0 .. MaxEdits
    BY <1>0, <1>7 DEF LabelWorkload, Edit, OthersTyped
  <2>2. stored.labels \in Labels /\ DOMAIN stored = DOMAIN Absent /\ "labels" \in DOMAIN stored
    BY <1>0 DEF StoredTyped, Absent
  <2>3. stored'.labels = [stored.labels EXCEPT !["other"] = "user"] /\ DOMAIN stored' = DOMAIN Absent
    BY <2>1, <2>2
  <2>4. /\ stored'.labels \in Labels
        /\ stored'.labels["version"] = stored.labels["version"]
        /\ stored'.labels["other"] = "user"
    BY <2>2, <2>3 DEF Labels
  <2>5. OthersTyped' /\ StoredTyped' /\ Kept
    BY <1>0, <2>1, <2>3, <2>4 DEF OthersTyped, StoredTyped, Kept
  <2>6. JobsTyped' /\ JobsChange
    BY <1>1, <2>1
  <2> QED
    BY <2>5, <2>6, InvParts, PTL
<1>10. CASE TuneContainer
  <2>1. PICK i \in DOMAIN stored.containers :
          stored' = [stored EXCEPT !.containers[i].policy = stored.containers[i].name]
    BY <1>10 DEF TuneContainer
  <2>2. /\ UNCHANGED <<conf, ready, faults, spec, applied, installed, jobs>>
        /\ queued' = TRUE /\ edits' \in 0 .. MaxEdits
    BY <1>0, <1>10 DEF TuneContainer, Edit, OthersTyped
  <2>3. stored # Absent
    BY <2>1 DEF Absent
  <2>4. stored'.labels = stored.labels /\ DOMAIN stored' = DOMAIN stored
    BY <2>1
  <2>5. OthersTyped' /\ StoredTyped' /\ Kept
    BY <1>0, <2>2, <2>3, <2>4 DEF OthersTyped, StoredTyped, Kept
  <2>6. JobsTyped' /\ JobsChange
    BY <1>1, <2>2
  <2> QED
    BY <2>5, <2>6, InvParts, PTL
<1>8. CASE EditWorkload
  <2>1. PICK i \in DOMAIN stored.containers, image \in Images :
          stored' = [stored EXCEPT !.containers[i].image = image]
    BY <1>8 DEF EditWorkload
  <2>2. /\ UNCHANGED <<conf, ready, faults, spec, installed, jobs>> /\ applied' = NoSpec
        /\ queued' = TRUE /\ edits' \in 0 .. MaxEdits
    BY <1>0, <1>8 DEF EditWorkload, Edit, OthersTyped
  <2>3. stored # Absent
    BY <2>1 DEF Absent
  <2>4. stored'.labels = stored.labels /\ DOMAIN stored' = DOMAIN stored
    BY <2>1
  <2>5. OthersTyped' /\ StoredTyped' /\ Kept
    BY <1>0, <2>2, <2>3, <2>4 DEF OthersTyped, StoredTyped, Kept
  <2>6. JobsTyped' /\ JobsChange
    BY <1>1, <2>2
  <2> QED
    BY <2>5, <2>6, InvParts, PTL
<1>9. CASE UNCHANGED vars
  <2>1. OthersTyped' /\ StoredTyped' /\ UNCHANGED jobs
    BY <1>0, <1>9 DEF vars, OthersTyped, StoredTyped
  <2> QED
    BY <1>1, <1>9, <2>1, InvParts, PTL
<1> QED
  BY <1>2, <1>3, <1>4, <1>5, <1>6, <1>7, <1>8, <1>9, <1>10 DEF Next

LEMMA InvAlways == Spec => []LabelsInv
<1>1. LabelsInv /\ [Next]_vars => LabelsInv'
  BY InvStep
<1> QED
  BY <1>1, InvInit, PTL DEF Spec

-----------------------------------------------------------------------------
(* What the workload never carries: a field of the overrides that the merge does *)
(* not copy, and on what every pod has anything that others put elsewhere.       *)

Filled(list) ==
  /\ list \in Seq(AnyContainer)
  /\ \A i \in DOMAIN list : list[i].timing # "user" /\ list[i].policy \notin {"unset", "user"}

\* Of the first two, which every pod has.
OwnPolicies(list) ==
  \A i \in DOMAIN list : i \in {1, 2} => list[i].policy \in {list[i].name} \cup Defaults

Shape(t) ==
  /\ Filled(t.containers) /\ Filled(t.initContainers)
  /\ ~Twice(t.containers, {}) /\ ~Twice(t.initContainers, {})
  /\ t.containers # <<>> => CoreFirst(t.containers)
  /\ OwnPolicies(t.containers)

LEMMA EmptyShape == Shape(Absent)
<1>1. /\ Absent.containers = <<>> /\ Absent.initContainers = <<>>
  BY DEF Absent
<1>2. Filled(<<>>) /\ ~Twice(<<>>, {}) /\ OwnPolicies(<<>>)
  BY DEF Filled, Twice, OwnPolicies
<1> QED
  BY <1>1, <1>2 DEF Shape

LEMMA BlankFields == Blank.timing = "none" /\ Blank.policy = "unset"
BY DEF Blank, Container

\* The policy stays in its place, or is the server's.
LEMMA FilledStays ==
  ASSUME NEW source \in Seq(AnyContainer), NEW target, Filled(target)
  PROVE  LET stays == Complete(mergeContainers(target, source))
         IN  /\ Filled(stays)
             /\ \A i \in DOMAIN stays :
                  \/ i \in DOMAIN target /\ Len(target) = Len(source)
                     /\ stays[i].policy = target[i].policy
                  \/ stays[i].policy \in Defaults
<1> DEFINE merged == mergeContainers(target, source)
           stays == Complete(merged)
<1>1. /\ DOMAIN merged = DOMAIN source
      /\ DOMAIN stays = DOMAIN source /\ stays = [i \in DOMAIN source |-> stays[i]]
  BY MergedLength DEF Complete
<1>2. ASSUME NEW i \in DOMAIN source
      PROVE  /\ stays[i] \in AnyContainer
             /\ stays[i].timing # "user" /\ stays[i].policy \notin {"unset", "user"}
             /\ \/ i \in DOMAIN target /\ Len(target) = Len(source)
                   /\ stays[i].policy = target[i].policy
                \/ stays[i].policy \in Defaults
  <2> DEFINE old == OldOf(target, source)[i]
             policy == IF merged[i].policy # "unset" THEN merged[i].policy
                       ELSE IF merged[i].image = "latest" THEN "Always" ELSE "IfNotPresent"
  <2>1. CASE Len(target) = Len(source)
    <3>1. i \in DOMAIN target /\ old = target[i] /\ target[i] \in AnyContainer
      BY <2>1 DEF OldOf, Filled
    <3>2. /\ old.timing \in {"none", "operator"} /\ old.policy \in AnyPolicy
          /\ old.policy \notin {"unset", "user"}
      BY <3>1 DEF Filled, AnyContainer
    <3>3. old.policy = target[i].policy
      BY <3>1
    <3> HIDE DEF old
    <3>4. /\ IsContainer(merged[i])
          /\ merged[i].name = source[i].name /\ merged[i].image = source[i].image
          /\ merged[i].timing \in {"none", "operator"} /\ merged[i].policy = old.policy
      BY <3>2, MergedContainers DEF old, updateProbe
    <3>5. stays[i] = Whole(merged[i], policy) /\ policy = old.policy
      BY <1>1, <3>2, <3>4 DEF Complete, Whole
    <3> HIDE DEF merged, policy
    <3>6. /\ IsContainer(stays[i])
          /\ stays[i].name = source[i].name /\ stays[i].image = source[i].image
          /\ stays[i].body = "complete" /\ stays[i].timing = merged[i].timing
      BY <3>4, <3>5, Changed
    <3>7. stays[i].policy = policy
      BY <3>4, <3>5 DEF Whole, IsContainer, Fields
    <3>8. source[i] \in AnyContainer
      OBVIOUS
    <3> HIDE DEF stays
    <3>9. /\ stays[i].name \in AnyName /\ stays[i].image \in Images
          /\ stays[i].body \in Bodies /\ stays[i].timing \in {"none", "user", "operator"}
          /\ stays[i].policy \in AnyPolicy
      BY <3>2, <3>4, <3>5, <3>6, <3>7, <3>8 DEF AnyContainer, Bodies
    <3>10. stays[i] \in AnyContainer
      BY <3>6, <3>9, ContainerTyped
    <3> QED
      BY <2>1, <3>1, <3>2, <3>3, <3>4, <3>5, <3>6, <3>7, <3>10
  <2>2. CASE Len(target) # Len(source)
    <3>1. old = Blank
      BY <2>2 DEF OldOf
    <3>2. old.timing = "none" /\ old.policy = "unset"
      BY <3>1, BlankFields
    <3> HIDE DEF old
    <3>3. /\ IsContainer(merged[i])
          /\ merged[i].name = source[i].name /\ merged[i].image = source[i].image
          /\ merged[i].timing \in {"none", "operator"} /\ merged[i].policy = "unset"
      BY <3>2, MergedContainers DEF old, updateProbe
    <3>4. stays[i] = Whole(merged[i], policy) /\ policy \in Defaults
      BY <1>1, <3>3 DEF Complete, Whole, Defaults
    <3> HIDE DEF merged, policy
    <3>5. /\ IsContainer(stays[i])
          /\ stays[i].name = source[i].name /\ stays[i].image = source[i].image
          /\ stays[i].body = "complete" /\ stays[i].timing = merged[i].timing
      BY <3>3, <3>4, Changed
    <3>6. stays[i].policy = policy
      BY <3>3, <3>4 DEF Whole, IsContainer, Fields
    <3>7. source[i] \in AnyContainer
      OBVIOUS
    <3> HIDE DEF stays
    <3>8. /\ stays[i].name \in AnyName /\ stays[i].image \in Images
          /\ stays[i].body \in Bodies /\ stays[i].timing \in {"none", "user", "operator"}
      BY <3>3, <3>5, <3>7 DEF AnyContainer, Bodies
    <3>9. stays[i] \in AnyContainer
      <4>1. stays[i].policy \in AnyPolicy
        BY <3>4, <3>6 DEF AnyPolicy
      <4> QED
        BY <3>5, <3>8, <4>1, ContainerTyped
    <3> QED
      BY <3>3, <3>4, <3>5, <3>6, <3>9 DEF Defaults
  <2> QED
    BY <2>1, <2>2
<1> HIDE DEF merged, stays
<1>3. stays \in Seq(AnyContainer)
  <2>1. DOMAIN source = 1 .. Len(source) /\ Len(source) \in Nat
    OBVIOUS
  <2>2. \A i \in 1 .. Len(source) : stays[i] \in AnyContainer
    BY <1>2, <2>1
  <2>3. stays \in [1 .. Len(source) -> AnyContainer]
    BY <1>1, <2>1, <2>2
  <2> QED
    BY <2>1, <2>3
<1>4. Filled(stays)
  BY <1>1, <1>2, <1>3 DEF Filled
<1> QED
  BY <1>1, <1>2, <1>4 DEF merged, stays

\* Written over a workload in shape, what is asked for is in shape.
LEMMA WrittenShape ==
  ASSUME NEW s \in Specs, NEW t, Shape(t),
         ~Refused(mergePodTemplates(t, newIronicPodTemplate(s)))
  PROVE  Shape(Defaulted(mergePodTemplates(t, newIronicPodTemplate(s))))
<1> DEFINE asked == newIronicPodTemplate(s)
           merged == mergePodTemplates(t, asked)
           written == Defaulted(merged)
<1>1. /\ asked.initContainers \in Seq(AnyContainer) /\ asked.containers \in Seq(AnyContainer)
      /\ CoreFirst(asked.containers)
  BY AskedLists
<1>2. ~Twice(merged.containers, {}) /\ ~Twice(merged.initContainers, {})
  BY DEF Refused
<1> HIDE DEF asked
<1>3. /\ IsTemplate(merged)
      /\ merged.initContainers = mergeContainers(t.initContainers, asked.initContainers)
      /\ merged.containers = mergeContainers(t.containers, asked.containers)
  BY MergedParts
<1> HIDE DEF merged
<1>4. /\ written.initContainers = Complete(merged.initContainers)
      /\ written.containers = Complete(merged.containers)
  BY <1>3, DefaultedParts
<1> HIDE DEF written
<1>5. /\ Resembles(written.initContainers, asked.initContainers)
      /\ Resembles(written.containers, asked.containers)
  BY <1>1, <1>3, <1>4, CompleteResembles
<1>6. ~Twice(written.containers, {}) /\ ~Twice(written.initContainers, {})
  BY <1>1, <1>2, <1>3, <1>5, MergedResembles, ResemblesNames
<1>7. Filled(written.initContainers)
  BY <1>1, <1>3, <1>4, FilledStays DEF Shape
<1>8. /\ Filled(written.containers)
      /\ \A i \in DOMAIN written.containers :
           \/ /\ i \in DOMAIN t.containers /\ Len(t.containers) = Len(asked.containers)
              /\ written.containers[i].policy = t.containers[i].policy
           \/ written.containers[i].policy \in Defaults
  BY <1>1, <1>3, <1>4, FilledStays DEF Shape
<1>9. CoreFirst(written.containers)
  BY <1>1, <1>5 DEF Resembles, CoreFirst
<1>10. ASSUME NEW i \in DOMAIN written.containers, i \in {1, 2}
       PROVE  written.containers[i].policy \in {written.containers[i].name} \cup Defaults
  <2>1. CASE written.containers[i].policy \in Defaults
    BY <2>1
  <2>2. CASE i \in DOMAIN t.containers /\ written.containers[i].policy = t.containers[i].policy
    <3>1. CoreFirst(t.containers)
      BY <2>2 DEF Shape
    <3>2. t.containers[i].name = written.containers[i].name
      BY <1>9, <1>10, <3>1 DEF CoreFirst
    <3>3. t.containers[i].policy \in {t.containers[i].name} \cup Defaults
      BY <1>10, <2>2 DEF Shape, OwnPolicies
    <3> QED
      BY <2>2, <3>2, <3>3
  <2> QED
    BY <1>8, <2>1, <2>2
<1>11. OwnPolicies(written.containers)
  BY <1>10 DEF OwnPolicies
<1> QED
  BY <1>6, <1>7, <1>8, <1>9, <1>11 DEF Shape, written, merged, asked

\* Others change a field of one container.
LEMMA OneChanged ==
  ASSUME NEW t, Shape(t), NEW i \in DOMAIN t.containers, NEW u,
         u.initContainers = t.initContainers,
         NEW c \in AnyContainer, u.containers = [t.containers EXCEPT ![i] = c],
         c.name = t.containers[i].name, c.timing = t.containers[i].timing,
         c.policy \in {c.name, t.containers[i].policy}
  PROVE  Shape(u)
<1> DEFINE old == t.containers
           new == u.containers
<1>1. /\ old \in Seq(AnyContainer)
      /\ \A k \in DOMAIN old : old[k].timing # "user" /\ old[k].policy \notin {"unset", "user"}
  BY DEF Shape, Filled
<1>2. /\ new \in Seq(AnyContainer) /\ DOMAIN new = DOMAIN old /\ new[i] = c
      /\ \A k \in DOMAIN old : k # i => new[k] = old[k]
  BY <1>1
<1>3. c.name \notin {"unset", "user"}
  BY NamesApart DEF AnyContainer
<1> HIDE DEF old, new
<1>4. i \in DOMAIN old /\ c.name = old[i].name /\ c.timing = old[i].timing
      /\ c.policy \in {c.name, old[i].policy}
  BY DEF old
<1>5. Filled(new)
  <2>1. ASSUME NEW k \in DOMAIN new
        PROVE  new[k].timing # "user" /\ new[k].policy \notin {"unset", "user"}
    BY <1>1, <1>2, <1>3, <1>4
  <2> QED
    BY <1>2, <2>1 DEF Filled
<1>6. \A k \in DOMAIN old : new[k].name = old[k].name
  BY <1>2, <1>4
<1>7. ~Twice(new, {})
  BY <1>2, <1>6 DEF Twice, Shape, old
<1>8. new # <<>> => CoreFirst(new)
  <2>1. old # <<>>
    BY <1>4
  <2> QED
    BY <1>2, <1>6, <2>1 DEF CoreFirst, Shape, old
<1>9. OwnPolicies(new)
  <2>1. ASSUME NEW k \in DOMAIN new, k \in {1, 2}
        PROVE  new[k].policy \in {new[k].name} \cup Defaults
    <3>1. old[k].policy \in {old[k].name} \cup Defaults
      BY <1>2, <2>1 DEF Shape, OwnPolicies, old
    <3> QED
      BY <1>2, <1>4, <3>1
  <2> QED
    BY <2>1 DEF OwnPolicies
<1> QED
  BY <1>5, <1>7, <1>8, <1>9 DEF Shape, new

LEMMA ShapeInit == Init => Shape(stored)
BY EmptyShape DEF Init

LEMMA ShapeStep == LabelsInv /\ Shape(stored) /\ [Next]_vars => Shape(stored)'
<1> SUFFICES ASSUME LabelsInv, Shape(stored), [Next]_vars PROVE Shape(stored')
  OBVIOUS
<1>1. CASE UNCHANGED stored
  BY <1>1
<1>2. CASE CreateOrUpdate /\ stored' # stored
  <2> DEFINE merged == mergePodTemplates(stored, newIronicPodTemplate(conf))
  <2>1. conf \in Specs
    BY <1>2 DEF CreateOrUpdate, LabelsInv, TypeOK
  <2>2. WriteTemplate(merged)
    BY <1>2 DEF CreateOrUpdate, ensureIronicUpgradeJob, RefuseTemplate, ReportReady
  <2>3. ~Refused(merged) /\ stored' = Defaulted(merged)
    BY <2>2 DEF WriteTemplate
  <2> QED
    BY <2>1, <2>3, WrittenShape
<1>3. CASE LabelWorkload
  <2>1. /\ stored' = [stored EXCEPT !.labels["other"] = "user"]
        /\ DOMAIN stored = DOMAIN Absent
    BY <1>3 DEF LabelWorkload, LabelsInv, TypeOK
  <2>2. stored'.containers = stored.containers /\ stored'.initContainers = stored.initContainers
    BY <2>1
  <2> QED
    BY <2>2 DEF Shape
<1>4. CASE TuneContainer \/ EditWorkload
  <2>1. DOMAIN stored = DOMAIN Absent /\ {"containers", "initContainers"} \subseteq DOMAIN Absent
    BY DEF LabelsInv, TypeOK, Absent
  <2>2. \A k \in DOMAIN stored.containers : stored.containers[k] \in AnyContainer
    BY DEF Shape, Filled
  <2>3. CASE TuneContainer
    <3>1. PICK i \in DOMAIN stored.containers :
            stored' = [stored EXCEPT !.containers[i].policy = stored.containers[i].name]
      BY <2>3 DEF TuneContainer
    <3> DEFINE was == stored.containers[i]
               c == [was EXCEPT !.policy = was.name]
    <3>2. was \in AnyContainer
      BY <2>2
    <3>3. /\ stored'.initContainers = stored.initContainers
          /\ stored'.containers = [stored.containers EXCEPT ![i] = c]
      BY <2>1, <3>1
    <3> HIDE DEF was
    <3>4. /\ c \in AnyContainer /\ c.name = was.name /\ c.timing = was.timing
          /\ c.policy = c.name
      BY <3>2 DEF AnyContainer, AnyPolicy
    <3> HIDE DEF c
    <3> QED
      BY <3>3, <3>4, OneChanged DEF was
  <2>4. CASE EditWorkload
    <3>1. PICK i \in DOMAIN stored.containers, image \in Images :
            stored' = [stored EXCEPT !.containers[i].image = image]
      BY <2>4 DEF EditWorkload
    <3> DEFINE was == stored.containers[i]
               c == [was EXCEPT !.image = image]
    <3>2. was \in AnyContainer
      BY <2>2
    <3>3. /\ stored'.initContainers = stored.initContainers
          /\ stored'.containers = [stored.containers EXCEPT ![i] = c]
      BY <2>1, <3>1
    <3> HIDE DEF was
    <3>4. /\ c \in AnyContainer /\ c.name = was.name /\ c.timing = was.timing
          /\ c.policy = was.policy
      BY <3>2 DEF AnyContainer
    <3> HIDE DEF c
    <3> QED
      BY <3>3, <3>4, OneChanged DEF was
  <2> QED
    BY <1>4, <2>3, <2>4
<1> QED
  BY <1>1, <1>2, <1>3, <1>4
     DEF Next, vars, StartReconcile, TransientError, FinishJob, ExpireJob, EditSpec

\* A container of a name that every pod has is in its place.
LEMMA ShapeKeeps == Shape(stored) => FieldsOfOthers
<1> SUFFICES ASSUME Shape(stored) PROVE FieldsOfOthers
  OBVIOUS
<1> DEFINE list == stored.containers
<1>1. ASSUME NEW c \in Range(stored.containers) \cup Range(stored.initContainers)
      PROVE  c.timing # "user" /\ c.policy \notin {"unset", "user"}
  BY DEF Shape, Filled, Range
<1>2. ASSUME NEW c \in Range(list), c.name \in {"ironic", "httpd"}
      PROVE  c.policy \in {c.name, "Always", "IfNotPresent"}
  <2>1. PICK i \in DOMAIN list : c = list[i]
    BY DEF Range
  <2>2. list \in Seq(AnyContainer) /\ CoreFirst(list) /\ ~Twice(list, {}) /\ OwnPolicies(list)
    BY <2>1 DEF Shape, Filled
  <2> HIDE DEF list
  <2>3. PICK k \in {1, 2} : k \in DOMAIN list /\ list[k].name = list[i].name
    BY <1>2, <2>1, <2>2 DEF CoreFirst
  <2>4. i \in Nat /\ k \in Nat /\ ~(i < k) /\ ~(k < i)
    BY <2>2, <2>3 DEF Twice
  <2>5. i \in {1, 2}
    BY <2>3, <2>4
  <2> QED
    BY <2>1, <2>2, <2>5 DEF OwnPolicies, Defaults
<1> QED
  BY <1>1, <1>2 DEF FieldsOfOthers

-----------------------------------------------------------------------------
(* What is ready follows its spec.  A reconcile that nobody disturbed works on *)
(* the current spec, and ends without coming back only if it waits for a job   *)
(* or merging changes nothing.                                                 *)

\* A reconcile in whose course the spec was edited comes back.
ReadyInv ==
  /\ conf # NoSpec /\ ~queued => conf = spec
  /\ ready = spec /\ ~queued /\ conf = NoSpec =>
       mergePodTemplates(stored, newIronicPodTemplate(spec)) = stored

LEMMA ReadyInit == Init => ReadyInv
BY DEF Init, ReadyInv

\* A job that is made or looked at leaves no spec ready, or comes back.
LEMMA JobReady ==
  ASSUME ReadyInv, conf # NoSpec, spec # NoSpec, NEW phase, ensureIronicUpgradeJob(phase)
  PROVE  ReadyInv'
<1>1. /\ conf' = NoSpec /\ UNCHANGED <<spec, stored>>
      /\ queued' = (queued \/ ~Awaits(conf, phase))
      /\ ready' = IF Fails(conf, phase) THEN ready ELSE NoSpec
  BY DEF ensureIronicUpgradeJob, CreateJob, EndReconcile
<1>2. ~Awaits(conf, phase) \/ ~Fails(conf, phase)
  BY DEF Awaits, Fails, NoJob
<1>3. queued' \/ ready' = NoSpec
  BY <1>1, <1>2
<1> QED
  BY <1>1, <1>3 DEF ReadyInv

LEMMA ReadyStep == LabelsInv /\ ReadyInv /\ [Next]_vars => ReadyInv'
<1> SUFFICES ASSUME LabelsInv, ReadyInv, [Next]_vars PROVE ReadyInv'
  OBVIOUS
<1>0. spec # NoSpec
  BY DEF LabelsInv, TypeOK, Specs, NoSpec
<1>1. CASE StartReconcile
  BY <1>0, <1>1 DEF StartReconcile, ReadyInv
<1>2. CASE CreateOrUpdate
  <2> DEFINE merged == mergePodTemplates(stored, newIronicPodTemplate(conf))
  <2>1. /\ conf # NoSpec
        /\ \/ ensureIronicUpgradeJob("pre") \/ ensureIronicUpgradeJob("post")
           \/ WriteTemplate(merged) \/ RefuseTemplate(merged) \/ ReportReady(merged)
    BY <1>2 DEF CreateOrUpdate
  <2>2. ASSUME merged = stored, ~queued
        PROVE  mergePodTemplates(stored, newIronicPodTemplate(spec)) = stored
    BY <2>1, <2>2 DEF ReadyInv
  <2> HIDE DEF merged
  <2>3. CASE WriteTemplate(merged) \/ RefuseTemplate(merged)
    BY <2>3 DEF WriteTemplate, RefuseTemplate, EndReconcile, ReadyInv
  <2>4. CASE ensureIronicUpgradeJob("pre") \/ ensureIronicUpgradeJob("post")
    BY <1>0, <2>1, <2>4, JobReady
  <2>5. CASE ReportReady(merged)
    <3>1. merged = stored /\ UNCHANGED <<spec, stored>> /\ conf' = NoSpec
          /\ queued' = (queued \/ FALSE)
      BY <2>5 DEF ReportReady, EndReconcile
    <3>2. ~queued' => ~queued
      BY <3>1
    <3> QED
      BY <2>2, <3>1, <3>2 DEF ReadyInv
  <2> QED
    BY <2>1, <2>3, <2>4, <2>5
<1>3. CASE TransientError
  BY <1>3 DEF TransientError, EndReconcile, ReadyInv
<1>4. CASE EditSpec \/ LabelWorkload \/ TuneContainer \/ EditWorkload
  BY <1>4 DEF EditSpec, LabelWorkload, TuneContainer, EditWorkload, Edit, ReadyInv
<1>5. CASE \E n \in JobNames : FinishJob(n) \/ ExpireJob(n)
  BY <1>5 DEF FinishJob, ExpireJob, ReadyInv
<1>6. CASE UNCHANGED vars
  BY <1>6 DEF vars, ReadyInv
<1> QED
  BY <1>1, <1>2, <1>3, <1>4, <1>5, <1>6 DEF Next

\* A field that the merge leaves alone does not make a list differ.
Tuned(list, i, policy) == [list EXCEPT ![i] = [list[i] EXCEPT !.policy = policy]]
Stays(list, source) == mergeContainers(list, source) = list

LEMMA TunedStays ==
  ASSUME NEW source \in Seq(AnyContainer), NEW list, Stays(list, source),
         NEW i \in DOMAIN list, NEW policy
  PROVE  Stays(Tuned(list, i, policy), source)
<1> DEFINE tuned == Tuned(list, i, policy)
           again == mergeContainers(tuned, source)
<1>0. list = mergeContainers(list, source)
  BY DEF Stays
<1>1. /\ DOMAIN list = DOMAIN source /\ list = [k \in DOMAIN source |-> list[k]]
      /\ DOMAIN again = DOMAIN source /\ again = [k \in DOMAIN source |-> again[k]]
  BY <1>0, MergedLength
<1>2. /\ DOMAIN tuned = DOMAIN source /\ tuned = [k \in DOMAIN source |-> tuned[k]]
      /\ tuned[i] = [list[i] EXCEPT !.policy = policy]
      /\ \A k \in DOMAIN source : k # i => tuned[k] = list[k]
  BY <1>1 DEF Tuned
<1> HIDE DEF tuned
<1>3. Len(list) = Len(source) /\ Len(tuned) = Len(source)
  <2>1. DOMAIN source = 1 .. Len(source) /\ Len(source) \in Nat
    OBVIOUS
  <2>2. \A l : DOMAIN l = DOMAIN source /\ l = [k \in DOMAIN source |-> l[k]] => Len(l) = Len(source)
    <3>1. ASSUME NEW l, DOMAIN l = DOMAIN source, l = [k \in DOMAIN source |-> l[k]]
          PROVE  Len(l) = Len(source)
      <4>1. l \in Seq({l[k] : k \in DOMAIN source})
        BY <2>1, <3>1
      <4> QED
        BY <2>1, <3>1, <4>1
    <3> QED
      BY <3>1
  <2> QED
    BY <1>1, <1>2, <2>2
<1>4. OldOf(list, source) = list /\ OldOf(tuned, source) = tuned
  BY <1>3 DEF OldOf
<1>5. ASSUME NEW k \in DOMAIN source
      PROVE  again[k] = tuned[k]
  <2> DEFINE was == list[k]
             now == tuned[k]
             then == again[k]
  <2>1. /\ IsContainer(was) /\ was.name = source[k].name /\ was.image = source[k].image
        /\ was.body = source[k].body
        /\ was.timing = IF source[k].timing = "none" THEN "none" ELSE updateProbe(was.timing)
    <3>1. mergeContainers(list, source)[k] = was
      BY <1>0
    <3> QED
      BY <1>4, <3>1, MergedContainers
  <2>2. /\ IsContainer(then) /\ then.name = source[k].name /\ then.image = source[k].image
        /\ then.body = source[k].body
        /\ then.timing = IF source[k].timing = "none" THEN "none" ELSE updateProbe(now.timing)
        /\ then.policy = now.policy
    <3> HIDE DEF again
    <3>1. mergeContainers(tuned, source)[k] = again[k]
      BY DEF again
    <3>2. LET old == OldOf(tuned, source)[k]
          IN  /\ IsContainer(again[k]) /\ again[k].name = source[k].name
              /\ again[k].image = source[k].image /\ again[k].body = source[k].body
              /\ again[k].timing = IF source[k].timing = "none" THEN "none"
                                   ELSE updateProbe(old.timing)
              /\ again[k].policy = old.policy
      BY <3>1, MergedContainers
    <3> QED
      BY <1>4, <3>2
  <2>3. now = was \/ now = [was EXCEPT !.policy = policy]
    BY <1>2
  <2> HIDE DEF was, now, then
  <2>4. /\ IsContainer(now) /\ now.name = was.name /\ now.image = was.image
        /\ now.body = was.body /\ now.timing = was.timing
    BY <2>1, <2>3 DEF IsContainer, Fields
  <2>5. then = now
    BY <2>1, <2>2, <2>4, SameContainer
  <2> QED
    BY <2>5 DEF then, now
<1> HIDE DEF again
<1>6. again = tuned
  BY <1>1, <1>2, <1>5
<1> QED
  BY <1>6 DEF again, tuned, Stays

TunedTemplate(t, i, policy) == [t EXCEPT !.containers[i].policy = policy]

LEMMA TunedTemplateStays ==
  ASSUME NEW asked, asked.containers \in Seq(AnyContainer), NEW t,
         mergePodTemplates(t, asked) = t,
         NEW i \in DOMAIN t.containers, NEW policy
  PROVE  mergePodTemplates(TunedTemplate(t, i, policy), asked) = TunedTemplate(t, i, policy)
<1> DEFINE u == TunedTemplate(t, i, policy)
           merged == mergePodTemplates(t, asked)
           again == mergePodTemplates(u, asked)
<1>1. /\ IsTemplate(merged) /\ merged = t
      /\ merged.initContainers = mergeContainers(t.initContainers, asked.initContainers)
      /\ merged.containers = mergeContainers(t.containers, asked.containers)
      /\ merged.volumes = asked.volumes
      /\ merged.node = IF asked.node # "any" THEN asked.node ELSE t.node
      /\ merged.labels = mergeMaps(asked.labels, t.labels)
  BY MergedParts
<1> HIDE DEF merged
<1>2. DOMAIN t = Parts
  BY <1>1 DEF IsTemplate
<1>3. /\ IsTemplate(u) /\ u.initContainers = t.initContainers /\ u.volumes = t.volumes
      /\ u.node = t.node /\ u.labels = t.labels
      /\ u.containers = Tuned(t.containers, i, policy)
  BY <1>1, <1>2 DEF IsTemplate, Parts, Tuned, TunedTemplate
<1> HIDE DEF u
<1>4. /\ IsTemplate(again)
      /\ again.initContainers = mergeContainers(u.initContainers, asked.initContainers)
      /\ again.containers = mergeContainers(u.containers, asked.containers)
      /\ again.volumes = asked.volumes
      /\ again.node = IF asked.node # "any" THEN asked.node ELSE u.node
      /\ again.labels = mergeMaps(asked.labels, u.labels)
  BY MergedParts
<1> HIDE DEF again
<1>5. again.containers = u.containers
  <2>1. Stays(t.containers, asked.containers)
    BY <1>1 DEF Stays
  <2>2. Stays(Tuned(t.containers, i, policy), asked.containers)
    BY <2>1, TunedStays
  <2> QED
    BY <1>3, <1>4, <2>2 DEF Stays
<1>6. again = u
  BY <1>1, <1>3, <1>4, <1>5, SameTemplate
<1> QED
  BY <1>6 DEF again, u

\* What was written is a fixed point of the merge.
LEMMA KeptStep ==
  ASSUME ~Sparse, LabelsInv, WorkloadKept, [Next]_vars
  PROVE  WorkloadKept'
<1>1. CASE \/ StartReconcile \/ TransientError \/ EditSpec
           \/ \E n \in JobNames : FinishJob(n) \/ ExpireJob(n)
  BY <1>1 DEF StartReconcile, TransientError, EditSpec, FinishJob, ExpireJob, WorkloadKept
<1>2. CASE CreateOrUpdate
  <2> DEFINE asked == newIronicPodTemplate(conf)
             merged == mergePodTemplates(stored, asked)
  <2>1. conf \in Specs /\ stored.labels \in Labels
    BY <1>2 DEF CreateOrUpdate, LabelsInv, TypeOK
  <2>2. Askable(asked) /\ LeavesNothingOut(asked)
    BY <2>1, AskedPlain
  <2>3. mergePodTemplates(Defaulted(merged), asked) = Defaulted(merged)
    <3> HIDE DEF asked
    <3> QED
      BY <2>1, <2>2, WrittenStays
  <2>4. \/ ensureIronicUpgradeJob("pre") \/ ensureIronicUpgradeJob("post")
        \/ WriteTemplate(merged) \/ RefuseTemplate(merged) \/ ReportReady(merged)
    BY <1>2 DEF CreateOrUpdate
  <2>5. asked = newIronicPodTemplate(conf)
    OBVIOUS
  <2> HIDE DEF merged, asked
  <2>6. CASE WriteTemplate(merged)
    BY <2>3, <2>5, <2>6 DEF WriteTemplate, WorkloadKept
  <2>7. CASE \/ ensureIronicUpgradeJob("pre") \/ ensureIronicUpgradeJob("post")
             \/ RefuseTemplate(merged) \/ ReportReady(merged)
    BY <2>7 DEF ensureIronicUpgradeJob, RefuseTemplate, ReportReady, WorkloadKept
  <2> QED
    BY <2>4, <2>6, <2>7
<1>3. CASE LabelWorkload
  <2>1. stored' = Labelled(stored) /\ applied' = applied
    BY <1>3 DEF LabelWorkload, Labelled
  <2>2. ASSUME applied # NoSpec
        PROVE  mergePodTemplates(stored', newIronicPodTemplate(applied)) = stored'
    <3>1. applied \in Specs /\ stored.labels \in Labels
      BY <2>2 DEF LabelsInv, TypeOK
    <3>2. mergePodTemplates(stored, newIronicPodTemplate(applied)) = stored
      BY <2>2 DEF WorkloadKept
    <3>3. Askable(newIronicPodTemplate(applied))
      BY <3>1, AskedPlain
    <3> QED
      BY <2>1, <3>1, <3>2, <3>3, LabelledStays
  <2> QED
    BY <2>1, <2>2 DEF WorkloadKept
<1>6. CASE TuneContainer
  <2>1. applied' = applied
    BY <1>6 DEF TuneContainer
  <2>2. PICK i \in DOMAIN stored.containers :
          stored' = [stored EXCEPT !.containers[i].policy = stored.containers[i].name]
    BY <1>6 DEF TuneContainer
  <2>3. ASSUME applied # NoSpec
        PROVE  mergePodTemplates(stored', newIronicPodTemplate(applied)) = stored'
    <3>1. applied \in Specs
      BY <2>3 DEF LabelsInv, TypeOK
    <3>2. mergePodTemplates(stored, newIronicPodTemplate(applied)) = stored
      BY <2>3 DEF WorkloadKept
    <3>3. newIronicPodTemplate(applied).containers \in Seq(AnyContainer)
      BY <3>1, AskedLists
    <3>4. stored' = TunedTemplate(stored, i, stored.containers[i].name)
      BY <2>2 DEF TunedTemplate
    <3> QED
      BY <3>2, <3>3, <3>4, TunedTemplateStays
  <2> QED
    BY <2>1, <2>3 DEF WorkloadKept
<1>4. CASE EditWorkload
  BY <1>4 DEF EditWorkload, WorkloadKept
<1>5. CASE UNCHANGED vars
  BY <1>5 DEF vars, WorkloadKept
<1> QED
  BY <1>1, <1>2, <1>3, <1>4, <1>5, <1>6 DEF Next

\* The jobs keep the template they were made with.
LEMMA AcceptedStep ==
  ASSUME ~Sparse, JobsAccepted, JobsChange
  PROVE  JobsAccepted'
<1> SUFFICES ASSUME NEW n \in JobNames, jobs'[n] # NoJob
             PROVE  mergePodTemplates(jobs'[n].template, newMigrationTemplate(jobs'[n].for, n.phase))
                      = jobs'[n].template
  BY DEF JobsAccepted, Accepts
<1>1. CASE /\ jobs[n] # NoJob
           /\ jobs'[n].template = jobs[n].template /\ jobs'[n].for = jobs[n].for
  BY <1>1 DEF JobsAccepted, Accepts
<1>2. CASE /\ conf \in Specs
           /\ jobs'[n].template = MadeFor(conf, n.phase) /\ jobs'[n].for = conf
  <2>1. n.phase \in Phases
    BY DEF JobNames
  <2> QED
    BY <1>2, <2>1, MadeJob
<1> QED
  BY <1>1, <1>2 DEF JobsChange

\* newMigrationTemplate applies the overrides of the spec a job is made for: the
\* job has the container of its phase and those, none else and none missing, and
\* the same of the init containers.
JobsCarry ==
  \A n \in JobNames : jobs[n] # NoJob => JobFollows(jobs[n].for, n.phase, jobs[n].template)

LEMMA CarryStep ==
  ASSUME JobsCarry, JobsChange
  PROVE  JobsCarry'
<1> SUFFICES ASSUME NEW n \in JobNames, jobs'[n] # NoJob
             PROVE  JobFollows(jobs'[n].for, n.phase, jobs'[n].template)
  BY DEF JobsCarry
<1>1. CASE /\ jobs[n] # NoJob
           /\ jobs'[n].template = jobs[n].template /\ jobs'[n].for = jobs[n].for
  BY <1>1 DEF JobsCarry
<1>2. CASE /\ conf \in Specs
           /\ ~Refused(mergePodTemplates(Absent, newMigrationTemplate(conf, n.phase)))
           /\ jobs'[n].template = MadeFor(conf, n.phase) /\ jobs'[n].for = conf
  <2>1. n.phase \in Phases
    BY DEF JobNames
  <2> QED
    BY <1>2, <2>1, MadeJob
<1> QED
  BY <1>1, <1>2 DEF JobsChange

-----------------------------------------------------------------------------
(* Results. *)

\* Type correctness: the overrides stay within what users may write, and the
\* template keeps its fields and labels.
THEOREM PodTemplateTypeCorrect == Spec => []TypeOK
<1>1. LabelsInv => TypeOK
  BY DEF LabelsInv
<1> QED
  BY <1>1, InvAlways, PTL

\* mergeMaps gives the operator's labels priority over the users', and both over
\* those of the workload: no sequence of edits and merges takes the version
\* label away from the operator or removes what others put on the workload.
THEOREM LabelsAlwaysKept == Spec => LabelsKept
<1>1. LabelsInv /\ [Next]_vars =>
        [/\ stored' # Absent => stored'.labels["version"] \in Images
         /\ stored.labels["other"] = "user" => stored'.labels["other"] = "user"]_vars
  BY InvStep DEF Kept
<1> QED
  BY <1>1, InvAlways, PTL DEF Spec, LabelsKept

\* What is reported Ready has the containers of both kinds, the images of the last
\* overrides, the volumes and the operator's label that its spec asks for, none
\* besides, whatever was edited and stored before: mergePodTemplates drops what is
\* no longer asked for, but for labels and a node.  Nor do the fields that
\* mergeContainers does not copy ever arrive there, or those that others put on a
\* container get onto one that every pod has.
THEOREM TemplateAlwaysFollows == Spec => []TemplateFollowsSpec
<1>1. ASSUME LabelsInv, ReadyInv, Shape(stored)
      PROVE  TemplateFollowsSpec
  <2>1. ASSUME ready = spec, ~queued, conf = NoSpec
        PROVE  Follows(spec, stored)
    <3>1. spec \in Specs /\ stored.labels \in Labels
      BY <1>1 DEF LabelsInv, TypeOK
    <3>2. mergePodTemplates(stored, newIronicPodTemplate(spec)) = stored
      BY <1>1, <2>1 DEF ReadyInv
    <3>3. ~Twice(stored.containers, {}) /\ ~Twice(stored.initContainers, {})
      BY <1>1 DEF Shape
    <3> QED
      BY <3>1, <3>2, <3>3, StaysFollows
  <2>2. SpecArrives
    BY <2>1 DEF SpecArrives, Follows
  <2> QED
    BY <1>1, <2>2, ShapeKeeps DEF TemplateFollowsSpec
<1>2. Spec => []ReadyInv
  BY ReadyInit, ReadyStep, InvAlways, PTL DEF Spec
<1>3. Spec => [](Shape(stored))
  BY ShapeInit, ShapeStep, InvAlways, PTL DEF Spec
<1> QED
  BY <1>1, <1>2, <1>3, InvAlways, PTL

\* For overrides that leave out no field with a default, mergePodTemplates
\* finds nothing to change in what it wrote, completed by the server and
\* labelled by others, whatever was there before: the operator does not write
\* in circles.  Nor does it find anything to change in a job made for the spec,
\* whose template is immutable: ensureIronicUpgradeJob gets to look at how far
\* the job is.
THEOREM DefaultsAlwaysKept == ASSUME ~Sparse PROVE Spec => []DefaultsKept
<1>1. Init => DefaultsKept
  BY DEF Init, DefaultsKept, WorkloadKept, JobsAccepted
<1>2. LabelsInv /\ DefaultsKept /\ [Next]_vars => DefaultsKept'
  BY InvStep, KeptStep, AcceptedStep DEF DefaultsKept
<1> QED
  BY <1>1, <1>2, InvAlways, PTL DEF Spec

\* Every container and init container of the overrides is in the pods of every
\* upgrade job made with them (newMigrationTemplate ends in applyOverridesToPod),
\* as its last override has it, for overrides of any length, and besides them only
\* the container of its phase.
THEOREM JobsCarryOverrides == Spec => []JobsCarry
<1>1. Init => JobsCarry
  BY DEF Init, JobsCarry
<1>2. LabelsInv /\ JobsCarry /\ [Next]_vars => JobsCarry'
  BY InvStep, CarryStep
<1> QED
  BY <1>1, <1>2, InvAlways, PTL DEF Spec
=============================================================================

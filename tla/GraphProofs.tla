------------------------------ MODULE GraphProofs ------------------------------
(***************************************************************************)
(* Proofs about the two modules that are built on the graph of providers.  *)
(*                                                                         *)
(* First the graph itself: the order is found and a cycle reported by      *)
(* recursive functions, whose values are those of a list of steps, and     *)
(* that the list exists and keeps its invariant follows from the least     *)
(* step at which it would not.  Then Composition, for every set of         *)
(* installations, faces, policies and administrators, and Pipeline, for    *)
(* every set of digests and installations and every number of operations.  *)
(***************************************************************************)
EXTENDS Pipeline, Composition, FiniteSetTheorems, NaturalsInduction, WellFoundedInduction,
        TLAPS

FaceType == [provides : SUBSET Offers, requires : SUBSET Requirements]

-----------------------------------------------------------------------------
(* Least and greatest elements, by the well-founded order of the naturals.  *)

Below == {p \in Nat \X Nat : p[1] < p[2]}

LEMMA Smallest ==
  ASSUME NEW S, S \subseteq Nat, S # {}
  PROVE  \E n \in S : \A m \in S : n <= m
<1>1. IsWellFoundedOn(Below, Nat)
  BY NatLessThanWellFounded DEF OpToRel, Below
<1>2. PICK n \in S : \A m \in S : ~ (<<m, n>> \in Below)
  BY <1>1, WFMin
<1>3. \A m \in S : n <= m
  <2>1. TAKE m \in S
  <2>2. ~ (m < n)
    BY <1>2 DEF Below
  <2> QED BY <2>2
<1> QED BY <1>3

LEMMA Greatest ==
  ASSUME NEW S, S \subseteq Nat, S # {}, NEW b \in Nat, \A x \in S : x <= b
  PROVE  \E n \in S : \A m \in S : m <= n
<1>1. PICK x \in S : TRUE
  OBVIOUS
<1> DEFINE Gaps == {d \in Nat : \E y \in S : d = b - y}
<1>2. b - x \in Gaps
  OBVIOUS
<1>3. PICK d \in Gaps : \A c \in Gaps : d <= c
  BY <1>2, Smallest
<1>4. PICK n \in S : d = b - n
  OBVIOUS
<1>5. ASSUME NEW m \in S PROVE m <= n
  <2>1. b - m \in Gaps
    OBVIOUS
  <2>2. d <= b - m
    BY <1>3, <2>1
  <2> QED BY <1>4, <2>2
<1> QED BY <1>5

LEMMA LeastIn ==
  ASSUME NEW S, S \subseteq Nat, S # {}
  PROVE  Least(S) \in S /\ \A m \in S : Least(S) <= m
BY Smallest DEF Least

LEMMA Subsets ==
  ASSUME NEW T, IsFiniteSet(T), NEW S, S \subseteq T
  PROVE  /\ IsFiniteSet(S) /\ Cardinality(S) \in Nat /\ Cardinality(T) \in Nat
         /\ Cardinality(S) <= Cardinality(T)
         /\ Cardinality(S) = Cardinality(T) => S = T
<1>1. S \in SUBSET T
  OBVIOUS
<1>2. IsFiniteSet(S) /\ Cardinality(S) <= Cardinality(T)
      /\ (Cardinality(T) = Cardinality(S) => T = S)
  BY <1>1, FS_Subset
<1> QED BY <1>2, FS_CardinalityType

LEMMA SmallestSet ==
  ASSUME NEW T, IsFiniteSet(T), NEW C, C \subseteq SUBSET T, C # {}
  PROVE  \E S \in C : \A U \in C : Cardinality(S) <= Cardinality(U)
<1>1. \A S \in C : Cardinality(S) \in Nat
  BY Subsets
<1> DEFINE Sizes == {Cardinality(S) : S \in C}
<1>2. PICK n \in Sizes : \A m \in Sizes : n <= m
  <2>1. Sizes \subseteq Nat /\ Sizes # {}
    BY <1>1
  <2> HIDE DEF Sizes
  <2> QED BY <2>1, Smallest
<1> QED BY <1>2

\* A finite set of offers has one of the highest version.
LEMMA HighestIn ==
  ASSUME NEW S, S \subseteq Offers, IsFiniteSet(S), S # {}
  PROVE  Highest(S) \in S /\ \A o \in S : o.version <= Highest(S).version
<1> DEFINE Under(o) == {p \in S : p.version <= o.version}
           Sizes == {Cardinality(Under(o)) : o \in S}
<1>1. \A o \in S : o.version \in Nat
  BY InterfacesAssumption DEF Offers
<1>2. ASSUME NEW o \in S
      PROVE  IsFiniteSet(Under(o)) /\ Cardinality(Under(o)) \in Nat
             /\ Cardinality(Under(o)) <= Cardinality(S)
  BY FS_Subset, FS_CardinalityType
<1>3. Cardinality(S) \in Nat
  BY FS_CardinalityType
<1>4. PICK n \in Sizes : \A m \in Sizes : m <= n
  <2>1. Sizes \subseteq Nat /\ Sizes # {} /\ \A m \in Sizes : m <= Cardinality(S)
    BY <1>2
  <2> HIDE DEF Sizes
  <2> QED BY <1>3, <2>1, Greatest
<1>5. PICK o \in S : n = Cardinality(Under(o))
  OBVIOUS
<1>6. ASSUME NEW p \in S PROVE p.version <= o.version
  <2>1. SUFFICES ASSUME o.version < p.version PROVE FALSE
    BY <1>1
  <2>2. Under(o) \subseteq Under(p) /\ p \in Under(p) /\ p \notin Under(o)
    BY <1>1, <2>1
  <2> HIDE DEF Under
  <2>3. Cardinality(Under(o)) <= Cardinality(Under(p))
        /\ Cardinality(Under(o)) # Cardinality(Under(p))
    BY <1>2, <2>2, Subsets
  <2>4. Cardinality(Under(p)) <= Cardinality(Under(o))
    BY <1>4, <1>5
  <2> QED BY <1>2, <2>3, <2>4
<1> QED BY <1>6 DEF Highest

LEMMA SubsetsAreFinite ==
  /\ IsFiniteSet(Installations) /\ Installations \subseteq Nat
  /\ \A S \in SUBSET Installations : IsFiniteSet(S) /\ S \subseteq Nat
BY InstallationsAssumption, FS_Subset

\* A list without repetitions has as many members as places.
Distinct(s) == \A j, k \in 1..Len(s) : s[j] = s[k] => j = k

LEMMA DistinctSize ==
  ASSUME NEW S, NEW s \in Seq(S), Distinct(s)
  PROVE  IsFiniteSet(ToSet(s)) /\ Cardinality(ToSet(s)) = Len(s) /\ ToSet(s) \subseteq S
<1>1. Len(s) \in Nat /\ DOMAIN s = 1..Len(s) /\ \A k \in 1..Len(s) : s[k] \in S
  OBVIOUS
<1>2. s \in Bijection(1..Len(s), ToSet(s))
  BY <1>1 DEF Bijection, Injection, Surjection, IsInjective, ToSet, Distinct
<1>3. ExistsBijection(1..Len(s), ToSet(s))
  BY <1>2 DEF ExistsBijection
<1>4. IsFiniteSet(1..Len(s)) /\ Cardinality(1..Len(s)) = Len(s)
  <2>1. PICK n \in Nat : n = Len(s)
    BY <1>1
  <2>2. IsFiniteSet(1..n) /\ Cardinality(1..n) = IF 1 > n THEN 0 ELSE n - 1 + 1
    BY FS_Interval
  <2> QED BY <2>1, <2>2
<1> QED BY <1>1, <1>3, <1>4, FS_Bijection DEF ToSet

-----------------------------------------------------------------------------
(* The activation order.  Processed is defined by recursion; what it is      *)
(* follows from the least step at which it would not be.                     *)

\* The list after every one of n steps.
Lists(f, nodes, edges, n) ==
  f = [k \in 0..n |-> IF k = 0 THEN <<>> ELSE NextProcessed(nodes, edges, f[k - 1])]

LEMMA ListsStep ==
  ASSUME NEW nodes, NEW edges, NEW n \in Nat, NEW f, Lists(f, nodes, edges, n)
  PROVE  \E g : Lists(g, nodes, edges, n + 1)
<1>1. PICK g : g = [k \in 0..(n + 1) |->
                      IF k = n + 1 THEN NextProcessed(nodes, edges, f[n]) ELSE f[k]]
  OBVIOUS
<1>2. g[n + 1] = NextProcessed(nodes, edges, f[n]) /\ \A k \in 0..n : g[k] = f[k]
  BY <1>1
<1>3. ASSUME NEW k \in 0..(n + 1)
      PROVE  g[k] = IF k = 0 THEN <<>> ELSE NextProcessed(nodes, edges, g[k - 1])
  <2>1. CASE k = n + 1
    <3>1. k # 0 /\ k - 1 = n /\ n \in 0..n
      BY <2>1
    <3> QED BY <1>2, <2>1, <3>1
  <2>2. CASE k = 0
    BY <1>2, <2>2 DEF Lists
  <2>3. CASE k \in 1..n
    <3>1. k - 1 \in 0..n /\ k \in 0..n /\ k # 0
      BY <2>3
    <3>2. f[k] = NextProcessed(nodes, edges, f[k - 1])
      BY <3>1 DEF Lists
    <3> QED BY <1>2, <3>1, <3>2
  <2> QED BY <2>1, <2>2, <2>3
<1>4. g = [k \in 0..(n + 1) |-> g[k]]
  BY <1>1
<1>5. Lists(g, nodes, edges, n + 1)
  BY <1>3, <1>4 DEF Lists
<1> QED BY <1>5

LEMMA ListsExist ==
  ASSUME NEW nodes, NEW edges
  PROVE  \A n \in Nat : \E f : Lists(f, nodes, edges, n)
<1> DEFINE Without == {n \in Nat : ~ \E f : Lists(f, nodes, edges, n)}
<1>1. SUFFICES ASSUME Without # {} PROVE FALSE
  OBVIOUS
<1>2. PICK n \in Without : \A m \in Without : n <= m
  BY <1>1, Smallest
<1>3. CASE n = 0
  <2>1. PICK f : f = [k \in 0..0 |-> <<>>]
    OBVIOUS
  <2>2. Lists(f, nodes, edges, 0)
    BY <2>1 DEF Lists
  <2> QED BY <1>3, <2>2
<1>4. CASE n # 0
  <2>1. n - 1 \in Nat /\ n - 1 \notin Without /\ (n - 1) + 1 = n
    BY <1>2, <1>4
  <2>2. PICK f : Lists(f, nodes, edges, n - 1)
    BY <2>1
  <2>3. \E g : Lists(g, nodes, edges, n)
    BY <2>1, <2>2, ListsStep
  <2> QED BY <2>3
<1> QED BY <1>3, <1>4

LEMMA ProcessedIsListed ==
  ASSUME NEW nodes, IsFiniteSet(nodes), NEW edges
  PROVE  \E f : /\ Lists(f, nodes, edges, Cardinality(nodes))
                /\ Processed(nodes, edges) = f[Cardinality(nodes)]
<1>1. Cardinality(nodes) \in Nat
  BY FS_CardinalityType
<1>2. \E f : Lists(f, nodes, edges, Cardinality(nodes))
  BY <1>1, ListsExist
<1> QED BY <1>2, Zenon DEF Processed, Lists

\* No node twice, and every consumer before what it uses.
Ordered(list, nodes, edges) ==
  /\ list \in Seq(nodes) /\ Distinct(list)
  /\ \A k \in 1..Len(list) : \A e \in edges :
       e.provider = list[k] => \E j \in 1..k - 1 : list[j] = e.consumer

LEMMA NextOrdered ==
  ASSUME NEW nodes \in SUBSET Installations, NEW edges, NEW list, Ordered(list, nodes, edges)
  PROVE  LET next == NextProcessed(nodes, edges, list)
             ready == Ready(nodes, edges, ToSet(list)) IN
         /\ Ordered(next, nodes, edges)
         /\ IF ready = {} THEN next = list ELSE Len(next) = Len(list) + 1
<1> DEFINE ready == Ready(nodes, edges, ToSet(list))
           next == NextProcessed(nodes, edges, list)
<1>1. CASE ready = {}
  BY <1>1 DEF NextProcessed
<1>2. CASE ready # {}
  <2>1. PICK x : x = Least(ready)
    OBVIOUS
  <2>2. x \in ready
    <3>1. ready \subseteq Nat
      BY SubsetsAreFinite DEF Ready
    <3> HIDE DEF ready
    <3> QED BY <1>2, <2>1, <3>1, LeastIn
  <2>3. x \in nodes /\ x \notin ToSet(list)
        /\ \A e \in edges : e.provider = x => e.consumer \in ToSet(list)
    BY <2>2 DEF Ready
  <2>4. next = Append(list, x)
    BY <1>2, <2>1 DEF NextProcessed
  <2>5. list \in Seq(nodes) /\ Len(list) \in Nat /\ ToSet(list) = {list[k] : k \in 1..Len(list)}
    BY DEF Ordered, ToSet
  <2> HIDE DEF next, ready
  <2>6. /\ next \in Seq(nodes) /\ Len(next) = Len(list) + 1 /\ next[Len(list) + 1] = x
        /\ \A k \in 1..Len(list) : next[k] = list[k]
    BY <2>3, <2>4, <2>5
  <2>7. Distinct(next)
    BY <2>3, <2>5, <2>6 DEF Ordered, Distinct
  <2>8. ASSUME NEW k \in 1..Len(next), NEW e \in edges, e.provider = next[k]
        PROVE  \E j \in 1..k - 1 : next[j] = e.consumer
    <3>1. CASE k = Len(list) + 1
      <4>1. PICK j \in 1..Len(list) : list[j] = e.consumer
        BY <2>3, <2>5, <2>6, <2>8, <3>1
      <4> QED BY <2>5, <2>6, <3>1, <4>1
    <3>2. CASE k \in 1..Len(list)
      <4>1. PICK j \in 1..k - 1 : list[j] = e.consumer
        BY <2>6, <2>8, <3>2 DEF Ordered
      <4>2. j \in 1..Len(list)
        BY <2>5, <3>2, <4>1
      <4> QED BY <2>6, <4>1, <4>2
    <3> QED BY <2>5, <2>6, <3>1, <3>2
  <2>9. Ordered(next, nodes, edges)
    BY <2>6, <2>7, <2>8 DEF Ordered
  <2> QED BY <1>2, <2>6, <2>9 DEF next, ready
<1> QED BY <1>1, <1>2

LEMMA ListsOrdered ==
  ASSUME NEW nodes \in SUBSET Installations, NEW edges, NEW n \in Nat, NEW f,
         Lists(f, nodes, edges, n)
  PROVE  \A k \in 0..n :
           /\ Ordered(f[k], nodes, edges)
           /\ Len(f[k]) = k \/ Ready(nodes, edges, ToSet(f[k])) = {}
<1> DEFINE Good(k) == /\ Ordered(f[k], nodes, edges)
                      /\ Len(f[k]) = k \/ Ready(nodes, edges, ToSet(f[k])) = {}
           Bad == {k \in 0..n : ~Good(k)}
<1>1. SUFFICES ASSUME Bad # {} PROVE FALSE
  OBVIOUS
<1>2. PICK k \in Bad : \A m \in Bad : k <= m
  <2>1. Bad \subseteq Nat
    OBVIOUS
  <2> HIDE DEF Bad
  <2> QED BY <1>1, <2>1, Smallest
<1>3. CASE k = 0
  <2>1. f[0] = <<>>
    BY DEF Lists
  <2>2. Ordered(<<>>, nodes, edges) /\ Len(<<>>) = 0
    BY DEF Ordered, Distinct
  <2>3. Good(0)
    BY <2>1, <2>2
  <2> QED BY <1>3, <2>3
<1>4. CASE k # 0
  <2>1. k - 1 \in 0..n /\ k \in 0..n /\ k - 1 < k
    BY <1>4
  <2>2. Good(k - 1)
    <3>1. k - 1 \notin Bad
      <4> HIDE DEF Bad
      <4> QED BY <1>2, <2>1
    <3> HIDE DEF Good
    <3> QED BY <2>1, <3>1
  <2>3. f[k] = NextProcessed(nodes, edges, f[k - 1])
    BY <1>4, <2>1 DEF Lists
  <2>4. /\ Ordered(f[k], nodes, edges)
        /\ IF Ready(nodes, edges, ToSet(f[k - 1])) = {} THEN f[k] = f[k - 1]
           ELSE Len(f[k]) = Len(f[k - 1]) + 1
    BY <2>2, <2>3, NextOrdered
  <2>5. Good(k)
    BY <2>1, <2>2, <2>4
  <2> QED BY <2>5
<1> QED BY <1>3, <1>4

\* The order of the graph: every installation after its consumers and none twice; all are
\* listed exactly when the list is as long as the set, and else the rest waits for one another (compute_activation_order).
THEOREM ProcessedOrdered ==
  ASSUME NEW nodes \in SUBSET Installations, NEW edges
  PROVE  LET list == Processed(nodes, edges) IN
         /\ Ordered(list, nodes, edges)
         /\ Len(list) = Cardinality(nodes) <=> ToSet(list) = nodes
         /\ Len(list) # Cardinality(nodes) => Ready(nodes, edges, ToSet(list)) = {}
<1>1. IsFiniteSet(nodes) /\ Cardinality(nodes) \in Nat
  BY SubsetsAreFinite, FS_CardinalityType
<1>2. PICK f : /\ Lists(f, nodes, edges, Cardinality(nodes))
               /\ Processed(nodes, edges) = f[Cardinality(nodes)]
  BY <1>1, ProcessedIsListed
<1>3. PICK list : list = Processed(nodes, edges)
  OBVIOUS
<1>4. /\ Ordered(list, nodes, edges)
      /\ Len(list) = Cardinality(nodes) \/ Ready(nodes, edges, ToSet(list)) = {}
  <2>1. PICK n \in Nat : n = Cardinality(nodes)
    BY <1>1
  <2>2. /\ Ordered(f[n], nodes, edges)
        /\ Len(f[n]) = n \/ Ready(nodes, edges, ToSet(f[n])) = {}
    <3>1. Lists(f, nodes, edges, n) /\ n \in 0..n
      BY <1>2, <2>1
    <3>2. \A k \in 0..n :
            /\ Ordered(f[k], nodes, edges)
            /\ Len(f[k]) = k \/ Ready(nodes, edges, ToSet(f[k])) = {}
      BY <3>1, ListsOrdered
    <3> QED BY <3>1, <3>2
  <2> QED BY <1>2, <1>3, <2>1, <2>2
<1>5. Cardinality(ToSet(list)) = Len(list) /\ ToSet(list) \subseteq nodes
  BY <1>4, DistinctSize DEF Ordered
<1>6. Len(list) = Cardinality(nodes) <=> ToSet(list) = nodes
  BY <1>1, <1>5, Subsets
<1> QED BY <1>3, <1>4, <1>6

-----------------------------------------------------------------------------
(* What a graph that could be built says of the faces, and what one that     *)
(* could not.                                                                *)

FiniteFaces(faces) ==
  /\ faces \in [Installations -> FaceType]
  /\ \A i \in Installations : IsFiniteSet(faces[i].provides) /\ IsFiniteSet(faces[i].requires)

Resolved(faces) == \A need \in Needs(faces) : Cardinality(Candidates(faces, need[2])) = 1
Leans(faces, i, j) == \E r \in faces[i].requires : Candidates(faces, r) = {j}
NoLoop(faces) ==
  \A S \in (SUBSET Installations) \ {{}} : \E i \in S : \A j \in S : ~Leans(faces, i, j)
AllEdges(faces) == {EdgeOf(faces, need) : need \in Needs(faces)}

LEMMA FaceParts ==
  ASSUME NEW faces, FiniteFaces(faces), NEW i \in Installations
  PROVE  /\ faces[i].provides \subseteq Offers /\ faces[i].requires \subseteq Requirements
         /\ IsFiniteSet(faces[i].provides) /\ IsFiniteSet(faces[i].requires)
BY DEF FiniteFaces, FaceType

LEMMA CandidatesAreFinite ==
  ASSUME NEW faces, NEW r
  PROVE  /\ Candidates(faces, r) \subseteq Installations
         /\ Cardinality(Candidates(faces, r)) \in Nat
         /\ Candidates(faces, r) = {} => Cardinality(Candidates(faces, r)) = 0
         /\ Cardinality(Candidates(faces, r)) = 0 => Candidates(faces, r) = {}
         /\ Cardinality(Candidates(faces, r)) = 1 <=> \E i : Candidates(faces, r) = {i}
<1>1. Candidates(faces, r) \subseteq Installations
  BY DEF Candidates
<1>2. IsFiniteSet(Candidates(faces, r)) /\ Cardinality(Candidates(faces, r)) \in Nat
  BY <1>1, SubsetsAreFinite, FS_CardinalityType
<1> QED BY <1>1, <1>2, FS_EmptySet, FS_Singleton

LEMMA ResolutionIsOne ==
  ASSUME NEW faces, NEW r
  PROVE  Resolution(faces, r) = "resolved" <=> Cardinality(Candidates(faces, r)) = 1
<1> DEFINE C == Candidates(faces, r)
<1>1. Cardinality(C) \in Nat /\ (C = {} <=> Cardinality(C) = 0)
  BY CandidatesAreFinite
<1>2. Exporters(faces, r) = {} => C = {}
  BY DEF Exporters, Candidates, Satisfies
<1> HIDE DEF C
<1>3. Resolution(faces, r) =
        CASE Exporters(faces, r) = {} -> "missing"
          [] Exporters(faces, r) # {} /\ C = {} -> "incompatible"
          [] Cardinality(C) > 1 -> "ambiguous"
          [] Cardinality(C) = 1 -> "resolved"
  BY DEF Resolution, C
<1>4. CASE Exporters(faces, r) = {}
  <2>1. Cardinality(C) = 0 /\ C = {}
    BY <1>1, <1>2, <1>4
  <2>2. Resolution(faces, r) = "missing"
    BY <1>3, <1>4, <2>1
  <2> QED BY <2>1, <2>2 DEF C
<1>5. CASE Exporters(faces, r) # {} /\ C = {}
  <2>1. Cardinality(C) = 0
    BY <1>1, <1>5
  <2>2. Resolution(faces, r) = "incompatible"
    BY <1>3, <1>5, <2>1
  <2> QED BY <2>1, <2>2 DEF C
<1>6. CASE Exporters(faces, r) # {} /\ C # {} /\ Cardinality(C) > 1
  <2>1. Resolution(faces, r) = "ambiguous" /\ Cardinality(C) # 1
    BY <1>3, <1>6, <1>1
  <2> QED BY <2>1 DEF C
<1>7. CASE Exporters(faces, r) # {} /\ C # {} /\ Cardinality(C) = 1
  <2>1. Resolution(faces, r) = "resolved"
    BY <1>3, <1>7, <1>1
  <2> QED BY <1>7, <2>1 DEF C
<1> QED BY <1>1, <1>4, <1>5, <1>6, <1>7

LEMMA EdgeOfNeed ==
  ASSUME NEW faces, FiniteFaces(faces), NEW need \in Needs(faces),
         Cardinality(Candidates(faces, need[2])) = 1
  PROVE  LET e == EdgeOf(faces, need) IN
         /\ need = <<e.consumer, e.requirement>>
         /\ e.consumer \in Installations /\ e.requirement \in faces[e.consumer].requires
         /\ e.provider \in Installations /\ Candidates(faces, e.requirement) = {e.provider}
         /\ e.provided \in faces[e.provider].provides /\ Satisfies(e.provided, e.requirement)
         /\ \A o \in faces[e.provider].provides :
              Satisfies(o, e.requirement) => o.version <= e.provided.version
<1>1. PICK i, r : i = need[1] /\ r = need[2]
  OBVIOUS
<1>2. i \in Installations /\ r \in faces[i].requires /\ need = <<i, r>>
  BY <1>1 DEF Needs
<1>3. PICK p : Candidates(faces, r) = {p}
  BY <1>1, CandidatesAreFinite
<1>4. p \in Installations
  BY <1>3, CandidatesAreFinite
<1>5. PICK offers : offers = {o \in faces[p].provides : Satisfies(o, r)}
  OBVIOUS
<1>6. offers # {}
  BY <1>3, <1>5 DEF Candidates
<1>7. Highest(offers) \in offers /\ \A o \in offers : o.version <= Highest(offers).version
  <2>1. offers \subseteq faces[p].provides /\ faces[p].provides \subseteq Offers
        /\ IsFiniteSet(faces[p].provides)
    BY <1>4, <1>5, FaceParts
  <2>2. IsFiniteSet(offers) /\ offers \subseteq Offers
    BY <2>1, Subsets
  <2> QED BY <1>6, <2>2, HighestIn
<1>8. (CHOOSE j \in Installations : j \in Candidates(faces, need[2])) = p
  BY <1>1, <1>3, <1>4
<1>9. EdgeOf(faces, need) = [consumer |-> i, requirement |-> r, provider |-> p,
                             provided |-> Highest(offers)]
  BY <1>1, <1>5, <1>8 DEF EdgeOf
<1>10. PICK e : e = EdgeOf(faces, need)
  OBVIOUS
<1>11. e.consumer = i /\ e.requirement = r /\ e.provider = p /\ e.provided = Highest(offers)
  BY <1>9, <1>10
<1> QED BY <1>2, <1>3, <1>4, <1>5, <1>7, <1>10, <1>11

\* What every edge is, when every need has its one provider.
LEMMA EdgesAreNeeds ==
  ASSUME NEW faces, FiniteFaces(faces), Resolved(faces)
  PROVE  /\ \A e \in AllEdges(faces) :
              /\ <<e.consumer, e.requirement>> \in Needs(faces)
              /\ e = EdgeOf(faces, <<e.consumer, e.requirement>>)
              /\ e.consumer \in Installations /\ e.requirement \in faces[e.consumer].requires
              /\ e.provider \in Installations /\ IsProvider(faces, e.provider)
              /\ Candidates(faces, e.requirement) = {e.provider}
              /\ \A o \in faces[e.provider].provides :
                   Satisfies(o, e.requirement) => o.version <= e.provided.version
         /\ \A need \in Needs(faces) :
              \E e \in AllEdges(faces) : need = <<e.consumer, e.requirement>>
<1>1. ASSUME NEW need \in Needs(faces)
      PROVE  LET e == EdgeOf(faces, need) IN
             /\ need = <<e.consumer, e.requirement>>
             /\ e.consumer \in Installations /\ e.requirement \in faces[e.consumer].requires
             /\ e.provider \in Installations /\ Candidates(faces, e.requirement) = {e.provider}
             /\ e.provided \in faces[e.provider].provides
             /\ \A o \in faces[e.provider].provides :
                  Satisfies(o, e.requirement) => o.version <= e.provided.version
  BY EdgeOfNeed DEF Resolved
<1>2. ASSUME NEW e \in AllEdges(faces)
      PROVE  /\ <<e.consumer, e.requirement>> \in Needs(faces)
             /\ e = EdgeOf(faces, <<e.consumer, e.requirement>>)
             /\ e.consumer \in Installations /\ e.requirement \in faces[e.consumer].requires
             /\ e.provider \in Installations /\ IsProvider(faces, e.provider)
             /\ Candidates(faces, e.requirement) = {e.provider}
             /\ \A o \in faces[e.provider].provides :
                  Satisfies(o, e.requirement) => o.version <= e.provided.version
  <2>1. PICK need \in Needs(faces) : e = EdgeOf(faces, need)
    BY DEF AllEdges
  <2> QED BY <1>1, <2>1 DEF IsProvider
<1>3. ASSUME NEW need \in Needs(faces)
      PROVE  \E e \in AllEdges(faces) : need = <<e.consumer, e.requirement>>
  <2>1. EdgeOf(faces, need) \in AllEdges(faces)
    BY DEF AllEdges
  <2> QED BY <1>1, <2>1
<1> QED BY <1>2, <1>3

LEMMA EdgesAreLeans ==
  ASSUME NEW faces, FiniteFaces(faces), Resolved(faces)
  PROVE  /\ \A e \in AllEdges(faces) : Leans(faces, e.consumer, e.provider)
         /\ \A i \in Installations : \A j : Leans(faces, i, j) =>
              \E e \in AllEdges(faces) : e.consumer = i /\ e.provider = j
<1>1. \A e \in AllEdges(faces) : Leans(faces, e.consumer, e.provider)
  BY EdgesAreNeeds DEF Leans
<1>2. ASSUME NEW i \in Installations, NEW j, Leans(faces, i, j)
      PROVE  \E e \in AllEdges(faces) : e.consumer = i /\ e.provider = j
  <2>1. PICK r \in faces[i].requires : Candidates(faces, r) = {j}
    BY <1>2 DEF Leans
  <2>2. r \in Requirements
    BY FaceParts
  <2>3. <<i, r>> \in Needs(faces)
    BY <2>2 DEF Needs
  <2>4. PICK e \in AllEdges(faces) : <<i, r>> = <<e.consumer, e.requirement>>
    BY <2>3, EdgesAreNeeds
  <2>5. e.consumer = i /\ e.requirement = r /\ Candidates(faces, e.requirement) = {e.provider}
    BY <2>4, EdgesAreNeeds
  <2> QED BY <2>1, <2>5
<1> QED BY <1>1, <1>2

\* When all are processed, the one processed last needs no other of a set.
LEMMA OrderedNoLoop ==
  ASSUME NEW faces, FiniteFaces(faces), Resolved(faces), NEW list,
         Ordered(list, Participants(faces, AllEdges(faces)), AllEdges(faces)),
         ToSet(list) = Participants(faces, AllEdges(faces))
  PROVE  NoLoop(faces)
<1> DEFINE edges == AllEdges(faces)
           nodes == Participants(faces, edges)
<1>1. SUFFICES ASSUME NEW S \in (SUBSET Installations) \ {{}}
               PROVE  \E i \in S : \A j \in S : ~Leans(faces, i, j)
  BY DEF NoLoop
<1>2. CASE S \subseteq nodes
  <2> DEFINE At == {k \in 1..Len(list) : list[k] \in S}
  <2>1. Len(list) \in Nat /\ ToSet(list) = {list[k] : k \in 1..Len(list)}
    BY DEF Ordered, ToSet
  <2>2. \A i \in S : \E k \in At : list[k] = i
    BY <1>2, <2>1
  <2>3. PICK k \in At : \A m \in At : m <= k
    <3>1. At \subseteq Nat /\ \A m \in At : m <= Len(list)
      BY <2>1
    <3>2. At # {}
      <4>1. \E i \in S : TRUE
        BY <1>1
      <4> HIDE DEF At
      <4> QED BY <2>2, <4>1
    <3> HIDE DEF At
    <3> QED BY <2>1, <3>1, <3>2, Greatest
  <2>4. ASSUME NEW j \in S, Leans(faces, list[k], j) PROVE FALSE
    <3>1. PICK m \in At : list[m] = j
      BY <2>2
    <3>2. PICK e \in edges : e.consumer = list[k] /\ e.provider = j
      BY <2>4, EdgesAreLeans
    <3>3. PICK l \in 1..m - 1 : list[l] = e.consumer
      BY <3>1, <3>2 DEF Ordered
    <3>4. l \in 1..Len(list) /\ l < m /\ m <= k
      BY <2>1, <2>3, <3>1, <3>3
    <3>5. l = k
      BY <3>2, <3>3, <3>4 DEF Ordered, Distinct
    <3> QED BY <3>4, <3>5
  <2> QED BY <2>4
<1>3. CASE ~(S \subseteq nodes)
  <2>1. PICK i \in S : i \notin nodes
    BY <1>3
  <2>2. ASSUME NEW j \in S, Leans(faces, i, j) PROVE FALSE
    <3>1. PICK e \in edges : e.consumer = i
      BY <2>2, EdgesAreLeans
    <3> QED BY <2>1, <3>1 DEF Participants
  <2> QED BY <2>2
<1> QED BY <1>2, <1>3

\* If everyone of a set is needed by another of it, some of them need each other round.
LEMMA NeededHaveLoop ==
  ASSUME NEW faces, NEW L \in SUBSET Installations, L # {},
         \A j \in L : \E i \in L : Leans(faces, i, j)
  PROVE  \E S \in SUBSET L : S # {} /\ \A i \in S : \E j \in S : Leans(faces, i, j)
<1>1. SUFFICES ASSUME \A S \in SUBSET L : S # {} => \E i \in S : \A j \in S : ~Leans(faces, i, j)
               PROVE  FALSE
  OBVIOUS
<1> DEFINE Needed(M) == M # {} /\ \A j \in M : \E i \in M : Leans(faces, i, j)
           C == {M \in SUBSET L : Needed(M)}
<1>2. IsFiniteSet(L) /\ C \subseteq SUBSET L /\ L \in C
  BY SubsetsAreFinite
<1>3. PICK M \in C : \A U \in C : Cardinality(M) <= Cardinality(U)
  <2> HIDE DEF C
  <2> QED BY <1>2, SmallestSet
<1>4. PICK x \in M : \A j \in M : ~Leans(faces, x, j)
  BY <1>1
<1>5. PICK rest : rest = M \ {x}
  OBVIOUS
<1>6. rest \in C
  <2>1. \E i \in M : Leans(faces, i, x)
    BY <1>4
  <2>2. rest # {}
    BY <1>4, <1>5, <2>1
  <2>3. ASSUME NEW j \in rest PROVE \E i \in rest : Leans(faces, i, j)
    <3>1. PICK i \in M : Leans(faces, i, j)
      BY <1>5
    <3>2. i # x
      BY <1>4, <1>5, <3>1
    <3> QED BY <1>5, <3>1, <3>2
  <2> QED BY <1>5, <2>2, <2>3
<1>7. IsFiniteSet(M)
  BY <1>2, Subsets
<1>8. Cardinality(rest) = Cardinality(M) - 1 /\ Cardinality(M) \in Nat
  BY <1>4, <1>5, <1>7, FS_RemoveElement, FS_CardinalityType
<1>9. Cardinality(M) <= Cardinality(rest)
  <2> HIDE DEF C
  <2> QED BY <1>3, <1>6
<1> QED BY <1>8, <1>9

\* What is left over: everyone waits for another one that waits.
LEMMA LeftoverWaits ==
  ASSUME NEW faces, FiniteFaces(faces), Resolved(faces), NEW done,
         Ready(Participants(faces, AllEdges(faces)), AllEdges(faces), done) = {}
  PROVE  LET left == Participants(faces, AllEdges(faces)) \ done IN
         /\ left \in SUBSET Installations
         /\ \A j \in left : \E i \in left : Leans(faces, i, j)
<1> DEFINE edges == AllEdges(faces)
           nodes == Participants(faces, edges)
           left == nodes \ done
<1>1. left \in SUBSET Installations
  BY EdgesAreNeeds DEF Participants
<1>2. ASSUME NEW j \in left PROVE \E i \in left : Leans(faces, i, j)
  <2>1. PICK e \in edges : e.provider = j /\ e.consumer \notin done
    BY DEF Ready
  <2>2. e.consumer \in nodes
    BY DEF Participants
  <2>3. Leans(faces, e.consumer, j)
    BY <2>1, EdgesAreLeans
  <2> QED BY <2>1, <2>2, <2>3
<1> QED BY <1>1, <1>2

LEMMA LoopIsLoop ==
  ASSUME NEW faces, NEW S \in SUBSET Installations, S # {},
         \A i \in S : \E j \in S : Leans(faces, i, j)
  PROVE  ~NoLoop(faces)
BY DEF NoLoop

\* A graph is built exactly when every need has one provider and none need each other round.
LEMMA TryBuildDecides ==
  ASSUME NEW faces, FiniteFaces(faces)
  PROVE  LET built == TryBuild(faces)
             edges == AllEdges(faces)
             nodes == Participants(faces, edges)
             list == Processed(nodes, edges) IN
         /\ built.status \in {"built", "unresolved", "cycle"}
         /\ built.status = "built" <=> Resolved(faces) /\ NoLoop(faces)
         /\ built.status = "built" =>
              /\ built = [status |-> "built", edges |-> edges, order |-> Reverse(list),
                          providers |-> {i \in Installations : IsProvider(faces, i)},
                          cycle |-> <<>>]
              /\ Ordered(list, nodes, edges) /\ ToSet(list) = nodes
         /\ built.status = "cycle" =>
              /\ Resolved(faces)
              /\ nodes \ ToSet(list) # {} /\ Ready(nodes, edges, ToSet(list)) = {}
              /\ built.cycle = FoundCycle({i \in nodes \ ToSet(list) : IsProvider(faces, i)}, edges)
<1> DEFINE edges == AllEdges(faces)
           nodes == Participants(faces, edges)
           list == Processed(nodes, edges)
           found == FoundCycle({i \in nodes \ ToSet(list) : IsProvider(faces, i)}, edges)
           providers == {i \in Installations : IsProvider(faces, i)}
           whole == [status |-> "built", providers |-> providers, edges |-> edges,
                     order |-> Reverse(list), cycle |-> <<>>]
<1>1. TryBuild(faces) =
        IF ~Resolved(faces) THEN NoGraph("unresolved", <<>>)
        ELSE IF Len(list) = Cardinality(nodes) THEN whole ELSE NoGraph("cycle", found)
  <2>1. Resolved(faces) <=> ~ \E need \in Needs(faces) : Resolution(faces, need[2]) # "resolved"
    BY ResolutionIsOne DEF Resolved
  <2> QED BY <2>1, Zenon DEF TryBuild, AllEdges
<1>2. CASE ~Resolved(faces)
  <2>1. TryBuild(faces).status = "unresolved"
    BY <1>1, <1>2 DEF NoGraph
  <2> QED BY <1>2, <2>1
<1>3. CASE Resolved(faces)
  <2>1. nodes \in SUBSET Installations
    BY <1>3, EdgesAreNeeds DEF Participants
  <2>2. /\ Ordered(list, nodes, edges)
        /\ Len(list) = Cardinality(nodes) <=> ToSet(list) = nodes
        /\ Len(list) # Cardinality(nodes) => Ready(nodes, edges, ToSet(list)) = {}
    BY <2>1, ProcessedOrdered
  <2>3. ToSet(list) \subseteq nodes
    BY <2>2, DistinctSize DEF Ordered
  <2>4. CASE Len(list) = Cardinality(nodes)
    <3>1. TryBuild(faces) = whole /\ TryBuild(faces).status = "built"
      BY <1>1, <1>3, <2>4
    <3>2. NoLoop(faces)
      BY <1>3, <2>2, <2>4, OrderedNoLoop
    <3> QED BY <1>3, <2>2, <2>4, <3>1, <3>2
  <2>5. CASE Len(list) # Cardinality(nodes)
    <3>1. TryBuild(faces).status = "cycle" /\ TryBuild(faces).cycle = found
      BY <1>1, <1>3, <2>5 DEF NoGraph
    <3>2. PICK left : left = nodes \ ToSet(list)
      OBVIOUS
    <3>3. left # {}
      BY <2>2, <2>3, <2>5, <3>2
    <3>4. left \in SUBSET Installations /\ \A j \in left : \E i \in left : Leans(faces, i, j)
      BY <1>3, <2>2, <2>5, <3>2, LeftoverWaits
    <3>5. PICK S \in SUBSET left : S # {} /\ \A i \in S : \E j \in S : Leans(faces, i, j)
      BY <3>3, <3>4, NeededHaveLoop
    <3>6. ~NoLoop(faces)
      BY <3>4, <3>5, LoopIsLoop
    <3> QED BY <1>3, <2>2, <2>5, <3>1, <3>2, <3>3, <3>6
  <2> QED BY <2>4, <2>5
<1> QED BY <1>2, <1>3

\* The parts of a graph that is built.
LEMMA BuiltParts ==
  ASSUME NEW faces, FiniteFaces(faces), TryBuild(faces).status = "built"
  PROVE  /\ TryBuild(faces).edges = AllEdges(faces)
         /\ TryBuild(faces).providers = {i \in Installations : IsProvider(faces, i)}
         /\ \E list :
              /\ Ordered(list, Participants(faces, AllEdges(faces)), AllEdges(faces))
              /\ TryBuild(faces).order = Reverse(list)
<1>1. PICK edges : edges = AllEdges(faces)
  OBVIOUS
<1>2. PICK list : list = Processed(Participants(faces, edges), edges)
  OBVIOUS
<1>3. PICK built : built = TryBuild(faces)
  OBVIOUS
<1>4. /\ built = [status |-> "built", edges |-> edges, order |-> Reverse(list),
                  providers |-> {i \in Installations : IsProvider(faces, i)},
                  cycle |-> <<>>]
      /\ Ordered(list, Participants(faces, edges), edges)
  BY <1>1, <1>2, <1>3, TryBuildDecides
<1>5. /\ built.edges = edges /\ built.order = Reverse(list)
      /\ built.providers = {i \in Installations : IsProvider(faces, i)}
  BY <1>4
<1> QED BY <1>1, <1>3, <1>4, <1>5

-----------------------------------------------------------------------------
(* The search for a cycle.  A node is on the path, behind it (visited and    *)
(* left) or not yet seen; those behind lead only to others behind and hold   *)
(* no cycle, so a cycle among the nodes is met before all are behind.        *)

Out(edges, i) == SetToSeq({e \in edges : e.consumer = i})
Follows(edges, i, j) == \E e \in edges : e.consumer = i /\ e.provider = j

LEMMA OutIs ==
  ASSUME NEW edges, IsFiniteSet(edges), NEW i
  PROVE  /\ Out(edges, i) \in Seq(edges) /\ Distinct(Out(edges, i))
         /\ Len(Out(edges, i)) \in Nat
         /\ \A n \in 1..Len(Out(edges, i)) :
              Out(edges, i)[n] \in edges /\ Out(edges, i)[n].consumer = i
         /\ \A e \in edges : e.consumer = i => \E n \in 1..Len(Out(edges, i)) : Out(edges, i)[n] = e
         /\ Neighbours(edges, i) = [n \in 1..Len(Out(edges, i)) |-> Out(edges, i)[n].provider]
         /\ Len(Neighbours(edges, i)) = Len(Out(edges, i))
<1>1. PICK S : S = {e \in edges : e.consumer = i}
  OBVIOUS
<1>2. IsFiniteSet(S)
  BY <1>1, Subsets
<1>3. PICK c \in Nat : c = Cardinality(S) /\ ExistsBijection(1..c, S)
  BY <1>2, FS_CardinalityType
<1>4. PICK b : b \in Bijection(1..c, S)
  BY <1>3 DEF ExistsBijection
<1>5. b \in [1..c -> S] /\ IsInjective(b)
  BY <1>4 DEF Bijection, Injection
<1>6. PICK s : s = Out(edges, i)
  OBVIOUS
<1>7. s \in [1..c -> S] /\ IsInjective(s)
  BY <1>1, <1>3, <1>5, <1>6 DEF Out, SetToSeq
<1>8. s \in Seq(edges) /\ Len(s) = c /\ DOMAIN s = 1..c
  BY <1>1, <1>7
<1>9. Distinct(s)
  BY <1>7, <1>8 DEF Distinct, IsInjective
<1>10. \A e \in S : \E n \in 1..c : s[n] = e
  <2>1. s \in Seq(S)
    BY <1>7
  <2>2. Cardinality(ToSet(s)) = c /\ ToSet(s) \subseteq S
    BY <1>8, <1>9, <2>1, DistinctSize
  <2>3. ToSet(s) = S
    BY <1>2, <1>3, <2>2, Subsets
  <2> QED BY <1>8, <2>3 DEF ToSet
<1>11. Neighbours(edges, i) = [n \in 1..c |-> s[n].provider]
  BY <1>6, <1>8 DEF Neighbours, Out
<1>12. Len(Neighbours(edges, i)) = c
  BY <1>3, <1>11
<1>13. \A n \in 1..c : s[n] \in edges /\ s[n].consumer = i
  BY <1>1, <1>7
<1>14. \A e \in edges : e.consumer = i => \E n \in 1..c : s[n] = e
  BY <1>1, <1>10
<1> QED BY <1>3, <1>6, <1>8, <1>9, <1>11, <1>12, <1>13, <1>14

\* What the search is given: a finite graph, and nodes with all that they lead to.
SearchIn(remaining, edges) ==
  /\ remaining \in SUBSET Installations /\ IsFiniteSet(edges)
  /\ \A e \in edges : e.consumer \in Installations /\ e.provider \in Installations
  /\ \A e \in edges : e.consumer \in remaining => e.provider \in remaining

Behind(path, visited) == visited \ ToSet(path)

PathOK(path, visited, remaining, edges) ==
  /\ path \in Seq(remaining) /\ Distinct(path)
  /\ visited \subseteq remaining /\ ToSet(path) \subseteq visited
  /\ \A k \in 1..Len(path) - 1 : Follows(edges, path[k], path[k + 1])

NextOK(visited, next, edges) ==
  /\ next \in [Installations -> Nat]
  /\ \A i \in Installations : /\ next[i] \in 1..Len(Out(edges, i)) + 1
                              /\ i \notin visited => next[i] = 1

\* Every edge taken from the path leads behind it or on to its next node.
TakenOK(path, visited, next, edges) ==
  \A k \in 1..Len(path) : \A m \in 1..next[path[k]] - 1 :
    \/ Out(edges, path[k])[m].provider \in Behind(path, visited)
    \/ k < Len(path) /\ Out(edges, path[k])[m].provider = path[k + 1]

Closed(behind, edges) == \A e \in edges : e.consumer \in behind => e.provider \in behind
LoopFree(behind, edges) ==
  \A S \in SUBSET behind : S # {} => \E i \in S : \A j \in S : ~Follows(edges, i, j)

Searched(path, visited, next, remaining, edges) ==
  /\ PathOK(path, visited, remaining, edges)
  /\ NextOK(visited, next, edges)
  /\ TakenOK(path, visited, next, edges)
  /\ Closed(Behind(path, visited), edges)
  /\ LoopFree(Behind(path, visited), edges)

\* What a search has spent: a node is entered and left once, an edge taken once.
Taken(next, edges) ==
  {e \in edges : \E m \in 1..next[e.consumer] - 1 : Out(edges, e.consumer)[m] = e}
Spent(path, visited, next, edges) ==
  Cardinality(visited) + Cardinality(Behind(path, visited)) + Cardinality(Taken(next, edges))

LEMMA PathSet ==
  ASSUME NEW S, NEW path \in Seq(S)
  PROVE  /\ Len(path) \in Nat /\ ToSet(path) = {path[k] : k \in 1..Len(path)}
         /\ \A k \in 1..Len(path) : path[k] \in S /\ path[k] \in ToSet(path)
BY DEF ToSet

LEMMA SpentIsNat ==
  ASSUME NEW remaining, NEW edges, SearchIn(remaining, edges),
         NEW path, NEW visited, visited \subseteq remaining, NEW next
  PROVE  /\ IsFiniteSet(visited) /\ IsFiniteSet(Behind(path, visited))
         /\ IsFiniteSet(Taken(next, edges))
         /\ Cardinality(visited) \in Nat /\ Cardinality(Behind(path, visited)) \in Nat
         /\ Cardinality(Taken(next, edges)) \in Nat
         /\ Cardinality(Installations) \in Nat /\ Cardinality(edges) \in Nat
         /\ Spent(path, visited, next, edges) \in Nat
         /\ Spent(path, visited, next, edges) <= 2 * Cardinality(Installations) + Cardinality(edges)
<1>1. visited \subseteq Installations /\ Behind(path, visited) \subseteq Installations
      /\ Taken(next, edges) \subseteq edges
  BY DEF SearchIn, Behind, Taken
<1>2. IsFiniteSet(Installations) /\ IsFiniteSet(edges)
  BY SubsetsAreFinite DEF SearchIn
<1>3. IsFiniteSet(visited) /\ Cardinality(visited) \in Nat
      /\ Cardinality(visited) <= Cardinality(Installations) /\ Cardinality(Installations) \in Nat
  BY <1>1, <1>2, Subsets
<1>4. IsFiniteSet(Behind(path, visited)) /\ Cardinality(Behind(path, visited)) \in Nat
      /\ Cardinality(Behind(path, visited)) <= Cardinality(Installations)
  BY <1>1, <1>2, Subsets
<1>5. IsFiniteSet(Taken(next, edges)) /\ Cardinality(Taken(next, edges)) \in Nat
      /\ Cardinality(Taken(next, edges)) <= Cardinality(edges) /\ Cardinality(edges) \in Nat
  BY <1>1, <1>2, Subsets
<1> QED BY <1>3, <1>4, <1>5 DEF Spent

\* A root is entered.
LEMMA EnterRoot ==
  ASSUME NEW remaining, NEW edges, SearchIn(remaining, edges),
         NEW visited, NEW next, Searched(<<>>, visited, next, remaining, edges),
         NEW x \in remaining \ visited
  PROVE  /\ Searched(<<x>>, visited \cup {x}, next, remaining, edges)
         /\ Spent(<<x>>, visited \cup {x}, next, edges) = Spent(<<>>, visited, next, edges) + 1
<1> DEFINE path == <<x>>
           more == visited \cup {x}
<1>1. path \in Seq(remaining) /\ Len(path) = 1 /\ path[1] = x /\ ToSet(path) = {x}
  BY DEF ToSet
<1>2. ToSet(<<>>) = {} /\ Behind(<<>>, visited) = visited /\ visited \subseteq remaining
  BY DEF ToSet, Behind, Searched, PathOK
<1> HIDE DEF path
<1>3. Behind(path, more) = Behind(<<>>, visited)
  BY <1>1, <1>2 DEF Behind
<1>4. PathOK(path, more, remaining, edges)
  BY <1>1, <1>2 DEF PathOK, Distinct
<1>5. NextOK(more, next, edges)
  BY DEF NextOK, Searched
<1>6. TakenOK(path, more, next, edges)
  <2>1. x \in Installations /\ x \notin visited
    BY DEF SearchIn
  <2>2. next[x] = 1
    BY <2>1 DEF Searched, NextOK
  <2> QED BY <1>1, <2>2 DEF TakenOK
<1>7. Closed(Behind(path, more), edges) /\ LoopFree(Behind(path, more), edges)
  BY <1>3 DEF Searched
<1>8. IsFiniteSet(visited) /\ Cardinality(visited) \in Nat
      /\ Cardinality(Behind(<<>>, visited)) \in Nat /\ Cardinality(Taken(next, edges)) \in Nat
  BY <1>2, SpentIsNat
<1>9. Cardinality(more) = Cardinality(visited) + 1
  BY <1>8, FS_AddElement
<1>10. Searched(path, more, next, remaining, edges)
  BY <1>4, <1>5, <1>6, <1>7 DEF Searched
<1> QED BY <1>3, <1>8, <1>9, <1>10 DEF Spent, path


\* The node has taken its next edge.
TakesNext(next, later, edges, i) ==
  /\ next[i] <= Len(Out(edges, i))
  /\ later \in [Installations -> Nat] /\ later[i] = next[i] + 1
  /\ \A j \in Installations \ {i} : later[j] = next[j]

NextIs(next, edges, i, j) == Out(edges, i)[next[i]].provider = j

\* The next edge of a node is taken: one more edge, and only one.
LEMMA TakeEdge ==
  ASSUME NEW remaining, NEW edges, SearchIn(remaining, edges),
         NEW visited, visited \subseteq remaining, NEW next, NextOK(visited, next, edges),
         NEW i \in visited, NEW later, TakesNext(next, later, edges, i)
  PROVE  /\ NextOK(visited, later, edges)
         /\ Cardinality(Taken(later, edges)) = Cardinality(Taken(next, edges)) + 1
<1>1. i \in Installations /\ IsFiniteSet(edges)
  BY DEF SearchIn
<1>2. /\ next \in [Installations -> Nat]
      /\ \A j \in Installations : /\ next[j] \in 1..Len(Out(edges, j)) + 1
                                  /\ j \notin visited => next[j] = 1
  BY DEF NextOK
<1>3. later \in [Installations -> Nat] /\ later[i] = next[i] + 1
      /\ \A j \in Installations \ {i} : later[j] = next[j]
  BY DEF TakesNext
<1>4. PICK n \in Nat : n = next[i]
  BY <1>1, <1>2
<1>5. PICK s : s = Out(edges, i)
  OBVIOUS
<1>6. /\ s \in Seq(edges) /\ Distinct(s) /\ Len(s) \in Nat
      /\ \A m \in 1..Len(s) : s[m] \in edges /\ s[m].consumer = i
  BY <1>1, <1>5, OutIs
<1>7. n \in 1..Len(s) /\ n = next[i]
  BY <1>1, <1>2, <1>4, <1>5, <1>6 DEF TakesNext
<1>8. NextOK(visited, later, edges)
  <2>1. ASSUME NEW j \in Installations
        PROVE  later[j] \in 1..Len(Out(edges, j)) + 1 /\ (j \notin visited => later[j] = 1)
    <3>1. CASE j = i
      BY <1>3, <1>5, <1>6, <1>7, <3>1
    <3>2. CASE j # i
      BY <1>2, <1>3, <3>2
    <3> QED BY <3>1, <3>2
  <2> QED BY <1>3, <2>1 DEF NextOK
<1>9. Taken(later, edges) = Taken(next, edges) \cup {s[n]}
  <2>1. ASSUME NEW e \in edges
        PROVE  e \in Taken(later, edges) <=> e \in Taken(next, edges) \/ e = s[n]
    <3>1. CASE e.consumer = i
      <4>1. e \in Taken(later, edges) <=> \E m \in 1..n : s[m] = e
        BY <1>3, <1>5, <1>7, <3>1 DEF Taken
      <4>2. e \in Taken(next, edges) <=> \E m \in 1..n - 1 : s[m] = e
        BY <1>5, <1>7, <3>1 DEF Taken
      <4> QED BY <1>7, <4>1, <4>2
    <3>2. CASE e.consumer # i
      <4>1. later[e.consumer] = next[e.consumer] /\ e # s[n]
        BY <1>3, <1>6, <1>7, <3>2 DEF SearchIn
      <4> QED BY <4>1 DEF Taken
    <3> QED BY <3>1, <3>2
  <2>2. s[n] \in edges
    BY <1>6, <1>7
  <2> QED BY <2>1, <2>2 DEF Taken
<1>10. s[n] \notin Taken(next, edges)
  <2>1. SUFFICES ASSUME NEW m \in 1..n - 1, s[m] = s[n] PROVE FALSE
    BY <1>5, <1>6, <1>7 DEF Taken
  <2> QED BY <1>6, <1>7, <2>1 DEF Distinct
<1>11. IsFiniteSet(Taken(next, edges))
  BY <1>1, Subsets DEF Taken
<1>12. Cardinality(Taken(later, edges)) = Cardinality(Taken(next, edges)) + 1
  BY <1>9, <1>10, <1>11, FS_AddElement
<1> QED BY <1>8, <1>12

\* What is known of the last node of the path and of its next edge.
LEMMA TopIs ==
  ASSUME NEW remaining, NEW edges, SearchIn(remaining, edges),
         NEW path, NEW visited, NEW next, Searched(path, visited, next, remaining, edges),
         path # <<>>, NEW top, top = path[Len(path)]
  PROVE  /\ Len(path) \in Nat \ {0} /\ top \in visited /\ top \in remaining
         /\ top \in Installations /\ next[top] \in 1..Len(Out(edges, top)) + 1
         /\ \A n \in 1..Len(Out(edges, top)) :
              /\ Out(edges, top)[n] \in edges /\ Out(edges, top)[n].consumer = top
              /\ Out(edges, top)[n].provider \in remaining
              /\ Follows(edges, top, Out(edges, top)[n].provider)
<1>1. path \in Seq(remaining) /\ ToSet(path) \subseteq visited
  BY DEF Searched, PathOK
<1>2. Len(path) \in Nat \ {0}
  BY <1>1
<1>3. top \in remaining /\ top \in visited
  BY <1>1, <1>2, PathSet
<1>4. top \in Installations /\ IsFiniteSet(edges)
  BY <1>3 DEF SearchIn
<1>5. next[top] \in 1..Len(Out(edges, top)) + 1
  BY <1>4 DEF Searched, NextOK
<1>6. ASSUME NEW n \in 1..Len(Out(edges, top))
      PROVE  /\ Out(edges, top)[n] \in edges /\ Out(edges, top)[n].consumer = top
             /\ Out(edges, top)[n].provider \in remaining
             /\ Follows(edges, top, Out(edges, top)[n].provider)
  <2>1. Out(edges, top)[n] \in edges /\ Out(edges, top)[n].consumer = top
    BY <1>4, OutIs
  <2> QED BY <1>3, <2>1 DEF SearchIn, Follows
<1> QED BY <1>2, <1>3, <1>4, <1>5, <1>6

\* The last node is left: everything that it leads to is behind.
LEMMA LeaveTop ==
  ASSUME NEW remaining, NEW edges, SearchIn(remaining, edges),
         NEW path, NEW visited, NEW next, Searched(path, visited, next, remaining, edges),
         path # <<>>, NEW top, top = path[Len(path)], next[top] > Len(Out(edges, top))
  PROVE  /\ Searched(Front(path), visited, next, remaining, edges)
         /\ Spent(Front(path), visited, next, edges) = Spent(path, visited, next, edges) + 1
<1>1. /\ path \in Seq(remaining) /\ Distinct(path) /\ visited \subseteq remaining
      /\ ToSet(path) \subseteq visited /\ ToSet(path) = {path[k] : k \in 1..Len(path)}
      /\ \A k \in 1..Len(path) - 1 : Follows(edges, path[k], path[k + 1])
  BY PathSet DEF Searched, PathOK
<1>2. /\ Len(path) \in Nat \ {0} /\ top \in visited /\ top \in Installations
      /\ next[top] = Len(Out(edges, top)) + 1 /\ Len(Out(edges, top)) \in Nat
  BY TopIs, OutIs DEF SearchIn
<1>3. PICK n \in Nat : n = Len(path) - 1 /\ n + 1 = Len(path)
  BY <1>2
<1>4. PICK rest : rest = Front(path)
  OBVIOUS
<1>5. rest \in Seq(remaining) /\ Len(rest) = n /\ \A k \in 1..n : rest[k] = path[k]
  BY <1>1, <1>3, <1>4 DEF Front
<1>6. ToSet(rest) = {path[k] : k \in 1..n}
  BY <1>5, PathSet
<1>7. ToSet(path) = ToSet(rest) \cup {top} /\ top \notin ToSet(rest)
  <2>1. ToSet(path) = ToSet(rest) \cup {top}
    BY <1>1, <1>3, <1>6
  <2>2. \A k \in 1..n : path[k] # top
    BY <1>1, <1>3 DEF Distinct
  <2> QED BY <1>6, <2>1, <2>2
<1> DEFINE old == Behind(path, visited)
           new == Behind(rest, visited)
<1>8. new = old \cup {top} /\ top \notin old
  BY <1>2, <1>7 DEF Behind
<1>9. ASSUME NEW e \in edges, e.consumer = top PROVE e.provider \in old
  <2>1. PICK m \in 1..Len(Out(edges, top)) : Out(edges, top)[m] = e
    BY <1>9, OutIs DEF SearchIn
  <2>2. m \in 1..next[path[Len(path)]] - 1 /\ Len(path) \in 1..Len(path)
    BY <1>2, <2>1
  <2>3. ~(Len(path) < Len(path))
    BY <1>2
  <2>4. Out(edges, path[Len(path)])[m].provider \in old
    BY <2>2, <2>3 DEF Searched, TakenOK
  <2> QED BY <2>1, <2>4
<1>10. Closed(old, edges) /\ LoopFree(old, edges)
  BY DEF Searched
<1> HIDE DEF old, new
<1>11. Closed(new, edges)
  BY <1>8, <1>9, <1>10 DEF Closed
<1>12. LoopFree(new, edges)
  <2>1. SUFFICES ASSUME NEW S \in SUBSET new, S # {}
                 PROVE  \E i \in S : \A j \in S : ~Follows(edges, i, j)
    BY DEF LoopFree
  <2>2. CASE S \cap old # {}
    <3>1. PICK i \in S \cap old : \A j \in S \cap old : ~Follows(edges, i, j)
      BY <1>10, <2>2 DEF LoopFree
    <3>2. ~Follows(edges, i, top)
      BY <1>8, <1>10, <3>1 DEF Follows, Closed
    <3> QED BY <1>8, <3>1, <3>2
  <2>3. CASE S \cap old = {}
    <3>1. S = {top}
      BY <1>8, <2>1, <2>3
    <3>2. ~Follows(edges, top, top)
      BY <1>8, <1>9 DEF Follows
    <3> QED BY <3>1, <3>2
  <2> QED BY <2>2, <2>3
<1>13. PathOK(rest, visited, remaining, edges)
  <2>1. Distinct(rest)
    BY <1>1, <1>3, <1>5 DEF Distinct
  <2>2. ASSUME NEW k \in 1..n - 1 PROVE Follows(edges, rest[k], rest[k + 1])
    <3>1. k \in 1..Len(path) - 1 /\ k \in 1..n /\ k + 1 \in 1..n
      BY <1>3
    <3>2. rest[k] = path[k] /\ rest[k + 1] = path[k + 1]
      BY <1>5, <3>1
    <3> QED BY <1>1, <3>1, <3>2
  <2> QED BY <1>1, <1>5, <1>7, <2>1, <2>2 DEF PathOK
<1>14. TakenOK(rest, visited, next, edges)
  <2>1. SUFFICES ASSUME NEW k \in 1..n, NEW m \in 1..next[rest[k]] - 1
                 PROVE  \/ Out(edges, rest[k])[m].provider \in new
                        \/ k < n /\ Out(edges, rest[k])[m].provider = rest[k + 1]
    BY <1>5 DEF TakenOK, new
  <2>2. rest[k] = path[k] /\ k \in 1..Len(path)
    BY <1>3, <1>5
  <2>3. \/ Out(edges, path[k])[m].provider \in old
        \/ k < Len(path) /\ Out(edges, path[k])[m].provider = path[k + 1]
    BY <2>2 DEF Searched, TakenOK, old
  <2>4. CASE k = n
    BY <1>3, <1>8, <2>2, <2>3, <2>4
  <2>5. CASE k < n
    <3>1. k + 1 \in 1..n
      BY <2>5
    <3> QED BY <1>5, <1>8, <2>2, <2>3, <2>5, <3>1
  <2> QED BY <1>3, <2>4, <2>5
<1>15. IsFiniteSet(old) /\ Cardinality(old) \in Nat
       /\ Cardinality(visited) \in Nat /\ Cardinality(Taken(next, edges)) \in Nat
  BY <1>1, SpentIsNat DEF old
<1>16. Cardinality(new) = Cardinality(old) + 1
  BY <1>8, <1>15, FS_AddElement
<1>17. Searched(rest, visited, next, remaining, edges)
  BY <1>11, <1>12, <1>13, <1>14 DEF Searched, new
<1> QED BY <1>4, <1>15, <1>16, <1>17 DEF Spent, old, new


\* The next edge leads behind the path.
LEMMA SkipEdge ==
  ASSUME NEW remaining, NEW edges, SearchIn(remaining, edges),
         NEW path, NEW visited, NEW next, Searched(path, visited, next, remaining, edges),
         path # <<>>, NEW top, top = path[Len(path)],
         NEW later, TakesNext(next, later, edges, top),
         Out(edges, top)[next[top]].provider \in Behind(path, visited)
  PROVE  /\ Searched(path, visited, later, remaining, edges)
         /\ Spent(path, visited, later, edges) = Spent(path, visited, next, edges) + 1
<1>1. /\ Len(path) \in Nat \ {0} /\ top \in visited /\ top \in Installations
      /\ next[top] \in 1..Len(Out(edges, top)) + 1
  BY TopIs
<1>2. PathOK(path, visited, remaining, edges) /\ NextOK(visited, next, edges)
      /\ TakenOK(path, visited, next, edges)
      /\ Closed(Behind(path, visited), edges) /\ LoopFree(Behind(path, visited), edges)
  BY DEF Searched
<1>3. visited \subseteq remaining /\ path \in Seq(remaining)
  BY <1>2 DEF PathOK
<1>4. /\ NextOK(visited, later, edges)
      /\ Cardinality(Taken(later, edges)) = Cardinality(Taken(next, edges)) + 1
      /\ later[top] = next[top] + 1 /\ \A j \in Installations \ {top} : later[j] = next[j]
  <2>1. NextOK(visited, later, edges)
        /\ Cardinality(Taken(later, edges)) = Cardinality(Taken(next, edges)) + 1
    BY <1>1, <1>2, <1>3, TakeEdge
  <2> QED BY <2>1 DEF TakesNext
<1>5. TakenOK(path, visited, later, edges)
  <2>1. SUFFICES ASSUME NEW k \in 1..Len(path), NEW m \in 1..later[path[k]] - 1
                 PROVE  \/ Out(edges, path[k])[m].provider \in Behind(path, visited)
                        \/ k < Len(path) /\ Out(edges, path[k])[m].provider = path[k + 1]
    BY DEF TakenOK
  <2>2. path[k] \in Installations /\ next[path[k]] \in Nat
    BY <1>2, <1>3, PathSet DEF SearchIn, NextOK
  <2>3. CASE path[k] = top /\ m = next[top]
    BY <2>3
  <2>4. CASE ~(path[k] = top /\ m = next[top])
    <3>1. m \in 1..next[path[k]] - 1
      BY <1>1, <1>4, <2>2, <2>4
    <3> QED BY <1>2, <3>1 DEF TakenOK
  <2> QED BY <2>3, <2>4
<1>6. Searched(path, visited, later, remaining, edges)
  BY <1>2, <1>4, <1>5 DEF Searched
<1>7. Cardinality(visited) \in Nat /\ Cardinality(Behind(path, visited)) \in Nat
      /\ Cardinality(Taken(next, edges)) \in Nat
  BY <1>3, SpentIsNat
<1> QED BY <1>4, <1>6, <1>7 DEF Spent

\* The next edge leads to a node not seen before.
LEMMA EnterNext ==
  ASSUME NEW remaining, NEW edges, SearchIn(remaining, edges),
         NEW path, NEW visited, NEW next, Searched(path, visited, next, remaining, edges),
         path # <<>>, NEW top, top = path[Len(path)],
         NEW later, TakesNext(next, later, edges, top),
         NEW x, NextIs(next, edges, top, x), x \notin visited
  PROVE  /\ Searched(Append(path, x), visited \cup {x}, later, remaining, edges)
         /\ Spent(Append(path, x), visited \cup {x}, later, edges)
              = Spent(path, visited, next, edges) + 2
<1>1. /\ Len(path) \in Nat \ {0} /\ top \in visited /\ top \in Installations
      /\ next[top] \in 1..Len(Out(edges, top)) /\ x \in remaining /\ Follows(edges, top, x)
  <2>1. /\ Len(path) \in Nat \ {0} /\ top \in visited /\ top \in Installations
        /\ next[top] \in 1..Len(Out(edges, top)) + 1
        /\ \A n \in 1..Len(Out(edges, top)) :
              /\ Out(edges, top)[n].provider \in remaining
              /\ Follows(edges, top, Out(edges, top)[n].provider)
    BY TopIs
  <2>2. Len(Out(edges, top)) \in Nat
    BY OutIs DEF SearchIn
  <2>3. next[top] \in 1..Len(Out(edges, top))
    BY <2>1, <2>2 DEF TakesNext
  <2> QED BY <2>1, <2>3 DEF NextIs
<1>2. PathOK(path, visited, remaining, edges) /\ NextOK(visited, next, edges)
      /\ TakenOK(path, visited, next, edges)
      /\ Closed(Behind(path, visited), edges) /\ LoopFree(Behind(path, visited), edges)
  BY DEF Searched
<1>3. /\ visited \subseteq remaining /\ path \in Seq(remaining) /\ Distinct(path)
      /\ ToSet(path) \subseteq visited
      /\ \A k \in 1..Len(path) - 1 : Follows(edges, path[k], path[k + 1])
  BY <1>2 DEF PathOK
<1>4. /\ NextOK(visited, later, edges)
      /\ Cardinality(Taken(later, edges)) = Cardinality(Taken(next, edges)) + 1
      /\ later[top] = next[top] + 1 /\ \A j \in Installations \ {top} : later[j] = next[j]
  <2>1. NextOK(visited, later, edges)
        /\ Cardinality(Taken(later, edges)) = Cardinality(Taken(next, edges)) + 1
    BY <1>1, <1>2, <1>3, TakeEdge
  <2> QED BY <2>1 DEF TakesNext
<1>5. PICK more : more = visited \cup {x}
  OBVIOUS
<1>6. PICK longer : longer = Append(path, x)
  OBVIOUS
<1>7. /\ longer \in Seq(remaining) /\ Len(longer) = Len(path) + 1
      /\ longer[Len(path) + 1] = x /\ \A k \in 1..Len(path) : longer[k] = path[k]
  BY <1>1, <1>3, <1>6
<1>8. ToSet(path) = {path[k] : k \in 1..Len(path)}
      /\ ToSet(longer) = {longer[k] : k \in 1..Len(longer)}
  BY <1>3, <1>7, PathSet
<1>9. ToSet(longer) = ToSet(path) \cup {x}
  BY <1>1, <1>7, <1>8
<1>10. Behind(longer, more) = Behind(path, visited)
  BY <1>3, <1>5, <1>9 DEF Behind
<1>11. PathOK(longer, more, remaining, edges)
  <2>1. Distinct(longer)
    <3>1. \A k \in 1..Len(path) : path[k] # x
      BY <1>3, <1>8
    <3> QED BY <1>1, <1>3, <1>7, <3>1 DEF Distinct
  <2>2. ASSUME NEW k \in 1..Len(longer) - 1 PROVE Follows(edges, longer[k], longer[k + 1])
    <3>1. CASE k = Len(path)
      BY <1>1, <1>7, <3>1
    <3>2. CASE k < Len(path)
      <4>1. k \in 1..Len(path) /\ k + 1 \in 1..Len(path) /\ k \in 1..Len(path) - 1
        BY <1>1, <3>2
      <4> QED BY <1>3, <1>7, <4>1
    <3> QED BY <1>1, <1>7, <3>1, <3>2
  <2> QED BY <1>1, <1>3, <1>5, <1>7, <1>9, <2>1, <2>2 DEF PathOK
<1>12. NextOK(more, later, edges)
  BY <1>4, <1>5 DEF NextOK
<1>13. TakenOK(longer, more, later, edges)
  <2>1. SUFFICES ASSUME NEW k \in 1..Len(longer), NEW m \in 1..later[longer[k]] - 1
                 PROVE  \/ Out(edges, longer[k])[m].provider \in Behind(longer, more)
                        \/ /\ k < Len(longer)
                           /\ Out(edges, longer[k])[m].provider = longer[k + 1]
    BY DEF TakenOK
  <2>2. CASE k = Len(path) + 1
    <3>1. x \in Installations /\ x # top
      BY <1>1 DEF SearchIn
    <3>2. next[x] = 1
      BY <1>2, <3>1 DEF NextOK
    <3>3. later[longer[k]] = 1
      BY <1>4, <1>7, <2>2, <3>1, <3>2
    <3> QED BY <3>3
  <2>3. CASE k \in 1..Len(path)
    <3>1. longer[k] = path[k] /\ path[k] \in Installations /\ next[path[k]] \in Nat
      BY <1>2, <1>3, <1>7, <2>3, PathSet DEF SearchIn, NextOK
    <3>2. CASE path[k] = top /\ m = next[top]
      <4>1. k = Len(path)
        BY <1>1, <1>3, <2>3, <3>2 DEF Distinct
      <4> QED BY <1>1, <1>7, <3>1, <3>2, <4>1 DEF NextIs
    <3>3. CASE ~(path[k] = top /\ m = next[top])
      <4>1. m \in 1..next[path[k]] - 1
        BY <1>1, <1>4, <3>1, <3>3
      <4>2. \/ Out(edges, path[k])[m].provider \in Behind(path, visited)
            \/ k < Len(path) /\ Out(edges, path[k])[m].provider = path[k + 1]
        BY <1>2, <2>3, <4>1 DEF TakenOK
      <4>3. k < Len(path) => k + 1 \in 1..Len(path)
        BY <1>1, <2>3
      <4>4. k < Len(longer)
        BY <1>1, <1>7, <2>3
      <4> QED BY <1>7, <1>10, <3>1, <4>2, <4>3, <4>4
    <3> QED BY <3>2, <3>3
  <2> QED BY <1>1, <1>7, <2>2, <2>3
<1>14. Searched(longer, more, later, remaining, edges)
  BY <1>2, <1>10, <1>11, <1>12, <1>13 DEF Searched
<1>15. IsFiniteSet(visited) /\ Cardinality(visited) \in Nat
       /\ Cardinality(Behind(path, visited)) \in Nat /\ Cardinality(Taken(next, edges)) \in Nat
  BY <1>3, SpentIsNat
<1>16. Cardinality(more) = Cardinality(visited) + 1
  BY <1>5, <1>15, FS_AddElement
<1> QED BY <1>4, <1>5, <1>6, <1>10, <1>14, <1>15, <1>16 DEF Spent

\* A walk that returns to its first node and meets no other twice.
Round(edges, walk) ==
  /\ Len(walk) > 1 /\ walk[1] = walk[Len(walk)]
  /\ Cardinality(ToSet(walk)) = Len(walk) - 1
  /\ \A n \in 1..Len(walk) - 1 : Follows(edges, walk[n], walk[n + 1])

\* The next edge leads back to the path, which is a cycle from there.
LEMMA CloseCycle ==
  ASSUME NEW remaining, NEW edges, SearchIn(remaining, edges),
         NEW path, NEW visited, NEW next, Searched(path, visited, next, remaining, edges),
         path # <<>>, NEW top, top = path[Len(path)],
         NEW x, Follows(edges, top, x),
         NEW first \in 1..Len(path), path[first] = x
  PROVE  LET cycle == Append(SubSeq(path, first, Len(path)), x) IN
         cycle # <<>> /\ Round(edges, cycle)
<1>1. /\ path \in Seq(remaining) /\ Distinct(path)
      /\ \A k \in 1..Len(path) - 1 : Follows(edges, path[k], path[k + 1])
  BY DEF Searched, PathOK
<1>2. Len(path) \in Nat /\ \A k \in 1..Len(path) : path[k] \in remaining
  BY <1>1
<1>3. PICK n \in Nat : n = Len(path) - first + 1 /\ n > 0 /\ first + n - 1 = Len(path)
  BY <1>2
<1>4. PICK loop : loop = SubSeq(path, first, Len(path))
  OBVIOUS
<1>5. loop \in Seq(remaining) /\ Len(loop) = n /\ \A k \in 1..n : loop[k] = path[first + k - 1]
  BY <1>1, <1>2, <1>3, <1>4
<1>6. \A k \in 1..n : first + k - 1 \in 1..Len(path)
  BY <1>2, <1>3
<1>7. Distinct(loop)
  <2>1. SUFFICES ASSUME NEW j \in 1..n, NEW k \in 1..n, loop[j] = loop[k] PROVE j = k
    BY <1>5 DEF Distinct
  <2>2. first + j - 1 = first + k - 1
    BY <1>1, <1>5, <1>6, <2>1 DEF Distinct
  <2> QED BY <2>2
<1>8. Cardinality(ToSet(loop)) = n /\ ToSet(loop) = {loop[k] : k \in 1..n}
  BY <1>5, <1>7, DistinctSize, PathSet
<1>9. loop[1] = x /\ loop[n] = top
  BY <1>2, <1>3, <1>5
<1>10. PICK cycle : cycle = Append(loop, x)
  OBVIOUS
<1>11. x \in remaining
  BY <1>2
<1>12. /\ cycle \in Seq(remaining) /\ Len(cycle) = n + 1 /\ cycle[n + 1] = x
       /\ \A k \in 1..n : cycle[k] = loop[k]
  BY <1>5, <1>10, <1>11
<1>13. ToSet(cycle) = ToSet(loop)
  <2>1. ToSet(cycle) = {cycle[k] : k \in 1..n + 1}
    BY <1>12, PathSet
  <2>2. x \in ToSet(loop)
    BY <1>3, <1>8, <1>9
  <2>3. ToSet(cycle) = {cycle[k] : k \in 1..n} \cup {x}
    BY <1>3, <1>12, <2>1
  <2>4. {cycle[k] : k \in 1..n} = {loop[k] : k \in 1..n}
    BY <1>12
  <2> QED BY <1>8, <2>2, <2>3, <2>4
<1>14. ASSUME NEW k \in 1..Len(cycle) - 1 PROVE Follows(edges, cycle[k], cycle[k + 1])
  <2>1. CASE k = n
    BY <1>3, <1>9, <1>12, <2>1
  <2>2. CASE k \in 1..n - 1
    <3>1. k \in 1..n /\ k + 1 \in 1..n /\ first + k - 1 \in 1..Len(path) - 1
          /\ (first + k - 1) + 1 = first + (k + 1) - 1
      BY <1>2, <1>3, <2>2
    <3>2. cycle[k] = path[first + k - 1] /\ cycle[k + 1] = path[(first + k - 1) + 1]
      BY <1>5, <1>12, <3>1
    <3> QED BY <1>1, <3>1, <3>2
  <2>3. k \in 1..n
    <3>1. Len(cycle) = n + 1
      BY <1>12
    <3> QED BY <1>3, <3>1
  <2> QED BY <1>3, <2>1, <2>2, <2>3
<1>15. Len(cycle) > 1 /\ cycle[1] = cycle[Len(cycle)]
  BY <1>3, <1>9, <1>12
<1>16. Round(edges, cycle)
  BY <1>3, <1>8, <1>12, <1>13, <1>14, <1>15 DEF Round
<1>17. cycle # <<>>
  BY <1>3, <1>12
<1> QED BY <1>4, <1>10, <1>16, <1>17


WalkRecord(w) == w = [path |-> w.path, visited |-> w.visited, cycle |-> w.cycle, next |-> w.next]

\* After n steps: a cycle, or nothing left to visit, or a search that has spent n.
GoodWalk(w, remaining, edges, n) ==
  /\ WalkRecord(w)
  /\ \/ w.cycle # <<>> /\ Round(edges, w.cycle)
     \/ /\ w.cycle = <<>> /\ Searched(w.path, w.visited, w.next, remaining, edges)
        /\ \/ w.path = <<>> /\ remaining \ w.visited = {}
           \/ Spent(w.path, w.visited, w.next, edges) >= n

\* A node of the path or of the graph is left, skipped, entered or closes a cycle.
LEMMA WalkedIsGood ==
  ASSUME NEW remaining, NEW edges, SearchIn(remaining, edges), NEW n \in Nat,
         NEW w, WalkRecord(w), w.cycle = <<>>, w.path # <<>>,
         Searched(w.path, w.visited, w.next, remaining, edges),
         Spent(w.path, w.visited, w.next, edges) >= n
  PROVE  GoodWalk(Walked(w, edges), remaining, edges, n + 1)
<1>1. PICK path, visited, next : path = w.path /\ visited = w.visited /\ next = w.next
  OBVIOUS
<1>2. w = [path |-> path, visited |-> visited, cycle |-> <<>>, next |-> next]
  BY <1>1 DEF WalkRecord
<1>3. Searched(path, visited, next, remaining, edges) /\ path # <<>>
  BY <1>1
<1>4. path \in Seq(remaining) /\ visited \subseteq remaining /\ next \in [Installations -> Nat]
  BY <1>3 DEF Searched, PathOK, NextOK
<1>5. PICK top : top = path[Len(path)]
  OBVIOUS
<1>6. /\ Len(path) \in Nat \ {0} /\ top \in visited /\ top \in Installations
      /\ next[top] \in 1..Len(Out(edges, top)) + 1
      /\ \A m \in 1..Len(Out(edges, top)) :
           Follows(edges, top, Out(edges, top)[m].provider)
  BY <1>3, <1>5, TopIs
<1>7. PICK out : out = Neighbours(edges, top)
  OBVIOUS
<1>8. /\ Len(out) = Len(Out(edges, top)) /\ Len(out) \in Nat
      /\ \A m \in 1..Len(out) : out[m] = Out(edges, top)[m].provider
  BY <1>6, <1>7, OutIs DEF SearchIn
<1>9. PICK spent \in Nat : spent = Spent(path, visited, next, edges) /\ spent >= n
  BY <1>1, <1>4, SpentIsNat
<1>10. PICK m \in Nat : m = next[top] /\ m \in 1..Len(out) + 1
  BY <1>6, <1>8
<1>11. PICK later : later = [next EXCEPT ![top] = m + 1]
  OBVIOUS
<1>12. PICK here : here = [path |-> path, visited |-> visited, cycle |-> <<>>, next |-> later]
  OBVIOUS
<1>13. PICK v : v = Walked(w, edges)
  OBVIOUS
<1>14. here = [w EXCEPT !.next[top] = m + 1]
  BY <1>2, <1>11, <1>12
<1>15. v = IF m > Len(out) THEN [w EXCEPT !.path = Front(path)]
           ELSE IF out[m] \in ToSet(path)
                THEN LET first == CHOOSE k \in DOMAIN path : path[k] = out[m] IN
                     [here EXCEPT !.cycle =
                        Append(SubSeq(path, first, Len(path)), out[m])]
                ELSE IF out[m] \in visited THEN here
                     ELSE [here EXCEPT !.path = Append(@, out[m]),
                                       !.visited = @ \cup {out[m]}]
  BY <1>1, <1>5, <1>7, <1>10, <1>13, <1>14 DEF Walked, Last
<1>16. CASE m > Len(out)
  <2>1. v = [path |-> Front(path), visited |-> visited, cycle |-> <<>>, next |-> next]
    BY <1>2, <1>15, <1>16
  <2>2. next[top] > Len(Out(edges, top))
    BY <1>8, <1>10, <1>16
  <2>3. /\ Searched(Front(path), visited, next, remaining, edges)
        /\ Spent(Front(path), visited, next, edges) = spent + 1
    BY <1>3, <1>5, <1>9, <2>2, LeaveTop
  <2> QED BY <1>9, <1>13, <2>1, <2>3 DEF GoodWalk, WalkRecord
<1>17. CASE m <= Len(out) /\ out[m] \in ToSet(path)
  <2>1. PICK first : first = CHOOSE k \in DOMAIN path : path[k] = out[m]
    OBVIOUS
  <2>2. first \in 1..Len(path) /\ path[first] = out[m]
    <3>1. DOMAIN path = 1..Len(path) /\ \E k \in DOMAIN path : path[k] = out[m]
      BY <1>4, <1>17 DEF ToSet
    <3> QED BY <2>1, <3>1
  <2>3. PICK cycle : cycle = Append(SubSeq(path, first, Len(path)), out[m])
    OBVIOUS
  <2>4. v = [path |-> path, visited |-> visited, cycle |-> cycle, next |-> later]
    <3>1. ~(m > Len(out))
      BY <1>8, <1>17
    <3> QED BY <1>12, <1>15, <1>17, <2>1, <2>3, <3>1
  <2>5. Follows(edges, top, out[m])
    BY <1>6, <1>8, <1>10, <1>17
  <2>6. cycle # <<>> /\ Round(edges, cycle)
    BY <1>3, <1>5, <2>2, <2>3, <2>5, CloseCycle
  <2> QED BY <1>13, <2>4, <2>6 DEF GoodWalk, WalkRecord
<1>18. CASE m <= Len(out) /\ out[m] \notin ToSet(path) /\ out[m] \in visited
  <2>1. v = here
    <3>1. ~(m > Len(out))
      BY <1>8, <1>18
    <3> QED BY <1>15, <1>18, <3>1
  <2>2. Out(edges, top)[next[top]].provider \in Behind(path, visited)
    BY <1>8, <1>10, <1>18 DEF Behind
  <2>3. TakesNext(next, later, edges, top)
    BY <1>4, <1>6, <1>8, <1>10, <1>11, <1>18 DEF TakesNext
  <2>4. /\ Searched(path, visited, later, remaining, edges)
        /\ Spent(path, visited, later, edges) = spent + 1
    BY <1>3, <1>5, <1>9, <2>2, <2>3, SkipEdge
  <2> QED BY <1>9, <1>12, <1>13, <2>1, <2>4 DEF GoodWalk, WalkRecord
<1>19. CASE m <= Len(out) /\ out[m] \notin ToSet(path) /\ out[m] \notin visited
  <2>1. PICK x : x = out[m]
    OBVIOUS
  <2>2. v = [path |-> Append(path, x), visited |-> visited \cup {x}, cycle |-> <<>>,
             next |-> later]
    <3>1. ~(m > Len(out))
      BY <1>8, <1>19
    <3> QED BY <1>12, <1>15, <1>19, <2>1, <3>1
  <2>3. NextIs(next, edges, top, x) /\ x \notin visited
    BY <1>8, <1>10, <1>19, <2>1 DEF NextIs
  <2>4. TakesNext(next, later, edges, top)
    BY <1>4, <1>6, <1>8, <1>10, <1>11, <1>19 DEF TakesNext
  <2>5. /\ Searched(Append(path, x), visited \cup {x}, later, remaining, edges)
        /\ Spent(Append(path, x), visited \cup {x}, later, edges) = spent + 2
    BY <1>3, <1>5, <1>9, <2>3, <2>4, EnterNext
  <2> QED BY <1>9, <1>13, <2>2, <2>5 DEF GoodWalk, WalkRecord
<1> QED BY <1>8, <1>16, <1>17, <1>18, <1>19

LEMMA WalkStepIsGood ==
  ASSUME NEW remaining, NEW edges, SearchIn(remaining, edges), NEW n \in Nat,
         NEW w, GoodWalk(w, remaining, edges, n)
  PROVE  GoodWalk(WalkStep(w, remaining, edges), remaining, edges, n + 1)
<1>1. CASE w.cycle # <<>>
  BY <1>1 DEF WalkStep, GoodWalk
<1>2. CASE w.cycle = <<>> /\ w.path = <<>> /\ remaining \ w.visited = {}
  <2>1. WalkStep(w, remaining, edges) = w
    BY <1>2 DEF WalkStep, Restarted
  <2> QED BY <1>2, <2>1 DEF GoodWalk
<1>3. CASE w.cycle = <<>> /\ w.path = <<>> /\ remaining \ w.visited # {}
  <2>1. PICK roots : roots = remaining \ w.visited
    OBVIOUS
  <2>2. PICK x : x = Least(roots)
    OBVIOUS
  <2>3. x \in roots
    <3>1. roots \subseteq Nat
      BY <2>1, SubsetsAreFinite DEF SearchIn
    <3> QED BY <1>3, <2>1, <2>2, <3>1, LeastIn
  <2>4. PICK visited, next : visited = w.visited /\ next = w.next
    OBVIOUS
  <2>5. w = [path |-> <<>>, visited |-> visited, cycle |-> <<>>, next |-> next]
        /\ Searched(<<>>, visited, next, remaining, edges)
        /\ Spent(<<>>, visited, next, edges) >= n
    BY <1>3, <2>4 DEF GoodWalk, WalkRecord
  <2>6. WalkStep(w, remaining, edges)
          = [path |-> <<x>>, visited |-> visited \cup {x}, cycle |-> <<>>, next |-> next]
    BY <1>3, <2>1, <2>2, <2>5 DEF WalkStep, Restarted
  <2>7. Spent(<<>>, visited, next, edges) \in Nat
    BY <2>5, SpentIsNat DEF Searched, PathOK
  <2>8. /\ Searched(<<x>>, visited \cup {x}, next, remaining, edges)
        /\ Spent(<<x>>, visited \cup {x}, next, edges) = Spent(<<>>, visited, next, edges) + 1
    BY <2>1, <2>3, <2>4, <2>5, EnterRoot
  <2>9. Spent(<<x>>, visited \cup {x}, next, edges) >= n + 1
    BY <2>5, <2>7, <2>8
  <2> QED BY <2>6, <2>8, <2>9 DEF GoodWalk, WalkRecord
<1>4. CASE w.cycle = <<>> /\ w.path # <<>>
  <2>1. WalkStep(w, remaining, edges) = Walked(w, edges)
    BY <1>4 DEF WalkStep
  <2> QED BY <1>4, <2>1, WalkedIsGood DEF GoodWalk
<1> QED BY <1>1, <1>2, <1>3, <1>4


\* The walk after every one of n steps.
StartOfWalk == [path |-> <<>>, visited |-> {}, cycle |-> <<>>,
                next |-> [i \in Installations |-> 1]]
Walks(f, remaining, edges, n) ==
  f = [k \in 0..n |-> IF k = 0 THEN StartOfWalk ELSE WalkStep(f[k - 1], remaining, edges)]

LEMMA WalksStep ==
  ASSUME NEW remaining, NEW edges, NEW n \in Nat, NEW f, Walks(f, remaining, edges, n)
  PROVE  \E g : Walks(g, remaining, edges, n + 1)
<1>1. PICK g : g = [k \in 0..(n + 1) |->
                      IF k = n + 1 THEN WalkStep(f[n], remaining, edges) ELSE f[k]]
  OBVIOUS
<1>2. g[n + 1] = WalkStep(f[n], remaining, edges) /\ \A k \in 0..n : g[k] = f[k]
  BY <1>1
<1>3. ASSUME NEW k \in 0..(n + 1)
      PROVE  g[k] = IF k = 0 THEN StartOfWalk ELSE WalkStep(g[k - 1], remaining, edges)
  <2>1. CASE k = n + 1
    <3>1. k # 0 /\ k - 1 = n /\ n \in 0..n
      BY <2>1
    <3> QED BY <1>2, <2>1, <3>1
  <2>2. CASE k = 0
    BY <1>2, <2>2 DEF Walks
  <2>3. CASE k \in 1..n
    <3>1. k - 1 \in 0..n /\ k \in 0..n /\ k # 0
      BY <2>3
    <3>2. f[k] = WalkStep(f[k - 1], remaining, edges)
      BY <3>1 DEF Walks
    <3> QED BY <1>2, <3>1, <3>2
  <2> QED BY <2>1, <2>2, <2>3
<1>4. g = [k \in 0..(n + 1) |-> g[k]]
  BY <1>1
<1>5. Walks(g, remaining, edges, n + 1)
  BY <1>3, <1>4 DEF Walks
<1> QED BY <1>5

LEMMA WalksExist ==
  ASSUME NEW remaining, NEW edges
  PROVE  \A n \in Nat : \E f : Walks(f, remaining, edges, n)
<1> DEFINE Without == {n \in Nat : ~ \E f : Walks(f, remaining, edges, n)}
<1>1. SUFFICES ASSUME Without # {} PROVE FALSE
  OBVIOUS
<1>2. PICK n \in Without : \A m \in Without : n <= m
  BY <1>1, Smallest
<1>3. CASE n = 0
  <2>1. PICK f : f = [k \in 0..0 |-> StartOfWalk]
    OBVIOUS
  <2>2. Walks(f, remaining, edges, 0)
    BY <2>1 DEF Walks
  <2> QED BY <1>3, <2>2
<1>4. CASE n # 0
  <2>1. n - 1 \in Nat /\ n - 1 \notin Without /\ (n - 1) + 1 = n
    BY <1>2, <1>4
  <2>2. PICK f : Walks(f, remaining, edges, n - 1)
    BY <2>1
  <2>3. \E g : Walks(g, remaining, edges, n)
    BY <2>1, <2>2, WalksStep
  <2> QED BY <2>3
<1> QED BY <1>3, <1>4

LEMMA StartIsGood ==
  ASSUME NEW remaining, NEW edges, SearchIn(remaining, edges)
  PROVE  GoodWalk(StartOfWalk, remaining, edges, 0)
<1>1. PICK next : next = [i \in Installations |-> 1]
  OBVIOUS
<1>2. PathOK(<<>>, {}, remaining, edges)
  BY DEF PathOK, Distinct, ToSet
<1>3. NextOK({}, next, edges)
  <2>1. ASSUME NEW i \in Installations PROVE 1 \in 1..Len(Out(edges, i)) + 1
    <3>1. Len(Out(edges, i)) \in Nat
      BY OutIs DEF SearchIn
    <3> QED BY <3>1
  <2> QED BY <1>1, <2>1 DEF NextOK
<1>4. TakenOK(<<>>, {}, next, edges)
  BY DEF TakenOK
<1>5. Closed(Behind(<<>>, {}), edges) /\ LoopFree(Behind(<<>>, {}), edges)
  BY DEF Behind, Closed, LoopFree
<1>6. Searched(<<>>, {}, next, remaining, edges)
  BY <1>2, <1>3, <1>4, <1>5 DEF Searched
<1>7. Spent(<<>>, {}, next, edges) \in Nat
  BY SpentIsNat
<1> QED BY <1>1, <1>6, <1>7 DEF GoodWalk, WalkRecord, StartOfWalk

LEMMA WalksAreGood ==
  ASSUME NEW remaining, NEW edges, SearchIn(remaining, edges), NEW n \in Nat, NEW f,
         Walks(f, remaining, edges, n)
  PROVE  \A k \in 0..n : GoodWalk(f[k], remaining, edges, k)
<1> DEFINE Good(k) == GoodWalk(f[k], remaining, edges, k)
           Bad == {k \in 0..n : ~Good(k)}
<1>1. SUFFICES ASSUME Bad # {} PROVE FALSE
  OBVIOUS
<1>2. PICK k \in Bad : \A m \in Bad : k <= m
  <2>1. Bad \subseteq Nat
    OBVIOUS
  <2> HIDE DEF Bad
  <2> QED BY <1>1, <2>1, Smallest
<1>3. CASE k = 0
  <2>1. f[0] = StartOfWalk
    BY DEF Walks
  <2> QED BY <1>3, <2>1, StartIsGood
<1>4. CASE k # 0
  <2>1. k - 1 \in 0..n /\ k \in 0..n /\ k - 1 < k /\ (k - 1) + 1 = k
    BY <1>4
  <2>2. Good(k - 1)
    <3>1. k - 1 \notin Bad
      <4> HIDE DEF Bad
      <4> QED BY <1>2, <2>1
    <3> HIDE DEF Good
    <3> QED BY <2>1, <3>1
  <2>3. f[k] = WalkStep(f[k - 1], remaining, edges)
    BY <1>4, <2>1 DEF Walks
  <2>4. PICK m \in Nat : m = k - 1
    BY <2>1
  <2>5. GoodWalk(f[k], remaining, edges, m + 1)
    BY <2>2, <2>3, <2>4, WalkStepIsGood
  <2>6. Good(k)
    BY <2>1, <2>4, <2>5
  <2> QED BY <2>6
<1> QED BY <1>3, <1>4

LEMMA FoundIsWalked ==
  ASSUME NEW remaining, NEW edges, IsFiniteSet(edges)
  PROVE  LET steps == 3 * Cardinality(Installations) + Cardinality(edges) IN
         /\ steps \in Nat
         /\ \E f : /\ Walks(f, remaining, edges, steps)
                   /\ FoundCycle(remaining, edges) = f[steps].cycle
<1> DEFINE steps == 3 * Cardinality(Installations) + Cardinality(edges)
<1>1. steps \in Nat
  <2>1. Cardinality(Installations) \in Nat /\ Cardinality(edges) \in Nat
    BY SubsetsAreFinite, FS_CardinalityType
  <2> QED BY <2>1
<1>2. \E f : Walks(f, remaining, edges, steps)
  BY <1>1, WalksExist
<1> QED BY <1>1, <1>2, Zenon DEF FoundCycle, Walks, StartOfWalk

\* When some of the nodes need each other round, the search reports a cycle.
LEMMA FoundIsRound ==
  ASSUME NEW remaining, NEW edges, SearchIn(remaining, edges),
         NEW S \in SUBSET remaining, S # {}, \A i \in S : \E j \in S : Follows(edges, i, j)
  PROVE  Round(edges, FoundCycle(remaining, edges))
<1>1. PICK c, d : c = Cardinality(Installations) /\ d = Cardinality(edges)
  OBVIOUS
<1>2. c \in Nat /\ d \in Nat /\ c # 0
  <2>1. IsFiniteSet(Installations) /\ IsFiniteSet(edges)
    BY SubsetsAreFinite DEF SearchIn
  <2>2. Installations # {}
    BY DEF SearchIn
  <2> QED BY <1>1, <2>1, <2>2, FS_CardinalityType, FS_EmptySet
<1>3. PICK steps \in Nat : steps = 3 * c + d
  BY <1>2
<1>4. PICK f : /\ Walks(f, remaining, edges, steps)
               /\ FoundCycle(remaining, edges) = f[steps].cycle
  BY <1>1, <1>3, FoundIsWalked DEF SearchIn
<1>5. PICK w : w = f[steps]
  OBVIOUS
<1>6. GoodWalk(w, remaining, edges, steps)
  BY <1>3, <1>4, <1>5, WalksAreGood
<1>7. CASE w.cycle # <<>>
  BY <1>4, <1>5, <1>6, <1>7 DEF GoodWalk
<1>8. CASE w.cycle = <<>> /\ w.path = <<>> /\ remaining \ w.visited = {}
  <2>1. PathOK(<<>>, w.visited, remaining, edges) /\ LoopFree(Behind(<<>>, w.visited), edges)
    BY <1>6, <1>8 DEF GoodWalk, Searched
  <2>2. Behind(<<>>, w.visited) = remaining
    BY <1>8, <2>1 DEF Behind, PathOK, ToSet
  <2> QED BY <2>1, <2>2 DEF LoopFree
<1>9. CASE w.cycle = <<>> /\ ~(w.path = <<>> /\ remaining \ w.visited = {})
  <2>1. /\ Searched(w.path, w.visited, w.next, remaining, edges)
        /\ Spent(w.path, w.visited, w.next, edges) >= steps
    BY <1>6, <1>9 DEF GoodWalk
  <2>2. w.visited \subseteq remaining
    BY <2>1 DEF Searched, PathOK
  <2>3. PICK spent : spent = Spent(w.path, w.visited, w.next, edges)
    OBVIOUS
  <2>4. spent \in Nat /\ spent <= 2 * c + d
    BY <1>1, <2>2, <2>3, SpentIsNat
  <2>5. spent >= steps
    BY <2>1, <2>3
  <2> QED BY <1>2, <1>3, <2>4, <2>5
<1> QED BY <1>7, <1>8, <1>9

-----------------------------------------------------------------------------
(* The candidate that the service judges, and the rules it is judged by.     *)

PolicyType == [bound : [Interfaces -> Installations \cup {NoBinding}],
               excluded : SUBSET Installations]

LEMMA RangeIsFinite ==
  ASSUME NEW S, IsFiniteSet(S), NEW f, f = [x \in S |-> f[x]]
  PROVE  /\ IsFiniteSet({f[x] : x \in S})
         /\ (\A x, y \in S : f[x] = f[y] => x = y) => Cardinality({f[x] : x \in S}) = Cardinality(S)
<1>1. PICK T : T = {f[x] : x \in S}
  OBVIOUS
<1>2. f \in Surjection(S, T)
  BY <1>1 DEF Surjection
<1>3. IsFiniteSet(T)
  BY <1>2, FS_Surjection
<1>4. ASSUME \A x, y \in S : f[x] = f[y] => x = y
      PROVE  Cardinality(T) = Cardinality(S)
  <2>1. f \in Bijection(S, T)
    BY <1>1, <1>2, <1>4 DEF Bijection, Injection, Surjection, IsInjective
  <2> QED BY <2>1, FS_Bijection DEF ExistsBijection
<1> QED BY <1>1, <1>3, <1>4

LEMMA NeedsAreFinite ==
  ASSUME NEW faces, FiniteFaces(faces)
  PROVE  IsFiniteSet(Needs(faces))
<1>1. PICK f : f = [i \in Installations |-> faces[i].requires]
  OBVIOUS
<1>2. PICK C : C = {f[i] : i \in Installations}
  OBVIOUS
<1>3. IsFiniteSet(C)
  BY <1>1, <1>2, SubsetsAreFinite, RangeIsFinite
<1>4. \A c \in C : IsFiniteSet(c)
  BY <1>1, <1>2 DEF FiniteFaces
<1>5. IsFiniteSet(UNION C)
  BY <1>3, <1>4, FS_UNION
<1>6. IsFiniteSet(Installations \X UNION C)
  BY <1>5, SubsetsAreFinite, FS_Product
<1>7. Needs(faces) \subseteq Installations \X UNION C
  BY <1>1, <1>2 DEF Needs
<1> QED BY <1>6, <1>7, Subsets

\* One edge for every need.
LEMMA AsManyEdges ==
  ASSUME NEW faces, FiniteFaces(faces), Resolved(faces)
  PROVE  /\ IsFiniteSet(AllEdges(faces))
         /\ Cardinality(AllEdges(faces)) = Cardinality(Needs(faces))
         /\ {<<e.consumer, e.requirement>> : e \in AllEdges(faces)} = Needs(faces)
<1>1. PICK f : f = [need \in Needs(faces) |-> EdgeOf(faces, need)]
  OBVIOUS
<1>2. AllEdges(faces) = {f[need] : need \in Needs(faces)}
  BY <1>1 DEF AllEdges
<1>3. \A need \in Needs(faces) : need = <<f[need].consumer, f[need].requirement>>
  BY <1>1, EdgeOfNeed DEF Resolved
<1>4. \A x, y \in Needs(faces) : f[x] = f[y] => x = y
  BY <1>3
<1>5. f = [need \in Needs(faces) |-> f[need]]
  BY <1>1
<1>6. IsFiniteSet(AllEdges(faces)) /\ Cardinality(AllEdges(faces)) = Cardinality(Needs(faces))
  BY <1>2, <1>4, <1>5, NeedsAreFinite, RangeIsFinite
<1>7. {<<e.consumer, e.requirement>> : e \in AllEdges(faces)} = Needs(faces)
  BY <1>2, <1>3
<1> QED BY <1>6, <1>7

\* The cycle in the report is one.
LEMMA ReportedIsCycle ==
  ASSUME NEW faces, FiniteFaces(faces), TryBuild(faces).status = "cycle"
  PROVE  LET walk == TryBuild(faces).cycle IN
         /\ Len(walk) > 1 /\ walk[1] = walk[Len(walk)]
         /\ Cardinality(ToSet(walk)) = Len(walk) - 1
         /\ \A n \in 1..Len(walk) - 1 :
              walk[n] \in Installations /\ Leans(faces, walk[n], walk[n + 1])
<1>1. PICK edges : edges = AllEdges(faces)
  OBVIOUS
<1>2. PICK nodes : nodes = Participants(faces, edges)
  OBVIOUS
<1>3. PICK list : list = Processed(nodes, edges)
  OBVIOUS
<1>4. PICK left : left = nodes \ ToSet(list)
  OBVIOUS
<1>5. PICK remaining : remaining = {i \in left : IsProvider(faces, i)}
  OBVIOUS
<1>6. /\ Resolved(faces) /\ left # {} /\ Ready(nodes, edges, ToSet(list)) = {}
      /\ TryBuild(faces).cycle = FoundCycle(remaining, edges)
  BY <1>1, <1>2, <1>3, <1>4, <1>5, TryBuildDecides
<1>7. left \in SUBSET Installations /\ \A j \in left : \E i \in left : Leans(faces, i, j)
  BY <1>1, <1>2, <1>4, <1>6, LeftoverWaits
<1>8. PICK S \in SUBSET left : S # {} /\ \A i \in S : \E j \in S : Leans(faces, i, j)
  BY <1>6, <1>7, NeededHaveLoop
<1>9. \A i, j \in Installations : Leans(faces, i, j) <=> Follows(edges, i, j)
  BY <1>1, <1>6, EdgesAreLeans DEF Follows
<1>10. \A e \in edges : /\ e.consumer \in Installations /\ e.provider \in Installations
                        /\ IsProvider(faces, e.provider)
  BY <1>1, <1>6, EdgesAreNeeds
<1>11. \A e \in edges : e.consumer \in left => e.provider \in left
  <2>1. SUFFICES ASSUME NEW e \in edges, e.consumer \in left, e.provider \notin left PROVE FALSE
    OBVIOUS
  <2>2. e.provider \in nodes
    BY <1>2, <1>10 DEF Participants
  <2>3. Ordered(list, nodes, edges)
    <3>1. nodes \in SUBSET Installations
      BY <1>2, <1>10 DEF Participants
    <3> QED BY <1>3, <3>1, ProcessedOrdered
  <2>4. Len(list) \in Nat /\ ToSet(list) = {list[k] : k \in 1..Len(list)}
    BY <2>3 DEF Ordered, ToSet
  <2>5. PICK k \in 1..Len(list) : list[k] = e.provider
    BY <1>4, <2>1, <2>2, <2>4
  <2>6. PICK j \in 1..k - 1 : list[j] = e.consumer
    BY <2>3, <2>5 DEF Ordered
  <2>7. e.consumer \in ToSet(list)
    BY <2>4, <2>5, <2>6
  <2> QED BY <1>4, <2>1, <2>7
<1>12. SearchIn(remaining, edges)
  <2>1. IsFiniteSet(edges)
    BY <1>1, <1>6, AsManyEdges
  <2> QED BY <1>5, <1>7, <1>10, <1>11, <2>1 DEF SearchIn
<1>13. PICK T : T = {j \in S : \E i \in S : Leans(faces, i, j)}
  OBVIOUS
<1>14. T \in SUBSET remaining
  <2>1. ASSUME NEW j \in T PROVE j \in remaining
    <3>1. PICK i \in S : Leans(faces, i, j)
      BY <1>13
    <3>2. PICK e \in edges : e.provider = j
      BY <1>1, <1>6, <1>7, <3>1, EdgesAreLeans
    <3> QED BY <1>5, <1>10, <1>13, <3>2
  <2> QED BY <2>1
<1>15. T # {} /\ \A i \in T : \E j \in T : Follows(edges, i, j)
  <2>1. \A i \in S : \E j \in T : Leans(faces, i, j)
    BY <1>8, <1>13
  <2>2. \A i \in S : \E j \in T : Follows(edges, i, j)
    BY <1>7, <1>9, <1>13, <2>1
  <2> QED BY <1>8, <1>13, <2>2
<1>16. PICK walk : walk = FoundCycle(remaining, edges)
  OBVIOUS
<1>17. Round(edges, walk)
  BY <1>12, <1>14, <1>15, <1>16, FoundIsRound
<1>18. \A n \in 1..Len(walk) - 1 :
         walk[n] \in Installations /\ Leans(faces, walk[n], walk[n + 1])
  <2>1. TAKE n \in 1..Len(walk) - 1
  <2>2. PICK e \in edges : e.consumer = walk[n] /\ e.provider = walk[n + 1]
    BY <1>17 DEF Round, Follows
  <2> QED BY <1>1, <1>6, <1>10, <2>2, EdgesAreLeans
<1> QED BY <1>6, <1>16, <1>17, <1>18 DEF Round

-----------------------------------------------------------------------------
(* The policy narrows the faces to the servers that the rules name.          *)

LEMMA NarrowedParts ==
  ASSUME NEW p \in PolicyType, NEW faces, FiniteFaces(faces), NEW i \in Installations
  PROVE  LET narrow == Narrowed(p, faces)[i] IN
         /\ narrow = [provides |-> narrow.provides, requires |-> faces[i].requires]
         /\ \A o : o \in narrow.provides <=>
              o \in faces[i].provides /\ i \notin p.excluded /\ p.bound[o.iface] \in {NoBinding, i}
<1>1. PICK offers : offers = IF i \in p.excluded THEN {}
                             ELSE {o \in faces[i].provides : p.bound[o.iface] \in {NoBinding, i}}
  OBVIOUS
<1>2. Narrowed(p, faces)[i] = [faces[i] EXCEPT !.provides = offers]
  BY <1>1 DEF Narrowed
<1>3. faces[i] \in [provides : SUBSET Offers, requires : SUBSET Requirements]
  BY DEF FiniteFaces, FaceType
<1>4. Narrowed(p, faces)[i] = [provides |-> offers, requires |-> faces[i].requires]
  BY <1>2, <1>3
<1>5. \A o : o \in offers <=>
         o \in faces[i].provides /\ i \notin p.excluded /\ p.bound[o.iface] \in {NoBinding, i}
  BY <1>1
<1> QED BY <1>4, <1>5

LEMMA NarrowedIsFinite ==
  ASSUME NEW p \in PolicyType, NEW faces, FiniteFaces(faces)
  PROVE  FiniteFaces(Narrowed(p, faces))
<1>1. ASSUME NEW i \in Installations
      PROVE  /\ Narrowed(p, faces)[i] \in FaceType
             /\ IsFiniteSet(Narrowed(p, faces)[i].provides)
             /\ IsFiniteSet(Narrowed(p, faces)[i].requires)
  <2>1. PICK narrow : narrow = Narrowed(p, faces)[i]
    OBVIOUS
  <2>2. /\ narrow = [provides |-> narrow.provides, requires |-> faces[i].requires]
        /\ narrow.provides \subseteq faces[i].provides
    BY <2>1, NarrowedParts
  <2>3. /\ faces[i].provides \subseteq Offers /\ faces[i].requires \subseteq Requirements
        /\ IsFiniteSet(faces[i].provides) /\ IsFiniteSet(faces[i].requires)
    BY FaceParts
  <2>4. IsFiniteSet(narrow.provides)
    BY <2>2, <2>3, Subsets
  <2>5. narrow.requires = faces[i].requires
    BY <2>2
  <2>6. narrow \in FaceType
    BY <2>2, <2>3 DEF FaceType
  <2> QED BY <2>1, <2>3, <2>4, <2>5, <2>6
<1>2. Narrowed(p, faces) = [i \in Installations |-> Narrowed(p, faces)[i]]
  BY DEF Narrowed
<1> QED BY <1>1, <1>2 DEF FiniteFaces

LEMMA NarrowedServes ==
  ASSUME NEW p \in PolicyType, NEW faces, FiniteFaces(faces)
  PROVE  /\ Needs(Narrowed(p, faces)) = Needs(faces)
         /\ \A i \in Installations : Narrowed(p, faces)[i].requires = faces[i].requires
         /\ \A r : Candidates(Narrowed(p, faces), r) = Servers(p, faces, r)
         /\ \A i \in Installations : \A j :
              Leans(Narrowed(p, faces), i, j) <=> DependsOn(p, faces, i, j)
<1>1. PICK narrowed : narrowed = Narrowed(p, faces)
  OBVIOUS
<1>2. \A i \in Installations : narrowed[i].requires = faces[i].requires
  <2>1. TAKE i \in Installations
  <2>2. narrowed[i] = [provides |-> narrowed[i].provides, requires |-> faces[i].requires]
    BY <1>1, NarrowedParts
  <2> QED BY <2>2
<1>3. Needs(narrowed) = Needs(faces)
  BY <1>2 DEF Needs
<1>4. \A i \in Installations : \A o :
        o \in narrowed[i].provides <=>
          o \in faces[i].provides /\ i \notin p.excluded /\ p.bound[o.iface] \in {NoBinding, i}
  BY <1>1, NarrowedParts
<1>5. \A r : Candidates(narrowed, r) = Servers(p, faces, r)
  <2>1. TAKE r
  <2>2. ASSUME NEW i \in Installations
        PROVE  i \in Candidates(narrowed, r) <=> i \in Servers(p, faces, r)
    BY <1>4 DEF Candidates, Servers, Satisfies
  <2> QED BY <2>2 DEF Candidates, Servers
<1>6. \A i \in Installations : \A j : Leans(narrowed, i, j) <=> DependsOn(p, faces, i, j)
  BY <1>2, <1>5 DEF Leans, DependsOn
<1> QED BY <1>1, <1>2, <1>3, <1>5, <1>6

\* The service builds a graph exactly when the rules allow it, and reports real cycles
\* (build_candidate, find_cycle).
THEOREM CandidateDecides ==
  ASSUME NEW p \in PolicyType, NEW faces, FiniteFaces(faces)
  PROVE  /\ Candidate(p, faces).status = "built" <=> Legal(p, faces)
         /\ Candidate(p, faces).status = "cycle" => IsCycle(p, faces, Candidate(p, faces).cycle)
         /\ Candidate(p, faces).status # "unsafe"
         /\ Candidate(p, faces).status = "built" =>
              /\ Candidate(p, faces) = TryBuild(Narrowed(p, faces))
              /\ FiniteFaces(Narrowed(p, faces)) /\ Resolved(Narrowed(p, faces))
<1>1. PICK narrowed : narrowed = Narrowed(p, faces)
  OBVIOUS
<1>2. /\ FiniteFaces(narrowed) /\ Needs(narrowed) = Needs(faces)
      /\ \A r : Candidates(narrowed, r) = Servers(p, faces, r)
      /\ \A i \in Installations : \A j : Leans(narrowed, i, j) <=> DependsOn(p, faces, i, j)
  BY <1>1, NarrowedIsFinite, NarrowedServes
<1>3. CASE ~PolicyApplies(p, faces)
  <2>1. Candidate(p, faces).status = "policy"
    BY <1>3 DEF Candidate, NoGraph
  <2>2. ~Legal(p, faces)
    BY <1>3 DEF Legal, PolicyApplies
  <2> QED BY <2>1, <2>2
<1>4. CASE PolicyApplies(p, faces)
  <2>1. Candidate(p, faces) = TryBuild(narrowed)
    BY <1>1, <1>4 DEF Candidate
  <2>2. Legal(p, faces) <=> Resolved(narrowed) /\ NoLoop(narrowed)
    <3>1. Resolved(narrowed) <=> \A need \in Needs(faces) :
                                   Cardinality(Servers(p, faces, need[2])) = 1
      BY <1>2 DEF Resolved
    <3>2. NoLoop(narrowed) <=> Acyclic(p, faces)
      BY <1>2 DEF NoLoop, Acyclic
    <3> QED BY <1>4, <3>1, <3>2 DEF Legal, PolicyApplies
  <2>3. TryBuild(narrowed).status \in {"built", "unresolved", "cycle"}
        /\ (TryBuild(narrowed).status = "built" <=> Resolved(narrowed) /\ NoLoop(narrowed))
    BY <1>2, TryBuildDecides
  <2>4. ASSUME TryBuild(narrowed).status = "cycle"
        PROVE  IsCycle(p, faces, TryBuild(narrowed).cycle)
    <3>1. PICK walk : walk = TryBuild(narrowed).cycle
      OBVIOUS
    <3>2. /\ Len(walk) > 1 /\ walk[1] = walk[Len(walk)]
          /\ Cardinality(ToSet(walk)) = Len(walk) - 1
          /\ \A n \in 1..Len(walk) - 1 :
               walk[n] \in Installations /\ Leans(narrowed, walk[n], walk[n + 1])
      BY <1>2, <2>4, <3>1, ReportedIsCycle
    <3>3. \A n \in 1..Len(walk) - 1 : DependsOn(p, faces, walk[n], walk[n + 1])
      BY <1>2, <3>2
    <3> QED BY <3>1, <3>2, <3>3 DEF IsCycle
  <2> QED BY <1>1, <1>2, <2>1, <2>2, <2>3, <2>4
<1> QED BY <1>3, <1>4

-----------------------------------------------------------------------------
(* The calls of the service.                                                 *)

CallSteps == {"idle", "gate", "load", "judge", "audit", "swap", "refused"}

\* What a call holds: its verdict is about the very faces and policy that it keeps.
CallOK(c) ==
  /\ c.step \in CallSteps
  /\ c.step # "idle" =>
       /\ c = [step |-> c.step, change |-> c.change, faces |-> c.faces, policy |-> c.policy,
               result |-> c.result]
       /\ c.change \in Changes /\ FiniteFaces(c.faces) /\ c.policy \in PolicyType
  /\ c.step \in {"audit", "swap"} =>
       c.result = Candidate(c.policy, c.faces) /\ c.result.status = "built"
  /\ c.step = "refused" =>
       \/ c.result.status = "unsafe"
       \/ c.result = Candidate(c.policy, c.faces) /\ c.result.status # "built"

FacesAfter(change, faces) ==
  IF change.kind = "face" THEN [faces EXCEPT ![change.installation] = change.face] ELSE faces
PolicyAfter(change, rules) == IF change.kind = "policy" THEN change.policy ELSE rules

\* What a call that runs alone knows of the records and the policy.
Tracks(c, faces, rules) ==
  /\ c.step \in {"judge", "audit"} => c.faces = FacesAfter(c.change, faces)
  /\ c.step = "audit" => c.policy = PolicyAfter(c.change, rules)
  /\ c.step = "swap" => c.faces = faces /\ c.policy = rules

ServiceTypeOK ==
  /\ FiniteFaces(records) /\ inForce \in PolicyType
  /\ call = [a \in Admins |-> call[a]]
  /\ \A a \in Admins : CallOK(call[a])

Serial ==
  /\ \A a, b \in Admins : call[a].step # "idle" /\ call[b].step # "idle" => a = b
  /\ \A a \in Admins : Tracks(call[a], records, inForce)
  /\ snapshot # EmptyGraph /\ (\A a \in Admins : call[a].step # "swap") =>
       snapshot = Candidate(inForce, records) /\ snapshot.status = "built"

ServiceInv == ServiceTypeOK /\ (~overlapped => Serial)

LEMMA NoFaceIsFinite ==
  /\ NoFace \in FaceType /\ IsFiniteSet(NoFace.provides) /\ IsFiniteSet(NoFace.requires)
  /\ \A f \in Faces \cup {NoFace} :
       f \in FaceType /\ IsFiniteSet(f.provides) /\ IsFiniteSet(f.requires)
<1>1. NoFace \in FaceType /\ IsFiniteSet(NoFace.provides) /\ IsFiniteSet(NoFace.requires)
  BY FS_EmptySet DEF NoFace, FaceType
<1> QED BY <1>1, FacesAssumption DEF FaceType

LEMMA NoPolicyTyped == NoPolicy \in PolicyType /\ Policies \subseteq PolicyType
BY PoliciesAssumption DEF NoPolicy, PolicyType

LEMMA ChangeTyped ==
  ASSUME NEW change \in Changes, NEW faces, FiniteFaces(faces), NEW rules \in PolicyType
  PROVE  /\ change.kind \in {"face", "policy"}
         /\ change.kind = "face" => change.installation \in Installations
                                    /\ change.face \in Faces \cup {NoFace}
         /\ FiniteFaces(FacesAfter(change, faces)) /\ PolicyAfter(change, rules) \in PolicyType
<1>1. CASE change \in [kind : {"face"}, installation : Installations, face : Faces \cup {NoFace}]
  <2>1. /\ change.kind = "face" /\ change.installation \in Installations
        /\ change.face \in Faces \cup {NoFace}
    BY <1>1
  <2>2. PICK g : g = [faces EXCEPT ![change.installation] = change.face]
    OBVIOUS
  <2>3. faces \in [Installations -> FaceType]
        /\ \A i \in Installations : IsFiniteSet(faces[i].provides) /\ IsFiniteSet(faces[i].requires)
    BY DEF FiniteFaces
  <2>4. change.face \in FaceType /\ IsFiniteSet(change.face.provides)
        /\ IsFiniteSet(change.face.requires)
    BY <2>1, NoFaceIsFinite
  <2>5. \A i \in Installations : g[i] = IF i = change.installation THEN change.face ELSE faces[i]
    BY <2>1, <2>2, <2>3
  <2>6. g \in [Installations -> FaceType]
    BY <2>1, <2>2, <2>3, <2>4
  <2>7. FiniteFaces(g)
    BY <2>3, <2>4, <2>5, <2>6 DEF FiniteFaces
  <2> QED BY <2>1, <2>2, <2>7 DEF FacesAfter, PolicyAfter
<1>2. CASE change \in [kind : {"policy"}, policy : Policies]
  <2>1. change.kind = "policy" /\ change.policy \in Policies
    BY <1>2
  <2> QED BY <2>1, NoPolicyTyped DEF FacesAfter, PolicyAfter
<1> QED BY <1>1, <1>2 DEF Changes

LEMMA CallIs ==
  ASSUME ServiceInv, NEW a \in Admins, call[a].step # "idle"
  PROVE  /\ call[a] = [step |-> call[a].step, change |-> call[a].change, faces |-> call[a].faces,
                       policy |-> call[a].policy, result |-> call[a].result]
         /\ call[a].change \in Changes /\ FiniteFaces(call[a].faces)
         /\ call[a].policy \in PolicyType /\ FiniteFaces(records) /\ inForce \in PolicyType
         /\ call[a].step \in {"audit", "swap"} =>
              /\ call[a].result = Candidate(call[a].policy, call[a].faces)
              /\ call[a].result.status = "built"
BY DEF ServiceInv, ServiceTypeOK, CallOK

\* A call moves on and nothing else changes; it neither comes from its swap nor to it.
LEMMA CallMoves ==
  ASSUME ServiceInv, NEW a \in Admins, NEW c, CallOK(c), c.step # "swap",
         call[a].step # "swap", call' = [call EXCEPT ![a] = c],
         ~overlapped' => ~overlapped /\ Tracks(c, records, inForce),
         call[a].step = "idle" /\ ~overlapped' => \A b \in Admins : call[b].step = "idle",
         UNCHANGED <<records, inForce, snapshot>>
  PROVE  ServiceInv'
<1>1. /\ call = [b \in Admins |-> call[b]] /\ \A b \in Admins : CallOK(call[b])
      /\ FiniteFaces(records) /\ inForce \in PolicyType
  BY DEF ServiceInv, ServiceTypeOK
<1>2. /\ call' = [b \in Admins |-> call'[b]]
      /\ \A b \in Admins : call'[b] = IF b = a THEN c ELSE call[b]
  BY <1>1
<1>3. \A b \in Admins : CallOK(call'[b])
  BY <1>1, <1>2
<1>4. ServiceTypeOK'
  <2>1. FiniteFaces(records') /\ inForce' \in PolicyType
    BY <1>1
  <2> QED BY <1>2, <1>3, <2>1 DEF ServiceTypeOK
<1>5. ASSUME ~overlapped' PROVE Serial'
  <2>1. Serial /\ Tracks(c, records, inForce)
    BY <1>5 DEF ServiceInv
  <2>2. \A b, d \in Admins : call'[b].step # "idle" /\ call'[d].step # "idle" => b = d
    BY <1>2, <1>5, <2>1 DEF Serial
  <2>3. \A b \in Admins : Tracks(call'[b], records', inForce')
    BY <1>2, <2>1 DEF Serial
  <2>4. (\A b \in Admins : call'[b].step # "swap") => \A b \in Admins : call[b].step # "swap"
    BY <1>2
  <2>5. snapshot' # EmptyGraph /\ (\A b \in Admins : call'[b].step # "swap") =>
          snapshot' = Candidate(inForce', records') /\ snapshot'.status = "built"
    BY <2>1, <2>4 DEF Serial
  <2> QED BY <2>2, <2>3, <2>5 DEF Serial
<1> QED BY <1>4, <1>5 DEF ServiceInv

LEMMA StartsCallKeepsInv ==
  ASSUME ServiceInv, NEW a \in Admins, NEW change \in Changes, StartsCall(a, change)
  PROVE  ServiceInv'
<1>1. PICK step \in {"gate", "load"} :
        step = IF change.kind = "face" /\ change.face # NoFace THEN "gate" ELSE "load"
  OBVIOUS
<1>2. PICK c : c = [step |-> step, change |-> change, faces |-> records, policy |-> inForce,
                    result |-> EmptyGraph]
  OBVIOUS
<1>3. /\ call[a].step = "idle" /\ call' = [call EXCEPT ![a] = c]
      /\ overlapped' = (overlapped \/ \E b \in Admins : call[b].step # "idle")
      /\ UNCHANGED <<records, inForce, snapshot>>
  BY <1>1, <1>2 DEF StartsCall
<1>4. FiniteFaces(records) /\ inForce \in PolicyType
  BY DEF ServiceInv, ServiceTypeOK
<1>5. /\ c.step = step /\ c.change = change /\ c.faces = records /\ c.policy = inForce
      /\ c.result = EmptyGraph
  BY <1>2
<1>6. CallOK(c) /\ c.step # "swap" /\ Tracks(c, records, inForce)
  BY <1>1, <1>2, <1>4, <1>5 DEF CallOK, CallSteps, Tracks
<1>7. ~overlapped' => ~overlapped /\ \A b \in Admins : call[b].step = "idle"
  BY <1>3
<1> QED BY <1>3, <1>6, <1>7, CallMoves

LEMMA GatesKeepsInv ==
  ASSUME ServiceInv, NEW a \in Admins, Gates(a)
  PROVE  ServiceInv'
<1>1. call[a].step = "gate" /\ UNCHANGED <<records, inForce, snapshot, overlapped>>
  BY DEF Gates
<1>2. /\ call[a] = [step |-> "gate", change |-> call[a].change, faces |-> call[a].faces,
                    policy |-> call[a].policy, result |-> call[a].result]
      /\ call[a].change \in Changes /\ FiniteFaces(call[a].faces)
      /\ call[a].policy \in PolicyType /\ FiniteFaces(records) /\ inForce \in PolicyType
  BY <1>1, CallIs
<1>3. call = [b \in Admins |-> call[b]]
  BY DEF ServiceInv, ServiceTypeOK
<1>4. CASE KeepsConsumers(call[a].change)
  <2>1. PICK c : c = [step |-> "load", change |-> call[a].change, faces |-> call[a].faces,
                      policy |-> call[a].policy, result |-> call[a].result]
    OBVIOUS
  <2>2. call' = [call EXCEPT ![a] = [call[a] EXCEPT !.step = "load"]]
    BY <1>3, <1>4 DEF Gates, Steps
  <2>3. call' = [call EXCEPT ![a] = c]
    <3>1. /\ call' = [b \in Admins |-> call'[b]]
          /\ \A b \in Admins \ {a} : call'[b] = call[b]
          /\ call'[a] = [call[a] EXCEPT !.step = "load"]
      BY <1>3, <2>2
    <3>2. call'[a] = c
      BY <1>2, <2>1, <3>1
    <3> QED BY <1>3, <3>1, <3>2
  <2>4. /\ c.step = "load" /\ c.change \in Changes /\ FiniteFaces(c.faces)
        /\ c.policy \in PolicyType
        /\ c = [step |-> c.step, change |-> c.change, faces |-> c.faces, policy |-> c.policy,
                result |-> c.result]
    BY <1>2, <2>1
  <2>5. CallOK(c) /\ Tracks(c, records, inForce)
    BY <2>4 DEF CallOK, CallSteps, Tracks
  <2> QED BY <1>1, <2>3, <2>4, <2>5, CallMoves
<1>5. CASE ~KeepsConsumers(call[a].change)
  <2>1. PICK c : c = [step |-> "refused", change |-> call[a].change, faces |-> records,
                      policy |-> inForce, result |-> NoGraph("unsafe", <<>>)]
    OBVIOUS
  <2>2. call' = [call EXCEPT ![a].step = "refused", ![a].faces = records, ![a].policy = inForce,
                             ![a].result = NoGraph("unsafe", <<>>)]
    BY <1>5 DEF Gates
  <2>3. call' = [call EXCEPT ![a] = c]
    <3>1. /\ call' = [b \in Admins |-> call'[b]]
          /\ \A b \in Admins \ {a} : call'[b] = call[b]
          /\ call'[a] = [call[a] EXCEPT !.step = "refused", !.faces = records, !.policy = inForce,
                                       !.result = NoGraph("unsafe", <<>>)]
      BY <1>3, <2>2
    <3>2. call'[a] = c
      BY <1>2, <2>1, <3>1
    <3> QED BY <1>3, <3>1, <3>2
  <2>4. /\ c.step = "refused" /\ c.change \in Changes /\ FiniteFaces(c.faces)
        /\ c.policy \in PolicyType /\ c.result.status = "unsafe"
        /\ c = [step |-> c.step, change |-> c.change, faces |-> c.faces, policy |-> c.policy,
                result |-> c.result]
    BY <1>2, <2>1 DEF NoGraph
  <2>5. CallOK(c) /\ Tracks(c, records, inForce)
    BY <2>4 DEF CallOK, CallSteps, Tracks
  <2> QED BY <1>1, <2>3, <2>4, <2>5, CallMoves
<1> QED BY <1>4, <1>5

LEMMA LoadsKeepsInv ==
  ASSUME ServiceInv, NEW a \in Admins, Loads(a)
  PROVE  ServiceInv'
<1>1. call[a].step = "load" /\ UNCHANGED <<records, inForce, snapshot, overlapped>>
  BY DEF Loads
<1>2. PICK change : change = call[a].change
  OBVIOUS
<1>3. /\ call[a] = [step |-> "load", change |-> change, faces |-> call[a].faces,
                    policy |-> call[a].policy, result |-> call[a].result]
      /\ change \in Changes /\ call[a].policy \in PolicyType
      /\ FiniteFaces(records) /\ inForce \in PolicyType
  BY <1>1, <1>2, CallIs
<1>4. call = [b \in Admins |-> call[b]]
  BY DEF ServiceInv, ServiceTypeOK
<1>5. PICK faces : faces = FacesAfter(change, records)
  OBVIOUS
<1>6. FiniteFaces(faces)
  BY <1>3, <1>5, ChangeTyped
<1>7. PICK c : c = [step |-> "judge", change |-> change, faces |-> faces,
                    policy |-> call[a].policy, result |-> call[a].result]
  OBVIOUS
<1>8. call' = [call EXCEPT ![a].step = "judge", ![a].faces = faces]
  BY <1>2, <1>5 DEF Loads, FacesAfter
<1>9. call' = [call EXCEPT ![a] = c]
  <2>1. /\ call' = [b \in Admins |-> call'[b]]
        /\ \A b \in Admins \ {a} : call'[b] = call[b]
        /\ call'[a] = [call[a] EXCEPT !.step = "judge", !.faces = faces]
    BY <1>4, <1>8
  <2>2. [call[a] EXCEPT !.step = "judge", !.faces = faces] = c
    <3>1. PICK p, r : p = call[a].policy /\ r = call[a].result
      OBVIOUS
    <3>2. PICK old : old = [step |-> "load", change |-> change, faces |-> call[a].faces,
                            policy |-> p, result |-> r]
      OBVIOUS
    <3>3. PICK d : d = [old EXCEPT !.step = "judge"]
      OBVIOUS
    <3>4. d = [step |-> "judge", change |-> change, faces |-> call[a].faces,
               policy |-> p, result |-> r]
      BY <3>2, <3>3
    <3>5. [d EXCEPT !.faces = faces] = c
      BY <1>7, <3>1, <3>4
    <3> QED BY <1>3, <3>1, <3>2, <3>3, <3>5
  <2> QED BY <1>4, <2>1, <2>2
<1>10. /\ c.step = "judge" /\ c.change = change /\ c.faces = faces
       /\ c.policy \in PolicyType
       /\ c = [step |-> c.step, change |-> c.change, faces |-> c.faces, policy |-> c.policy,
               result |-> c.result]
  BY <1>3, <1>7
<1>11. CallOK(c) /\ Tracks(c, records, inForce)
  BY <1>3, <1>5, <1>6, <1>10 DEF CallOK, CallSteps, Tracks
<1> QED BY <1>1, <1>9, <1>10, <1>11, CallMoves

LEMMA JudgesKeepsInv ==
  ASSUME ServiceInv, NEW a \in Admins, Judges(a)
  PROVE  ServiceInv'
<1>1. call[a].step = "judge" /\ UNCHANGED <<records, inForce, snapshot, overlapped>>
  BY DEF Judges
<1>2. PICK change : change = call[a].change
  OBVIOUS
<1>3. PICK faces : faces = call[a].faces
  OBVIOUS
<1>4. /\ call[a] = [step |-> "judge", change |-> change, faces |-> faces,
                    policy |-> call[a].policy, result |-> call[a].result]
      /\ change \in Changes /\ FiniteFaces(faces)
      /\ FiniteFaces(records) /\ inForce \in PolicyType
  BY <1>1, <1>2, <1>3, CallIs
<1>5. call = [b \in Admins |-> call[b]]
  BY DEF ServiceInv, ServiceTypeOK
<1>6. PICK judged : judged = PolicyAfter(change, inForce)
  OBVIOUS
<1>7. judged \in PolicyType
  BY <1>4, <1>6, ChangeTyped
<1>8. PICK result : result = Candidate(judged, faces)
  OBVIOUS
<1>9. PICK step \in {"audit", "refused"} :
        step = IF result.status = "built" THEN "audit" ELSE "refused"
  OBVIOUS
<1>10. PICK c : c = [step |-> step, change |-> change, faces |-> faces,
                     policy |-> judged, result |-> result]
  OBVIOUS
<1>11. call' = [call EXCEPT ![a].policy = judged, ![a].result = result, ![a].step = step]
  BY <1>2, <1>3, <1>6, <1>8, <1>9 DEF Judges, PolicyAfter
<1>12. call' = [call EXCEPT ![a] = c]
  <2>1. /\ call' = [b \in Admins |-> call'[b]]
        /\ \A b \in Admins \ {a} : call'[b] = call[b]
        /\ call'[a] = [call[a] EXCEPT !.policy = judged, !.result = result, !.step = step]
    BY <1>5, <1>11
  <2>2. [call[a] EXCEPT !.policy = judged, !.result = result, !.step = step] = c
    <3>1. PICK p, r : p = call[a].policy /\ r = call[a].result
      OBVIOUS
    <3>2. PICK old : old = [step |-> "judge", change |-> change, faces |-> faces,
                            policy |-> p, result |-> r]
      OBVIOUS
    <3>3. PICK d : d = [old EXCEPT !.policy = judged]
      OBVIOUS
    <3>4. d = [step |-> "judge", change |-> change, faces |-> faces,
               policy |-> judged, result |-> r]
      BY <3>2, <3>3
    <3>5. PICK e : e = [d EXCEPT !.result = result]
      OBVIOUS
    <3>6. e = [step |-> "judge", change |-> change, faces |-> faces,
               policy |-> judged, result |-> result]
      BY <3>4, <3>5
    <3>7. [e EXCEPT !.step = step] = c
      BY <1>10, <3>6
    <3> QED BY <1>4, <3>1, <3>2, <3>3, <3>5, <3>7
  <2> QED BY <1>5, <2>1, <2>2
<1>13. /\ c.step = step /\ c.change = change /\ c.faces = faces
       /\ c.policy = judged /\ c.result = result
       /\ c = [step |-> c.step, change |-> c.change, faces |-> c.faces, policy |-> c.policy,
               result |-> c.result]
  BY <1>10
<1>14. CallOK(c)
  BY <1>4, <1>7, <1>8, <1>9, <1>13 DEF CallOK, CallSteps
<1>15. ~overlapped => Tracks(c, records, inForce)
  <2>1. ~overlapped => faces = FacesAfter(change, records)
    BY <1>1, <1>2, <1>3 DEF ServiceInv, Serial, Tracks
  <2> QED BY <1>6, <1>9, <1>13, <2>1 DEF Tracks
<1> QED BY <1>1, <1>9, <1>12, <1>13, <1>14, <1>15, CallMoves

\* A call ends: the audit failed, or its error is returned.
LEMMA EndKeepsServiceInv ==
  ASSUME ServiceInv, NEW a \in Admins, call[a].step \notin {"idle", "swap"},
         call' = [call EXCEPT ![a] = NoCall],
         UNCHANGED <<records, inForce, snapshot, overlapped>>
  PROVE  ServiceInv'
<1>1. CallOK(NoCall) /\ NoCall.step # "swap" /\ Tracks(NoCall, records, inForce)
  BY DEF CallOK, NoCall, CallSteps, Tracks
<1> QED BY <1>1, CallMoves

\* The change is written: from here to the swap only the snapshot is old.
LEMMA WriteKeepsServiceInv ==
  ASSUME ServiceInv, NEW a \in Admins, call[a].step = "audit",
         call' = [call EXCEPT ![a].step = "swap"],
         records' = FacesAfter(call[a].change, records),
         inForce' = PolicyAfter(call[a].change, inForce),
         UNCHANGED <<snapshot, overlapped>>
  PROVE  ServiceInv'
<1>1. PICK change, faces, rules, result :
        change = call[a].change /\ faces = call[a].faces /\ rules = call[a].policy
        /\ result = call[a].result
  OBVIOUS
<1>2. /\ call[a] = [step |-> "audit", change |-> change, faces |-> faces,
                    policy |-> rules, result |-> result]
      /\ change \in Changes /\ FiniteFaces(faces) /\ rules \in PolicyType
      /\ FiniteFaces(records) /\ inForce \in PolicyType
      /\ result = Candidate(rules, faces) /\ result.status = "built"
  BY <1>1, CallIs
<1>3. call = [b \in Admins |-> call[b]] /\ \A b \in Admins : CallOK(call[b])
  BY DEF ServiceInv, ServiceTypeOK
<1>4. PICK c : c = [step |-> "swap", change |-> change, faces |-> faces,
                    policy |-> rules, result |-> result]
  OBVIOUS
<1>5. call' = [call EXCEPT ![a] = [call[a] EXCEPT !.step = "swap"]]
  BY <1>3
<1>6. call' = [call EXCEPT ![a] = c]
  <2>1. /\ call' = [b \in Admins |-> call'[b]]
        /\ \A b \in Admins \ {a} : call'[b] = call[b]
        /\ call'[a] = [call[a] EXCEPT !.step = "swap"]
    BY <1>3, <1>5
  <2>2. call'[a] = c
    BY <1>2, <1>4, <2>1
  <2> QED BY <1>3, <2>1, <2>2
<1>7. /\ c.step = "swap" /\ c.change = change /\ c.faces = faces
      /\ c.policy = rules /\ c.result = result
      /\ c = [step |-> c.step, change |-> c.change, faces |-> c.faces, policy |-> c.policy,
              result |-> c.result]
  BY <1>4
<1>8. CallOK(c)
  BY <1>2, <1>7 DEF CallOK, CallSteps
<1>9. /\ call' = [b \in Admins |-> call'[b]]
      /\ \A b \in Admins : call'[b] = IF b = a THEN c ELSE call[b]
  BY <1>3, <1>6
<1>10. FiniteFaces(records') /\ inForce' \in PolicyType
  BY <1>1, <1>2, ChangeTyped
<1>11. \A b \in Admins : CallOK(call'[b])
  BY <1>3, <1>8, <1>9
<1>12. ServiceTypeOK'
  BY <1>9, <1>10, <1>11 DEF ServiceTypeOK
<1>13. ASSUME ~overlapped' PROVE Serial'
  <2>1. Serial
    BY <1>13 DEF ServiceInv
  <2>2. \A b \in Admins \ {a} : call[b].step = "idle"
    BY <2>1 DEF Serial
  <2>3. \A b, d \in Admins : call'[b].step # "idle" /\ call'[d].step # "idle" => b = d
    BY <1>9, <2>2
  <2>4. faces = records' /\ rules = inForce'
    BY <1>1, <2>1 DEF Serial, Tracks
  <2>5. Tracks(c, records', inForce')
    BY <1>7, <2>4 DEF Tracks
  <2>6. \A b \in Admins \ {a} : Tracks(call[b], records', inForce')
    BY <2>2 DEF Tracks
  <2>7. \A b \in Admins : Tracks(call'[b], records', inForce')
    BY <1>9, <2>5, <2>6
  <2>8. ~ \A b \in Admins : call'[b].step # "swap"
    BY <1>7, <1>9
  <2> QED BY <2>3, <2>7, <2>8 DEF Serial
<1> QED BY <1>12, <1>13 DEF ServiceInv

LEMMA CommitsKeepsInv ==
  ASSUME ServiceInv, NEW a \in Admins, Commits(a)
  PROVE  ServiceInv'
<1>1. call[a].step = "audit" /\ UNCHANGED <<snapshot, overlapped>>
  BY DEF Commits
<1>2. CASE call' = [call EXCEPT ![a] = NoCall] /\ UNCHANGED <<records, inForce>>
  BY <1>1, <1>2, EndKeepsServiceInv
<1>3. CASE /\ Steps(a, "swap")
           /\ IF call[a].change.kind = "face"
              THEN records' = [records EXCEPT ![call[a].change.installation] = call[a].change.face]
                   /\ UNCHANGED inForce
              ELSE inForce' = call[a].change.policy /\ UNCHANGED records
  <2>1. call[a].change.kind \in {"face", "policy"}
    BY <1>1, CallIs, ChangeTyped
  <2>2. /\ records' = FacesAfter(call[a].change, records)
        /\ inForce' = PolicyAfter(call[a].change, inForce)
    BY <1>3, <2>1 DEF FacesAfter, PolicyAfter
  <2>3. call' = [call EXCEPT ![a].step = "swap"]
    BY <1>3 DEF Steps
  <2> QED BY <1>1, <2>2, <2>3, WriteKeepsServiceInv
<1> QED BY <1>2, <1>3 DEF Commits

LEMMA SwapsKeepsInv ==
  ASSUME ServiceInv, NEW a \in Admins, Swaps(a)
  PROVE  ServiceInv'
<1>1. /\ call[a].step = "swap" /\ snapshot' = call[a].result
      /\ call' = [call EXCEPT ![a] = NoCall] /\ UNCHANGED <<records, inForce, overlapped>>
  BY DEF Swaps
<1>2. /\ call[a].result = Candidate(call[a].policy, call[a].faces)
      /\ call[a].result.status = "built"
  BY <1>1, CallIs
<1>3. /\ call = [b \in Admins |-> call[b]] /\ \A b \in Admins : CallOK(call[b])
      /\ FiniteFaces(records) /\ inForce \in PolicyType
  BY DEF ServiceInv, ServiceTypeOK
<1>4. /\ call' = [b \in Admins |-> call'[b]]
      /\ \A b \in Admins : call'[b] = IF b = a THEN NoCall ELSE call[b]
  BY <1>1, <1>3
<1>5. CallOK(NoCall) /\ NoCall.step = "idle" /\ Tracks(NoCall, records, inForce)
  BY DEF CallOK, NoCall, CallSteps, Tracks
<1>6. \A b \in Admins : CallOK(call'[b])
  BY <1>3, <1>4, <1>5
<1>7. FiniteFaces(records') /\ inForce' \in PolicyType
  BY <1>1, <1>3
<1>8. ServiceTypeOK'
  BY <1>4, <1>6, <1>7 DEF ServiceTypeOK
<1>9. ASSUME ~overlapped' PROVE Serial'
  <2>1. Serial
    BY <1>1, <1>9 DEF ServiceInv
  <2>2. call[a].faces = records /\ call[a].policy = inForce
    BY <1>1, <2>1 DEF Serial, Tracks
  <2>3. snapshot' = Candidate(inForce', records') /\ snapshot'.status = "built"
    BY <1>1, <1>2, <2>2
  <2>4. \A b, d \in Admins : call'[b].step # "idle" /\ call'[d].step # "idle" => b = d
    BY <1>4, <1>5, <2>1 DEF Serial
  <2>5. \A b \in Admins : Tracks(call'[b], records', inForce')
    BY <1>1, <1>4, <1>5, <2>1 DEF Serial
  <2> QED BY <2>3, <2>4, <2>5 DEF Serial
<1> QED BY <1>8, <1>9 DEF ServiceInv

LEMMA RestartsKeepsInv ==
  ASSUME ServiceInv, Restarts
  PROVE  ServiceInv'
<1>1. /\ inForce' = NoPolicy /\ snapshot' = EmptyGraph /\ call' = [a \in Admins |-> NoCall]
      /\ records' = records
  BY DEF Restarts
<1>2. \A a \in Admins : call'[a] = NoCall
  BY <1>1
<1>3. CallOK(NoCall) /\ NoCall.step = "idle" /\ \A f, p : Tracks(NoCall, f, p)
  BY DEF CallOK, NoCall, CallSteps, Tracks
<1>4. FiniteFaces(records') /\ inForce' \in PolicyType
  BY <1>1, NoPolicyTyped DEF ServiceInv, ServiceTypeOK
<1>5. ServiceTypeOK'
  BY <1>1, <1>2, <1>3, <1>4 DEF ServiceTypeOK
<1>6. Serial'
  BY <1>1, <1>2, <1>3 DEF Serial
<1> QED BY <1>5, <1>6 DEF ServiceInv

LEMMA ServiceInvInitially == ServiceInit => ServiceInv
<1>1. SUFFICES ASSUME ServiceInit PROVE ServiceInv
  OBVIOUS
<1>2. /\ records = [i \in Installations |-> NoFace] /\ inForce = NoPolicy
      /\ snapshot = EmptyGraph /\ call = [a \in Admins |-> NoCall]
  BY <1>1 DEF ServiceInit
<1>3. \A a \in Admins : call[a] = NoCall
  BY <1>2
<1>4. CallOK(NoCall) /\ NoCall.step = "idle" /\ \A f, p : Tracks(NoCall, f, p)
  BY DEF CallOK, NoCall, CallSteps, Tracks
<1>5. FiniteFaces(records) /\ inForce \in PolicyType
  BY <1>2, NoFaceIsFinite, NoPolicyTyped DEF FiniteFaces
<1>6. ServiceTypeOK
  BY <1>2, <1>3, <1>4, <1>5 DEF ServiceTypeOK
<1>7. Serial
  BY <1>2, <1>3, <1>4 DEF Serial
<1> QED BY <1>6, <1>7 DEF ServiceInv

LEMMA ServiceInvHolds == ServiceSpec => []ServiceInv
<1>1. ServiceInv /\ [ServiceNext]_serviceVars => ServiceInv'
  <2>1. SUFFICES ASSUME ServiceInv, [ServiceNext]_serviceVars PROVE ServiceInv'
    OBVIOUS
  <2>2. ASSUME NEW a \in Admins, NEW change \in Changes, StartsCall(a, change) PROVE ServiceInv'
    BY <2>1, <2>2, StartsCallKeepsInv
  <2>3. ASSUME NEW a \in Admins, Gates(a) PROVE ServiceInv'
    BY <2>1, <2>3, GatesKeepsInv
  <2>4. ASSUME NEW a \in Admins, Loads(a) PROVE ServiceInv'
    BY <2>1, <2>4, LoadsKeepsInv
  <2>5. ASSUME NEW a \in Admins, Judges(a) PROVE ServiceInv'
    BY <2>1, <2>5, JudgesKeepsInv
  <2>6. ASSUME NEW a \in Admins, Commits(a) PROVE ServiceInv'
    BY <2>1, <2>6, CommitsKeepsInv
  <2>7. ASSUME NEW a \in Admins, Swaps(a) PROVE ServiceInv'
    BY <2>1, <2>7, SwapsKeepsInv
  <2>8. ASSUME NEW a \in Admins, ReturnsError(a) PROVE ServiceInv'
    <3>1. /\ call[a].step \notin {"idle", "swap"} /\ call' = [call EXCEPT ![a] = NoCall]
          /\ UNCHANGED <<records, inForce, snapshot, overlapped>>
      BY <2>8 DEF ReturnsError
    <3> QED BY <2>1, <3>1, EndKeepsServiceInv
  <2>9. CASE Restarts
    BY <2>1, <2>9, RestartsKeepsInv
  <2>10. CASE UNCHANGED serviceVars
    <3>1. /\ records' = records /\ inForce' = inForce /\ snapshot' = snapshot
          /\ call' = call /\ overlapped' = overlapped
      BY <2>10 DEF serviceVars
    <3> QED BY <2>1, <3>1 DEF ServiceInv, ServiceTypeOK, Serial
  <2> QED BY <2>1, <2>2, <2>3, <2>4, <2>5, <2>6, <2>7, <2>8, <2>9, <2>10, Zenon DEF ServiceNext
<1> QED BY <1>1, ServiceInvInitially, PTL DEF ServiceSpec

-----------------------------------------------------------------------------
(* What the service promises.                                                *)

\* A change is refused exactly when the records it read, with it, break the rules, and
\* a cycle that is reported is one: commit_activation, deactivate and update_policy.
THEOREM VerdictFollowsRules == ServiceSpec => []VerdictIsRight
<1>1. ServiceInv => VerdictIsRight
  <2>1. SUFFICES ASSUME ServiceInv, NEW a \in Admins
                 PROVE  /\ call[a].step = "audit" => Legal(call[a].policy, call[a].faces)
                        /\ call[a].step = "refused" /\ call[a].result.status # "unsafe"
                             => ~Legal(call[a].policy, call[a].faces)
                        /\ call[a].step = "refused" /\ call[a].result.status = "cycle" =>
                             IsCycle(call[a].policy, call[a].faces, call[a].result.cycle)
    BY DEF VerdictIsRight
  <2>2. CallOK(call[a])
    BY <2>1 DEF ServiceInv, ServiceTypeOK
  <2>3. CASE call[a].step \in {"audit", "refused"}
    <3>1. /\ FiniteFaces(call[a].faces) /\ call[a].policy \in PolicyType
          /\ call[a].step = "audit" =>
               /\ call[a].result = Candidate(call[a].policy, call[a].faces)
               /\ call[a].result.status = "built"
          /\ call[a].step = "refused" =>
               \/ call[a].result.status = "unsafe"
               \/ /\ call[a].result = Candidate(call[a].policy, call[a].faces)
                  /\ call[a].result.status # "built"
      BY <2>2, <2>3 DEF CallOK
    <3>2. PICK p, faces : p = call[a].policy /\ faces = call[a].faces
      OBVIOUS
    <3>3. /\ Candidate(p, faces).status = "built" <=> Legal(p, faces)
          /\ Candidate(p, faces).status = "cycle" =>
               IsCycle(p, faces, Candidate(p, faces).cycle)
      BY <3>1, <3>2, CandidateDecides
    <3> QED BY <3>1, <3>2, <3>3
  <2> QED BY <2>3
<1> QED BY <1>1, ServiceInvHolds, PTL

\* What a settled snapshot is: the graph of the narrowed records.
LEMMA SettledIs ==
  ASSUME ServiceInv, Settled
  PROVE  /\ FiniteFaces(records) /\ inForce \in PolicyType /\ Legal(inForce, records)
         /\ snapshot = TryBuild(Narrowed(inForce, records)) /\ snapshot.status = "built"
         /\ FiniteFaces(Narrowed(inForce, records)) /\ Resolved(Narrowed(inForce, records))
         /\ snapshot.edges = AllEdges(Narrowed(inForce, records))
<1>1. /\ FiniteFaces(records) /\ inForce \in PolicyType
      /\ snapshot = Candidate(inForce, records) /\ snapshot.status = "built"
  BY DEF ServiceInv, ServiceTypeOK, Serial, Settled
<1>2. PICK narrowed : narrowed = Narrowed(inForce, records)
  OBVIOUS
<1>3. /\ Legal(inForce, records) /\ snapshot = TryBuild(narrowed)
      /\ FiniteFaces(narrowed) /\ Resolved(narrowed)
  BY <1>1, <1>2, CandidateDecides
<1>4. TryBuild(narrowed).edges = AllEdges(narrowed)
  <2>1. TryBuild(narrowed).status = "built"
    BY <1>1, <1>3
  <2> QED BY <1>3, <2>1, BuiltParts
<1> QED BY <1>1, <1>2, <1>3, <1>4

\* An edge of the snapshot: its consumer needs it and its provider alone may serve it.
LEMMA SettledEdges ==
  ASSUME ServiceInv, Settled
  PROVE  /\ \A e \in snapshot.edges :
              /\ e.consumer \in Installations /\ e.provider \in Installations
              /\ e.requirement \in records[e.consumer].requires
              /\ Servers(inForce, records, e.requirement) = {e.provider}
         /\ \A i \in Installations : \A r \in records[i].requires :
              \E e \in snapshot.edges : e.consumer = i /\ e.requirement = r
<1>1. PICK narrowed : narrowed = Narrowed(inForce, records)
  OBVIOUS
<1>2. /\ FiniteFaces(records) /\ inForce \in PolicyType
      /\ FiniteFaces(narrowed) /\ Resolved(narrowed)
      /\ snapshot.edges = AllEdges(narrowed)
  BY <1>1, SettledIs
<1>3. /\ Needs(narrowed) = Needs(records)
      /\ \A i \in Installations : narrowed[i].requires = records[i].requires
      /\ \A r : Candidates(narrowed, r) = Servers(inForce, records, r)
  BY <1>1, <1>2, NarrowedServes
<1>4. /\ \A e \in AllEdges(narrowed) :
           /\ e.consumer \in Installations /\ e.requirement \in narrowed[e.consumer].requires
           /\ e.provider \in Installations /\ Candidates(narrowed, e.requirement) = {e.provider}
      /\ \A need \in Needs(narrowed) :
           \E e \in AllEdges(narrowed) : need = <<e.consumer, e.requirement>>
  BY <1>2, EdgesAreNeeds
<1>5. ASSUME NEW i \in Installations, NEW r \in records[i].requires
      PROVE  \E e \in snapshot.edges : e.consumer = i /\ e.requirement = r
  <2>1. r \in Requirements
    BY <1>2, FaceParts
  <2>2. <<i, r>> \in Needs(narrowed)
    BY <1>3, <2>1 DEF Needs
  <2>3. PICK e \in snapshot.edges : <<i, r>> = <<e.consumer, e.requirement>>
    BY <1>2, <1>4, <2>2
  <2> QED BY <2>3
<1> QED BY <1>2, <1>3, <1>4, <1>5

\* When no two calls overlapped, the snapshot gives every need in the records its one
\* server at the highest version that fits, and has no other edge: ActiveGraph.
THEOREM SnapshotFollowsRecords == ServiceSpec => []SnapshotServesTheRecords
<1>1. ServiceInv => SnapshotServesTheRecords
  <2>1. SUFFICES ASSUME ServiceInv, Settled
                 PROVE  /\ {<<e.consumer, e.requirement>> : e \in snapshot.edges} = Needs(records)
                        /\ Cardinality(snapshot.edges) = Cardinality(Needs(records))
                        /\ \A e \in snapshot.edges :
                             /\ Servers(inForce, records, e.requirement) = {e.provider}
                             /\ \A o \in records[e.provider].provides :
                                  Satisfies(o, e.requirement) => o.version <= e.provided.version
    BY DEF SnapshotServesTheRecords
  <2>2. PICK narrowed : narrowed = Narrowed(inForce, records)
    OBVIOUS
  <2>3. /\ FiniteFaces(records) /\ inForce \in PolicyType
        /\ FiniteFaces(narrowed) /\ Resolved(narrowed)
        /\ snapshot.edges = AllEdges(narrowed)
    BY <2>1, <2>2, SettledIs
  <2>4. Needs(narrowed) = Needs(records)
    BY <2>2, <2>3, NarrowedServes
  <2>5. /\ Cardinality(snapshot.edges) = Cardinality(Needs(records))
        /\ {<<e.consumer, e.requirement>> : e \in snapshot.edges} = Needs(records)
    BY <2>3, <2>4, AsManyEdges
  <2>6. ASSUME NEW e \in snapshot.edges, NEW o \in records[e.provider].provides,
               Satisfies(o, e.requirement)
        PROVE  o.version <= e.provided.version
    <3>1. /\ e.provider \in Installations
          /\ \A q \in narrowed[e.provider].provides :
               Satisfies(q, e.requirement) => q.version <= e.provided.version
      BY <2>3, EdgesAreNeeds
    <3>2. e.provider \in Servers(inForce, records, e.requirement)
      BY <2>1, SettledEdges
    <3>3. e.provider \notin inForce.excluded
          /\ inForce.bound[o.iface] \in {NoBinding, e.provider}
      BY <2>6, <3>2 DEF Servers, Satisfies
    <3>4. o \in narrowed[e.provider].provides
      BY <2>2, <2>3, <3>1, <3>3, NarrowedParts
    <3> QED BY <2>6, <3>1, <3>4
  <2> QED BY <2>1, <2>5, <2>6, SettledEdges
<1> QED BY <1>1, ServiceInvHolds, PTL

EndOf(order, n) == {order[m] : m \in n..Len(order)}

\* The last installations of the order are the first that were processed, with their consumers.
LEMMA EndOfOrder ==
  ASSUME NEW faces, FiniteFaces(faces), TryBuild(faces).status = "built",
         NEW n \in DOMAIN TryBuild(faces).order
  PROVE  \A e \in AllEdges(faces) :
           e.provider \in EndOf(TryBuild(faces).order, n)
             => e.consumer \in EndOf(TryBuild(faces).order, n)
<1> DEFINE gone == EndOf(TryBuild(faces).order, n)
<1>1. PICK edges : edges = AllEdges(faces)
  OBVIOUS
<1>2. PICK nodes : nodes = Participants(faces, edges)
  OBVIOUS
<1>3. PICK list : /\ Ordered(list, nodes, edges)
                  /\ TryBuild(faces).order = Reverse(list)
  BY <1>1, <1>2, BuiltParts
<1>5. PICK l \in Nat : l = Len(list)
  BY <1>3 DEF Ordered
<1>6. PICK order : order = TryBuild(faces).order
  OBVIOUS
<1>7. order = [k \in 1..l |-> list[l - k + 1]]
  BY <1>3, <1>5, <1>6 DEF Reverse
<1>8. DOMAIN order = 1..l /\ Len(order) = l /\ \A k \in 1..l : order[k] = list[l - k + 1]
  BY <1>5, <1>7
<1>9. n \in 1..l
  BY <1>6, <1>8
<1>10. gone = {order[m] : m \in n..l}
  BY <1>6, <1>8 DEF EndOf
<1>11. ASSUME NEW e \in edges, e.provider \in gone PROVE e.consumer \in gone
  <2>1. PICK m \in n..l : order[m] = e.provider
    BY <1>10, <1>11
  <2>2. PICK k \in 1..l : k = l - m + 1 /\ list[k] = e.provider
    <3>1. m \in 1..l /\ l - m + 1 \in 1..l
      BY <1>9
    <3>2. list[l - m + 1] = e.provider
      BY <1>8, <2>1, <3>1
    <3> QED BY <3>1, <3>2
  <2>3. PICK j \in 1..k - 1 : list[j] = e.consumer
    BY <1>3, <1>5, <2>2 DEF Ordered
  <2>4. PICK h : h = l - j + 1
    OBVIOUS
  <2>5. h \in n..l /\ h \in 1..l /\ l - h + 1 = j
    BY <1>9, <2>2, <2>3, <2>4
  <2>6. order[h] = e.consumer
    BY <1>8, <2>3, <2>5
  <2> QED BY <1>10, <2>5, <2>6
<1> QED BY <1>1, <1>11

\* Deactivated one by one from the end of the order, every participant that no policy
\* binds may go: what remains is legal at each point (compute_activation_order).
THEOREM OrderDeactivates == ServiceSpec => []ReverseOrderDeactivates
<1>1. ServiceInv => ReverseOrderDeactivates
  <2>1. SUFFICES ASSUME ServiceInv, Settled, NEW n \in DOMAIN snapshot.order, NEW gone,
                        gone = {snapshot.order[m] : m \in n..Len(snapshot.order)},
                        \A k \in Interfaces : inForce.bound[k] \notin gone
                 PROVE  Legal(inForce, [i \in Installations |->
                                          IF i \in gone THEN NoFace ELSE records[i]])
    BY DEF ReverseOrderDeactivates
  <2>2. PICK rest : rest = [i \in Installations |-> IF i \in gone THEN NoFace ELSE records[i]]
    OBVIOUS
  <2>3. \A i \in Installations : rest[i] = IF i \in gone THEN NoFace ELSE records[i]
    BY <2>2
  <2>4. /\ FiniteFaces(records) /\ inForce \in PolicyType /\ Legal(inForce, records)
        /\ snapshot = TryBuild(Narrowed(inForce, records)) /\ snapshot.status = "built"
        /\ FiniteFaces(Narrowed(inForce, records))
        /\ snapshot.edges = AllEdges(Narrowed(inForce, records))
    BY <2>1, SettledIs
  <2>5. \A e \in snapshot.edges : e.provider \in gone => e.consumer \in gone
    <3>1. PICK narrowed : narrowed = Narrowed(inForce, records)
      OBVIOUS
    <3>2. /\ FiniteFaces(narrowed) /\ TryBuild(narrowed).status = "built"
          /\ n \in DOMAIN TryBuild(narrowed).order
      BY <2>1, <2>4, <3>1
    <3>3. \A e \in AllEdges(narrowed) :
            e.provider \in EndOf(TryBuild(narrowed).order, n)
              => e.consumer \in EndOf(TryBuild(narrowed).order, n)
      BY <3>2, EndOfOrder
    <3>4. gone = EndOf(snapshot.order, n)
      BY <2>1 DEF EndOf
    <3>5. gone = EndOf(TryBuild(narrowed).order, n)
      BY <2>4, <3>1, <3>4
    <3> QED BY <2>4, <3>1, <3>3, <3>5
  <2>6. NoFace.provides = {} /\ NoFace.requires = {}
    BY DEF NoFace
  <2>7. \A r : Servers(inForce, rest, r) = Servers(inForce, records, r) \ gone
    <3>1. TAKE r
    <3>2. ASSUME NEW i \in Installations
          PROVE  i \in Servers(inForce, rest, r)
                   <=> i \in Servers(inForce, records, r) /\ i \notin gone
      <4>1. CASE i \in gone
        <5>1. rest[i].provides = {}
          BY <2>3, <2>6, <4>1
        <5> QED BY <4>1, <5>1 DEF Servers
      <4>2. CASE i \notin gone
        <5>1. rest[i] = records[i]
          BY <2>3, <4>2
        <5> QED BY <4>2, <5>1 DEF Servers
      <4> QED BY <4>1, <4>2
    <3> QED BY <3>2 DEF Servers
  <2>8. ASSUME NEW i \in Installations, NEW r \in rest[i].requires
        PROVE  /\ i \notin gone /\ r \in records[i].requires
               /\ Servers(inForce, rest, r) = Servers(inForce, records, r)
               /\ \E p : Servers(inForce, rest, r) = {p}
    <3>1. i \notin gone /\ r \in records[i].requires
      BY <2>3, <2>6
    <3>2. PICK e \in snapshot.edges : e.consumer = i /\ e.requirement = r
      BY <2>1, <3>1, SettledEdges
    <3>3. Servers(inForce, records, r) = {e.provider}
      BY <2>1, <3>2, SettledEdges
    <3>4. e.provider \notin gone
      BY <2>5, <3>1, <3>2
    <3> QED BY <2>7, <3>1, <3>3, <3>4
  <2>9. ASSUME NEW k \in Interfaces, inForce.bound[k] # NoBinding
        PROVE  Exports(rest[inForce.bound[k]], k)
    <3>1. inForce.bound[k] \in Installations /\ inForce.bound[k] \notin gone
      BY <2>1, <2>4, <2>9 DEF PolicyType
    <3>2. Exports(records[inForce.bound[k]], k)
      BY <2>4, <2>9 DEF Legal
    <3> QED BY <2>3, <3>1, <3>2
  <2>10. ASSUME NEW need \in Needs(rest) PROVE Cardinality(Servers(inForce, rest, need[2])) = 1
    <3>1. need[1] \in Installations /\ need[2] \in rest[need[1]].requires
      BY DEF Needs
    <3>2. \E p : Servers(inForce, rest, need[2]) = {p}
      BY <2>8, <3>1
    <3> QED BY <3>2, FS_Singleton
  <2>11. Acyclic(inForce, rest)
    <3>1. ASSUME NEW i \in Installations, NEW j, DependsOn(inForce, rest, i, j)
          PROVE  DependsOn(inForce, records, i, j)
      <4>1. PICK r \in rest[i].requires : Servers(inForce, rest, r) = {j}
        BY <3>1 DEF DependsOn
      <4>2. r \in records[i].requires /\ Servers(inForce, records, r) = {j}
        BY <2>8, <4>1
      <4> QED BY <4>2 DEF DependsOn
    <3>2. Acyclic(inForce, records)
      BY <2>4 DEF Legal
    <3> QED BY <3>1, <3>2 DEF Acyclic
  <2>12. Legal(inForce, rest)
    BY <2>9, <2>10, <2>11 DEF Legal
  <2> QED BY <2>2, <2>12
<1> QED BY <1>1, ServiceInvHolds, PTL

\* Whenever the records with another face of a provider are legal, the edges of today
\* stand under that face: analyze_upgrade refuses nothing that the build would take.
THEOREM AnalysesAgree == ServiceSpec => []AnalysisAgrees
<1>1. ServiceInv => AnalysisAgrees
  <2>1. SUFFICES ASSUME ServiceInv, Settled, NEW i \in snapshot.providers, NEW face \in Faces,
                        Legal(inForce, [records EXCEPT ![i] = face])
                 PROVE  Safe(snapshot, i, face.provides)
    BY DEF AnalysisAgrees
  <2>2. PICK other : other = [records EXCEPT ![i] = face]
    OBVIOUS
  <2>3. /\ FiniteFaces(records) /\ inForce \in PolicyType /\ Legal(inForce, records)
        /\ snapshot = TryBuild(Narrowed(inForce, records)) /\ snapshot.status = "built"
        /\ FiniteFaces(Narrowed(inForce, records))
    BY <2>1, SettledIs
  <2>4. i \in Installations
    <3>1. snapshot.providers = {j \in Installations : IsProvider(Narrowed(inForce, records), j)}
      BY <2>3, BuiltParts
    <3> QED BY <2>1, <3>1
  <2>5. other[i] = face /\ \A j \in Installations \ {i} : other[j] = records[j]
    BY <2>2, <2>3, <2>4 DEF FiniteFaces
  <2>6. SUFFICES ASSUME NEW e \in snapshot.edges, e.provider = i
                 PROVE  \E o \in face.provides : Satisfies(o, e.requirement)
    BY DEF Safe
  <2>7. PICK c, r : c = e.consumer /\ r = e.requirement
    OBVIOUS
  <2>8. c \in Installations /\ r \in records[c].requires /\ Servers(inForce, records, r) = {i}
    BY <2>1, <2>6, <2>7, SettledEdges
  <2>9. c # i
    <3>1. SUFFICES ASSUME c = i PROVE FALSE
      OBVIOUS
    <3>2. DependsOn(inForce, records, i, i)
      BY <2>8, <3>1 DEF DependsOn
    <3>3. {i} \in (SUBSET Installations) \ {{}} /\ Acyclic(inForce, records)
      BY <2>3, <2>4 DEF Legal
    <3>4. PICK x \in {i} : \A j \in {i} : ~DependsOn(inForce, records, x, j)
      BY <3>3, Zenon DEF Acyclic
    <3> QED BY <3>2, <3>4
  <2>10. r \in other[c].requires
    BY <2>5, <2>8, <2>9
  <2>11. r \in Requirements
    BY <2>3, <2>8, FaceParts
  <2>12. <<c, r>> \in Needs(other)
    BY <2>8, <2>10, <2>11 DEF Needs
  <2>13. Cardinality(Servers(inForce, other, r)) = 1
    <3>1. \A need \in Needs(other) : Cardinality(Servers(inForce, other, need[2])) = 1
      BY <2>1, <2>2 DEF Legal
    <3>2. Cardinality(Servers(inForce, other, <<c, r>>[2])) = 1
      BY <2>12, <3>1
    <3> QED BY <3>2
  <2>14. PICK j : Servers(inForce, other, r) = {j}
    <3>1. IsFiniteSet(Servers(inForce, other, r))
      <4>1. Servers(inForce, other, r) \in SUBSET Installations
        BY DEF Servers
      <4> QED BY <4>1, SubsetsAreFinite
    <3> QED BY <2>13, <3>1, FS_Singleton
  <2>15. j = i
    <3>1. SUFFICES ASSUME j # i PROVE FALSE
      OBVIOUS
    <3>2. j \in Installations /\ j \in Servers(inForce, other, r)
      BY <2>14 DEF Servers
    <3>3. other[j] = records[j]
      BY <2>5, <3>1, <3>2
    <3>4. j \in Servers(inForce, records, r)
      BY <3>2, <3>3 DEF Servers
    <3> QED BY <2>8, <3>1, <3>4
  <2>16. i \in Servers(inForce, other, r)
    BY <2>14, <2>15
  <2> QED BY <2>5, <2>7, <2>16 DEF Servers
<1> QED BY <1>1, ServiceInvHolds, PTL

-----------------------------------------------------------------------------
(* Types.                                                                  *)

States == {"None", "Installed", "Validated", "Activating", "Active", "Draining",
           "Disabled", "Failed"}
Served == Digests \cup {NoDigest}
Records == [digest : Served, lkg : Served, state : States]

Early == {"bytes", "identity", "register", "gate", "grants", "schema", "activate", "ready",
          "approve", "graph"}
Late == {"retire", "record", "swap", "drain"}
StopStages == {"disable", "unserve", "uninstall", "deactivate", "delete"}

PipelineOps == [stage : Early \cup Late, kind : {"install", "upgrade", "enable"},
                i : Installations, d : Digests, approval : Approvals,
                old : Served, lkg : Served, empty : BOOLEAN]
StopOps == [stage : StopStages, kind : {"stop"}, i : Installations]

TypeOK ==
  /\ candidate \in [Digests -> States]
  /\ record \in [Installations -> Records]
  /\ grants \in [Installations -> SUBSET Capabilities]
  /\ schema \in [Installations -> Nat]
  /\ active \in [Installations -> Served]
  /\ store \in [Installations -> FaceType]
  /\ op \in PipelineOps \cup StopOps \cup {Idle}
  /\ last \in [Installations -> Served] /\ before \in [Installations -> Served]
  /\ ran \in [Digests -> SUBSET Installations]

-----------------------------------------------------------------------------
(* The invariant: what holds of an installation, and what the operation in  *)
(* progress has established at each of its stages.                          *)

\* The record names what the installation served last, but while a switch is half done.
RecordIsLast ==
  \A i \in Installations : record[i].digest # NoDigest /\ ~Busy(i, {"swap"}) =>
    record[i].digest = last[i]

RecordsAreWhole ==
  \A i \in Installations :
    /\ record[i].lkg # NoDigest => record[i].digest # NoDigest
    /\ record[i].state \in {"Active", "Draining", "Disabled"} => record[i].digest # NoDigest
    /\ record[i].digest # NoDigest => i \in ran[record[i].digest]
    /\ last[i] = NoDigest => before[i] = NoDigest

\* Nobody but its own installation moves the candidate of a version that is served.
ServedIsActive ==
  \A i \in Installations :
    /\ active[i] # NoDigest /\ record[i].state = "Active" /\ ran[active[i]] = {i}
    /\ ~Busy(i, {"record", "swap"})
    => candidate[active[i]] = "Active"

Steady == /\ ServedIsRecorded /\ RollbackTargetIsPrevious
          /\ RecordIsLast /\ RecordsAreWhole /\ ServedIsActive

\* How far the candidate of the operation has come.
CandidateAt(stage) ==
  CASE stage \in {"identity", "register"} -> "Installed"
    [] stage \in {"gate", "grants", "schema", "activate"} -> "Validated"
    [] stage \in {"ready", "approve", "graph", "retire", "record"} -> "Activating"
    [] OTHER -> "Active"

InstallKnows ==
  op.stage \in Early \cup Late /\ op.kind = "install" =>
    /\ active[op.i] = NoDigest /\ last[op.i] = NoDigest
    /\ op.stage # "swap" => record[op.i].digest = NoDigest

UpgradeKnows ==
  op.stage \in Early \cup Late /\ op.kind = "upgrade" =>
    /\ op.old # NoDigest /\ op.old # op.d /\ op.i \in ran[op.old]
    /\ op.stage # "drain" => last[op.i] = op.old
    /\ op.stage \notin {"swap", "drain"} => record[op.i].digest = op.old
    /\ op.stage = "drain" => record[op.i].digest = op.d

EnableKnows ==
  op.stage \in Early \cup Late /\ op.kind = "enable" =>
    /\ active[op.i] = NoDigest /\ last[op.i] = op.d
    /\ op.stage # "swap" => record[op.i].digest = op.d /\ record[op.i].lkg = op.lkg

\* A switch keeps the rollback target true when it ends.
TargetIsRight ==
  op.stage = "swap" /\ op.kind = "enable" =>
    (op.lkg # NoDigest => op.lkg = IF before[op.i] = NoDigest THEN op.d ELSE before[op.i])

OpKnows ==
  /\ InstallKnows /\ UpgradeKnows /\ EnableKnows /\ TargetIsRight
  /\ op.stage \in {"retire", "drain"} => op.kind = "upgrade"
  /\ op.stage \in (Early \cup Late) \ {"bytes"} =>
       op.i \in ran[op.d] /\ candidate[op.d] = CandidateAt(op.stage)
  /\ op.stage = "swap" =>
       record[op.i] = [digest |-> op.d, lkg |-> NewTarget, state |-> "Active"]
  /\ op.stage = "disable" => record[op.i].digest # NoDigest
  /\ op.stage \in {"deactivate", "delete"} => active[op.i] = NoDigest

Inv == TypeOK /\ Steady /\ OpKnows

-----------------------------------------------------------------------------
(* What the checks before a switch have established.                       *)

Checking == {"schema", "activate", "ready", "approve", "graph"} \cup Late

EdgesServe(i, d) ==
  \A r \in FaceOf[d].requires :
    \E e \in graph.edges :
      /\ e.consumer = i /\ e.requirement = r
      /\ \E o \in store[e.provider].provides : Satisfies(o, r)

GrantsChecked ==
  op.stage \in Checking \ {"drain"} =>
    Uses[op.d] \subseteq IF op.stage \in {"graph", "retire", "record", "swap"} THEN grants[op.i]
                         ELSE Granted

GraphChecked ==
  op.stage \in {"retire", "record", "swap"} => store[op.i] = FaceOf[op.d] /\ EdgesServe(op.i, op.d)

SchemaChecked ==
  op.stage \in Checking \ {"schema", "drain"} => SchemaSettled(op.i, op.d)

ApprovalChecked == op.stage = "approve" => op.approval.explicit

Checked == GrantsChecked /\ ApprovalChecked /\ GraphChecked /\ SchemaChecked

-----------------------------------------------------------------------------
(* The operation and the candidates.                                       *)

LEMMA OpKinds ==
  ASSUME TypeOK
  PROVE  /\ op.stage \in Early \cup Late => op \in PipelineOps
         /\ op.stage \in StopStages => op \in StopOps
         /\ op = Idle => op.stage = "idle"
         /\ op.stage \in Early \cup Late \cup StopStages \cup {"idle"}
<1>4. op = Idle => op.stage = "idle"
  BY DEF Idle
<1>1. CASE op \in PipelineOps
  BY <1>1, <1>4 DEF PipelineOps, Early, Late, StopStages
<1>2. CASE op \in StopOps
  BY <1>2, <1>4 DEF StopOps, Early, Late, StopStages
<1>3. CASE op = Idle
  BY <1>3, <1>4 DEF Early, Late, StopStages
<1> QED BY <1>1, <1>2, <1>3, <1>4 DEF TypeOK

SameOp == /\ op'.kind = op.kind /\ op'.i = op.i /\ op'.d = op.d /\ op'.approval = op.approval
          /\ op'.old = op.old /\ op'.lkg = op.lkg

LEMMA StageMoves ==
  ASSUME op \in PipelineOps, NEW s \in Early \cup Late, Stage(s)
  PROVE  /\ op' \in PipelineOps /\ op'.stage = s /\ SameOp /\ op'.empty = op.empty
BY DEF Stage, PipelineOps, SameOp

LEMMA PipelineOpTyped ==
  ASSUME op \in PipelineOps
  PROVE  /\ op.i \in Installations /\ op.d \in Digests /\ op.old \in Served /\ op.lkg \in Served
         /\ op.kind \in {"install", "upgrade", "enable"} /\ op.approval \in Approvals
         /\ op.stage \in Early \cup Late /\ op.empty \in BOOLEAN
BY DEF PipelineOps

LEMMA AfterTyped ==
  ASSUME NEW state \in States, NEW event
  PROVE  After(state, event) \in States
<1>1. CASE Accepts(state, event)
  <2>1. (CHOOSE m \in Moves : m[1] = state /\ m[2] = event) \in Moves
    BY <1>1 DEF Accepts
  <2>2. \A m \in Moves : m[3] \in States
    BY DEF Moves, States
  <2> QED BY <1>1, <2>1, <2>2 DEF After
<1>2. CASE ~ Accepts(state, event)
  BY <1>2 DEF After
<1> QED BY <1>1, <1>2

LEMMA AfterIs ==
  ASSUME NEW state, NEW event, NEW next, <<state, event, next>> \in Moves,
         \A m \in Moves : m[1] = state /\ m[2] = event => m[3] = next
  PROVE  Accepts(state, event) /\ After(state, event) = next
<1>1. <<state, event, next>>[1] = state /\ <<state, event, next>>[2] = event
  OBVIOUS
<1>2. Accepts(state, event)
  BY <1>1 DEF Accepts
<1>3. PICK m : m = CHOOSE n \in Moves : n[1] = state /\ n[2] = event
  OBVIOUS
<1>4. m \in Moves /\ m[1] = state /\ m[2] = event
  BY <1>2, <1>3 DEF Accepts
<1>5. m[3] = next
  BY <1>4
<1> QED BY <1>2, <1>3, <1>5 DEF After

LEMMA TheMoves ==
  /\ After("Installed", "ValidationSucceeded") = "Validated"
  /\ After("Validated", "ActivationRequested") = "Activating"
  /\ After("Activating", "ReadinessSucceeded") = "Active"
  /\ \A s : Accepts(s, "DrainStarted") <=> s = "Active"
<1>1. After("Installed", "ValidationSucceeded") = "Validated"
  <2>1. <<"Installed", "ValidationSucceeded", "Validated">> \in Moves
    BY DEF Moves
  <2>2. \A m \in Moves : m[1] = "Installed" /\ m[2] = "ValidationSucceeded" => m[3] = "Validated"
    BY DEF Moves
  <2> QED BY <2>1, <2>2, AfterIs
<1>2. After("Validated", "ActivationRequested") = "Activating"
  <2>1. <<"Validated", "ActivationRequested", "Activating">> \in Moves
    BY DEF Moves
  <2>2. \A m \in Moves : m[1] = "Validated" /\ m[2] = "ActivationRequested" => m[3] = "Activating"
    BY DEF Moves
  <2> QED BY <2>1, <2>2, AfterIs
<1>3. After("Activating", "ReadinessSucceeded") = "Active"
  <2>1. <<"Activating", "ReadinessSucceeded", "Active">> \in Moves
    BY DEF Moves
  <2>2. \A m \in Moves : m[1] = "Activating" /\ m[2] = "ReadinessSucceeded" => m[3] = "Active"
    BY DEF Moves
  <2> QED BY <2>1, <2>2, AfterIs
<1>4. \A s : Accepts(s, "DrainStarted") <=> s = "Active"
  <2>1. \A m \in Moves : m[2] = "DrainStarted" => m[1] = "Active"
    BY DEF Moves
  <2>2. <<"Active", "DrainStarted", "Draining">> \in Moves
    BY DEF Moves
  <2> QED BY <2>1, <2>2 DEF Accepts
<1> QED BY <1>1, <1>2, <1>3, <1>4

\* Only the candidate of d may move.
OnlyMoves(d) == /\ candidate' \in [Digests -> States]
                /\ \A e \in Digests : e # d => candidate'[e] = candidate[e]

LEMMA CandidateMoves ==
  ASSUME TypeOK, NEW d \in Digests, NEW event, Moved(d, event)
  PROVE  OnlyMoves(d) /\ candidate'[d] = After(candidate[d], event)
<1>1. candidate \in [Digests -> States]
  BY DEF TypeOK
<1>2. After(candidate[d], event) \in States
  BY <1>1, AfterTyped
<1>3. candidate' = [candidate EXCEPT ![d] = After(candidate[d], event)]
  BY DEF Moved
<1> QED BY <1>1, <1>2, <1>3 DEF OnlyMoves

LEMMA CandidateStays ==
  ASSUME TypeOK, UNCHANGED candidate, NEW d
  PROVE  OnlyMoves(d)
BY DEF TypeOK, OnlyMoves

\* fail_candidate and the errors before it end the operation.
LEMMA FailureEnds ==
  ASSUME TypeOK, op \in PipelineOps, NEW event, Fails(event) \/ (Ends /\ UNCHANGED candidate)
  PROVE  op' = Idle /\ OnlyMoves(op.d)
<1>1. op.d \in Digests
  BY PipelineOpTyped
<1> QED BY <1>1, CandidateMoves, CandidateStays DEF Fails, Ends

-----------------------------------------------------------------------------
(* Steps that change what is served and recorded of no installation.       *)

kept == <<record, active, last, before>>

\* What an operation works on is not yet what its installation serves.
LEMMA CandidateIsNotServed ==
  ASSUME Inv, op.stage \in (Early \cup Late) \ {"swap", "drain"}
  PROVE  active[op.i] # op.d
<1>1. op \in PipelineOps
  BY OpKinds DEF Inv
<1>2. op.i \in Installations /\ op.d \in Digests /\ op.kind \in {"install", "upgrade", "enable"}
  BY <1>1, PipelineOpTyped
<1>3. CASE op.kind \in {"install", "enable"}
  BY <1>2, <1>3, DigestsAssumption DEF Inv, OpKnows, InstallKnows, EnableKnows
<1>4. CASE op.kind = "upgrade"
  <2>1. op.old # op.d /\ record[op.i].digest = op.old
    BY <1>4 DEF Inv, OpKnows, UpgradeKnows
  <2>2. active[op.i] # NoDigest => record[op.i].digest = active[op.i]
    BY <1>2 DEF Inv, Steady, ServedIsRecorded, Busy, Early, Late
  <2> QED BY <1>2, <2>1, <2>2, DigestsAssumption
<1> QED BY <1>2, <1>3, <1>4

LEMMA SteadyKept ==
  ASSUME Inv, UNCHANGED kept, op.stage \notin {"swap", "unserve"},
         ran' \in [Digests -> SUBSET Installations],
         \A d \in Digests : ran[d] \subseteq ran'[d],
         \A i \in Installations :
           /\ active[i] # NoDigest /\ record[i].state = "Active" /\ ran'[active[i]] = {i}
           /\ ~Busy(i, {"record", "swap"})'
           => ~Busy(i, {"record", "swap"}) /\ candidate'[active[i]] = candidate[active[i]]
  PROVE  Steady'
<1>1. /\ record \in [Installations -> Records] /\ active \in [Installations -> Served]
      /\ UNCHANGED <<record, active, last, before>>
      /\ ran \in [Digests -> SUBSET Installations]
  BY DEF Inv, TypeOK, kept
<1>2. \A i \in Installations : ~Busy(i, {"swap"}) /\ ~Busy(i, {"swap", "unserve"})
  BY DEF Busy
<1>3. ServedIsRecorded'
  BY <1>1, <1>2 DEF Inv, Steady, ServedIsRecorded
<1>4. RollbackTargetIsPrevious'
  BY <1>1, <1>2 DEF Inv, Steady, RollbackTargetIsPrevious
<1>5. RecordIsLast'
  BY <1>1, <1>2 DEF Inv, Steady, RecordIsLast
<1>6. RecordsAreWhole'
  BY <1>1 DEF Inv, Steady, RecordsAreWhole, Records, Served
<1>7. ServedIsActive'
  <2>1. ASSUME NEW i \in Installations, active[i] # NoDigest, record[i].state = "Active",
               ran'[active[i]] = {i}, ~Busy(i, {"record", "swap"})'
        PROVE  candidate'[active[i]] = "Active"
    <3>1. active[i] \in Digests /\ record[i].digest = active[i]
      BY <1>1, <1>2, <2>1 DEF Inv, Steady, ServedIsRecorded, Served
    <3>2. i \in ran[active[i]]
      BY <1>1, <3>1, DigestsAssumption DEF Inv, Steady, RecordsAreWhole
    <3>3. ran[active[i]] = {i}
      BY <2>1, <3>1, <3>2
    <3>4. ~Busy(i, {"record", "swap"}) /\ candidate'[active[i]] = candidate[active[i]]
      BY <2>1
    <3> QED BY <2>1, <3>3, <3>4 DEF Inv, Steady, ServedIsActive
  <2> QED BY <1>1, <2>1 DEF ServedIsActive
<1> QED BY <1>3, <1>4, <1>5, <1>6, <1>7 DEF Steady

\* A step of the pipeline that moves at most the operation's own candidate.
LEMMA PipelineKeepsSteady ==
  ASSUME Inv, op.stage \in (Early \cup Late) \ {"swap", "drain"}, UNCHANGED kept,
         op.stage = "record" => op.kind # "upgrade" \/ op'.stage \in {"record", "swap"},
         op'.stage \in {"record", "swap"} => op'.i = op.i,
         ran' \in [Digests -> SUBSET Installations],
         \A d \in Digests : ran[d] \subseteq ran'[d],
         candidate' = candidate \/ (OnlyMoves(op.d) /\ op.i \in ran'[op.d])
  PROVE  Steady'
<1>1. op.i \in Installations /\ op.d \in Digests /\ op.kind \in {"install", "upgrade", "enable"}
  BY OpKinds, PipelineOpTyped DEF Inv
<1>2. active[op.i] # op.d
  BY CandidateIsNotServed
<1>3. ASSUME NEW i \in Installations, active[i] # NoDigest, record[i].state = "Active",
             ran'[active[i]] = {i}, ~Busy(i, {"record", "swap"})'
      PROVE  ~Busy(i, {"record", "swap"}) /\ candidate'[active[i]] = candidate[active[i]]
  <2>1. active[i] \in Digests
    BY <1>3 DEF Inv, TypeOK, Served
  <2>2. candidate'[active[i]] = candidate[active[i]]
    <3>1. CASE candidate' = candidate
      BY <3>1
    <3>2. CASE OnlyMoves(op.d) /\ op.i \in ran'[op.d]
      <4>1. active[i] # op.d
        BY <1>2, <1>3, <3>2
      <4> QED BY <2>1, <3>2, <4>1 DEF OnlyMoves
    <3> QED BY <3>1, <3>2
  <2>3. ~Busy(i, {"record", "swap"})
    <3>1. SUFFICES ASSUME op.i = i, op.stage = "record" PROVE FALSE
      BY DEF Busy, Early, Late
    <3>2. op.kind = "upgrade"
      BY <1>1, <1>3, <3>1 DEF Inv, OpKnows, InstallKnows, EnableKnows, Early, Late
    <3> QED BY <1>3, <3>1, <3>2 DEF Busy
  <2> QED BY <2>2, <2>3
<1>4. op.stage \notin {"swap", "unserve"}
  BY DEF Early, Late
<1> QED BY <1>3, <1>4, SteadyKept

-----------------------------------------------------------------------------
(* The pipeline before the switch.                                         *)

Pre == (Early \cup Late) \ {"swap", "drain"}

\* What no step of the pipeline before the switch leaves untyped.
RestTyped == /\ grants' \in [Installations -> SUBSET Capabilities]
             /\ schema' \in [Installations -> Nat]
             /\ store' \in [Installations -> FaceType]
             /\ ran' \in [Digests -> SUBSET Installations]
             /\ \A d \in Digests : ran[d] \subseteq ran'[d]

LEMMA RestStays ==
  ASSUME TypeOK, UNCHANGED <<grants, schema, store, ran>>
  PROVE  RestTyped
BY DEF TypeOK, RestTyped

LEMMA EndKeepsInv ==
  ASSUME Inv, op.stage \in Pre, op' = Idle, UNCHANGED kept, RestTyped,
         op.stage = "record" => op.kind # "upgrade",
         candidate' = candidate \/ (OnlyMoves(op.d) /\ op.stage # "bytes")
  PROVE  Inv'
<1>1. op'.stage = "idle"
  BY DEF Idle
<1>2. candidate' \in [Digests -> States]
  BY DEF OnlyMoves, Inv, TypeOK
<1>3. TypeOK'
  BY <1>2 DEF Inv, TypeOK, RestTyped, kept
<1>4. candidate' = candidate \/ (OnlyMoves(op.d) /\ op.i \in ran'[op.d])
  <2>1. op.stage # "bytes" => op.i \in ran[op.d]
    BY DEF Inv, OpKnows, Pre
  <2>2. op.d \in Digests
    BY OpKinds, PipelineOpTyped DEF Inv, Pre
  <2> QED BY <2>1, <2>2 DEF RestTyped
<1>5. Steady'
  BY <1>1, <1>4, PipelineKeepsSteady DEF Pre, RestTyped
<1>6. OpKnows'
  BY <1>1 DEF OpKnows, InstallKnows, UpgradeKnows, EnableKnows, TargetIsRight, Early, Late
<1> QED BY <1>3, <1>5, <1>6 DEF Inv

LEMMA AdvanceKeepsInv ==
  ASSUME Inv, op.stage \in Pre \ {"record"}, NEW s \in Pre \ {"bytes"},
         op' \in PipelineOps, op'.stage = s, SameOp, UNCHANGED kept, RestTyped,
         s = "retire" => op.kind = "upgrade",
         OnlyMoves(op.d), op.i \in ran'[op.d], candidate'[op.d] = CandidateAt(s)
  PROVE  Inv'
<1>1. /\ op.i \in Installations /\ op.d \in Digests /\ op.old \in Served
      /\ op.kind \in {"install", "upgrade", "enable"}
  BY OpKinds, PipelineOpTyped DEF Inv, Pre
<1>2. TypeOK'
  BY DEF Inv, TypeOK, RestTyped, kept, OnlyMoves
<1>3. Steady'
  BY PipelineKeepsSteady DEF Pre, RestTyped, SameOp
<1>4. /\ s \in Early \cup Late /\ s \notin {"swap", "drain", "disable", "deactivate", "delete"}
      /\ op.stage \in Early \cup Late /\ op.stage \notin {"swap", "drain"}
  BY DEF Pre, Early, Late
<1>5. InstallKnows' /\ EnableKnows'
  BY <1>4 DEF Inv, OpKnows, InstallKnows, EnableKnows, SameOp, kept
<1>6. UpgradeKnows'
  BY <1>1, <1>4, DigestsAssumption
     DEF Inv, OpKnows, UpgradeKnows, SameOp, kept, RestTyped, Served
<1>7. (op.stage \in (Early \cup Late) \ {"bytes"} =>
        op.i \in ran[op.d] /\ candidate[op.d] = CandidateAt(op.stage))'
  BY DEF SameOp
<1>8. TargetIsRight'
  BY <1>4 DEF TargetIsRight
<1>9. op'.stage \in {"retire", "drain"} => op'.kind = "upgrade"
  BY <1>4 DEF SameOp
<1>10. op'.stage # "swap" /\ op'.stage \notin {"disable", "deactivate", "delete"}
  BY <1>4
<1>11. OpKnows'
  BY <1>5, <1>6, <1>7, <1>8, <1>9, <1>10 DEF OpKnows
<1> QED BY <1>2, <1>3, <1>11 DEF Inv

\* The stages in order, with the steps that only judge and audit.
LEMMA JudgingKeepsInv ==
  ASSUME Inv, Identifies \/ PassesGate \/ ResolvesImports
  PROVE  Inv'
<1>1. /\ op.stage \in {"identity", "gate", "grants"}
      /\ UNCHANGED kept /\ UNCHANGED <<grants, schema, store, ran>>
  BY DEF Identifies, PassesGate, ResolvesImports, kept
<1>2. op.stage \in Pre /\ op \in PipelineOps
  BY <1>1, OpKinds DEF Inv, Pre, Early, Late
<1>3. RestTyped
  BY <1>1, RestStays DEF Inv
<1>4. op.i \in ran'[op.d] /\ candidate[op.d] = CandidateAt(op.stage)
  BY <1>1, <1>2 DEF Inv, OpKnows, Pre
<1>5. ASSUME NEW event, Fails(event) \/ (Ends /\ UNCHANGED candidate)
      PROVE  Inv'
  <2>1. op' = Idle /\ OnlyMoves(op.d)
    BY <1>2, <1>5, FailureEnds DEF Inv
  <2> QED BY <1>1, <1>2, <1>3, <2>1, EndKeepsInv
<1>6. ASSUME NEW s \in {"register", "grants", "schema"}, Stage(s), UNCHANGED candidate,
             CandidateAt(s) = CandidateAt(op.stage)
      PROVE  Inv'
  <2>1. s \in Pre \ {"bytes"}
    BY DEF Pre, Early, Late
  <2>2. op' \in PipelineOps /\ op'.stage = s /\ SameOp
    BY <1>2, <1>6, <2>1, StageMoves DEF Pre
  <2>3. OnlyMoves(op.d) /\ candidate'[op.d] = CandidateAt(s) /\ op.stage # "record"
    BY <1>1, <1>4, <1>6, CandidateStays DEF Inv
  <2> QED BY <1>1, <1>2, <1>3, <1>4, <2>1, <2>2, <2>3, AdvanceKeepsInv
<1>7. CASE Identifies
  <2>1. \/ Fails("ValidationFailed")
        \/ op.stage = "identity" /\ Stage("register") /\ UNCHANGED candidate
    BY <1>7 DEF Identifies
  <2>2. CandidateAt("register") = CandidateAt("identity")
    BY DEF CandidateAt
  <2> QED BY <1>5, <1>6, <2>1, <2>2
<1>8. CASE PassesGate
  <2>1. \/ Fails("ResolutionFailed")
        \/ op.stage = "gate" /\ Stage("grants") /\ UNCHANGED candidate
    BY <1>8 DEF PassesGate
  <2>2. CandidateAt("grants") = CandidateAt("gate")
    BY DEF CandidateAt
  <2> QED BY <1>5, <1>6, <2>1, <2>2
<1>9. CASE ResolvesImports
  <2>1. \/ Fails("ResolutionFailed") \/ (Ends /\ UNCHANGED candidate)
        \/ op.stage = "grants" /\ Stage("schema") /\ UNCHANGED candidate
    BY <1>9 DEF ResolvesImports
  <2>2. CandidateAt("schema") = CandidateAt("grants")
    BY DEF CandidateAt
  <2> QED BY <1>5, <1>6, <2>1, <2>2
<1> QED BY <1>7, <1>8, <1>9

LEMMA PersistKeepsInv ==
  ASSUME Inv, PersistsCandidate
  PROVE  Inv'
<1>1. /\ op.stage = "bytes" /\ UNCHANGED kept /\ UNCHANGED <<grants, schema, store>>
  BY DEF PersistsCandidate, kept
<1>2. op.stage \in Pre /\ op \in PipelineOps /\ op.d \in Digests /\ op.i \in Installations
  BY <1>1, OpKinds, PipelineOpTyped DEF Inv, Pre, Early, Late
<1>3. ran \in [Digests -> SUBSET Installations] /\ candidate \in [Digests -> States]
  BY DEF Inv, TypeOK
<1>4. CASE Ends /\ UNCHANGED <<candidate, ran>>
  <2>1. RestTyped /\ op' = Idle
    BY <1>1, <1>4, RestStays DEF Inv, Ends
  <2> QED BY <1>1, <1>2, <1>4, <2>1, EndKeepsInv
<1>5. CASE /\ candidate' = [candidate EXCEPT ![op.d] = "Installed"]
           /\ ran' = [ran EXCEPT ![op.d] = @ \cup {op.i}]
           /\ Stage("identity")
  <2>1. /\ OnlyMoves(op.d) /\ candidate'[op.d] = "Installed"
        /\ op.i \in ran'[op.d]
    BY <1>2, <1>3, <1>5 DEF OnlyMoves, States
  <2>2. RestTyped
    BY <1>1, <1>2, <1>3, <1>5 DEF RestTyped, Inv, TypeOK
  <2>3. "identity" \in Pre \ {"bytes"} /\ "Installed" = CandidateAt("identity")
    BY DEF Pre, Early, Late, CandidateAt
  <2>4. op' \in PipelineOps /\ op'.stage = "identity" /\ SameOp
    BY <1>2, <1>5, <2>3, StageMoves DEF Pre
  <2> QED BY <1>1, <1>2, <2>1, <2>2, <2>3, <2>4, AdvanceKeepsInv
<1> QED BY <1>4, <1>5 DEF PersistsCandidate


LEMMA RegisterKeepsInv ==
  ASSUME Inv, Registers
  PROVE  Inv'
<1>1. /\ op.stage = "register" /\ UNCHANGED <<active, last, before>>
      /\ UNCHANGED <<grants, schema, store, ran>>
  BY DEF Registers
<1>2. /\ op.stage \in Pre \ {"bytes", "record"} /\ op \in PipelineOps
      /\ op.d \in Digests /\ op.i \in Installations
  BY <1>1, OpKinds, PipelineOpTyped DEF Inv, Pre, Early, Late
<1>3. RestTyped
  BY <1>1, RestStays DEF Inv
<1>4. op.i \in ran[op.d] /\ candidate[op.d] = "Installed"
  BY <1>1, <1>2 DEF Inv, OpKnows, Pre, CandidateAt
<1>5. CASE Ends /\ UNCHANGED <<candidate, bound, record>>
  BY <1>1, <1>2, <1>3, <1>5, EndKeepsInv DEF Ends, kept
<1>6. CASE /\ record' = IF op.kind = "install"
                        THEN [record EXCEPT ![op.i] = [NoRecord EXCEPT !.state = "Validated"]]
                        ELSE record
           /\ Moved(op.d, "ValidationSucceeded") /\ Stage("gate")
  <2>1. "gate" \in Pre \ {"bytes"} /\ CandidateAt("gate") = "Validated"
    BY DEF Pre, Early, Late, CandidateAt
  <2>2. op' \in PipelineOps /\ op'.stage = "gate" /\ SameOp
    BY <1>2, <1>6, <2>1, StageMoves DEF Pre
  <2>3. OnlyMoves(op.d) /\ candidate'[op.d] = CandidateAt("gate")
    BY <1>2, <1>4, <1>6, <2>1, CandidateMoves, TheMoves DEF Inv
  <2>4. CASE op.kind # "install"
    BY <1>1, <1>2, <1>3, <1>4, <1>6, <2>1, <2>2, <2>3, <2>4, AdvanceKeepsInv DEF kept
  <2>5. CASE op.kind = "install"
    <3>1. /\ record \in [Installations -> Records] /\ active \in [Installations -> Served]
          /\ last \in [Installations -> Served] /\ ran \in [Digests -> SUBSET Installations]
      BY DEF Inv, TypeOK
    <3>2. active[op.i] = NoDigest /\ last[op.i] = NoDigest
      BY <1>2, <2>5 DEF Inv, OpKnows, InstallKnows, Pre
    <3>3. [NoRecord EXCEPT !.state = "Validated"]
            = [digest |-> NoDigest, lkg |-> NoDigest, state |-> "Validated"]
      BY DEF NoRecord
    <3>4. PICK r : r = [digest |-> NoDigest, lkg |-> NoDigest, state |-> "Validated"]
      OBVIOUS
    <3>5. /\ r \in Records /\ r.digest = NoDigest /\ r.lkg = NoDigest /\ r.state = "Validated"
      BY <3>4 DEF Records, Served, States
    <3>6. /\ record' \in [Installations -> Records] /\ record'[op.i] = r
          /\ \A j \in Installations : j # op.i => record'[j] = record[j]
      <4>1. record' = [record EXCEPT ![op.i] = r]
        BY <1>6, <2>5, <3>3, <3>4
      <4> QED BY <1>2, <3>1, <3>5, <4>1
    <3>7. TypeOK'
      BY <1>1, <2>2, <2>3, <3>6 DEF Inv, TypeOK, OnlyMoves
    <3>8. \A j \in Installations : ~Busy(j, {"record", "swap"}) /\ ~Busy(j, {"swap"})
                                   /\ ~Busy(j, {"swap", "unserve"})
      BY <1>1 DEF Busy
    <3>9. ServedIsRecorded'
      <4>1. ASSUME NEW j \in Installations, active[j] # NoDigest
            PROVE  record'[j].digest = active[j] /\ record'[j].state \in {"Active", "Draining"}
        BY <3>2, <3>6, <3>8, <4>1 DEF Inv, Steady, ServedIsRecorded
      <4> QED BY <1>1, <4>1 DEF ServedIsRecorded
    <3>10. RollbackTargetIsPrevious'
      <4>1. ASSUME NEW j \in Installations, record'[j].lkg # NoDigest
            PROVE  record'[j].lkg = IF before[j] = NoDigest THEN last[j] ELSE before[j]
        BY <3>5, <3>6, <3>8, <4>1 DEF Inv, Steady, RollbackTargetIsPrevious
      <4> QED BY <1>1, <4>1 DEF RollbackTargetIsPrevious
    <3>11. RecordIsLast'
      <4>1. ASSUME NEW j \in Installations, record'[j].digest # NoDigest
            PROVE  record'[j].digest = last[j]
        BY <3>5, <3>6, <3>8, <4>1 DEF Inv, Steady, RecordIsLast
      <4> QED BY <1>1, <4>1 DEF RecordIsLast
    <3>12. RecordsAreWhole'
      <4>1. ASSUME NEW j \in Installations
            PROVE  /\ record'[j].lkg # NoDigest => record'[j].digest # NoDigest
                   /\ record'[j].state \in {"Active", "Draining", "Disabled"}
                        => record'[j].digest # NoDigest
                   /\ record'[j].digest # NoDigest => j \in ran[record'[j].digest]
                   /\ last[j] = NoDigest => before[j] = NoDigest
        BY <3>5, <3>6, <4>1 DEF Inv, Steady, RecordsAreWhole
      <4> QED BY <1>1, <4>1 DEF RecordsAreWhole
    <3>13. ServedIsActive'
      <4>1. ASSUME NEW j \in Installations, active[j] # NoDigest, record'[j].state = "Active",
                   ran[active[j]] = {j}
            PROVE  candidate'[active[j]] = "Active"
        <5>1. j # op.i /\ record[j].state = "Active"
          BY <3>2, <3>6, <4>1
        <5>2. active[j] # op.d /\ active[j] \in Digests
          BY <1>4, <3>1, <4>1, <5>1 DEF Served
        <5>3. candidate[active[j]] = "Active"
          BY <3>8, <4>1, <5>1 DEF Inv, Steady, ServedIsActive
        <5> QED BY <2>3, <5>2, <5>3 DEF OnlyMoves
      <4> QED BY <1>1, <4>1 DEF ServedIsActive
    <3>14. OpKnows'
      <4>1. InstallKnows'
        BY <1>1, <2>2, <3>2, <3>5, <3>6 DEF InstallKnows, SameOp
      <4>2. UpgradeKnows' /\ EnableKnows' /\ TargetIsRight'
        BY <2>2, <2>5 DEF UpgradeKnows, EnableKnows, TargetIsRight, SameOp
      <4>3. (op.stage \in (Early \cup Late) \ {"bytes"} =>
               op.i \in ran[op.d] /\ candidate[op.d] = CandidateAt(op.stage))'
        BY <1>1, <1>4, <2>2, <2>3 DEF SameOp
      <4>4. op'.stage \notin {"retire", "drain", "swap", "disable", "deactivate", "delete"}
        BY <2>2
      <4> QED BY <4>1, <4>2, <4>3, <4>4 DEF OpKnows
    <3> QED BY <3>7, <3>9, <3>10, <3>11, <3>12, <3>13, <3>14 DEF Inv, Steady
  <2> QED BY <2>4, <2>5
<1> QED BY <1>5, <1>6 DEF Registers

LEMMA ActivatingKeepsInv ==
  ASSUME Inv, RequestsActivation \/ BecomesReady
  PROVE  Inv'
<1>1. /\ op.stage \in {"activate", "ready"}
      /\ UNCHANGED kept /\ UNCHANGED <<grants, schema, store, ran>>
  BY DEF RequestsActivation, BecomesReady, kept
<1>2. op.stage \in Pre \ {"bytes", "record"} /\ op \in PipelineOps /\ op.d \in Digests
  BY <1>1, OpKinds, PipelineOpTyped DEF Inv, Pre, Early, Late
<1>3. RestTyped
  BY <1>1, RestStays DEF Inv
<1>4. op.i \in ran'[op.d] /\ candidate[op.d] = CandidateAt(op.stage)
  BY <1>1, <1>2 DEF Inv, OpKnows, Pre
<1>5. ASSUME NEW event, Fails(event) \/ (Ends /\ UNCHANGED candidate)
      PROVE  Inv'
  <2>1. op' = Idle /\ OnlyMoves(op.d)
    BY <1>2, <1>5, FailureEnds DEF Inv
  <2> QED BY <1>1, <1>2, <1>3, <2>1, EndKeepsInv
<1>6. ASSUME NEW s \in {"ready", "approve", "graph"}, Stage(s), OnlyMoves(op.d),
             candidate'[op.d] = CandidateAt(s)
      PROVE  Inv'
  <2>1. s \in Pre \ {"bytes"}
    BY DEF Pre, Early, Late
  <2>2. op' \in PipelineOps /\ op'.stage = s /\ SameOp
    BY <1>2, <1>6, <2>1, StageMoves DEF Pre
  <2> QED BY <1>1, <1>2, <1>3, <1>4, <1>6, <2>1, <2>2, AdvanceKeepsInv
<1>7. CASE RequestsActivation
  <2>1. \/ Ends /\ UNCHANGED candidate
        \/ op.stage = "activate" /\ Moved(op.d, "ActivationRequested") /\ Stage("ready")
    BY <1>7 DEF RequestsActivation
  <2>2. CandidateAt("activate") = "Validated" /\ CandidateAt("ready") = "Activating"
    BY DEF CandidateAt
  <2>3. CASE op.stage = "activate" /\ Moved(op.d, "ActivationRequested") /\ Stage("ready")
    <3>1. OnlyMoves(op.d) /\ candidate'[op.d] = CandidateAt("ready")
      BY <1>2, <1>4, <2>2, <2>3, CandidateMoves, TheMoves DEF Inv
    <3> QED BY <1>6, <2>3, <3>1
  <2> QED BY <1>5, <2>1, <2>3
<1>8. CASE BecomesReady
  <2>1. \/ Fails("ReadinessFailed")
        \/ \E s \in {"approve", "graph"} : op.stage = "ready" /\ Stage(s) /\ UNCHANGED candidate
    BY <1>8 DEF BecomesReady
  <2>2. \A s \in {"approve", "graph"} : CandidateAt(s) = CandidateAt("ready")
    BY DEF CandidateAt
  <2>3. ASSUME NEW s \in {"approve", "graph"}, op.stage = "ready", Stage(s), UNCHANGED candidate
        PROVE  Inv'
    <3>1. OnlyMoves(op.d) /\ candidate'[op.d] = CandidateAt(s)
      BY <1>4, <2>2, <2>3, CandidateStays DEF Inv
    <3> QED BY <1>6, <2>3, <3>1
  <2> QED BY <1>5, <2>1, <2>3
<1> QED BY <1>7, <1>8

LEMMA SchemaPhaseKeepsInv ==
  ASSUME Inv, RunsSchemaPhase
  PROVE  Inv'
<1>1. op.stage = "schema" /\ UNCHANGED kept /\ UNCHANGED <<grants, store, ran>>
  BY DEF RunsSchemaPhase, kept
<1>2. /\ op.stage \in Pre \ {"bytes", "record"} /\ op \in PipelineOps
      /\ op.d \in Digests /\ op.i \in Installations
  BY <1>1, OpKinds, PipelineOpTyped DEF Inv, Pre, Early, Late
<1>3. op.i \in ran'[op.d] /\ candidate[op.d] = "Validated"
  BY <1>1, <1>2 DEF Inv, OpKnows, Pre, CandidateAt
<1>4. CASE Fails("ResolutionFailed") /\ UNCHANGED schema
  <2>1. op' = Idle /\ OnlyMoves(op.d)
    BY <1>2, <1>4, FailureEnds DEF Inv
  <2>2. RestTyped
    BY <1>1, <1>4, RestStays DEF Inv
  <2> QED BY <1>1, <1>2, <2>1, <2>2, EndKeepsInv
<1>5. CASE /\ schema' = [schema EXCEPT ![op.i] = IF Differs(op.i, op.d) THEN SchemaOf[op.d] ELSE @]
           /\ op' = [op EXCEPT !.stage = "activate", !.empty = schema[op.i] = 0]
           /\ UNCHANGED candidate
  <2>1. "activate" \in Pre \ {"bytes"} /\ CandidateAt("activate") = "Validated"
    BY DEF Pre, Early, Late, CandidateAt
  <2>2. op' \in PipelineOps /\ op'.stage = "activate" /\ SameOp
    BY <1>2, <1>5, <2>1 DEF Pre, PipelineOps, SameOp
  <2>3. RestTyped
    <3>1. schema \in [Installations -> Nat] /\ SchemaOf[op.d] \in Nat
      BY <1>2, DigestsAssumption DEF Inv, TypeOK
    <3>2. schema' \in [Installations -> Nat]
      BY <1>2, <1>5, <3>1
    <3> QED BY <1>1, <3>2 DEF RestTyped, Inv, TypeOK
  <2>4. OnlyMoves(op.d) /\ candidate'[op.d] = CandidateAt("activate")
    BY <1>3, <1>5, <2>1, CandidateStays DEF Inv
  <2> QED BY <1>1, <1>2, <1>3, <2>1, <2>2, <2>3, <2>4, AdvanceKeepsInv
<1> QED BY <1>4, <1>5 DEF RunsSchemaPhase

LEMMA WritingKeepsInv ==
  ASSUME Inv, SavesGrants \/ CommitsGraph
  PROVE  Inv'
<1>1. op.stage \in {"approve", "graph"} /\ UNCHANGED kept /\ UNCHANGED <<schema, ran>>
  BY DEF SavesGrants, CommitsGraph, kept
<1>2. /\ op.stage \in Pre \ {"bytes", "record"} /\ op \in PipelineOps /\ op.d \in Digests
      /\ op.i \in Installations /\ op.approval \in Approvals
  BY <1>1, OpKinds, PipelineOpTyped DEF Inv, Pre, Early, Late
<1>3. op.i \in ran'[op.d] /\ candidate[op.d] = "Activating"
  BY <1>1, <1>2 DEF Inv, OpKnows, Pre, CandidateAt
<1>4. /\ grants \in [Installations -> SUBSET Capabilities] /\ schema \in [Installations -> Nat]
      /\ store \in [Installations -> FaceType] /\ ran \in [Digests -> SUBSET Installations]
  BY DEF Inv, TypeOK
<1>5. ASSUME NEW s \in {"graph", "retire", "record"}, Stage(s), UNCHANGED candidate, RestTyped,
             s = "retire" => op.kind = "upgrade"
      PROVE  Inv'
  <2>1. s \in Pre \ {"bytes"} /\ CandidateAt(s) = "Activating"
    BY DEF Pre, Early, Late, CandidateAt
  <2>2. op' \in PipelineOps /\ op'.stage = s /\ SameOp
    BY <1>2, <1>5, <2>1, StageMoves DEF Pre
  <2>3. OnlyMoves(op.d) /\ candidate'[op.d] = CandidateAt(s)
    BY <1>3, <1>5, <2>1, CandidateStays DEF Inv
  <2> QED BY <1>1, <1>2, <1>3, <1>5, <2>1, <2>2, <2>3, AdvanceKeepsInv
<1>6. CASE SavesGrants
  <2>1. UNCHANGED candidate /\ UNCHANGED store
    BY <1>6 DEF SavesGrants
  <2>2. CASE Ends /\ UNCHANGED grants
    <3>1. RestTyped /\ op' = Idle
      BY <1>1, <2>1, <2>2, RestStays DEF Inv, Ends
    <3> QED BY <1>1, <1>2, <2>1, <3>1, EndKeepsInv
  <2>3. CASE grants' = [grants EXCEPT ![op.i] = op.approval.grants] /\ Stage("graph")
    <3>1. op.approval.grants \subseteq Capabilities
      <4>1. Reuse.grants \subseteq Capabilities
        BY DEF Reuse
      <4>2. \A a \in [explicit : {TRUE}, grants : SUBSET Capabilities] : a.grants \subseteq Capabilities
        OBVIOUS
      <4>3. op.approval \in {Reuse} \cup [explicit : {TRUE}, grants : SUBSET Capabilities]
        BY <1>2 DEF Approvals
      <4> QED BY <4>1, <4>2, <4>3
    <3>2. RestTyped
      BY <1>1, <1>2, <1>4, <2>1, <2>3, <3>1 DEF RestTyped
    <3> QED BY <1>5, <2>1, <2>3, <3>2
  <2> QED BY <1>6, <2>2, <2>3 DEF SavesGrants
<1>7. CASE CommitsGraph
  <2>1. UNCHANGED grants
    BY <1>7 DEF CommitsGraph
  <2>2. CASE Fails("ResolutionFailed") /\ UNCHANGED <<store, graph>>
    <3>1. op' = Idle /\ OnlyMoves(op.d)
      BY <1>2, <2>2, FailureEnds DEF Inv
    <3>2. RestTyped
      BY <1>1, <2>1, <2>2, RestStays DEF Inv
    <3> QED BY <1>1, <1>2, <3>1, <3>2, EndKeepsInv
  <2>3. CASE /\ store' = [store EXCEPT ![op.i] = FaceOf[op.d]]
             /\ Stage(IF op.kind = "upgrade" THEN "retire" ELSE "record")
             /\ UNCHANGED candidate
    <3>1. FaceOf[op.d] \in FaceType
      BY <1>2, DigestsAssumption DEF FaceType
    <3>2. RestTyped
      BY <1>1, <1>2, <1>4, <2>1, <2>3, <3>1 DEF RestTyped
    <3> QED BY <1>5, <2>3, <3>2
  <2> QED BY <1>7, <2>2, <2>3 DEF CommitsGraph
<1> QED BY <1>6, <1>7


-----------------------------------------------------------------------------
(* The switch.                                                             *)

LEMMA RetireKeepsInv ==
  ASSUME Inv, RetiresOld
  PROVE  Inv'
<1>1. /\ op.stage = "retire" /\ UNCHANGED kept /\ UNCHANGED <<grants, schema, store, ran>>
  BY DEF RetiresOld, kept
<1>2. /\ op.stage \in Pre \ {"bytes", "record"} /\ op \in PipelineOps
      /\ op.d \in Digests /\ op.i \in Installations /\ op.old \in Served
  BY <1>1, OpKinds, PipelineOpTyped DEF Inv, Pre, Early, Late
<1>3. RestTyped
  BY <1>1, RestStays DEF Inv
<1>4. /\ op.kind = "upgrade" /\ op.i \in ran[op.d] /\ candidate[op.d] = "Activating"
  BY <1>1, <1>2 DEF Inv, OpKnows, Pre, CandidateAt
<1>5. /\ op.old \in Digests /\ op.old # op.d /\ op.i \in ran[op.old]
  BY <1>1, <1>2, <1>4 DEF Inv, OpKnows, UpgradeKnows, Pre, Served
<1>6. CASE Ends /\ UNCHANGED candidate
  BY <1>1, <1>2, <1>3, <1>6, EndKeepsInv DEF Ends
<1>7. CASE Moved(op.old, "DrainStarted") /\ Stage("record")
  <2>1. "record" \in Late /\ CandidateAt("record") = "Activating"
    BY DEF Late, CandidateAt
  <2>2. op' \in PipelineOps /\ op'.stage = "record" /\ SameOp
    BY <1>2, <1>7, <2>1, StageMoves
  <2>3. OnlyMoves(op.old)
    BY <1>5, <1>7, CandidateMoves DEF Inv
  <2>4. TypeOK'
    BY <1>1, <2>2, <2>3 DEF Inv, TypeOK, OnlyMoves, kept
  <2>5. Steady'
    <3>1. ASSUME NEW i \in Installations, active[i] # NoDigest, ran'[active[i]] = {i},
                 ~Busy(i, {"record", "swap"})'
          PROVE  ~Busy(i, {"record", "swap"}) /\ candidate'[active[i]] = candidate[active[i]]
      <4>1. i # op.i
        BY <2>2, <3>1 DEF Busy, SameOp
      <4>2. active[i] \in Digests /\ active[i] # op.old
        BY <1>1, <1>5, <3>1, <4>1 DEF Inv, TypeOK, Served
      <4> QED BY <1>1, <2>3, <4>2 DEF OnlyMoves, Busy
    <3>2. op.stage \notin {"swap", "unserve"}
      BY <1>1
    <3> QED BY <1>1, <1>3, <3>1, <3>2, SteadyKept DEF RestTyped
  <2>6. OpKnows'
    <3>1. UpgradeKnows'
      BY <1>1, <1>2, <1>4, <2>2 DEF Inv, OpKnows, UpgradeKnows, SameOp, kept, Pre
    <3>2. InstallKnows' /\ EnableKnows' /\ TargetIsRight'
      BY <1>4, <2>2 DEF InstallKnows, EnableKnows, TargetIsRight, SameOp
    <3>3. candidate'[op.d] = "Activating"
      BY <1>2, <1>4, <1>5, <2>3 DEF OnlyMoves
    <3>4. (op.stage \in (Early \cup Late) \ {"bytes"} =>
             op.i \in ran[op.d] /\ candidate[op.d] = CandidateAt(op.stage))'
      BY <1>1, <1>4, <2>1, <2>2, <3>3 DEF SameOp
    <3>5. op'.stage \notin {"retire", "drain", "swap", "disable", "deactivate", "delete"}
      BY <2>2
    <3> QED BY <3>1, <3>2, <3>4, <3>5 DEF OpKnows
  <2> QED BY <2>4, <2>5, <2>6 DEF Inv
<1> QED BY <1>6, <1>7 DEF RetiresOld

LEMMA RecordKeepsInv ==
  ASSUME Inv, WritesRecord
  PROVE  Inv'
<1>1. /\ op.stage = "record" /\ UNCHANGED <<active, last, before>>
      /\ UNCHANGED <<grants, schema, store, ran>>
  BY DEF WritesRecord
<1>2. /\ op.stage \in Pre \ {"bytes"} /\ op \in PipelineOps
      /\ op.d \in Digests /\ op.i \in Installations /\ op.old \in Served /\ op.lkg \in Served
      /\ op.kind \in {"install", "upgrade", "enable"}
  BY <1>1, OpKinds, PipelineOpTyped DEF Inv, Pre, Early, Late
<1>3. RestTyped
  BY <1>1, RestStays DEF Inv
<1>4. op.i \in ran[op.d] /\ candidate[op.d] = "Activating"
  BY <1>1, <1>2 DEF Inv, OpKnows, Pre, CandidateAt
<1>5. CASE op.kind # "upgrade" /\ Ends /\ UNCHANGED <<record, candidate>>
  BY <1>1, <1>2, <1>3, <1>5, EndKeepsInv DEF Ends, kept
<1>6. CASE /\ record' = [record EXCEPT ![op.i] = [digest |-> op.d, lkg |-> NewTarget,
                                                  state |-> "Active"]]
           /\ Moved(op.d, "ReadinessSucceeded") /\ Stage("swap")
  <2>1. /\ record \in [Installations -> Records] /\ active \in [Installations -> Served]
        /\ last \in [Installations -> Served] /\ ran \in [Digests -> SUBSET Installations]
    BY DEF Inv, TypeOK
  <2>2. "swap" \in Late /\ CandidateAt("swap") = "Active"
    BY DEF Early, Late, CandidateAt
  <2>3. op' \in PipelineOps /\ op'.stage = "swap" /\ SameOp
    BY <1>2, <1>6, <2>2, StageMoves
  <2>4. OnlyMoves(op.d) /\ candidate'[op.d] = "Active"
    BY <1>2, <1>4, <1>6, CandidateMoves, TheMoves DEF Inv
  <2>5. NewTarget \in Served
    BY <1>2 DEF NewTarget, Served
  <2>6. PICK r : r = [digest |-> op.d, lkg |-> NewTarget, state |-> "Active"]
    OBVIOUS
  <2>7. r \in Records /\ r.digest = op.d /\ r.lkg = NewTarget /\ r.state = "Active"
    BY <1>2, <2>5, <2>6 DEF Records, Served, States
  <2>8. /\ record' \in [Installations -> Records] /\ record'[op.i] = r
        /\ \A j \in Installations : j # op.i => record'[j] = record[j]
    BY <1>2, <1>6, <2>1, <2>6, <2>7
  <2>9. TypeOK'
    BY <1>1, <2>3, <2>4, <2>8 DEF Inv, TypeOK, OnlyMoves
  <2>10. \A j \in Installations : ~Busy(j, {"swap"}) /\ ~Busy(j, {"swap", "unserve"})
    BY <1>1 DEF Busy
  <2>11. op'.i = op.i /\ op'.stage = "swap"
    BY <2>3 DEF SameOp
  <2>12. ServedIsRecorded'
    <3>1. ASSUME NEW j \in Installations, active[j] # NoDigest, ~Busy(j, {"swap", "unserve"})'
          PROVE  record'[j].digest = active[j] /\ record'[j].state \in {"Active", "Draining"}
      <4>1. j # op.i
        BY <2>11, <3>1 DEF Busy
      <4> QED BY <2>8, <2>10, <3>1, <4>1 DEF Inv, Steady, ServedIsRecorded
    <3> QED BY <1>1, <3>1 DEF ServedIsRecorded
  <2>13. RollbackTargetIsPrevious'
    <3>1. ASSUME NEW j \in Installations, record'[j].lkg # NoDigest, ~Busy(j, {"swap"})'
          PROVE  record'[j].lkg = IF before[j] = NoDigest THEN last[j] ELSE before[j]
      <4>1. j # op.i
        BY <2>11, <3>1 DEF Busy
      <4> QED BY <2>8, <2>10, <3>1, <4>1 DEF Inv, Steady, RollbackTargetIsPrevious
    <3> QED BY <1>1, <3>1 DEF RollbackTargetIsPrevious
  <2>14. RecordIsLast'
    <3>1. ASSUME NEW j \in Installations, record'[j].digest # NoDigest, ~Busy(j, {"swap"})'
          PROVE  record'[j].digest = last[j]
      <4>1. j # op.i
        BY <2>11, <3>1 DEF Busy
      <4> QED BY <2>8, <2>10, <3>1, <4>1 DEF Inv, Steady, RecordIsLast
    <3> QED BY <1>1, <3>1 DEF RecordIsLast
  <2>15. RecordsAreWhole'
    <3>1. ASSUME NEW j \in Installations
          PROVE  /\ record'[j].lkg # NoDigest => record'[j].digest # NoDigest
                 /\ record'[j].state \in {"Active", "Draining", "Disabled"}
                      => record'[j].digest # NoDigest
                 /\ record'[j].digest # NoDigest => j \in ran[record'[j].digest]
                 /\ last[j] = NoDigest => before[j] = NoDigest
      BY <1>2, <1>4, <2>7, <2>8, <3>1, DigestsAssumption DEF Inv, Steady, RecordsAreWhole
    <3> QED BY <1>1, <3>1 DEF RecordsAreWhole
  <2>16. ServedIsActive'
    <3>1. ASSUME NEW j \in Installations, active[j] # NoDigest, record'[j].state = "Active",
                 ran[active[j]] = {j}, ~Busy(j, {"record", "swap"})'
          PROVE  candidate'[active[j]] = "Active"
      <4>1. j # op.i
        BY <2>11, <3>1 DEF Busy
      <4>2. active[j] # op.d /\ active[j] \in Digests
        BY <1>4, <2>1, <3>1, <4>1 DEF Served
      <4>3. candidate[active[j]] = "Active"
        BY <2>8, <3>1, <4>1 DEF Inv, Steady, ServedIsActive, Busy
      <4> QED BY <2>4, <4>2, <4>3 DEF OnlyMoves
    <3> QED BY <1>1, <3>1 DEF ServedIsActive
  <2>17. OpKnows'
    <3>1. InstallKnows'
      BY <1>1, <1>2, <2>3 DEF Inv, OpKnows, InstallKnows, SameOp, Pre
    <3>2. UpgradeKnows'
      BY <1>1, <1>2, <2>3 DEF Inv, OpKnows, UpgradeKnows, SameOp, Pre
    <3>3. EnableKnows'
      BY <1>1, <1>2, <2>3 DEF Inv, OpKnows, EnableKnows, SameOp, Pre
    <3>4. TargetIsRight'
      <4>1. SUFFICES ASSUME op.kind = "enable", op.lkg # NoDigest
                     PROVE  op.lkg = IF before[op.i] = NoDigest THEN op.d ELSE before[op.i]
        BY <1>1, <2>3 DEF TargetIsRight, SameOp
      <4>2. record[op.i].lkg = op.lkg /\ last[op.i] = op.d
        BY <1>1, <1>2, <4>1 DEF Inv, OpKnows, EnableKnows, Pre
      <4> QED BY <1>2, <2>10, <4>1, <4>2 DEF Inv, Steady, RollbackTargetIsPrevious
    <3>5. (op.stage \in (Early \cup Late) \ {"bytes"} =>
             op.i \in ran[op.d] /\ candidate[op.d] = CandidateAt(op.stage))'
      BY <1>1, <1>4, <2>2, <2>3, <2>4 DEF SameOp
    <3>6. NewTarget' = NewTarget
      BY <2>3 DEF NewTarget, SameOp
    <3>7. record'[op'.i] = [digest |-> op'.d, lkg |-> NewTarget', state |-> "Active"]
      BY <2>3, <2>6, <2>8, <3>6 DEF SameOp
    <3>8. op'.stage \notin {"retire", "drain", "disable", "deactivate", "delete"}
      BY <2>3
    <3> QED BY <3>1, <3>2, <3>3, <3>4, <3>5, <3>7, <3>8 DEF OpKnows
  <2> QED BY <2>9, <2>12, <2>13, <2>14, <2>15, <2>16, <2>17 DEF Inv, Steady
<1> QED BY <1>5, <1>6 DEF WritesRecord


LEMMA SwapKeepsInv ==
  ASSUME Inv, SwapsActive
  PROVE  Inv'
<1>1. /\ op.stage = "swap" /\ UNCHANGED <<candidate, record, grants, schema, store, ran>>
      /\ active' = [active EXCEPT ![op.i] = op.d]
      /\ last' = [last EXCEPT ![op.i] = op.d]
      /\ before' = [before EXCEPT ![op.i] = IF last[op.i] = op.d THEN @ ELSE last[op.i]]
      /\ IF op.kind = "upgrade" THEN Stage("drain") ELSE Ends
  BY DEF SwapsActive
<1>2. op.stage \in (Early \cup Late) \ {"bytes"} /\ op \in PipelineOps
  BY <1>1, OpKinds DEF Inv, Early, Late
<1>3. /\ op.d \in Digests /\ op.i \in Installations /\ op.old \in Served /\ op.lkg \in Served
      /\ op.kind \in {"install", "upgrade", "enable"} /\ op.d # NoDigest
  BY <1>2, PipelineOpTyped, DigestsAssumption
<1>4. /\ candidate \in [Digests -> States] /\ record \in [Installations -> Records]
      /\ active \in [Installations -> Served] /\ last \in [Installations -> Served]
      /\ before \in [Installations -> Served]
  BY DEF Inv, TypeOK
<1>5. /\ op.i \in ran[op.d] /\ candidate[op.d] = "Active"
      /\ record[op.i] = [digest |-> op.d, lkg |-> NewTarget, state |-> "Active"]
  BY <1>1, <1>2 DEF Inv, OpKnows, CandidateAt
<1>6. /\ record[op.i].digest = op.d /\ record[op.i].state = "Active"
      /\ record[op.i].lkg = NewTarget
  BY <1>5
<1>7. /\ active'[op.i] = op.d /\ last'[op.i] = op.d
      /\ before'[op.i] = IF last[op.i] = op.d THEN before[op.i] ELSE last[op.i]
      /\ \A j \in Installations : j # op.i =>
           active'[j] = active[j] /\ last'[j] = last[j] /\ before'[j] = before[j]
  BY <1>1, <1>3, <1>4
<1>8. op' \in PipelineOps \cup {Idle} /\ op'.stage \in {"drain", "idle"}
  <2>1. CASE op.kind = "upgrade"
    BY <1>1, <1>2, <2>1, StageMoves DEF Late
  <2>2. CASE op.kind # "upgrade"
    BY <1>1, <2>2 DEF Ends, Idle
  <2> QED BY <2>1, <2>2
<1>9. TypeOK'
  BY <1>1, <1>3, <1>4, <1>8 DEF Inv, TypeOK, Served
<1>10. \A j \in Installations : j # op.i =>
         ~Busy(j, {"swap"}) /\ ~Busy(j, {"swap", "unserve"}) /\ ~Busy(j, {"record", "swap"})
  BY DEF Busy
<1>11. ServedIsRecorded'
  <2>1. ASSUME NEW j \in Installations, active'[j] # NoDigest
        PROVE  record[j].digest = active'[j] /\ record[j].state \in {"Active", "Draining"}
    BY <1>6, <1>7, <1>10, <2>1 DEF Inv, Steady, ServedIsRecorded
  <2> QED BY <1>1, <2>1 DEF ServedIsRecorded
<1>12. RollbackTargetIsPrevious'
  <2>1. ASSUME record[op.i].lkg # NoDigest
        PROVE  record[op.i].lkg = IF before'[op.i] = NoDigest THEN last'[op.i] ELSE before'[op.i]
    <3>1. CASE op.kind = "upgrade"
      <4>1. last[op.i] = op.old /\ op.old # op.d /\ op.old # NoDigest
        BY <1>1, <1>2, <3>1 DEF Inv, OpKnows, UpgradeKnows
      <4>2. NewTarget = op.old
        BY <3>1 DEF NewTarget
      <4> QED BY <1>6, <1>7, <4>1, <4>2
    <3>2. CASE op.kind = "install"
      <4>1. last[op.i] = NoDigest
        BY <1>1, <1>2, <3>2 DEF Inv, OpKnows, InstallKnows
      <4>2. NewTarget = op.d
        BY <3>2 DEF NewTarget
      <4> QED BY <1>3, <1>6, <1>7, <4>1, <4>2
    <3>3. CASE op.kind = "enable"
      <4>1. last[op.i] = op.d
        BY <1>1, <1>2, <3>3 DEF Inv, OpKnows, EnableKnows
      <4>2. NewTarget = op.lkg
        BY <3>3 DEF NewTarget
      <4>3. op.lkg = IF before[op.i] = NoDigest THEN op.d ELSE before[op.i]
        BY <1>1, <1>6, <2>1, <3>3, <4>2 DEF Inv, OpKnows, TargetIsRight
      <4> QED BY <1>6, <1>7, <4>1, <4>2, <4>3
    <3> QED BY <1>3, <3>1, <3>2, <3>3
  <2>2. ASSUME NEW j \in Installations, j # op.i, record[j].lkg # NoDigest
        PROVE  record[j].lkg = IF before'[j] = NoDigest THEN last'[j] ELSE before'[j]
    BY <1>7, <1>10, <2>2 DEF Inv, Steady, RollbackTargetIsPrevious
  <2> QED BY <1>1, <2>1, <2>2 DEF RollbackTargetIsPrevious
<1>13. RecordIsLast'
  <2>1. ASSUME NEW j \in Installations, record[j].digest # NoDigest
        PROVE  record[j].digest = last'[j]
    BY <1>6, <1>7, <1>10, <2>1 DEF Inv, Steady, RecordIsLast
  <2> QED BY <1>1, <2>1 DEF RecordIsLast
<1>14. RecordsAreWhole'
  <2>1. ASSUME NEW j \in Installations
        PROVE  last'[j] = NoDigest => before'[j] = NoDigest
    BY <1>3, <1>7 DEF Inv, Steady, RecordsAreWhole
  <2> QED BY <1>1, <2>1 DEF Inv, Steady, RecordsAreWhole
<1>15. ServedIsActive'
  <2>1. ASSUME NEW j \in Installations, active'[j] # NoDigest, record[j].state = "Active",
               ran[active'[j]] = {j}
        PROVE  candidate[active'[j]] = "Active"
    BY <1>5, <1>7, <1>10, <2>1 DEF Inv, Steady, ServedIsActive
  <2> QED BY <1>1, <2>1 DEF ServedIsActive
<1>16. OpKnows'
  <2>1. CASE op.kind = "upgrade"
    <3>1. op' \in PipelineOps /\ op'.stage = "drain" /\ SameOp
      BY <1>1, <1>2, <2>1, StageMoves DEF Late
    <3>2. UpgradeKnows'
      BY <1>1, <1>2, <1>6, <2>1, <3>1 DEF Inv, OpKnows, UpgradeKnows, SameOp
    <3>3. InstallKnows' /\ EnableKnows' /\ TargetIsRight'
      BY <2>1, <3>1 DEF InstallKnows, EnableKnows, TargetIsRight, SameOp
    <3>4. CandidateAt("drain") = "Active"
      BY DEF CandidateAt
    <3>5. (op.stage \in (Early \cup Late) \ {"bytes"} =>
             op.i \in ran[op.d] /\ candidate[op.d] = CandidateAt(op.stage))'
      BY <1>1, <1>5, <3>1, <3>4 DEF SameOp
    <3>6. op'.kind = "upgrade" /\ op'.stage \notin {"swap", "disable", "deactivate", "delete"}
      BY <2>1, <3>1 DEF SameOp
    <3> QED BY <3>2, <3>3, <3>5, <3>6 DEF OpKnows
  <2>2. CASE op.kind # "upgrade"
    <3>1. op'.stage = "idle"
      BY <1>1, <2>2 DEF Ends, Idle
    <3> QED BY <3>1
            DEF OpKnows, InstallKnows, UpgradeKnows, EnableKnows, TargetIsRight, Early, Late
  <2> QED BY <2>1, <2>2
<1> QED BY <1>9, <1>11, <1>12, <1>13, <1>14, <1>15, <1>16 DEF Inv, Steady

LEMMA DrainKeepsInv ==
  ASSUME Inv, DrainsPrevious
  PROVE  Inv'
<1>1. /\ op.stage = "drain" /\ op' = Idle /\ UNCHANGED kept
      /\ UNCHANGED <<grants, schema, store, ran>>
      /\ Moved(op.old, "DrainCompleted") \/ UNCHANGED candidate
  BY DEF DrainsPrevious, Ends, kept
<1>2. op.stage \in (Early \cup Late) \ {"bytes"} /\ op \in PipelineOps
  BY <1>1, OpKinds DEF Inv, Early, Late
<1>3. op.d \in Digests /\ op.i \in Installations /\ op.old \in Served
  BY <1>2, PipelineOpTyped
<1>4. /\ op.old # NoDigest /\ op.old # op.d /\ op.i \in ran[op.old]
      /\ record[op.i].digest = op.d
  BY <1>1, <1>2 DEF Inv, OpKnows, UpgradeKnows
<1>5. OnlyMoves(op.old)
  BY <1>1, <1>3, <1>4, CandidateMoves, CandidateStays DEF Inv, Served
<1>6. op'.stage = "idle"
  BY <1>1 DEF Idle
<1>7. TypeOK'
  BY <1>1, <1>5 DEF Inv, TypeOK, OnlyMoves, kept
<1>8. Steady'
  <2>1. ASSUME NEW i \in Installations, active[i] # NoDigest, ran'[active[i]] = {i}
        PROVE  ~Busy(i, {"record", "swap"}) /\ candidate'[active[i]] = candidate[active[i]]
    <3>1. record[i].digest = active[i]
      BY <1>1, <2>1 DEF Inv, Steady, ServedIsRecorded, Busy
    <3>2. active[i] # op.old
      BY <1>1, <1>4, <2>1, <3>1
    <3>3. active[i] \in Digests
      BY <2>1 DEF Inv, TypeOK, Served
    <3> QED BY <1>1, <1>5, <3>2, <3>3 DEF OnlyMoves, Busy
  <2>2. ran' \in [Digests -> SUBSET Installations] /\ \A d \in Digests : ran[d] \subseteq ran'[d]
    BY <1>1 DEF Inv, TypeOK
  <2>3. op.stage \notin {"swap", "unserve"}
    BY <1>1
  <2> QED BY <1>1, <2>1, <2>2, <2>3, SteadyKept
<1>9. OpKnows'
  BY <1>6 DEF OpKnows, InstallKnows, UpgradeKnows, EnableKnows, TargetIsRight, Early, Late
<1> QED BY <1>7, <1>8, <1>9 DEF Inv


-----------------------------------------------------------------------------
(* The beginning of an operation.                                          *)

LEMMA BeginsKeepsInv ==
  ASSUME Inv, NEW kind \in {"install", "upgrade", "enable"}, NEW i \in Installations,
         NEW d \in Digests, NEW approval \in Approvals, Begins(kind, i, d, approval),
         kind = "install" =>
           active[i] = NoDigest /\ last[i] = NoDigest /\ record[i].digest = NoDigest,
         kind = "upgrade" => record[i].digest \notin {NoDigest, d},
         kind = "enable" => active[i] = NoDigest /\ record[i].digest = d
  PROVE  Inv'
<1>1. /\ op = Idle /\ UNCHANGED kept /\ UNCHANGED <<candidate, grants, schema, store, ran>>
      /\ op' = [stage |-> "bytes", kind |-> kind, i |-> i, d |-> d, approval |-> approval,
                old |-> record[i].digest, lkg |-> record[i].lkg, empty |-> FALSE]
  BY DEF Begins, kept
<1>2. op.stage = "idle"
  BY <1>1 DEF Idle
<1>3. record[i].digest \in Served /\ record[i].lkg \in Served
  BY DEF Inv, TypeOK, Records
<1>4. /\ op' \in PipelineOps /\ op'.stage = "bytes" /\ op'.kind = kind /\ op'.i = i /\ op'.d = d
      /\ op'.old = record[i].digest /\ op'.lkg = record[i].lkg
  BY <1>1, <1>3 DEF PipelineOps, Early, Late
<1>5. TypeOK'
  BY <1>1, <1>4 DEF Inv, TypeOK, kept
<1>6. Steady'
  <2>1. \A j \in Installations : ~Busy(j, {"record", "swap"}) /\ candidate'[active[j]] = candidate[active[j]]
    BY <1>1, <1>2 DEF Busy
  <2>2. ran' \in [Digests -> SUBSET Installations] /\ \A e \in Digests : ran[e] \subseteq ran'[e]
    BY <1>1 DEF Inv, TypeOK
  <2>3. op.stage \notin {"swap", "unserve"}
    BY <1>2
  <2> QED BY <1>1, <2>1, <2>2, <2>3, SteadyKept
<1>7. OpKnows'
  <2>1. ~Busy(i, {"swap"})
    BY <1>2 DEF Busy
  <2>2. InstallKnows'
    BY <1>1, <1>4 DEF InstallKnows, kept
  <2>3. UpgradeKnows'
    <3>1. SUFFICES ASSUME kind = "upgrade"
                   PROVE  /\ record[i].digest # NoDigest /\ record[i].digest # d
                          /\ i \in ran[record[i].digest] /\ last[i] = record[i].digest
      BY <1>1, <1>4 DEF UpgradeKnows, kept
    <3>2. record[i].digest # NoDigest /\ record[i].digest # d
      BY <3>1
    <3> QED BY <2>1, <3>2 DEF Inv, Steady, RecordIsLast, RecordsAreWhole
  <2>4. EnableKnows'
    <3>1. SUFFICES ASSUME kind = "enable"
                   PROVE  active[i] = NoDigest /\ last[i] = d /\ record[i].digest = d
      BY <1>1, <1>4 DEF EnableKnows, kept
    <3> QED BY <2>1, <3>1, DigestsAssumption DEF Inv, Steady, RecordIsLast
  <2>5. TargetIsRight'
    BY <1>4 DEF TargetIsRight
  <2> QED BY <1>4, <2>2, <2>3, <2>4, <2>5 DEF OpKnows
<1> QED BY <1>5, <1>6, <1>7 DEF Inv

LEMMA RequestsKeepInv ==
  ASSUME Inv, NEW i \in Installations,
         \/ \E d \in Digests, S \in SUBSET Capabilities : Installs(i, d, S)
         \/ \E d \in Digests, a \in Approvals : Upgrades(i, d, a)
         \/ RollsBack(i) \/ Enables(i)
  PROVE  Inv'
<1>1. record[i] \in Records /\ active[i] \in Served
  BY DEF Inv, TypeOK
<1>2. record[i].digest \in Served /\ record[i].lkg \in Served
  BY <1>1 DEF Records
<1>3. Reuse \in Approvals
  BY DEF Approvals
<1>4. ASSUME op = Idle, active[i] # NoDigest
      PROVE  record[i].state \in {"Active", "Draining"}
  <2>1. ~Busy(i, {"swap", "unserve"})
    BY <1>4 DEF Busy, Idle
  <2> QED BY <1>4, <2>1 DEF Inv, Steady, ServedIsRecorded
<1>5. CASE \E d \in Digests, S \in SUBSET Capabilities : Installs(i, d, S)
  <2>1. PICK d \in Digests, S \in SUBSET Capabilities : Installs(i, d, S)
    BY <1>5
  <2>2. PICK a : a = [explicit |-> TRUE, grants |-> S]
    OBVIOUS
  <2>3. a \in Approvals
    BY <2>2 DEF Approvals
  <2>4. Begins("install", i, d, a) /\ record[i] = NoRecord /\ last[i] = NoDigest
    BY <2>1, <2>2 DEF Installs
  <2>5. op = Idle /\ record[i].state = "None" /\ record[i].digest = NoDigest
    BY <2>4 DEF Begins, NoRecord
  <2>6. active[i] = NoDigest
    BY <1>4, <2>5
  <2> QED BY <2>3, <2>4, <2>5, <2>6, BeginsKeepsInv
<1>6. CASE \E d \in Digests, a \in Approvals : Upgrades(i, d, a)
  <2>1. PICK d \in Digests, a \in Approvals : Upgrades(i, d, a)
    BY <1>6
  <2>2. Begins("upgrade", i, d, a) /\ record[i].state = "Active" /\ record[i].digest # d
    BY <2>1 DEF Upgrades
  <2>3. record[i].digest # NoDigest
    BY <2>2 DEF Inv, Steady, RecordsAreWhole
  <2> QED BY <2>2, <2>3, BeginsKeepsInv
<1>7. CASE RollsBack(i)
  <2>1. /\ Begins("upgrade", i, record[i].lkg, Reuse) /\ record[i].state = "Active"
        /\ record[i].lkg # NoDigest /\ record[i].lkg # record[i].digest
    BY <1>7 DEF RollsBack
  <2>2. record[i].digest # NoDigest
    BY <2>1 DEF Inv, Steady, RecordsAreWhole
  <2>3. record[i].lkg \in Digests
    BY <1>2, <2>1 DEF Served
  <2> QED BY <1>3, <2>1, <2>2, <2>3, BeginsKeepsInv
<1>8. CASE Enables(i)
  <2>1. Begins("enable", i, record[i].digest, Reuse) /\ record[i].state = "Disabled"
    BY <1>8 DEF Enables
  <2>2. record[i].digest # NoDigest
    BY <2>1 DEF Inv, Steady, RecordsAreWhole
  <2>3. record[i].digest \in Digests
    BY <1>2, <2>2 DEF Served
  <2>4. active[i] = NoDigest
    <3>1. op = Idle
      BY <2>1 DEF Begins
    <3> QED BY <1>4, <2>1, <3>1
  <2> QED BY <1>3, <2>1, <2>3, <2>4, BeginsKeepsInv
<1> QED BY <1>5, <1>6, <1>7, <1>8

-----------------------------------------------------------------------------
(* Disable, uninstall, grants, policy.                                     *)

\* Steps outside the pipeline leave the candidates and the history alone.
aside == <<candidate, last, before, ran>>

LEMMA StopTyped ==
  ASSUME TypeOK, op.stage \in StopStages
  PROVE  op \in StopOps /\ op.i \in Installations /\ op.kind = "stop"
BY OpKinds DEF StopOps

LEMMA StopStageMoves ==
  ASSUME op \in StopOps, NEW s \in StopStages, Stage(s)
  PROVE  op' \in StopOps /\ op'.stage = s /\ op'.i = op.i
BY DEF Stage, StopOps

LEMMA IdleTyped == Idle.stage = "idle" /\ Idle \in PipelineOps \cup StopOps \cup {Idle}
BY DEF Idle

\* Outside the pipeline and its own two stages an operation knows nothing.
LEMMA StopKnows ==
  ASSUME op'.stage \in StopStages \cup {"idle"},
         op'.stage = "disable" => (record[op.i].digest # NoDigest)',
         op'.stage \in {"deactivate", "delete"} => (active[op.i] = NoDigest)'
  PROVE  OpKnows'
<1>1. op'.stage \notin Early \cup Late
  BY DEF Early, Late, StopStages
<1>2. op'.stage \notin {"retire", "drain", "swap"}
  BY DEF StopStages
<1> QED BY <1>1, <1>2 DEF OpKnows, InstallKnows, UpgradeKnows, EnableKnows, TargetIsRight

\* A step that changes only what the invariant does not speak of.
LEMMA AsideKeepsInv ==
  ASSUME Inv, UNCHANGED kept, UNCHANGED <<candidate, ran, op>>,
         grants' \in [Installations -> SUBSET Capabilities],
         schema' \in [Installations -> Nat], UNCHANGED store
  PROVE  Inv'
<1>1. TypeOK'
  BY DEF Inv, TypeOK, kept
<1>2. ServedIsRecorded' /\ RollbackTargetIsPrevious'
  BY DEF Inv, Steady, ServedIsRecorded, RollbackTargetIsPrevious, Busy, kept
<1>3. RecordIsLast' /\ RecordsAreWhole' /\ ServedIsActive'
  BY DEF Inv, Steady, RecordIsLast, RecordsAreWhole, ServedIsActive, Busy, kept
<1>4. InstallKnows' /\ UpgradeKnows' /\ EnableKnows' /\ TargetIsRight'
  BY DEF Inv, OpKnows, InstallKnows, UpgradeKnows, EnableKnows, TargetIsRight, kept
<1>5. OpKnows'
  BY <1>4 DEF Inv, OpKnows, NewTarget, kept
<1> QED BY <1>1, <1>2, <1>3, <1>5 DEF Inv, Steady

LEMMA GrantsPolicyStateKeepInv ==
  ASSUME Inv,
         \/ \E i \in Installations, S \in SUBSET Capabilities : ReplacesGrants(i, S)
         \/ \E p \in Policies : ReplacesPolicy(p)
         \/ \E i \in Installations : WritesFirstState(i)
  PROVE  Inv'
<1>1. UNCHANGED kept /\ UNCHANGED <<candidate, ran, op, store>>
  BY DEF ReplacesGrants, ReplacesPolicy, WritesFirstState, kept
<1>2. /\ grants \in [Installations -> SUBSET Capabilities] /\ schema \in [Installations -> Nat]
      /\ active \in [Installations -> Served]
  BY DEF Inv, TypeOK
<1>3. grants' \in [Installations -> SUBSET Capabilities]
  <2>1. ASSUME NEW i \in Installations, NEW S \in SUBSET Capabilities, ReplacesGrants(i, S)
        PROVE  grants' \in [Installations -> SUBSET Capabilities]
    BY <1>2, <2>1 DEF ReplacesGrants
  <2>2. CASE UNCHANGED grants
    BY <1>2, <2>2
  <2> QED BY <2>1, <2>2 DEF ReplacesPolicy, WritesFirstState
<1>4. schema' \in [Installations -> Nat]
  <2>1. ASSUME NEW i \in Installations, WritesFirstState(i)
        PROVE  schema' \in [Installations -> Nat]
    <3>1. active[i] \in Digests /\ schema' = [schema EXCEPT ![i] = SchemaOf[active[i]]]
      BY <1>2, <2>1 DEF WritesFirstState, Served
    <3> QED BY <1>2, <3>1, DigestsAssumption
  <2>2. CASE UNCHANGED schema
    BY <1>2, <2>2
  <2> QED BY <2>1, <2>2 DEF ReplacesGrants, ReplacesPolicy
<1> QED BY <1>1, <1>3, <1>4, AsideKeepsInv


\* Disable moves the record from active to draining to disabled.
LEMMA DisableKeepsInv ==
  ASSUME Inv, (\E i \in Installations : Disables(i)) \/ DrainsDisabled
  PROVE  Inv'
<1>1. /\ record \in [Installations -> Records] /\ active \in [Installations -> Served]
      /\ op.stage \in {"idle", "disable"} /\ UNCHANGED aside
      /\ UNCHANGED <<active, grants, schema, store>>
  BY DEF Inv, TypeOK, Disables, DrainsDisabled, aside, Idle
<1>2. ASSUME NEW i \in Installations, NEW s \in {"Draining", "Disabled"},
             record[i].digest # NoDigest, record' = [record EXCEPT ![i].state = s],
             op' \in StopOps, op'.stage = IF s = "Draining" THEN "disable" ELSE "unserve",
             op'.i = i, s = "Disabled" => op.i = i
      PROVE  Inv'
  <2>1. /\ record' \in [Installations -> Records]
        /\ record'[i].state = s
        /\ \A j \in Installations : /\ record'[j].digest = record[j].digest
                                    /\ record'[j].lkg = record[j].lkg
                                    /\ j # i => record'[j] = record[j]
    BY <1>1, <1>2 DEF Records, States
  <2>2. TypeOK'
    BY <1>1, <1>2, <2>1 DEF Inv, TypeOK, aside
  <2>3. \A j \in Installations : ~Busy(j, {"swap"}) /\ ~Busy(j, {"swap", "unserve"})
                                 /\ ~Busy(j, {"record", "swap"})
    BY <1>1 DEF Busy
  <2>4. ServedIsRecorded'
    <3>1. ASSUME NEW j \in Installations, active[j] # NoDigest, ~Busy(j, {"swap", "unserve"})'
          PROVE  record'[j].digest = active[j] /\ record'[j].state \in {"Active", "Draining"}
      <4>1. record[j].digest = active[j] /\ record[j].state \in {"Active", "Draining"}
        BY <2>3, <3>1 DEF Inv, Steady, ServedIsRecorded
      <4>2. j = i => s = "Draining"
        BY <1>2, <3>1 DEF Busy
      <4> QED BY <2>1, <4>1, <4>2
    <3> QED BY <1>1, <3>1 DEF ServedIsRecorded
  <2>5. RollbackTargetIsPrevious'
    BY <1>1, <2>1, <2>3 DEF Inv, Steady, RollbackTargetIsPrevious, aside
  <2>6. RecordIsLast'
    BY <1>1, <2>1, <2>3 DEF Inv, Steady, RecordIsLast, aside
  <2>7. RecordsAreWhole'
    <3>1. ASSUME NEW j \in Installations
          PROVE  /\ record'[j].lkg # NoDigest => record'[j].digest # NoDigest
                 /\ record'[j].state \in {"Active", "Draining", "Disabled"}
                      => record'[j].digest # NoDigest
                 /\ record'[j].digest # NoDigest => j \in ran[record'[j].digest]
                 /\ last[j] = NoDigest => before[j] = NoDigest
      BY <1>2, <2>1 DEF Inv, Steady, RecordsAreWhole
    <3> QED BY <1>1, <3>1 DEF RecordsAreWhole, aside
  <2>8. ServedIsActive'
    <3>1. ASSUME NEW j \in Installations, active[j] # NoDigest, record'[j].state = "Active",
                 ran[active[j]] = {j}
          PROVE  candidate[active[j]] = "Active"
      <4>1. record[j].state = "Active"
        BY <1>2, <2>1, <3>1
      <4> QED BY <2>3, <3>1, <4>1 DEF Inv, Steady, ServedIsActive
    <3> QED BY <1>1, <3>1 DEF ServedIsActive, aside
  <2>9. OpKnows'
    <3>1. (record[op.i].digest # NoDigest)'
      BY <1>2, <2>1
    <3>2. op'.stage \in StopStages /\ op'.stage \notin {"deactivate", "delete"}
      BY <1>2 DEF StopStages
    <3> QED BY <3>1, <3>2, StopKnows
  <2> QED BY <2>2, <2>4, <2>5, <2>6, <2>7, <2>8, <2>9 DEF Inv, Steady
<1>3. ASSUME NEW i \in Installations, Disables(i)
      PROVE  Inv'
  <2>1. /\ record[i].state = "Active" /\ record' = [record EXCEPT ![i].state = "Draining"]
        /\ op' = [stage |-> "disable", kind |-> "stop", i |-> i]
    BY <1>3, TheMoves DEF Disables, BeginsAt
  <2>2. record[i].digest # NoDigest
    BY <2>1 DEF Inv, Steady, RecordsAreWhole
  <2>3. op' \in StopOps /\ op'.stage = "disable" /\ op'.i = i
    BY <2>1 DEF StopOps, StopStages
  <2> QED BY <1>2, <2>1, <2>2, <2>3
<1>4. CASE DrainsDisabled
  <2>1. op.stage = "disable" /\ op.stage \in StopStages
    BY <1>4 DEF DrainsDisabled, StopStages
  <2>2. op \in StopOps /\ op.i \in Installations
    BY <2>1, StopTyped DEF Inv
  <2>3. record[op.i].digest # NoDigest
    BY <2>1 DEF Inv, OpKnows
  <2>4. CASE record' = [record EXCEPT ![op.i].state = "Disabled"] /\ Stage("unserve")
    <3>1. op' \in StopOps /\ op'.stage = "unserve" /\ op'.i = op.i
      BY <2>2, <2>4, StopStageMoves DEF StopStages
    <3> QED BY <1>2, <2>2, <2>3, <2>4, <3>1
  <2>5. CASE Ends /\ UNCHANGED record
    <3>1. op' = Idle /\ UNCHANGED kept
      BY <1>1, <2>5 DEF Ends, kept, aside
    <3>2. TypeOK'
      BY <1>1, <3>1, IdleTyped DEF Inv, TypeOK, kept, aside
    <3>3. Steady'
      <4>1. \A j \in Installations :
              ~Busy(j, {"record", "swap"}) /\ candidate'[active[j]] = candidate[active[j]]
        BY <1>1 DEF Busy, aside
      <4>2. ran' \in [Digests -> SUBSET Installations] /\ \A e \in Digests : ran[e] \subseteq ran'[e]
        BY <1>1 DEF Inv, TypeOK, aside
      <4>3. op.stage \notin {"swap", "unserve"}
        BY <2>1
      <4> QED BY <3>1, <4>1, <4>2, <4>3, SteadyKept
    <3>4. OpKnows'
      BY <3>1, IdleTyped, StopKnows
    <3> QED BY <3>2, <3>3, <3>4 DEF Inv
  <2> QED BY <1>4, <2>4, <2>5 DEF DrainsDisabled
<1> QED BY <1>3, <1>4

\* A step that leaves records, map and candidates as they are, outside the pipeline.
LEMMA PlainStepKeepsInv ==
  ASSUME Inv, op.stage \in {"idle", "uninstall", "deactivate", "delete"},
         UNCHANGED kept, UNCHANGED aside,
         grants' \in [Installations -> SUBSET Capabilities],
         schema' \in [Installations -> Nat], store' \in [Installations -> FaceType],
         \/ op' = Idle
         \/ op' \in StopOps /\ op'.stage = "uninstall"
         \/ op' \in StopOps /\ op'.stage = "delete" /\ active[op'.i] = NoDigest
  PROVE  Inv'
<1>1. TypeOK'
  BY DEF Inv, TypeOK, kept, aside
<1>2. Steady'
  <2>1. \A j \in Installations :
          ~Busy(j, {"record", "swap"}) /\ candidate'[active[j]] = candidate[active[j]]
    BY DEF Busy, aside
  <2>2. ran' \in [Digests -> SUBSET Installations] /\ \A e \in Digests : ran[e] \subseteq ran'[e]
    BY DEF Inv, TypeOK, aside
  <2>3. op.stage \notin {"swap", "unserve"}
    OBVIOUS
  <2> QED BY <2>1, <2>2, <2>3, SteadyKept
<1>3. OpKnows'
  <2>1. op'.stage \in StopStages \cup {"idle"} /\ op'.stage # "disable"
    BY IdleTyped DEF StopStages
  <2>2. op'.stage \in {"deactivate", "delete"} => (active[op.i] = NoDigest)'
    BY IdleTyped DEF kept
  <2> QED BY <2>1, <2>2, StopKnows
<1> QED BY <1>1, <1>2, <1>3 DEF Inv

\* The entry of the operation's installation leaves the map of what is served.
LEMMA RemovalKeepsInv ==
  ASSUME Inv, op.stage \in {"unserve", "uninstall"}, UNCHANGED aside,
         UNCHANGED <<record, grants, schema, store>>,
         active' = [active EXCEPT ![op.i] = NoDigest],
         op' = Idle \/ Stage("deactivate")
  PROVE  Inv'
<1>1. op \in StopOps /\ op.i \in Installations
  BY StopTyped DEF Inv, StopStages
<1>2. /\ op' \in StopOps \cup {Idle} /\ op'.stage \in {"idle", "deactivate"}
      /\ op'.stage = "deactivate" => op'.i = op.i
  BY <1>1, StopStageMoves, IdleTyped DEF StopStages
<1>3. active \in [Installations -> Served]
  BY DEF Inv, TypeOK
<1>4. /\ active' \in [Installations -> Served] /\ active'[op.i] = NoDigest
      /\ \A j \in Installations : j # op.i => active'[j] = active[j]
  BY <1>1, <1>3 DEF Served
<1>5. TypeOK'
  BY <1>2, <1>4 DEF Inv, TypeOK, aside
<1>6. \A j \in Installations : ~Busy(j, {"swap"}) /\ ~Busy(j, {"record", "swap"})
                               /\ (j # op.i => ~Busy(j, {"swap", "unserve"}))
  BY DEF Busy
<1>7. ServedIsRecorded'
  <2>1. ASSUME NEW j \in Installations, active'[j] # NoDigest
        PROVE  record[j].digest = active'[j] /\ record[j].state \in {"Active", "Draining"}
    BY <1>4, <1>6, <2>1 DEF Inv, Steady, ServedIsRecorded
  <2> QED BY <2>1 DEF ServedIsRecorded
<1>8. RollbackTargetIsPrevious' /\ RecordIsLast' /\ RecordsAreWhole'
  BY <1>6 DEF Inv, Steady, RollbackTargetIsPrevious, RecordIsLast, RecordsAreWhole, aside
<1>9. ServedIsActive'
  <2>1. ASSUME NEW j \in Installations, active'[j] # NoDigest, record[j].state = "Active",
               ran[active'[j]] = {j}
        PROVE  candidate[active'[j]] = "Active"
    BY <1>4, <1>6, <2>1 DEF Inv, Steady, ServedIsActive
  <2> QED BY <2>1 DEF ServedIsActive, aside
<1>10. OpKnows'
  <2>1. op'.stage \in {"deactivate", "delete"} => (active[op.i] = NoDigest)'
    BY <1>2, <1>4
  <2>2. op'.stage \in StopStages \cup {"idle"} /\ op'.stage # "disable"
    BY <1>2 DEF StopStages
  <2> QED BY <2>1, <2>2, StopKnows
<1> QED BY <1>5, <1>7, <1>8, <1>9, <1>10 DEF Inv, Steady


LEMMA UninstallKeepsInv ==
  ASSUME Inv, (\E i \in Installations : Uninstalls(i)) \/ LeavesGraph
  PROVE  Inv'
<1>1. /\ op.stage \in {"idle", "deactivate"} /\ UNCHANGED kept /\ UNCHANGED aside
      /\ UNCHANGED <<grants, schema>>
  BY DEF Uninstalls, LeavesGraph, kept, aside, Idle
<1>2. /\ grants' \in [Installations -> SUBSET Capabilities] /\ schema' \in [Installations -> Nat]
      /\ store \in [Installations -> FaceType]
  BY <1>1 DEF Inv, TypeOK
<1>3. ASSUME NEW i \in Installations, Uninstalls(i)
      PROVE  Inv'
  <2>1. op' \in StopOps /\ op'.stage = "uninstall" /\ UNCHANGED store
    BY <1>3 DEF Uninstalls, BeginsAt, StopOps, StopStages
  <2> QED BY <1>1, <1>2, <2>1, PlainStepKeepsInv
<1>4. CASE LeavesGraph
  <2>1. op.stage = "deactivate" /\ op.stage \in StopStages
    BY <1>4 DEF LeavesGraph, StopStages
  <2>2. op \in StopOps /\ op.i \in Installations /\ active[op.i] = NoDigest
    BY <2>1, StopTyped DEF Inv, OpKnows
  <2>3. CASE Ends /\ UNCHANGED <<store, graph>>
    BY <1>1, <1>2, <2>3, PlainStepKeepsInv DEF Ends
  <2>4. CASE store' = [store EXCEPT ![op.i] = NoFace] /\ Stage("delete")
    <3>1. NoFace \in FaceType
      BY DEF NoFace, FaceType
    <3>2. store' \in [Installations -> FaceType]
      BY <1>2, <2>2, <2>4, <3>1
    <3>3. op' \in StopOps /\ op'.stage = "delete" /\ op'.i = op.i
      BY <2>2, <2>4, StopStageMoves DEF StopStages
    <3> QED BY <1>1, <1>2, <2>2, <3>2, <3>3, PlainStepKeepsInv
  <2> QED BY <1>4, <2>3, <2>4 DEF LeavesGraph
<1> QED BY <1>3, <1>4

LEMMA DeleteKeepsInv ==
  ASSUME Inv, DeletesInstallation
  PROVE  Inv'
<1>1. /\ op.stage = "delete" /\ op' = Idle /\ UNCHANGED aside /\ UNCHANGED <<active, store>>
  BY DEF DeletesInstallation, Ends, aside
<1>2. op \in StopOps /\ op.i \in Installations /\ active[op.i] = NoDigest
  BY <1>1, StopTyped DEF Inv, OpKnows, StopStages
<1>3. /\ record \in [Installations -> Records] /\ active \in [Installations -> Served]
      /\ grants \in [Installations -> SUBSET Capabilities] /\ schema \in [Installations -> Nat]
  BY DEF Inv, TypeOK
<1>4. CASE UNCHANGED <<record, grants, schema>>
  <2>1. UNCHANGED kept /\ store' \in [Installations -> FaceType]
    BY <1>1, <1>4 DEF kept, aside, Inv, TypeOK
  <2> QED BY <1>1, <1>3, <1>4, <2>1, PlainStepKeepsInv
<1>5. CASE /\ record' = [record EXCEPT ![op.i] = NoRecord]
           /\ grants' = [grants EXCEPT ![op.i] = {}]
           /\ schema' = [schema EXCEPT ![op.i] = 0]
  <2>1. /\ NoRecord \in Records /\ NoRecord.digest = NoDigest /\ NoRecord.lkg = NoDigest
        /\ NoRecord.state = "None"
    BY DEF NoRecord, Records, Served, States
  <2>2. /\ record' \in [Installations -> Records] /\ record'[op.i] = NoRecord
        /\ \A j \in Installations : j # op.i => record'[j] = record[j]
    BY <1>2, <1>3, <1>5, <2>1
  <2>3. /\ grants' \in [Installations -> SUBSET Capabilities]
        /\ schema' \in [Installations -> Nat]
    BY <1>2, <1>3, <1>5
  <2>4. TypeOK'
    BY <1>1, <2>2, <2>3 DEF Inv, TypeOK, aside
  <2>5. \A j \in Installations : ~Busy(j, {"swap"}) /\ ~Busy(j, {"swap", "unserve"})
                                 /\ ~Busy(j, {"record", "swap"})
    BY <1>1 DEF Busy
  <2>6. ServedIsRecorded'
    <3>1. ASSUME NEW j \in Installations, active[j] # NoDigest
          PROVE  record'[j].digest = active[j] /\ record'[j].state \in {"Active", "Draining"}
      BY <1>2, <2>2, <2>5, <3>1 DEF Inv, Steady, ServedIsRecorded
    <3> QED BY <1>1, <3>1 DEF ServedIsRecorded
  <2>7. RollbackTargetIsPrevious'
    <3>1. ASSUME NEW j \in Installations, record'[j].lkg # NoDigest
          PROVE  record'[j].lkg = IF before[j] = NoDigest THEN last[j] ELSE before[j]
      BY <2>1, <2>2, <2>5, <3>1 DEF Inv, Steady, RollbackTargetIsPrevious
    <3> QED BY <1>1, <3>1 DEF RollbackTargetIsPrevious, aside
  <2>8. RecordIsLast'
    <3>1. ASSUME NEW j \in Installations, record'[j].digest # NoDigest
          PROVE  record'[j].digest = last[j]
      BY <2>1, <2>2, <2>5, <3>1 DEF Inv, Steady, RecordIsLast
    <3> QED BY <1>1, <3>1 DEF RecordIsLast, aside
  <2>9. RecordsAreWhole'
    <3>1. ASSUME NEW j \in Installations
          PROVE  /\ record'[j].lkg # NoDigest => record'[j].digest # NoDigest
                 /\ record'[j].state \in {"Active", "Draining", "Disabled"}
                      => record'[j].digest # NoDigest
                 /\ record'[j].digest # NoDigest => j \in ran[record'[j].digest]
                 /\ last[j] = NoDigest => before[j] = NoDigest
      BY <2>1, <2>2, <3>1 DEF Inv, Steady, RecordsAreWhole
    <3> QED BY <1>1, <3>1 DEF RecordsAreWhole, aside
  <2>10. ServedIsActive'
    <3>1. ASSUME NEW j \in Installations, active[j] # NoDigest, record'[j].state = "Active",
                 ran[active[j]] = {j}
          PROVE  candidate[active[j]] = "Active"
      BY <1>2, <2>2, <2>5, <3>1 DEF Inv, Steady, ServedIsActive
    <3> QED BY <1>1, <3>1 DEF ServedIsActive, aside
  <2>11. OpKnows'
    BY <1>1, IdleTyped, StopKnows
  <2> QED BY <2>4, <2>6, <2>7, <2>8, <2>9, <2>10, <2>11 DEF Inv, Steady
<1> QED BY <1>4, <1>5 DEF DeletesInstallation

LEMMA RemovingKeepsInv ==
  ASSUME Inv, StopsServing \/ DrainsRemoved
  PROVE  Inv'
<1>1. CASE StopsServing
  <2>1. /\ op.stage = "unserve" /\ op' = Idle /\ UNCHANGED aside
        /\ UNCHANGED <<record, grants, schema, store>>
        /\ active' = [active EXCEPT ![op.i] = NoDigest]
    BY <1>1 DEF StopsServing, Ends, aside
  <2> QED BY <2>1, RemovalKeepsInv
<1>2. CASE DrainsRemoved
  <2>1. /\ op.stage = "uninstall" /\ UNCHANGED aside
        /\ UNCHANGED <<record, grants, schema, store>>
    BY <1>2 DEF DrainsRemoved, aside
  <2>2. CASE Ends /\ UNCHANGED active
    <3>1. /\ grants' \in [Installations -> SUBSET Capabilities]
          /\ schema' \in [Installations -> Nat] /\ store' \in [Installations -> FaceType]
      BY <2>1 DEF Inv, TypeOK
    <3>2. UNCHANGED kept /\ op' = Idle
      BY <2>1, <2>2 DEF kept, aside, Ends
    <3> QED BY <2>1, <3>1, <3>2, PlainStepKeepsInv
  <2>3. CASE active' = [active EXCEPT ![op.i] = NoDigest] /\ Stage("deactivate")
    BY <2>1, <2>3, RemovalKeepsInv
  <2> QED BY <1>2, <2>2, <2>3 DEF DrainsRemoved
<1> QED BY <1>1, <1>2

-----------------------------------------------------------------------------
(* The theorems.                                                           *)

LEMMA InvInitially == Init => Inv
<1> SUFFICES ASSUME Init PROVE Inv
  OBVIOUS
<1>1. op.stage = "idle" /\ op \in PipelineOps \cup StopOps \cup {Idle}
  BY IdleTyped DEF Init
<1>2. NoRecord \in Records /\ NoFace \in FaceType /\ NoRecord.state = "None"
      /\ NoRecord.digest = NoDigest /\ NoRecord.lkg = NoDigest
  BY DEF NoRecord, Records, Served, States, NoFace, FaceType
<1>3. TypeOK
  BY <1>1, <1>2 DEF Init, TypeOK, Served, States
<1>4. \A i \in Installations : /\ active[i] = NoDigest /\ record[i].digest = NoDigest
                               /\ record[i].lkg = NoDigest /\ record[i].state = "None"
                               /\ before[i] = NoDigest
  BY <1>2 DEF Init
<1>5. Steady
  BY <1>4 DEF Steady, ServedIsRecorded, RollbackTargetIsPrevious, RecordIsLast, RecordsAreWhole,
              ServedIsActive
<1>6. OpKnows
  BY <1>1 DEF OpKnows, InstallKnows, UpgradeKnows, EnableKnows, TargetIsRight, Early, Late
<1> QED BY <1>3, <1>5, <1>6 DEF Inv

LEMMA PipelinesKeepInv ==
  ASSUME Inv, Pipelines
  PROVE  Inv'
<1>1. CASE PersistsCandidate \/ Identifies \/ Registers \/ PassesGate \/ ResolvesImports
  BY <1>1, PersistKeepsInv, JudgingKeepsInv, RegisterKeepsInv
<1>2. CASE RunsSchemaPhase \/ RequestsActivation \/ BecomesReady \/ SavesGrants \/ CommitsGraph
  BY <1>2, SchemaPhaseKeepsInv, ActivatingKeepsInv, WritingKeepsInv
<1>3. CASE RetiresOld \/ WritesRecord \/ SwapsActive \/ DrainsPrevious
  BY <1>3, RetireKeepsInv, RecordKeepsInv, SwapKeepsInv, DrainKeepsInv
<1> QED BY <1>1, <1>2, <1>3, Zenon DEF Pipelines

LEMMA NextKeepsInv ==
  ASSUME Inv, [Next]_vars
  PROVE  Inv'
<1>1. ASSUME NEW i \in Installations, NEW d \in Digests, NEW S \in SUBSET Capabilities,
             Installs(i, d, S)
      PROVE  Inv'
  BY <1>1, RequestsKeepInv
<1>2. ASSUME NEW i \in Installations, NEW d \in Digests, NEW a \in Approvals, Upgrades(i, d, a)
      PROVE  Inv'
  BY <1>2, RequestsKeepInv
<1>3. ASSUME NEW i \in Installations, RollsBack(i) \/ Enables(i)
      PROVE  Inv'
  BY <1>3, RequestsKeepInv
<1>4. ASSUME NEW i \in Installations, Disables(i)
      PROVE  Inv'
  BY <1>4, DisableKeepsInv
<1>5. ASSUME NEW i \in Installations, Uninstalls(i)
      PROVE  Inv'
  BY <1>5, UninstallKeepsInv
<1>6. ASSUME NEW i \in Installations, WritesFirstState(i)
      PROVE  Inv'
  BY <1>6, GrantsPolicyStateKeepInv
<1>7. ASSUME NEW i \in Installations, NEW S \in SUBSET Capabilities, ReplacesGrants(i, S)
      PROVE  Inv'
  BY <1>7, GrantsPolicyStateKeepInv
<1>8. ASSUME NEW p \in Policies, ReplacesPolicy(p)
      PROVE  Inv'
  BY <1>8, GrantsPolicyStateKeepInv
<1>9. CASE Pipelines
  BY <1>9, PipelinesKeepInv
<1>10. CASE DrainsDisabled
  BY <1>10, DisableKeepsInv
<1>11. CASE StopsServing \/ DrainsRemoved
  BY <1>11, RemovingKeepsInv
<1>12. CASE LeavesGraph
  BY <1>12, UninstallKeepsInv
<1>13. CASE DeletesInstallation
  BY <1>13, DeleteKeepsInv
<1>14. CASE UNCHANGED vars
  <2>1. /\ UNCHANGED kept /\ UNCHANGED <<candidate, ran, op>>
        /\ UNCHANGED <<grants, schema, store>>
    BY <1>14 DEF vars, kept
  <2>2. /\ grants' \in [Installations -> SUBSET Capabilities]
        /\ schema' \in [Installations -> Nat]
    BY <2>1 DEF Inv, TypeOK
  <2> QED BY <2>1, <2>2, AsideKeepsInv
<1> QED
  BY <1>1, <1>2, <1>3, <1>4, <1>5, <1>6, <1>7, <1>8, <1>9, <1>10, <1>11, <1>12, <1>13, <1>14,
     Zenon DEF Next

LEMMA InvHolds == Spec => []Inv
BY InvInitially, NextKeepsInv, PTL DEF Spec

\* What an installation serves is what its durable record says, active or draining,
\* between any two steps of any operation, but between the two of a switch.
THEOREM ServedFollowsRecord == Spec => []ServedIsRecorded
<1>1. Inv => ServedIsRecorded
  BY DEF Inv, Steady
<1> QED BY InvHolds, <1>1, PTL

\* After any sequence of upgrades, rollbacks, failures, disables and enables the
\* rollback target is the version served before the one of the record.
THEOREM RollbackReturnsToPrevious == Spec => []RollbackTargetIsPrevious
<1>1. Inv => RollbackTargetIsPrevious
  BY DEF Inv, Steady
<1> QED BY InvHolds, <1>1, PTL

\* Between operations the candidate of a version that is served accepts the drain an
\* upgrade starts, if no other installation ran the pipeline on the same bytes.
THEOREM UpgradeCanLeaveServed == Spec => []ServedCanBeLeft
<1>1. ASSUME Inv
      PROVE  ServedCanBeLeft
  <2>1. ASSUME op = Idle, NEW i \in Installations, active[i] # NoDigest,
               record[i].state = "Active", ran[active[i]] = {i}
        PROVE  Accepts(candidate[active[i]], "DrainStarted")
    <3>1. ~Busy(i, {"record", "swap"})
      BY <2>1, IdleTyped DEF Busy
    <3>2. candidate[active[i]] = "Active"
      BY <1>1, <2>1, <3>1 DEF Inv, Steady, ServedIsActive
    <3> QED BY <3>2, TheMoves
  <2> QED BY <2>1 DEF ServedCanBeLeft
<1> QED BY InvHolds, <1>1, PTL


-----------------------------------------------------------------------------
(* What a graph that could be built says of every need.                    *)

\* Every need of a graph that was built has an edge to a provider that satisfies it.
LEMMA BuiltServesNeeds ==
  ASSUME NEW faces \in [Installations -> FaceType], TryBuild(faces).status = "built",
         NEW i \in Installations, NEW r \in faces[i].requires
  PROVE  \E e \in TryBuild(faces).edges :
           /\ e.consumer = i /\ e.requirement = r /\ e.provider \in Installations
           /\ \E o \in faces[e.provider].provides : Satisfies(o, r)
<1>1. r \in Requirements
  BY DEF FaceType
<1>2. PICK need : need = <<i, r>>
  OBVIOUS
<1>3. need \in Needs(faces) /\ need[1] = i /\ need[2] = r
  BY <1>1, <1>2 DEF Needs
<1>4. ~ \E n \in Needs(faces) : Resolution(faces, n[2]) # "resolved"
  BY DEF TryBuild, NoGraph
<1>5. Resolution(faces, r) = "resolved"
  BY <1>3, <1>4
<1>6. Candidates(faces, r) # {}
  <2>1. Cardinality({}) = 0
    BY FS_EmptySet
  <2> QED BY <1>5, <2>1 DEF Resolution
<1>7. PICK p : p = CHOOSE j \in Installations : j \in Candidates(faces, need[2])
  OBVIOUS
<1>8. p \in Installations /\ p \in Candidates(faces, r)
  BY <1>3, <1>6, <1>7 DEF Candidates
<1>9. \E o \in faces[p].provides : Satisfies(o, r)
  BY <1>8 DEF Candidates
<1>10. PICK e : e = EdgeOf(faces, need)
  OBVIOUS
<1>11. e.consumer = i /\ e.requirement = r /\ e.provider = p
  BY <1>3, <1>7, <1>10 DEF EdgeOf
<1>12. e \in {EdgeOf(faces, n) : n \in Needs(faces)}
  BY <1>3, <1>10
<1>13. TryBuild(faces).edges = {EdgeOf(faces, n) : n \in Needs(faces)}
  BY DEF TryBuild, NoGraph
<1> QED BY <1>8, <1>9, <1>11, <1>12, <1>13

\* The policy takes offers away and leaves every need as it is.
LEMMA NarrowedFaces ==
  ASSUME NEW p, NEW faces \in [Installations -> FaceType]
  PROVE  /\ Narrowed(p, faces) \in [Installations -> FaceType]
         /\ \A i \in Installations :
              /\ Narrowed(p, faces)[i].provides \subseteq faces[i].provides
              /\ Narrowed(p, faces)[i].requires = faces[i].requires
<1>1. \A i \in Installations :
        faces[i].provides \in SUBSET Offers /\ faces[i].requires \in SUBSET Requirements
  BY DEF FaceType
<1>2. ASSUME NEW i \in Installations
      PROVE  /\ Narrowed(p, faces)[i] \in FaceType
             /\ Narrowed(p, faces)[i].provides \subseteq faces[i].provides
             /\ Narrowed(p, faces)[i].requires = faces[i].requires
  <2>1. PICK offers : offers = IF i \in p.excluded THEN {}
                               ELSE {o \in faces[i].provides : p.bound[o.iface] \in {NoBinding, i}}
    OBVIOUS
  <2>2. offers \subseteq faces[i].provides
    BY <2>1
  <2>3. Narrowed(p, faces)[i] = [faces[i] EXCEPT !.provides = offers]
    BY <2>1 DEF Narrowed
  <2>4. faces[i] \in [provides : SUBSET Offers, requires : SUBSET Requirements]
    BY DEF FaceType
  <2> QED BY <1>1, <2>2, <2>3, <2>4 DEF FaceType
<1>3. Narrowed(p, faces) \in [Installations -> FaceType]
  <2>1. \A i \in Installations : Narrowed(p, faces)[i] \in FaceType
    BY <1>2
  <2>2. Narrowed(p, faces) = [i \in Installations |-> Narrowed(p, faces)[i]]
    BY DEF Narrowed
  <2> QED BY <2>1, <2>2
<1> QED BY <1>2, <1>3

LEMMA CandidateServesNeeds ==
  ASSUME NEW p, NEW faces \in [Installations -> FaceType], Candidate(p, faces).status = "built",
         NEW i \in Installations, NEW r \in faces[i].requires
  PROVE  \E e \in Candidate(p, faces).edges :
           /\ e.consumer = i /\ e.requirement = r
           /\ \E o \in faces[e.provider].provides : Satisfies(o, r)
<1>1. Candidate(p, faces) = TryBuild(Narrowed(p, faces))
  BY DEF Candidate, NoGraph
<1>2. PICK narrowed : narrowed = Narrowed(p, faces)
  OBVIOUS
<1>3. /\ narrowed \in [Installations -> FaceType]
      /\ \A j \in Installations : /\ narrowed[j].provides \subseteq faces[j].provides
                                  /\ narrowed[j].requires = faces[j].requires
  BY <1>2, NarrowedFaces
<1>4. TryBuild(narrowed).status = "built" /\ r \in narrowed[i].requires
  BY <1>1, <1>2, <1>3
<1>5. PICK e \in TryBuild(narrowed).edges :
        /\ e.consumer = i /\ e.requirement = r /\ e.provider \in Installations
        /\ \E o \in narrowed[e.provider].provides : Satisfies(o, r)
  BY <1>3, <1>4, BuiltServesNeeds
<1>6. \E o \in faces[e.provider].provides : Satisfies(o, r)
  BY <1>3, <1>5
<1> QED BY <1>1, <1>2, <1>5, <1>6


-----------------------------------------------------------------------------
(* The checks, from the stage that makes each of them to the switch.       *)

LEMMA OutsideIsChecked ==
  ASSUME op'.stage \notin Checking
  PROVE  Checked'
<1>1. op'.stage # "approve"
  BY DEF Checking
<1>2. op'.stage \notin {"retire", "record", "swap"}
  BY DEF Checking, Late
<1> QED BY <1>1, <1>2
        DEF Checked, GrantsChecked, ApprovalChecked, GraphChecked, SchemaChecked

\* Before the permissions, and once the operation has ended, nothing is claimed.
LEMMA EarlyStepsChecked ==
  ASSUME Inv,
         \/ PersistsCandidate \/ Identifies \/ Registers \/ PassesGate
         \/ op' = Idle
  PROVE  Checked'
<1>1. CASE op' = Idle
  BY <1>1, IdleTyped, OutsideIsChecked DEF Checking, Late
<1>2. ASSUME op.stage \in Early, NEW s \in {"identity", "register", "gate", "grants"}, Stage(s)
      PROVE  Checked'
  <2>1. op \in PipelineOps
    BY <1>2, OpKinds DEF Inv
  <2>2. op'.stage = s
    BY <1>2, <2>1, StageMoves DEF Early
  <2> QED BY <1>2, <2>2, OutsideIsChecked DEF Checking, Late
<1>3. CASE PersistsCandidate
  <2>1. op' = Idle \/ (op.stage \in Early /\ Stage("identity"))
    BY <1>3 DEF PersistsCandidate, Ends, Early
  <2> QED BY <1>1, <1>2, <2>1
<1>4. CASE Identifies
  <2>1. op' = Idle \/ (op.stage \in Early /\ Stage("register"))
    BY <1>4 DEF Identifies, Fails, Ends, Early
  <2> QED BY <1>1, <1>2, <2>1
<1>5. CASE Registers
  <2>1. op' = Idle \/ (op.stage \in Early /\ Stage("gate"))
    BY <1>5 DEF Registers, Ends, Early
  <2> QED BY <1>1, <1>2, <2>1
<1>6. CASE PassesGate
  <2>1. op' = Idle \/ (op.stage \in Early /\ Stage("grants"))
    BY <1>6 DEF PassesGate, Fails, Ends, Early
  <2> QED BY <1>1, <1>2, <2>1
<1> QED BY <1>1, <1>3, <1>4, <1>5, <1>6

\* Disable, uninstall and the requests are at no stage of the pipeline behind a check.
LEMMA OtherStepsChecked ==
  ASSUME Inv,
         \/ \E k, i, d, a : Begins(k, i, d, a)
         \/ \E i \in Installations : Disables(i) \/ Uninstalls(i)
         \/ DrainsDisabled \/ StopsServing \/ DrainsRemoved \/ LeavesGraph \/ DeletesInstallation
  PROVE  Checked'
<1>1. CASE op' = Idle
  BY <1>1, IdleTyped, OutsideIsChecked DEF Checking, Late
<1>2. ASSUME op'.stage \in StopStages \cup {"bytes"}
      PROVE  Checked'
  BY <1>2, OutsideIsChecked DEF Checking, Late, StopStages
<1>3. ASSUME NEW k, NEW i, NEW d, NEW a, Begins(k, i, d, a)
      PROVE  Checked'
  <2>1. op'.stage = "bytes"
    BY <1>3 DEF Begins
  <2> QED BY <1>2, <2>1
<1>4. ASSUME NEW i \in Installations, Disables(i) \/ Uninstalls(i)
      PROVE  Checked'
  <2>1. op'.stage \in StopStages
    BY <1>4 DEF Disables, Uninstalls, BeginsAt, StopStages
  <2> QED BY <1>2, <2>1
<1>5. ASSUME op.stage \in StopStages, NEW s \in StopStages, Stage(s)
      PROVE  Checked'
  <2>1. op'.stage = s
    BY <1>5, StopTyped, StopStageMoves DEF Inv
  <2> QED BY <1>2, <1>5, <2>1
<1>6. CASE DrainsDisabled
  <2>1. op' = Idle \/ (op.stage \in StopStages /\ "unserve" \in StopStages /\ Stage("unserve"))
    BY <1>6 DEF DrainsDisabled, Ends, StopStages
  <2> QED BY <1>1, <1>5, <2>1
<1>7. CASE StopsServing \/ DeletesInstallation
  BY <1>1, <1>7 DEF StopsServing, DeletesInstallation, Ends
<1>8. CASE DrainsRemoved
  <2>1. \/ op' = Idle
        \/ op.stage \in StopStages /\ "deactivate" \in StopStages /\ Stage("deactivate")
    BY <1>8 DEF DrainsRemoved, Ends, StopStages
  <2> QED BY <1>1, <1>5, <2>1
<1>9. CASE LeavesGraph
  <2>1. op' = Idle \/ (op.stage \in StopStages /\ "delete" \in StopStages /\ Stage("delete"))
    BY <1>9 DEF LeavesGraph, Ends, StopStages
  <2> QED BY <1>1, <1>5, <2>1
<1> QED BY <1>3, <1>4, <1>6, <1>7, <1>8, <1>9

\* resolve_imports and run_state_schema_phase establish what they check.
LEMMA PermissionsChecked ==
  ASSUME Inv, ResolvesImports
  PROVE  Checked'
<1>1. op.stage = "grants" /\ UNCHANGED grants
  BY DEF ResolvesImports
<1>2. op \in PipelineOps
  BY <1>1, OpKinds DEF Inv, Early
<1>3. \/ op' = Idle
      \/ Uses[op.d] \subseteq Granted /\ Stage("schema")
  BY DEF ResolvesImports, Fails, Ends, Missing
<1>4. CASE Uses[op.d] \subseteq Granted /\ Stage("schema")
  <2>1. op'.stage = "schema" /\ SameOp
    BY <1>2, <1>4, StageMoves DEF Early
  <2>2. Granted' = Granted
    BY <1>1, <2>1 DEF Granted, SameOp
  <2>3. GrantsChecked'
    BY <1>4, <2>1, <2>2 DEF GrantsChecked, SameOp
  <2>4. ApprovalChecked' /\ GraphChecked' /\ SchemaChecked'
    BY <2>1 DEF ApprovalChecked, GraphChecked, SchemaChecked
  <2> QED BY <2>3, <2>4 DEF Checked
<1> QED BY <1>3, <1>4, EarlyStepsChecked

LEMMA SchemaPhaseChecked ==
  ASSUME Inv, Checked, RunsSchemaPhase
  PROVE  Checked'
<1>1. op.stage = "schema" /\ UNCHANGED grants
  BY DEF RunsSchemaPhase
<1>2. op \in PipelineOps /\ op.d \in Digests /\ op.i \in Installations
  BY <1>1, OpKinds, PipelineOpTyped DEF Inv, Early
<1>3. \/ op' = Idle
      \/ /\ ~Downgrade(op.i, op.d)
         /\ schema' = [schema EXCEPT ![op.i] = IF Differs(op.i, op.d) THEN SchemaOf[op.d] ELSE @]
         /\ op' = [op EXCEPT !.stage = "activate", !.empty = schema[op.i] = 0]
  BY DEF RunsSchemaPhase, Fails, Ends
<1>4. CASE /\ schema' = [schema EXCEPT ![op.i] = IF Differs(op.i, op.d) THEN SchemaOf[op.d] ELSE @]
           /\ op' = [op EXCEPT !.stage = "activate", !.empty = schema[op.i] = 0]
  <2>1. op'.stage = "activate" /\ SameOp /\ (op'.empty <=> schema[op.i] = 0)
    BY <1>2, <1>4 DEF PipelineOps, SameOp
  <2>2. schema'[op.i] = IF Differs(op.i, op.d) THEN SchemaOf[op.d] ELSE schema[op.i]
    BY <1>2, <1>4 DEF Inv, TypeOK
  <2>3. \/ SchemaOf[op.d] = 0 \/ schema'[op.i] = SchemaOf[op.d]
        \/ schema[op.i] = 0 /\ schema'[op.i] = 0
    BY <2>2 DEF Differs
  <2>4. SchemaChecked'
    BY <2>1, <2>3 DEF SchemaChecked, SchemaSettled, SameOp
  <2>5. Uses[op.d] \subseteq Granted
    BY <1>1 DEF Checked, GrantsChecked, Checking
  <2>6. Granted' = Granted
    BY <1>1, <2>1 DEF Granted, SameOp
  <2>7. GrantsChecked'
    BY <2>1, <2>5, <2>6 DEF GrantsChecked, SameOp
  <2>8. ApprovalChecked' /\ GraphChecked'
    BY <2>1 DEF ApprovalChecked, GraphChecked
  <2> QED BY <2>4, <2>7, <2>8 DEF Checked
<1> QED BY <1>3, <1>4, EarlyStepsChecked

\* From the readiness to the grants in the store, the checked set stays the same.
LEMMA ActivatingChecked ==
  ASSUME Inv, Checked, RequestsActivation \/ BecomesReady \/ SavesGrants
  PROVE  Checked'
<1>1. op.stage \in {"activate", "ready", "approve"} /\ UNCHANGED <<schema, active>>
  BY DEF RequestsActivation, BecomesReady, SavesGrants
<1>2. op \in PipelineOps /\ op.i \in Installations
  BY <1>1, OpKinds, PipelineOpTyped DEF Inv, Early
<1>3. /\ Uses[op.d] \subseteq Granted
      /\ SchemaSettled(op.i, op.d)
  BY <1>1 DEF Checked, GrantsChecked, SchemaChecked, Checking
<1>4. ASSUME NEW s \in {"ready", "approve", "graph"}, Stage(s),
             s = "approve" => op.approval.explicit,
             Uses[op.d] \subseteq IF s = "graph" THEN grants'[op.i] ELSE Granted'
      PROVE  Checked'
  <2>1. op'.stage = s /\ SameOp /\ op'.empty = op.empty
    BY <1>2, <1>4, StageMoves DEF Early
  <2>2. SchemaChecked'
    BY <1>1, <1>3, <2>1 DEF SchemaChecked, SchemaSettled, SameOp
  <2>3. GrantsChecked'
    BY <1>4, <2>1 DEF GrantsChecked, SameOp
  <2>4. ApprovalChecked' /\ GraphChecked'
    BY <1>4, <2>1 DEF ApprovalChecked, GraphChecked, SameOp
  <2> QED BY <2>2, <2>3, <2>4 DEF Checked
<1>5. ASSUME NEW s \in Early, Stage(s), UNCHANGED grants
      PROVE  Granted' = Granted
  <2>1. SameOp
    BY <1>2, <1>5, StageMoves
  <2> QED BY <1>5, <2>1 DEF Granted, SameOp
<1>6. CASE RequestsActivation
  <2>1. op' = Idle \/ (Stage("ready") /\ UNCHANGED grants)
    BY <1>6 DEF RequestsActivation, Ends
  <2> QED BY <1>3, <1>4, <1>5, <2>1, EarlyStepsChecked DEF Early
<1>7. CASE BecomesReady
  <2>1. \/ op' = Idle
        \/ UNCHANGED grants /\ op.approval.explicit /\ Stage("approve")
        \/ UNCHANGED grants /\ ~op.approval.explicit /\ Stage("graph")
    BY <1>7 DEF BecomesReady, Fails, Ends
  <2>2. CASE UNCHANGED grants /\ op.approval.explicit /\ Stage("approve")
    BY <1>3, <1>4, <1>5, <2>2 DEF Early
  <2>3. CASE UNCHANGED grants /\ ~op.approval.explicit /\ Stage("graph")
    BY <1>3, <1>4, <2>3 DEF Granted
  <2> QED BY <2>1, <2>2, <2>3, EarlyStepsChecked
<1>8. CASE SavesGrants
  <2>1. \/ op' = Idle
        \/ grants' = [grants EXCEPT ![op.i] = op.approval.grants] /\ Stage("graph")
    BY <1>8 DEF SavesGrants, Ends
  <2>2. CASE grants' = [grants EXCEPT ![op.i] = op.approval.grants] /\ Stage("graph")
    <3>1. op.approval.explicit
      BY <1>8 DEF SavesGrants, Checked, ApprovalChecked
    <3>2. grants'[op.i] = Granted
      BY <1>2, <2>2, <3>1 DEF Inv, TypeOK, Granted
    <3> QED BY <1>3, <1>4, <2>2, <3>2
  <2> QED BY <2>1, <2>2, EarlyStepsChecked
<1> QED BY <1>6, <1>7, <1>8

\* The graph that is committed has an edge for every need of the new version.
LEMMA CommitChecked ==
  ASSUME Inv, Checked, CommitsGraph
  PROVE  Checked'
<1>1. op.stage = "graph" /\ UNCHANGED <<grants, schema, active>>
  BY DEF CommitsGraph
<1>2. op \in PipelineOps /\ op.i \in Installations /\ op.d \in Digests
  BY <1>1, OpKinds, PipelineOpTyped DEF Inv, Early
<1>3. /\ Uses[op.d] \subseteq grants[op.i]
      /\ SchemaSettled(op.i, op.d)
  BY <1>1 DEF Checked, GrantsChecked, SchemaChecked, Checking
<1>4. \/ op' = Idle
      \/ /\ Candidacy.status = "built"
         /\ store' = [store EXCEPT ![op.i] = FaceOf[op.d]] /\ graph' = Candidacy
         /\ \E s \in {"retire", "record"} : Stage(s)
  BY DEF CommitsGraph, Fails, Ends
<1>5. CASE /\ Candidacy.status = "built"
           /\ store' = [store EXCEPT ![op.i] = FaceOf[op.d]] /\ graph' = Candidacy
           /\ \E s \in {"retire", "record"} : Stage(s)
  <2>1. PICK s \in {"retire", "record"} : Stage(s)
    BY <1>5
  <2>2. op'.stage = s /\ SameOp /\ op'.empty = op.empty
    BY <1>2, <2>1, StageMoves DEF Late
  <2>3. FaceOf[op.d] \in FaceType /\ store \in [Installations -> FaceType]
    BY <1>2, DigestsAssumption DEF FaceType, Inv, TypeOK
  <2>4. store' \in [Installations -> FaceType] /\ store'[op.i] = FaceOf[op.d]
    BY <1>2, <1>5, <2>3
  <2>5. graph' = Candidate(policy, store') /\ Candidate(policy, store').status = "built"
    BY <1>5 DEF Candidacy
  <2>6. ASSUME NEW r \in FaceOf[op.d].requires
        PROVE  \E e \in graph'.edges : /\ e.consumer = op.i /\ e.requirement = r
                                       /\ \E o \in store'[e.provider].provides : Satisfies(o, r)
    BY <1>2, <2>4, <2>5, CandidateServesNeeds
  <2>7. GraphChecked'
    BY <2>2, <2>4, <2>6 DEF GraphChecked, EdgesServe, SameOp
  <2>8. GrantsChecked' /\ SchemaChecked' /\ ApprovalChecked'
    BY <1>1, <1>3, <2>2 DEF GrantsChecked, SchemaChecked, SchemaSettled,
                                 ApprovalChecked, SameOp
  <2> QED BY <2>7, <2>8 DEF Checked
<1> QED BY <1>4, <1>5, EarlyStepsChecked

\* Nothing that was checked changes between the commit of the graph and the switch.
LEMMA SwitchChecked ==
  ASSUME Inv, Checked, RetiresOld \/ WritesRecord \/ SwapsActive \/ DrainsPrevious
  PROVE  Checked'
<1>1. /\ op.stage \in {"retire", "record", "swap", "drain"}
      /\ UNCHANGED <<grants, schema, store, graph>>
  BY DEF RetiresOld, WritesRecord, SwapsActive, DrainsPrevious
<1>2. op \in PipelineOps
  BY <1>1, OpKinds DEF Inv, Late
<1>3. ASSUME op.stage \in {"retire", "record"}, NEW s \in {"record", "swap"}, Stage(s),
             UNCHANGED active
      PROVE  Checked'
  <2>1. op'.stage = s /\ SameOp /\ op'.empty = op.empty
    BY <1>2, <1>3, StageMoves DEF Late
  <2>2. GrantsChecked'
    BY <1>1, <1>3, <2>1 DEF Checked, GrantsChecked, SameOp, Checking, Late
  <2>3. GraphChecked'
    BY <1>1, <1>3, <2>1 DEF Checked, GraphChecked, EdgesServe, SameOp
  <2>4. SchemaChecked'
    BY <1>1, <1>3, <2>1 DEF Checked, SchemaChecked, SchemaSettled, SameOp, Checking, Late
  <2>5. ApprovalChecked'
    BY <2>1 DEF ApprovalChecked
  <2> QED BY <2>2, <2>3, <2>4, <2>5 DEF Checked
<1>4. CASE RetiresOld
  <2>1. op' = Idle \/ (op.stage = "retire" /\ Stage("record") /\ UNCHANGED active)
    BY <1>4 DEF RetiresOld, Ends
  <2> QED BY <1>3, <2>1, EarlyStepsChecked
<1>5. CASE WritesRecord
  <2>1. op' = Idle \/ (op.stage = "record" /\ Stage("swap") /\ UNCHANGED active)
    BY <1>5 DEF WritesRecord, Ends
  <2> QED BY <1>3, <2>1, EarlyStepsChecked
<1>6. CASE SwapsActive
  <2>1. op' = Idle \/ Stage("drain")
    BY <1>6 DEF SwapsActive, Ends
  <2>2. CASE Stage("drain")
    <3>1. op'.stage = "drain"
      BY <1>2, <2>2, StageMoves DEF Late
    <3> QED BY <3>1 DEF Checked, GrantsChecked, GraphChecked, SchemaChecked, ApprovalChecked
  <2> QED BY <2>1, <2>2, EarlyStepsChecked
<1>7. CASE DrainsPrevious
  BY <1>7, EarlyStepsChecked DEF DrainsPrevious, Ends
<1> QED BY <1>1, <1>4, <1>5, <1>6, <1>7


\* The served version may write its first state at any stage; what was looked at holds.
LEMMA FirstStateChecked ==
  ASSUME Inv, Checked, NEW i \in Installations, WritesFirstState(i)
  PROVE  Checked'
<1>1. /\ active[i] # NoDigest /\ schema[i] = 0
      /\ schema' = [schema EXCEPT ![i] = SchemaOf[active[i]]]
      /\ UNCHANGED <<grants, active, store, graph, op>>
  BY DEF WritesFirstState
<1>2. GrantsChecked'
  BY <1>1 DEF Checked, GrantsChecked, Granted
<1>3. ApprovalChecked' /\ GraphChecked'
  BY <1>1 DEF Checked, ApprovalChecked, GraphChecked, EdgesServe
<1>4. SchemaChecked'
  <2>1. SUFFICES ASSUME op.stage \in Checking \ {"schema", "drain"}
                 PROVE  SchemaSettled(op.i, op.d)'
    BY <1>1 DEF SchemaChecked
  <2>2. SchemaSettled(op.i, op.d)
    BY <2>1 DEF Checked, SchemaChecked
  <2>3. op.i \in Installations
    BY <2>1, OpKinds, PipelineOpTyped DEF Inv, Checking, Early
  <2>4. CASE i = op.i
    <3>1. schema'[i] = SchemaOf[active[i]]
      BY <1>1 DEF Inv, TypeOK
    <3> QED BY <1>1, <2>2, <2>4, <3>1 DEF SchemaSettled
  <2>5. CASE i # op.i
    <3>1. schema'[op.i] = schema[op.i]
      BY <1>1, <2>3, <2>5 DEF Inv, TypeOK
    <3> QED BY <1>1, <2>2, <3>1 DEF SchemaSettled
  <2> QED BY <2>4, <2>5
<1> QED BY <1>2, <1>3, <1>4 DEF Checked

LEMMA NextKeepsChecked ==
  ASSUME Inv, Checked, [Next]_vars
  PROVE  Checked'
<1>1. ASSUME NEW i \in Installations, NEW d \in Digests, NEW S \in SUBSET Capabilities,
             Installs(i, d, S)
      PROVE  Checked'
  <2>1. Begins("install", i, d, [explicit |-> TRUE, grants |-> S])
    BY <1>1 DEF Installs
  <2> QED BY <2>1, OtherStepsChecked
<1>2. ASSUME NEW i \in Installations, NEW d \in Digests, NEW a \in Approvals, Upgrades(i, d, a)
      PROVE  Checked'
  <2>1. Begins("upgrade", i, d, a)
    BY <1>2 DEF Upgrades
  <2> QED BY <2>1, OtherStepsChecked
<1>3. ASSUME NEW i \in Installations, RollsBack(i) \/ Enables(i)
      PROVE  Checked'
  <2>1. \/ Begins("upgrade", i, record[i].lkg, Reuse)
        \/ Begins("enable", i, record[i].digest, Reuse)
    BY <1>3 DEF RollsBack, Enables
  <2> QED BY <2>1, OtherStepsChecked
<1>4. ASSUME NEW i \in Installations, Disables(i) \/ Uninstalls(i)
      PROVE  Checked'
  BY <1>4, OtherStepsChecked
<1>5. ASSUME NEW i \in Installations, WritesFirstState(i)
      PROVE  Checked'
  BY <1>5, FirstStateChecked
<1>6. CASE \/ \E i \in Installations, S \in SUBSET Capabilities : ReplacesGrants(i, S)
           \/ \E p \in Policies : ReplacesPolicy(p)
  <2>1. op' = Idle
    BY <1>6 DEF ReplacesGrants, ReplacesPolicy
  <2> QED BY <2>1, EarlyStepsChecked
<1>7. CASE Pipelines
  <2>1. CASE PersistsCandidate \/ Identifies \/ Registers \/ PassesGate
    BY <2>1, EarlyStepsChecked
  <2>2. CASE ResolvesImports \/ RunsSchemaPhase
    BY <2>2, PermissionsChecked, SchemaPhaseChecked
  <2>3. CASE RequestsActivation \/ BecomesReady \/ SavesGrants
    BY <2>3, ActivatingChecked
  <2>4. CASE CommitsGraph
    BY <2>4, CommitChecked
  <2>5. CASE RetiresOld \/ WritesRecord \/ SwapsActive \/ DrainsPrevious
    BY <2>5, SwitchChecked
  <2> QED BY <1>7, <2>1, <2>2, <2>3, <2>4, <2>5, Zenon DEF Pipelines
<1>8. CASE DrainsDisabled \/ StopsServing \/ DrainsRemoved \/ LeavesGraph \/ DeletesInstallation
  BY <1>8, OtherStepsChecked
<1>9. CASE UNCHANGED vars
  <2>1. UNCHANGED <<grants, schema, active, store, graph, op>>
    BY <1>9 DEF vars
  <2>2. GrantsChecked' /\ ApprovalChecked' /\ GraphChecked' /\ SchemaChecked'
    BY <2>1 DEF Checked, GrantsChecked, Granted, ApprovalChecked, GraphChecked, EdgesServe,
                SchemaChecked, SchemaSettled
  <2> QED BY <2>2 DEF Checked
<1> QED
  BY <1>1, <1>2, <1>3, <1>4, <1>5, <1>6, <1>7, <1>8, <1>9, Zenon DEF Next

LEMMA CheckedInitially == Init => Checked
<1>1. Init => op.stage = "idle"
  BY DEF Init, Idle
<1> QED BY <1>1 DEF Checked, GrantsChecked, ApprovalChecked, GraphChecked, SchemaChecked,
                    Checking, Late

LEMMA CheckedHolds == Spec => [](Inv /\ Checked)
<1>1. Init => Inv /\ Checked
  BY InvInitially, CheckedInitially
<1>2. Inv /\ Checked /\ [Next]_vars => (Inv /\ Checked)'
  BY NextKeepsInv, NextKeepsChecked
<1> QED BY <1>1, <1>2, PTL DEF Spec

\* Only the switch gives an installation another version to serve.
LEMMA OnlySwitchServes ==
  ASSUME Inv, [Next]_vars, ~SwapsActive, NEW i \in Installations
  PROVE  active'[i] \in {active[i], NoDigest}
<1>1. active \in [Installations -> Served]
  BY DEF Inv, TypeOK
<1>2. CASE UNCHANGED active
  BY <1>2
<1>3. CASE StopsServing \/ DrainsRemoved
  <2>1. op.i \in Installations
    BY <1>3, StopTyped DEF Inv, StopsServing, DrainsRemoved, StopStages
  <2>2. active' = active \/ active' = [active EXCEPT ![op.i] = NoDigest]
    BY <1>3 DEF StopsServing, DrainsRemoved
  <2> QED BY <1>1, <2>1, <2>2
<1>4. ASSUME ~StopsServing, ~DrainsRemoved
      PROVE  UNCHANGED active
  <2>1. CASE Pipelines
    <3>1. CASE PersistsCandidate \/ Identifies \/ Registers \/ PassesGate \/ ResolvesImports
      BY <3>1 DEF PersistsCandidate, Identifies, Registers, PassesGate, ResolvesImports
    <3>2. CASE RunsSchemaPhase \/ RequestsActivation \/ BecomesReady \/ SavesGrants
      BY <3>2 DEF RunsSchemaPhase, RequestsActivation, BecomesReady, SavesGrants
    <3>3. CASE CommitsGraph \/ RetiresOld \/ WritesRecord \/ DrainsPrevious
      BY <3>3 DEF CommitsGraph, RetiresOld, WritesRecord, DrainsPrevious
    <3> QED BY <2>1, <3>1, <3>2, <3>3, Zenon DEF Pipelines
  <2>2. ASSUME NEW j, NEW d, NEW S, Installs(j, d, S) PROVE UNCHANGED active
    BY <2>2 DEF Installs, Begins
  <2>3. ASSUME NEW j, NEW d, NEW a, Upgrades(j, d, a) PROVE UNCHANGED active
    BY <2>3 DEF Upgrades, Begins
  <2>4. ASSUME NEW j, RollsBack(j) \/ Enables(j) PROVE UNCHANGED active
    BY <2>4 DEF RollsBack, Enables, Begins
  <2>5. ASSUME NEW j, Disables(j) \/ Uninstalls(j) \/ WritesFirstState(j) PROVE UNCHANGED active
    BY <2>5 DEF Disables, Uninstalls, WritesFirstState
  <2>6. ASSUME NEW j, NEW S, ReplacesGrants(j, S) PROVE UNCHANGED active
    BY <2>6 DEF ReplacesGrants
  <2>7. ASSUME NEW p, ReplacesPolicy(p) PROVE UNCHANGED active
    BY <2>7 DEF ReplacesPolicy
  <2>8. CASE DrainsDisabled \/ LeavesGraph \/ DeletesInstallation
    BY <2>8 DEF DrainsDisabled, LeavesGraph, DeletesInstallation
  <2>9. CASE UNCHANGED vars
    BY <2>9 DEF vars
  <2> QED BY <1>4, <2>1, <2>2, <2>3, <2>4, <2>5, <2>6, <2>7, <2>8, <2>9, Zenon DEF Next
<1> QED BY <1>2, <1>3, <1>4

\* A version that begins to serve has the capabilities it uses, a provider for every need
\* and its own schema, whichever steps failed between the checks and the switch and
\* whatever the served version wrote meanwhile; only a store that was empty when it was
\* looked at may be empty still, or have got the schema of the version that is replaced.
THEOREM ActivationIsChecked == Spec => ActivationWasChecked
<1>1. ASSUME Inv, Checked, [Next]_vars
      PROVE  [\A i \in Installations :
                LET d == active'[i] IN
                d \notin {active[i], NoDigest} =>
                  /\ Uses[d] \subseteq grants[i]
                  /\ store[i] = FaceOf[d]
                  /\ \A r \in FaceOf[d].requires :
                       \E e \in graph.edges :
                         /\ e.consumer = i /\ e.requirement = r
                         /\ \E o \in store[e.provider].provides : Satisfies(o, r)
                  /\ SchemaSettled(i, d)]_vars
  <2>1. ASSUME NEW i \in Installations, active'[i] \notin {active[i], NoDigest}
        PROVE  /\ Uses[active'[i]] \subseteq grants[i]
               /\ store[i] = FaceOf[active'[i]]
               /\ EdgesServe(i, active'[i])
               /\ SchemaSettled(i, active'[i])
    <3>1. SwapsActive
      BY <1>1, <2>1, OnlySwitchServes
    <3>2. op.stage = "swap" /\ active' = [active EXCEPT ![op.i] = op.d]
      BY <3>1 DEF SwapsActive
    <3>3. i = op.i /\ active'[i] = op.d
      <4>1. active \in [Installations -> Served]
        BY <1>1 DEF Inv, TypeOK
      <4> QED BY <2>1, <3>2, <4>1
    <3>4. "swap" \in Checking
      BY DEF Checking, Late
    <3>5. /\ Uses[op.d] \subseteq grants[op.i]
          /\ store[op.i] = FaceOf[op.d] /\ EdgesServe(op.i, op.d)
          /\ SchemaSettled(op.i, op.d)
      BY <1>1, <3>2, <3>4 DEF Checked, GrantsChecked, GraphChecked, SchemaChecked
    <3> QED BY <3>3, <3>5
  <2> QED BY <2>1 DEF EdgesServe
<1> QED BY CheckedHolds, <1>1, PTL DEF Spec, ActivationWasChecked
=============================================================================

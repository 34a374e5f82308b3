-------------------------- MODULE InstanceSetProofs --------------------------
(***************************************************************************)
(* Proofs about InstanceSet for every finite set of threads, every number  *)
(* of slots and every length of the queue: a slot has one holder, no       *)
(* wake-up is lost, and a closed set grants nothing.                       *)
(***************************************************************************)
EXTENDS InstanceSet, FiniteSetTheorems, WellFoundedInduction, TLAPS

\* The threads counted by `waiting', and the threads that are on their way to a
\* slot without having to be woken.
Queued == {t \in Threads : pc[t] \in {"asleep", "woken"}}
OnTheWay == {t \in Threads : pc[t] \in {"woken", "queueing"}}

\* NoLostWakeup, said of these two sets.
QueueInv ==
  /\ waiting = Cardinality(Queued)
  /\ waiting <= MaxQueued
  /\ closed => \A t \in Threads : pc[t] # "asleep"
  /\ (\E t \in Threads : pc[t] = "asleep") => Cardinality(Free) <= Cardinality(OnTheWay)

SetInv == TypeOK /\ OneCallPerSlot /\ QueueInv

LEMMA QueueInvIsNoLostWakeup == QueueInv <=> NoLostWakeup
<1>1. At("asleep") \cup At("woken") = Queued
  BY DEF At, Queued
<1>2. At("woken") \cup At("queueing") = OnTheWay
  BY DEF At, OnTheWay
<1>3. At("asleep") = {} <=> \A t \in Threads : pc[t] # "asleep"
  BY DEF At
<1>4. QED
  BY <1>1, <1>2, <1>3 DEF QueueInv, NoLostWakeup

LEMMA SubsetsOfThreads ==
  ASSUME NEW S \in SUBSET Threads
  PROVE  IsFiniteSet(S) /\ Cardinality(S) \in Nat
<1>1. IsFiniteSet(S)
  BY ThreadsAssumption, FS_Subset
<1>2. QED
  BY <1>1, FS_CardinalityType

LEMMA SubsetsOfSlots ==
  ASSUME NEW S \in SUBSET Slots
  PROVE  IsFiniteSet(S) /\ Cardinality(S) \in Nat
<1>1. IsFiniteSet(Slots)
  BY FS_Interval, BoundsAssumption DEF Slots
<1>2. IsFiniteSet(S)
  BY <1>1, FS_Subset
<1>3. QED
  BY <1>2, FS_CardinalityType

LEMMA SlotsAreNumbers == NoSlot \notin Slots
BY BoundsAssumption DEF Slots, NoSlot

LessThan == {p \in Nat \X Nat : p[1] < p[2]}

LEMMA NotLessThan ==
  ASSUME NEW a \in Nat, NEW b \in Nat, <<a, b>> \notin LessThan
  PROVE  b <= a
<1>1. <<a, b>> \in Nat \X Nat /\ <<a, b>>[1] = a /\ <<a, b>>[2] = b
  OBVIOUS
<1>2. ~(a < b)
  BY <1>1, Zenon DEF LessThan
<1>3. QED
  BY <1>2

LEMMA LessThanWellFounded == IsWellFoundedOn(LessThan, Nat)
BY NatLessThanWellFounded DEF OpToRel, LessThan

\* first_free_index finds a free slot when there is one.
LEMMA FirstFreeIsFree ==
  ASSUME Free # {}
  PROVE  FirstFree \in Free
<1>1. Free \subseteq Nat
  BY BoundsAssumption DEF Free, Slots
<1>2. PICK s \in Free : \A r \in Free : <<r, s>> \notin LessThan
  BY <1>1, LessThanWellFounded, WFMin
<1>3. \A r \in Free : s <= r
  BY <1>1, <1>2, NotLessThan
<1>4. QED
  BY <1>3 DEF FirstFree
-----------------------------------------------------------------------------
(* Type correctness. *)

LEMMA CountersWrap ==
  ASSUME NEW n \in Int
  PROVE  n % CounterSize \in 0..(CounterSize - 1)
BY BoundsAssumption

\* The places a step moves threads to are places.
LEMMA WakingKeepsPlaces ==
  ASSUME NEW where \in [Threads -> Places]
  PROVE  /\ NotifyAll(where) \in [Threads -> Places]
         /\ \A woken \in NotifyOne(where) : woken \in [Threads -> Places]
<1>1. "woken" \in Places
  BY DEF Places
<1>2. QED
  BY <1>1 DEF NotifyAll, NotifyOne

LEMMA TakeEffects ==
  ASSUME TypeOK, NEW t \in Threads, NEW place \in {"leased", "delivering"}, Take(t, place)
  PROVE  /\ FirstFree \in Slots \ busy
         /\ busy' = busy \cup {FirstFree}
         /\ lease' = [lease EXCEPT ![t] = FirstFree]
         /\ pc' = [pc EXCEPT ![t] = place]
         /\ ~closed
         /\ UNCHANGED <<waiting, closed, inFlight, drain>>
<1>1. FirstFree \in Free
  BY FirstFreeIsFree DEF Take
<1>2. QED
  BY <1>1 DEF Take, Free

LEMMA TypeInit == Init => TypeOK
<1>1. 0 \in 0..(CounterSize - 1)
  BY BoundsAssumption
<1>2. [t \in Threads |-> "idle"] \in [Threads -> Places]
  BY DEF Places
<1>3. [t \in Threads |-> NoSlot] \in [Threads -> Slots \cup {NoSlot}]
  OBVIOUS
<1>4. {} \subseteq Slots /\ 0 \in Nat /\ FALSE \in BOOLEAN
  OBVIOUS
<1>5. QED
  BY <1>1, <1>2, <1>3, <1>4, Zenon DEF Init, TypeOK

LEMMA TypeStep == SetInv /\ [Next]_vars => TypeOK'
<1> SUFFICES ASSUME SetInv, [Next]_vars
             PROVE  TypeOK'
  OBVIOUS
<1> USE DEF SetInv
<1>1. ASSUME NEW t \in Threads, NEW place \in {"leased", "delivering"}, Take(t, place)
      PROVE  TypeOK'
  BY <1>1, TakeEffects DEF TypeOK, Places
<1>2. ASSUME NEW t \in Threads, BeginDispatch(t) \/ BeginDelivery(t) PROVE TypeOK'
  BY <1>2, BoundsAssumption DEF BeginDispatch, BeginDelivery, Begin, TypeOK, Places, setVars
<1>3. ASSUME NEW t \in Threads, TryTakes(t) PROVE TypeOK'
  BY <1>1, <1>3 DEF TryTakes
<1>4. ASSUME NEW t \in Threads, DispatchTakes(t) \/ DeliveryTakes(t) PROVE TypeOK'
  BY <1>1, <1>4 DEF DispatchTakes, DeliveryTakes, TypeOK
<1>5. ASSUME NEW t \in Threads, DispatchSleeps(t) PROVE TypeOK'
  BY <1>5 DEF DispatchSleeps, TypeOK, Places
<1>6. ASSUME NEW t \in Threads, DispatchRefused(t) \/ DeliveryRefused(t) \/ SpuriousWakeup(t)
      PROVE  TypeOK'
  BY <1>6 DEF DispatchRefused, DeliveryRefused, SpuriousWakeup, TypeOK, Places, setVars
<1>7. ASSUME NEW t \in Threads, LeaveQueue(t) PROVE TypeOK'
  <2>1. Queued # {} /\ Queued \in SUBSET Threads
    BY <1>7 DEF LeaveQueue, Queued
  <2>2. waiting # 0
    BY <2>1, SubsetsOfThreads, FS_EmptySet DEF QueueInv
  <2>3. waiting - 1 \in Nat
    BY <2>2 DEF TypeOK
  <2>4. QED
    BY <1>7, <2>3 DEF LeaveQueue, TypeOK, Places
<1>8. ASSUME NEW t \in Threads, Release(t) PROVE TypeOK'
  <2> DEFINE left == [pc EXCEPT ![t] = IF pc[t] = "delivering" THEN "leaving" ELSE "idle"]
  <2>1. left \in [Threads -> Places]
    BY DEF TypeOK, Places
  <2>2. pc' \in [Threads -> Places]
    BY <1>8, <2>1, WakingKeepsPlaces DEF Release
  <2>3. QED
    BY <1>8, <2>2 DEF Release, TypeOK
<1>9. ASSUME NEW t \in Threads, DropGuard(t) PROVE TypeOK'
  <2>1. inFlight - 1 \in Int
    BY BoundsAssumption DEF TypeOK
  <2>2. inFlight' \in 0..(CounterSize - 1)
    BY <1>9, <2>1, CountersWrap DEF DropGuard
  <2>3. QED
    BY <1>9, <2>2 DEF DropGuard, TypeOK, Places, setVars
<1>10. CASE DrainCloses
  BY <1>10, WakingKeepsPlaces DEF DrainCloses, TypeOK
<1>11. CASE Drains
  BY <1>11 DEF Drains, DrainSeesNoCall, DrainGivesUp, TypeOK, setVars
<1>12. CASE UNCHANGED vars
  BY <1>12 DEF vars, setVars, TypeOK
<1>13. QED
  BY <1>2, <1>3, <1>4, <1>5, <1>6, <1>7, <1>8, <1>9, <1>10, <1>11, <1>12
     DEF Next, Dispatches, Delivers

-----------------------------------------------------------------------------
(* One call per slot. *)

LEMMA SlotsInit == Init => OneCallPerSlot
BY DEF Init, OneCallPerSlot, Holders

\* A step that touches no slot and no lease, and moves no thread into or out of
\* a call, leaves the holders as they are.
LEMMA SlotsUntouched ==
  ASSUME OneCallPerSlot, UNCHANGED <<busy, lease>>,
         \A t \in Threads : pc'[t] \in {"leased", "delivering"} <=> pc[t] \in {"leased", "delivering"}
  PROVE  OneCallPerSlot'
BY DEF OneCallPerSlot, Holders

LEMMA TakeSlot ==
  ASSUME TypeOK, OneCallPerSlot, NEW t \in Threads, NEW place \in {"leased", "delivering"},
         pc[t] \notin {"leased", "delivering"}, Take(t, place)
  PROVE  OneCallPerSlot'
<1>1. /\ FirstFree \in Slots \ busy /\ FirstFree # NoSlot
      /\ busy' = busy \cup {FirstFree}
      /\ lease' = [lease EXCEPT ![t] = FirstFree]
      /\ pc' = [pc EXCEPT ![t] = place]
  BY TakeEffects, SlotsAreNumbers
<1>2. lease'[t] = FirstFree /\ \A u \in Threads \ {t} : lease'[u] = lease[u]
  BY <1>1 DEF TypeOK
<1>3. pc'[t] = place /\ \A u \in Threads \ {t} : pc'[u] = pc[u]
  BY <1>1 DEF TypeOK
<1>4. lease[t] = NoSlot
  BY DEF OneCallPerSlot
<1>5. Holders' = Holders \cup {t} /\ t \notin Holders
  BY <1>1, <1>2, <1>4 DEF Holders
<1>6. \A u \in Holders : lease'[u] = lease[u] /\ lease[u] \in busy
  BY <1>2, <1>5 DEF OneCallPerSlot, Holders
<1>7. busy' = {lease'[u] : u \in Holders'}
  <2>1. busy = {lease'[u] : u \in Holders}
    BY <1>6 DEF OneCallPerSlot
  <2>2. QED
    BY <1>1, <1>2, <1>5, <2>1
<1>8. \A u, w \in Holders' : lease'[u] = lease'[w] => u = w
  BY <1>1, <1>2, <1>5, <1>6 DEF OneCallPerSlot
<1>9. \A u \in Threads : lease'[u] # NoSlot <=> pc'[u] \in {"leased", "delivering"}
  BY <1>1, <1>2, <1>3 DEF OneCallPerSlot
<1>10. QED
  BY <1>7, <1>8, <1>9 DEF OneCallPerSlot

LEMMA ReleaseSlot ==
  ASSUME TypeOK, OneCallPerSlot, NEW t \in Threads, Release(t)
  PROVE  OneCallPerSlot'
<1> DEFINE left == [pc EXCEPT ![t] = IF pc[t] = "delivering" THEN "leaving" ELSE "idle"]
<1>1. lease'[t] = NoSlot /\ \A u \in Threads \ {t} : lease'[u] = lease[u]
  BY DEF Release, TypeOK
<1>2. \A u \in Threads : pc'[u] \in {"leased", "delivering"} <=> left[u] \in {"leased", "delivering"}
  <2>1. left \in [Threads -> Places]
    BY DEF TypeOK, Places
  <2>2. pc' \in NotifyOne(left)
    BY DEF Release
  <2>3. QED
    BY <2>1, <2>2 DEF NotifyOne
<1>3. Holders' = Holders \ {t} /\ t \in Holders
  BY <1>1 DEF Release, Holders
<1>4. \A u \in Threads \ {t} : left[u] = pc[u]
  BY DEF TypeOK
<1>5. left[t] \notin {"leased", "delivering"}
  BY DEF TypeOK
<1>6. busy' = {lease'[u] : u \in Holders'}
  <2>1. busy' = busy \ {lease[t]}
    BY DEF Release
  <2>2. \A u \in Holders' : u \in Holders /\ u \in Threads \ {t} /\ lease'[u] = lease[u]
    BY <1>1, <1>3 DEF Holders
  <2>3. \A u \in Holders' : lease[u] # lease[t]
    BY <1>3 DEF OneCallPerSlot
  <2>4. busy = {lease[u] : u \in Holders}
    BY DEF OneCallPerSlot
  <2>5. busy' = {lease[u] : u \in Holders'}
    BY <1>3, <2>1, <2>3, <2>4
  <2>6. QED
    BY <2>2, <2>5
<1>7. \A u, w \in Holders' : lease'[u] = lease'[w] => u = w
  BY <1>1, <1>3 DEF OneCallPerSlot, Holders
<1>8. \A u \in Threads : lease'[u] # NoSlot <=> pc'[u] \in {"leased", "delivering"}
  BY <1>1, <1>2, <1>4, <1>5 DEF OneCallPerSlot
<1>9. QED
  BY <1>6, <1>7, <1>8 DEF OneCallPerSlot

LEMMA SlotsStep == SetInv /\ [Next]_vars => OneCallPerSlot'
<1> SUFFICES ASSUME SetInv, [Next]_vars
             PROVE  OneCallPerSlot'
  OBVIOUS
<1> USE DEF SetInv
<1>1. ASSUME NEW t \in Threads, BeginDispatch(t) \/ BeginDelivery(t) PROVE OneCallPerSlot'
  BY <1>1, SlotsUntouched DEF BeginDispatch, BeginDelivery, Begin, setVars, TypeOK
<1>2. ASSUME NEW t \in Threads, TryTakes(t) PROVE OneCallPerSlot'
  BY <1>2, TakeSlot DEF TryTakes
<1>3. ASSUME NEW t \in Threads, DispatchTakes(t) \/ DeliveryTakes(t) PROVE OneCallPerSlot'
  BY <1>3, TakeSlot DEF DispatchTakes, DeliveryTakes
<1>4. ASSUME NEW t \in Threads,
             \/ DispatchSleeps(t) \/ DispatchRefused(t) \/ LeaveQueue(t) \/ SpuriousWakeup(t)
             \/ DeliveryRefused(t) \/ DropGuard(t)
      PROVE  OneCallPerSlot'
  BY <1>4, SlotsUntouched
     DEF DispatchSleeps, DispatchRefused, LeaveQueue, SpuriousWakeup, DeliveryRefused, DropGuard,
         setVars, TypeOK
<1>5. ASSUME NEW t \in Threads, Release(t) PROVE OneCallPerSlot'
  BY <1>5, ReleaseSlot
<1>6. CASE DrainCloses
  BY <1>6, SlotsUntouched DEF DrainCloses, NotifyAll, TypeOK
<1>7. CASE Drains \/ UNCHANGED vars
  BY <1>7, SlotsUntouched DEF Drains, DrainSeesNoCall, DrainGivesUp, vars, setVars
<1>8. QED
  BY <1>1, <1>2, <1>3, <1>4, <1>5, <1>6, <1>7 DEF Next, Dispatches, Delivers

-----------------------------------------------------------------------------
(* The queue. *)

LEMMA QueueInit == Init => QueueInv
<1> SUFFICES ASSUME Init
             PROVE  QueueInv
  OBVIOUS
<1>1. Queued = {} /\ \A t \in Threads : pc[t] # "asleep"
  BY DEF Init, Queued
<1>2. QED
  BY <1>1, FS_EmptySet, BoundsAssumption DEF Init, QueueInv

\* What moving one thread does to the two sets and their cardinalities.
LEMMA MoveOne ==
  ASSUME TypeOK, NEW t \in Threads, NEW place \in Places, pc' = [pc EXCEPT ![t] = place]
  PROVE  /\ pc'[t] = place /\ \A u \in Threads \ {t} : pc'[u] = pc[u]
         /\ Queued' = IF place \in {"asleep", "woken"} THEN Queued \cup {t} ELSE Queued \ {t}
         /\ OnTheWay' = IF place \in {"woken", "queueing"} THEN OnTheWay \cup {t} ELSE OnTheWay \ {t}
<1>1. pc'[t] = place /\ \A u \in Threads \ {t} : pc'[u] = pc[u]
  BY DEF TypeOK
<1>2. QED
  BY <1>1 DEF Queued, OnTheWay

LEMMA Sizes ==
  ASSUME NEW S \in SUBSET Threads, NEW t
  PROVE  /\ Cardinality(S) \in Nat
         /\ Cardinality(S \cup {t}) = IF t \in S THEN Cardinality(S) ELSE Cardinality(S) + 1
         /\ Cardinality(S \ {t}) = IF t \in S THEN Cardinality(S) - 1 ELSE Cardinality(S)
BY SubsetsOfThreads, FS_AddElement, FS_RemoveElement

LEMMA SizesAreClose ==
  ASSUME NEW S \in SUBSET Threads, NEW t
  PROVE  /\ Cardinality(S) \in Nat
         /\ Cardinality(S \cup {t}) \in {Cardinality(S), Cardinality(S) + 1}
         /\ Cardinality(S \ {t}) \in {Cardinality(S), Cardinality(S) - 1}
BY Sizes

LEMMA SetsOfThreads == Queued \in SUBSET Threads /\ OnTheWay \in SUBSET Threads
BY DEF Queued, OnTheWay

LEMMA FreeSize == Cardinality(Free) \in Nat
BY SubsetsOfSlots DEF Free

LEMMA TakeKeepsQueue ==
  ASSUME TypeOK, QueueInv, NEW t \in Threads, NEW place \in {"leased", "delivering"},
         pc[t] \notin {"asleep", "woken"}, Take(t, place)
  PROVE  QueueInv'
<1>1. /\ FirstFree \in Free
      /\ busy' = busy \cup {FirstFree}
      /\ pc' = [pc EXCEPT ![t] = place]
      /\ UNCHANGED <<waiting, closed>>
  BY TakeEffects DEF Free
<1>2. place \in Places
  BY DEF Places
<1>3. /\ pc'[t] = place /\ \A u \in Threads \ {t} : pc'[u] = pc[u]
      /\ Queued' = Queued /\ OnTheWay' = OnTheWay \ {t}
  BY <1>1, <1>2, MoveOne DEF Queued
<1>4. Cardinality(Free') = Cardinality(Free) - 1
  <2>1. Free' = Free \ {FirstFree} /\ IsFiniteSet(Free)
    BY <1>1, SubsetsOfSlots DEF Free
  <2>2. QED
    BY <1>1, <2>1, FS_RemoveElement
<1>5. Cardinality(OnTheWay') >= Cardinality(OnTheWay) - 1
  <2>1. /\ Cardinality(OnTheWay) \in Nat
        /\ Cardinality(OnTheWay \ {t}) \in {Cardinality(OnTheWay), Cardinality(OnTheWay) - 1}
    BY SizesAreClose, SetsOfThreads
  <2>2. QED
    BY <1>3, <2>1
<1>6. (\E u \in Threads : pc'[u] = "asleep") => Cardinality(Free') <= Cardinality(OnTheWay')
  <2>1. ASSUME NEW u \in Threads, pc'[u] = "asleep" PROVE pc[u] = "asleep"
    BY <1>3, <2>1
  <2>2. Cardinality(OnTheWay') \in Nat /\ Cardinality(OnTheWay) \in Nat
    BY <1>3, Sizes, SetsOfThreads, SubsetsOfThreads
  <2>3. QED
    BY <1>4, <1>5, <2>1, <2>2, FreeSize DEF QueueInv
<1>7. closed' => \A u \in Threads : pc'[u] # "asleep"
  BY <1>1, <1>3 DEF QueueInv
<1>8. QED
  BY <1>1, <1>3, <1>6, <1>7 DEF QueueInv

LEMMA SleepKeepsQueue ==
  ASSUME TypeOK, QueueInv, NEW t \in Threads, DispatchSleeps(t)
  PROVE  QueueInv'
<1>1. Queued' = Queued \cup {t} /\ t \notin Queued
  BY MoveOne DEF DispatchSleeps, Places, Queued
<1>2. waiting' = Cardinality(Queued') /\ waiting' <= MaxQueued
  <2>1. waiting + 1 <= MaxQueued
    BY BoundsAssumption DEF DispatchSleeps, TypeOK
  <2>2. QED
    BY <1>1, <2>1, Sizes, SetsOfThreads DEF QueueInv, DispatchSleeps
<1>3. Cardinality(Free') = 0
  BY FS_EmptySet DEF DispatchSleeps, Free
<1>4. Cardinality(OnTheWay') \in Nat
  <2>1. OnTheWay' \in SUBSET Threads
    BY DEF OnTheWay
  <2>2. QED
    BY <2>1, SubsetsOfThreads
<1>5. QED
  BY <1>2, <1>3, <1>4 DEF QueueInv, DispatchSleeps

\* A waiter leaves the queue and asks again: it stays on its way.
LEMMA LeaveKeepsQueue ==
  ASSUME TypeOK, QueueInv, NEW t \in Threads, LeaveQueue(t)
  PROVE  QueueInv'
<1>1. /\ pc'[t] = "queueing" /\ \A u \in Threads \ {t} : pc'[u] = pc[u]
      /\ Queued' = Queued \ {t} /\ OnTheWay' = OnTheWay /\ t \in Queued
  BY MoveOne DEF LeaveQueue, Places, Queued, OnTheWay
<1>2. waiting' = Cardinality(Queued') /\ waiting' <= MaxQueued
  <2>1. Cardinality(Queued') = Cardinality(Queued) - 1
    BY <1>1, Sizes, SetsOfThreads
  <2>2. waiting' = waiting - 1 /\ waiting \in Nat /\ waiting <= MaxQueued
        /\ waiting = Cardinality(Queued)
    BY DEF QueueInv, LeaveQueue, TypeOK
  <2>3. QED
    BY <2>1, <2>2, BoundsAssumption
<1>3. \A u \in Threads : pc'[u] = "asleep" => pc[u] = "asleep"
  BY <1>1
<1>4. QED
  BY <1>1, <1>2, <1>3 DEF QueueInv, LeaveQueue, Free

\* A thread that does not sleep goes somewhere where it neither sleeps nor is
\* counted, and the slots stay: a set that is closed or full has nothing to wake
\* anybody for.
LEMMA MoveKeepsQueue ==
  ASSUME TypeOK, QueueInv, NEW t \in Threads, NEW place \in Places,
         pc' = [pc EXCEPT ![t] = place], UNCHANGED <<busy, waiting, closed>>,
         pc[t] \in {"asleep", "woken"} <=> place \in {"asleep", "woken"},
         place # "asleep",
         pc[t] = "queueing" => closed \/ Free = {}
  PROVE  QueueInv'
<1>1. /\ pc'[t] = place /\ \A u \in Threads \ {t} : pc'[u] = pc[u]
      /\ Queued' = Queued
  BY MoveOne DEF Queued
<1>2. \A u \in Threads : pc'[u] = "asleep" => pc[u] = "asleep"
  BY <1>1
<1>3. (\E u \in Threads : pc'[u] = "asleep") => Cardinality(Free') <= Cardinality(OnTheWay')
  <2> SUFFICES ASSUME NEW u \in Threads, pc'[u] = "asleep"
               PROVE  Cardinality(Free') <= Cardinality(OnTheWay')
    OBVIOUS
  <2>1. ~closed /\ Cardinality(Free) <= Cardinality(OnTheWay)
    BY <1>2 DEF QueueInv
  <2>2. Free' = Free
    BY DEF Free
  <2>3. OnTheWay' \in SUBSET Threads
    BY DEF OnTheWay
  <2>4. CASE Free = {}
    BY <2>2, <2>3, <2>4, FS_EmptySet, SubsetsOfThreads
  <2>5. CASE pc[t] # "queueing"
    <3>1. OnTheWay' = OnTheWay \/ OnTheWay' = OnTheWay \cup {t}
      BY <1>1, <2>5 DEF OnTheWay
    <3>2. Cardinality(OnTheWay') >= Cardinality(OnTheWay)
      <4>1. Cardinality(OnTheWay) \in Nat
        BY SizesAreClose, SetsOfThreads
      <4>2. Cardinality(OnTheWay \cup {t}) \in {Cardinality(OnTheWay), Cardinality(OnTheWay) + 1}
        BY SizesAreClose, SetsOfThreads
      <4>3. QED
        BY <3>1, <4>1, <4>2
    <3>3. QED
      BY <2>1, <2>2, <2>3, <3>2, FreeSize, SubsetsOfThreads, SetsOfThreads
  <2>6. QED
    BY <2>1, <2>4, <2>5
<1>4. QED
  BY <1>1, <1>2, <1>3 DEF QueueInv

LEMMA SpuriousKeepsQueue ==
  ASSUME TypeOK, QueueInv, NEW t \in Threads, SpuriousWakeup(t)
  PROVE  QueueInv'
<1>1. /\ pc'[t] = "woken" /\ \A u \in Threads \ {t} : pc'[u] = pc[u]
      /\ Queued' = Queued /\ OnTheWay' = OnTheWay \cup {t}
  BY MoveOne DEF SpuriousWakeup, Places, Queued
<1>2. /\ Cardinality(OnTheWay) \in Nat /\ Cardinality(OnTheWay') \in Nat
      /\ Cardinality(OnTheWay') >= Cardinality(OnTheWay)
  <2>1. Cardinality(OnTheWay) \in Nat
    BY Sizes, SetsOfThreads
  <2>2. Cardinality(OnTheWay \cup {t}) \in {Cardinality(OnTheWay), Cardinality(OnTheWay) + 1}
    BY Sizes, SetsOfThreads
  <2>3. QED
    BY <1>1, <2>1, <2>2
<1>3. Cardinality(Free) <= Cardinality(OnTheWay)
  BY DEF QueueInv, SpuriousWakeup
<1>4. Cardinality(Free') <= Cardinality(OnTheWay')
  BY <1>2, <1>3, FreeSize DEF SpuriousWakeup, setVars, Free
<1>5. \A u \in Threads : pc'[u] = "asleep" => pc[u] = "asleep"
  BY <1>1
<1>6. QED
  BY <1>1, <1>4, <1>5 DEF QueueInv, SpuriousWakeup, setVars

\* The slot that comes free wakes a sleeper, if there is one.
LEMMA ReleaseKeepsQueue ==
  ASSUME TypeOK, OneCallPerSlot, QueueInv, NEW t \in Threads, Release(t)
  PROVE  QueueInv'
<1> DEFINE left == [pc EXCEPT ![t] = IF pc[t] = "delivering" THEN "leaving" ELSE "idle"]
<1>1. pc[t] \in {"leased", "delivering"} /\ lease[t] \in busy
  BY DEF Release, OneCallPerSlot, Holders
<1>2. left \in [Threads -> Places] /\ \A u \in Threads \ {t} : left[u] = pc[u]
  BY DEF TypeOK, Places
<1>3. left[t] \in {"idle", "leaving"}
  BY DEF TypeOK
<1>4. \/ pc' = left /\ \A u \in Threads : left[u] # "asleep"
      \/ \E u \in Threads : left[u] = "asleep" /\ pc' = [left EXCEPT ![u] = "woken"]
  BY DEF Release, NotifyOne
<1>5. Cardinality(Free') = Cardinality(Free) + 1
  <2>1. lease[t] \in Slots \ Free /\ Free' = Free \cup {lease[t]}
    BY <1>1 DEF Release, Free, TypeOK
  <2>2. IsFiniteSet(Free)
    BY SubsetsOfSlots DEF Free
  <2>3. QED
    BY <2>1, <2>2, FS_AddElement
<1>6. Queued' = Queued
  BY <1>1, <1>2, <1>3, <1>4 DEF Queued
<1>7. \A u \in Threads : pc'[u] = "asleep" => pc[u] = "asleep"
  BY <1>2, <1>3, <1>4
<1>8. (\E u \in Threads : pc'[u] = "asleep") => Cardinality(Free') <= Cardinality(OnTheWay')
  <2> SUFFICES ASSUME NEW s \in Threads, pc'[s] = "asleep"
               PROVE  Cardinality(Free') <= Cardinality(OnTheWay')
    OBVIOUS
  <2>1. PICK u \in Threads : left[u] = "asleep" /\ pc' = [left EXCEPT ![u] = "woken"]
    BY <1>4
  <2>2. OnTheWay' = OnTheWay \cup {u} /\ u \notin OnTheWay
    BY <1>1, <1>2, <1>3, <2>1 DEF OnTheWay
  <2>3. Cardinality(OnTheWay') = Cardinality(OnTheWay) + 1 /\ Cardinality(OnTheWay) \in Nat
    BY <2>2, Sizes, SetsOfThreads
  <2>4. Cardinality(Free) <= Cardinality(OnTheWay)
    BY <1>7 DEF QueueInv
  <2>5. QED
    BY <1>5, <2>3, <2>4, FreeSize
<1>9. QED
  BY <1>6, <1>7, <1>8 DEF QueueInv, Release

LEMMA CloseKeepsQueue ==
  ASSUME TypeOK, QueueInv, DrainCloses
  PROVE  QueueInv'
<1>1. \A u \in Threads : pc'[u] = IF pc[u] = "asleep" THEN "woken" ELSE pc[u]
  BY DEF DrainCloses, NotifyAll
<1>2. Queued' = Queued /\ \A u \in Threads : pc'[u] # "asleep"
  BY <1>1 DEF Queued
<1>3. QED
  BY <1>2 DEF QueueInv, DrainCloses

LEMMA QueueStep == SetInv /\ [Next]_vars => QueueInv'
<1> SUFFICES ASSUME SetInv, [Next]_vars
             PROVE  QueueInv'
  OBVIOUS
<1> USE DEF SetInv
<1>1. ASSUME NEW t \in Threads, BeginDispatch(t) \/ BeginDelivery(t) PROVE QueueInv'
  <2>1. PICK place \in {"queueing", "delivery"} : Begin(t, place)
    BY <1>1 DEF BeginDispatch, BeginDelivery
  <2>2. place \in Places
    BY DEF Places
  <2>3. QED
    BY <2>1, <2>2, MoveKeepsQueue DEF Begin, setVars
<1>2. ASSUME NEW t \in Threads, TryTakes(t) PROVE QueueInv'
  BY <1>2, TakeKeepsQueue DEF TryTakes
<1>3. ASSUME NEW t \in Threads, DispatchTakes(t) \/ DeliveryTakes(t) PROVE QueueInv'
  BY <1>3, TakeKeepsQueue DEF DispatchTakes, DeliveryTakes
<1>4. ASSUME NEW t \in Threads, DispatchSleeps(t) PROVE QueueInv'
  BY <1>4, SleepKeepsQueue
<1>5. ASSUME NEW t \in Threads, DispatchRefused(t) \/ DeliveryRefused(t) \/ DropGuard(t)
      PROVE  QueueInv'
  <2>1. PICK place \in {"idle", "leaving"} :
          pc' = [pc EXCEPT ![t] = place] /\ UNCHANGED <<busy, waiting, closed>>
    BY <1>5 DEF DispatchRefused, DeliveryRefused, DropGuard, setVars
  <2>2. place \in Places
    BY DEF Places
  <2>3. pc[t] \notin {"asleep", "woken"} /\ (pc[t] = "queueing" => closed \/ Free = {})
    BY <1>5 DEF DispatchRefused, DeliveryRefused, DropGuard
  <2>4. QED
    BY <2>1, <2>2, <2>3, MoveKeepsQueue
<1>6. ASSUME NEW t \in Threads, LeaveQueue(t) PROVE QueueInv'
  BY <1>6, LeaveKeepsQueue
<1>7. ASSUME NEW t \in Threads, SpuriousWakeup(t) PROVE QueueInv'
  BY <1>7, SpuriousKeepsQueue
<1>8. ASSUME NEW t \in Threads, Release(t) PROVE QueueInv'
  BY <1>8, ReleaseKeepsQueue
<1>9. CASE DrainCloses
  BY <1>9, CloseKeepsQueue
<1>10. CASE Drains \/ UNCHANGED vars
  BY <1>10 DEF Drains, DrainSeesNoCall, DrainGivesUp, vars, setVars, QueueInv, Queued, OnTheWay, Free
<1>11. QED
  BY <1>1, <1>2, <1>3, <1>4, <1>5, <1>6, <1>7, <1>8, <1>9, <1>10 DEF Next, Dispatches, Delivers

-----------------------------------------------------------------------------
(* The theorems. *)

LEMMA InvHolds == Spec => []SetInv
<1>1. Init => SetInv
  BY TypeInit, SlotsInit, QueueInit DEF SetInv
<1>2. SetInv /\ [Next]_vars => SetInv'
  BY TypeStep, SlotsStep, QueueStep DEF SetInv
<1>3. QED
  BY <1>1, <1>2, PTL DEF Spec

\* Every variable keeps its type; the counter of in-flight calls too, which is
\* taken from and never added to, because it wraps (InFlightGuard::drop).
THEOREM TypeCorrect == Spec => []TypeOK
<1>1. SetInv => TypeOK
  BY DEF SetInv
<1>2. QED
  BY <1>1, InvHolds, PTL

\* At most one call runs in an instance, and no slot is lost (dispatch,
\* try_dispatch, release).
THEOREM SlotsHaveOneHolder == Spec => []OneCallPerSlot
<1>1. SetInv => OneCallPerSlot
  BY DEF SetInv
<1>2. QED
  BY <1>1, InvHolds, PTL

\* The queue is counted and bounded, and while a thread sleeps every free slot
\* has a thread on its way to it (dispatch, release, close).
THEOREM WakeupsAreNotLost == Spec => []NoLostWakeup
<1>1. SetInv => NoLostWakeup
  BY QueueInvIsNoLostWakeup DEF SetInv
<1>2. QED
  BY <1>1, InvHolds, PTL

\* A closed set stays closed and hands out no slot, whichever way it is asked
\* (dispatch, try_dispatch, close).
THEOREM ClosedStaysClosed == Spec => ClosedGrantsNothing
<1>1. [Next]_vars => [closed => closed' /\ busy' \subseteq busy]_vars
  <2> SUFFICES ASSUME [Next]_vars, closed
               PROVE  closed' /\ busy' \subseteq busy
    OBVIOUS
  <2>1. ASSUME NEW t \in Threads, NEW place, Take(t, place) PROVE FALSE
    BY <2>1 DEF Take
  <2>2. ASSUME NEW t \in Threads, TryTakes(t) \/ DispatchTakes(t) \/ DeliveryTakes(t) PROVE FALSE
    BY <2>1, <2>2 DEF TryTakes, DispatchTakes, DeliveryTakes
  <2>3. QED
    BY <2>2
       DEF Next, Dispatches, Delivers, BeginDispatch, BeginDelivery, Begin, DispatchSleeps,
           DispatchRefused, LeaveQueue, SpuriousWakeup, DeliveryRefused, DropGuard, Release,
           DrainCloses, Drains, DrainSeesNoCall, DrainGivesUp, vars, setVars
<1>2. QED
  BY <1>1, PTL DEF Spec, ClosedGrantsNothing
=============================================================================

---------------------------- MODULE WebBridgeProofs ----------------------------
(***************************************************************************)
(* Proofs about WebBridge for every finite set of requests, every sequence *)
(* of runtimes and all limits: the bytes that are served are those of a    *)
(* digest that was active during the request, and the slots of the two     *)
(* quotas are held by exactly the requests that are inside them.           *)
(***************************************************************************)
EXTENDS WebBridge, FiniteSetTheorems, TLAPS

\* The places where a handler holds the entry of a runtime.
Holding == {"missed", "reading", "bound", "admitted", "begun", "calling"}

\* What a handler knows: the entry it holds, if it is to hold one, is that of a
\* runtime that was active; the runtime that is active now was seen by everybody who
\* has not answered; and nothing is answered before the end.
Knows(r) ==
  /\ at[r] \in Holding <=> seen[r] # Nothing
  /\ seen[r] # Nothing => Digest[seen[r]] \in sawActive[r]
  /\ IsActive /\ at[r] # "answered" => Digest[active] \in sawActive[r]
  /\ at[r] \notin {"returned", "answered"} => answer[r] = None
  /\ answer[r] \in Digests => answer[r] \in sawActive[r]

DigestInv ==
  /\ \A c \in cache : c.bytes = c.digest
  /\ \A r \in Requests : Knows(r)

\* The requests inside the gate and those that hold a slot of the quota.
Inside == {"inside", "bound", "admitted", "begun", "calling", "returned"}
Calling == {"begun", "calling"}
RoutesIn(places) == {r \in In(places) : kind[r] = "route"}

SlotInv ==
  /\ gate = Cardinality(In(Inside))
  /\ quota.queued = Cardinality(RoutesIn({"admitted"}))
  /\ quota.inFlight = Cardinality(RoutesIn(Calling))
  /\ quota.queued + quota.inFlight <= QuotaConcurrent
  /\ \A r \in Requests : at[r] = "admitted" => kind[r] = "route"

BridgeInv == TypeOK /\ DigestInv /\ SlotInv

LEMMA DigestsOfRuntimes == \A v \in Runtimes : Digest[v] \in Digests
BY DEF Digests

LEMMA NothingIsNoRuntime == Nothing \notin Runtimes /\ 1 \in Runtimes
BY DigestAssumption DEF Nothing, Runtimes

LEMMA SlotInvIsSlotsComeBack == SlotInv => SlotsComeBack
<1> SUFFICES ASSUME SlotInv PROVE SlotsComeBack
  OBVIOUS
<1>1. RoutesIn({"admitted"}) = In({"admitted"})
  BY DEF SlotInv, RoutesIn, In
<1>2. RoutesIn(Calling) = {r \in In({"begun", "calling"}) : kind[r] = "route"}
  BY DEF RoutesIn, Calling
<1>3. QED
  BY <1>1, <1>2 DEF SlotInv, SlotsComeBack, Inside

-----------------------------------------------------------------------------
(* Counting: a request that moves changes the number at a set of places by *)
(* one or by nothing.                                                      *)

LEMMA Counts ==
  ASSUME NEW S \in SUBSET Requests
  PROVE  IsFiniteSet(S) /\ Cardinality(S) \in Nat
<1>1. IsFiniteSet(S)
  BY RequestsAssumption, FS_Subset
<1>2. QED
  BY <1>1, FS_CardinalityType

LEMMA CountAfterMove ==
  ASSUME NEW S \in SUBSET Requests, NEW T \in SUBSET Requests, NEW r \in Requests,
         \A q \in Requests \ {r} : q \in S <=> q \in T
  PROVE  /\ Cardinality(T) = Cardinality(S) + (IF r \in T THEN 1 ELSE 0)
                                            - (IF r \in S THEN 1 ELSE 0)
         /\ r \in S => Cardinality(S) > 0
<1>1. IsFiniteSet(S) /\ Cardinality(S) \in Nat
  BY Counts
<1>2. CASE r \in S /\ r \in T
  <2>1. S = T
    BY <1>2
  <2>2. S # {} /\ Cardinality(S) # 0
    BY <1>1, <1>2, FS_EmptySet
  <2>3. QED
    BY <1>1, <1>2, <2>1, <2>2
<1>3. CASE r \notin S /\ r \notin T
  <2>1. S = T
    BY <1>3
  <2>2. QED
    BY <1>1, <1>3, <2>1
<1>4. CASE r \notin S /\ r \in T
  <2>1. T = S \cup {r}
    BY <1>4
  <2>2. Cardinality(S \cup {r}) = Cardinality(S) + 1
    BY <1>1, <1>4, FS_AddElement
  <2>3. QED
    BY <1>1, <1>4, <2>1, <2>2
<1>5. CASE r \in S /\ r \notin T
  <2>1. T = S \ {r}
    BY <1>5
  <2>2. Cardinality(S \ {r}) = Cardinality(S) - 1
    BY <1>1, <1>5, FS_RemoveElement
  <2>3. S # {} /\ Cardinality(S) # 0
    BY <1>1, <1>5, FS_EmptySet
  <2>4. QED
    BY <1>1, <1>5, <2>1, <2>2, <2>3
<1>6. QED
  BY <1>2, <1>3, <1>4, <1>5

LEMMA InIsCounted ==
  ASSUME NEW places
  PROVE  /\ In(places) \in SUBSET Requests
         /\ RoutesIn(places) \in SUBSET Requests
         /\ In(places)' \in SUBSET Requests
         /\ RoutesIn(places)' \in SUBSET Requests
BY DEF In, RoutesIn

LEMMA MoveCounts ==
  ASSUME TypeOK, NEW r \in Requests, NEW p \in Places, NEW places,
         at' = [at EXCEPT ![r] = p], kind' = kind
  PROVE  /\ Cardinality(In(places)') =
               Cardinality(In(places)) + (IF p \in places THEN 1 ELSE 0)
                                       - (IF at[r] \in places THEN 1 ELSE 0)
         /\ Cardinality(RoutesIn(places)') =
               Cardinality(RoutesIn(places))
                 + (IF p \in places /\ kind[r] = "route" THEN 1 ELSE 0)
                 - (IF at[r] \in places /\ kind[r] = "route" THEN 1 ELSE 0)
         /\ Cardinality(In(places)') \in Nat
         /\ Cardinality(RoutesIn(places)') \in Nat
<1>1. \A q \in Requests \ {r} : at'[q] = at[q] /\ at'[r] = p
  BY DEF TypeOK
<1>2. at'[r] = p
  BY DEF TypeOK
<1>3. \A q \in Requests \ {r} : q \in In(places) <=> q \in In(places)'
  BY <1>1 DEF In
<1>4. (r \in In(places) <=> at[r] \in places) /\ (r \in In(places)' <=> p \in places)
  BY <1>2 DEF In
<1>5. \A q \in Requests \ {r} : q \in RoutesIn(places) <=> q \in RoutesIn(places)'
  BY <1>3 DEF RoutesIn
<1>6. /\ r \in RoutesIn(places) <=> at[r] \in places /\ kind[r] = "route"
      /\ r \in RoutesIn(places)' <=> p \in places /\ kind[r] = "route"
  BY <1>4 DEF RoutesIn
<1>7. /\ Cardinality(In(places)') =
           Cardinality(In(places)) + (IF r \in In(places)' THEN 1 ELSE 0)
                                   - (IF r \in In(places) THEN 1 ELSE 0)
      /\ Cardinality(RoutesIn(places)') =
           Cardinality(RoutesIn(places)) + (IF r \in RoutesIn(places)' THEN 1 ELSE 0)
                                         - (IF r \in RoutesIn(places) THEN 1 ELSE 0)
  BY <1>3, <1>5, InIsCounted, CountAfterMove
<1>8. Cardinality(In(places)') \in Nat /\ Cardinality(RoutesIn(places)') \in Nat
  BY InIsCounted, Counts
<1>9. QED
  BY <1>4, <1>6, <1>7, <1>8

\* One request moves to p, and both counters follow it.
Moved(r, p) ==
  /\ at' = [at EXCEPT ![r] = p]
  /\ kind' = kind
  /\ gate' = gate + (IF p \in Inside THEN 1 ELSE 0) - (IF at[r] \in Inside THEN 1 ELSE 0)
  /\ gate' <= GateInFlight
  /\ quota' \in [queued : Int, inFlight : Int]
  /\ quota'.queued = quota.queued + (IF p = "admitted" THEN 1 ELSE 0)
                                  - (IF at[r] = "admitted" THEN 1 ELSE 0)
  /\ quota'.inFlight = quota.inFlight
        + (IF p \in Calling /\ kind[r] = "route" THEN 1 ELSE 0)
        - (IF at[r] \in Calling /\ kind[r] = "route" THEN 1 ELSE 0)
  /\ p = "admitted" => kind[r] = "route" /\ HasRoom
  /\ p = "begun" /\ kind[r] = "route" => at[r] \in {"admitted", "begun", "calling"}
  /\ p = "calling" => at[r] \in {"begun", "calling"}

\* What a step keeps of the slots.
SlotsKept ==
  /\ SlotInv'
  /\ gate' \in 0..GateInFlight
  /\ quota' \in [queued : 0..QuotaQueued, inFlight : 0..QuotaConcurrent]

LEMMA SlotsAfterMove ==
  ASSUME BridgeInv, NEW r \in Requests, NEW p \in Places, Moved(r, p)
  PROVE  SlotsKept
<1> USE DEF Moved
<1>1. gate \in Nat /\ quota.queued \in Nat /\ quota.inFlight \in Nat /\ quota.queued <= QuotaQueued
  BY LimitsAssumption DEF BridgeInv, TypeOK
<1>2. gate' = Cardinality(In(Inside)') /\ Cardinality(In(Inside)') \in Nat
  <2>1. /\ Cardinality(In(Inside)') =
             Cardinality(In(Inside)) + (IF p \in Inside THEN 1 ELSE 0)
                                     - (IF at[r] \in Inside THEN 1 ELSE 0)
        /\ Cardinality(In(Inside)') \in Nat
    BY MoveCounts DEF BridgeInv
  <2>2. QED
    BY <1>1, <2>1 DEF BridgeInv, SlotInv
<1>3. at[r] = "admitted" => kind[r] = "route"
  BY DEF BridgeInv, SlotInv
<1>4. /\ quota'.queued = Cardinality(RoutesIn({"admitted"})')
      /\ Cardinality(RoutesIn({"admitted"})') \in Nat
  <2>1. /\ Cardinality(RoutesIn({"admitted"})') =
             Cardinality(RoutesIn({"admitted"}))
               + (IF p \in {"admitted"} /\ kind[r] = "route" THEN 1 ELSE 0)
               - (IF at[r] \in {"admitted"} /\ kind[r] = "route" THEN 1 ELSE 0)
        /\ Cardinality(RoutesIn({"admitted"})') \in Nat
    BY MoveCounts DEF BridgeInv
  <2>2. /\ p \in {"admitted"} /\ kind[r] = "route" <=> p = "admitted"
        /\ at[r] \in {"admitted"} /\ kind[r] = "route" <=> at[r] = "admitted"
    BY <1>3
  <2>3. QED
    BY <1>1, <2>1, <2>2 DEF BridgeInv, SlotInv
<1>5. /\ quota'.inFlight = Cardinality(RoutesIn(Calling)')
      /\ Cardinality(RoutesIn(Calling)') \in Nat
  <2>1. /\ Cardinality(RoutesIn(Calling)') =
             Cardinality(RoutesIn(Calling))
               + (IF p \in Calling /\ kind[r] = "route" THEN 1 ELSE 0)
               - (IF at[r] \in Calling /\ kind[r] = "route" THEN 1 ELSE 0)
        /\ Cardinality(RoutesIn(Calling)') \in Nat
    BY MoveCounts DEF BridgeInv
  <2>2. QED
    BY <1>1, <2>1 DEF BridgeInv, SlotInv
<1>6. /\ quota'.queued <= QuotaQueued
      /\ quota'.queued + quota'.inFlight <= QuotaConcurrent
  BY <1>1, <1>3, LimitsAssumption DEF BridgeInv, SlotInv, HasRoom, Calling
<1>7. \A q \in Requests : at'[q] = "admitted" => kind'[q] = "route"
  BY DEF BridgeInv, SlotInv, TypeOK
<1>8. QED
  BY <1>2, <1>4, <1>5, <1>6, <1>7, LimitsAssumption DEF SlotInv, SlotsKept

-----------------------------------------------------------------------------
(* The slots. *)

\* The actions before the gate.
Early(r) ==
  \/ AssetChecks(r) \/ PageDeclared(r) \/ PageAuthorized(r) \/ PageActive(r)
  \/ AssetLooksUp(r) \/ AssetLeases(r) \/ AssetRead(r)
  \/ RouteMatched(r) \/ Disconnects(r)

Outside == Places \ Inside

LEMMA EarlyMoves ==
  ASSUME TypeOK, NEW r \in Requests, Early(r)
  PROVE  /\ at[r] \in Outside
         /\ \E p \in Outside : at' = [at EXCEPT ![r] = p]
         /\ UNCHANGED <<kind, gate, quota, siteVars, sawActive>>
<1>1. CASE AssetChecks(r)
  BY <1>1 DEF AssetChecks, Answers, Goes, Stays, Outside, Places, Inside
<1>2. CASE PageDeclared(r)
  BY <1>2 DEF PageDeclared, Answers, Goes, Stays, NoSideEffect, Outside, Places, Inside
<1>3. CASE PageAuthorized(r) \/ PageActive(r)
  BY <1>3 DEF PageAuthorized, PageActive, Answers, Goes, Stays, NoSideEffect,
              Outside, Places, Inside
<1>4. CASE AssetLooksUp(r) \/ AssetLeases(r)
  BY <1>4 DEF AssetLooksUp, AssetLeases, Answers, Goes, Stays, NoSideEffect,
              Outside, Places, Inside
<1>5. CASE AssetRead(r)
  BY <1>5 DEF AssetRead, Answers, Goes, Outside, Places, Inside
<1>6. CASE RouteMatched(r) \/ Disconnects(r)
  BY <1>6 DEF RouteMatched, Disconnects, AwaitsBody, Answers, Goes, Stays, NoSideEffect,
              Outside, Places, Inside
<1>7. QED
  BY <1>1, <1>2, <1>3, <1>4, <1>5, <1>6 DEF Early

LEMMA CountersAreNumbers ==
  BridgeInv => /\ gate \in Int /\ gate <= GateInFlight
               /\ quota \in [queued : Int, inFlight : Int]
BY LimitsAssumption DEF BridgeInv, TypeOK

\* A move that neither counter has to follow.
Quiet(r, p) ==
  /\ at' = [at EXCEPT ![r] = p]
  /\ UNCHANGED <<kind, gate, quota>>
  /\ p \in Inside <=> at[r] \in Inside
  /\ p # "admitted" /\ at[r] # "admitted"
  /\ kind[r] = "route" => (p \in Calling <=> at[r] \in Calling)
  /\ p = "calling" => at[r] \in Calling

LEMMA QuietMoveKeepsSlots ==
  ASSUME BridgeInv, NEW r \in Requests, NEW p \in Places, Quiet(r, p)
  PROVE  SlotsKept
<1> gate \in Int /\ gate <= GateInFlight /\ quota \in [queued : Int, inFlight : Int]
  BY CountersAreNumbers
<1> quota.queued \in Int /\ quota.inFlight \in Int
  OBVIOUS
<1>1. gate' = gate /\ quota' = quota /\ kind' = kind /\ at' = [at EXCEPT ![r] = p]
  BY DEF Quiet
<1>2. gate' = gate + (IF p \in Inside THEN 1 ELSE 0) - (IF at[r] \in Inside THEN 1 ELSE 0)
  BY <1>1 DEF Quiet
<1>3. quota'.queued = quota.queued + (IF p = "admitted" THEN 1 ELSE 0)
                                   - (IF at[r] = "admitted" THEN 1 ELSE 0)
  BY <1>1 DEF Quiet
<1>4. quota'.inFlight = quota.inFlight
        + (IF p \in Calling /\ kind[r] = "route" THEN 1 ELSE 0)
        - (IF at[r] \in Calling /\ kind[r] = "route" THEN 1 ELSE 0)
  BY <1>1 DEF Quiet
<1>5. /\ p = "begun" /\ kind[r] = "route" => at[r] \in {"admitted", "begun", "calling"}
      /\ p = "calling" => at[r] \in {"begun", "calling"}
      /\ p # "admitted"
  BY DEF Quiet, Calling
<1>6. Moved(r, p)
  BY <1>1, <1>2, <1>3, <1>4, <1>5 DEF Moved
<1>7. QED
  BY <1>6, SlotsAfterMove

LEMMA SlotStep == BridgeInv /\ [Next]_vars => SlotsKept
<1> SUFFICES ASSUME BridgeInv, [Next]_vars PROVE SlotsKept
  OBVIOUS
<1> gate \in Int /\ gate <= GateInFlight /\ quota \in [queued : Int, inFlight : Int]
  BY CountersAreNumbers
<1> quota.queued \in Int /\ quota.inFlight \in Int
  OBVIOUS
<1>1. ASSUME NEW r \in Requests, Early(r) PROVE SlotsKept
  <2>1. PICK p \in Outside : at' = [at EXCEPT ![r] = p]
    BY <1>1, EarlyMoves DEF BridgeInv
  <2>2. /\ at[r] \in Outside /\ p \in Places
        /\ UNCHANGED <<kind, gate, quota>>
    BY <1>1, EarlyMoves DEF BridgeInv, Outside
  <2>3. Quiet(r, p)
    BY <2>1, <2>2 DEF Outside, Inside, Calling, Quiet
  <2>4. QED
    BY <2>2, <2>3, QuietMoveKeepsSlots
<1>2. ASSUME NEW r \in Requests, EntersGate(r) PROVE SlotsKept
  <2>1. at[r] \in {"new", "matched"} /\ UNCHANGED <<kind, quota>>
    BY <1>2 DEF EntersGate, AwaitsBody
  <2>2. CASE at' = [at EXCEPT ![r] = "answered"] /\ UNCHANGED gate
    <3>1. Quiet(r, "answered")
      BY <2>1, <2>2 DEF Inside, Calling, Quiet
    <3>2. QED
      BY <3>1, QuietMoveKeepsSlots DEF Places
  <2>3. CASE at' = [at EXCEPT ![r] = "inside"] /\ gate < GateInFlight /\ gate' = gate + 1
    <3>1. gate' <= GateInFlight
      BY <2>3, LimitsAssumption
    <3>2. Moved(r, "inside")
      BY <2>1, <2>3, <3>1 DEF Inside, Calling, Moved
    <3>3. QED
      BY <3>2, SlotsAfterMove DEF Places
  <2>4. QED
    BY <1>2, <2>2, <2>3 DEF EntersGate, Answers, Goes
<1>3. ASSUME NEW r \in Requests, BindsEntry(r) PROVE SlotsKept
  <2>1. /\ at[r] = "inside" /\ UNCHANGED <<kind, gate, quota>>
        /\ \E p \in {"returned", "bound"} : at' = [at EXCEPT ![r] = p]
    BY <1>3 DEF BindsEntry, Returns, Goes, NoSideEffect
  <2>2. CASE at' = [at EXCEPT ![r] = "returned"]
    <3>1. Quiet(r, "returned")
      BY <2>1, <2>2 DEF Inside, Calling, Quiet
    <3>2. QED
      BY <3>1, QuietMoveKeepsSlots DEF Places
  <2>3. CASE at' = [at EXCEPT ![r] = "bound"]
    <3>1. Quiet(r, "bound")
      BY <2>1, <2>3 DEF Inside, Calling, Quiet
    <3>2. QED
      BY <3>1, QuietMoveKeepsSlots DEF Places
  <2>4. QED
    BY <2>1, <2>2, <2>3
<1>4. ASSUME NEW r \in Requests, Admitted(r) PROVE SlotsKept
  <2>1. at[r] = "bound" /\ kind[r] = "route" /\ UNCHANGED <<kind, gate>>
    BY <1>4 DEF Admitted
  <2>2. CASE at' = [at EXCEPT ![r] = "returned"] /\ UNCHANGED quota
    <3>1. Quiet(r, "returned")
      BY <2>1, <2>2 DEF Inside, Calling, Quiet
    <3>2. QED
      BY <3>1, QuietMoveKeepsSlots DEF Places
  <2>3. CASE /\ at' = [at EXCEPT ![r] = "admitted"] /\ HasRoom
             /\ quota' = [quota EXCEPT !.queued = @ + 1]
    <3>1. /\ quota'.queued = quota.queued + 1 /\ quota'.inFlight = quota.inFlight
          /\ quota' \in [queued : Int, inFlight : Int]
      BY <2>3
    <3>2. Moved(r, "admitted")
      BY <2>1, <2>3, <3>1 DEF Inside, Calling, Moved
    <3>3. QED
      BY <3>2, SlotsAfterMove DEF Places
  <2>4. QED
    BY <1>4, <2>2, <2>3 DEF Admitted, Returns, Goes
<1>5. ASSUME NEW r \in Requests, ActionChecked(r) PROVE SlotsKept
  <2>1. /\ at[r] = "bound" /\ kind[r] = "action" /\ UNCHANGED <<kind, gate, quota>>
        /\ \E p \in {"returned", "begun"} : at' = [at EXCEPT ![r] = p]
    BY <1>5 DEF ActionChecked, Returns, Goes, NoSideEffect
  <2>2. CASE at' = [at EXCEPT ![r] = "returned"]
    <3>1. Quiet(r, "returned")
      BY <2>1, <2>2 DEF Inside, Calling, Quiet
    <3>2. QED
      BY <3>1, QuietMoveKeepsSlots DEF Places
  <2>3. CASE at' = [at EXCEPT ![r] = "begun"]
    <3>1. Quiet(r, "begun")
      BY <2>1, <2>3 DEF Inside, Calling, Quiet
    <3>2. QED
      BY <3>1, QuietMoveKeepsSlots DEF Places
  <2>4. QED
    BY <2>1, <2>2, <2>3
<1>6. ASSUME NEW r \in Requests, BeginsCall(r) PROVE SlotsKept
  <2>1. /\ at[r] = "admitted" /\ kind[r] = "route" /\ UNCHANGED <<kind, gate>>
        /\ at' = [at EXCEPT ![r] = "begun"]
    BY <1>6 DEF BeginsCall, Goes, BridgeInv, SlotInv
  <2>2. /\ quota'.queued = quota.queued - 1 /\ quota'.inFlight = quota.inFlight + 1
        /\ quota' \in [queued : Int, inFlight : Int]
    <3> DEFINE dequeued == [quota EXCEPT !.queued = quota.queued - 1]
    <3>1. quota' = [dequeued EXCEPT !.inFlight = dequeued.inFlight + 1]
      BY <1>6 DEF BeginsCall
    <3>2. /\ dequeued \in [queued : Int, inFlight : Int]
          /\ dequeued.queued = quota.queued - 1 /\ dequeued.inFlight = quota.inFlight
      OBVIOUS
    <3> HIDE DEF dequeued
    <3>3. QED
      BY <3>1, <3>2
  <2>3. Moved(r, "begun")
    BY <2>1, <2>2 DEF Inside, Calling, Moved
  <2>4. QED
    BY <2>3, SlotsAfterMove DEF Places
<1>7. ASSUME NEW r \in Requests, CallRefused(r) \/ CallEnds(r) PROVE SlotsKept
  <2>1. /\ at[r] \in {"begun", "calling"} /\ UNCHANGED <<kind, gate>>
        /\ at' = [at EXCEPT ![r] = "returned"]
        /\ quota' = FreesQuota(r)
    BY <1>7 DEF CallRefused, CallEnds, Returns, Goes
  <2>2. /\ quota'.queued = quota.queued
        /\ quota'.inFlight = quota.inFlight - (IF kind[r] = "route" THEN 1 ELSE 0)
        /\ quota' \in [queued : Int, inFlight : Int]
    BY <2>1 DEF FreesQuota
  <2>3. Moved(r, "returned")
    BY <2>1, <2>2 DEF Inside, Calling, Moved
  <2>4. QED
    BY <2>3, SlotsAfterMove DEF Places
<1>8. ASSUME NEW r \in Requests, CallStarts(r) PROVE SlotsKept
  <2>1. /\ at[r] = "begun" /\ UNCHANGED <<kind, gate, quota>>
        /\ at' = [at EXCEPT ![r] = "calling"]
    BY <1>8 DEF CallStarts, Goes, NoSideEffect
  <2>2. Quiet(r, "calling")
    BY <2>1 DEF Inside, Calling, Quiet
  <2>3. QED
    BY <2>2, QuietMoveKeepsSlots DEF Places
<1>9. ASSUME NEW r \in Requests, LeavesGate(r) PROVE SlotsKept
  <2>1. /\ at[r] = "returned" /\ UNCHANGED <<kind, quota>> /\ gate' = gate - 1
        /\ at' = [at EXCEPT ![r] = "answered"]
    BY <1>9 DEF LeavesGate, Goes
  <2>2. gate' <= GateInFlight
    BY <2>1, LimitsAssumption
  <2>3. Moved(r, "answered")
    BY <2>1, <2>2 DEF Inside, Calling, Moved
  <2>4. QED
    BY <2>3, SlotsAfterMove DEF Places
<1>10. CASE UNCHANGED <<gate, quota, kind, at>>
  <2>1. /\ In(Inside)' = In(Inside)
        /\ RoutesIn({"admitted"})' = RoutesIn({"admitted"})
        /\ RoutesIn(Calling)' = RoutesIn(Calling)
    BY <1>10 DEF In, RoutesIn
  <2>2. QED
    BY <1>10, <2>1 DEF BridgeInv, SlotInv, SlotsKept, TypeOK
<1>11. CASE Next
  BY <1>1, <1>2, <1>3, <1>4, <1>5, <1>6, <1>7, <1>8, <1>9, <1>10, <1>11
     DEF Next, Handles, Early, Swap, Drain, Remove, requestVars
<1>12. QED
  BY <1>10, <1>11 DEF vars, requestVars

-----------------------------------------------------------------------------
(* The types. *)

LEMMA TypeInit == Init => TypeOK
<1> SUFFICES ASSUME Init PROVE TypeOK
  OBVIOUS
<1>1. kind \in [Requests -> Kinds]
  BY MixesAssumption DEF Init
<1>2. gate \in 0..GateInFlight /\ quota \in [queued : 0..QuotaQueued, inFlight : 0..QuotaConcurrent]
  BY LimitsAssumption DEF Init
<1>3. sawActive \in [Requests -> SUBSET Digests]
  BY NothingIsNoRuntime, DigestsOfRuntimes DEF Init
<1>4. active \in Runtimes \cup {Nothing} /\ closed \subseteq Runtimes
  BY NothingIsNoRuntime DEF Init
<1>5. QED
  BY <1>1, <1>2, <1>3, <1>4 DEF Init, TypeOK, Places

LEMMA WatchedType ==
  ASSUME TypeOK, NEW now \in SUBSET Digests
  PROVE  Watched(now) \in [Requests -> SUBSET Digests]
BY DEF TypeOK, Watched

\* The types of what no counter holds.
DataOK ==
  /\ active \in Runtimes \cup {Nothing}
  /\ closed \subseteq Runtimes
  /\ kind \in [Requests -> Kinds]
  /\ at \in [Requests -> Places]
  /\ answer \in [Requests -> Digests \cup {None, Refused}]
  /\ cache \subseteq [digest : Digests, bytes : Digests]
  /\ url \in [Requests -> Digests \cup {None}]
  /\ seen \in [Requests -> Runtimes \cup {Nothing}]
  /\ sawActive \in [Requests -> SUBSET Digests]

LEMMA AnswersKeepTypes ==
  ASSUME TypeOK, NEW r \in Requests, NEW what \in Digests \cup {None, Refused},
         Answers(r, what) \/ Returns(r, what)
  PROVE  /\ at' \in [Requests -> Places]
         /\ answer' \in [Requests -> Digests \cup {None, Refused}]
         /\ seen' \in [Requests -> Runtimes \cup {Nothing}]
BY DEF TypeOK, Answers, Returns, Goes, Places

LEMMA GoesKeepsTypes ==
  ASSUME TypeOK, NEW r \in Requests, NEW p \in Places, Goes(r, p)
  PROVE  at' \in [Requests -> Places]
BY DEF TypeOK, Goes

LEMMA DataStep == BridgeInv /\ [Next]_vars => DataOK'
<1> SUFFICES ASSUME BridgeInv, [Next]_vars PROVE DataOK'
  OBVIOUS
<1> TypeOK
  BY DEF BridgeInv
<1>1. ASSUME NEW r \in Requests, AssetChecks(r) PROVE DataOK'
  BY <1>1, AnswersKeepTypes, GoesKeepsTypes DEF AssetChecks, Stays, TypeOK, DataOK, Places, siteVars
<1>2. ASSUME NEW r \in Requests, NoSideEffect,
             Answers(r, Refused) \/ \E p \in Places : Goes(r, p) /\ Stays(r)
      PROVE  DataOK'
  BY <1>2, AnswersKeepTypes, GoesKeepsTypes DEF NoSideEffect, Stays, TypeOK, DataOK, siteVars
<1>3. ASSUME NEW r \in Requests,
             \/ PageDeclared(r) \/ PageAuthorized(r) \/ PageActive(r)
             \/ AssetLeases(r) \/ RouteMatched(r) \/ Disconnects(r) \/ CallStarts(r)
      PROVE  DataOK'
  <2>1. NoSideEffect
    BY <1>3 DEF PageDeclared, PageAuthorized, PageActive, AssetLeases, RouteMatched,
                Disconnects, CallStarts
  <2>2. Answers(r, Refused) \/ \E p \in Places : Goes(r, p) /\ Stays(r)
    BY <1>3 DEF PageDeclared, PageAuthorized, PageActive, AssetLeases, RouteMatched,
                Disconnects, CallStarts, Places
  <2>3. QED
    BY <1>2, <2>1, <2>2
<1>4. ASSUME NEW r \in Requests, AssetLooksUp(r) PROVE DataOK'
  <2>1. \A c \in Hits : c.bytes \in Digests
    BY DEF Hits, TypeOK
  <2>2. (\E what \in Digests \cup {Refused} : Answers(r, what)) =>
          /\ at' \in [Requests -> Places]
          /\ answer' \in [Requests -> Digests \cup {None, Refused}]
          /\ seen' \in [Requests -> Runtimes \cup {Nothing}]
    BY AnswersKeepTypes
  <2>3. CASE Goes(r, "missed") /\ seen' = [seen EXCEPT ![r] = active] /\ UNCHANGED answer
    BY <1>4, <2>3, GoesKeepsTypes DEF AssetLooksUp, NoSideEffect, TypeOK, DataOK, Places, siteVars
  <2>4. QED
    BY <1>4, <2>1, <2>2, <2>3 DEF AssetLooksUp, NoSideEffect, TypeOK, DataOK, siteVars
<1>5. ASSUME NEW r \in Requests, AssetRead(r) PROVE DataOK'
  <2>1. seen[r] \in Runtimes /\ Digest[seen[r]] \in Digests
    BY <1>5, DigestsOfRuntimes DEF AssetRead, BridgeInv, DigestInv, Knows, Holding, TypeOK
  <2>2. cache' \subseteq [digest : Digests, bytes : Digests]
    BY <1>5, <2>1 DEF AssetRead, TypeOK
  <2>3. Answers(r, Refused) \/ Answers(r, Digest[seen[r]])
    BY <1>5 DEF AssetRead
  <2>4. QED
    BY <1>5, <2>1, <2>2, <2>3, AnswersKeepTypes DEF AssetRead, TypeOK, DataOK, siteVars
<1>6. ASSUME NEW r \in Requests,
             EntersGate(r) \/ Admitted(r) \/ ActionChecked(r) \/ BeginsCall(r) \/ LeavesGate(r)
      PROVE  DataOK'
  <2>1. UNCHANGED <<kind, url, active, closed, cache, sawActive>>
    BY <1>6 DEF EntersGate, Admitted, ActionChecked, BeginsCall, LeavesGate, NoSideEffect, siteVars
  <2>2. \/ Answers(r, Refused) \/ Returns(r, Refused)
        \/ \E p \in Places : Goes(r, p) /\ Stays(r)
    BY <1>6 DEF EntersGate, Admitted, ActionChecked, BeginsCall, LeavesGate, Places
  <2>3. QED
    BY <2>1, <2>2, AnswersKeepTypes, GoesKeepsTypes DEF Stays, TypeOK, DataOK
<1>7. ASSUME NEW r \in Requests, BindsEntry(r) PROVE DataOK'
  <2>1. CASE Returns(r, Refused)
    BY <1>7, <2>1, AnswersKeepTypes DEF BindsEntry, NoSideEffect, TypeOK, DataOK, siteVars
  <2>2. CASE Goes(r, "bound") /\ seen' = [seen EXCEPT ![r] = active] /\ UNCHANGED answer
    BY <1>7, <2>2, GoesKeepsTypes DEF BindsEntry, NoSideEffect, TypeOK, DataOK, Places, siteVars
  <2>3. QED
    BY <1>7, <2>1, <2>2 DEF BindsEntry
<1>8. ASSUME NEW r \in Requests, CallRefused(r) \/ CallEnds(r) PROVE DataOK'
  <2>1. UNCHANGED <<kind, url, active, closed, cache, sawActive>>
    BY <1>8 DEF CallRefused, CallEnds, siteVars
  <2>2. seen[r] \in Runtimes /\ Digest[seen[r]] \in Digests
    BY <1>8, DigestsOfRuntimes DEF CallRefused, CallEnds, BridgeInv, DigestInv, Knows, Holding, TypeOK
  <2>3. Returns(r, Refused) \/ Returns(r, Digest[seen[r]])
    BY <1>8 DEF CallRefused, CallEnds
  <2>4. QED
    BY <2>1, <2>2, <2>3, AnswersKeepTypes DEF TypeOK, DataOK
<1>9. CASE Swap
  <2>1. active + 1 \in Runtimes
    BY <1>9, DigestAssumption DEF Swap, Runtimes, Nothing, TypeOK
  <2>2. sawActive' \in [Requests -> SUBSET Digests]
    BY <1>9, <2>1, DigestsOfRuntimes, WatchedType DEF Swap
  <2>3. QED
    BY <1>9, <2>1, <2>2 DEF Swap, TypeOK, DataOK, requestVars
<1>10. CASE Remove
  BY <1>10, WatchedType DEF Remove, TypeOK, DataOK, requestVars
<1>11. CASE \E v \in Runtimes : Drain(v)
  BY <1>11 DEF Drain, TypeOK, DataOK, requestVars
<1>12. CASE UNCHANGED vars
  BY <1>12 DEF vars, siteVars, requestVars, TypeOK, DataOK
<1>13. QED
  BY <1>1, <1>3, <1>4, <1>5, <1>6, <1>7, <1>8, <1>9, <1>10, <1>11, <1>12 DEF Next, Handles

LEMMA TypeStep == BridgeInv /\ [Next]_vars => TypeOK'
BY DataStep, SlotStep DEF DataOK, SlotsKept, TypeOK

-----------------------------------------------------------------------------
(* The bytes. *)

\* What r knows survives the steps of the others.
LEMMA OthersKeepKnowledge ==
  ASSUME NEW r \in Requests, Knows(r), at'[r] = at[r], seen'[r] = seen[r],
         answer'[r] = answer[r], sawActive' = sawActive, active' = active
  PROVE  Knows(r)'
BY DEF Knows, IsActive

\* The ways in which the handler of r moves on: it keeps what it has, it takes the
\* entry of the runtime that is active, or it comes to its answer.
GoesOn(r, p) ==
  /\ at' = [at EXCEPT ![r] = p]
  /\ UNCHANGED <<seen, answer>>
  /\ p \in Holding <=> at[r] \in Holding
  /\ at[r] \notin {"returned", "answered"} \/ (at[r] = "returned" /\ p = "answered")

TakesEntry(r, p) ==
  /\ IsActive
  /\ at[r] \notin {"returned", "answered"}
  /\ at' = [at EXCEPT ![r] = p]
  /\ p \in Holding
  /\ seen' = [seen EXCEPT ![r] = active]
  /\ UNCHANGED answer

ComesTo(r, p, what) ==
  /\ at[r] # "answered"
  /\ at' = [at EXCEPT ![r] = p]
  /\ p \in {"returned", "answered"}
  /\ seen' = [seen EXCEPT ![r] = Nothing]
  /\ answer' = [answer EXCEPT ![r] = what]
  /\ what \in Digests => what \in sawActive[r]

LEMMA HandlerKeepsKnowledge ==
  ASSUME BridgeInv, NEW r \in Requests, NEW p \in Places,
         UNCHANGED <<siteVars, sawActive>>,
         GoesOn(r, p) \/ TakesEntry(r, p) \/ \E what \in Digests \cup {Refused} : ComesTo(r, p, what)
  PROVE  \A q \in Requests : Knows(q)'
<1> sawActive' = sawActive /\ active' = active
  BY DEF siteVars
<1>1. ASSUME NEW q \in Requests, q # r PROVE Knows(q)'
  <2>1. at'[q] = at[q] /\ seen'[q] = seen[q] /\ answer'[q] = answer[q]
    BY <1>1 DEF BridgeInv, TypeOK, GoesOn, TakesEntry, ComesTo
  <2>2. QED
    BY <2>1, OthersKeepKnowledge DEF BridgeInv, DigestInv
<1>2. Knows(r)'
  <2>1. Knows(r) /\ r \in DOMAIN at /\ r \in DOMAIN seen /\ r \in DOMAIN answer
    BY DEF BridgeInv, DigestInv, TypeOK
  <2>2. CASE GoesOn(r, p)
    <3>1. at'[r] = p /\ seen'[r] = seen[r] /\ answer'[r] = answer[r]
      BY <2>1, <2>2 DEF GoesOn
    <3>2. QED
      BY <2>1, <2>2, <3>1 DEF Knows, IsActive, GoesOn
  <2>3. CASE TakesEntry(r, p)
    <3>1. /\ active # Nothing /\ seen'[r] = active /\ answer'[r] = answer[r] /\ at'[r] = p
          /\ p \notin {"returned", "answered"}
      BY <2>1, <2>3 DEF IsActive, Holding, TakesEntry
    <3>2. QED
      BY <2>1, <2>3, <3>1 DEF Knows, IsActive, TakesEntry
  <2>4. ASSUME NEW what \in Digests \cup {Refused}, ComesTo(r, p, what) PROVE Knows(r)'
    <3>1. /\ seen'[r] = Nothing /\ answer'[r] = what /\ at'[r] = p
          /\ p \notin Holding
      BY <2>1, <2>4 DEF Holding, ComesTo
    <3>2. QED
      BY <2>1, <2>4, <3>1 DEF Knows, IsActive, ComesTo
  <2>5. QED
    BY <2>2, <2>3, <2>4
<1>3. QED
  BY <1>1, <1>2

LEMMA RefusedIsNoDigest == Refused \notin Digests /\ None \notin Digests
BY DigestAssumption

\* An answer without bytes.
LEMMA RefusalEnds ==
  ASSUME NEW r \in Requests, at[r] # "answered",
         Answers(r, Refused) \/ Returns(r, Refused)
  PROVE  ComesTo(r, "answered", Refused) \/ ComesTo(r, "returned", Refused)
BY RefusedIsNoDigest DEF Answers, Returns, Goes, ComesTo

\* What a step keeps of the knowledge about bytes.
BytesKept == \A q \in Requests : Knows(q)'

LEMMA RefusalKeepsKnowledge ==
  ASSUME BridgeInv, NEW r \in Requests, at[r] # "answered",
         UNCHANGED <<siteVars, sawActive>>,
         Answers(r, Refused) \/ Returns(r, Refused)
  PROVE  BytesKept
BY RefusalEnds, HandlerKeepsKnowledge DEF Places, BytesKept

LEMMA BytesStep == BridgeInv /\ [Next]_vars => BytesKept
<1> SUFFICES ASSUME BridgeInv, [Next]_vars PROVE BytesKept
  OBVIOUS
<1>1. ASSUME NEW r \in Requests, NEW p \in Places, GoesOn(r, p), UNCHANGED <<siteVars, sawActive>>
      PROVE  BytesKept
  BY <1>1, HandlerKeepsKnowledge DEF BytesKept
<1>2. ASSUME NEW r \in Requests, AssetChecks(r) PROVE BytesKept
  <2>1. UNCHANGED <<siteVars, sawActive>> /\ at[r] = "new"
    BY <1>2 DEF AssetChecks
  <2>2. Answers(r, Refused) \/ GoesOn(r, "checked")
    BY <1>2 DEF AssetChecks, Goes, Stays, GoesOn, Holding
  <2>3. QED
    BY <1>1, <2>1, <2>2, RefusalKeepsKnowledge DEF Places
<1>3. ASSUME NEW r \in Requests,
             PageDeclared(r) \/ PageAuthorized(r) \/ PageActive(r) \/ RouteMatched(r)
      PROVE  BytesKept
  <2>1. UNCHANGED <<siteVars, sawActive>> /\ at[r] \in {"new", "guarded", "declared"}
    BY <1>3 DEF PageDeclared, PageAuthorized, PageActive, RouteMatched, NoSideEffect
  <2>2. Answers(r, Refused) \/ \E p \in {"guarded", "declared", "checked", "matched"} :
                                  Goes(r, p) /\ Stays(r)
    BY <1>3 DEF PageDeclared, PageAuthorized, PageActive, RouteMatched
  <2>3. Answers(r, Refused) \/ \E p \in Places : GoesOn(r, p)
    BY <2>1, <2>2 DEF Goes, Stays, GoesOn, Holding, Places
  <2>4. QED
    BY <1>1, <2>1, <2>3, RefusalKeepsKnowledge
<1>4. ASSUME NEW r \in Requests, AssetLooksUp(r) PROVE BytesKept
  <2>1. UNCHANGED <<siteVars, sawActive>> /\ at[r] = "checked"
    BY <1>4 DEF AssetLooksUp, NoSideEffect
  <2>2. CASE Answers(r, Refused)
    BY <2>1, <2>2, RefusalKeepsKnowledge
  <2>3. CASE IsActive /\ \E c \in Hits : Answers(r, c.bytes)
    <3>1. PICK c \in Hits : Answers(r, c.bytes)
      BY <2>3
    <3>2. c.bytes = Digest[active] /\ c.bytes \in Digests
      BY <3>1 DEF Hits, BridgeInv, DigestInv, TypeOK
    <3>3. c.bytes \in sawActive[r]
      BY <2>1, <2>3, <3>2 DEF BridgeInv, DigestInv, Knows
    <3>4. ComesTo(r, "answered", c.bytes)
      BY <2>1, <3>1, <3>3 DEF ComesTo, Answers, Goes
    <3>5. QED
      BY <2>1, <3>2, <3>4, HandlerKeepsKnowledge DEF Places, BytesKept
  <2>4. CASE IsActive /\ Goes(r, "missed") /\ seen' = [seen EXCEPT ![r] = active] /\ UNCHANGED answer
    <3>1. TakesEntry(r, "missed")
      BY <2>1, <2>4 DEF TakesEntry, Goes, Holding
    <3>2. QED
      BY <2>1, <3>1, HandlerKeepsKnowledge DEF Places, BytesKept
  <2>5. QED
    BY <1>4, <2>2, <2>3, <2>4 DEF AssetLooksUp
<1>5. ASSUME NEW r \in Requests, AssetLeases(r) \/ CallStarts(r) PROVE BytesKept
  <2>1. UNCHANGED <<siteVars, sawActive>> /\ at[r] \in {"missed", "begun"}
    BY <1>5 DEF AssetLeases, CallStarts, NoSideEffect
  <2>2. Answers(r, Refused) \/ \E p \in {"reading", "calling"} : Goes(r, p) /\ Stays(r)
    BY <1>5 DEF AssetLeases, CallStarts
  <2>3. Answers(r, Refused) \/ \E p \in Places : GoesOn(r, p)
    BY <2>1, <2>2 DEF Goes, Stays, GoesOn, Holding, Places
  <2>4. QED
    BY <1>1, <2>1, <2>3, RefusalKeepsKnowledge
<1>6. ASSUME NEW r \in Requests, AssetRead(r) \/ CallRefused(r) \/ CallEnds(r) PROVE BytesKept
  <2>1. UNCHANGED <<siteVars, sawActive>> /\ at[r] \in {"reading", "begun", "calling"}
    BY <1>6 DEF AssetRead, CallRefused, CallEnds
  <2>2. \/ Answers(r, Refused) \/ Returns(r, Refused)
        \/ Answers(r, Digest[seen[r]]) \/ Returns(r, Digest[seen[r]])
    BY <1>6 DEF AssetRead, CallRefused, CallEnds
  <2>3. Digest[seen[r]] \in sawActive[r] /\ Digest[seen[r]] \in Digests
    BY <2>1, DigestsOfRuntimes DEF BridgeInv, DigestInv, Knows, Holding, TypeOK
  <2>4. CASE Answers(r, Digest[seen[r]]) \/ Returns(r, Digest[seen[r]])
    <3>1. \/ ComesTo(r, "answered", Digest[seen[r]])
          \/ ComesTo(r, "returned", Digest[seen[r]])
      BY <2>1, <2>3, <2>4 DEF ComesTo, Answers, Returns, Goes
    <3>2. QED
      BY <2>1, <2>3, <3>1, HandlerKeepsKnowledge DEF Places, BytesKept
  <2>5. QED
    BY <2>1, <2>2, <2>4, RefusalKeepsKnowledge
<1>7. ASSUME NEW r \in Requests,
             \/ EntersGate(r) \/ Disconnects(r) \/ Admitted(r) \/ ActionChecked(r)
             \/ BeginsCall(r) \/ LeavesGate(r)
      PROVE  BytesKept
  <2>1. /\ UNCHANGED <<siteVars, sawActive>>
        /\ at[r] \in {"new", "matched", "bound", "admitted", "returned"}
    BY <1>7 DEF EntersGate, Disconnects, Admitted, ActionChecked, BeginsCall, LeavesGate,
                NoSideEffect, AwaitsBody
  <2>2. \/ Answers(r, Refused) \/ Returns(r, Refused)
        \/ at[r] \in {"new", "matched"} /\ Goes(r, "inside") /\ Stays(r)
        \/ at[r] = "bound" /\ (Goes(r, "admitted") \/ Goes(r, "begun")) /\ Stays(r)
        \/ at[r] = "admitted" /\ Goes(r, "begun") /\ Stays(r)
        \/ at[r] = "returned" /\ Goes(r, "answered") /\ Stays(r)
    BY <1>7 DEF EntersGate, Disconnects, Admitted, ActionChecked, BeginsCall, LeavesGate,
                AwaitsBody
  <2>3. \/ Answers(r, Refused) \/ Returns(r, Refused)
        \/ GoesOn(r, "inside") \/ GoesOn(r, "admitted") \/ GoesOn(r, "begun")
        \/ GoesOn(r, "answered")
    BY <2>2 DEF Goes, Stays, GoesOn, Holding
  <2>4. QED
    BY <1>1, <2>1, <2>3, RefusalKeepsKnowledge DEF Places
<1>8. ASSUME NEW r \in Requests, BindsEntry(r) PROVE BytesKept
  <2>1. UNCHANGED <<siteVars, sawActive>> /\ at[r] = "inside"
    BY <1>8 DEF BindsEntry, NoSideEffect
  <2>2. Returns(r, Refused) \/ TakesEntry(r, "bound")
    BY <1>8 DEF BindsEntry, TakesEntry, Goes, Holding
  <2>3. QED
    BY <2>1, <2>2, RefusalKeepsKnowledge, HandlerKeepsKnowledge DEF Places, BytesKept
<1>9. ASSUME NEW now \in SUBSET Digests, UNCHANGED <<at, seen, answer>>, sawActive' = Watched(now),
             active' = Nothing \/ Digest[active'] \in now
      PROVE  BytesKept
  <2> SUFFICES ASSUME NEW q \in Requests PROVE Knows(q)'
    BY DEF BytesKept
  <2>1. Knows(q)
    BY DEF BridgeInv, DigestInv
  <2>2. /\ at[q] = "new" => sawActive'[q] = now
        /\ at[q] # "new" => sawActive[q] \subseteq sawActive'[q]
        /\ at[q] \notin {"new", "answered"} => now \subseteq sawActive'[q]
    BY <1>9 DEF Watched
  <2>3. at[q] = "new" => seen[q] = Nothing /\ answer[q] \notin Digests
    BY <2>1, RefusedIsNoDigest DEF Knows, Holding
  <2>4. QED
    BY <1>9, <2>1, <2>2, <2>3 DEF Knows, IsActive
<1>10. CASE Swap
  <2>1. Digest[active + 1] \in Digests
    BY <1>10, DigestAssumption DEF Swap, Runtimes, Digests, Nothing, BridgeInv, TypeOK
  <2>2. QED
    BY <1>9, <1>10, <2>1 DEF Swap, requestVars
<1>11. CASE Remove
  BY <1>9, <1>11 DEF Remove, requestVars
<1>12. CASE UNCHANGED <<active, at, seen, answer, sawActive>>
  BY <1>12 DEF BytesKept, BridgeInv, DigestInv, Knows, IsActive
<1>13. QED
  BY <1>2, <1>3, <1>4, <1>5, <1>6, <1>7, <1>8, <1>10, <1>11, <1>12
     DEF Next, Handles, Drain, vars, siteVars, requestVars

LEMMA CacheStep == BridgeInv /\ [Next]_vars => \A c \in cache' : c.bytes = c.digest
<1> SUFFICES ASSUME BridgeInv, [Next]_vars PROVE \A c \in cache' : c.bytes = c.digest
  OBVIOUS
<1>1. CASE \E r \in Requests : AssetRead(r)
  BY <1>1 DEF AssetRead, BridgeInv, DigestInv
<1>2. CASE UNCHANGED cache
  BY <1>2 DEF BridgeInv, DigestInv
<1>3. QED
  BY <1>1, <1>2
     DEF Next, Handles, vars, NoSideEffect, Swap, Drain, Remove, Disconnects, AssetChecks,
         PageDeclared, PageAuthorized, PageActive, AssetLooksUp, AssetLeases, RouteMatched,
         EntersGate, BindsEntry, Admitted, ActionChecked, BeginsCall, CallRefused, CallStarts,
         CallEnds, LeavesGate

-----------------------------------------------------------------------------
(* The theorems. *)

LEMMA BridgeInit == Init => BridgeInv
<1> SUFFICES ASSUME Init PROVE BridgeInv
  OBVIOUS
<1>1. TypeOK
  BY TypeInit
<1>2. DigestInv
  BY RefusedIsNoDigest DEF Init, DigestInv, Knows, Holding
<1>3. In(Inside) = {} /\ RoutesIn({"admitted"}) = {} /\ RoutesIn(Calling) = {}
  BY DEF Init, In, RoutesIn, Inside, Calling
<1>4. Cardinality({}) = 0
  BY FS_EmptySet
<1>5. SlotInv
  BY <1>3, <1>4, LimitsAssumption DEF SlotInv, Init
<1>6. QED
  BY <1>1, <1>2, <1>5 DEF BridgeInv

LEMMA BridgeInvHolds == Spec => []BridgeInv
<1>1. BridgeInv /\ [Next]_vars => BridgeInv'
  BY TypeStep, BytesStep, CacheStep, SlotStep DEF BridgeInv, DigestInv, BytesKept, SlotsKept
<1>2. QED
  BY BridgeInit, <1>1, PTL DEF Spec

\* Every request, both quotas and the cache keep their types and their limits.
THEOREM TypeCorrect == Spec => []TypeOK
<1>1. BridgeInv => TypeOK
  BY DEF BridgeInv
<1>2. QED
  BY BridgeInvHolds, <1>1, PTL

\* Whatever is served, from the cache or by a guest, is the bytes of a digest that was
\* active during the request (read_asset, AssetCache, invoke_action, dispatch_route).
THEOREM BytesWereActive == Spec => []ServedWasActive
<1>1. BridgeInv => ServedWasActive
  BY DEF BridgeInv, DigestInv, Knows, ServedWasActive
<1>2. QED
  BY BridgeInvHolds, <1>1, PTL

\* Every slot of the gate and of the quota belongs to a request that is inside it, for
\* any number of requests (QuotaGate, InProcessWebQuota).
THEOREM SlotsAreReturned == Spec => []SlotsComeBack
<1>1. BridgeInv => SlotsComeBack
  BY SlotInvIsSlotsComeBack DEF BridgeInv
<1>2. QED
  BY BridgeInvHolds, <1>1, PTL
=============================================================================

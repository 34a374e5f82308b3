---------------------------- MODULE EventBusProofs ----------------------------
(***************************************************************************)
(* Proofs about EventBus for every set of installations and topics, all    *)
(* grants and both channel capacities: its types, the order in which a     *)
(* link is offered events and who may see them, that every dropped event   *)
(* is counted, and that none is lost before its publisher's pump ends.     *)
(***************************************************************************)
EXTENDS EventBus, TLAPS, SequenceTheorems, WellFoundedInduction

-----------------------------------------------------------------------------
(* Types. *)

\* A call that has an event id was made by an installation on a topic, and the
\* ids not given out yet belong to no call.
CallsNumbered ==
  \A e \in EventIds :
    /\ call[e].pc # "idle" => call[e].inst \in Installations /\ call[e].topic \in Topics
    /\ e >= nextEventId => call[e].pc = "idle"

\* The pump is spawned by the first publish and holds events only between taking
\* them and having offered them.
PumpHolds ==
  \A i \in Installations :
    /\ entry[i] = "absent" => pump[i].pc = "none"
    /\ pump[i].pc \in {"none", "select", "exit", "ended"} => pump[i].batch = <<>>
    /\ pump[i].fanning => pump[i].pc \in {"batch", "drain"} /\ pump[i].batch # <<>>

\* A consumer that calls its handler holds an event.
ConsumerHolds ==
  \A l \in Links : consumer[l] = "deliver" => hand[l] \in DeliveredEvents

PumpPlaces == {"none", "select", "collect", "batch", "drain", "exit", "ended"}
PumpRecords ==
  [pc : PumpPlaces, batch : Seq(EventIds), fanning : BOOLEAN, pending : SUBSET Installations]
CallPlaces == {"idle", "numbered", "holding", "accepted", "refused"}
CallRecords ==
  [pc : CallPlaces, inst : Installations \cup {NoInstallation}, topic : Topics \cup {NoTopic}]
LinkRecords == [sender : BOOLEAN, dropped : Nat]
QueuesWithin(queues, set, capacity) == \A x \in set : Len(queues[x]) <= capacity

\* TypeOK with its record sets named, so that a proof need not look into those
\* a step leaves alone.
Shapes ==
  /\ subscribed \in [Topics -> SUBSET Installations]
  /\ nextEventId \in 1..(MaxEvents + 1)
  /\ call \in [EventIds -> CallRecords]
  /\ entry \in [Installations -> {"absent", "open", "stopped"}]
  /\ cancelled \in [Installations -> BOOLEAN]
  /\ inbound \in [Installations -> Seq(EventIds)]
  /\ QueuesWithin(inbound, Installations, InboundQueueCapacity)
  /\ pump \in [Installations -> PumpRecords]
  /\ link \in [Links -> LinkRecords]
  /\ delivery \in [Links -> Seq(DeliveredEvents)]
  /\ QueuesWithin(delivery, Links, DeliveryQueueCapacity)
  /\ consumer \in [Links -> {"none", "recv", "deliver", "ended"}]
  /\ hand \in [Links -> DeliveredEvents \cup {NoEvent}]
  /\ accepted \in [Installations -> Seq(EventIds)]
  /\ mayReach \in [EventIds -> SUBSET Installations]
  /\ fannedOut \in SUBSET EventIds
  /\ offered \in [Links -> Seq(EventIds)]
  /\ handled \in [Links -> Seq(DeliveredEvents)]

LEMMA ShapesAreTypes == TypeOK <=> Shapes
BY Zenon DEF TypeOK, Shapes, PumpRecords, PumpPlaces, CallRecords, CallPlaces, LinkRecords,
             QueuesWithin

\* What is in an inbound channel or in a pump's hands was accepted.
AllAccepted(calls, queue) == \A k \in 1..Len(queue) : calls[queue[k]].pc = "accepted"
HeldAccepted ==
  \A i \in Installations :
    AllAccepted(call, inbound[i]) /\ AllAccepted(call, pump[i].batch)

BusInv == Shapes /\ CallsNumbered /\ PumpHolds /\ ConsumerHolds /\ HeldAccepted

LEMMA BusInit == Init => BusInv
<1>1. SUFFICES ASSUME Init PROVE BusInv
  OBVIOUS
<1>2. \A S : <<>> \in Seq(S) /\ Len(<<>>) = 0
  BY EmptySeq
<1>3. TypeOK
  BY <1>1, <1>2, CapacitiesAssumption DEF Init, TypeOK, Links, DeliveredEvents, EventIds
<1>4. CallsNumbered /\ PumpHolds /\ ConsumerHolds
  BY <1>1 DEF Init, CallsNumbered, PumpHolds, ConsumerHolds
<1>5. HeldAccepted
  BY <1>1, <1>2 DEF Init, HeldAccepted, AllAccepted
<1> QED BY <1>3, <1>4, <1>5, ShapesAreTypes DEF BusInv

(***************************************************************************)
(* Records with one field changed.                                         *)
(***************************************************************************)
LEMMA PumpRecordTyped ==
  ASSUME NEW r \in PumpRecords, NEW pc \in PumpPlaces, NEW batch \in Seq(EventIds),
         NEW flag \in BOOLEAN, NEW set \in SUBSET Installations
  PROVE  /\ [r EXCEPT !.pc = pc] \in PumpRecords
         /\ [r EXCEPT !.batch = batch] \in PumpRecords
         /\ [r EXCEPT !.fanning = flag] \in PumpRecords
         /\ [r EXCEPT !.pending = set] \in PumpRecords
<1>1. PICK a \in PumpPlaces, q \in Seq(EventIds), f \in BOOLEAN, P \in SUBSET Installations :
           r = [pc |-> a, batch |-> q, fanning |-> f, pending |-> P]
  BY Zenon DEF PumpRecords
<1>2. [r EXCEPT !.pc = pc] = [pc |-> pc, batch |-> q, fanning |-> f, pending |-> P]
  BY <1>1
<1>3. [r EXCEPT !.batch = batch] = [pc |-> a, batch |-> batch, fanning |-> f, pending |-> P]
  BY <1>1
<1>4. [r EXCEPT !.fanning = flag] = [pc |-> a, batch |-> q, fanning |-> flag, pending |-> P]
  BY <1>1
<1>5. [r EXCEPT !.pending = set] = [pc |-> a, batch |-> q, fanning |-> f, pending |-> set]
  BY <1>1
<1> QED BY <1>2, <1>3, <1>4, <1>5, Zenon DEF PumpRecords

LEMMA CallTyped ==
  ASSUME NEW c \in [EventIds -> CallRecords], NEW e \in EventIds, NEW pc \in CallPlaces
  PROVE  [c EXCEPT ![e].pc = pc] \in [EventIds -> CallRecords]
BY DEF CallRecords

\* One pump changes and the others do not.
PumpBecomes(i, pc, batch, fanning, pending) ==
  /\ pump' \in [Installations -> PumpRecords]
  /\ pump'[i].pc = pc
  /\ pump'[i].batch = batch
  /\ pump'[i].fanning = fanning
  /\ pump'[i].pending = pending
  /\ \A j \in Installations \ {i} : pump'[j] = pump[j]

(***************************************************************************)
(* The fields of a pump's record.                                          *)
(***************************************************************************)
LEMMA PumpFields ==
  ASSUME NEW a, NEW q, NEW f, NEW P, NEW r,
         r = [pc |-> a, batch |-> q, fanning |-> f, pending |-> P]
  PROVE  r.pc = a /\ r.batch = q /\ r.fanning = f /\ r.pending = P
BY Zenon

(***************************************************************************)
(* The ways in which a pump's locals are assigned.                         *)
(***************************************************************************)
LEMMA PumpAssigned ==
  ASSUME pump \in [Installations -> PumpRecords], NEW i \in Installations,
         NEW pc \in PumpPlaces, NEW batch \in Seq(EventIds), NEW flag \in BOOLEAN,
         NEW set \in SUBSET Installations
  PROVE  /\ PumpGoes(i, pc, batch) =>
              PumpBecomes(i, pc, batch, pump[i].fanning, pump[i].pending)
         /\ pump' = [pump EXCEPT ![i].pc = pc] =>
              PumpBecomes(i, pc, pump[i].batch, pump[i].fanning, pump[i].pending)
         /\ pump' = [pump EXCEPT ![i].fanning = flag, ![i].pending = set] =>
              PumpBecomes(i, pump[i].pc, pump[i].batch, flag, set)
         /\ pump' = [pump EXCEPT ![i].fanning = flag, ![i].batch = batch] =>
              PumpBecomes(i, pump[i].pc, batch, flag, pump[i].pending)
         /\ pump' = [pump EXCEPT ![i].pending = set] =>
              PumpBecomes(i, pump[i].pc, pump[i].batch, pump[i].fanning, set)
<1>1. pump[i] \in PumpRecords
  OBVIOUS
<1>2. PICK a \in PumpPlaces, q \in Seq(EventIds), f \in BOOLEAN, P \in SUBSET Installations :
           pump[i] = [pc |-> a, batch |-> q, fanning |-> f, pending |-> P]
  BY <1>1, Zenon DEF PumpRecords
<1>3. ASSUME NEW b \in PumpPlaces, NEW r \in Seq(EventIds), NEW g \in BOOLEAN,
             NEW Q \in SUBSET Installations, NEW rec,
             rec = [pc |-> b, batch |-> r, fanning |-> g, pending |-> Q],
             pump' = [pump EXCEPT ![i] = rec]
      PROVE  PumpBecomes(i, b, r, g, Q)
  <2>1. rec \in PumpRecords
    BY <1>3, Zenon DEF PumpRecords
  <2>2. pump' \in [Installations -> PumpRecords]
    BY <2>1, <1>3
  <2>3. pump'[i] = rec
    BY <1>3
  <2>4. \A j \in Installations \ {i} : pump'[j] = pump[j]
    BY <1>3
  <2> QED BY <1>3, <2>2, <2>3, <2>4, PumpFields, Zenon DEF PumpBecomes
<1>4. PICK s : s = pump[i]
  OBVIOUS
<1>5. ASSUME PumpGoes(i, pc, batch)
      PROVE  PumpBecomes(i, pc, batch, f, P)
  <2>1. PICK t : t = [s EXCEPT !.pc = pc]
    OBVIOUS
  <2>2. PICK u : u = [t EXCEPT !.batch = batch]
    OBVIOUS
  <2>3. t = [pc |-> pc, batch |-> q, fanning |-> f, pending |-> P]
    BY <1>2, <1>4, <2>1
  <2>4. u = [pc |-> pc, batch |-> batch, fanning |-> f, pending |-> P]
    BY <2>2, <2>3
  <2>5. [pump EXCEPT ![i].pc = pc, ![i].batch = batch]
          = [pump EXCEPT ![i] = u]
    BY <1>4, <2>1, <2>2
  <2>6. pump' = [pump EXCEPT ![i] = u]
    BY <1>5, <2>5, Zenon DEF PumpGoes
  <2> QED BY <2>4, <2>6, <1>3, Zenon
<1>6. ASSUME pump' = [pump EXCEPT ![i].pc = pc]
      PROVE  PumpBecomes(i, pc, q, f, P)
  <2>1. PICK t : t = [s EXCEPT !.pc = pc]
    OBVIOUS
  <2>2. t = [pc |-> pc, batch |-> q, fanning |-> f, pending |-> P]
    BY <1>2, <1>4, <2>1
  <2>3. [pump EXCEPT ![i].pc = pc] = [pump EXCEPT ![i] = t]
    BY <1>4, <2>1
  <2>4. pump' = [pump EXCEPT ![i] = t]
    BY <1>6, <2>3, Zenon
  <2> QED BY <2>2, <2>4, <1>3, Zenon
<1>7. ASSUME pump' = [pump EXCEPT ![i].fanning = flag, ![i].pending = set]
      PROVE  PumpBecomes(i, a, q, flag, set)
  <2>1. PICK t : t = [s EXCEPT !.fanning = flag]
    OBVIOUS
  <2>2. PICK u : u = [t EXCEPT !.pending = set]
    OBVIOUS
  <2>3. t = [pc |-> a, batch |-> q, fanning |-> flag, pending |-> P]
    BY <1>2, <1>4, <2>1
  <2>4. u = [pc |-> a, batch |-> q, fanning |-> flag, pending |-> set]
    BY <2>2, <2>3
  <2>5. [pump EXCEPT ![i].fanning = flag, ![i].pending = set]
          = [pump EXCEPT ![i] = u]
    BY <1>4, <2>1, <2>2
  <2>6. pump' = [pump EXCEPT ![i] = u]
    BY <1>7, <2>5, Zenon
  <2> QED BY <2>4, <2>6, <1>3, Zenon
<1>8. ASSUME pump' = [pump EXCEPT ![i].fanning = flag, ![i].batch = batch]
      PROVE  PumpBecomes(i, a, batch, flag, P)
  <2>1. PICK t : t = [s EXCEPT !.fanning = flag]
    OBVIOUS
  <2>2. PICK u : u = [t EXCEPT !.batch = batch]
    OBVIOUS
  <2>3. t = [pc |-> a, batch |-> q, fanning |-> flag, pending |-> P]
    BY <1>2, <1>4, <2>1
  <2>4. u = [pc |-> a, batch |-> batch, fanning |-> flag, pending |-> P]
    BY <2>2, <2>3
  <2>5. [pump EXCEPT ![i].fanning = flag, ![i].batch = batch]
          = [pump EXCEPT ![i] = u]
    BY <1>4, <2>1, <2>2
  <2>6. pump' = [pump EXCEPT ![i] = u]
    BY <1>8, <2>5, Zenon
  <2> QED BY <2>4, <2>6, <1>3, Zenon
<1>9. ASSUME pump' = [pump EXCEPT ![i].pending = set]
      PROVE  PumpBecomes(i, a, q, f, set)
  <2>1. PICK t : t = [s EXCEPT !.pending = set]
    OBVIOUS
  <2>2. t = [pc |-> a, batch |-> q, fanning |-> f, pending |-> set]
    BY <1>2, <1>4, <2>1
  <2>3. [pump EXCEPT ![i].pending = set] = [pump EXCEPT ![i] = t]
    BY <1>4, <2>1
  <2>4. pump' = [pump EXCEPT ![i] = t]
    BY <1>9, <2>3, Zenon
  <2> QED BY <2>2, <2>4, <1>3, Zenon
<1>10. s.pc = a /\ s.batch = q /\ s.fanning = f /\ s.pending = P
  <2>1. s = [pc |-> a, batch |-> q, fanning |-> f, pending |-> P]
    BY <1>2, <1>4
  <2> QED BY <2>1, PumpFields, Zenon
<1> QED BY <1>4, <1>5, <1>6, <1>7, <1>8, <1>9, <1>10, Zenon

(***************************************************************************)
(* What the steps of a pump outside fan_out come to (run_pump): it takes   *)
(* the event at the head of its channel behind those it holds, or goes on  *)
(* with what it holds.                                                     *)
(***************************************************************************)
PumpOnly == UNCHANGED <<policyVars, publishVars, installVars, fannedOut, linkVars, consumerVars>>

PumpTakes(i) ==
  /\ inbound[i] # <<>>
  /\ ~ pump[i].fanning
  /\ pump[i].pc \notin {"none", "ended"}
  /\ inbound' = [inbound EXCEPT ![i] = Tail(@)]
  /\ \E pc \in {"collect", "drain"} :
       PumpBecomes(i, pc, Append(pump[i].batch, Head(inbound[i])),
                   pump[i].fanning, pump[i].pending)
  /\ PumpOnly

PumpWalks(i) ==
  /\ ~ pump[i].fanning
  /\ pump[i].pc \notin {"none", "ended"}
  /\ \E pc \in {"select", "batch", "drain", "exit"} :
       /\ PumpBecomes(i, pc, pump[i].batch, pump[i].fanning, pump[i].pending)
       /\ pc \in {"select", "exit"} => pump[i].batch = <<>>
  /\ UNCHANGED inbound
  /\ PumpOnly

LEMMA AppendToEmpty == \A e \in EventIds : Append(<<>>, e) = <<e>> /\ <<e>> \in Seq(EventIds)
OBVIOUS

LEMMA PumpSteps ==
  ASSUME BusInv, NEW i \in Installations, PumpStep(i)
  PROVE  \/ PumpTakes(i) \/ PumpWalks(i)
         \/ FanOutSnapshot(i) \/ FanOutDone(i) \/ PumpExit(i)
         \/ \E s \in Installations : FanOutOffer(i, s)
<1>1. /\ pump \in [Installations -> PumpRecords]
      /\ inbound[i] \in Seq(EventIds)
      /\ pump[i].batch \in Seq(EventIds)
  BY DEF BusInv, Shapes, PumpRecords
<1>2. pump[i].pc = "drain" /\ pump[i].batch = <<>> => ~ pump[i].fanning
  BY Zenon DEF BusInv, PumpHolds
<1>3. pump[i].pc \notin {"batch", "drain"} => ~ pump[i].fanning
  BY Zenon DEF BusInv, PumpHolds
<1>4. inbound[i] # <<>> => Head(inbound[i]) \in EventIds
  BY <1>1, HeadTailProperties
<1>5. inbound[i] # <<>> => Append(pump[i].batch, Head(inbound[i])) \in Seq(EventIds)
  BY <1>1, <1>4, AppendProperties
<1>6. <<>> \in Seq(EventIds)
  BY EmptySeq
<1>7. \A pc \in PumpPlaces, batch \in Seq(EventIds) :
        PumpGoes(i, pc, batch) => PumpBecomes(i, pc, batch, pump[i].fanning, pump[i].pending)
  BY <1>1, PumpAssigned, Zenon
<1>8. pump[i].pc = "select" => pump[i].batch = <<>>
  BY DEF BusInv, PumpHolds
<1>9. CASE PumpCancelled(i)
  BY <1>3, <1>6, <1>7, <1>8, <1>9 DEF PumpCancelled, PumpWalks, PumpOnly, AfterToken, PumpPlaces
<1>10. CASE PumpRecv(i)
  <2>1. Append(pump[i].batch, Head(inbound[i])) = <<Head(inbound[i])>>
    BY <1>4, <1>8, <1>10, AppendToEmpty DEF PumpRecv
  <2> QED BY <1>3, <1>4, <1>5, <1>7, <1>10, <2>1 DEF PumpRecv, PumpTakes, PumpOnly, PumpPlaces
<1>11. CASE PumpClosed(i)
  BY <1>3, <1>6, <1>7, <1>8, <1>11 DEF PumpClosed, PumpWalks, PumpOnly, PumpPlaces
<1>12. CASE PumpCollect(i)
  BY <1>1, <1>3, <1>5, <1>7, <1>12
     DEF PumpCollect, PumpTakes, PumpWalks, PumpOnly, AddToBatch, PumpPlaces
<1>13. CASE PumpDrain(i)
  <2>1. inbound[i] # <<>> => Append(pump[i].batch, Head(inbound[i])) = <<Head(inbound[i])>>
    BY <1>4, <1>13, AppendToEmpty DEF PumpDrain
  <2> QED BY <1>2, <1>5, <1>6, <1>7, <1>13, <2>1
          DEF PumpDrain, PumpTakes, PumpWalks, PumpOnly, PumpPlaces
<1>14. CASE PumpBatchDone(i)
  <2>1. ~ pump[i].fanning
    BY <1>14, Zenon DEF PumpBatchDone, BusInv, PumpHolds
  <2> QED BY <1>6, <1>7, <1>14, <2>1
          DEF PumpBatchDone, PumpWalks, PumpOnly, AfterToken, PumpPlaces
<1> QED BY <1>9, <1>10, <1>11, <1>12, <1>13, <1>14, Zenon DEF PumpStep

(***************************************************************************)
(* Each step keeps the types.                                              *)
(***************************************************************************)
LEMMA PumpAlone ==
  ASSUME BusInv, NEW i \in Installations, NEW pc, NEW batch, NEW fanning, NEW pending,
         PumpBecomes(i, pc, batch, fanning, pending), pump[i].pc # "none", UNCHANGED entry,
         pc \in {"none", "select", "exit", "ended"} => batch = <<>>,
         fanning => pc \in {"batch", "drain"} /\ batch # <<>>
  PROVE  PumpHolds'
<1>1. SUFFICES ASSUME NEW j \in Installations
               PROVE  /\ entry'[j] = "absent" => (pump[j].pc)' = "none"
                      /\ (pump[j].pc)' \in {"none", "select", "exit", "ended"} =>
                           (pump[j].batch)' = <<>>
                      /\ (pump[j].fanning)' =>
                           (pump[j].pc)' \in {"batch", "drain"} /\ (pump[j].batch)' # <<>>
  BY Zenon DEF PumpHolds
<1>2. CASE j = i
  <2>1. entry'[j] # "absent"
    BY <1>2 DEF BusInv, PumpHolds
  <2> QED BY <1>2, <2>1, Zenon DEF PumpBecomes
<1>3. CASE j # i
  <2>1. pump'[j] = pump[j]
    BY <1>3 DEF PumpBecomes
  <2>2. entry'[j] = entry[j]
    OBVIOUS
  <2> QED BY <2>1, <2>2, Zenon DEF BusInv, PumpHolds
<1> QED BY <1>2, <1>3

\* An accepted publish call does not change any more.
CallsStay ==
  \A e \in EventIds :
    call[e].pc = "accepted" =>
      call'[e].pc = "accepted" /\ call'[e].inst = call[e].inst /\ call'[e].topic = call[e].topic

(***************************************************************************)
(* Events stay accepted in a queue that grows at its end by accepted ones, *)
(* or shrinks at its head.                                                 *)
(***************************************************************************)
LEMMA AcceptedQueues ==
  ASSUME CallsStay, NEW q \in Seq(EventIds), AllAccepted(call, q)
  PROVE  /\ AllAccepted(call', q)
         /\ q # <<>> => AllAccepted(call', Tail(q)) /\ call[Head(q)].pc = "accepted"
         /\ \A e \in EventIds : call'[e].pc = "accepted" => AllAccepted(call', Append(q, e))
<1>1. \A k \in 1..Len(q) : q[k] \in EventIds
  BY ElementOfSeq
<1>2. AllAccepted(call', q)
  BY <1>1 DEF AllAccepted, CallsStay
<1>3. ASSUME q # <<>>
      PROVE  AllAccepted(call', Tail(q)) /\ call[Head(q)].pc = "accepted"
  <2>1. /\ Len(Tail(q)) = Len(q) - 1
        /\ \A k \in 1..Len(Tail(q)) : Tail(q)[k] = q[k + 1]
        /\ Len(q) \in Nat \ {0}
        /\ Head(q) = q[1]
    BY <1>3, HeadTailProperties, EmptySeq
  <2>2. AllAccepted(call', Tail(q))
    BY <1>1, <2>1 DEF AllAccepted, CallsStay
  <2> QED BY <2>1, <2>2 DEF AllAccepted
<1>4. ASSUME NEW e \in EventIds, call'[e].pc = "accepted"
      PROVE  AllAccepted(call', Append(q, e))
  <2>1. /\ Len(Append(q, e)) = Len(q) + 1
        /\ \A k \in 1..Len(q) : Append(q, e)[k] = q[k]
        /\ Append(q, e)[Len(q) + 1] = e
        /\ Len(q) \in Nat
    BY AppendProperties, LenProperties
  <2> QED BY <1>2, <1>4, <2>1 DEF AllAccepted
<1> QED BY <1>2, <1>3, <1>4

LEMMA InvTakes ==
  ASSUME BusInv, NEW i \in Installations, PumpTakes(i)
  PROVE  BusInv'
<1>1. inbound[i] \in Seq(EventIds)
  BY DEF BusInv, Shapes
<1>2. Tail(inbound[i]) \in Seq(EventIds) /\ Len(Tail(inbound[i])) = Len(inbound[i]) - 1
  BY <1>1, HeadTailProperties DEF PumpTakes
<1>3. Len(inbound[i]) \in Nat
  BY <1>1, LenProperties
<1>4. inbound' \in [Installations -> Seq(EventIds)]
  BY <1>2 DEF PumpTakes, BusInv, Shapes
<1>5. QueuesWithin(inbound', Installations, InboundQueueCapacity)
  BY <1>2, <1>3, CapacitiesAssumption DEF PumpTakes, BusInv, Shapes, QueuesWithin
<1>6. pump' \in [Installations -> PumpRecords]
  BY Zenon DEF PumpTakes, PumpBecomes
<1>7. Shapes'
  BY <1>4, <1>5, <1>6, Zenon
     DEF BusInv, Shapes, PumpTakes, PumpOnly, policyVars, publishVars, installVars, linkVars,
         consumerVars, QueuesWithin
<1>8. PumpHolds'
  BY PumpAlone DEF PumpTakes, PumpOnly, installVars
<1>9. CallsNumbered' /\ ConsumerHolds'
  BY DEF BusInv, CallsNumbered, ConsumerHolds, PumpTakes, PumpOnly, publishVars, consumerVars
<1>10. CallsStay
  BY DEF PumpTakes, PumpOnly, publishVars, CallsStay
<1>11. pump[i].batch \in Seq(EventIds)
  BY DEF BusInv, Shapes, PumpRecords
<1>12. AllAccepted(call, inbound[i]) /\ AllAccepted(call, pump[i].batch)
  BY DEF BusInv, HeldAccepted
<1>13. AllAccepted(call', Tail(inbound[i])) /\ call[Head(inbound[i])].pc = "accepted"
  BY <1>1, <1>10, <1>12, AcceptedQueues DEF PumpTakes
<1>14. AllAccepted(call', Append(pump[i].batch, Head(inbound[i])))
  <2>1. Head(inbound[i]) \in EventIds
    BY <1>1, HeadTailProperties DEF PumpTakes
  <2>2. call'[Head(inbound[i])].pc = "accepted"
    BY <2>1, <1>10, <1>13 DEF CallsStay
  <2> QED BY <1>10, <1>11, <1>12, <2>1, <2>2, AcceptedQueues
<1>15. HeldAccepted'
  <2>1. inbound'[i] = Tail(inbound[i])
    BY DEF PumpTakes, BusInv, Shapes
  <2>2. pump'[i].batch = Append(pump[i].batch, Head(inbound[i]))
    BY Zenon DEF PumpTakes, PumpBecomes
  <2>3. ASSUME NEW j \in Installations \ {i}
        PROVE  inbound'[j] = inbound[j] /\ pump'[j].batch = pump[j].batch
    BY DEF PumpTakes, PumpBecomes, BusInv, Shapes
  <2>4. ASSUME NEW j \in Installations \ {i}
        PROVE  AllAccepted(call', inbound[j]) /\ AllAccepted(call', pump[j].batch)
    BY DEF PumpTakes, PumpOnly, publishVars, BusInv, HeldAccepted
  <2> QED BY <1>13, <1>14, <2>1, <2>2, <2>3, <2>4 DEF HeldAccepted
<1> QED BY <1>7, <1>8, <1>9, <1>15 DEF BusInv

LEMMA InvWalks ==
  ASSUME BusInv, NEW i \in Installations, PumpWalks(i)
  PROVE  BusInv'
<1>1. pump' \in [Installations -> PumpRecords]
  BY Zenon DEF PumpWalks, PumpBecomes
<1>2. Shapes'
  BY <1>1, Zenon
     DEF BusInv, Shapes, PumpWalks, PumpOnly, policyVars, publishVars, installVars, linkVars,
         consumerVars, QueuesWithin
<1>3. PumpHolds'
  BY PumpAlone DEF PumpWalks, PumpOnly, installVars
<1>4. CallsNumbered' /\ ConsumerHolds'
  BY DEF BusInv, CallsNumbered, ConsumerHolds, PumpWalks, PumpOnly, publishVars, consumerVars
<1>5. HeldAccepted'
  <2>1. ASSUME NEW j \in Installations
        PROVE  pump'[j].batch = pump[j].batch
    BY Zenon DEF PumpWalks, PumpBecomes
  <2> QED BY <2>1 DEF PumpWalks, PumpOnly, publishVars, BusInv, HeldAccepted
<1> QED BY <1>2, <1>3, <1>4, <1>5 DEF BusInv

(***************************************************************************)
(* When calls, inbound channels and batches stay, what is held stays       *)
(* accepted.                                                               *)
(***************************************************************************)
LEMMA HeldStays ==
  ASSUME BusInv, CallsStay, UNCHANGED inbound,
         \A j \in Installations : pump'[j].batch = pump[j].batch
  PROVE  HeldAccepted'
<1>1. ASSUME NEW j \in Installations
      PROVE  AllAccepted(call', inbound[j]) /\ AllAccepted(call', pump[j].batch)
  <2>1. inbound[j] \in Seq(EventIds) /\ pump[j].batch \in Seq(EventIds)
    BY DEF BusInv, Shapes, PumpRecords
  <2>2. AllAccepted(call, inbound[j]) /\ AllAccepted(call, pump[j].batch)
    BY DEF BusInv, HeldAccepted
  <2> QED BY <2>1, <2>2, AcceptedQueues
<1> QED BY <1>1 DEF HeldAccepted

\* The event fan_out is busy with.
Current(i) == Head(pump[i].batch)

LEMMA CurrentTyped ==
  ASSUME BusInv, NEW i \in Installations, pump[i].batch # <<>>
  PROVE  /\ Current(i) \in EventIds
         /\ call[Current(i)].pc = "accepted"
         /\ Topic(Current(i)) \in Topics
         /\ subscribed[Topic(Current(i))] \in SUBSET Installations
<1>1. pump[i].batch \in Seq(EventIds) /\ AllAccepted(call, pump[i].batch)
  BY DEF BusInv, Shapes, PumpRecords, HeldAccepted
<1>2. Head(pump[i].batch) \in EventIds
  BY <1>1, HeadTailProperties
<1>3. pump[i].batch[1] = Head(pump[i].batch) /\ 1 \in 1..Len(pump[i].batch)
  BY <1>1, EmptySeq
<1>4. call[Current(i)].pc = "accepted"
  BY <1>1, <1>3 DEF AllAccepted, Current
<1>5. Topic(Current(i)) \in Topics
  BY <1>2, <1>4 DEF BusInv, CallsNumbered, Topic, Current
<1> QED BY <1>2, <1>4, <1>5 DEF Current, BusInv, Shapes

LEMMA SnapshotEffect ==
  ASSUME BusInv, NEW i \in Installations, FanOutSnapshot(i)
  PROVE  PumpBecomes(i, pump[i].pc, pump[i].batch, TRUE, subscribed[Topic(Current(i))])
<1>1. pump[i].batch \in Seq(EventIds) /\ pump[i].pc \in PumpPlaces
  BY DEF BusInv, Shapes, PumpRecords
<1>2. subscribed[Topic(Current(i))] \in SUBSET Installations
  BY CurrentTyped DEF FanOutSnapshot
<1>3. pump' = [pump EXCEPT ![i].fanning = TRUE,
                           ![i].pending = subscribed[Topic(Current(i))]]
  BY DEF FanOutSnapshot, Audience, Current
<1> QED BY <1>1, <1>2, <1>3, PumpAssigned DEF BusInv, Shapes

LEMMA InvSnapshot ==
  ASSUME BusInv, NEW i \in Installations, FanOutSnapshot(i)
  PROVE  BusInv'
<1>1. PumpBecomes(i, pump[i].pc, pump[i].batch, TRUE, subscribed[Topic(Current(i))])
  BY SnapshotEffect
<1>2. pump' \in [Installations -> PumpRecords]
  BY <1>1, Zenon DEF PumpBecomes
<1>3. fannedOut' \in SUBSET EventIds
  BY CurrentTyped DEF FanOutSnapshot, Current, BusInv, Shapes
<1>4. Shapes'
  BY <1>2, <1>3, Zenon
     DEF BusInv, Shapes, FanOutSnapshot, policyVars, publishVars, installVars, linkVars,
         consumerVars, QueuesWithin
<1>5. PumpHolds'
  BY <1>1, PumpAlone DEF FanOutSnapshot, installVars
<1>6. CallsNumbered' /\ ConsumerHolds'
  BY DEF BusInv, CallsNumbered, ConsumerHolds, FanOutSnapshot, publishVars, consumerVars
<1>7. HeldAccepted'
  <2>1. CallsStay /\ UNCHANGED inbound
    BY DEF CallsStay, FanOutSnapshot, publishVars
  <2>2. \A j \in Installations : pump'[j].batch = pump[j].batch
    BY <1>1, Zenon DEF PumpBecomes
  <2> QED BY <2>1, <2>2, HeldStays
<1> QED BY <1>4, <1>5, <1>6, <1>7 DEF BusInv

LEMMA DoneEffect ==
  ASSUME BusInv, NEW i \in Installations, FanOutDone(i)
  PROVE  /\ PumpBecomes(i, pump[i].pc, Tail(pump[i].batch), FALSE, pump[i].pending)
         /\ pump[i].batch \in Seq(EventIds)
         /\ pump[i].batch # <<>>
         /\ pump[i].pc \in {"batch", "drain"}
<1>1. /\ pump[i].batch \in Seq(EventIds)
      /\ pump[i].pc \in PumpPlaces
      /\ pump[i].pending \in SUBSET Installations
  BY DEF BusInv, Shapes, PumpRecords
<1>2. pump[i].pc \in {"batch", "drain"} /\ pump[i].batch # <<>>
  BY Zenon DEF BusInv, PumpHolds, FanOutDone
<1>3. Tail(pump[i].batch) \in Seq(EventIds)
  BY <1>1, <1>2, HeadTailProperties
<1>4. pump' = [pump EXCEPT ![i].fanning = FALSE, ![i].batch = Tail(pump[i].batch)]
  <2>1. pump' = [pump EXCEPT ![i].fanning = FALSE, ![i].batch = Tail(@)]
    BY DEF FanOutDone
  <2> QED BY <2>1 DEF BusInv, Shapes
<1> QED BY <1>1, <1>2, <1>3, <1>4, PumpAssigned DEF BusInv, Shapes

LEMMA InvDone ==
  ASSUME BusInv, NEW i \in Installations, FanOutDone(i)
  PROVE  BusInv'
<1>1. /\ PumpBecomes(i, pump[i].pc, Tail(pump[i].batch), FALSE, pump[i].pending)
      /\ pump[i].batch \in Seq(EventIds)
      /\ pump[i].batch # <<>>
      /\ pump[i].pc \in {"batch", "drain"}
  BY DoneEffect
<1>2. pump' \in [Installations -> PumpRecords]
  BY <1>1, Zenon DEF PumpBecomes
<1>3. Shapes'
  BY <1>2, Zenon
     DEF BusInv, Shapes, FanOutDone, policyVars, publishVars, installVars, linkVars,
         consumerVars, QueuesWithin
<1>4. PumpHolds'
  BY <1>1, PumpAlone DEF FanOutDone, installVars
<1>5. CallsNumbered' /\ ConsumerHolds'
  BY DEF BusInv, CallsNumbered, ConsumerHolds, FanOutDone, publishVars, consumerVars
<1>6. HeldAccepted'
  <2>1. CallsStay
    BY DEF CallsStay, FanOutDone, publishVars
  <2>2. ASSUME NEW j \in Installations
        PROVE  AllAccepted(call', inbound[j]) /\ AllAccepted(call', pump[j].batch)
    <3>1. inbound[j] \in Seq(EventIds) /\ pump[j].batch \in Seq(EventIds)
      BY DEF BusInv, Shapes, PumpRecords
    <3>2. AllAccepted(call, inbound[j]) /\ AllAccepted(call, pump[j].batch)
      BY DEF BusInv, HeldAccepted
    <3> QED BY <2>1, <3>1, <3>2, AcceptedQueues
  <2>3. AllAccepted(call', Tail(pump[i].batch))
    BY <1>1, <2>1, AcceptedQueues DEF BusInv, HeldAccepted
  <2>4. pump'[i].batch = Tail(pump[i].batch)
    BY <1>1, Zenon DEF PumpBecomes
  <2>5. \A j \in Installations \ {i} : pump'[j].batch = pump[j].batch
    BY <1>1, Zenon DEF PumpBecomes
  <2>6. UNCHANGED inbound
    BY DEF FanOutDone
  <2> QED BY <2>2, <2>3, <2>4, <2>5, <2>6 DEF HeldAccepted
<1> QED BY <1>3, <1>4, <1>5, <1>6 DEF BusInv

LEMMA OfferEffect ==
  ASSUME BusInv, NEW i \in Installations, NEW s \in Installations, FanOutOffer(i, s)
  PROVE  /\ PumpBecomes(i, pump[i].pc, pump[i].batch, pump[i].fanning, pump[i].pending \ {s})
         /\ pump[i].batch \in Seq(EventIds)
         /\ pump[i].batch # <<>>
         /\ pump[i].pc \in {"batch", "drain"}
<1>1. /\ pump[i].batch \in Seq(EventIds)
      /\ pump[i].pc \in PumpPlaces
      /\ pump[i].pending \in SUBSET Installations
  BY DEF BusInv, Shapes, PumpRecords
<1>2. pump[i].pc \in {"batch", "drain"} /\ pump[i].batch # <<>>
  BY Zenon DEF BusInv, PumpHolds, FanOutOffer
<1>3. pump' = [pump EXCEPT ![i].pending = pump[i].pending \ {s}]
  <2>1. pump' = [pump EXCEPT ![i].pending = @ \ {s}]
    BY DEF FanOutOffer
  <2> QED BY <2>1 DEF BusInv, Shapes
<1> QED BY <1>1, <1>2, <1>3, PumpAssigned DEF BusInv, Shapes

(***************************************************************************)
(* An offer leads to a delivery or to a drop (fan_out).                    *)
(***************************************************************************)
Delivers(l, e) ==
  /\ DeliveryRoom(l)
  /\ delivery' = [delivery EXCEPT ![l] = Append(@, [event |-> e, dropped |-> link[l].dropped])]
  /\ link' = [link EXCEPT ![l] = [sender |-> TRUE, dropped |-> 0]]

Drops(l) ==
  /\ UNCHANGED delivery
  /\ link' = [link EXCEPT ![l] = [sender |-> TRUE, dropped |-> link[l].dropped + 1]]

LEMMA OfferOutcome ==
  ASSUME BusInv, NEW i \in Installations, NEW s \in Installations, FanOutOffer(i, s)
  PROVE  Delivers(<<i, s>>, Current(i)) \/ Drops(<<i, s>>)
<1>1. CASE DeliveryRoom(<<i, s>>)
  BY <1>1, Zenon DEF FanOutOffer, Delivers, Current, AfterDelivery
<1>2. CASE ~ DeliveryRoom(<<i, s>>)
  <2>1. <<i, s>> \in Links /\ link \in [Links -> LinkRecords]
    BY DEF Links, BusInv, Shapes
  <2>2. link' = [link EXCEPT ![<<i, s>>] = [sender |-> TRUE, dropped |-> @.dropped + 1]]
    BY <1>2 DEF FanOutOffer
  <2>3. link' = [link EXCEPT ![<<i, s>>] =
                   [sender |-> TRUE, dropped |-> link[<<i, s>>].dropped + 1]]
    BY <2>1, <2>2
  <2>4. UNCHANGED delivery
    BY <1>2 DEF FanOutOffer
  <2> QED BY <2>3, <2>4 DEF Drops
<1> QED BY <1>1, <1>2

LEMMA LinkTyped ==
  ASSUME NEW r \in LinkRecords
  PROVE  /\ r.dropped \in Nat
         /\ r.sender \in BOOLEAN
         /\ \A n \in Nat, b \in BOOLEAN : [sender |-> b, dropped |-> n] \in LinkRecords
<1>1. \A n \in Nat, b \in BOOLEAN : [sender |-> b, dropped |-> n] \in LinkRecords
  BY Zenon DEF LinkRecords
<1>2. PICK b \in BOOLEAN, n \in Nat : r = [sender |-> b, dropped |-> n]
  BY Zenon DEF LinkRecords
<1> QED BY <1>1, <1>2, Zenon

LEMMA InvOffer ==
  ASSUME BusInv, NEW i \in Installations, NEW s \in Installations, FanOutOffer(i, s)
  PROVE  BusInv'
<1> DEFINE l == <<i, s>>
<1>1. l \in Links
  BY DEF Links
<1>2. /\ PumpBecomes(i, pump[i].pc, pump[i].batch, pump[i].fanning, pump[i].pending \ {s})
      /\ pump[i].batch \in Seq(EventIds)
      /\ pump[i].batch # <<>>
      /\ pump[i].pc \in {"batch", "drain"}
  BY OfferEffect
<1>3. pump' \in [Installations -> PumpRecords]
  BY <1>2, Zenon DEF PumpBecomes
<1>4. Current(i) \in EventIds
  BY <1>2, CurrentTyped
<1>5. offered' \in [Links -> Seq(EventIds)]
  <2>1. offered[l] \in Seq(EventIds)
    BY <1>1 DEF BusInv, Shapes
  <2>2. Append(offered[l], Current(i)) \in Seq(EventIds)
    BY <1>4, <2>1, AppendProperties
  <2> QED BY <2>2 DEF FanOutOffer, Current, BusInv, Shapes
<1>6. consumer' \in [Links -> {"none", "recv", "deliver", "ended"}]
  BY DEF FanOutOffer, BusInv, Shapes
<1>7. ConsumerHolds'
  BY <1>1 DEF FanOutOffer, BusInv, Shapes, ConsumerHolds
<1>8. link[l] \in LinkRecords /\ link[l].dropped \in Nat
  BY <1>1, LinkTyped DEF BusInv, Shapes
<1>9. link' \in [Links -> LinkRecords]
  <2>1. ASSUME NEW n \in Nat, link' = [link EXCEPT ![l] = [sender |-> TRUE, dropped |-> n]]
        PROVE  link' \in [Links -> LinkRecords]
    <3>1. PICK r : r = [sender |-> TRUE, dropped |-> n]
      OBVIOUS
    <3>2. r \in LinkRecords
      BY <1>8, <3>1, LinkTyped
    <3> QED BY <2>1, <3>1, <3>2 DEF BusInv, Shapes
  <2>2. 0 \in Nat /\ link[l].dropped + 1 \in Nat
    BY <1>8
  <2> QED BY <2>1, <2>2, OfferOutcome, Zenon DEF Delivers, Drops
<1>10. delivery' \in [Links -> Seq(DeliveredEvents)]
       /\ QueuesWithin(delivery', Links, DeliveryQueueCapacity)
  <2>1. CASE Delivers(l, Current(i))
    <3>1. PICK d : d = [event |-> Current(i), dropped |-> link[l].dropped]
      OBVIOUS
    <3>2. d \in DeliveredEvents
      BY <1>4, <1>8, <3>1 DEF DeliveredEvents
    <3>3. delivery[l] \in Seq(DeliveredEvents)
      BY <1>1 DEF BusInv, Shapes
    <3>4. /\ Append(delivery[l], d) \in Seq(DeliveredEvents)
          /\ Len(Append(delivery[l], d)) = Len(delivery[l]) + 1
          /\ Len(delivery[l]) \in Nat
      BY <3>2, <3>3, AppendProperties, LenProperties
    <3>5. delivery' = [delivery EXCEPT ![l] = Append(delivery[l], d)]
      BY <1>1, <2>1, <3>1 DEF Delivers, BusInv, Shapes
    <3>6. Len(Append(delivery[l], d)) <= DeliveryQueueCapacity
      BY <2>1, <3>4, CapacitiesAssumption DEF Delivers, DeliveryRoom
    <3> QED BY <3>4, <3>5, <3>6 DEF BusInv, Shapes, QueuesWithin
  <2>2. CASE Drops(l)
    BY <2>2 DEF Drops, BusInv, Shapes
  <2> QED BY <2>1, <2>2, OfferOutcome
<1>11. Shapes'
  BY <1>3, <1>5, <1>6, <1>9, <1>10, Zenon
     DEF BusInv, Shapes, FanOutOffer, policyVars, publishVars, installVars, QueuesWithin
<1>12. PumpHolds'
  BY <1>2, PumpAlone, Zenon DEF FanOutOffer, installVars
<1>13. CallsNumbered'
  BY DEF BusInv, CallsNumbered, FanOutOffer, publishVars
<1>14. HeldAccepted'
  <2>1. CallsStay /\ UNCHANGED inbound
    BY DEF CallsStay, FanOutOffer, publishVars
  <2>2. \A j \in Installations : pump'[j].batch = pump[j].batch
    BY <1>2, Zenon DEF PumpBecomes
  <2> QED BY <2>1, <2>2, HeldStays
<1> QED BY <1>7, <1>11, <1>12, <1>13, <1>14 DEF BusInv

LEMMA ExitEffect ==
  ASSUME BusInv, NEW i \in Installations, PumpExit(i)
  PROVE  /\ PumpBecomes(i, "ended", <<>>, pump[i].fanning, pump[i].pending)
         /\ pump[i].batch = <<>>
         /\ ~ pump[i].fanning
<1>1. <<>> \in Seq(EventIds) /\ "ended" \in PumpPlaces
  BY EmptySeq DEF PumpPlaces
<1>2. PumpBecomes(i, "ended", <<>>, pump[i].fanning, pump[i].pending)
  <2>1. pump \in [Installations -> PumpRecords]
    BY DEF BusInv, Shapes
  <2>2. pump[i].fanning \in BOOLEAN /\ pump[i].pending \in SUBSET Installations
    BY <2>1, Zenon DEF PumpRecords
  <2> QED BY <1>1, <2>1, <2>2, PumpAssigned, Zenon DEF PumpExit
<1>3. pump[i].batch = <<>> /\ ~ pump[i].fanning
  BY Zenon DEF BusInv, PumpHolds, PumpExit
<1> QED BY <1>2, <1>3

LEMMA InvExit ==
  ASSUME BusInv, NEW i \in Installations, PumpExit(i)
  PROVE  BusInv'
<1>1. /\ PumpBecomes(i, "ended", <<>>, pump[i].fanning, pump[i].pending)
      /\ ~ pump[i].fanning
  BY ExitEffect
<1>2. pump' \in [Installations -> PumpRecords]
  BY <1>1, Zenon DEF PumpBecomes
<1>3. <<>> \in Seq(EventIds) /\ Len(<<>>) = 0
  BY EmptySeq
<1>4. inbound' \in [Installations -> Seq(EventIds)]
  BY <1>3 DEF PumpExit, BusInv, Shapes
<1>5. QueuesWithin(inbound', Installations, InboundQueueCapacity)
  BY <1>3, CapacitiesAssumption DEF PumpExit, BusInv, Shapes, QueuesWithin
<1>6. link' \in [Links -> LinkRecords]
  <2>1. PICK r : r = [sender |-> FALSE, dropped |-> 0]
    OBVIOUS
  <2>2. r \in LinkRecords
    BY <2>1, Zenon DEF LinkRecords
  <2>3. link' = [l \in Links |-> IF l[1] = i THEN r ELSE link[l]]
    BY <2>1 DEF PumpExit, LinksClosed
  <2> QED BY <2>2, <2>3 DEF BusInv, Shapes
<1>7. Shapes'
  BY <1>2, <1>4, <1>5, <1>6, Zenon
     DEF BusInv, Shapes, PumpExit, policyVars, publishVars, installVars, consumerVars,
         QueuesWithin
<1>8. PumpHolds'
  BY <1>1, PumpAlone DEF PumpExit, installVars
<1>9. CallsNumbered' /\ ConsumerHolds'
  BY DEF BusInv, CallsNumbered, ConsumerHolds, PumpExit, publishVars, consumerVars
<1>10. HeldAccepted'
  <2>1. pump'[i].batch = <<>> /\ inbound'[i] = <<>>
    BY <1>1 DEF PumpBecomes, PumpExit, BusInv, Shapes
  <2>2. \A j \in Installations \ {i} : pump'[j] = pump[j] /\ inbound'[j] = inbound[j]
    BY <1>1 DEF PumpBecomes, PumpExit, BusInv, Shapes
  <2>3. UNCHANGED call
    BY DEF PumpExit, publishVars
  <2> QED BY <1>3, <2>1, <2>2, <2>3 DEF HeldAccepted, BusInv, AllAccepted
<1> QED BY <1>7, <1>8, <1>9, <1>10 DEF BusInv

-----------------------------------------------------------------------------

\* One call moves on, and keeps its installation and its topic.
CallMoves(e, pc) ==
  /\ call' \in [EventIds -> CallRecords]
  /\ call'[e].pc = pc /\ call'[e].inst = call[e].inst /\ call'[e].topic = call[e].topic
  /\ \A d \in EventIds \ {e} : call'[d] = call[d]

LEMMA CallAssigned ==
  ASSUME BusInv, NEW e \in EventIds, NEW pc \in CallPlaces, call' = [call EXCEPT ![e].pc = pc]
  PROVE  CallMoves(e, pc)
BY DEF BusInv, Shapes, CallRecords, CallMoves

LEMMA CallMoved ==
  ASSUME BusInv, NEW e \in EventIds, NEW pc, CallMoves(e, pc), UNCHANGED nextEventId,
         call[e].pc \in {"numbered", "holding"}, pc # "idle"
  PROVE  CallsNumbered' /\ CallsStay
<1>1. CallsStay
  BY DEF CallsStay, CallMoves
<1>2. ASSUME NEW d \in EventIds
      PROVE  /\ call'[d].pc # "idle" =>
                  call'[d].inst \in Installations /\ call'[d].topic \in Topics
             /\ d >= nextEventId => call'[d].pc = "idle"
  <2>1. CASE d = e
    BY <2>1 DEF CallMoves, BusInv, CallsNumbered
  <2>2. CASE d # e
    BY <2>2 DEF CallMoves, BusInv, CallsNumbered
  <2> QED BY <2>1, <2>2
<1> QED BY <1>1, <1>2 DEF CallsNumbered

LEMMA InvEnsure ==
  ASSUME BusInv, NEW e \in EventIds, EnsureInstall(e)
  PROVE  BusInv'
<1> DEFINE i == Publisher(e)
<1>1. i \in Installations
  BY DEF EnsureInstall, BusInv, CallsNumbered, Publisher
<1>2. PICK pc \in {"holding", "refused"} : call' = [call EXCEPT ![e].pc = pc]
  BY DEF EnsureInstall
<1>3. CallMoves(e, pc)
  BY <1>2, CallAssigned DEF CallPlaces
<1>4. CallsNumbered' /\ CallsStay
  BY <1>2, <1>3, CallMoved DEF EnsureInstall
<1>5. \/ UNCHANGED pump
      \/ PumpBecomes(i, "select", pump[i].batch, pump[i].fanning, pump[i].pending)
  <2>1. \A b \in Seq(EventIds), flag \in BOOLEAN, set \in SUBSET Installations :
          pump' = [pump EXCEPT ![i].pc = "select"] =>
            PumpBecomes(i, "select", pump[i].batch, pump[i].fanning, pump[i].pending)
    BY <1>1, PumpAssigned DEF BusInv, Shapes, PumpPlaces
  <2>2. <<>> \in Seq(EventIds) /\ FALSE \in BOOLEAN /\ {} \in SUBSET Installations
    BY EmptySeq
  <2> QED BY <2>1, <2>2, Zenon DEF EnsureInstall
<1>6. ASSUME NEW j \in Installations
      PROVE  /\ pump'[j].batch = pump[j].batch
             /\ entry'[j] = "absent" => pump'[j].pc = "none"
             /\ pump'[j].pc \in {"none", "select", "exit", "ended"} => pump'[j].batch = <<>>
             /\ pump'[j].fanning => pump'[j].pc \in {"batch", "drain"} /\ pump'[j].batch # <<>>
  <2>1. CASE UNCHANGED pump
    <3>1. entry'[j] = "absent" => entry[j] = "absent"
      BY DEF EnsureInstall, BusInv, Shapes
    <3> QED BY <2>1, <3>1, Zenon DEF BusInv, PumpHolds
  <2>2. CASE pump' # pump
    <3>1. entry[i] = "absent" /\ entry' = [entry EXCEPT ![i] = "open"]
      BY <2>2 DEF EnsureInstall
    <3>2. pump[i].pc = "none"
      BY <1>1, <3>1, Zenon DEF BusInv, PumpHolds
    <3>3. pump[i].batch = <<>> /\ ~ pump[i].fanning
      BY <1>1, <3>2, Zenon DEF BusInv, PumpHolds
    <3>4. entry'[i] = "open" /\ (j # i => entry'[j] = entry[j])
      BY <1>1, <3>1 DEF BusInv, Shapes
    <3>5. /\ pump'[i].pc = "select"
          /\ pump'[i].batch = pump[i].batch
          /\ pump'[i].fanning = pump[i].fanning
          /\ j # i => pump'[j] = pump[j]
      BY <1>5, <2>2, Zenon DEF PumpBecomes
    <3>6. CASE j = i
      BY <3>3, <3>4, <3>5, <3>6, Zenon
    <3>7. CASE j # i
      <4>1. pump'[j] = pump[j] /\ entry'[j] = entry[j]
        BY <3>4, <3>5, <3>7
      <4> QED BY <4>1, Zenon DEF BusInv, PumpHolds
    <3> QED BY <3>6, <3>7
  <2> QED BY <2>1, <2>2
<1>7. PumpHolds'
  BY <1>6, Zenon DEF PumpHolds
<1>8. HeldAccepted'
  BY <1>4, <1>6, HeldStays DEF EnsureInstall
<1>9. pump' \in [Installations -> PumpRecords]
  BY <1>5, Zenon DEF PumpBecomes, BusInv, Shapes
<1>10. entry' \in [Installations -> {"absent", "open", "stopped"}]
  BY DEF EnsureInstall, BusInv, Shapes
<1>11. Shapes'
  BY <1>3, <1>9, <1>10, Zenon
     DEF BusInv, Shapes, EnsureInstall, CallMoves, policyVars, linkVars, consumerVars,
         QueuesWithin
<1>12. ConsumerHolds'
  BY DEF BusInv, ConsumerHolds, EnsureInstall, consumerVars
<1> QED BY <1>4, <1>7, <1>8, <1>11, <1>12 DEF BusInv

LEMMA InvNumber ==
  ASSUME BusInv, NEW i \in Installations, NEW topic \in Topics, PublishNumber(i, topic)
  PROVE  BusInv'
<1> DEFINE e == nextEventId
<1>1. e \in EventIds /\ call[e].pc = "idle"
  BY CapacitiesAssumption DEF PublishNumber, BusInv, Shapes, CallsNumbered, EventIds
<1>2. PICK r : r = [pc |-> "numbered", inst |-> i, topic |-> topic]
  OBVIOUS
<1>3. r \in CallRecords /\ r.pc = "numbered" /\ r.inst = i /\ r.topic = topic
  BY <1>2 DEF CallRecords, CallPlaces
<1>4. call' = [call EXCEPT ![e] = r]
  BY <1>2 DEF PublishNumber
<1>5. /\ call' \in [EventIds -> CallRecords]
      /\ call'[e] = r
      /\ \A d \in EventIds \ {e} : call'[d] = call[d]
  BY <1>1, <1>3, <1>4 DEF BusInv, Shapes
<1>6. nextEventId' \in 1..(MaxEvents + 1) /\ nextEventId' = e + 1
  BY <1>1, CapacitiesAssumption DEF PublishNumber, EventIds
<1>7. CallsNumbered'
  <2>1. ASSUME NEW d \in EventIds
        PROVE  /\ call'[d].pc # "idle" =>
                    call'[d].inst \in Installations /\ call'[d].topic \in Topics
               /\ d >= e + 1 => call'[d].pc = "idle"
    <3>1. CASE d = e
      BY <1>1, <1>3, <1>5, <3>1, CapacitiesAssumption DEF EventIds
    <3>2. CASE d # e
      <4>1. d >= e + 1 => d >= e
        BY <1>1, CapacitiesAssumption DEF EventIds
      <4> QED BY <1>5, <3>2, <4>1 DEF BusInv, CallsNumbered
    <3> QED BY <3>1, <3>2
  <2> QED BY <1>6, <2>1 DEF CallsNumbered
<1>8. CallsStay
  BY <1>1, <1>5 DEF CallsStay
<1>9. HeldAccepted'
  BY <1>8, HeldStays DEF PublishNumber, pumpVars
<1>10. Shapes'
  BY <1>5, <1>6, Zenon
     DEF BusInv, Shapes, PublishNumber, policyVars, installVars, pumpVars, linkVars,
         consumerVars, QueuesWithin
<1>11. PumpHolds' /\ ConsumerHolds'
  BY Zenon DEF BusInv, PumpHolds, ConsumerHolds, PublishNumber, pumpVars, installVars,
               consumerVars
<1> QED BY <1>7, <1>9, <1>10, <1>11 DEF BusInv

LEMMA SendEffect ==
  ASSUME BusInv, NEW e \in EventIds, PublishSend(e)
  PROVE  /\ Publisher(e) \in Installations
         /\ Topic(e) \in Topics
         /\ CallsNumbered' /\ CallsStay
         /\ \/ /\ CallMoves(e, "accepted")
               /\ InboundRoom(Publisher(e))
               /\ ReceiverAlive(Publisher(e))
               /\ inbound' = [inbound EXCEPT ![Publisher(e)] = Append(inbound[Publisher(e)], e)]
               /\ accepted' =
                    [accepted EXCEPT ![Publisher(e)] = Append(accepted[Publisher(e)], e)]
               /\ mayReach' = [mayReach EXCEPT ![e] = subscribed[Topic(e)]]
            \/ CallMoves(e, "refused") /\ UNCHANGED <<inbound, accepted, mayReach>>
<1>1. Publisher(e) \in Installations /\ Topic(e) \in Topics
  BY DEF PublishSend, BusInv, CallsNumbered, Publisher, Topic
<1>2. CASE ReceiverAlive(Publisher(e)) /\ InboundRoom(Publisher(e))
  <2>1. CallMoves(e, "accepted")
    BY <1>2, CallAssigned DEF PublishSend, CallPlaces
  <2>2. CallsNumbered' /\ CallsStay
    BY <2>1, CallMoved DEF PublishSend
  <2> QED BY <1>1, <1>2, <2>1, <2>2 DEF PublishSend, BusInv, Shapes
<1>3. CASE ~ (ReceiverAlive(Publisher(e)) /\ InboundRoom(Publisher(e)))
  <2>1. CallMoves(e, "refused")
    BY <1>3, CallAssigned DEF PublishSend, CallPlaces
  <2>2. CallsNumbered' /\ CallsStay
    BY <2>1, CallMoved DEF PublishSend
  <2> QED BY <1>1, <1>3, <2>1, <2>2 DEF PublishSend
<1> QED BY <1>2, <1>3

LEMMA InvSend ==
  ASSUME BusInv, NEW e \in EventIds, PublishSend(e)
  PROVE  BusInv'
<1> DEFINE i == Publisher(e)
<1>1. /\ i \in Installations
      /\ Topic(e) \in Topics
      /\ CallsNumbered' /\ CallsStay
  BY SendEffect
<1>2. call' \in [EventIds -> CallRecords]
  BY SendEffect DEF CallMoves
<1>3. /\ inbound[i] \in Seq(EventIds)
      /\ Append(inbound[i], e) \in Seq(EventIds)
      /\ Len(Append(inbound[i], e)) = Len(inbound[i]) + 1
      /\ Len(inbound[i]) \in Nat
  BY <1>1, AppendProperties, LenProperties DEF BusInv, Shapes
<1>4. Append(accepted[i], e) \in Seq(EventIds)
  BY <1>1, AppendProperties DEF BusInv, Shapes
<1>5. /\ inbound' \in [Installations -> Seq(EventIds)]
      /\ accepted' \in [Installations -> Seq(EventIds)]
      /\ mayReach' \in [EventIds -> SUBSET Installations]
  <2>1. CASE UNCHANGED <<inbound, accepted, mayReach>>
    BY <2>1 DEF BusInv, Shapes
  <2>2. CASE /\ inbound' = [inbound EXCEPT ![i] = Append(inbound[i], e)]
             /\ accepted' = [accepted EXCEPT ![i] = Append(accepted[i], e)]
             /\ mayReach' = [mayReach EXCEPT ![e] = subscribed[Topic(e)]]
    BY <1>1, <1>3, <1>4, <2>2 DEF BusInv, Shapes
  <2> QED BY <2>1, <2>2, SendEffect
<1>6. QueuesWithin(inbound', Installations, InboundQueueCapacity)
  <2>1. InboundRoom(i) => Len(inbound[i]) + 1 <= InboundQueueCapacity
    BY <1>3, CapacitiesAssumption DEF InboundRoom
  <2>2. InboundRoom(i) => Len(Append(inbound[i], e)) <= InboundQueueCapacity
    BY <1>3, <2>1
  <2> QED BY <1>1, <2>2, SendEffect DEF BusInv, Shapes, QueuesWithin
<1>7. Shapes'
  BY <1>2, <1>5, <1>6, Zenon
     DEF BusInv, Shapes, PublishSend, installVars, pumpVars, linkVars, consumerVars, QueuesWithin
<1>8. PumpHolds' /\ ConsumerHolds'
  BY Zenon DEF BusInv, PumpHolds, ConsumerHolds, PublishSend, pumpVars, installVars, consumerVars
<1>9. HeldAccepted'
  <2>1. UNCHANGED pump
    BY DEF PublishSend, pumpVars
  <2>2. CASE UNCHANGED inbound
    BY <1>1, <2>1, <2>2, HeldStays
  <2>3. CASE /\ CallMoves(e, "accepted")
             /\ inbound' = [inbound EXCEPT ![i] = Append(inbound[i], e)]
    <3>1. ASSUME NEW j \in Installations
          PROVE  AllAccepted(call', inbound[j]) /\ AllAccepted(call', pump[j].batch)
      <4>1. inbound[j] \in Seq(EventIds) /\ pump[j].batch \in Seq(EventIds)
        BY DEF BusInv, Shapes, PumpRecords
      <4>2. AllAccepted(call, inbound[j]) /\ AllAccepted(call, pump[j].batch)
        BY DEF BusInv, HeldAccepted
      <4> QED BY <1>1, <4>1, <4>2, AcceptedQueues
    <3>2. call'[e].pc = "accepted"
      BY <2>3 DEF CallMoves
    <3>3. AllAccepted(call, inbound[i])
      BY <1>1 DEF BusInv, HeldAccepted
    <3>4. AllAccepted(call', Append(inbound[i], e))
      BY <1>1, <1>3, <3>2, <3>3, AcceptedQueues
    <3>5. \A j \in Installations :
            inbound'[j] = IF j = i THEN Append(inbound[i], e) ELSE inbound[j]
      BY <1>1, <2>3 DEF BusInv, Shapes
    <3> QED BY <2>1, <3>1, <3>4, <3>5 DEF HeldAccepted
  <2> QED BY <2>2, <2>3, SendEffect
<1> QED BY <1>1, <1>7, <1>8, <1>9 DEF BusInv

-----------------------------------------------------------------------------

LEMMA InvPolicy ==
  ASSUME BusInv, NEW s \in Installations, NEW topic \in Topics,
         GrantSubscribe(s, topic) \/ RevokeSubscribe(s, topic)
  PROVE  BusInv'
<1>1. /\ UNCHANGED <<publishVars, installVars, inbound, pumpVars, linkVars, consumerVars>>
      /\ subscribed' \in [Topics -> SUBSET Installations]
      /\ mayReach' \in [EventIds -> SUBSET Installations]
  <2>1. CASE GrantSubscribe(s, topic)
    BY <2>1 DEF GrantSubscribe, BusInv, Shapes
  <2>2. CASE RevokeSubscribe(s, topic)
    BY <2>2 DEF RevokeSubscribe, BusInv, Shapes
  <2> QED BY <2>1, <2>2
<1>2. Shapes'
  BY <1>1, Zenon
     DEF BusInv, Shapes, publishVars, installVars, pumpVars, linkVars, consumerVars, QueuesWithin
<1>3. CallsNumbered' /\ PumpHolds' /\ ConsumerHolds' /\ HeldAccepted'
  BY <1>1, Zenon
     DEF BusInv, CallsNumbered, PumpHolds, ConsumerHolds, HeldAccepted, publishVars,
         installVars, pumpVars, consumerVars
<1> QED BY <1>2, <1>3 DEF BusInv

LEMMA InvStop ==
  ASSUME BusInv, NEW i \in Installations, StopMark(i) \/ StopCancelToken(i)
  PROVE  BusInv'
<1>1. /\ UNCHANGED <<policyVars, publishVars, inbound, pumpVars, linkVars, consumerVars>>
      /\ entry' \in [Installations -> {"absent", "open", "stopped"}]
      /\ cancelled' \in [Installations -> BOOLEAN]
      /\ \A j \in Installations : entry'[j] = "absent" => entry[j] = "absent"
  <2>1. CASE StopMark(i)
    BY <2>1 DEF StopMark, BusInv, Shapes
  <2>2. CASE StopCancelToken(i)
    <3>1. cancelled' \in [Installations -> BOOLEAN]
      BY <2>2 DEF StopCancelToken, BusInv, Shapes
    <3> QED BY <2>2, <3>1, Zenon DEF StopCancelToken, BusInv, Shapes
  <2> QED BY <2>1, <2>2, Zenon
<1>2. Shapes'
  BY <1>1, Zenon
     DEF BusInv, Shapes, policyVars, publishVars, pumpVars, linkVars, consumerVars, QueuesWithin
<1>3. CallsNumbered' /\ PumpHolds' /\ ConsumerHolds' /\ HeldAccepted'
  BY <1>1, Zenon
     DEF BusInv, CallsNumbered, PumpHolds, ConsumerHolds, HeldAccepted, publishVars,
         pumpVars, consumerVars
<1> QED BY <1>2, <1>3 DEF BusInv

LEMMA InvConsumer ==
  ASSUME BusInv, NEW l \in Links, ConsumerStep(l)
  PROVE  BusInv'
<1>1. /\ delivery[l] \in Seq(DeliveredEvents)
      /\ handled[l] \in Seq(DeliveredEvents)
      /\ Len(delivery[l]) \in Nat
  BY LenProperties DEF BusInv, Shapes
<1>2. /\ UNCHANGED <<policyVars, publishVars, installVars, inbound, pumpVars, link, offered>>
      /\ delivery' \in [Links -> Seq(DeliveredEvents)]
      /\ QueuesWithin(delivery', Links, DeliveryQueueCapacity)
      /\ consumer' \in [Links -> {"none", "recv", "deliver", "ended"}]
      /\ hand' \in [Links -> DeliveredEvents \cup {NoEvent}]
      /\ handled' \in [Links -> Seq(DeliveredEvents)]
      /\ ConsumerHolds'
  <2>1. CASE ConsumerRecv(l)
    <3>1. /\ Head(delivery[l]) \in DeliveredEvents
          /\ Tail(delivery[l]) \in Seq(DeliveredEvents)
          /\ Len(Tail(delivery[l])) = Len(delivery[l]) - 1
      BY <1>1, <2>1, HeadTailProperties DEF ConsumerRecv
    <3>2. QueuesWithin(delivery', Links, DeliveryQueueCapacity)
      BY <1>1, <2>1, <3>1, CapacitiesAssumption DEF ConsumerRecv, BusInv, Shapes, QueuesWithin
    <3>3. ConsumerHolds'
      BY <2>1, <3>1 DEF ConsumerRecv, BusInv, Shapes, ConsumerHolds
    <3> QED BY <2>1, <3>1, <3>2, <3>3 DEF ConsumerRecv, BusInv, Shapes
  <2>2. CASE ConsumerDeliver(l)
    <3>1. Append(handled[l], hand[l]) \in Seq(DeliveredEvents)
      BY <1>1, <2>2, AppendProperties DEF ConsumerDeliver, BusInv, ConsumerHolds
    <3>2. ConsumerHolds'
      BY <2>2 DEF ConsumerDeliver, BusInv, Shapes, ConsumerHolds
    <3> QED BY <2>2, <3>1, <3>2 DEF ConsumerDeliver, BusInv, Shapes, linkVars
  <2>3. CASE ConsumerEnd(l)
    BY <2>3 DEF ConsumerEnd, BusInv, Shapes, ConsumerHolds, linkVars, QueuesWithin
  <2> QED BY <2>1, <2>2, <2>3 DEF ConsumerStep
<1>3. Shapes'
  BY <1>2, Zenon DEF BusInv, Shapes, policyVars, publishVars, installVars, pumpVars, QueuesWithin
<1>4. CallsNumbered' /\ PumpHolds' /\ HeldAccepted'
  BY <1>2, Zenon
     DEF BusInv, CallsNumbered, PumpHolds, HeldAccepted, publishVars, installVars, pumpVars
<1> QED BY <1>2, <1>3, <1>4 DEF BusInv

LEMMA InvStutter == BusInv /\ UNCHANGED vars => BusInv'
BY Zenon
   DEF BusInv, Shapes, CallsNumbered, PumpHolds, ConsumerHolds, HeldAccepted, vars, policyVars,
       publishVars, installVars, pumpVars, linkVars, consumerVars, QueuesWithin

LEMMA InvNext == BusInv /\ [Next]_vars => BusInv'
<1>1. SUFFICES ASSUME BusInv, Next PROVE BusInv'
  BY InvStutter
<1>2. ASSUME NEW i \in Installations, PumpStep(i) PROVE BusInv'
  BY <1>1, <1>2, PumpSteps, InvTakes, InvWalks, InvSnapshot, InvDone, InvExit, InvOffer, Zenon
<1>3. ASSUME NEW s \in Installations, NEW topic \in Topics,
             GrantSubscribe(s, topic) \/ RevokeSubscribe(s, topic) \/ PublishNumber(s, topic)
      PROVE BusInv'
  BY <1>1, <1>3, InvPolicy, InvNumber, Zenon
<1>4. ASSUME NEW e \in EventIds, EnsureInstall(e) \/ PublishSend(e) PROVE BusInv'
  BY <1>1, <1>4, InvEnsure, InvSend, Zenon
<1>5. ASSUME NEW i \in Installations, StopMark(i) \/ StopCancelToken(i) PROVE BusInv'
  BY <1>1, <1>5, InvStop, Zenon
<1>6. ASSUME NEW l \in Links, ConsumerStep(l) PROVE BusInv'
  BY <1>1, <1>6, InvConsumer, Zenon
<1> QED BY <1>1, <1>2, <1>3, <1>4, <1>5, <1>6, Zenon DEF Next

LEMMA BusAlways == Spec => []BusInv
BY BusInit, InvNext, PTL DEF Spec

(***************************************************************************)
(* Every channel stays within its capacity, and every variable has its     *)
(* type: no pump fans out an event it was not given, no consumer calls the *)
(* handler without an event (event.rs).                                    *)
(***************************************************************************)
THEOREM BusTypeCorrect == Spec => []TypeOK
<1>1. BusInv => TypeOK
  BY ShapesAreTypes DEF BusInv
<1> QED BY <1>1, BusAlways, PTL

-----------------------------------------------------------------------------
(* Order. *)

\* behind events of acc are over, and the others are in batch and in channel, in
\* the order of acc.
InOrder(acc, batch, channel, behind) ==
  /\ behind \in Nat
  /\ Len(acc) = behind + Len(batch) + Len(channel)
  /\ \A k \in 1..Len(batch) : batch[k] = acc[behind + k]
  /\ \A k \in 1..Len(channel) : channel[k] = acc[behind + Len(batch) + k]

Distinct(acc) == \A j, k \in 1..Len(acc) : acc[j] = acc[k] => j = k

\* off holds events of the first reached ones of acc, in the order of acc.
Ascending(acc, off, reached) ==
  /\ reached \in 0..Len(acc)
  /\ \A k \in 1..Len(off) : \E p \in 1..reached : acc[p] = off[k]
  /\ \A j, k \in 1..Len(off), p, q \in 1..Len(acc) :
       j < k /\ acc[p] = off[j] /\ acc[q] = off[k] => p < q

(***************************************************************************)
(* Taking an event out of the channel keeps the order.                     *)
(***************************************************************************)
LEMMA TakeInOrder ==
  ASSUME NEW acc \in Seq(EventIds), NEW batch \in Seq(EventIds),
         NEW channel \in Seq(EventIds), NEW behind,
         InOrder(acc, batch, channel, behind), channel # <<>>
  PROVE  InOrder(acc, Append(batch, Head(channel)), Tail(channel), behind)
<1>1. /\ Len(acc) \in Nat /\ Len(batch) \in Nat /\ Len(channel) \in Nat \ {0}
      /\ Head(channel) \in EventIds
      /\ Head(channel) = channel[1]
      /\ Len(Tail(channel)) = Len(channel) - 1
      /\ \A k \in 1..Len(Tail(channel)) : Tail(channel)[k] = channel[k + 1]
  BY LenProperties, HeadTailProperties, EmptySeq
<1>2. PICK h \in EventIds : h = Head(channel)
  BY <1>1
<1>3. PICK b : b = Append(batch, h)
  OBVIOUS
<1>4. /\ Len(b) = Len(batch) + 1
      /\ \A k \in 1..Len(batch) : b[k] = batch[k]
      /\ b[Len(batch) + 1] = h
  BY <1>3, AppendProperties
<1>5. PICK c : c = Tail(channel)
  OBVIOUS
<1>6. Len(c) = Len(channel) - 1 /\ \A k \in 1..Len(c) : c[k] = channel[k + 1]
  BY <1>1, <1>5
<1>7. behind \in Nat /\ Len(acc) = behind + Len(b) + Len(c)
  BY <1>1, <1>4, <1>6 DEF InOrder
<1>8. ASSUME NEW k \in 1..Len(b) PROVE b[k] = acc[behind + k]
  <2>1. CASE k \in 1..Len(batch)
    BY <1>4, <2>1 DEF InOrder
  <2>2. CASE k = Len(batch) + 1
    <3>1. channel[1] = acc[behind + Len(batch) + 1]
      BY <1>1 DEF InOrder
    <3>2. behind + k = behind + Len(batch) + 1
      BY <1>1, <1>7, <2>2
    <3> QED BY <1>1, <1>2, <1>4, <2>2, <3>1, <3>2
  <2> QED BY <1>1, <1>4, <2>1, <2>2
<1>9. ASSUME NEW k \in 1..Len(c) PROVE c[k] = acc[behind + Len(b) + k]
  <2>1. k + 1 \in 1..Len(channel) /\ behind + Len(b) + k = behind + Len(batch) + (k + 1)
    BY <1>1, <1>4, <1>6, <1>7
  <2>2. channel[k + 1] = acc[behind + Len(batch) + (k + 1)]
    BY <2>1 DEF InOrder
  <2> QED BY <1>6, <2>1, <2>2
<1>10. InOrder(acc, b, c, behind)
  BY <1>7, <1>8, <1>9 DEF InOrder
<1> QED BY <1>2, <1>3, <1>5, <1>10

(***************************************************************************)
(* The event at the head of the batch is the next one, and so is the head  *)
(* of what is left when it is done.                                        *)
(***************************************************************************)
LEMMA DoneInOrder ==
  ASSUME NEW acc \in Seq(EventIds), NEW batch \in Seq(EventIds),
         NEW channel \in Seq(EventIds), NEW behind,
         InOrder(acc, batch, channel, behind), batch # <<>>
  PROVE  /\ InOrder(acc, Tail(batch), channel, behind + 1)
         /\ Head(batch) = acc[behind + 1]
         /\ behind + 1 \in 1..Len(acc)
<1>1. /\ Len(acc) \in Nat /\ Len(batch) \in Nat \ {0} /\ Len(channel) \in Nat
      /\ Head(batch) = batch[1]
      /\ Len(Tail(batch)) = Len(batch) - 1
      /\ \A k \in 1..Len(Tail(batch)) : Tail(batch)[k] = batch[k + 1]
  BY LenProperties, HeadTailProperties, EmptySeq
<1>2. PICK b : b = Tail(batch)
  OBVIOUS
<1>3. Len(b) = Len(batch) - 1 /\ \A k \in 1..Len(b) : b[k] = batch[k + 1]
  BY <1>1, <1>2
<1>4. behind + 1 \in Nat /\ Len(acc) = (behind + 1) + Len(b) + Len(channel)
  BY <1>1, <1>3 DEF InOrder
<1>5. ASSUME NEW k \in 1..Len(b) PROVE b[k] = acc[(behind + 1) + k]
  <2>1. k + 1 \in 1..Len(batch) /\ behind + (k + 1) = (behind + 1) + k
    BY <1>1, <1>3 DEF InOrder
  <2>2. batch[k + 1] = acc[behind + (k + 1)]
    BY <2>1 DEF InOrder
  <2> QED BY <1>3, <2>1, <2>2
<1>6. ASSUME NEW k \in 1..Len(channel) PROVE channel[k] = acc[(behind + 1) + Len(b) + k]
  <2>1. behind + Len(batch) + k = (behind + 1) + Len(b) + k
    BY <1>1, <1>3 DEF InOrder
  <2> QED BY <2>1 DEF InOrder
<1>7. InOrder(acc, b, channel, behind + 1)
  BY <1>4, <1>5, <1>6 DEF InOrder
<1>8. Head(batch) = acc[behind + 1]
  BY <1>1 DEF InOrder
<1>9. behind + 1 \in 1..Len(acc)
  BY <1>1 DEF InOrder
<1> QED BY <1>2, <1>7, <1>8, <1>9

(***************************************************************************)
(* An accepted event goes to the end.                                      *)
(***************************************************************************)
LEMMA AcceptInOrder ==
  ASSUME NEW acc \in Seq(EventIds), NEW batch \in Seq(EventIds),
         NEW channel \in Seq(EventIds), NEW behind, NEW e \in EventIds,
         InOrder(acc, batch, channel, behind)
  PROVE  InOrder(Append(acc, e), batch, Append(channel, e), behind)
<1>1. Len(acc) \in Nat /\ Len(batch) \in Nat /\ Len(channel) \in Nat /\ behind \in Nat
  BY LenProperties DEF InOrder
<1>2. PICK a : a = Append(acc, e)
  OBVIOUS
<1>3. Len(a) = Len(acc) + 1 /\ a[Len(acc) + 1] = e /\ \A k \in 1..Len(acc) : a[k] = acc[k]
  BY <1>2, AppendProperties
<1>4. PICK c : c = Append(channel, e)
  OBVIOUS
<1>5. /\ Len(c) = Len(channel) + 1
      /\ c[Len(channel) + 1] = e
      /\ \A k \in 1..Len(channel) : c[k] = channel[k]
  BY <1>4, AppendProperties
<1>6. Len(a) = behind + Len(batch) + Len(c)
  BY <1>1, <1>3, <1>5 DEF InOrder
<1>7. ASSUME NEW k \in 1..Len(batch) PROVE batch[k] = a[behind + k]
  <2>1. behind + k \in 1..Len(acc)
    BY <1>1 DEF InOrder
  <2> QED BY <1>3, <2>1 DEF InOrder
<1>8. ASSUME NEW k \in 1..Len(c) PROVE c[k] = a[behind + Len(batch) + k]
  <2>1. CASE k \in 1..Len(channel)
    <3>1. behind + Len(batch) + k \in 1..Len(acc)
      BY <1>1, <2>1 DEF InOrder
    <3> QED BY <1>3, <1>5, <2>1, <3>1 DEF InOrder
  <2>2. CASE k = Len(channel) + 1
    <3>1. behind + Len(batch) + k = Len(acc) + 1
      BY <1>1, <2>2 DEF InOrder
    <3> QED BY <1>3, <1>5, <2>2, <3>1
  <2> QED BY <1>1, <1>5, <2>1, <2>2
<1>9. InOrder(a, batch, c, behind)
  BY <1>1, <1>6, <1>7, <1>8 DEF InOrder
<1> QED BY <1>2, <1>4, <1>9

(***************************************************************************)
(* Offering the next event keeps the offers ascending.                     *)
(***************************************************************************)
LEMMA OfferAscending ==
  ASSUME NEW acc \in Seq(EventIds), NEW off \in Seq(EventIds), NEW reached,
         Ascending(acc, off, reached), Distinct(acc), reached + 1 \in 1..Len(acc)
  PROVE  Ascending(acc, Append(off, acc[reached + 1]), reached + 1)
<1>1. Len(acc) \in Nat /\ Len(off) \in Nat /\ reached \in Nat /\ acc[reached + 1] \in EventIds
  BY LenProperties, ElementOfSeq DEF Ascending
<1>2. PICK o : o = Append(off, acc[reached + 1])
  OBVIOUS
<1>3. /\ Len(o) = Len(off) + 1
      /\ o[Len(off) + 1] = acc[reached + 1]
      /\ \A k \in 1..Len(off) : o[k] = off[k]
  BY <1>1, <1>2, AppendProperties
<1>4. ASSUME NEW k \in 1..Len(o)
      PROVE  \E p \in 1..(reached + 1) : acc[p] = o[k]
  <2>1. CASE k \in 1..Len(off)
    <3>1. PICK p \in 1..reached : acc[p] = off[k]
      BY <2>1 DEF Ascending
    <3>2. p \in 1..(reached + 1)
      BY <1>1
    <3> QED BY <1>3, <2>1, <3>1, <3>2
  <2>2. CASE k = Len(off) + 1
    <3>1. reached + 1 \in 1..(reached + 1)
      BY <1>1
    <3> QED BY <1>3, <2>2, <3>1
  <2> QED BY <1>1, <1>3, <2>1, <2>2
<1>5. ASSUME NEW j \in 1..Len(o), NEW k \in 1..Len(o), NEW p \in 1..Len(acc),
             NEW q \in 1..Len(acc), j < k, acc[p] = o[j], acc[q] = o[k]
      PROVE  p < q
  <2>1. j \in 1..Len(off)
    BY <1>1, <1>3, <1>5
  <2>2. CASE k \in 1..Len(off)
    BY <1>3, <1>5, <2>1, <2>2 DEF Ascending
  <2>3. CASE k = Len(off) + 1
    <3>1. PICK r \in 1..reached : acc[r] = off[j]
      BY <2>1 DEF Ascending
    <3>2. r \in 1..Len(acc)
      BY <1>1 DEF Ascending
    <3>3. p = r
      BY <1>3, <1>5, <2>1, <3>1, <3>2 DEF Distinct
    <3>4. q = reached + 1
      BY <1>3, <1>5, <2>3 DEF Distinct
    <3> QED BY <1>1, <3>3, <3>4
  <2> QED BY <1>1, <1>3, <2>2, <2>3
<1>6. reached + 1 \in 0..Len(acc)
  BY <1>1
<1>7. Ascending(acc, o, reached + 1)
  BY <1>4, <1>5, <1>6, Zenon DEF Ascending
<1> QED BY <1>2, <1>7

(***************************************************************************)
(* Accepting another event, or being done with some, keeps them so.        *)
(***************************************************************************)
LEMMA AcceptAscending ==
  ASSUME NEW acc \in Seq(EventIds), NEW off \in Seq(EventIds), NEW reached, NEW e \in EventIds,
         Ascending(acc, off, reached), Distinct(acc), \A k \in 1..Len(acc) : acc[k] # e
  PROVE  Ascending(Append(acc, e), off, reached) /\ Distinct(Append(acc, e))
<1>1. Len(acc) \in Nat /\ Len(off) \in Nat /\ reached \in Nat
  BY LenProperties DEF Ascending
<1>2. PICK a : a = Append(acc, e)
  OBVIOUS
<1>3. Len(a) = Len(acc) + 1 /\ a[Len(acc) + 1] = e /\ \A k \in 1..Len(acc) : a[k] = acc[k]
  BY <1>2, AppendProperties
<1>4. ASSUME NEW k \in 1..Len(off)
      PROVE  \E p \in 1..reached : acc[p] = off[k] /\ a[p] = off[k]
  <2>1. PICK p \in 1..reached : acc[p] = off[k]
    BY DEF Ascending
  <2>2. p \in 1..Len(acc)
    BY <1>1 DEF Ascending
  <2> QED BY <1>3, <2>1, <2>2
<1>5. ASSUME NEW k \in 1..Len(off), NEW p \in 1..Len(a), a[p] = off[k]
      PROVE  p \in 1..Len(acc) /\ acc[p] = off[k]
  <2>1. PICK r \in 1..reached : acc[r] = off[k]
    BY <1>4
  <2>2. r \in 1..Len(acc)
    BY <1>1 DEF Ascending
  <2>3. p # Len(acc) + 1
    BY <1>3, <1>5, <2>1, <2>2
  <2>4. p \in 1..Len(acc)
    BY <1>1, <1>3, <2>3
  <2> QED BY <1>3, <1>5, <2>4
<1>6. ASSUME NEW j \in 1..Len(off), NEW k \in 1..Len(off), NEW p \in 1..Len(a),
             NEW q \in 1..Len(a), j < k, a[p] = off[j], a[q] = off[k]
      PROVE  p < q
  <2>1. p \in 1..Len(acc) /\ acc[p] = off[j] /\ q \in 1..Len(acc) /\ acc[q] = off[k]
    BY <1>5, <1>6
  <2> QED BY <1>6, <2>1 DEF Ascending
<1>7. reached \in 0..Len(a)
  BY <1>1, <1>3 DEF Ascending
<1>8. Ascending(a, off, reached)
  BY <1>4, <1>6, <1>7, Zenon DEF Ascending
<1>9. Distinct(a)
  <2>1. SUFFICES ASSUME NEW j \in 1..Len(a), NEW k \in 1..Len(a), a[j] = a[k] PROVE j = k
    BY DEF Distinct
  <2>2. CASE j \in 1..Len(acc) /\ k \in 1..Len(acc)
    BY <1>3, <2>1, <2>2 DEF Distinct
  <2>3. CASE j = Len(acc) + 1 \/ k = Len(acc) + 1
    <3>1. \A m \in 1..Len(a) : a[m] = e => m = Len(acc) + 1
      BY <1>1, <1>3
    <3> QED BY <1>3, <2>1, <2>3, <3>1
  <2> QED BY <1>1, <1>3, <2>2, <2>3
<1> QED BY <1>2, <1>8, <1>9

LEMMA LaterAscending ==
  ASSUME NEW acc \in Seq(EventIds), NEW off \in Seq(EventIds), NEW reached,
         NEW later \in 0..Len(acc), Ascending(acc, off, reached), reached <= later
  PROVE  Ascending(acc, off, later)
<1>1. Len(acc) \in Nat /\ reached \in Nat
  BY LenProperties DEF Ascending
<1>2. \A p \in 1..reached : p \in 1..later
  BY <1>1
<1> QED BY <1>2 DEF Ascending

\* The events of a publisher that its pump is done with.
Behind(i) == Len(accepted[i]) - Len(pump[i].batch) - Len(inbound[i])

\* The events a link has been offered or has been passed over for.
Reached(l) ==
  Behind(l[1]) + IF pump[l[1]].fanning /\ l[2] \notin pump[l[1]].pending THEN 1 ELSE 0

Queued(i) == InOrder(accepted[i], pump[i].batch, inbound[i], Behind(i))
Owned(i) ==
  \A k \in 1..Len(accepted[i]) :
    call[accepted[i][k]].pc = "accepted" /\ call[accepted[i][k]].inst = i
OrderInv ==
  /\ \A i \in Installations : Queued(i) /\ Distinct(accepted[i]) /\ Owned(i)
  /\ \A l \in Links : Ascending(accepted[l[1]], offered[l], Reached(l))

\* An accepted event may reach whoever is subscribed, whoever fan_out is about to
\* offer it to was, and so was whoever it was offered to.
ReachInv ==
  /\ \A e \in EventIds :
       call[e].pc = "accepted" => subscribed[call[e].topic] \subseteq mayReach[e]
  /\ \A i \in Installations :
       pump[i].fanning => pump[i].pending \subseteq mayReach[Current(i)]
  /\ \A l \in Links : \A k \in 1..Len(offered[l]) : l[2] \in mayReach[offered[l][k]]

LEMMA QueueTypes ==
  ASSUME BusInv, NEW i \in Installations
  PROVE  /\ accepted[i] \in Seq(EventIds) /\ Len(accepted[i]) \in Nat
         /\ pump[i].batch \in Seq(EventIds) /\ Len(pump[i].batch) \in Nat
         /\ inbound[i] \in Seq(EventIds) /\ Len(inbound[i]) \in Nat
BY LenProperties DEF BusInv, Shapes, PumpRecords

LEMMA LinkOf ==
  ASSUME NEW l \in Links
  PROVE  l[1] \in Installations /\ l[2] \in Installations /\ l = <<l[1], l[2]>>
BY DEF Links

LEMMA OrderInit == Init => OrderInv /\ ReachInv
<1>1. SUFFICES ASSUME Init PROVE OrderInv /\ ReachInv
  OBVIOUS
<1>2. Len(<<>>) = 0
  OBVIOUS
<1>3. ASSUME NEW i \in Installations
      PROVE  /\ accepted[i] = <<>> /\ inbound[i] = <<>>
             /\ pump[i].batch = <<>> /\ ~ pump[i].fanning
             /\ Behind(i) = 0
  BY <1>1, <1>2 DEF Init, Behind
<1>4. \A i \in Installations : Queued(i) /\ Distinct(accepted[i]) /\ Owned(i)
  BY <1>2, <1>3 DEF Queued, InOrder, Distinct, Owned
<1>5. ASSUME NEW l \in Links
      PROVE  /\ offered[l] = <<>>
             /\ Ascending(accepted[l[1]], offered[l], Reached(l))
  <2>1. l[1] \in Installations
    BY LinkOf
  <2>2. Reached(l) = 0
    BY <1>3, <2>1 DEF Reached
  <2>3. offered[l] = <<>> /\ accepted[l[1]] = <<>>
    BY <1>1, <1>3, <2>1 DEF Init
  <2> QED BY <1>2, <2>2, <2>3 DEF Ascending
<1>6. ReachInv
  BY <1>1, <1>2, <1>3, <1>5 DEF ReachInv, Init
<1> QED BY <1>4, <1>5, <1>6 DEF OrderInv

(***************************************************************************)
(* A step that leaves channels, batches and offers alone.                  *)
(***************************************************************************)
SameQueues ==
  /\ UNCHANGED <<accepted, inbound, offered>>
  /\ \A j \in Installations :
       /\ pump'[j].batch = pump[j].batch
       /\ pump'[j].fanning = pump[j].fanning
       /\ pump'[j].pending = pump[j].pending

LEMMA OwnedStays ==
  ASSUME BusInv, CallsStay, NEW i \in Installations, Owned(i), accepted'[i] = accepted[i]
  PROVE  Owned(i)'
<1>1. \A k \in 1..Len(accepted[i]) : accepted[i][k] \in EventIds
  BY QueueTypes, ElementOfSeq
<1> QED BY <1>1 DEF Owned, CallsStay

LEMMA OrderQuiet ==
  ASSUME BusInv, OrderInv, CallsStay, SameQueues
  PROVE  OrderInv'
<1>1. ASSUME NEW i \in Installations
      PROVE  /\ accepted'[i] = accepted[i] /\ inbound'[i] = inbound[i]
             /\ Behind(i)' = Behind(i)
             /\ pump'[i].batch = pump[i].batch
  BY DEF SameQueues, Behind
<1>2. ASSUME NEW i \in Installations
      PROVE  Queued(i)' /\ Distinct(accepted'[i])
  BY <1>1 DEF OrderInv, Queued
<1>3. \A i \in Installations : Owned(i)'
  BY <1>1, OwnedStays DEF OrderInv
<1>4. ASSUME NEW l \in Links
      PROVE  Ascending(accepted'[l[1]], offered'[l], Reached(l)')
  <2>1. l[1] \in Installations
    BY LinkOf
  <2>2. pump'[l[1]].fanning = pump[l[1]].fanning /\ pump'[l[1]].pending = pump[l[1]].pending
    BY <2>1, Zenon DEF SameQueues
  <2>3. Reached(l)' = Reached(l)
    BY <1>1, <2>1, <2>2, Zenon DEF Reached
  <2> QED BY <1>1, <2>1, <2>3 DEF OrderInv, SameQueues
<1> QED BY <1>2, <1>3, <1>4 DEF OrderInv

LEMMA OrderTakes ==
  ASSUME BusInv, OrderInv, NEW i \in Installations, PumpTakes(i)
  PROVE  OrderInv'
<1>1. CallsStay /\ accepted' = accepted /\ offered' = offered
  BY DEF PumpTakes, PumpOnly, publishVars, linkVars, CallsStay
<1>2. /\ inbound'[i] = Tail(inbound[i])
      /\ pump'[i].batch = Append(pump[i].batch, Head(inbound[i]))
      /\ pump'[i].fanning = pump[i].fanning /\ pump'[i].pending = pump[i].pending
      /\ \A j \in Installations \ {i} : inbound'[j] = inbound[j] /\ pump'[j] = pump[j]
  <2>1. inbound'[i] = Tail(inbound[i]) /\ \A j \in Installations \ {i} : inbound'[j] = inbound[j]
    BY DEF PumpTakes, BusInv, Shapes
  <2> QED BY <2>1, Zenon DEF PumpTakes, PumpBecomes
<1>3. /\ Len(inbound'[i]) = Len(inbound[i]) - 1
      /\ Len(pump'[i].batch) = Len(pump[i].batch) + 1
      /\ Len(inbound[i]) \in Nat /\ Len(pump[i].batch) \in Nat /\ Len(accepted[i]) \in Nat
  <2>1. inbound[i] # <<>>
    BY DEF PumpTakes
  <2>2. Head(inbound[i]) \in EventIds /\ Len(Tail(inbound[i])) = Len(inbound[i]) - 1
    BY <2>1, QueueTypes, HeadTailProperties
  <2>3. Len(Append(pump[i].batch, Head(inbound[i]))) = Len(pump[i].batch) + 1
    BY <2>2, QueueTypes, AppendProperties
  <2> QED BY <1>2, <2>2, <2>3, QueueTypes
<1>4. \A j \in Installations : Behind(j)' = Behind(j)
  <2>1. Behind(i)' = Behind(i)
    BY <1>1, <1>3 DEF Behind
  <2>2. \A j \in Installations \ {i} : Behind(j)' = Behind(j)
    BY <1>1, <1>2 DEF Behind
  <2> QED BY <2>1, <2>2
<1>5. Queued(i)'
  <2>1. InOrder(accepted[i], Append(pump[i].batch, Head(inbound[i])), Tail(inbound[i]), Behind(i))
    BY QueueTypes, TakeInOrder DEF OrderInv, Queued, PumpTakes
  <2> QED BY <1>1, <1>2, <1>4, <2>1 DEF Queued
<1>6. \A j \in Installations \ {i} : Queued(j)'
  BY <1>1, <1>2, <1>4 DEF OrderInv, Queued
<1>7. \A j \in Installations : Distinct(accepted'[j]) /\ Owned(j)'
  BY <1>1, OwnedStays DEF OrderInv
<1>8. ASSUME NEW l \in Links
      PROVE  Ascending(accepted'[l[1]], offered'[l], Reached(l)')
  <2>1. l[1] \in Installations
    BY LinkOf
  <2>2. pump'[l[1]].fanning = pump[l[1]].fanning /\ pump'[l[1]].pending = pump[l[1]].pending
    BY <1>2, <2>1, Zenon
  <2>3. Reached(l)' = Reached(l)
    BY <1>4, <2>1, <2>2, Zenon DEF Reached
  <2> QED BY <1>1, <2>1, <2>3 DEF OrderInv
<1> QED BY <1>5, <1>6, <1>7, <1>8 DEF OrderInv

(***************************************************************************)
(* What one pump's step does to the queues of the other publishers, and to *)
(* their links: nothing.                                                   *)
(***************************************************************************)
OthersStay(i) ==
  /\ UNCHANGED accepted
  /\ \A j \in Installations \ {i} : inbound'[j] = inbound[j] /\ pump'[j] = pump[j]

LEMMA OrderOthers ==
  ASSUME BusInv, OrderInv, CallsStay, NEW i \in Installations, OthersStay(i)
  PROVE  /\ \A j \in Installations : Distinct(accepted'[j]) /\ Owned(j)'
         /\ \A j \in Installations \ {i} : Queued(j)'
         /\ \A l \in Links :
              l[1] # i /\ offered'[l] = offered[l] =>
                Ascending(accepted'[l[1]], offered'[l], Reached(l)')
<1>1. \A j \in Installations : Distinct(accepted'[j]) /\ Owned(j)'
  BY OwnedStays DEF OrderInv, OthersStay
<1>2. \A j \in Installations \ {i} : Behind(j)' = Behind(j)
  BY DEF OthersStay, Behind
<1>3. \A j \in Installations \ {i} : Queued(j)'
  BY <1>2 DEF OthersStay, OrderInv, Queued
<1>4. ASSUME NEW l \in Links, l[1] # i, offered'[l] = offered[l]
      PROVE  Ascending(accepted'[l[1]], offered'[l], Reached(l)')
  <2>1. l[1] \in Installations \ {i}
    BY <1>4, LinkOf
  <2>2. pump'[l[1]] = pump[l[1]]
    BY <2>1 DEF OthersStay
  <2>3. Reached(l)' = Reached(l)
    BY <1>2, <2>1, <2>2, Zenon DEF Reached
  <2> QED BY <1>4, <2>1, <2>3 DEF OrderInv, OthersStay
<1> QED BY <1>1, <1>3, <1>4

LEMMA Counting ==
  \A a, b, c \in Nat : a - b - c <= a /\ a - (b - 1) - c = (a - b - c) + 1
OBVIOUS

LEMMA OrderSnapshot ==
  ASSUME BusInv, OrderInv, NEW i \in Installations, FanOutSnapshot(i)
  PROVE  OrderInv'
<1>1. CallsStay /\ UNCHANGED <<accepted, inbound, offered>>
  BY DEF FanOutSnapshot, publishVars, linkVars, CallsStay
<1>2. /\ pump'[i].batch = pump[i].batch
      /\ \A j \in Installations \ {i} : pump'[j] = pump[j]
  BY SnapshotEffect, Zenon DEF PumpBecomes
<1>3. OthersStay(i)
  BY <1>1, <1>2 DEF OthersStay
<1>4. Behind(i)' = Behind(i) /\ Behind(i) \in Nat
  BY <1>1, <1>2 DEF Behind, OrderInv, Queued, InOrder
<1>5. Queued(i)'
  BY <1>1, <1>2, <1>4 DEF OrderInv, Queued
<1>6. ASSUME NEW l \in Links, l[1] = i
      PROVE  Ascending(accepted'[l[1]], offered'[l], Reached(l)')
  <2>1. accepted[i] \in Seq(EventIds) /\ offered[l] \in Seq(EventIds)
    BY DEF BusInv, Shapes
  <2>2. Behind(i) + 1 \in 1..Len(accepted[i])
    BY QueueTypes, DoneInOrder DEF FanOutSnapshot, OrderInv, Queued
  <2>3. Reached(l) = Behind(i) + 0
    BY <1>6, Zenon DEF Reached, FanOutSnapshot
  <2>4. Reached(l)' = Behind(i)' + 1 \/ Reached(l)' = Behind(i)' + 0
    BY <1>6, Zenon DEF Reached
  <2>5. Reached(l)' \in 0..Len(accepted[i]) /\ Reached(l) <= Reached(l)'
    BY <1>4, <2>2, <2>3, <2>4, QueueTypes
  <2>6. Ascending(accepted[i], offered[l], Reached(l))
    BY <1>6 DEF OrderInv
  <2>7. Ascending(accepted[i], offered[l], Reached(l)')
    BY <2>1, <2>5, <2>6, LaterAscending
  <2> QED BY <1>1, <1>6, <2>7
<1> QED BY <1>1, <1>3, <1>5, <1>6, OrderOthers DEF OrderInv

LEMMA OrderDone ==
  ASSUME BusInv, OrderInv, NEW i \in Installations, FanOutDone(i)
  PROVE  OrderInv'
<1>1. CallsStay /\ UNCHANGED <<accepted, inbound, offered>>
  BY DEF FanOutDone, publishVars, linkVars, CallsStay
<1>2. /\ pump'[i].batch = Tail(pump[i].batch)
      /\ pump[i].batch # <<>>
      /\ pump'[i].fanning = FALSE
      /\ \A j \in Installations \ {i} : pump'[j] = pump[j]
  BY DoneEffect, Zenon DEF PumpBecomes
<1>3. OthersStay(i)
  BY <1>1, <1>2 DEF OthersStay
<1>4. Behind(i)' = Behind(i) + 1 /\ Behind(i) \in Nat
  <2>1. Len(Tail(pump[i].batch)) = Len(pump[i].batch) - 1
    BY <1>2, QueueTypes, HeadTailProperties
  <2>2. Behind(i) \in Nat
    BY DEF OrderInv, Queued, InOrder
  <2>3. Behind(i)' = Len(accepted[i]) - Len(Tail(pump[i].batch)) - Len(inbound[i])
    BY <1>1, <1>2 DEF Behind
  <2>4. Behind(i) = Len(accepted[i]) - Len(pump[i].batch) - Len(inbound[i])
    BY DEF Behind
  <2>5. Len(accepted[i]) \in Nat /\ Len(pump[i].batch) \in Nat /\ Len(inbound[i]) \in Nat
    BY QueueTypes
  <2>6. Len(accepted[i]) - (Len(pump[i].batch) - 1) - Len(inbound[i])
          = (Len(accepted[i]) - Len(pump[i].batch) - Len(inbound[i])) + 1
    BY <2>5, Counting, Zenon
  <2>7. Behind(i)' = Behind(i) + 1
    BY <2>1, <2>3, <2>4, <2>6, Zenon
  <2> QED BY <2>2, <2>7
<1>5. Queued(i)'
  <2>1. InOrder(accepted[i], Tail(pump[i].batch), inbound[i], Behind(i) + 1)
    BY <1>2, QueueTypes, DoneInOrder DEF OrderInv, Queued
  <2> QED BY <1>1, <1>2, <1>4, <2>1 DEF Queued
<1>6. ASSUME NEW l \in Links, l[1] = i
      PROVE  Ascending(accepted'[l[1]], offered'[l], Reached(l)')
  <2>1. Reached(l) = Behind(i) + 1
    BY <1>6 DEF Reached, FanOutDone
  <2>2. Reached(l)' = Behind(i)'
    <3>1. Reached(l)' = Behind(i)' + 0
      BY <1>2, <1>6, Zenon DEF Reached
    <3> QED BY <1>4, <3>1
  <2> QED BY <1>1, <1>4, <1>6, <2>1, <2>2 DEF OrderInv
<1> QED BY <1>1, <1>3, <1>5, <1>6, OrderOthers DEF OrderInv

LEMMA OrderExit ==
  ASSUME BusInv, OrderInv, NEW i \in Installations, PumpExit(i)
  PROVE  OrderInv'
<1>1. CallsStay /\ UNCHANGED <<accepted, offered>>
  BY DEF PumpExit, publishVars, CallsStay
<1>2. /\ pump'[i].batch = <<>>
      /\ ~ pump[i].fanning
      /\ pump'[i].fanning = pump[i].fanning
      /\ \A j \in Installations \ {i} : pump'[j] = pump[j]
  BY ExitEffect, Zenon DEF PumpBecomes
<1>3. inbound'[i] = <<>> /\ \A j \in Installations \ {i} : inbound'[j] = inbound[j]
  BY DEF PumpExit, BusInv, Shapes
<1>4. OthersStay(i)
  BY <1>1, <1>2, <1>3 DEF OthersStay
<1>5. Len(<<>>) = 0
  OBVIOUS
<1>6. /\ Behind(i)' = Len(accepted[i])
      /\ Behind(i) \in 0..Len(accepted[i])
  <2>1. Behind(i)' = Len(accepted[i])
    BY <1>1, <1>2, <1>3, <1>5, QueueTypes DEF Behind
  <2>2. Behind(i) \in Nat
    BY DEF OrderInv, Queued, InOrder
  <2>3. Len(accepted[i]) \in Nat /\ Len(pump[i].batch) \in Nat /\ Len(inbound[i]) \in Nat
    BY QueueTypes
  <2>4. Behind(i) <= Len(accepted[i])
    BY <2>3, Counting, Zenon DEF Behind
  <2> QED BY <2>1, <2>2, <2>3, <2>4
<1>7. Queued(i)'
  BY <1>1, <1>2, <1>3, <1>5, <1>6, QueueTypes DEF Queued, InOrder
<1>8. ASSUME NEW l \in Links, l[1] = i
      PROVE  Ascending(accepted'[l[1]], offered'[l], Reached(l)')
  <2>1. accepted[i] \in Seq(EventIds) /\ offered[l] \in Seq(EventIds)
    BY DEF BusInv, Shapes
  <2>2. Reached(l) = Behind(i) + 0
    BY <1>2, <1>8, Zenon DEF Reached
  <2>3. Reached(l)' = Behind(i)' + 0
    BY <1>2, <1>8, Zenon DEF Reached
  <2>4. Reached(l)' \in 0..Len(accepted[i]) /\ Reached(l) <= Reached(l)'
    BY <1>6, <2>2, <2>3, QueueTypes
  <2>5. Ascending(accepted[i], offered[l], Reached(l))
    BY <1>8 DEF OrderInv
  <2>6. Ascending(accepted[i], offered[l], Reached(l)')
    BY <2>1, <2>4, <2>5, LaterAscending
  <2> QED BY <1>1, <1>8, <2>6
<1> QED BY <1>1, <1>4, <1>7, <1>8, OrderOthers DEF OrderInv

LEMMA OrderOffer ==
  ASSUME BusInv, OrderInv, NEW i \in Installations, NEW s \in Installations, FanOutOffer(i, s)
  PROVE  OrderInv'
<1>1. CallsStay /\ UNCHANGED <<accepted, inbound>>
  BY DEF FanOutOffer, publishVars, CallsStay
<1>2. /\ pump'[i].batch = pump[i].batch
      /\ pump[i].batch # <<>>
      /\ pump'[i].fanning = pump[i].fanning
      /\ pump'[i].pending = pump[i].pending \ {s}
      /\ \A j \in Installations \ {i} : pump'[j] = pump[j]
  BY OfferEffect, Zenon DEF PumpBecomes
<1>3. pump[i].fanning /\ s \in pump[i].pending
  BY DEF FanOutOffer
<1>4. OthersStay(i)
  BY <1>1, <1>2 DEF OthersStay
<1>5. Behind(i)' = Behind(i) /\ Behind(i) \in Nat
  BY <1>1, <1>2 DEF Behind, OrderInv, Queued, InOrder
<1>6. Queued(i)'
  BY <1>1, <1>2, <1>5 DEF OrderInv, Queued
<1>7. /\ Current(i) = accepted[i][Behind(i) + 1]
      /\ Behind(i) + 1 \in 1..Len(accepted[i])
  BY <1>2, QueueTypes, DoneInOrder DEF OrderInv, Queued, Current
<1>8. <<i, s>> \in Links
  BY DEF Links
<1>9. /\ offered'[<<i, s>>] = Append(offered[<<i, s>>], Current(i))
      /\ \A l \in Links \ {<<i, s>>} : offered'[l] = offered[l]
  BY <1>8 DEF FanOutOffer, Current, BusInv, Shapes
<1>10. Ascending(accepted'[i], offered'[<<i, s>>], Reached(<<i, s>>)')
  <2>1. Reached(<<i, s>>) = Behind(i) + 0
    BY <1>3, Zenon DEF Reached
  <2>2. Reached(<<i, s>>)' = Behind(i) + 1
    <3>1. pump'[i].fanning /\ s \notin pump'[i].pending
      BY <1>2, <1>3, Zenon
    <3>2. Reached(<<i, s>>)' = Behind(i)' + 1
      BY <3>1, Zenon DEF Reached
    <3> QED BY <1>5, <3>2
  <2>3. accepted[i] \in Seq(EventIds) /\ offered[<<i, s>>] \in Seq(EventIds)
    BY <1>8 DEF BusInv, Shapes
  <2>4. Ascending(accepted[i], offered[<<i, s>>], Behind(i)) /\ Distinct(accepted[i])
    BY <1>5, <1>8, <2>1 DEF OrderInv
  <2>5. Ascending(accepted[i], Append(offered[<<i, s>>], Current(i)), Behind(i) + 1)
    BY <1>7, <2>3, <2>4, OfferAscending
  <2> QED BY <1>1, <1>9, <2>2, <2>5
<1>11. ASSUME NEW l \in Links, l[1] = i, l # <<i, s>>
       PROVE  Ascending(accepted'[l[1]], offered'[l], Reached(l)')
  <2>1. l[2] # s
    BY <1>11, LinkOf
  <2>2. Reached(l)' = Reached(l)
    <3>1. l[2] \in pump'[i].pending <=> l[2] \in pump[i].pending
      BY <1>2, <2>1
    <3>2. Behind(l[1])' = Behind(l[1])
      BY <1>5, <1>11
    <3> QED BY <1>2, <1>11, <3>1, <3>2, Zenon DEF Reached
  <2> QED BY <1>1, <1>9, <1>11, <2>2 DEF OrderInv
<1>12. ASSUME NEW l \in Links, l[1] # i
       PROVE  Ascending(accepted'[l[1]], offered'[l], Reached(l)')
  <2>1. offered'[l] = offered[l]
    BY <1>9, <1>12
  <2> QED BY <1>1, <1>4, <1>12, <2>1, OrderOthers
<1>13. \A l \in Links : Ascending(accepted'[l[1]], offered'[l], Reached(l)')
  BY <1>10, <1>11, <1>12
<1> QED BY <1>1, <1>4, <1>6, <1>13, OrderOthers DEF OrderInv

LEMMA CountingBoth == \A a, b, c \in Nat : (a + 1) - b - (c + 1) = a - b - c
OBVIOUS

\* An event of a call that still holds its sender is in no accepted sequence.
LEMMA NotYetAccepted ==
  ASSUME OrderInv, NEW e, call[e].pc = "holding", NEW i \in Installations
  PROVE  \A k \in 1..Len(accepted[i]) : accepted[i][k] # e
BY DEF OrderInv, Owned

LEMMA OrderSend ==
  ASSUME BusInv, OrderInv, NEW e \in EventIds, PublishSend(e)
  PROVE  OrderInv'
<1>1. PICK i \in Installations : i = Publisher(e)
  BY SendEffect
<1>2. UNCHANGED <<pump, offered>> /\ call[e].pc = "holding" /\ CallsStay
  BY SendEffect DEF PublishSend, pumpVars, linkVars
<1>3. CASE CallMoves(e, "refused") /\ UNCHANGED <<inbound, accepted, mayReach>>
  BY <1>2, <1>3, OrderQuiet DEF SameQueues
<1>4. CASE /\ CallMoves(e, "accepted")
           /\ inbound' = [inbound EXCEPT ![i] = Append(inbound[i], e)]
           /\ accepted' = [accepted EXCEPT ![i] = Append(accepted[i], e)]
  <2>1. /\ inbound'[i] = Append(inbound[i], e) /\ accepted'[i] = Append(accepted[i], e)
        /\ \A j \in Installations \ {i} :
             inbound'[j] = inbound[j] /\ accepted'[j] = accepted[j]
    BY <1>4 DEF BusInv, Shapes
  <2>2. \A k \in 1..Len(accepted[i]) : accepted[i][k] # e
    BY <1>2, NotYetAccepted
  <2>3. /\ Len(accepted'[i]) = Len(accepted[i]) + 1
        /\ Len(inbound'[i]) = Len(inbound[i]) + 1
    BY <2>1, QueueTypes, AppendProperties
  <2>4. \A j \in Installations : Behind(j)' = Behind(j)
    <3>1. Behind(i)' = (Len(accepted[i]) + 1) - Len(pump[i].batch) - (Len(inbound[i]) + 1)
      BY <1>2, <2>3 DEF Behind
    <3>2. (Len(accepted[i]) + 1) - Len(pump[i].batch) - (Len(inbound[i]) + 1)
            = Len(accepted[i]) - Len(pump[i].batch) - Len(inbound[i])
      BY QueueTypes, CountingBoth, Zenon
    <3>3. Behind(i)' = Behind(i)
      BY <3>1, <3>2 DEF Behind
    <3>4. \A j \in Installations \ {i} : Behind(j)' = Behind(j)
      BY <1>2, <2>1 DEF Behind
    <3> QED BY <3>3, <3>4
  <2>5. Queued(i)'
    <3>1. InOrder(Append(accepted[i], e), pump[i].batch, Append(inbound[i], e), Behind(i))
      BY QueueTypes, AcceptInOrder DEF OrderInv, Queued
    <3> QED BY <1>2, <2>1, <2>4, <3>1 DEF Queued
  <2>6. \A j \in Installations \ {i} : Queued(j)'
    BY <1>2, <2>1, <2>4 DEF OrderInv, Queued
  <2>7. ASSUME NEW l \in Links, l[1] = i
        PROVE  /\ Ascending(accepted'[l[1]], offered'[l], Reached(l)')
               /\ Distinct(accepted'[i])
    <3>1. accepted[i] \in Seq(EventIds) /\ offered[l] \in Seq(EventIds)
      BY DEF BusInv, Shapes
    <3>2. Reached(l)' = Reached(l)
      BY <1>2, <2>4, <2>7, Zenon DEF Reached
    <3>3. Ascending(accepted[i], offered[l], Reached(l)) /\ Distinct(accepted[i])
      BY <2>7 DEF OrderInv
    <3>4. /\ Ascending(Append(accepted[i], e), offered[l], Reached(l))
          /\ Distinct(Append(accepted[i], e))
      BY <2>2, <3>1, <3>3, AcceptAscending
    <3> QED BY <1>2, <2>1, <2>7, <3>2, <3>4
  <2>8. ASSUME NEW l \in Links, l[1] # i
        PROVE  Ascending(accepted'[l[1]], offered'[l], Reached(l)')
    <3>1. l[1] \in Installations \ {i}
      BY <2>8, LinkOf
    <3>2. Reached(l)' = Reached(l)
      BY <1>2, <2>4, <3>1, Zenon DEF Reached
    <3> QED BY <1>2, <2>1, <3>1, <3>2 DEF OrderInv
  <2>9. <<i, i>> \in Links /\ <<i, i>>[1] = i
    BY DEF Links
  <2>10. \A j \in Installations : Distinct(accepted'[j])
    BY <2>1, <2>7, <2>9 DEF OrderInv
  <2>11. Owned(i)'
    <3>1. ASSUME NEW k \in 1..Len(accepted[i])
          PROVE  call'[accepted[i][k]].pc = "accepted" /\ call'[accepted[i][k]].inst = i
      <4>1. accepted[i][k] \in EventIds
        BY QueueTypes, ElementOfSeq
      <4>2. call[accepted[i][k]].pc = "accepted" /\ call[accepted[i][k]].inst = i
        BY DEF OrderInv, Owned
      <4> QED BY <1>2, <4>1, <4>2 DEF CallsStay
    <3>2. call'[e].pc = "accepted" /\ call'[e].inst = i
      BY <1>1, <1>4 DEF CallMoves, Publisher
    <3>3. /\ \A k \in 1..Len(accepted[i]) : Append(accepted[i], e)[k] = accepted[i][k]
          /\ Append(accepted[i], e)[Len(accepted[i]) + 1] = e
      BY QueueTypes, AppendProperties
    <3>4. \A k \in 1..Len(accepted'[i]) :
             k \in 1..Len(accepted[i]) \/ k = Len(accepted[i]) + 1
      BY <2>3, QueueTypes
    <3> QED BY <2>1, <3>1, <3>2, <3>3, <3>4 DEF Owned
  <2>12. \A j \in Installations \ {i} : Owned(j)'
    BY <1>2, <2>1, OwnedStays DEF OrderInv
  <2> QED BY <2>5, <2>6, <2>7, <2>8, <2>10, <2>11, <2>12 DEF OrderInv
<1> QED BY <1>1, <1>3, <1>4, SendEffect

(***************************************************************************)
(* The steps that touch neither channels nor batches.                      *)
(***************************************************************************)
LEMMA EnsureQuiet ==
  ASSUME BusInv, NEW e \in EventIds, EnsureInstall(e)
  PROVE  CallsStay /\ SameQueues /\ UNCHANGED <<subscribed, mayReach>>
<1>1. PICK i \in Installations : i = Publisher(e)
  BY DEF EnsureInstall, BusInv, CallsNumbered, Publisher
<1>2. PICK pc \in {"holding", "refused"} : call' = [call EXCEPT ![e].pc = pc]
  BY DEF EnsureInstall
<1>3. CallsStay
  BY <1>2, CallAssigned, CallMoved DEF CallPlaces, EnsureInstall
<1>4. \/ UNCHANGED pump
      \/ PumpBecomes(i, "select", pump[i].batch, pump[i].fanning, pump[i].pending)
  <2>1. pump \in [Installations -> PumpRecords]
    BY DEF BusInv, Shapes
  <2>2. /\ pump[i].batch \in Seq(EventIds) /\ pump[i].fanning \in BOOLEAN
        /\ pump[i].pending \in SUBSET Installations
    BY <2>1, Zenon DEF PumpRecords
  <2>3. pump' = [pump EXCEPT ![i].pc = "select"] =>
          PumpBecomes(i, "select", pump[i].batch, pump[i].fanning, pump[i].pending)
    BY <2>1, <2>2, PumpAssigned, Zenon DEF PumpPlaces
  <2>4. UNCHANGED pump \/ pump' = [pump EXCEPT ![i].pc = "select"]
    BY <1>1 DEF EnsureInstall
  <2> QED BY <2>3, <2>4
<1>5. \A j \in Installations :
        /\ pump'[j].batch = pump[j].batch
        /\ pump'[j].fanning = pump[j].fanning
        /\ pump'[j].pending = pump[j].pending
  BY <1>4, Zenon DEF PumpBecomes
<1>6. UNCHANGED <<subscribed, mayReach, accepted, inbound, offered>>
  BY DEF EnsureInstall, policyVars, linkVars
<1> QED BY <1>3, <1>5, <1>6, Zenon DEF SameQueues

LEMMA NumberQuiet ==
  ASSUME BusInv, NEW i \in Installations, NEW topic \in Topics, PublishNumber(i, topic)
  PROVE  CallsStay /\ SameQueues /\ UNCHANGED <<subscribed, mayReach>>
         /\ call'[nextEventId].pc # "accepted"
         /\ \A d \in EventIds \ {nextEventId} : call'[d] = call[d]
<1>1. nextEventId \in EventIds /\ call[nextEventId].pc = "idle"
  BY CapacitiesAssumption DEF PublishNumber, BusInv, Shapes, CallsNumbered, EventIds
<1>2. PICK r : r = [pc |-> "numbered", inst |-> i, topic |-> topic]
  OBVIOUS
<1>3. r.pc = "numbered"
  BY <1>2
<1>4. call' = [call EXCEPT ![nextEventId] = r]
  BY <1>2 DEF PublishNumber
<1>5. call'[nextEventId] = r /\ \A d \in EventIds \ {nextEventId} : call'[d] = call[d]
  BY <1>1, <1>4 DEF BusInv, Shapes
<1>6. CallsStay
  BY <1>1, <1>5 DEF CallsStay
<1>7. SameQueues /\ UNCHANGED <<subscribed, mayReach>>
  BY DEF PublishNumber, policyVars, pumpVars, linkVars, SameQueues
<1> QED BY <1>3, <1>5, <1>6, <1>7

LEMMA OrderNext == BusInv /\ OrderInv /\ [Next]_vars => OrderInv'
<1>1. SUFFICES ASSUME BusInv, OrderInv, [Next]_vars PROVE OrderInv'
  OBVIOUS
<1>2. ASSUME NEW i \in Installations, PumpStep(i) PROVE OrderInv'
  <2>1. PumpWalks(i) => CallsStay /\ SameQueues
    <3>1. PumpWalks(i) => UNCHANGED <<call, accepted, inbound, offered>>
      BY DEF PumpWalks, PumpOnly, publishVars, linkVars
    <3>2. PumpWalks(i) =>
            \A j \in Installations :
              /\ pump'[j].batch = pump[j].batch
              /\ pump'[j].fanning = pump[j].fanning
              /\ pump'[j].pending = pump[j].pending
      BY Zenon DEF PumpWalks, PumpBecomes
    <3> QED BY <3>1, <3>2, Zenon DEF CallsStay, SameQueues
  <2> QED BY <1>1, <1>2, <2>1, PumpSteps, OrderTakes, OrderQuiet, OrderSnapshot, OrderDone,
             OrderExit, OrderOffer, Zenon
<1>3. ASSUME NEW s \in Installations, NEW topic \in Topics,
             GrantSubscribe(s, topic) \/ RevokeSubscribe(s, topic)
      PROVE OrderInv'
  <2>1. CallsStay /\ SameQueues
    BY <1>3 DEF GrantSubscribe, RevokeSubscribe, CallsStay, SameQueues, publishVars, pumpVars,
                linkVars
  <2> QED BY <1>1, <2>1, OrderQuiet
<1>4. ASSUME NEW s \in Installations, NEW topic \in Topics, PublishNumber(s, topic)
      PROVE OrderInv'
  BY <1>1, <1>4, NumberQuiet, OrderQuiet, Zenon
<1>5. ASSUME NEW e \in EventIds, EnsureInstall(e) \/ PublishSend(e) PROVE OrderInv'
  BY <1>1, <1>5, EnsureQuiet, OrderQuiet, OrderSend, Zenon
<1>6. ASSUME NEW i \in Installations, StopMark(i) \/ StopCancelToken(i) PROVE OrderInv'
  <2>1. CallsStay /\ SameQueues
    BY <1>6 DEF StopMark, StopCancelToken, CallsStay, SameQueues, publishVars, pumpVars, linkVars
  <2> QED BY <1>1, <2>1, OrderQuiet
<1>7. ASSUME NEW l \in Links, ConsumerStep(l) PROVE OrderInv'
  <2>1. CallsStay /\ SameQueues
    BY <1>7 DEF ConsumerStep, ConsumerRecv, ConsumerDeliver, ConsumerEnd, CallsStay, SameQueues,
                publishVars, pumpVars, linkVars
  <2> QED BY <1>1, <2>1, OrderQuiet
<1>8. CASE UNCHANGED vars
  <2>1. CallsStay /\ SameQueues
    BY <1>8 DEF vars, CallsStay, SameQueues, publishVars, pumpVars, linkVars
  <2> QED BY <1>1, <2>1, OrderQuiet
<1> QED BY <1>1, <1>2, <1>3, <1>4, <1>5, <1>6, <1>7, <1>8, Zenon DEF Next

LEMMA OrderAlways == Spec => []OrderInv
BY OrderInit, OrderNext, BusAlways, PTL DEF Spec

-----------------------------------------------------------------------------
(* Who an event reaches. *)

LEMMA OfferedAccepted ==
  ASSUME BusInv, OrderInv, NEW l \in Links, NEW k \in 1..Len(offered[l])
  PROVE  offered[l][k] \in EventIds /\ call[offered[l][k]].pc = "accepted"
<1>1. offered[l] \in Seq(EventIds) /\ l[1] \in Installations
  BY LinkOf DEF BusInv, Shapes
<1>2. offered[l][k] \in EventIds
  BY <1>1, ElementOfSeq
<1>3. Ascending(accepted[l[1]], offered[l], Reached(l))
  BY DEF OrderInv
<1>4. PICK p \in 1..Reached(l) : accepted[l[1]][p] = offered[l][k]
  BY <1>3 DEF Ascending
<1>5. Reached(l) \in 0..Len(accepted[l[1]])
  BY <1>3 DEF Ascending
<1>6. Len(accepted[l[1]]) \in Nat
  BY <1>1, QueueTypes
<1>7. p \in 1..Len(accepted[l[1]])
  BY <1>5, <1>6
<1> QED BY <1>1, <1>2, <1>4, <1>7 DEF OrderInv, Owned

\* A step that lets accepted events reach no fewer, and begins no fan-out.
MayReachGrows ==
  \A e \in EventIds : call[e].pc = "accepted" => mayReach[e] \subseteq mayReach'[e]
FansOutNoMore ==
  \A i \in Installations :
    pump'[i].fanning =>
      /\ pump[i].fanning
      /\ pump'[i].batch = pump[i].batch
      /\ pump'[i].pending \subseteq pump[i].pending
SubscribersMayBeReached ==
  \A e \in EventIds :
    call[e].pc = "accepted" => subscribed[call[e].topic] \subseteq mayReach[e]
PendingMayBeReached ==
  \A i \in Installations : pump[i].fanning => pump[i].pending \subseteq mayReach[Current(i)]
OfferedMayBeReached ==
  \A l \in Links : \A k \in 1..Len(offered[l]) : l[2] \in mayReach[offered[l][k]]

LEMMA ReachParts ==
  ReachInv <=> SubscribersMayBeReached /\ PendingMayBeReached /\ OfferedMayBeReached
BY DEF ReachInv, SubscribersMayBeReached, PendingMayBeReached, OfferedMayBeReached

LEMMA PendingStays ==
  ASSUME BusInv, ReachInv, MayReachGrows, FansOutNoMore
  PROVE  PendingMayBeReached'
<1>1. SUFFICES ASSUME NEW i \in Installations, pump'[i].fanning
               PROVE  pump'[i].pending \subseteq mayReach'[Current(i)']
  BY DEF PendingMayBeReached
<1>2. /\ pump[i].fanning
      /\ pump'[i].batch = pump[i].batch
      /\ pump'[i].pending \subseteq pump[i].pending
  BY <1>1 DEF FansOutNoMore
<1>3. pump[i].batch # <<>>
  BY <1>2 DEF BusInv, PumpHolds
<1>4. Current(i)' = Current(i)
  BY <1>2 DEF Current
<1>5. pump[i].pending \subseteq mayReach[Current(i)]
  BY <1>2, ReachParts DEF PendingMayBeReached
<1>6. mayReach[Current(i)] \subseteq mayReach'[Current(i)]
  BY <1>3, CurrentTyped DEF MayReachGrows
<1> QED BY <1>2, <1>4, <1>5, <1>6

LEMMA OfferedStays ==
  ASSUME BusInv, OrderInv, ReachInv, MayReachGrows, NEW l \in Links, offered'[l] = offered[l]
  PROVE  \A k \in 1..Len(offered'[l]) : l[2] \in mayReach'[offered'[l][k]]
<1>1. SUFFICES ASSUME NEW k \in 1..Len(offered[l])
               PROVE  l[2] \in mayReach'[offered[l][k]]
  OBVIOUS
<1>2. l[2] \in mayReach[offered[l][k]]
  BY ReachParts DEF OfferedMayBeReached
<1>3. mayReach[offered[l][k]] \subseteq mayReach'[offered[l][k]]
  BY OfferedAccepted DEF MayReachGrows
<1> QED BY <1>2, <1>3

LEMMA ReachQuiet ==
  ASSUME BusInv, OrderInv, ReachInv, UNCHANGED <<subscribed, mayReach>>, FansOutNoMore,
         UNCHANGED offered,
         \A e \in EventIds :
           call'[e].pc = "accepted" => call[e].pc = "accepted" /\ call'[e].topic = call[e].topic
  PROVE  ReachInv'
<1>1. MayReachGrows
  BY DEF MayReachGrows
<1>2. SubscribersMayBeReached'
  BY ReachParts DEF SubscribersMayBeReached
<1>3. OfferedMayBeReached'
  BY <1>1, OfferedStays DEF OfferedMayBeReached
<1>4. PendingMayBeReached'
  BY <1>1, PendingStays
<1> QED BY <1>2, <1>3, <1>4, ReachParts, PTL

LEMMA ReachPump ==
  ASSUME BusInv, OrderInv, ReachInv, NEW i \in Installations, PumpStep(i)
  PROVE  ReachInv'
<1>1. UNCHANGED <<subscribed, mayReach, call>>
  BY DEF PumpStep, PumpCancelled, PumpRecv, PumpClosed, PumpCollect, PumpDrain, PumpBatchDone,
         FanOutSnapshot, FanOutOffer, FanOutDone, PumpExit, policyVars, publishVars
<1>2. MayReachGrows
  BY <1>1 DEF MayReachGrows
<1>3. SubscribersMayBeReached'
  BY <1>1, ReachParts DEF SubscribersMayBeReached
<1>4. FansOutNoMore => PendingMayBeReached'
  BY <1>2, PendingStays
<1>5. UNCHANGED offered => OfferedMayBeReached'
  BY <1>2, OfferedStays DEF OfferedMayBeReached
<1>6. CASE PumpTakes(i) \/ PumpWalks(i)
  <2>1. UNCHANGED offered
    BY <1>6 DEF PumpTakes, PumpWalks, PumpOnly, linkVars
  <2>2. /\ ~ pump[i].fanning
        /\ pump'[i].fanning = pump[i].fanning
        /\ \A j \in Installations \ {i} : pump'[j] = pump[j]
    BY <1>6, Zenon DEF PumpTakes, PumpWalks, PumpBecomes
  <2>3. FansOutNoMore
    BY <2>2 DEF FansOutNoMore
  <2> QED BY <1>3, <1>4, <1>5, <2>1, <2>3, ReachParts, PTL
<1>7. CASE FanOutDone(i) \/ PumpExit(i)
  <2>1. UNCHANGED offered
    BY <1>7 DEF FanOutDone, PumpExit, linkVars
  <2>2. ~ pump'[i].fanning /\ \A j \in Installations \ {i} : pump'[j] = pump[j]
    BY <1>7, DoneEffect, ExitEffect, Zenon DEF PumpBecomes
  <2>3. FansOutNoMore
    BY <2>2 DEF FansOutNoMore
  <2> QED BY <1>3, <1>4, <1>5, <2>1, <2>3, ReachParts, PTL
<1>8. CASE FanOutSnapshot(i)
  <2>1. UNCHANGED offered /\ pump[i].batch # <<>>
    BY <1>8 DEF FanOutSnapshot, linkVars
  <2>2. /\ pump'[i].batch = pump[i].batch
        /\ pump'[i].pending = subscribed[Topic(Current(i))]
        /\ \A j \in Installations \ {i} : pump'[j] = pump[j]
    BY <1>8, SnapshotEffect, Zenon DEF PumpBecomes
  <2>3. pump'[i].pending \subseteq mayReach'[Current(i)']
    <3>1. Current(i)' = Current(i)
      BY <2>2 DEF Current
    <3>2. subscribed[Topic(Current(i))] \subseteq mayReach[Current(i)]
      BY <2>1, CurrentTyped, ReachParts DEF SubscribersMayBeReached, Topic
    <3> QED BY <1>1, <2>2, <3>1, <3>2
  <2>4. \A j \in Installations \ {i} :
          pump'[j].fanning => pump'[j].pending \subseteq mayReach'[Current(j)']
    BY <1>1, <2>2, ReachParts DEF PendingMayBeReached, Current
  <2>5. PendingMayBeReached'
    BY <2>3, <2>4 DEF PendingMayBeReached
  <2> QED BY <1>3, <1>5, <2>1, <2>5, ReachParts, PTL
<1>9. CASE \E s \in Installations : FanOutOffer(i, s)
  <2>1. PICK s \in Installations : FanOutOffer(i, s)
    BY <1>9
  <2>2. /\ pump'[i].batch = pump[i].batch /\ pump[i].batch # <<>>
        /\ pump'[i].fanning = pump[i].fanning
        /\ pump'[i].pending = pump[i].pending \ {s}
        /\ \A j \in Installations \ {i} : pump'[j] = pump[j]
    BY <2>1, OfferEffect, Zenon DEF PumpBecomes
  <2>3. FansOutNoMore
    BY <2>2 DEF FansOutNoMore
  <2>4. pump[i].fanning /\ s \in pump[i].pending
    BY <2>1 DEF FanOutOffer
  <2>5. s \in mayReach[Current(i)]
    BY <2>4, ReachParts DEF PendingMayBeReached
  <2>6. PICK l \in Links : l = <<i, s>>
    BY DEF Links
  <2>7. /\ offered[l] \in Seq(EventIds)
        /\ offered'[l] = Append(offered[l], Current(i))
        /\ \A m \in Links \ {l} : offered'[m] = offered[m]
    BY <2>1, <2>6 DEF FanOutOffer, Current, BusInv, Shapes
  <2>8. Current(i) \in EventIds
    BY <2>2, CurrentTyped
  <2>9. /\ Len(offered'[l]) = Len(offered[l]) + 1
        /\ Len(offered[l]) \in Nat
        /\ offered'[l][Len(offered[l]) + 1] = Current(i)
        /\ \A k \in 1..Len(offered[l]) : offered'[l][k] = offered[l][k]
    BY <2>7, <2>8, AppendProperties, LenProperties
  <2>10. \A k \in 1..Len(offered[l]) : l[2] \in mayReach[offered[l][k]]
    BY ReachParts DEF OfferedMayBeReached
  <2>11. \A k \in 1..Len(offered'[l]) : l[2] \in mayReach'[offered'[l][k]]
    <3>1. l[2] = s
      BY <2>6
    <3>2. \A k \in 1..Len(offered'[l]) : k \in 1..Len(offered[l]) \/ k = Len(offered[l]) + 1
      BY <2>9
    <3> QED BY <1>1, <2>5, <2>9, <2>10, <3>1, <3>2
  <2>12. \A m \in Links \ {l} : \A k \in 1..Len(offered'[m]) : m[2] \in mayReach'[offered'[m][k]]
    BY <1>2, <2>7, OfferedStays
  <2>13. OfferedMayBeReached'
    BY <2>11, <2>12 DEF OfferedMayBeReached
  <2> QED BY <1>3, <1>4, <2>3, <2>13, ReachParts, PTL
<1> QED BY <1>6, <1>7, <1>8, <1>9, PumpSteps, Zenon

LEMMA ReachNext == BusInv /\ OrderInv /\ ReachInv /\ [Next]_vars => ReachInv'
<1>1. SUFFICES ASSUME BusInv, OrderInv, ReachInv, [Next]_vars PROVE ReachInv'
  OBVIOUS
<1>2. SameQueues => UNCHANGED offered /\ FansOutNoMore
  BY DEF SameQueues, FansOutNoMore
<1>3. UNCHANGED pump => FansOutNoMore
  BY DEF FansOutNoMore
<1>4. MayReachGrows /\ UNCHANGED <<pump, offered>> => PendingMayBeReached' /\ OfferedMayBeReached'
  BY <1>1, <1>3, PendingStays, OfferedStays DEF OfferedMayBeReached
<1>5. ASSUME NEW i \in Installations, PumpStep(i) PROVE ReachInv'
  BY <1>1, <1>5, ReachPump
<1>6. ASSUME NEW s \in Installations, NEW topic \in Topics, GrantSubscribe(s, topic)
      PROVE ReachInv'
  <2>1. UNCHANGED <<pump, offered, call>>
    BY <1>6 DEF GrantSubscribe, publishVars, pumpVars, linkVars
  <2>2. MayReachGrows
    BY <1>1, <1>6 DEF GrantSubscribe, MayReachGrows, BusInv, Shapes
  <2>3. SubscribersMayBeReached'
    <3>1. SUFFICES ASSUME NEW e \in EventIds, call[e].pc = "accepted"
                   PROVE  subscribed'[call[e].topic] \subseteq mayReach'[e]
      BY <2>1 DEF SubscribersMayBeReached
    <3>2. subscribed[call[e].topic] \subseteq mayReach[e] /\ call[e].topic \in Topics
      BY <1>1, <3>1, ReachParts DEF SubscribersMayBeReached, BusInv, CallsNumbered
    <3>3. CASE call[e].topic = topic
      BY <1>1, <1>6, <3>1, <3>2, <3>3 DEF GrantSubscribe, Topic, BusInv, Shapes
    <3>4. CASE call[e].topic # topic
      BY <1>1, <1>6, <3>1, <3>2, <3>4 DEF GrantSubscribe, Topic, BusInv, Shapes
    <3> QED BY <3>3, <3>4
  <2>4. PendingMayBeReached' /\ OfferedMayBeReached'
    BY <1>4, <2>1, <2>2
  <2> QED BY <2>3, <2>4, ReachParts, PTL
<1>7. ASSUME NEW s \in Installations, NEW topic \in Topics, RevokeSubscribe(s, topic)
      PROVE ReachInv'
  <2>1. UNCHANGED <<pump, offered, call, mayReach>>
    BY <1>7 DEF RevokeSubscribe, publishVars, pumpVars, linkVars
  <2>2. MayReachGrows
    BY <2>1 DEF MayReachGrows
  <2>3. SubscribersMayBeReached'
    <3>1. \A t \in Topics : subscribed'[t] \subseteq subscribed[t]
      BY <1>1, <1>7 DEF RevokeSubscribe, BusInv, Shapes
    <3>2. \A e \in EventIds : call[e].pc = "accepted" => call[e].topic \in Topics
      BY <1>1 DEF BusInv, CallsNumbered
    <3> QED BY <1>1, <2>1, <3>1, <3>2, ReachParts DEF SubscribersMayBeReached
  <2>4. PendingMayBeReached' /\ OfferedMayBeReached'
    BY <1>4, <2>1, <2>2
  <2> QED BY <2>3, <2>4, ReachParts, PTL
<1>8. ASSUME NEW s \in Installations, NEW topic \in Topics, PublishNumber(s, topic)
      PROVE ReachInv'
  <2>1. /\ SameQueues /\ UNCHANGED <<subscribed, mayReach>>
        /\ call'[nextEventId].pc # "accepted"
        /\ \A d \in EventIds \ {nextEventId} : call'[d] = call[d]
    BY <1>1, <1>8, NumberQuiet
  <2> QED BY <1>1, <1>2, <2>1, ReachQuiet
<1>9. ASSUME NEW e \in EventIds, EnsureInstall(e) PROVE ReachInv'
  <2>1. SameQueues /\ UNCHANGED <<subscribed, mayReach>>
    BY <1>1, <1>9, EnsureQuiet
  <2>2. PICK pc \in {"holding", "refused"} : call' = [call EXCEPT ![e].pc = pc]
    BY <1>9 DEF EnsureInstall
  <2>3. CallMoves(e, pc)
    BY <1>1, <2>2, CallAssigned DEF CallPlaces
  <2> QED BY <1>1, <1>2, <2>1, <2>3, ReachQuiet DEF CallMoves
<1>10. ASSUME NEW e \in EventIds, PublishSend(e) PROVE ReachInv'
  <2>1. UNCHANGED <<pump, offered, subscribed>> /\ call[e].pc = "holding"
    BY <1>10 DEF PublishSend, pumpVars, linkVars
  <2>2. CASE CallMoves(e, "refused") /\ UNCHANGED mayReach
    BY <1>1, <1>3, <2>1, <2>2, ReachQuiet DEF CallMoves
  <2>3. CASE CallMoves(e, "accepted") /\ mayReach' = [mayReach EXCEPT ![e] = subscribed[Topic(e)]]
    <3>1. MayReachGrows
      BY <1>1, <2>1, <2>3 DEF MayReachGrows, BusInv, Shapes
    <3>2. mayReach'[e] = subscribed[call[e].topic]
          /\ \A d \in EventIds \ {e} : mayReach'[d] = mayReach[d]
      BY <1>1, <2>3 DEF BusInv, Shapes, Topic
    <3>3. SubscribersMayBeReached'
      BY <1>1, <2>1, <2>3, <3>2, ReachParts DEF SubscribersMayBeReached, CallMoves
    <3>4. PendingMayBeReached' /\ OfferedMayBeReached'
      BY <1>4, <2>1, <3>1
    <3> QED BY <3>3, <3>4, ReachParts, PTL
  <2> QED BY <1>1, <1>10, <2>2, <2>3, SendEffect
<1>11. ASSUME NEW i \in Installations, StopMark(i) \/ StopCancelToken(i) PROVE ReachInv'
  <2>1. UNCHANGED <<pump, offered, subscribed, mayReach, call>>
    BY <1>11 DEF StopMark, StopCancelToken, publishVars, pumpVars, linkVars, policyVars
  <2> QED BY <1>1, <1>3, <2>1, ReachQuiet
<1>12. ASSUME NEW l \in Links, ConsumerStep(l) PROVE ReachInv'
  <2>1. UNCHANGED <<pump, offered, subscribed, mayReach, call>>
    BY <1>12 DEF ConsumerStep, ConsumerRecv, ConsumerDeliver, ConsumerEnd, publishVars, pumpVars,
                 linkVars, policyVars
  <2> QED BY <1>1, <1>3, <2>1, ReachQuiet
<1>13. CASE UNCHANGED vars
  <2>1. UNCHANGED <<pump, offered, subscribed, mayReach, call>>
    BY <1>13 DEF vars, publishVars, pumpVars, linkVars, policyVars
  <2> QED BY <1>1, <1>3, <2>1, ReachQuiet
<1> QED BY <1>1, <1>5, <1>6, <1>7, <1>8, <1>9, <1>10, <1>11, <1>12, <1>13, Zenon DEF Next

(***************************************************************************)
(* A link is offered the events of its publisher in the order in which     *)
(* their publish calls were accepted, and only those it was subscribed to  *)
(* at some time since (run_pump, fan_out): the pump takes them out of the  *)
(* channel in order, what it holds continues what it is done with, and a   *)
(* fan-out offers to those the policy named when it began.                 *)
(***************************************************************************)
THEOREM EventsOfferedInOrder == Spec => []OfferedInOrder
<1>1. BusInv /\ OrderInv /\ ReachInv => OfferedInOrder
  <2>1. SUFFICES ASSUME BusInv, OrderInv, ReachInv, NEW l \in Links
                 PROVE  /\ \A j, k \in DOMAIN offered[l] :
                             j < k => Position(accepted[l[1]], offered[l][j])
                                        < Position(accepted[l[1]], offered[l][k])
                        /\ \A k \in DOMAIN offered[l] : l[2] \in mayReach[offered[l][k]]
    BY DEF OfferedInOrder
  <2>2. PICK acc \in Seq(EventIds) : acc = accepted[l[1]]
    BY <2>1, LinkOf, QueueTypes
  <2>3. PICK off \in Seq(EventIds) : off = offered[l]
    BY <2>1 DEF BusInv, Shapes
  <2>4. DOMAIN off = 1..Len(off) /\ DOMAIN acc = 1..Len(acc) /\ Len(acc) \in Nat
    BY LenProperties
  <2>5. Ascending(acc, off, Reached(l)) /\ Distinct(acc)
    BY <2>1, <2>2, <2>3, LinkOf DEF OrderInv
  <2>6. ASSUME NEW k \in 1..Len(off)
        PROVE  Position(acc, off[k]) \in 1..Len(acc) /\ acc[Position(acc, off[k])] = off[k]
    <3>1. \E p \in 1..Len(acc) : acc[p] = off[k]
      BY <2>4, <2>5 DEF Ascending
    <3> QED BY <2>4, <3>1 DEF Position
  <2>7. \A j, k \in 1..Len(off) : j < k => Position(acc, off[j]) < Position(acc, off[k])
    <3>1. SUFFICES ASSUME NEW j \in 1..Len(off), NEW k \in 1..Len(off), j < k
                   PROVE  Position(acc, off[j]) < Position(acc, off[k])
      OBVIOUS
    <3>2. PICK p \in 1..Len(acc) : p = Position(acc, off[j]) /\ acc[p] = off[j]
      BY <2>6
    <3>3. PICK q \in 1..Len(acc) : q = Position(acc, off[k]) /\ acc[q] = off[k]
      BY <2>6
    <3>4. p < q
      BY <2>5, <3>1, <3>2, <3>3 DEF Ascending
    <3> QED BY <3>2, <3>3, <3>4
  <2>8. \A k \in 1..Len(off) : l[2] \in mayReach[off[k]]
    BY <2>1, <2>3, ReachParts DEF OfferedMayBeReached
  <2> QED BY <2>2, <2>3, <2>4, <2>7, <2>8
<1> QED BY <1>1, BusAlways, OrderAlways, OrderInit, ReachNext, PTL DEF Spec

-----------------------------------------------------------------------------
(* Counts.  Covered is defined by recursion on the length of a stream; what it
   is for every stream follows from the least length at which it would not be. *)

Below == {p \in Nat \X Nat : p[1] < p[2]}
LEMMA Smallest ==
  ASSUME NEW S, S \subseteq Nat, S # {}
  PROVE  \E n \in S : \A m \in S : n <= m
<1>1. IsWellFoundedOn(Below, Nat)
  BY NatLessThanWellFounded DEF OpToRel, Below
<1>2. PICK n \in S : \A m \in S : ~ (<<m, n>> \in Below)
  BY <1>1, WFMin
<1>3. \A m \in S : n <= m
  <2>1. TAKE m \in S
  <2>2. ~ (m < n)
    BY <1>2 DEF Below
  <2> QED BY <2>2
<1> QED BY <1>3

Sums(f, stream, n) ==
  f = [k \in 0..n |-> IF k = 0 THEN 0 ELSE f[k - 1] + stream[k].dropped + 1]

LEMMA SumsAt ==
  ASSUME NEW f, NEW stream, NEW n \in Nat, Sums(f, stream, n)
  PROVE  /\ f[0] = 0
         /\ \A k \in 1..n : f[k] = f[k - 1] + stream[k].dropped + 1
BY DEF Sums

LEMMA SumsStep ==
  ASSUME NEW stream, NEW n \in Nat, NEW f, Sums(f, stream, n)
  PROVE  \E g : Sums(g, stream, n + 1)
<1>1. PICK g : g = [k \in 0..(n + 1) |->
                      IF k = n + 1 THEN f[n] + stream[n + 1].dropped + 1 ELSE f[k]]
  OBVIOUS
<1>2. g[n + 1] = f[n] + stream[n + 1].dropped + 1 /\ \A k \in 0..n : g[k] = f[k]
  BY <1>1
<1>3. ASSUME NEW k \in 0..(n + 1)
      PROVE  g[k] = IF k = 0 THEN 0 ELSE g[k - 1] + stream[k].dropped + 1
  <2>1. CASE k = n + 1
    <3>1. k # 0 /\ k - 1 = n /\ n \in 0..n
      BY <2>1
    <3> QED BY <1>2, <2>1, <3>1
  <2>2. CASE k = 0
    BY <1>2, <2>2, SumsAt
  <2>3. CASE k \in 1..n
    <3>1. k - 1 \in 0..n /\ k \in 0..n /\ k # 0
      BY <2>3
    <3> QED BY <1>2, <2>3, <3>1, SumsAt
  <2> QED BY <2>1, <2>2, <2>3
<1>4. g = [k \in 0..(n + 1) |-> g[k]]
  BY <1>1
<1>5. Sums(g, stream, n + 1)
  BY <1>3, <1>4 DEF Sums
<1> QED BY <1>5

LEMMA SumsExist ==
  ASSUME NEW stream
  PROVE  \A n \in Nat : \E f : Sums(f, stream, n)
<1> DEFINE Without == {n \in Nat : ~ \E f : Sums(f, stream, n)}
<1>1. SUFFICES ASSUME Without # {} PROVE FALSE
  OBVIOUS
<1>2. PICK n \in Without : \A m \in Without : n <= m
  BY <1>1, Smallest
<1>3. CASE n = 0
  <2>1. PICK f : f = [k \in 0..0 |-> 0]
    OBVIOUS
  <2>2. Sums(f, stream, 0)
    BY <2>1 DEF Sums
  <2> QED BY <1>2, <1>3, <2>2
<1>4. CASE n # 0
  <2>1. n - 1 \in Nat /\ ~ (n <= n - 1) /\ (n - 1) + 1 = n
    BY <1>4
  <2>2. PICK f : Sums(f, stream, n - 1)
    BY <1>2, <2>1
  <2>3. \E g : Sums(g, stream, n)
    BY <2>1, <2>2, SumsStep
  <2> QED BY <1>2, <2>3
<1> QED BY <1>3, <1>4

LEMMA CoveredSums ==
  ASSUME NEW S, NEW stream \in Seq(S)
  PROVE  Sums(Covered(stream), stream, Len(stream))
<1>1. Len(stream) \in Nat
  BY LenProperties
<1>2. \E f : Sums(f, stream, Len(stream))
  BY <1>1, SumsExist
<1> QED BY <1>2, Zenon DEF Covered, Sums

\* Each count of a stream of deliveries is a number, and from the first on at
\* least one.
LEMMA CoveredTyped ==
  ASSUME NEW stream \in Seq(DeliveredEvents)
  PROVE  /\ \A k \in 0..Len(stream) : Covered(stream)[k] \in Nat
         /\ \A k \in 1..Len(stream) : Covered(stream)[k] \in Nat \ {0}
<1> DEFINE Untyped == {n \in 0..Len(stream) : Covered(stream)[n] \notin Nat}
<1>1. Len(stream) \in Nat /\ \A k \in 1..Len(stream) : stream[k].dropped \in Nat
  <2>1. \A d \in DeliveredEvents : d.dropped \in Nat
    BY DEF DeliveredEvents
  <2>2. \A k \in 1..Len(stream) : stream[k] \in DeliveredEvents
    BY ElementOfSeq
  <2> QED BY <2>1, <2>2, LenProperties
<1>2. PICK f : f = Covered(stream)
  OBVIOUS
<1>3. f[0] = 0 /\ \A k \in 1..Len(stream) : f[k] = f[k - 1] + stream[k].dropped + 1
  BY <1>1, <1>2, CoveredSums, SumsAt
<1>4. \A k \in 0..Len(stream) : f[k] \in Nat
  <2>1. SUFFICES ASSUME Untyped # {} PROVE FALSE
    BY <1>2
  <2>2. Untyped \subseteq Nat
    BY <1>1
  <2>3. PICK n \in Untyped : \A m \in Untyped : n <= m
    BY <2>1, <2>2, Smallest
  <2>4. n \in 0..Len(stream) /\ f[n] \notin Nat
    BY <1>2, <2>3
  <2>5. n \in 1..Len(stream)
    BY <1>1, <1>3, <2>4
  <2>6. n - 1 \in 0..Len(stream) /\ ~ (n <= n - 1)
    BY <1>1, <2>5
  <2>7. f[n - 1] \in Nat
    BY <1>2, <2>3, <2>6
  <2>8. f[n] = f[n - 1] + stream[n].dropped + 1
    BY <1>3, <2>5
  <2>9. f[n] \in Nat
    BY <1>1, <2>5, <2>7, <2>8
  <2> QED BY <2>4, <2>9
<1>5. ASSUME NEW k \in 1..Len(stream) PROVE f[k] \in Nat \ {0}
  <2>1. k - 1 \in 0..Len(stream)
    BY <1>1
  <2>2. f[k - 1] \in Nat /\ stream[k].dropped \in Nat
    BY <1>1, <1>4, <2>1
  <2>3. f[k] = f[k - 1] + stream[k].dropped + 1
    BY <1>3
  <2> QED BY <2>2, <2>3
<1> QED BY <1>2, <1>4, <1>5

\* One more delivery leaves the counts of the others alone.
LEMMA CoveredAppend ==
  ASSUME NEW stream \in Seq(DeliveredEvents), NEW d \in DeliveredEvents
  PROVE  /\ \A k \in 0..Len(stream) : Covered(Append(stream, d))[k] = Covered(stream)[k]
         /\ Covered(Append(stream, d))[Len(stream) + 1]
              = Covered(stream)[Len(stream)] + d.dropped + 1
<1>1. Len(stream) \in Nat
  BY LenProperties
<1>2. PICK more : more = Append(stream, d)
  OBVIOUS
<1>3. /\ more \in Seq(DeliveredEvents)
      /\ Len(more) = Len(stream) + 1
      /\ more[Len(stream) + 1] = d
      /\ \A k \in 1..Len(stream) : more[k] = stream[k]
  BY <1>2, AppendProperties
<1>4. PICK f : f = Covered(stream)
  OBVIOUS
<1>5. PICK g : g = Covered(more)
  OBVIOUS
<1>6. f[0] = 0 /\ \A k \in 1..Len(stream) : f[k] = f[k - 1] + stream[k].dropped + 1
  BY <1>1, <1>4, CoveredSums, SumsAt
<1>7. g[0] = 0 /\ \A k \in 1..(Len(stream) + 1) : g[k] = g[k - 1] + more[k].dropped + 1
  <2>1. Sums(g, more, Len(stream) + 1)
    BY <1>3, <1>5, CoveredSums
  <2> QED BY <1>1, <2>1, SumsAt
<1>8. \A k \in 0..Len(stream) : g[k] = f[k]
  <2> DEFINE Differ == {n \in 0..Len(stream) : g[n] # f[n]}
  <2>1. SUFFICES ASSUME Differ # {} PROVE FALSE
    OBVIOUS
  <2>2. Differ \subseteq Nat
    BY <1>1
  <2>3. PICK n \in Differ : \A m \in Differ : n <= m
    BY <2>1, <2>2, Smallest
  <2>4. n \in 1..Len(stream) /\ g[n] # f[n]
    BY <1>1, <1>6, <1>7, <2>3
  <2>5. n - 1 \in 0..Len(stream) /\ ~ (n <= n - 1) /\ n \in 1..(Len(stream) + 1)
    BY <1>1, <2>4
  <2>6. g[n - 1] = f[n - 1]
    BY <2>3, <2>5
  <2>7. f[n] = f[n - 1] + stream[n].dropped + 1
    BY <1>6, <2>4
  <2>8. g[n] = g[n - 1] + more[n].dropped + 1
    BY <1>7, <2>5
  <2>9. more[n] = stream[n]
    BY <1>3, <2>4
  <2> QED BY <2>4, <2>6, <2>7, <2>8, <2>9, Zenon
<1>9. g[Len(stream) + 1] = f[Len(stream)] + d.dropped + 1
  <2>1. /\ Len(stream) + 1 \in 1..(Len(stream) + 1)
        /\ (Len(stream) + 1) - 1 = Len(stream)
        /\ Len(stream) \in 0..Len(stream)
    BY <1>1
  <2>2. g[Len(stream) + 1] = g[Len(stream)] + more[Len(stream) + 1].dropped + 1
    BY <1>7, <2>1
  <2>3. g[Len(stream)] = f[Len(stream)]
    BY <1>8, <2>1
  <2> QED BY <1>3, <2>2, <2>3, Zenon
<1> QED BY <1>2, <1>4, <1>5, <1>8, <1>9

\* EveryDropReported for one link: its offers, its stream, and the entry of the
\* subscribers' table.
Reported(off, stream, open, dropped) ==
  /\ \A k \in 1..Len(stream) :
       /\ Covered(stream)[k] <= Len(off)
       /\ off[Covered(stream)[k]] = stream[k].event
  /\ open => Len(off) = Covered(stream)[Len(stream)] + dropped

LEMMA ReportedLinks ==
  EveryDropReported <=>
    \A l \in Links : Reported(offered[l], Stream(l), link[l].sender, link[l].dropped)
BY Zenon DEF EveryDropReported, Reported

LEMMA NothingReported == Reported(<<>>, <<>>, TRUE, 0) /\ Reported(<<>>, <<>>, FALSE, 0)
<1>1. <<>> \in Seq(DeliveredEvents) /\ Len(<<>>) = 0
  BY EmptySeq
<1>2. Covered(<<>>)[0] = 0
  <2>1. Sums(Covered(<<>>), <<>>, 0)
    BY <1>1, CoveredSums
  <2> QED BY <2>1, SumsAt
<1> QED BY <1>1, <1>2 DEF Reported

LEMMA Regrouped == \A a, b \in Nat : (a + b) + 1 = a + (b + 1)
OBVIOUS

\* An offer that finds the channel full is counted.
LEMMA ReportedDrop ==
  ASSUME NEW off \in Seq(EventIds), NEW stream \in Seq(DeliveredEvents), NEW n \in Nat,
         NEW e \in EventIds, Reported(off, stream, TRUE, n)
  PROVE  Reported(Append(off, e), stream, TRUE, n + 1)
<1>1. Len(off) \in Nat /\ Len(stream) \in Nat
  BY LenProperties
<1>2. PICK more : more = Append(off, e)
  OBVIOUS
<1>3. Len(more) = Len(off) + 1 /\ \A k \in 1..Len(off) : more[k] = off[k]
  BY <1>2, AppendProperties
<1>4. PICK f : f = Covered(stream)
  OBVIOUS
<1>5. /\ \A k \in 0..Len(stream) : f[k] \in Nat
      /\ \A k \in 1..Len(stream) : f[k] \in Nat \ {0}
  BY <1>4, CoveredTyped
<1>6. ASSUME NEW k \in 1..Len(stream)
      PROVE  f[k] <= Len(more) /\ more[f[k]] = stream[k].event
  <2>1. f[k] <= Len(off) /\ off[f[k]] = stream[k].event
    BY <1>4 DEF Reported
  <2>2. f[k] \in 1..Len(off)
    BY <1>1, <1>5, <2>1
  <2> QED BY <1>1, <1>3, <2>1, <2>2
<1>7. Len(more) = f[Len(stream)] + (n + 1)
  <2>1. Len(off) = f[Len(stream)] + n
    BY <1>4 DEF Reported
  <2>2. f[Len(stream)] \in Nat
    BY <1>1, <1>5
  <2>3. (f[Len(stream)] + n) + 1 = f[Len(stream)] + (n + 1)
    BY <2>2, Regrouped, Zenon
  <2>4. Len(more) = (f[Len(stream)] + n) + 1
    BY <1>3, <2>1, Zenon
  <2> QED BY <2>3, <2>4, Zenon
<1>8. \A k \in 1..Len(stream) :
        Covered(stream)[k] <= Len(more) /\ more[Covered(stream)[k]] = stream[k].event
  BY <1>4, <1>6
<1>9. Len(more) = Covered(stream)[Len(stream)] + (n + 1)
  BY <1>4, <1>7
<1>10. Reported(more, stream, TRUE, n + 1)
  BY <1>8, <1>9, Zenon DEF Reported
<1> QED BY <1>2, <1>10

\* A delivered offer carries the count, which starts again.
LEMMA ReportedDelivery ==
  ASSUME NEW off \in Seq(EventIds), NEW stream \in Seq(DeliveredEvents), NEW n \in Nat,
         NEW e \in EventIds, NEW d \in DeliveredEvents, d.event = e, d.dropped = n,
         Reported(off, stream, TRUE, n)
  PROVE  Reported(Append(off, e), Append(stream, d), TRUE, 0)
<1>1. Len(off) \in Nat /\ Len(stream) \in Nat
  BY LenProperties
<1>2. PICK more : more = Append(off, e)
  OBVIOUS
<1>3. /\ Len(more) = Len(off) + 1
      /\ more[Len(off) + 1] = e
      /\ \A k \in 1..Len(off) : more[k] = off[k]
  BY <1>2, AppendProperties
<1>4. PICK longer : longer = Append(stream, d)
  OBVIOUS
<1>5. /\ Len(longer) = Len(stream) + 1
      /\ longer[Len(stream) + 1] = d
      /\ \A k \in 1..Len(stream) : longer[k] = stream[k]
  BY <1>4, AppendProperties
<1>6. PICK f : f = Covered(stream)
  OBVIOUS
<1>7. PICK g : g = Covered(longer)
  OBVIOUS
<1>8. /\ \A k \in 0..Len(stream) : g[k] = f[k]
      /\ g[Len(stream) + 1] = f[Len(stream)] + n + 1
  BY <1>4, <1>6, <1>7, CoveredAppend
<1>9. /\ \A k \in 0..Len(stream) : f[k] \in Nat
      /\ \A k \in 1..Len(stream) : f[k] \in Nat \ {0}
  BY <1>6, CoveredTyped
<1>10. g[Len(longer)] = Len(more)
  <2>1. Len(off) = f[Len(stream)] + n
    BY <1>6 DEF Reported
  <2>2. f[Len(stream)] \in Nat
    BY <1>1, <1>9
  <2> QED BY <1>3, <1>5, <1>8, <2>1, <2>2
<1>11. ASSUME NEW k \in 1..Len(longer)
       PROVE  g[k] <= Len(more) /\ more[g[k]] = longer[k].event
  <2>1. CASE k \in 1..Len(stream)
    <3>1. f[k] <= Len(off) /\ off[f[k]] = stream[k].event
      BY <1>6, <2>1 DEF Reported
    <3>2. f[k] \in 1..Len(off)
      BY <1>1, <1>9, <2>1, <3>1
    <3>3. g[k] = f[k]
      BY <1>1, <1>8, <2>1
    <3> QED BY <1>1, <1>3, <1>5, <2>1, <3>1, <3>2, <3>3
  <2>2. CASE k = Len(longer)
    BY <1>1, <1>3, <1>5, <1>10, <2>2
  <2> QED BY <1>1, <1>5, <2>1, <2>2
<1>12. Len(more) = g[Len(longer)] + 0
  BY <1>1, <1>3, <1>10
<1> QED BY <1>2, <1>4, <1>7, <1>11, <1>12 DEF Reported

(***************************************************************************)
(* The stream of a link under the steps of its consumer and its publisher. *)
(***************************************************************************)
InHand(l) == IF consumer[l] = "deliver" THEN <<hand[l]>> ELSE <<>>

LEMMA StreamParts ==
  ASSUME BusInv, NEW l \in Links
  PROVE  /\ Stream(l) = (handled[l] \o InHand(l)) \o delivery[l]
         /\ handled[l] \in Seq(DeliveredEvents)
         /\ InHand(l) \in Seq(DeliveredEvents)
         /\ delivery[l] \in Seq(DeliveredEvents)
         /\ handled[l] \o InHand(l) \in Seq(DeliveredEvents)
         /\ Stream(l) \in Seq(DeliveredEvents)
<1>1. Stream(l) = (handled[l] \o InHand(l)) \o delivery[l]
  BY DEF Stream, InHand
<1>2. handled[l] \in Seq(DeliveredEvents) /\ delivery[l] \in Seq(DeliveredEvents)
  BY DEF BusInv, Shapes
<1>3. InHand(l) \in Seq(DeliveredEvents)
  <2>1. CASE consumer[l] = "deliver"
    <3>1. hand[l] \in DeliveredEvents
      BY <2>1 DEF BusInv, ConsumerHolds
    <3> QED BY <2>1, <3>1 DEF InHand
  <2>2. CASE consumer[l] # "deliver"
    BY <2>2, EmptySeq DEF InHand
  <2> QED BY <2>1, <2>2
<1>4. handled[l] \o InHand(l) \in Seq(DeliveredEvents)
  BY <1>2, <1>3, ConcatProperties
<1>5. Stream(l) \in Seq(DeliveredEvents)
  BY <1>1, <1>2, <1>4, ConcatProperties
<1> QED BY <1>1, <1>2, <1>3, <1>4, <1>5

SameStream(l) ==
  /\ handled'[l] = handled[l] /\ hand'[l] = hand[l] /\ delivery'[l] = delivery[l]
  /\ consumer'[l] = "deliver" <=> consumer[l] = "deliver"

LEMMA StreamStays ==
  ASSUME NEW l \in Links, SameStream(l)
  PROVE  Stream(l)' = Stream(l)
BY DEF Stream, SameStream

LEMMA Regroup ==
  \A a, b, c \in Seq(DeliveredEvents) : (a \o b) \o c = a \o (b \o c)
BY ConcatAssociative

LEMMA HeadInFront ==
  ASSUME NEW q \in Seq(DeliveredEvents), q # <<>>
  PROVE  /\ Head(q) \in DeliveredEvents /\ Tail(q) \in Seq(DeliveredEvents)
         /\ <<Head(q)>> \o Tail(q) = q
<1>1. Head(q) \in DeliveredEvents /\ Tail(q) \in Seq(DeliveredEvents)
  BY HeadTailProperties
<1>2. <<Head(q)>> \o Tail(q) = q
  OBVIOUS
<1> QED BY <1>1, <1>2

LEMMA ConsumerStream ==
  ASSUME BusInv, NEW l \in Links, ConsumerStep(l), NEW m \in Links
  PROVE  Stream(m)' = Stream(m)
<1>1. CASE m # l
  <2>1. SameStream(m)
    BY <1>1 DEF ConsumerStep, ConsumerRecv, ConsumerDeliver, ConsumerEnd, SameStream, BusInv,
                Shapes, linkVars
  <2> QED BY <2>1, StreamStays
<1>2. CASE m = l /\ ConsumerEnd(l)
  <2>1. SameStream(l)
    BY <1>2 DEF ConsumerEnd, SameStream, BusInv, Shapes, linkVars
  <2> QED BY <1>2, <2>1, StreamStays
<1>3. CASE m = l /\ ConsumerRecv(l)
  <2>1. /\ delivery[l] # <<>> /\ InHand(l) = <<>>
        /\ handled'[l] = handled[l]
        /\ delivery'[l] = Tail(delivery[l])
        /\ InHand(l)' = <<Head(delivery[l])>>
    BY <1>3 DEF ConsumerRecv, InHand, BusInv, Shapes
  <2>2. /\ Head(delivery[l]) \in DeliveredEvents /\ Tail(delivery[l]) \in Seq(DeliveredEvents)
        /\ <<Head(delivery[l])>> \o Tail(delivery[l]) = delivery[l]
    BY <2>1, StreamParts, HeadInFront
  <2>3. <<Head(delivery[l])>> \in Seq(DeliveredEvents)
    BY <2>2
  <2>4. Stream(l)' = (handled[l] \o <<Head(delivery[l])>>) \o Tail(delivery[l])
    BY <2>1 DEF Stream, InHand
  <2>5. (handled[l] \o <<Head(delivery[l])>>) \o Tail(delivery[l])
          = handled[l] \o (<<Head(delivery[l])>> \o Tail(delivery[l]))
    <3>1. PICK one \in Seq(DeliveredEvents) : one = <<Head(delivery[l])>>
      BY <2>3
    <3>2. PICK rest \in Seq(DeliveredEvents) : rest = Tail(delivery[l])
      BY <2>2
    <3>3. PICK done \in Seq(DeliveredEvents) : done = handled[l]
      BY StreamParts
    <3>4. (done \o one) \o rest = done \o (one \o rest)
      BY Regroup
    <3> QED BY <3>1, <3>2, <3>3, <3>4
  <2>6. handled[l] \o <<>> = handled[l]
    BY StreamParts, ConcatEmptySeq, Zenon
  <2>7. Stream(l) = handled[l] \o delivery[l]
    BY <2>1, <2>6, StreamParts, Zenon
  <2> QED BY <1>3, <2>2, <2>4, <2>5, <2>7, Zenon
<1>4. CASE m = l /\ ConsumerDeliver(l)
  <2>1. /\ InHand(l) = <<hand[l]>> /\ hand[l] \in DeliveredEvents
        /\ handled'[l] = Append(handled[l], hand[l])
        /\ delivery'[l] = delivery[l]
        /\ InHand(l)' = <<>>
    BY <1>4 DEF ConsumerDeliver, InHand, BusInv, Shapes, ConsumerHolds, linkVars
  <2>2. Append(handled[l], hand[l]) = handled[l] \o <<hand[l]>>
    BY <2>1, StreamParts, AppendIsConcat
  <2>3. (handled[l] \o <<hand[l]>>) \o <<>> = handled[l] \o <<hand[l]>>
    BY <2>1, StreamParts, ConcatEmptySeq, Zenon
  <2>4. Stream(l)' = ((handled[l] \o <<hand[l]>>) \o <<>>) \o delivery[l]
    BY <2>1, <2>2 DEF Stream, InHand
  <2>5. Stream(l) = (handled[l] \o <<hand[l]>>) \o delivery[l]
    BY <2>1, StreamParts, Zenon
  <2> QED BY <1>4, <2>3, <2>4, <2>5, Zenon
<1> QED BY <1>1, <1>2, <1>3, <1>4 DEF ConsumerStep

LEMMA OfferStream ==
  ASSUME BusInv, NEW l \in Links, NEW d \in DeliveredEvents,
         delivery'[l] = Append(delivery[l], d),
         handled'[l] = handled[l] /\ hand'[l] = hand[l],
         consumer'[l] = "deliver" <=> consumer[l] = "deliver"
  PROVE  Stream(l)' = Append(Stream(l), d)
<1>1. PICK front \in Seq(DeliveredEvents) : front = handled[l] \o InHand(l)
  BY StreamParts
<1>2. InHand(l)' = InHand(l)
  BY DEF InHand
<1>3. Stream(l)' = front \o Append(delivery[l], d)
  BY <1>1, <1>2 DEF Stream, InHand
<1>4. Stream(l) = front \o delivery[l]
  BY <1>1, StreamParts, Zenon
<1>5. /\ Append(delivery[l], d) = delivery[l] \o <<d>>
      /\ Append(Stream(l), d) = Stream(l) \o <<d>>
      /\ <<d>> \in Seq(DeliveredEvents)
  BY StreamParts, AppendIsConcat
<1>6. (front \o delivery[l]) \o <<d>> = front \o (delivery[l] \o <<d>>)
  BY <1>5, StreamParts, Regroup, Zenon
<1> QED BY <1>3, <1>4, <1>5, <1>6, Zenon

(***************************************************************************)
(* A link without a sender was never used, or its publisher's pump has     *)
(* ended: only then may a count start from nothing.                        *)
(***************************************************************************)
Unused(l) ==
  /\ offered[l] = <<>> /\ handled[l] = <<>> /\ delivery[l] = <<>>
  /\ consumer[l] = "none"
  /\ link[l].dropped = 0
LinkInv(l) ==
  /\ Reported(offered[l], Stream(l), link[l].sender, link[l].dropped)
  /\ link[l].sender \/ pump[l[1]].pc = "ended" \/ Unused(l)
DropInv == \A l \in Links : LinkInv(l)

LEMMA UnusedStream ==
  ASSUME NEW l \in Links, Unused(l)
  PROVE  Stream(l) = <<>>
BY DEF Unused, Stream

LEMMA DropInit == Init => DropInv
<1>1. SUFFICES ASSUME Init, NEW l \in Links PROVE LinkInv(l)
  BY DEF DropInv
<1>2. Unused(l) /\ link[l].sender = FALSE
  BY <1>1 DEF Init, Unused
<1> QED BY <1>2, UnusedStream, NothingReported DEF LinkInv, Unused

EndedStays == \A i \in Installations : pump[i].pc = "ended" => pump'[i].pc = "ended"

LEMMA EndedPumps == BusInv /\ [Next]_vars => EndedStays
<1>1. SUFFICES ASSUME BusInv, [Next]_vars PROVE EndedStays
  OBVIOUS
<1>2. UNCHANGED pump => EndedStays
  BY DEF EndedStays
<1>3. ASSUME NEW i \in Installations, PumpStep(i) PROVE EndedStays
  <2>1. CASE PumpTakes(i) \/ PumpWalks(i)
    <3>1. pump[i].pc # "ended" /\ \A j \in Installations \ {i} : pump'[j] = pump[j]
      BY <2>1, Zenon DEF PumpTakes, PumpWalks, PumpBecomes
    <3> QED BY <3>1 DEF EndedStays
  <2>2. CASE FanOutSnapshot(i) \/ FanOutDone(i) \/ \E s \in Installations : FanOutOffer(i, s)
    <3>1. pump'[i].pc = pump[i].pc /\ \A j \in Installations \ {i} : pump'[j] = pump[j]
      BY <1>1, <2>2, SnapshotEffect, DoneEffect, OfferEffect, Zenon DEF PumpBecomes
    <3> QED BY <3>1 DEF EndedStays
  <2>3. CASE PumpExit(i)
    <3>1. pump'[i].pc = "ended" /\ \A j \in Installations \ {i} : pump'[j] = pump[j]
      BY <1>1, <2>3, ExitEffect, Zenon DEF PumpBecomes
    <3> QED BY <3>1 DEF EndedStays
  <2> QED BY <1>1, <1>3, <2>1, <2>2, <2>3, PumpSteps, Zenon
<1>4. ASSUME NEW e \in EventIds, EnsureInstall(e) PROVE EndedStays
  <2>1. Publisher(e) \in Installations
    BY <1>1, <1>4 DEF EnsureInstall, BusInv, CallsNumbered, Publisher
  <2>2. CASE UNCHANGED pump
    BY <1>2, <2>2
  <2>3. CASE entry[Publisher(e)] = "absent" /\ pump' = [pump EXCEPT ![Publisher(e)].pc = "select"]
    <3>1. pump[Publisher(e)].pc = "none"
      BY <1>1, <2>1, <2>3 DEF BusInv, PumpHolds
    <3>2. \A j \in Installations \ {Publisher(e)} : pump'[j] = pump[j]
      BY <1>1, <2>3 DEF BusInv, Shapes
    <3> QED BY <3>1, <3>2 DEF EndedStays
  <2> QED BY <1>4, <2>2, <2>3 DEF EnsureInstall
<1>5. ASSUME NEW s \in Installations, NEW topic \in Topics,
             GrantSubscribe(s, topic) \/ RevokeSubscribe(s, topic) \/ PublishNumber(s, topic)
      PROVE  EndedStays
  BY <1>2, <1>5 DEF GrantSubscribe, RevokeSubscribe, PublishNumber, pumpVars
<1>6. ASSUME NEW e \in EventIds, PublishSend(e) PROVE EndedStays
  BY <1>2, <1>6 DEF PublishSend, pumpVars
<1>7. ASSUME NEW i \in Installations, StopMark(i) \/ StopCancelToken(i) PROVE EndedStays
  BY <1>2, <1>7 DEF StopMark, StopCancelToken, pumpVars
<1>8. ASSUME NEW l \in Links, ConsumerStep(l) PROVE EndedStays
  BY <1>2, <1>8 DEF ConsumerStep, ConsumerRecv, ConsumerDeliver, ConsumerEnd, pumpVars
<1>9. CASE UNCHANGED vars
  BY <1>2, <1>9 DEF vars, pumpVars
<1> QED BY <1>1, <1>3, <1>4, <1>5, <1>6, <1>7, <1>8, <1>9, Zenon DEF Next

LEMMA LinkStays ==
  ASSUME DropInv, EndedStays, NEW l \in Links, offered'[l] = offered[l], link'[l] = link[l],
         Stream(l)' = Stream(l),
         Unused(l) => handled'[l] = handled[l] /\ delivery'[l] = delivery[l]
                      /\ consumer'[l] = consumer[l]
  PROVE  LinkInv(l)'
<1>1. Reported(offered'[l], Stream(l)', link'[l].sender, link'[l].dropped)
  BY DEF DropInv, LinkInv
<1>2. l[1] \in Installations
  BY LinkOf
<1>3. link'[l].sender \/ pump'[l[1]].pc = "ended" \/ Unused(l)'
  BY <1>2 DEF DropInv, LinkInv, EndedStays, Unused
<1> QED BY <1>1, <1>3 DEF LinkInv

LinksStay == UNCHANGED <<link, delivery, offered, consumer, hand, handled>>

LEMMA DropQuiet ==
  ASSUME DropInv, EndedStays, LinksStay
  PROVE  DropInv'
<1>1. ASSUME NEW l \in Links PROVE LinkInv(l)'
  <2>1. SameStream(l)
    BY DEF LinksStay, SameStream
  <2> QED BY <2>1, StreamStays, LinkStays DEF LinksStay
<1> QED BY <1>1 DEF DropInv

LEMMA DropConsumer ==
  ASSUME BusInv, DropInv, EndedStays, NEW m \in Links, ConsumerStep(m)
  PROVE  DropInv'
<1>1. ASSUME NEW l \in Links PROVE LinkInv(l)'
  <2>1. UNCHANGED <<offered, link>>
    BY DEF ConsumerStep, ConsumerRecv, ConsumerDeliver, ConsumerEnd, linkVars
  <2>2. Stream(l)' = Stream(l)
    BY ConsumerStream
  <2>3. ASSUME Unused(l)
        PROVE  handled'[l] = handled[l] /\ delivery'[l] = delivery[l]
               /\ consumer'[l] = consumer[l]
    <3>1. consumer[l] = "none" /\ l # m
      BY <2>3 DEF Unused, ConsumerStep, ConsumerRecv, ConsumerDeliver, ConsumerEnd
    <3> QED BY <3>1 DEF ConsumerStep, ConsumerRecv, ConsumerDeliver, ConsumerEnd, BusInv, Shapes,
                        linkVars
  <2> QED BY <2>1, <2>2, <2>3, LinkStays
<1> QED BY <1>1 DEF DropInv

LEMMA DropExit ==
  ASSUME BusInv, DropInv, EndedStays, NEW i \in Installations, PumpExit(i)
  PROVE  DropInv'
<1>1. UNCHANGED <<delivery, offered, consumer, hand, handled>>
  BY DEF PumpExit, consumerVars
<1>2. ASSUME NEW l \in Links PROVE LinkInv(l)'
  <2>1. Stream(l)' = Stream(l)
    BY <1>1, StreamStays DEF SameStream
  <2>2. CASE l[1] = i
    <3>1. link'[l].sender = FALSE
      BY <2>2 DEF PumpExit, LinksClosed
    <3>2. pump'[l[1]].pc = "ended"
      BY <2>2, ExitEffect, Zenon DEF PumpBecomes
    <3>3. Reported(offered[l], Stream(l), FALSE, link'[l].dropped)
      BY DEF DropInv, LinkInv, Reported
    <3> QED BY <1>1, <2>1, <3>1, <3>2, <3>3 DEF LinkInv
  <2>3. CASE l[1] # i
    <3>1. link'[l] = link[l]
      BY <2>3 DEF PumpExit, LinksClosed
    <3> QED BY <1>1, <2>1, <3>1, LinkStays
  <2> QED BY <2>2, <2>3
<1> QED BY <1>2 DEF DropInv

LEMMA DropOffer ==
  ASSUME BusInv, DropInv, EndedStays, NEW i \in Installations, NEW s \in Installations,
         FanOutOffer(i, s)
  PROVE  DropInv'
<1>1. PICK l \in Links : l = <<i, s>>
  BY DEF Links
<1>2. UNCHANGED <<hand, handled>> /\ pump[i].pc # "ended" /\ l[1] = i
  BY <1>1, OfferEffect DEF FanOutOffer
<1>3. PICK e \in EventIds : e = Current(i)
  BY OfferEffect, CurrentTyped
<1>4. /\ offered'[l] = Append(offered[l], e)
      /\ \A m \in Links \ {l} : offered'[m] = offered[m]
  BY <1>1, <1>3 DEF FanOutOffer, Current, BusInv, Shapes
<1>5. PICK n \in Nat : n = link[l].dropped
  BY LinkTyped DEF BusInv, Shapes
<1>6. PICK d \in DeliveredEvents : d = [event |-> e, dropped |-> n]
  BY DEF DeliveredEvents
<1>7. \A m \in Links \ {l} :
        link'[m] = link[m] /\ delivery'[m] = delivery[m] /\ consumer'[m] = consumer[m]
  <2>1. \A m \in Links \ {l} : link'[m] = link[m] /\ delivery'[m] = delivery[m]
    <3>1. CASE Delivers(l, e)
      BY <3>1 DEF Delivers, BusInv, Shapes
    <3>2. CASE Drops(l)
      BY <3>2 DEF Drops, BusInv, Shapes
    <3> QED BY <1>1, <1>3, <3>1, <3>2, OfferOutcome
  <2>2. \A m \in Links \ {l} : consumer'[m] = consumer[m]
    BY <1>1 DEF FanOutOffer, BusInv, Shapes
  <2> QED BY <2>1, <2>2
<1>8. ASSUME NEW m \in Links \ {l} PROVE LinkInv(m)'
  <2>1. Stream(m)' = Stream(m)
    BY <1>2, <1>7, StreamStays DEF SameStream
  <2>2. /\ offered'[m] = offered[m] /\ link'[m] = link[m] /\ handled'[m] = handled[m]
        /\ delivery'[m] = delivery[m] /\ consumer'[m] = consumer[m]
    BY <1>2, <1>4, <1>7
  <2> QED BY <2>1, <2>2, LinkStays
<1>9. /\ Reported(offered[l], Stream(l), TRUE, n)
      /\ consumer'[l] = "deliver" <=> consumer[l] = "deliver"
  <2>1. CASE link[l].sender
    <3>1. link[l].sender = TRUE
      BY <2>1, LinkTyped DEF BusInv, Shapes
    <3>2. Reported(offered[l], Stream(l), TRUE, n)
      BY <1>5, <3>1 DEF DropInv, LinkInv
    <3>3. consumer' = consumer
      BY <1>1, <2>1 DEF FanOutOffer
    <3> QED BY <3>2, <3>3
  <2>2. CASE ~ link[l].sender
    <3>1. Unused(l)
      BY <1>2, <2>2 DEF DropInv, LinkInv
    <3>2. offered[l] = <<>> /\ Stream(l) = <<>> /\ n = 0
      BY <1>5, <3>1, UnusedStream DEF Unused
    <3>3. consumer'[l] = "recv" /\ consumer[l] = "none"
      BY <1>1, <2>2, <3>1 DEF FanOutOffer, Unused, BusInv, Shapes
    <3> QED BY <3>2, <3>3, NothingReported
  <2> QED BY <2>1, <2>2
<1>10. offered[l] \in Seq(EventIds) /\ Stream(l) \in Seq(DeliveredEvents)
  BY StreamParts DEF BusInv, Shapes
<1>11. CASE Delivers(l, e)
  <2>1. /\ delivery'[l] = Append(delivery[l], d)
        /\ link'[l] = [sender |-> TRUE, dropped |-> 0]
    BY <1>5, <1>6, <1>11 DEF Delivers, BusInv, Shapes
  <2>2. Stream(l)' = Append(Stream(l), d)
    BY <1>2, <1>9, <2>1, OfferStream
  <2>3. link'[l].sender = TRUE /\ link'[l].dropped = 0
    BY <2>1
  <2>4. d.event = e /\ d.dropped = n
    BY <1>6
  <2>5. Reported(Append(offered[l], e), Append(Stream(l), d), TRUE, 0)
    BY <1>9, <1>10, <2>4, ReportedDelivery
  <2>6. LinkInv(l)'
    BY <1>4, <2>2, <2>3, <2>5 DEF LinkInv
  <2> QED BY <1>8, <2>6 DEF DropInv
<1>12. CASE Drops(l)
  <2>1. /\ delivery'[l] = delivery[l]
        /\ link'[l] = [sender |-> TRUE, dropped |-> n + 1]
    BY <1>5, <1>12 DEF Drops, BusInv, Shapes
  <2>2. Stream(l)' = Stream(l)
    BY <1>2, <1>9, <2>1, StreamStays DEF SameStream
  <2>3. link'[l].sender = TRUE /\ link'[l].dropped = n + 1
    BY <2>1
  <2>4. Reported(Append(offered[l], e), Stream(l), TRUE, n + 1)
    BY <1>9, <1>10, ReportedDrop
  <2>5. LinkInv(l)'
    BY <1>4, <2>2, <2>3, <2>4 DEF LinkInv
  <2> QED BY <1>8, <2>5 DEF DropInv
<1> QED BY <1>1, <1>3, <1>11, <1>12, OfferOutcome

LEMMA DropNext == BusInv /\ DropInv /\ [Next]_vars => DropInv'
<1>1. SUFFICES ASSUME BusInv, DropInv, [Next]_vars PROVE DropInv'
  OBVIOUS
<1>2. EndedStays
  BY <1>1, EndedPumps
<1>3. ASSUME NEW i \in Installations, PumpStep(i) PROVE DropInv'
  <2>1. PumpTakes(i) \/ PumpWalks(i) \/ FanOutSnapshot(i) \/ FanOutDone(i) => LinksStay
    BY DEF PumpTakes, PumpWalks, PumpOnly, FanOutSnapshot, FanOutDone, linkVars, consumerVars,
           LinksStay
  <2> QED BY <1>1, <1>2, <1>3, <2>1, PumpSteps, DropQuiet, DropExit, DropOffer, Zenon
<1>4. ASSUME NEW l \in Links, ConsumerStep(l) PROVE DropInv'
  BY <1>1, <1>2, <1>4, DropConsumer
<1>5. ASSUME NEW s \in Installations, NEW topic \in Topics,
             GrantSubscribe(s, topic) \/ RevokeSubscribe(s, topic) \/ PublishNumber(s, topic)
      PROVE  LinksStay
  BY <1>5 DEF GrantSubscribe, RevokeSubscribe, PublishNumber, linkVars, consumerVars, LinksStay
<1>6. ASSUME NEW e \in EventIds, EnsureInstall(e) \/ PublishSend(e) PROVE LinksStay
  BY <1>6 DEF EnsureInstall, PublishSend, linkVars, consumerVars, LinksStay
<1>7. ASSUME NEW i \in Installations, StopMark(i) \/ StopCancelToken(i) PROVE LinksStay
  BY <1>7 DEF StopMark, StopCancelToken, linkVars, consumerVars, LinksStay
<1>8. CASE UNCHANGED vars
  <2>1. LinksStay
    BY <1>8 DEF vars, linkVars, consumerVars, LinksStay
  <2> QED BY <1>1, <1>2, <2>1, DropQuiet
<1> QED BY <1>1, <1>2, <1>3, <1>4, <1>5, <1>6, <1>7, <1>8, DropQuiet, Zenon DEF Next

(***************************************************************************)
(* A subscriber can tell from the counts which events it missed: each      *)
(* delivery comes after as many dropped offers as it says, and the count   *)
(* kept for the next one is that of the offers dropped since (fan_out,     *)
(* run_consumer), however the pump, its consumers and stop interleave.     *)
(***************************************************************************)
THEOREM DropsReported == Spec => []EveryDropReported
<1>1. DropInv => EveryDropReported
  BY ReportedLinks DEF DropInv, LinkInv
<1> QED BY <1>1, BusAlways, DropInit, DropNext, PTL DEF Spec

-----------------------------------------------------------------------------
(* What happens to an event between publish and the end of the pump. *)

Among(e, queue) == \E k \in 1..Len(queue) : queue[k] = e

\* An accepted event is on its way: in the channel, in the pump's batch, or its
\* fan-out has begun.
OnItsWay(i) ==
  \A e \in EventIds :
    Among(e, accepted[i]) =>
      e \in fannedOut \/ Among(e, pump[i].batch) \/ Among(e, inbound[i])

Begun(i) == pump[i].fanning => Current(i) \in fannedOut

\* No event is lost while its publisher's pump runs.
EventsAreKept == \A i \in Installations : pump[i].pc # "ended" => OnItsWay(i)

KeptInv == EventsAreKept /\ \A i \in Installations : Begun(i)

\* The token and the end of a pump come after stop.
StoppedFirst ==
  \A i \in Installations :
    cancelled[i] \/ pump[i].pc \in {"drain", "exit", "ended"} => entry[i] = "stopped"

\* A pump gives its channel up when it has begun to offer every event accepted so far.
DrainsFirst ==
  \A i \in Installations : pump[i].pc # "exit" /\ pump'[i].pc = "exit" =>
    /\ entry[i] = "stopped"
    /\ \A e \in EventIds : Among(e, accepted[i]) => e \in fannedOut

LEMMA AmongAppended ==
  ASSUME NEW queue \in Seq(EventIds), NEW d \in EventIds, NEW e \in EventIds
  PROVE  Among(e, Append(queue, d)) <=> Among(e, queue) \/ e = d
<1>1. /\ Append(queue, d) \in Seq(EventIds)
      /\ Len(Append(queue, d)) = Len(queue) + 1
      /\ \A k \in 1..Len(queue) : Append(queue, d)[k] = queue[k]
      /\ Append(queue, d)[Len(queue) + 1] = d
      /\ Len(queue) \in Nat
  BY AppendProperties, LenProperties
<1> QED BY <1>1 DEF Among

LEMMA AmongTail ==
  ASSUME NEW queue \in Seq(EventIds), queue # <<>>, NEW e \in EventIds
  PROVE  Among(e, queue) => e = Head(queue) \/ Among(e, Tail(queue))
<1>1. /\ Len(Tail(queue)) = Len(queue) - 1
      /\ \A k \in 1..Len(Tail(queue)) : Tail(queue)[k] = queue[k + 1]
      /\ Head(queue) = queue[1]
      /\ Len(queue) \in Nat
  BY HeadTailProperties, LenProperties
<1>2. ASSUME NEW k \in 1..Len(queue), queue[k] = e, e # Head(queue)
      PROVE  Among(e, Tail(queue))
  <2>1. k - 1 \in 1..Len(Tail(queue)) /\ Tail(queue)[k - 1] = e
    BY <1>1, <1>2
  <2> QED BY <2>1 DEF Among
<1> QED BY <1>2 DEF Among

LEMMA AmongNone == \A e : ~ Among(e, <<>>)
BY DEF Among

(***************************************************************************)
(* One pump, its channel and its accepted events change.                   *)
(***************************************************************************)
LEMMA KeptOne ==
  ASSUME KeptInv, NEW i \in Installations, fannedOut \subseteq fannedOut',
         \A j \in Installations \ {i} :
           accepted'[j] = accepted[j] /\ inbound'[j] = inbound[j] /\ pump'[j] = pump[j],
         pump'[i].pc # "ended" => OnItsWay(i)', Begun(i)'
  PROVE  KeptInv'
<1>1. ASSUME NEW j \in Installations, j # i
      PROVE  (pump'[j].pc # "ended" => OnItsWay(j)') /\ Begun(j)'
  <2>1. /\ accepted'[j] = accepted[j] /\ inbound'[j] = inbound[j] /\ pump'[j] = pump[j]
    BY <1>1
  <2> QED BY <2>1 DEF KeptInv, EventsAreKept, OnItsWay, Begun, Current
<1> QED BY <1>1 DEF KeptInv, EventsAreKept

LEMMA KeptQuiet ==
  ASSUME KeptInv, SameQueues, EndedStays, UNCHANGED fannedOut
  PROVE  KeptInv'
<1>1. ASSUME NEW j \in Installations
      PROVE  (pump'[j].pc # "ended" => OnItsWay(j)') /\ Begun(j)'
  <2>1. /\ accepted'[j] = accepted[j] /\ inbound'[j] = inbound[j]
        /\ pump'[j].batch = pump[j].batch /\ pump'[j].fanning = pump[j].fanning
        /\ pump'[j].pc # "ended" => pump[j].pc # "ended"
    BY DEF SameQueues, EndedStays
  <2> QED BY <2>1 DEF KeptInv, EventsAreKept, OnItsWay, Begun, Current
<1> QED BY <1>1 DEF KeptInv, EventsAreKept

LEMMA KeptTakes ==
  ASSUME BusInv, KeptInv, NEW i \in Installations, PumpTakes(i)
  PROVE  KeptInv'
<1>1. UNCHANGED <<accepted, fannedOut>> /\ inbound[i] # <<>>
  BY DEF PumpTakes, PumpOnly, publishVars
<1>2. /\ inbound'[i] = Tail(inbound[i])
      /\ \A j \in Installations \ {i} : inbound'[j] = inbound[j]
  BY DEF PumpTakes, BusInv, Shapes
<1>3. /\ pump'[i].batch = Append(pump[i].batch, Head(inbound[i]))
      /\ \A j \in Installations \ {i} : pump'[j] = pump[j]
      /\ ~ pump'[i].fanning
      /\ pump[i].pc # "ended"
  BY Zenon DEF PumpTakes, PumpBecomes
<1>4. pump[i].batch \in Seq(EventIds) /\ inbound[i] \in Seq(EventIds)
  BY QueueTypes
<1>5. Head(inbound[i]) \in EventIds
  BY <1>1, <1>4, HeadTailProperties
<1>6. OnItsWay(i)'
  <2>1. SUFFICES ASSUME NEW e \in EventIds, Among(e, accepted[i])
                 PROVE  e \in fannedOut \/ Among(e, pump'[i].batch) \/ Among(e, inbound'[i])
    BY <1>1, Zenon DEF OnItsWay
  <2>2. e \in fannedOut \/ Among(e, pump[i].batch) \/ Among(e, inbound[i])
    BY <1>3, <2>1 DEF KeptInv, EventsAreKept, OnItsWay
  <2> QED BY <1>1, <1>2, <1>3, <1>4, <1>5, <2>2, AmongAppended, AmongTail
<1> QED BY <1>1, <1>2, <1>3, <1>6, KeptOne DEF Begun

LEMMA KeptSnapshot ==
  ASSUME BusInv, KeptInv, NEW i \in Installations, FanOutSnapshot(i)
  PROVE  KeptInv'
<1>1. /\ UNCHANGED <<accepted, inbound>>
      /\ fannedOut' = fannedOut \cup {Current(i)}
  BY DEF FanOutSnapshot, publishVars, Current
<1>2. /\ pump'[i].batch = pump[i].batch
      /\ pump'[i].pc = pump[i].pc
      /\ \A j \in Installations \ {i} : pump'[j] = pump[j]
  BY SnapshotEffect, Zenon DEF PumpBecomes
<1>3. Begun(i)'
  BY <1>1, <1>2 DEF Begun, Current
<1>4. pump'[i].pc # "ended" => OnItsWay(i)'
  BY <1>1, <1>2 DEF KeptInv, EventsAreKept, OnItsWay
<1> QED BY <1>1, <1>2, <1>3, <1>4, KeptOne

LEMMA KeptDone ==
  ASSUME BusInv, KeptInv, NEW i \in Installations, FanOutDone(i)
  PROVE  KeptInv'
<1>1. UNCHANGED <<accepted, inbound, fannedOut>> /\ pump[i].fanning
  BY DEF FanOutDone, publishVars
<1>2. /\ pump'[i].batch = Tail(pump[i].batch)
      /\ ~ pump'[i].fanning
      /\ \A j \in Installations \ {i} : pump'[j] = pump[j]
      /\ pump[i].batch \in Seq(EventIds) /\ pump[i].batch # <<>>
      /\ pump[i].pc # "ended"
  BY DoneEffect, Zenon DEF PumpBecomes
<1>3. Current(i) \in fannedOut
  BY <1>1 DEF KeptInv, Begun
<1>4. OnItsWay(i)'
  <2>1. SUFFICES ASSUME NEW e \in EventIds, Among(e, accepted[i])
                 PROVE  e \in fannedOut \/ Among(e, pump'[i].batch) \/ Among(e, inbound[i])
    BY <1>1, Zenon DEF OnItsWay
  <2>2. e \in fannedOut \/ Among(e, pump[i].batch) \/ Among(e, inbound[i])
    BY <1>2, <2>1 DEF KeptInv, EventsAreKept, OnItsWay
  <2> QED BY <1>2, <1>3, <2>2, AmongTail DEF Current
<1> QED BY <1>1, <1>2, <1>4, KeptOne DEF Begun

LEMMA KeptOffer ==
  ASSUME BusInv, KeptInv, NEW i \in Installations, NEW s \in Installations, FanOutOffer(i, s)
  PROVE  KeptInv'
<1>1. UNCHANGED <<accepted, inbound, fannedOut>>
  BY DEF FanOutOffer, publishVars
<1>2. /\ pump'[i].batch = pump[i].batch
      /\ pump'[i].fanning = pump[i].fanning
      /\ pump'[i].pc = pump[i].pc
      /\ \A j \in Installations \ {i} : pump'[j] = pump[j]
  BY OfferEffect, Zenon DEF PumpBecomes
<1>3. Begun(i)' /\ (pump'[i].pc # "ended" => OnItsWay(i)')
  BY <1>1, <1>2 DEF KeptInv, EventsAreKept, OnItsWay, Begun, Current
<1> QED BY <1>1, <1>2, <1>3, KeptOne

LEMMA KeptExit ==
  ASSUME BusInv, KeptInv, NEW i \in Installations, PumpExit(i)
  PROVE  KeptInv'
<1>1. UNCHANGED <<accepted, fannedOut>>
  BY DEF PumpExit, publishVars
<1>2. \A j \in Installations \ {i} : inbound'[j] = inbound[j]
  BY DEF PumpExit, BusInv, Shapes
<1>3. /\ pump'[i].pc = "ended"
      /\ ~ pump'[i].fanning
      /\ \A j \in Installations \ {i} : pump'[j] = pump[j]
  BY ExitEffect, Zenon DEF PumpBecomes
<1> QED BY <1>1, <1>2, <1>3, KeptOne DEF Begun

LEMMA KeptSend ==
  ASSUME BusInv, KeptInv, NEW e \in EventIds, PublishSend(e)
  PROVE  KeptInv'
<1>1. UNCHANGED <<pump, fannedOut>>
  BY DEF PublishSend, pumpVars
<1>2. CASE UNCHANGED <<inbound, accepted>>
  BY <1>1, <1>2 DEF KeptInv, EventsAreKept, OnItsWay, Begun, Current
<1>3. ASSUME NEW i \in Installations,
             inbound' = [inbound EXCEPT ![i] = Append(inbound[i], e)],
             accepted' = [accepted EXCEPT ![i] = Append(accepted[i], e)]
      PROVE  KeptInv'
  <2>1. /\ inbound'[i] = Append(inbound[i], e)
        /\ accepted'[i] = Append(accepted[i], e)
        /\ \A j \in Installations \ {i} : accepted'[j] = accepted[j] /\ inbound'[j] = inbound[j]
    BY <1>3 DEF BusInv, Shapes
  <2>2. accepted[i] \in Seq(EventIds) /\ inbound[i] \in Seq(EventIds)
    BY QueueTypes
  <2>3. \A d \in EventIds : Among(d, accepted'[i]) => Among(d, accepted[i]) \/ d = e
    BY <2>1, <2>2, AmongAppended
  <2>4. \A d \in EventIds : Among(d, inbound[i]) \/ d = e => Among(d, inbound'[i])
    BY <2>1, <2>2, AmongAppended
  <2>5. pump'[i].pc # "ended" => OnItsWay(i)'
    BY <1>1, <2>3, <2>4, Zenon DEF KeptInv, EventsAreKept, OnItsWay
  <2>6. Begun(i)'
    BY <1>1 DEF KeptInv, Begun, Current
  <2> QED BY <1>1, <2>1, <2>5, <2>6, KeptOne
<1> QED BY <1>2, <1>3, SendEffect

LEMMA KeptNext == BusInv /\ KeptInv /\ [Next]_vars => KeptInv'
<1>1. SUFFICES ASSUME BusInv, KeptInv, [Next]_vars PROVE KeptInv'
  OBVIOUS
<1>2. EndedStays
  BY <1>1, EndedPumps
<1>3. SameQueues /\ UNCHANGED fannedOut => KeptInv'
  BY <1>1, <1>2, KeptQuiet
<1>4. ASSUME NEW i \in Installations, PumpStep(i) PROVE KeptInv'
  <2>1. PumpWalks(i) => SameQueues /\ UNCHANGED fannedOut
    <3>1. PumpWalks(i) => UNCHANGED <<accepted, inbound, offered, fannedOut>>
      BY DEF PumpWalks, PumpOnly, publishVars, linkVars
    <3>2. PumpWalks(i) =>
            \A j \in Installations :
              /\ pump'[j].batch = pump[j].batch
              /\ pump'[j].fanning = pump[j].fanning
              /\ pump'[j].pending = pump[j].pending
      BY Zenon DEF PumpWalks, PumpBecomes
    <3> QED BY <3>1, <3>2, Zenon DEF SameQueues
  <2> QED BY <1>1, <1>3, <1>4, <2>1, PumpSteps, KeptTakes, KeptSnapshot, KeptDone, KeptOffer,
             KeptExit, Zenon
<1>5. ASSUME NEW s \in Installations, NEW topic \in Topics,
             GrantSubscribe(s, topic) \/ RevokeSubscribe(s, topic) \/ PublishNumber(s, topic)
      PROVE KeptInv'
  BY <1>3, <1>5 DEF GrantSubscribe, RevokeSubscribe, PublishNumber, SameQueues, policyVars,
                    publishVars, pumpVars, linkVars
<1>6. ASSUME NEW e \in EventIds, EnsureInstall(e) PROVE KeptInv'
  <2>1. SameQueues
    BY <1>1, <1>6, EnsureQuiet
  <2> QED BY <1>3, <1>6, <2>1 DEF EnsureInstall
<1>7. ASSUME NEW e \in EventIds, PublishSend(e) PROVE KeptInv'
  BY <1>1, <1>7, KeptSend
<1>8. ASSUME NEW i \in Installations, StopMark(i) \/ StopCancelToken(i) PROVE KeptInv'
  BY <1>3, <1>8 DEF StopMark, StopCancelToken, SameQueues, publishVars, pumpVars, linkVars
<1>9. ASSUME NEW l \in Links, ConsumerStep(l) PROVE KeptInv'
  BY <1>3, <1>9 DEF ConsumerStep, ConsumerRecv, ConsumerDeliver, ConsumerEnd, SameQueues,
                    publishVars, pumpVars, linkVars
<1>10. CASE UNCHANGED vars
  BY <1>3, <1>10 DEF vars, SameQueues, publishVars, pumpVars, linkVars
<1> QED BY <1>1, <1>4, <1>5, <1>6, <1>7, <1>8, <1>9, <1>10, Zenon DEF Next

LEMMA KeptAlways == Spec => []KeptInv
<1>1. Init => KeptInv
  <2>1. SUFFICES ASSUME Init, NEW i \in Installations PROVE OnItsWay(i) /\ Begun(i)
    BY DEF KeptInv, EventsAreKept
  <2>2. accepted[i] = <<>> /\ pump[i].fanning = FALSE
    BY <2>1 DEF Init
  <2> QED BY <2>2, AmongNone DEF OnItsWay, Begun
<1> QED BY <1>1, KeptNext, BusAlways, PTL DEF Spec

(***************************************************************************)
(* No event whose publish returned ok is lost while the pump of its        *)
(* publisher runs (try_send, run_pump): it is in the inbound channel, in   *)
(* the batch, or its fan-out has begun, however stop interleaves.          *)
(***************************************************************************)
THEOREM PumpKeepsEvents == Spec => []EventsAreKept
<1>1. KeptInv => EventsAreKept
  BY DEF KeptInv
<1> QED BY <1>1, KeptAlways, PTL

(***************************************************************************)
(* When a pump turns to drain or to its end.                               *)
(***************************************************************************)
LEMMA PumpTurns ==
  ASSUME BusInv, NEW i \in Installations, PumpStep(i)
  PROVE  /\ UNCHANGED <<entry, cancelled>>
         /\ \A j \in Installations \ {i} : pump'[j] = pump[j]
         /\ pump'[i].pc \in {"drain", "exit", "ended"} =>
              \/ pump[i].pc \in {"drain", "exit"}
              \/ cancelled[i]
              \/ entry[i] = "stopped"
         /\ pump'[i].pc = "exit" => inbound[i] = <<>> /\ pump[i].batch = <<>>
<1>1. \A pc, batch : PumpGoes(i, pc, batch) =>
        pump'[i].pc = pc /\ \A j \in Installations \ {i} : pump'[j] = pump[j]
  BY DEF PumpGoes, BusInv, Shapes, PumpRecords
<1>2. CASE PumpCancelled(i) \/ PumpRecv(i) \/ PumpClosed(i)
  <2>1. pump[i].pc = "select" => pump[i].batch = <<>>
    BY Zenon DEF BusInv, PumpHolds
  <2> QED BY <1>1, <1>2, <2>1
          DEF PumpCancelled, PumpRecv, PumpClosed, SendersGone, AfterToken, installVars
<1>3. CASE PumpCollect(i)
  BY <1>1, <1>3 DEF PumpCollect, installVars
<1>4. CASE PumpDrain(i)
  BY <1>1, <1>4 DEF PumpDrain, installVars
<1>5. CASE PumpBatchDone(i)
  BY <1>1, <1>5 DEF PumpBatchDone, AfterToken, installVars
<1>6. CASE FanOutSnapshot(i) \/ FanOutDone(i) \/ \E s \in Installations : FanOutOffer(i, s)
  <2>1. /\ pump'[i].pc = pump[i].pc
        /\ \A j \in Installations \ {i} : pump'[j] = pump[j]
    BY <1>6, SnapshotEffect, DoneEffect, OfferEffect, Zenon DEF PumpBecomes
  <2>2. pump[i].pc \in {"batch", "drain"}
    BY <1>6, DoneEffect, OfferEffect, Zenon DEF FanOutSnapshot
  <2>3. UNCHANGED <<entry, cancelled>>
    BY <1>6 DEF FanOutSnapshot, FanOutDone, FanOutOffer, installVars
  <2> QED BY <2>1, <2>2, <2>3
<1>7. CASE PumpExit(i)
  BY <1>1, <1>7 DEF PumpExit, installVars
<1> QED BY <1>2, <1>3, <1>4, <1>5, <1>6, <1>7, Zenon DEF PumpStep

LEMMA StoppedNext == BusInv /\ StoppedFirst /\ [Next]_vars => StoppedFirst'
<1>1. SUFFICES ASSUME BusInv, StoppedFirst, [Next]_vars PROVE StoppedFirst'
  OBVIOUS
<1>2. UNCHANGED <<entry, cancelled, pump>> => StoppedFirst'
  BY <1>1 DEF StoppedFirst
<1>3. ASSUME NEW i \in Installations, PumpStep(i) PROVE StoppedFirst'
  BY <1>1, <1>3, PumpTurns DEF StoppedFirst
<1>4. ASSUME NEW e \in EventIds, EnsureInstall(e) PROVE StoppedFirst'
  <2>1. UNCHANGED cancelled
    BY <1>4 DEF EnsureInstall
  <2>2. CASE UNCHANGED <<entry, pump>>
    BY <1>2, <2>1, <2>2
  <2>3. CASE entry[Publisher(e)] = "absent" /\ pump' = [pump EXCEPT ![Publisher(e)].pc = "select"]
             /\ entry' = [entry EXCEPT ![Publisher(e)] = "open"]
    <3>1. PICK i \in Installations : i = Publisher(e)
      BY <1>1, <1>4 DEF EnsureInstall, BusInv, CallsNumbered, Publisher
    <3>2. pump'[i].pc = "select" /\ ~ cancelled'[i]
      BY <1>1, <2>1, <2>3, <3>1 DEF BusInv, Shapes, PumpRecords, StoppedFirst
    <3>3. \A j \in Installations \ {i} : pump'[j] = pump[j] /\ entry'[j] = entry[j]
      BY <1>1, <2>3, <3>1 DEF BusInv, Shapes
    <3> QED BY <1>1, <2>1, <3>2, <3>3 DEF StoppedFirst
  <2> QED BY <1>4, <2>2, <2>3 DEF EnsureInstall
<1>5. ASSUME NEW s \in Installations, NEW topic \in Topics,
             GrantSubscribe(s, topic) \/ RevokeSubscribe(s, topic) \/ PublishNumber(s, topic)
      PROVE  StoppedFirst'
  BY <1>2, <1>5 DEF GrantSubscribe, RevokeSubscribe, PublishNumber, pumpVars, installVars
<1>6. ASSUME NEW e \in EventIds, PublishSend(e) PROVE StoppedFirst'
  BY <1>2, <1>6 DEF PublishSend, pumpVars, installVars
<1>7. ASSUME NEW i \in Installations, StopMark(i) \/ StopCancelToken(i) PROVE StoppedFirst'
  BY <1>1, <1>7 DEF StopMark, StopCancelToken, pumpVars, StoppedFirst, BusInv, Shapes
<1>8. ASSUME NEW l \in Links, ConsumerStep(l) PROVE StoppedFirst'
  BY <1>2, <1>8 DEF ConsumerStep, ConsumerRecv, ConsumerDeliver, ConsumerEnd, pumpVars,
                    installVars
<1>9. CASE UNCHANGED vars
  BY <1>2, <1>9 DEF vars, pumpVars, installVars
<1> QED BY <1>1, <1>3, <1>4, <1>5, <1>6, <1>7, <1>8, <1>9, Zenon DEF Next

(***************************************************************************)
(* A pump turns to its exit only after stop, and has then begun to offer   *)
(* every event accepted so far (run_pump's drain): what may be lost was    *)
(* sent, by a call that took its sender before stop, after that.           *)
(***************************************************************************)
THEOREM ExitComesAfterDrain == Spec => [][DrainsFirst]_vars
<1>1. Init => StoppedFirst
  BY DEF Init, StoppedFirst
<1>2. BusInv /\ KeptInv /\ StoppedFirst /\ StoppedFirst' /\ [Next]_vars => [DrainsFirst]_vars
  <2>1. SUFFICES ASSUME BusInv, KeptInv, StoppedFirst, StoppedFirst', [Next]_vars,
                        NEW i \in Installations, pump[i].pc # "exit", pump'[i].pc = "exit"
                 PROVE  /\ entry[i] = "stopped"
                        /\ \A e \in EventIds : Among(e, accepted[i]) => e \in fannedOut
    BY DEF DrainsFirst
  <2>2. PICK j \in Installations : PumpStep(j)
    <3>1. pump' # pump
      BY <2>1
    <3>2. \A e \in EventIds : ~ EnsureInstall(e)
      <4>1. SUFFICES ASSUME NEW e \in EventIds, EnsureInstall(e) PROVE FALSE
        OBVIOUS
      <4>2. Publisher(e) \in Installations
        BY <2>1, <4>1 DEF EnsureInstall, BusInv, CallsNumbered, Publisher
      <4>3. pump' = [pump EXCEPT ![Publisher(e)].pc = "select"]
        BY <3>1, <4>1 DEF EnsureInstall
      <4> QED BY <2>1, <4>2, <4>3 DEF BusInv, Shapes, PumpRecords
    <3>3. \A e \in EventIds : ~ PublishSend(e)
      BY <3>1 DEF PublishSend, pumpVars
    <3>4. \A s \in Installations, topic \in Topics :
            ~ (GrantSubscribe(s, topic) \/ RevokeSubscribe(s, topic) \/ PublishNumber(s, topic))
      BY <3>1 DEF GrantSubscribe, RevokeSubscribe, PublishNumber, pumpVars
    <3>5. \A k \in Installations : ~ (StopMark(k) \/ StopCancelToken(k))
      BY <3>1 DEF StopMark, StopCancelToken, pumpVars
    <3>6. \A l \in Links : ~ ConsumerStep(l)
      BY <3>1 DEF ConsumerStep, ConsumerRecv, ConsumerDeliver, ConsumerEnd, pumpVars
    <3>7. Next
      BY <2>1, <3>1 DEF vars, pumpVars
    <3> QED BY <3>2, <3>3, <3>4, <3>5, <3>6, <3>7, Zenon DEF Next
  <2>3. j = i
    BY <2>1, <2>2, PumpTurns
  <2>4. inbound[i] = <<>> /\ pump[i].batch = <<>> /\ entry'[i] = entry[i]
    BY <2>1, <2>2, <2>3, PumpTurns
  <2>5. entry[i] = "stopped"
    BY <2>1, <2>4 DEF StoppedFirst
  <2>6. pump[i].pc # "ended"
    BY <2>1, EndedPumps DEF EndedStays
  <2> QED BY <2>1, <2>4, <2>5, <2>6, AmongNone DEF KeptInv, EventsAreKept, OnItsWay
<1> QED BY <1>1, <1>2, StoppedNext, KeptAlways, BusAlways, PTL DEF Spec
=============================================================================

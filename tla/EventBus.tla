------------------------------- MODULE EventBus -------------------------------
(***************************************************************************)
(* The typed event bus of crates/application/src/event.rs.                 *)
(*                                                                         *)
(* An installation that publishes has a bounded inbound channel and a pump *)
(* task, which takes events out in batches and offers each to the current  *)
(* subscribers.  A subscriber has, per publisher, a bounded delivery       *)
(* channel, a count of the events dropped because it was full, and a       *)
(* consumer task that calls the guest's handler.                           *)
(*                                                                         *)
(* publish takes a clone of the sender under the mutex and sends after it  *)
(* has released the mutex; stop closes the inbound channel under the mutex *)
(* and cancels the token afterwards.                                       *)
(***************************************************************************)
EXTENDS Integers, Sequences, FiniteSets, Functions

CONSTANTS Installations,          \* publishers and subscribers
          Topics,
          MayPublish,             \* the publish grants, pairs <<installation, topic>>
          MaySubscribe,           \* the subscriptions administrators grant and revoke
          MaxEvents,              \* bound: publish calls that are given an event id
          InboundQueueCapacity,   \* EventLimits.inbound_queue_capacity
          DeliveryQueueCapacity   \* EventLimits.delivery_queue_capacity

EventIds == 1..MaxEvents
Links == Installations \X Installations   \* <<publisher, subscriber>>

ASSUME CapacitiesAssumption ==
  /\ MaxEvents \in Nat
  /\ InboundQueueCapacity \in Nat \ {0}
  /\ DeliveryQueueCapacity \in Nat \ {0}

ASSUME GrantsAssumption ==
  /\ MayPublish \subseteq Installations \X Topics
  /\ MaySubscribe \subseteq Installations \X Topics

VARIABLES
  subscribed,   \* InProcessEventPolicy.subscribe, by topic
  nextEventId,  \* Inner.next_event_id
  call,         \* the publish call that was given this event id
  entry,        \* the installation in SharedState.installs; "stopped" has no sender
  cancelled,    \* InstallEventState.token
  inbound,      \* the inbound channel
  pump,         \* the pump task: where it is and its locals
  link,         \* InstallEventState.subscribers: the sender and its dropped count
  delivery,     \* the delivery channel
  consumer,     \* the consumer task of the delivery channel
  hand,         \* the event the consumer has received and not yet handled
  accepted,     \* events whose publish returned ok, in that order (observation only)
  mayReach,     \* subscribers since the event was accepted (observation only)
  fannedOut,    \* events whose fan-out has begun (observation only)
  offered,      \* events offered to the link, in order (observation only)
  handled       \* what the handler was called with, in order (observation only)

policyVars   == <<subscribed, mayReach>>
publishVars  == <<nextEventId, call, accepted>>
installVars  == <<entry, cancelled>>
linkVars     == <<link, delivery, offered>>
consumerVars == <<consumer, hand, handled>>
pumpVars     == <<pump, fannedOut>>
vars == <<policyVars, publishVars, installVars, inbound, pumpVars, linkVars, consumerVars>>

NoInstallation == "none"
NoTopic == "no topic"
NoEvent == [event |-> 0, dropped |-> 0]

Publisher(e) == call[e].inst
Topic(e) == call[e].topic

-----------------------------------------------------------------------------
(* The administrator changes the policy (InProcessEventPolicy). *)

GrantSubscribe(s, topic) ==
  /\ <<s, topic>> \in MaySubscribe
  /\ s \notin subscribed[topic]
  /\ subscribed' = [subscribed EXCEPT ![topic] = @ \cup {s}]
  /\ mayReach' = [e \in EventIds |->
                    IF call[e].pc = "accepted" /\ Topic(e) = topic
                    THEN mayReach[e] \cup {s} ELSE mayReach[e]]
  /\ UNCHANGED <<publishVars, installVars, inbound, pumpVars, linkVars, consumerVars>>

RevokeSubscribe(s, topic) ==
  /\ s \in subscribed[topic]
  /\ subscribed' = [subscribed EXCEPT ![topic] = @ \ {s}]
  /\ UNCHANGED <<mayReach, publishVars, installVars, inbound, pumpVars, linkVars,
                 consumerVars>>

-----------------------------------------------------------------------------
(* Callers. *)

\* publish, up to the event id.  A call without a grant is denied here and
\* changes nothing.
PublishNumber(i, topic) ==
  /\ nextEventId \in EventIds
  /\ <<i, topic>> \in MayPublish
  /\ nextEventId' = nextEventId + 1
  /\ call' = [call EXCEPT ![nextEventId] = [pc |-> "numbered", inst |-> i, topic |-> topic]]
  /\ UNCHANGED <<policyVars, accepted, installVars, inbound, pumpVars, linkVars,
                 consumerVars>>

\* ensure_install: the call gets a clone of the inbound sender; the first call
\* creates the channel and spawns the pump.
EnsureInstall(e) ==
  LET i == Publisher(e) IN
  /\ call[e].pc = "numbered"
  /\ \/ /\ entry[i] = "absent"
        /\ entry' = [entry EXCEPT ![i] = "open"]
        /\ pump' = [pump EXCEPT ![i].pc = "select"]
        /\ call' = [call EXCEPT ![e].pc = "holding"]
     \/ /\ entry[i] = "open"
        /\ call' = [call EXCEPT ![e].pc = "holding"]
        /\ UNCHANGED <<entry, pump>>
     \/ /\ entry[i] = "stopped"
        /\ call' = [call EXCEPT ![e].pc = "refused"]
        /\ UNCHANGED <<entry, pump>>
  /\ UNCHANGED <<policyVars, nextEventId, accepted, cancelled, inbound, fannedOut,
                 linkVars, consumerVars>>

InboundRoom(i) == Len(inbound[i]) < InboundQueueCapacity

\* The receiver is dropped when run_pump returns.
ReceiverAlive(i) == pump[i].pc # "ended"

\* try_send on the cloned sender: ok, or over-budget, or not-ready.
PublishSend(e) ==
  LET i == Publisher(e) IN
  /\ call[e].pc = "holding"
  /\ IF ReceiverAlive(i) /\ InboundRoom(i)
     THEN /\ inbound' = [inbound EXCEPT ![i] = Append(@, e)]
          /\ call' = [call EXCEPT ![e].pc = "accepted"]
          /\ accepted' = [accepted EXCEPT ![i] = Append(@, e)]
          /\ mayReach' = [mayReach EXCEPT ![e] = subscribed[Topic(e)]]
     ELSE /\ call' = [call EXCEPT ![e].pc = "refused"]
          /\ UNCHANGED <<inbound, accepted, mayReach>>
  /\ UNCHANGED <<subscribed, nextEventId, installVars, pumpVars, linkVars, consumerVars>>

\* stop, first half, under the mutex; an installation that never published is
\* recorded as stopped too.
StopMark(i) ==
  /\ entry[i] # "stopped"
  /\ entry' = [entry EXCEPT ![i] = "stopped"]
  /\ UNCHANGED <<policyVars, publishVars, cancelled, inbound, pumpVars, linkVars,
                 consumerVars>>

\* stop, second half: the token.
StopCancelToken(i) ==
  /\ entry[i] = "stopped"
  /\ ~cancelled[i]
  /\ cancelled' = [cancelled EXCEPT ![i] = TRUE]
  /\ UNCHANGED <<policyVars, publishVars, entry, inbound, pumpVars, linkVars, consumerVars>>

-----------------------------------------------------------------------------
(* The pump task (run_pump, fan_out). *)

PumpGoes(i, pc, batch) == pump' = [pump EXCEPT ![i].pc = pc, ![i].batch = batch]

ExitAtOnce == "exit"

\* A pump that sees the token drains the inbound channel.
AfterToken == "drain"

\* The select's cancelled branch; the recv branch may be ready too.
PumpCancelled(i) ==
  /\ pump[i].pc = "select"
  /\ cancelled[i]
  /\ PumpGoes(i, AfterToken, <<>>)
  /\ UNCHANGED <<policyVars, publishVars, installVars, fannedOut, inbound, linkVars, consumerVars>>

\* The select's recv branch: the first event of a batch.
PumpRecv(i) ==
  /\ pump[i].pc = "select"
  /\ inbound[i] # <<>>
  /\ inbound' = [inbound EXCEPT ![i] = Tail(@)]
  /\ PumpGoes(i, "collect", <<Head(inbound[i])>>)
  /\ UNCHANGED <<policyVars, publishVars, installVars, fannedOut, linkVars, consumerVars>>

SendersGone(i) ==
  /\ entry[i] = "stopped"
  /\ \A e \in EventIds : Publisher(e) = i => call[e].pc # "holding"

\* The recv branch yields None.
PumpClosed(i) ==
  /\ pump[i].pc = "select"
  /\ inbound[i] = <<>>
  /\ SendersGone(i)
  /\ PumpGoes(i, "exit", <<>>)
  /\ UNCHANGED <<policyVars, publishVars, installVars, fannedOut, inbound, linkVars, consumerVars>>

PutInFront(batch, e) == <<e>> \o batch

AddToBatch(batch, e) == Append(batch, e)

\* while let Ok(more) = try_recv: the batch grows until the channel is empty.
PumpCollect(i) ==
  /\ pump[i].pc = "collect"
  /\ IF inbound[i] # <<>>
     THEN /\ inbound' = [inbound EXCEPT ![i] = Tail(@)]
          /\ PumpGoes(i, "collect", AddToBatch(pump[i].batch, Head(inbound[i])))
     ELSE /\ PumpGoes(i, "batch", pump[i].batch)
          /\ UNCHANGED inbound
  /\ UNCHANGED <<policyVars, publishVars, installVars, fannedOut, linkVars, consumerVars>>

\* Draining after the token: one event at a time until the channel is empty.
PumpDrain(i) ==
  /\ pump[i].pc = "drain"
  /\ pump[i].batch = <<>>
  /\ IF inbound[i] # <<>>
     THEN /\ inbound' = [inbound EXCEPT ![i] = Tail(@)]
          /\ PumpGoes(i, "drain", <<Head(inbound[i])>>)
     ELSE /\ PumpGoes(i, "exit", <<>>)
          /\ UNCHANGED inbound
  /\ UNCHANGED <<policyVars, publishVars, installVars, fannedOut, linkVars, consumerVars>>

\* The batch is done: look at the token before the next select.
PumpBatchDone(i) ==
  /\ pump[i].pc = "batch"
  /\ pump[i].batch = <<>>
  /\ PumpGoes(i, IF cancelled[i] THEN AfterToken ELSE "select", <<>>)
  /\ UNCHANGED <<policyVars, publishVars, installVars, fannedOut, inbound, linkVars, consumerVars>>

\* policy.subscribers: the subscribers at this moment.
Audience(i, e) == subscribed[Topic(e)]

\* fan_out reads the policy, without the mutex.
FanOutSnapshot(i) ==
  /\ pump[i].pc \in {"batch", "drain"}
  /\ pump[i].batch # <<>>
  /\ ~pump[i].fanning
  /\ pump' = [pump EXCEPT ![i].fanning = TRUE,
                          ![i].pending = Audience(i, Head(pump[i].batch))]
  /\ fannedOut' = fannedOut \cup {Head(pump[i].batch)}
  /\ UNCHANGED <<policyVars, publishVars, installVars, inbound, linkVars, consumerVars>>

DeliveryRoomForOneMore(l) == Len(delivery[l]) <= DeliveryQueueCapacity

DeliveryRoom(l) == Len(delivery[l]) < DeliveryQueueCapacity

KeepsCounting(l) == link[l].dropped

\* The dropped count after an event was accepted by the delivery channel.
AfterDelivery(l) == 0

\* One turn of fan_out's loop, under the mutex: the first event for a
\* subscriber spawns its channel and consumer; a full channel drops the event.
FanOutOffer(i, s) ==
  LET l == <<i, s>>
      e == Head(pump[i].batch)
  IN
  /\ pump[i].fanning
  /\ s \in pump[i].pending
  /\ pump' = [pump EXCEPT ![i].pending = @ \ {s}]
  /\ offered' = [offered EXCEPT ![l] = Append(@, e)]
  /\ consumer' = IF link[l].sender THEN consumer ELSE [consumer EXCEPT ![l] = "recv"]
  /\ IF DeliveryRoom(l)
     THEN /\ delivery' = [delivery EXCEPT ![l] =
                            Append(@, [event |-> e, dropped |-> link[l].dropped])]
          /\ link' = [link EXCEPT ![l] = [sender |-> TRUE, dropped |-> AfterDelivery(l)]]
     ELSE /\ link' = [link EXCEPT ![l] = [sender |-> TRUE, dropped |-> @.dropped + 1]]
          /\ UNCHANGED delivery
  /\ UNCHANGED <<policyVars, publishVars, installVars, fannedOut, inbound, hand, handled>>

\* The end of fan_out.
FanOutDone(i) ==
  /\ pump[i].fanning
  /\ pump[i].pending = {}
  /\ pump' = [pump EXCEPT ![i].fanning = FALSE, ![i].batch = Tail(@)]
  /\ UNCHANGED <<policyVars, publishVars, installVars, fannedOut, inbound, linkVars, consumerVars>>

LinksLeftOpen(i) == link

\* subscribers.clear() drops the delivery senders of the publisher.
LinksClosed(i) ==
  [l \in Links |-> IF l[1] = i THEN [sender |-> FALSE, dropped |-> 0] ELSE link[l]]

\* The exit path: drop the delivery senders, then, on return, the receiver
\* with whatever was sent to it since the drain.
PumpExit(i) ==
  /\ pump[i].pc = "exit"
  /\ link' = LinksClosed(i)
  /\ inbound' = [inbound EXCEPT ![i] = <<>>]
  /\ PumpGoes(i, "ended", <<>>)
  /\ UNCHANGED <<policyVars, publishVars, installVars, fannedOut, delivery, offered, consumerVars>>

PumpStep(i) ==
  \/ PumpCancelled(i) \/ PumpRecv(i) \/ PumpClosed(i) \/ PumpCollect(i)
  \/ PumpDrain(i) \/ PumpBatchDone(i) \/ FanOutSnapshot(i)
  \/ \E s \in Installations : FanOutOffer(i, s)
  \/ FanOutDone(i) \/ PumpExit(i)

-----------------------------------------------------------------------------
(* The consumer task of a delivery channel (run_consumer). *)

ConsumerRecv(l) ==
  /\ consumer[l] = "recv"
  /\ delivery[l] # <<>>
  /\ hand' = [hand EXCEPT ![l] = Head(delivery[l])]
  /\ delivery' = [delivery EXCEPT ![l] = Tail(@)]
  /\ consumer' = [consumer EXCEPT ![l] = "deliver"]
  /\ UNCHANGED <<policyVars, publishVars, installVars, inbound, pumpVars, link, offered, handled>>

\* on_event returned or trapped; either way the event is consumed.
ConsumerDeliver(l) ==
  /\ consumer[l] = "deliver"
  /\ handled' = [handled EXCEPT ![l] = Append(@, hand[l])]
  /\ hand' = [hand EXCEPT ![l] = NoEvent]
  /\ consumer' = [consumer EXCEPT ![l] = "recv"]
  /\ UNCHANGED <<policyVars, publishVars, installVars, inbound, pumpVars, linkVars>>

\* recv returns None.
Exhausted(l) == delivery[l] = <<>> /\ ~link[l].sender

ConsumerEnd(l) ==
  /\ consumer[l] = "recv"
  /\ Exhausted(l)
  /\ consumer' = [consumer EXCEPT ![l] = "ended"]
  /\ UNCHANGED <<policyVars, publishVars, installVars, inbound, pumpVars, linkVars, hand, handled>>

ConsumerStep(l) == ConsumerRecv(l) \/ ConsumerDeliver(l) \/ ConsumerEnd(l)

-----------------------------------------------------------------------------
Init ==
  /\ subscribed = [topic \in Topics |-> {}]
  /\ nextEventId = 1
  /\ call = [e \in EventIds |-> [pc |-> "idle", inst |-> NoInstallation, topic |-> NoTopic]]
  /\ entry = [i \in Installations |-> "absent"]
  /\ cancelled = [i \in Installations |-> FALSE]
  /\ inbound = [i \in Installations |-> <<>>]
  /\ pump = [i \in Installations |->
               [pc |-> "none", batch |-> <<>>, fanning |-> FALSE, pending |-> {}]]
  /\ link = [l \in Links |-> [sender |-> FALSE, dropped |-> 0]]
  /\ delivery = [l \in Links |-> <<>>]
  /\ consumer = [l \in Links |-> "none"]
  /\ hand = [l \in Links |-> NoEvent]
  /\ accepted = [i \in Installations |-> <<>>]
  /\ mayReach = [e \in EventIds |-> {}]
  /\ fannedOut = {}
  /\ offered = [l \in Links |-> <<>>]
  /\ handled = [l \in Links |-> <<>>]

Next ==
  \/ \E s \in Installations, topic \in Topics :
       \/ GrantSubscribe(s, topic) \/ RevokeSubscribe(s, topic)
       \/ PublishNumber(s, topic)
  \/ \E e \in EventIds : EnsureInstall(e) \/ PublishSend(e)
  \/ \E i \in Installations : StopMark(i) \/ StopCancelToken(i) \/ PumpStep(i)
  \/ \E l \in Links : ConsumerStep(l)

Spec == Init /\ [][Next]_vars

\* Spawned tasks and calls that have begun are run to their end.
Fairness ==
  /\ \A e \in EventIds : WF_vars(EnsureInstall(e)) /\ WF_vars(PublishSend(e))
  /\ \A i \in Installations : WF_vars(StopCancelToken(i)) /\ WF_vars(PumpStep(i))
  /\ \A l \in Links : WF_vars(ConsumerStep(l))

FairSpec == Spec /\ Fairness

-----------------------------------------------------------------------------
(* What the bus promises. *)

DeliveredEvents == [event : EventIds, dropped : Nat]

\* The shape of every variable, with both kinds of channel within their limits.
TypeOK ==
  /\ subscribed \in [Topics -> SUBSET Installations]
  /\ nextEventId \in 1..(MaxEvents + 1)
  /\ call \in [EventIds -> [pc : {"idle", "numbered", "holding", "accepted", "refused"},
                            inst : Installations \cup {NoInstallation},
                            topic : Topics \cup {NoTopic}]]
  /\ entry \in [Installations -> {"absent", "open", "stopped"}]
  /\ cancelled \in [Installations -> BOOLEAN]
  /\ inbound \in [Installations -> Seq(EventIds)]
  /\ \A i \in Installations : Len(inbound[i]) <= InboundQueueCapacity
  /\ pump \in [Installations ->
                 [pc : {"none", "select", "collect", "batch", "drain", "exit", "ended"},
                  batch : Seq(EventIds), fanning : BOOLEAN, pending : SUBSET Installations]]
  /\ link \in [Links -> [sender : BOOLEAN, dropped : Nat]]
  /\ delivery \in [Links -> Seq(DeliveredEvents)]
  /\ \A l \in Links : Len(delivery[l]) <= DeliveryQueueCapacity
  /\ consumer \in [Links -> {"none", "recv", "deliver", "ended"}]
  /\ hand \in [Links -> DeliveredEvents \cup {NoEvent}]
  /\ accepted \in [Installations -> Seq(EventIds)]
  /\ mayReach \in [EventIds -> SUBSET Installations]
  /\ fannedOut \subseteq EventIds
  /\ offered \in [Links -> Seq(EventIds)]
  /\ handled \in [Links -> Seq(DeliveredEvents)]

\* Everything the link's delivery channel ever accepted, in order.
Stream(l) ==
  handled[l] \o (IF consumer[l] = "deliver" THEN <<hand[l]>> ELSE <<>>) \o delivery[l]

\* How many offers the first k deliveries of the stream speak for: themselves
\* and the drops they report.
Covered(stream) ==
  LET upTo[k \in 0..Len(stream)] ==
        IF k = 0 THEN 0 ELSE upTo[k - 1] + stream[k].dropped + 1
  IN upTo

\* A subscriber can tell from the counts exactly which events it missed: each
\* delivery comes after as many dropped offers as it says, and the count in the
\* table is that of the offers dropped since the last delivery.
EveryDropReported ==
  \A l \in Links :
    LET stream == Stream(l)
        upTo == Covered(stream)
    IN /\ \A k \in 1..Len(stream) :
            /\ upTo[k] <= Len(offered[l])
            /\ offered[l][upTo[k]] = stream[k].event
       /\ link[l].sender => Len(offered[l]) = upTo[Len(stream)] + link[l].dropped

Position(seq, e) == CHOOSE k \in DOMAIN seq : seq[k] = e

\* A link is offered the events in the order in which their publish calls were
\* accepted, each at most once: with EveryDropReported, delivery is in order
\* and at most once (event.wit:26-34).  And an event reaches only those who were
\* subscribed at some time since it was accepted: a revoked subscription ends
\* delivery of what is published later.
OfferedInOrder ==
  \A l \in Links :
    /\ \A j, k \in DOMAIN offered[l] :
         j < k => Position(accepted[l[1]], offered[l][j]) < Position(accepted[l[1]], offered[l][k])
    /\ \A k \in DOMAIN offered[l] : l[2] \in mayReach[offered[l][k]]

\* An event that is in the inbound channel before stop is offered to its
\* subscribers, however stop and further publishers interleave with the pump.
PublishedBeforeStopIsOffered ==
  \A i \in Installations, e \in EventIds :
    (e \in Range(inbound[i]) /\ entry[i] = "open") ~> e \in fannedOut

\* stop ends the pump and every consumer it feeds.
StopEndsTasks ==
  \A i \in Installations :
    entry[i] = "stopped"
      ~> /\ pump[i].pc \in {"none", "ended"}
         /\ \A l \in Links : l[1] = i => consumer[l] \in {"none", "ended"}

=============================================================================

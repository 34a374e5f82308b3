------------------------------ MODULE InstanceSet ------------------------------
(***************************************************************************)
(* The bounded instance set of one active component version                *)
(* (crates/runtime-wasm/src/instance.rs) and the drain that closes it      *)
(* (crates/application/src/runtime.rs, WasmtimeActiveRuntime).             *)
(*                                                                         *)
(* Threads take a slot in three ways: `dispatch' queues on a condition     *)
(* variable, `try_dispatch' (asset and manifest reads, readiness checks)   *)
(* gives up at once, and a delivery (action, route, fire, event) is a      *)
(* try_dispatch under an InFlightGuard, the counter drain looks at.        *)
(*                                                                         *)
(* A slot is released under the mutex and wakes one waiter.  The waiter    *)
(* re-acquires the mutex, leaves the queue, lets go of the mutex and       *)
(* begins again: a newcomer may take the slot in between.                  *)
(***************************************************************************)
EXTENDS Integers, FiniteSets

CONSTANTS Threads,
          MaxConcurrent, \* ResourceBudget.max_concurrent
          MaxQueued,     \* ResourceBudget.max_queued
          CounterSize    \* AtomicUsize wraps at this value

ASSUME ThreadsAssumption == IsFiniteSet(Threads)
ASSUME BoundsAssumption ==
  /\ MaxConcurrent \in Nat \ {0}
  /\ MaxQueued \in Nat \ {0}
  /\ CounterSize \in Nat \ {0}

VARIABLES
  busy,      \* SetState.slots: the slots marked busy
  waiting,   \* SetState.waiting
  closed,    \* SetState.closed
  pc,        \* where each thread is
  lease,     \* the slot of the lease each thread holds
  inFlight,  \* WasmtimeActiveRuntime.in_flight
  drain      \* the thread that drains the runtime

setVars == <<busy, waiting, closed>>
vars == <<setVars, pc, lease, inFlight, drain>>

Slots == 1..MaxConcurrent
NoSlot == 0

\* "queueing" is the top of the loop of dispatch, "asleep" its gate.wait, and
\* "woken" a thread that was notified and wants the mutex back.  "leaving" is
\* a delivery whose guard is still to be dropped.
Places == {"idle", "queueing", "asleep", "woken", "leased", "delivery", "delivering", "leaving"}

Free == Slots \ busy
At(place) == {t \in Threads : pc[t] = place}
Holders == {t \in Threads : lease[t] # NoSlot}

-----------------------------------------------------------------------------
(* Taking a slot. *)

FirstSlot == CHOOSE s \in Slots : \A r \in Slots : s <= r

\* first_free_index
FirstFree == CHOOSE s \in Free : \A r \in Free : s <= r

TakeUnchecked(t, place) ==
  /\ Free # {}
  /\ busy' = busy \cup {FirstFree}
  /\ lease' = [lease EXCEPT ![t] = FirstFree]
  /\ pc' = [pc EXCEPT ![t] = place]
  /\ UNCHANGED <<waiting, closed, inFlight, drain>>

\* What dispatch and try_dispatch do when a slot is free.
Take(t, place) ==
  /\ ~closed
  /\ Free # {}
  /\ busy' = busy \cup {FirstFree}
  /\ lease' = [lease EXCEPT ![t] = FirstFree]
  /\ pc' = [pc EXCEPT ![t] = place]
  /\ UNCHANGED <<waiting, closed, inFlight, drain>>

Begin(t, place) ==
  /\ pc[t] = "idle"
  /\ pc' = [pc EXCEPT ![t] = place]
  /\ UNCHANGED <<setVars, lease, inFlight, drain>>

BeginDispatch(t) == Begin(t, "queueing")

\* A delivery creates its InFlightGuard first, which does not touch the counter.
BeginDelivery(t) == Begin(t, "delivery")

DispatchTakes(t) == pc[t] = "queueing" /\ Take(t, "leased")

DispatchSleeps(t) ==
  /\ pc[t] = "queueing"
  /\ ~closed
  /\ Free = {}
  /\ waiting < MaxQueued
  /\ waiting' = waiting + 1
  /\ pc' = [pc EXCEPT ![t] = "asleep"]
  /\ UNCHANGED <<busy, closed, lease, inFlight, drain>>

\* Closed or QueueFull; a waiter that was overtaken may get the latter.
DispatchRefused(t) ==
  /\ pc[t] = "queueing"
  /\ closed \/ (Free = {} /\ waiting >= MaxQueued)
  /\ pc' = [pc EXCEPT ![t] = "idle"]
  /\ UNCHANGED <<setVars, lease, inFlight, drain>>

\* A condition variable may wake a thread that nobody notified.
SpuriousWakeup(t) ==
  /\ pc[t] = "asleep"
  /\ pc' = [pc EXCEPT ![t] = "woken"]
  /\ UNCHANGED <<setVars, lease, inFlight, drain>>

\* gate.wait returns with the mutex; the loop begins again without it.
LeaveQueue(t) ==
  /\ pc[t] = "woken"
  /\ waiting' = waiting - 1
  /\ pc' = [pc EXCEPT ![t] = "queueing"]
  /\ UNCHANGED <<busy, closed, lease, inFlight, drain>>

\* A read or a readiness check: try_dispatch without a guard.
TryTakes(t) ==
  /\ pc[t] = "idle"
  /\ Take(t, "leased")

DeliveryTakes(t) == pc[t] = "delivery" /\ Take(t, "delivering")

\* Busy: the delivery fails and its guard is dropped all the same.
DeliveryRefused(t) ==
  /\ pc[t] = "delivery"
  /\ closed \/ Free = {}
  /\ pc' = [pc EXCEPT ![t] = "leaving"]
  /\ UNCHANGED <<setVars, lease, inFlight, drain>>

-----------------------------------------------------------------------------
(* Giving it back. *)

WakesNobody(where) == where

NotifyAll(where) == [t \in Threads |-> IF where[t] = "asleep" THEN "woken" ELSE where[t]]

NotifiesNobody(where) == {where}

\* notify_one: some waiter, if there is one.
NotifyOne(where) ==
  IF \E t \in Threads : where[t] = "asleep"
  THEN {[where EXCEPT ![t] = "woken"] : t \in {u \in Threads : where[u] = "asleep"}}
  ELSE {where}

\* The drop of an InstanceLease.
Release(t) ==
  /\ lease[t] # NoSlot
  /\ busy' = busy \ {lease[t]}
  /\ lease' = [lease EXCEPT ![t] = NoSlot]
  /\ pc' \in NotifyOne([pc EXCEPT ![t] = IF pc[t] = "delivering" THEN "leaving" ELSE "idle"])
  /\ UNCHANGED <<waiting, closed, inFlight, drain>>

\* The drop of an InFlightGuard.
DropGuard(t) ==
  /\ pc[t] = "leaving"
  /\ inFlight' = (inFlight - 1) % CounterSize
  /\ pc' = [pc EXCEPT ![t] = "idle"]
  /\ UNCHANGED <<setVars, lease, drain>>

-----------------------------------------------------------------------------
(* Drain. *)

\* InstanceSet::close; a second drain closes again.
DrainCloses ==
  /\ drain # "waiting"
  /\ closed' = TRUE
  /\ pc' = NotifyAll(pc)
  /\ drain' = "waiting"
  /\ UNCHANGED <<busy, waiting, lease, inFlight>>

DrainSeesNoCall ==
  /\ drain = "waiting"
  /\ inFlight = 0
  /\ drain' = "done"
  /\ UNCHANGED <<setVars, pc, lease, inFlight>>

\* The deadline passed while the counter was not zero.
DrainGivesUp ==
  /\ drain = "waiting"
  /\ inFlight # 0
  /\ drain' = "expired"
  /\ UNCHANGED <<setVars, pc, lease, inFlight>>

-----------------------------------------------------------------------------
Init ==
  /\ busy = {}
  /\ waiting = 0
  /\ closed = FALSE
  /\ pc = [t \in Threads |-> "idle"]
  /\ lease = [t \in Threads |-> NoSlot]
  /\ inFlight = 0
  /\ drain = "none"

Dispatches(t) == DispatchTakes(t) \/ DispatchSleeps(t) \/ DispatchRefused(t) \/ LeaveQueue(t)
Delivers(t) == DeliveryTakes(t) \/ DeliveryRefused(t) \/ DropGuard(t)
Drains == DrainSeesNoCall \/ DrainGivesUp

Next ==
  \/ \E t \in Threads :
       \/ BeginDispatch(t) \/ BeginDelivery(t) \/ TryTakes(t)
       \/ Dispatches(t) \/ SpuriousWakeup(t)
       \/ Delivers(t) \/ Release(t)
  \/ DrainCloses
  \/ Drains

Spec == Init /\ [][Next]_vars

\* A thread that wants the mutex gets it in the end: it is held for a few
\* instructions only.  Nothing is assumed of who gets a slot or is woken, of wake-ups
\* without a notification, of new calls, of the end of a call, or of drain being asked
\* for.
Fairness ==
  /\ \A t \in Threads : WF_vars(Dispatches(t)) /\ WF_vars(Delivers(t))
  /\ WF_vars(Drains)

FairSpec == Spec /\ Fairness

-----------------------------------------------------------------------------
TypeOK ==
  /\ busy \subseteq Slots
  /\ waiting \in Nat
  /\ closed \in BOOLEAN
  /\ pc \in [Threads -> Places]
  /\ lease \in [Threads -> Slots \cup {NoSlot}]
  /\ inFlight \in 0..(CounterSize - 1)
  /\ drain \in {"none", "waiting", "done", "expired"}

\* A busy slot has exactly one holder and a free slot none: at most one call
\* runs in an instance, and no slot is lost (InstanceLease, release).
OneCallPerSlot ==
  /\ busy = {lease[t] : t \in Holders}
  /\ \A t, u \in Holders : lease[t] = lease[u] => t = u
  /\ \A t \in Threads : lease[t] # NoSlot <=> pc[t] \in {"leased", "delivering"}

\* The queue counts the threads in gate.wait, never more than max_queued; after
\* close nobody sleeps; and while somebody sleeps every free slot has a thread
\* on its way to it: no wake-up of release is lost (dispatch, release, close).
NoLostWakeup ==
  /\ waiting = Cardinality(At("asleep") \cup At("woken"))
  /\ waiting <= MaxQueued
  /\ closed => At("asleep") = {}
  /\ At("asleep") # {} => Cardinality(Free) <= Cardinality(At("woken") \cup At("queueing"))

\* From close on no lease is handed out, whichever way it is asked for, also to
\* a thread that was queued before (dispatch, try_dispatch, close).
ClosedGrantsNothing == [][closed => closed' /\ busy' \subseteq busy]_vars

Waiting(t) == pc[t] \in {"queueing", "asleep", "woken"}

\* A thread that was outside the set asks for a slot.
Arrives(t) == pc[t] = "idle" /\ pc'[t] # "idle"

\* No call lasts for ever, which a deadline of the guest sees to.
CallsEnd == \A t \in Threads : []<>(lease[t] = NoSlot)

\* A waiter can be overtaken by newcomers for ever: nothing hands a slot to whoever
\* was woken for it.  What dispatch and release do achieve is that a free slot does not
\* stay beside sleepers, however many calls come, and that a wait without end takes
\* newcomers without end: when nobody arrives any more and the calls that run end,
\* everyone waiting gets a lease or an error.
WaitsEnd ==
  /\ At("asleep") # {} ~> (Free = {} \/ At("asleep") = {})
  /\ CallsEnd /\ <>[][\A t \in Threads : ~Arrives(t)]_vars
     => \A t \in Threads : Waiting(t) ~> ~Waiting(t)

\* close ends every wait, however many calls still come and however long those last
\* that run: nobody is left asleep for a lease to come back, and newcomers are refused
\* as those who waited are.  And drain comes back, by its deadline when the counter
\* does not reach zero (dispatch, close, drain).
CloseEndsWaits ==
  /\ \A t \in Threads : closed /\ Waiting(t) ~> ~Waiting(t)
  /\ drain = "waiting" ~> drain # "waiting"

\* What drain promises (runtime.rs, "已接受工作允许在有界 deadline 内完成"): when it returns
\* before its deadline, no delivery it had accepted is still running.
DrainWaitsForDeliveries == drain = "done" => At("delivering") = {}
=============================================================================

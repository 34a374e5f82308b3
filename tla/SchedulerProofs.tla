--------------------------- MODULE SchedulerProofs ---------------------------
(***************************************************************************)
(* Proofs about Scheduler for every number of installations, calls and     *)
(* triggers, every limit and every history of the clock: its types, the    *)
(* account of its fires, their grid and the finality of stop; that it      *)
(* implements FireLedger; the order in which fires are handled; and that   *)
(* no wake-up of a driver is lost.                                         *)
(***************************************************************************)
EXTENDS Scheduler, TLAPS

(* How calls, entries and drivers are tied together.                       *)
WellFormed ==
  /\ \A t \in TaskIds : call[t].pc # "idle" =>
       /\ Owner(t) \in Installations
       /\ Trigger(t) \in Triggers
       /\ Trigger(t).kind = "periodic" => Trigger(t).interval \in Nat \ {0}
  /\ \A t \in TaskIds : t >= nextTaskId => call[t].pc = "idle"
  /\ \A t \in TaskIds : task[t].state # "absent" => call[t].pc \in {"inserted", "returned"}
  /\ \A t \in TaskIds : task[t].state = "absent" => task[t] = NoEntry
  /\ \A t \in TaskIds : task[t].state = "scheduled" => task[t].next \in Nat
  /\ \A i \in Installations : driver[i].pc # "none" => driver[i].channel \in TaskIds
  /\ \A i \in Installations : driver[i].pc = "send" => ~stopped[i]

TypeInv == TypeOK /\ WellFormed

(***************************************************************************)
(* The number of due grid points (due_grid_points in scheduler.rs) is      *)
(* positive whenever the first one is due: a driver that finds the channel *)
(* full always moves the task forward.                                     *)
(***************************************************************************)
LEMMA DueGridPointsPositive ==
  ASSUME NEW next \in Nat, NEW when \in Nat, NEW interval \in Nat \ {0}, next <= when
  PROVE  DueGridPoints(next, when, interval) \in Nat \ {0}
BY DEF DueGridPoints

LEMMA SetCallPc ==
  ASSUME call \in [TaskIds -> Calls], NEW t \in TaskIds,
         NEW pc \in {"idle", "validated", "inserted", "returned", "refused"},
         call' = [call EXCEPT ![t].pc = pc]
  PROVE  /\ call' \in [TaskIds -> Calls]
         /\ call'[t].pc = pc
         /\ \A u \in TaskIds : /\ Owner(u)' = Owner(u) /\ Trigger(u)' = Trigger(u)
                               /\ u # t => call'[u] = call[u]
BY DEF Calls, Owner, Trigger

LEMMA TypeInit == Init => TypeInv
BY CountsAssumption, SMT DEF Init, TypeInv, TypeOK, WellFormed, Owner, Trigger, NoEntry, Entry, NoTask,
     Driver, Calls, Entries, Drivers, TaskIds, Payloads, NoPayload, NoFire

-----------------------------------------------------------------------------
(* Callers and the clock. *)

LEMMA TypeClock ==
  ASSUME TypeInv, Tick \/ SetClockBack
  PROVE  TypeInv'
<1>1. /\ now' \in 0..MaxTime
      /\ skew' \in 0..MaxSkew
      /\ UNCHANGED <<clockFailures, callVars, task, stopped, cancelled, wake,
                     driverVars, queue, consumer, consumerVars>>
  BY CountsAssumption DEF Tick, SetClockBack, TypeInv, TypeOK
<1>2. TypeOK'
  BY <1>1 DEF TypeInv, TypeOK, callVars, driverVars, consumerVars
<1>3. WellFormed'
  BY <1>1 DEF TypeInv, WellFormed, Owner, Trigger, callVars, driverVars
<1>4. QED
  BY <1>2, <1>3 DEF TypeInv

LEMMA TypeValidate ==
  ASSUME TypeInv, NEW i \in Installations, NEW tr \in Triggers, ScheduleValidate(i, tr)
  PROVE  TypeInv'
<1>1. TypeOK'
  BY CountsAssumption DEF ScheduleValidate, TypeInv, TypeOK, Calls, TaskIds,
     clockVars, callVars, driverVars, consumerVars
<1>2. tr.kind = "periodic" => tr.interval \in Nat \ {0}
  BY CountsAssumption, TriggersAssumption DEF ScheduleValidate, ValidTrigger, TriggerRecords
<1>3. call' = [call EXCEPT ![nextTaskId] =
                 [pc |-> "validated", inst |-> i, trigger |-> tr]]
  BY DEF ScheduleValidate
<1>4. WellFormed'
  BY <1>2, <1>3 DEF ScheduleValidate, TypeInv, TypeOK, WellFormed, Owner, Trigger, Calls,
     TaskIds, driverVars
<1>5. QED
  BY <1>1, <1>4 DEF TypeInv

LEMMA TypeInsert ==
  ASSUME TypeInv, NEW t \in TaskIds, ScheduleInsert(t)
  PROVE  TypeInv'
<1>1. /\ call \in [TaskIds -> Calls]
      /\ task \in [TaskIds -> Entries]
      /\ wake \in [Installations -> BOOLEAN]
  BY DEF TypeInv, TypeOK
<1>2. /\ call[t].pc = "validated"
      /\ UNCHANGED <<clockVars, nextTaskId, stopped, cancelled, driverVars, queue,
                     consumer, consumerVars>>
  BY DEF ScheduleInsert
<1>3. Owner(t) \in Installations /\ Trigger(t).at \in Nat
  BY <1>2, TriggersAssumption DEF TypeInv, WellFormed, TriggerRecords
<1>4. task[t].state = "absent"
  BY <1>1, <1>2 DEF TypeInv, WellFormed, Entries
<1>5. /\ FirstEntry(t) \in Entries
      /\ FirstEntry(t).state = "scheduled" /\ FirstEntry(t).next \in Nat
  BY <1>3 DEF FirstEntry, Entry, Entries
<1>6. wake' \in {wake, [wake EXCEPT ![Owner(t)] = TRUE]}
  BY Zenon DEF ScheduleInsert, WakeDriver
<1>7. wake' \in [Installations -> BOOLEAN]
  BY <1>1, <1>3, <1>6
<1>8. CASE task' = task /\ call' = [call EXCEPT ![t].pc = "refused"]
  <2>1. /\ call' \in [TaskIds -> Calls]
        /\ call'[t].pc = "refused"
        /\ \A u \in TaskIds : /\ Owner(u)' = Owner(u) /\ Trigger(u)' = Trigger(u)
                              /\ u # t => call'[u] = call[u]
    BY <1>1, <1>8, SetCallPc
  <2>2. TypeOK'
    BY <1>2, <1>7, <1>8, <2>1 DEF TypeInv, TypeOK, clockVars, driverVars, consumerVars
  <2>3. WellFormed'
    BY <1>2, <1>4, <1>8, <2>1 DEF TypeInv, WellFormed, driverVars
  <2>4. QED
    BY <2>2, <2>3 DEF TypeInv
<1>9. CASE /\ task' = [task EXCEPT ![t] = FirstEntry(t)]
           /\ call' = [call EXCEPT ![t].pc = "inserted"]
  <2>1. /\ call' \in [TaskIds -> Calls]
        /\ call'[t].pc = "inserted"
        /\ \A u \in TaskIds : /\ Owner(u)' = Owner(u) /\ Trigger(u)' = Trigger(u)
                              /\ u # t => call'[u] = call[u]
    BY <1>1, <1>9, SetCallPc
  <2>2. task' \in [TaskIds -> Entries]
    BY <1>1, <1>5, <1>9
  <2>3. TypeOK'
    BY <1>2, <1>7, <2>1, <2>2 DEF TypeInv, TypeOK, clockVars, driverVars, consumerVars
  <2>4. \A u \in TaskIds : task'[u] = IF u = t THEN FirstEntry(t) ELSE task[u]
    BY <1>1, <1>9
  <2>5. WellFormed'
    BY <1>2, <1>5, <2>1, <2>4 DEF TypeInv, WellFormed, driverVars
  <2>6. QED
    BY <2>3, <2>5 DEF TypeInv
<1>10. QED
  BY <1>8, <1>9, Zenon DEF ScheduleInsert

LEMMA TypeEnsure ==
  ASSUME TypeInv, NEW t \in TaskIds, EnsureDriver(t)
  PROVE  TypeInv'
<1>1. /\ call \in [TaskIds -> Calls]
      /\ wake \in [Installations -> BOOLEAN]
      /\ handle \in [Installations -> BOOLEAN]
      /\ driver \in [Installations -> Drivers]
      /\ sender \in [TaskIds -> BOOLEAN]
      /\ consumer \in [TaskIds -> {"none", "recv", "deliver", "ended"}]
  BY DEF TypeInv, TypeOK
<1>2. /\ call' = [call EXCEPT ![t].pc = "returned"]
      /\ call[t].pc = "inserted"
      /\ handle' \in {handle, [handle EXCEPT ![Owner(t)] = TRUE]}
      /\ driver' \in {driver, [driver EXCEPT ![Owner(t)] = Driver("scan", t, 0)]}
      /\ sender' \in {sender, [sender EXCEPT ![t] = TRUE]}
      /\ consumer' \in {consumer, [consumer EXCEPT ![t] = "recv"]}
      /\ wake' \in {wake, [wake EXCEPT ![Owner(t)] = FALSE]}
      /\ UNCHANGED <<clockVars, nextTaskId, task, stopped, cancelled, queue, consumerVars>>
  BY DEF EnsureDriver, driverVars
<1>3. Driver("scan", t, 0) \in Drivers
  BY DEF Driver, Drivers
<1>4. /\ handle' \in [Installations -> BOOLEAN]
      /\ driver' \in [Installations -> Drivers]
      /\ sender' \in [TaskIds -> BOOLEAN]
      /\ wake' \in [Installations -> BOOLEAN]
  <2>1. handle' \in [Installations -> BOOLEAN] /\ wake' \in [Installations -> BOOLEAN]
    BY <1>1, <1>2
  <2>2. driver' \in [Installations -> Drivers]
    BY <1>1, <1>2, <1>3
  <2>3. sender' \in [TaskIds -> BOOLEAN]
    BY <1>1, <1>2
  <2>4. QED
    BY <2>1, <2>2, <2>3
<1>5. /\ consumer' \in [TaskIds -> {"none", "recv", "deliver", "ended"}]
      /\ \A c \in TaskIds : consumer'[c] = "deliver" => consumer[c] = "deliver"
  <2>1. consumer' = consumer \/ consumer' = [consumer EXCEPT ![t] = "recv"]
    BY <1>2
  <2>2. QED
    BY <1>1, <2>1
<1>6. /\ call' \in [TaskIds -> Calls]
      /\ call'[t].pc = "returned"
      /\ \A u \in TaskIds : /\ Owner(u)' = Owner(u) /\ Trigger(u)' = Trigger(u)
                            /\ u # t => call'[u] = call[u]
  BY <1>1, <1>2, SetCallPc
<1>7. TypeOK'
  BY <1>2, <1>4, <1>5, <1>6 DEF TypeInv, TypeOK, clockVars, consumerVars
<1>8. \A i \in Installations :
         driver'[i] = driver[i] \/ driver'[i] = Driver("scan", t, 0)
  BY <1>1, <1>2
<1>9. WellFormed'
  BY <1>2, <1>6, <1>8 DEF TypeInv, WellFormed, Driver
<1>10. QED
  BY <1>7, <1>9 DEF TypeInv

\* The branches that move one installation's flags and leave its driver alone.
LEMMA TypeCancel ==
  ASSUME TypeInv, NEW t \in TaskIds, Cancel(t)
  PROVE  TypeInv'
<1>1. /\ task \in [TaskIds -> Entries]
      /\ wake \in [Installations -> BOOLEAN]
  BY DEF TypeInv, TypeOK
<1>2. /\ task[t].state = "scheduled"
      /\ task' = [task EXCEPT ![t] = Entry("cancelled", task[t].sequence, task[t].missed, NoFire)]
      /\ wake' = [wake EXCEPT ![Owner(t)] = TRUE]
      /\ UNCHANGED <<clockVars, callVars, stopped, cancelled, driverVars, queue,
                     consumer, consumerVars>>
  BY DEF Cancel, WakeDriver
<1>3. Entry("cancelled", task[t].sequence, task[t].missed, NoFire) \in Entries
  BY <1>1 DEF Entry, Entries
<1>4. task' \in [TaskIds -> Entries]
  BY <1>1, <1>2, <1>3
<1>5. wake' \in [Installations -> BOOLEAN]
  BY <1>1, <1>2
<1>6. TypeOK'
  BY <1>2, <1>4, <1>5 DEF TypeInv, TypeOK, clockVars, callVars, driverVars, consumerVars
<1>7. \A u \in TaskIds : u # t => task'[u] = task[u]
  BY <1>1, <1>2
<1>8. task'[t] = Entry("cancelled", task[t].sequence, task[t].missed, NoFire)
  BY <1>1, <1>2
<1>9. task'[t].state = "cancelled"
  BY <1>8 DEF Entry
<1>10. WellFormed'
  BY <1>2, <1>7, <1>9 DEF TypeInv, WellFormed, Owner, Trigger, callVars, driverVars
<1>11. QED
  BY <1>6, <1>10 DEF TypeInv

LEMMA TypeStop ==
  ASSUME TypeInv, NEW i \in Installations, StopMark(i) \/ StopCancelToken(i)
  PROVE  TypeInv'
<1>1. /\ stopped' \in {stopped, [stopped EXCEPT ![i] = TRUE]}
      /\ cancelled' \in {cancelled, [cancelled EXCEPT ![i] = TRUE]}
      /\ UNCHANGED <<clockVars, callVars, task, wake, driverVars, queue, consumer,
                     consumerVars>>
      /\ stopped' = stopped \/ LockFree
  BY DEF StopMark, StopCancelToken
<1>2. stopped' \in [Installations -> BOOLEAN] /\ cancelled' \in [Installations -> BOOLEAN]
  BY <1>1 DEF TypeInv, TypeOK
<1>3. TypeOK'
  BY <1>1, <1>2 DEF TypeInv, TypeOK, clockVars, callVars, driverVars, consumerVars
<1>4. WellFormed'
  BY <1>1 DEF TypeInv, WellFormed, LockFree, Owner, Trigger, callVars, driverVars
<1>5. QED
  BY <1>3, <1>4 DEF TypeInv

-----------------------------------------------------------------------------
(* The driver. *)

\* A step that moves only the driver keeps the invariant.
LEMMA DriverMoves ==
  ASSUME TypeInv, NEW i \in Installations, NEW d \in Drivers,
         driver' = [driver EXCEPT ![i] = d],
         d.pc # "none" => d.channel \in TaskIds,
         d.pc = "send" => ~stopped[i],
         clockFailures' \in 0..MaxClockFailures,
         wake' \in [Installations -> BOOLEAN],
         sender' \in [TaskIds -> BOOLEAN],
         handle' \in [Installations -> BOOLEAN],
         UNCHANGED <<now, skew, callVars, task, stopped, cancelled, queue, consumer,
                     consumerVars>>
  PROVE  TypeInv'
<1>1. driver' \in [Installations -> Drivers]
  BY DEF TypeInv, TypeOK
<1>2. \A j \in Installations : driver'[j] = IF j = i THEN d ELSE driver[j]
  BY DEF TypeInv, TypeOK
<1>3. TypeOK'
  BY <1>1 DEF TypeInv, TypeOK, callVars, consumerVars
<1>4. WellFormed'
  BY <1>2 DEF TypeInv, WellFormed, Owner, Trigger, callVars
<1>5. QED
  BY <1>3, <1>4 DEF TypeInv

\* One turn of fire_due's loop replaces one scheduled entry and may append one
\* payload to the driver's channel.
LEMMA FireEffect ==
  ASSUME TypeInv, NEW i \in Installations, NEW t \in DueTasks(i, driver[i].at),
         driver[i].pc = "send", AcceptFire(i, t) \/ MissFires(i, t)
  PROVE  \E n \in Nat \ {0}, missed \in Nat :
           /\ Trigger(t).kind = "one-shot" => n = 1
           /\ task' = [task EXCEPT ![t] = Advanced(t, n, missed)]
           /\ \/ /\ n = 1 /\ missed = 0
                 /\ Len(queue[driver[i].channel]) < DeliveryQueueCapacity
                 /\ queue' = [queue EXCEPT ![driver[i].channel] = Append(@, NextPayload(t))]
              \/ /\ missed = task[t].missed + n
                 /\ UNCHANGED queue
<1>1. /\ t \in TaskIds /\ task[t].state = "scheduled"
      /\ task[t].next \in Nat /\ task[t].next <= driver[i].at
      /\ task[t].missed \in Nat /\ driver[i].at \in Nat
      /\ call[t].pc # "idle"
  BY DEF DueTasks, ScheduledTasks, TypeInv, TypeOK, WellFormed, Entries, Drivers
<1>2. CASE AcceptFire(i, t)
  <2>1. /\ task' = [task EXCEPT ![t] = Advanced(t, 1, 0)]
        /\ Len(queue[driver[i].channel]) < DeliveryQueueCapacity
        /\ queue' = [queue EXCEPT ![driver[i].channel] = Append(@, NextPayload(t))]
    BY <1>2 DEF AcceptFire, Reported, HasRoom
  <2>2. 1 \in Nat \ {0} /\ 0 \in Nat
    OBVIOUS
  <2>3. QED
    BY <2>1, <2>2
<1>3. CASE MissFires(i, t)
  <2> DEFINE n == Remaining(t, driver[i].at)
  <2>1. Trigger(t).kind \in {"one-shot", "periodic"}
    BY <1>1, TriggersAssumption DEF TypeInv, WellFormed, TriggerRecords
  <2>2. n \in Nat \ {0} /\ (Trigger(t).kind = "one-shot" => n = 1)
    <3>1. CASE Trigger(t).kind = "one-shot"
      BY <3>1 DEF Remaining
    <3>2. CASE Trigger(t).kind = "periodic"
      <4>1. Trigger(t).interval \in Nat \ {0}
        BY <1>1, <3>2 DEF TypeInv, WellFormed
      <4>2. QED
        BY <1>1, <3>2, <4>1, DueGridPointsPositive DEF Remaining
    <3>3. QED
      BY <2>1, <3>1, <3>2
  <2>3. task[t].missed + n \in Nat
    BY <1>1, <2>2
  <2>4. QED
    BY <1>3, <2>2, <2>3 DEF MissFires
<1>4. QED
  BY <1>2, <1>3

\* What a fire makes of its entry.
LEMMA AdvancedEntry ==
  ASSUME TypeInv, NEW t \in TaskIds, task[t].state = "scheduled",
         NEW n \in Nat \ {0}, NEW missed \in Nat, Trigger(t).kind = "one-shot" => n = 1
  PROVE  /\ Advanced(t, n, missed) \in Entries
         /\ Advanced(t, n, missed).sequence = task[t].sequence + n
         /\ Advanced(t, n, missed).missed = missed
         /\ \/ /\ Trigger(t).kind = "one-shot"
               /\ Advanced(t, n, missed).state = "completed"
            \/ /\ Trigger(t).kind = "periodic"
               /\ Trigger(t).interval \in Nat \ {0}
               /\ Advanced(t, n, missed).state = "scheduled"
               /\ Advanced(t, n, missed).next = task[t].next + n * Trigger(t).interval
               /\ Advanced(t, n, missed).next \in Nat
<1>1. /\ task[t].next \in Nat /\ task[t].sequence \in Nat \ {0}
      /\ call[t].pc # "idle"
  BY DEF TypeInv, TypeOK, WellFormed, Entries
<1>2. Trigger(t).kind \in {"one-shot", "periodic"}
  BY <1>1, TriggersAssumption DEF TypeInv, WellFormed, TriggerRecords
<1>3. CASE Trigger(t).kind = "one-shot"
  BY <1>1, <1>3 DEF Advanced, Entry, Entries
<1>4. CASE Trigger(t).kind = "periodic"
  <2>1. Trigger(t).interval \in Nat \ {0}
    BY <1>1, <1>4 DEF TypeInv, WellFormed
  <2>2. n * Trigger(t).interval \in Nat
    BY <2>1
  <2>3. QED
    BY <1>1, <1>4, <2>1, <2>2 DEF Advanced, Entry, Entries
<1>5. QED
  BY <1>2, <1>3, <1>4

LEMMA TypeFire ==
  ASSUME TypeInv, NEW i \in Installations, FireSend(i)
  PROVE  TypeInv'
<1>1. PICK t \in DueTasks(i, driver[i].at) : AcceptFire(i, t) \/ MissFires(i, t)
  BY DEF FireSend
<1>2. /\ driver[i].pc = "send" /\ driver[i].channel \in TaskIds
      /\ UNCHANGED <<clockVars, callVars, stopped, cancelled, wake, driverVars,
                     consumer, consumerVars>>
  BY DEF FireSend, TypeInv, WellFormed
<1>3. /\ t \in TaskIds /\ task[t].state = "scheduled" /\ task[t].next \in Nat
      /\ task \in [TaskIds -> Entries] /\ queue \in [TaskIds -> Seq(Payloads)]
      /\ task[t] \in Entries
  BY DEF DueTasks, ScheduledTasks, TypeInv, TypeOK, WellFormed
<1>4. PICK n \in Nat \ {0}, missed \in Nat :
           /\ Trigger(t).kind = "one-shot" => n = 1
           /\ task' = [task EXCEPT ![t] = Advanced(t, n, missed)]
           /\ \/ /\ Len(queue[driver[i].channel]) < DeliveryQueueCapacity
                 /\ queue' = [queue EXCEPT ![driver[i].channel] = Append(@, NextPayload(t))]
              \/ UNCHANGED queue
  BY <1>1, <1>2, FireEffect
<1> DEFINE e == Advanced(t, n, missed)
<1>5. e \in Entries /\ e.state \in {"scheduled", "completed"}
      /\ (e.state = "scheduled" => e.next \in Nat)
  BY <1>3, <1>4, AdvancedEntry
<1>6. NextPayload(t) \in Payloads
  BY <1>3 DEF NextPayload, Payloads, Entries
<1> HIDE DEF e
<1>7. task' \in [TaskIds -> Entries]
  BY <1>3, <1>4, <1>5 DEF e
<1>8. \A u \in TaskIds : task'[u] = IF u = t THEN e ELSE task[u]
  BY <1>3, <1>4 DEF e
<1>9. /\ queue' \in [TaskIds -> Seq(Payloads)]
      /\ \A c \in TaskIds : Len(queue'[c]) <= DeliveryQueueCapacity
  <2>1. CASE UNCHANGED queue
    BY <2>1 DEF TypeInv, TypeOK
  <2>2. CASE /\ Len(queue[driver[i].channel]) < DeliveryQueueCapacity
             /\ queue' = [queue EXCEPT ![driver[i].channel] = Append(@, NextPayload(t))]
    <3>1. Append(queue[driver[i].channel], NextPayload(t)) \in Seq(Payloads)
          /\ Len(Append(queue[driver[i].channel], NextPayload(t)))
               = Len(queue[driver[i].channel]) + 1
      BY <1>2, <1>3, <1>6
    <3>2. \A c \in TaskIds : Len(queue[c]) \in Nat /\ Len(queue[c]) <= DeliveryQueueCapacity
      BY <1>3 DEF TypeInv, TypeOK
    <3>3. QED
      BY <1>2, <1>3, <2>2, <3>1, <3>2, CountsAssumption
  <2>3. QED
    BY <1>4, <2>1, <2>2
<1>10. TypeOK'
  BY <1>2, <1>7, <1>9 DEF TypeInv, TypeOK, clockVars, callVars, driverVars, consumerVars
<1>11. WellFormed'
  BY <1>2, <1>3, <1>5, <1>8 DEF TypeInv, WellFormed, Owner, Trigger, callVars, driverVars
<1>12. QED
  BY <1>10, <1>11 DEF TypeInv

LEMMA TypeDriver ==
  ASSUME TypeInv, NEW i \in Installations, DriverStep(i)
  PROVE  TypeInv'
<1>1. driver[i] \in Drivers /\ now \in Nat /\ skew \in Nat /\ driver[i].at \in Nat
  BY CountsAssumption DEF TypeInv, TypeOK, Drivers
<1>2. /\ clockFailures \in 0..MaxClockFailures
      /\ wake \in [Installations -> BOOLEAN]
      /\ sender \in [TaskIds -> BOOLEAN]
      /\ handle \in [Installations -> BOOLEAN]
  BY DEF TypeInv, TypeOK
<1>3. driver[i].pc # "none" => driver[i].channel \in TaskIds
  BY DEF TypeInv, WellFormed
<1> DEFINE c == driver[i].channel
<1>4. CASE DriverScan(i)
  <2>1. CASE driver' = [driver EXCEPT ![i] = Driver("idle", c, 0)]
    <3>1. Driver("idle", c, 0) \in Drivers
      BY <1>3, <1>4 DEF DriverScan, Driver, Drivers
    <3>2. QED
      BY <1>2, <1>3, <1>4, <2>1, <3>1, DriverMoves DEF DriverScan, Driver, clockVars
  <2>2. ASSUME NEW t \in ScheduledTasks(i),
               driver' = [driver EXCEPT ![i] = Driver("clock", c, task[t].next)]
        PROVE  TypeInv'
    <3>1. task[t].next \in Nat
      BY <2>2 DEF ScheduledTasks, TypeInv, WellFormed
    <3>2. Driver("clock", c, task[t].next) \in Drivers
      BY <1>3, <1>4, <3>1 DEF DriverScan, Driver, Drivers
    <3>3. QED
      BY <1>2, <1>3, <1>4, <2>2, <3>2, DriverMoves DEF DriverScan, Driver, clockVars
  <2>3. QED
    BY <1>4, <2>1, <2>2 DEF DriverScan
<1>5. CASE DriverClock(i)
  <2>1. CASE driver' = [driver EXCEPT ![i] = Driver("fire", c, 0)] /\ UNCHANGED <<clockFailures, sender>>
    <3>1. Driver("fire", c, 0) \in Drivers
      BY <1>3, <1>5 DEF DriverClock, Driver, Drivers
    <3>2. QED
      BY <1>2, <1>3, <1>5, <2>1, <3>1, DriverMoves DEF DriverClock, Driver
  <2>2. CASE driver' = [driver EXCEPT ![i] = Driver("sleep", c, driver[i].at + skew)]
              /\ UNCHANGED <<clockFailures, sender>>
    <3>1. Driver("sleep", c, driver[i].at + skew) \in Drivers
      BY <1>1, <1>3, <1>5 DEF DriverClock, Driver, Drivers
    <3>2. QED
      BY <1>2, <1>3, <1>5, <2>2, <3>1, DriverMoves DEF DriverClock, Driver
  <2>3. CASE clockFailures < MaxClockFailures /\ clockFailures' = clockFailures + 1 /\ Break(i)
    <3>1. Driver("closing", c, 0) \in Drivers
      BY <1>3, <1>5 DEF DriverClock, Driver, Drivers
    <3>2. clockFailures' \in 0..MaxClockFailures
      BY <1>2, <2>3, CountsAssumption
    <3>3. sender' \in [TaskIds -> BOOLEAN]
      BY <1>2, <2>3 DEF Break
    <3>4. QED
      BY <1>2, <1>3, <1>5, <2>3, <3>1, <3>2, <3>3, DriverMoves DEF DriverClock, Break, Driver
  <2>4. QED
    BY <1>5, <2>1, <2>2, <2>3 DEF DriverClock
<1>6. CASE DriverCancelled(i)
  <2>1. Driver("closing", c, 0) \in Drivers
    BY <1>3, <1>6 DEF DriverCancelled, SeesToken, Driver, Drivers
  <2>2. sender' \in [TaskIds -> BOOLEAN]
    BY <1>2, <1>6 DEF DriverCancelled, Break
  <2>3. QED
    BY <1>2, <1>3, <1>6, <2>1, <2>2, DriverMoves
    DEF DriverCancelled, SeesToken, Break, Driver, clockVars
<1>7. CASE DriverWoken(i)
  <2>1. Driver("scan", c, 0) \in Drivers
    BY <1>3, <1>7 DEF DriverWoken, Driver, Drivers
  <2>2. wake' \in [Installations -> BOOLEAN]
    BY <1>2, <1>7 DEF DriverWoken
  <2>3. QED
    BY <1>2, <1>3, <1>7, <2>1, <2>2, DriverMoves DEF DriverWoken, Driver, clockVars
<1>8. CASE DriverSlept(i)
  <2>1. Driver("fire", c, 0) \in Drivers
    BY <1>3, <1>8 DEF DriverSlept, Driver, Drivers
  <2>2. QED
    BY <1>2, <1>3, <1>8, <2>1, DriverMoves DEF DriverSlept, Driver, clockVars
<1>9. CASE FireReadClock(i)
  <2>1. CASE driver' = [driver EXCEPT ![i] = Driver("lock", c, now)] /\ UNCHANGED clockFailures
    <3>1. Driver("lock", c, now) \in Drivers
      BY <1>1, <1>3, <1>9 DEF FireReadClock, Driver, Drivers
    <3>2. QED
      BY <1>2, <1>3, <1>9, <2>1, <3>1, DriverMoves DEF FireReadClock, Driver
  <2>2. CASE /\ clockFailures < MaxClockFailures
             /\ clockFailures' = clockFailures + 1
             /\ driver' = [driver EXCEPT ![i] = Driver("scan", c, 0)]
    <3>1. Driver("scan", c, 0) \in Drivers
      BY <1>3, <1>9 DEF FireReadClock, Driver, Drivers
    <3>2. clockFailures' \in 0..MaxClockFailures
      BY <1>2, <2>2, CountsAssumption
    <3>3. QED
      BY <1>2, <1>3, <1>9, <2>2, <3>1, <3>2, DriverMoves DEF FireReadClock, Driver
  <2>3. QED
    BY <1>9, <2>1, <2>2 DEF FireReadClock
<1>10. CASE FireLock(i)
  <2>1. CASE ~stopped[i] /\ driver' = [driver EXCEPT ![i] = Driver("send", c, driver[i].at)]
    <3>1. Driver("send", c, driver[i].at) \in Drivers
      BY <1>1, <1>3, <1>10 DEF FireLock, Driver, Drivers
    <3>2. QED
      BY <1>2, <1>3, <1>10, <2>1, <3>1, DriverMoves DEF FireLock, Driver, clockVars
  <2>2. CASE driver' = [driver EXCEPT ![i] = Driver("scan", c, 0)]
    <3>1. Driver("scan", c, 0) \in Drivers
      BY <1>3, <1>10 DEF FireLock, Driver, Drivers
    <3>2. QED
      BY <1>2, <1>3, <1>10, <2>2, <3>1, DriverMoves DEF FireLock, Driver, clockVars
  <2>3. QED
    BY <1>10, <2>1, <2>2 DEF FireLock, MayFire
<1>11. CASE FireUnlock(i)
  <2>1. Driver("scan", c, 0) \in Drivers
    BY <1>3, <1>11 DEF FireUnlock, Driver, Drivers
  <2>2. QED
    BY <1>2, <1>3, <1>11, <2>1, DriverMoves DEF FireUnlock, Driver, clockVars
<1>12. CASE DriverExit(i)
  <2>1. Driver("none", NoTask, 0) \in Drivers
    BY DEF Driver, Drivers
  <2>2. handle' \in [Installations -> BOOLEAN]
    BY <1>2, <1>12 DEF DriverExit
  <2>3. QED
    BY <1>2, <1>12, <2>1, <2>2, DriverMoves DEF DriverExit, Driver, clockVars
<1>13. CASE FireSend(i)
  BY <1>13, TypeFire
<1>14. QED
  BY <1>4, <1>5, <1>6, <1>7, <1>8, <1>9, <1>10, <1>11, <1>12, <1>13 DEF DriverStep

-----------------------------------------------------------------------------
LEMMA TypeConsumer ==
  ASSUME TypeInv, NEW c \in TaskIds, ConsumerStep(c)
  PROVE  TypeInv'
<1>1. /\ queue \in [TaskIds -> Seq(Payloads)]
      /\ consumer \in [TaskIds -> {"none", "recv", "deliver", "ended"}]
      /\ hand \in [TaskIds -> Payloads \cup {NoPayload}]
      /\ consumed \in [TaskIds -> SUBSET Payloads]
      /\ \A d \in TaskIds : Len(queue[d]) <= DeliveryQueueCapacity
      /\ \A d \in TaskIds : consumer[d] = "deliver" => hand[d] \in Payloads
  BY DEF TypeInv, TypeOK
<1>2. UNCHANGED <<clockVars, callVars, task, stopped, cancelled, wake, driverVars>>
  BY DEF ConsumerStep, ConsumerRecv, ConsumerDeliver, ConsumerEnd
<1>3. WellFormed'
  BY <1>2 DEF TypeInv, WellFormed, Owner, Trigger, callVars, driverVars
<1>4. /\ queue' \in [TaskIds -> Seq(Payloads)]
      /\ consumer' \in [TaskIds -> {"none", "recv", "deliver", "ended"}]
      /\ hand' \in [TaskIds -> Payloads \cup {NoPayload}]
      /\ consumed' \in [TaskIds -> SUBSET Payloads]
      /\ \A d \in TaskIds : Len(queue'[d]) <= DeliveryQueueCapacity
      /\ \A d \in TaskIds : consumer'[d] = "deliver" => hand'[d] \in Payloads
  <2>1. CASE ConsumerRecv(c)
    <3>1. /\ queue' = [queue EXCEPT ![c] = Tail(queue[c])]
          /\ queue[c] # <<>>
          /\ hand' = [hand EXCEPT ![c] = Head(queue[c])]
          /\ consumer' = [consumer EXCEPT ![c] = "deliver"]
          /\ UNCHANGED consumed
      BY <2>1 DEF ConsumerRecv
    <3>2. /\ Head(queue[c]) \in Payloads
          /\ Tail(queue[c]) \in Seq(Payloads)
          /\ Len(Tail(queue[c])) <= DeliveryQueueCapacity
      BY <1>1, <3>1, CountsAssumption
    <3>3. /\ queue' \in [TaskIds -> Seq(Payloads)]
          /\ \A d \in TaskIds : Len(queue'[d]) <= DeliveryQueueCapacity
      BY <1>1, <3>1, <3>2
    <3>4. /\ hand' \in [TaskIds -> Payloads \cup {NoPayload}]
          /\ consumer' \in [TaskIds -> {"none", "recv", "deliver", "ended"}]
          /\ \A d \in TaskIds : consumer'[d] = "deliver" => hand'[d] \in Payloads
      BY <1>1, <3>1, <3>2
    <3>5. QED
      BY <1>1, <3>1, <3>3, <3>4
  <2>2. CASE ConsumerDeliver(c)
    <3>1. /\ consumer[c] = "deliver"
          /\ consumed' = [consumed EXCEPT ![hand[c].task] = @ \cup {hand[c]}]
          /\ hand' = [hand EXCEPT ![c] = NoPayload]
          /\ consumer' = [consumer EXCEPT ![c] = "recv"]
          /\ UNCHANGED queue
      BY <2>2 DEF ConsumerDeliver
    <3>2. hand[c] \in Payloads /\ hand[c].task \in TaskIds /\ hand[c].sequence \in Nat
      BY <1>1, <3>1 DEF Payloads
    <3>3. consumed' \in [TaskIds -> SUBSET Payloads]
      BY <1>1, <3>1, <3>2
    <3>4. /\ hand' \in [TaskIds -> Payloads \cup {NoPayload}]
          /\ consumer' \in [TaskIds -> {"none", "recv", "deliver", "ended"}]
          /\ \A d \in TaskIds : consumer'[d] = "deliver" => hand'[d] \in Payloads
      BY <1>1, <3>1
    <3>5. QED
      BY <1>1, <3>1, <3>3, <3>4
  <2>3. CASE ConsumerEnd(c)
    BY <1>1, <2>3 DEF ConsumerEnd, consumerVars
  <2>4. QED
    BY <2>1, <2>2, <2>3 DEF ConsumerStep
<1>5. TypeOK'
  BY <1>2, <1>4 DEF TypeInv, TypeOK, clockVars, callVars, driverVars
<1>6. QED
  BY <1>3, <1>5 DEF TypeInv

LEMMA TypeStep == TypeInv /\ [Next]_vars => TypeInv'
<1> SUFFICES ASSUME TypeInv, [Next]_vars PROVE TypeInv'
  OBVIOUS
<1>1. CASE Tick \/ SetClockBack
  BY <1>1, TypeClock
<1>2. CASE CallerStep
  BY <1>2, TypeValidate, TypeInsert, TypeEnsure, TypeCancel, TypeStop DEF CallerStep
<1>3. CASE \E i \in Installations : DriverStep(i)
  BY <1>3, TypeDriver
<1>4. CASE \E c \in TaskIds : ConsumerStep(c)
  BY <1>4, TypeConsumer
<1>5. CASE UNCHANGED vars
  <2>1. TypeOK'
    BY <1>5 DEF TypeInv, TypeOK, vars, clockVars, callVars, driverVars, consumerVars
  <2>2. WellFormed'
    BY <1>5 DEF TypeInv, WellFormed, Owner, Trigger, vars, callVars, driverVars
  <2>3. QED
    BY <2>1, <2>2 DEF TypeInv
<1>6. QED
  BY <1>1, <1>2, <1>3, <1>4, <1>5 DEF Next

(***************************************************************************)
(* Every reachable state is well typed: in particular no channel exceeds   *)
(* delivery_queue_capacity and every consumer that is about to call the    *)
(* guest holds a payload, for every limit and number of installations.     *)
(***************************************************************************)
THEOREM TypeCorrect == Spec => []TypeOK
<1>1. TypeInv => TypeOK
  BY DEF TypeInv
<1>2. QED
  BY TypeInit, TypeStep, <1>1, PTL DEF Spec

-----------------------------------------------------------------------------
(* Sequences as sets. *)

LEMMA RangeOfAppend ==
  ASSUME NEW S, NEW q \in Seq(S), NEW x \in S
  PROVE  Range(Append(q, x)) = Range(q) \cup {x}
<1>1. /\ DOMAIN Append(q, x) = 1..(Len(q) + 1)
      /\ DOMAIN q = 1..Len(q)
      /\ Len(q) \in Nat
      /\ Append(q, x)[Len(q) + 1] = x
      /\ \A k \in 1..Len(q) : Append(q, x)[k] = q[k]
  OBVIOUS
<1>2. QED
  BY <1>1 DEF Range

LEMMA RangeOfHeadAndTail ==
  ASSUME NEW S, NEW q \in Seq(S), q # <<>>
  PROVE  Range(q) = {Head(q)} \cup Range(Tail(q))
<1>1. /\ DOMAIN q = 1..Len(q)
      /\ DOMAIN Tail(q) = 1..(Len(q) - 1)
      /\ Len(q) \in Nat \ {0}
      /\ Head(q) = q[1]
      /\ \A k \in 1..(Len(q) - 1) : Tail(q)[k] = q[k + 1]
  OBVIOUS
<1>2. ASSUME NEW p \in Range(q)
      PROVE  p \in {Head(q)} \cup Range(Tail(q))
  <2>1. PICK k \in 1..Len(q) : p = q[k]
    BY <1>1, <1>2 DEF Range
  <2>2. CASE k = 1
    BY <1>1, <2>1, <2>2
  <2>3. CASE k # 1
    <3>1. k - 1 \in 1..(Len(q) - 1) /\ Tail(q)[k - 1] = p
      BY <1>1, <2>1, <2>3
    <3>2. QED
      BY <1>1, <3>1 DEF Range
  <2>4. QED
    BY <2>2, <2>3
<1>3. ASSUME NEW p \in {Head(q)} \cup Range(Tail(q))
      PROVE  p \in Range(q)
  <2>1. CASE p = Head(q)
    BY <1>1, <2>1 DEF Range
  <2>2. CASE p \in Range(Tail(q))
    <3>1. PICK k \in 1..(Len(q) - 1) : p = Tail(q)[k]
      BY <1>1, <2>2 DEF Range
    <3>2. k + 1 \in 1..Len(q) /\ p = q[k + 1]
      BY <1>1, <3>1
    <3>3. QED
      BY <1>1, <3>2 DEF Range
  <2>3. QED
    BY <1>3, <2>1, <2>2
<1>4. QED
  BY <1>2, <1>3

-----------------------------------------------------------------------------
(* What steps do to the payloads of a task. *)

Held == {hand[c] : c \in {d \in TaskIds : consumer[d] = "deliver"}}
Queued == UNION {Range(queue[c]) : c \in TaskIds}

LEMMA EmittedKept ==
  ASSUME queue' = queue, hand' = hand, consumed' = consumed,
         \A c \in TaskIds : consumer'[c] = "deliver" <=> consumer[c] = "deliver"
  PROVE  \A t : Emitted(t)' = Emitted(t)
<1>1. InFlight' = InFlight
  BY DEF InFlight
<1>2. QED
  BY <1>1 DEF Emitted

LEMMA EmittedByAccept ==
  ASSUME TypeInv, NEW c \in TaskIds, NEW p \in Payloads,
         queue' = [queue EXCEPT ![c] = Append(@, p)],
         hand' = hand, consumed' = consumed, consumer' = consumer
  PROVE  \A t \in TaskIds :
           Emitted(t)' = IF p.task = t THEN Emitted(t) \cup {p} ELSE Emitted(t)
<1>1. queue \in [TaskIds -> Seq(Payloads)]
  BY DEF TypeInv, TypeOK
<1>2. /\ Range(queue'[c]) = Range(queue[c]) \cup {p}
      /\ \A d \in TaskIds : d # c => queue'[d] = queue[d]
  BY <1>1, RangeOfAppend
<1>3. Queued' = Queued \cup {p}
  BY <1>2 DEF Queued
<1>4. InFlight' = InFlight \cup {p}
  BY <1>3 DEF InFlight, Queued
<1>5. QED
  BY <1>4 DEF Emitted

LEMMA EmittedByRecv ==
  ASSUME TypeInv, NEW c \in TaskIds, ConsumerRecv(c)
  PROVE  \A t : Emitted(t)' = Emitted(t)
<1>1. /\ queue \in [TaskIds -> Seq(Payloads)]
      /\ hand \in [TaskIds -> Payloads \cup {NoPayload}]
      /\ consumer \in [TaskIds -> {"none", "recv", "deliver", "ended"}]
  BY DEF TypeInv, TypeOK
<1>2. /\ consumer[c] = "recv" /\ queue[c] # <<>>
      /\ hand' = [hand EXCEPT ![c] = Head(queue[c])]
      /\ queue' = [queue EXCEPT ![c] = Tail(queue[c])]
      /\ consumer' = [consumer EXCEPT ![c] = "deliver"]
      /\ consumed' = consumed
  BY DEF ConsumerRecv
<1>3. /\ Range(queue[c]) = {Head(queue[c])} \cup Range(queue'[c])
      /\ \A d \in TaskIds : d # c => queue'[d] = queue[d]
  BY <1>1, <1>2, RangeOfHeadAndTail
<1>4. Queued = Queued' \cup {Head(queue[c])}
  BY <1>3 DEF Queued
<1>5. Held' = Held \cup {Head(queue[c])}
  BY <1>1, <1>2 DEF Held
<1>6. InFlight' = InFlight
  BY <1>4, <1>5 DEF InFlight, Queued, Held
<1>7. QED
  BY <1>2, <1>6 DEF Emitted

LEMMA EmittedByDeliver ==
  ASSUME TypeInv, NEW c \in TaskIds, ConsumerDeliver(c)
  PROVE  \A t \in TaskIds : Emitted(t)' = Emitted(t)
<1>1. /\ hand \in [TaskIds -> Payloads \cup {NoPayload}]
      /\ consumer \in [TaskIds -> {"none", "recv", "deliver", "ended"}]
      /\ consumed \in [TaskIds -> SUBSET Payloads]
  BY DEF TypeInv, TypeOK
<1>2. /\ consumer[c] = "deliver"
      /\ consumed' = [consumed EXCEPT ![hand[c].task] = @ \cup {hand[c]}]
      /\ hand' = [hand EXCEPT ![c] = NoPayload]
      /\ consumer' = [consumer EXCEPT ![c] = "recv"]
      /\ queue' = queue
  BY DEF ConsumerDeliver
<1>3. hand[c] \in Payloads /\ hand[c].task \in TaskIds
  BY <1>2 DEF TypeInv, TypeOK, Payloads
<1>4. Held = Held' \cup {hand[c]}
  BY <1>1, <1>2 DEF Held
<1>5. InFlight = InFlight' \cup {hand[c]}
  BY <1>2, <1>4 DEF InFlight, Held
<1>6. \A t \in TaskIds :
        consumed'[t] = IF t = hand[c].task THEN consumed[t] \cup {hand[c]} ELSE consumed[t]
  BY <1>1, <1>2, <1>3
<1>7. QED
  BY <1>5, <1>6 DEF Emitted

-----------------------------------------------------------------------------
(* The invariant.  Sequence numbers above the entry's have not been used:   *)
(* without that, a new payload could fall into a gap that was reported.     *)

FireInv ==
  /\ \A t \in TaskIds : call[t].pc # "returned" => consumer[t] = "none"
  /\ \A t \in TaskIds : \A p \in Emitted(t) : p.sequence < task[t].sequence
  /\ EveryFireAccounted
  /\ OnTheGrid

Inv == TypeInv /\ FireInv

LEMMA EmittedTyped ==
  ASSUME TypeInv, NEW t \in TaskIds
  PROVE  Emitted(t) \subseteq Payloads
<1>1. \A c \in TaskIds : Range(queue[c]) \subseteq Payloads
  BY DEF TypeInv, TypeOK, Range
<1>2. InFlight \subseteq Payloads
  BY <1>1 DEF InFlight, TypeInv, TypeOK
<1>3. QED
  BY <1>2 DEF Emitted, TypeInv, TypeOK

LEMMA FireInit == Init => FireInv
<1> SUFFICES ASSUME Init PROVE FireInv
  OBVIOUS
<1>1. \A t \in TaskIds : Emitted(t) = {}
  <2>1. \A c \in TaskIds : Range(queue[c]) = {}
    BY DEF Init, Range
  <2>2. InFlight = {}
    BY <2>1 DEF Init, InFlight
  <2>3. QED
    BY <2>2 DEF Init, Emitted
<1>2. \A t \in TaskIds : task[t].sequence = 1 /\ task[t].missed = 0 /\ task[t].state = "absent"
  BY DEF Init, NoEntry, Entry
<1>3. EveryFireAccounted
  BY <1>1, <1>2 DEF EveryFireAccounted, Accounts, EmittedFires
<1>4. OnTheGrid
  BY <1>1, <1>2 DEF OnTheGrid
<1>5. QED
  BY <1>1, <1>3, <1>4 DEF FireInv, Init

\* A step that emits nothing and uses up no fire keeps the invariant.
LEMMA FireFrame ==
  ASSUME FireInv,
         \A t \in TaskIds : Emitted(t)' = Emitted(t),
         \A t \in TaskIds : /\ task'[t].sequence = task[t].sequence
                            /\ task'[t].missed = task[t].missed,
         \A t \in TaskIds : Trigger(t)' = Trigger(t) \/ Emitted(t) = {},
         \A t \in TaskIds : task'[t].state = "scheduled"
                            => task'[t].next = GridPoint(t, task[t].sequence)',
         \A t \in TaskIds : call'[t].pc # "returned" => consumer'[t] = "none"
  PROVE  FireInv'
<1>1. EveryFireAccounted'
  BY DEF FireInv, EveryFireAccounted, Accounts, EmittedFires
<1>2. OnTheGrid'
  BY DEF FireInv, OnTheGrid, GridPoint
<1>3. QED
  BY <1>1, <1>2 DEF FireInv

\* Steps that touch neither the task tables nor the calls nor the payloads.
LEMMA FireStutter ==
  ASSUME FireInv, task' = task, call' = call,
         \A t \in TaskIds : Emitted(t)' = Emitted(t),
         \A t \in TaskIds : consumer[t] = "none" => consumer'[t] = "none"
  PROVE  FireInv'
<1>1. \A t \in TaskIds : Trigger(t)' = Trigger(t)
  BY DEF Trigger
<1>2. \A t \in TaskIds : task'[t].state = "scheduled"
                          => task'[t].next = GridPoint(t, task[t].sequence)'
  BY <1>1 DEF FireInv, OnTheGrid, GridPoint
<1>3. QED
  BY <1>1, <1>2, FireFrame DEF FireInv

LEMMA FireValidate ==
  ASSUME Inv, NEW i \in Installations, NEW tr \in Triggers, ScheduleValidate(i, tr)
  PROVE  FireInv'
<1>1. /\ nextTaskId \in TaskIds
      /\ call' = [call EXCEPT ![nextTaskId] =
                    [pc |-> "validated", inst |-> i, trigger |-> tr]]
      /\ UNCHANGED <<task, queue, consumer, hand, consumed>>
  BY DEF ScheduleValidate, consumerVars
<1>2. call \in [TaskIds -> Calls] /\ nextTaskId \in Nat /\ TaskIds \subseteq Nat
  BY DEF Inv, TypeInv, TypeOK, TaskIds
<1>3. \A t \in TaskIds : Emitted(t)' = Emitted(t)
  BY <1>1, EmittedKept
<1>4. call[nextTaskId].pc = "idle" /\ task[nextTaskId] = NoEntry
  BY <1>1, <1>2 DEF Inv, TypeInv, TypeOK, WellFormed, Entries
<1>5. Emitted(nextTaskId) = {}
  <2>1. \A p \in Emitted(nextTaskId) : p.sequence \in Nat \ {0} /\ p.sequence < 1
    BY <1>1, <1>4, EmittedTyped DEF Inv, FireInv, NoEntry, Entry, Payloads
  <2>2. QED
    BY <2>1
<1>6. \A t \in TaskIds : t # nextTaskId => call'[t] = call[t]
  BY <1>1, <1>2
<1>7. call'[nextTaskId].pc = "validated"
  BY <1>1, <1>2
<1>8. \A t \in TaskIds : Trigger(t)' = Trigger(t) \/ Emitted(t) = {}
  BY <1>5, <1>6 DEF Trigger
<1>9. \A t \in TaskIds : task'[t].state = "scheduled"
                          => task'[t].next = GridPoint(t, task[t].sequence)'
  BY <1>1, <1>4, <1>6 DEF Inv, FireInv, OnTheGrid, GridPoint, Trigger, NoEntry, Entry
<1>10. \A t \in TaskIds : call'[t].pc # "returned" => consumer'[t] = "none"
  BY <1>1, <1>4, <1>6 DEF Inv, FireInv
<1>11. QED
  BY <1>1, <1>3, <1>8, <1>9, <1>10, FireFrame DEF Inv

LEMMA FireInsert ==
  ASSUME Inv, NEW t \in TaskIds, ScheduleInsert(t)
  PROVE  FireInv'
<1>1. /\ call[t].pc = "validated"
      /\ UNCHANGED <<queue, consumer, hand, consumed>>
  BY DEF ScheduleInsert, consumerVars
<1>2. call \in [TaskIds -> Calls] /\ task \in [TaskIds -> Entries]
  BY DEF Inv, TypeInv, TypeOK
<1>3. \A u \in TaskIds : Emitted(u)' = Emitted(u)
  BY <1>1, EmittedKept
<1>4. task[t] = NoEntry
  BY <1>1, <1>2 DEF Inv, TypeInv, WellFormed, Entries
<1>5. Trigger(t).at \in Nat /\ Trigger(t).interval \in Nat
  BY <1>1, TriggersAssumption DEF Inv, TypeInv, WellFormed, TriggerRecords
<1>6. CASE task' = task /\ call' = [call EXCEPT ![t].pc = "refused"]
  <2>1. \A u \in TaskIds : Trigger(u)' = Trigger(u) /\ (u # t => call'[u] = call[u])
    BY <1>2, <1>6, SetCallPc
  <2>2. \A u \in TaskIds : task'[u].state = "scheduled"
                            => task'[u].next = GridPoint(u, task[u].sequence)'
    BY <1>6, <2>1 DEF Inv, FireInv, OnTheGrid, GridPoint
  <2>3. \A u \in TaskIds : call'[u].pc # "returned" => consumer'[u] = "none"
    BY <1>1, <2>1 DEF Inv, FireInv
  <2>4. QED
    BY <1>3, <1>6, <2>1, <2>2, <2>3, FireFrame DEF Inv
<1>7. CASE /\ task' = [task EXCEPT ![t] = FirstEntry(t)]
           /\ call' = [call EXCEPT ![t].pc = "inserted"]
  <2>1. \A u \in TaskIds : Trigger(u)' = Trigger(u) /\ (u # t => call'[u] = call[u])
    BY <1>2, <1>7, SetCallPc
  <2>2. \A u \in TaskIds : task'[u] = IF u = t THEN FirstEntry(t) ELSE task[u]
    BY <1>2, <1>7
  <2>3. /\ FirstEntry(t).sequence = 1 /\ FirstEntry(t).missed = 0
        /\ FirstEntry(t).next = Trigger(t).at
        /\ task[t].sequence = 1 /\ task[t].missed = 0
    BY <1>4 DEF FirstEntry, NoEntry, Entry
  <2>4. \A u \in TaskIds : /\ task'[u].sequence = task[u].sequence
                           /\ task'[u].missed = task[u].missed
    BY <2>2, <2>3
  <2>5. GridPoint(t, 1)' = Trigger(t).at
    BY <1>5, <2>1 DEF GridPoint
  <2>6. \A u \in TaskIds : task'[u].state = "scheduled"
                            => task'[u].next = GridPoint(u, task[u].sequence)'
    <3>1. task'[t].next = GridPoint(t, task[t].sequence)'
      BY <2>2, <2>3, <2>5 DEF GridPoint
    <3>2. \A u \in TaskIds : u # t => (task'[u].state = "scheduled"
                            => task'[u].next = GridPoint(u, task[u].sequence)')
      BY <2>1, <2>2 DEF Inv, FireInv, OnTheGrid, GridPoint
    <3>3. QED
      BY <3>1, <3>2
  <2>7. \A u \in TaskIds : call'[u].pc # "returned" => consumer'[u] = "none"
    BY <1>1, <2>1 DEF Inv, FireInv
  <2>8. QED
    BY <1>3, <2>1, <2>4, <2>6, <2>7, FireFrame DEF Inv
<1>8. QED
  BY <1>6, <1>7, Zenon DEF ScheduleInsert

LEMMA FireEnsure ==
  ASSUME Inv, NEW t \in TaskIds, EnsureDriver(t)
  PROVE  FireInv'
<1>1. /\ call[t].pc = "inserted"
      /\ call' = [call EXCEPT ![t].pc = "returned"]
      /\ consumer' = consumer \/ consumer' = [consumer EXCEPT ![t] = "recv"]
      /\ UNCHANGED <<task, queue, hand, consumed>>
  BY DEF EnsureDriver, consumerVars
<1>2. /\ call \in [TaskIds -> Calls]
      /\ consumer \in [TaskIds -> {"none", "recv", "deliver", "ended"}]
      /\ consumer[t] = "none"
  BY <1>1 DEF Inv, TypeInv, TypeOK, FireInv
<1>3. \A c \in TaskIds : c # t => consumer'[c] = consumer[c]
  BY <1>1, <1>2
<1>4. consumer'[t] \in {"none", "recv"}
  BY <1>1, <1>2
<1>5. \A u \in TaskIds : Emitted(u)' = Emitted(u)
  <2>1. \A c \in TaskIds : consumer'[c] = "deliver" <=> consumer[c] = "deliver"
    BY <1>2, <1>3, <1>4
  <2>2. QED
    BY <1>1, <2>1, EmittedKept
<1>6. \A u \in TaskIds : /\ Trigger(u)' = Trigger(u)
                         /\ u # t => call'[u] = call[u]
      /\ call'[t].pc = "returned"
  BY <1>1, <1>2, SetCallPc
<1>7. \A u \in TaskIds : task'[u].state = "scheduled"
                          => task'[u].next = GridPoint(u, task[u].sequence)'
  BY <1>1, <1>6 DEF Inv, FireInv, OnTheGrid, GridPoint
<1>8. \A u \in TaskIds : call'[u].pc # "returned" => consumer'[u] = "none"
  BY <1>3, <1>6 DEF Inv, FireInv
<1>9. QED
  BY <1>1, <1>5, <1>6, <1>7, <1>8, FireFrame DEF Inv

LEMMA FireCancel ==
  ASSUME Inv, NEW t \in TaskIds, Cancel(t)
  PROVE  FireInv'
<1>1. /\ task' = [task EXCEPT ![t] = Entry("cancelled", task[t].sequence, task[t].missed, NoFire)]
      /\ UNCHANGED <<call, queue, consumer, hand, consumed>>
  BY DEF Cancel, callVars, consumerVars
<1>2. task \in [TaskIds -> Entries]
  BY DEF Inv, TypeInv, TypeOK
<1>3. \A u \in TaskIds : Emitted(u)' = Emitted(u)
  BY <1>1, EmittedKept
<1>4. \A u \in TaskIds : u # t => task'[u] = task[u]
  BY <1>1, <1>2
<1>5. task'[t] = Entry("cancelled", task[t].sequence, task[t].missed, NoFire)
  BY <1>1, <1>2
<1>6. /\ task'[t].sequence = task[t].sequence
      /\ task'[t].missed = task[t].missed
      /\ task'[t].state = "cancelled"
  BY <1>5 DEF Entry
<1>7. \A u \in TaskIds : /\ task'[u].sequence = task[u].sequence
                         /\ task'[u].missed = task[u].missed
  BY <1>4, <1>6
<1>8. \A u \in TaskIds : Trigger(u)' = Trigger(u)
  BY <1>1 DEF Trigger
<1>9. \A u \in TaskIds : task'[u].state = "scheduled"
                          => task'[u].next = GridPoint(u, task[u].sequence)'
  BY <1>4, <1>6, <1>8 DEF Inv, FireInv, OnTheGrid, GridPoint
<1>10. \A u \in TaskIds : call'[u].pc # "returned" => consumer'[u] = "none"
  BY <1>1 DEF Inv, FireInv
<1>11. QED
  BY <1>3, <1>7, <1>8, <1>9, <1>10, FireFrame DEF Inv

\* The grid is arithmetic: n intervals after fire s comes fire s + n.
LEMMA GridStep ==
  ASSUME NEW at \in Nat, NEW interval \in Nat, NEW s \in Nat \ {0}, NEW n \in Nat
  PROVE  at + (s - 1) * interval + n * interval = at + ((s + n) - 1) * interval
<1>1. (s - 1) * interval + n * interval = ((s - 1) + n) * interval
  OBVIOUS
<1>2. (s - 1) + n = (s + n) - 1
  OBVIOUS
<1>3. QED
  BY <1>1, <1>2

LEMMA FireFire ==
  ASSUME Inv, NEW i \in Installations, FireSend(i)
  PROVE  FireInv'
<1>1. PICK t \in DueTasks(i, driver[i].at) : AcceptFire(i, t) \/ MissFires(i, t)
  BY DEF FireSend
<1>2. /\ driver[i].pc = "send" /\ driver[i].channel \in TaskIds
      /\ UNCHANGED <<call, consumer, hand, consumed>>
  BY DEF FireSend, Inv, TypeInv, WellFormed, callVars, consumerVars
<1>3. /\ t \in TaskIds /\ task[t].state = "scheduled" /\ task[t].next \in Nat
      /\ task \in [TaskIds -> Entries] /\ call[t].pc # "idle"
      /\ task[t].sequence \in Nat \ {0} /\ task[t].missed \in Nat
  BY DEF DueTasks, ScheduledTasks, Inv, TypeInv, TypeOK, WellFormed, Entries
<1>4. PICK n \in Nat \ {0}, missed \in Nat :
           /\ Trigger(t).kind = "one-shot" => n = 1
           /\ task' = [task EXCEPT ![t] = Advanced(t, n, missed)]
           /\ \/ /\ n = 1 /\ missed = 0
                 /\ queue' = [queue EXCEPT ![driver[i].channel] = Append(@, NextPayload(t))]
              \/ /\ missed = task[t].missed + n
                 /\ UNCHANGED queue
  BY <1>1, <1>2, FireEffect DEF Inv
<1> PICK e, s, m, p : /\ e = Advanced(t, n, missed) /\ p = NextPayload(t)
                      /\ s = task[t].sequence /\ m = task[t].missed
  OBVIOUS
<1>5. /\ e.sequence = s + n /\ e.missed = missed
      /\ \/ e.state = "completed"
         \/ e.state = "scheduled" /\ e.next = task[t].next + n * Trigger(t).interval
  <2>1. /\ Advanced(t, n, missed).sequence = s + n
        /\ Advanced(t, n, missed).missed = missed
        /\ \/ Advanced(t, n, missed).state = "completed"
           \/ /\ Advanced(t, n, missed).state = "scheduled"
              /\ Advanced(t, n, missed).next = task[t].next + n * Trigger(t).interval
    <3>1. TypeInv /\ (Trigger(t).kind = "one-shot" => n = 1)
      BY <1>4 DEF Inv
    <3>2. task[t].state = "scheduled" /\ t \in TaskIds
      BY <1>3
    <3>3. QED
      BY <3>1, <3>2, AdvancedEntry
  <2>2. QED
    BY <2>1
<1>6. /\ p \in Payloads /\ p.task = t /\ p.sequence = s
      /\ p.at = task[t].next /\ p.missed = m
  BY <1>3 DEF NextPayload, Payloads, Entries
<1>7. Trigger(t).at \in Nat /\ Trigger(t).interval \in Nat
  BY <1>3, TriggersAssumption DEF Inv, TypeInv, WellFormed, TriggerRecords
<1>8. \A u \in TaskIds : task'[u] = IF u = t THEN e ELSE task[u]
  BY <1>3, <1>4
<1>9. \A u \in TaskIds : Trigger(u)' = Trigger(u)
  BY <1>2 DEF Trigger
<1>10. \A u \in TaskIds : u # t => Emitted(u)' = Emitted(u)
  BY <1>2, <1>4, <1>6, EmittedKept, EmittedByAccept DEF Inv
<1>11. \/ n = 1 /\ missed = 0 /\ Emitted(t)' = Emitted(t) \cup {p}
       \/ missed = m + n /\ Emitted(t)' = Emitted(t)
  BY <1>2, <1>3, <1>4, <1>6, EmittedKept, EmittedByAccept DEF Inv
<1>12. /\ \A q \in Emitted(t) : q.sequence \in Nat \ {0} /\ q.missed \in Nat /\ q.sequence < s
       /\ Accounts(t, s, m)
       /\ \A q \in Emitted(t) : Accounts(t, q.sequence, q.missed)
  BY <1>3, EmittedTyped DEF Inv, FireInv, EveryFireAccounted, Payloads
<1>13. s \in Nat \ {0} /\ m \in Nat
  BY <1>3
<1>14. \A u \in TaskIds : \A q \in Emitted(u)' : q.sequence < task'[u].sequence
  <2>1. \A q \in Emitted(t)' : q.sequence < e.sequence
    BY <1>5, <1>6, <1>11, <1>12, <1>13
  <2>2. QED
    BY <1>8, <1>10, <2>1 DEF Inv, FireInv
<1>15. EveryFireAccounted'
  <2>1. \A u \in TaskIds : u # t =>
          /\ Accounts(u, task[u].sequence, task[u].missed)'
          /\ \A q \in Emitted(u)' : Accounts(u, q.sequence, q.missed)'
    BY <1>8, <1>10 DEF Inv, FireInv, EveryFireAccounted, Accounts, EmittedFires
  <2>2. CASE n = 1 /\ missed = 0 /\ Emitted(t)' = Emitted(t) \cup {p}
    <3>1. EmittedFires(t)' = EmittedFires(t) \cup {s}
      BY <1>6, <2>2 DEF EmittedFires
    <3>2. \A k \in EmittedFires(t) : k \in Nat \ {0} /\ k < s
      BY <1>12 DEF EmittedFires
    <3>3. /\ 0 < s + 1
          /\ ((s + 1) - 1) - 0 \in EmittedFires(t)'
          /\ \A k \in EmittedFires(t)' : k < (s + 1) - 0
      BY <1>13, <3>1, <3>2
    <3>4. e.sequence = s + 1 /\ e.missed = 0
      BY <1>5, <2>2
    <3>5. Accounts(t, e.sequence, e.missed)'
      BY <1>13, <3>3, <3>4 DEF Accounts
    <3>6. Accounts(t, s, m)'
      BY <1>12, <1>13, <3>1 DEF Accounts
    <3>7. \A q \in Emitted(t) : Accounts(t, q.sequence, q.missed)'
      BY <1>12, <1>13, <3>1 DEF Accounts
    <3>8. \A q \in Emitted(t)' : Accounts(t, q.sequence, q.missed)'
      BY <1>6, <2>2, <3>6, <3>7
    <3>9. QED
      BY <1>3, <1>8, <2>1, <3>5, <3>8 DEF EveryFireAccounted
  <2>3. CASE missed = m + n /\ Emitted(t)' = Emitted(t)
    <3>1. EmittedFires(t)' = EmittedFires(t)
      BY <2>3 DEF EmittedFires
    <3>2. \A k \in EmittedFires(t) : k \in Nat \ {0} /\ k < s
      BY <1>12 DEF EmittedFires
    <3>3. e.sequence = s + n /\ e.missed = m + n
      BY <1>5, <2>3
    <3>4. /\ m + n < s + n
          /\ ((s + n) - 1) - (m + n) = (s - 1) - m
          /\ (s + n) - (m + n) = s - m
      BY <1>12, <1>13 DEF Accounts
    <3>4a. \A k \in EmittedFires(t) : k < (s + n) - (m + n) \/ k >= s + n
      BY <1>12, <3>4, <3>2, <1>13 DEF Accounts
    <3>5. Accounts(t, s + n, m + n)'
      <4>1. ((s + n) - 1) - (m + n) \in EmittedFires(t)' \cup {0}
        BY <1>12, <3>1, <3>4 DEF Accounts
      <4>2. QED
        BY <4>1, <3>1, <3>4, <3>4a DEF Accounts
    <3>6. \A q \in Emitted(t)' : Accounts(t, q.sequence, q.missed)'
      BY <1>12, <2>3, <3>1 DEF Accounts
    <3>7. QED
      BY <1>3, <1>8, <2>1, <3>3, <3>5, <3>6 DEF EveryFireAccounted
  <2>4. QED
    BY <1>11, <2>2, <2>3
<1>16. OnTheGrid'
  <2>1. task[t].next = GridPoint(t, s) /\ \A q \in Emitted(t) : q.at = GridPoint(t, q.sequence)
    BY <1>3 DEF Inv, FireInv, OnTheGrid
  <2>2. \A u \in TaskIds : u # t =>
          /\ task'[u].state = "scheduled" => task'[u].next = GridPoint(u, task[u].sequence)'
          /\ \A q \in Emitted(u)' : q.at = GridPoint(u, q.sequence)'
    BY <1>8, <1>9, <1>10 DEF Inv, FireInv, OnTheGrid, GridPoint
  <2>3. \A k : GridPoint(t, k)' = GridPoint(t, k)
    BY <1>3, <1>9 DEF GridPoint
  <2>4. e.state = "scheduled" => e.next = GridPoint(t, e.sequence)
    <3>1. CASE e.state = "completed"
      BY <3>1
    <3>2. CASE e.state = "scheduled" /\ e.next = task[t].next + n * Trigger(t).interval
      <4>1. e.next = Trigger(t).at + (s - 1) * Trigger(t).interval + n * Trigger(t).interval
        BY <2>1, <3>2 DEF GridPoint
      <4>2. e.next = Trigger(t).at + ((s + n) - 1) * Trigger(t).interval
        BY <1>7, <1>13, <4>1, GridStep
      <4>3. QED
        BY <1>5, <4>2 DEF GridPoint
    <3>3. QED
      BY <1>5, <3>1, <3>2
  <2>5. \A q \in Emitted(t)' : q.at = GridPoint(t, q.sequence)
    BY <1>6, <1>11, <2>1
  <2>6. task'[t].state = "scheduled" => task'[t].next = GridPoint(t, task'[t].sequence)
    BY <1>3, <1>8, <2>4
  <2>7. QED
    BY <1>8, <2>2, <2>3, <2>5, <2>6 DEF OnTheGrid, GridPoint
<1>17. \A u \in TaskIds : call'[u].pc # "returned" => consumer'[u] = "none"
  BY <1>2 DEF Inv, FireInv
<1>18. QED
  BY <1>14, <1>15, <1>16, <1>17 DEF FireInv

-----------------------------------------------------------------------------
(* All steps. *)

\* What every step other than an insertion, a cancellation, the spawning of a
\* driver and a fire leaves alone.
QuietTask(t) == /\ Emitted(t)' = Emitted(t)
                /\ consumer[t] = "none" => consumer'[t] = "none"

LEMMA QuietDriver ==
  ASSUME NEW i \in Installations, DriverStep(i), ~FireSend(i)
  PROVE  UNCHANGED <<call, task>> /\ \A t \in TaskIds : QuietTask(t)
<1>1. UNCHANGED <<task, call, queue, consumer, hand, consumed>>
  BY DEF DriverStep, DriverScan, DriverClock, DriverCancelled, DriverWoken, DriverSlept,
         FireReadClock, FireLock, FireUnlock, DriverExit, callVars, consumerVars
<1>2. QED
  BY <1>1, EmittedKept DEF QuietTask

LEMMA QuietConsumer ==
  ASSUME TypeInv, NEW c \in TaskIds, ConsumerStep(c)
  PROVE  UNCHANGED <<call, task>> /\ \A t \in TaskIds : QuietTask(t)
<1>1. UNCHANGED <<task, call>>
  BY DEF ConsumerStep, ConsumerRecv, ConsumerDeliver, ConsumerEnd, callVars
<1>2. \A t \in TaskIds : consumer[t] = "none" => consumer'[t] = "none"
  BY DEF ConsumerStep, ConsumerRecv, ConsumerDeliver, ConsumerEnd, TypeInv, TypeOK
<1>3. \A t \in TaskIds : Emitted(t)' = Emitted(t)
  <2>1. CASE ConsumerEnd(c)
    <3>1. UNCHANGED <<queue, hand, consumed>>
      BY <2>1 DEF ConsumerEnd, consumerVars
    <3>2. \A d \in TaskIds : consumer'[d] = "deliver" <=> consumer[d] = "deliver"
      BY <2>1 DEF ConsumerEnd, TypeInv, TypeOK
    <3>3. QED
      BY <3>1, <3>2, EmittedKept
  <2>2. QED
    BY <2>1, EmittedByRecv, EmittedByDeliver DEF ConsumerStep
<1>4. QED
  BY <1>1, <1>2, <1>3 DEF QuietTask

LEMMA QuietOther ==
  ASSUME \/ Tick \/ SetClockBack \/ UNCHANGED vars
         \/ \E i \in Installations : StopMark(i) \/ StopCancelToken(i)
  PROVE  UNCHANGED <<call, task>> /\ \A t \in TaskIds : QuietTask(t)
<1>1. UNCHANGED <<task, call, queue, consumer, hand, consumed>>
  BY DEF Tick, SetClockBack, StopMark, StopCancelToken, vars, callVars, consumerVars
<1>2. QED
  BY <1>1, EmittedKept DEF QuietTask

\* The steps of the scheduler as the proofs below distinguish them.
LEMMA StepCases ==
  ASSUME TypeInv, [Next]_vars
  PROVE  \/ \E i \in Installations, tr \in Triggers : ScheduleValidate(i, tr)
         \/ \E t \in TaskIds : ScheduleInsert(t) \/ EnsureDriver(t) \/ Cancel(t)
         \/ \E i \in Installations : FireSend(i)
         \/ UNCHANGED <<call, task>> /\ \A t \in TaskIds : QuietTask(t)
<1>1. CASE CallerStep
  BY <1>1, QuietOther DEF CallerStep
<1>2. CASE Tick \/ SetClockBack \/ UNCHANGED vars
  BY <1>2, QuietOther
<1>3. CASE \E i \in Installations : DriverStep(i)
  BY <1>3, QuietDriver
<1>4. CASE \E c \in TaskIds : ConsumerStep(c)
  BY <1>4, QuietConsumer
<1>5. QED
  BY <1>1, <1>2, <1>3, <1>4 DEF Next

LEMMA FireStep == Inv /\ [Next]_vars => Inv'
<1> SUFFICES ASSUME Inv, [Next]_vars PROVE Inv'
  OBVIOUS
<1>1. TypeInv'
  BY TypeStep DEF Inv
<1>2. CASE UNCHANGED <<call, task>> /\ \A t \in TaskIds : QuietTask(t)
  BY <1>1, <1>2, FireStutter DEF Inv, QuietTask
<1>3. CASE \E i \in Installations, tr \in Triggers : ScheduleValidate(i, tr)
  BY <1>1, <1>3, FireValidate DEF Inv
<1>4. CASE \E t \in TaskIds : ScheduleInsert(t) \/ EnsureDriver(t) \/ Cancel(t)
  BY <1>1, <1>4, FireInsert, FireEnsure, FireCancel DEF Inv
<1>5. CASE \E i \in Installations : FireSend(i)
  BY <1>1, <1>5, FireFire DEF Inv
<1>6. QED
  BY <1>2, <1>3, <1>4, <1>5, StepCases DEF Inv

LEMMA InvAlways == Spec => []Inv
<1>1. Init => Inv
  BY TypeInit, FireInit DEF Inv
<1>2. QED
  BY <1>1, FireStep, PTL DEF Spec

(***************************************************************************)
(* Every fire is accounted for: a payload's missed count and the entry's   *)
(* missed_fires together say of each sequence number whether it was        *)
(* emitted or missed, whatever the capacity of the channel, the number of  *)
(* tasks, drivers and failures, and however the clock moves.               *)
(***************************************************************************)
THEOREM FiresAccounted == Spec => []EveryFireAccounted
<1>1. Inv => EveryFireAccounted
  BY DEF Inv, FireInv
<1>2. QED
  BY InvAlways, <1>1, PTL

(***************************************************************************)
(* Fires stay on the grid of their trigger: catching up, skipping grid     *)
(* points and losing and respawning drivers never make a task drift.       *)
(***************************************************************************)
THEOREM FiresOnTheGrid == Spec => []OnTheGrid
<1>1. Inv => OnTheGrid
  BY DEF Inv, FireInv
<1>2. QED
  BY InvAlways, <1>1, PTL

\* The step of NoFireAfterStop, for one task.
Frozen(t) == call[t].pc # "idle" /\ stopped[Owner(t)]
               => task'[t] = task[t] /\ Emitted(t)' = Emitted(t)

LEMMA FrozenStep ==
  ASSUME Inv, [Next]_vars, NEW t \in TaskIds
  PROVE  Frozen(t)
<1>1. task \in [TaskIds -> Entries] /\ consumer \in [TaskIds -> {"none", "recv", "deliver", "ended"}]
  BY DEF Inv, TypeInv, TypeOK
<1>2. CASE UNCHANGED <<call, task>> /\ \A u \in TaskIds : QuietTask(u)
  BY <1>2 DEF Frozen, QuietTask
<1>3. CASE \E i \in Installations, tr \in Triggers : ScheduleValidate(i, tr)
  <2>1. UNCHANGED <<task, queue, consumer, hand, consumed>>
    BY <1>3 DEF ScheduleValidate, consumerVars
  <2>2. QED
    BY <2>1, EmittedKept DEF Frozen
<1>4. ASSUME NEW u \in TaskIds, ScheduleInsert(u) \/ Cancel(u)
      PROVE  Frozen(t)
  <2>1. UNCHANGED <<queue, consumer, hand, consumed>>
    BY <1>4 DEF ScheduleInsert, Cancel, consumerVars
  <2>2. \/ task' = task
        \/ ~stopped[Owner(u)] /\ task' = [task EXCEPT ![u] = FirstEntry(u)]
        \/ /\ ~stopped[Owner(u)]
           /\ task' = [task EXCEPT ![u] = Entry("cancelled", task[u].sequence,
                                                task[u].missed, NoFire)]
    <3>1. CASE ScheduleInsert(u)
      BY <3>1, Zenon DEF ScheduleInsert
    <3>2. CASE Cancel(u)
      BY <3>2 DEF Cancel
    <3>3. QED
      BY <1>4, <3>1, <3>2
  <2>3. u # t => task'[t] = task[t]
    BY <1>1, <2>2
  <2>4. QED
    BY <2>1, <2>2, <2>3, EmittedKept DEF Frozen
<1>5. ASSUME NEW u \in TaskIds, EnsureDriver(u)
      PROVE  Frozen(t)
  <2>1. /\ call[u].pc = "inserted"
        /\ consumer' = consumer \/ consumer' = [consumer EXCEPT ![u] = "recv"]
        /\ UNCHANGED <<task, queue, hand, consumed>>
    BY <1>5 DEF EnsureDriver, consumerVars
  <2>2. consumer[u] = "none"
    BY <2>1 DEF Inv, FireInv
  <2>3. \A c \in TaskIds : consumer'[c] = "deliver" <=> consumer[c] = "deliver"
    BY <1>1, <2>1, <2>2
  <2>4. QED
    BY <2>1, <2>3, EmittedKept DEF Frozen
<1>6. ASSUME NEW i \in Installations, FireSend(i)
      PROVE  Frozen(t)
  <2>1. PICK u \in DueTasks(i, driver[i].at) : AcceptFire(i, u) \/ MissFires(i, u)
    BY <1>6 DEF FireSend
  <2>2. /\ driver[i].pc = "send" /\ ~stopped[i] /\ driver[i].channel \in TaskIds
        /\ u \in TaskIds /\ Owner(u) = i /\ task[u].next \in Nat
        /\ UNCHANGED <<consumer, hand, consumed>>
    BY <1>6 DEF FireSend, Inv, TypeInv, WellFormed, consumerVars, DueTasks, ScheduledTasks
  <2>3. CASE t = u
    BY <2>2, <2>3 DEF Frozen
  <2>4. CASE t # u
    <3>1. task'[t] = task[t]
      BY <1>1, <2>1, <2>4 DEF AcceptFire, MissFires
    <3>2. NextPayload(u) \in Payloads /\ NextPayload(u).task = u
      BY <1>1, <2>2 DEF NextPayload, Payloads, Entries
    <3>3. CASE queue' = queue
      BY <2>2, <3>1, <3>3, EmittedKept DEF Frozen
    <3>4. CASE queue' = [queue EXCEPT ![driver[i].channel] = Append(@, NextPayload(u))]
      BY <2>2, <2>4, <3>1, <3>2, <3>4, EmittedByAccept DEF Frozen, Inv
    <3>5. QED
      BY <2>1, <3>3, <3>4 DEF AcceptFire, MissFires
  <2>5. QED
    BY <2>3, <2>4
<1>7. QED
  BY <1>2, <1>3, <1>4, <1>5, <1>6, StepCases DEF Inv

(***************************************************************************)
(* stop is final: after the flag is set no step of a caller, a driver or a *)
(* consumer emits, skips or reschedules a fire of the installation.        *)
(***************************************************************************)
THEOREM StopIsFinal == Spec => NoFireAfterStop
<1>1. Inv /\ [Next]_vars =>
        [\A t \in TaskIds :
           call[t].pc # "idle" /\ stopped[Owner(t)]
             => /\ task'[t] = task[t]
                /\ Emitted(t)' = Emitted(t)]_vars
  BY FrozenStep DEF Frozen
<1>2. QED
  BY InvAlways, <1>1, PTL DEF Spec, NoFireAfterStop

-----------------------------------------------------------------------------
(* What is in a channel, and the order it is in. *)

Contents(c) == Range(queue[c]) \cup {p \in {hand[c]} : consumer[c] = "deliver"}

\* Fires of a task are accepted in the order of their numbers, and a fire that is
\* under way or was handled is not accepted again, by this channel or another.
LineInv ==
  /\ \A c \in TaskIds : \A m, n \in 1..Len(queue[c]) :
       m < n /\ queue[c][m].task = queue[c][n].task
         => queue[c][m].sequence < queue[c][n].sequence
  /\ \A c \in TaskIds : consumer[c] = "deliver" =>
       \A p \in Range(queue[c]) : p.task = hand[c].task => hand[c].sequence < p.sequence
  /\ \A c, d \in TaskIds : c # d =>
       \A p \in Contents(c), q \in Contents(d) : p.task = q.task => p.sequence # q.sequence
  /\ \A t \in TaskIds : \A q \in consumed[t], p \in InFlight :
       p.task = t => p.sequence # q.sequence

LEMMA InFlightIsContents == InFlight = UNION {Contents(c) : c \in TaskIds}
BY DEF InFlight, Contents

LEMMA ContentsTyped ==
  ASSUME TypeInv, NEW c \in TaskIds
  PROVE  Contents(c) \subseteq Payloads
<1>1. Range(queue[c]) \subseteq Payloads
  BY DEF TypeInv, TypeOK, Range
<1> QED BY <1>1 DEF Contents, TypeInv, TypeOK

\* A payload under way has a number its task has used up.
LEMMA ContentsAreUsed ==
  ASSUME Inv, NEW c \in TaskIds, NEW p \in Contents(c)
  PROVE  p.task \in TaskIds /\ p.sequence \in Nat \ {0} /\ p.sequence < task[p.task].sequence
<1>1. p \in Payloads
  BY ContentsTyped DEF Inv
<1>2. p.task \in TaskIds /\ p.sequence \in Nat \ {0}
  BY <1>1 DEF Payloads
<1>3. p \in InFlight
  BY InFlightIsContents
<1>4. p \in Emitted(p.task)
  BY <1>3 DEF Emitted
<1> QED BY <1>2, <1>4 DEF Inv, FireInv

\* What a step does to the channels: nothing, or one of three things.
ChannelsKept ==
  /\ UNCHANGED <<queue, hand, consumed>>
  /\ \A c \in TaskIds : consumer'[c] = "deliver" <=> consumer[c] = "deliver"

Accepts(i, t) ==
  LET c == driver[i].channel IN
  /\ driver[i].pc = "send" /\ c \in TaskIds
  /\ t \in TaskIds /\ Owner(t) = i
  /\ task[t].state = "scheduled"
  /\ queue' = [queue EXCEPT ![c] = Append(@, NextPayload(t))]
  /\ UNCHANGED <<consumer, hand, consumed>>

LEMMA ChannelSteps ==
  ASSUME Inv, [Next]_vars
  PROVE  \/ ChannelsKept
         \/ \E i \in Installations, t \in TaskIds : FireSend(i) /\ Accepts(i, t)
         \/ \E c \in TaskIds : ConsumerRecv(c)
         \/ \E c \in TaskIds : ConsumerDeliver(c)
<1>1. consumer \in [TaskIds -> {"none", "recv", "deliver", "ended"}]
  BY DEF Inv, TypeInv, TypeOK
<1>2. CASE Tick \/ SetClockBack \/ UNCHANGED vars
  BY <1>2 DEF Tick, SetClockBack, vars, consumerVars, ChannelsKept
<1>3. CASE CallerStep
  <2>1. CASE \E i \in Installations, tr \in Triggers : ScheduleValidate(i, tr)
    BY <2>1 DEF ScheduleValidate, consumerVars, ChannelsKept
  <2>2. ASSUME NEW t \in TaskIds, EnsureDriver(t)
        PROVE  ChannelsKept
    <3>1. /\ call[t].pc = "inserted"
          /\ consumer' = consumer \/ consumer' = [consumer EXCEPT ![t] = "recv"]
          /\ UNCHANGED <<queue, hand, consumed>>
      BY <2>2 DEF EnsureDriver, consumerVars
    <3>2. consumer[t] = "none"
      BY <3>1 DEF Inv, FireInv
    <3> QED BY <1>1, <3>1, <3>2 DEF ChannelsKept
  <2>3. CASE \E t \in TaskIds : ScheduleInsert(t) \/ Cancel(t)
    BY <2>3 DEF ScheduleInsert, Cancel, consumerVars, ChannelsKept
  <2>4. CASE \E i \in Installations : StopMark(i) \/ StopCancelToken(i)
    BY <2>4 DEF StopMark, StopCancelToken, consumerVars, ChannelsKept
  <2> QED BY <1>3, <2>1, <2>2, <2>3, <2>4 DEF CallerStep
<1>4. ASSUME NEW i \in Installations, DriverStep(i), ~FireSend(i)
      PROVE  ChannelsKept
  BY <1>4 DEF DriverStep, DriverScan, DriverClock, DriverCancelled, DriverWoken, DriverSlept,
              FireReadClock, FireLock, FireUnlock, DriverExit, consumerVars, ChannelsKept
<1>5. ASSUME NEW i \in Installations, FireSend(i)
      PROVE  ChannelsKept \/ \E t \in TaskIds : FireSend(i) /\ Accepts(i, t)
  <2>1. PICK t \in DueTasks(i, driver[i].at) : AcceptFire(i, t) \/ MissFires(i, t)
    BY <1>5 DEF FireSend
  <2>2. /\ driver[i].pc = "send" /\ driver[i].channel \in TaskIds
        /\ t \in TaskIds /\ Owner(t) = i /\ task[t].state = "scheduled"
        /\ UNCHANGED <<consumer, hand, consumed>>
    BY <1>5 DEF FireSend, Inv, TypeInv, WellFormed, consumerVars, DueTasks, ScheduledTasks
  <2>3. CASE AcceptFire(i, t)
    BY <1>5, <2>2, <2>3 DEF AcceptFire, Accepts
  <2>4. CASE MissFires(i, t)
    BY <2>2, <2>4 DEF MissFires, ChannelsKept
  <2> QED BY <2>1, <2>3, <2>4
<1>6. CASE \E c \in TaskIds : ConsumerEnd(c)
  BY <1>1, <1>6 DEF ConsumerEnd, consumerVars, ChannelsKept
<1> QED BY <1>2, <1>3, <1>4, <1>5, <1>6 DEF Next, ConsumerStep

LEMMA KeptContents ==
  ASSUME ChannelsKept
  PROVE  InFlight' = InFlight /\ \A c \in TaskIds : Contents(c)' = Contents(c)
BY DEF ChannelsKept, InFlight, Contents

\* What an accepted fire adds, and where.
LEMMA AcceptedContents ==
  ASSUME Inv, NEW i \in Installations, NEW t \in TaskIds, Accepts(i, t),
         NEW c, c = driver[i].channel
  PROVE  /\ NextPayload(t) \in Payloads
         /\ NextPayload(t).task = t /\ NextPayload(t).sequence = task[t].sequence
         /\ Range(queue'[c]) = Range(queue[c]) \cup {NextPayload(t)}
         /\ Contents(c)' = Contents(c) \cup {NextPayload(t)}
         /\ \A d \in TaskIds : d # c => queue'[d] = queue[d] /\ Contents(d)' = Contents(d)
         /\ InFlight' = InFlight \cup {NextPayload(t)}
<1>1. /\ task \in [TaskIds -> Entries] /\ queue \in [TaskIds -> Seq(Payloads)]
      /\ task[t].state = "scheduled" /\ c \in TaskIds
      /\ UNCHANGED <<consumer, hand, consumed>>
      /\ queue' = [queue EXCEPT ![c] = Append(queue[c], NextPayload(t))]
  BY DEF Inv, TypeInv, TypeOK, Accepts
<1>2. task[t].next \in Nat /\ task[t].sequence \in Nat \ {0} /\ task[t].missed \in Nat
  BY <1>1 DEF Inv, TypeInv, WellFormed, Entries
<1>3. /\ NextPayload(t) \in Payloads
      /\ NextPayload(t).task = t /\ NextPayload(t).sequence = task[t].sequence
  BY <1>2 DEF NextPayload, Payloads
<1>4. /\ Range(queue'[c]) = Range(queue[c]) \cup {NextPayload(t)}
      /\ \A d \in TaskIds : d # c => queue'[d] = queue[d]
  BY <1>1, <1>3, RangeOfAppend
<1>5. /\ Contents(c)' = Contents(c) \cup {NextPayload(t)}
      /\ \A d \in TaskIds : d # c => Contents(d)' = Contents(d)
  BY <1>1, <1>4 DEF Contents
<1>6. InFlight' = UNION {Contents(d)' : d \in TaskIds}
  BY DEF InFlight, Contents
<1>7. InFlight' = InFlight \cup {NextPayload(t)}
  BY <1>1, <1>5, <1>6, InFlightIsContents
<1> QED BY <1>3, <1>4, <1>5, <1>7

LEMMA ReceivedContents ==
  ASSUME TypeInv, NEW c \in TaskIds, ConsumerRecv(c)
  PROVE  /\ queue[c] # <<>> /\ consumer[c] = "recv"
         /\ hand'[c] = Head(queue[c]) /\ queue'[c] = Tail(queue[c]) /\ consumer'[c] = "deliver"
         /\ \A d \in TaskIds : d # c => /\ queue'[d] = queue[d] /\ hand'[d] = hand[d]
                                        /\ consumer'[d] = consumer[d]
         /\ Range(queue[c]) = {Head(queue[c])} \cup Range(queue'[c])
         /\ \A d \in TaskIds : Contents(d)' = Contents(d)
         /\ InFlight' = InFlight /\ UNCHANGED <<consumed, task, call>>
<1>1. /\ queue \in [TaskIds -> Seq(Payloads)]
      /\ hand \in [TaskIds -> Payloads \cup {NoPayload}]
      /\ consumer \in [TaskIds -> {"none", "recv", "deliver", "ended"}]
  BY DEF TypeInv, TypeOK
<1>2. /\ consumer[c] = "recv" /\ queue[c] # <<>>
      /\ hand' = [hand EXCEPT ![c] = Head(queue[c])]
      /\ queue' = [queue EXCEPT ![c] = Tail(queue[c])]
      /\ consumer' = [consumer EXCEPT ![c] = "deliver"]
      /\ UNCHANGED <<consumed, task, call>>
  BY DEF ConsumerRecv, callVars
<1>3. /\ hand'[c] = Head(queue[c]) /\ queue'[c] = Tail(queue[c]) /\ consumer'[c] = "deliver"
      /\ \A d \in TaskIds : d # c => /\ queue'[d] = queue[d] /\ hand'[d] = hand[d]
                                     /\ consumer'[d] = consumer[d]
  BY <1>1, <1>2
<1>4. Range(queue[c]) = {Head(queue[c])} \cup Range(queue'[c])
  BY <1>1, <1>2, <1>3, RangeOfHeadAndTail
<1>5. Contents(c)' = Contents(c)
  BY <1>2, <1>3, <1>4 DEF Contents
<1>6. \A d \in TaskIds : Contents(d)' = Contents(d)
  BY <1>3, <1>5 DEF Contents
<1>7. InFlight' = UNION {Contents(d)' : d \in TaskIds}
  BY DEF InFlight, Contents
<1>8. InFlight' = InFlight
  BY <1>6, <1>7, InFlightIsContents
<1> QED BY <1>2, <1>3, <1>4, <1>6, <1>8

LEMMA DeliveredContents ==
  ASSUME TypeInv, NEW c \in TaskIds, ConsumerDeliver(c)
  PROVE  /\ consumer[c] = "deliver" /\ hand[c] \in Contents(c) /\ hand[c] \in Payloads
         /\ consumer'[c] = "recv" /\ queue' = queue
         /\ \A d \in TaskIds : d # c => hand'[d] = hand[d] /\ consumer'[d] = consumer[d]
         /\ Contents(c)' = Range(queue[c]) /\ Contents(c)' \subseteq Contents(c)
         /\ \A d \in TaskIds : d # c => Contents(d)' = Contents(d)
         /\ InFlight' \subseteq InFlight /\ InFlight \subseteq InFlight' \cup {hand[c]}
         /\ \A t \in TaskIds : consumed'[t] = IF t = hand[c].task THEN consumed[t] \cup {hand[c]}
                                              ELSE consumed[t]
         /\ UNCHANGED <<task, call>>
<1>1. /\ hand \in [TaskIds -> Payloads \cup {NoPayload}]
      /\ consumer \in [TaskIds -> {"none", "recv", "deliver", "ended"}]
      /\ consumed \in [TaskIds -> SUBSET Payloads]
  BY DEF TypeInv, TypeOK
<1>2. /\ consumer[c] = "deliver"
      /\ consumed' = [consumed EXCEPT ![hand[c].task] = @ \cup {hand[c]}]
      /\ hand' = [hand EXCEPT ![c] = NoPayload]
      /\ consumer' = [consumer EXCEPT ![c] = "recv"]
      /\ queue' = queue /\ UNCHANGED <<task, call>>
  BY DEF ConsumerDeliver, callVars
<1>3. hand[c] \in Payloads /\ hand[c].task \in TaskIds
  BY <1>2 DEF TypeInv, TypeOK, Payloads
<1>4. /\ consumer'[c] = "recv"
      /\ \A d \in TaskIds : d # c => hand'[d] = hand[d] /\ consumer'[d] = consumer[d]
  BY <1>1, <1>2
<1>5. /\ Contents(c)' = Range(queue[c]) /\ Contents(c) = Contents(c)' \cup {hand[c]}
      /\ \A d \in TaskIds : d # c => Contents(d)' = Contents(d)
  BY <1>2, <1>4 DEF Contents
<1>6. InFlight' = UNION {Contents(d)' : d \in TaskIds}
  BY DEF InFlight, Contents
<1>7. InFlight' \subseteq InFlight /\ InFlight \subseteq InFlight' \cup {hand[c]}
  BY <1>5, <1>6, InFlightIsContents
<1>8. \A t \in TaskIds : consumed'[t] = IF t = hand[c].task THEN consumed[t] \cup {hand[c]}
                                        ELSE consumed[t]
  BY <1>1, <1>2, <1>3
<1> QED BY <1>2, <1>3, <1>4, <1>5, <1>7, <1>8

\* No payload under way comes again: the next one of a task has the task's own number.
LEMMA AcceptKeepsLine ==
  ASSUME Inv, LineInv, NEW i \in Installations, NEW t \in TaskIds, Accepts(i, t)
  PROVE  LineInv'
<1> PICK c \in TaskIds : c = driver[i].channel
  BY DEF Accepts
<1> PICK p : p = NextPayload(t)
  OBVIOUS
<1>1. /\ p \in Payloads /\ p.task = t /\ p.sequence = task[t].sequence
      /\ Range(queue'[c]) = Range(queue[c]) \cup {p}
      /\ Contents(c)' = Contents(c) \cup {p}
      /\ \A d \in TaskIds : d # c => queue'[d] = queue[d] /\ Contents(d)' = Contents(d)
      /\ InFlight' = InFlight \cup {p}
  BY AcceptedContents
<1>2. /\ queue \in [TaskIds -> Seq(Payloads)]
      /\ UNCHANGED <<consumer, hand, consumed>>
      /\ queue' = [queue EXCEPT ![c] = Append(queue[c], p)]
      /\ task[t].sequence \in Nat
  BY <1>1 DEF Inv, TypeInv, TypeOK, Accepts, Payloads
<1>3. \A d \in TaskIds : \A q \in Contents(d) :
        q.task = t => q.sequence \in Nat /\ q.sequence < p.sequence
  BY <1>1, ContentsAreUsed
<1>4. \A q \in consumed[t] : q.sequence # p.sequence
  <2>1. consumed[t] \subseteq Emitted(t)
    BY DEF Emitted
  <2>2. \A q \in Emitted(t) : q.sequence \in Nat /\ q.sequence < task[t].sequence
    BY EmittedTyped DEF Inv, FireInv, Payloads
  <2> QED BY <1>1, <1>2, <2>1, <2>2
<1>5. /\ queue'[c] = Append(queue[c], p) /\ Len(queue'[c]) = Len(queue[c]) + 1
      /\ Len(queue[c]) \in Nat
      /\ queue'[c][Len(queue[c]) + 1] = p
      /\ \A m \in 1..Len(queue[c]) : queue'[c][m] = queue[c][m] /\ queue[c][m] \in Contents(c)
  BY <1>2 DEF Contents, Range
<1>6. ASSUME NEW d \in TaskIds, NEW m \in 1..Len(queue'[d]), NEW n \in 1..Len(queue'[d]),
             m < n, queue'[d][m].task = queue'[d][n].task
      PROVE  queue'[d][m].sequence < queue'[d][n].sequence
  <2>1. CASE d # c
    BY <1>1, <1>6, <2>1 DEF LineInv
  <2>2. CASE d = c /\ n <= Len(queue[c])
    <3>1. m \in 1..Len(queue[c]) /\ n \in 1..Len(queue[c])
      BY <1>5, <1>6, <2>2
    <3> QED BY <1>5, <1>6, <2>2, <3>1 DEF LineInv
  <2>3. CASE d = c /\ n = Len(queue[c]) + 1
    <3>1. m \in 1..Len(queue[c]) /\ queue'[c][n] = p
      BY <1>5, <1>6, <2>3
    <3>2. queue'[c][m] \in Contents(c) /\ queue'[c][m].task = t
      BY <1>1, <1>5, <1>6, <2>3, <3>1
    <3> QED BY <1>1, <1>3, <2>3, <3>1, <3>2
  <2> QED BY <1>5, <2>1, <2>2, <2>3
<1>7. ASSUME NEW d \in TaskIds, consumer[d] = "deliver", NEW q \in Range(queue'[d]),
             q.task = hand[d].task
      PROVE  hand[d].sequence < q.sequence
  <2>1. CASE d # c \/ q \in Range(queue[d])
    BY <1>1, <1>7, <2>1 DEF LineInv
  <2>2. CASE d = c /\ q = p
    <3>1. hand[c] \in Contents(c)
      BY <1>7, <2>2 DEF Contents
    <3> QED BY <1>1, <1>3, <1>7, <2>2, <3>1
  <2> QED BY <1>1, <2>1, <2>2
<1>8. ASSUME NEW d \in TaskIds, NEW e \in TaskIds, d # e,
             NEW q \in Contents(d)', NEW r \in Contents(e)', q.task = r.task
      PROVE  q.sequence # r.sequence
  <2>1. CASE q \in Contents(d) /\ r \in Contents(e)
    BY <1>8, <2>1 DEF LineInv
  <2>2. CASE d = c /\ q = p
    <3>1. r \in Contents(e)
      BY <1>1, <1>8, <2>2
    <3> QED BY <1>1, <1>2, <1>3, <1>8, <2>2, <3>1
  <2>3. CASE e = c /\ r = p
    <3>1. q \in Contents(d)
      BY <1>1, <1>8, <2>3
    <3> QED BY <1>1, <1>2, <1>3, <1>8, <2>3, <3>1
  <2> QED BY <1>1, <2>1, <2>2, <2>3
<1>9. ASSUME NEW u \in TaskIds, NEW q \in consumed[u], NEW r \in InFlight', r.task = u
      PROVE  r.sequence # q.sequence
  <2>1. CASE r \in InFlight
    BY <1>9, <2>1 DEF LineInv
  <2>2. CASE r = p
    BY <1>1, <1>4, <1>9, <2>2
  <2> QED BY <1>1, <2>1, <2>2
<1> QED BY <1>2, <1>6, <1>7, <1>8, <1>9 DEF LineInv

LEMMA RecvKeepsLine ==
  ASSUME Inv, LineInv, NEW c \in TaskIds, ConsumerRecv(c)
  PROVE  LineInv'
<1>1. /\ queue[c] # <<>> /\ consumer[c] = "recv"
      /\ hand'[c] = Head(queue[c]) /\ queue'[c] = Tail(queue[c])
      /\ \A d \in TaskIds : d # c => /\ queue'[d] = queue[d] /\ hand'[d] = hand[d]
                                     /\ consumer'[d] = consumer[d]
      /\ \A d \in TaskIds : Contents(d)' = Contents(d)
      /\ InFlight' = InFlight /\ consumed' = consumed
  BY ReceivedContents DEF Inv
<1>2. queue[c] \in Seq(Payloads)
  BY DEF Inv, TypeInv, TypeOK
<1>3. /\ Len(queue'[c]) = Len(queue[c]) - 1 /\ Len(queue[c]) \in Nat \ {0}
      /\ \A m \in 1..Len(queue'[c]) :
           m + 1 \in 1..Len(queue[c]) /\ queue'[c][m] = queue[c][m + 1]
      /\ hand'[c] = queue[c][1]
  BY <1>1, <1>2
<1>4. ASSUME NEW d \in TaskIds, NEW m \in 1..Len(queue'[d]), NEW n \in 1..Len(queue'[d]),
             m < n, queue'[d][m].task = queue'[d][n].task
      PROVE  queue'[d][m].sequence < queue'[d][n].sequence
  <2>1. CASE d # c
    BY <1>1, <1>4, <2>1 DEF LineInv
  <2>2. CASE d = c
    <3>1. /\ m + 1 \in 1..Len(queue[c]) /\ n + 1 \in 1..Len(queue[c]) /\ m + 1 < n + 1
          /\ queue'[c][m] = queue[c][m + 1] /\ queue'[c][n] = queue[c][n + 1]
      <4>1. m \in 1..Len(queue'[c]) /\ n \in 1..Len(queue'[c])
        BY <2>2
      <4>2. m + 1 < n + 1
        BY <1>3, <1>4, <4>1
      <4> QED BY <1>3, <4>1, <4>2
    <3>2. queue[c][m + 1].task = queue[c][n + 1].task
      BY <1>4, <2>2, <3>1
    <3>3. queue[c][m + 1].sequence < queue[c][n + 1].sequence
      <4>1. \A a, b \in 1..Len(queue[c]) :
              a < b /\ queue[c][a].task = queue[c][b].task
                => queue[c][a].sequence < queue[c][b].sequence
        BY DEF LineInv
      <4> QED BY <3>1, <3>2, <4>1, Zenon
    <3> QED BY <2>2, <3>1, <3>3
  <2> QED BY <2>1, <2>2
<1>5. ASSUME NEW d \in TaskIds, consumer'[d] = "deliver", NEW q \in Range(queue'[d]),
             q.task = hand'[d].task
      PROVE  hand'[d].sequence < q.sequence
  <2>1. CASE d # c
    BY <1>1, <1>5, <2>1 DEF LineInv
  <2>2. CASE d = c
    <3>4. DOMAIN queue'[c] = 1..Len(queue'[c])
      BY <1>1, <1>2
    <3>1. PICK m \in 1..Len(queue'[c]) : q = queue'[c][m]
      BY <1>5, <2>2, <3>4 DEF Range
    <3>2. /\ 1 \in 1..Len(queue[c]) /\ m + 1 \in 1..Len(queue[c]) /\ 1 < m + 1
          /\ q = queue[c][m + 1]
      BY <1>3, <3>1
    <3> QED BY <1>3, <1>5, <2>2, <3>2 DEF LineInv
  <2> QED BY <2>1, <2>2
<1>6. \A d, e \in TaskIds : d # e =>
        \A p \in Contents(d)', q \in Contents(e)' : p.task = q.task => p.sequence # q.sequence
  BY <1>1 DEF LineInv
<1>7. \A t \in TaskIds : \A q \in consumed'[t], p \in InFlight' :
        p.task = t => p.sequence # q.sequence
  BY <1>1 DEF LineInv
<1> QED BY <1>4, <1>5, <1>6, <1>7 DEF LineInv

\* The payload in hand differs from every other one that is under way.
LEMMA HandIsAlone ==
  ASSUME Inv, LineInv, NEW c \in TaskIds, consumer[c] = "deliver",
         NEW d \in TaskIds, NEW p, p \in Range(queue[d]) \/ (d # c /\ p \in Contents(d)),
         p.task = hand[c].task
  PROVE  p.sequence # hand[c].sequence
<1>1. hand[c] \in Contents(c)
  BY DEF Contents
<1>2. CASE d = c
  <2>1. p \in Contents(c) /\ hand[c].sequence < p.sequence
    BY <1>2 DEF LineInv, Contents
  <2>2. p.sequence \in Nat /\ hand[c].sequence \in Nat
    BY <1>1, <2>1, ContentsAreUsed
  <2> QED BY <2>1, <2>2
<1>3. CASE d # c
  <2>1. p \in Contents(d)
    BY DEF Contents
  <2> QED BY <1>1, <1>3, <2>1 DEF LineInv
<1> QED BY <1>2, <1>3

LEMMA DeliverKeepsLine ==
  ASSUME Inv, LineInv, NEW c \in TaskIds, ConsumerDeliver(c)
  PROVE  LineInv' /\ hand[c].sequence \notin {q.sequence : q \in consumed[hand[c].task]}
         /\ \A p \in InFlight' : p.task = hand[c].task => p.sequence # hand[c].sequence
<1>1. /\ consumer[c] = "deliver" /\ hand[c] \in Contents(c) /\ hand[c] \in Payloads
      /\ consumer'[c] = "recv" /\ queue' = queue
      /\ \A d \in TaskIds : d # c => hand'[d] = hand[d] /\ consumer'[d] = consumer[d]
      /\ Contents(c)' = Range(queue[c]) /\ Contents(c)' \subseteq Contents(c)
      /\ \A d \in TaskIds : d # c => Contents(d)' = Contents(d)
      /\ InFlight' \subseteq InFlight
      /\ \A t \in TaskIds : consumed'[t] = IF t = hand[c].task THEN consumed[t] \cup {hand[c]}
                                           ELSE consumed[t]
  BY DeliveredContents DEF Inv
<1>2. ASSUME NEW p \in InFlight', p.task = hand[c].task
      PROVE  p.sequence # hand[c].sequence
  <2>1. InFlight' = UNION {Contents(d)' : d \in TaskIds}
    BY DEF InFlight, Contents
  <2>2. PICK d \in TaskIds : p \in Contents(d)'
    BY <2>1
  <2>3. p \in Range(queue[d]) \/ (d # c /\ p \in Contents(d))
    BY <1>1, <2>2
  <2> QED BY <1>1, <1>2, <2>3, HandIsAlone
<1>3. \A d \in TaskIds : \A m, n \in 1..Len(queue'[d]) :
        m < n /\ queue'[d][m].task = queue'[d][n].task
          => queue'[d][m].sequence < queue'[d][n].sequence
  BY <1>1 DEF LineInv
<1>4. \A d \in TaskIds : consumer'[d] = "deliver" =>
        \A p \in Range(queue'[d]) : p.task = hand'[d].task => hand'[d].sequence < p.sequence
  BY <1>1 DEF LineInv
<1>5. \A d, e \in TaskIds : d # e =>
        \A p \in Contents(d)', q \in Contents(e)' : p.task = q.task => p.sequence # q.sequence
  <2>1. \A d \in TaskIds : Contents(d)' \subseteq Contents(d)
    BY <1>1
  <2> QED BY <2>1 DEF LineInv
<1>6. ASSUME NEW t \in TaskIds, NEW q \in consumed'[t], NEW p \in InFlight', p.task = t
      PROVE  p.sequence # q.sequence
  <2>1. CASE q \in consumed[t]
    BY <1>1, <1>6, <2>1 DEF LineInv
  <2>2. CASE t = hand[c].task /\ q = hand[c]
    BY <1>2, <1>6, <2>2
  <2> QED BY <1>1, <2>1, <2>2
<1>7. hand[c].sequence \notin {q.sequence : q \in consumed[hand[c].task]}
  <2>1. hand[c] \in InFlight /\ hand[c].task \in TaskIds
    BY <1>1, InFlightIsContents DEF Payloads
  <2> QED BY <2>1 DEF LineInv
<1> QED BY <1>2, <1>3, <1>4, <1>5, <1>6, <1>7 DEF LineInv

LEMMA LineStep == Inv /\ LineInv /\ [Next]_vars => LineInv'
<1> SUFFICES ASSUME Inv, LineInv, [Next]_vars PROVE LineInv'
  OBVIOUS
<1>1. CASE ChannelsKept
  <2>1. InFlight' = InFlight /\ \A c \in TaskIds : Contents(c)' = Contents(c)
    BY <1>1, KeptContents
  <2>2. /\ UNCHANGED <<queue, hand, consumed>>
        /\ \A c \in TaskIds : consumer'[c] = "deliver" <=> consumer[c] = "deliver"
    BY <1>1 DEF ChannelsKept
  <2>3. \A d, e \in TaskIds : d # e =>
          \A p \in Contents(d)', q \in Contents(e)' : p.task = q.task => p.sequence # q.sequence
    BY <2>1 DEF LineInv
  <2>4. \A t \in TaskIds : \A q \in consumed'[t], p \in InFlight' :
          p.task = t => p.sequence # q.sequence
    BY <2>1, <2>2 DEF LineInv
  <2> QED BY <2>2, <2>3, <2>4 DEF LineInv
<1> QED BY <1>1, ChannelSteps, AcceptKeepsLine, RecvKeepsLine, DeliverKeepsLine

LEMMA LineInit == Init => LineInv
<1> SUFFICES ASSUME Init PROVE LineInv
  OBVIOUS
<1>1. \A c \in TaskIds : queue[c] = <<>> /\ consumer[c] = "none" /\ consumed[c] = {}
  BY DEF Init
<1>2. \A c \in TaskIds : Contents(c) = {}
  BY <1>1 DEF Contents, Range
<1> QED BY <1>1, <1>2, InFlightIsContents DEF LineInv

LEMMA LineAlways == Spec => [](Inv /\ LineInv)
BY InvAlways, LineInit, LineStep, PTL DEF Spec

-----------------------------------------------------------------------------
(* The ledger of fires. *)

Status(t) == CASE task[t].state = "absent" -> "new"
               [] task[t].state = "scheduled" /\ ~stopped[Owner(t)] -> "open"
               [] OTHER -> "closed"
Fired(t) == task[t].sequence - 1
Accepted(t) == {p.sequence : p \in {q \in InFlight : q.task = t}}
Handled(t) == {p.sequence : p \in consumed[t]}

StatusKept(t) == Status(t)' = Status(t)
CountKept(t) == Fired(t)' = Fired(t)
PayloadsKept(t) == Accepted(t)' = Accepted(t) /\ Handled(t)' = Handled(t)

LEMMA LedgerStays ==
  ASSUME \A t \in TaskIds : StatusKept(t) /\ CountKept(t) /\ PayloadsKept(t)
  PROVE  UNCHANGED Ledger!vars
<1>1. UNCHANGED [t \in TaskIds |-> Status(t)]
  BY DEF StatusKept
<1>2. UNCHANGED [t \in TaskIds |-> Fired(t)]
  BY DEF CountKept
<1>3. UNCHANGED [t \in TaskIds |-> Accepted(t)] /\ UNCHANGED [t \in TaskIds |-> Handled(t)]
  BY DEF PayloadsKept
<1> QED BY <1>1, <1>2, <1>3, Zenon DEF Ledger!vars, Status, Fired, Accepted, Handled

LEMMA LedgerOpens ==
  ASSUME NEW t \in TaskIds, Status(t) = "new", Status(t)' = "open",
         \A u \in TaskIds : u # t => StatusKept(u),
         \A u \in TaskIds : CountKept(u) /\ PayloadsKept(u)
  PROVE  Ledger!Open(t)
<1>1. /\ [u \in TaskIds |-> Status(u)][t] = "new"
      /\ [u \in TaskIds |-> Status(u)]' = [[u \in TaskIds |-> Status(u)] EXCEPT ![t] = "open"]
  BY DEF StatusKept
<1>2. UNCHANGED [u \in TaskIds |-> Fired(u)]
  BY DEF CountKept
<1>3. UNCHANGED [u \in TaskIds |-> Accepted(u)] /\ UNCHANGED [u \in TaskIds |-> Handled(u)]
  BY DEF PayloadsKept
<1> QED BY <1>1, <1>2, <1>3, Zenon DEF Ledger!Open, Status, Fired, Accepted, Handled

LEMMA LedgerCloses ==
  ASSUME NEW S \in SUBSET TaskIds,
         \A t \in S : Status(t) = "open" /\ Status(t)' = "closed",
         \A t \in TaskIds \ S : StatusKept(t),
         \A t \in TaskIds : CountKept(t) /\ PayloadsKept(t)
  PROVE  Ledger!Close(S)
<1>1. /\ \A t \in S : [u \in TaskIds |-> Status(u)][t] = "open"
      /\ [t \in TaskIds |-> Status(t)]' =
           [t \in TaskIds |-> IF t \in S THEN "closed" ELSE [u \in TaskIds |-> Status(u)][t]]
  BY DEF StatusKept
<1>2. UNCHANGED [u \in TaskIds |-> Fired(u)]
  BY DEF CountKept
<1>3. UNCHANGED [u \in TaskIds |-> Accepted(u)] /\ UNCHANGED [u \in TaskIds |-> Handled(u)]
  BY DEF PayloadsKept
<1> QED BY <1>1, <1>2, <1>3, Zenon DEF Ledger!Close, Status, Fired, Accepted, Handled

\* A fire of t ends its task or not, and leaves every other task alone.
Fires(t) == /\ Status(t) = "open" /\ Status(t)' \in {"open", "closed"}
            /\ \A u \in TaskIds : u # t => StatusKept(u) /\ CountKept(u)
            /\ \A u \in TaskIds : Handled(u)' = Handled(u)

LEMMA LedgerMayClose ==
  ASSUME NEW t \in TaskIds, Fires(t)
  PROVE  Ledger!MayClose(t)
<1>1. [u \in TaskIds |-> Status(u)]' \in
        {[u \in TaskIds |-> Status(u)],
         [[u \in TaskIds |-> Status(u)] EXCEPT ![t] = "closed"]}
  <2>1. CASE Status(t)' = "open"
    BY <2>1 DEF Fires, StatusKept
  <2>2. CASE Status(t)' = "closed"
    BY <2>2 DEF Fires, StatusKept
  <2> QED BY <2>1, <2>2 DEF Fires
<1> QED BY <1>1, Zenon DEF Ledger!MayClose, Status

LEMMA LedgerAccepts ==
  ASSUME NEW t \in TaskIds, Fires(t), Fired(t)' = Fired(t) + 1,
         Accepted(t)' = Accepted(t) \cup {Fired(t) + 1},
         \A u \in TaskIds : u # t => Accepted(u)' = Accepted(u)
  PROVE  Ledger!Accept(t)
<1>1. [u \in TaskIds |-> Status(u)][t] = "open"
  BY DEF Fires
<1>2. [u \in TaskIds |-> Fired(u)]' =
        [[u \in TaskIds |-> Fired(u)] EXCEPT ![t] = [u \in TaskIds |-> Fired(u)][t] + 1]
  BY DEF Fires, CountKept
<1>3. [u \in TaskIds |-> Accepted(u)]' =
        [[u \in TaskIds |-> Accepted(u)] EXCEPT ![t] =
           [u \in TaskIds |-> Accepted(u)][t] \cup {[u \in TaskIds |-> Fired(u)][t] + 1}]
  OBVIOUS
<1>4. UNCHANGED [u \in TaskIds |-> Handled(u)]
  BY DEF Fires
<1> QED BY <1>1, <1>2, <1>3, <1>4, LedgerMayClose, Zenon
        DEF Ledger!Accept, Status, Fired, Accepted, Handled

LEMMA LedgerMisses ==
  ASSUME NEW t \in TaskIds, Fires(t), Fired(t)' > Fired(t),
         \A u \in TaskIds : Accepted(u)' = Accepted(u)
  PROVE  Ledger!Miss(t)
<1>1. [u \in TaskIds |-> Status(u)][t] = "open"
  BY DEF Fires
<1>2. /\ [u \in TaskIds |-> Fired(u)]'[t] > [u \in TaskIds |-> Fired(u)][t]
      /\ [u \in TaskIds |-> Fired(u)]' =
           [[u \in TaskIds |-> Fired(u)] EXCEPT ![t] = [u \in TaskIds |-> Fired(u)]'[t]]
  BY DEF Fires, CountKept
<1>3. UNCHANGED [u \in TaskIds |-> Accepted(u)] /\ UNCHANGED [u \in TaskIds |-> Handled(u)]
  BY DEF Fires
<1> QED BY <1>1, <1>2, <1>3, LedgerMayClose, Zenon
        DEF Ledger!Miss, Status, Fired, Accepted, Handled

LEMMA LedgerHandles ==
  ASSUME NEW t \in TaskIds, NEW n \in Accepted(t) \ Handled(t),
         Accepted(t)' = Accepted(t) \ {n}, Handled(t)' = Handled(t) \cup {n},
         \A u \in TaskIds : u # t => PayloadsKept(u),
         \A u \in TaskIds : StatusKept(u) /\ CountKept(u)
  PROVE  Ledger!Handle(t)
<1>1. n \in [u \in TaskIds |-> Accepted(u)][t] \ [u \in TaskIds |-> Handled(u)][t]
  OBVIOUS
<1>2. /\ [u \in TaskIds |-> Accepted(u)]' =
           [[u \in TaskIds |-> Accepted(u)] EXCEPT ![t] =
              [u \in TaskIds |-> Accepted(u)][t] \ {n}]
      /\ [u \in TaskIds |-> Handled(u)]' =
           [[u \in TaskIds |-> Handled(u)] EXCEPT ![t] =
              [u \in TaskIds |-> Handled(u)][t] \cup {n}]
  BY DEF PayloadsKept
<1>3. UNCHANGED [u \in TaskIds |-> Status(u)] /\ UNCHANGED [u \in TaskIds |-> Fired(u)]
  BY DEF StatusKept, CountKept
<1> QED BY <1>1, <1>2, <1>3, Zenon DEF Ledger!Handle, Status, Fired, Accepted, Handled

\* Steps that touch neither the entries nor the payloads are no steps of the ledger.
LEMMA TablesKept ==
  ASSUME UNCHANGED <<task, consumed>>, InFlight' = InFlight,
         \A t \in TaskIds : task[t].state = "absent" \/ stopped'[Owner(t)'] = stopped[Owner(t)]
  PROVE  UNCHANGED Ledger!vars
<1>1. \A t \in TaskIds : StatusKept(t)
  BY DEF StatusKept, Status
<1>2. \A t \in TaskIds : CountKept(t) /\ PayloadsKept(t)
  BY DEF CountKept, PayloadsKept, Fired, Accepted, Handled
<1> QED BY <1>1, <1>2, LedgerStays

\* The steps of callers.
LEMMA LedgerCallers ==
  ASSUME Inv, CallerStep
  PROVE  [Ledger!Next]_(Ledger!vars)
<1>1. /\ task \in [TaskIds -> Entries] /\ call \in [TaskIds -> Calls]
      /\ stopped \in [Installations -> BOOLEAN]
  BY DEF Inv, TypeInv, TypeOK
<1>2. ASSUME NEW i \in Installations, NEW tr \in Triggers, ScheduleValidate(i, tr)
      PROVE  UNCHANGED Ledger!vars
  <2>1. /\ UNCHANGED <<task, consumed, stopped, queue, hand, consumer>>
        /\ nextTaskId \in TaskIds
        /\ call' = [call EXCEPT ![nextTaskId] =
                      [pc |-> "validated", inst |-> i, trigger |-> tr]]
    BY <1>2 DEF ScheduleValidate, consumerVars
  <2>2. task[nextTaskId].state = "absent"
    BY <2>1 DEF Inv, TypeInv, TypeOK, WellFormed
  <2>3. \A t \in TaskIds : t # nextTaskId => Owner(t)' = Owner(t)
    BY <1>1, <2>1 DEF Owner
  <2>4. InFlight' = InFlight
    BY <2>1 DEF InFlight
  <2> QED BY <2>1, <2>2, <2>3, <2>4, TablesKept
<1>3. ASSUME NEW t \in TaskIds, ScheduleInsert(t)
      PROVE  UNCHANGED Ledger!vars \/ Ledger!Open(t)
  <2>1. /\ call[t].pc = "validated"
        /\ UNCHANGED <<consumed, stopped, queue, hand, consumer>>
        /\ \/ UNCHANGED task /\ call' = [call EXCEPT ![t].pc = "refused"]
           \/ /\ ~stopped[Owner(t)] /\ task' = [task EXCEPT ![t] = FirstEntry(t)]
              /\ call' = [call EXCEPT ![t].pc = "inserted"]
    <3>1. call[t].pc = "validated" /\ UNCHANGED <<consumed, stopped, queue, hand, consumer>>
      BY <1>3 DEF ScheduleInsert, consumerVars
    <3>2. \/ UNCHANGED task /\ call' = [call EXCEPT ![t].pc = "refused"]
          \/ /\ ~stopped[Owner(t)] /\ task' = [task EXCEPT ![t] = FirstEntry(t)]
             /\ call' = [call EXCEPT ![t].pc = "inserted"]
      BY <1>3, Zenon DEF ScheduleInsert
    <3> QED BY <3>1, <3>2
  <2>2. InFlight' = InFlight
    BY <2>1 DEF InFlight
  <2>3. \A u \in TaskIds : Owner(u)' = Owner(u)
    BY <1>1, <2>1, SetCallPc
  <2>4. CASE UNCHANGED task
    BY <2>1, <2>2, <2>3, <2>4, TablesKept
  <2>5. CASE ~stopped[Owner(t)] /\ task' = [task EXCEPT ![t] = FirstEntry(t)]
    <3>1. task[t] = NoEntry
      BY <2>1 DEF Inv, TypeInv, WellFormed
    <3>2. task'[t] = FirstEntry(t) /\ \A u \in TaskIds : u # t => task'[u] = task[u]
      BY <1>1, <2>5
    <3>3. /\ task[t].state = "absent" /\ task[t].sequence = 1
          /\ task'[t].state = "scheduled" /\ task'[t].sequence = 1
      BY <3>1, <3>2 DEF NoEntry, FirstEntry, Entry
    <3>4. Status(t) = "new" /\ Status(t)' = "open"
      BY <2>1, <2>3, <2>5, <3>3 DEF Status
    <3>5. \A u \in TaskIds : u # t => StatusKept(u)
      BY <2>1, <2>3, <3>2 DEF StatusKept, Status
    <3>6. \A u \in TaskIds : CountKept(u) /\ PayloadsKept(u)
      BY <2>1, <2>2, <3>2, <3>3 DEF CountKept, PayloadsKept, Fired, Accepted, Handled
    <3> QED BY <3>4, <3>5, <3>6, LedgerOpens
  <2> QED BY <2>1, <2>4, <2>5
<1>4. ASSUME NEW t \in TaskIds, EnsureDriver(t)
      PROVE  UNCHANGED Ledger!vars
  <2>1. /\ call[t].pc = "inserted" /\ call' = [call EXCEPT ![t].pc = "returned"]
        /\ consumer' = consumer \/ consumer' = [consumer EXCEPT ![t] = "recv"]
        /\ UNCHANGED <<task, stopped, queue, hand, consumed>>
    BY <1>4 DEF EnsureDriver, consumerVars
  <2>2. consumer[t] = "none"
    BY <2>1 DEF Inv, FireInv
  <2>3. \A c \in TaskIds : consumer'[c] = "deliver" <=> consumer[c] = "deliver"
    BY <2>1, <2>2 DEF Inv, TypeInv, TypeOK
  <2>4. InFlight' = InFlight
    BY <2>1, <2>3 DEF InFlight
  <2>5. \A u \in TaskIds : Owner(u)' = Owner(u)
    BY <1>1, <2>1, SetCallPc
  <2> QED BY <2>1, <2>4, <2>5, TablesKept
<1>5. ASSUME NEW t \in TaskIds, Cancel(t)
      PROVE  \E S \in SUBSET TaskIds : Ledger!Close(S)
  <2>1. /\ task[t].state = "scheduled" /\ ~stopped[Owner(t)]
        /\ task' = [task EXCEPT ![t] = Entry("cancelled", task[t].sequence,
                                             task[t].missed, NoFire)]
        /\ UNCHANGED <<call, consumed, stopped, queue, hand, consumer>>
    BY <1>5 DEF Cancel, callVars, consumerVars
  <2>2. /\ task'[t].state = "cancelled" /\ task'[t].sequence = task[t].sequence
        /\ \A u \in TaskIds : u # t => task'[u] = task[u]
    BY <1>1, <2>1 DEF Entry
  <2>3. Status(t) = "open" /\ Status(t)' = "closed"
    BY <2>1, <2>2 DEF Status
  <2>4. \A u \in TaskIds \ {t} : StatusKept(u)
    BY <2>1, <2>2 DEF StatusKept, Status, Owner
  <2>5. \A u \in TaskIds : CountKept(u) /\ PayloadsKept(u)
    BY <2>1, <2>2 DEF CountKept, PayloadsKept, Fired, Accepted, Handled, InFlight
  <2> QED BY <2>3, <2>4, <2>5, LedgerCloses, {t} \in SUBSET TaskIds
<1>6. ASSUME NEW i \in Installations, StopMark(i)
      PROVE  \E S \in SUBSET TaskIds : Ledger!Close(S)
  <2>1. /\ ~stopped[i] /\ stopped' = [stopped EXCEPT ![i] = TRUE]
        /\ UNCHANGED <<call, task, consumed, queue, hand, consumer>>
    BY <1>6 DEF StopMark, callVars, consumerVars
  <2> DEFINE S == ScheduledTasks(i)
  <2>2. \A t \in TaskIds : task[t].state = "scheduled" => Owner(t) \in Installations
    BY DEF Inv, TypeInv, WellFormed
  <2>3. \A t \in S : Status(t) = "open" /\ Status(t)' = "closed"
    BY <1>1, <2>1 DEF Status, ScheduledTasks, Owner
  <2>4. \A t \in TaskIds \ S : StatusKept(t)
    BY <1>1, <2>1, <2>2 DEF StatusKept, Status, ScheduledTasks, Owner
  <2>5. \A u \in TaskIds : CountKept(u) /\ PayloadsKept(u)
    BY <2>1 DEF CountKept, PayloadsKept, Fired, Accepted, Handled, InFlight
  <2>6. S \in SUBSET TaskIds
    BY DEF ScheduledTasks
  <2> QED BY <2>3, <2>4, <2>5, <2>6, LedgerCloses
<1>7. ASSUME NEW i \in Installations, StopCancelToken(i)
      PROVE  UNCHANGED Ledger!vars
  <2>1. UNCHANGED <<call, task, stopped, consumed, queue, hand, consumer>>
    BY <1>7 DEF StopCancelToken, callVars, consumerVars
  <2> QED BY <2>1, TablesKept DEF InFlight, Owner
<1> QED BY <1>2, <1>3, <1>4, <1>5, <1>6, <1>7 DEF CallerStep, Ledger!Next

\* A turn of fire_due accepts one fire of a task or gives up all that are due.
LEMMA LedgerFires ==
  ASSUME Inv, NEW i \in Installations, FireSend(i)
  PROVE  \E t \in TaskIds : Ledger!Accept(t) \/ Ledger!Miss(t)
<1>1. PICK t \in DueTasks(i, driver[i].at) : AcceptFire(i, t) \/ MissFires(i, t)
  BY DEF FireSend
<1>2. /\ driver[i].pc = "send" /\ driver[i].channel \in TaskIds /\ ~stopped[i]
      /\ UNCHANGED <<call, stopped, consumer, hand, consumed>>
  BY DEF FireSend, Inv, TypeInv, WellFormed, callVars, consumerVars
<1>3. /\ t \in TaskIds /\ task[t].state = "scheduled" /\ Owner(t) = i
      /\ task \in [TaskIds -> Entries] /\ task[t].sequence \in Nat
  BY DEF DueTasks, ScheduledTasks, Inv, TypeInv, TypeOK, Entries
<1>4. PICK n \in Nat \ {0}, missed \in Nat :
           /\ Trigger(t).kind = "one-shot" => n = 1
           /\ task' = [task EXCEPT ![t] = Advanced(t, n, missed)]
           /\ \/ /\ n = 1
                 /\ queue' = [queue EXCEPT ![driver[i].channel] = Append(@, NextPayload(t))]
              \/ UNCHANGED queue
  BY <1>1, <1>2, FireEffect DEF Inv
<1>5. /\ Advanced(t, n, missed).sequence = task[t].sequence + n
      /\ Advanced(t, n, missed).state \in {"scheduled", "completed"}
  BY <1>3, <1>4, AdvancedEntry DEF Inv
<1>6. /\ task'[t].sequence = task[t].sequence + n
      /\ task'[t].state \in {"scheduled", "completed"}
      /\ \A u \in TaskIds : u # t => task'[u] = task[u]
  BY <1>3, <1>4, <1>5
<1>7. \A u \in TaskIds : Owner(u)' = Owner(u)
  BY <1>2 DEF Owner
<1>8. Fires(t)
  <2>1. Status(t) = "open" /\ Status(t)' \in {"open", "closed"}
    BY <1>2, <1>3, <1>6, <1>7 DEF Status
  <2>2. \A u \in TaskIds : u # t => StatusKept(u) /\ CountKept(u)
    BY <1>2, <1>6, <1>7 DEF StatusKept, CountKept, Status, Fired
  <2>3. \A u \in TaskIds : Handled(u)' = Handled(u)
    BY <1>2 DEF Handled
  <2> QED BY <2>1, <2>2, <2>3 DEF Fires
<1>9. Fired(t)' = Fired(t) + n /\ Fired(t) \in Int /\ Fired(t) + 1 = task[t].sequence
  BY <1>3, <1>6 DEF Fired
<1>10. CASE /\ n = 1
            /\ queue' = [queue EXCEPT ![driver[i].channel] = Append(@, NextPayload(t))]
  <2>1. Accepts(i, t)
    BY <1>2, <1>3, <1>10 DEF Accepts
  <2>2. /\ NextPayload(t).task = t /\ NextPayload(t).sequence = task[t].sequence
        /\ InFlight' = InFlight \cup {NextPayload(t)}
    BY <1>3, <2>1, AcceptedContents
  <2>3. /\ Accepted(t)' = Accepted(t) \cup {Fired(t) + 1}
        /\ \A u \in TaskIds : u # t => Accepted(u)' = Accepted(u)
    BY <1>9, <2>2 DEF Accepted
  <2> QED BY <1>3, <1>8, <1>9, <1>10, <2>3, LedgerAccepts
<1>11. CASE UNCHANGED queue
  <2>1. InFlight' = InFlight
    BY <1>2, <1>11 DEF InFlight
  <2>2. \A u \in TaskIds : Accepted(u)' = Accepted(u)
    BY <2>1 DEF Accepted
  <2>3. Fired(t)' > Fired(t)
    BY <1>9
  <2> QED BY <1>3, <1>8, <2>2, <2>3, LedgerMisses
<1> QED BY <1>4, <1>10, <1>11

\* The handler's call ends: the fire is handled, and no other payload has its number.
LEMMA LedgerDelivers ==
  ASSUME Inv, LineInv, NEW c \in TaskIds, ConsumerDeliver(c)
  PROVE  \E t \in TaskIds : Ledger!Handle(t)
<1>1. /\ hand[c] \in Contents(c) /\ hand[c] \in Payloads
      /\ InFlight' \subseteq InFlight /\ InFlight \subseteq InFlight' \cup {hand[c]}
      /\ \A t \in TaskIds : consumed'[t] = IF t = hand[c].task THEN consumed[t] \cup {hand[c]}
                                           ELSE consumed[t]
      /\ UNCHANGED <<task, call>>
  BY DeliveredContents DEF Inv
<1>2. /\ hand[c].sequence \notin {q.sequence : q \in consumed[hand[c].task]}
      /\ \A p \in InFlight' : p.task = hand[c].task => p.sequence # hand[c].sequence
  BY DeliverKeepsLine
<1> PICK t \in TaskIds : t = hand[c].task
  BY <1>1 DEF Payloads
<1> PICK n : n = hand[c].sequence
  OBVIOUS
<1>3. hand[c] \in InFlight
  BY <1>1, InFlightIsContents
<1>4. n \in Accepted(t) \ Handled(t)
  BY <1>2, <1>3 DEF Accepted, Handled
<1>5. Accepted(t)' = Accepted(t) \ {n}
  BY <1>1, <1>2 DEF Accepted
<1>6. Handled(t)' = Handled(t) \cup {n}
  BY <1>1 DEF Handled
<1>7. \A u \in TaskIds : u # t => PayloadsKept(u)
  BY <1>1 DEF PayloadsKept, Accepted, Handled
<1>8. stopped' = stopped
  BY DEF ConsumerDeliver
<1>9. \A u \in TaskIds : StatusKept(u) /\ CountKept(u)
  BY <1>1, <1>8 DEF StatusKept, CountKept, Status, Fired, Owner
<1> QED BY <1>4, <1>5, <1>6, <1>7, <1>9, LedgerHandles

LEMMA LedgerSteps ==
  ASSUME Inv, LineInv, [Next]_vars
  PROVE  [Ledger!Next]_(Ledger!vars)
<1>1. CASE CallerStep
  BY <1>1, LedgerCallers
<1>2. CASE \E i \in Installations : FireSend(i)
  BY <1>2, LedgerFires DEF Ledger!Next
<1>3. CASE \E c \in TaskIds : ConsumerDeliver(c)
  BY <1>3, LedgerDelivers DEF Ledger!Next
<1>4. CASE Tick \/ SetClockBack \/ UNCHANGED vars
  <2>1. UNCHANGED <<call, task, stopped, consumed, queue, hand, consumer>>
    BY <1>4 DEF Tick, SetClockBack, vars, callVars, consumerVars
  <2> QED BY <2>1, TablesKept DEF InFlight, Owner
<1>5. ASSUME NEW i \in Installations, DriverStep(i), ~FireSend(i)
      PROVE  UNCHANGED Ledger!vars
  <2>1. UNCHANGED <<call, task, stopped, consumed, queue, hand, consumer>>
    BY <1>5 DEF DriverStep, DriverScan, DriverClock, DriverCancelled, DriverWoken, DriverSlept,
                FireReadClock, FireLock, FireUnlock, DriverExit, callVars, consumerVars
  <2> QED BY <2>1, TablesKept DEF InFlight, Owner
<1>6. ASSUME NEW c \in TaskIds, ConsumerRecv(c)
      PROVE  UNCHANGED Ledger!vars
  <2>1. InFlight' = InFlight /\ UNCHANGED <<consumed, task, call>>
    BY <1>6, ReceivedContents DEF Inv
  <2>2. stopped' = stopped
    BY <1>6 DEF ConsumerRecv
  <2> QED BY <2>1, <2>2, TablesKept DEF Owner
<1>7. ASSUME NEW c \in TaskIds, ConsumerEnd(c)
      PROVE  UNCHANGED Ledger!vars
  <2>1. /\ UNCHANGED <<call, task, stopped, queue, hand, consumed>>
        /\ consumer[c] = "recv" /\ consumer' = [consumer EXCEPT ![c] = "ended"]
    BY <1>7 DEF ConsumerEnd, callVars, consumerVars
  <2>2. \A d \in TaskIds : consumer'[d] = "deliver" <=> consumer[d] = "deliver"
    BY <2>1 DEF Inv, TypeInv, TypeOK
  <2> QED BY <2>1, <2>2, TablesKept DEF InFlight, Owner
<1> QED BY <1>1, <1>2, <1>3, <1>4, <1>5, <1>6, <1>7 DEF Next, ConsumerStep

LEMMA LedgerInit == Init => Ledger!Init
<1> SUFFICES ASSUME Init PROVE Ledger!Init
  OBVIOUS
<1>1. \A t \in TaskIds : /\ task[t].state = "absent" /\ task[t].sequence = 1
                         /\ queue[t] = <<>> /\ consumer[t] = "none" /\ consumed[t] = {}
  BY DEF Init, NoEntry, Entry
<1>2. \A c \in TaskIds : Contents(c) = {}
  BY <1>1 DEF Contents, Range
<1>3. InFlight = {}
  BY <1>2, InFlightIsContents
<1>4. \A t \in TaskIds : Status(t) = "new" /\ Fired(t) = 0
  BY <1>1 DEF Status, Fired
<1>5. \A t \in TaskIds : Accepted(t) = {} /\ Handled(t) = {}
  BY <1>1, <1>3 DEF Accepted, Handled
<1>6. /\ [t \in TaskIds |-> Status(t)] = [t \in TaskIds |-> "new"]
      /\ [t \in TaskIds |-> Fired(t)] = [t \in TaskIds |-> 0]
      /\ [t \in TaskIds |-> Accepted(t)] = [t \in TaskIds |-> {}]
      /\ [t \in TaskIds |-> Handled(t)] = [t \in TaskIds |-> {}]
  BY <1>4, <1>5
<1> QED BY <1>6, Zenon DEF Ledger!Init, Status, Fired, Accepted, Handled

(***************************************************************************)
(* The scheduler implements the ledger of fires, whatever its drivers,     *)
(* channels and clock do: every fire is accepted or missed exactly once    *)
(* while its task is open, and an accepted fire is handled at most once    *)
(* (scheduler.wit:27-34, scheduler.rs:22-25).                              *)
(***************************************************************************)
THEOREM FiresAreALedger == Spec => ImplementsLedger
<1>1. Inv /\ LineInv /\ [Next]_vars => [Ledger!Next]_(Ledger!vars)
  BY LedgerSteps
<1> QED BY LedgerInit, LineAlways, <1>1, PTL DEF Spec, ImplementsLedger, Ledger!Spec

-----------------------------------------------------------------------------
(* Drivers and channels while no driver loses its clock: an installation    *)
(* that was not stopped has one driver and one channel, for good.           *)

ThreadInv ==
  /\ \A i \in Installations : cancelled[i] => stopped[i]
  /\ \A i \in Installations : handle[i] <=> driver[i].pc # "none"
  /\ \A i \in Installations : driver[i].pc = "closing" => cancelled[i]
  /\ \A i \in Installations : driver[i].pc # "none" =>
       call[driver[i].channel].inst = i /\ consumer[driver[i].channel] # "none"
  /\ \A c \in TaskIds : consumer[c] # "none" /\ ~cancelled[Owner(c)] =>
       driver[Owner(c)].pc # "none" /\ driver[Owner(c)].channel = c

\* The payloads of an installation are in one channel, and after those handled.
AheadInv ==
  /\ \A c \in TaskIds : consumer[c] = "none" => queue[c] = <<>>
  /\ \A c \in TaskIds : \A p \in Contents(c) : Owner(p.task) = Owner(c)
  /\ \A c, d \in TaskIds :
       c # d /\ Owner(c) = Owner(d) /\ Contents(c) # {} => Contents(d) = {}
  /\ \A t \in TaskIds : \A q \in consumed[t], p \in InFlight :
       p.task = t => q.sequence < p.sequence

OrderInv == Inv /\ LineInv /\ ThreadInv /\ AheadInv

\* A call that has begun keeps its installation.
LEMMA OwnersStay ==
  ASSUME TypeInv, [Next]_vars, NEW t \in TaskIds, call[t].pc # "idle"
  PROVE  Owner(t)' = Owner(t)
<1>1. call \in [TaskIds -> Calls]
  BY DEF TypeInv, TypeOK
<1>2. CASE UNCHANGED call
  BY <1>2 DEF Owner
<1>3. CASE \E i \in Installations, tr \in Triggers : ScheduleValidate(i, tr)
  <2>1. PICK i \in Installations, tr \in Triggers : ScheduleValidate(i, tr)
    BY <1>3
  <2>2. /\ nextTaskId \in TaskIds
        /\ call' = [call EXCEPT ![nextTaskId] =
                      [pc |-> "validated", inst |-> i, trigger |-> tr]]
    BY <2>1 DEF ScheduleValidate
  <2>3. t # nextTaskId
    BY <2>2 DEF TypeInv, TypeOK, WellFormed
  <2> QED BY <1>1, <2>2, <2>3 DEF Owner
<1>4. ASSUME NEW u \in TaskIds, ScheduleInsert(u) \/ EnsureDriver(u)
      PROVE  Owner(t)' = Owner(t)
  <2>1. \E pc \in {"returned", "inserted", "refused"} : call' = [call EXCEPT ![u].pc = pc]
    <3>1. CASE ScheduleInsert(u)
      BY <3>1, Zenon DEF ScheduleInsert
    <3>2. CASE EnsureDriver(u)
      BY <3>2, Zenon DEF EnsureDriver
    <3> QED BY <1>4, <3>1, <3>2
  <2> QED BY <1>1, <2>1, SetCallPc
<1>5. \/ UNCHANGED call
      \/ \E i \in Installations, tr \in Triggers : ScheduleValidate(i, tr)
      \/ \E u \in TaskIds : ScheduleInsert(u) \/ EnsureDriver(u)
  <2>1. CASE \E u \in TaskIds : Cancel(u)
    BY <2>1 DEF Cancel, callVars
  <2>2. CASE \E i \in Installations : FireSend(i)
    BY <2>2 DEF FireSend, callVars
  <2> QED BY <2>1, <2>2, StepCases
<1> QED BY <1>2, <1>3, <1>4, <1>5

\* A channel is named by a call that has returned.
LEMMA ChannelCalls ==
  ASSUME Inv, NEW c \in TaskIds, consumer[c] # "none"
  PROVE  call[c].pc = "returned" /\ Owner(c) \in Installations
BY DEF Inv, FireInv, TypeInv, WellFormed

LEMMA ContentsHaveConsumer ==
  ASSUME Inv, AheadInv, NEW c \in TaskIds, Contents(c) # {}
  PROVE  consumer[c] # "none"
BY DEF AheadInv, Contents, Range

\* The call of a payload's task has begun too.
LEMMA PayloadCalls ==
  ASSUME Inv, NEW c \in TaskIds, NEW p \in Contents(c)
  PROVE  p.task \in TaskIds /\ call[p.task].pc # "idle"
<1>1. p.task \in TaskIds /\ p.sequence \in Nat \ {0} /\ p.sequence < task[p.task].sequence
  BY ContentsAreUsed
<1>2. task[p.task].sequence # 1
  BY <1>1 DEF Inv, TypeInv, TypeOK, Entries
<1>3. task[p.task].state # "absent"
  BY <1>1, <1>2 DEF Inv, TypeInv, WellFormed, NoEntry, Entry
<1> QED BY <1>1, <1>3 DEF Inv, TypeInv, WellFormed

\* What a driver's step does to the drivers.
LEMMA DriverKeepsThreads ==
  ASSUME OrderInv, MaxClockFailures = 0, NEW i \in Installations, DriverStep(i)
  PROVE  ThreadInv'
<1>1. /\ driver \in [Installations -> Drivers] /\ handle \in [Installations -> BOOLEAN]
      /\ clockFailures \in Int /\ ~(clockFailures < MaxClockFailures)
  BY DEF OrderInv, Inv, TypeInv, TypeOK
<1>2. UNCHANGED <<call, stopped, cancelled, consumer>>
  BY DEF DriverStep, DriverScan, DriverClock, DriverCancelled, DriverWoken, DriverSlept,
         FireReadClock, FireLock, FireSend, FireUnlock, DriverExit, callVars
<1>3. \A c : Owner(c)' = Owner(c)
  BY <1>2 DEF Owner
<1>4. CASE DriverExit(i)
  <2>1. /\ driver[i].pc = "closing"
        /\ handle' = [handle EXCEPT ![i] = FALSE]
        /\ driver' = [driver EXCEPT ![i] = Driver("none", NoTask, 0)]
    BY <1>4 DEF DriverExit
  <2>2. /\ handle'[i] = FALSE /\ driver'[i].pc = "none"
        /\ \A j \in Installations : j # i => driver'[j] = driver[j] /\ handle'[j] = handle[j]
    BY <1>1, <2>1 DEF Driver
  <2>3. cancelled[i]
    BY <2>1 DEF OrderInv, ThreadInv
  <2>4. \A c \in TaskIds : consumer[c] # "none" => Owner(c) \in Installations
    BY ChannelCalls DEF OrderInv
  <2>5. \A j \in Installations : handle'[j] <=> driver'[j].pc # "none"
    BY <2>2 DEF OrderInv, ThreadInv
  <2>6. \A j \in Installations : driver'[j].pc = "closing" => cancelled[j]
    BY <2>2 DEF OrderInv, ThreadInv
  <2>7. \A j \in Installations : driver'[j].pc # "none" =>
          call[driver'[j].channel].inst = j /\ consumer[driver'[j].channel] # "none"
    BY <2>2 DEF OrderInv, ThreadInv
  <2>8. \A c \in TaskIds : consumer[c] # "none" /\ ~cancelled[Owner(c)] =>
          driver'[Owner(c)].pc # "none" /\ driver'[Owner(c)].channel = c
    BY <2>2, <2>3, <2>4 DEF OrderInv, ThreadInv
  <2>9. \A j \in Installations : cancelled[j] => stopped[j]
    BY DEF OrderInv, ThreadInv
  <2> QED BY <1>2, <1>3, <2>5, <2>6, <2>7, <2>8, <2>9 DEF ThreadInv
<1>5. CASE ~ DriverExit(i)
  <2>1. /\ handle' = handle
        /\ driver' = driver \/
             \E pc \in {"scan", "idle", "clock", "sleep", "fire", "lock", "send", "closing"} :
             \E at : /\ driver' = [driver EXCEPT ![i] = Driver(pc, driver[i].channel, at)]
                     /\ pc = "closing" => cancelled[i]
        /\ driver[i].pc # "none"
    <3>1. CASE DriverScan(i)
      BY <3>1 DEF DriverScan
    <3>2. CASE DriverClock(i)
      BY <1>1, <3>2 DEF DriverClock
    <3>3. CASE DriverCancelled(i)
      BY <3>3 DEF DriverCancelled, SeesToken, Break
    <3>4. CASE DriverWoken(i) \/ DriverSlept(i) \/ FireReadClock(i)
      BY <1>1, <3>4 DEF DriverWoken, DriverSlept, FireReadClock
    <3>5. CASE FireLock(i)
      BY <3>5 DEF FireLock
    <3>6. CASE FireSend(i) \/ FireUnlock(i)
      BY <3>6 DEF FireSend, FireUnlock, driverVars
    <3> QED BY <1>5, <3>1, <3>2, <3>3, <3>4, <3>5, <3>6 DEF DriverStep
  <2>2. /\ \A j \in Installations : j # i => driver'[j] = driver[j]
        /\ driver'[i].channel = driver[i].channel /\ driver'[i].pc # "none"
        /\ driver'[i].pc = "closing" => driver[i].pc = "closing" \/ cancelled[i]
    BY <1>1, <2>1 DEF Driver
  <2>3. \A j \in Installations : /\ driver'[j].channel = driver[j].channel
                                 /\ driver'[j].pc # "none" <=> driver[j].pc # "none"
    BY <2>1, <2>2
  <2>4. \A c \in TaskIds : consumer[c] # "none" => Owner(c) \in Installations
    BY ChannelCalls DEF OrderInv
  <2>5. \A j \in Installations : driver'[j].pc = "closing" => cancelled[j]
    BY <2>2 DEF OrderInv, ThreadInv
  <2> QED BY <1>2, <1>3, <2>1, <2>3, <2>4, <2>5 DEF OrderInv, ThreadInv
<1> QED BY <1>4, <1>5

\* Every other step; the one that spawns a driver finds none.
LEMMA OthersKeepThreads ==
  ASSUME OrderInv, [Next]_vars, ~ \E i \in Installations : DriverStep(i)
  PROVE  ThreadInv'
<1>1. /\ driver \in [Installations -> Drivers] /\ handle \in [Installations -> BOOLEAN]
      /\ consumer \in [TaskIds -> {"none", "recv", "deliver", "ended"}]
      /\ stopped \in [Installations -> BOOLEAN] /\ cancelled \in [Installations -> BOOLEAN]
  BY DEF OrderInv, Inv, TypeInv, TypeOK
<1>2. \A c \in TaskIds : consumer[c] # "none" =>
        call[c].pc = "returned" /\ Owner(c) \in Installations /\ Owner(c)' = Owner(c)
  BY ChannelCalls, OwnersStay DEF OrderInv, Inv
<1>3. \A i \in Installations : driver[i].pc # "none" => driver[i].channel \in TaskIds
  BY DEF OrderInv, Inv, TypeInv, WellFormed
<1>4. CASE /\ UNCHANGED <<driver, handle>>
           /\ \A i \in Installations : (cancelled'[i] => stopped'[i])
                                        /\ (cancelled[i] => cancelled'[i])
           /\ \A c \in TaskIds : consumer'[c] # "none" <=> consumer[c] # "none"
  <2>1. \A i \in Installations : driver[i].pc # "none" =>
          call'[driver[i].channel].inst = i /\ consumer'[driver[i].channel] # "none"
    BY <1>2, <1>3, <1>4 DEF OrderInv, ThreadInv, Owner
  <2>2. \A c \in TaskIds : consumer'[c] # "none" /\ ~cancelled'[Owner(c)'] =>
          driver[Owner(c)'].pc # "none" /\ driver[Owner(c)'].channel = c
    BY <1>2, <1>4 DEF OrderInv, ThreadInv
  <2>3. \A i \in Installations : /\ handle[i] <=> driver[i].pc # "none"
                                 /\ driver[i].pc = "closing" => cancelled'[i]
    BY <1>4 DEF OrderInv, ThreadInv
  <2> QED BY <1>4, <2>1, <2>2, <2>3 DEF ThreadInv
<1>5. ASSUME NEW t \in TaskIds, EnsureDriver(t), NeedsDriver(Owner(t))
      PROVE  ThreadInv'
  <2> PICK i : i = Owner(t)
    OBVIOUS
  <2>1. /\ call[t].pc = "inserted" /\ ~handle[i]
        /\ handle' = [handle EXCEPT ![i] = TRUE]
        /\ driver' = [driver EXCEPT ![i] = Driver("scan", t, 0)]
        /\ consumer' = [consumer EXCEPT ![t] = "recv"]
        /\ UNCHANGED <<stopped, cancelled>>
    BY <1>5 DEF EnsureDriver, NeedsDriver
  <2>2. i \in Installations /\ Owner(t)' = i
    BY <2>1, OwnersStay DEF OrderInv, Inv, TypeInv, WellFormed
  <2>3. /\ handle'[i] = TRUE /\ driver'[i].pc = "scan" /\ driver'[i].channel = t
        /\ consumer'[t] = "recv"
        /\ \A j \in Installations : j # i => driver'[j] = driver[j] /\ handle'[j] = handle[j]
        /\ \A c \in TaskIds : c # t => consumer'[c] = consumer[c]
    BY <1>1, <2>1, <2>2 DEF Driver
  <2>4. \A c \in TaskIds : consumer[c] # "none" /\ ~cancelled[Owner(c)] => Owner(c) # i
    BY <2>1, <2>2 DEF OrderInv, ThreadInv
  <2>5. \A j \in Installations : driver'[j].pc # "none" =>
          call'[driver'[j].channel].inst = j /\ consumer'[driver'[j].channel] # "none"
    <3>1. ASSUME NEW j \in Installations, j # i, driver[j].pc # "none"
          PROVE  call'[driver[j].channel].inst = j /\ consumer'[driver[j].channel] # "none"
      BY <1>2, <1>3, <2>3, <3>1 DEF OrderInv, ThreadInv, Owner
    <3> QED BY <2>2, <2>3, <3>1 DEF Owner
  <2>6. \A c \in TaskIds : consumer'[c] # "none" /\ ~cancelled[Owner(c)'] =>
          driver'[Owner(c)'].pc # "none" /\ driver'[Owner(c)'].channel = c
    BY <1>2, <2>2, <2>3, <2>4 DEF OrderInv, ThreadInv
  <2>7. \A j \in Installations : /\ handle'[j] <=> driver'[j].pc # "none"
                                 /\ driver'[j].pc = "closing" => cancelled[j]
                                 /\ cancelled[j] => stopped[j]
    BY <2>3 DEF OrderInv, ThreadInv
  <2> QED BY <2>1, <2>5, <2>6, <2>7 DEF ThreadInv
<1>6. CASE \E t \in TaskIds : EnsureDriver(t) /\ ~NeedsDriver(Owner(t))
  BY <1>4, <1>6 DEF EnsureDriver, driverVars, OrderInv, ThreadInv
<1>7. CASE \/ Tick \/ SetClockBack \/ UNCHANGED vars
           \/ \E i \in Installations, tr \in Triggers : ScheduleValidate(i, tr)
           \/ \E t \in TaskIds : ScheduleInsert(t) \/ Cancel(t)
  <2>1. UNCHANGED <<driver, handle, stopped, cancelled, consumer>>
    BY <1>7 DEF Tick, SetClockBack, vars, ScheduleValidate, ScheduleInsert, Cancel, driverVars
  <2> QED BY <1>4, <2>1 DEF OrderInv, ThreadInv
<1>8. CASE \E i \in Installations : StopMark(i) \/ StopCancelToken(i)
  <2>1. UNCHANGED <<driver, handle, consumer>>
    BY <1>8 DEF StopMark, StopCancelToken, driverVars
  <2>2. \A i \in Installations : (cancelled'[i] => stopped'[i]) /\ (cancelled[i] => cancelled'[i])
    BY <1>1, <1>8 DEF StopMark, StopCancelToken, OrderInv, ThreadInv
  <2> QED BY <1>4, <2>1, <2>2
<1>9. CASE \E c \in TaskIds : ConsumerStep(c)
  <2>1. UNCHANGED <<driver, handle, stopped, cancelled>>
    BY <1>9 DEF ConsumerStep, ConsumerRecv, ConsumerDeliver, ConsumerEnd, driverVars
  <2>2. \A c \in TaskIds : consumer'[c] # "none" <=> consumer[c] # "none"
    BY <1>1, <1>9 DEF ConsumerStep, ConsumerRecv, ConsumerDeliver, ConsumerEnd
  <2> QED BY <1>4, <2>1, <2>2 DEF OrderInv, ThreadInv
<1> QED BY <1>5, <1>6, <1>7, <1>8, <1>9 DEF Next, CallerStep

\* Channels that keep their contents keep their installations.
LEMMA OwnersOfContents ==
  ASSUME OrderInv, [Next]_vars, NEW c \in TaskIds, Contents(c) # {}
  PROVE  /\ consumer[c] # "none" /\ Owner(c) \in Installations /\ Owner(c)' = Owner(c)
         /\ \A p \in Contents(c) : Owner(p.task)' = Owner(p.task) /\ Owner(p.task) = Owner(c)
<1>1. consumer[c] # "none"
  BY ContentsHaveConsumer DEF OrderInv
<1>2. call[c].pc = "returned" /\ Owner(c) \in Installations
  BY <1>1, ChannelCalls DEF OrderInv
<1>3. Owner(c)' = Owner(c)
  BY <1>2, OwnersStay DEF OrderInv, Inv
<1>4. \A p \in Contents(c) : p.task \in TaskIds /\ call[p.task].pc # "idle"
  BY PayloadCalls DEF OrderInv
<1>5. \A p \in Contents(c) : Owner(p.task)' = Owner(p.task)
  BY <1>4, OwnersStay DEF OrderInv, Inv
<1> QED BY <1>1, <1>2, <1>3, <1>5 DEF OrderInv, AheadInv

\* Contents that only shrink stay where they belong.
LEMMA ShrinkingKeepsAhead ==
  ASSUME OrderInv, [Next]_vars, \A c \in TaskIds : Contents(c)' \subseteq Contents(c)
  PROVE  /\ \A c \in TaskIds : \A p \in Contents(c)' : Owner(p.task)' = Owner(c)'
         /\ \A c, d \in TaskIds :
              c # d /\ Owner(c)' = Owner(d)' /\ Contents(c)' # {} => Contents(d)' = {}
<1>1. \A c \in TaskIds : \A p \in Contents(c)' : Owner(p.task)' = Owner(c)'
  BY OwnersOfContents
<1>2. ASSUME NEW c \in TaskIds, NEW d \in TaskIds, c # d, Owner(c)' = Owner(d)',
             Contents(c)' # {}, Contents(d)' # {}
      PROVE  FALSE
  <2>1. Contents(c) # {} /\ Contents(d) # {}
    BY <1>2
  <2>2. Owner(c) = Owner(d)
    BY <1>2, <2>1, OwnersOfContents
  <2> QED BY <1>2, <2>1, <2>2 DEF OrderInv, AheadInv
<1> QED BY <1>1, <1>2

\* The driver that fires is the one of its installation, and so is its channel.
LEMMA AcceptKeepsAhead ==
  ASSUME OrderInv, [Next]_vars, NEW i \in Installations, NEW t \in TaskIds, Accepts(i, t)
  PROVE  AheadInv'
<1> PICK c \in TaskIds : c = driver[i].channel
  BY DEF Accepts
<1> PICK p : p = NextPayload(t)
  OBVIOUS
<1>1. /\ p \in Payloads /\ p.task = t /\ p.sequence = task[t].sequence
      /\ Contents(c)' = Contents(c) \cup {p}
      /\ \A d \in TaskIds : d # c => queue'[d] = queue[d] /\ Contents(d)' = Contents(d)
      /\ InFlight' = InFlight \cup {p}
  BY AcceptedContents DEF OrderInv
<1>2. /\ driver[i].pc = "send" /\ Owner(t) = i /\ task[t].state = "scheduled"
      /\ UNCHANGED <<consumer, hand, consumed>>
  BY DEF Accepts
<1>3. Owner(c) = i /\ consumer[c] # "none" /\ ~stopped[i] /\ ~cancelled[i]
  BY <1>2 DEF OrderInv, ThreadInv, Owner, Inv, TypeInv, WellFormed
<1>4. \A d \in TaskIds : Owner(d) = i /\ d # c => consumer[d] = "none"
  BY <1>3 DEF OrderInv, ThreadInv
<1>5. \A d \in TaskIds : consumer[d] = "none" => Contents(d) = {}
  BY DEF OrderInv, AheadInv, Contents, Range
<1>6. Owner(c)' = i /\ Owner(t)' = i
  <2>1. call[c].pc = "returned" /\ call[t].pc # "idle"
    BY <1>2, <1>3, ChannelCalls DEF OrderInv, Inv, TypeInv, WellFormed
  <2> QED BY <1>2, <1>3, <2>1, OwnersStay DEF OrderInv, Inv
<1>7. \A d \in TaskIds : consumer'[d] = "none" => queue'[d] = <<>>
  BY <1>1, <1>2, <1>3 DEF OrderInv, AheadInv
<1>8. \A d \in TaskIds : \A q \in Contents(d)' : Owner(q.task)' = Owner(d)'
  <2>1. \A d \in TaskIds : \A q \in Contents(d) : Owner(q.task)' = Owner(d)'
    BY OwnersOfContents
  <2> QED BY <1>1, <1>6, <2>1
<1>9. ASSUME NEW d \in TaskIds, Owner(d)' = i, d # c
      PROVE  Contents(d)' = {}
  <2>1. CASE Contents(d) # {}
    <3>1. Owner(d) = i /\ consumer[d] # "none"
      BY <1>9, <2>1, OwnersOfContents
    <3> QED BY <1>4, <1>9, <3>1
  <2> QED BY <1>1, <1>9, <2>1
<1>10. ASSUME NEW d \in TaskIds, NEW e \in TaskIds, d # e, Owner(d)' = Owner(e)',
              Contents(d)' # {}, Contents(e)' # {}
       PROVE  FALSE
  <2>1. d # c /\ e # c
    BY <1>6, <1>9, <1>10
  <2>2. Contents(d) # {} /\ Contents(e) # {}
    BY <1>1, <1>10, <2>1
  <2>3. Owner(d) = Owner(e)
    BY <1>10, <2>2, OwnersOfContents
  <2> QED BY <1>10, <2>2, <2>3 DEF OrderInv, AheadInv
<1>11. ASSUME NEW u \in TaskIds, NEW q \in consumed[u], NEW r \in InFlight', r.task = u
       PROVE  q.sequence < r.sequence
  <2>1. CASE r \in InFlight
    BY <1>11, <2>1 DEF OrderInv, AheadInv
  <2>2. CASE r = p
    <3>1. u = t /\ q \in Emitted(t)
      BY <1>1, <1>11, <2>2 DEF Emitted
    <3>2. q.sequence < task[t].sequence
      BY <3>1 DEF OrderInv, Inv, FireInv
    <3> QED BY <1>1, <2>2, <3>2
  <2> QED BY <1>1, <1>11, <2>1, <2>2
<1> QED BY <1>2, <1>7, <1>8, <1>10, <1>11 DEF AheadInv

\* What the consumer handles comes before all that is under way of the task.
LEMMA DeliverIsNext ==
  ASSUME OrderInv, [Next]_vars, NEW c \in TaskIds, ConsumerDeliver(c)
  PROVE  /\ AheadInv'
         /\ \A q \in consumed[hand[c].task] : q.sequence < hand[c].sequence
<1>1. /\ consumer[c] = "deliver" /\ hand[c] \in Contents(c) /\ hand[c] \in Payloads
      /\ consumer'[c] = "recv" /\ queue' = queue
      /\ \A d \in TaskIds : d # c => consumer'[d] = consumer[d]
      /\ Contents(c)' = Range(queue[c]) /\ Contents(c)' \subseteq Contents(c)
      /\ \A d \in TaskIds : d # c => Contents(d)' = Contents(d)
      /\ InFlight' \subseteq InFlight
      /\ \A t \in TaskIds : consumed'[t] = IF t = hand[c].task THEN consumed[t] \cup {hand[c]}
                                           ELSE consumed[t]
  BY DeliveredContents DEF OrderInv, Inv
<1>2. ASSUME NEW p \in InFlight', p.task = hand[c].task
      PROVE  hand[c].sequence < p.sequence
  <2>1. InFlight' = UNION {Contents(d)' : d \in TaskIds}
    BY DEF InFlight, Contents
  <2>2. PICK d \in TaskIds : p \in Contents(d)'
    BY <2>1
  <2>3. CASE d = c
    BY <1>1, <1>2, <2>2, <2>3 DEF OrderInv, LineInv
  <2>4. CASE d # c
    <3>1. p \in Contents(d)
      BY <1>1, <2>2, <2>4
    <3>2. Owner(p.task) = Owner(d) /\ Owner(hand[c].task) = Owner(c)
      BY <1>1, <3>1 DEF OrderInv, AheadInv
    <3>3. Owner(d) = Owner(c)
      BY <1>2, <3>2
    <3> QED BY <1>1, <2>4, <3>1, <3>3 DEF OrderInv, AheadInv
  <2> QED BY <2>3, <2>4
<1>3. \A q \in consumed[hand[c].task] : q.sequence < hand[c].sequence
  <2>1. hand[c] \in InFlight /\ hand[c].task \in TaskIds
    BY <1>1, InFlightIsContents DEF Payloads
  <2> QED BY <2>1 DEF OrderInv, AheadInv
<1>4. /\ \A d \in TaskIds : \A p \in Contents(d)' : Owner(p.task)' = Owner(d)'
      /\ \A d, e \in TaskIds :
           d # e /\ Owner(d)' = Owner(e)' /\ Contents(d)' # {} => Contents(e)' = {}
  <2>1. \A d \in TaskIds : Contents(d)' \subseteq Contents(d)
    BY <1>1
  <2> QED BY <2>1, ShrinkingKeepsAhead
<1>5. \A d \in TaskIds : consumer'[d] = "none" => queue'[d] = <<>>
  BY <1>1 DEF OrderInv, AheadInv
<1>6. ASSUME NEW t \in TaskIds, NEW q \in consumed'[t], NEW p \in InFlight', p.task = t
      PROVE  q.sequence < p.sequence
  <2>1. CASE q \in consumed[t]
    BY <1>1, <1>6, <2>1 DEF OrderInv, AheadInv
  <2>2. CASE t = hand[c].task /\ q = hand[c]
    BY <1>2, <1>6, <2>2
  <2> QED BY <1>1, <2>1, <2>2
<1> QED BY <1>3, <1>4, <1>5, <1>6 DEF AheadInv

\* A consumer never goes back to where it was not spawned.
LEMMA ConsumersStay ==
  ASSUME TypeInv, [Next]_vars
  PROVE  \A c \in TaskIds : consumer'[c] = "none" => consumer[c] = "none"
<1>1. CASE \E t \in TaskIds : EnsureDriver(t)
  BY <1>1 DEF EnsureDriver, TypeInv, TypeOK
<1>2. CASE \E c \in TaskIds : ConsumerStep(c)
  BY <1>2 DEF ConsumerStep, ConsumerRecv, ConsumerDeliver, ConsumerEnd, TypeInv, TypeOK
<1>3. CASE UNCHANGED consumer
  BY <1>3
<1>4. CASE \E i \in Installations : DriverStep(i)
  <2>1. UNCHANGED consumer
    BY <1>4 DEF DriverStep, DriverScan, DriverClock, DriverCancelled, DriverWoken, DriverSlept,
                FireReadClock, FireLock, FireSend, FireUnlock, DriverExit
  <2> QED BY <2>1
<1>5. CASE \/ Tick \/ SetClockBack \/ UNCHANGED vars
           \/ \E i \in Installations, tr \in Triggers : ScheduleValidate(i, tr)
           \/ \E t \in TaskIds : ScheduleInsert(t) \/ Cancel(t)
           \/ \E i \in Installations : StopMark(i) \/ StopCancelToken(i)
  <2>1. UNCHANGED consumer
    BY <1>5 DEF Tick, SetClockBack, vars, ScheduleValidate, ScheduleInsert, Cancel, StopMark,
                StopCancelToken
  <2> QED BY <2>1
<1> QED BY <1>1, <1>2, <1>4, <1>5 DEF Next, CallerStep

LEMMA AheadStep ==
  ASSUME OrderInv, [Next]_vars
  PROVE  AheadInv'
<1>1. CASE ChannelsKept
  <2>1. InFlight' = InFlight /\ \A c \in TaskIds : Contents(c)' = Contents(c)
    BY <1>1, KeptContents
  <2>2. UNCHANGED <<queue, consumed>>
    BY <1>1 DEF ChannelsKept
  <2>3. /\ \A c \in TaskIds : \A p \in Contents(c)' : Owner(p.task)' = Owner(c)'
        /\ \A c, d \in TaskIds :
             c # d /\ Owner(c)' = Owner(d)' /\ Contents(c)' # {} => Contents(d)' = {}
    <3>1. \A c \in TaskIds : Contents(c)' \subseteq Contents(c)
      BY <2>1
    <3> QED BY <3>1, ShrinkingKeepsAhead
  <2>4. \A c \in TaskIds : consumer'[c] = "none" => queue'[c] = <<>>
    BY <2>2, ConsumersStay DEF OrderInv, Inv, AheadInv
  <2>5. \A t \in TaskIds : \A q \in consumed'[t], p \in InFlight' :
          p.task = t => q.sequence < p.sequence
    BY <2>1, <2>2 DEF OrderInv, AheadInv
  <2> QED BY <2>3, <2>4, <2>5 DEF AheadInv
<1>2. ASSUME NEW c \in TaskIds, ConsumerRecv(c)
      PROVE  AheadInv'
  <2>1. /\ \A d \in TaskIds : Contents(d)' = Contents(d)
        /\ InFlight' = InFlight /\ consumed' = consumed
        /\ consumer'[c] = "deliver"
        /\ \A d \in TaskIds : d # c => queue'[d] = queue[d] /\ consumer'[d] = consumer[d]
    BY <1>2, ReceivedContents DEF OrderInv, Inv
  <2>2. /\ \A d \in TaskIds : \A p \in Contents(d)' : Owner(p.task)' = Owner(d)'
        /\ \A d, e \in TaskIds :
             d # e /\ Owner(d)' = Owner(e)' /\ Contents(d)' # {} => Contents(e)' = {}
    <3>1. \A d \in TaskIds : Contents(d)' \subseteq Contents(d)
      BY <2>1
    <3> QED BY <3>1, ShrinkingKeepsAhead
  <2>3. \A d \in TaskIds : consumer'[d] = "none" => queue'[d] = <<>>
    BY <2>1 DEF OrderInv, AheadInv
  <2>4. \A t \in TaskIds : \A q \in consumed'[t], p \in InFlight' :
          p.task = t => q.sequence < p.sequence
    BY <2>1 DEF OrderInv, AheadInv
  <2> QED BY <2>2, <2>3, <2>4 DEF AheadInv
<1>3. Inv
  BY DEF OrderInv
<1> QED BY <1>1, <1>2, <1>3, ChannelSteps, AcceptKeepsAhead, DeliverIsNext

LEMMA OrderStep ==
  ASSUME MaxClockFailures = 0, OrderInv, [Next]_vars
  PROVE  OrderInv'
<1>1. Inv' /\ LineInv'
  BY FireStep, LineStep DEF OrderInv
<1>2. ThreadInv'
  BY DriverKeepsThreads, OthersKeepThreads
<1>3. AheadInv'
  BY AheadStep
<1> QED BY <1>1, <1>2, <1>3 DEF OrderInv

LEMMA OrderInit == Init => OrderInv
<1> SUFFICES ASSUME Init PROVE OrderInv
  OBVIOUS
<1>1. Inv /\ LineInv
  BY TypeInit, FireInit, LineInit DEF Inv
<1>2. ThreadInv
  BY DEF Init, ThreadInv, Driver
<1>3. \A c \in TaskIds : queue[c] = <<>> /\ consumer[c] = "none" /\ consumed[c] = {}
  BY DEF Init
<1>4. \A c \in TaskIds : Contents(c) = {}
  BY <1>3 DEF Contents, Range
<1>5. AheadInv
  BY <1>3, <1>4, InFlightIsContents DEF AheadInv
<1> QED BY <1>1, <1>2, <1>5 DEF OrderInv

\* The step of InOrder.
LEMMA HandledInOrder ==
  ASSUME OrderInv, [Next]_vars, NEW t \in TaskIds, NEW p \in consumed'[t] \ consumed[t],
         NEW q \in consumed[t]
  PROVE  q.sequence < p.sequence
<1>1. CASE \E c \in TaskIds : ConsumerDeliver(c)
  <2>1. PICK c \in TaskIds : ConsumerDeliver(c)
    BY <1>1
  <2>2. consumed'[t] = IF t = hand[c].task THEN consumed[t] \cup {hand[c]} ELSE consumed[t]
    BY <2>1, DeliveredContents DEF OrderInv, Inv
  <2>3. t = hand[c].task /\ p = hand[c]
    BY <2>2
  <2> QED BY <2>1, <2>3, DeliverIsNext
<1>2. CASE ChannelsKept \/ (\E i \in Installations, u \in TaskIds : Accepts(i, u))
             \/ \E c \in TaskIds : ConsumerRecv(c)
  <2>1. consumed' = consumed
    BY <1>2 DEF ChannelsKept, Accepts, ConsumerRecv
  <2> QED BY <2>1
<1> QED BY <1>1, <1>2, ChannelSteps DEF OrderInv

(***************************************************************************)
(* While no driver loses its clock, the handler sees the fires of a task   *)
(* in the order of their numbers, across stop, the death of the driver it  *)
(* brings and a call that spawns another one behind it.  (A driver that    *)
(* loses its clock leaves a channel behind which its successor overtakes.) *)
(***************************************************************************)
THEOREM FiresInOrder ==
  ASSUME MaxClockFailures = 0
  PROVE  Spec => InOrder
<1>1. OrderInv /\ [Next]_vars => OrderInv'
  BY OrderStep
<1>2. OrderInv /\ [Next]_vars =>
        [\A t \in TaskIds : \A p \in consumed'[t] \ consumed[t] :
           \A q \in consumed[t] : q.sequence < p.sequence]_vars
  BY HandledInOrder
<1> QED BY OrderInit, <1>1, <1>2, PTL DEF Spec, InOrder

-----------------------------------------------------------------------------
(* Nobody sleeps through a fire: the wake generation a driver has not seen,  *)
(* or a timer that is early enough.                                          *)

\* The driver is on its way to the tables, has a wake to see, or waits for a moment
\* that is not after the next fire; its timer does not notice a clock set back.
Watches(d, woken, next, back) ==
  /\ d.pc = "idle" => woken
  /\ d.pc = "clock" => woken \/ d.at <= next
  /\ d.pc = "sleep" => woken \/ d.at <= next + back

\* A scheduled task is watched by the driver of its installation; it has none only
\* before the call that inserted it has come to ensure_driver, after stop, and after a
\* failed reading of the clock.
NoWakeupLost ==
  \A t \in TaskIds : task[t].state = "scheduled" =>
    /\ Watches(driver[Owner(t)], wake[Owner(t)], task[t].next, skew)
    /\ driver[Owner(t)].pc \in {"none", "closing"} =>
         call[t].pc = "inserted" \/ cancelled[Owner(t)] \/ clockFailures > 0

HandlesInv ==
  \A i \in Installations :
    /\ handle[i] <=> driver[i].pc # "none"
    /\ driver[i].pc = "closing" => cancelled[i] \/ clockFailures > 0

WakeInv == TypeInv /\ HandlesInv /\ NoWakeupLost

LEMMA ScheduledOwner ==
  ASSUME TypeInv, NEW t \in TaskIds, task[t].state = "scheduled"
  PROVE  /\ Owner(t) \in Installations /\ call[t].pc \in {"inserted", "returned"}
         /\ task[t].next \in Nat
BY DEF TypeInv, WellFormed

\* A step that leaves the drivers alone, and takes back no wake.
LEMMA StillWatched ==
  ASSUME WakeInv, UNCHANGED <<driver, handle>>,
         skew' \in Nat, skew <= skew', clockFailures' = clockFailures,
         \A i \in Installations : (wake[i] => wake'[i]) /\ (cancelled[i] => cancelled'[i]),
         \A t \in TaskIds : task'[t].state = "scheduled" =>
           /\ task[t].state = "scheduled" /\ task'[t].next = task[t].next
           /\ Owner(t)' = Owner(t)
           /\ call[t].pc = "inserted" =>
                call'[t].pc = "inserted" \/ driver[Owner(t)].pc # "none"
  PROVE  HandlesInv' /\ NoWakeupLost'
<1>1. HandlesInv'
  BY DEF WakeInv, HandlesInv
<1>2. ASSUME NEW t \in TaskIds, task'[t].state = "scheduled"
      PROVE  /\ Watches(driver[Owner(t)], wake'[Owner(t)], task[t].next, skew')
             /\ driver[Owner(t)].pc \in {"none", "closing"} =>
                  call'[t].pc = "inserted" \/ cancelled'[Owner(t)] \/ clockFailures > 0
  <2>1. /\ task[t].state = "scheduled" /\ Owner(t) \in Installations /\ task[t].next \in Nat
        /\ driver[Owner(t)].at \in Nat /\ skew \in Nat
    BY <1>2, ScheduledOwner, CountsAssumption DEF WakeInv, TypeInv, TypeOK, Drivers
  <2>2. Watches(driver[Owner(t)], wake[Owner(t)], task[t].next, skew)
    BY <2>1 DEF WakeInv, NoWakeupLost
  <2>3. Watches(driver[Owner(t)], wake'[Owner(t)], task[t].next, skew')
    BY <2>1, <2>2 DEF Watches
  <2>4. driver[Owner(t)].pc \in {"none", "closing"} =>
          call[t].pc = "inserted" \/ cancelled[Owner(t)] \/ clockFailures > 0
    BY <2>1 DEF WakeInv, NoWakeupLost
  <2>5. driver[Owner(t)].pc = "closing" => cancelled[Owner(t)] \/ clockFailures > 0
    BY <2>1 DEF WakeInv, HandlesInv
  <2> QED BY <1>2, <2>1, <2>3, <2>4, <2>5
<1>3. NoWakeupLost'
  <2>1. SUFFICES ASSUME NEW t \in TaskIds, task'[t].state = "scheduled"
                 PROVE  /\ Watches(driver'[Owner(t)'], wake'[Owner(t)'], task'[t].next, skew')
                        /\ driver'[Owner(t)'].pc \in {"none", "closing"} =>
                             \/ call'[t].pc = "inserted" \/ cancelled'[Owner(t)']
                             \/ clockFailures' > 0
    BY DEF NoWakeupLost
  <2> QED BY <1>2, <2>1
<1> QED BY <1>1, <1>3

\* A step of the driver of i alone, which leaves the others and what they watch.
LEMMA OneWatches ==
  ASSUME WakeInv, NEW i \in Installations,
         UNCHANGED <<skew, call, cancelled>>, clockFailures' \in Nat,
         clockFailures <= clockFailures',
         \A j \in Installations \ {i} :
           driver'[j] = driver[j] /\ wake'[j] = wake[j] /\ handle'[j] = handle[j],
         \A t \in TaskIds : Owner(t) # i => task'[t] = task[t],
         handle'[i] <=> driver'[i].pc # "none",
         driver'[i].pc \in {"none", "closing"} => cancelled[i] \/ clockFailures' > 0,
         \A t \in TaskIds : task'[t].state = "scheduled" /\ Owner(t) = i =>
           Watches(driver'[i], wake'[i], task'[t].next, skew)
  PROVE  HandlesInv' /\ NoWakeupLost'
<1>1. \A t : Owner(t)' = Owner(t)
  BY DEF Owner
<1>2. clockFailures \in Nat
  BY CountsAssumption DEF WakeInv, TypeInv, TypeOK
<1>3. HandlesInv'
  BY <1>2 DEF WakeInv, HandlesInv
<1>4. ASSUME NEW t \in TaskIds, task'[t].state = "scheduled"
      PROVE  /\ Watches(driver'[Owner(t)], wake'[Owner(t)], task'[t].next, skew)
             /\ driver'[Owner(t)].pc \in {"none", "closing"} =>
                  call[t].pc = "inserted" \/ cancelled[Owner(t)] \/ clockFailures' > 0
  <2>1. CASE Owner(t) = i
    BY <1>4, <2>1
  <2>2. CASE Owner(t) # i
    <3>1. task[t].state = "scheduled" /\ task'[t] = task[t]
      BY <1>4, <2>2
    <3>2. Owner(t) \in Installations \ {i}
      BY <2>2, <3>1, ScheduledOwner DEF WakeInv
    <3>3. /\ Watches(driver[Owner(t)], wake[Owner(t)], task[t].next, skew)
          /\ driver[Owner(t)].pc \in {"none", "closing"} =>
               call[t].pc = "inserted" \/ cancelled[Owner(t)] \/ clockFailures > 0
      BY <3>1 DEF WakeInv, NoWakeupLost
    <3>4. driver'[Owner(t)] = driver[Owner(t)] /\ wake'[Owner(t)] = wake[Owner(t)]
      BY <3>2
    <3> QED BY <1>2, <3>1, <3>3, <3>4
  <2> QED BY <2>1, <2>2
<1>5. NoWakeupLost'
  <2>1. SUFFICES ASSUME NEW t \in TaskIds, task'[t].state = "scheduled"
                 PROVE  /\ Watches(driver'[Owner(t)'], wake'[Owner(t)'], task'[t].next, skew')
                        /\ driver'[Owner(t)'].pc \in {"none", "closing"} =>
                             \/ call'[t].pc = "inserted" \/ cancelled'[Owner(t)']
                             \/ clockFailures' > 0
    BY DEF NoWakeupLost
  <2>2. Owner(t)' = Owner(t)
    BY <1>1
  <2> QED BY <1>4, <2>1, <2>2
<1> QED BY <1>3, <1>5

LEMMA DriverKeepsWatch ==
  ASSUME WakeInv, NEW i \in Installations, DriverStep(i)
  PROVE  HandlesInv' /\ NoWakeupLost'
<1>1. /\ driver \in [Installations -> Drivers] /\ handle \in [Installations -> BOOLEAN]
      /\ wake \in [Installations -> BOOLEAN] /\ clockFailures \in Nat /\ skew \in Nat
      /\ driver[i].at \in Nat
  BY CountsAssumption DEF WakeInv, TypeInv, TypeOK, Drivers
<1>2. /\ UNCHANGED <<skew, call, cancelled>>
      /\ \A j \in Installations \ {i} :
           driver'[j] = driver[j] /\ wake'[j] = wake[j] /\ handle'[j] = handle[j]
      /\ clockFailures' \in Nat /\ clockFailures <= clockFailures'
  BY <1>1 DEF DriverStep, DriverScan, DriverClock, DriverCancelled, DriverWoken, DriverSlept,
         FireReadClock, FireLock, FireSend, FireUnlock, DriverExit, Break, callVars, clockVars,
         driverVars
<1>3. handle[i] <=> driver[i].pc # "none"
  BY DEF WakeInv, HandlesInv
<1>4. CASE FireSend(i)
  <2>1. UNCHANGED <<driver, wake, handle, clockFailures>> /\ driver[i].pc = "send"
    BY <1>4 DEF FireSend, driverVars, clockVars
  <2>2. PICK u \in DueTasks(i, driver[i].at) :
          \E n \in Nat \ {0}, missed \in Nat : task' = [task EXCEPT ![u] = Advanced(u, n, missed)]
    BY <1>4, FireEffect DEF FireSend, WakeInv
  <2>3. Owner(u) = i
    BY DEF DueTasks, ScheduledTasks
  <2>4. \A t \in TaskIds : Owner(t) # i => task'[t] = task[t]
    BY <2>2, <2>3 DEF WakeInv, TypeInv, TypeOK
  <2>5. \A next : Watches(driver'[i], wake'[i], next, skew)
    BY <2>1 DEF Watches
  <2> QED BY <1>2, <1>3, <2>1, <2>4, <2>5, OneWatches
<1>5. CASE ~ FireSend(i)
  <2>1. task' = task
    BY <1>5 DEF DriverStep, DriverScan, DriverClock, DriverCancelled, DriverWoken, DriverSlept,
         FireReadClock, FireLock, FireUnlock, DriverExit
  <2>2. /\ handle'[i] <=> driver'[i].pc # "none"
        /\ driver'[i].pc \in {"none", "closing"} => cancelled[i] \/ clockFailures' > 0
    <3>1. CASE DriverExit(i)
      BY <1>1, <3>1 DEF DriverExit, Driver, clockVars, WakeInv, HandlesInv
    <3>2. CASE DriverClock(i)
      BY <1>1, <1>3, <3>2 DEF DriverClock, Driver, Break
    <3>3. CASE DriverCancelled(i)
      BY <1>1, <1>3, <3>3 DEF DriverCancelled, SeesToken, Driver, Break
    <3>4. CASE DriverScan(i) \/ DriverWoken(i) \/ DriverSlept(i) \/ FireReadClock(i)
               \/ FireLock(i) \/ FireUnlock(i)
      BY <1>1, <1>3, <3>4 DEF DriverScan, DriverWoken, DriverSlept, FireReadClock, FireLock,
           FireUnlock, Driver
    <3> QED BY <1>5, <3>1, <3>2, <3>3, <3>4 DEF DriverStep
  <2>3. ASSUME NEW t \in TaskIds, task[t].state = "scheduled", Owner(t) = i
        PROVE  Watches(driver'[i], wake'[i], task[t].next, skew)
    <3>1. Watches(driver[i], wake[i], task[t].next, skew) /\ task[t].next \in Nat
      BY <2>3, ScheduledOwner DEF WakeInv, NoWakeupLost
    <3>2. CASE DriverScan(i)
      <4>1. t \in ScheduledTasks(i)
        BY <2>3 DEF ScheduledTasks
      <4>2. PICK u \in ScheduledTasks(i) :
              /\ FiresFirst(i, u)
              /\ driver' = [driver EXCEPT ![i] = Driver("clock", driver[i].channel, task[u].next)]
        BY <3>2, <4>1 DEF DriverScan
      <4>3. task[u].next <= task[t].next
        BY <4>1, <4>2 DEF FiresFirst
      <4>4. driver'[i].pc = "clock" /\ driver'[i].at = task[u].next
        BY <1>1, <4>2 DEF Driver
      <4> QED BY <4>3, <4>4 DEF Watches
    <3>3. CASE DriverClock(i)
      <4>1. wake' = wake /\ driver[i].pc = "clock"
        BY <3>3 DEF DriverClock
      <4>2. \/ driver'[i].pc \in {"fire", "closing"}
            \/ driver'[i].pc = "sleep" /\ driver'[i].at = driver[i].at + skew
        BY <1>1, <3>3 DEF DriverClock, Driver, Break
      <4> QED BY <1>1, <3>1, <4>1, <4>2 DEF Watches
    <3>4. CASE \/ DriverWoken(i) \/ DriverSlept(i) \/ DriverCancelled(i) \/ FireReadClock(i)
               \/ FireLock(i) \/ FireUnlock(i) \/ DriverExit(i)
      <4>1. driver'[i].pc \notin {"idle", "clock", "sleep"}
        BY <1>1, <3>4 DEF DriverWoken, DriverSlept, DriverCancelled, FireReadClock, FireLock,
             FireUnlock, DriverExit, Driver, Break
      <4> QED BY <4>1 DEF Watches
    <3> QED BY <1>5, <3>2, <3>3, <3>4 DEF DriverStep
  <2> QED BY <1>2, <2>1, <2>2, <2>3, OneWatches
<1> QED BY <1>4, <1>5

LEMMA OthersKeepWatch ==
  ASSUME WakeInv, [Next]_vars, ~ \E i \in Installations : DriverStep(i)
  PROVE  HandlesInv' /\ NoWakeupLost'
<1>1. /\ driver \in [Installations -> Drivers] /\ handle \in [Installations -> BOOLEAN]
      /\ wake \in [Installations -> BOOLEAN] /\ cancelled \in [Installations -> BOOLEAN]
      /\ task \in [TaskIds -> Entries] /\ call \in [TaskIds -> Calls] /\ skew \in Nat
      /\ clockFailures \in Nat
  BY CountsAssumption DEF WakeInv, TypeInv, TypeOK
<1>2. TypeInv /\ \A t \in TaskIds : task[t].state = "scheduled" =>
        /\ Owner(t) \in Installations /\ call[t].pc \in {"inserted", "returned"}
        /\ Owner(t)' = Owner(t)
  BY ScheduledOwner, OwnersStay DEF WakeInv
<1>3. CASE /\ UNCHANGED <<driver, handle, wake, task, call, clockFailures>>
           /\ skew' \in {skew, skew + 1}
           /\ \A i \in Installations : cancelled[i] => cancelled'[i]
  BY <1>1, <1>2, <1>3, StillWatched
<1>4. CASE \/ Tick \/ SetClockBack \/ UNCHANGED vars
           \/ \E i \in Installations : StopMark(i) \/ StopCancelToken(i)
           \/ \E c \in TaskIds : ConsumerStep(c)
  <2>1. /\ UNCHANGED <<driver, handle, wake, task, call, clockFailures>>
        /\ skew' \in {skew, skew + 1}
        /\ \A i \in Installations : cancelled[i] => cancelled'[i]
    BY <1>1, <1>4 DEF Tick, SetClockBack, vars, StopMark, StopCancelToken, ConsumerStep,
         ConsumerRecv, ConsumerDeliver, ConsumerEnd, driverVars, callVars, clockVars
  <2> QED BY <1>3, <2>1
<1>5. ASSUME NEW i \in Installations, NEW tr \in Triggers, ScheduleValidate(i, tr)
      PROVE  HandlesInv' /\ NoWakeupLost'
  <2>1. /\ UNCHANGED <<driver, handle, wake, task, skew, clockFailures, cancelled>>
        /\ nextTaskId \in TaskIds
        /\ call' = [call EXCEPT ![nextTaskId] =
                      [pc |-> "validated", inst |-> i, trigger |-> tr]]
    BY <1>5 DEF ScheduleValidate, driverVars, clockVars
  <2>2. call[nextTaskId].pc = "idle"
    BY <1>2, <2>1 DEF TypeInv, TypeOK, WellFormed
  <2>3. \A t \in TaskIds : task[t].state = "scheduled" => call'[t] = call[t]
    BY <1>1, <1>2, <2>1, <2>2
  <2> QED BY <1>1, <1>2, <2>1, <2>3, StillWatched
<1>6. ASSUME NEW u \in TaskIds, Cancel(u)
      PROVE  HandlesInv' /\ NoWakeupLost'
  <2>1. /\ UNCHANGED <<driver, handle, call, skew, clockFailures, cancelled>>
        /\ task' = [task EXCEPT ![u] = Entry("cancelled", @.sequence, @.missed, NoFire)]
        /\ wake' = [wake EXCEPT ![Owner(u)] = TRUE]
    BY <1>6 DEF Cancel, WakeDriver, driverVars, clockVars, callVars
  <2>2. /\ \A i \in Installations : wake[i] => wake'[i]
        /\ \A t \in TaskIds : task'[t].state = "scheduled" => task'[t] = task[t]
    BY <1>1, <2>1 DEF Entry
  <2> QED BY <1>1, <1>2, <2>1, <2>2, StillWatched
<1>7. ASSUME NEW u \in TaskIds, ScheduleInsert(u)
      PROVE  HandlesInv' /\ NoWakeupLost'
  <2>1. /\ UNCHANGED <<driver, handle, skew, clockFailures, cancelled>>
        /\ call[u].pc = "validated"
    BY <1>7 DEF ScheduleInsert, driverVars, clockVars
  <2>2. task[u].state # "scheduled"
    BY <1>2, <2>1
  <2>3. CASE UNCHANGED <<task, wake>> /\ call' = [call EXCEPT ![u].pc = "refused"]
    <3>1. \A t \in TaskIds : task[t].state = "scheduled" => call'[t] = call[t]
      BY <1>1, <2>2, <2>3
    <3> QED BY <1>1, <1>2, <2>1, <2>3, <3>1, StillWatched
  <2>4. CASE /\ task' = [task EXCEPT ![u] = FirstEntry(u)]
             /\ wake' = [wake EXCEPT ![Owner(u)] = TRUE]
             /\ call' = [call EXCEPT ![u].pc = "inserted"]
    <3>1. \A t \in TaskIds \ {u} : task'[t] = task[t] /\ call'[t] = call[t]
      BY <1>1, <2>4
    <3>2. call'[u].pc = "inserted" /\ Owner(u)' = Owner(u) /\ Owner(u) \in Installations
      BY <1>1, <1>2, <2>1, <2>4 DEF Calls, Owner, TypeInv, WellFormed
    <3>3. wake'[Owner(u)] /\ \A i \in Installations : wake[i] => wake'[i]
      BY <1>1, <2>4, <3>2
    <3>4. HandlesInv'
      BY <2>1 DEF WakeInv, HandlesInv
    <3>5. SUFFICES ASSUME NEW t \in TaskIds, task'[t].state = "scheduled"
                   PROVE  /\ Watches(driver[Owner(t)'], wake'[Owner(t)'], task'[t].next, skew)
                          /\ driver[Owner(t)'].pc \in {"none", "closing"} =>
                               \/ call'[t].pc = "inserted" \/ cancelled[Owner(t)']
                               \/ clockFailures > 0
      BY <2>1, <3>4 DEF NoWakeupLost
    <3>6. CASE t = u
      BY <3>2, <3>3, <3>6 DEF Watches
    <3>7. CASE t # u
      <4>1. /\ task[t].state = "scheduled" /\ task'[t] = task[t] /\ call'[t] = call[t]
            /\ Owner(t)' = Owner(t) /\ Owner(t) \in Installations
        BY <1>2, <3>1, <3>5, <3>7
      <4>2. /\ Watches(driver[Owner(t)], wake[Owner(t)], task[t].next, skew)
            /\ driver[Owner(t)].pc \in {"none", "closing"} =>
                 call[t].pc = "inserted" \/ cancelled[Owner(t)] \/ clockFailures > 0
        BY <4>1 DEF WakeInv, NoWakeupLost
      <4>3. Watches(driver[Owner(t)], wake'[Owner(t)], task[t].next, skew)
        BY <3>3, <4>1, <4>2 DEF Watches
      <4> QED BY <4>1, <4>2, <4>3
    <3> QED BY <3>6, <3>7
  <2> QED BY <1>7, <2>3, <2>4 DEF ScheduleInsert, WakeDriver
<1>8. ASSUME NEW u \in TaskIds, EnsureDriver(u)
      PROVE  HandlesInv' /\ NoWakeupLost'
  <2> PICK i : i = Owner(u)
    OBVIOUS
  <2>1. /\ UNCHANGED <<task, skew, clockFailures, cancelled>>
        /\ call[u].pc = "inserted" /\ call' = [call EXCEPT ![u].pc = "returned"]
    BY <1>8 DEF EnsureDriver, clockVars
  <2>2. i \in Installations
    BY <1>2, <2>1 DEF TypeInv, WellFormed
  <2>3. \A t \in TaskIds \ {u} : call'[t] = call[t]
    BY <1>1, <2>1
  <2>4. CASE handle[i]
    <3>1. UNCHANGED <<driver, handle, wake>>
      BY <1>8, <2>4 DEF EnsureDriver, NeedsDriver, driverVars
    <3>2. driver[Owner(u)].pc # "none"
      BY <2>2, <2>4 DEF WakeInv, HandlesInv
    <3> QED BY <1>1, <1>2, <2>1, <2>3, <3>1, <3>2, StillWatched
  <2>5. CASE ~handle[i]
    <3>1. /\ handle' = [handle EXCEPT ![i] = TRUE]
          /\ driver' = [driver EXCEPT ![i] = Driver("scan", u, 0)]
          /\ wake' = [wake EXCEPT ![i] = FALSE]
      BY <1>8, <2>5 DEF EnsureDriver, NeedsDriver
    <3>2. /\ driver'[i].pc = "scan" /\ handle'[i]
          /\ \A j \in Installations \ {i} :
               driver'[j] = driver[j] /\ wake'[j] = wake[j] /\ handle'[j] = handle[j]
      BY <1>1, <2>2, <3>1 DEF Driver
    <3>3. HandlesInv'
      BY <2>1, <3>2 DEF WakeInv, HandlesInv
    <3>4. SUFFICES ASSUME NEW t \in TaskIds, task[t].state = "scheduled"
                   PROVE  /\ Watches(driver'[Owner(t)'], wake'[Owner(t)'], task[t].next, skew)
                          /\ driver'[Owner(t)'].pc \in {"none", "closing"} =>
                               \/ call'[t].pc = "inserted" \/ cancelled[Owner(t)']
                               \/ clockFailures > 0
      BY <2>1, <3>3 DEF NoWakeupLost
    <3>5. Owner(t)' = Owner(t) /\ Owner(t) \in Installations
      BY <1>2, <3>4
    <3>6. CASE Owner(t) = i
      BY <3>2, <3>5, <3>6 DEF Watches
    <3>7. CASE Owner(t) # i
      <4>1. /\ Watches(driver[Owner(t)], wake[Owner(t)], task[t].next, skew)
            /\ driver[Owner(t)].pc \in {"none", "closing"} =>
                 call[t].pc = "inserted" \/ cancelled[Owner(t)] \/ clockFailures > 0
        BY <3>4 DEF WakeInv, NoWakeupLost
      <4>2. call'[t] = call[t]
        BY <2>3, <3>7
      <4>3. driver'[Owner(t)] = driver[Owner(t)] /\ wake'[Owner(t)] = wake[Owner(t)]
        BY <3>2, <3>5, <3>7
      <4> QED BY <3>5, <4>1, <4>2, <4>3
    <3> QED BY <3>6, <3>7
  <2> QED BY <2>4, <2>5
<1> QED BY <1>4, <1>5, <1>6, <1>7, <1>8 DEF Next, CallerStep

(***************************************************************************)
(* No wake-up is lost between a caller and a driver that is about to sleep *)
(* (run_driver, ensure_driver): whatever is scheduled, cancelled, set back *)
(* or respawned meanwhile, the driver of a scheduled task is on its way to *)
(* the tables, has a wake to see, or sleeps no longer than to its fire.    *)
(***************************************************************************)
THEOREM WakeupsReachDrivers == Spec => []NoWakeupLost
<1>1. Init => WakeInv
  <2>1. SUFFICES ASSUME Init PROVE HandlesInv /\ NoWakeupLost
    BY TypeInit DEF WakeInv
  <2>2. \A i \in Installations : handle[i] = FALSE /\ driver[i].pc = "none"
    BY <2>1 DEF Init, Driver
  <2>3. \A t \in TaskIds : task[t].state = "absent"
    BY <2>1 DEF Init, NoEntry, Entry
  <2> QED BY <2>2, <2>3 DEF HandlesInv, NoWakeupLost
<1>2. WakeInv /\ [Next]_vars => WakeInv'
  BY TypeStep, DriverKeepsWatch, OthersKeepWatch DEF WakeInv
<1>3. WakeInv => NoWakeupLost
  BY DEF WakeInv
<1> QED BY <1>1, <1>2, <1>3, PTL DEF Spec
=============================================================================

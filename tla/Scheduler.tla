------------------------------ MODULE Scheduler ------------------------------
(***************************************************************************)
(* The typed scheduler service of crates/application/src/scheduler.rs.     *)
(*                                                                         *)
(* Every installation has at most one driver task, which sleeps until the  *)
(* earliest due fire and offers the fires to a bounded channel, and one    *)
(* consumer task per channel, which calls the guest's handler.  Callers of *)
(* schedule, cancel and stop run concurrently with them; the only lock is  *)
(* the service's mutex over the task tables.                               *)
(*                                                                         *)
(* A step of a driver is what it does between two points where another     *)
(* thread can act: the mutex, a clock reading, an await, and -- inside     *)
(* fire_due, which keeps the mutex -- each try_send, because a consumer    *)
(* may free a slot between two of them.                                    *)
(***************************************************************************)
EXTENDS Integers, Sequences, FiniteSets, Functions

CONSTANTS Installations,            \* installed components
          MaxTaskId,                \* bound: schedule calls that reach the id counter
          Triggers,                 \* the triggers guests ask for
          MaxTasksPerInstallation,  \* SchedulerLimits.max_tasks_per_installation
          MaxTotalTasks,            \* SchedulerLimits.max_total_tasks
          DeliveryQueueCapacity,    \* SchedulerLimits.delivery_queue_capacity
          MinPeriodicInterval,      \* SchedulerLimits.min_periodic_interval
          MaxTime,                  \* bound: the wall clock stops here
          MaxSkew,                  \* bound: how far the wall clock is set back
          MaxClockFailures          \* bound: failed clock readings of drivers

TaskIds == 1..MaxTaskId

TriggerRecords == [kind : {"one-shot", "periodic"}, at : Nat, interval : Nat]

ASSUME CountsAssumption ==
  /\ MaxTaskId \in Nat
  /\ MaxTasksPerInstallation \in Nat
  /\ MaxTotalTasks \in Nat
  /\ DeliveryQueueCapacity \in Nat \ {0}
  /\ MinPeriodicInterval \in Nat \ {0}
  /\ MaxTime \in Nat
  /\ MaxSkew \in Nat
  /\ MaxClockFailures \in Nat

ASSUME TriggersAssumption == Triggers \subseteq TriggerRecords

VARIABLES
  now,            \* the wall clock
  skew,           \* how far the wall clock has been set back in all
  clockFailures,  \* failed clock readings so far
  nextTaskId,     \* Inner.next_task_id
  call,           \* the schedule call that was given this task id
  task,           \* InstallSchedulerState.tasks
  stopped,        \* InstallSchedulerState.stopped
  cancelled,      \* InstallSchedulerState.token
  wake,           \* the driver has not yet seen the last wake generation
  handle,         \* InstallSchedulerState.driver is Some
  driver,         \* the driver task: where it is and its locals
  queue,          \* delivery channels, named by the call that spawned them
  sender,         \* the channel's sender is alive
  consumer,       \* the consumer task of the channel
  hand,           \* the payload the consumer has received and not yet handled
  consumed        \* payloads whose handler call has ended (observation only)

clockVars    == <<now, skew, clockFailures>>
callVars     == <<nextTaskId, call>>
driverVars   == <<handle, driver, sender>>
consumerVars == <<hand, consumed>>
vars == <<clockVars, callVars, task, stopped, cancelled, wake, driverVars,
          queue, consumer, consumerVars>>

NoFire         == -1
NoTask         == 0
NoInstallation == "none"
NoTrigger      == [kind |-> "none", at |-> 0, interval |-> 0]
NoPayload      == [task |-> NoTask, sequence |-> 0, at |-> 0, missed |-> 0]

\* TaskEntry
Entry(state, sequence, missed, next) ==
  [state |-> state, sequence |-> sequence, missed |-> missed, next |-> next]

NoEntry == Entry("absent", 1, 0, NoFire)

Payloads == [task : TaskIds, sequence : Nat \ {0}, at : Nat, missed : Nat]

Calls == [pc : {"idle", "validated", "inserted", "returned", "refused"},
          inst : Installations \cup {NoInstallation},
          trigger : Triggers \cup {NoTrigger}]

Entries == [state : {"absent", "scheduled", "cancelled", "completed"},
            sequence : Nat \ {0}, missed : Nat, next : Nat \cup {NoFire}]

Drivers == [pc : {"none", "scan", "idle", "clock", "sleep", "fire", "lock", "send",
                  "closing"},
            channel : TaskIds \cup {NoTask}, at : Nat]

Owner(t) == call[t].inst
Trigger(t) == call[t].trigger

-----------------------------------------------------------------------------
(* Reading the task tables. *)

ScheduledTasks(i) == {t \in TaskIds : task[t].state = "scheduled" /\ Owner(t) = i}

\* earliest_next_fire returns the next fire of t.
FiresFirst(i, t) == \A u \in ScheduledTasks(i) : task[t].next <= task[u].next

\* The entries fire_due does not skip.
DueTasks(i, when) == {t \in ScheduledTasks(i) : task[t].next <= when}

\* fire_due visits the BTreeMap of tasks in the order of their ids.
VisitedFirst(i, t, when) == \A u \in DueTasks(i, when) : t <= u

\* due_grid_points: how many k have next + k * interval <= when.
DueGridPoints(next, when, interval) == (when - next) \div interval + 1

\* Another call or driver may take the mutex.
LockFree == \A i \in Installations : driver[i].pc # "send"

-----------------------------------------------------------------------------
(* The environment's clock. *)

Tick == /\ now < MaxTime
        /\ now' = now + 1
        /\ UNCHANGED <<skew, clockFailures, callVars, task, stopped, cancelled,
                       wake, driverVars, queue, consumer, consumerVars>>

\* The operator sets the wall clock back; tokio's timers do not notice.
SetClockBack ==
  /\ skew < MaxSkew
  /\ now > 0
  /\ now' = now - 1
  /\ skew' = skew + 1
  /\ UNCHANGED <<clockFailures, callVars, task, stopped, cancelled, wake,
                 driverVars, queue, consumer, consumerVars>>

-----------------------------------------------------------------------------
(* Callers. *)

WakeNobody(i) == UNCHANGED wake

\* wake.send_replace: seen by the driver at its next select.
WakeDriver(i) == wake' = [wake EXCEPT ![i] = TRUE]

\* validate_trigger
ValidTrigger(trigger) ==
  /\ trigger.at > now
  /\ trigger.kind = "periodic" => trigger.interval >= MinPeriodicInterval

\* schedule, up to the id counter.  A refused call changes nothing.
ScheduleValidate(i, trigger) ==
  /\ nextTaskId \in TaskIds
  /\ ValidTrigger(trigger)
  /\ nextTaskId' = nextTaskId + 1
  /\ call' = [call EXCEPT ![nextTaskId] =
                [pc |-> "validated", inst |-> i, trigger |-> trigger]]
  /\ UNCHANGED <<clockVars, task, stopped, cancelled, wake, driverVars, queue,
                 consumer, consumerVars>>

\* scheduled_count against both limits.
WithinBudget(i) ==
  /\ Cardinality(UNION {ScheduledTasks(j) : j \in Installations}) < MaxTotalTasks
  /\ Cardinality(ScheduledTasks(i)) < MaxTasksPerInstallation

\* The first fire is at the trigger's own time (first_fire_at).
FirstEntry(t) == Entry("scheduled", 1, 0, Trigger(t).at)

\* schedule, under the mutex: refuse, or insert the task and wake the driver.
ScheduleInsert(t) ==
  /\ call[t].pc = "validated"
  /\ LockFree
  /\ IF WithinBudget(Owner(t)) /\ ~stopped[Owner(t)]
     THEN /\ task' = [task EXCEPT ![t] = FirstEntry(t)]
          /\ WakeDriver(Owner(t))
          /\ call' = [call EXCEPT ![t].pc = "inserted"]
     ELSE /\ call' = [call EXCEPT ![t].pc = "refused"]
          /\ UNCHANGED <<task, wake>>
  /\ UNCHANGED <<clockVars, nextTaskId, stopped, cancelled, driverVars, queue,
                 consumer, consumerVars>>

Driver(pc, c, at) == [pc |-> pc, channel |-> c, at |-> at]

AlwaysNeedsDriver(i) == TRUE

\* ensure_driver's check of the handle.
NeedsDriver(i) == ~handle[i]

\* ensure_driver: spawn a driver and the consumer of a new channel, unless
\* the table holds a driver handle.
EnsureDriver(t) ==
  LET i == Owner(t) IN
  /\ call[t].pc = "inserted"
  /\ LockFree
  /\ call' = [call EXCEPT ![t].pc = "returned"]
  /\ IF NeedsDriver(i)
     THEN /\ handle'   = [handle EXCEPT ![i] = TRUE]
          /\ driver'   = [driver EXCEPT ![i] = Driver("scan", t, 0)]
          /\ sender'   = [sender EXCEPT ![t] = TRUE]
          /\ consumer' = [consumer EXCEPT ![t] = "recv"]
          /\ wake'     = [wake EXCEPT ![i] = FALSE]
     ELSE UNCHANGED <<wake, driverVars, consumer>>
  /\ UNCHANGED <<clockVars, nextTaskId, task, stopped, cancelled, queue,
                 consumerVars>>

\* cancel: only a scheduled task of an installation that is not stopped.
Cancel(t) ==
  /\ task[t].state = "scheduled"
  /\ ~stopped[Owner(t)]
  /\ LockFree
  /\ task' = [task EXCEPT ![t] = Entry("cancelled", @.sequence, @.missed, NoFire)]
  /\ WakeDriver(Owner(t))
  /\ UNCHANGED <<clockVars, callVars, stopped, cancelled, driverVars, queue,
                 consumer, consumerVars>>

\* stop, first half: the flag, under the mutex.
StopMark(i) ==
  /\ ~stopped[i]
  /\ LockFree
  /\ stopped' = [stopped EXCEPT ![i] = TRUE]
  /\ UNCHANGED <<clockVars, callVars, task, cancelled, wake, driverVars, queue,
                 consumer, consumerVars>>

\* stop, second half: the token, after the mutex is released.
StopCancelToken(i) ==
  /\ stopped[i]
  /\ ~cancelled[i]
  /\ cancelled' = [cancelled EXCEPT ![i] = TRUE]
  /\ UNCHANGED <<clockVars, callVars, task, stopped, wake, driverVars, queue,
                 consumer, consumerVars>>

-----------------------------------------------------------------------------
(* The driver task (run_driver). *)

\* Read the earliest fire under the mutex; with no task, wait without a timer.
DriverScan(i) ==
  /\ driver[i].pc = "scan"
  /\ LockFree
  /\ \/ /\ ScheduledTasks(i) = {}
        /\ driver' = [driver EXCEPT ![i] = Driver("idle", driver[i].channel, 0)]
     \/ \E t \in ScheduledTasks(i) :
          /\ FiresFirst(i, t)
          /\ driver' = [driver EXCEPT ![i] =
                          Driver("clock", driver[i].channel, task[t].next)]
  /\ UNCHANGED <<clockVars, callVars, task, stopped, cancelled, wake, handle,
                 sender, queue, consumer, consumerVars>>

\* Leave the loop: the sender is dropped before the handle is removed.
Break(i) ==
  /\ driver' = [driver EXCEPT ![i] = Driver("closing", driver[i].channel, 0)]
  /\ sender' = [sender EXCEPT ![driver[i].channel] = FALSE]

\* Compare with the clock; a sleep is measured on the monotonic clock.
DriverClock(i) ==
  /\ driver[i].pc = "clock"
  /\ \/ /\ driver' = [driver EXCEPT ![i] =
                        IF driver[i].at <= now
                        THEN Driver("fire", driver[i].channel, 0)
                        ELSE Driver("sleep", driver[i].channel, driver[i].at + skew)]
        /\ UNCHANGED <<clockFailures, sender>>
     \/ /\ clockFailures < MaxClockFailures
        /\ clockFailures' = clockFailures + 1
        /\ Break(i)
  /\ UNCHANGED <<now, skew, callVars, task, stopped, cancelled, wake, handle,
                 queue, consumer, consumerVars>>

IdleIgnoresToken(i) == driver[i].pc = "sleep" /\ cancelled[i]

SeesToken(i) == driver[i].pc \in {"idle", "sleep"} /\ cancelled[i]

\* The three branches of select!, any of those that are ready.
DriverCancelled(i) ==
  /\ SeesToken(i)
  /\ Break(i)
  /\ UNCHANGED <<clockVars, callVars, task, stopped, cancelled, wake, handle,
                 queue, consumer, consumerVars>>

DriverWoken(i) ==
  /\ driver[i].pc \in {"idle", "sleep"}
  /\ wake[i]
  /\ wake' = [wake EXCEPT ![i] = FALSE]
  /\ driver' = [driver EXCEPT ![i] = Driver("scan", driver[i].channel, 0)]
  /\ UNCHANGED <<clockVars, callVars, task, stopped, cancelled, handle, sender,
                 queue, consumer, consumerVars>>

DriverSlept(i) ==
  /\ driver[i].pc = "sleep"
  /\ driver[i].at <= now + skew
  /\ driver' = [driver EXCEPT ![i] = Driver("fire", driver[i].channel, 0)]
  /\ UNCHANGED <<clockVars, callVars, task, stopped, cancelled, wake, handle,
                 sender, queue, consumer, consumerVars>>

\* fire_due reads the clock before it takes the mutex.
FireReadClock(i) ==
  /\ driver[i].pc = "fire"
  /\ \/ /\ driver' = [driver EXCEPT ![i] = Driver("lock", driver[i].channel, now)]
        /\ UNCHANGED clockFailures
     \/ /\ clockFailures < MaxClockFailures
        /\ clockFailures' = clockFailures + 1
        /\ driver' = [driver EXCEPT ![i] = Driver("scan", driver[i].channel, 0)]
  /\ UNCHANGED <<now, skew, callVars, task, stopped, cancelled, wake, handle,
                 sender, queue, consumer, consumerVars>>

FiresWhenStopped(i) == TRUE

\* A stopped installation produces no new fire.
MayFire(i) == ~stopped[i]

FireLock(i) ==
  /\ driver[i].pc = "lock"
  /\ LockFree
  /\ driver' = [driver EXCEPT ![i] =
                  IF MayFire(i) THEN Driver("send", driver[i].channel, driver[i].at)
                  ELSE Driver("scan", driver[i].channel, 0)]
  /\ UNCHANGED <<clockVars, callVars, task, stopped, cancelled, wake, handle,
                 sender, queue, consumer, consumerVars>>

RestartsFromNow(t, n, missed) ==
  IF Trigger(t).kind = "one-shot"
  THEN Entry("completed", task[t].sequence + 1, missed, NoFire)
  ELSE Entry("scheduled", task[t].sequence + n, missed,
             driver[Owner(t)].at + Trigger(t).interval)

\* The entry after n fires of the task: a one-shot task has only one.
Advanced(t, n, missed) ==
  IF Trigger(t).kind = "one-shot"
  THEN Entry("completed", task[t].sequence + 1, missed, NoFire)
  ELSE Entry("scheduled", task[t].sequence + n, missed,
             task[t].next + n * Trigger(t).interval)

\* The grid points of t that are still due when the channel is full.
Remaining(t, when) ==
  IF Trigger(t).kind = "one-shot" THEN 1
  ELSE DueGridPoints(task[t].next, when, Trigger(t).interval)

NextPayload(t) == [task |-> t, sequence |-> task[t].sequence,
                   at |-> task[t].next, missed |-> task[t].missed]

HasRoom(c) == Len(queue[c]) < DeliveryQueueCapacity

NeverReset(t) == Advanced(t, 1, task[t].missed)

SequenceKept(t) == [Advanced(t, 1, 0) EXCEPT !.sequence = task[t].sequence]

\* The entry after a fire that was accepted: its payload carried the misses.
Reported(t) == Advanced(t, 1, 0)

\* try_send returned Ok: the payload reports the fires missed before it.
AcceptFire(i, t) ==
  LET c == driver[i].channel IN
  /\ HasRoom(c)
  /\ queue' = [queue EXCEPT ![c] = Append(@, NextPayload(t))]
  /\ task' = [task EXCEPT ![t] = Reported(t)]

\* try_send returned Full: all the remaining due fires of the task are missed.
MissFires(i, t) ==
  LET n == Remaining(t, driver[i].at) IN
  /\ ~HasRoom(driver[i].channel)
  /\ task' = [task EXCEPT ![t] = Advanced(t, n, task[t].missed + n)]
  /\ UNCHANGED queue

\* One turn of fire_due's loops, with the mutex held.
FireSend(i) ==
  /\ driver[i].pc = "send"
  /\ \E t \in DueTasks(i, driver[i].at) :
       /\ VisitedFirst(i, t, driver[i].at)
       /\ AcceptFire(i, t) \/ MissFires(i, t)
  /\ UNCHANGED <<clockVars, callVars, stopped, cancelled, wake, driverVars,
                 consumer, consumerVars>>

FireUnlock(i) ==
  /\ driver[i].pc = "send"
  /\ DueTasks(i, driver[i].at) = {}
  /\ driver' = [driver EXCEPT ![i] = Driver("scan", driver[i].channel, 0)]
  /\ UNCHANGED <<clockVars, callVars, task, stopped, cancelled, wake, handle,
                 sender, queue, consumer, consumerVars>>

\* The end of run_driver: take the mutex and remove the handle.
DriverExit(i) ==
  /\ driver[i].pc = "closing"
  /\ LockFree
  /\ handle' = [handle EXCEPT ![i] = FALSE]
  /\ driver' = [driver EXCEPT ![i] = Driver("none", NoTask, 0)]
  /\ UNCHANGED <<clockVars, callVars, task, stopped, cancelled, wake, sender,
                 queue, consumer, consumerVars>>

DriverStep(i) ==
  \/ DriverScan(i) \/ DriverClock(i)
  \/ DriverCancelled(i) \/ DriverWoken(i) \/ DriverSlept(i)
  \/ FireReadClock(i) \/ FireLock(i) \/ FireSend(i) \/ FireUnlock(i)
  \/ DriverExit(i)

-----------------------------------------------------------------------------
(* The consumer task of a channel (run_consumer). *)

ConsumerRecv(c) ==
  /\ consumer[c] = "recv"
  /\ queue[c] # <<>>
  /\ hand' = [hand EXCEPT ![c] = Head(queue[c])]
  /\ queue' = [queue EXCEPT ![c] = Tail(@)]
  /\ consumer' = [consumer EXCEPT ![c] = "deliver"]
  /\ UNCHANGED <<clockVars, callVars, task, stopped, cancelled, wake, driverVars,
                 consumed>>

\* on_trigger returned or trapped: the fire is consumed either way.
ConsumerDeliver(c) ==
  LET p == hand[c] IN
  /\ consumer[c] = "deliver"
  /\ consumed' = [consumed EXCEPT ![p.task] = @ \cup {p}]
  /\ hand' = [hand EXCEPT ![c] = NoPayload]
  /\ consumer' = [consumer EXCEPT ![c] = "recv"]
  /\ UNCHANGED <<clockVars, callVars, task, stopped, cancelled, wake, driverVars,
                 queue>>

\* recv returns None: the channel is empty and its sender dropped.
Exhausted(c) == queue[c] = <<>> /\ ~sender[c]

ConsumerEnd(c) ==
  /\ consumer[c] = "recv"
  /\ Exhausted(c)
  /\ consumer' = [consumer EXCEPT ![c] = "ended"]
  /\ UNCHANGED <<clockVars, callVars, task, stopped, cancelled, wake, driverVars,
                 queue, consumerVars>>

ConsumerStep(c) == ConsumerRecv(c) \/ ConsumerDeliver(c) \/ ConsumerEnd(c)

-----------------------------------------------------------------------------
Init ==
  /\ now = 0 /\ skew = 0 /\ clockFailures = 0
  /\ nextTaskId = 1
  /\ call = [t \in TaskIds |->
               [pc |-> "idle", inst |-> NoInstallation, trigger |-> NoTrigger]]
  /\ task = [t \in TaskIds |-> NoEntry]
  /\ stopped   = [i \in Installations |-> FALSE]
  /\ cancelled = [i \in Installations |-> FALSE]
  /\ wake      = [i \in Installations |-> FALSE]
  /\ handle    = [i \in Installations |-> FALSE]
  /\ driver    = [i \in Installations |-> Driver("none", NoTask, 0)]
  /\ queue     = [c \in TaskIds |-> <<>>]
  /\ sender    = [c \in TaskIds |-> FALSE]
  /\ consumer  = [c \in TaskIds |-> "none"]
  /\ hand      = [c \in TaskIds |-> NoPayload]
  /\ consumed  = [t \in TaskIds |-> {}]

CallerStep ==
  \/ \E i \in Installations, tr \in Triggers : ScheduleValidate(i, tr)
  \/ \E t \in TaskIds : ScheduleInsert(t) \/ EnsureDriver(t) \/ Cancel(t)
  \/ \E i \in Installations : StopMark(i) \/ StopCancelToken(i)

Next ==
  \/ Tick \/ SetClockBack
  \/ CallerStep
  \/ \E i \in Installations : DriverStep(i)
  \/ \E c \in TaskIds : ConsumerStep(c)

Spec == Init /\ [][Next]_vars

\* Spawned tasks and calls that have begun are run to their end; nobody owes
\* the service a new call, and the clock may stand still.
Fairness ==
  /\ \A t \in TaskIds : WF_vars(ScheduleInsert(t)) /\ WF_vars(EnsureDriver(t))
  /\ \A i \in Installations : WF_vars(StopCancelToken(i)) /\ WF_vars(DriverStep(i))
  /\ \A c \in TaskIds : WF_vars(ConsumerStep(c))

FairSpec == Spec /\ Fairness

-----------------------------------------------------------------------------
(* What the scheduler promises. *)

InFlight == {hand[c] : c \in {d \in TaskIds : consumer[d] = "deliver"}}
              \cup UNION {Range(queue[c]) : c \in TaskIds}

\* Every payload of t that was ever put into a channel.
Emitted(t) == consumed[t] \cup {p \in InFlight : p.task = t}

\* The shape of every variable, with the channels within their capacity and
\* the consumer's state agreeing with what it holds.
TypeOK ==
  /\ now \in 0..MaxTime /\ skew \in 0..MaxSkew
  /\ clockFailures \in 0..MaxClockFailures
  /\ nextTaskId \in 1..(MaxTaskId + 1)
  /\ call \in [TaskIds -> Calls]
  /\ task \in [TaskIds -> Entries]
  /\ stopped \in [Installations -> BOOLEAN]
  /\ cancelled \in [Installations -> BOOLEAN]
  /\ wake \in [Installations -> BOOLEAN]
  /\ handle \in [Installations -> BOOLEAN]
  /\ driver \in [Installations -> Drivers]
  /\ queue \in [TaskIds -> Seq(Payloads)]
  /\ \A c \in TaskIds : Len(queue[c]) <= DeliveryQueueCapacity
  /\ sender \in [TaskIds -> BOOLEAN]
  /\ consumer \in [TaskIds -> {"none", "recv", "deliver", "ended"}]
  /\ hand \in [TaskIds -> Payloads \cup {NoPayload}]
  /\ \A c \in TaskIds : consumer[c] = "deliver" => hand[c] \in Payloads
  /\ consumed \in [TaskIds -> SUBSET Payloads]

EmittedFires(t) == {p.sequence : p \in Emitted(t)}

\* Of the fires of t before this one, the last `missed` were never emitted and
\* the one before those was (unless there is none).
Accounts(t, sequence, missed) ==
  /\ missed < sequence
  /\ (sequence - 1) - missed \in EmittedFires(t) \cup {0}
  /\ \A n \in EmittedFires(t) : n < sequence - missed \/ n >= sequence

\* Each payload reports exactly the fires missed since the one emitted before
\* it, and the entry's missed_fires says the same of the fires after the last
\* payload: every fire is emitted once or reported missed once
\* (scheduler.wit:27-34).
EveryFireAccounted ==
  \A t \in TaskIds :
    /\ Accounts(t, task[t].sequence, task[t].missed)
    /\ \A p \in Emitted(t) : Accounts(t, p.sequence, p.missed)

GridPoint(t, n) == Trigger(t).at + (n - 1) * Trigger(t).interval

\* Fires never leave the task's time grid, however late the driver wakes and
\* however many grid points it skips: fire n of a task is for at + (n-1)*interval.
OnTheGrid ==
  \A t \in TaskIds :
    /\ task[t].state = "scheduled" => task[t].next = GridPoint(t, task[t].sequence)
    /\ \A p \in Emitted(t) : p.at = GridPoint(t, p.sequence)

\* stop is final: once the flag is set no fire of the installation is emitted,
\* skipped or rescheduled any more (scheduler.rs:22-25).
NoFireAfterStop ==
  [][\A t \in TaskIds :
       call[t].pc # "idle" /\ stopped[Owner(t)]
         => /\ task'[t] = task[t]
            /\ Emitted(t)' = Emitted(t)]_vars

\* While drivers do not lose their clock, the guest sees the fires of a task in
\* the order of their sequence numbers.
InOrder ==
  [][\A t \in TaskIds : \A p \in consumed'[t] \ consumed[t] :
       \A q \in consumed[t] : q.sequence < p.sequence]_vars

\* A fire whose time has come is emitted or counted as missed, so that no wake-up is
\* lost between a caller and a driver that is about to sleep; and work that was
\* accepted is done, also across stop and the death of a driver: what is in a channel
\* reaches the handler (scheduler.rs:22-25).
DueFiresAreHandled ==
  \A t \in TaskIds, n \in 1..(MaxTime + 1) :
    /\ (task[t].state = "scheduled" /\ task[t].sequence = n /\ task[t].next <= now)
         ~> (task[t].state # "scheduled" \/ task[t].sequence > n \/ stopped[Owner(t)])
    /\ (n \in {p.sequence : p \in Emitted(t)})
         ~> (n \in {p.sequence : p \in consumed[t]})

Quiet(i) ==
  /\ driver[i].pc = "none"
  /\ \A c \in TaskIds : Owner(c) = i => consumer[c] \in {"none", "ended"}

\* An installation that is stopped while it has no scheduled task loses its
\* driver and its consumers for good.
IdleStopEnds ==
  \A i \in Installations :
    (stopped[i] /\ ScheduledTasks(i) = {}) ~> []Quiet(i)

\* With stopped tasks closed, the service is a ledger of fires: each is
\* accepted or missed when its number is used up and handled at most once.
Ledger == INSTANCE FireLedger WITH
  Tasks <- TaskIds,
  status <- [t \in TaskIds |->
               CASE task[t].state = "absent" -> "new"
                 [] task[t].state = "scheduled" /\ ~stopped[Owner(t)] -> "open"
                 [] OTHER -> "closed"],
  fired <- [t \in TaskIds |-> task[t].sequence - 1],
  accepted <- [t \in TaskIds |-> {p.sequence : p \in {q \in InFlight : q.task = t}}],
  handled <- [t \in TaskIds |-> {p.sequence : p \in consumed[t]}]

\* The drivers, channels and consumers implement the ledger of fires.
ImplementsLedger == Ledger!Spec

=============================================================================

----------------------------- MODULE StoragePorts -----------------------------
(***************************************************************************)
(* The ports over SQLite (crates/storage-sqlite/src/ports.rs) that answer  *)
(* for the records of installations, and for their config and secrets with *)
(* the services above them (application/src/config.rs, secret.rs).  The    *)
(* record of an installation is composed of three tables, and every        *)
(* operation is a sequence of commands of the storage executor, each one a *)
(* transaction (repository.rs).  Several callers take their commands in    *)
(* turn; a caller may fail or be cancelled before each of its commands,    *)
(* and a stop of the process is the failure of all of them.  While         *)
(* somebody's state transaction is open, only commands on config and       *)
(* secrets are served, and of these only the reads succeed.                *)
(*                                                                         *)
(* A version stands for its digest too: the registration binds the two     *)
(* before the installation is inserted, and for good (ArtifactStore).      *)
(***************************************************************************)
EXTENDS Integers, FiniteSetsExt

CONSTANTS Installations, Versions, Callers,
          LastSecond, \* bound: created_at is in 0..LastSecond
          MaxCalls    \* bound: calls of the port in all

ASSUME VersionsAssumption == Versions \subseteq Nat \ {0} /\ IsFiniteSet(Versions)
ASSUME LastSecondAssumption == LastSecond \in Nat
ASSUME MaxCallsAssumption == MaxCalls \in Nat

NoVersion == 0

VARIABLES
  life,        \* table installations: lifecycle_state, "None" without a row
  bound,       \* table installation_versions
  active,      \* table active_version
  revision,    \* tables component_config and component_secret: the number of
               \* the row as the connection sees it, 0 without a row
  durable,     \* the same as last committed
  txOpen,      \* a state transaction is open on the connection (StateStore)
  call,        \* what each caller is doing
  answer,      \* what its last read returned
  calls,
  used,        \* ghost: the installations that ever had a row
  interrupted, \* ghost: those whose insertion ended before a version was bound
  served,      \* ghost: the versions each installation ever served
  promised,    \* ghost: the greatest number answered to a put of each row since
               \* it was last erased
  watch        \* ghost: what was true during each caller's read

registry == <<life, bound, active>>
values == <<revision, durable, txOpen>>
tables == <<registry, values>>
ghosts == <<used, interrupted, served, promised>>
vars == <<tables, call, answer, calls, ghosts, watch>>

\* The config of an installation and one secret of it.
Names == {"config", "secret"}

Seconds == 0..LastSecond
Bound == [state : {"candidate", "installed"}, created : Seconds]
Unbound == [state |-> "none", created |-> 0]

States == {"None", "Installed", "Validated", "Activating", "Active"}

Reading == {"read row", "read active", "read versions"}
Inserting == {"create", "bind first"}
Writing == Inserting \cup {"bind", "switch", "read state", "advance"}
Putting == {"put", "read back", "audit"}
Idle == [at |-> "idle"]
NoAnswer == [kind |-> "none"]
NoValues == [n \in Names |-> 0]
Unwatched == [shown |-> {}, disturbed |-> FALSE]

At(c, place) == call[c].at = place

\* A command that is refused while a state transaction is open.
Served(c, place) == At(c, place) /\ ~txOpen
GoTo(c, place) == call' = [call EXCEPT ![c].at = place]
Ends(c) == call' = [call EXCEPT ![c] = Idle]

-----------------------------------------------------------------------------
(* The record that the tables compose. *)

\* Mutant: the registration is taken for the fact that a version was served.
EveryRetained(i) == {v \in Versions : bound[i][v] # Unbound}

Candidates(i) == {v \in Versions : bound[i][v].state = "candidate"}
Retained(i) == {v \in Versions : bound[i][v].state = "installed"}

\* max_by_key on created_at, seconds of the wall clock, over rows in the order
\* of their versions: the last of the newest.
Newest(i, S) ==
  Max({v \in S : \A w \in S : bound[i][w].created <= bound[i][v].created})

\* derive_last_known_good.
LastKnownGood(i, binding) ==
  LET others == Retained(i) \ {binding} IN
  IF others = {} THEN binding ELSE Newest(i, others)

HasRecord(i) == life[i] # "None" /\ (active[i] # NoVersion \/ Candidates(i) # {})
VersionOf(i) == IF active[i] # NoVersion THEN active[i] ELSE Max(Candidates(i))

-----------------------------------------------------------------------------
(* insert_installation *)

Begins(c, place, i, v, target) ==
  /\ calls < MaxCalls
  /\ calls' = calls + 1
  /\ call' = [call EXCEPT ![c] = [at |-> place, i |-> i, v |-> v, target |-> target,
                                  state |-> "None", binding |-> NoVersion]]
  /\ answer' = [answer EXCEPT ![c] = NoAnswer]
  /\ UNCHANGED <<tables, ghosts>>

\* The id is new, the version is registered.
Inserts(c, i, v) ==
  /\ At(c, "idle")
  /\ i \notin used
  /\ \A d \in Callers : call[d].at \in Writing => call[d].i # i
  /\ Begins(c, "create", i, v, "Validated")

CreateInstallation(c) ==
  LET i == call[c].i IN
  /\ Served(c, "create")
  /\ life' = [life EXCEPT ![i] = "Installed"]
  /\ used' = used \cup {i}
  /\ GoTo(c, "bind first")
  /\ UNCHANGED <<bound, active, values, answer, calls, interrupted, served, promised>>

BindsAs(i, v, second) ==
  bound' = [bound EXCEPT ![i][v] = IF @ = Unbound
                                   THEN [state |-> "candidate", created |-> second] ELSE @]

BindFirstVersion(c) ==
  LET i == call[c].i IN
  /\ Served(c, "bind first")
  /\ life[i] # "None"
  /\ \E second \in Seconds : BindsAs(i, call[c].v, second)
  /\ GoTo(c, "read state")
  /\ UNCHANGED <<life, active, values, answer, calls, ghosts>>

-----------------------------------------------------------------------------
(* update_installation *)

\* The installation that was just inserted is activated by the same caller.
Activates(c) ==
  /\ At(c, "inserted")
  /\ calls < MaxCalls
  /\ calls' = calls + 1
  /\ call' = [call EXCEPT ![c].at = "bind", ![c].target = "Active"]
  /\ UNCHANGED <<tables, answer, ghosts>>

\* An upgrade or a rollback of the pipeline, which saw the installation active.
Upgrades(c, i, v) ==
  /\ At(c, "idle")
  /\ HasRecord(i) /\ life[i] = "Active"
  /\ Begins(c, "bind", i, v, "Active")

\* facade.disable: the version that is served, with another state.
Disables(c, i) ==
  /\ At(c, "idle")
  /\ HasRecord(i) /\ life[i] = "Active"
  /\ Begins(c, "bind", i, active[i], "Draining")

BindVersionOnce(c) ==
  LET i == call[c].i IN
  /\ Served(c, "bind")
  /\ life[i] # "None"
  /\ \E second \in Seconds : BindsAs(i, call[c].v, second)
  /\ GoTo(c, "switch")
  /\ UNCHANGED <<life, active, values, answer, calls, ghosts>>

SwitchActiveVersion(c) ==
  LET i == call[c].i v == call[c].v IN
  /\ Served(c, "switch")
  /\ life[i] # "None"
  /\ bound[i][v] # Unbound
  /\ active' = [active EXCEPT ![i] = v]
  /\ bound' = [bound EXCEPT ![i][v].state = "installed"]
  /\ served' = [served EXCEPT ![i] = @ \cup {v}]
  /\ GoTo(c, "read state")
  /\ UNCHANGED <<life, values, answer, calls, used, interrupted, promised>>

-----------------------------------------------------------------------------
(* advance_lifecycle_to: the state is read once and then moved by events   *)
(* that are looked up in the caller's copy of it.                          *)

NextState == [Installed |-> "Validated", Validated |-> "Activating", Activating |-> "Active"]

\* The insertion ends with its caller about to activate.
Reached(c) ==
  IF call[c].target = "Validated" THEN GoTo(c, "inserted") ELSE Ends(c)

ReadState(c) ==
  LET state == life[call[c].i] IN
  /\ Served(c, "read state")
  /\ IF state = call[c].target THEN Reached(c)
     ELSE IF state \in DOMAIN NextState
     THEN call' = [call EXCEPT ![c].at = "advance", ![c].state = state]
     ELSE Ends(c)
  /\ UNCHANGED <<tables, answer, calls, ghosts>>

\* ApplyLifecycleEvent: refused when the row has moved on meanwhile.
ApplyEvent(c) ==
  LET i == call[c].i next == NextState[call[c].state] IN
  /\ Served(c, "advance")
  /\ life[i] = call[c].state
  /\ life' = [life EXCEPT ![i] = next]
  /\ IF next = call[c].target THEN Reached(c)
     ELSE IF next \in DOMAIN NextState THEN call' = [call EXCEPT ![c].state = next]
     ELSE Ends(c)
  /\ UNCHANGED <<bound, active, values, answer, calls, ghosts>>

-----------------------------------------------------------------------------
(* Every command may fail, for want of its row or its state or because the *)
(* executor is stopped, and then the operation ends where it is.           *)

CallFails(c) ==
  /\ call[c].at \in Writing \cup Reading \cup Putting \cup {"inserted"}
  /\ interrupted' = IF At(c, "bind first") THEN interrupted \cup {call[c].i} ELSE interrupted
  /\ Ends(c)
  /\ UNCHANGED <<tables, answer, calls, used, served, promised>>

-----------------------------------------------------------------------------
(* remove_installation, one transaction, of an installation whose record   *)
(* was read.                                                               *)

\* Mutant: the row of the installation itself is left behind.
RemoveChildrenOnly(i) ==
  /\ bound' = [bound EXCEPT ![i] = [v \in Versions |-> Unbound]]
  /\ active' = [active EXCEPT ![i] = NoVersion]
  /\ UNCHANGED <<life, revision, durable, promised>>

RemoveRows(i) ==
  /\ bound' = [bound EXCEPT ![i] = [v \in Versions |-> Unbound]]
  /\ active' = [active EXCEPT ![i] = NoVersion]
  /\ life' = [life EXCEPT ![i] = "None"]
  /\ revision' = [revision EXCEPT ![i] = NoValues]
  /\ durable' = revision'
  /\ promised' = [promised EXCEPT ![i] = NoValues]

RemoveInstallation(i) ==
  /\ calls < MaxCalls
  /\ ~txOpen
  /\ HasRecord(i)
  /\ RemoveRows(i)
  /\ calls' = calls + 1
  /\ UNCHANGED <<txOpen, call, answer, used, interrupted, served>>

-----------------------------------------------------------------------------
(* installation, and list_installations of each row: three commands. *)

Reads(c, i) ==
  /\ At(c, "idle")
  /\ Begins(c, "read row", i, NoVersion, "None")

ReadRow(c) ==
  LET i == call[c].i IN
  /\ Served(c, "read row")
  /\ IF life[i] = "None" THEN Ends(c)
     ELSE GoTo(c, "read active")
  /\ UNCHANGED <<tables, answer, calls, ghosts>>

ReadActive(c) ==
  /\ Served(c, "read active")
  /\ call' = [call EXCEPT ![c].at = "read versions", ![c].binding = active[call[c].i]]
  /\ UNCHANGED <<tables, answer, calls, ghosts>>

\* compose_installation
Composed(c) ==
  LET i == call[c].i binding == call[c].binding IN
  IF binding = NoVersion /\ Candidates(i) = {} THEN [kind |-> "corrupt", i |-> i]
  ELSE [kind |-> "record", i |-> i, serves |-> binding,
        version |-> IF binding # NoVersion THEN binding ELSE Max(Candidates(i)),
        lastKnownGood |-> LastKnownGood(i, binding)]

ReadVersions(c) ==
  /\ Served(c, "read versions")
  /\ answer' = [answer EXCEPT ![c] = Composed(c)]
  /\ Ends(c)
  /\ UNCHANGED <<tables, calls, ghosts>>

-----------------------------------------------------------------------------
(* ConfigService.put and SecretService.rotate: the row is written by one   *)
(* command, its number is read back by another, and an audit record is     *)
(* appended by a third.                                                    *)

Puts(c, i, n) ==
  /\ At(c, "idle")
  /\ calls < MaxCalls
  /\ calls' = calls + 1
  /\ call' = [call EXCEPT ![c] = [at |-> "put", i |-> i, n |-> n]]
  /\ answer' = [answer EXCEPT ![c] = NoAnswer]
  /\ UNCHANGED <<tables, ghosts>>

\* Mutant: the upsert joins the state transaction that is open.
UpsertJoining(i, n) ==
  /\ revision' = [revision EXCEPT ![i][n] = @ + 1]
  /\ durable' = IF txOpen THEN durable ELSE revision'

\* run_tx begins a transaction of its own, which fails inside another.
Upsert(i, n) ==
  /\ ~txOpen
  /\ revision' = [revision EXCEPT ![i][n] = @ + 1]
  /\ durable' = revision'

PutValue(c) ==
  LET i == call[c].i IN
  /\ At(c, "put")
  /\ life[i] # "None"
  /\ Upsert(i, call[c].n)
  /\ GoTo(c, "read back")
  /\ UNCHANGED <<registry, txOpen, answer, calls, ghosts>>

ReadBack(c) ==
  LET i == call[c].i n == call[c].n now == revision[i][n] IN
  /\ At(c, "read back")
  /\ IF now = 0
     THEN /\ answer' = [answer EXCEPT ![c] = [kind |-> "disappeared", i |-> i, n |-> n]]
          /\ Ends(c)
          /\ UNCHANGED promised
     ELSE /\ promised' = [promised EXCEPT ![i][n] = Max({@, now})]
          /\ GoTo(c, "audit")
          /\ UNCHANGED answer
  /\ UNCHANGED <<tables, calls, used, interrupted, served>>

AppendAudit(c) ==
  /\ Served(c, "audit")
  /\ Ends(c)
  /\ UNCHANGED <<tables, answer, calls, ghosts>>

\* SecretService.delete; config is never deleted.
DeleteSecret(i) ==
  /\ calls < MaxCalls
  /\ ~txOpen
  /\ revision[i]["secret"] # 0
  /\ calls' = calls + 1
  /\ revision' = [revision EXCEPT ![i]["secret"] = 0]
  /\ durable' = revision'
  /\ promised' = [promised EXCEPT ![i]["secret"] = 0]
  /\ UNCHANGED <<registry, txOpen, call, answer, used, interrupted, served>>

\* Of another caller's state transaction this module sees that it is open, and how
\* it ends: by a commit, or by a rollback, its own or that of a cancelled request.
OtherTransaction ==
  /\ txOpen' = ~txOpen
  /\ \/ UNCHANGED revision /\ durable' = revision
     \/ txOpen /\ revision' = durable /\ UNCHANGED durable
  /\ UNCHANGED <<registry, call, answer, calls, ghosts>>

-----------------------------------------------------------------------------
Init ==
  /\ life = [i \in Installations |-> "None"]
  /\ bound = [i \in Installations |-> [v \in Versions |-> Unbound]]
  /\ active = [i \in Installations |-> NoVersion]
  /\ revision = [i \in Installations |-> NoValues]
  /\ durable = revision
  /\ txOpen = FALSE
  /\ call = [c \in Callers |-> Idle]
  /\ answer = [c \in Callers |-> NoAnswer]
  /\ calls = 0
  /\ used = {}
  /\ interrupted = {}
  /\ served = [i \in Installations |-> {}]
  /\ promised = revision
  /\ watch = [c \in Callers |-> Unwatched]

Calls(c) ==
  \/ \E i \in Installations : Disables(c, i) \/ Reads(c, i)
  \/ \E i \in Installations, v \in Versions : Inserts(c, i, v) \/ Upgrades(c, i, v)
  \/ \E i \in Installations, n \in Names : Puts(c, i, n)

Commands(c) ==
  \/ CreateInstallation(c) \/ BindFirstVersion(c)
  \/ Activates(c) \/ BindVersionOnce(c) \/ SwitchActiveVersion(c)
  \/ ReadState(c) \/ ApplyEvent(c)
  \/ ReadRow(c) \/ ReadActive(c) \/ ReadVersions(c)
  \/ PutValue(c) \/ ReadBack(c) \/ AppendAudit(c)
  \/ CallFails(c)

Steps ==
  \/ \E c \in Callers : Calls(c) \/ Commands(c)
  \/ \E i \in Installations : RemoveInstallation(i) \/ DeleteSecret(i)
  \/ OtherTransaction

\* What the record of i shows, and whether somebody is at work on it.
Shown(i) == [version |-> IF HasRecord(i) THEN VersionOf(i) ELSE NoVersion, serves |-> active[i]]
WorkedOn(i) == \E c \in Callers : call[c].at \in Writing /\ call[c].i = i

\* The ghost that follows a read from its first to its last moment, and is kept for
\* as long as its answer.
Watches ==
  watch' = [c \in Callers |->
    LET reads == call[c].at \in Reading IN
    IF ~reads /\ call'[c].at \notin Reading
    THEN IF answer'[c] = NoAnswer THEN Unwatched ELSE watch[c]
    ELSE LET seen == IF reads THEN watch[c] ELSE Unwatched
             of == {i \in Installations : i = IF reads THEN call[c].i ELSE call'[c].i}
         IN [shown |-> seen.shown \cup {Shown(i)' : i \in of},
             disturbed |-> \/ seen.disturbed
                           \/ \E i \in of : \/ WorkedOn(i) \/ WorkedOn(i)'
                                            \/ life[i] # life'[i]]]

Next == Steps /\ Watches

Spec == Init /\ [][Next]_vars

-----------------------------------------------------------------------------
(* Properties. *)

\* Hazard: a read is three commands with others' in between.  The version and the
\* digest it returns were the record's at one moment of the read, unless it returns no
\* digest while somebody is at work (the first activation and an upgrade may both fall
\* between its commands); and the rollback target it derives was always served once.
\* An installation without a version is reported as corrupt, to everybody who lists
\* installations, only while somebody is at work on it or after its insertion ended
\* half way.
AnswerWasTrue(c) ==
  LET a == answer[c] seen == watch[c] IN
  /\ a.kind = "record" =>
       /\ a.serves # NoVersion \/ ~seen.disturbed =>
            [version |-> a.version, serves |-> a.serves] \in seen.shown
       /\ a.lastKnownGood \in {a.serves} \cup served[a.i]
  /\ a.kind = "corrupt" => seen.disturbed \/ a.i \in interrupted

AnswersWereTrue == \A c \in Callers : AnswerWasTrue(c)

\* Hazard: commands on config and secrets are let through while a state transaction
\* of somebody else is open, and a put reads its number back by a second command.
\* A number that a put answered is never taken back, by no rollback and no stop, until
\* the row is erased; and config is gone when it is read back only because its
\* installation was removed.
PromisedIsKept ==
  /\ \A i \in Installations, n \in Names : promised[i][n] <= durable[i][n]
  /\ \A c \in Callers :
       answer[c].kind = "disappeared" /\ answer[c].n = "config" =>
         life[answer[c].i] = "None"

\* What the three tables compose is a ledger of installations, whatever the commands
\* of several callers interleave and wherever they stop: the version and the digest
\* change together, the lifecycle takes no step back, and no late command of an
\* operation brings a removed installation back.
RecordOf(i) ==
  IF HasRecord(i)
  THEN [version |-> VersionOf(i), serves |-> active[i], state |-> life[i]]
  ELSE [version |-> NoVersion, serves |-> NoVersion, state |-> "None"]

records == [i \in Installations |-> RecordOf(i)]
removed == {i \in used : life[i] = "None"}

Ledger == INSTANCE InstallationLedger WITH record <- records, gone <- removed

ImplementsInstallations == Ledger!Spec
=============================================================================

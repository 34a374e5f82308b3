---------------------------- MODULE StateService ----------------------------
(***************************************************************************)
(* Guest calls and upgrades on one state store                             *)
(* (crates/application: state.rs, migration.rs, stateful_imports.rs).      *)
(*                                                                         *)
(* A call of StateService or StateMigrationService runs on its caller's    *)
(* thread and submits one command after another to the storage executor;   *)
(* the commands of other threads are served in between.  Each action below *)
(* is one command, or one step on shared memory, of one thread.  Audit     *)
(* records either go to a collector of their own or are commands of the    *)
(* same executor (StoragePorts), which refuses them while a state          *)
(* transaction is open.                                                    *)
(***************************************************************************)
EXTENDS StateStore, FiniteSets

CONSTANTS
  Guests,              \* threads that make one guest call each
  Upgrades,            \* threads that make one migrate call each
  GuestOps,            \* the calls guests make: subset of {"get", "cas", "tx"}
  SeedVersion,         \* schema version of the rows an earlier run left behind
  MaxTxOps,            \* bound: writes a guest makes inside one transaction
  MaxCancels,          \* bound: cancelled requests of other callers of the executor
  MaxRestarts,         \* bound: restarts of the process
  AuditInStore,        \* audit records are commands of this executor
  ParallelUpgrades,    \* two upgrades of one installation may overlap
  MigrationEndsTx      \* a guest's migrate may itself commit or abort its transaction

ASSUME SwitchesAssumption ==
  {AuditInStore, ParallelUpgrades, MigrationEndsTx} \subseteq BOOLEAN
ASSUME BoundsAssumption ==
  {SeedVersion, MaxTxOps, MaxCancels, MaxRestarts} \subseteq Nat
ASSUME VersionsOfStores == {0, SeedVersion} \subseteq Versions
ASSUME ThreadsAssumption == Guests \cap Upgrades = {}

VARIABLES
  migrating,   \* MigrationGate.migrating
  call,        \* the guest calls
  upgrade,     \* the migrate calls
  committed,   \* threads whose own commit went through (observation only)
  cancels,     \* cancelled requests so far
  restarts     \* restarts so far

callVars == <<call, upgrade, migrating, committed>>
budgetVars == <<cancels, restarts>>
vars == <<storeVars, callVars, budgetVars>>

Threads == Guests \cup Upgrades
OptionalValues == Values \cup {NoRow.value}

\* What a guest asks for.  A transaction declares its version; a get and a cas
\* are bound to the store's version when they run.
Requests ==
  {request \in [op : {"get"}, key : Keys]
              \cup [op : {"cas"}, key : Keys, expected : OptionalValues, new : OptionalValues]
              \cup [op : {"tx"}, declared : Versions] : request.op \in GuestOps}

Idle == [pc |-> "idle"]

\* A thread that is inside a call and may still use its transaction.
Handle(t) == IF t \in Guests THEN call[t].tx ELSE upgrade[t].tx
InCall(t) == IF t \in Guests THEN call[t].pc \notin {"idle", "done"}
                             ELSE upgrade[t].pc \notin {"idle", "done"}

\* What a restart leaves behind: every store is empty or at the seed version.
Init ==
  /\ installed = Installations
  /\ \E written \in SUBSET Installations :
       /\ marker = [i \in Installations |-> IF i \in written THEN SeedVersion ELSE NoVersion]
       /\ rows \in [Installations -> [Keys -> [version : {SeedVersion}, value : Values] \cup {NoRow}]]
       /\ \A i \in Installations \ written, k \in Keys : rows[i][k] = NoRow
  /\ durableRows = rows
  /\ openTx = NoTx
  /\ txCounter = 0
  /\ migrating = {}
  /\ call = [g \in Guests |-> Idle]
  /\ upgrade = [u \in Upgrades |-> Idle]
  /\ committed = {}
  /\ cancels = 0
  /\ restarts = 0

-----------------------------------------------------------------------------
(* Guest calls. *)

GuestAt(g, pc) == call[g].pc = pc
GuestGoes(g, pc) == call' = [call EXCEPT ![g].pc = pc]
\* The call is over but for its audit record.
GuestAnswers(g, result) == call' = [call EXCEPT ![g].pc = "audit", ![g].result = result]
ServiceUnchanged == UNCHANGED <<upgrade, migrating, budgetVars>>

StartCall(g) ==
  /\ GuestAt(g, "idle")
  /\ \E i \in Installations, request \in Requests :
       call' = [call EXCEPT ![g] =
         [pc |-> IF request.op = "tx" THEN "gate" ELSE "bind",
          inst |-> i, request |-> request,
          declared |-> IF request.op = "tx" THEN request.declared ELSE NoVersion,
          seen |-> NoRow, tx |-> NoHandle, ops |-> 0, result |-> "none"]]
  /\ UNCHANGED <<storeVars, committed>>
  /\ ServiceUnchanged

\* schema_binding_version: a guest's get or cas is bound to whatever version
\* the store has now, or to 0.
Bind(g) ==
  /\ GuestAt(g, "bind")
  /\ LET current == marker[call[g].inst]
     IN call' = [call EXCEPT ![g].pc = "gate",
                             ![g].declared = IF current = NoVersion THEN 0 ELSE current]
  /\ UNCHANGED <<storeVars, committed>>
  /\ ServiceUnchanged

\* check_version, first the gate and then a command for the store's version.
CheckGate(g) ==
  /\ GuestAt(g, "gate")
  /\ IF call[g].inst \in migrating THEN GuestAnswers(g, "not-ready") ELSE GuestGoes(g, "check")
  /\ UNCHANGED <<storeVars, committed>>
  /\ ServiceUnchanged

CheckVersion(g) ==
  /\ GuestAt(g, "check")
  /\ IF VersionAccepted(call[g].inst, call[g].declared)
     THEN GuestGoes(g, IF call[g].request.op = "tx" THEN "begin" ELSE "read")
     ELSE GuestAnswers(g, "unsupported-schema-version")
  /\ UNCHANGED <<storeVars, committed>>
  /\ ServiceUnchanged

\* store.get of get and cas, and cas's comparison.
Read(g) ==
  /\ GuestAt(g, "read")
  /\ \E answer \in {"ok", "conflict"}, row \in Rows \cup {NoRow} :
       /\ GetState(call[g].inst, call[g].request.key, NoHandle, answer, row)
       /\ call' = [call EXCEPT
            ![g].seen = row,
            ![g].pc = IF answer = "ok" /\ call[g].request.op = "cas" /\ row.value = call[g].request.expected
                      THEN "write" ELSE "audit",
            ![g].result = CASE answer = "conflict" -> "conflict"
                            [] call[g].request.op = "get" -> "value"
                            [] row.value = call[g].request.expected -> "none"
                            [] OTHER -> "rejected"]
  /\ UNCHANGED committed
  /\ ServiceUnchanged

\* cas's write: a put or a delete, or nothing if there is nothing to delete.
Applied(answer) == IF answer = "ok" THEN "applied" ELSE answer
CasPut(g) ==
  /\ GuestAt(g, "write")
  /\ call[g].request.new \in Values
  /\ \E answer \in {"ok", "conflict", "not found", "version mismatch"} :
       /\ PutState(call[g].inst, call[g].request.key, call[g].declared, call[g].request.new, NoHandle, answer)
       /\ GuestAnswers(g, Applied(answer))
  /\ UNCHANGED committed
  /\ ServiceUnchanged

CasDelete(g) ==
  /\ GuestAt(g, "write")
  /\ call[g].request.new \notin Values
  /\ call[g].seen # NoRow
  /\ \E answer \in {"ok", "conflict", "not found"} :
       /\ DeleteState(call[g].inst, call[g].request.key, NoHandle, answer)
       /\ GuestAnswers(g, Applied(answer))
  /\ UNCHANGED committed
  /\ ServiceUnchanged

CasNothingToDelete(g) ==
  /\ GuestAt(g, "write")
  /\ call[g].request.new \notin Values
  /\ call[g].seen = NoRow
  /\ GuestAnswers(g, "applied")
  /\ UNCHANGED <<storeVars, committed>>
  /\ ServiceUnchanged

Begin(g) ==
  /\ GuestAt(g, "begin")
  /\ \E answer \in {"ok", "conflict", "version mismatch"}, h \in Handles \cup {NoHandle} :
       /\ BeginTx(call[g].inst, call[g].declared, "normal", answer, h)
       /\ call' = [call EXCEPT ![g].pc = "audit", ![g].tx = h,
                               ![g].result = IF answer = "ok" THEN "began" ELSE answer]
  /\ UNCHANGED committed
  /\ ServiceUnchanged

\* Operations of the open transaction; their audit records change nothing that
\* the guest or the store does next.
TxWrite(g) ==
  /\ GuestAt(g, "open")
  /\ call[g].ops < MaxTxOps
  /\ \E k \in Keys :
       \/ \E val \in Values, answer \in {"ok", "conflict", "not found"} :
            PutState(call[g].inst, k, NoVersion, val, call[g].tx, answer)
       \/ \E answer \in {"ok", "conflict", "not found"} :
            DeleteState(call[g].inst, k, call[g].tx, answer)
  /\ call' = [call EXCEPT ![g].ops = @ + 1]
  /\ UNCHANGED committed
  /\ ServiceUnchanged

Commit(g) ==
  /\ GuestAt(g, "open")
  /\ \E answer \in {"ok", "failure", "conflict"} :
       /\ CommitTx(call[g].tx, answer)
       /\ GuestAnswers(g, IF answer = "ok" THEN "committed" ELSE answer)
       /\ committed' = IF answer = "ok" THEN committed \cup {g} ELSE committed
  /\ ServiceUnchanged

Abort(g) ==
  /\ GuestAt(g, "open")
  /\ AbortTx(call[g].tx)
  /\ GuestAnswers(g, "aborted")
  /\ UNCHANGED committed
  /\ ServiceUnchanged

\* An audit record is refused by the executor while any state transaction is open.
AuditRefused == AuditInStore /\ openTx # NoTx

\* The call's audit record.  begin returns its transaction only if the record
\* was written; every call returns the audit error if it was not.
Audit(g) ==
  /\ GuestAt(g, "audit")
  /\ CASE AuditRefused ->
            call' = [call EXCEPT ![g].pc = "done", ![g].result = "audit-failure"]
       [] ~ AuditRefused /\ call[g].result = "began" -> GuestGoes(g, "open")
       [] OTHER -> GuestGoes(g, "done")
  /\ UNCHANGED <<storeVars, committed>>
  /\ ServiceUnchanged

GuestStep(g) ==
  \/ Bind(g) \/ CheckGate(g) \/ CheckVersion(g) \/ Read(g)
  \/ CasPut(g) \/ CasDelete(g) \/ CasNothingToDelete(g)
  \/ Begin(g) \/ TxWrite(g) \/ Commit(g) \/ Abort(g)
  \/ Audit(g)

-----------------------------------------------------------------------------
(* Upgrades: StateMigrationService::migrate. *)

UpgradeAt(u, pc) == upgrade[u].pc = pc
UpgradeGoes(u, pc) == upgrade' = [upgrade EXCEPT ![u].pc = pc]
UpgradeEnds(u, pc, result) ==
  upgrade' = [upgrade EXCEPT ![u].pc = pc, ![u].result = result]
UpgradeOnly == UNCHANGED <<call, budgetVars>>

StartUpgrade(u) ==
  /\ UpgradeAt(u, "idle")
  /\ \E i \in Installations, from \in Versions, to \in Versions :
       /\ \A other \in Upgrades : InCall(other) /\ upgrade[other].inst = i => ParallelUpgrades
       /\ upgrade' = [upgrade EXCEPT ![u] =
            [pc |-> "read", inst |-> i, from |-> from, to |-> to,
             tx |-> NoHandle, ops |-> 0, result |-> "none"]]
  /\ UNCHANGED <<storeVars, migrating, committed>>
  /\ UpgradeOnly

\* Step 1 of the protocol: compare the store's version with from and to.
ReadCurrent(u) ==
  LET current == marker[upgrade[u].inst] IN
  /\ UpgradeAt(u, "read")
  /\ CASE current = NoVersion -> UpgradeEnds(u, "done", "nothing-to-migrate")
       [] current = upgrade[u].to -> UpgradeEnds(u, "done", "already-at-target")
       [] current \notin {NoVersion, upgrade[u].to, upgrade[u].from} ->
            UpgradeEnds(u, "done", "unexpected-store-version")
       [] OTHER ->
            IF upgrade[u].to <= upgrade[u].from
            THEN UpgradeEnds(u, "done", "unsupported-version-range")
            ELSE UpgradeGoes(u, "enter")
  /\ UNCHANGED <<storeVars, migrating, committed>>
  /\ UpgradeOnly

\* Step 2: MigrationGate::enter.
EnterWindow(u) ==
  /\ UpgradeAt(u, "enter")
  /\ migrating' = migrating \cup {upgrade[u].inst}
  /\ UpgradeGoes(u, "begin")
  /\ UNCHANGED <<storeVars, committed>>
  /\ UpgradeOnly

\* Step 3.
BeginMigration(u) ==
  /\ UpgradeAt(u, "begin")
  /\ \E answer \in {"ok", "conflict", "version mismatch"}, h \in Handles \cup {NoHandle} :
       /\ BeginTx(upgrade[u].inst, upgrade[u].to, "migration", answer, h)
       /\ upgrade' = [upgrade EXCEPT
            ![u].tx = h,
            ![u].pc = IF answer = "ok" THEN "started" ELSE "exit",
            ![u].result = CASE answer = "ok" -> "none"
                            [] answer = "conflict" -> "busy"
                            [] OTHER -> "unsupported-version-range"]
  /\ UNCHANGED <<migrating, committed>>
  /\ UpgradeOnly

AuditStarted(u) ==
  /\ UpgradeAt(u, "started")
  /\ IF AuditRefused THEN UpgradeEnds(u, "abandon", "audit-failure") ELSE UpgradeGoes(u, "guest")
  /\ UNCHANGED <<storeVars, migrating, committed>>
  /\ UpgradeOnly

\* Step 4: the guest's migrate reads and writes inside the transaction.
MigrateWrite(u) ==
  /\ UpgradeAt(u, "guest")
  /\ upgrade[u].ops < MaxTxOps
  /\ \E k \in Keys :
       \/ \E val \in Values, answer \in {"ok", "conflict", "not found"} :
            PutState(upgrade[u].inst, k, NoVersion, val, upgrade[u].tx, answer)
       \/ \E answer \in {"ok", "conflict", "not found"} :
            DeleteState(upgrade[u].inst, k, upgrade[u].tx, answer)
  /\ upgrade' = [upgrade EXCEPT ![u].ops = @ + 1]
  /\ UNCHANGED <<migrating, committed>>
  /\ UpgradeOnly

\* A guest that calls commit or abort on the migration transaction.
MigrateEndsTx(u) ==
  /\ MigrationEndsTx
  /\ UpgradeAt(u, "guest")
  /\ \/ CommitTx(upgrade[u].tx, "ok")
     \/ /\ openTx.handle = upgrade[u].tx
        /\ AbortTx(upgrade[u].tx)
  /\ UNCHANGED <<upgrade, migrating, committed>>
  /\ UpgradeOnly

MigrateReturnsOk(u) ==
  /\ UpgradeAt(u, "guest")
  /\ UpgradeGoes(u, "audit commit")
  /\ UNCHANGED <<storeVars, migrating, committed>>
  /\ UpgradeOnly

\* The guest fails, traps or overruns its deadline.  Whether the record of the
\* rollback is written makes no difference.
MigrateFails(u) ==
  /\ UpgradeAt(u, "guest")
  /\ UpgradeEnds(u, "abandon", "rolled-back")
  /\ UNCHANGED <<storeVars, migrating, committed>>
  /\ UpgradeOnly

\* Step 5a: the audit record goes before the commit.
AuditCommitted(u) ==
  /\ UpgradeAt(u, "audit commit")
  /\ IF AuditRefused THEN UpgradeEnds(u, "abandon", "audit-failure") ELSE UpgradeGoes(u, "commit")
  /\ UNCHANGED <<storeVars, migrating, committed>>
  /\ UpgradeOnly

ConflictIsDone(answer) == IF answer = "failure" THEN "store-failure" ELSE "migrated"

CommitOutcome(answer) ==
  CASE answer = "ok" -> "migrated"
    [] answer = "failure" -> "store-failure"
    [] OTHER -> answer

\* Step 5b.
CommitMigration(u) ==
  /\ UpgradeAt(u, "commit")
  /\ \E answer \in {"ok", "failure", "conflict"} :
       /\ CommitTx(upgrade[u].tx, answer)
       /\ UpgradeEnds(u, "exit", CommitOutcome(answer))
       /\ committed' = IF answer = "ok" THEN committed \cup {u} ELSE committed
  /\ UNCHANGED migrating
  /\ UpgradeOnly

AbandonForgetsTx(u) ==
  /\ UpgradeAt(u, "abandon")
  /\ UpgradeGoes(u, "exit")
  /\ UNCHANGED <<storeVars, migrating, committed>>
  /\ UpgradeOnly

\* Step 5c, and the error paths of 3 and 5a.
Abandon(u) ==
  /\ UpgradeAt(u, "abandon")
  /\ AbortTx(upgrade[u].tx)
  /\ UpgradeGoes(u, "exit")
  /\ UNCHANGED <<migrating, committed>>
  /\ UpgradeOnly

WindowOf(u) == {upgrade[u].inst}

\* MigrationWindowGuard::drop: the installation leaves the gate.
ExitWindow(u) ==
  /\ UpgradeAt(u, "exit")
  /\ migrating' = migrating \ WindowOf(u)
  /\ UpgradeGoes(u, "done")
  /\ UNCHANGED <<storeVars, committed>>
  /\ UpgradeOnly

UpgradeStep(u) ==
  \/ ReadCurrent(u) \/ EnterWindow(u) \/ BeginMigration(u) \/ AuditStarted(u)
  \/ MigrateWrite(u) \/ MigrateEndsTx(u) \/ MigrateReturnsOk(u) \/ MigrateFails(u)
  \/ AuditCommitted(u) \/ CommitMigration(u) \/ Abandon(u) \/ ExitWindow(u)

-----------------------------------------------------------------------------
(* The rest of the process. *)

\* Another caller of the executor drops its future, and the worker finds the
\* request cancelled.
CancelledRequest ==
  /\ cancels < MaxCancels
  /\ cancels' = cancels + 1
  /\ ServeCancelled
  /\ UNCHANGED <<callVars, restarts>>

Restart ==
  /\ restarts < MaxRestarts
  /\ restarts' = restarts + 1
  /\ RestartStore
  /\ migrating' = {}
  /\ call' = [g \in Guests |->
       IF InCall(g) THEN [call[g] EXCEPT !.pc = "done", !.result = "crashed"] ELSE call[g]]
  /\ upgrade' = [u \in Upgrades |->
       IF InCall(u) THEN [upgrade[u] EXCEPT !.pc = "done", !.result = "crashed"] ELSE upgrade[u]]
  /\ UNCHANGED <<committed, cancels>>

Next ==
  \/ \E g \in Guests : StartCall(g) \/ GuestStep(g)
  \/ \E u \in Upgrades : StartUpgrade(u) \/ UpgradeStep(u)
  \/ CancelledRequest
  \/ Restart

Spec == Init /\ [][Next]_vars

\* A thread that has made a call runs on: the executor answers every command
\* it has taken, and a guest's calls are finite.
Fairness ==
  /\ \A g \in Guests : WF_vars(GuestStep(g))
  /\ \A u \in Upgrades : WF_vars(UpgradeStep(u))

FairSpec == Spec /\ Fairness

-----------------------------------------------------------------------------
(* Properties. *)

Results == {"none", "value", "rejected", "applied", "began", "committed", "aborted",
            "not-ready", "unsupported-schema-version", "conflict", "not found",
            "version mismatch", "failure", "audit-failure", "crashed"}
Outcomes == {"none", "nothing-to-migrate", "already-at-target", "unexpected-store-version",
             "unsupported-version-range", "busy", "migrated", "rolled-back", "conflict",
             "store-failure", "audit-failure", "crashed"}

\* Types of the service's state; a transaction held is one that was begun.
TypeOK ==
  /\ StoreTypeOK
  /\ migrating \subseteq Installations
  /\ call \in [Guests -> {Idle} \cup
       [pc : {"bind", "gate", "check", "read", "write", "begin", "open", "audit", "done"},
        inst : Installations, request : Requests, declared : Versions \cup {NoVersion},
        seen : Rows \cup {NoRow}, tx : Handles \cup {NoHandle}, ops : 0..MaxTxOps,
        result : Results]]
  /\ upgrade \in [Upgrades -> {Idle} \cup
       [pc : {"read", "enter", "begin", "started", "guest", "audit commit", "commit",
              "abandon", "exit", "done"},
        inst : Installations, from : Versions, to : Versions,
        tx : Handles \cup {NoHandle}, ops : 0..MaxTxOps, result : Outcomes]]
  /\ committed \subseteq Threads
  /\ cancels \in 0..MaxCancels /\ restarts \in 0..MaxRestarts

\* A state transaction is open only while the call that began it is running, so
\* that no other caller finds the executor in a transaction nobody will end
\* (executor.rs: a transaction stays within one guest call); and as long as a
\* migration's is open, its installation answers not-ready (state.rs).
TransactionIsHeld ==
  openTx # NoTx =>
    /\ \E t \in Threads : InCall(t) /\ Handle(t) = openTx.handle
    /\ openTx.mode = "migration" => openTx.inst \in migrating

Acts(t) == IF t \in Guests THEN call'[t] # call[t] ELSE upgrade'[t] # upgrade[t]

\* The uncommitted rows of a transaction change only by a step of the call that
\* holds it: a call whose transaction was rolled back under it does not write
\* into the next one (require_active_tx).
OnlyOwnerWrites ==
  [][openTx # NoTx /\ openTx' # NoTx /\ rows' # rows =>
       \E t \in Threads : InCall(t) /\ Handle(t) = openTx.handle /\ Acts(t)]_vars

\* Hazard: the guest is handed the transaction of the migration and may end it itself,
\* and another may be begun before migrate comes to its own commit.  migrate answers
\* "migrated" exactly when that commit of its own went through (MigrationOutcome,
\* MigrationError).
OutcomeMatchesStore ==
  \A u \in Upgrades : UpgradeAt(u, "done") /\ upgrade[u].result # "crashed" =>
     (upgrade[u].result = "migrated" <=> u \in committed)

\* Every call returns, none waits for a transaction that does not end, and every
\* migration window is closed whatever path migrate takes (migration.rs: no
\* window is left behind on any exit path).
CallsReturn ==
  /\ \A t \in Threads : InCall(t) ~> ~ InCall(t)
  /\ \A i \in Installations : i \in migrating ~> i \notin migrating
=============================================================================

----------------------------- MODULE StateStore -----------------------------
(***************************************************************************)
(* Component state as the storage executor keeps it                        *)
(* (crates/storage-sqlite: executor.rs, repository.rs).                    *)
(*                                                                         *)
(* One worker thread owns the only SQLite connection and serves one        *)
(* command at a time.  A state transaction spans commands: at most one is  *)
(* open, it holds the connection's SQLite transaction, and until it ends   *)
(* only state, config and secret commands are served.  Each action below   *)
(* is the worker serving one command, and "answer" is what it replies.     *)
(***************************************************************************)
EXTENDS Integers

CONSTANTS Installations, Keys, Values,
          Versions,   \* schema versions (u32), 0 among them
          MaxTx       \* bound: transactions begun since the process started

ASSUME VersionsAssumption == Versions \subseteq Nat
ASSUME MaxTxAssumption == MaxTx \in Nat

NoVersion == -1
NoRow == [version |-> NoVersion, value |-> "no value"]
Rows == [version : Versions, value : Values]

NoHandle == 0
Handles == 1..MaxTx
Modes == {"normal", "migration"}

Tx == [handle : Handles, inst : Installations, version : Versions,
       mode : Modes, dirty : BOOLEAN]
NoTx == [handle |-> NoHandle]

VARIABLES
  installed,     \* table installations
  rows,          \* table component_state as the connection sees it
  durableRows,   \* table component_state as last committed
  marker,        \* the row '!schema-version'; only written when a transaction ends
  openTx,        \* worker_main's state_tx
  txCounter      \* worker_main's tx_counter

storeVars == <<installed, rows, durableRows, marker, openTx, txCounter>>

StoreTypeOK ==
  /\ installed \subseteq Installations
  /\ rows \in [Installations -> [Keys -> Rows \cup {NoRow}]]
  /\ durableRows \in [Installations -> [Keys -> Rows \cup {NoRow}]]
  /\ marker \in [Installations -> Versions \cup {NoVersion}]
  /\ openTx \in Tx \cup {NoTx}
  /\ txCounter \in 0..MaxTx

EmptyStore ==
  /\ installed = {}
  /\ rows = [i \in Installations |-> [k \in Keys |-> NoRow]]
  /\ durableRows = rows
  /\ marker = [i \in Installations |-> NoVersion]
  /\ openTx = NoTx
  /\ txCounter = 0

-----------------------------------------------------------------------------
(* Which transaction a command is served in. *)

InTxOfInstallation(h, i) == openTx # NoTx /\ openTx.inst = i

\* require_active_tx: while a transaction is open a command must name it and
\* its installation, and when none is open it must name none.
InTx(h, i) == openTx # NoTx /\ openTx.handle = h /\ openTx.inst = i
OutsideTx(h) == openTx = NoTx /\ h = NoHandle
Misaddressed(h, i) == ~ InTx(h, i) /\ ~ OutsideTx(h)

Rollback ==
  /\ rows' = durableRows
  /\ openTx' = NoTx

-----------------------------------------------------------------------------
(* Installations come and go; these are not state commands. *)

CreateInstallation(i) ==
  /\ openTx = NoTx
  /\ i \notin installed
  /\ installed' = installed \cup {i}
  /\ UNCHANGED <<rows, durableRows, marker, openTx, txCounter>>

RemoveInstallation(i) ==
  /\ openTx = NoTx
  /\ i \in installed
  /\ installed' = installed \ {i}
  /\ rows' = [rows EXCEPT ![i] = [k \in Keys |-> NoRow]]
  /\ durableRows' = rows'
  /\ marker' = [marker EXCEPT ![i] = NoVersion]
  /\ UNCHANGED <<openTx, txCounter>>

-----------------------------------------------------------------------------
(* State commands. *)

AnyVersionAccepted(i, v) == TRUE

VersionAccepted(i, v) == marker[i] \in {NoVersion, v}

PutAlone(i, k, v, val) ==
  /\ openTx = NoTx
  /\ i \in installed
  /\ VersionAccepted(i, v)
  /\ rows' = [rows EXCEPT ![i][k] = [version |-> v, value |-> val]]
  /\ durableRows' = rows'
  /\ marker' = [marker EXCEPT ![i] = v]
  /\ UNCHANGED <<installed, openTx, txCounter>>

PutInTx(i, k, val, h) ==
  /\ InTx(h, i)
  /\ i \in installed     \* the foreign key of component_state
  /\ rows' = [rows EXCEPT ![i][k] = [version |-> openTx.version, value |-> val]]
  /\ openTx' = [openTx EXCEPT !.dirty = TRUE]
  /\ UNCHANGED <<installed, durableRows, marker, txCounter>>

\* v is the version a put outside a transaction declares.
PutState(i, k, v, val, h, answer) ==
  \/ answer = "ok" /\ h = NoHandle /\ PutAlone(i, k, v, val)
  \/ answer = "ok" /\ PutInTx(i, k, val, h)
  \/ answer = "conflict" /\ Misaddressed(h, i) /\ UNCHANGED storeVars
  \/ /\ answer = "not found"
     /\ ~ Misaddressed(h, i)
     /\ i \notin installed
     /\ UNCHANGED storeVars
  \/ /\ answer = "version mismatch"
     /\ OutsideTx(h)
     /\ i \in installed
     /\ ~ VersionAccepted(i, v)
     /\ UNCHANGED storeVars

DeleteAlone(i, k) ==
  /\ openTx = NoTx
  /\ rows[i][k] # NoRow
  /\ rows' = [rows EXCEPT ![i][k] = NoRow]
  /\ durableRows' = rows'
  /\ UNCHANGED <<installed, marker, openTx, txCounter>>

DeleteInTx(i, k, h) ==
  /\ InTx(h, i)
  /\ rows[i][k] # NoRow
  /\ rows' = [rows EXCEPT ![i][k] = NoRow]
  /\ openTx' = [openTx EXCEPT !.dirty = TRUE]
  /\ UNCHANGED <<installed, durableRows, marker, txCounter>>

DeleteState(i, k, h, answer) ==
  \/ answer = "ok" /\ h = NoHandle /\ DeleteAlone(i, k)
  \/ answer = "ok" /\ DeleteInTx(i, k, h)
  \/ answer = "conflict" /\ Misaddressed(h, i) /\ UNCHANGED storeVars
  \/ /\ answer = "not found"
     /\ ~ Misaddressed(h, i)
     /\ rows[i][k] = NoRow
     /\ UNCHANGED storeVars

GetState(i, k, h, answer, row) ==
  /\ \/ answer = "conflict" /\ Misaddressed(h, i) /\ row = NoRow
     \/ answer = "ok" /\ ~ Misaddressed(h, i) /\ row = rows[i][k]
  /\ UNCHANGED storeVars

MayBegin(i, v, mode) ==
  \/ mode = "normal" /\ VersionAccepted(i, v)
  \/ mode = "migration" /\ marker[i] # NoVersion /\ marker[i] < v

OpenTx(i, v, mode, h) ==
  /\ openTx = NoTx
  /\ MayBegin(i, v, mode)
  /\ txCounter < MaxTx
  /\ h = txCounter + 1
  /\ txCounter' = h
  /\ openTx' = [handle |-> h, inst |-> i, version |-> v, mode |-> mode, dirty |-> FALSE]
  /\ UNCHANGED <<installed, rows, durableRows, marker>>

BeginTx(i, v, mode, answer, h) ==
  \/ answer = "ok" /\ OpenTx(i, v, mode, h)
  \/ answer = "conflict" /\ openTx # NoTx /\ h = NoHandle /\ UNCHANGED storeVars
  \/ /\ answer = "version mismatch"
     /\ openTx = NoTx
     /\ ~ MayBegin(i, v, mode)
     /\ h = NoHandle
     /\ UNCHANGED storeVars

NeverFinalized(tx) == marker

\* tx_finalize: the version moves in the same COMMIT as the rows, if the
\* transaction wrote anything.
Finalized(tx) == IF tx.dirty THEN [marker EXCEPT ![tx.inst] = tx.version] ELSE marker

CommitOpenTx(h) ==
  /\ openTx # NoTx
  /\ openTx.handle = h
  /\ durableRows' = rows
  /\ marker' = Finalized(openTx)
  /\ openTx' = NoTx
  /\ UNCHANGED <<installed, rows, txCounter>>

AbortOpenTx(h) ==
  /\ openTx # NoTx
  /\ openTx.handle = h
  /\ Rollback
  /\ UNCHANGED <<installed, durableRows, marker, txCounter>>

\* A COMMIT that fails (disk, lock) rolls back.
CommitTx(h, answer) ==
  \/ answer = "ok" /\ CommitOpenTx(h)
  \/ answer = "failure" /\ AbortOpenTx(h)
  \/ answer = "conflict" /\ openTx.handle # h /\ UNCHANGED storeVars

\* Aborting a transaction that is not open does nothing.
AbortTx(h) == AbortOpenTx(h) \/ (openTx.handle # h /\ UNCHANGED storeVars)

\* Any request whose cancel flag is set is not served, and the open
\* transaction, whoever began it, is rolled back.
ServeCancelled ==
  /\ openTx # NoTx
  /\ Rollback
  /\ UNCHANGED <<installed, durableRows, marker, txCounter>>

\* The process stops at any point and starts again on the database file.
RestartStore ==
  /\ rows' = durableRows
  /\ openTx' = NoTx
  /\ txCounter' = 0
  /\ UNCHANGED <<installed, durableRows, marker>>

-----------------------------------------------------------------------------

PutOrDelete(i, k, h) ==
  \/ \E v \in Versions, val \in Values,
        answer \in {"ok", "conflict", "not found", "version mismatch"} :
        PutState(i, k, v, val, h, answer)
  \/ \E answer \in {"ok", "conflict", "not found"} : DeleteState(i, k, h, answer)

BeginOn(i) ==
  \E v \in Versions, mode \in Modes, answer \in {"ok", "conflict", "version mismatch"},
     h \in Handles \cup {NoHandle} : BeginTx(i, v, mode, answer, h)

EndTx(h) ==
  \/ \E answer \in {"ok", "failure", "conflict"} : CommitTx(h, answer)
  \/ AbortTx(h)

StoreNext ==
  \/ \E i \in Installations : CreateInstallation(i) \/ RemoveInstallation(i) \/ BeginOn(i)
  \/ \E i \in Installations, k \in Keys, h \in Handles \cup {NoHandle} : PutOrDelete(i, k, h)
  \/ \E h \in Handles : EndTx(h)
  \/ ServeCancelled
  \/ RestartStore

StoreSpec == EmptyStore /\ [][StoreNext]_storeVars

-----------------------------------------------------------------------------
(* Properties. *)

\* Every committed row was written at a version no newer than the version its
\* store says it has (begin's version check, put_state's check and
\* tx_finalize together): code that reads at the store's version never meets
\* a row from the future.
VersionCoversRows ==
  \A i \in Installations, k \in Keys : durableRows[i][k].version <= marker[i]

\* What an open transaction has not committed yet belongs to its installation,
\* carries its version, and has set the dirty flag that makes commit move the
\* store's version with it (dispatch_stateful, ActiveStateTx.dirty).
UncommittedIsDirty ==
  \A i \in Installations, k \in Keys :
     rows[i][k] # durableRows[i][k] =>
        /\ openTx # NoTx
        /\ openTx.inst = i
        /\ openTx.dirty
        /\ rows[i][k] = NoRow \/ rows[i][k].version = openTx.version

\* The durable tables are a versioned store: every durable change concerns one
\* installation, never moves its version backwards and stamps the rows it
\* writes with the version it leaves (executor.rs module comment, "schema
\* version determinism").
Durable == INSTANCE VersionedStore WITH rows <- durableRows
DurableStore == Durable!Spec
=============================================================================

------------------------- MODULE StateServiceProofs -------------------------
(***************************************************************************)
(* Proofs about StateStore for every set of installations, keys, values    *)
(* and schema versions and every number of transactions: no committed row  *)
(* is newer than its store, nothing uncommitted is outside the open        *)
(* transaction, and the durable tables implement VersionedStore.  Then,    *)
(* about StateService for every number of guests and upgrades: their       *)
(* steps are commands of that store, a transaction is written by the call  *)
(* that holds it and held by a call that is running, and migrate answers   *)
(* what became of its own commit.                                          *)
(***************************************************************************)
EXTENDS StateService, TLAPS

-----------------------------------------------------------------------------
(* The store. *)

\* What makes the two invariants inductive: an open transaction was begun at a
\* version that is not older than its store's, and the store's version cannot
\* move while it is open.
OpenTxNotOlder == openTx # NoTx => marker[openTx.inst] <= openTx.version

StoreInv ==
  /\ StoreTypeOK
  /\ VersionCoversRows
  /\ UncommittedIsDirty
  /\ OpenTxNotOlder

\* The open transaction is lost and everything else stays.
RollsBack ==
  /\ rows' = durableRows
  /\ openTx' = NoTx
  /\ txCounter' \in {txCounter, 0}
  /\ UNCHANGED <<installed, durableRows, marker>>

(***************************************************************************)
(* Whatever command the worker serves (dispatch_stateful), the store       *)
(* changes in one of these ways or not at all.                             *)
(***************************************************************************)
LEMMA CommandEffects ==
  ASSUME StoreNext
  PROVE  \/ UNCHANGED storeVars
         \/ RollsBack
         \/ \E i \in Installations : CreateInstallation(i) \/ RemoveInstallation(i)
         \/ \E i \in Installations, k \in Keys, v \in Versions, val \in Values :
              PutAlone(i, k, v, val)
         \/ \E i \in Installations, k \in Keys, val \in Values, h \in Handles \cup {NoHandle} :
              PutInTx(i, k, val, h)
         \/ \E i \in Installations, k \in Keys : DeleteAlone(i, k)
         \/ \E i \in Installations, k \in Keys, h \in Handles \cup {NoHandle} :
              DeleteInTx(i, k, h)
         \/ \E i \in Installations, v \in Versions, mode \in Modes,
               h \in Handles \cup {NoHandle} : OpenTx(i, v, mode, h)
         \/ \E h \in Handles : CommitOpenTx(h)
<1>1. CASE \E i \in Installations : CreateInstallation(i) \/ RemoveInstallation(i)
  BY <1>1
<1>2. ASSUME NEW i \in Installations, BeginOn(i)
      PROVE  \/ UNCHANGED storeVars
             \/ \E v \in Versions, mode \in Modes, h \in Handles \cup {NoHandle} :
                  OpenTx(i, v, mode, h)
  BY <1>2, Zenon DEF BeginOn, BeginTx
<1>3. ASSUME NEW i \in Installations, NEW k \in Keys, NEW h \in Handles \cup {NoHandle},
             PutOrDelete(i, k, h)
      PROVE  \/ UNCHANGED storeVars
             \/ \E v \in Versions, val \in Values : PutAlone(i, k, v, val)
             \/ \E val \in Values : PutInTx(i, k, val, h)
             \/ DeleteAlone(i, k)
             \/ DeleteInTx(i, k, h)
  <2>1. CASE \E v \in Versions, val \in Values,
               answer \in {"ok", "conflict", "not found", "version mismatch"} :
               PutState(i, k, v, val, h, answer)
    BY <2>1, Zenon DEF PutState
  <2>2. CASE \E answer \in {"ok", "conflict", "not found"} : DeleteState(i, k, h, answer)
    BY <2>2, Zenon DEF DeleteState
  <2>3. QED
    BY <1>3, <2>1, <2>2 DEF PutOrDelete
<1>4. ASSUME NEW h \in Handles, EndTx(h)
      PROVE  UNCHANGED storeVars \/ RollsBack \/ CommitOpenTx(h)
  <2>1. ASSUME AbortOpenTx(h) PROVE RollsBack
    BY <2>1 DEF AbortOpenTx, Rollback, RollsBack
  <2>2. QED
    BY <1>4, <2>1, Zenon DEF EndTx, CommitTx, AbortTx
<1>5. CASE ServeCancelled \/ RestartStore
  BY <1>5 DEF ServeCancelled, RestartStore, Rollback, RollsBack
<1>6. CASE \E i \in Installations : BeginOn(i)
  BY <1>2, <1>6, Zenon
<1>7. CASE \E i \in Installations, k \in Keys, h \in Handles \cup {NoHandle} : PutOrDelete(i, k, h)
  <2>1. PICK i \in Installations, k \in Keys, h \in Handles \cup {NoHandle} : PutOrDelete(i, k, h)
    BY <1>7
  <2>2. QED
    BY <1>3, <2>1, Zenon
<1>8. CASE \E h \in Handles : EndTx(h)
  BY <1>4, <1>8, Zenon
<1>9. QED
  BY <1>1, <1>5, <1>6, <1>7, <1>8, Zenon DEF StoreNext

LEMMA VersionNumbers == \A v \in Versions : v \in Nat /\ v \in Int /\ -1 <= v
BY VersionsAssumption

\* The version of a row is a number.
LEMMA RowVersions ==
  /\ NoRow.version = -1
  /\ \A row \in Rows \cup {NoRow} : row.version \in Int
<1>1. NoRow.version = -1
  BY DEF NoRow, NoVersion
<1>2. ASSUME NEW row \in Rows PROVE row.version \in Int
  <2>1. row.version \in Versions
    BY DEF Rows
  <2>2. QED
    BY <2>1, VersionNumbers
<1>3. QED
  BY <1>1, <1>2

LEMMA MarkerNumbers ==
  ASSUME StoreTypeOK, NEW i \in Installations
  PROVE  marker[i] \in Int /\ -1 <= marker[i]
<1>1. marker[i] \in Versions \/ marker[i] = -1
  BY DEF StoreTypeOK, NoVersion
<1>2. QED
  BY <1>1, VersionNumbers

LEMMA InvInit == EmptyStore => StoreInv
<1>1. EmptyStore => StoreTypeOK
  BY MaxTxAssumption DEF EmptyStore, StoreTypeOK
<1>2. EmptyStore => VersionCoversRows
  <2>1. EmptyStore => \A i \in Installations, k \in Keys :
                        durableRows[i][k] = NoRow /\ marker[i] = -1
    BY DEF EmptyStore, NoVersion
  <2>2. QED
    BY <2>1, RowVersions DEF VersionCoversRows
<1>3. EmptyStore => UncommittedIsDirty /\ OpenTxNotOlder
  BY DEF EmptyStore, UncommittedIsDirty, OpenTxNotOlder
<1>4. QED
  BY <1>1, <1>2, <1>3 DEF StoreInv

LEMMA InvRollsBack ==
  ASSUME StoreInv, RollsBack
  PROVE  StoreInv'
<1>1. StoreTypeOK'
  BY MaxTxAssumption DEF StoreInv, StoreTypeOK, RollsBack
<1>2. VersionCoversRows' /\ UncommittedIsDirty' /\ OpenTxNotOlder'
  BY DEF StoreInv, VersionCoversRows, UncommittedIsDirty, OpenTxNotOlder, RollsBack
<1>3. QED
  BY <1>1, <1>2 DEF StoreInv

\* With no transaction open there is nothing uncommitted.
LEMMA NothingUncommitted ==
  ASSUME StoreInv, openTx = NoTx
  PROVE  rows = durableRows
<1>1. /\ rows \in [Installations -> [Keys -> Rows \cup {NoRow}]]
      /\ durableRows \in [Installations -> [Keys -> Rows \cup {NoRow}]]
  BY DEF StoreInv, StoreTypeOK
<1>2. \A i \in Installations, k \in Keys : rows[i][k] = durableRows[i][k]
  BY DEF StoreInv, UncommittedIsDirty
<1>3. ASSUME NEW i \in Installations PROVE rows[i] = durableRows[i]
  <2>1. rows[i] \in [Keys -> Rows \cup {NoRow}] /\ durableRows[i] \in [Keys -> Rows \cup {NoRow}]
    BY <1>1
  <2>2. QED
    BY <1>2, <2>1
<1>4. QED
  BY <1>1, <1>3

\* A row or a whole installation is replaced and the rest kept.
LEMMA ReplaceRow ==
  ASSUME NEW table \in [Installations -> [Keys -> Rows \cup {NoRow}]],
         NEW i \in Installations, NEW k \in Keys, NEW row \in Rows \cup {NoRow}
  PROVE  /\ [table EXCEPT ![i][k] = row] \in [Installations -> [Keys -> Rows \cup {NoRow}]]
         /\ \A j \in Installations, l \in Keys :
              [table EXCEPT ![i][k] = row][j][l] = IF j = i /\ l = k THEN row ELSE table[j][l]
OBVIOUS

LEMMA InvInstallations ==
  ASSUME StoreInv, NEW i \in Installations, CreateInstallation(i) \/ RemoveInstallation(i)
  PROVE  StoreInv'
<1>1. CASE CreateInstallation(i)
  BY <1>1 DEF CreateInstallation, StoreInv, StoreTypeOK, VersionCoversRows, UncommittedIsDirty,
     OpenTxNotOlder
<1>2. CASE RemoveInstallation(i)
  <2>1. /\ rows' = [rows EXCEPT ![i] = [k \in Keys |-> NoRow]]
        /\ durableRows' = rows' /\ rows = durableRows
        /\ marker' = [marker EXCEPT ![i] = NoVersion]
        /\ openTx = NoTx /\ openTx' = NoTx
        /\ installed' \subseteq installed /\ txCounter' = txCounter
    BY <1>2, NothingUncommitted DEF RemoveInstallation
  <2>2. StoreTypeOK'
    BY <2>1 DEF StoreInv, StoreTypeOK
  <2>3. VersionCoversRows'
    <3>1. ASSUME NEW j \in Installations, NEW k \in Keys
          PROVE  durableRows'[j][k].version <= marker'[j]
      <4>1. CASE j = i
        <5>1. durableRows'[j][k] = NoRow
          BY <2>1, <4>1 DEF StoreInv, StoreTypeOK
        <5>2. marker'[j] = -1
          BY <2>1, <4>1 DEF StoreInv, StoreTypeOK, NoVersion
        <5>3. QED
          BY <5>1, <5>2, RowVersions
      <4>2. CASE j # i
        BY <2>1, <4>2 DEF StoreInv, StoreTypeOK, VersionCoversRows
      <4>3. QED
        BY <4>1, <4>2
    <3>2. QED
      BY <3>1 DEF VersionCoversRows
  <2>4. UncommittedIsDirty' /\ OpenTxNotOlder'
    BY <2>1 DEF UncommittedIsDirty, OpenTxNotOlder
  <2>5. QED
    BY <2>2, <2>3, <2>4 DEF StoreInv
<1>3. QED
  BY <1>1, <1>2

\* A version that is accepted is not older than its store's.
LEMMA AcceptedNotOlder ==
  ASSUME StoreTypeOK, NEW i \in Installations, NEW v \in Versions, VersionAccepted(i, v)
  PROVE  marker[i] <= v /\ marker[i] \in Int
BY VersionsAssumption DEF StoreTypeOK, VersionAccepted, NoVersion

LEMMA InvPutAlone ==
  ASSUME StoreInv, NEW i \in Installations, NEW k \in Keys, NEW v \in Versions,
         NEW val \in Values, PutAlone(i, k, v, val)
  PROVE  StoreInv'
<1> DEFINE row == [version |-> v, value |-> val]
<1>1. /\ rows' = [rows EXCEPT ![i][k] = row]
      /\ durableRows' = rows' /\ rows = durableRows
      /\ marker' = [marker EXCEPT ![i] = v]
      /\ openTx = NoTx /\ openTx' = NoTx
      /\ installed' = installed /\ txCounter' = txCounter
  BY NothingUncommitted DEF PutAlone
<1>2. row \in Rows /\ row.version = v
  BY DEF Rows
<1>3. /\ rows \in [Installations -> [Keys -> Rows \cup {NoRow}]]
      /\ marker \in [Installations -> Versions \cup {NoVersion}]
  BY DEF StoreInv, StoreTypeOK
<1> HIDE DEF row
<1>4. /\ rows' \in [Installations -> [Keys -> Rows \cup {NoRow}]]
      /\ \A j \in Installations, l \in Keys :
           rows'[j][l] = IF j = i /\ l = k THEN row ELSE rows[j][l]
  BY <1>1, <1>2, <1>3, ReplaceRow
<1>5. StoreTypeOK'
  BY <1>1, <1>3, <1>4 DEF StoreInv, StoreTypeOK
<1>6. VersionCoversRows'
  <2>1. ASSUME NEW j \in Installations, NEW l \in Keys
        PROVE  durableRows'[j][l].version <= marker'[j]
    <3>1. rows[j][l].version <= marker[j]
      BY <1>1 DEF StoreInv, VersionCoversRows
    <3>2. CASE j # i
      BY <1>1, <1>3, <1>4, <3>1, <3>2
    <3>3. CASE j = i /\ l = k
      BY <1>1, <1>2, <1>3, <1>4, <3>3, VersionsAssumption
    <3>4. CASE j = i /\ l # k
      <4>1. marker[i] <= v /\ marker[i] \in Int
        BY AcceptedNotOlder DEF PutAlone, StoreInv
      <4>2. rows[j][l].version \in Int
        BY <1>3, RowVersions
      <4>3. QED
        BY <1>1, <1>3, <1>4, <3>1, <3>4, <4>1, <4>2, VersionsAssumption
    <3>5. QED
      BY <3>2, <3>3, <3>4
  <2>2. QED
    BY <2>1 DEF VersionCoversRows
<1>7. UncommittedIsDirty' /\ OpenTxNotOlder'
  BY <1>1 DEF UncommittedIsDirty, OpenTxNotOlder
<1>8. QED
  BY <1>5, <1>6, <1>7 DEF StoreInv

LEMMA InvDeleteAlone ==
  ASSUME StoreInv, NEW i \in Installations, NEW k \in Keys, DeleteAlone(i, k)
  PROVE  StoreInv'
<1>1. /\ rows' = [rows EXCEPT ![i][k] = NoRow]
      /\ durableRows' = rows' /\ rows = durableRows
      /\ openTx = NoTx /\ openTx' = NoTx
      /\ UNCHANGED <<installed, marker, txCounter>>
  BY NothingUncommitted DEF DeleteAlone
<1>2. /\ rows \in [Installations -> [Keys -> Rows \cup {NoRow}]]
      /\ marker \in [Installations -> Versions \cup {NoVersion}]
  BY DEF StoreInv, StoreTypeOK
<1>3. /\ rows' \in [Installations -> [Keys -> Rows \cup {NoRow}]]
      /\ \A j \in Installations, l \in Keys :
           rows'[j][l] = IF j = i /\ l = k THEN NoRow ELSE rows[j][l]
  BY <1>1, <1>2, ReplaceRow
<1>4. StoreTypeOK'
  BY <1>1, <1>2, <1>3 DEF StoreInv, StoreTypeOK
<1>5. VersionCoversRows'
  <2>1. ASSUME NEW j \in Installations, NEW l \in Keys
        PROVE  durableRows'[j][l].version <= marker'[j]
    <3>1. rows[j][l].version <= marker[j]
      BY <1>1 DEF StoreInv, VersionCoversRows
    <3>2. -1 <= marker[j]
      BY MarkerNumbers DEF StoreInv
    <3>3. QED
      BY <1>1, <1>3, <3>1, <3>2, RowVersions
  <2>2. QED
    BY <2>1 DEF VersionCoversRows
<1>6. UncommittedIsDirty' /\ OpenTxNotOlder'
  BY <1>1 DEF UncommittedIsDirty, OpenTxNotOlder
<1>7. QED
  BY <1>4, <1>5, <1>6 DEF StoreInv

(***************************************************************************)
(* A write inside the open transaction (tx_put_state, tx_delete_state)     *)
(* changes one row of its installation to a row it is allowed to write and *)
(* sets the dirty flag.                                                    *)
(***************************************************************************)
LEMMA InvTxWrite ==
  ASSUME StoreInv, NEW i \in Installations, NEW k \in Keys, NEW row \in Rows \cup {NoRow},
         openTx # NoTx, openTx.inst = i,
         row = NoRow \/ row.version = openTx.version,
         rows' = [rows EXCEPT ![i][k] = row],
         openTx' = [openTx EXCEPT !.dirty = TRUE],
         UNCHANGED <<installed, durableRows, marker, txCounter>>
  PROVE  StoreInv'
<1>1. openTx \in Tx
  BY DEF StoreInv, StoreTypeOK
<1>2. /\ openTx' \in Tx /\ openTx' # NoTx
      /\ openTx'.dirty
      /\ openTx'.inst = i /\ openTx'.version = openTx.version
  <2>1. openTx' \in Tx /\ openTx'.dirty /\ openTx'.inst = i
        /\ openTx'.version = openTx.version /\ openTx'.handle = openTx.handle
    BY <1>1 DEF Tx
  <2>2. openTx.handle # 0
    BY <1>1, MaxTxAssumption DEF Tx, Handles
  <2>3. QED
    BY <2>1, <2>2 DEF NoTx, NoHandle
<1>3. rows \in [Installations -> [Keys -> Rows \cup {NoRow}]]
  BY DEF StoreInv, StoreTypeOK
<1>4. /\ rows' \in [Installations -> [Keys -> Rows \cup {NoRow}]]
      /\ \A j \in Installations, l \in Keys :
           rows'[j][l] = IF j = i /\ l = k THEN row ELSE rows[j][l]
  BY <1>3, ReplaceRow
<1>5. StoreTypeOK'
  BY <1>2, <1>4 DEF StoreInv, StoreTypeOK
<1>6. UncommittedIsDirty'
  <2>1. ASSUME NEW j \in Installations, NEW l \in Keys, rows'[j][l] # durableRows'[j][l]
        PROVE  /\ openTx' # NoTx
               /\ openTx'.inst = j
               /\ openTx'.dirty
               /\ rows'[j][l] = NoRow \/ rows'[j][l].version = openTx'.version
    <3>1. CASE j = i /\ l = k
      BY <1>2, <1>4, <3>1
    <3>2. CASE ~ (j = i /\ l = k)
      BY <1>2, <1>4, <2>1, <3>2 DEF StoreInv, UncommittedIsDirty
    <3>3. QED
      BY <3>1, <3>2
  <2>2. QED
    BY <2>1 DEF UncommittedIsDirty
<1>7. VersionCoversRows' /\ OpenTxNotOlder'
  BY <1>2 DEF StoreInv, VersionCoversRows, OpenTxNotOlder
<1>8. QED
  BY <1>5, <1>6, <1>7 DEF StoreInv

LEMMA InvPutInTx ==
  ASSUME StoreInv, NEW i \in Installations, NEW k \in Keys, NEW val \in Values,
         NEW h, PutInTx(i, k, val, h)
  PROVE  StoreInv'
<1>1. openTx # NoTx /\ openTx.inst = i /\ openTx \in Tx
  BY DEF PutInTx, InTx, StoreInv, StoreTypeOK
<1>2. PICK row \in Rows : /\ row.version = openTx.version
                          /\ rows' = [rows EXCEPT ![i][k] = row]
  BY <1>1 DEF PutInTx, Rows, Tx
<1>3. QED
  BY <1>1, <1>2, InvTxWrite DEF PutInTx

LEMMA InvDeleteInTx ==
  ASSUME StoreInv, NEW i \in Installations, NEW k \in Keys, NEW h, DeleteInTx(i, k, h)
  PROVE  StoreInv'
BY InvTxWrite DEF DeleteInTx, InTx

LEMMA InvOpenTx ==
  ASSUME StoreInv, NEW i \in Installations, NEW v \in Versions, NEW mode \in Modes,
         NEW h, OpenTx(i, v, mode, h)
  PROVE  StoreInv'
<1>1. /\ openTx' = [handle |-> h, inst |-> i, version |-> v, mode |-> mode, dirty |-> FALSE]
      /\ h \in Handles /\ txCounter' = h
      /\ UNCHANGED <<installed, rows, durableRows, marker>>
      /\ rows = durableRows
  BY NothingUncommitted, MaxTxAssumption DEF OpenTx, Handles, StoreInv, StoreTypeOK
<1>2. openTx' \in Tx /\ openTx'.inst = i /\ openTx'.version = v
  BY <1>1 DEF Tx
<1>3. StoreTypeOK'
  BY <1>1, <1>2, MaxTxAssumption DEF StoreInv, StoreTypeOK, Handles
<1>4. marker[i] <= v
  <2>1. CASE VersionAccepted(i, v)
    BY <2>1, AcceptedNotOlder DEF StoreInv
  <2>2. CASE marker[i] # NoVersion /\ marker[i] < v
    BY <2>2, MarkerNumbers, VersionsAssumption DEF StoreInv
  <2>3. QED
    BY <2>1, <2>2 DEF OpenTx, MayBegin
<1>5. OpenTxNotOlder'
  BY <1>1, <1>2, <1>4 DEF OpenTxNotOlder
<1>6. VersionCoversRows' /\ UncommittedIsDirty'
  BY <1>1 DEF StoreInv, VersionCoversRows, UncommittedIsDirty
<1>7. QED
  BY <1>3, <1>5, <1>6 DEF StoreInv

\* What CommitOpenTx leaves behind: at its installation, the rows it wrote at
\* its version, the rest as they were (or fewer); elsewhere, no change.
LEMMA CommitRows ==
  ASSUME StoreInv, openTx # NoTx
  PROVE  /\ openTx \in Tx
         /\ \A j \in Installations, k \in Keys :
              \/ rows[j][k] = durableRows[j][k]
              \/ /\ j = openTx.inst /\ openTx.dirty
                 /\ rows[j][k] = NoRow \/ rows[j][k].version = openTx.version
BY DEF StoreInv, StoreTypeOK, UncommittedIsDirty

LEMMA InvCommit ==
  ASSUME StoreInv, NEW h, CommitOpenTx(h)
  PROVE  StoreInv'
<1>1. /\ openTx # NoTx /\ openTx' = NoTx
      /\ durableRows' = rows /\ rows' = rows
      /\ marker' = IF openTx.dirty THEN [marker EXCEPT ![openTx.inst] = openTx.version]
                   ELSE marker
      /\ UNCHANGED <<installed, txCounter>>
  BY DEF CommitOpenTx, Finalized
<1>2. openTx \in Tx /\ openTx.inst \in Installations /\ openTx.version \in Versions
  BY <1>1, CommitRows DEF Tx
<1>3. /\ marker \in [Installations -> Versions \cup {NoVersion}]
      /\ rows \in [Installations -> [Keys -> Rows \cup {NoRow}]]
  BY DEF StoreInv, StoreTypeOK
<1>4. StoreTypeOK'
  BY <1>1, <1>2, <1>3 DEF StoreInv, StoreTypeOK
<1>5. VersionCoversRows'
  <2>1. ASSUME NEW j \in Installations, NEW k \in Keys
        PROVE  durableRows'[j][k].version <= marker'[j]
    <3>1. durableRows[j][k].version <= marker[j]
      BY DEF StoreInv, VersionCoversRows
    <3>2. marker[j] \in Int /\ -1 <= marker[j] /\ rows[j][k].version \in Int
          /\ openTx.version \in Nat
      BY <1>2, <1>3, MarkerNumbers, RowVersions, VersionsAssumption DEF StoreInv
    <3>3. CASE ~ (openTx.dirty /\ j = openTx.inst)
      <4>1. rows[j][k] = durableRows[j][k] /\ marker'[j] = marker[j]
        BY <1>1, <1>2, <1>3, <3>3, CommitRows
      <4>2. QED
        BY <1>1, <3>1, <4>1
    <3>4. CASE openTx.dirty /\ j = openTx.inst
      <4>1. marker'[j] = openTx.version /\ marker[j] <= openTx.version
        BY <1>1, <1>2, <1>3, <3>4 DEF StoreInv, OpenTxNotOlder
      <4>2. rows[j][k].version <= openTx.version
        BY <1>1, <3>1, <3>2, <4>1, CommitRows, RowVersions
      <4>3. QED
        BY <1>1, <4>1, <4>2
    <3>5. QED
      BY <3>3, <3>4
  <2>2. QED
    BY <2>1 DEF VersionCoversRows
<1>6. UncommittedIsDirty' /\ OpenTxNotOlder'
  BY <1>1 DEF UncommittedIsDirty, OpenTxNotOlder
<1>7. QED
  BY <1>4, <1>5, <1>6 DEF StoreInv

LEMMA InvStutter ==
  ASSUME StoreInv, UNCHANGED storeVars
  PROVE  StoreInv'
BY DEF StoreInv, StoreTypeOK, VersionCoversRows, UncommittedIsDirty, OpenTxNotOlder, storeVars

LEMMA InvNext == StoreInv /\ [StoreNext]_storeVars => StoreInv'
<1> SUFFICES ASSUME StoreInv, [StoreNext]_storeVars PROVE StoreInv'
  OBVIOUS
<1>1. CASE StoreNext
  BY <1>1, CommandEffects, InvStutter, InvRollsBack, InvInstallations, InvPutAlone,
     InvPutInTx, InvDeleteAlone, InvDeleteInTx, InvOpenTx, InvCommit, Zenon
<1>2. CASE UNCHANGED storeVars
  BY <1>2, InvStutter
<1>3. QED
  BY <1>1, <1>2

LEMMA InvAlways == StoreSpec => []StoreInv
BY InvInit, InvNext, PTL DEF StoreSpec

(***************************************************************************)
(* Every reachable state of the store is well typed.                       *)
(***************************************************************************)
THEOREM StoreTypeCorrect == StoreSpec => []StoreTypeOK
<1>1. StoreInv => StoreTypeOK
  BY DEF StoreInv
<1>2. QED
  BY InvAlways, <1>1, PTL

(***************************************************************************)
(* No committed row is newer than the version its store says it has, after *)
(* any sequence of commands, failed commits, cancelled requests and        *)
(* restarts.                                                               *)
(***************************************************************************)
THEOREM VersionAlwaysCoversRows == StoreSpec => []VersionCoversRows
<1>1. StoreInv => VersionCoversRows
  BY DEF StoreInv
<1>2. QED
  BY InvAlways, <1>1, PTL

(***************************************************************************)
(* Uncommitted rows are the open transaction's own, and it knows that it   *)
(* has written them.                                                       *)
(***************************************************************************)
THEOREM UncommittedAlwaysDirty == StoreSpec => []UncommittedIsDirty
<1>1. StoreInv => UncommittedIsDirty
  BY DEF StoreInv
<1>2. QED
  BY InvAlways, <1>1, PTL

-----------------------------------------------------------------------------
(* The durable tables implement VersionedStore.                            *)

LEMMA SameRows ==
  /\ Durable!NoVersion = NoVersion
  /\ Durable!NoRow = NoRow
  /\ Durable!Rows = Rows
BY DEF Durable!NoVersion, Durable!NoRow, Durable!Rows, NoVersion, NoRow, Rows

LEMMA DurableInit == EmptyStore => Durable!Init
BY SameRows, Zenon DEF EmptyStore, Durable!Init

LEMMA DurablePutAlone ==
  ASSUME StoreInv, NEW i \in Installations, NEW k \in Keys, NEW v \in Versions,
         NEW val \in Values, PutAlone(i, k, v, val)
  PROVE  Durable!Update(i, v)
<1>1. PICK row \in Rows : /\ row.version = v
                          /\ durableRows' = [durableRows EXCEPT ![i][k] = row]
  BY NothingUncommitted DEF PutAlone, Rows
<1>2. durableRows \in [Installations -> [Keys -> Rows \cup {NoRow}]]
  BY DEF StoreInv, StoreTypeOK
<1>3. PICK new \in [Keys -> Rows \cup {NoRow}] : new = [durableRows[i] EXCEPT ![k] = row]
  BY <1>1, <1>2
<1>4. durableRows' = [durableRows EXCEPT ![i] = new]
  BY <1>1, <1>2, <1>3
<1>5. \A l \in Keys : new[l] \in {durableRows[i][l], NoRow} \/ new[l].version = v
  BY <1>1, <1>2, <1>3
<1>6. marker[i] <= v /\ marker' = [marker EXCEPT ![i] = v]
  BY AcceptedNotOlder DEF PutAlone, StoreInv
<1>7. QED
  BY <1>4, <1>5, <1>6, SameRows DEF Durable!Update

LEMMA DurableDeleteAlone ==
  ASSUME StoreInv, NEW i \in Installations, NEW k \in Keys, DeleteAlone(i, k)
  PROVE  marker[i] \in Versions /\ Durable!Update(i, marker[i])
<1>1. /\ durableRows' = [durableRows EXCEPT ![i][k] = NoRow]
      /\ durableRows[i][k] # NoRow /\ marker' = marker
  BY NothingUncommitted DEF DeleteAlone
<1>2. /\ durableRows \in [Installations -> [Keys -> Rows \cup {NoRow}]]
      /\ marker \in [Installations -> Versions \cup {NoVersion}]
  BY DEF StoreInv, StoreTypeOK
<1>3. PICK new \in [Keys -> Rows \cup {NoRow}] : new = [durableRows[i] EXCEPT ![k] = NoRow]
  BY <1>2
<1>4. durableRows' = [durableRows EXCEPT ![i] = new]
  BY <1>1, <1>2, <1>3
<1>5. \A l \in Keys : new[l] \in {durableRows[i][l], NoRow}
  BY <1>2, <1>3
<1>6. marker[i] \in Versions
  <2>1. durableRows[i][k].version \in Versions
    BY <1>1, <1>2 DEF Rows
  <2>2. durableRows[i][k].version <= marker[i]
    BY DEF StoreInv, VersionCoversRows
  <2>3. marker[i] # -1
    BY <2>1, <2>2, VersionNumbers
  <2>4. QED
    BY <1>2, <2>3 DEF NoVersion
<1>7. marker[i] <= marker[i] /\ marker' = [marker EXCEPT ![i] = marker[i]]
  BY <1>1, <1>2, <1>6, VersionNumbers
<1>8. QED
  BY <1>4, <1>5, <1>6, <1>7, SameRows DEF Durable!Update

LEMMA DurableCommit ==
  ASSUME StoreInv, NEW h, CommitOpenTx(h)
  PROVE  \/ UNCHANGED <<durableRows, marker>>
         \/ /\ openTx.inst \in Installations /\ openTx.version \in Versions
            /\ Durable!Update(openTx.inst, openTx.version)
<1>1. openTx # NoTx /\ durableRows' = rows
  BY DEF CommitOpenTx
<1>2. openTx.inst \in Installations /\ openTx.version \in Versions
  BY <1>1, CommitRows DEF Tx
<1>3. /\ rows \in [Installations -> [Keys -> Rows \cup {NoRow}]]
      /\ durableRows \in [Installations -> [Keys -> Rows \cup {NoRow}]]
  BY DEF StoreInv, StoreTypeOK
<1>4. \A j \in Installations, k \in Keys :
        \/ rows[j][k] = durableRows[j][k]
        \/ /\ j = openTx.inst /\ openTx.dirty
           /\ rows[j][k] = NoRow \/ rows[j][k].version = openTx.version
  BY <1>1, CommitRows
<1>5. \A j \in Installations : j # openTx.inst \/ ~ openTx.dirty => rows[j] = durableRows[j]
  <2>1. ASSUME NEW j \in Installations, j # openTx.inst \/ ~ openTx.dirty
        PROVE  rows[j] = durableRows[j]
    <3>1. \A k \in Keys : rows[j][k] = durableRows[j][k]
      BY <1>4, <2>1
    <3>2. rows[j] \in [Keys -> Rows \cup {NoRow}] /\ durableRows[j] \in [Keys -> Rows \cup {NoRow}]
      BY <1>3
    <3>3. QED
      BY <3>1, <3>2
  <2>2. QED
    BY <2>1
<1>6. CASE ~ openTx.dirty
  <2>1. rows = durableRows
    BY <1>3, <1>5, <1>6
  <2>2. QED
    BY <1>6, <2>1 DEF CommitOpenTx, Finalized
<1>7. CASE openTx.dirty
  <2>1. PICK new \in [Keys -> Rows \cup {NoRow}] : new = rows[openTx.inst]
    BY <1>2, <1>3
  <2>2. durableRows' = [durableRows EXCEPT ![openTx.inst] = new]
    BY <1>1, <1>2, <1>3, <1>5, <2>1
  <2>3. \A k \in Keys : \/ new[k] \in {durableRows[openTx.inst][k], NoRow}
                       \/ new[k].version = openTx.version
    BY <1>2, <1>4, <2>1
  <2>4. /\ marker[openTx.inst] <= openTx.version
        /\ marker' = [marker EXCEPT ![openTx.inst] = openTx.version]
    BY <1>1, <1>7 DEF StoreInv, OpenTxNotOlder, CommitOpenTx, Finalized
  <2>5. Durable!Update(openTx.inst, openTx.version)
    BY <2>2, <2>3, <2>4, SameRows DEF Durable!Update
  <2>6. QED
    BY <1>2, <2>5
<1>8. QED
  BY <1>6, <1>7

LEMMA DurableStep ==
  ASSUME StoreInv, [StoreNext]_storeVars
  PROVE  [Durable!Next]_(Durable!vars)
<1> SUFFICES ASSUME ~ UNCHANGED <<durableRows, marker>> PROVE Durable!Next
  BY DEF Durable!vars
<1>1. StoreNext
  BY DEF storeVars
<1>2. ASSUME NEW i \in Installations, RemoveInstallation(i)
      PROVE  Durable!Next
  <2>1. Durable!Clear(i)
    BY <1>2, NothingUncommitted, SameRows DEF RemoveInstallation, Durable!Clear
  <2>2. QED
    BY <2>1 DEF Durable!Next
<1>3. ASSUME NEW i \in Installations, NEW k \in Keys, NEW v \in Versions, NEW val \in Values,
             PutAlone(i, k, v, val)
      PROVE  Durable!Next
  BY <1>3, DurablePutAlone DEF Durable!Next
<1>4. ASSUME NEW i \in Installations, NEW k \in Keys, DeleteAlone(i, k)
      PROVE  Durable!Next
  BY <1>4, DurableDeleteAlone DEF Durable!Next
<1>5. ASSUME NEW h \in Handles, CommitOpenTx(h)
      PROVE  Durable!Next
  BY <1>5, DurableCommit DEF Durable!Next
<1>6. \/ \E i \in Installations : RemoveInstallation(i)
      \/ \E i \in Installations, k \in Keys, v \in Versions, val \in Values :
           PutAlone(i, k, v, val)
      \/ \E i \in Installations, k \in Keys : DeleteAlone(i, k)
      \/ \E h \in Handles : CommitOpenTx(h)
  BY <1>1, CommandEffects, Zenon DEF storeVars, RollsBack, CreateInstallation, PutInTx, DeleteInTx,
     OpenTx
<1>7. QED
  BY <1>2, <1>3, <1>4, <1>5, <1>6, Zenon

(***************************************************************************)
(* The tables the executor leaves on disk behave like a store in which     *)
(* each change of an installation is atomic, never moves its schema        *)
(* version backwards and stamps what it writes with it.                    *)
(***************************************************************************)
THEOREM DurableTablesAreVersioned == StoreSpec => DurableStore
<1>1. StoreInv /\ [StoreNext]_storeVars => [Durable!Next]_(Durable!vars)
  BY DurableStep
<1>2. QED
  BY DurableInit, InvAlways, <1>1, PTL DEF StoreSpec, DurableStore, Durable!Spec

-----------------------------------------------------------------------------
(* What a thread does to the store is a command. *)

LEMMA RequestFields ==
  ASSUME NEW r \in Requests
  PROVE  /\ r.op \in {"get", "cas", "tx"}
         /\ r.op = "tx" => r.declared \in Versions
         /\ r.op \in {"get", "cas"} => r.key \in Keys
BY DEF Requests

LEMMA HandlesCount == \A h \in Handles : h # NoHandle /\ h \in Nat
BY MaxTxAssumption DEF Handles, NoHandle

LEMMA HandlesFollow == \A n \in 0..MaxTx : n + 1 # NoHandle
BY MaxTxAssumption DEF NoHandle

LEMMA PutIsCommand ==
  ASSUME NEW i \in Installations, NEW k \in Keys, NEW v \in Versions, NEW val \in Values,
         NEW h \in Handles \cup {NoHandle},
         NEW answer \in {"ok", "conflict", "not found", "version mismatch"},
         PutState(i, k, v, val, h, answer)
  PROVE  StoreNext
BY DEF StoreNext, PutOrDelete

\* Inside a transaction a put declares no version.
LEMMA TxPutIsCommand ==
  ASSUME NEW i \in Installations, NEW k \in Keys, NEW val \in Values, NEW h \in Handles,
         NEW answer \in {"ok", "conflict", "not found"},
         PutState(i, k, NoVersion, val, h, answer)
  PROVE  StoreNext
<1>1. h # NoHandle
  BY HandlesCount
<1>2. PutState(i, k, 0, val, h, answer)
  BY <1>1, Zenon DEF PutState
<1>3. 0 \in Versions
  BY VersionsOfStores
<1> QED BY <1>2, <1>3, PutIsCommand

LEMMA DeleteIsCommand ==
  ASSUME NEW i \in Installations, NEW k \in Keys, NEW h \in Handles \cup {NoHandle},
         NEW answer \in {"ok", "conflict", "not found"}, DeleteState(i, k, h, answer)
  PROVE  StoreNext
BY DEF StoreNext, PutOrDelete

LEMMA BeginIsCommand ==
  ASSUME NEW i \in Installations, NEW v \in Versions, NEW mode \in Modes,
         NEW answer \in {"ok", "conflict", "version mismatch"},
         NEW h \in Handles \cup {NoHandle}, BeginTx(i, v, mode, answer, h)
  PROVE  StoreNext
BY DEF StoreNext, BeginOn

LEMMA EndIsCommand ==
  ASSUME NEW h \in Handles,
         AbortTx(h) \/ \E answer \in {"ok", "failure", "conflict"} : CommitTx(h, answer)
  PROVE  StoreNext
BY DEF StoreNext, EndTx

-----------------------------------------------------------------------------
(* Types, and what a thread knows at each of its points. *)

GuestPlaces ==
  {"bind", "gate", "check", "read", "write", "begin", "open", "audit", "done"}
GuestCalls ==
  [pc : GuestPlaces, inst : Installations, request : Requests,
   declared : Versions \cup {NoVersion}, seen : Rows \cup {NoRow},
   tx : Handles \cup {NoHandle}, ops : 0..MaxTxOps, result : Results]
UpgradePlaces ==
  {"read", "enter", "begin", "started", "guest", "audit commit", "commit", "abandon",
   "exit", "done"}
UpgradeCalls ==
  [pc : UpgradePlaces, inst : Installations, from : Versions, to : Versions,
   tx : Handles \cup {NoHandle}, ops : 0..MaxTxOps, result : Outcomes]

\* The places at which a call of a guest, or of migrate, has a transaction to end.
GuestHolds(r) == r.pc = "open" \/ (r.pc = "audit" /\ r.result = "began")
UpgradeHolds(r) == r.pc \in {"started", "guest", "audit commit", "commit", "abandon"}

GuestFits(r) ==
  /\ r \in GuestCalls
  /\ r.pc \in {"gate", "check", "read", "write", "begin"} => r.declared \in Versions
  /\ r.pc \in {"bind", "read", "write"} => r.request.op \in {"get", "cas"}
  /\ GuestHolds(r) => r.tx \in Handles
UpgradeFits(r) ==
  /\ r \in UpgradeCalls
  /\ UpgradeHolds(r) => r.tx \in Handles
  /\ r.result = "migrated" => r.pc \in {"exit", "done"}

\* migrate answers "migrated" for its own commit and for nothing else.
OutcomeFits(u) ==
  /\ u \in committed =>
       \/ upgrade[u].pc \in {"exit", "done"} /\ upgrade[u].result = "migrated"
       \/ upgrade[u].pc = "done" /\ upgrade[u].result = "crashed"
  /\ upgrade[u].pc # "idle" /\ upgrade[u].result = "migrated" => u \in committed

ServiceTypes ==
  /\ migrating \in SUBSET Installations
  /\ DOMAIN call = Guests /\ call = [g \in Guests |-> call[g]]
  /\ DOMAIN upgrade = Upgrades /\ upgrade = [u \in Upgrades |-> upgrade[u]]
  /\ committed \in SUBSET Threads
  /\ cancels \in 0..MaxCancels /\ restarts \in 0..MaxRestarts

ServiceInv ==
  /\ StoreInv
  /\ ServiceTypes
  /\ \A g \in Guests : call[g] = Idle \/ GuestFits(call[g])
  /\ \A u \in Upgrades : upgrade[u] = Idle \/ UpgradeFits(upgrade[u])
  /\ \A u \in Upgrades : OutcomeFits(u)

LEMMA ServiceInit == Init => ServiceInv
<1>1. SUFFICES ASSUME Init PROVE ServiceInv
  OBVIOUS
<1>2. SeedVersion \in Versions /\ SeedVersion \in Nat
  BY VersionsOfStores, BoundsAssumption
<1>3. PICK written \in SUBSET Installations :
        /\ marker = [i \in Installations |->
                       IF i \in written THEN SeedVersion ELSE NoVersion]
        /\ rows \in [Installations ->
                       [Keys -> [version : {SeedVersion}, value : Values] \cup {NoRow}]]
        /\ \A i \in Installations \ written, k \in Keys : rows[i][k] = NoRow
  BY <1>1 DEF Init
<1>4. [version : {SeedVersion}, value : Values] \subseteq Rows
  BY <1>2 DEF Rows
<1>5. rows \in [Installations -> [Keys -> Rows \cup {NoRow}]]
  BY <1>3, <1>4
<1>6. StoreTypeOK
  BY <1>1, <1>2, <1>3, <1>5, MaxTxAssumption DEF Init, StoreTypeOK
<1>7. VersionCoversRows
  <2>1. SUFFICES ASSUME NEW i \in Installations, NEW k \in Keys
                 PROVE  rows[i][k].version <= marker[i]
    BY <1>1 DEF VersionCoversRows, Init
  <2>2. CASE i \in written
    <3>1. rows[i][k] \in [version : {SeedVersion}, value : Values] \cup {NoRow}
      BY <1>3
    <3>2. \A row \in [version : {SeedVersion}, value : Values] \cup {NoRow} :
            row.version = SeedVersion \/ row = NoRow
      OBVIOUS
    <3>3. rows[i][k].version = SeedVersion \/ rows[i][k].version = -1
      BY <3>1, <3>2, RowVersions
    <3>4. marker[i] = SeedVersion
      BY <1>3, <2>2
    <3>5. SeedVersion <= SeedVersion /\ -1 <= SeedVersion
      BY <1>2
    <3> QED BY <3>3, <3>4, <3>5
  <2>3. CASE i \notin written
    <3>1. rows[i][k] = NoRow
      BY <1>3, <2>3
    <3>2. marker[i] = -1
      BY <1>3, <2>3 DEF NoVersion
    <3>3. rows[i][k].version = -1
      BY <3>1, RowVersions
    <3> QED BY <3>2, <3>3
  <2> QED BY <2>2, <2>3
<1>8. UncommittedIsDirty /\ OpenTxNotOlder
  BY <1>1 DEF Init, UncommittedIsDirty, OpenTxNotOlder
<1>9. ServiceTypes
  BY <1>1, BoundsAssumption DEF Init, ServiceTypes
<1>10. \A u \in Upgrades : OutcomeFits(u)
  BY <1>1 DEF Init, OutcomeFits, Idle
<1> QED BY <1>1, <1>6, <1>7, <1>8, <1>9, <1>10 DEF ServiceInv, StoreInv, Init

-----------------------------------------------------------------------------
(* What a step of a guest's call does. *)

\* The open transaction, if there is one afterwards, is the one of before.
SameTx ==
  openTx' # NoTx =>
    openTx # NoTx /\ openTx'.handle = openTx.handle /\ openTx'.inst = openTx.inst
      /\ openTx'.mode = openTx.mode

\* The call goes on holding the open transaction, or has just begun it.
GuestStays(g, r) ==
  \/ SameTx /\ (openTx' # NoTx /\ GuestHolds(call[g]) /\ call[g].tx = openTx.handle =>
                  GuestHolds(r) /\ r.tx = call[g].tx)
  \/ GuestHolds(r) /\ openTx'.handle = r.tx /\ openTx'.mode = "normal"

Overwrites == openTx # NoTx /\ openTx' # NoTx /\ rows' # rows

GuestBecomes(g, r) ==
  /\ GuestFits(r)
  /\ call' = [call EXCEPT ![g] = r]
  /\ ~ AuditInStore => GuestStays(g, r)
  /\ Overwrites => call[g].pc = "open" /\ call[g].tx = openTx.handle /\ r # call[g]

OthersStay == upgrade' = upgrade /\ migrating' = migrating /\ cancels' = cancels
                /\ restarts' = restarts

GuestMoves(g) ==
  /\ \E r \in GuestCalls : GuestBecomes(g, r)
  /\ committed' = committed \/ committed' = committed \cup {g}
  /\ OthersStay
  /\ [StoreNext]_storeVars

LEMMA GuestPlaced ==
  ASSUME NEW r \in GuestCalls, NEW p \in GuestPlaces
  PROVE  /\ [r EXCEPT !.pc = p] \in GuestCalls
         /\ [r EXCEPT !.pc = p].pc = p
         /\ [r EXCEPT !.pc = p].request = r.request
         /\ [r EXCEPT !.pc = p].declared = r.declared
         /\ [r EXCEPT !.pc = p].tx = r.tx
         /\ [r EXCEPT !.pc = p].result = r.result
BY DEF GuestCalls

LEMMA GuestAnswered ==
  ASSUME NEW r \in GuestCalls, NEW res \in Results, NEW p \in {"audit", "done"}
  PROVE  /\ [r EXCEPT !.pc = p, !.result = res] \in GuestCalls
         /\ [r EXCEPT !.pc = p, !.result = res].pc = p
         /\ [r EXCEPT !.pc = p, !.result = res].tx = r.tx
         /\ [r EXCEPT !.pc = p, !.result = res].result = res
BY DEF GuestCalls, GuestPlaces

\* A call that holds no transaction and leaves the open one alone.
LEMMA GuestAside ==
  ASSUME NEW g, NEW r, SameTx, ~ GuestHolds(call[g])
  PROVE  GuestStays(g, r)
BY DEF GuestStays

LEMMA StoreAside ==
  ASSUME UNCHANGED storeVars
  PROVE  SameTx /\ ~ Overwrites /\ [StoreNext]_storeVars
BY DEF storeVars, SameTx, Overwrites

LEMMA InACall ==
  ASSUME ServiceInv, NEW g \in Guests, call[g].pc # "idle"
  PROVE  /\ GuestFits(call[g]) /\ call[g] \in GuestCalls
         /\ \A x : [call EXCEPT ![g] = x] = [h \in Guests |-> IF h = g THEN x ELSE call[h]]
<1>1. call[g] # Idle
  BY DEF Idle
<1> QED BY <1>1 DEF ServiceInv, GuestFits, ServiceTypes

\* A step that leaves the store alone and moves a call without a transaction.
LEMMA QuietGuest ==
  ASSUME ServiceInv, NEW g \in Guests, NEW r \in GuestCalls, GuestFits(r),
         call' = [call EXCEPT ![g] = r], ~ GuestHolds(call[g]),
         UNCHANGED storeVars, committed' = committed, OthersStay
  PROVE  GuestMoves(g)
<1>1. SameTx /\ ~ Overwrites /\ [StoreNext]_storeVars
  BY StoreAside
<1>2. GuestStays(g, r)
  BY <1>1, GuestAside
<1>3. GuestBecomes(g, r)
  BY <1>1, <1>2 DEF GuestBecomes
<1> QED BY <1>1, <1>3 DEF GuestMoves

LEMMA ServiceAside ==
  ASSUME ServiceUnchanged
  PROVE  OthersStay
BY DEF ServiceUnchanged, OthersStay, budgetVars

LEMMA GuestBinds ==
  ASSUME ServiceInv, NEW g \in Guests, Bind(g)
  PROVE  GuestMoves(g)
<1>1. /\ call[g].pc = "bind" /\ UNCHANGED storeVars /\ committed' = committed
      /\ ServiceUnchanged
  BY DEF Bind, GuestAt
<1>2. /\ GuestFits(call[g]) /\ call[g] \in GuestCalls
      /\ ~ GuestHolds(call[g])
  BY <1>1, InACall DEF GuestHolds
<1>3. PICK v \in Versions : v = IF marker[call[g].inst] = NoVersion THEN 0
                                ELSE marker[call[g].inst]
  <2>1. call[g].inst \in Installations
    BY <1>2 DEF GuestCalls
  <2>2. marker[call[g].inst] \in Versions \cup {NoVersion}
    BY <2>1 DEF ServiceInv, StoreInv, StoreTypeOK
  <2> QED BY <2>2, VersionsOfStores
<1>4. PICK r : r = [call[g] EXCEPT !.pc = "gate", !.declared = v]
  OBVIOUS
<1>5. /\ r \in GuestCalls /\ r.pc = "gate" /\ r.declared \in Versions
  BY <1>2, <1>4, <1>3 DEF GuestCalls, GuestPlaces
<1>6. GuestFits(r)
  BY <1>5 DEF GuestFits, GuestHolds
<1>7. call' = [call EXCEPT ![g] = r]
  BY <1>4, <1>3, Zenon DEF Bind
<1> QED BY <1>1, <1>2, <1>5, <1>6, <1>7, QuietGuest, ServiceAside

LEMMA GuestChecksGate ==
  ASSUME ServiceInv, NEW g \in Guests, CheckGate(g)
  PROVE  GuestMoves(g)
<1>1. /\ call[g].pc = "gate" /\ UNCHANGED storeVars /\ committed' = committed
      /\ ServiceUnchanged
      /\ IF call[g].inst \in migrating
         THEN call' = [call EXCEPT ![g].pc = "audit", ![g].result = "not-ready"]
         ELSE call' = [call EXCEPT ![g].pc = "check"]
  BY DEF CheckGate, GuestAt, GuestAnswers, GuestGoes
<1>2. /\ GuestFits(call[g]) /\ call[g] \in GuestCalls
      /\ ~ GuestHolds(call[g])
  BY <1>1, InACall DEF GuestHolds
<1>3. PICK r : r = IF call[g].inst \in migrating
                   THEN [call[g] EXCEPT !.pc = "audit", !.result = "not-ready"]
                   ELSE [call[g] EXCEPT !.pc = "check"]
  OBVIOUS
<1>4. r \in GuestCalls /\ GuestFits(r)
  <2>1. CASE call[g].inst \in migrating
    <3>1. "not-ready" \in Results
      BY DEF Results
    <3>2. r \in GuestCalls /\ r.pc = "audit" /\ r.result = "not-ready"
      BY <2>1, <1>2, <1>3, <3>1, GuestAnswered
    <3> QED BY <3>2 DEF GuestFits, GuestHolds
  <2>2. CASE call[g].inst \notin migrating
    <3>1. r \in GuestCalls /\ r.pc = "check" /\ r.declared = call[g].declared
      BY <2>2, <1>2, <1>3, GuestPlaced DEF GuestPlaces
    <3> QED BY <3>1, <1>1, <1>2 DEF GuestFits, GuestHolds
  <2> QED BY <2>1, <2>2
<1>5. call' = [call EXCEPT ![g] = r]
  BY <1>1, <1>3, Zenon
<1> QED BY <1>1, <1>2, <1>4, <1>5, QuietGuest, ServiceAside

LEMMA GuestChecksVersion ==
  ASSUME ServiceInv, NEW g \in Guests, CheckVersion(g)
  PROVE  GuestMoves(g)
<1>1. /\ call[g].pc = "check" /\ UNCHANGED storeVars /\ committed' = committed
      /\ ServiceUnchanged
  BY DEF CheckVersion, GuestAt
<1>2. /\ GuestFits(call[g]) /\ call[g] \in GuestCalls
      /\ ~ GuestHolds(call[g])
  BY <1>1, InACall DEF GuestHolds
<1>3. \/ call' = [call EXCEPT ![g].pc = "begin"]
      \/ call' = [call EXCEPT ![g].pc = "read"] /\ call[g].request.op # "tx"
      \/ call' = [call EXCEPT ![g].pc = "audit", ![g].result = "unsupported-schema-version"]
  BY Zenon DEF CheckVersion, GuestAnswers, GuestGoes
<1>4. CASE call' = [call EXCEPT ![g].pc = "begin"]
  <2>1. PICK r : r = [call[g] EXCEPT !.pc = "begin"]
    OBVIOUS
  <2>2. r \in GuestCalls /\ r.pc = "begin" /\ r.declared = call[g].declared
    BY <1>2, <2>1, GuestPlaced DEF GuestPlaces
  <2>3. GuestFits(r)
    BY <2>2, <1>1, <1>2 DEF GuestFits, GuestHolds
  <2>4. call' = [call EXCEPT ![g] = r]
    BY <1>4, <2>1, Zenon
  <2> QED BY <1>1, <1>2, <2>2, <2>3, <2>4, QuietGuest, ServiceAside
<1>5. CASE call' = [call EXCEPT ![g].pc = "read"] /\ call[g].request.op # "tx"
  <2>1. PICK r : r = [call[g] EXCEPT !.pc = "read"]
    OBVIOUS
  <2>2. /\ r \in GuestCalls /\ r.pc = "read" /\ r.declared = call[g].declared
        /\ r.request = call[g].request
    BY <1>2, <2>1, GuestPlaced DEF GuestPlaces
  <2>3. call[g].request \in Requests
    BY <1>2 DEF GuestCalls
  <2>4. r.request.op \in {"get", "cas"}
    BY <2>2, <2>3, <1>5, RequestFields
  <2>5. GuestFits(r)
    BY <2>2, <2>4, <1>1, <1>2 DEF GuestFits, GuestHolds
  <2>6. call' = [call EXCEPT ![g] = r]
    BY <1>5, <2>1, Zenon
  <2> QED BY <1>1, <1>2, <2>2, <2>5, <2>6, QuietGuest, ServiceAside
<1>6. CASE call' = [call EXCEPT ![g].pc = "audit",
                                ![g].result = "unsupported-schema-version"]
  <2>1. PICK r : r = [call[g] EXCEPT !.pc = "audit",
                                     !.result = "unsupported-schema-version"]
    OBVIOUS
  <2>2. "unsupported-schema-version" \in Results
    BY DEF Results
  <2>3. r \in GuestCalls /\ r.pc = "audit" /\ r.result = "unsupported-schema-version"
    BY <1>2, <2>1, <2>2, GuestAnswered
  <2>4. GuestFits(r)
    BY <2>3 DEF GuestFits, GuestHolds
  <2>5. call' = [call EXCEPT ![g] = r]
    BY <1>6, <2>1, Zenon
  <2> QED BY <1>1, <1>2, <2>3, <2>4, <2>5, QuietGuest, ServiceAside
<1> QED BY <1>3, <1>4, <1>5, <1>6

LEMMA GuestReads ==
  ASSUME ServiceInv, NEW g \in Guests, Read(g)
  PROVE  GuestMoves(g)
<1>1. call[g].pc = "read" /\ committed' = committed /\ ServiceUnchanged
  BY DEF Read, GuestAt
<1>2. /\ GuestFits(call[g]) /\ call[g] \in GuestCalls
      /\ ~ GuestHolds(call[g])
  BY <1>1, InACall DEF GuestHolds
<1>3. PICK answer \in {"ok", "conflict"}, row \in Rows \cup {NoRow} :
        /\ GetState(call[g].inst, call[g].request.key, NoHandle, answer, row)
        /\ call' = [call EXCEPT
             ![g].seen = row,
             ![g].pc = IF answer = "ok" /\ call[g].request.op = "cas"
                            /\ row.value = call[g].request.expected
                       THEN "write" ELSE "audit",
             ![g].result = CASE answer = "conflict" -> "conflict"
                             [] call[g].request.op = "get" -> "value"
                             [] row.value = call[g].request.expected -> "none"
                             [] OTHER -> "rejected"]
  BY Zenon DEF Read
<1>4. UNCHANGED storeVars
  BY <1>3 DEF GetState
<1>5. PICK p : p = IF answer = "ok" /\ call[g].request.op = "cas"
                        /\ row.value = call[g].request.expected
                   THEN "write" ELSE "audit"
  OBVIOUS
<1>6. PICK res : res = CASE answer = "conflict" -> "conflict"
                         [] call[g].request.op = "get" -> "value"
                         [] row.value = call[g].request.expected -> "none"
                         [] OTHER -> "rejected"
  OBVIOUS
<1>7. p \in {"write", "audit"}
  BY <1>5
<1>8. res \in {"conflict", "value", "none", "rejected"}
  BY <1>6
<1>9. PICK r : r = [call[g] EXCEPT !.seen = row, !.pc = p, !.result = res]
  OBVIOUS
<1>10. /\ r \in GuestCalls /\ r.pc = p /\ r.result = res
       /\ r.request = call[g].request /\ r.declared = call[g].declared
  BY <1>2, <1>7, <1>8, <1>9 DEF GuestCalls, GuestPlaces, Results
<1>11. GuestFits(r)
  BY <1>1, <1>2, <1>7, <1>8, <1>10 DEF GuestFits, GuestHolds
<1>12. call' = [call EXCEPT ![g] = r]
  <2>1. call' = [call EXCEPT ![g].seen = row, ![g].pc = p, ![g].result = res]
    BY <1>3, <1>5, <1>6
  <2> QED BY <2>1, <1>9, Zenon
<1> QED BY <1>1, <1>2, <1>4, <1>10, <1>11, <1>12, QuietGuest, ServiceAside

\* The effect of a write on the open transaction.
LEMMA WriteInTx ==
  ASSUME StoreTypeOK, NEW i, NEW k, NEW v, NEW val, NEW h, NEW answer,
         PutState(i, k, v, val, h, answer) \/ DeleteState(i, k, h, answer)
  PROVE  SameTx /\ (Overwrites => openTx.handle = h)
<1>1. CASE UNCHANGED storeVars
  BY <1>1, StoreAside
<1>2. CASE openTx = NoTx /\ openTx' = openTx
  BY <1>2 DEF SameTx, Overwrites
<1>3. CASE InTx(h, i) /\ openTx' = [openTx EXCEPT !.dirty = TRUE]
  <2>1. openTx \in Tx /\ openTx.handle = h /\ openTx # NoTx
    BY <1>3 DEF StoreTypeOK, InTx
  <2>2. /\ openTx'.handle = openTx.handle /\ openTx'.inst = openTx.inst
        /\ openTx'.mode = openTx.mode
    BY <1>3, <2>1 DEF Tx
  <2> QED BY <2>1, <2>2 DEF SameTx, Overwrites
<1>4. \/ UNCHANGED storeVars
      \/ openTx = NoTx /\ openTx' = openTx
      \/ InTx(h, i) /\ openTx' = [openTx EXCEPT !.dirty = TRUE]
  BY Zenon DEF PutState, DeleteState, PutAlone, DeleteAlone, PutInTx, DeleteInTx
<1> QED BY <1>1, <1>2, <1>3, <1>4

\* A put or a delete that names no transaction leaves an open one alone.
LEMMA WriteAlone ==
  ASSUME StoreTypeOK, NEW i, NEW k, NEW v, NEW val, NEW answer,
         PutState(i, k, v, val, NoHandle, answer) \/ DeleteState(i, k, NoHandle, answer)
  PROVE  SameTx /\ ~ Overwrites
<1>1. SameTx /\ (Overwrites => openTx.handle = NoHandle)
  BY WriteInTx
<1>2. openTx # NoTx => openTx.handle \in Handles
  BY DEF StoreTypeOK, Tx
<1> QED BY <1>1, <1>2, HandlesCount DEF Overwrites

\* A call that has come to the end of a get or a cas.
LEMMA GuestWritten ==
  ASSUME ServiceInv, NEW g \in Guests, NEW res \in Results, res # "began",
         call[g].pc = "write", GuestAnswers(g, res),
         SameTx, ~ Overwrites, [StoreNext]_storeVars, committed' = committed, ServiceUnchanged
  PROVE  GuestMoves(g)
<1>1. GuestFits(call[g]) /\ call[g] \in GuestCalls /\ ~ GuestHolds(call[g])
  BY InACall DEF GuestHolds
<1>2. PICK r : r = [call[g] EXCEPT !.pc = "audit", !.result = res]
  OBVIOUS
<1>3. r \in GuestCalls /\ r.pc = "audit" /\ r.result = res
  BY <1>1, <1>2, GuestAnswered
<1>4. GuestFits(r)
  BY <1>3 DEF GuestFits, GuestHolds
<1>5. call' = [call EXCEPT ![g] = r]
  BY <1>2, Zenon DEF GuestAnswers
<1>6. GuestBecomes(g, r)
  BY <1>1, <1>4, <1>5, GuestAside DEF GuestBecomes
<1> QED BY <1>3, <1>6, ServiceAside DEF GuestMoves

LEMMA AppliedIsResult ==
  \A answer \in {"ok", "conflict", "not found", "version mismatch"} :
    Applied(answer) \in Results /\ Applied(answer) # "began"
BY DEF Applied, Results

LEMMA GuestPuts ==
  ASSUME ServiceInv, NEW g \in Guests, CasPut(g)
  PROVE  GuestMoves(g)
<1>1. /\ call[g].pc = "write" /\ call[g].request.new \in Values
      /\ committed' = committed /\ ServiceUnchanged
  BY DEF CasPut, GuestAt
<1>2. PICK answer \in {"ok", "conflict", "not found", "version mismatch"} :
        /\ PutState(call[g].inst, call[g].request.key, call[g].declared,
                    call[g].request.new, NoHandle, answer)
        /\ GuestAnswers(g, Applied(answer))
  BY DEF CasPut
<1>3. /\ call[g] \in GuestCalls /\ call[g].declared \in Versions
      /\ call[g].request.op \in {"get", "cas"}
  BY <1>1, InACall DEF GuestFits
<1>4. call[g].inst \in Installations /\ call[g].request \in Requests
  BY <1>3 DEF GuestCalls
<1>5. call[g].request.key \in Keys
  BY <1>3, <1>4, RequestFields
<1>6. NoHandle \in Handles \cup {NoHandle}
  OBVIOUS
<1>7. StoreNext
  BY <1>1, <1>2, <1>3, <1>4, <1>5, <1>6, PutIsCommand
<1>8. SameTx /\ ~ Overwrites
  BY <1>2, WriteAlone DEF ServiceInv, StoreInv
<1> QED BY <1>1, <1>2, <1>7, <1>8, GuestWritten, AppliedIsResult

LEMMA GuestDeletes ==
  ASSUME ServiceInv, NEW g \in Guests, CasDelete(g)
  PROVE  GuestMoves(g)
<1>1. call[g].pc = "write" /\ committed' = committed /\ ServiceUnchanged
  BY DEF CasDelete, GuestAt
<1>2. PICK answer \in {"ok", "conflict", "not found"} :
        /\ DeleteState(call[g].inst, call[g].request.key, NoHandle, answer)
        /\ GuestAnswers(g, Applied(answer))
  BY DEF CasDelete
<1>3. call[g] \in GuestCalls /\ call[g].request.op \in {"get", "cas"}
  BY <1>1, InACall DEF GuestFits
<1>4. call[g].inst \in Installations /\ call[g].request \in Requests
  BY <1>3 DEF GuestCalls
<1>5. call[g].request.key \in Keys
  BY <1>3, <1>4, RequestFields
<1>6. NoHandle \in Handles \cup {NoHandle}
  OBVIOUS
<1>7. StoreNext
  BY <1>2, <1>4, <1>5, <1>6, DeleteIsCommand
<1>8. SameTx /\ ~ Overwrites
  BY <1>2, WriteAlone DEF ServiceInv, StoreInv
<1> QED BY <1>1, <1>2, <1>7, <1>8, GuestWritten, AppliedIsResult

LEMMA GuestSkips ==
  ASSUME ServiceInv, NEW g \in Guests, CasNothingToDelete(g)
  PROVE  GuestMoves(g)
<1>1. /\ call[g].pc = "write" /\ committed' = committed /\ ServiceUnchanged
      /\ GuestAnswers(g, "applied") /\ UNCHANGED storeVars
  BY DEF CasNothingToDelete, GuestAt
<1>2. "applied" \in Results
  BY DEF Results
<1> QED BY <1>1, <1>2, GuestWritten, StoreAside

LEMMA GuestBegins ==
  ASSUME ServiceInv, NEW g \in Guests, Begin(g)
  PROVE  GuestMoves(g)
<1>1. call[g].pc = "begin" /\ committed' = committed /\ ServiceUnchanged
  BY DEF Begin, GuestAt
<1>2. /\ GuestFits(call[g]) /\ call[g] \in GuestCalls /\ ~ GuestHolds(call[g])
      /\ call[g].declared \in Versions
  BY <1>1, InACall DEF GuestFits, GuestHolds
<1>3. PICK answer \in {"ok", "conflict", "version mismatch"}, h \in Handles \cup {NoHandle} :
        /\ BeginTx(call[g].inst, call[g].declared, "normal", answer, h)
        /\ call' = [call EXCEPT ![g].pc = "audit", ![g].tx = h,
                                ![g].result = IF answer = "ok" THEN "began" ELSE answer]
  BY DEF Begin
<1>4. PICK res : res = IF answer = "ok" THEN "began" ELSE answer
  OBVIOUS
<1>5. res \in Results /\ (res = "began" <=> answer = "ok")
  BY <1>4 DEF Results
<1>6. PICK r : r = [call[g] EXCEPT !.pc = "audit", !.tx = h, !.result = res]
  OBVIOUS
<1>7. r \in GuestCalls /\ r.pc = "audit" /\ r.tx = h /\ r.result = res
  BY <1>2, <1>5, <1>6 DEF GuestCalls, GuestPlaces
<1>8. call' = [call EXCEPT ![g] = r]
  BY <1>3, <1>4, <1>6, Zenon
<1>9. StoreNext
  <2>1. call[g].inst \in Installations
    BY <1>2 DEF GuestCalls
  <2>2. "normal" \in Modes
    BY DEF Modes
  <2> QED BY <2>1, <2>2, <1>2, <1>3, BeginIsCommand
<1>10. CASE answer = "ok"
  <2>1. OpenTx(call[g].inst, call[g].declared, "normal", h)
    BY <1>3, <1>10, Zenon DEF BeginTx
  <2>2. /\ openTx = NoTx /\ h = txCounter + 1
        /\ openTx' = [handle |-> h, inst |-> call[g].inst, version |-> call[g].declared,
                      mode |-> "normal", dirty |-> FALSE]
    BY <2>1 DEF OpenTx
  <2>3. txCounter \in 0..MaxTx
    BY DEF ServiceInv, StoreInv, StoreTypeOK
  <2>4. h \in Handles
    BY <2>2, <2>3, HandlesFollow, Zenon
  <2>5. GuestHolds(r)
    BY <1>7, <1>5, <1>10 DEF GuestHolds
  <2>6. GuestFits(r)
    BY <1>7, <2>4 DEF GuestFits
  <2>7. GuestStays(g, r) /\ ~ Overwrites
    BY <2>2, <2>5, <1>7 DEF GuestStays, Overwrites
  <2>8. GuestBecomes(g, r)
    BY <2>6, <2>7, <1>8 DEF GuestBecomes
  <2> QED BY <2>8, <1>1, <1>7, <1>9, ServiceAside DEF GuestMoves
<1>11. CASE answer # "ok"
  <2>1. UNCHANGED storeVars
    BY <1>3, <1>11, Zenon DEF BeginTx
  <2>2. GuestFits(r)
    BY <1>7, <1>5, <1>11 DEF GuestFits, GuestHolds
  <2> QED BY <1>1, <1>2, <1>7, <1>8, <2>1, <2>2, QuietGuest, ServiceAside
<1> QED BY <1>10, <1>11

LEMMA GuestWritesInTx ==
  ASSUME ServiceInv, NEW g \in Guests, TxWrite(g)
  PROVE  GuestMoves(g)
<1>1. /\ call[g].pc = "open" /\ call[g].ops < MaxTxOps
      /\ call' = [call EXCEPT ![g].ops = @ + 1]
      /\ committed' = committed /\ ServiceUnchanged
  BY DEF TxWrite, GuestAt
<1>2. GuestFits(call[g]) /\ call[g] \in GuestCalls /\ GuestHolds(call[g])
  BY <1>1, InACall DEF GuestHolds
<1>3. /\ call[g].inst \in Installations /\ call[g].tx \in Handles
      /\ call[g].ops \in 0..MaxTxOps
  BY <1>2 DEF GuestCalls, GuestFits
<1>4. call[g].ops + 1 \in 0..MaxTxOps /\ call[g].ops + 1 # call[g].ops
  BY <1>1, <1>3, BoundsAssumption
<1>5. PICK k \in Keys :
        \/ \E val \in Values, answer \in {"ok", "conflict", "not found"} :
             PutState(call[g].inst, k, NoVersion, val, call[g].tx, answer)
        \/ \E answer \in {"ok", "conflict", "not found"} :
             DeleteState(call[g].inst, k, call[g].tx, answer)
  BY Zenon DEF TxWrite
<1>6. StoreNext
  <2>1. CASE \E val \in Values, answer \in {"ok", "conflict", "not found"} :
               PutState(call[g].inst, k, NoVersion, val, call[g].tx, answer)
    BY <2>1, <1>3, TxPutIsCommand
  <2>2. CASE \E answer \in {"ok", "conflict", "not found"} :
               DeleteState(call[g].inst, k, call[g].tx, answer)
    BY <2>2, <1>3, DeleteIsCommand
  <2> QED BY <1>5, <2>1, <2>2
<1>7. SameTx /\ (Overwrites => openTx.handle = call[g].tx)
  <2>1. StoreTypeOK
    BY DEF ServiceInv, StoreInv
  <2>2. \E v, val, answer : \/ PutState(call[g].inst, k, v, val, call[g].tx, answer)
                            \/ DeleteState(call[g].inst, k, call[g].tx, answer)
    BY <1>5, Zenon
  <2> QED BY <2>1, <2>2, WriteInTx
<1>8. PICK n : n = call[g].ops + 1
  OBVIOUS
<1>9. PICK r : r = [call[g] EXCEPT !.ops = n]
  OBVIOUS
<1>10. /\ r \in GuestCalls /\ r.pc = call[g].pc /\ r.tx = call[g].tx /\ r.ops = n
  BY <1>2, <1>4, <1>8, <1>9 DEF GuestCalls
<1>11. GuestHolds(r) /\ GuestFits(r)
  BY <1>1, <1>3, <1>10 DEF GuestHolds, GuestFits
<1>12. call' = [call EXCEPT ![g] = r]
  BY <1>1, <1>8, <1>9, Zenon
<1>13. GuestStays(g, r)
  BY <1>7, <1>10, <1>11 DEF GuestStays
<1>14. r # call[g]
  BY <1>4, <1>8, <1>10
<1>15. GuestBecomes(g, r)
  BY <1>1, <1>7, <1>11, <1>12, <1>13, <1>14 DEF GuestBecomes
<1> QED BY <1>1, <1>6, <1>10, <1>15, ServiceAside DEF GuestMoves

\* Commit and abort end the open transaction or leave it alone.
LEMMA EndInTx ==
  ASSUME NEW h, AbortTx(h) \/ \E answer \in {"ok", "failure", "conflict"} : CommitTx(h, answer)
  PROVE  SameTx /\ ~ Overwrites /\ (openTx' # NoTx => openTx.handle # h)
<1>1. \/ openTx' = NoTx
      \/ openTx.handle # h /\ UNCHANGED storeVars
  BY Zenon DEF AbortTx, CommitTx, CommitOpenTx, AbortOpenTx, Rollback
<1>2. CASE openTx' = NoTx
  BY <1>2 DEF SameTx, Overwrites
<1>3. CASE openTx.handle # h /\ UNCHANGED storeVars
  BY <1>3, StoreAside
<1> QED BY <1>1, <1>2, <1>3

LEMMA GuestEnds ==
  ASSUME ServiceInv, NEW g \in Guests, call[g].pc = "open",
         NEW res \in Results, res # "began", GuestAnswers(g, res),
         \/ AbortTx(call[g].tx)
         \/ \E answer \in {"ok", "failure", "conflict"} : CommitTx(call[g].tx, answer),
         committed' = committed \/ committed' = committed \cup {g}, ServiceUnchanged
  PROVE  GuestMoves(g)
<1>1. GuestFits(call[g]) /\ call[g] \in GuestCalls
  BY InACall
<1>2. call[g].tx \in Handles
  BY <1>1 DEF GuestFits, GuestHolds
<1>3. SameTx /\ ~ Overwrites /\ (openTx' # NoTx => openTx.handle # call[g].tx)
  BY EndInTx
<1>4. StoreNext
  BY <1>2, EndIsCommand
<1>5. PICK r : r = [call[g] EXCEPT !.pc = "audit", !.result = res]
  OBVIOUS
<1>6. r \in GuestCalls /\ r.pc = "audit" /\ r.result = res
  BY <1>1, <1>5, GuestAnswered
<1>7. GuestFits(r)
  BY <1>6 DEF GuestFits, GuestHolds
<1>8. call' = [call EXCEPT ![g] = r]
  BY <1>5, Zenon DEF GuestAnswers
<1>9. GuestStays(g, r)
  BY <1>3 DEF GuestStays
<1>10. GuestBecomes(g, r)
  BY <1>3, <1>7, <1>8, <1>9 DEF GuestBecomes
<1> QED BY <1>4, <1>6, <1>10, ServiceAside DEF GuestMoves

LEMMA GuestCommits ==
  ASSUME ServiceInv, NEW g \in Guests, Commit(g)
  PROVE  GuestMoves(g)
<1>1. call[g].pc = "open" /\ ServiceUnchanged
  BY DEF Commit, GuestAt
<1>2. PICK answer \in {"ok", "failure", "conflict"} :
        /\ CommitTx(call[g].tx, answer)
        /\ GuestAnswers(g, IF answer = "ok" THEN "committed" ELSE answer)
        /\ committed' = IF answer = "ok" THEN committed \cup {g} ELSE committed
  BY DEF Commit
<1>3. PICK res : res = IF answer = "ok" THEN "committed" ELSE answer
  OBVIOUS
<1>4. res \in Results /\ res # "began"
  BY <1>3 DEF Results
<1>5. GuestAnswers(g, res)
  BY <1>2, <1>3
<1>6. committed' = committed \/ committed' = committed \cup {g}
  BY <1>2
<1> QED BY <1>1, <1>2, <1>4, <1>5, <1>6, GuestEnds

LEMMA GuestAborts ==
  ASSUME ServiceInv, NEW g \in Guests, Abort(g)
  PROVE  GuestMoves(g)
<1>1. /\ call[g].pc = "open" /\ ServiceUnchanged /\ AbortTx(call[g].tx)
      /\ GuestAnswers(g, "aborted") /\ committed' = committed
  BY DEF Abort, GuestAt
<1>2. "aborted" \in Results
  BY DEF Results
<1> QED BY <1>1, <1>2, GuestEnds

\* Only a refused audit record takes a transaction from the call that began it.
LEMMA GuestAudits ==
  ASSUME ServiceInv, NEW g \in Guests, Audit(g)
  PROVE  GuestMoves(g)
<1>1. /\ call[g].pc = "audit" /\ UNCHANGED storeVars /\ committed' = committed
      /\ ServiceUnchanged
  BY DEF Audit, GuestAt
<1>2. GuestFits(call[g]) /\ call[g] \in GuestCalls
  BY <1>1, InACall
<1>3. SameTx /\ ~ Overwrites /\ [StoreNext]_storeVars
  BY <1>1, StoreAside
<1>4. \/ AuditRefused /\ call' = [call EXCEPT ![g].pc = "done", ![g].result = "audit-failure"]
      \/ call[g].result = "began" /\ call' = [call EXCEPT ![g].pc = "open"]
      \/ call[g].result # "began" /\ call' = [call EXCEPT ![g].pc = "done"]
  <2>1. CASE AuditRefused
    BY <2>1 DEF Audit
  <2>2. CASE ~ AuditRefused /\ call[g].result = "began"
    BY <2>2, Zenon DEF Audit, GuestGoes
  <2>3. CASE ~ AuditRefused /\ call[g].result # "began"
    BY <2>3, Zenon DEF Audit, GuestGoes
  <2> QED BY <2>1, <2>2, <2>3
<1>5. CASE AuditRefused /\ call' = [call EXCEPT ![g].pc = "done",
                                                ![g].result = "audit-failure"]
  <2>1. PICK r : r = [call[g] EXCEPT !.pc = "done", !.result = "audit-failure"]
    OBVIOUS
  <2>2. "audit-failure" \in Results
    BY DEF Results
  <2>3. r \in GuestCalls /\ r.pc = "done" /\ r.result = "audit-failure"
    BY <1>2, <2>1, <2>2, GuestAnswered
  <2>4. GuestFits(r)
    BY <2>3 DEF GuestFits, GuestHolds
  <2>5. call' = [call EXCEPT ![g] = r]
    BY <1>5, <2>1, Zenon
  <2>6. AuditInStore
    BY <1>5 DEF AuditRefused
  <2>7. GuestBecomes(g, r)
    BY <1>3, <2>4, <2>5, <2>6 DEF GuestBecomes
  <2> QED BY <1>1, <1>3, <2>3, <2>7, ServiceAside DEF GuestMoves
<1>6. CASE call[g].result = "began" /\ call' = [call EXCEPT ![g].pc = "open"]
  <2>1. PICK r : r = [call[g] EXCEPT !.pc = "open"]
    OBVIOUS
  <2>2. r \in GuestCalls /\ r.pc = "open" /\ r.tx = call[g].tx
    BY <1>2, <2>1, GuestPlaced DEF GuestPlaces
  <2>3. call[g].tx \in Handles
    BY <1>1, <1>2, <1>6 DEF GuestFits, GuestHolds
  <2>4. GuestHolds(r) /\ GuestFits(r)
    BY <2>2, <2>3 DEF GuestFits, GuestHolds
  <2>5. call' = [call EXCEPT ![g] = r]
    BY <1>6, <2>1, Zenon
  <2>6. GuestStays(g, r)
    BY <1>3, <2>2, <2>4 DEF GuestStays
  <2>7. GuestBecomes(g, r)
    BY <1>3, <2>4, <2>5, <2>6 DEF GuestBecomes
  <2> QED BY <1>1, <1>3, <2>2, <2>7, ServiceAside DEF GuestMoves
<1>7. CASE call[g].result # "began" /\ call' = [call EXCEPT ![g].pc = "done"]
  <2>1. PICK r : r = [call[g] EXCEPT !.pc = "done"]
    OBVIOUS
  <2>2. r \in GuestCalls /\ r.pc = "done"
    BY <1>2, <2>1, GuestPlaced DEF GuestPlaces
  <2>3. ~ GuestHolds(call[g])
    BY <1>1, <1>7 DEF GuestHolds
  <2>4. GuestFits(r)
    BY <2>2 DEF GuestFits, GuestHolds
  <2>5. call' = [call EXCEPT ![g] = r]
    BY <1>7, <2>1, Zenon
  <2> QED BY <1>1, <2>2, <2>3, <2>4, <2>5, QuietGuest, ServiceAside
<1> QED BY <1>4, <1>5, <1>6, <1>7

LEMMA GuestStarts ==
  ASSUME ServiceInv, NEW g \in Guests, StartCall(g)
  PROVE  GuestMoves(g)
<1>1. /\ call[g].pc = "idle" /\ UNCHANGED storeVars /\ committed' = committed
      /\ ServiceUnchanged
  BY DEF StartCall, GuestAt
<1>2. PICK i \in Installations, request \in Requests :
        call' = [call EXCEPT ![g] =
          [pc |-> IF request.op = "tx" THEN "gate" ELSE "bind",
           inst |-> i, request |-> request,
           declared |-> IF request.op = "tx" THEN request.declared ELSE NoVersion,
           seen |-> NoRow, tx |-> NoHandle, ops |-> 0, result |-> "none"]]
  BY DEF StartCall
<1>3. PICK p : p = IF request.op = "tx" THEN "gate" ELSE "bind"
  OBVIOUS
<1>4. PICK d : d = IF request.op = "tx" THEN request.declared ELSE NoVersion
  OBVIOUS
<1>5. /\ p \in GuestPlaces /\ d \in Versions \cup {NoVersion}
      /\ p \in {"gate", "bind"}
      /\ p = "gate" => d \in Versions
      /\ p = "bind" => request.op \in {"get", "cas"}
  BY <1>3, <1>4, RequestFields DEF GuestPlaces
<1>6. PICK r : r = [pc |-> p, inst |-> i, request |-> request, declared |-> d,
                    seen |-> NoRow, tx |-> NoHandle, ops |-> 0, result |-> "none"]
  OBVIOUS
<1>7. 0 \in 0..MaxTxOps /\ "none" \in Results
  BY BoundsAssumption DEF Results
<1>8. /\ r \in GuestCalls /\ r.pc = p /\ r.declared = d /\ r.request = request
  BY <1>5, <1>6, <1>7 DEF GuestCalls
<1>9. GuestFits(r)
  BY <1>5, <1>8 DEF GuestFits, GuestHolds
<1>10. call' = [call EXCEPT ![g] = r]
  BY <1>2, <1>3, <1>4, <1>6, Zenon
<1>11. ~ GuestHolds(call[g])
  BY <1>1 DEF GuestHolds
<1> QED BY <1>1, <1>8, <1>9, <1>10, <1>11, QuietGuest, ServiceAside

LEMMA GuestsMove ==
  ASSUME ServiceInv, NEW g \in Guests, StartCall(g) \/ GuestStep(g)
  PROVE  GuestMoves(g)
BY GuestStarts, GuestBinds, GuestChecksGate, GuestChecksVersion, GuestReads, GuestPuts,
   GuestDeletes, GuestSkips, GuestBegins, GuestWritesInTx, GuestCommits, GuestAborts,
   GuestAudits, Zenon DEF GuestStep

-----------------------------------------------------------------------------
(* What a step of migrate does. *)

UpgradeInside(r) == UpgradeHolds(r) \/ r.pc \in {"begin", "exit"}
Underway(r) == r.pc \notin {"idle", "done"}

\* migrate goes on holding the open transaction, or has just begun it.
UpgradeStays(u, r) ==
  \/ SameTx /\ (openTx' # NoTx /\ UpgradeHolds(upgrade[u]) /\ upgrade[u].tx = openTx.handle =>
                  UpgradeHolds(r) /\ r.tx = upgrade[u].tx /\ r.inst = upgrade[u].inst)
  \/ UpgradeHolds(r) /\ openTx'.handle = r.tx /\ openTx'.inst = r.inst

WindowStays(u, r) ==
  \/ migrating' = migrating
       /\ (UpgradeInside(r) => UpgradeInside(upgrade[u]) /\ r.inst = upgrade[u].inst)
  \/ migrating' = migrating \cup {r.inst}
  \/ migrating' = migrating \ {r.inst} /\ ~ UpgradeInside(r)

InstallationStays(u, r) ==
  \/ Underway(upgrade[u]) /\ r.inst = upgrade[u].inst
  \/ \A other \in Upgrades :
       Underway(upgrade[other]) /\ upgrade[other].inst = r.inst => ParallelUpgrades

OutcomeStays(u, r) ==
  /\ u \in committed' => r.pc \in {"exit", "done"} /\ r.result = "migrated"
  /\ r.result = "migrated" => u \in committed'

UpgradeBecomes(u, r) ==
  /\ UpgradeFits(r)
  /\ upgrade' = [upgrade EXCEPT ![u] = r]
  /\ UpgradeStays(u, r)
  /\ WindowStays(u, r)
  /\ InstallationStays(u, r)
  /\ OutcomeStays(u, r)
  /\ Overwrites =>
       UpgradeHolds(upgrade[u]) /\ upgrade[u].tx = openTx.handle /\ r # upgrade[u]

GuestsStay == call' = call /\ cancels' = cancels /\ restarts' = restarts

UpgradeMoves(u) ==
  /\ \E r \in UpgradeCalls : UpgradeBecomes(u, r)
  /\ committed' = committed \/ committed' = committed \cup {u}
  /\ GuestsStay
  /\ [StoreNext]_storeVars

LEMMA UpgradeAside ==
  ASSUME UpgradeOnly
  PROVE  GuestsStay
BY DEF UpgradeOnly, GuestsStay, budgetVars

LEMMA UpgradePlaced ==
  ASSUME NEW r \in UpgradeCalls, NEW p \in UpgradePlaces
  PROVE  /\ [r EXCEPT !.pc = p] \in UpgradeCalls
         /\ [r EXCEPT !.pc = p].pc = p
         /\ [r EXCEPT !.pc = p].inst = r.inst
         /\ [r EXCEPT !.pc = p].tx = r.tx
         /\ [r EXCEPT !.pc = p].result = r.result
BY DEF UpgradeCalls

LEMMA InAnUpgrade ==
  ASSUME ServiceInv, NEW u \in Upgrades, Underway(upgrade[u])
  PROVE  /\ UpgradeFits(upgrade[u]) /\ upgrade[u] \in UpgradeCalls
         /\ upgrade[u].inst \in Installations
<1>1. upgrade[u] # Idle
  BY DEF Idle, Underway
<1>2. UpgradeFits(upgrade[u]) /\ upgrade[u] \in UpgradeCalls
  BY <1>1 DEF ServiceInv, UpgradeFits
<1> QED BY <1>2 DEF UpgradeCalls

\* Before its commit migrate has not committed and has not answered "migrated".
LEMMA BeforeCommit ==
  ASSUME ServiceInv, NEW u \in Upgrades, upgrade[u].pc \notin {"idle", "exit", "done"}
  PROVE  u \notin committed /\ upgrade[u].result # "migrated"
<1>1. Underway(upgrade[u]) /\ OutcomeFits(u)
  BY DEF ServiceInv, Underway
<1> QED BY <1>1, InAnUpgrade DEF OutcomeFits, UpgradeFits

\* A step that leaves the store alone and keeps the transaction migrate holds.
LEMMA QuietUpgrade ==
  ASSUME ServiceInv, NEW u \in Upgrades, NEW r \in UpgradeCalls,
         upgrade' = [upgrade EXCEPT ![u] = r],
         upgrade[u].pc \notin {"idle", "exit", "done"},
         r.inst = upgrade[u].inst, r.tx = upgrade[u].tx, r.result # "migrated",
         UpgradeHolds(r) <=> UpgradeHolds(upgrade[u]), WindowStays(u, r),
         UNCHANGED storeVars, committed' = committed, UpgradeOnly
  PROVE  UpgradeMoves(u)
<1>1. SameTx /\ ~ Overwrites /\ [StoreNext]_storeVars
  BY StoreAside
<1>2. Underway(upgrade[u])
  BY DEF Underway
<1>3. UpgradeFits(upgrade[u])
  BY <1>2, InAnUpgrade
<1>4. UpgradeFits(r)
  BY <1>3 DEF UpgradeFits
<1>5. UpgradeStays(u, r)
  BY <1>1 DEF UpgradeStays
<1>6. InstallationStays(u, r)
  BY <1>2 DEF InstallationStays
<1>7. OutcomeStays(u, r)
  BY BeforeCommit DEF OutcomeStays
<1>8. UpgradeBecomes(u, r)
  BY <1>1, <1>4, <1>5, <1>6, <1>7 DEF UpgradeBecomes
<1> QED BY <1>1, <1>8, UpgradeAside DEF UpgradeMoves

LEMMA UpgradeGoesQuietly ==
  ASSUME ServiceInv, NEW u \in Upgrades, NEW p \in UpgradePlaces, UpgradeGoes(u, p),
         upgrade[u].pc \notin {"idle", "exit", "done"},
         \/ p \in {"done", "enter"} /\ upgrade[u].pc = "read"
         \/ p \in {"started", "guest", "audit commit", "commit", "abandon"}
              /\ UpgradeHolds(upgrade[u]),
         migrating' = migrating, UNCHANGED storeVars, committed' = committed, UpgradeOnly
  PROVE  UpgradeMoves(u)
<1>1. upgrade[u] \in UpgradeCalls /\ upgrade[u].result # "migrated"
  BY InAnUpgrade, BeforeCommit DEF Underway
<1>2. PICK r : r = [upgrade[u] EXCEPT !.pc = p]
  OBVIOUS
<1>3. /\ r \in UpgradeCalls /\ r.pc = p /\ r.inst = upgrade[u].inst
      /\ r.tx = upgrade[u].tx /\ r.result = upgrade[u].result
  BY <1>1, <1>2, UpgradePlaced
<1>4. upgrade' = [upgrade EXCEPT ![u] = r]
  BY <1>2, Zenon DEF UpgradeGoes
<1>5. /\ UpgradeHolds(r) <=> UpgradeHolds(upgrade[u])
      /\ UpgradeInside(r) => UpgradeInside(upgrade[u])
  BY <1>3 DEF UpgradeHolds, UpgradeInside
<1>6. WindowStays(u, r)
  BY <1>3, <1>5 DEF WindowStays
<1> QED BY <1>1, <1>3, <1>4, <1>5, <1>6, QuietUpgrade

LEMMA UpgradeEndsQuietly ==
  ASSUME ServiceInv, NEW u \in Upgrades, NEW p \in UpgradePlaces, NEW res \in Outcomes,
         UpgradeEnds(u, p, res), res # "migrated",
         upgrade[u].pc \notin {"idle", "exit", "done"},
         \/ p = "done" /\ upgrade[u].pc = "read"
         \/ p = "abandon" /\ UpgradeHolds(upgrade[u]),
         migrating' = migrating, UNCHANGED storeVars, committed' = committed, UpgradeOnly
  PROVE  UpgradeMoves(u)
<1>1. upgrade[u] \in UpgradeCalls
  BY InAnUpgrade DEF Underway
<1>2. PICK r : r = [upgrade[u] EXCEPT !.pc = p, !.result = res]
  OBVIOUS
<1>3. /\ r \in UpgradeCalls /\ r.pc = p /\ r.inst = upgrade[u].inst
      /\ r.tx = upgrade[u].tx /\ r.result = res
  BY <1>1, <1>2 DEF UpgradeCalls
<1>4. upgrade' = [upgrade EXCEPT ![u] = r]
  BY <1>2, Zenon DEF UpgradeEnds
<1>5. /\ UpgradeHolds(r) <=> UpgradeHolds(upgrade[u])
      /\ UpgradeInside(r) => UpgradeInside(upgrade[u])
  BY <1>3 DEF UpgradeHolds, UpgradeInside
<1>6. WindowStays(u, r)
  BY <1>3, <1>5 DEF WindowStays
<1> QED BY <1>1, <1>3, <1>4, <1>5, <1>6, QuietUpgrade

LEMMA UpgradeReads ==
  ASSUME ServiceInv, NEW u \in Upgrades, ReadCurrent(u)
  PROVE  UpgradeMoves(u)
<1>1. /\ upgrade[u].pc = "read" /\ migrating' = migrating /\ UNCHANGED storeVars
      /\ committed' = committed /\ UpgradeOnly
  BY DEF ReadCurrent, UpgradeAt
<1>2. PICK current : current = marker[upgrade[u].inst]
  OBVIOUS
<1>3. CASE UpgradeGoes(u, "enter")
  BY <1>1, <1>3, UpgradeGoesQuietly DEF UpgradePlaces
<1>4. CASE \E res \in {"nothing-to-migrate", "already-at-target", "unexpected-store-version",
                       "unsupported-version-range"} : UpgradeEnds(u, "done", res)
  BY <1>1, <1>4, UpgradeEndsQuietly DEF UpgradePlaces, Outcomes
<1>5. \/ UpgradeGoes(u, "enter")
      \/ \E res \in {"nothing-to-migrate", "already-at-target", "unexpected-store-version",
                     "unsupported-version-range"} : UpgradeEnds(u, "done", res)
  <2>1. CASE marker[upgrade[u].inst] = NoVersion
    BY <2>1 DEF ReadCurrent
  <2>2. CASE marker[upgrade[u].inst] # NoVersion /\ marker[upgrade[u].inst] = upgrade[u].to
    <3>1. UpgradeEnds(u, "done", "already-at-target")
      BY <2>2, Zenon DEF ReadCurrent
    <3> QED BY <3>1
  <2>3. CASE marker[upgrade[u].inst] \notin {NoVersion, upgrade[u].to, upgrade[u].from}
    <3>1. /\ marker[upgrade[u].inst] # NoVersion
          /\ marker[upgrade[u].inst] # upgrade[u].to
      BY <2>3
    <3>2. UpgradeEnds(u, "done", "unexpected-store-version")
      BY <2>3, <3>1, Zenon DEF ReadCurrent
    <3> QED BY <3>2
  <2>4. CASE /\ marker[upgrade[u].inst] # NoVersion
             /\ marker[upgrade[u].inst] # upgrade[u].to
             /\ ~ (marker[upgrade[u].inst] \notin {NoVersion, upgrade[u].to, upgrade[u].from})
    <3>1. IF upgrade[u].to <= upgrade[u].from
          THEN UpgradeEnds(u, "done", "unsupported-version-range")
          ELSE UpgradeGoes(u, "enter")
      BY <2>4, Zenon DEF ReadCurrent
    <3> QED BY <3>1
  <2> QED BY <2>1, <2>2, <2>3, <2>4
<1> QED BY <1>3, <1>4, <1>5

LEMMA UpgradeEnters ==
  ASSUME ServiceInv, NEW u \in Upgrades, EnterWindow(u)
  PROVE  UpgradeMoves(u)
<1>1. /\ upgrade[u].pc = "enter" /\ migrating' = migrating \cup {upgrade[u].inst}
      /\ upgrade' = [upgrade EXCEPT ![u].pc = "begin"]
      /\ UNCHANGED storeVars /\ committed' = committed /\ UpgradeOnly
  BY DEF EnterWindow, UpgradeAt, UpgradeGoes
<1>2. upgrade[u] \in UpgradeCalls /\ upgrade[u].result # "migrated"
  BY <1>1, InAnUpgrade, BeforeCommit DEF Underway
<1>3. PICK r : r = [upgrade[u] EXCEPT !.pc = "begin"]
  OBVIOUS
<1>4. /\ r \in UpgradeCalls /\ r.pc = "begin" /\ r.inst = upgrade[u].inst
      /\ r.tx = upgrade[u].tx /\ r.result = upgrade[u].result
  BY <1>2, <1>3, UpgradePlaced DEF UpgradePlaces
<1>5. upgrade' = [upgrade EXCEPT ![u] = r]
  BY <1>1, <1>3, Zenon
<1>6. UpgradeHolds(r) <=> UpgradeHolds(upgrade[u])
  BY <1>1, <1>4 DEF UpgradeHolds
<1>7. WindowStays(u, r)
  BY <1>1, <1>4 DEF WindowStays
<1> QED BY <1>1, <1>2, <1>4, <1>5, <1>6, <1>7, QuietUpgrade

LEMMA UpgradeBegins ==
  ASSUME ServiceInv, NEW u \in Upgrades, BeginMigration(u)
  PROVE  UpgradeMoves(u)
<1>1. upgrade[u].pc = "begin" /\ migrating' = migrating /\ committed' = committed /\ UpgradeOnly
  BY DEF BeginMigration, UpgradeAt
<1>2. Underway(upgrade[u]) /\ upgrade[u] \in UpgradeCalls /\ u \notin committed
  BY <1>1, InAnUpgrade, BeforeCommit DEF Underway
<1>3. PICK answer \in {"ok", "conflict", "version mismatch"}, h \in Handles \cup {NoHandle} :
        /\ BeginTx(upgrade[u].inst, upgrade[u].to, "migration", answer, h)
        /\ upgrade' = [upgrade EXCEPT
             ![u].tx = h,
             ![u].pc = IF answer = "ok" THEN "started" ELSE "exit",
             ![u].result = CASE answer = "ok" -> "none"
                             [] answer = "conflict" -> "busy"
                             [] OTHER -> "unsupported-version-range"]
  BY Zenon DEF BeginMigration
<1>4. PICK p : p = IF answer = "ok" THEN "started" ELSE "exit"
  OBVIOUS
<1>5. PICK res : res = CASE answer = "ok" -> "none"
                         [] answer = "conflict" -> "busy"
                         [] OTHER -> "unsupported-version-range"
  OBVIOUS
<1>6. /\ p \in UpgradePlaces /\ p \in {"started", "exit"} /\ (p = "started" <=> answer = "ok")
      /\ res \in Outcomes /\ res # "migrated"
  BY <1>4, <1>5 DEF UpgradePlaces, Outcomes
<1>7. PICK r : r = [upgrade[u] EXCEPT !.tx = h, !.pc = p, !.result = res]
  OBVIOUS
<1>8. /\ r \in UpgradeCalls /\ r.pc = p /\ r.tx = h /\ r.result = res
      /\ r.inst = upgrade[u].inst
  BY <1>2, <1>6, <1>7 DEF UpgradeCalls
<1>9. upgrade' = [upgrade EXCEPT ![u] = r]
  <2>1. upgrade' = [upgrade EXCEPT ![u].tx = h, ![u].pc = p, ![u].result = res]
    BY <1>3, <1>4, <1>5
  <2> QED BY <2>1, <1>7, Zenon
<1>10. StoreNext
  <2>1. upgrade[u].inst \in Installations /\ upgrade[u].to \in Versions
    BY <1>2 DEF UpgradeCalls
  <2>2. "migration" \in Modes
    BY DEF Modes
  <2> QED BY <2>1, <2>2, <1>3, BeginIsCommand
<1>11. WindowStays(u, r) /\ InstallationStays(u, r) /\ OutcomeStays(u, r)
  <2>1. UpgradeInside(upgrade[u])
    BY <1>1 DEF UpgradeInside
  <2> QED BY <2>1, <1>1, <1>2, <1>6, <1>8
          DEF WindowStays, InstallationStays, OutcomeStays
<1>12. UpgradeFits(r) /\ UpgradeStays(u, r) /\ ~ Overwrites
  <2>1. CASE answer = "ok"
    <3>1. OpenTx(upgrade[u].inst, upgrade[u].to, "migration", h)
      BY <1>3, <2>1, Zenon DEF BeginTx
    <3>2. /\ openTx = NoTx /\ h = txCounter + 1
          /\ openTx' = [handle |-> h, inst |-> upgrade[u].inst, version |-> upgrade[u].to,
                        mode |-> "migration", dirty |-> FALSE]
      BY <3>1 DEF OpenTx
    <3>3. txCounter \in 0..MaxTx
      BY DEF ServiceInv, StoreInv, StoreTypeOK
    <3>4. h \in Handles
      BY <3>2, <3>3, HandlesFollow, Zenon
    <3>5. UpgradeHolds(r) /\ UpgradeFits(r)
      BY <1>6, <1>8, <2>1, <3>4 DEF UpgradeHolds, UpgradeFits
    <3>6. openTx'.handle = r.tx /\ openTx'.inst = r.inst
      BY <3>2, <1>8
    <3> QED BY <3>2, <3>5, <3>6 DEF UpgradeStays, Overwrites
  <2>2. CASE answer # "ok"
    <3>1. UNCHANGED storeVars
      BY <1>3, <2>2, Zenon DEF BeginTx
    <3>2. SameTx /\ ~ Overwrites
      BY <3>1, StoreAside
    <3>3. UpgradeFits(r)
      BY <1>6, <1>8, <2>2 DEF UpgradeHolds, UpgradeFits
    <3>4. ~ UpgradeHolds(upgrade[u])
      BY <1>1 DEF UpgradeHolds
    <3> QED BY <3>2, <3>3, <3>4 DEF UpgradeStays
  <2> QED BY <2>1, <2>2
<1>13. UpgradeBecomes(u, r)
  BY <1>9, <1>11, <1>12 DEF UpgradeBecomes
<1> QED BY <1>1, <1>8, <1>10, <1>13, UpgradeAside DEF UpgradeMoves

LEMMA UpgradeAuditsStart ==
  ASSUME ServiceInv, NEW u \in Upgrades, AuditStarted(u)
  PROVE  UpgradeMoves(u)
<1>1. /\ upgrade[u].pc = "started" /\ migrating' = migrating /\ UNCHANGED storeVars
      /\ committed' = committed /\ UpgradeOnly
      /\ UpgradeEnds(u, "abandon", "audit-failure") \/ UpgradeGoes(u, "guest")
  BY DEF AuditStarted, UpgradeAt
<1>2. UpgradeHolds(upgrade[u])
  BY <1>1 DEF UpgradeHolds
<1> QED BY <1>1, <1>2, UpgradeGoesQuietly, UpgradeEndsQuietly DEF UpgradePlaces, Outcomes

LEMMA UpgradeReturns ==
  ASSUME ServiceInv, NEW u \in Upgrades, MigrateReturnsOk(u) \/ MigrateFails(u)
  PROVE  UpgradeMoves(u)
<1>1. /\ upgrade[u].pc = "guest" /\ migrating' = migrating /\ UNCHANGED storeVars
      /\ committed' = committed /\ UpgradeOnly
      /\ UpgradeEnds(u, "abandon", "rolled-back") \/ UpgradeGoes(u, "audit commit")
  BY DEF MigrateReturnsOk, MigrateFails, UpgradeAt
<1>2. UpgradeHolds(upgrade[u])
  BY <1>1 DEF UpgradeHolds
<1> QED BY <1>1, <1>2, UpgradeGoesQuietly, UpgradeEndsQuietly DEF UpgradePlaces, Outcomes

LEMMA UpgradeAuditsCommit ==
  ASSUME ServiceInv, NEW u \in Upgrades, AuditCommitted(u)
  PROVE  UpgradeMoves(u)
<1>1. /\ upgrade[u].pc = "audit commit" /\ migrating' = migrating /\ UNCHANGED storeVars
      /\ committed' = committed /\ UpgradeOnly
      /\ UpgradeEnds(u, "abandon", "audit-failure") \/ UpgradeGoes(u, "commit")
  BY DEF AuditCommitted, UpgradeAt
<1>2. UpgradeHolds(upgrade[u])
  BY <1>1 DEF UpgradeHolds
<1> QED BY <1>1, <1>2, UpgradeGoesQuietly, UpgradeEndsQuietly DEF UpgradePlaces, Outcomes

LEMMA UpgradeWrites ==
  ASSUME ServiceInv, NEW u \in Upgrades, MigrateWrite(u)
  PROVE  UpgradeMoves(u)
<1>1. /\ upgrade[u].pc = "guest" /\ upgrade[u].ops < MaxTxOps
      /\ upgrade' = [upgrade EXCEPT ![u].ops = @ + 1]
      /\ migrating' = migrating /\ committed' = committed /\ UpgradeOnly
  BY DEF MigrateWrite, UpgradeAt
<1>2. /\ Underway(upgrade[u]) /\ UpgradeFits(upgrade[u]) /\ upgrade[u] \in UpgradeCalls
      /\ UpgradeHolds(upgrade[u])
      /\ u \notin committed /\ upgrade[u].result # "migrated"
  BY <1>1, InAnUpgrade, BeforeCommit DEF UpgradeHolds, Underway
<1>3. /\ upgrade[u].inst \in Installations /\ upgrade[u].tx \in Handles
      /\ upgrade[u].ops \in 0..MaxTxOps
  BY <1>2 DEF UpgradeCalls, UpgradeFits
<1>4. upgrade[u].ops + 1 \in 0..MaxTxOps /\ upgrade[u].ops + 1 # upgrade[u].ops
  BY <1>1, <1>3, BoundsAssumption
<1>5. PICK k \in Keys :
        \/ \E val \in Values, answer \in {"ok", "conflict", "not found"} :
             PutState(upgrade[u].inst, k, NoVersion, val, upgrade[u].tx, answer)
        \/ \E answer \in {"ok", "conflict", "not found"} :
             DeleteState(upgrade[u].inst, k, upgrade[u].tx, answer)
  BY Zenon DEF MigrateWrite
<1>6. StoreNext
  <2>1. CASE \E val \in Values, answer \in {"ok", "conflict", "not found"} :
               PutState(upgrade[u].inst, k, NoVersion, val, upgrade[u].tx, answer)
    BY <2>1, <1>3, TxPutIsCommand
  <2>2. CASE \E answer \in {"ok", "conflict", "not found"} :
               DeleteState(upgrade[u].inst, k, upgrade[u].tx, answer)
    BY <2>2, <1>3, DeleteIsCommand
  <2> QED BY <1>5, <2>1, <2>2
<1>7. SameTx /\ (Overwrites => openTx.handle = upgrade[u].tx)
  <2>1. StoreTypeOK
    BY DEF ServiceInv, StoreInv
  <2>2. \E v, val, answer : \/ PutState(upgrade[u].inst, k, v, val, upgrade[u].tx, answer)
                            \/ DeleteState(upgrade[u].inst, k, upgrade[u].tx, answer)
    BY <1>5, Zenon
  <2> QED BY <2>1, <2>2, WriteInTx
<1>8. PICK n : n = upgrade[u].ops + 1
  OBVIOUS
<1>9. PICK r : r = [upgrade[u] EXCEPT !.ops = n]
  OBVIOUS
<1>10. /\ r \in UpgradeCalls /\ r.pc = upgrade[u].pc /\ r.tx = upgrade[u].tx /\ r.ops = n
       /\ r.inst = upgrade[u].inst /\ r.result = upgrade[u].result
  BY <1>2, <1>4, <1>8, <1>9 DEF UpgradeCalls
<1>11. UpgradeHolds(r) /\ UpgradeFits(r)
  BY <1>1, <1>2, <1>3, <1>10 DEF UpgradeHolds, UpgradeFits
<1>12. upgrade' = [upgrade EXCEPT ![u] = r]
  BY <1>1, <1>8, <1>9, Zenon
<1>13. UpgradeStays(u, r)
  BY <1>7, <1>10, <1>11 DEF UpgradeStays
<1>14. r # upgrade[u]
  BY <1>4, <1>8, <1>10
<1>15. WindowStays(u, r) /\ InstallationStays(u, r) /\ OutcomeStays(u, r)
  BY <1>1, <1>2, <1>10
     DEF WindowStays, InstallationStays, OutcomeStays, UpgradeInside
<1>16. UpgradeBecomes(u, r)
  BY <1>2, <1>7, <1>11, <1>12, <1>13, <1>14, <1>15 DEF UpgradeBecomes
<1> QED BY <1>1, <1>6, <1>10, <1>16, UpgradeAside DEF UpgradeMoves

\* A guest that ends the migration's transaction leaves no transaction open.
LEMMA UpgradeLosesTx ==
  ASSUME ServiceInv, NEW u \in Upgrades, MigrateEndsTx(u)
  PROVE  UpgradeMoves(u)
<1>1. /\ upgrade[u].pc = "guest" /\ upgrade' = upgrade /\ migrating' = migrating
      /\ committed' = committed /\ UpgradeOnly
  BY DEF MigrateEndsTx, UpgradeAt
<1>2. /\ Underway(upgrade[u]) /\ UpgradeFits(upgrade[u]) /\ upgrade[u] \in UpgradeCalls
      /\ UpgradeHolds(upgrade[u])
      /\ u \notin committed /\ upgrade[u].result # "migrated"
  BY <1>1, InAnUpgrade, BeforeCommit DEF UpgradeHolds, Underway
<1>3. upgrade[u].tx \in Handles
  BY <1>2 DEF UpgradeFits
<1>4. StoreNext
  BY <1>3, EndIsCommand DEF MigrateEndsTx
<1>5. openTx' = NoTx
  BY Zenon DEF MigrateEndsTx, CommitTx, CommitOpenTx, AbortTx, AbortOpenTx, Rollback
<1>6. SameTx /\ ~ Overwrites
  BY <1>5 DEF SameTx, Overwrites
<1>7. UpgradeStays(u, upgrade[u])
  BY <1>6 DEF UpgradeStays
<1>8. upgrade' = [upgrade EXCEPT ![u] = upgrade[u]]
  BY <1>1 DEF ServiceInv, ServiceTypes
<1>9. /\ WindowStays(u, upgrade[u]) /\ InstallationStays(u, upgrade[u])
      /\ OutcomeStays(u, upgrade[u])
  BY <1>1, <1>2 DEF WindowStays, InstallationStays, OutcomeStays
<1>10. UpgradeBecomes(u, upgrade[u])
  BY <1>2, <1>6, <1>7, <1>8, <1>9 DEF UpgradeBecomes
<1> QED BY <1>1, <1>2, <1>4, <1>10, UpgradeAside DEF UpgradeMoves

LEMMA UpgradeLeavesTx ==
  ASSUME ServiceInv, NEW u \in Upgrades, NEW r \in UpgradeCalls,
         UpgradeHolds(upgrade[u]), upgrade' = [upgrade EXCEPT ![u] = r],
         r.pc = "exit", r.inst = upgrade[u].inst, OutcomeStays(u, r),
         \/ AbortTx(upgrade[u].tx)
         \/ \E answer \in {"ok", "failure", "conflict"} : CommitTx(upgrade[u].tx, answer),
         committed' = committed \/ committed' = committed \cup {u},
         migrating' = migrating, UpgradeOnly
  PROVE  UpgradeMoves(u)
<1>1. Underway(upgrade[u]) /\ UpgradeFits(upgrade[u]) /\ UpgradeInside(upgrade[u])
  BY InAnUpgrade DEF UpgradeHolds, Underway, UpgradeInside
<1>2. upgrade[u].tx \in Handles
  BY <1>1 DEF UpgradeFits
<1>3. StoreNext
  BY <1>2, EndIsCommand
<1>4. SameTx /\ ~ Overwrites /\ (openTx' # NoTx => openTx.handle # upgrade[u].tx)
  BY EndInTx
<1>5. UpgradeStays(u, r)
  BY <1>4 DEF UpgradeStays
<1>6. UpgradeFits(r)
  BY DEF UpgradeFits, UpgradeHolds
<1>7. WindowStays(u, r) /\ InstallationStays(u, r)
  BY <1>1 DEF WindowStays, InstallationStays
<1>8. UpgradeBecomes(u, r)
  BY <1>4, <1>5, <1>6, <1>7 DEF UpgradeBecomes
<1> QED BY <1>3, <1>8, UpgradeAside DEF UpgradeMoves

LEMMA UpgradeCommits ==
  ASSUME ServiceInv, NEW u \in Upgrades, CommitMigration(u)
  PROVE  UpgradeMoves(u)
<1>1. upgrade[u].pc = "commit" /\ migrating' = migrating /\ UpgradeOnly
  BY DEF CommitMigration, UpgradeAt
<1>2. /\ upgrade[u] \in UpgradeCalls /\ UpgradeHolds(upgrade[u]) /\ u \notin committed
  BY <1>1, InAnUpgrade, BeforeCommit DEF UpgradeHolds, Underway
<1>3. PICK answer \in {"ok", "failure", "conflict"} :
        /\ CommitTx(upgrade[u].tx, answer)
        /\ UpgradeEnds(u, "exit", CommitOutcome(answer))
        /\ committed' = IF answer = "ok" THEN committed \cup {u} ELSE committed
  BY DEF CommitMigration
<1>4. PICK res : res = CommitOutcome(answer)
  OBVIOUS
<1>5. res \in Outcomes /\ (res = "migrated" <=> answer = "ok")
  BY <1>4 DEF Outcomes, CommitOutcome
<1>6. PICK r : r = [upgrade[u] EXCEPT !.pc = "exit", !.result = res]
  OBVIOUS
<1>7. /\ r \in UpgradeCalls /\ r.pc = "exit" /\ r.inst = upgrade[u].inst /\ r.result = res
  BY <1>2, <1>5, <1>6 DEF UpgradeCalls, UpgradePlaces
<1>8. upgrade' = [upgrade EXCEPT ![u] = r]
  BY <1>3, <1>4, <1>6, Zenon DEF UpgradeEnds
<1>9. committed' = committed \/ committed' = committed \cup {u}
  BY <1>3
<1>10. u \in committed' <=> answer = "ok"
  BY <1>2, <1>3
<1>11. OutcomeStays(u, r)
  BY <1>5, <1>7, <1>10 DEF OutcomeStays
<1> QED BY <1>1, <1>2, <1>3, <1>7, <1>8, <1>9, <1>11, UpgradeLeavesTx

LEMMA UpgradeAbandons ==
  ASSUME ServiceInv, NEW u \in Upgrades, Abandon(u)
  PROVE  UpgradeMoves(u)
<1>1. /\ upgrade[u].pc = "abandon" /\ migrating' = migrating /\ UpgradeOnly
      /\ AbortTx(upgrade[u].tx) /\ upgrade' = [upgrade EXCEPT ![u].pc = "exit"]
      /\ committed' = committed
  BY DEF Abandon, UpgradeAt, UpgradeGoes
<1>2. /\ upgrade[u] \in UpgradeCalls /\ UpgradeHolds(upgrade[u])
      /\ u \notin committed /\ upgrade[u].result # "migrated"
  BY <1>1, InAnUpgrade, BeforeCommit DEF UpgradeHolds, Underway
<1>3. PICK r : r = [upgrade[u] EXCEPT !.pc = "exit"]
  OBVIOUS
<1>4. /\ r \in UpgradeCalls /\ r.pc = "exit" /\ r.inst = upgrade[u].inst
      /\ r.result = upgrade[u].result
  BY <1>2, <1>3, UpgradePlaced DEF UpgradePlaces
<1>5. upgrade' = [upgrade EXCEPT ![u] = r]
  BY <1>1, <1>3, Zenon
<1>6. OutcomeStays(u, r)
  BY <1>1, <1>2, <1>4 DEF OutcomeStays
<1> QED BY <1>1, <1>2, <1>4, <1>5, <1>6, UpgradeLeavesTx

LEMMA UpgradeExits ==
  ASSUME ServiceInv, NEW u \in Upgrades, ExitWindow(u)
  PROVE  UpgradeMoves(u)
<1>1. /\ upgrade[u].pc = "exit" /\ migrating' = migrating \ {upgrade[u].inst}
      /\ upgrade' = [upgrade EXCEPT ![u].pc = "done"]
      /\ UNCHANGED storeVars /\ committed' = committed /\ UpgradeOnly
  BY DEF ExitWindow, UpgradeAt, UpgradeGoes, WindowOf
<1>2. Underway(upgrade[u]) /\ upgrade[u] \in UpgradeCalls
  BY <1>1, InAnUpgrade DEF Underway
<1>3. PICK r : r = [upgrade[u] EXCEPT !.pc = "done"]
  OBVIOUS
<1>4. /\ r \in UpgradeCalls /\ r.pc = "done" /\ r.inst = upgrade[u].inst
      /\ r.result = upgrade[u].result
  BY <1>2, <1>3, UpgradePlaced DEF UpgradePlaces
<1>5. upgrade' = [upgrade EXCEPT ![u] = r]
  BY <1>1, <1>3, Zenon
<1>6. SameTx /\ ~ Overwrites /\ [StoreNext]_storeVars
  BY <1>1, StoreAside
<1>7. UpgradeFits(r)
  BY <1>4 DEF UpgradeFits, UpgradeHolds
<1>8. UpgradeStays(u, r)
  <2>1. ~ UpgradeHolds(upgrade[u])
    BY <1>1 DEF UpgradeHolds
  <2> QED BY <1>6, <2>1 DEF UpgradeStays
<1>9. WindowStays(u, r)
  BY <1>1, <1>4 DEF WindowStays, UpgradeInside, UpgradeHolds
<1>10. InstallationStays(u, r)
  BY <1>2, <1>4 DEF InstallationStays
<1>11. OutcomeStays(u, r)
  <2>1. OutcomeFits(u)
    BY DEF ServiceInv
  <2>2. upgrade[u].result = "migrated" => u \in committed
    BY <1>1, <2>1 DEF OutcomeFits
  <2>3. u \in committed => upgrade[u].result = "migrated"
    BY <1>1, <2>1 DEF OutcomeFits
  <2> QED BY <1>1, <1>4, <2>2, <2>3 DEF OutcomeStays
<1>12. UpgradeBecomes(u, r)
  BY <1>5, <1>6, <1>7, <1>8, <1>9, <1>10, <1>11 DEF UpgradeBecomes
<1> QED BY <1>1, <1>4, <1>6, <1>12, UpgradeAside DEF UpgradeMoves

LEMMA UpgradeStarts ==
  ASSUME ServiceInv, NEW u \in Upgrades, StartUpgrade(u)
  PROVE  UpgradeMoves(u)
<1>1. /\ upgrade[u].pc = "idle" /\ migrating' = migrating
      /\ UNCHANGED storeVars /\ committed' = committed /\ UpgradeOnly
  BY DEF StartUpgrade, UpgradeAt
<1>2. PICK i \in Installations, from \in Versions, to \in Versions :
        /\ \A other \in Upgrades : InCall(other) /\ upgrade[other].inst = i => ParallelUpgrades
        /\ upgrade' = [upgrade EXCEPT ![u] =
             [pc |-> "read", inst |-> i, from |-> from, to |-> to,
              tx |-> NoHandle, ops |-> 0, result |-> "none"]]
  BY DEF StartUpgrade
<1>3. PICK r : r = [pc |-> "read", inst |-> i, from |-> from, to |-> to,
                    tx |-> NoHandle, ops |-> 0, result |-> "none"]
  OBVIOUS
<1>4. 0 \in 0..MaxTxOps
  BY BoundsAssumption
<1>5. /\ r \in UpgradeCalls /\ r.pc = "read" /\ r.inst = i /\ r.result = "none"
  BY <1>3, <1>4 DEF UpgradeCalls, UpgradePlaces, Outcomes
<1>6. upgrade' = [upgrade EXCEPT ![u] = r]
  BY <1>2, <1>3, Zenon
<1>7. SameTx /\ ~ Overwrites /\ [StoreNext]_storeVars
  BY <1>1, StoreAside
<1>8. UpgradeFits(r) /\ ~ UpgradeInside(r)
  BY <1>5 DEF UpgradeFits, UpgradeHolds, UpgradeInside
<1>9. UpgradeStays(u, r)
  <2>1. ~ UpgradeHolds(upgrade[u])
    BY <1>1 DEF UpgradeHolds
  <2> QED BY <1>7, <2>1 DEF UpgradeStays
<1>10. WindowStays(u, r)
  BY <1>1, <1>8 DEF WindowStays
<1>11. InstallationStays(u, r)
  <2>1. \A other \in Upgrades : Underway(upgrade[other]) => InCall(other)
    BY ThreadsAssumption DEF Underway, InCall
  <2> QED BY <1>2, <1>5, <2>1 DEF InstallationStays
<1>12. OutcomeStays(u, r)
  <2>1. u \notin committed
    BY <1>1 DEF ServiceInv, OutcomeFits
  <2> QED BY <1>1, <1>5, <2>1 DEF OutcomeStays
<1>13. UpgradeBecomes(u, r)
  BY <1>6, <1>7, <1>8, <1>9, <1>10, <1>11, <1>12 DEF UpgradeBecomes
<1> QED BY <1>1, <1>5, <1>7, <1>13, UpgradeAside DEF UpgradeMoves

LEMMA UpgradesMove ==
  ASSUME ServiceInv, NEW u \in Upgrades, StartUpgrade(u) \/ UpgradeStep(u)
  PROVE  UpgradeMoves(u)
BY UpgradeStarts, UpgradeReads, UpgradeEnters, UpgradeBegins, UpgradeAuditsStart,
   UpgradeWrites, UpgradeLosesTx, UpgradeReturns, UpgradeAuditsCommit, UpgradeCommits,
   UpgradeAbandons, UpgradeExits, Zenon DEF UpgradeStep

-----------------------------------------------------------------------------
(* Every step keeps what the threads know. *)

LEMMA GuestKeepsService ==
  ASSUME ServiceInv, NEW g \in Guests, GuestMoves(g)
  PROVE  ServiceInv'
<1>1. PICK r \in GuestCalls : GuestBecomes(g, r)
  BY DEF GuestMoves
<1>2. GuestFits(r) /\ call' = [call EXCEPT ![g] = r]
  BY <1>1 DEF GuestBecomes
<1>3. /\ committed' = committed \/ committed' = committed \cup {g}
      /\ upgrade' = upgrade /\ migrating' = migrating /\ cancels' = cancels
      /\ restarts' = restarts
      /\ [StoreNext]_storeVars
  BY DEF GuestMoves, OthersStay
<1>4. StoreInv'
  BY <1>3, InvNext DEF ServiceInv
<1>5. /\ DOMAIN call' = Guests /\ call' = [h \in Guests |-> call'[h]]
      /\ \A h \in Guests : call'[h] = IF h = g THEN r ELSE call[h]
  BY <1>2 DEF ServiceInv, ServiceTypes
<1>6. committed' \in SUBSET Threads
  BY <1>3 DEF ServiceInv, ServiceTypes, Threads
<1>7. ServiceTypes'
  BY <1>3, <1>5, <1>6 DEF ServiceInv, ServiceTypes
<1>8. \A h \in Guests : call'[h] = Idle \/ GuestFits(call'[h])
  BY <1>2, <1>5 DEF ServiceInv
<1>9. \A u \in Upgrades : upgrade'[u] = Idle \/ UpgradeFits(upgrade'[u])
  BY <1>3 DEF ServiceInv
<1>10. ASSUME NEW u \in Upgrades
       PROVE  OutcomeFits(u)'
  <2>1. u \in committed' <=> u \in committed
    BY <1>3, ThreadsAssumption
  <2>2. OutcomeFits(u)
    BY DEF ServiceInv
  <2> QED BY <1>3, <2>1, <2>2, Zenon DEF OutcomeFits
<1>11. (\A h \in Guests : call[h] = Idle \/ GuestFits(call[h]))'
  BY <1>8, Zenon DEF GuestFits, GuestHolds, Idle
<1>12. (\A u \in Upgrades : upgrade[u] = Idle \/ UpgradeFits(upgrade[u]))'
  BY <1>9, Zenon DEF UpgradeFits, UpgradeHolds, Idle
<1> QED BY <1>4, <1>7, <1>10, <1>11, <1>12, Zenon DEF ServiceInv

LEMMA UpgradeKeepsService ==
  ASSUME ServiceInv, NEW u \in Upgrades, UpgradeMoves(u)
  PROVE  ServiceInv'
<1>1. PICK r \in UpgradeCalls : UpgradeBecomes(u, r)
  BY DEF UpgradeMoves
<1>2. /\ UpgradeFits(r) /\ upgrade' = [upgrade EXCEPT ![u] = r] /\ WindowStays(u, r)
      /\ OutcomeStays(u, r)
  BY <1>1 DEF UpgradeBecomes
<1>3. /\ committed' = committed \/ committed' = committed \cup {u}
      /\ call' = call /\ cancels' = cancels /\ restarts' = restarts
      /\ [StoreNext]_storeVars
  BY DEF UpgradeMoves, GuestsStay
<1>4. StoreInv'
  BY <1>3, InvNext DEF ServiceInv
<1>5. /\ DOMAIN upgrade' = Upgrades /\ upgrade' = [v \in Upgrades |-> upgrade'[v]]
      /\ \A v \in Upgrades : upgrade'[v] = IF v = u THEN r ELSE upgrade[v]
  BY <1>2 DEF ServiceInv, ServiceTypes
<1>6. committed' \in SUBSET Threads
  BY <1>3 DEF ServiceInv, ServiceTypes, Threads
<1>7. migrating' \in SUBSET Installations
  <2>1. r.inst \in Installations
    BY DEF UpgradeCalls
  <2> QED BY <1>2, <2>1 DEF WindowStays, ServiceInv, ServiceTypes
<1>8. ServiceTypes'
  BY <1>3, <1>5, <1>6, <1>7 DEF ServiceInv, ServiceTypes
<1>9. \A g \in Guests : call'[g] = Idle \/ GuestFits(call'[g])
  BY <1>3 DEF ServiceInv
<1>10. \A v \in Upgrades : upgrade'[v] = Idle \/ UpgradeFits(upgrade'[v])
  BY <1>2, <1>5 DEF ServiceInv
<1>11. ASSUME NEW v \in Upgrades
       PROVE  OutcomeFits(v)'
  <2>1. CASE v = u
    <3>1. upgrade'[v] = r
      BY <1>5, <2>1
    <3> QED BY <1>2, <2>1, <3>1, Zenon DEF OutcomeFits, OutcomeStays
  <2>2. CASE v # u
    <3>1. (v \in committed' <=> v \in committed) /\ upgrade'[v] = upgrade[v]
      BY <1>3, <1>5, <2>2
    <3>2. OutcomeFits(v)
      BY DEF ServiceInv
    <3> QED BY <3>1, <3>2, Zenon DEF OutcomeFits
  <2> QED BY <2>1, <2>2
<1>12. (\A g \in Guests : call[g] = Idle \/ GuestFits(call[g]))'
  BY <1>9, Zenon DEF GuestFits, GuestHolds, Idle
<1>13. (\A v \in Upgrades : upgrade[v] = Idle \/ UpgradeFits(upgrade[v]))'
  BY <1>10, Zenon DEF UpgradeFits, UpgradeHolds, Idle
<1> QED BY <1>4, <1>8, <1>11, <1>12, <1>13, Zenon DEF ServiceInv

LEMMA CancelKeepsService ==
  ASSUME ServiceInv, CancelledRequest
  PROVE  ServiceInv' /\ openTx' = NoTx /\ StoreNext
<1>1. /\ cancels < MaxCancels /\ cancels' = cancels + 1 /\ restarts' = restarts
      /\ call' = call /\ upgrade' = upgrade /\ migrating' = migrating
      /\ committed' = committed /\ ServeCancelled
  BY DEF CancelledRequest, callVars
<1>2. StoreNext /\ openTx' = NoTx
  BY <1>1 DEF StoreNext, ServeCancelled, Rollback
<1>3. StoreInv'
  BY <1>2, InvNext DEF ServiceInv
<1>4. cancels' \in 0..MaxCancels
  BY <1>1, BoundsAssumption DEF ServiceInv, ServiceTypes
<1>5. ServiceTypes'
  BY <1>1, <1>4 DEF ServiceInv, ServiceTypes
<1>6. (\A g \in Guests : call[g] = Idle \/ GuestFits(call[g]))'
  BY <1>1, Zenon DEF ServiceInv, GuestFits, GuestHolds, Idle
<1>7. (\A v \in Upgrades : upgrade[v] = Idle \/ UpgradeFits(upgrade[v]))'
  BY <1>1, Zenon DEF ServiceInv, UpgradeFits, UpgradeHolds, Idle
<1>8. (\A v \in Upgrades : OutcomeFits(v))'
  BY <1>1, Zenon DEF ServiceInv, OutcomeFits
<1> QED BY <1>2, <1>3, <1>5, <1>6, <1>7, <1>8, Zenon DEF ServiceInv

LEMMA RestartKeepsService ==
  ASSUME ServiceInv, Restart
  PROVE  /\ ServiceInv' /\ openTx' = NoTx /\ StoreNext /\ migrating' = {}
         /\ \A u \in Upgrades : ~ Underway(upgrade'[u])
<1>1. /\ restarts < MaxRestarts /\ restarts' = restarts + 1 /\ cancels' = cancels
      /\ RestartStore /\ migrating' = {} /\ committed' = committed
      /\ call' = [g \in Guests |->
           IF InCall(g) THEN [call[g] EXCEPT !.pc = "done", !.result = "crashed"]
           ELSE call[g]]
      /\ upgrade' = [u \in Upgrades |->
           IF InCall(u) THEN [upgrade[u] EXCEPT !.pc = "done", !.result = "crashed"]
           ELSE upgrade[u]]
  BY DEF Restart
<1>2. StoreNext /\ openTx' = NoTx
  BY <1>1 DEF StoreNext, RestartStore
<1>3. StoreInv'
  BY <1>2, InvNext DEF ServiceInv
<1>4. restarts' \in 0..MaxRestarts
  <2>1. restarts \in 0..MaxRestarts
    BY DEF ServiceInv, ServiceTypes
  <2>2. restarts < MaxRestarts /\ restarts' = restarts + 1
    BY <1>1
  <2> QED BY <2>1, <2>2, BoundsAssumption
<1>5. /\ DOMAIN call' = Guests /\ call' = [g \in Guests |-> call'[g]]
      /\ DOMAIN upgrade' = Upgrades /\ upgrade' = [u \in Upgrades |-> upgrade'[u]]
  BY <1>1
<1>6. ServiceTypes'
  BY <1>1, <1>4, <1>5 DEF ServiceInv, ServiceTypes
<1>7. ASSUME NEW g \in Guests
      PROVE  call'[g] = Idle \/ GuestFits(call'[g])
  <2>1. CASE InCall(g)
    <3>1. call[g].pc # "idle"
      BY <2>1 DEF InCall
    <3>2. call[g] \in GuestCalls
      BY <3>1, InACall
    <3>3. "crashed" \in Results
      BY DEF Results
    <3>4. PICK r : r = [call[g] EXCEPT !.pc = "done", !.result = "crashed"]
      OBVIOUS
    <3>5. r \in GuestCalls /\ r.pc = "done"
      BY <3>2, <3>3, <3>4, GuestAnswered
    <3>6. call'[g] = r
      BY <1>1, <2>1, <3>4
    <3> QED BY <3>5, <3>6 DEF GuestFits, GuestHolds
  <2>2. CASE ~ InCall(g)
    <3>1. call'[g] = call[g]
      BY <1>1, <2>2
    <3> QED BY <3>1 DEF ServiceInv
  <2> QED BY <2>1, <2>2
<1>8. ASSUME NEW u \in Upgrades
      PROVE  /\ upgrade'[u] = Idle \/ UpgradeFits(upgrade'[u])
             /\ ~ Underway(upgrade'[u])
             /\ OutcomeFits(u)'
  <2>1. u \notin Guests
    BY ThreadsAssumption
  <2>2. InCall(u) <=> Underway(upgrade[u])
    BY <2>1 DEF InCall, Underway
  <2>3. OutcomeFits(u)
    BY DEF ServiceInv
  <2>4. CASE InCall(u)
    <3>1. upgrade[u] \in UpgradeCalls
      BY <2>2, <2>4, InAnUpgrade
    <3>2. PICK r : r = [upgrade[u] EXCEPT !.pc = "done", !.result = "crashed"]
      OBVIOUS
    <3>3. r \in UpgradeCalls /\ r.pc = "done" /\ r.result = "crashed"
      BY <3>1, <3>2 DEF UpgradeCalls, UpgradePlaces, Outcomes
    <3>4. upgrade'[u] = r
      BY <1>1, <2>4, <3>2
    <3>5. UpgradeFits(r) /\ ~ Underway(r)
      BY <3>3 DEF UpgradeFits, UpgradeHolds, Underway
    <3>6. OutcomeFits(u)'
      BY <3>3, <3>4 DEF OutcomeFits
    <3> QED BY <3>4, <3>5, <3>6
  <2>5. CASE ~ InCall(u)
    <3>1. upgrade'[u] = upgrade[u]
      BY <1>1, <2>5
    <3>2. OutcomeFits(u)'
      BY <1>1, <2>3, <3>1, Zenon DEF OutcomeFits
    <3> QED BY <2>2, <2>5, <3>1, <3>2 DEF ServiceInv
  <2> QED BY <2>4, <2>5
<1>9. (\A g \in Guests : call[g] = Idle \/ GuestFits(call[g]))'
  BY <1>7, Zenon DEF GuestFits, GuestHolds, Idle
<1>10. (\A v \in Upgrades : upgrade[v] = Idle \/ UpgradeFits(upgrade[v]))'
  BY <1>8, Zenon DEF UpgradeFits, UpgradeHolds, Idle
<1>11. (\A v \in Upgrades : OutcomeFits(v))'
  BY <1>8, Zenon
<1>12. ServiceInv'
  BY <1>3, <1>6, <1>9, <1>10, <1>11, Zenon DEF ServiceInv
<1> QED BY <1>1, <1>2, <1>8, <1>12

LEMMA ServiceKept == ServiceInv /\ [Next]_vars => ServiceInv' /\ [StoreNext]_storeVars
<1> SUFFICES ASSUME ServiceInv, [Next]_vars
             PROVE  ServiceInv' /\ [StoreNext]_storeVars
  OBVIOUS
<1>1. ASSUME NEW g \in Guests, StartCall(g) \/ GuestStep(g)
      PROVE  ServiceInv' /\ [StoreNext]_storeVars
  BY <1>1, GuestsMove, GuestKeepsService DEF GuestMoves
<1>2. ASSUME NEW u \in Upgrades, StartUpgrade(u) \/ UpgradeStep(u)
      PROVE  ServiceInv' /\ [StoreNext]_storeVars
  BY <1>2, UpgradesMove, UpgradeKeepsService DEF UpgradeMoves
<1>3. CASE UNCHANGED vars
  <2>1. /\ call' = call /\ upgrade' = upgrade /\ migrating' = migrating
        /\ committed' = committed /\ cancels' = cancels /\ restarts' = restarts
        /\ UNCHANGED storeVars
    BY <1>3 DEF vars, callVars, budgetVars
  <2>2. StoreInv'
    BY <2>1, InvNext DEF ServiceInv
  <2>3. ServiceTypes'
    BY <2>1, Zenon DEF ServiceInv, ServiceTypes
  <2>4. (\A g \in Guests : call[g] = Idle \/ GuestFits(call[g]))'
    BY <2>1, Zenon DEF ServiceInv, GuestFits, GuestHolds, Idle
  <2>5. (\A v \in Upgrades : upgrade[v] = Idle \/ UpgradeFits(upgrade[v]))'
    BY <2>1, Zenon DEF ServiceInv, UpgradeFits, UpgradeHolds, Idle
  <2>6. (\A v \in Upgrades : OutcomeFits(v))'
    BY <2>1, Zenon DEF ServiceInv, OutcomeFits
  <2>7. ServiceInv'
    BY <2>2, <2>3, <2>4, <2>5, <2>6, Zenon DEF ServiceInv
  <2> QED BY <2>1, <2>7
<1> QED BY <1>1, <1>2, <1>3, CancelKeepsService, RestartKeepsService, Zenon DEF Next

LEMMA ServiceAlways == Spec => []ServiceInv
<1>1. ServiceInv /\ [Next]_vars => ServiceInv'
  BY ServiceKept
<1> QED BY ServiceInit, <1>1, PTL DEF Spec

-----------------------------------------------------------------------------
(***************************************************************************)
(* The service's state is well typed whatever the threads do, a            *)
(* cancellation or a restart at any command included.                      *)
(***************************************************************************)
THEOREM ServiceTypeCorrect == Spec => []TypeOK
<1>1. ServiceInv => TypeOK
  <2> SUFFICES ASSUME ServiceInv PROVE TypeOK
    OBVIOUS
  <2>1. /\ StoreTypeOK /\ migrating \subseteq Installations /\ committed \subseteq Threads
        /\ cancels \in 0..MaxCancels /\ restarts \in 0..MaxRestarts
    BY DEF ServiceInv, StoreInv, ServiceTypes
  <2>2. call \in [Guests -> {Idle} \cup GuestCalls]
    BY DEF ServiceInv, ServiceTypes, GuestFits
  <2>3. upgrade \in [Upgrades -> {Idle} \cup UpgradeCalls]
    BY DEF ServiceInv, ServiceTypes, UpgradeFits
  <2> QED BY <2>1, <2>2, <2>3, Zenon
          DEF TypeOK, GuestCalls, GuestPlaces, UpgradeCalls, UpgradePlaces
<1> QED BY ServiceAlways, <1>1, PTL

(***************************************************************************)
(* Under every interleaving of guests and upgrades no committed row is     *)
(* newer than its store, and what is not committed belongs to the open     *)
(* transaction (put_state, begin_tx and tx_finalize together).             *)
(***************************************************************************)
THEOREM ServiceKeepsVersions == Spec => [](VersionCoversRows /\ UncommittedIsDirty)
<1>1. ServiceInv => VersionCoversRows /\ UncommittedIsDirty
  BY DEF ServiceInv, StoreInv
<1> QED BY ServiceAlways, <1>1, PTL

(***************************************************************************)
(* migrate answers "migrated" exactly when its own commit went through     *)
(* (StateMigrationService::migrate), even if the guest ended the           *)
(* transaction it was handed or another was begun meanwhile.               *)
(***************************************************************************)
THEOREM OutcomesMatchStore == Spec => []OutcomeMatchesStore
<1>1. ServiceInv => OutcomeMatchesStore
  BY DEF ServiceInv, OutcomeFits, OutcomeMatchesStore, UpgradeAt
<1> QED BY ServiceAlways, <1>1, PTL

-----------------------------------------------------------------------------
(* Who writes into the open transaction. *)

LEMMA OwnerWrites ==
  ASSUME ServiceInv, [Next]_vars, openTx # NoTx, openTx' # NoTx, rows' # rows
  PROVE  \E t \in Threads : InCall(t) /\ Handle(t) = openTx.handle /\ Acts(t)
<1>1. Overwrites
  BY DEF Overwrites
<1>2. ASSUME NEW g \in Guests, StartCall(g) \/ GuestStep(g)
      PROVE  \E t \in Threads : InCall(t) /\ Handle(t) = openTx.handle /\ Acts(t)
  <2>1. PICK r \in GuestCalls : GuestBecomes(g, r)
    BY <1>2, GuestsMove DEF GuestMoves
  <2>2. /\ call[g].pc = "open" /\ call[g].tx = openTx.handle /\ r # call[g]
        /\ call' = [call EXCEPT ![g] = r]
    BY <1>1, <2>1 DEF GuestBecomes
  <2>3. call'[g] = r
    BY <2>2 DEF ServiceInv, ServiceTypes
  <2>4. InCall(g) /\ Handle(g) = openTx.handle /\ Acts(g)
    BY <2>2, <2>3 DEF InCall, Handle, Acts
  <2> QED BY <2>4 DEF Threads
<1>3. ASSUME NEW u \in Upgrades, StartUpgrade(u) \/ UpgradeStep(u)
      PROVE  \E t \in Threads : InCall(t) /\ Handle(t) = openTx.handle /\ Acts(t)
  <2>1. PICK r \in UpgradeCalls : UpgradeBecomes(u, r)
    BY <1>3, UpgradesMove DEF UpgradeMoves
  <2>2. /\ UpgradeHolds(upgrade[u]) /\ upgrade[u].tx = openTx.handle /\ r # upgrade[u]
        /\ upgrade' = [upgrade EXCEPT ![u] = r]
    BY <1>1, <2>1 DEF UpgradeBecomes
  <2>3. upgrade'[u] = r /\ u \notin Guests
    BY <2>2, ThreadsAssumption DEF ServiceInv, ServiceTypes
  <2>4. InCall(u) /\ Handle(u) = openTx.handle /\ Acts(u)
    BY <2>2, <2>3 DEF InCall, Handle, Acts, UpgradeHolds
  <2> QED BY <2>4 DEF Threads
<1>4. ~ UNCHANGED vars
  BY DEF vars, storeVars
<1> QED BY <1>2, <1>3, <1>4, CancelKeepsService, RestartKeepsService, Zenon DEF Next

(***************************************************************************)
(* The rows of an open transaction change only by a step of the call that  *)
(* holds it (require_active_tx): a call whose transaction was rolled back  *)
(* under it never writes into the next one.                                *)
(***************************************************************************)
THEOREM OwnersWrite == Spec => OnlyOwnerWrites
<1>1. ServiceInv /\ [Next]_vars =>
        [openTx # NoTx /\ openTx' # NoTx /\ rows' # rows =>
          \E t \in Threads : InCall(t) /\ Handle(t) = openTx.handle /\ Acts(t)]_vars
  BY OwnerWrites
<1> QED BY ServiceAlways, <1>1, PTL DEF Spec, OnlyOwnerWrites

-----------------------------------------------------------------------------
(* Who holds the open transaction. *)

GuestOwns(g) ==
  GuestHolds(call[g]) /\ call[g].tx = openTx.handle /\ openTx.mode = "normal"
UpgradeOwns(u) ==
  /\ UpgradeHolds(upgrade[u]) /\ upgrade[u].tx = openTx.handle
  /\ openTx.inst = upgrade[u].inst

TxOwned ==
  openTx # NoTx =>
    (\E g \in Guests : GuestOwns(g)) \/ (\E u \in Upgrades : UpgradeOwns(u))
WindowsOpen ==
  \A u \in Upgrades : UpgradeInside(upgrade[u]) => upgrade[u].inst \in migrating
WindowsApart ==
  \A u, v \in Upgrades :
    Underway(upgrade[u]) /\ Underway(upgrade[v]) /\ upgrade[u].inst = upgrade[v].inst => u = v

HeldInv == ServiceInv /\ TxOwned /\ WindowsOpen /\ WindowsApart

LEMMA HeldInit == Init => HeldInv
<1> SUFFICES ASSUME Init PROVE HeldInv
  OBVIOUS
<1>1. \A u \in Upgrades : upgrade[u].pc = "idle"
  BY DEF Init, Idle
<1>2. TxOwned
  BY DEF Init, TxOwned
<1>3. WindowsOpen
  BY <1>1 DEF WindowsOpen, UpgradeInside, UpgradeHolds
<1>4. WindowsApart
  BY <1>1 DEF WindowsApart, Underway
<1> QED BY <1>2, <1>3, <1>4, ServiceInit DEF HeldInv

LEMMA InsideIsUnderway == \A r : UpgradeInside(r) => Underway(r)
BY DEF UpgradeInside, UpgradeHolds, Underway

LEMMA GuestKeepsHeld ==
  ASSUME ~ AuditInStore, HeldInv, NEW g \in Guests, StartCall(g) \/ GuestStep(g)
  PROVE  HeldInv'
<1>1. ServiceInv /\ GuestMoves(g)
  BY GuestsMove DEF HeldInv
<1>2. PICK r \in GuestCalls : GuestBecomes(g, r)
  BY <1>1 DEF GuestMoves
<1>3. GuestStays(g, r) /\ call' = [call EXCEPT ![g] = r]
  BY <1>2 DEF GuestBecomes
<1>4. \A h \in Guests : call'[h] = IF h = g THEN r ELSE call[h]
  BY <1>1, <1>3 DEF ServiceInv, ServiceTypes
<1>5. upgrade' = upgrade /\ migrating' = migrating
  BY <1>1 DEF GuestMoves, OthersStay
<1>6. ServiceInv'
  BY <1>1, GuestKeepsService
<1>7. WindowsOpen' /\ WindowsApart'
  <2>1. WindowsOpen'
    BY <1>5, Zenon DEF HeldInv, WindowsOpen, UpgradeInside, UpgradeHolds
  <2>2. WindowsApart'
    BY <1>5, Zenon DEF HeldInv, WindowsApart, Underway
  <2> QED BY <2>1, <2>2
<1>8. ASSUME openTx' # NoTx
      PROVE  (\E h \in Guests : GuestOwns(h)') \/ (\E u \in Upgrades : UpgradeOwns(u)')
  <2>1. CASE GuestHolds(r) /\ openTx'.handle = r.tx /\ openTx'.mode = "normal"
    <3>1. call'[g] = r
      BY <1>4
    <3>2. GuestOwns(g)'
      BY <2>1, <3>1, Zenon DEF GuestOwns, GuestHolds
    <3> QED BY <3>2
  <2>2. CASE SameTx /\ (openTx' # NoTx /\ GuestHolds(call[g]) /\ call[g].tx = openTx.handle =>
                          GuestHolds(r) /\ r.tx = call[g].tx)
    <3>1. /\ openTx # NoTx /\ openTx'.handle = openTx.handle
          /\ openTx'.inst = openTx.inst /\ openTx'.mode = openTx.mode
      BY <1>8, <2>2 DEF SameTx
    <3>2. (\E h \in Guests : GuestOwns(h)) \/ (\E u \in Upgrades : UpgradeOwns(u))
      BY <3>1 DEF HeldInv, TxOwned
    <3>3. ASSUME NEW h \in Guests, GuestOwns(h)
          PROVE  GuestOwns(h)'
      <4>1. CASE h = g
        <5>1. call'[h] = r /\ GuestHolds(r) /\ r.tx = openTx.handle
          BY <1>4, <1>8, <2>2, <3>3, <4>1 DEF GuestOwns
        <5> QED BY <3>1, <3>3, <5>1, Zenon DEF GuestOwns, GuestHolds
      <4>2. CASE h # g
        <5>1. call'[h] = call[h]
          BY <1>4, <4>2
        <5> QED BY <3>1, <3>3, <5>1, Zenon DEF GuestOwns, GuestHolds
      <4> QED BY <4>1, <4>2
    <3>4. ASSUME NEW u \in Upgrades, UpgradeOwns(u)
          PROVE  UpgradeOwns(u)'
      BY <1>5, <3>1, <3>4, Zenon DEF UpgradeOwns, UpgradeHolds
    <3> QED BY <3>2, <3>3, <3>4, Zenon
  <2> QED BY <1>3, <2>1, <2>2 DEF GuestStays
<1>9. TxOwned'
  BY <1>8, Zenon DEF TxOwned
<1> QED BY <1>6, <1>7, <1>9, Zenon DEF HeldInv

\* While upgrades of one installation exclude each other, no other upgrade that
\* is under way is of the installation of the one that moves.
LEMMA InstallationAlone ==
  ASSUME ~ ParallelUpgrades, HeldInv, NEW u \in Upgrades, NEW r, InstallationStays(u, r),
         NEW v \in Upgrades, v # u, Underway(upgrade[v])
  PROVE  upgrade[v].inst # r.inst
BY DEF HeldInv, WindowsApart, InstallationStays

LEMMA UpgradeKeepsHeld ==
  ASSUME ~ ParallelUpgrades, HeldInv, NEW u \in Upgrades, StartUpgrade(u) \/ UpgradeStep(u)
  PROVE  HeldInv'
<1>1. ServiceInv /\ UpgradeMoves(u)
  BY UpgradesMove DEF HeldInv
<1>2. PICK r \in UpgradeCalls : UpgradeBecomes(u, r)
  BY <1>1 DEF UpgradeMoves
<1>3. /\ UpgradeStays(u, r) /\ WindowStays(u, r) /\ InstallationStays(u, r)
      /\ upgrade' = [upgrade EXCEPT ![u] = r]
  BY <1>2 DEF UpgradeBecomes
<1>4. \A v \in Upgrades : upgrade'[v] = IF v = u THEN r ELSE upgrade[v]
  BY <1>1, <1>3 DEF ServiceInv, ServiceTypes
<1>5. call' = call
  BY <1>1 DEF UpgradeMoves, GuestsStay
<1>6. ServiceInv'
  BY <1>1, UpgradeKeepsService
<1>7. ASSUME NEW v \in Upgrades, UpgradeInside(upgrade'[v])
      PROVE  upgrade'[v].inst \in migrating'
  <2>1. CASE v = u
    <3>1. upgrade'[v] = r /\ UpgradeInside(r)
      BY <1>4, <1>7, <2>1
    <3>2. UpgradeInside(upgrade[u]) => upgrade[u].inst \in migrating
      BY DEF HeldInv, WindowsOpen
    <3> QED BY <1>3, <3>1, <3>2 DEF WindowStays
  <2>2. CASE v # u
    <3>1. upgrade'[v] = upgrade[v] /\ UpgradeInside(upgrade[v])
      BY <1>4, <1>7, <2>2
    <3>2. upgrade[v].inst \in migrating
      BY <3>1 DEF HeldInv, WindowsOpen
    <3>3. upgrade[v].inst # r.inst
      BY <1>3, <2>2, <3>1, InsideIsUnderway, InstallationAlone
    <3> QED BY <1>3, <3>1, <3>2, <3>3 DEF WindowStays
  <2> QED BY <2>1, <2>2
<1>8. ASSUME NEW v \in Upgrades, NEW w \in Upgrades,
             Underway(upgrade'[v]), Underway(upgrade'[w]),
             upgrade'[v].inst = upgrade'[w].inst
      PROVE  v = w
  <2>1. CASE v = u /\ w # u
    <3>1. upgrade'[v] = r /\ upgrade'[w] = upgrade[w]
      BY <1>4, <2>1
    <3> QED BY <1>3, <1>8, <2>1, <3>1, InstallationAlone
  <2>2. CASE v # u /\ w = u
    <3>1. upgrade'[w] = r /\ upgrade'[v] = upgrade[v]
      BY <1>4, <2>2
    <3> QED BY <1>3, <1>8, <2>2, <3>1, InstallationAlone
  <2>3. CASE v # u /\ w # u
    <3>1. upgrade'[w] = upgrade[w] /\ upgrade'[v] = upgrade[v]
      BY <1>4, <2>3
    <3> QED BY <1>8, <3>1 DEF HeldInv, WindowsApart
  <2> QED BY <2>1, <2>2, <2>3
<1>9. ASSUME openTx' # NoTx
      PROVE  (\E h \in Guests : GuestOwns(h)') \/ (\E v \in Upgrades : UpgradeOwns(v)')
  <2>1. CASE UpgradeHolds(r) /\ openTx'.handle = r.tx /\ openTx'.inst = r.inst
    <3>1. upgrade'[u] = r
      BY <1>4
    <3>2. UpgradeOwns(u)'
      BY <2>1, <3>1, Zenon DEF UpgradeOwns, UpgradeHolds
    <3> QED BY <3>2
  <2>2. CASE SameTx /\ (openTx' # NoTx /\ UpgradeHolds(upgrade[u])
                          /\ upgrade[u].tx = openTx.handle =>
                          UpgradeHolds(r) /\ r.tx = upgrade[u].tx /\ r.inst = upgrade[u].inst)
    <3>1. /\ openTx # NoTx /\ openTx'.handle = openTx.handle
          /\ openTx'.inst = openTx.inst /\ openTx'.mode = openTx.mode
      BY <1>9, <2>2 DEF SameTx
    <3>2. (\E h \in Guests : GuestOwns(h)) \/ (\E v \in Upgrades : UpgradeOwns(v))
      BY <3>1 DEF HeldInv, TxOwned
    <3>3. ASSUME NEW v \in Upgrades, UpgradeOwns(v)
          PROVE  UpgradeOwns(v)'
      <4>1. CASE v = u
        <5>1. /\ upgrade'[v] = r /\ UpgradeHolds(r) /\ r.tx = openTx.handle
              /\ r.inst = openTx.inst
          BY <1>4, <1>9, <2>2, <3>3, <4>1 DEF UpgradeOwns
        <5> QED BY <3>1, <5>1, Zenon DEF UpgradeOwns, UpgradeHolds
      <4>2. CASE v # u
        <5>1. upgrade'[v] = upgrade[v]
          BY <1>4, <4>2
        <5> QED BY <3>1, <3>3, <5>1, Zenon DEF UpgradeOwns, UpgradeHolds
      <4> QED BY <4>1, <4>2
    <3>4. ASSUME NEW h \in Guests, GuestOwns(h)
          PROVE  GuestOwns(h)'
      BY <1>5, <3>1, <3>4, Zenon DEF GuestOwns, GuestHolds
    <3> QED BY <3>2, <3>3, <3>4, Zenon
  <2> QED BY <1>3, <2>1, <2>2 DEF UpgradeStays
<1>10. TxOwned'
  BY <1>9, Zenon DEF TxOwned
<1>11. WindowsOpen'
  BY <1>7, Zenon DEF WindowsOpen, UpgradeInside, UpgradeHolds
<1>12. WindowsApart'
  BY <1>8, Zenon DEF WindowsApart, Underway
<1> QED BY <1>6, <1>10, <1>11, <1>12, Zenon DEF HeldInv

LEMMA HeldKept ==
  ASSUME ~ AuditInStore, ~ ParallelUpgrades, HeldInv, [Next]_vars
  PROVE  HeldInv'
<1>1. CASE CancelledRequest
  <2>1. ServiceInv' /\ openTx' = NoTx
    BY <1>1, CancelKeepsService DEF HeldInv
  <2>2. upgrade' = upgrade /\ migrating' = migrating
    BY <1>1 DEF CancelledRequest, callVars
  <2>3. TxOwned'
    BY <2>1, Zenon DEF TxOwned
  <2>4. WindowsOpen'
    BY <2>2, Zenon DEF HeldInv, WindowsOpen, UpgradeInside, UpgradeHolds
  <2>5. WindowsApart'
    BY <2>2, Zenon DEF HeldInv, WindowsApart, Underway
  <2> QED BY <2>1, <2>3, <2>4, <2>5, Zenon DEF HeldInv
<1>2. CASE Restart
  <2>1. /\ ServiceInv' /\ openTx' = NoTx
        /\ \A u \in Upgrades : ~ Underway(upgrade'[u])
    BY <1>2, RestartKeepsService DEF HeldInv
  <2>2. \A u \in Upgrades : ~ UpgradeInside(upgrade'[u])
    BY <2>1, InsideIsUnderway
  <2>3. TxOwned'
    BY <2>1, Zenon DEF TxOwned
  <2>4. WindowsOpen'
    BY <2>2, Zenon DEF WindowsOpen, UpgradeInside, UpgradeHolds
  <2>5. WindowsApart'
    BY <2>1, Zenon DEF WindowsApart, Underway
  <2> QED BY <2>1, <2>3, <2>4, <2>5, Zenon DEF HeldInv
<1>3. CASE UNCHANGED vars
  <2>1. /\ call' = call /\ upgrade' = upgrade /\ migrating' = migrating
        /\ openTx' = openTx
    BY <1>3 DEF vars, callVars, storeVars
  <2>2. ServiceInv'
    BY <1>3, ServiceKept DEF HeldInv
  <2>3. TxOwned'
    BY <2>1, Zenon
       DEF HeldInv, TxOwned, GuestOwns, UpgradeOwns, GuestHolds, UpgradeHolds, NoTx
  <2>4. WindowsOpen'
    BY <2>1, Zenon DEF HeldInv, WindowsOpen, UpgradeInside, UpgradeHolds
  <2>5. WindowsApart'
    BY <2>1, Zenon DEF HeldInv, WindowsApart, Underway
  <2> QED BY <2>2, <2>3, <2>4, <2>5, Zenon DEF HeldInv
<1> QED BY <1>1, <1>2, <1>3, GuestKeepsHeld, UpgradeKeepsHeld, Zenon DEF Next

(***************************************************************************)
(* A state transaction is open only while the call that began it is        *)
(* running, and a migration's only while its installation answers          *)
(* not-ready (executor.rs, state.rs), wherever audit records go to a       *)
(* collector of their own and upgrades of one installation exclude each    *)
(* other.                                                                  *)
(***************************************************************************)
THEOREM TransactionsAreHeld ==
  ASSUME ~ AuditInStore, ~ ParallelUpgrades
  PROVE  Spec => []TransactionIsHeld
<1>1. HeldInv => TransactionIsHeld
  <2> SUFFICES ASSUME HeldInv, openTx # NoTx
               PROVE  /\ \E t \in Threads : InCall(t) /\ Handle(t) = openTx.handle
                      /\ openTx.mode = "migration" => openTx.inst \in migrating
    BY DEF TransactionIsHeld
  <2>1. ASSUME NEW g \in Guests, GuestOwns(g)
        PROVE  /\ g \in Threads /\ InCall(g) /\ Handle(g) = openTx.handle
               /\ openTx.mode # "migration"
    BY <2>1 DEF GuestOwns, GuestHolds, Threads, InCall, Handle
  <2>2. ASSUME NEW u \in Upgrades, UpgradeOwns(u)
        PROVE  /\ u \in Threads /\ InCall(u) /\ Handle(u) = openTx.handle
               /\ openTx.inst \in migrating
    <3>1. u \notin Guests
      BY ThreadsAssumption
    <3>2. openTx.inst \in migrating
      BY <2>2 DEF UpgradeOwns, UpgradeInside, HeldInv, WindowsOpen
    <3> QED BY <2>2, <3>1, <3>2 DEF UpgradeOwns, UpgradeHolds, Threads, InCall, Handle
  <2>3. (\E g \in Guests : GuestOwns(g)) \/ (\E u \in Upgrades : UpgradeOwns(u))
    BY DEF HeldInv, TxOwned
  <2> QED BY <2>1, <2>2, <2>3, Zenon
<1>2. HeldInv /\ [Next]_vars => HeldInv'
  BY HeldKept
<1> QED BY HeldInit, <1>1, <1>2, PTL DEF Spec
=============================================================================

--------------------------- MODULE ArtifactStore ----------------------------
(***************************************************************************)
(* The bytes of one component's releases, their registration, and the      *)
(* active release of each installation (crates/storage-sqlite:             *)
(* repository.rs, artifact.rs, recovery.rs).                               *)
(*                                                                         *)
(* The storage worker serves one command at a time, but a command is       *)
(* several commits and renames: the process can stop between any two, and  *)
(* a request can be cancelled at the points where the code looks.  "at"    *)
(* is how far the worker is in its command.  A stopped process starts      *)
(* again with recovery, one marker and one file at a time, and recovery    *)
(* can be stopped too.                                                     *)
(*                                                                         *)
(* A power loss may also undo the last rename, which nothing flushes.      *)
(***************************************************************************)
EXTENDS Integers, FiniteSetsExt

CONSTANTS Digests, Installations,
          Versions,      \* major versions: version v stands for "v.0.0"
          Uploads,       \* persist_artifact calls in progress
          MaxMarkers     \* bound: rows ever inserted into upgrade_transactions

ASSUME ReleasesAssumption == Versions \subseteq 0..99
ASSUME MaxMarkersAssumption == MaxMarkers \in Nat

NoDigest == "no digest"
NoVersion == -1
NoInstallation == "no installation"
ASSUME NoDigestAssumption == NoDigest \notin Digests
ASSUME NoInstallationAssumption == NoInstallation \notin Installations

Binding == [version : Versions, digest : Digests]
NoBinding == [version |-> NoVersion, digest |-> NoDigest]

BoundStates == {"candidate", "installed", "rolled_back"}
Bound == [digest : Digests, state : BoundStates]
Unbound == [digest |-> NoDigest, state |-> "none"]

MarkerIds == 1..MaxMarkers
Phases == {"prepared", "committed", "rolled_back"}
Markers == [inst : Installations, from : Binding \cup {NoBinding}, to : Binding,
            phase : Phases]
NoMarker == [phase |-> "none"]

\* What a command concerns: a digest, or a version and a digest.
Release == [version : Versions \cup {NoVersion}, digest : Digests \cup {NoDigest}]

Move == [digest : Digests, from : {"staging", "quarantine", "final"}]
NoMove == [digest |-> NoDigest]

Committed == {"candidate", "installed"}
Recovering == {"markers", "files"}
Points == {"idle", "quarantining", "committing", "prepared", "finalizing", "marking",
           "gc files", "gc aged row", "gc rows", "gc finals", "refused"} \cup Recovering

VARIABLES
  upload,          \* what each upload is persisting
  staging,         \* uploads whose staging file exists
  quarantine,      \* digests with a file in quarantine/
  final,           \* digests with a file in artifacts/
  lastMove,        \* the last rename, not flushed
  artifacts,       \* table artifacts: state of each digest
  registry,        \* table component_versions
  installed,       \* table installations
  bound,           \* table installation_versions
  active,          \* table active_version
  markers,         \* table upgrade_transactions
  lastMarker,      \* its AUTOINCREMENT counter
  at,              \* where the worker is
  subject,         \* the release the command being served concerns
  client,          \* the installation whose release is being switched
  retired,         \* the version a rollback leaves
  todo,            \* digests left to visit by gc or by recovery
  spoiled          \* history: interrupted steps that nothing repairs

files == <<quarantine, final, lastMove>>
tables == <<artifacts, registry, installed, bound, active, markers, lastMarker>>
uploads == <<upload, staging>>
switching == <<client, retired>>
vars == <<uploads, files, tables, at, subject, switching, todo, spoiled>>

ArtifactTypeOK ==
  /\ upload \in [Uploads -> Digests \cup {NoDigest}]
  /\ staging \subseteq Uploads
  /\ quarantine \subseteq Digests
  /\ final \subseteq Digests
  /\ lastMove \in Move \cup {NoMove}
  /\ artifacts \in [Digests -> {"absent", "quarantine"} \cup Committed]
  /\ registry \in [Versions -> Digests \cup {NoDigest}]
  /\ installed \subseteq Installations
  /\ bound \in [Installations -> [Versions -> Bound \cup {Unbound}]]
  /\ active \in [Installations -> Binding \cup {NoBinding}]
  /\ markers \in [MarkerIds -> Markers \cup {NoMarker}]
  /\ lastMarker \in 0..MaxMarkers
  /\ at \in Points
  /\ subject \in Release
  /\ client \in Installations \cup {NoInstallation}
  /\ retired \in Versions \cup {NoVersion}
  /\ todo \subseteq Digests
  /\ spoiled \subseteq {"switch abandoned", "gc interrupted"}

Init ==
  /\ upload = [u \in Uploads |-> NoDigest]
  /\ staging = {}
  /\ quarantine = {}
  /\ final = {}
  /\ lastMove = NoMove
  /\ artifacts = [d \in Digests |-> "absent"]
  /\ registry = [v \in Versions |-> NoDigest]
  /\ installed = {}
  /\ bound = [i \in Installations |-> [v \in Versions |-> Unbound]]
  /\ active = [i \in Installations |-> NoBinding]
  /\ markers = [m \in MarkerIds |-> NoMarker]
  /\ lastMarker = 0
  /\ at = "idle"
  /\ subject = NoBinding
  /\ client = NoInstallation
  /\ retired = NoVersion
  /\ todo = {}
  /\ spoiled = {}

Only(d) == [version |-> NoVersion, digest |-> d]
GoTo(point, release) == at' = point /\ subject' = release
Done == GoTo("idle", NoBinding)

-----------------------------------------------------------------------------
(* Uploads: staging, then quarantine. *)

StageBytes(u, d) ==
  /\ at = "idle"
  /\ upload[u] = NoDigest
  /\ upload' = [upload EXCEPT ![u] = d]
  /\ staging' = staging \cup {u}
  /\ UNCHANGED <<files, tables, at, subject, switching, todo, spoiled>>

EndUpload(u) ==
  /\ upload' = [upload EXCEPT ![u] = NoDigest]
  /\ staging' = staging \ {u}

\* The digest has a row already, or the staging file is gone (gc empties
\* staging), or the request is cancelled or over budget.
UploadEndsEarly(u) ==
  /\ at = "idle"
  /\ upload[u] # NoDigest
  /\ EndUpload(u)
  /\ UNCHANGED <<files, tables, at, subject, switching, todo, spoiled>>

\* The rename; a file of that digest already in quarantine is kept instead.
RecordQuarantine(u) ==
  LET d == upload[u] IN
  /\ at = "idle"
  /\ d # NoDigest
  /\ u \in staging
  /\ artifacts[d] = "absent"
  /\ EndUpload(u)
  /\ quarantine' = quarantine \cup {d}
  /\ lastMove' = IF d \in quarantine THEN lastMove ELSE [digest |-> d, from |-> "staging"]
  /\ GoTo("quarantining", Only(d))
  /\ UNCHANGED <<final, tables, switching, todo, spoiled>>

InsertQuarantineRow ==
  /\ at = "quarantining"
  /\ artifacts' = [artifacts EXCEPT ![subject.digest] = "quarantine"]
  /\ Done
  /\ UNCHANGED <<uploads, files, registry, installed, bound, active, markers,
                 lastMarker, switching, todo, spoiled>>

\* Cancelled, or the clock fails, after the rename: the file stays, without a
\* row.  A failed transaction tries to move it back to staging.
QuarantineFails ==
  /\ at = "quarantining"
  /\ \/ UNCHANGED files
     \/ quarantine' = quarantine \ {subject.digest} /\ lastMove' = NoMove /\ UNCHANGED final
  /\ Done
  /\ UNCHANGED <<uploads, tables, switching, todo, spoiled>>

-----------------------------------------------------------------------------
(* Commit of a candidate: quarantine to final, and registration. *)

\* Mutant: the upsert alone decides.
MayAlwaysRegister(v, d) == TRUE

MayRegister(v, d) == registry[v] \in {NoDigest, d}

\* A file of the digest already in final is kept and the source dropped.
Promote(d) ==
  /\ d \in quarantine
  /\ quarantine' = quarantine \ {d}
  /\ final' = final \cup {d}
  /\ lastMove' = IF d \in final THEN lastMove ELSE [digest |-> d, from |-> "quarantine"]

CommitCandidate(d, v) ==
  /\ at = "idle"
  /\ artifacts[d] = "quarantine"
  /\ MayRegister(v, d)
  /\ Promote(d)
  /\ GoTo("committing", [version |-> v, digest |-> d])
  /\ UNCHANGED <<uploads, tables, switching, todo, spoiled>>

RegisterCandidate ==
  /\ at = "committing"
  /\ registry' = [registry EXCEPT ![subject.version] = subject.digest]
  /\ artifacts' = [artifacts EXCEPT ![subject.digest] = "candidate"]
  /\ Done
  /\ UNCHANGED <<uploads, files, installed, bound, active, markers, lastMarker,
                 switching, todo, spoiled>>

\* Cancelled, or the clock fails, after the rename: the file stays in final
\* under a quarantine row.  A failed transaction tries to move it back.
CommitFails ==
  /\ at = "committing"
  /\ \/ UNCHANGED files
     \/ /\ final' = final \ {subject.digest}
        /\ quarantine' = quarantine \cup {subject.digest}
        /\ lastMove' = [digest |-> subject.digest, from |-> "final"]
  /\ Done
  /\ UNCHANGED <<uploads, tables, switching, todo, spoiled>>

-----------------------------------------------------------------------------
(* Installations. *)

CreateInstallation(i) ==
  /\ at = "idle"
  /\ i \notin installed
  /\ \E v \in Versions : registry[v] # NoDigest
  /\ installed' = installed \cup {i}
  /\ UNCHANGED <<uploads, files, artifacts, registry, bound, active, markers,
                 lastMarker, at, subject, switching, todo, spoiled>>

BindVersion(i, v) ==
  /\ at = "idle"
  /\ i \in installed
  /\ registry[v] # NoDigest
  /\ bound[i][v] = Unbound
  /\ bound' = [bound EXCEPT ![i][v] = [digest |-> registry[v], state |-> "candidate"]]
  /\ UNCHANGED <<uploads, files, artifacts, registry, installed, active, markers,
                 lastMarker, at, subject, switching, todo, spoiled>>

\* The artifact and its registration stay.
RemoveInstallation(i) ==
  /\ at = "idle"
  /\ i \in installed
  /\ installed' = installed \ {i}
  /\ bound' = [bound EXCEPT ![i] = [v \in Versions |-> Unbound]]
  /\ active' = [active EXCEPT ![i] = NoBinding]
  /\ markers' = [m \in MarkerIds |-> IF markers[m] # NoMarker /\ markers[m].inst = i
                                     THEN NoMarker ELSE markers[m]]
  /\ UNCHANGED <<uploads, files, artifacts, registry, lastMarker, at, subject,
                 switching, todo, spoiled>>

-----------------------------------------------------------------------------
(* The switch of the active release: a prepared marker in one transaction, *)
(* the binding and the committed marker in the next.                       *)

MayActivate(i, v) ==
  /\ i \in installed
  /\ bound[i][v] # Unbound
  /\ bound[i][v].state # "rolled_back"
  /\ artifacts[bound[i][v].digest] \in Committed
  /\ active[i] # [version |-> v, digest |-> bound[i][v].digest]

Prepare(i, v, leaving) ==
  LET to == [version |-> v, digest |-> bound[i][v].digest] IN
  /\ MayActivate(i, v)
  /\ lastMarker < MaxMarkers
  /\ lastMarker' = lastMarker + 1
  /\ markers' = [markers EXCEPT ![lastMarker'] =
                   [inst |-> i, from |-> active[i], to |-> to, phase |-> "prepared"]]
  /\ GoTo("prepared", to)
  /\ client' = i
  /\ retired' = leaving
  /\ UNCHANGED <<uploads, files, artifacts, registry, installed, bound, active, todo, spoiled>>

SwitchActiveVersion(i, v) == at = "idle" /\ Prepare(i, v, NoVersion)

EndSwitch == client' = NoInstallation /\ retired' = NoVersion

CommitSwitch ==
  /\ at = "prepared"
  /\ active' = [active EXCEPT ![client] = subject]
  /\ bound' = [bound EXCEPT ![client][subject.version].state = "installed"]
  /\ artifacts' = [artifacts EXCEPT ![subject.digest] = "installed"]
  /\ markers' = [markers EXCEPT ![lastMarker].phase = "committed"]
  /\ IF retired = NoVersion THEN Done /\ EndSwitch
                            ELSE GoTo("marking", subject) /\ UNCHANGED switching
  /\ UNCHANGED <<uploads, files, registry, installed, lastMarker, todo, spoiled>>

CancelSwitchOnly ==
  /\ at = "prepared"
  /\ Done
  /\ EndSwitch
  /\ UNCHANGED <<uploads, files, tables, todo, spoiled>>

\* Cancelled inside the second transaction: it rolls back and the marker is
\* closed in a third.
CancelSwitch ==
  /\ at = "prepared"
  /\ GoTo("finalizing", subject)
  /\ UNCHANGED <<uploads, files, tables, switching, todo, spoiled>>

FinalizeMarker ==
  /\ at = "finalizing"
  /\ markers' = [markers EXCEPT ![lastMarker].phase = "rolled_back"]
  /\ Done
  /\ EndSwitch
  /\ UNCHANGED <<uploads, files, artifacts, registry, installed, bound, active,
                 lastMarker, todo, spoiled>>

\* Cancelled between the transactions, or the second fails for another reason,
\* or the third fails: the marker stays prepared.
AbandonSwitch ==
  /\ at \in {"prepared", "finalizing"}
  /\ spoiled' = spoiled \cup {"switch abandoned"}
  /\ Done
  /\ EndSwitch
  /\ UNCHANGED <<uploads, files, tables, todo>>

\* Versions are compared as text: "10.0.0" sorts before "2.0.0".
TextRank(v) == IF v < 10 THEN 11 * v ELSE 11 * (v \div 10) + (v % 10) + 1

Earlier(i) == {v \in Versions : /\ bound[i][v].state = "installed"
                                /\ TextRank(v) < TextRank(active[i].version)}

RollbackVersion(i) ==
  /\ at = "idle"
  /\ active[i] # NoBinding
  /\ \E v \in Earlier(i) :
        /\ \A w \in Earlier(i) : TextRank(w) <= TextRank(v)
        /\ Prepare(i, v, active[i].version)

MarkRolledBack ==
  /\ at = "marking"
  /\ bound' = [bound EXCEPT ![client][retired].state = "rolled_back"]
  /\ Done
  /\ EndSwitch
  /\ UNCHANGED <<uploads, files, artifacts, registry, installed, active, markers,
                 lastMarker, todo, spoiled>>

MarkFails ==
  /\ at = "marking"
  /\ Done
  /\ EndSwitch
  /\ UNCHANGED <<uploads, files, tables, todo, spoiled>>

-----------------------------------------------------------------------------
(* gc: staging files, quarantine files, quarantine rows, final files. *)

Gc ==
  /\ at = "idle"
  /\ staging' = {}
  /\ at' = "gc files"
  /\ todo' = quarantine
  /\ UNCHANGED <<upload, files, tables, subject, switching, spoiled>>

\* Whether a row is old enough is not modelled: it may be.
GcFile(d) ==
  /\ at = "gc files"
  /\ d \in todo
  /\ todo' = todo \ {d}
  /\ \/ artifacts[d] # "absent" /\ UNCHANGED <<quarantine, at, subject>>
     \/ /\ artifacts[d] = "absent"
        /\ quarantine' = quarantine \ {d}
        /\ UNCHANGED <<at, subject>>
     \/ /\ artifacts[d] = "quarantine"
        /\ quarantine' = quarantine \ {d}
        /\ GoTo("gc aged row", Only(d))
  /\ UNCHANGED <<uploads, final, lastMove, tables, switching, spoiled>>

GcAgedRow ==
  /\ at = "gc aged row"
  /\ artifacts' = [artifacts EXCEPT ![subject.digest] = "absent"]
  /\ GoTo("gc files", NoBinding)
  /\ UNCHANGED <<uploads, files, registry, installed, bound, active, markers,
                 lastMarker, switching, todo, spoiled>>

GcFilesDone ==
  /\ at = "gc files"
  /\ todo = {}
  /\ at' = "gc rows"
  /\ todo' = {d \in Digests : artifacts[d] = "quarantine"}
  /\ UNCHANGED <<uploads, files, tables, subject, switching, spoiled>>

GcRow(d) ==
  /\ at = "gc rows"
  /\ d \in todo
  /\ todo' = todo \ {d}
  /\ artifacts' = IF d \in quarantine THEN artifacts
                  ELSE [artifacts EXCEPT ![d] = "absent"]
  /\ UNCHANGED <<uploads, files, registry, installed, bound, active, markers,
                 lastMarker, at, subject, switching, spoiled>>

GcRowsDone ==
  /\ at = "gc rows"
  /\ todo = {}
  /\ at' = "gc finals"
  /\ todo' = final
  /\ UNCHANGED <<uploads, files, tables, subject, switching, spoiled>>

GcFinalCandidates(d) ==
  /\ at = "gc finals"
  /\ d \in todo
  /\ todo' = todo \ {d}
  /\ final' = IF artifacts[d] = "installed" THEN final ELSE final \ {d}
  /\ UNCHANGED <<uploads, quarantine, lastMove, tables, at, subject, switching, spoiled>>

GcFinal(d) ==
  /\ at = "gc finals"
  /\ d \in todo
  /\ todo' = todo \ {d}
  /\ final' = IF artifacts[d] = "absent" THEN final \ {d} ELSE final
  /\ UNCHANGED <<uploads, quarantine, lastMove, tables, at, subject, switching, spoiled>>

GcFinalsDone ==
  /\ at = "gc finals"
  /\ todo = {}
  /\ at' = "idle"
  /\ UNCHANGED <<uploads, files, tables, subject, switching, todo, spoiled>>

-----------------------------------------------------------------------------
(* The process stops and opens its storage again. *)

Orphans == {d \in final : artifacts[d] = "absent"}

UndoLastMove ==
  LET d == lastMove.digest IN
  \/ /\ lastMove # NoMove /\ lastMove.from = "staging" /\ d \in quarantine
     /\ quarantine' = quarantine \ {d}
     /\ UNCHANGED final
  \/ /\ lastMove # NoMove /\ lastMove.from = "quarantine" /\ d \in final
     /\ final' = final \ {d}
     /\ quarantine' = quarantine \cup {d}
  \/ /\ lastMove # NoMove /\ lastMove.from = "final" /\ d \in quarantine
     /\ quarantine' = quarantine \ {d}
     /\ final' = final \cup {d}

\* Recovery empties staging first.
Restart ==
  /\ \/ UndoLastMove
     \/ UNCHANGED <<quarantine, final>>
  /\ lastMove' = NoMove
  /\ upload' = [u \in Uploads |-> NoDigest]
  /\ staging' = {}
  /\ GoTo("markers", NoBinding)
  /\ EndSwitch
  /\ todo' = {}
  /\ spoiled' = IF Orphans # {} THEN spoiled \cup {"gc interrupted"} ELSE spoiled
  /\ UNCHANGED tables

Prepared == {m \in MarkerIds : markers[m].phase = "prepared"}

RecoverMarkerForward(m) ==
  /\ at = "markers"
  /\ m \in Prepared
  /\ markers' = [markers EXCEPT ![m].phase = "committed"]
  /\ UNCHANGED <<uploads, files, artifacts, registry, installed, bound, active,
                 lastMarker, at, subject, switching, todo, spoiled>>

RecoverMarker(m) ==
  /\ at = "markers"
  /\ m \in Prepared
  /\ IF active[markers[m].inst] = markers[m].from
     THEN markers' = [markers EXCEPT ![m].phase = "rolled_back"] /\ UNCHANGED at
     ELSE at' = "refused" /\ UNCHANGED markers
  /\ UNCHANGED <<uploads, files, artifacts, registry, installed, bound, active,
                 lastMarker, subject, switching, todo, spoiled>>

MarkersRecoveredCommittedOnly ==
  /\ at = "markers"
  /\ Prepared = {}
  /\ at' = "files"
  /\ todo' = {d \in Digests : artifacts[d] \in Committed}
  /\ UNCHANGED <<uploads, files, tables, subject, switching, spoiled>>

MarkersRecovered ==
  /\ at = "markers"
  /\ Prepared = {}
  /\ at' = "files"
  /\ todo' = {d \in Digests : artifacts[d] # "absent"}
  /\ UNCHANGED <<uploads, files, tables, subject, switching, spoiled>>

\* The bytes are in both spaces, or a committed digest has none.
Undecidable(d) == IF d \in quarantine THEN d \in final
                  ELSE d \notin final /\ artifacts[d] \in Committed

RecoverFile(d) ==
  /\ at = "files"
  /\ d \in todo
  /\ todo' = todo \ {d}
  /\ \/ /\ Undecidable(d)
        /\ at' = "refused"
        /\ UNCHANGED <<files, artifacts>>
     \/ /\ d \notin quarantine /\ d \notin final /\ artifacts[d] = "quarantine"
        /\ artifacts' = [artifacts EXCEPT ![d] = "absent"]
        /\ UNCHANGED <<files, at>>
     \/ /\ d \in quarantine /\ d \notin final /\ artifacts[d] = "quarantine"
        /\ UNCHANGED <<files, artifacts, at>>
     \/ /\ d \notin quarantine /\ d \in final /\ artifacts[d] = "quarantine"
        /\ final' = final \ {d}
        /\ quarantine' = quarantine \cup {d}
        /\ lastMove' = [digest |-> d, from |-> "final"]
        /\ UNCHANGED <<artifacts, at>>
     \/ /\ d \in quarantine /\ d \notin final /\ artifacts[d] \in Committed
        /\ Promote(d)
        /\ UNCHANGED <<artifacts, at>>
     \/ /\ d \notin quarantine /\ d \in final /\ artifacts[d] \in Committed
        /\ UNCHANGED <<files, artifacts, at>>
  /\ UNCHANGED <<uploads, registry, installed, bound, active, markers, lastMarker,
                 subject, switching, spoiled>>

FilesRecovered ==
  /\ at = "files"
  /\ todo = {}
  /\ at' = "idle"
  /\ UNCHANGED <<uploads, files, tables, subject, switching, todo, spoiled>>

-----------------------------------------------------------------------------

Uploading ==
  \/ \E u \in Uploads : \/ \E d \in Digests : StageBytes(u, d)
                        \/ UploadEndsEarly(u)
                        \/ RecordQuarantine(u)
  \/ InsertQuarantineRow
  \/ QuarantineFails

Committing ==
  \/ \E d \in Digests, v \in Versions : CommitCandidate(d, v)
  \/ RegisterCandidate
  \/ CommitFails

Installing ==
  \E i \in Installations : \/ CreateInstallation(i)
                           \/ RemoveInstallation(i)
                           \/ \E v \in Versions : BindVersion(i, v)

Switching ==
  \/ \E i \in Installations : \/ \E v \in Versions : SwitchActiveVersion(i, v)
                              \/ RollbackVersion(i)
  \/ CommitSwitch
  \/ CancelSwitch
  \/ FinalizeMarker
  \/ AbandonSwitch
  \/ MarkRolledBack
  \/ MarkFails

Collecting ==
  \/ Gc
  \/ \E d \in Digests : GcFile(d) \/ GcRow(d) \/ GcFinal(d)
  \/ GcAgedRow
  \/ GcFilesDone
  \/ GcRowsDone
  \/ GcFinalsDone

Opening ==
  \/ Restart
  \/ \E m \in MarkerIds : RecoverMarker(m)
  \/ MarkersRecovered
  \/ \E d \in Digests : RecoverFile(d)
  \/ FilesRecovered

Next == Uploading \/ Committing \/ Installing \/ Switching \/ Collecting \/ Opening

Spec == Init /\ [][Next]_vars

-----------------------------------------------------------------------------
(* Properties. *)

\* Wherever the worker stops and whatever gc and recovery then do, the bytes
\* of every digest whose row was committed as candidate or installed exist in
\* one of the two spaces (artifact.rs "the database transaction is the commit
\* point, the file's place is derived"; gc only takes quarantine rows and
\* files without a row).
CommittedBytesSurvive ==
  \A d \in Digests : artifacts[d] \in Committed => d \in quarantine \cup final

\* Recovery always finds a decision, after any crash, cancellation or power
\* loss, unless a switch left its marker prepared in a process that went on,
\* or a crash left a file in final whose row gc had removed.
RecoveryDecides == at = "refused" => spoiled # {}

\* The active release of an installation is the target of the last switch
\* whose marker is committed: binding and marker never part, in any crash,
\* cancelled switch or recovery (repository.rs switch_active_version).
LastCommitted(i) ==
  LET done == {m \in MarkerIds : markers[m].phase = "committed" /\ markers[m].inst = i}
  IN  IF done = {} THEN NoBinding ELSE markers[Max(done)].to

ActiveIsLastCommitted == \A i \in Installations : active[i] = LastCommitted(i)

\* Whenever the worker takes commands, each active release can be run and is
\* the one that was registered: its bytes are in final, its artifact and its
\* bound version are installed, and the registry names the same digest.
ActiveIsServable ==
  at = "idle" =>
    \A i \in Installations : active[i] # NoBinding =>
      LET v == active[i].version
          d == active[i].digest
      IN  /\ d \in final
          /\ artifacts[d] = "installed"
          /\ bound[i][v] = [digest |-> d, state |-> "installed"]
          /\ registry[v] = d

\* A version, once registered, keeps its digest for ever: through gc, crashes,
\* recovery and a second upload of other bytes (commit_candidate's conflict
\* check, for an upsert that would overwrite).
RegistryNeverRebinds ==
  [][\A v \in Versions : registry[v] # NoDigest => registry'[v] = registry[v]]_vars

\* When recovery has finished, every file is where its row says.
RecoveryReconciles ==
  [][at = "files" /\ at' = "idle" =>
       \A d \in Digests :
         /\ artifacts[d] = "quarantine" => d \in quarantine /\ d \notin final
         /\ artifacts[d] \in Committed => d \notin quarantine /\ d \in final]_vars

=============================================================================

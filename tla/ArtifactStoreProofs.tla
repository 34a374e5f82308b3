------------------------ MODULE ArtifactStoreProofs -------------------------
(***************************************************************************)
(* What holds of ArtifactStore for every number of digests, versions,      *)
(* installations, uploads and markers.                                     *)
(*                                                                         *)
(* TypeInv is ArtifactTypeOK and WellFormed, what a command under way has  *)
(* established: without it the primed tables are not well typed.  Then the *)
(* bytes, the markers, the tables, and the decisions of recovery.          *)
(***************************************************************************)
EXTENDS ArtifactStore, TLAPS

SwitchPoints == {"prepared", "finalizing"}

\* A switch under way has the last marker, which is prepared and its own.
SwitchHasMarker ==
  at \in SwitchPoints =>
    /\ client \in Installations
    /\ subject \in Binding
    /\ lastMarker \in MarkerIds
    /\ markers[lastMarker] \in Markers
    /\ markers[lastMarker].inst = client
    /\ markers[lastMarker].to = subject
    /\ markers[lastMarker].phase = "prepared"

\* Its target is bound, and so is the version a rollback leaves.
SwitchIsBound ==
  /\ at \in SwitchPoints => bound[client][subject.version] \in Bound
  /\ at \in SwitchPoints /\ retired # NoVersion => bound[client][retired] \in Bound
  /\ at = "marking" => /\ client \in Installations
                       /\ retired \in Versions
                       /\ bound[client][retired] \in Bound

\* What is active is bound.
ActiveIsBound ==
  \A i \in Installations : active[i] # NoBinding =>
     active[i] \in Binding /\ bound[i][active[i].version] \in Bound

WellFormed == SwitchHasMarker /\ SwitchIsBound /\ ActiveIsBound

\* A commit under way knows the version and the digest it registers.
CommitHasRelease == at = "committing" => subject \in Binding

TypeInv == ArtifactTypeOK /\ WellFormed /\ CommitHasRelease

-----------------------------------------------------------------------------
(* Steps that leave the tables of the switch alone. *)

NoSwitchStep ==
  /\ UNCHANGED <<bound, active, markers, lastMarker>>
  /\ at' \notin SwitchPoints \cup {"marking"}

LEMMA OtherStepsAreNoSwitchSteps ==
  Uploading \/ Committing \/ Collecting
    \/ (\E i \in Installations : CreateInstallation(i))
    \/ AbandonSwitch \/ MarkFails
    \/ Restart \/ MarkersRecovered \/ (\E d \in Digests : RecoverFile(d)) \/ FilesRecovered
  => NoSwitchStep
<1> USE DEF NoSwitchStep, SwitchPoints, GoTo, Done, files, tables, uploads, switching
<1>1. Uploading => NoSwitchStep
  BY DEF Uploading, StageBytes, UploadEndsEarly, RecordQuarantine, InsertQuarantineRow,
         QuarantineFails
<1>2. Committing => NoSwitchStep
  BY DEF Committing, CommitCandidate, RegisterCandidate, CommitFails
<1>3. Collecting => NoSwitchStep
  BY DEF Collecting, Gc, GcFile, GcAgedRow, GcFilesDone, GcRow, GcRowsDone, GcFinal, GcFinalsDone
<1>4. (\E i \in Installations : CreateInstallation(i)) => NoSwitchStep
  BY DEF CreateInstallation
<1>5. AbandonSwitch \/ MarkFails => NoSwitchStep
  BY DEF AbandonSwitch, MarkFails
<1>6. Restart \/ MarkersRecovered \/ FilesRecovered => NoSwitchStep
  BY DEF Restart, MarkersRecovered, FilesRecovered
<1>7. (\E d \in Digests : RecoverFile(d)) => NoSwitchStep
  BY DEF RecoverFile
<1> QED
  BY <1>1, <1>2, <1>3, <1>4, <1>5, <1>6, <1>7

LEMMA NoSwitchStepKeepsWellFormed ==
  ASSUME WellFormed, NoSwitchStep PROVE WellFormed'
<1>1. SwitchHasMarker'
  BY DEF SwitchHasMarker, NoSwitchStep
<1>2. SwitchIsBound'
  BY DEF SwitchIsBound, NoSwitchStep
<1>3. ActiveIsBound'
  BY DEF ActiveIsBound, WellFormed, NoSwitchStep
<1> QED
  BY <1>1, <1>2, <1>3 DEF WellFormed

-----------------------------------------------------------------------------
(* Steps that bind, unbind, switch and close markers. *)

LEMMA BoundIsNotUnbound == \A b : b \in Bound => b # Unbound /\ b \in [digest : Digests, state : BoundStates]
BY NoDigestAssumption DEF Bound, Unbound

LEMMA NoBindingIsNoBinding == NoBinding \notin Binding
BY NoDigestAssumption DEF Binding, NoBinding

LEMMA BindVersionKeepsWellFormed ==
  ASSUME TypeInv, NEW i \in Installations, NEW v \in Versions, BindVersion(i, v)
  PROVE  WellFormed'
<1>1. bound \in [Installations -> [Versions -> Bound \cup {Unbound}]] /\ registry[v] \in Digests
  BY DEF TypeInv, ArtifactTypeOK, BindVersion
<1>2. [digest |-> registry[v], state |-> "candidate"] \in Bound
  BY <1>1 DEF Bound, BoundStates
<1>3. \A j \in Installations, w \in Versions : bound[j][w] \in Bound => bound'[j][w] \in Bound
  BY <1>1, <1>2 DEF BindVersion
<1>4. at' = "idle" /\ UNCHANGED <<active, markers, lastMarker>>
  BY DEF BindVersion
<1>5. SwitchHasMarker' /\ SwitchIsBound'
  BY <1>4 DEF SwitchHasMarker, SwitchIsBound, SwitchPoints
<1>6. ActiveIsBound'
  BY <1>3, <1>4 DEF ActiveIsBound, TypeInv, WellFormed, Binding
<1> QED
  BY <1>5, <1>6 DEF WellFormed

LEMMA RemoveInstallationKeepsWellFormed ==
  ASSUME TypeInv, NEW i \in Installations, RemoveInstallation(i)
  PROVE  WellFormed'
<1>1. at' = "idle"
  BY DEF RemoveInstallation
<1>2. SwitchHasMarker' /\ SwitchIsBound'
  BY <1>1 DEF SwitchHasMarker, SwitchIsBound, SwitchPoints
<1>3. ASSUME NEW j \in Installations, active'[j] # NoBinding
      PROVE  active'[j] \in Binding /\ bound'[j][active'[j].version] \in Bound
  <2>1. bound \in [Installations -> [Versions -> Bound \cup {Unbound}]]
        /\ active \in [Installations -> Binding \cup {NoBinding}]
    BY DEF TypeInv, ArtifactTypeOK
  <2>2. j # i
    BY <1>3, <2>1 DEF RemoveInstallation
  <2>3. active'[j] = active[j] /\ bound'[j] = bound[j]
    BY <2>1, <2>2 DEF RemoveInstallation
  <2> QED
    BY <1>3, <2>3 DEF TypeInv, WellFormed, ActiveIsBound
<1>4. ActiveIsBound'
  BY <1>3 DEF ActiveIsBound
<1> QED
  BY <1>2, <1>4 DEF WellFormed

\* What a prepared switch has established.
LEMMA PrepareKeepsWellFormed ==
  ASSUME TypeInv, NEW i \in Installations, NEW v \in Versions,
         NEW leaving \in Versions \cup {NoVersion}, Prepare(i, v, leaving),
         leaving # NoVersion => bound[i][leaving] \in Bound
  PROVE  /\ WellFormed'
         /\ subject' \in Binding
         /\ lastMarker' \in MarkerIds
         /\ markers'[lastMarker'] \in Markers
<1> DEFINE to == [version |-> v, digest |-> bound[i][v].digest]
           marker == [inst |-> i, from |-> active[i], to |-> to, phase |-> "prepared"]
<1>1. /\ bound \in [Installations -> [Versions -> Bound \cup {Unbound}]]
      /\ active \in [Installations -> Binding \cup {NoBinding}]
      /\ markers \in [MarkerIds -> Markers \cup {NoMarker}]
      /\ lastMarker \in 0..MaxMarkers
  BY DEF TypeInv, ArtifactTypeOK
<1>2. bound[i][v] \in Bound
  BY <1>1 DEF Prepare, MayActivate
<1>3. to \in Binding
  BY <1>2 DEF Bound, Binding
<1>4. marker \in Markers
  BY <1>1, <1>3 DEF Markers, Phases
<1>5. lastMarker' \in MarkerIds
  BY <1>1, MaxMarkersAssumption DEF Prepare, MarkerIds
<1>6. /\ markers' = [markers EXCEPT ![lastMarker'] = marker]
      /\ at' = "prepared" /\ subject' = to /\ client' = i /\ retired' = leaving
      /\ UNCHANGED <<bound, active>>
  BY DEF Prepare, GoTo
<1> HIDE DEF marker, to
<1>7. markers'[lastMarker'] = marker
  BY <1>1, <1>5, <1>6
<1>8. marker.inst = i /\ marker.to = to /\ marker.phase = "prepared" /\ to.version = v
  BY DEF marker, to
<1>9. SwitchHasMarker'
  BY <1>3, <1>4, <1>5, <1>6, <1>7, <1>8 DEF SwitchHasMarker
<1>10. SwitchIsBound'
  BY <1>2, <1>6, <1>8 DEF SwitchIsBound, SwitchPoints
<1>11. ActiveIsBound'
  BY <1>6 DEF ActiveIsBound, TypeInv, WellFormed
<1> QED
  BY <1>3, <1>4, <1>5, <1>6, <1>7, <1>9, <1>10, <1>11 DEF WellFormed

\* An installed version among the bound ones, and what a rollback leaves.
LEMMA SwitchesArePrepared ==
  ASSUME TypeInv, NEW i \in Installations,
         (\E v \in Versions : SwitchActiveVersion(i, v)) \/ RollbackVersion(i)
  PROVE  \E v \in Versions, leaving \in Versions \cup {NoVersion} :
           Prepare(i, v, leaving) /\ (leaving # NoVersion => bound[i][leaving] \in Bound)
<1>1. CASE \E v \in Versions : SwitchActiveVersion(i, v)
  BY <1>1 DEF SwitchActiveVersion
<1>2. CASE RollbackVersion(i)
  <2>1. active[i] \in Binding /\ bound[i][active[i].version] \in Bound
    BY <1>2 DEF RollbackVersion, TypeInv, WellFormed, ActiveIsBound
  <2>2. active[i].version \in Versions
    BY <2>1 DEF Binding
  <2>3. PICK v \in Earlier(i) : Prepare(i, v, active[i].version)
    BY <1>2 DEF RollbackVersion
  <2>4. v \in Versions
    BY DEF Earlier
  <2> QED
    BY <2>1, <2>2, <2>3, <2>4
<1> QED
  BY <1>1, <1>2

LEMMA CommitSwitchKeepsWellFormed ==
  ASSUME TypeInv, CommitSwitch PROVE WellFormed'
<1>1. /\ bound \in [Installations -> [Versions -> Bound \cup {Unbound}]]
      /\ active \in [Installations -> Binding \cup {NoBinding}]
      /\ retired \in Versions \cup {NoVersion}
  BY DEF TypeInv, ArtifactTypeOK
<1>2. /\ client \in Installations
      /\ subject \in Binding
      /\ bound[client][subject.version] \in Bound
      /\ retired # NoVersion => bound[client][retired] \in Bound
  BY DEF TypeInv, WellFormed, SwitchHasMarker, SwitchIsBound, SwitchPoints, CommitSwitch
<1>3. subject.version \in Versions
  BY <1>2 DEF Binding
<1>4. [bound[client][subject.version] EXCEPT !.state = "installed"] \in Bound
  BY <1>2 DEF Bound, BoundStates
<1>5. bound' = [bound EXCEPT ![client][subject.version].state = "installed"]
  BY DEF CommitSwitch
<1>6. \A j \in Installations, w \in Versions : bound[j][w] \in Bound => bound'[j][w] \in Bound
  BY <1>1, <1>2, <1>3, <1>4, <1>5
<1>7. active' = [active EXCEPT ![client] = subject]
  BY DEF CommitSwitch
<1>8. ASSUME NEW j \in Installations, active'[j] # NoBinding
      PROVE  active'[j] \in Binding /\ bound'[j][active'[j].version] \in Bound
  <2>1. CASE j = client
    BY <2>1, <1>1, <1>2, <1>3, <1>6, <1>7
  <2>2. CASE j # client
    <3>1. active'[j] = active[j]
      BY <2>2, <1>1, <1>7
    <3>2. active[j] \in Binding /\ bound[j][active[j].version] \in Bound
      BY <3>1, <1>8 DEF TypeInv, WellFormed, ActiveIsBound
    <3>3. active[j].version \in Versions
      BY <3>2 DEF Binding
    <3> QED
      BY <3>1, <3>2, <3>3, <1>6
  <2> QED
    BY <2>1, <2>2
<1>9. SwitchIsBound'
  <2>1. CASE retired = NoVersion
    <3>1. at' = "idle"
      BY <2>1 DEF CommitSwitch, Done, GoTo
    <3> QED
      BY <3>1 DEF SwitchIsBound, SwitchPoints
  <2>2. CASE retired # NoVersion
    <3>1. at' = "marking" /\ client' = client /\ retired' = retired
      BY <2>2 DEF CommitSwitch, GoTo, switching
    <3>2. bound'[client][retired] \in Bound /\ retired \in Versions
      BY <2>2, <1>1, <1>2, <1>6
    <3> QED
      BY <3>1, <3>2, <1>2 DEF SwitchIsBound, SwitchPoints
  <2> QED
    BY <2>1, <2>2
<1>10. SwitchHasMarker'
  BY DEF SwitchHasMarker, SwitchPoints, CommitSwitch, Done, GoTo
<1> QED
  BY <1>8, <1>9, <1>10 DEF WellFormed, ActiveIsBound

LEMMA CancelSwitchKeepsWellFormed ==
  ASSUME TypeInv, CancelSwitch PROVE WellFormed'
<1>1. at \in SwitchPoints /\ at' = "finalizing" /\ UNCHANGED <<subject, switching, tables>>
  BY DEF CancelSwitch, GoTo, SwitchPoints
<1>2. SwitchHasMarker'
  BY <1>1 DEF TypeInv, WellFormed, SwitchHasMarker, switching, tables
<1>3. SwitchIsBound'
  BY <1>1 DEF TypeInv, WellFormed, SwitchIsBound, SwitchPoints, switching, tables
<1>4. ActiveIsBound'
  BY <1>1 DEF TypeInv, WellFormed, ActiveIsBound, tables
<1> QED
  BY <1>2, <1>3, <1>4 DEF WellFormed

LEMMA ClosingAMarkerKeepsWellFormed ==
  ASSUME TypeInv, FinalizeMarker \/ \E m \in MarkerIds : RecoverMarker(m) PROVE WellFormed'
<1>1. at' \notin SwitchPoints \cup {"marking"} /\ UNCHANGED <<bound, active>>
  BY DEF FinalizeMarker, RecoverMarker, Done, GoTo, SwitchPoints
<1>2. SwitchHasMarker' /\ SwitchIsBound'
  BY <1>1 DEF SwitchHasMarker, SwitchIsBound
<1>3. ActiveIsBound'
  BY <1>1 DEF TypeInv, WellFormed, ActiveIsBound
<1> QED
  BY <1>2, <1>3 DEF WellFormed

LEMMA MarkRolledBackKeepsWellFormed ==
  ASSUME TypeInv, MarkRolledBack PROVE WellFormed'
<1>1. /\ bound \in [Installations -> [Versions -> Bound \cup {Unbound}]]
      /\ client \in Installations /\ retired \in Versions /\ bound[client][retired] \in Bound
  BY DEF TypeInv, ArtifactTypeOK, WellFormed, SwitchIsBound, MarkRolledBack
<1>2. [bound[client][retired] EXCEPT !.state = "rolled_back"] \in Bound
  BY <1>1 DEF Bound, BoundStates
<1>3. bound' = [bound EXCEPT ![client][retired].state = "rolled_back"]
      /\ UNCHANGED active /\ at' = "idle"
  BY DEF MarkRolledBack, Done, GoTo
<1>4. \A j \in Installations, w \in Versions : bound[j][w] \in Bound => bound'[j][w] \in Bound
  BY <1>1, <1>2, <1>3
<1>5. ActiveIsBound'
  BY <1>3, <1>4 DEF TypeInv, WellFormed, ActiveIsBound, Binding
<1>6. SwitchHasMarker' /\ SwitchIsBound'
  BY <1>3 DEF SwitchHasMarker, SwitchIsBound, SwitchPoints
<1> QED
  BY <1>5, <1>6 DEF WellFormed

-----------------------------------------------------------------------------
(* The tables and the worker stay well typed. *)

LEMMA ReleaseTypes ==
  /\ NoBinding \in Release
  /\ \A d \in Digests : Only(d) \in Release
  /\ \A b \in Binding : b \in Release
  /\ \A r \in Release : r.version \in Versions \cup {NoVersion} /\ r.digest \in Digests \cup {NoDigest}
BY DEF Release, NoBinding, Only, Binding

LEMMA MoveTypes ==
  \A d \in Digests : /\ [digest |-> d, from |-> "staging"] \in Move
                     /\ [digest |-> d, from |-> "quarantine"] \in Move
                     /\ [digest |-> d, from |-> "final"] \in Move
BY DEF Move

LEMMA UploadingIsTyped == ASSUME ArtifactTypeOK, Uploading PROVE ArtifactTypeOK'
<1> USE DEF ArtifactTypeOK, files, tables, uploads, switching, Points, Recovering, Committed
<1>1. ASSUME NEW u \in Uploads, NEW d \in Digests, StageBytes(u, d) PROVE ArtifactTypeOK'
  BY <1>1 DEF StageBytes
<1>2. ASSUME NEW u \in Uploads, UploadEndsEarly(u) PROVE ArtifactTypeOK'
  BY <1>2 DEF UploadEndsEarly, EndUpload
<1>3. ASSUME NEW u \in Uploads, RecordQuarantine(u) PROVE ArtifactTypeOK'
  <2>1. upload[u] \in Digests
    BY <1>3 DEF RecordQuarantine
  <2>2. quarantine' \subseteq Digests /\ lastMove' \in Move \cup {NoMove} /\ subject' \in Release
    BY <1>3, <2>1, ReleaseTypes, MoveTypes DEF RecordQuarantine, GoTo
  <2> QED
    BY <1>3, <2>2 DEF RecordQuarantine, GoTo, EndUpload
<1>4. ASSUME InsertQuarantineRow PROVE ArtifactTypeOK'
  BY <1>4, ReleaseTypes DEF InsertQuarantineRow, Done, GoTo
<1>5. ASSUME QuarantineFails PROVE ArtifactTypeOK'
  BY <1>5, ReleaseTypes DEF QuarantineFails, Done, GoTo
<1> QED
  BY <1>1, <1>2, <1>3, <1>4, <1>5 DEF Uploading

LEMMA CommittingIsTyped == ASSUME ArtifactTypeOK, CommitHasRelease, Committing PROVE ArtifactTypeOK'
<1> USE DEF ArtifactTypeOK, files, tables, uploads, switching, Points, Recovering, Committed
<1>1. ASSUME NEW d \in Digests, NEW v \in Versions, CommitCandidate(d, v) PROVE ArtifactTypeOK'
  <2>1. [version |-> v, digest |-> d] \in Release
    BY DEF Release
  <2> QED
    BY <1>1, <2>1, MoveTypes DEF CommitCandidate, Promote, GoTo
<1>2. ASSUME RegisterCandidate PROVE ArtifactTypeOK'
  BY <1>2, ReleaseTypes DEF RegisterCandidate, Done, GoTo
<1>3. ASSUME CommitFails PROVE ArtifactTypeOK'
  <2>1. subject.digest \in Digests
    BY <1>3 DEF CommitFails, CommitHasRelease, Binding
  <2> QED
    BY <1>3, <2>1, ReleaseTypes, MoveTypes DEF CommitFails, Done, GoTo
<1> QED
  BY <1>1, <1>2, <1>3 DEF Committing

LEMMA InstallingIsTyped == ASSUME ArtifactTypeOK, Installing PROVE ArtifactTypeOK'
<1> USE DEF ArtifactTypeOK, files, tables, uploads, switching
<1>1. ASSUME NEW i \in Installations, CreateInstallation(i) PROVE ArtifactTypeOK'
  BY <1>1 DEF CreateInstallation
<1>2. ASSUME NEW i \in Installations, RemoveInstallation(i) PROVE ArtifactTypeOK'
  BY <1>2 DEF RemoveInstallation
<1>3. ASSUME NEW i \in Installations, NEW v \in Versions, BindVersion(i, v) PROVE ArtifactTypeOK'
  <2>1. [digest |-> registry[v], state |-> "candidate"] \in Bound
    BY <1>3 DEF BindVersion, Bound, BoundStates
  <2>2. bound' \in [Installations -> [Versions -> Bound \cup {Unbound}]]
    BY <1>3, <2>1 DEF BindVersion
  <2> QED
    BY <1>3, <2>2 DEF BindVersion
<1> QED
  BY <1>1, <1>2, <1>3 DEF Installing

LEMMA CollectingIsTyped == ASSUME ArtifactTypeOK, Collecting PROVE ArtifactTypeOK'
<1> USE DEF ArtifactTypeOK, files, tables, uploads, switching, Points, Recovering, Committed
<1>1. ASSUME Gc \/ GcFilesDone \/ GcRowsDone \/ GcFinalsDone PROVE ArtifactTypeOK'
  BY <1>1 DEF Gc, GcFilesDone, GcRowsDone, GcFinalsDone
<1>2. ASSUME NEW d \in Digests, GcFile(d) PROVE ArtifactTypeOK'
  BY <1>2, ReleaseTypes DEF GcFile, GoTo
<1>3. ASSUME NEW d \in Digests, GcRow(d) PROVE ArtifactTypeOK'
  BY <1>3 DEF GcRow
<1>4. ASSUME NEW d \in Digests, GcFinal(d) PROVE ArtifactTypeOK'
  BY <1>4 DEF GcFinal
<1>5. ASSUME GcAgedRow PROVE ArtifactTypeOK'
  BY <1>5, ReleaseTypes DEF GcAgedRow, GoTo
<1> QED
  BY <1>1, <1>2, <1>3, <1>4, <1>5 DEF Collecting

\* Closing a marker keeps it a marker.
LEMMA ClosedMarker ==
  \A m \in Markers, phase \in Phases :
     /\ [m EXCEPT !.phase = phase] \in Markers
     /\ [m EXCEPT !.phase = phase].inst = m.inst
     /\ [m EXCEPT !.phase = phase].to = m.to
     /\ [m EXCEPT !.phase = phase].phase = phase
BY DEF Markers

LEMMA SwitchingIsTyped == ASSUME TypeInv, Switching PROVE ArtifactTypeOK'
<1> USE DEF ArtifactTypeOK, files, tables, uploads, switching, Points, Recovering, Committed
<1>1. ASSUME NEW i \in Installations, NEW v \in Versions, NEW leaving \in Versions \cup {NoVersion},
             leaving # NoVersion => bound[i][leaving] \in Bound, Prepare(i, v, leaving)
      PROVE ArtifactTypeOK'
  <2>1. subject' \in Binding /\ lastMarker' \in MarkerIds /\ markers'[lastMarker'] \in Markers
    BY <1>1, PrepareKeepsWellFormed
  <2>2. markers' \in [MarkerIds -> Markers \cup {NoMarker}]
    BY <1>1, <2>1 DEF Prepare, TypeInv
  <2>3. lastMarker' \in 0..MaxMarkers
    BY <2>1, MaxMarkersAssumption DEF MarkerIds
  <2>4. subject' \in Release
    BY <2>1, ReleaseTypes
  <2>5. /\ at' = "prepared" /\ client' = i /\ retired' = leaving
        /\ UNCHANGED <<uploads, files, artifacts, registry, installed, bound, active, todo, spoiled>>
    BY <1>1 DEF Prepare, GoTo
  <2> QED
    BY <2>2, <2>3, <2>4, <2>5 DEF TypeInv
<1>2. ASSUME CommitSwitch PROVE ArtifactTypeOK'
  <2>1. /\ client \in Installations /\ subject \in Binding /\ lastMarker \in MarkerIds
        /\ markers[lastMarker] \in Markers /\ bound[client][subject.version] \in Bound
    BY <1>2 DEF TypeInv, WellFormed, SwitchHasMarker, SwitchIsBound, SwitchPoints, CommitSwitch
  <2>2. [markers[lastMarker] EXCEPT !.phase = "committed"] \in Markers
    BY <2>1, ClosedMarker DEF Phases
  <2>3. markers' \in [MarkerIds -> Markers \cup {NoMarker}]
    BY <1>2, <2>1, <2>2 DEF CommitSwitch, TypeInv
  <2>4. [bound[client][subject.version] EXCEPT !.state = "installed"] \in Bound
    BY <2>1 DEF Bound, BoundStates
  <2>5. bound' \in [Installations -> [Versions -> Bound \cup {Unbound}]]
    BY <1>2, <2>1, <2>4 DEF CommitSwitch, TypeInv, Binding
  <2>6. active' \in [Installations -> Binding \cup {NoBinding}]
    BY <1>2, <2>1 DEF CommitSwitch, TypeInv
  <2>7. subject' \in Release /\ at' \in Points /\ client' \in Installations \cup {NoInstallation}
        /\ retired' \in Versions \cup {NoVersion}
    BY <1>2, <2>1, ReleaseTypes DEF CommitSwitch, Done, GoTo, EndSwitch, TypeInv
  <2> QED
    BY <1>2, <2>3, <2>5, <2>6, <2>7 DEF CommitSwitch, TypeInv
<1>3. ASSUME CancelSwitch PROVE ArtifactTypeOK'
  BY <1>3 DEF CancelSwitch, GoTo, TypeInv
<1>4. ASSUME FinalizeMarker PROVE ArtifactTypeOK'
  <2>1. lastMarker \in MarkerIds /\ markers[lastMarker] \in Markers
    BY <1>4 DEF TypeInv, WellFormed, SwitchHasMarker, SwitchPoints, FinalizeMarker
  <2>2. [markers[lastMarker] EXCEPT !.phase = "rolled_back"] \in Markers
    BY <2>1, ClosedMarker DEF Phases
  <2>3. markers' \in [MarkerIds -> Markers \cup {NoMarker}]
    BY <1>4, <2>1, <2>2 DEF FinalizeMarker, TypeInv
  <2> QED
    BY <1>4, <2>3, ReleaseTypes DEF FinalizeMarker, Done, GoTo, EndSwitch, TypeInv
<1>5. ASSUME AbandonSwitch \/ MarkFails PROVE ArtifactTypeOK'
  BY <1>5, ReleaseTypes DEF AbandonSwitch, MarkFails, Done, GoTo, EndSwitch, TypeInv
<1>6. ASSUME MarkRolledBack PROVE ArtifactTypeOK'
  <2>1. client \in Installations /\ retired \in Versions /\ bound[client][retired] \in Bound
    BY <1>6 DEF TypeInv, WellFormed, SwitchIsBound, MarkRolledBack
  <2>2. [bound[client][retired] EXCEPT !.state = "rolled_back"] \in Bound
    BY <2>1 DEF Bound, BoundStates
  <2>3. bound' \in [Installations -> [Versions -> Bound \cup {Unbound}]]
    BY <1>6, <2>1, <2>2 DEF MarkRolledBack, TypeInv
  <2> QED
    BY <1>6, <2>3, ReleaseTypes DEF MarkRolledBack, Done, GoTo, EndSwitch, TypeInv
<1>7. ASSUME NEW i \in Installations,
             (\E v \in Versions : SwitchActiveVersion(i, v)) \/ RollbackVersion(i)
      PROVE  ArtifactTypeOK'
  BY <1>1, <1>7, SwitchesArePrepared
<1> QED
  BY <1>2, <1>3, <1>4, <1>5, <1>6, <1>7 DEF Switching

LEMMA OpeningIsTyped == ASSUME TypeInv, Opening PROVE ArtifactTypeOK'
<1> USE DEF ArtifactTypeOK, files, tables, uploads, switching, Points, Recovering, Committed
<1>1. ASSUME Restart PROVE ArtifactTypeOK'
  <2>1. quarantine' \subseteq Digests /\ final' \subseteq Digests
    <3>1. CASE UNCHANGED <<quarantine, final>>
      BY <3>1 DEF TypeInv
    <3>2. CASE UndoLastMove
      <4>1. lastMove # NoMove
        BY <3>2 DEF UndoLastMove
      <4>2. lastMove.digest \in Digests
        BY <4>1 DEF TypeInv, Move
      <4> QED
        BY <3>2, <4>2 DEF UndoLastMove, TypeInv
    <3> QED
      BY <1>1, <3>1, <3>2 DEF Restart
  <2> QED
    BY <1>1, <2>1, ReleaseTypes DEF Restart, GoTo, EndSwitch, TypeInv
<1>2. ASSUME NEW m \in MarkerIds, RecoverMarker(m) PROVE ArtifactTypeOK'
  <2>1. markers[m] \in Markers
    <3>1. markers[m].phase = "prepared" /\ NoMarker.phase = "none"
      BY <1>2 DEF RecoverMarker, Prepared, NoMarker
    <3>2. markers[m] \in Markers \cup {NoMarker}
      BY DEF TypeInv
    <3> QED
      BY <3>1, <3>2
  <2>2. [markers[m] EXCEPT !.phase = "rolled_back"] \in Markers
    BY <2>1, ClosedMarker DEF Phases
  <2>3. markers' \in [MarkerIds -> Markers \cup {NoMarker}] /\ at' \in Points
    BY <1>2, <2>2 DEF RecoverMarker, TypeInv
  <2> QED
    BY <1>2, <2>3 DEF RecoverMarker, TypeInv
<1>3. ASSUME MarkersRecovered \/ FilesRecovered PROVE ArtifactTypeOK'
  BY <1>3 DEF MarkersRecovered, FilesRecovered, TypeInv
<1>4. ASSUME NEW d \in Digests, RecoverFile(d) PROVE ArtifactTypeOK'
  BY <1>4, MoveTypes DEF RecoverFile, Promote, TypeInv
<1> QED
  BY <1>1, <1>2, <1>3, <1>4 DEF Opening

-----------------------------------------------------------------------------
(* Together. *)

LEMMA NextIsTyped == ASSUME TypeInv, Next PROVE ArtifactTypeOK'
BY UploadingIsTyped, CommittingIsTyped, InstallingIsTyped, SwitchingIsTyped,
   CollectingIsTyped, OpeningIsTyped DEF Next, TypeInv

LEMMA NextKeepsWellFormed == ASSUME TypeInv, Next PROVE WellFormed'
<1>1. ASSUME NoSwitchStep PROVE WellFormed'
  BY <1>1, NoSwitchStepKeepsWellFormed DEF TypeInv
<1>2. CASE Uploading \/ Committing \/ Collecting
  BY <1>1, <1>2, OtherStepsAreNoSwitchSteps
<1>3. CASE Installing
  BY <1>1, <1>3, OtherStepsAreNoSwitchSteps, BindVersionKeepsWellFormed,
     RemoveInstallationKeepsWellFormed DEF Installing
<1>4. CASE Switching
  <2>1. ASSUME NEW i \in Installations,
               (\E v \in Versions : SwitchActiveVersion(i, v)) \/ RollbackVersion(i)
        PROVE  WellFormed'
    BY <2>1, SwitchesArePrepared, PrepareKeepsWellFormed
  <2> QED
    BY <1>1, <1>4, <2>1, OtherStepsAreNoSwitchSteps, CommitSwitchKeepsWellFormed,
       CancelSwitchKeepsWellFormed, ClosingAMarkerKeepsWellFormed,
       MarkRolledBackKeepsWellFormed DEF Switching
<1>5. CASE Opening
  BY <1>1, <1>5, OtherStepsAreNoSwitchSteps, ClosingAMarkerKeepsWellFormed DEF Opening
<1> QED
  BY <1>2, <1>3, <1>4, <1>5 DEF Next

LEMMA OnlyCommitCandidateCommits ==
  ASSUME Next, at' = "committing"
  PROVE  \E d \in Digests, v \in Versions : CommitCandidate(d, v)
<1> USE DEF GoTo, Done, files, tables, uploads, switching
<1>1. ~ Uploading
  BY DEF Uploading, StageBytes, UploadEndsEarly, RecordQuarantine, InsertQuarantineRow,
         QuarantineFails
<1>2. ~ Installing
  BY DEF Installing, CreateInstallation, RemoveInstallation, BindVersion
<1>3. ~ Switching
  BY DEF Switching, SwitchActiveVersion, RollbackVersion, Prepare, CommitSwitch, CancelSwitch,
         FinalizeMarker, AbandonSwitch, MarkRolledBack, MarkFails
<1>4. ~ Collecting
  BY DEF Collecting, Gc, GcFile, GcAgedRow, GcFilesDone, GcRow, GcRowsDone, GcFinal, GcFinalsDone
<1>5. ~ Opening
  BY DEF Opening, Restart, RecoverMarker, MarkersRecovered, RecoverFile, FilesRecovered
<1>6. ~ RegisterCandidate /\ ~ CommitFails
  BY DEF RegisterCandidate, CommitFails
<1> QED
  BY <1>1, <1>2, <1>3, <1>4, <1>5, <1>6 DEF Next, Committing

LEMMA NextKeepsCommitHasRelease == ASSUME Next PROVE CommitHasRelease'
BY OnlyCommitCandidateCommits DEF CommitHasRelease, CommitCandidate, GoTo, Binding

LEMMA InitTyped == Init => TypeInv
<1> SUFFICES ASSUME Init PROVE TypeInv
  OBVIOUS
<1>1. /\ at = "idle" /\ at \in Points
      /\ lastMarker \in 0..MaxMarkers
      /\ subject \in Release
  BY ReleaseTypes, MaxMarkersAssumption DEF Init, Points
<1>2. ArtifactTypeOK
  BY <1>1 DEF Init, ArtifactTypeOK
<1>3. SwitchHasMarker /\ SwitchIsBound /\ CommitHasRelease
  BY <1>1 DEF SwitchHasMarker, SwitchIsBound, SwitchPoints, CommitHasRelease
<1>4. ActiveIsBound
  BY DEF Init, ActiveIsBound
<1> QED
  BY <1>2, <1>3, <1>4 DEF TypeInv, WellFormed

\* A step that changes nothing.
LEMMA StutterKeepsTypeInv == TypeInv /\ UNCHANGED vars => TypeInv'
BY DEF TypeInv, ArtifactTypeOK, WellFormed, SwitchHasMarker, SwitchIsBound, ActiveIsBound,
   CommitHasRelease, vars, files, tables, uploads, switching

\* Every reachable state of the artifact store is well typed: no table, marker
\* or file is ever outside what the schema and the directories can hold.
THEOREM TypeCorrect == Spec => []ArtifactTypeOK
<1>1. TypeInv /\ [Next]_vars => TypeInv'
  BY NextIsTyped, NextKeepsWellFormed, NextKeepsCommitHasRelease, StutterKeepsTypeInv DEF TypeInv
<1>2. TypeInv => ArtifactTypeOK
  BY DEF TypeInv
<1> QED
  BY InitTyped, <1>1, <1>2, PTL DEF Spec

FilesTyped ==
  /\ quarantine \subseteq Digests
  /\ final \subseteq Digests
  /\ todo \subseteq Digests
  /\ artifacts \in [Digests -> {"absent", "quarantine"} \cup Committed]

\* Undoing the last rename never takes the only copy of committed bytes.
UndoIsSafe ==
  lastMove # NoMove /\ lastMove.from = "staging" /\ lastMove.digest \in quarantine
    /\ artifacts[lastMove.digest] \in Committed
  => lastMove.digest \in final

\* What a command knows of its digest between two of its steps.
WorkerKnowsBytes ==
  /\ at = "quarantining" => artifacts[subject.digest] = "absent"
  /\ at = "committing" => subject.digest \in final
  /\ at = "committing" => artifacts[subject.digest] = "quarantine"
  /\ at \in SwitchPoints => artifacts[subject.digest] \in Committed

\* The rows gc is about to delete are quarantine rows.
GcKnowsRows ==
  /\ at = "gc aged row" => artifacts[subject.digest] = "quarantine"
  /\ at = "gc rows" => \A d \in todo : artifacts[d] = "quarantine"

\* Once recovery is over, committed bytes are in final.
CommittedIsFinal ==
  at \notin Recovering \cup {"refused"} =>
    \A d \in Digests : artifacts[d] \in Committed => d \in final

\* Recovery leaves every file it has visited where its row says.
IsPlaced(d) ==
  /\ artifacts[d] = "quarantine" => d \in quarantine /\ d \notin final
  /\ artifacts[d] \in Committed => d \notin quarantine /\ d \in final

VisitedIsPlaced == at = "files" => \A d \in Digests \ todo : IsPlaced(d)

FilesInv ==
  /\ CommittedBytesSurvive
  /\ UndoIsSafe
  /\ WorkerKnowsBytes
  /\ GcKnowsRows
  /\ CommittedIsFinal
  /\ VisitedIsPlaced

-----------------------------------------------------------------------------
(* Steps that move no file and change no artifact row. *)

QuietStep ==
  /\ UNCHANGED <<files, artifacts>>
  /\ at' \in {"idle", "prepared", "finalizing", "marking", "gc files", "gc finals",
              "refused", "markers"}
  /\ at' \in Recovering \cup {"refused"} \/ at \notin Recovering \cup {"refused"}
  /\ at' \in SwitchPoints => artifacts[subject'.digest] \in Committed

LEMMA QuietStepKeepsFilesInv == ASSUME FilesInv, QuietStep PROVE FilesInv'
BY DEF FilesInv, QuietStep, files, CommittedBytesSurvive, UndoIsSafe, WorkerKnowsBytes,
       GcKnowsRows, CommittedIsFinal, VisitedIsPlaced, SwitchPoints, Recovering

LEMMA UploadingKeepsFilesInv ==
  ASSUME FilesInv, FilesTyped, Uploading PROVE FilesInv'
<1> USE DEF GoTo, Done, Only, files, tables, SwitchPoints, Recovering, Committed
<1>1. ASSUME NEW u \in Uploads, NEW d \in Digests, StageBytes(u, d) PROVE FilesInv'
  BY <1>1, QuietStepKeepsFilesInv DEF StageBytes, QuietStep
<1>2. ASSUME NEW u \in Uploads, UploadEndsEarly(u) PROVE FilesInv'
  BY <1>2, QuietStepKeepsFilesInv DEF UploadEndsEarly, QuietStep
<1>3. ASSUME NEW u \in Uploads, RecordQuarantine(u) PROVE FilesInv'
  BY <1>3 DEF RecordQuarantine, FilesInv, CommittedBytesSurvive, UndoIsSafe, WorkerKnowsBytes,
       GcKnowsRows, CommittedIsFinal, VisitedIsPlaced, NoMove
<1>4. ASSUME InsertQuarantineRow PROVE FilesInv'
  BY <1>4 DEF InsertQuarantineRow, FilesTyped, FilesInv, CommittedBytesSurvive, UndoIsSafe,
       WorkerKnowsBytes, GcKnowsRows, CommittedIsFinal, VisitedIsPlaced
<1>5. ASSUME QuarantineFails PROVE FilesInv'
  BY <1>5 DEF QuarantineFails, FilesTyped, FilesInv, CommittedBytesSurvive, UndoIsSafe,
       WorkerKnowsBytes, GcKnowsRows, CommittedIsFinal, VisitedIsPlaced
<1> QED
  BY <1>1, <1>2, <1>3, <1>4, <1>5 DEF Uploading

LEMMA CommittingKeepsFilesInv ==
  ASSUME FilesInv, FilesTyped, Committing PROVE FilesInv'
<1> USE DEF GoTo, Done, files, tables, SwitchPoints, Recovering, Committed, FilesInv,
       CommittedBytesSurvive, UndoIsSafe, WorkerKnowsBytes, GcKnowsRows, CommittedIsFinal,
       VisitedIsPlaced
<1>1. ASSUME NEW d \in Digests, NEW v \in Versions, CommitCandidate(d, v) PROVE FilesInv'
  BY <1>1 DEF CommitCandidate, Promote
<1>2. ASSUME RegisterCandidate PROVE FilesInv'
  BY <1>2 DEF RegisterCandidate, FilesTyped
<1>3. ASSUME CommitFails PROVE FilesInv'
  BY <1>3 DEF CommitFails
<1> QED
  BY <1>1, <1>2, <1>3 DEF Committing

LEMMA InstallingKeepsFilesInv == ASSUME FilesInv, Installing PROVE FilesInv'
BY QuietStepKeepsFilesInv DEF Installing, CreateInstallation, RemoveInstallation, BindVersion,
   QuietStep, files, SwitchPoints, Recovering

LEMMA CollectingKeepsFilesInv ==
  ASSUME FilesInv, FilesTyped, Collecting PROVE FilesInv'
<1> USE DEF GoTo, Only, files, tables, SwitchPoints, Recovering, Committed, FilesInv,
       CommittedBytesSurvive, UndoIsSafe, WorkerKnowsBytes, GcKnowsRows, CommittedIsFinal,
       VisitedIsPlaced
<1>1. ASSUME Gc \/ GcFilesDone \/ GcRowsDone \/ GcFinalsDone PROVE FilesInv'
  BY <1>1 DEF Gc, GcFilesDone, GcRowsDone, GcFinalsDone
<1>2. ASSUME NEW d \in Digests, GcFile(d) PROVE FilesInv'
  <2>1. /\ UNCHANGED <<final, lastMove, artifacts>>
        /\ quarantine' \subseteq quarantine
        /\ \A e : e \in quarantine /\ artifacts[e] \in Committed => e \in quarantine'
        /\ at' = "gc files" \/ (at' = "gc aged row" /\ artifacts[subject'.digest] = "quarantine")
        /\ at = "gc files"
    <3>1. at = "gc files" /\ UNCHANGED <<final, lastMove, artifacts>>
      BY <1>2 DEF GcFile
    <3>2. CASE artifacts[d] # "absent" /\ UNCHANGED <<quarantine, at, subject>>
      BY <3>1, <3>2
    <3>3. CASE artifacts[d] = "absent" /\ quarantine' = quarantine \ {d} /\ UNCHANGED <<at, subject>>
      BY <3>1, <3>3
    <3>4. CASE artifacts[d] = "quarantine" /\ quarantine' = quarantine \ {d}
               /\ GoTo("gc aged row", Only(d))
      BY <3>1, <3>4
    <3> QED
      BY <1>2, <3>1, <3>2, <3>3, <3>4 DEF GcFile
  <2>2. UndoIsSafe' /\ WorkerKnowsBytes' /\ GcKnowsRows' /\ VisitedIsPlaced'
    BY <2>1
  <2>3. CommittedBytesSurvive' /\ CommittedIsFinal'
    BY <2>1
  <2> QED
    BY <2>2, <2>3
<1>3. ASSUME NEW d \in Digests, GcRow(d) PROVE FilesInv'
  <2>1. /\ UNCHANGED <<files, at, subject>>
        /\ at = "gc rows"
        /\ artifacts[d] = "quarantine"
        /\ todo' = todo \ {d}
    BY <1>3 DEF GcRow
  <2>2. \A e \in Digests : artifacts'[e] = artifacts[e] \/ (e = d /\ artifacts'[e] = "absent")
    BY <1>3 DEF GcRow, FilesTyped
  <2>3. CommittedBytesSurvive' /\ CommittedIsFinal' /\ VisitedIsPlaced'
    BY <2>1, <2>2
  <2>4. UndoIsSafe' /\ WorkerKnowsBytes'
    BY <2>1, <2>2 DEF FilesTyped
  <2>5. \A e \in todo : e # d => artifacts'[e] = artifacts[e]
    BY <1>3 DEF GcRow, FilesTyped
  <2>6. GcKnowsRows'
    BY <2>1, <2>5
  <2> QED
    BY <2>3, <2>4, <2>6
<1>4. ASSUME NEW d \in Digests, GcFinal(d) PROVE FilesInv'
  <2>1. /\ UNCHANGED <<quarantine, lastMove, artifacts, at, subject>>
        /\ at = "gc finals"
        /\ final' \subseteq final
        /\ \A e : e \in final /\ artifacts[e] \in Committed => e \in final'
    BY <1>4 DEF GcFinal
  <2> QED
    BY <2>1
<1>5. ASSUME GcAgedRow PROVE FilesInv'
  BY <1>5 DEF GcAgedRow, FilesTyped
<1> QED
  BY <1>1, <1>2, <1>3, <1>4, <1>5 DEF Collecting

LEMMA SwitchingKeepsFilesInv ==
  ASSUME FilesInv, FilesTyped, Switching PROVE FilesInv'
<1> USE DEF GoTo, Done, files, tables, SwitchPoints, Recovering
<1>1. ASSUME NEW i \in Installations, NEW v \in Versions, NEW leaving, Prepare(i, v, leaving),
             at \notin Recovering \cup {"refused"}
      PROVE FilesInv'
  BY <1>1, QuietStepKeepsFilesInv DEF Prepare, MayActivate, QuietStep
<1>2. ASSUME CommitSwitch PROVE FilesInv'
  <2>1. \A e \in Digests : artifacts'[e] = artifacts[e]
                           \/ (artifacts[e] \in Committed /\ artifacts'[e] = "installed")
    BY <1>2 DEF CommitSwitch, FilesTyped, FilesInv, WorkerKnowsBytes
  <2>2. UNCHANGED files /\ at' \in {"idle", "marking"} /\ at = "prepared"
    BY <1>2 DEF CommitSwitch
  <2>3. CommittedBytesSurvive' /\ CommittedIsFinal' /\ UndoIsSafe'
    BY <2>1, <2>2 DEF FilesInv, CommittedBytesSurvive, CommittedIsFinal, UndoIsSafe, FilesTyped, Committed
  <2>4. WorkerKnowsBytes' /\ GcKnowsRows' /\ VisitedIsPlaced'
    BY <2>2 DEF WorkerKnowsBytes, GcKnowsRows, VisitedIsPlaced
  <2> QED
    BY <2>3, <2>4 DEF FilesInv
<1>3. ASSUME CancelSwitch PROVE FilesInv'
  BY <1>3, QuietStepKeepsFilesInv DEF CancelSwitch, QuietStep, FilesInv, WorkerKnowsBytes
<1>4. ASSUME FinalizeMarker \/ AbandonSwitch \/ MarkRolledBack \/ MarkFails PROVE FilesInv'
  BY <1>4, QuietStepKeepsFilesInv DEF FinalizeMarker, AbandonSwitch, MarkRolledBack, MarkFails,
     QuietStep
<1>5. ASSUME NEW i \in Installations, NEW v \in Versions, SwitchActiveVersion(i, v) PROVE FilesInv'
  BY <1>1, <1>5 DEF SwitchActiveVersion
<1>6. ASSUME NEW i \in Installations, RollbackVersion(i) PROVE FilesInv'
  <2>1. PICK v \in Earlier(i) : Prepare(i, v, active[i].version)
    BY <1>6 DEF RollbackVersion
  <2> QED
    BY <1>1, <1>6, <2>1 DEF RollbackVersion, Earlier
<1> QED
  BY <1>2, <1>3, <1>4, <1>5, <1>6 DEF Switching

LEMMA OpeningKeepsFilesInv ==
  ASSUME FilesInv, FilesTyped, Opening PROVE FilesInv'
<1> USE DEF GoTo, files, tables, SwitchPoints, Recovering
<1>1. ASSUME Restart PROVE FilesInv'
  <2>1. UNCHANGED artifacts /\ lastMove' = NoMove /\ at' = "markers"
    BY <1>1 DEF Restart
  <2>2. CommittedBytesSurvive'
    <3>1. CASE UNCHANGED <<quarantine, final>>
      BY <2>1, <3>1 DEF FilesInv, CommittedBytesSurvive
    <3>2. CASE UndoLastMove
      BY <2>1, <3>2 DEF UndoLastMove, FilesInv, CommittedBytesSurvive, UndoIsSafe
    <3> QED
      BY <1>1, <3>1, <3>2 DEF Restart
  <2> QED
    BY <2>1, <2>2 DEF FilesInv, UndoIsSafe, WorkerKnowsBytes, GcKnowsRows, CommittedIsFinal,
       VisitedIsPlaced
<1>2. ASSUME NEW m \in MarkerIds, RecoverMarker(m) PROVE FilesInv'
  BY <1>2, QuietStepKeepsFilesInv DEF RecoverMarker, QuietStep
<1>3. ASSUME MarkersRecovered PROVE FilesInv'
  BY <1>3 DEF MarkersRecovered, FilesTyped, FilesInv, CommittedBytesSurvive, UndoIsSafe,
     WorkerKnowsBytes, GcKnowsRows, CommittedIsFinal, VisitedIsPlaced, IsPlaced, Committed
<1>4. ASSUME FilesRecovered PROVE FilesInv'
  BY <1>4 DEF FilesRecovered, FilesInv, CommittedBytesSurvive, UndoIsSafe, WorkerKnowsBytes,
     GcKnowsRows, CommittedIsFinal, VisitedIsPlaced, IsPlaced, Committed
<1>5. ASSUME NEW d \in Digests, RecoverFile(d) PROVE FilesInv'
  <2>1. at = "files" /\ at' \in {"files", "refused"} /\ todo' = todo \ {d}
    BY <1>5 DEF RecoverFile
  <2>2. \A e : e # d => /\ e \in quarantine' <=> e \in quarantine
                        /\ e \in final' <=> e \in final
    BY <1>5 DEF RecoverFile, Promote
  <2>3. \A e \in Digests : e # d => artifacts'[e] = artifacts[e]
    BY <1>5 DEF RecoverFile, FilesTyped
  <2>4. at' = "files" => IsPlaced(d)'
    BY <1>5 DEF RecoverFile, FilesTyped, Undecidable, Promote, IsPlaced, Committed
  <2>5. artifacts'[d] \in Committed => d \in quarantine' \cup final'
    BY <1>5 DEF RecoverFile, FilesTyped, Promote, FilesInv, CommittedBytesSurvive, Committed
  <2>6. CommittedBytesSurvive'
    BY <2>2, <2>3, <2>5 DEF FilesInv, CommittedBytesSurvive
  <2>7. VisitedIsPlaced'
    BY <2>1, <2>2, <2>3, <2>4 DEF FilesInv, VisitedIsPlaced, IsPlaced
  <2>8. UndoIsSafe'
    <3>1. CASE UNCHANGED <<files, artifacts>>
      BY <3>1 DEF FilesInv, UndoIsSafe
    <3>2. CASE artifacts' = [artifacts EXCEPT ![d] = "absent"] /\ UNCHANGED files
      BY <3>2 DEF FilesInv, UndoIsSafe, FilesTyped, Committed
    <3>3. CASE lastMove' = [digest |-> d, from |-> "final"]
      BY <3>3 DEF UndoIsSafe
    <3>4. CASE Promote(d) /\ UNCHANGED artifacts
      BY <3>4 DEF FilesInv, UndoIsSafe, Promote
    <3> QED
      BY <1>5, <3>1, <3>2, <3>3, <3>4 DEF RecoverFile
  <2>9. WorkerKnowsBytes' /\ GcKnowsRows' /\ CommittedIsFinal'
    BY <2>1 DEF WorkerKnowsBytes, GcKnowsRows, CommittedIsFinal
  <2> QED
    BY <2>6, <2>7, <2>8, <2>9 DEF FilesInv
<1> QED
  BY <1>1, <1>2, <1>3, <1>4, <1>5 DEF Opening

LEMMA InitFilesInv == Init => FilesInv
BY DEF Init, FilesInv, CommittedBytesSurvive, UndoIsSafe, WorkerKnowsBytes, GcKnowsRows,
       CommittedIsFinal, VisitedIsPlaced, SwitchPoints, Committed

LEMMA NextKeepsFilesInv ==
  ASSUME TypeInv, FilesInv, [Next]_vars PROVE FilesInv'
<1>1. FilesTyped
  BY DEF TypeInv, ArtifactTypeOK, FilesTyped
<1>2. CASE Next
  BY <1>1, <1>2, UploadingKeepsFilesInv, CommittingKeepsFilesInv, InstallingKeepsFilesInv,
     SwitchingKeepsFilesInv, CollectingKeepsFilesInv, OpeningKeepsFilesInv DEF Next
<1>3. CASE UNCHANGED vars
  BY <1>3 DEF vars, files, tables, FilesInv, CommittedBytesSurvive, UndoIsSafe, WorkerKnowsBytes,
     GcKnowsRows, CommittedIsFinal, VisitedIsPlaced, IsPlaced
<1> QED
  BY <1>2, <1>3

LEMMA TypeInvHolds == Spec => []TypeInv
<1>1. TypeInv /\ [Next]_vars => TypeInv'
  BY NextIsTyped, NextKeepsWellFormed, NextKeepsCommitHasRelease, StutterKeepsTypeInv DEF TypeInv
<1> QED
  BY InitTyped, <1>1, PTL DEF Spec

\* However uploads, commits, gc, cancellations, crashes, power losses and
\* recoveries interleave, no step loses the bytes of a digest whose row was
\* committed (artifact.rs: the transaction is the commit point).
THEOREM BytesSurvive == Spec => []CommittedBytesSurvive
<1>1. TypeInv /\ FilesInv /\ [Next]_vars => FilesInv'
  BY NextKeepsFilesInv
<1>2. FilesInv => CommittedBytesSurvive
  BY DEF FilesInv
<1> QED
  BY InitFilesInv, TypeInvHolds, <1>1, <1>2, PTL DEF Spec

\* When recovery ends, each file is where its row says: recovery visits every
\* row and no step of it disturbs a file already visited.
THEOREM RecoveryIsExact == Spec => RecoveryReconciles
<1>1. ASSUME TypeInv, FilesInv, [Next]_vars, at = "files", at' = "idle", NEW d \in Digests
      PROVE  IsPlaced(d) /\ UNCHANGED <<artifacts, quarantine, final>>
  <2>1. FilesRecovered \/ ~FilesRecovered
    OBVIOUS
  <2>2. CASE FilesRecovered
    BY <1>1, <2>2 DEF FilesRecovered, files, tables, FilesInv, VisitedIsPlaced
  <2>3. CASE ~FilesRecovered
    <3> USE DEF GoTo, Done, vars
    <3>1. ~ Uploading
      BY <1>1 DEF Uploading, StageBytes, UploadEndsEarly, RecordQuarantine, InsertQuarantineRow,
         QuarantineFails
    <3>2. ~ Installing
      BY <1>1 DEF Installing, CreateInstallation, RemoveInstallation, BindVersion
    <3>3. ~ Switching
      BY <1>1 DEF Switching, SwitchActiveVersion, RollbackVersion, Prepare, CommitSwitch,
         CancelSwitch, FinalizeMarker, AbandonSwitch, MarkRolledBack, MarkFails
    <3>4. ~ Collecting
      BY <1>1 DEF Collecting, Gc, GcFile, GcAgedRow, GcFilesDone, GcRow, GcRowsDone, GcFinal,
         GcFinalsDone
    <3>5. ~ Committing
      BY <1>1 DEF Committing, CommitCandidate, RegisterCandidate, CommitFails
    <3>6. ~ Opening
      BY <1>1, <2>3 DEF Opening, Restart, RecoverMarker, MarkersRecovered, RecoverFile
    <3> QED
      BY <1>1, <3>1, <3>2, <3>3, <3>4, <3>5, <3>6 DEF Next
  <2> QED
    BY <2>2, <2>3
<1>2. TypeInv /\ FilesInv /\ [Next]_vars => FilesInv'
  BY NextKeepsFilesInv
<1>3. TypeInv /\ FilesInv /\ [Next]_vars =>
        [at = "files" /\ at' = "idle" =>
           \A d \in Digests :
             /\ artifacts[d] = "quarantine" => d \in quarantine /\ d \notin final
             /\ artifacts[d] \in Committed => d \notin quarantine /\ d \in final]_vars
  BY <1>1 DEF IsPlaced
<1> QED
  BY InitFilesInv, TypeInvHolds, <1>2, <1>3, PTL DEF Spec, RecoveryReconciles

-----------------------------------------------------------------------------
(* Registrations. *)

\* A commit under way has checked that its version is free or its own.
CommitMayRegister == at = "committing" => registry[subject.version] \in {NoDigest, subject.digest}

LEMMA RegistryStep ==
  ASSUME TypeInv, CommitMayRegister, [Next]_vars
  PROVE  /\ CommitMayRegister'
         /\ \A v \in Versions : registry[v] # NoDigest => registry'[v] = registry[v]
<1>1. CASE RegisterCandidate
  <2>1. at = "committing" /\ at' = "idle"
        /\ registry' = [registry EXCEPT ![subject.version] = subject.digest]
    BY <1>1 DEF RegisterCandidate, Done, GoTo
  <2>2. registry \in [Versions -> Digests \cup {NoDigest}]
    BY DEF TypeInv, ArtifactTypeOK
  <2>3. registry[subject.version] # NoDigest => registry[subject.version] = subject.digest
    BY <2>1 DEF CommitMayRegister
  <2> QED
    BY <2>1, <2>2, <2>3 DEF CommitMayRegister
<1>2. CASE Next /\ ~RegisterCandidate
  <2> USE DEF tables
  <2>1. UNCHANGED registry
    <3>1. CASE Uploading
      BY <3>1 DEF Uploading, StageBytes, UploadEndsEarly, RecordQuarantine, InsertQuarantineRow,
         QuarantineFails
    <3>2. CASE Installing
      BY <3>2 DEF Installing, CreateInstallation, RemoveInstallation, BindVersion
    <3>3. CASE Switching
      BY <3>3 DEF Switching, SwitchActiveVersion, RollbackVersion, Prepare, CommitSwitch,
         CancelSwitch, FinalizeMarker, AbandonSwitch, MarkRolledBack, MarkFails
    <3>4. CASE Collecting
      BY <3>4 DEF Collecting, Gc, GcFile, GcAgedRow, GcFilesDone, GcRow, GcRowsDone, GcFinal,
         GcFinalsDone
    <3>5. CASE Committing
      BY <1>2, <3>5 DEF Committing, CommitCandidate, CommitFails
    <3>6. CASE Opening
      BY <3>6 DEF Opening, Restart, RecoverMarker, MarkersRecovered, RecoverFile, FilesRecovered
    <3> QED
      BY <1>2, <3>1, <3>2, <3>3, <3>4, <3>5, <3>6 DEF Next
  <2>2. CASE at' = "committing"
    <3>1. PICK d \in Digests, v \in Versions : CommitCandidate(d, v)
      BY <1>2, <2>2, OnlyCommitCandidateCommits
    <3> QED
      BY <2>1, <3>1 DEF CommitCandidate, MayRegister, GoTo, CommitMayRegister
  <2> QED
    BY <2>1, <2>2 DEF CommitMayRegister
<1>3. CASE UNCHANGED vars
  BY <1>3 DEF vars, tables, CommitMayRegister
<1> QED
  BY <1>1, <1>2, <1>3

\* A registered version keeps its digest for ever: the check before the rename
\* still holds when the upsert runs.
THEOREM RegistrationIsFinal == Spec => RegistryNeverRebinds
<1>1. Init => CommitMayRegister
  BY DEF Init, CommitMayRegister
<1>2. TypeInv /\ CommitMayRegister /\ [Next]_vars => CommitMayRegister'
  BY RegistryStep
<1>3. TypeInv /\ CommitMayRegister /\ [Next]_vars =>
        [\A v \in Versions : registry[v] # NoDigest => registry'[v] = registry[v]]_vars
  BY RegistryStep
<1> QED
  BY <1>1, TypeInvHolds, <1>2, <1>3, PTL DEF Spec, RegistryNeverRebinds

-----------------------------------------------------------------------------
(* Markers. *)

LEMMA MaxIsLatest ==
  ASSUME NEW S \in SUBSET Int, NEW n \in S, \A k \in S : k <= n
  PROVE  Max(S) = n
<1>1. \A x \in S : (\A y \in S : x >= y) => x = n
  OBVIOUS
<1>2. \A y \in S : n >= y
  OBVIOUS
<1> QED
  BY <1>1, <1>2, Zenon DEF Max

DoneBy(i) == {m \in MarkerIds : markers[m].phase = "committed" /\ markers[m].inst = i}

ActiveIsLatest(i) ==
  \/ DoneBy(i) = {} /\ active[i] = NoBinding
  \/ \E m \in DoneBy(i) : (\A k \in DoneBy(i) : k <= m) /\ markers[m].to = active[i]

\* Marker numbers grow, so that the last switch has the greatest.
NoLaterMarker == \A m \in MarkerIds : m > lastMarker => markers[m] = NoMarker

MarkersInv == NoLaterMarker /\ \A i \in Installations : ActiveIsLatest(i)

LEMMA LatestIsLastCommitted ==
  ASSUME NEW i \in Installations, ActiveIsLatest(i) PROVE active[i] = LastCommitted(i)
<1>1. CASE DoneBy(i) = {} /\ active[i] = NoBinding
  BY <1>1 DEF DoneBy, LastCommitted
<1>2. CASE \E m \in DoneBy(i) : (\A k \in DoneBy(i) : k <= m) /\ markers[m].to = active[i]
  <2>1. PICK m \in DoneBy(i) : (\A k \in DoneBy(i) : k <= m) /\ markers[m].to = active[i]
    BY <1>2
  <2>2. DoneBy(i) \in SUBSET Int
    BY DEF DoneBy, MarkerIds
  <2>3. Max(DoneBy(i)) = m
    BY <2>1, <2>2, MaxIsLatest
  <2>4. DoneBy(i) # {}
    BY <2>1
  <2>5. LastCommitted(i) = markers[Max(DoneBy(i))].to
    BY <2>4 DEF LastCommitted, DoneBy
  <2> QED
    BY <2>1, <2>3, <2>5
<1> QED
  BY <1>1, <1>2 DEF ActiveIsLatest

\* A step after which the same switches of i are committed.
LEMMA SameDoneKeepsLatest ==
  ASSUME NEW i \in Installations, ActiveIsLatest(i), active'[i] = active[i],
         DoneBy(i)' = DoneBy(i), \A m \in DoneBy(i) : markers'[m] = markers[m]
  PROVE  ActiveIsLatest(i)'
<1> DEFINE D == DoneBy(i)
<1>1. CASE D = {} /\ active[i] = NoBinding
  BY <1>1 DEF ActiveIsLatest
<1>2. CASE \E m \in D : (\A k \in D : k <= m) /\ markers[m].to = active[i]
  BY <1>2 DEF ActiveIsLatest
<1> QED
  BY <1>1, <1>2 DEF ActiveIsLatest

LEMMA QuietStepKeepsMarkersInv ==
  ASSUME MarkersInv, UNCHANGED <<active, markers, lastMarker>> PROVE MarkersInv'
BY DEF MarkersInv, NoLaterMarker, ActiveIsLatest, DoneBy

LEMMA PrepareKeepsMarkersInv ==
  ASSUME TypeInv, MarkersInv, NEW i \in Installations, NEW v \in Versions, NEW leaving,
         Prepare(i, v, leaving)
  PROVE  MarkersInv'
<1> DEFINE marker == [inst |-> i, from |-> active[i],
                      to |-> [version |-> v, digest |-> bound[i][v].digest], phase |-> "prepared"]
<1>1. /\ lastMarker \in 0..MaxMarkers /\ lastMarker < MaxMarkers /\ lastMarker' = lastMarker + 1
      /\ markers' = [markers EXCEPT ![lastMarker'] = marker]
      /\ DOMAIN markers = MarkerIds
      /\ UNCHANGED active
  BY DEF Prepare, TypeInv, ArtifactTypeOK
<1>2. marker.phase = "prepared"
  OBVIOUS
<1> HIDE DEF marker
<1>3. lastMarker' \in MarkerIds /\ markers[lastMarker'] = NoMarker
  BY <1>1, MaxMarkersAssumption DEF MarkersInv, NoLaterMarker, MarkerIds
<1>4. markers[lastMarker'].phase = "none"
  BY <1>3 DEF NoMarker
<1>5. markers'[lastMarker'] = marker /\ \A m \in MarkerIds : m # lastMarker' => markers'[m] = markers[m]
  BY <1>1, <1>3
<1>6. NoLaterMarker'
  BY <1>1, <1>5, MaxMarkersAssumption DEF MarkersInv, NoLaterMarker, MarkerIds
<1>7. ASSUME NEW j \in Installations PROVE ActiveIsLatest(j)'
  <2>1. \A m \in MarkerIds : (markers'[m].phase = "committed" /\ markers'[m].inst = j)
                             <=> (markers[m].phase = "committed" /\ markers[m].inst = j)
    BY <1>2, <1>4, <1>5
  <2>2. DoneBy(j)' = DoneBy(j) /\ \A m \in DoneBy(j) : markers'[m] = markers[m]
    BY <1>4, <1>5, <2>1 DEF DoneBy
  <2>3. ActiveIsLatest(j) /\ active'[j] = active[j]
    BY <1>1 DEF MarkersInv
  <2> QED
    BY <2>2, <2>3, SameDoneKeepsLatest
<1> QED
  BY <1>6, <1>7 DEF MarkersInv

\* Closing a prepared marker without committing it.
LEMMA RollingBackKeepsMarkersInv ==
  ASSUME TypeInv, MarkersInv, NEW m \in MarkerIds, markers[m].phase = "prepared",
         markers' = [markers EXCEPT ![m].phase = "rolled_back"], UNCHANGED <<active, lastMarker>>
  PROVE  MarkersInv'
<1>1. markers \in [MarkerIds -> Markers \cup {NoMarker}]
  BY DEF TypeInv, ArtifactTypeOK
<1>2. markers[m] # NoMarker
  BY DEF NoMarker
<1>3. markers[m] \in Markers
  BY <1>1, <1>2
<1>4. markers'[m].phase = "rolled_back" /\ \A k \in MarkerIds : k # m => markers'[k] = markers[k]
  BY <1>1, <1>3 DEF Markers
<1>5. NoLaterMarker'
  BY <1>2, <1>4 DEF MarkersInv, NoLaterMarker
<1>6. ASSUME NEW j \in Installations PROVE ActiveIsLatest(j)'
  <2>1. \A k \in MarkerIds : (markers'[k].phase = "committed" /\ markers'[k].inst = j)
                             <=> (markers[k].phase = "committed" /\ markers[k].inst = j)
    BY <1>4
  <2>2. DoneBy(j)' = DoneBy(j) /\ \A k \in DoneBy(j) : markers'[k] = markers[k]
    BY <1>4, <2>1 DEF DoneBy
  <2> QED
    BY <2>2, SameDoneKeepsLatest DEF MarkersInv
<1> QED
  BY <1>5, <1>6 DEF MarkersInv

LEMMA CommitSwitchKeepsMarkersInv ==
  ASSUME TypeInv, MarkersInv, CommitSwitch PROVE MarkersInv'
<1>1. /\ markers \in [MarkerIds -> Markers \cup {NoMarker}]
      /\ active \in [Installations -> Binding \cup {NoBinding}]
  BY DEF TypeInv, ArtifactTypeOK
<1>2. /\ client \in Installations /\ lastMarker \in MarkerIds
      /\ markers[lastMarker] \in Markers
      /\ markers[lastMarker].inst = client /\ markers[lastMarker].to = subject
      /\ markers[lastMarker].phase = "prepared"
  BY DEF TypeInv, WellFormed, SwitchHasMarker, SwitchPoints, CommitSwitch
<1>3. /\ markers' = [markers EXCEPT ![lastMarker].phase = "committed"]
      /\ active' = [active EXCEPT ![client] = subject]
      /\ UNCHANGED lastMarker
  BY DEF CommitSwitch
<1>4. markers'[lastMarker] = [markers[lastMarker] EXCEPT !.phase = "committed"]
  BY <1>1, <1>2, <1>3
<1>5. /\ markers'[lastMarker].phase = "committed"
      /\ markers'[lastMarker].inst = client /\ markers'[lastMarker].to = subject
  BY <1>2, <1>4, ClosedMarker DEF Phases
<1>6. \A k \in MarkerIds : k # lastMarker => markers'[k] = markers[k]
  BY <1>1, <1>3
<1>7. NoLaterMarker'
  BY <1>3, <1>6 DEF MarkersInv, NoLaterMarker, MarkerIds
<1>8. PICK c \in Installations : c = client
  BY <1>2
<1>9. ActiveIsLatest(c)'
  <2>1. lastMarker' \in DoneBy(c)'
    BY <1>2, <1>3, <1>5, <1>8 DEF DoneBy
  <2>2. \A k \in MarkerIds : k > lastMarker => markers'[k].phase = "none"
    BY <1>3, <1>7 DEF NoLaterMarker, NoMarker
  <2>3. \A k \in DoneBy(c)' : k <= lastMarker'
    BY <1>2, <1>3, <2>2 DEF DoneBy, MarkerIds
  <2>4. markers'[lastMarker'].to = active'[c]
    BY <1>1, <1>2, <1>3, <1>5, <1>8
  <2> QED
    BY <2>1, <2>3, <2>4 DEF ActiveIsLatest
<1>10. ASSUME NEW j \in Installations, j # c PROVE ActiveIsLatest(j)'
  <2>1. \A k \in MarkerIds : (markers'[k].phase = "committed" /\ markers'[k].inst = j)
                             <=> (markers[k].phase = "committed" /\ markers[k].inst = j)
    BY <1>2, <1>5, <1>6, <1>8, <1>10
  <2>2. DoneBy(j)' = DoneBy(j) /\ \A k \in DoneBy(j) : markers'[k] = markers[k]
    BY <1>2, <1>6, <1>8, <1>10, <2>1 DEF DoneBy
  <2>3. ActiveIsLatest(j) /\ active'[j] = active[j]
    BY <1>1, <1>3, <1>8, <1>10 DEF MarkersInv
  <2> QED
    BY <2>2, <2>3, SameDoneKeepsLatest
<1> QED
  BY <1>7, <1>9, <1>10 DEF MarkersInv

LEMMA RemoveInstallationKeepsMarkersInv ==
  ASSUME TypeInv, MarkersInv, NEW i \in Installations, RemoveInstallation(i) PROVE MarkersInv'
<1>1. /\ markers' = [m \in MarkerIds |-> IF markers[m] # NoMarker /\ markers[m].inst = i
                                        THEN NoMarker ELSE markers[m]]
      /\ active' = [active EXCEPT ![i] = NoBinding]
      /\ active \in [Installations -> Binding \cup {NoBinding}]
      /\ UNCHANGED lastMarker
  BY DEF RemoveInstallation, TypeInv, ArtifactTypeOK
<1>2. NoLaterMarker'
  BY <1>1 DEF MarkersInv, NoLaterMarker
<1>3. NoMarker.phase = "none"
  BY DEF NoMarker
<1>4. ActiveIsLatest(i)'
  <2>1. DoneBy(i)' = {}
    BY <1>1, <1>3 DEF DoneBy
  <2> QED
    BY <1>1, <2>1 DEF ActiveIsLatest
<1>5. ASSUME NEW j \in Installations, j # i PROVE ActiveIsLatest(j)'
  <2>1. \A k \in MarkerIds : (markers'[k].phase = "committed" /\ markers'[k].inst = j)
                             <=> (markers[k].phase = "committed" /\ markers[k].inst = j)
    BY <1>1, <1>3, <1>5
  <2>2. DoneBy(j)' = DoneBy(j) /\ \A k \in DoneBy(j) : markers'[k] = markers[k]
    BY <1>1, <1>5, <2>1 DEF DoneBy
  <2>3. ActiveIsLatest(j) /\ active'[j] = active[j]
    BY <1>1, <1>5 DEF MarkersInv
  <2> QED
    BY <2>2, <2>3, SameDoneKeepsLatest
<1> QED
  BY <1>2, <1>4, <1>5 DEF MarkersInv

LEMMA NextKeepsMarkersInv ==
  ASSUME TypeInv, MarkersInv, [Next]_vars PROVE MarkersInv'
<1>1. CASE NoSwitchStep \/ UNCHANGED vars
  BY <1>1, QuietStepKeepsMarkersInv DEF NoSwitchStep, vars, tables
<1>2. CASE Uploading \/ Committing \/ Collecting
  BY <1>1, <1>2, OtherStepsAreNoSwitchSteps
<1>3. CASE Installing
  <2>1. ASSUME NEW i \in Installations, NEW v \in Versions, BindVersion(i, v) PROVE MarkersInv'
    BY <2>1, QuietStepKeepsMarkersInv DEF BindVersion
  <2> QED
    BY <1>1, <1>3, <2>1, RemoveInstallationKeepsMarkersInv, OtherStepsAreNoSwitchSteps DEF Installing
<1>4. CASE Switching
  <2>1. ASSUME NEW i \in Installations,
               (\E v \in Versions : SwitchActiveVersion(i, v)) \/ RollbackVersion(i)
        PROVE  MarkersInv'
    BY <2>1, SwitchesArePrepared, PrepareKeepsMarkersInv
  <2>2. ASSUME CancelSwitch \/ MarkRolledBack PROVE MarkersInv'
    BY <2>2, QuietStepKeepsMarkersInv DEF CancelSwitch, MarkRolledBack, tables
  <2>3. ASSUME FinalizeMarker PROVE MarkersInv'
    <3>1. lastMarker \in MarkerIds /\ markers[lastMarker].phase = "prepared"
      BY <2>3 DEF FinalizeMarker, TypeInv, WellFormed, SwitchHasMarker, SwitchPoints
    <3> QED
      BY <2>3, <3>1, RollingBackKeepsMarkersInv DEF FinalizeMarker
  <2> QED
    BY <1>1, <1>4, <2>1, <2>2, <2>3, OtherStepsAreNoSwitchSteps, CommitSwitchKeepsMarkersInv
       DEF Switching
<1>5. CASE Opening
  <2>1. ASSUME NEW m \in MarkerIds, RecoverMarker(m) PROVE MarkersInv'
    <3>1. UNCHANGED <<active, lastMarker>> /\ markers[m].phase = "prepared"
      BY <2>1 DEF RecoverMarker, Prepared
    <3>2. CASE UNCHANGED markers
      BY <3>1, <3>2, QuietStepKeepsMarkersInv
    <3>3. CASE markers' = [markers EXCEPT ![m].phase = "rolled_back"]
      BY <3>1, <3>3, RollingBackKeepsMarkersInv
    <3> QED
      BY <2>1, <3>2, <3>3 DEF RecoverMarker
  <2> QED
    BY <1>1, <1>5, <2>1, OtherStepsAreNoSwitchSteps DEF Opening
<1> QED
  BY <1>1, <1>2, <1>3, <1>4, <1>5 DEF Next

LEMMA InitMarkersInv == Init => MarkersInv
<1> SUFFICES ASSUME Init PROVE MarkersInv
  OBVIOUS
<1>1. \A m \in MarkerIds : markers[m] = NoMarker /\ markers[m].phase = "none"
  BY DEF Init, NoMarker
<1>2. \A i \in Installations : DoneBy(i) = {} /\ active[i] = NoBinding
  BY <1>1 DEF Init, DoneBy
<1> QED
  BY <1>1, <1>2 DEF MarkersInv, NoLaterMarker, ActiveIsLatest

\* The active release of every installation is the target of its last switch
\* whose marker is committed, in every crash, cancellation and recovery.
THEOREM BindingFollowsMarker == Spec => []ActiveIsLastCommitted
<1>1. TypeInv /\ MarkersInv /\ [Next]_vars => MarkersInv'
  BY NextKeepsMarkersInv
<1>2. MarkersInv => ActiveIsLastCommitted
  BY LatestIsLastCommitted DEF MarkersInv, ActiveIsLastCommitted
<1> QED
  BY InitMarkersInv, TypeInvHolds, <1>1, <1>2, PTL DEF Spec

-----------------------------------------------------------------------------
(* What is active can be run. *)

BoundIsRegistered ==
  \A i \in Installations, v \in Versions :
     bound[i][v] \in Bound => registry[v] = bound[i][v].digest

ActiveIsInstalled ==
  \A i \in Installations : active[i] # NoBinding =>
     /\ bound[i][active[i].version] = [digest |-> active[i].digest, state |-> "installed"]
     /\ artifacts[active[i].digest] = "installed"

\* A switch goes to the release its installation has bound, and what a
\* rollback marks afterwards is not what it activated.
SwitchKnowsTarget ==
  /\ at \in SwitchPoints => bound[client][subject.version].digest = subject.digest
  /\ at \in SwitchPoints /\ retired # NoVersion => retired # subject.version
  /\ at = "marking" => /\ client \in Installations
                       /\ active[client] = subject
                       /\ retired # subject.version

TablesInv == BoundIsRegistered /\ ActiveIsInstalled /\ SwitchKnowsTarget

\* Only gc, recovery and a commit change rows without a switch, and none of
\* them an installed row.
LEMMA InstalledStays ==
  ASSUME TypeInv, FilesInv, [Next]_vars, NEW d \in Digests, artifacts[d] = "installed"
  PROVE  artifacts'[d] = "installed"
<1>1. artifacts \in [Digests -> {"absent", "quarantine"} \cup Committed]
  BY DEF TypeInv, ArtifactTypeOK
<1> USE DEF tables, FilesInv, WorkerKnowsBytes, GcKnowsRows
<1>2. CASE Uploading
  BY <1>1, <1>2 DEF Uploading, StageBytes, UploadEndsEarly, RecordQuarantine, InsertQuarantineRow,
     QuarantineFails
<1>3. CASE Committing
  BY <1>1, <1>3 DEF Committing, CommitCandidate, RegisterCandidate, CommitFails
<1>4. CASE Installing
  BY <1>4 DEF Installing, CreateInstallation, RemoveInstallation, BindVersion
<1>5. CASE Switching
  BY <1>1, <1>5 DEF Switching, SwitchActiveVersion, RollbackVersion, Prepare, CommitSwitch,
     CancelSwitch, FinalizeMarker, AbandonSwitch, MarkRolledBack, MarkFails
<1>6. CASE Collecting
  BY <1>1, <1>6 DEF Collecting, Gc, GcFile, GcAgedRow, GcFilesDone, GcRow, GcRowsDone, GcFinal,
     GcFinalsDone
<1>7. CASE Opening
  BY <1>1, <1>7 DEF Opening, Restart, RecoverMarker, MarkersRecovered, RecoverFile, FilesRecovered
<1>8. CASE UNCHANGED vars
  BY <1>8 DEF vars
<1> QED
  BY <1>2, <1>3, <1>4, <1>5, <1>6, <1>7, <1>8 DEF Next

LEMMA RegisteredStays ==
  ASSUME TypeInv, BoundIsRegistered, CommitMayRegister, [Next]_vars,
         NEW i \in Installations, NEW v \in Versions, bound[i][v] \in Bound
  PROVE  registry'[v] = bound[i][v].digest
BY RegistryStep, NoDigestAssumption DEF BoundIsRegistered, Bound

LEMMA QuietStepKeepsTablesInv ==
  ASSUME TypeInv, FilesInv, CommitMayRegister, TablesInv, [Next]_vars,
         UNCHANGED <<bound, active>>, at' \notin SwitchPoints \cup {"marking"}
  PROVE  TablesInv'
<1>1. BoundIsRegistered'
  BY RegisteredStays DEF TablesInv, BoundIsRegistered
<1>2. ActiveIsInstalled'
  <2>1. \A i \in Installations : active[i] # NoBinding => active[i].digest \in Digests
    BY DEF TypeInv, WellFormed, ActiveIsBound, Binding
  <2> QED
    BY <2>1, InstalledStays DEF TablesInv, ActiveIsInstalled
<1>3. SwitchKnowsTarget'
  BY DEF SwitchKnowsTarget
<1> QED
  BY <1>1, <1>2, <1>3 DEF TablesInv

LEMMA BindVersionKeepsTablesInv ==
  ASSUME TypeInv, TablesInv, NEW i \in Installations, NEW v \in Versions, BindVersion(i, v)
  PROVE  TablesInv'
<1>1. /\ bound \in [Installations -> [Versions -> Bound \cup {Unbound}]]
      /\ bound' = [bound EXCEPT ![i][v] = [digest |-> registry[v], state |-> "candidate"]]
      /\ bound[i][v] = Unbound
      /\ at' = "idle"
      /\ UNCHANGED <<artifacts, registry, active>>
  BY DEF TypeInv, ArtifactTypeOK, BindVersion
<1>2. [digest |-> registry[v], state |-> "candidate"].digest = registry[v]
  OBVIOUS
<1>3. BoundIsRegistered'
  <2>1. ASSUME NEW j \in Installations, NEW w \in Versions, bound'[j][w] \in Bound
        PROVE  registry[w] = bound'[j][w].digest
    <3>1. CASE j = i /\ w = v
      BY <1>1, <1>2, <3>1
    <3>2. CASE ~(j = i /\ w = v)
      <4>1. bound'[j][w] = bound[j][w]
        BY <1>1, <3>2
      <4> QED
        BY <2>1, <4>1 DEF TablesInv, BoundIsRegistered
    <3> QED
      BY <3>1, <3>2
  <2> QED
    BY <1>1, <2>1 DEF BoundIsRegistered
<1>4. ActiveIsInstalled'
  <2>1. ASSUME NEW j \in Installations, active[j] # NoBinding
        PROVE  bound'[j][active[j].version] = bound[j][active[j].version]
    <3>1. active[j].version \in Versions /\ bound[j][active[j].version] \in Bound
      BY <2>1 DEF TypeInv, WellFormed, ActiveIsBound, Binding
    <3>2. ~(j = i /\ active[j].version = v)
      BY <1>1, <3>1, BoundIsNotUnbound
    <3> QED
      BY <1>1, <3>1, <3>2
  <2> QED
    BY <1>1, <2>1 DEF TablesInv, ActiveIsInstalled
<1>5. SwitchKnowsTarget'
  BY <1>1 DEF SwitchKnowsTarget, SwitchPoints
<1> QED
  BY <1>3, <1>4, <1>5 DEF TablesInv

LEMMA RemoveInstallationKeepsTablesInv ==
  ASSUME TypeInv, TablesInv, NEW i \in Installations, RemoveInstallation(i) PROVE TablesInv'
<1>1. /\ bound \in [Installations -> [Versions -> Bound \cup {Unbound}]]
      /\ active \in [Installations -> Binding \cup {NoBinding}]
      /\ bound' = [bound EXCEPT ![i] = [v \in Versions |-> Unbound]]
      /\ active' = [active EXCEPT ![i] = NoBinding]
      /\ at' = "idle"
      /\ UNCHANGED <<artifacts, registry>>
  BY DEF TypeInv, ArtifactTypeOK, RemoveInstallation
<1>2. \A j \in Installations : j # i => bound'[j] = bound[j] /\ active'[j] = active[j]
  BY <1>1
<1>3. active'[i] = NoBinding /\ \A v \in Versions : bound'[i][v] = Unbound
  BY <1>1
<1>4. BoundIsRegistered'
  BY <1>1, <1>2, <1>3, BoundIsNotUnbound DEF TablesInv, BoundIsRegistered
<1>5. ActiveIsInstalled'
  BY <1>1, <1>2, <1>3 DEF TablesInv, ActiveIsInstalled
<1>6. SwitchKnowsTarget'
  BY <1>1 DEF SwitchKnowsTarget, SwitchPoints
<1> QED
  BY <1>4, <1>5, <1>6 DEF TablesInv

LEMMA PrepareKeepsTablesInv ==
  ASSUME TypeInv, TablesInv, NEW i \in Installations, NEW v \in Versions, NEW leaving,
         leaving # v, Prepare(i, v, leaving)
  PROVE  TablesInv'
<1>1. /\ UNCHANGED <<bound, active, artifacts, registry>>
      /\ at' = "prepared" /\ client' = i /\ retired' = leaving
      /\ subject'.version = v /\ subject'.digest = bound[i][v].digest
  BY DEF Prepare, GoTo
<1>2. BoundIsRegistered' /\ ActiveIsInstalled'
  BY <1>1 DEF TablesInv, BoundIsRegistered, ActiveIsInstalled
<1>3. SwitchKnowsTarget'
  BY <1>1 DEF SwitchKnowsTarget
<1> QED
  BY <1>2, <1>3 DEF TablesInv

\* A rollback leaves a version other than the one it activates.
LEMMA SwitchesLeaveAnotherVersion ==
  ASSUME TypeInv, NEW i \in Installations,
         (\E v \in Versions : SwitchActiveVersion(i, v)) \/ RollbackVersion(i)
  PROVE  \E v \in Versions : \E leaving : leaving # v /\ Prepare(i, v, leaving)
<1>1. \A v \in Versions : v # NoVersion
  BY ReleasesAssumption DEF NoVersion
<1>2. CASE \E v \in Versions : SwitchActiveVersion(i, v)
  BY <1>1, <1>2 DEF SwitchActiveVersion
<1>3. CASE RollbackVersion(i)
  <2>1. PICK v \in Earlier(i) : Prepare(i, v, active[i].version)
    BY <1>3 DEF RollbackVersion
  <2>2. v \in Versions /\ TextRank(v) < TextRank(active[i].version)
    BY DEF Earlier
  <2>3. TextRank(v) \in Int
    BY <2>2, ReleasesAssumption DEF TextRank
  <2>4. v # active[i].version
    BY <2>2, <2>3
  <2> QED
    BY <2>1, <2>2, <2>4
<1> QED
  BY <1>2, <1>3

LEMMA CommitSwitchKeepsTablesInv ==
  ASSUME TypeInv, FilesInv, CommitMayRegister, TablesInv, CommitSwitch PROVE TablesInv'
<1>1. /\ bound \in [Installations -> [Versions -> Bound \cup {Unbound}]]
      /\ active \in [Installations -> Binding \cup {NoBinding}]
      /\ artifacts \in [Digests -> {"absent", "quarantine"} \cup Committed]
  BY DEF TypeInv, ArtifactTypeOK
<1>2. /\ client \in Installations
      /\ subject \in Binding
      /\ bound[client][subject.version] \in Bound
      /\ bound[client][subject.version].digest = subject.digest
      /\ retired # NoVersion => retired # subject.version
  BY DEF TypeInv, WellFormed, SwitchHasMarker, SwitchIsBound, SwitchPoints, CommitSwitch,
         TablesInv, SwitchKnowsTarget
<1>3. subject.version \in Versions /\ subject.digest \in Digests
  BY <1>2 DEF Binding
<1>4. /\ active' = [active EXCEPT ![client] = subject]
      /\ bound' = [bound EXCEPT ![client][subject.version].state = "installed"]
      /\ artifacts' = [artifacts EXCEPT ![subject.digest] = "installed"]
      /\ UNCHANGED registry
  BY DEF CommitSwitch
<1>5. [bound[client][subject.version] EXCEPT !.state = "installed"]
        = [digest |-> subject.digest, state |-> "installed"]
  BY <1>2 DEF Bound
<1>6. /\ bound'[client][subject.version] = [digest |-> subject.digest, state |-> "installed"]
      /\ \A j \in Installations, w \in Versions :
            ~(j = client /\ w = subject.version) => bound'[j][w] = bound[j][w]
  BY <1>1, <1>2, <1>3, <1>4, <1>5
<1>7. artifacts'[subject.digest] = "installed"
      /\ \A d \in Digests : artifacts[d] = "installed" => artifacts'[d] = "installed"
  BY <1>1, <1>3, <1>4
<1>8. BoundIsRegistered'
  <2>1. ASSUME NEW j \in Installations, NEW w \in Versions, bound'[j][w] \in Bound
        PROVE  registry[w] = bound'[j][w].digest
    <3>1. CASE j = client /\ w = subject.version
      <4>1. registry[w] = bound[j][w].digest
        BY <1>2, <1>3, <3>1 DEF TablesInv, BoundIsRegistered
      <4> QED
        BY <1>2, <1>6, <3>1, <4>1
    <3>2. CASE ~(j = client /\ w = subject.version)
      <4>1. bound'[j][w] = bound[j][w]
        BY <1>6, <3>2
      <4> QED
        BY <2>1, <4>1 DEF TablesInv, BoundIsRegistered
    <3> QED
      BY <3>1, <3>2
  <2> QED
    BY <1>4, <2>1 DEF BoundIsRegistered
<1>9. ActiveIsInstalled'
  <2>1. ASSUME NEW j \in Installations, active'[j] # NoBinding
        PROVE  /\ bound'[j][active'[j].version] = [digest |-> active'[j].digest, state |-> "installed"]
               /\ artifacts'[active'[j].digest] = "installed"
    <3>1. CASE j = client
      <4>1. active'[j] = subject
        BY <1>1, <1>2, <1>4, <3>1
      <4> QED
        BY <1>6, <1>7, <3>1, <4>1
    <3>2. CASE j # client
      <4>1. active'[j] = active[j]
        BY <1>1, <1>4, <3>2
      <4>2. active[j].version \in Versions /\ active[j].digest \in Digests
        BY <2>1, <4>1 DEF TypeInv, WellFormed, ActiveIsBound, Binding
      <4>3. bound'[j][active[j].version] = bound[j][active[j].version]
        BY <1>6, <3>2, <4>2
      <4> QED
        BY <1>7, <2>1, <4>1, <4>2, <4>3 DEF TablesInv, ActiveIsInstalled
    <3> QED
      BY <3>1, <3>2
  <2> QED
    BY <2>1 DEF ActiveIsInstalled
<1>10. SwitchKnowsTarget'
  <2>1. at' \in {"idle", "marking"}
    BY DEF CommitSwitch, Done, GoTo
  <2>2. CASE at' = "idle"
    BY <2>2 DEF SwitchKnowsTarget, SwitchPoints
  <2>3. CASE at' = "marking"
    <3>1. client' = client /\ retired' = retired /\ subject' = subject /\ retired # NoVersion
      BY <2>3 DEF CommitSwitch, Done, GoTo, switching
    <3>2. active'[client] = subject
      BY <1>1, <1>2, <1>4
    <3> QED
      BY <1>2, <2>3, <3>1, <3>2 DEF SwitchKnowsTarget, SwitchPoints
  <2> QED
    BY <2>1, <2>2, <2>3
<1> QED
  BY <1>8, <1>9, <1>10 DEF TablesInv

LEMMA MarkRolledBackKeepsTablesInv ==
  ASSUME TypeInv, TablesInv, MarkRolledBack PROVE TablesInv'
<1>1. /\ bound \in [Installations -> [Versions -> Bound \cup {Unbound}]]
      /\ client \in Installations /\ retired \in Versions /\ bound[client][retired] \in Bound
      /\ active[client] = subject /\ retired # subject.version
  BY DEF TypeInv, ArtifactTypeOK, WellFormed, SwitchIsBound, MarkRolledBack, TablesInv,
         SwitchKnowsTarget
<1>2. /\ bound' = [bound EXCEPT ![client][retired].state = "rolled_back"]
      /\ at' = "idle"
      /\ UNCHANGED <<active, artifacts, registry>>
  BY DEF MarkRolledBack, Done, GoTo
<1>3. [bound[client][retired] EXCEPT !.state = "rolled_back"].digest = bound[client][retired].digest
  BY <1>1 DEF Bound
<1>4. /\ bound'[client][retired].digest = bound[client][retired].digest
      /\ \A j \in Installations, w \in Versions :
            ~(j = client /\ w = retired) => bound'[j][w] = bound[j][w]
  BY <1>1, <1>2, <1>3
<1>5. BoundIsRegistered'
  <2>1. ASSUME NEW j \in Installations, NEW w \in Versions, bound'[j][w] \in Bound
        PROVE  registry[w] = bound'[j][w].digest
    <3>1. CASE j = client /\ w = retired
      BY <1>1, <1>4, <3>1 DEF TablesInv, BoundIsRegistered
    <3>2. CASE ~(j = client /\ w = retired)
      <4>1. bound'[j][w] = bound[j][w]
        BY <1>4, <3>2
      <4> QED
        BY <2>1, <4>1 DEF TablesInv, BoundIsRegistered
    <3> QED
      BY <3>1, <3>2
  <2> QED
    BY <1>2, <2>1 DEF BoundIsRegistered
<1>6. ActiveIsInstalled'
  <2>1. ASSUME NEW j \in Installations, active[j] # NoBinding
        PROVE  bound'[j][active[j].version] = bound[j][active[j].version]
    <3>1. active[j].version \in Versions
      BY <2>1 DEF TypeInv, WellFormed, ActiveIsBound, Binding
    <3> QED
      BY <1>1, <1>4, <3>1
  <2> QED
    BY <1>2, <2>1 DEF TablesInv, ActiveIsInstalled
<1>7. SwitchKnowsTarget'
  BY <1>2 DEF SwitchKnowsTarget, SwitchPoints
<1> QED
  BY <1>5, <1>6, <1>7 DEF TablesInv

LEMMA NextKeepsTablesInv ==
  ASSUME TypeInv, FilesInv, CommitMayRegister, TablesInv, [Next]_vars PROVE TablesInv'
<1>1. CASE NoSwitchStep
  BY <1>1, QuietStepKeepsTablesInv DEF NoSwitchStep
<1>2. CASE Uploading \/ Committing \/ Collecting
  BY <1>1, <1>2, OtherStepsAreNoSwitchSteps
<1>3. CASE Installing
  BY <1>1, <1>3, OtherStepsAreNoSwitchSteps, BindVersionKeepsTablesInv,
     RemoveInstallationKeepsTablesInv DEF Installing
<1>4. CASE Switching
  <2>1. ASSUME NEW i \in Installations,
               (\E v \in Versions : SwitchActiveVersion(i, v)) \/ RollbackVersion(i)
        PROVE  TablesInv'
    BY <2>1, SwitchesLeaveAnotherVersion, PrepareKeepsTablesInv
  <2>2. ASSUME CancelSwitch PROVE TablesInv'
    <3>1. UNCHANGED <<bound, active, artifacts, registry, subject, client, retired>>
          /\ at = "prepared" /\ at' = "finalizing"
      BY <2>2 DEF CancelSwitch, GoTo, tables, switching
    <3>2. BoundIsRegistered' /\ ActiveIsInstalled'
      BY <3>1 DEF TablesInv, BoundIsRegistered, ActiveIsInstalled
    <3>3. SwitchKnowsTarget'
      BY <3>1 DEF TablesInv, SwitchKnowsTarget, SwitchPoints
    <3> QED
      BY <3>2, <3>3 DEF TablesInv
  <2>3. ASSUME FinalizeMarker PROVE TablesInv'
    BY <2>3, QuietStepKeepsTablesInv DEF FinalizeMarker, Done, GoTo, SwitchPoints
  <2> QED
    BY <1>1, <1>4, <2>1, <2>2, <2>3, OtherStepsAreNoSwitchSteps, CommitSwitchKeepsTablesInv,
       MarkRolledBackKeepsTablesInv DEF Switching
<1>5. CASE Opening
  <2>1. ASSUME NEW m \in MarkerIds, RecoverMarker(m) PROVE TablesInv'
    BY <2>1, QuietStepKeepsTablesInv DEF RecoverMarker, SwitchPoints
  <2> QED
    BY <1>1, <1>5, <2>1, OtherStepsAreNoSwitchSteps DEF Opening
<1>6. CASE UNCHANGED vars
  BY <1>6 DEF vars, tables, switching, TablesInv, BoundIsRegistered, ActiveIsInstalled,
     SwitchKnowsTarget
<1> QED
  BY <1>2, <1>3, <1>4, <1>5, <1>6 DEF Next

LEMMA InitTablesInv == Init => TablesInv /\ CommitMayRegister
<1> SUFFICES ASSUME Init PROVE TablesInv /\ CommitMayRegister
  OBVIOUS
<1>1. \A i \in Installations, v \in Versions : bound[i][v] \notin Bound
  BY BoundIsNotUnbound DEF Init
<1> QED
  BY <1>1 DEF Init, TablesInv, BoundIsRegistered, ActiveIsInstalled, SwitchKnowsTarget,
     SwitchPoints, CommitMayRegister

\* Whenever the worker takes commands, each active release has its bytes in
\* final, installed rows, and the registered digest.
THEOREM ActiveCanBeServed == Spec => []ActiveIsServable
<1>1. TypeInv /\ FilesInv /\ [Next]_vars => FilesInv'
  BY NextKeepsFilesInv
<1>2. TypeInv /\ CommitMayRegister /\ [Next]_vars => CommitMayRegister'
  BY RegistryStep
<1>3. TypeInv /\ FilesInv /\ CommitMayRegister /\ TablesInv /\ [Next]_vars => TablesInv'
  BY NextKeepsTablesInv
<1>4. TypeInv /\ FilesInv /\ TablesInv => ActiveIsServable
  <2> SUFFICES ASSUME TypeInv, FilesInv, TablesInv, at = "idle",
                      NEW i \in Installations, active[i] # NoBinding
               PROVE  /\ active[i].digest \in final
                      /\ artifacts[active[i].digest] = "installed"
                      /\ bound[i][active[i].version]
                           = [digest |-> active[i].digest, state |-> "installed"]
                      /\ registry[active[i].version] = active[i].digest
    BY DEF ActiveIsServable
  <2>1. /\ active[i].version \in Versions /\ active[i].digest \in Digests
        /\ bound[i][active[i].version] \in Bound
    BY DEF TypeInv, WellFormed, ActiveIsBound, Binding
  <2>2. /\ bound[i][active[i].version] = [digest |-> active[i].digest, state |-> "installed"]
        /\ artifacts[active[i].digest] = "installed"
    BY DEF TablesInv, ActiveIsInstalled
  <2>3. registry[active[i].version] = bound[i][active[i].version].digest
    BY <2>1 DEF TablesInv, BoundIsRegistered
  <2>4. active[i].digest \in final
    BY <2>1, <2>2 DEF FilesInv, CommittedIsFinal, Recovering, Committed
  <2> QED
    BY <2>2, <2>3, <2>4
<1> QED
  BY InitFilesInv, InitTablesInv, TypeInvHolds, <1>1, <1>2, <1>3, <1>4, PTL DEF Spec

-----------------------------------------------------------------------------
(* Recovery decides: while no interrupted step is left behind, no digest is *)
(* in both spaces and every open marker is that of the pending switch.      *)

OneCopy == quarantine \cap final = {}

\* A file in final without a row is one that gc has still to remove.
OrphansAreCollected ==
  \A d \in final : artifacts[d] = "absent" =>
    at = "gc rows" \/ (at = "gc finals" /\ d \in todo)

\* What gc is about to delete in quarantine is there, and nowhere else.
GcKnowsFiles ==
  /\ at \in {"gc files", "gc aged row"} => todo \subseteq quarantine
  /\ at = "gc aged row" => subject.digest \notin quarantine \cup final

UndoLeavesNoOrphan ==
  lastMove # NoMove /\ lastMove.from = "final" /\ lastMove.digest \in quarantine =>
    artifacts[lastMove.digest] # "absent"

Copies == OneCopy /\ OrphansAreCollected /\ GcKnowsFiles /\ UndoLeavesNoOrphan

IsPending(m) ==
  /\ at = "markers" \/ (at \in SwitchPoints /\ m = lastMarker)
  /\ active[markers[m].inst] = markers[m].from

PreparedArePending == \A m \in MarkerIds : markers[m].phase = "prepared" => IsPending(m)

RecoverInv == spoiled = {} => Copies /\ PreparedArePending /\ at # "refused"

LEMMA SpoiledStays == ASSUME Next, spoiled' = {} PROVE spoiled = {}
<1> USE DEF GoTo, Done
<1>1. Uploading => spoiled' = spoiled
  BY DEF Uploading, StageBytes, UploadEndsEarly, RecordQuarantine, InsertQuarantineRow,
         QuarantineFails
<1>2. Committing => spoiled' = spoiled
  BY DEF Committing, CommitCandidate, RegisterCandidate, CommitFails
<1>3. Installing => spoiled' = spoiled
  BY DEF Installing, CreateInstallation, RemoveInstallation, BindVersion
<1>4. Switching => spoiled \subseteq spoiled'
  BY DEF Switching, SwitchActiveVersion, RollbackVersion, Prepare, CommitSwitch, CancelSwitch,
         FinalizeMarker, AbandonSwitch, MarkRolledBack, MarkFails
<1>5. Collecting => spoiled' = spoiled
  BY DEF Collecting, Gc, GcFile, GcAgedRow, GcFilesDone, GcRow, GcRowsDone, GcFinal, GcFinalsDone
<1>6. Opening => spoiled \subseteq spoiled'
  BY DEF Opening, Restart, RecoverMarker, MarkersRecovered, RecoverFile, FilesRecovered
<1> QED BY <1>1, <1>2, <1>3, <1>4, <1>5, <1>6 DEF Next

\* Steps that move no file and change no artifact row, outside gc.
LEMMA QuietStepKeepsCopies ==
  ASSUME Copies, UNCHANGED <<files, artifacts>>, at \notin {"gc rows", "gc finals"},
         at' \notin {"gc files", "gc aged row"}
  PROVE  Copies'
BY DEF Copies, OneCopy, OrphansAreCollected, GcKnowsFiles, UndoLeavesNoOrphan, files

LEMMA UploadingKeepsCopies ==
  ASSUME Copies, FilesInv, FilesTyped, Uploading PROVE Copies'
<1> USE DEF GoTo, Done, Only, files, tables
<1>1. ASSUME NEW u \in Uploads, NEW d \in Digests, StageBytes(u, d) PROVE Copies'
  BY <1>1, QuietStepKeepsCopies DEF StageBytes
<1>2. ASSUME NEW u \in Uploads, UploadEndsEarly(u) PROVE Copies'
  BY <1>2, QuietStepKeepsCopies DEF UploadEndsEarly
<1>3. ASSUME NEW u \in Uploads, RecordQuarantine(u) PROVE Copies'
  BY <1>3 DEF RecordQuarantine, Copies, OneCopy, OrphansAreCollected, GcKnowsFiles,
       UndoLeavesNoOrphan, NoMove
<1>4. ASSUME InsertQuarantineRow PROVE Copies'
  BY <1>4 DEF InsertQuarantineRow, FilesTyped, Copies, OneCopy, OrphansAreCollected,
       GcKnowsFiles, UndoLeavesNoOrphan
<1>5. ASSUME QuarantineFails PROVE Copies'
  BY <1>5 DEF QuarantineFails, FilesTyped, Copies, OneCopy, OrphansAreCollected,
       GcKnowsFiles, UndoLeavesNoOrphan
<1> QED BY <1>1, <1>2, <1>3, <1>4, <1>5 DEF Uploading

LEMMA CommittingKeepsCopies ==
  ASSUME Copies, FilesInv, FilesTyped, Committing PROVE Copies'
<1> USE DEF GoTo, Done, files, tables, Copies, OneCopy, OrphansAreCollected,
       GcKnowsFiles, UndoLeavesNoOrphan
<1>1. ASSUME NEW d \in Digests, NEW v \in Versions, CommitCandidate(d, v) PROVE Copies'
  BY <1>1 DEF CommitCandidate, Promote, FilesTyped
<1>2. ASSUME RegisterCandidate PROVE Copies'
  BY <1>2 DEF RegisterCandidate, FilesTyped
<1>3. ASSUME CommitFails PROVE Copies'
  BY <1>3 DEF CommitFails, FilesTyped, FilesInv, WorkerKnowsBytes
<1> QED BY <1>1, <1>2, <1>3 DEF Committing

LEMMA CollectingKeepsCopies ==
  ASSUME Copies, FilesInv, FilesTyped, Collecting PROVE Copies'
<1> USE DEF GoTo, files, tables, Copies, OneCopy, OrphansAreCollected,
       GcKnowsFiles, UndoLeavesNoOrphan
<1>1. ASSUME Gc PROVE Copies'
  BY <1>1 DEF Gc
<1>2. ASSUME NEW d \in Digests, GcFile(d) PROVE Copies'
  <2>1. /\ at = "gc files" /\ d \in todo /\ todo' = todo \ {d} /\ d \in quarantine
        /\ d \notin final /\ UNCHANGED <<final, lastMove, artifacts>>
    BY <1>2 DEF GcFile
  <2>2. \/ quarantine' = quarantine /\ at' = at
        \/ quarantine' = quarantine \ {d} /\ at' = at
        \/ quarantine' = quarantine \ {d} /\ at' = "gc aged row" /\ subject' = Only(d)
    BY <1>2 DEF GcFile
  <2>3. OneCopy' /\ OrphansAreCollected' /\ UndoLeavesNoOrphan'
    BY <2>1, <2>2
  <2>4. Only(d).digest = d
    BY DEF Only
  <2>5. GcKnowsFiles'
    BY <2>1, <2>2, <2>4
  <2> QED BY <2>3, <2>5
<1>3. ASSUME GcAgedRow PROVE Copies'
  <2>1. /\ at = "gc aged row" /\ at' = "gc files" /\ UNCHANGED <<files, todo>>
        /\ artifacts' = [artifacts EXCEPT ![subject.digest] = "absent"]
    BY <1>3 DEF GcAgedRow
  <2>2. subject.digest \notin quarantine \cup final
    BY <2>1
  <2>3. \A d \in quarantine \cup final : artifacts'[d] = artifacts[d]
    BY <2>1, <2>2 DEF FilesTyped
  <2>4. OneCopy' /\ OrphansAreCollected'
    BY <2>1, <2>3
  <2>5. GcKnowsFiles'
    BY <2>1
  <2>6. UndoLeavesNoOrphan'
    BY <2>1, <2>3
  <2> QED BY <2>4, <2>5, <2>6
<1>4. ASSUME GcFilesDone PROVE Copies'
  BY <1>4 DEF GcFilesDone
<1>5. ASSUME NEW d \in Digests, GcRow(d) PROVE Copies'
  BY <1>5 DEF GcRow, FilesTyped
<1>6. ASSUME GcRowsDone PROVE Copies'
  BY <1>6 DEF GcRowsDone
<1>7. ASSUME NEW d \in Digests, GcFinal(d) PROVE Copies'
  BY <1>7 DEF GcFinal
<1>8. ASSUME GcFinalsDone PROVE Copies'
  BY <1>8 DEF GcFinalsDone
<1> QED BY <1>1, <1>2, <1>3, <1>4, <1>5, <1>6, <1>7, <1>8 DEF Collecting

LEMMA SwitchingKeepsCopies ==
  ASSUME Copies, FilesInv, FilesTyped, Switching PROVE Copies'
<1> USE DEF GoTo, Done, files, tables
<1>1. CASE CommitSwitch
  <2>1. /\ at = "prepared" /\ at' \in {"idle", "marking"} /\ UNCHANGED files
        /\ artifacts' = [artifacts EXCEPT ![subject.digest] = "installed"]
    BY <1>1 DEF CommitSwitch
  <2>2. \A d \in Digests : artifacts[d] # "absent" => artifacts'[d] # "absent"
    BY <2>1 DEF FilesTyped
  <2>3. \A d \in final : artifacts[d] # "absent" /\ d \in Digests
    BY <2>1 DEF Copies, OrphansAreCollected, FilesTyped
  <2>4. OneCopy' /\ OrphansAreCollected' /\ GcKnowsFiles'
    BY <2>1, <2>2, <2>3 DEF Copies, OneCopy, OrphansAreCollected, GcKnowsFiles
  <2>5. UndoLeavesNoOrphan'
    BY <2>1, <2>2 DEF Copies, UndoLeavesNoOrphan, FilesTyped
  <2> QED BY <2>4, <2>5 DEF Copies
<1>2. CASE ~ CommitSwitch
  <2>1. /\ UNCHANGED <<files, artifacts>> /\ at \notin {"gc rows", "gc finals"}
        /\ at' \notin {"gc files", "gc aged row"}
    BY <1>2 DEF Switching, SwitchActiveVersion, RollbackVersion, Prepare, CancelSwitch,
       FinalizeMarker, AbandonSwitch, MarkRolledBack, MarkFails
  <2> QED BY <2>1, QuietStepKeepsCopies
<1> QED BY <1>1, <1>2

LEMMA RestartKeepsCopies ==
  ASSUME Copies, FilesTyped, Restart, spoiled' = {} PROVE Copies'
<1>1. /\ UNCHANGED artifacts /\ lastMove' = NoMove /\ at' = "markers"
      /\ UndoLastMove \/ UNCHANGED <<quarantine, final>>
  BY DEF Restart, GoTo, tables
<1>2. \A d \in final : artifacts[d] # "absent"
  BY DEF Restart, Orphans
<1>3. GcKnowsFiles' /\ UndoLeavesNoOrphan'
  BY <1>1 DEF GcKnowsFiles, UndoLeavesNoOrphan
<1>4. CASE UNCHANGED <<quarantine, final>>
  BY <1>1, <1>2, <1>3, <1>4 DEF Copies, OneCopy, OrphansAreCollected
<1>5. CASE UndoLastMove
  BY <1>1, <1>2, <1>3, <1>5
     DEF UndoLastMove, Copies, OneCopy, OrphansAreCollected, UndoLeavesNoOrphan
<1> QED BY <1>1, <1>4, <1>5

LEMMA RecoverFileKeepsCopies ==
  ASSUME Copies, FilesInv, FilesTyped, NEW d \in Digests, RecoverFile(d)
  PROVE  Copies' /\ at' # "refused"
<1> USE DEF GoTo, files, Copies, OneCopy, OrphansAreCollected, GcKnowsFiles, UndoLeavesNoOrphan
<1>1. at = "files" /\ at' \in {"files", "refused"}
  BY DEF RecoverFile
<1>2. ~ Undecidable(d)
  BY DEF Undecidable, FilesInv, CommittedBytesSurvive
<1>3. at' = "files"
  BY <1>1, <1>2 DEF RecoverFile
<1>4. CASE UNCHANGED <<files, artifacts>>
  BY <1>1, <1>3, <1>4
<1>5. CASE /\ d \notin final /\ d \notin quarantine
           /\ artifacts' = [artifacts EXCEPT ![d] = "absent"] /\ UNCHANGED files
  BY <1>1, <1>3, <1>5 DEF FilesTyped
<1>6. CASE /\ artifacts[d] = "quarantine"
           /\ final' = final \ {d} /\ quarantine' = quarantine \cup {d}
           /\ lastMove' = [digest |-> d, from |-> "final"] /\ UNCHANGED artifacts
  BY <1>1, <1>3, <1>6
<1>7. CASE artifacts[d] \in Committed /\ Promote(d) /\ UNCHANGED artifacts
  BY <1>1, <1>3, <1>7 DEF Promote, Committed
<1> QED BY <1>2, <1>4, <1>5, <1>6, <1>7 DEF RecoverFile

LEMMA OpeningKeepsCopies ==
  ASSUME Copies, FilesInv, FilesTyped, Opening, spoiled' = {} PROVE Copies'
<1> USE DEF GoTo, files, tables
<1>1. ASSUME NEW m \in MarkerIds, RecoverMarker(m) PROVE Copies'
  BY <1>1, QuietStepKeepsCopies DEF RecoverMarker
<1>2. ASSUME MarkersRecovered \/ FilesRecovered PROVE Copies'
  BY <1>2, QuietStepKeepsCopies DEF MarkersRecovered, FilesRecovered
<1> QED BY <1>1, <1>2, RestartKeepsCopies, RecoverFileKeepsCopies DEF Opening

LEMMA NextKeepsCopies ==
  ASSUME Copies, FilesInv, FilesTyped, Next, spoiled' = {} PROVE Copies'
<1>1. CASE Installing
  BY <1>1, QuietStepKeepsCopies
     DEF Installing, CreateInstallation, RemoveInstallation, BindVersion, files
<1> QED BY <1>1, UploadingKeepsCopies, CommittingKeepsCopies, SwitchingKeepsCopies,
           CollectingKeepsCopies, OpeningKeepsCopies DEF Next

\* Steps of a worker that has no switch and no marker to recover: no marker is
\* open, and none is opened.
LEMMA OtherStepsOpenNoMarker ==
  ASSUME PreparedArePending, at \notin SwitchPoints \cup {"markers"}, UNCHANGED markers
  PROVE  PreparedArePending'
BY DEF PreparedArePending, IsPending

LEMMA OnlyOneOpen ==
  ASSUME PreparedArePending, at \in SwitchPoints, TypeInv, NEW phase \in Phases \ {"prepared"},
         markers' = [markers EXCEPT ![lastMarker].phase = phase]
  PROVE  PreparedArePending'
<1>1. /\ lastMarker \in MarkerIds /\ markers[lastMarker] \in Markers
      /\ markers \in [MarkerIds -> Markers \cup {NoMarker}]
  BY DEF TypeInv, WellFormed, SwitchHasMarker, ArtifactTypeOK
<1>2. markers'[lastMarker] = [markers[lastMarker] EXCEPT !.phase = phase]
  BY <1>1
<1>3. markers'[lastMarker].phase = phase
  BY <1>1, <1>2 DEF Markers
<1>4. \A m \in MarkerIds : m # lastMarker => markers'[m] = markers[m]
  BY <1>1
<1>5. \A m \in MarkerIds : m # lastMarker => markers[m].phase # "prepared"
  BY DEF PreparedArePending, IsPending, SwitchPoints
<1>6. \A m \in MarkerIds : markers'[m].phase # "prepared"
  BY <1>3, <1>4, <1>5
<1> QED BY <1>6 DEF PreparedArePending

LEMMA PrepareIsPending ==
  ASSUME PreparedArePending, TypeInv, at = "idle", NEW i \in Installations,
         NEW v \in Versions, NEW leaving, Prepare(i, v, leaving)
  PROVE  PreparedArePending' /\ at' = "prepared"
<1> DEFINE marker == [inst |-> i, from |-> active[i],
                      to |-> [version |-> v, digest |-> bound[i][v].digest],
                      phase |-> "prepared"]
<1>1. /\ markers' = [markers EXCEPT ![lastMarker'] = marker] /\ UNCHANGED active
      /\ at' = "prepared"
      /\ markers \in [MarkerIds -> Markers \cup {NoMarker}]
  BY DEF Prepare, GoTo, TypeInv, ArtifactTypeOK
<1>2. marker.inst = i /\ marker.from = active[i]
  OBVIOUS
<1> HIDE DEF marker
<1>3. \A m \in MarkerIds : markers[m].phase # "prepared"
  BY DEF PreparedArePending, IsPending, SwitchPoints
<1>4. \A m \in MarkerIds : markers'[m] = IF m = lastMarker' THEN marker ELSE markers[m]
  BY <1>1
<1>5. ASSUME NEW m \in MarkerIds, markers'[m].phase = "prepared"
      PROVE  IsPending(m)'
  <2>1. m = lastMarker' /\ markers'[m] = marker
    BY <1>3, <1>4, <1>5
  <2> QED BY <1>1, <1>2, <2>1 DEF IsPending, SwitchPoints
<1> QED BY <1>1, <1>5 DEF PreparedArePending

LEMMA SwitchingIsPending ==
  ASSUME PreparedArePending, TypeInv, Switching, spoiled' = {}
  PROVE  PreparedArePending' /\ at' # "refused"
<1>1. ASSUME NEW i \in Installations, NEW v \in Versions, SwitchActiveVersion(i, v)
      PROVE  PreparedArePending' /\ at' # "refused"
  BY <1>1, PrepareIsPending DEF SwitchActiveVersion
<1>2. ASSUME NEW i \in Installations, RollbackVersion(i)
      PROVE  PreparedArePending' /\ at' # "refused"
  <2>1. PICK v \in Versions : Prepare(i, v, active[i].version)
    BY <1>2 DEF RollbackVersion, Earlier
  <2> QED BY <1>2, <2>1, PrepareIsPending DEF RollbackVersion
<1>3. CASE CommitSwitch
  BY <1>3, OnlyOneOpen DEF CommitSwitch, SwitchPoints, Phases, GoTo, Done
<1>4. CASE FinalizeMarker
  BY <1>4, OnlyOneOpen DEF FinalizeMarker, SwitchPoints, Phases, GoTo, Done
<1>5. CASE CancelSwitch
  BY <1>5 DEF CancelSwitch, PreparedArePending, IsPending, SwitchPoints, GoTo, tables
<1>6. CASE MarkRolledBack \/ MarkFails
  BY <1>6, OtherStepsOpenNoMarker
     DEF MarkRolledBack, MarkFails, SwitchPoints, GoTo, Done, tables
<1>7. ~ AbandonSwitch
  BY DEF AbandonSwitch
<1> QED BY <1>1, <1>2, <1>3, <1>4, <1>5, <1>6, <1>7 DEF Switching

LEMMA OpeningIsPending ==
  ASSUME PreparedArePending, TypeInv, Copies, FilesInv, FilesTyped, Opening
  PROVE  PreparedArePending' /\ at' # "refused"
<1>1. CASE Restart
  BY <1>1 DEF Restart, GoTo, tables, PreparedArePending, IsPending
<1>2. ASSUME NEW m \in MarkerIds, RecoverMarker(m)
      PROVE  PreparedArePending' /\ at' # "refused"
  <2>1. at = "markers" /\ markers[m].phase = "prepared" /\ UNCHANGED <<active, lastMarker>>
    BY <1>2 DEF RecoverMarker, Prepared
  <2>2. IsPending(m)
    BY <2>1 DEF PreparedArePending
  <2>3. markers' = [markers EXCEPT ![m].phase = "rolled_back"] /\ at' = at
    BY <1>2, <2>2 DEF RecoverMarker, IsPending
  <2>4. markers \in [MarkerIds -> Markers \cup {NoMarker}] /\ m \in DOMAIN markers
    BY DEF TypeInv, ArtifactTypeOK
  <2>8. NoMarker.phase = "none"
    BY DEF NoMarker
  <2>9. markers[m] \in Markers
    BY <2>1, <2>4, <2>8
  <2>10. "phase" \in DOMAIN markers[m]
    BY <2>9 DEF Markers
  <2>5. markers'[m].phase = "rolled_back"
    BY <2>3, <2>4, <2>10
  <2>6. \A k \in MarkerIds : k # m => markers'[k] = markers[k]
    BY <2>3, <2>4
  <2>7. ASSUME NEW k \in MarkerIds, markers'[k].phase = "prepared" PROVE IsPending(k)'
    <3>1. k # m /\ markers'[k] = markers[k]
      BY <2>5, <2>6, <2>7
    <3>2. IsPending(k)
      BY <2>7, <3>1 DEF PreparedArePending
    <3> QED BY <2>1, <2>3, <3>1, <3>2 DEF IsPending
  <2> QED BY <2>1, <2>3, <2>7 DEF PreparedArePending
<1>3. CASE MarkersRecovered
  BY <1>3 DEF MarkersRecovered, Prepared, PreparedArePending, tables
<1>4. CASE FilesRecovered
  BY <1>4, OtherStepsOpenNoMarker DEF FilesRecovered, SwitchPoints, tables
<1>5. ASSUME NEW d \in Digests, RecoverFile(d) PROVE PreparedArePending' /\ at' # "refused"
  BY <1>5, RecoverFileKeepsCopies, OtherStepsOpenNoMarker DEF RecoverFile, SwitchPoints
<1> QED BY <1>1, <1>2, <1>3, <1>4, <1>5 DEF Opening

LEMMA InstallingIsPending ==
  ASSUME PreparedArePending, Installing
  PROVE  PreparedArePending' /\ at' # "refused"
<1>1. at = "idle" /\ at' = "idle"
  BY DEF Installing, CreateInstallation, RemoveInstallation, BindVersion
<1>2. \A m \in MarkerIds : markers[m].phase # "prepared"
  BY <1>1 DEF PreparedArePending, IsPending, SwitchPoints
<1>3. ASSUME NEW m \in MarkerIds PROVE markers'[m] \in {NoMarker, markers[m]}
  BY DEF Installing, CreateInstallation, RemoveInstallation, BindVersion
<1>4. NoMarker.phase # "prepared"
  BY DEF NoMarker
<1>5. \A m \in MarkerIds : markers'[m].phase # "prepared"
  BY <1>2, <1>3, <1>4
<1> QED BY <1>1, <1>5 DEF PreparedArePending

LEMMA OthersArePending ==
  ASSUME PreparedArePending, Uploading \/ Committing \/ Collecting
  PROVE  PreparedArePending' /\ at' # "refused"
<1> USE DEF GoTo, Done, tables
<1>1. at \notin SwitchPoints \cup {"markers"} /\ UNCHANGED markers /\ at' # "refused"
  <2>1. CASE Uploading
    BY <2>1 DEF Uploading, StageBytes, UploadEndsEarly, RecordQuarantine, InsertQuarantineRow,
       QuarantineFails, SwitchPoints
  <2>2. CASE Committing
    BY <2>2 DEF Committing, CommitCandidate, RegisterCandidate, CommitFails, SwitchPoints
  <2>3. CASE Collecting
    BY <2>3 DEF Collecting, Gc, GcFile, GcAgedRow, GcFilesDone, GcRow, GcRowsDone, GcFinal,
       GcFinalsDone, SwitchPoints
  <2> QED BY <2>1, <2>2, <2>3
<1> QED BY <1>1, OtherStepsOpenNoMarker

LEMMA NextKeepsRecoverInv ==
  ASSUME TypeInv, FilesInv, RecoverInv, [Next]_vars PROVE RecoverInv'
<1>1. FilesTyped
  BY DEF TypeInv, ArtifactTypeOK, FilesTyped
<1>2. CASE Next
  <2>1. SUFFICES ASSUME spoiled' = {}
                 PROVE  Copies' /\ PreparedArePending' /\ at' # "refused"
    BY DEF RecoverInv
  <2>2. Copies /\ PreparedArePending
    BY <1>2, <2>1, SpoiledStays DEF RecoverInv
  <2>3. Copies'
    BY <1>1, <1>2, <2>1, <2>2, NextKeepsCopies
  <2> QED BY <1>1, <1>2, <2>1, <2>2, <2>3, SwitchingIsPending, OpeningIsPending,
             InstallingIsPending, OthersArePending DEF Next
<1>3. CASE UNCHANGED vars
  BY <1>3 DEF vars, files, tables, RecoverInv, Copies, OneCopy, OrphansAreCollected,
     GcKnowsFiles, UndoLeavesNoOrphan, PreparedArePending, IsPending
<1> QED BY <1>2, <1>3

LEMMA InitRecoverInv == Init => RecoverInv
BY DEF Init, RecoverInv, Copies, OneCopy, OrphansAreCollected, GcKnowsFiles,
   UndoLeavesNoOrphan, PreparedArePending, IsPending, NoMarker

\* Recovery never refuses to open the storage, whatever crashed, was cancelled
\* or lost its last rename, unless a switch left its marker prepared in a
\* process that went on, or a crash left a file in final whose row gc had
\* removed (recovery.rs: the two undecidable cases).
THEOREM RecoveryAlwaysDecides == Spec => []RecoveryDecides
<1>1. TypeInv /\ FilesInv /\ [Next]_vars => FilesInv'
  BY NextKeepsFilesInv
<1>2. TypeInv /\ FilesInv /\ RecoverInv /\ [Next]_vars => RecoverInv'
  BY NextKeepsRecoverInv
<1>3. RecoverInv => RecoveryDecides
  BY DEF RecoverInv, RecoveryDecides
<1> QED BY InitFilesInv, InitRecoverInv, TypeInvHolds, <1>1, <1>2, <1>3, PTL DEF Spec
=============================================================================

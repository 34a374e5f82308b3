------------------------------- MODULE Pipeline -------------------------------
(***************************************************************************)
(* What an administrator does to the installations: install, upgrade, roll *)
(* back and enable, which run the candidate pipeline                       *)
(* (crates/application/src/install.rs and upgrade.rs), disable and replace *)
(* grants (crates/web-admin/src/facade.rs) and uninstall (uninstall.rs).   *)
(* One operation runs at a time and takes many steps: the audit may fail   *)
(* at each of them and so may every call of the component.  The component  *)
(* that is served runs on meanwhile and may write its first state.         *)
(*                                                                         *)
(* The registry, the grants and the map of active runtimes are what the    *)
(* ports promise, each call atomic; a candidate is keyed by the digest of  *)
(* its bytes alone.                                                        *)
(***************************************************************************)
EXTENDS ProviderGraph

CONSTANTS Digests, NoDigest,
          Capabilities,
          Product, Version,  \* of a digest: its component and version
          FaceOf,            \* of a digest: what it exports and imports
          Uses,              \* of a digest: the host capabilities it imports
          SchemaOf,          \* of a digest: the state schema it declares, 0 for none
          MaxOps             \* bound on the operations

ASSUME DigestsAssumption ==
  /\ NoDigest \notin Digests
  /\ \A d \in Digests : Uses[d] \subseteq Capabilities /\ SchemaOf[d] \in Nat
  /\ \A d \in Digests : FaceOf[d] \in [provides : SUBSET Offers, requires : SUBSET Requirements]

VARIABLES candidate, \* the lifecycle state of each digest's candidate
          bound,     \* the digest bound to each component and version
          record,    \* the record of each installation
          grants,    \* the capabilities granted to each installation
          schema,    \* the version of each installation's stored state, 0 when empty
          active,    \* the digest each installation serves
          store, graph, policy, \* of the composition service
          op,        \* the operation in progress
          ops,
          last, before, \* ghosts: what each installation served last, and before that
          ran           \* ghost: the installations that ran the pipeline on a digest

vars == <<candidate, bound, record, grants, schema, active, store, graph, policy,
          op, ops, last, before, ran>>

NoRecord == [digest |-> NoDigest, lkg |-> NoDigest, state |-> "None"]
Idle == [stage |-> "idle", i |-> 0]

\* The request carries the grants, or relies on those the installation has.
Reuse == [explicit |-> FALSE, grants |-> {}]
Approvals == {Reuse} \cup [explicit : {TRUE}, grants : SUBSET Capabilities]

Releases == {<<Product[d], Version[d]>> : d \in Digests}

Init ==
  /\ candidate = [d \in Digests |-> "None"]
  /\ bound = [r \in Releases |-> NoDigest]
  /\ record = [i \in Installations |-> NoRecord]
  /\ grants = [i \in Installations |-> {}]
  /\ schema = [i \in Installations |-> 0]
  /\ active = [i \in Installations |-> NoDigest]
  /\ store = [i \in Installations |-> NoFace] /\ graph = EmptyGraph /\ policy = NoPolicy
  /\ op = Idle /\ ops = 0
  /\ last = [i \in Installations |-> NoDigest] /\ before = [i \in Installations |-> NoDigest]
  /\ ran = [d \in Digests |-> {}]

-----------------------------------------------------------------------------
(* ComponentLifecycleState::transition. *)

Moves == {<<"Installed", "ValidationSucceeded", "Validated">>,
          <<"Installed", "ValidationFailed", "Failed">>,
          <<"Validated", "ActivationRequested", "Activating">>,
          <<"Validated", "ResolutionFailed", "Failed">>,
          <<"Activating", "ReadinessSucceeded", "Active">>,
          <<"Activating", "ReadinessFailed", "Failed">>,
          <<"Active", "DrainStarted", "Draining">>,
          <<"Draining", "DrainCompleted", "Disabled">>,
          <<"Disabled", "ActivationRequested", "Activating">>}

Accepts(state, event) == \E m \in Moves : m[1] = state /\ m[2] = event
After(state, event) ==
  IF Accepts(state, event) THEN (CHOOSE m \in Moves : m[1] = state /\ m[2] = event)[3]
  ELSE state

-----------------------------------------------------------------------------
(* The beginning and the end of an operation. *)

Stage(stage) == op' = [op EXCEPT !.stage = stage]
Ends == op' = Idle

Moved(d, event) == candidate' = [candidate EXCEPT ![d] = After(@, event)]

\* fail_candidate: without its audit record a failure does not move the candidate.
Fails(event) == Ends /\ (Moved(op.d, event) \/ UNCHANGED candidate)

Begins(kind, i, d, approval) ==
  /\ op = Idle /\ ops < MaxOps
  /\ op' = [stage |-> "bytes", kind |-> kind, i |-> i, d |-> d, approval |-> approval,
            old |-> record[i].digest, lkg |-> record[i].lkg, empty |-> FALSE]
  /\ ops' = ops + 1
  /\ UNCHANGED <<candidate, bound, record, grants, schema, active, store, graph, policy,
                 last, before, ran>>

\* InstallationId::new; an id is not used again.
Installs(i, d, S) ==
  /\ record[i] = NoRecord /\ last[i] = NoDigest
  /\ \A j \in Installations : j < i => record[j] # NoRecord \/ last[j] # NoDigest
  /\ Begins("install", i, d, [explicit |-> TRUE, grants |-> S])

\* Asking for the digest that is served answers at once.
Upgrades(i, d, approval) ==
  /\ record[i].state = "Active" /\ record[i].digest # d
  /\ Begins("upgrade", i, d, approval)

RollsBack(i) ==
  /\ record[i].state = "Active" /\ record[i].lkg \notin {NoDigest, record[i].digest}
  /\ Begins("upgrade", i, record[i].lkg, Reuse)

Enables(i) ==
  /\ record[i].state = "Disabled"
  /\ Begins("enable", i, record[i].digest, Reuse)

-----------------------------------------------------------------------------
(* The pipeline: the facts about the bytes, the identity, the permissions. *)

\* Bytes that are refused and an audit that fails leave nothing behind.
PersistsCandidate ==
  /\ op.stage = "bytes"
  /\ \/ Ends /\ UNCHANGED <<candidate, ran>>
     \/ /\ candidate' = [candidate EXCEPT ![op.d] = "Installed"]
        /\ ran' = [ran EXCEPT ![op.d] = @ \cup {op.i}]
        /\ Stage("identity")
  /\ UNCHANGED <<bound, record, grants, schema, active, store, graph, policy, ops, last, before>>

Release(d) == <<Product[d], Version[d]>>
AnotherProduct == op.old # NoDigest /\ Product[op.old] # Product[op.d]
VersionTaken == bound[Release(op.d)] \notin {NoDigest, op.d}

Identifies ==
  /\ op.stage = "identity"
  /\ IF AnotherProduct \/ VersionTaken THEN Fails("ValidationFailed")
     ELSE Fails("ValidationFailed") \/ (Stage("register") /\ UNCHANGED candidate)
  /\ UNCHANGED <<bound, record, grants, schema, active, store, graph, policy, ops, last, before,
                 ran>>

Registers ==
  /\ op.stage = "register"
  /\ \/ Ends /\ UNCHANGED <<candidate, bound, record>>
     \/ /\ bound' = [bound EXCEPT ![Release(op.d)] = op.d]
        /\ record' = IF op.kind = "install"
                     THEN [record EXCEPT ![op.i] = [NoRecord EXCEPT !.state = "Validated"]]
                     ELSE record
        /\ Moved(op.d, "ValidationSucceeded")
        /\ Stage("gate")
  /\ UNCHANGED <<grants, schema, active, store, graph, policy, ops, last, before, ran>>

Candidacy == Candidate(policy, [store EXCEPT ![op.i] = FaceOf[op.d]])

\* check_upgrade, then check_activation.
GateOpen ==
  /\ op.i \in graph.providers => Safe(graph, op.i, FaceOf[op.d].provides)
  /\ Candidacy.status = "built"

PassesGate ==
  /\ op.stage = "gate"
  /\ IF GateOpen THEN Stage("grants") /\ UNCHANGED candidate ELSE Fails("ResolutionFailed")
  /\ UNCHANGED <<bound, record, grants, schema, active, store, graph, policy, ops, last, before,
                 ran>>

Granted == IF op.approval.explicit THEN op.approval.grants ELSE grants[op.i]
\* Mutant: what is asked for adds to what the installation has, but will replace it.
MissingFromBoth == Uses[op.d] \ (Granted \cup grants[op.i])

Missing == Uses[op.d] \ Granted

\* What is missing is approved first, or was refused; prepare may fail.
ResolvesImports ==
  /\ op.stage = "grants"
  /\ IF Missing # {}
     THEN IF op.approval.explicit THEN Fails("ResolutionFailed") ELSE Ends /\ UNCHANGED candidate
     ELSE Fails("ResolutionFailed") \/ (Stage("schema") /\ UNCHANGED candidate)
  /\ UNCHANGED <<bound, record, grants, schema, active, store, graph, policy, ops, last, before,
                 ran>>

\* Stored state and a declared schema that differ: migrate forward, never back.
Differs(i, d) == SchemaOf[d] # 0 /\ schema[i] # 0 /\ schema[i] # SchemaOf[d]
Downgrade(i, d) == Differs(i, d) /\ SchemaOf[d] < schema[i]

\* run_state_schema_phase; the migration commits here, whatever comes after.
RunsSchemaPhase ==
  /\ op.stage = "schema"
  /\ IF Downgrade(op.i, op.d) THEN Fails("ResolutionFailed") /\ UNCHANGED schema
     ELSE \/ Fails("ResolutionFailed") /\ UNCHANGED schema
          \/ /\ schema' = [schema EXCEPT ![op.i] = IF Differs(op.i, op.d) THEN SchemaOf[op.d] ELSE @]
             /\ op' = [op EXCEPT !.stage = "activate", !.empty = schema[op.i] = 0]
             /\ UNCHANGED candidate
  /\ UNCHANGED <<bound, record, grants, active, store, graph, policy, ops, last, before, ran>>

-----------------------------------------------------------------------------
(* The pipeline: the activation. *)

RequestsActivation ==
  /\ op.stage = "activate"
  /\ \/ Ends /\ UNCHANGED candidate
     \/ Moved(op.d, "ActivationRequested") /\ Stage("ready")
  /\ UNCHANGED <<bound, record, grants, schema, active, store, graph, policy, ops, last, before,
                 ran>>

\* instantiate, the readiness, the manifest, its assets and the app descriptor.
BecomesReady ==
  /\ op.stage = "ready"
  /\ \/ Fails("ReadinessFailed")
     \/ Stage(IF op.approval.explicit THEN "approve" ELSE "graph") /\ UNCHANGED candidate
  /\ UNCHANGED <<bound, record, grants, schema, active, store, graph, policy, ops, last, before,
                 ran>>

SavesGrants ==
  /\ op.stage = "approve"
  /\ \/ Ends /\ UNCHANGED grants
     \/ grants' = [grants EXCEPT ![op.i] = op.approval.grants] /\ Stage("graph")
  /\ UNCHANGED <<candidate, bound, record, schema, active, store, graph, policy, ops, last, before,
                 ran>>

\* commit_graph; its failure event is not one that an activating candidate accepts.
CommitsGraph ==
  /\ op.stage = "graph"
  /\ \/ Fails("ResolutionFailed") /\ UNCHANGED <<store, graph>>
     \/ /\ Candidacy.status = "built"
        /\ store' = [store EXCEPT ![op.i] = FaceOf[op.d]] /\ graph' = Candidacy
        /\ Stage(IF op.kind = "upgrade" THEN "retire" ELSE "record")
        /\ UNCHANGED candidate
  /\ UNCHANGED <<bound, record, grants, schema, active, policy, ops, last, before, ran>>

\* Mutant: the old version starts to drain before the records of the switch are written.
RetiresOldFirst ==
  /\ op.stage = "retire"
  /\ IF active[op.i] = NoDigest \/ ~Accepts(candidate[op.old], "DrainStarted")
     THEN Ends /\ UNCHANGED candidate
     ELSE Moved(op.old, "DrainStarted") /\ (Ends \/ Stage("record"))
  /\ UNCHANGED <<bound, record, grants, schema, active, store, graph, policy, ops, last, before,
                 ran>>

\* The previous runtime, the records of the switch, the old version's drain.
RetiresOld ==
  /\ op.stage = "retire"
  /\ IF active[op.i] = NoDigest \/ ~Accepts(candidate[op.old], "DrainStarted")
     THEN Ends /\ UNCHANGED candidate
     ELSE \/ Ends /\ UNCHANGED candidate
          \/ Moved(op.old, "DrainStarted") /\ Stage("record")
  /\ UNCHANGED <<bound, record, grants, schema, active, store, graph, policy, ops, last, before,
                 ran>>

\* Mutant: an enabled version becomes its own rollback target.
NewTargetOnEnable == IF op.kind = "upgrade" THEN op.old ELSE op.d

\* The rollback target: the version left, the first version, the one there was.
NewTarget ==
  CASE op.kind = "upgrade" -> op.old
    [] op.kind = "install" -> op.d
    [] op.kind = "enable" -> op.lkg

WritesRecord ==
  /\ op.stage = "record"
  /\ \/ op.kind # "upgrade" /\ Ends /\ UNCHANGED <<record, candidate>>
     \/ /\ record' = [record EXCEPT ![op.i] = [digest |-> op.d, lkg |-> NewTarget,
                                               state |-> "Active"]]
        /\ Moved(op.d, "ReadinessSucceeded")
        /\ Stage("swap")
  /\ UNCHANGED <<bound, grants, schema, active, store, graph, policy, ops, last, before, ran>>

SwapsActive ==
  /\ op.stage = "swap"
  /\ active' = [active EXCEPT ![op.i] = op.d]
  /\ last' = [last EXCEPT ![op.i] = op.d]
  /\ before' = [before EXCEPT ![op.i] = IF last[op.i] = op.d THEN @ ELSE last[op.i]]
  /\ IF op.kind = "upgrade" THEN Stage("drain") ELSE Ends
  /\ UNCHANGED <<candidate, bound, record, grants, schema, store, graph, policy, ops, ran>>

\* drain_previous: two audit records around the drain.
DrainsPrevious ==
  /\ op.stage = "drain"
  /\ Ends
  /\ Moved(op.old, "DrainCompleted") \/ UNCHANGED candidate
  /\ UNCHANGED <<bound, record, grants, schema, active, store, graph, policy, ops, last, before,
                 ran>>

-----------------------------------------------------------------------------
(* Disable, uninstall, grants, policy. *)

BeginsAt(i, stage) == op' = [stage |-> stage, kind |-> "stop", i |-> i] /\ ops' = ops + 1

Disables(i) ==
  /\ op = Idle /\ ops < MaxOps
  /\ Accepts(record[i].state, "DrainStarted")
  /\ record' = [record EXCEPT ![i].state = "Draining"]
  /\ BeginsAt(i, "disable")
  /\ UNCHANGED <<candidate, bound, grants, schema, active, store, graph, policy, last, before, ran>>

\* A drain that fails leaves the record as it is.
DrainsDisabled ==
  /\ op.stage = "disable"
  /\ \/ Ends /\ UNCHANGED record
     \/ record' = [record EXCEPT ![op.i].state = "Disabled"] /\ Stage("unserve")
  /\ UNCHANGED <<candidate, bound, grants, schema, active, store, graph, policy, ops, last, before,
                 ran>>

\* Mutant: the entry stays in the map.
KeepsServing ==
  /\ op.stage = "unserve" /\ Ends
  /\ UNCHANGED <<candidate, bound, record, grants, schema, active, store, graph, policy, ops, last,
                 before, ran>>

\* ActiveRuntimeRegistry::remove; nothing depends on the audit behind it.
StopsServing ==
  /\ op.stage = "unserve"
  /\ active' = [active EXCEPT ![op.i] = NoDigest]
  /\ Ends
  /\ UNCHANGED <<candidate, bound, record, grants, schema, store, graph, policy, ops, last, before,
                 ran>>

Uninstalls(i) ==
  /\ op = Idle /\ ops < MaxOps
  /\ record[i] # NoRecord
  /\ DirectConsumers(graph, i) = {}
  /\ BeginsAt(i, "uninstall")
  /\ UNCHANGED <<candidate, bound, record, grants, schema, active, store, graph, policy, last,
                 before, ran>>

\* The drain of what is served may fail, and so may its audit records.
DrainsRemoved ==
  /\ op.stage = "uninstall"
  /\ \/ active[op.i] # NoDigest /\ Ends /\ UNCHANGED active
     \/ active' = [active EXCEPT ![op.i] = NoDigest] /\ Stage("deactivate")
  /\ UNCHANGED <<candidate, bound, record, grants, schema, store, graph, policy, ops, last, before,
                 ran>>

\* scheduler.stop, event.stop and deactivate, which the policy may refuse.
LeavesGraph ==
  LET remaining == Candidate(policy, [store EXCEPT ![op.i] = NoFace]) IN
  /\ op.stage = "deactivate"
  /\ \/ Ends /\ UNCHANGED <<store, graph>>
     \/ /\ remaining.status = "built"
        /\ store' = [store EXCEPT ![op.i] = NoFace] /\ graph' = remaining
        /\ Stage("delete")
  /\ UNCHANGED <<candidate, bound, record, grants, schema, active, policy, ops, last, before, ran>>

\* One transaction, with its audit record.
DeletesInstallation ==
  /\ op.stage = "delete" /\ Ends
  /\ \/ UNCHANGED <<record, grants, schema>>
     \/ /\ record' = [record EXCEPT ![op.i] = NoRecord]
        /\ grants' = [grants EXCEPT ![op.i] = {}]
        /\ schema' = [schema EXCEPT ![op.i] = 0]
  /\ UNCHANGED <<candidate, bound, active, store, graph, policy, ops, last, before, ran>>

ReplacesGrants(i, S) ==
  /\ op = Idle /\ ops < MaxOps /\ record[i] # NoRecord
  /\ grants' = [grants EXCEPT ![i] = S]
  /\ ops' = ops + 1
  /\ UNCHANGED <<candidate, bound, record, schema, active, store, graph, policy, op, last, before,
                 ran>>

\* update_policy, refused when the records make no graph under it.
ReplacesPolicy(p) ==
  /\ op = Idle /\ ops < MaxOps
  /\ Candidate(p, store).status = "built"
  /\ policy' = p /\ graph' = Candidate(p, store)
  /\ ops' = ops + 1
  /\ UNCHANGED <<candidate, bound, record, grants, schema, active, store, op, last, before, ran>>

\* The first write of a component that is served sets the version of its state.
WritesFirstState(i) ==
  /\ active[i] # NoDigest /\ schema[i] = 0 /\ SchemaOf[active[i]] # 0
  /\ schema' = [schema EXCEPT ![i] = SchemaOf[active[i]]]
  /\ UNCHANGED <<candidate, bound, record, grants, active, store, graph, policy, op, ops, last,
                 before, ran>>

Pipelines ==
  \/ PersistsCandidate \/ Identifies \/ Registers \/ PassesGate \/ ResolvesImports
  \/ RunsSchemaPhase \/ RequestsActivation \/ BecomesReady \/ SavesGrants \/ CommitsGraph
  \/ RetiresOld \/ WritesRecord \/ SwapsActive \/ DrainsPrevious

Next ==
  \/ \E i \in Installations, d \in Digests, S \in SUBSET Capabilities : Installs(i, d, S)
  \/ \E i \in Installations, d \in Digests, a \in Approvals : Upgrades(i, d, a)
  \/ \E i \in Installations :
       RollsBack(i) \/ Enables(i) \/ Disables(i) \/ Uninstalls(i) \/ WritesFirstState(i)
  \/ \E i \in Installations, S \in SUBSET Capabilities : ReplacesGrants(i, S)
  \/ \E p \in Policies : ReplacesPolicy(p)
  \/ Pipelines
  \/ DrainsDisabled \/ StopsServing \/ DrainsRemoved \/ LeavesGraph \/ DeletesInstallation

Spec == Init /\ [][Next]_vars

-----------------------------------------------------------------------------
(* Properties. *)

Busy(i, stages) == op.i = i /\ op.stage \in stages

\* Hazard: the durable record and the map of what is served change in separate steps
\* of every operation, and each operation may stop half way.  What is served is what
\* the record says, active or draining, but between the two steps of a switch.
ServedIsRecorded ==
  \A i \in Installations :
    active[i] # NoDigest /\ ~Busy(i, {"swap", "unserve"}) =>
      record[i].digest = active[i] /\ record[i].state \in {"Active", "Draining"}

\* The store has the schema that d declares.  Or, if the operation found it empty, it is
\* empty still, or has the schema of the version that is replaced, which has written its
\* first state since.
SchemaSettled(i, d) ==
  \/ SchemaOf[d] = 0
  \/ schema[i] = SchemaOf[d]
  \/ op.empty /\ (schema[i] = 0 \/ (active[i] # NoDigest /\ schema[i] = SchemaOf[active[i]]))

\* Hazard: gate, permissions and schema are checked early, the grants are written, the
\* graph is committed and the state may be written by the old version before the
\* switch.  A version that begins to serve has every capability it uses, a provider on
\* record for every need, and its own schema in the store.  The check of the schema goes
\* stale in one way: a store that was empty then may have the old version's schema.
ActivationWasChecked ==
  [][\A i \in Installations :
       LET d == active'[i] IN
       d \notin {active[i], NoDigest} =>
         /\ Uses[d] \subseteq grants[i]
         /\ store[i] = FaceOf[d]
         /\ \A r \in FaceOf[d].requires :
              \E e \in graph.edges :
                /\ e.consumer = i /\ e.requirement = r
                /\ \E o \in store[e.provider].provides : Satisfies(o, r)
         /\ SchemaSettled(i, d)]_vars

\* Hazard: upgrades, rollbacks, failed ones, disable and enable each write the
\* rollback target.  It is always the version the installation served before the one
\* of its record, or that one if there was no other.
RollbackTargetIsPrevious ==
  \A i \in Installations :
    record[i].lkg # NoDigest /\ ~Busy(i, {"swap"}) =>
      record[i].lkg = IF before[i] = NoDigest THEN last[i] ELSE before[i]

\* Hazard: an upgrade moves the candidate of the version it leaves, which must still
\* be active then, long after its own switch and any number of failed upgrades.
\* Between operations the version an installation serves by its record can be left,
\* if no other installation ran the pipeline on the same bytes.
ServedCanBeLeft ==
  op = Idle =>
    \A i \in Installations :
      active[i] # NoDigest /\ record[i].state = "Active" /\ ran[active[i]] = {i} =>
        Accepts(candidate[active[i]], "DrainStarted")
=============================================================================

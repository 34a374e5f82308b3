------------------------------ MODULE Composition ------------------------------
(***************************************************************************)
(* The composition service (crates/application/src/composition.rs): the    *)
(* contract records kept in the store, the policy and the snapshot of the  *)
(* provider graph, both in memory, and the administrators who commit an    *)
(* activation or an upgrade, deactivate an installation or replace the     *)
(* policy.  A call reads the records, judges the graph they would give,    *)
(* writes the audit, writes its change and swaps the snapshot; no lock     *)
(* spans two of these.                                                     *)
(*                                                                         *)
(* A new process finds the records of the last one, an empty snapshot and  *)
(* the policy it is constructed with, which nothing stores.                *)
(***************************************************************************)
EXTENDS ProviderGraph

CONSTANTS Admins,
          Faces,     \* of the component versions that may be committed
          MaxCalls,  \* bound on the calls
          MaxStarts  \* bound on the restarts

ASSUME FacesAssumption ==
  \A f \in Faces :
    /\ f \in [provides : SUBSET Offers, requires : SUBSET Requirements]
    /\ IsFiniteSet(f.provides) /\ IsFiniteSet(f.requires)

VARIABLES records,    \* the face recorded for each installation
          inForce,    \* the policy
          snapshot,   \* of the graph, the one readers use
          call,       \* the call each administrator has in progress
          overlapped, \* two calls of this store have been in progress at once
          calls, starts

serviceVars == <<records, inForce, snapshot, call, overlapped, calls, starts>>

NoCall == [step |-> "idle"]

ServiceInit ==
  /\ records = [i \in Installations |-> NoFace]
  /\ inForce = NoPolicy
  /\ snapshot = EmptyGraph
  /\ call = [a \in Admins |-> NoCall]
  /\ overlapped = FALSE
  /\ calls = 0 /\ starts = 0

-----------------------------------------------------------------------------
(* A call. *)

\* The call replaces the face of an installation (by none to deactivate it) or the policy.
Changes == [kind : {"face"}, installation : Installations, face : Faces \cup {NoFace}]
           \cup [kind : {"policy"}, policy : Policies]

Steps(a, step) == call' = [call EXCEPT ![a].step = step]

StartsCall(a, change) ==
  /\ call[a].step = "idle" /\ calls < MaxCalls
  /\ call' = [call EXCEPT ![a] =
              [step |-> IF change.kind = "face" /\ change.face # NoFace THEN "gate" ELSE "load",
               change |-> change, faces |-> records, policy |-> inForce, result |-> EmptyGraph]]
  /\ overlapped' = (overlapped \/ \E b \in Admins : call[b].step # "idle")
  /\ calls' = calls + 1
  /\ UNCHANGED <<records, inForce, snapshot, starts>>

\* check_upgrade: a provider of the snapshot must keep what its consumers use.
KeepsConsumers(change) ==
  change.installation \in snapshot.providers => Safe(snapshot, change.installation, change.face.provides)

Gates(a) ==
  /\ call[a].step = "gate"
  /\ IF KeepsConsumers(call[a].change) THEN Steps(a, "load")
     ELSE call' = [call EXCEPT ![a].step = "refused", ![a].faces = records, ![a].policy = inForce,
                           ![a].result = NoGraph("unsafe", <<>>)]
  /\ UNCHANGED <<records, inForce, snapshot, overlapped, calls, starts>>

\* The old record of the installation is left out, the new one added.
Loads(a) ==
  /\ call[a].step = "load"
  /\ call' = [call EXCEPT ![a].step = "judge",
                      ![a].faces = IF call[a].change.kind = "face"
                                   THEN [records EXCEPT ![call[a].change.installation] = call[a].change.face]
                                   ELSE records]
  /\ UNCHANGED <<records, inForce, snapshot, overlapped, calls, starts>>

Judges(a) ==
  LET judged == IF call[a].change.kind = "policy" THEN call[a].change.policy ELSE inForce
      result == Candidate(judged, call[a].faces)
  IN  /\ call[a].step = "judge"
      /\ call' = [call EXCEPT ![a].policy = judged, ![a].result = result,
                          ![a].step = IF result.status = "built" THEN "audit" ELSE "refused"]
      /\ UNCHANGED <<records, inForce, snapshot, overlapped, calls, starts>>

\* The audit fails closed; behind it the change is written.
Commits(a) ==
  /\ call[a].step = "audit"
  /\ \/ call' = [call EXCEPT ![a] = NoCall] /\ UNCHANGED <<records, inForce>>
     \/ /\ Steps(a, "swap")
        /\ IF call[a].change.kind = "face"
           THEN records' = [records EXCEPT ![call[a].change.installation] = call[a].change.face]
                /\ UNCHANGED inForce
           ELSE inForce' = call[a].change.policy /\ UNCHANGED records
  /\ UNCHANGED <<snapshot, overlapped, calls, starts>>

Swaps(a) ==
  /\ call[a].step = "swap"
  /\ snapshot' = call[a].result
  /\ call' = [call EXCEPT ![a] = NoCall]
  /\ UNCHANGED <<records, inForce, overlapped, calls, starts>>

ReturnsError(a) ==
  /\ call[a].step = "refused"
  /\ call' = [call EXCEPT ![a] = NoCall]
  /\ UNCHANGED <<records, inForce, snapshot, overlapped, calls, starts>>

Restarts ==
  /\ starts < MaxStarts
  /\ inForce' = NoPolicy /\ snapshot' = EmptyGraph
  /\ call' = [a \in Admins |-> NoCall]
  /\ starts' = starts + 1
  /\ UNCHANGED <<records, overlapped, calls>>

ServiceNext ==
  \/ \E a \in Admins : \E change \in Changes : StartsCall(a, change)
  \/ \E a \in Admins : Gates(a) \/ Loads(a) \/ Judges(a) \/ Commits(a) \/ Swaps(a) \/ ReturnsError(a)
  \/ Restarts

ServiceSpec == ServiceInit /\ [][ServiceNext]_serviceVars

-----------------------------------------------------------------------------
(* What the rules say, without the algorithms. *)

\* The installations that may serve a requirement under a policy.
Servers(rules, faces, r) ==
  {i \in Installations \ rules.excluded :
     /\ rules.bound[r.iface] \in {NoBinding, i}
     /\ \E o \in faces[i].provides : Satisfies(o, r)}

DependsOn(rules, faces, i, j) == \E r \in faces[i].requires : Servers(rules, faces, r) = {j}

\* No set of installations in which everyone needs another of them.
Acyclic(rules, faces) ==
  \A S \in (SUBSET Installations) \ {{}} :
    \E i \in S : \A j \in S : ~DependsOn(rules, faces, i, j)

\* An excluded provider can not be bound, so a binding is fulfilled by the record.
Legal(rules, faces) ==
  /\ \A k \in Interfaces : rules.bound[k] # NoBinding => Exports(faces[rules.bound[k]], k)
  /\ \A need \in Needs(faces) : Cardinality(Servers(rules, faces, need[2])) = 1
  /\ Acyclic(rules, faces)

\* The walk returns to its first node, meets no other twice and follows dependencies.
IsCycle(rules, faces, walk) ==
  /\ Len(walk) > 1 /\ walk[1] = walk[Len(walk)]
  /\ Cardinality(ToSet(walk)) = Len(walk) - 1
  /\ \A n \in 1..Len(walk) - 1 : DependsOn(rules, faces, walk[n], walk[n + 1])

\* The snapshot was taken in this process and no call is about to replace it.
Settled == ~overlapped /\ snapshot # EmptyGraph /\ \A a \in Admins : call[a].step # "swap"

-----------------------------------------------------------------------------
(* Properties. *)

\* Hazards: a change is judged by a graph that is built and thrown away, and a
\* cycle is searched in what the ordering left over.  A change is refused exactly
\* when the records it read, with it, break the rules: a binding nobody fulfils, a
\* need with no server or several, a cycle; and a cycle that is reported is one.
VerdictIsRight ==
  \A a \in Admins :
    /\ call[a].step = "audit" => Legal(call[a].policy, call[a].faces)
    /\ call[a].step = "refused" /\ call[a].result.status # "unsafe" => ~Legal(call[a].policy, call[a].faces)
    /\ call[a].step = "refused" /\ call[a].result.status = "cycle" =>
         IsCycle(call[a].policy, call[a].faces, call[a].result.cycle)

\* Hazards: the records, the policy and the snapshot change at different moments,
\* and a restart keeps only the first.  When no two calls overlapped, the snapshot of
\* a process gives every need in the records its one server, at the highest
\* version that server has for it, and has no other edge.
SnapshotServesTheRecords ==
  Settled =>
    /\ {<<e.consumer, e.requirement>> : e \in snapshot.edges} = Needs(records)
    /\ Cardinality(snapshot.edges) = Cardinality(Needs(records))
    /\ \A e \in snapshot.edges :
         /\ Servers(inForce, records, e.requirement) = {e.provider}
         /\ \A o \in records[e.provider].provides :
              Satisfies(o, e.requirement) => o.version <= e.provided.version

\* Hazard: the order is the processed list reversed, and whoever deactivates by it
\* relies on what every removal leaves behind.  Deactivated one by one from the end
\* of the order, every participant that is not bound by the policy may go: at each
\* point the records that remain make a graph.
ReverseOrderDeactivates ==
  Settled =>
    \A n \in DOMAIN snapshot.order :
      LET gone == {snapshot.order[m] : m \in n..Len(snapshot.order)} IN
      (\A k \in Interfaces : inForce.bound[k] \notin gone) =>
        Legal(inForce, [i \in Installations |-> IF i \in gone THEN NoFace ELSE records[i]])

\* Hazard: an upgrade is judged twice, over the edges of the snapshot and over the
\* records.  The first refuses nothing the second would take: whenever the face of a
\* provider may be replaced by another, the edges of today stand under it too.
AnalysisAgrees ==
  Settled =>
    \A i \in snapshot.providers : \A face \in Faces :
      Legal(inForce, [records EXCEPT ![i] = face]) => Safe(snapshot, i, face.provides)
=============================================================================

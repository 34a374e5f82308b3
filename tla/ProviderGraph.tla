----------------------------- MODULE ProviderGraph -----------------------------
(***************************************************************************)
(* The graph of providers and consumers (crates/domain/src/graph.rs), the  *)
(* policy that narrows it (crates/application/src/composition.rs) and the  *)
(* analysis of an upgrade (crates/domain/src/upgrade.rs).                  *)
(*                                                                         *)
(* A face is what one component version exports and imports.  A contract   *)
(* assignment gives every installation the face recorded for it; an        *)
(* installation without a record has the empty face.  Installations are    *)
(* numbers: the code breaks every tie by their order.                      *)
(***************************************************************************)
EXTENDS Integers, FiniteSets, Sequences, SequencesExt

CONSTANTS Installations, \* the ids of installations
          Interfaces,    \* package and interface names
          Versions,      \* of an interface
          Policies       \* that an administrator may ask for

NoBinding == 0
ASSUME InstallationsAssumption ==
  Installations \subseteq Nat \ {NoBinding} /\ IsFiniteSet(Installations)
ASSUME InterfacesAssumption == Interfaces \subseteq Nat /\ Versions \subseteq Nat

Offers == [iface : Interfaces, version : Versions]
\* A requirement names an interface and the versions its semver range admits.
Requirements == [iface : Interfaces, versions : SUBSET Versions]

NoFace == [provides |-> {}, requires |-> {}]
IsProvider(faces, i) == faces[i].provides # {}

\* InterfaceRequirement::satisfied_by
Satisfies(offer, r) == offer.iface = r.iface /\ offer.version \in r.versions

-----------------------------------------------------------------------------
(* Resolution: exactly one provider, and its highest version that fits. *)

Exporters(faces, r) ==
  {i \in Installations : \E o \in faces[i].provides : o.iface = r.iface}
Candidates(faces, r) ==
  {i \in Installations : \E o \in faces[i].provides : Satisfies(o, r)}

\* Mutant: two versions of one provider count as two candidates.
ResolutionByEntry(faces, r) ==
  LET entries == {e \in Candidates(faces, r) \X Offers :
                    e[2] \in faces[e[1]].provides /\ Satisfies(e[2], r)} IN
  CASE Exporters(faces, r) = {} -> "missing"
    [] Exporters(faces, r) # {} /\ entries = {} -> "incompatible"
    [] Cardinality(entries) > 1 -> "ambiguous"
    [] Cardinality(entries) = 1 -> "resolved"

Resolution(faces, r) ==
  LET candidates == Candidates(faces, r) IN
  CASE Exporters(faces, r) = {} -> "missing"
    [] Exporters(faces, r) # {} /\ candidates = {} -> "incompatible"
    [] Cardinality(candidates) > 1 -> "ambiguous"
    [] Cardinality(candidates) = 1 -> "resolved"

\* Mutant: the first entry that fits, not the last.
Lowest(offers) == CHOOSE o \in offers : \A p \in offers : p.version >= o.version

Highest(offers) == CHOOSE o \in offers : \A p \in offers : p.version <= o.version

Needs(faces) ==
  {need \in Installations \X Requirements : need[2] \in faces[need[1]].requires}

EdgeOf(faces, need) ==
  LET provider == CHOOSE i \in Installations : i \in Candidates(faces, need[2]) IN
  [consumer |-> need[1], requirement |-> need[2], provider |-> provider,
   provided |-> Highest({o \in faces[provider].provides : Satisfies(o, need[2])})]

-----------------------------------------------------------------------------
(* The activation order: Kahn's algorithm from the consumers, reversed. *)

Least(S) == CHOOSE x \in S : \A y \in S : x <= y

Participants(faces, edges) ==
  {i \in Installations : IsProvider(faces, i)} \cup {e.consumer : e \in edges}

\* Mutant: the in-degrees are counted at the wrong end of the edges.
ReadyProviders(nodes, edges, done) ==
  {i \in nodes \ done : \A e \in edges : e.consumer = i => e.provider \in done}

\* An installation is ready when all that depend on it have been processed.
Ready(nodes, edges, done) ==
  {i \in nodes \ done : \A e \in edges : e.provider = i => e.consumer \in done}

NextProcessed(nodes, edges, prefix) ==
  LET ready == Ready(nodes, edges, ToSet(prefix)) IN
  IF ready = {} THEN prefix ELSE Append(prefix, Least(ready))

Processed(nodes, edges) ==
  LET prefix[n \in 0..Cardinality(nodes)] ==
        IF n = 0 THEN <<>> ELSE NextProcessed(nodes, edges, prefix[n - 1])
  IN  prefix[Cardinality(nodes)]

-----------------------------------------------------------------------------
(* The report of a cycle: depth first among the providers left over. *)

\* The code takes the edges in the order of the requirements, which a face does not keep.
Neighbours(edges, i) ==
  LET out == SetToSeq({e \in edges : e.consumer = i})
  IN  [n \in DOMAIN out |-> out[n].provider]

\* The first root of the walk, or the next one when the path is empty.
Restarted(walk, remaining) ==
  LET roots == remaining \ walk.visited IN
  IF roots = {} THEN walk
  ELSE [walk EXCEPT !.path = <<Least(roots)>>, !.visited = @ \cup {Least(roots)}]

Walked(walk, edges) ==
  LET top == Last(walk.path)
      out == Neighbours(edges, top)
      n == walk.next[top]
      here == [walk EXCEPT !.next[top] = n + 1]
  IN  IF n > Len(out) THEN [walk EXCEPT !.path = Front(walk.path)]
      ELSE IF out[n] \in ToSet(walk.path)
           THEN LET first == CHOOSE k \in DOMAIN walk.path : walk.path[k] = out[n] IN
                [here EXCEPT !.cycle =
                   Append(SubSeq(walk.path, first, Len(walk.path)), out[n])]
           ELSE IF out[n] \in walk.visited THEN here
                ELSE [here EXCEPT !.path = Append(@, out[n]), !.visited = @ \cup {out[n]}]

WalkStep(walk, remaining, edges) ==
  CASE walk.cycle # <<>> -> walk
    [] walk.cycle = <<>> /\ walk.path = <<>> -> Restarted(walk, remaining)
    [] OTHER -> Walked(walk, edges)

\* find_cycle; every node is entered and left once and every edge taken once.
FoundCycle(remaining, edges) ==
  LET start == [path |-> <<>>, visited |-> {}, cycle |-> <<>>,
                next |-> [i \in Installations |-> 1]]
      steps == 3 * Cardinality(Installations) + Cardinality(edges)
      walk[n \in 0..steps] ==
        IF n = 0 THEN start ELSE WalkStep(walk[n - 1], remaining, edges)
  IN  walk[steps].cycle

-----------------------------------------------------------------------------
(* The graph, or the reason why there is none. *)

NoGraph(why, cycle) ==
  [status |-> why, providers |-> {}, edges |-> {}, order |-> <<>>, cycle |-> cycle]

TryBuild(faces) ==
  LET needs == Needs(faces) IN
  IF \E need \in needs : Resolution(faces, need[2]) # "resolved"
  THEN NoGraph("unresolved", <<>>)
  ELSE LET edges == {EdgeOf(faces, need) : need \in needs}
           nodes == Participants(faces, edges)
           processed == Processed(nodes, edges)
       IN  IF Len(processed) = Cardinality(nodes)
           THEN [status |-> "built",
                 providers |-> {i \in Installations : IsProvider(faces, i)},
                 edges |-> edges, order |-> Reverse(processed), cycle |-> <<>>]
           ELSE NoGraph("cycle",
                  FoundCycle({i \in nodes \ ToSet(processed) : IsProvider(faces, i)}, edges))

EmptyGraph == TryBuild([i \in Installations |-> NoFace])

DirectConsumers(graph, i) == {e.consumer : e \in {f \in graph.edges : f.provider = i}}
Listed(graph) == ToSet(graph.order)

-----------------------------------------------------------------------------
(* The graph policy. *)

NoPolicy == [bound |-> [k \in Interfaces |-> NoBinding], excluded |-> {}]

\* bind and exclude keep a provider from being both.
PolicyOK(policy) ==
  \A k \in Interfaces : policy.bound[k] # NoBinding => policy.bound[k] \notin policy.excluded

ASSUME PoliciesAssumption ==
  \A p \in Policies :
    /\ p \in [bound : [Interfaces -> Installations \cup {NoBinding}], excluded : SUBSET Installations]
    /\ PolicyOK(p)

Exports(face, k) == \E o \in face.provides : o.iface = k

\* GraphPolicy::apply fails when a bound provider does not export the interface.
PolicyApplies(policy, faces) ==
  \A k \in Interfaces :
    policy.bound[k] # NoBinding => Exports(faces[policy.bound[k]], k)

Narrowed(policy, faces) ==
  [i \in Installations |->
     [faces[i] EXCEPT !.provides =
        IF i \in policy.excluded THEN {}
        ELSE {o \in @ : policy.bound[o.iface] \in {NoBinding, i}}]]

\* CompositionService::build_candidate
Candidate(policy, faces) ==
  IF PolicyApplies(policy, faces) THEN TryBuild(Narrowed(policy, faces))
  ELSE NoGraph("policy", <<>>)

-----------------------------------------------------------------------------
(* ProviderGraph::analyze_upgrade: the edges of today under the new exports. *)

\* Mutant: a consumer is kept only by the very version it uses today.
SafeExact(graph, i, provides) ==
  \A e \in graph.edges : e.provider = i => e.provided \in provides

Safe(graph, i, provides) ==
  \A e \in graph.edges :
    e.provider = i => \E o \in provides : Satisfies(o, e.requirement)
=============================================================================

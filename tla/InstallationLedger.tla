-------------------------- MODULE InstallationLedger --------------------------
(***************************************************************************)
(* What ComponentRegistryPort promises about the records of installations  *)
(* (crates/application/src/ports/registry.rs), each read and write at      *)
(* once: a record appears with a version that is not served yet, its       *)
(* lifecycle moves along the component state machine, the version and the  *)
(* digest it serves change together, and a removed one never comes back.   *)
(***************************************************************************)
EXTENDS Naturals

CONSTANTS Installations, Versions, NoVersion

VARIABLES record, \* the record of each installation
          gone    \* the installations that were removed

vars == <<record, gone>>

NoRecord == [version |-> NoVersion, serves |-> NoVersion, state |-> "None"]

\* ComponentLifecycleState: the way from an accepted to a serving component.
NextState == [Installed |-> "Validated", Validated |-> "Activating", Activating |-> "Active"]

Init ==
  /\ record = [i \in Installations |-> NoRecord]
  /\ gone = {}

Insert(i, v) ==
  /\ record[i] = NoRecord
  /\ i \notin gone
  /\ record' = [record EXCEPT ![i] = [NoRecord EXCEPT !.version = v, !.state = "Installed"]]
  /\ UNCHANGED gone

Advance(i) ==
  /\ record[i].state \in DOMAIN NextState
  /\ record' = [record EXCEPT ![i].state = NextState[@]]
  /\ UNCHANGED gone

\* What is served first is what was inserted.
Serve(i, v) ==
  /\ record[i] # NoRecord
  /\ record[i].serves = NoVersion => record[i].version = v
  /\ record' = [record EXCEPT ![i].version = v, ![i].serves = v]
  /\ UNCHANGED gone

Remove(i) ==
  /\ record[i] # NoRecord
  /\ record' = [record EXCEPT ![i] = NoRecord]
  /\ gone' = gone \cup {i}

Next ==
  \E i \in Installations :
    \/ Advance(i) \/ Remove(i)
    \/ \E v \in Versions : Insert(i, v) \/ Serve(i, v)

Spec == Init /\ [][Next]_vars
=============================================================================

--------------------------- MODULE VersionedStore ---------------------------
(***************************************************************************)
(* What the state store promises about its durable contents, without       *)
(* connections, transactions or commands: each durable change concerns one *)
(* installation and takes effect at once; it never moves the installation's*)
(* schema version backwards; and every row it writes is stamped with the   *)
(* version it leaves behind, so no row is ever newer than the store.       *)
(***************************************************************************)
EXTENDS Integers

CONSTANTS Installations, Keys, Values,
          Versions     \* natural numbers

NoVersion == -1     \* the version of a store nobody has written to
NoRow == [version |-> NoVersion, value |-> "no value"]
Rows == [version : Versions, value : Values]

VARIABLES
  rows,       \* rows[i][k], the durable row or NoRow
  marker      \* marker[i], the durable schema version or NoVersion

vars == <<rows, marker>>

Init ==
  /\ rows = [i \in Installations |-> [k \in Keys |-> NoRow]]
  /\ marker = [i \in Installations |-> NoVersion]

\* Any number of keys of installation i change together, at version v.
Update(i, v) ==
  \E new \in [Keys -> Rows \cup {NoRow}] :
     /\ marker[i] <= v
     /\ \A k \in Keys : new[k] \in {rows[i][k], NoRow} \/ new[k].version = v
     /\ rows' = [rows EXCEPT ![i] = new]
     /\ marker' = [marker EXCEPT ![i] = v]

Clear(i) ==
  /\ rows' = [rows EXCEPT ![i] = [k \in Keys |-> NoRow]]
  /\ marker' = [marker EXCEPT ![i] = NoVersion]

Next == \E i \in Installations : Clear(i) \/ \E v \in Versions : Update(i, v)

Spec == Init /\ [][Next]_vars
=============================================================================

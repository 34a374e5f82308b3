----------------------------- MODULE FireLedger -----------------------------
(***************************************************************************)
(* What operune:scheduler@0.1.0 promises about the fires of a task,        *)
(* without drivers, channels or time.  Fire n of a task is used up exactly *)
(* once: it is accepted for delivery or missed for good.  An accepted fire *)
(* is handled at most once, whether its task is still open or not.         *)
(***************************************************************************)
EXTENDS Naturals

CONSTANT Tasks

VARIABLES status,    \* new, open, or closed for further fires
          fired,     \* fires used up so far
          accepted,  \* fires under way to the handler
          handled    \* fires the handler has seen

vars == <<status, fired, accepted, handled>>

Init ==
  /\ status   = [t \in Tasks |-> "new"]
  /\ fired    = [t \in Tasks |-> 0]
  /\ accepted = [t \in Tasks |-> {}]
  /\ handled  = [t \in Tasks |-> {}]

Open(t) ==
  /\ status[t] = "new"
  /\ status' = [status EXCEPT ![t] = "open"]
  /\ UNCHANGED <<fired, accepted, handled>>

\* Cancelling closes one task, stopping an installation all of its tasks.
Close(S) ==
  /\ \A t \in S : status[t] = "open"
  /\ status' = [t \in Tasks |-> IF t \in S THEN "closed" ELSE status[t]]
  /\ UNCHANGED <<fired, accepted, handled>>

\* A one-shot task closes with its fire.
MayClose(t) == status' \in {status, [status EXCEPT ![t] = "closed"]}

Accept(t) ==
  /\ status[t] = "open"
  /\ fired' = [fired EXCEPT ![t] = @ + 1]
  /\ accepted' = [accepted EXCEPT ![t] = @ \cup {fired[t] + 1}]
  /\ MayClose(t)
  /\ UNCHANGED handled

\* Any number of consecutive fires is missed at once.
Miss(t) ==
  /\ status[t] = "open"
  /\ fired'[t] > fired[t]
  /\ fired' = [fired EXCEPT ![t] = fired'[t]]
  /\ MayClose(t)
  /\ UNCHANGED <<accepted, handled>>

Handle(t) ==
  \E n \in accepted[t] \ handled[t] :
    /\ accepted' = [accepted EXCEPT ![t] = @ \ {n}]
    /\ handled' = [handled EXCEPT ![t] = @ \cup {n}]
    /\ UNCHANGED <<status, fired>>

Next ==
  \/ \E t \in Tasks : Open(t) \/ Accept(t) \/ Miss(t) \/ Handle(t)
  \/ \E S \in SUBSET Tasks : Close(S)

Spec == Init /\ [][Next]_vars
=============================================================================

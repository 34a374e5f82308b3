-------------------------- MODULE StoragePortsProofs --------------------------
(***************************************************************************)
(* Proofs about StoragePorts for any number of installations, callers and  *)
(* calls, any finite set of versions and any span of the clock: the tables *)
(* implement InstallationLedger, what a read returns was true of them, and *)
(* the number a put answered is kept.                                      *)
(***************************************************************************)
EXTENDS StoragePorts, FiniteSetTheorems, TLAPS

-----------------------------------------------------------------------------
(* Types. *)

Serving == Versions \cup {NoVersion}
Rows == [Names -> Nat]

Targets == States \cup {"Draining"}

RegistryCalls ==
  [at : Reading \cup Writing \cup {"inserted"}, i : Installations, v : Serving,
   target : Targets, state : States, binding : Serving]
PutCalls == [at : Putting, i : Installations, n : Names]

CallTypes == {Idle} \cup RegistryCalls \cup PutCalls

Records ==
  [kind : {"record"}, i : Installations, serves : Serving, version : Versions,
   lastKnownGood : Serving]
Corrupt == [kind : {"corrupt"}, i : Installations]
Disappeared == [kind : {"disappeared"}, i : Installations, n : Names]

AnswerTypes == {NoAnswer} \cup Records \cup Corrupt \cup Disappeared

Views == [version : Serving, serves : Serving]

WatchOK == watch \in [Callers -> [shown : SUBSET Views, disturbed : BOOLEAN]]

TypeOK ==
  /\ life \in [Installations -> States]
  /\ bound \in [Installations -> [Versions -> Bound \cup {Unbound}]]
  /\ active \in [Installations -> Serving]
  /\ revision \in [Installations -> Rows]
  /\ durable \in [Installations -> Rows]
  /\ promised \in [Installations -> Rows]
  /\ txOpen \in BOOLEAN
  /\ call \in [Callers -> CallTypes]
  /\ answer \in [Callers -> AnswerTypes]
  /\ calls \in Nat
  /\ used \subseteq Installations
  /\ interrupted \subseteq Installations
  /\ served \in [Installations -> SUBSET Versions]
  /\ WatchOK

-----------------------------------------------------------------------------
(* The registry. *)

\* Before its first switch an installation is young: it is not served, it is at most
\* validated, and it has at most one version, a candidate.
YoungRow(i) ==
  active[i] = NoVersion =>
    /\ life[i] \in {"None", "Installed", "Validated"}
    /\ \A v \in Versions : bound[i][v].state # "installed"
    /\ \A v, w \in Candidates(i) : v = w

\* Without a row there is no other row; without a version there is an insertion under
\* way or one that was interrupted; and what is installed was served.
RowInv(i) ==
  /\ i \notin used => life[i] = "None"
  /\ life[i] = "None" => active[i] = NoVersion /\ \A v \in Versions : bound[i][v] = Unbound
  /\ YoungRow(i)
  /\ \A v \in Versions : bound[i][v].state = "installed" => v \in served[i]
  /\ life[i] # "None" /\ ~HasRecord(i) =>
       i \in interrupted \/ \E c \in Callers : At(c, "bind first") /\ call[c].i = i

\* The callers that write a row, or are about to.
Works(c) == call[c].at \in Writing \cup {"inserted"}
Young(i) == i \notin used \/ (life[i] # "None" /\ active[i] = NoVersion)

\* What a writer knows: it is alone at a young installation, and has bound its version.
WriterInv(c) ==
  LET i == call[c].i IN
  Works(c) =>
    /\ call[c].v \in Versions
    /\ At(c, "create") <=> i \notin used
    /\ call[c].at \in Inserting => call[c].target = "Validated"
    /\ At(c, "advance") => call[c].state \in DOMAIN NextState
    /\ Young(i) => \A d \in Callers : Works(d) /\ call[d].i = i => d = c
    /\ Young(i) /\ i \in used =>
         /\ Candidates(i) = IF At(c, "bind first") THEN {} ELSE {call[c].v}
         /\ At(c, "bind first") => life[i] = "Installed"
         /\ call[c].at \in {"read state", "advance"} => call[c].target = "Validated"
         /\ At(c, "advance") => call[c].state = "Installed"

RegistryInv ==
  /\ \A i \in Installations : RowInv(i)
  /\ \A c \in Callers : WriterInv(c)

-----------------------------------------------------------------------------
(* Config and secrets. *)

ConfigGone(i) == life[i] = "None" /\ i \in used

DisappearedIsGone(c) ==
  answer[c].kind = "disappeared" /\ answer[c].n = "config" => ConfigGone(answer[c].i)

\* Config that a caller has put, or did not find again.
PutterInv(c) ==
  /\ At(c, "read back") /\ call[c].n = "config" =>
       revision[call[c].i]["config"] > 0 \/ ConfigGone(call[c].i)
  /\ DisappearedIsGone(c)

ValueInv ==
  /\ revision = durable
  /\ \A i \in Installations, n \in Names : promised[i][n] <= durable[i][n]
  /\ \A c \in Callers : PutterInv(c)

-----------------------------------------------------------------------------
(* Reads. *)

\* What a reader knows: what the record shows now is among what it has seen; a
\* version that it found served was shown; and undisturbed, the row it found is still
\* there and what it found is not served still is not.
Knows(c, i) ==
  LET seen == watch[c] IN
  /\ ~At(c, "read row") /\ ~seen.disturbed => life[i] # "None"
  /\ At(c, "read versions") =>
       IF call[c].binding = NoVersion
       THEN seen.disturbed \/ active[i] = NoVersion
       ELSE [version |-> call[c].binding, serves |-> call[c].binding] \in seen.shown

ReaderInv(c) ==
  \A i \in Installations :
    call[c].at \in Reading /\ i = call[c].i =>
      /\ answer[c] = NoAnswer
      /\ Shown(i) \in watch[c].shown
      /\ WorkedOn(i) => watch[c].disturbed
      /\ Knows(c, i)

ReadInv ==
  /\ \A c \in Callers : ReaderInv(c)
  /\ AnswersWereTrue

-----------------------------------------------------------------------------
(* A finite set of numbers has a greatest one: the element above which     *)
(* there are fewest.                                                       *)

Above(T, x) == {y \in T : y > x}

LEMMA FewestAbove ==
  ASSUME NEW T \in SUBSET Nat, IsFiniteSet(T), T # {}
  PROVE  \E x \in T : \A y \in T :
           ~ (Above(T, y) \subseteq Above(T, x) /\ Above(T, y) # Above(T, x))
<1> DEFINE Sets == {Above(T, x) : x \in T}
<1>1. Sets \subseteq FiniteSubsetsOf(T) /\ Sets # {}
  <2>1. \A x \in T : Above(T, x) \in SUBSET T
    BY DEF Above
  <2>2. \A x \in T : IsFiniteSet(Above(T, x))
    BY <2>1, FS_Subset
  <2>3. QED
    BY <2>1, <2>2 DEF FiniteSubsetsOf
<1>2. IsWellFoundedOn(StrictSubsetOrdering(T), FiniteSubsetsOf(T))
  BY FS_StrictSubsetOrderingWellFounded
<1> HIDE DEF Sets
<1>3. PICK least \in Sets : \A other \in Sets : ~ (<<other, least>> \in StrictSubsetOrdering(T))
  BY <1>1, <1>2, WFMin
<1>4. \A other \in Sets : ~ (other \subseteq least /\ other # least)
  BY <1>1, <1>3 DEF StrictSubsetOrdering, FiniteSubsetsOf
<1>5. QED
  BY <1>4 DEF Sets

LEMMA GreatestOfFinite ==
  ASSUME NEW T \in SUBSET Nat, IsFiniteSet(T), T # {}
  PROVE  \E x \in T : \A y \in T : x >= y
<1>1. PICK x \in T : \A y \in T :
        ~ (Above(T, y) \subseteq Above(T, x) /\ Above(T, y) # Above(T, x))
  BY FewestAbove
<1>2. ASSUME NEW y \in T, y > x
      PROVE  FALSE
  <2>1. y \in Above(T, x) /\ y \notin Above(T, y)
    BY <1>2 DEF Above
  <2>2. \A z \in T : z > y => z > x
    BY <1>2
  <2>3. Above(T, y) \subseteq Above(T, x)
    BY <2>2 DEF Above
  <2>4. QED
    BY <1>1, <2>1, <2>3
<1>3. \A y \in T : x >= y
  BY <1>2
<1>4. QED
  BY <1>3

LEMMA MaxIsGreatest ==
  ASSUME NEW T \in SUBSET Versions, T # {}
  PROVE  Max(T) \in T /\ \A y \in T : Max(T) >= y
<1>1. T \in SUBSET Nat /\ IsFiniteSet(T)
  BY VersionsAssumption, FS_Subset
<1>2. \E x \in T : \A y \in T : x >= y
  BY <1>1, GreatestOfFinite
<1>3. QED
  BY <1>2 DEF Max

LEMMA MaxOfOne == \A v \in Versions : Max({v}) = v
BY MaxIsGreatest

LEMMA MaxOfTwo ==
  ASSUME NEW m \in Nat, NEW n \in Nat
  PROVE  Max({m, n}) = IF m >= n THEN m ELSE n
BY DEF Max

-----------------------------------------------------------------------------
(* A call moves from place to place and keeps its arguments. *)

RegistryPlaces == Reading \cup Writing \cup {"inserted"}

LEMMA CallKinds ==
  ASSUME TypeOK, NEW c \in Callers
  PROVE  /\ call[c].at \in RegistryPlaces => call[c] \in RegistryCalls
         /\ call[c].at \in Putting => call[c] \in PutCalls
         /\ call[c] \in CallTypes
         /\ call[c] \in RegistryCalls => call[c].at \in RegistryPlaces
<1>1. call[c] \in CallTypes
  BY DEF TypeOK
<1>2. call[c] = Idle => call[c].at = "idle"
  BY DEF Idle
<1>3. call[c] \in RegistryCalls => call[c].at \in RegistryPlaces
  BY DEF RegistryCalls, RegistryPlaces
<1>4. call[c] \in PutCalls => call[c].at \in Putting
  BY DEF PutCalls
<1>5. QED
  BY <1>1, <1>2, <1>3, <1>4 DEF CallTypes, RegistryPlaces, Reading, Writing, Inserting, Putting

\* The caller c has moved to next, and nobody else.
Moved(c, next) == call' = [call EXCEPT ![c] = next]

LEMMA MovedCalls ==
  ASSUME TypeOK, NEW c \in Callers, NEW next \in CallTypes, Moved(c, next)
  PROVE  /\ call' \in [Callers -> CallTypes]
         /\ call'[c] = next
         /\ \A d \in Callers \ {c} : call'[d] = call[d]
BY DEF TypeOK, Moved

LEMMA GoesOn ==
  ASSUME TypeOK, NEW c \in Callers, call[c] \in RegistryCalls, NEW place \in RegistryPlaces,
         GoTo(c, place)
  PROVE  /\ Moved(c, [call[c] EXCEPT !.at = place])
         /\ call' \in [Callers -> CallTypes]
         /\ call'[c] \in RegistryCalls
         /\ call'[c].at = place
         /\ call'[c].i = call[c].i /\ call'[c].v = call[c].v
         /\ call'[c].target = call[c].target /\ call'[c].state = call[c].state
         /\ call'[c].binding = call[c].binding
         /\ \A d \in Callers \ {c} : call'[d] = call[d]
<1> DEFINE next == [call[c] EXCEPT !.at = place]
<1>1. next \in RegistryCalls
  BY DEF RegistryCalls, RegistryPlaces
<1>2. /\ next.at = place /\ next.i = call[c].i /\ next.v = call[c].v
      /\ next.target = call[c].target /\ next.state = call[c].state
      /\ next.binding = call[c].binding
  BY DEF RegistryCalls
<1>3. Moved(c, next)
  BY DEF GoTo, Moved
<1> HIDE DEF next
<1>4. QED
  BY <1>1, <1>2, <1>3, MovedCalls DEF CallTypes, next

LEMMA PutGoesOn ==
  ASSUME TypeOK, NEW c \in Callers, call[c] \in PutCalls, NEW place \in Putting, GoTo(c, place)
  PROVE  /\ call' \in [Callers -> CallTypes]
         /\ call'[c] \in PutCalls
         /\ call'[c].at = place /\ call'[c].i = call[c].i /\ call'[c].n = call[c].n
         /\ \A d \in Callers \ {c} : call'[d] = call[d]
<1> DEFINE next == [call[c] EXCEPT !.at = place]
<1>1. next \in PutCalls /\ next.at = place /\ next.i = call[c].i /\ next.n = call[c].n
  BY DEF PutCalls
<1>2. Moved(c, next)
  BY DEF GoTo, Moved
<1> HIDE DEF next
<1>3. QED
  BY <1>1, <1>2, MovedCalls DEF CallTypes

LEMMA EndedCall ==
  ASSUME TypeOK, NEW c \in Callers, Ends(c)
  PROVE  /\ call' \in [Callers -> CallTypes]
         /\ call'[c] = Idle /\ call'[c].at = "idle"
         /\ \A d \in Callers \ {c} : call'[d] = call[d]
<1>1. Moved(c, Idle) /\ Idle \in CallTypes
  BY DEF Ends, Moved, CallTypes
<1>2. QED
  BY <1>1, MovedCalls DEF Idle

LEMMA BegunCall ==
  ASSUME TypeOK, NEW c \in Callers, NEW place \in RegistryPlaces, NEW i \in Installations,
         NEW v \in Serving, NEW target \in Targets, Begins(c, place, i, v, target)
  PROVE  /\ call' \in [Callers -> CallTypes]
         /\ call'[c] \in RegistryCalls
         /\ call'[c].at = place /\ call'[c].i = i /\ call'[c].v = v /\ call'[c].target = target
         /\ \A d \in Callers \ {c} : call'[d] = call[d]
<1> DEFINE next == [at |-> place, i |-> i, v |-> v, target |-> target,
                    state |-> "None", binding |-> NoVersion]
<1>1. next \in RegistryCalls
  BY DEF RegistryCalls, RegistryPlaces, Serving, Targets, States
<1>2. next.at = place /\ next.i = i /\ next.v = v /\ next.target = target
  OBVIOUS
<1>3. Moved(c, next)
  BY DEF Begins, Moved
<1> HIDE DEF next
<1>4. QED
  BY <1>1, <1>2, <1>3, MovedCalls DEF CallTypes

-----------------------------------------------------------------------------
(* Every step keeps the types. *)

\* What a step of the program changes; the ghost of the reads is left to Watches.
CallOK == call \in [Callers -> CallTypes]
AnswerOK == answer \in [Callers -> AnswerTypes]
RegistryOK ==
  /\ life \in [Installations -> States]
  /\ bound \in [Installations -> [Versions -> Bound \cup {Unbound}]]
  /\ active \in [Installations -> Serving]
  /\ used \subseteq Installations
  /\ interrupted \subseteq Installations
  /\ served \in [Installations -> SUBSET Versions]
ValuesOK ==
  /\ revision \in [Installations -> Rows]
  /\ durable \in [Installations -> Rows]
  /\ promised \in [Installations -> Rows]
  /\ txOpen \in BOOLEAN

LEMMA TypeParts ==
  TypeOK <=> CallOK /\ AnswerOK /\ RegistryOK /\ ValuesOK /\ calls \in Nat /\ WatchOK
BY DEF TypeOK, CallOK, AnswerOK, RegistryOK, ValuesOK

StepOK == (CallOK /\ AnswerOK /\ RegistryOK /\ ValuesOK /\ calls \in Nat)'

LEMMA SameRegistry ==
  ASSUME TypeOK, UNCHANGED <<registry, used, interrupted, served>>
  PROVE  RegistryOK'
BY DEF TypeOK, RegistryOK, registry

LEMMA SameValues ==
  ASSUME TypeOK, UNCHANGED <<values, promised>>
  PROVE  ValuesOK'
BY DEF TypeOK, ValuesOK, values

LEMMA SameAnswer ==
  ASSUME TypeOK
  PROVE  /\ UNCHANGED answer => AnswerOK'
         /\ \A c \in Callers : answer' = [answer EXCEPT ![c] = NoAnswer] => AnswerOK'
         /\ UNCHANGED calls => (calls \in Nat)'
         /\ calls' = calls + 1 => (calls \in Nat)'
BY DEF TypeOK, AnswerOK, AnswerTypes

LEMMA BeginsType ==
  ASSUME TypeOK, NEW c \in Callers, NEW place \in RegistryPlaces, NEW i \in Installations,
         NEW v \in Serving, NEW target \in Targets, Begins(c, place, i, v, target)
  PROVE  StepOK
<1>1. CallOK'
  BY BegunCall DEF CallOK
<1>2. UNCHANGED <<registry, values, used, interrupted, served, promised>>
  BY DEF Begins, tables, ghosts
<1>3. QED
  BY <1>1, <1>2, SameRegistry, SameValues, SameAnswer DEF StepOK, Begins

LEMMA BoundType ==
  ASSUME TypeOK, NEW i \in Installations, NEW v \in Versions, NEW second \in Seconds,
         BindsAs(i, v, second)
  PROVE  /\ bound' \in [Installations -> [Versions -> Bound \cup {Unbound}]]
         /\ \A j \in Installations, w \in Versions :
              IF j = i /\ w = v /\ bound[i][v] = Unbound
              THEN bound'[j][w] = [state |-> "candidate", created |-> second]
              ELSE bound'[j][w] = bound[j][w]
<1> DEFINE row == IF bound[i][v] = Unbound
                  THEN [state |-> "candidate", created |-> second] ELSE bound[i][v]
<1>1. bound \in [Installations -> [Versions -> Bound \cup {Unbound}]]
  BY DEF TypeOK
<1>2. row \in Bound \cup {Unbound}
  BY <1>1 DEF Bound
<1>3. bound' = [bound EXCEPT ![i][v] = row]
  BY DEF BindsAs
<1>4. QED
  BY <1>1, <1>2, <1>3

LEMMA SwitchedType ==
  ASSUME TypeOK, NEW i \in Installations, NEW v \in Versions, bound[i][v] # Unbound,
         bound' = [bound EXCEPT ![i][v].state = "installed"]
  PROVE  /\ bound' \in [Installations -> [Versions -> Bound \cup {Unbound}]]
         /\ bound'[i][v].state = "installed"
         /\ \A j \in Installations, w \in Versions :
              j # i \/ w # v => bound'[j][w] = bound[j][w]
<1> DEFINE row == [bound[i][v] EXCEPT !.state = "installed"]
<1>1. bound \in [Installations -> [Versions -> Bound \cup {Unbound}]]
  BY DEF TypeOK
<1>2. bound[i][v] \in Bound
  BY <1>1
<1>3. row \in Bound /\ row.state = "installed"
  BY <1>2 DEF Bound
<1>4. bound' = [bound EXCEPT ![i][v] = row]
  OBVIOUS
<1> HIDE DEF row
<1>5. QED
  BY <1>1, <1>3, <1>4

LEMMA RemovedType ==
  ASSUME TypeOK, NEW i \in Installations, RemoveInstallation(i)
  PROVE  StepOK
<1>1. /\ life' \in [Installations -> States]
      /\ bound' \in [Installations -> [Versions -> Bound \cup {Unbound}]]
      /\ active' \in [Installations -> Serving]
  BY DEF TypeOK, RemoveInstallation, RemoveRows, States, Serving
<1>2. ValuesOK'
  BY DEF TypeOK, RemoveInstallation, RemoveRows, ValuesOK, Rows, NoValues
<1>3. CallOK' /\ UNCHANGED <<used, interrupted, served>>
  BY DEF TypeOK, RemoveInstallation, CallOK
<1>4. QED
  BY <1>1, <1>2, <1>3, SameAnswer DEF StepOK, RegistryOK, RemoveInstallation, TypeOK

\* The rollback target is a version that was installed, and not the one served.
LEMMA NewestIsOne ==
  ASSUME NEW i \in Installations, NEW S \in SUBSET Versions, S # {},
         \A v \in S : bound[i][v].created \in Seconds
  PROVE  Newest(i, S) \in S
<1> DEFINE times == {bound[i][v].created : v \in S}
           newest == {v \in S : \A w \in S : bound[i][w].created <= bound[i][v].created}
<1>1. PICK last \in times : \A t \in times : last >= t
  <2>1. times \in SUBSET Nat /\ times # {}
    BY LastSecondAssumption DEF Seconds
  <2>2. IsFiniteSet(times)
    <3>1. times \subseteq Seconds
      OBVIOUS
    <3>2. IsFiniteSet(Seconds)
      BY LastSecondAssumption, FS_Interval DEF Seconds
    <3>3. QED
      BY <3>1, <3>2, FS_Subset
  <2> HIDE DEF times
  <2>3. QED
    BY <2>1, <2>2, GreatestOfFinite
<1>2. PICK v \in S : bound[i][v].created = last
  OBVIOUS
<1>3. v \in newest
  <2>1. \A w \in S : bound[i][w].created <= last
    BY <1>1, LastSecondAssumption DEF Seconds
  <2>2. QED
    BY <1>2, <2>1
<1>4. newest \in SUBSET S /\ newest \in SUBSET Versions /\ newest # {}
  BY <1>3
<1>5. Max(newest) \in newest
  BY <1>4, MaxIsGreatest
<1>6. QED
  BY <1>4, <1>5 DEF Newest

LEMMA LastKnownGoodType ==
  ASSUME TypeOK, NEW i \in Installations, NEW binding \in Serving
  PROVE  /\ LastKnownGood(i, binding) \in Serving
         /\ LastKnownGood(i, binding) \in {binding} \cup Retained(i)
<1> DEFINE others == Retained(i) \ {binding}
<1>1. others \in SUBSET Versions /\ others \subseteq Retained(i)
  BY DEF Retained
<1>2. \A v \in others : bound[i][v].created \in Seconds
  <2>1. ASSUME NEW v \in others
        PROVE  bound[i][v] \in Bound
    BY DEF TypeOK, Retained, Unbound
  <2>2. QED
    BY <2>1 DEF Bound
<1> HIDE DEF others
<1>3. others # {} => Newest(i, others) \in others
  BY <1>1, <1>2, NewestIsOne
<1>4. LastKnownGood(i, binding) = IF others = {} THEN binding ELSE Newest(i, others)
  BY DEF LastKnownGood, others
<1>5. QED
  BY <1>1, <1>3, <1>4 DEF Serving

\* What an operation does to the call when it advances, with its arguments kept.
AdvancedTo(c, place, target, state, binding) ==
  Moved(c, [call[c] EXCEPT !.at = place, !.target = target, !.state = state,
                           !.binding = binding])

LEMMA AdvancesTo ==
  ASSUME TypeOK, NEW c \in Callers, call[c] \in RegistryCalls,
         NEW place \in RegistryPlaces, NEW target \in Targets,
         NEW state \in States, NEW binding \in Serving,
         AdvancedTo(c, place, target, state, binding)
  PROVE  /\ CallOK'
         /\ call'[c] \in RegistryCalls
         /\ call'[c].at = place /\ call'[c].i = call[c].i /\ call'[c].v = call[c].v
         /\ call'[c].target = target /\ call'[c].state = state /\ call'[c].binding = binding
         /\ \A d \in Callers \ {c} : call'[d] = call[d]
<1> DEFINE next == [call[c] EXCEPT !.at = place, !.target = target, !.state = state,
                                   !.binding = binding]
<1>1. /\ next \in RegistryCalls
      /\ next.at = place /\ next.i = call[c].i /\ next.v = call[c].v
      /\ next.target = target /\ next.state = state /\ next.binding = binding
  BY DEF RegistryCalls, RegistryPlaces
<1>2. Moved(c, next)
  BY DEF AdvancedTo
<1> HIDE DEF next
<1>3. QED
  BY <1>1, <1>2, MovedCalls DEF CallTypes, CallOK

LEMMA ReadActiveCall ==
  ASSUME TypeOK, NEW c \in Callers, ReadActive(c)
  PROVE  /\ CallOK'
         /\ call'[c] \in RegistryCalls
         /\ call'[c].at = "read versions" /\ call'[c].i = call[c].i
         /\ call'[c].binding = active[call[c].i]
         /\ \A d \in Callers \ {c} : call'[d] = call[d]
<1>1. call[c] \in RegistryCalls
  BY CallKinds DEF ReadActive, Served, At, RegistryPlaces, Reading
<1>2. /\ call[c].target \in Targets /\ call[c].state \in States
      /\ active[call[c].i] \in Serving
  BY <1>1 DEF TypeOK, RegistryCalls
<1>3. PICK t \in Targets, s \in States, b \in Serving :
        t = call[c].target /\ s = call[c].state /\ b = active[call[c].i]
  BY <1>2
<1>4. AdvancedTo(c, "read versions", t, s, b)
  BY <1>1, <1>3 DEF ReadActive, AdvancedTo, Moved, RegistryCalls
<1>5. PICK place \in RegistryPlaces : place = "read versions"
  BY DEF RegistryPlaces, Reading
<1>6. /\ CallOK'
      /\ call'[c] \in RegistryCalls
      /\ call'[c].at = place /\ call'[c].i = call[c].i /\ call'[c].binding = b
      /\ \A d \in Callers \ {c} : call'[d] = call[d]
  <2>1. AdvancedTo(c, place, t, s, b)
    BY <1>4, <1>5
  <2>2. QED
    BY <1>1, <2>1, AdvancesTo
<1>7. QED
  BY <1>3, <1>5, <1>6

LEMMA ReaderTypes ==
  ASSUME TypeOK, NEW c \in Callers, ReadRow(c) \/ ReadActive(c) \/ ReadVersions(c)
  PROVE  StepOK
<1>1. call[c] \in RegistryCalls
  BY CallKinds DEF ReadRow, ReadActive, ReadVersions, Served, At, RegistryPlaces, Reading
<1>2. UNCHANGED <<registry, values, used, interrupted, served, promised, calls>>
  BY DEF ReadRow, ReadActive, ReadVersions, tables, ghosts
<1>3. CASE ReadRow(c)
  <2>1. CallOK'
    BY <1>1, <1>3, EndedCall, GoesOn DEF ReadRow, RegistryPlaces, Reading, CallOK
  <2>2. QED
    BY <1>2, <1>3, <2>1, SameRegistry, SameValues, SameAnswer DEF StepOK, ReadRow
<1>4. CASE ReadActive(c)
  BY <1>2, <1>4, ReadActiveCall, SameRegistry, SameValues, SameAnswer DEF StepOK, ReadActive
<1>5. CASE ReadVersions(c)
  <2>1. CallOK'
    BY <1>5, EndedCall DEF ReadVersions, CallOK
  <2>2. Composed(c) \in AnswerTypes
    <3> DEFINE i == call[c].i
               binding == call[c].binding
    <3>1. i \in Installations /\ binding \in Serving
      BY <1>1 DEF RegistryCalls
    <3>2. Candidates(i) # {} => Max(Candidates(i)) \in Versions
      BY MaxIsGreatest DEF Candidates
    <3>3. LastKnownGood(i, binding) \in Serving
      BY <3>1, LastKnownGoodType
    <3>4. CASE binding = NoVersion /\ Candidates(i) = {}
      BY <3>1, <3>4 DEF Composed, AnswerTypes, Corrupt
    <3>5. CASE ~(binding = NoVersion /\ Candidates(i) = {})
      BY <3>1, <3>2, <3>3, <3>5 DEF Composed, AnswerTypes, Records, Serving
    <3>6. QED
      BY <3>4, <3>5
  <2>3. AnswerOK'
    BY <1>5, <2>2 DEF ReadVersions, AnswerOK, TypeOK
  <2>4. QED
    BY <1>2, <2>1, <2>3, SameRegistry, SameValues, SameAnswer DEF StepOK
<1>6. QED
  BY <1>3, <1>4, <1>5

\* A writer has bound the arguments of its call.
LEMMA WriterArguments ==
  ASSUME TypeOK, RegistryInv, NEW c \in Callers, Works(c)
  PROVE  /\ call[c] \in RegistryCalls
         /\ call[c].i \in Installations /\ call[c].v \in Versions
         /\ call[c].target \in Targets
<1>1. call[c] \in RegistryCalls
  BY CallKinds DEF Works, RegistryPlaces
<1>2. call[c].v \in Versions
  BY DEF RegistryInv, WriterInv
<1>3. QED
  BY <1>1, <1>2 DEF RegistryCalls

LEMMA WriterTypes ==
  ASSUME TypeOK, RegistryInv, NEW c \in Callers,
         \/ CreateInstallation(c) \/ BindFirstVersion(c) \/ BindVersionOnce(c)
         \/ SwitchActiveVersion(c)
  PROVE  StepOK
<1>1. Works(c)
  BY DEF CreateInstallation, BindFirstVersion, BindVersionOnce, SwitchActiveVersion,
         Served, At, Works, Writing, Inserting
<1>2. /\ call[c] \in RegistryCalls
      /\ call[c].i \in Installations /\ call[c].v \in Versions
  BY <1>1, WriterArguments
<1>3. UNCHANGED <<values, promised, answer, calls>>
  BY DEF CreateInstallation, BindFirstVersion, BindVersionOnce, SwitchActiveVersion, ghosts
<1>4. CallOK'
  <2>1. {"bind first", "read state", "switch"} \subseteq RegistryPlaces
    BY DEF RegistryPlaces, Writing, Inserting
  <2>2. \E place \in {"bind first", "read state", "switch"} : GoTo(c, place)
    BY DEF CreateInstallation, BindFirstVersion, BindVersionOnce, SwitchActiveVersion
  <2>3. QED
    BY <1>2, <2>1, <2>2, GoesOn DEF CallOK
<1>5. RegistryOK'
  <2>1. CASE CreateInstallation(c)
    BY <1>2, <2>1 DEF TypeOK, RegistryOK, CreateInstallation, States
  <2>2. CASE BindFirstVersion(c) \/ BindVersionOnce(c)
    <3>1. \E second \in Seconds : BindsAs(call[c].i, call[c].v, second)
      BY <2>2 DEF BindFirstVersion, BindVersionOnce
    <3>2. UNCHANGED <<life, active, used, interrupted, served>>
      BY <2>2 DEF BindFirstVersion, BindVersionOnce, ghosts
    <3>3. QED
      BY <1>2, <3>1, <3>2, BoundType DEF TypeOK, RegistryOK
  <2>3. CASE SwitchActiveVersion(c)
    <3>1. bound' \in [Installations -> [Versions -> Bound \cup {Unbound}]]
      BY <1>2, <2>3, SwitchedType DEF SwitchActiveVersion
    <3>2. active' \in [Installations -> Serving]
      BY <1>2, <2>3 DEF SwitchActiveVersion, TypeOK, Serving
    <3>3. served' \in [Installations -> SUBSET Versions]
      BY <1>2, <2>3 DEF SwitchActiveVersion, TypeOK
    <3>4. QED
      BY <2>3, <3>1, <3>2, <3>3 DEF SwitchActiveVersion, TypeOK, RegistryOK
  <2>4. QED
    BY <2>1, <2>2, <2>3
<1>6. QED
  BY <1>3, <1>4, <1>5, SameValues, SameAnswer DEF StepOK

\* How the operations that advance a life cycle move: each case names the new call.
LEMMA LifecycleCalls ==
  ASSUME TypeOK, RegistryInv, NEW c \in Callers, ReadState(c) \/ ApplyEvent(c) \/ Activates(c)
  PROVE  /\ CallOK'
         /\ \A d \in Callers \ {c} : call'[d] = call[d]
         /\ \/ call'[c].at = "idle"
            \/ /\ call'[c] \in RegistryCalls
               /\ call'[c].at \in {"advance", "inserted", "bind"}
               /\ call'[c].i = call[c].i /\ call'[c].v = call[c].v
               /\ call'[c].at = "bind" => Activates(c)
               /\ call'[c].at # "bind" => call'[c].target = call[c].target
               /\ call'[c].at = "advance" =>
                    /\ call'[c].state \in DOMAIN NextState
                    /\ call'[c].state # call[c].target
                    /\ call'[c].state = IF At(c, "read state") THEN life[call[c].i]
                                        ELSE NextState[call[c].state]
               /\ call'[c].at = "inserted" => call[c].target = "Validated"
<1>1. Works(c) /\ (At(c, "advance") => call[c].state \in DOMAIN NextState)
  BY DEF ReadState, ApplyEvent, Activates, Served, At, Works, Writing, Inserting, RegistryInv,
         WriterInv
<1>2. /\ call[c] \in RegistryCalls /\ call[c].i \in Installations
      /\ call[c].target \in Targets
      /\ call[c].state \in States /\ call[c].binding \in Serving
      /\ life[call[c].i] \in States
  BY <1>1, WriterArguments DEF RegistryCalls, TypeOK
<1>3. "advance" \in RegistryPlaces /\ "inserted" \in RegistryPlaces /\ "bind" \in RegistryPlaces
  BY DEF RegistryPlaces, Writing, Inserting
<1>4. /\ DOMAIN NextState = {"Installed", "Validated", "Activating"}
      /\ \A state \in DOMAIN NextState : state \in States /\ NextState[state] \in States
  BY DEF NextState, States
<1>5. CASE Ends(c)
  BY <1>5, EndedCall DEF CallOK
<1>6. CASE GoTo(c, "inserted") /\ call[c].target = "Validated" /\ ~At(c, "inserted")
  BY <1>2, <1>3, <1>6, GoesOn DEF CallOK, Activates
<1>7. CASE Activates(c)
  <2>1. AdvancedTo(c, "bind", "Active", call[c].state, call[c].binding)
    BY <1>2, <1>7 DEF Activates, AdvancedTo, Moved, RegistryCalls
  <2>2. "Active" \in Targets /\ "bind" \in RegistryPlaces
    BY <1>3 DEF Targets, States
  <2>3. call[c].state \in States /\ call[c].binding \in Serving
    BY <1>2
  <2>4. /\ CallOK' /\ call'[c] \in RegistryCalls
        /\ call'[c].at = "bind" /\ call'[c].i = call[c].i /\ call'[c].v = call[c].v
        /\ \A d \in Callers \ {c} : call'[d] = call[d]
    BY <1>2, <2>1, <2>2, <2>3, AdvancesTo
  <2>5. QED
    BY <1>7, <2>4
<1>8. ASSUME NEW state \in DOMAIN NextState,
             AdvancedTo(c, "advance", call[c].target, state, call[c].binding),
             state # call[c].target, ~At(c, "inserted"),
             state = IF At(c, "read state") THEN life[call[c].i] ELSE NextState[call[c].state]
      PROVE  /\ CallOK'
             /\ \A d \in Callers \ {c} : call'[d] = call[d]
             /\ call'[c] \in RegistryCalls
             /\ call'[c].at = "advance"
             /\ call'[c].i = call[c].i /\ call'[c].v = call[c].v
             /\ call'[c].target = call[c].target /\ call'[c].state = state
  <2>1. /\ "advance" \in RegistryPlaces /\ call[c].target \in Targets
        /\ state \in States /\ call[c].binding \in Serving
    BY <1>2, <1>3, <1>4
  <2>2. AdvancedTo(c, "advance", call[c].target, state, call[c].binding)
    BY <1>8
  <2>3. QED
    BY <1>2, <2>1, <2>2, AdvancesTo
<1>9. CASE ReadState(c)
  <2>1. \/ Ends(c)
        \/ GoTo(c, "inserted") /\ call[c].target = "Validated"
        \/ /\ life[call[c].i] \in DOMAIN NextState /\ life[call[c].i] # call[c].target
           /\ AdvancedTo(c, "advance", call[c].target, life[call[c].i], call[c].binding)
    BY <1>2, <1>9 DEF ReadState, Reached, AdvancedTo, Moved, RegistryCalls
  <2>2. At(c, "read state") /\ ~At(c, "inserted") /\ ~Activates(c)
    BY <1>9 DEF ReadState, Served, At, Activates
  <2>3. QED
    BY <1>5, <1>6, <1>8, <2>1, <2>2
<1>10. CASE ApplyEvent(c)
  <2>1. At(c, "advance") /\ ~At(c, "inserted") /\ ~At(c, "read state") /\ ~Activates(c)
    BY <1>10 DEF ApplyEvent, Served, At, Activates
  <2>2. PICK next : next = NextState[call[c].state]
    OBVIOUS
  <2>3. \/ Ends(c)
        \/ GoTo(c, "inserted") /\ call[c].target = "Validated"
        \/ /\ next \in DOMAIN NextState /\ next # call[c].target
           /\ call' = [call EXCEPT ![c].state = next]
    BY <1>10, <2>2 DEF ApplyEvent, Reached
  <2>4. call' = [call EXCEPT ![c].state = next] =>
          AdvancedTo(c, "advance", call[c].target, next, call[c].binding)
    <3>1. call[c].at = "advance"
      BY <2>1 DEF At
    <3>2. [call[c] EXCEPT !.state = next] =
          [call[c] EXCEPT !.at = "advance", !.target = call[c].target, !.state = next,
                          !.binding = call[c].binding]
      BY <1>2, <3>1 DEF RegistryCalls
    <3>3. QED
      BY <3>2 DEF AdvancedTo, Moved
  <2>5. QED
    BY <1>5, <1>6, <1>8, <2>1, <2>2, <2>3, <2>4
<1>11. QED
  BY <1>7, <1>9, <1>10

LEMMA LifecycleTypes ==
  ASSUME TypeOK, RegistryInv, NEW c \in Callers, ReadState(c) \/ ApplyEvent(c) \/ Activates(c)
  PROVE  StepOK
<1>1. CallOK'
  BY LifecycleCalls
<1>2. UNCHANGED <<values, promised, answer, used, interrupted, served>>
  BY DEF ReadState, ApplyEvent, Activates, tables, ghosts
<1>3. (calls \in Nat)'
  BY SameAnswer DEF ReadState, ApplyEvent, Activates
<1>4. RegistryOK'
  <2>1. CASE ReadState(c) \/ Activates(c)
    BY <1>2, <2>1, SameRegistry DEF ReadState, Activates, tables
  <2>2. CASE ApplyEvent(c)
    <3>1. Works(c) /\ call[c].state \in DOMAIN NextState
      BY <2>2 DEF ApplyEvent, Served, At, Works, Writing, Inserting, RegistryInv, WriterInv
    <3>2. NextState[call[c].state] \in States
      BY <3>1 DEF NextState, States
    <3>3. UNCHANGED <<bound, active>>
      BY <2>2 DEF ApplyEvent
    <3>4. life' = [life EXCEPT ![call[c].i] = NextState[call[c].state]]
      BY <2>2 DEF ApplyEvent
    <3>5. life' \in [Installations -> States]
      BY <3>2, <3>4 DEF TypeOK
    <3>6. QED
      BY <1>2, <3>3, <3>5 DEF TypeOK, RegistryOK
  <2>3. QED
    BY <2>1, <2>2
<1>5. QED
  BY <1>1, <1>2, <1>3, <1>4, SameValues, SameAnswer DEF StepOK

LEMMA FailureTypes ==
  ASSUME TypeOK, NEW c \in Callers, CallFails(c)
  PROVE  StepOK
<1>1. CallOK'
  BY EndedCall DEF CallFails, CallOK
<1>2. UNCHANGED <<values, promised, answer, calls, life, bound, active, used, served>>
  BY DEF CallFails, tables, registry
<1>3. interrupted' \subseteq Installations
  <2>1. At(c, "bind first") => call[c].i \in Installations
    BY CallKinds DEF At, RegistryPlaces, Writing, Inserting, RegistryCalls
  <2>2. QED
    BY <2>1 DEF CallFails, TypeOK
<1>4. RegistryOK'
  BY <1>2, <1>3 DEF TypeOK, RegistryOK
<1>5. QED
  BY <1>1, <1>2, <1>4, SameValues, SameAnswer DEF StepOK

-----------------------------------------------------------------------------
(* The puts. *)

LEMMA PutBegun ==
  ASSUME TypeOK, NEW c \in Callers, NEW i \in Installations, NEW n \in Names, Puts(c, i, n)
  PROVE  /\ CallOK'
         /\ call'[c] \in PutCalls /\ call'[c].at = "put"
         /\ \A d \in Callers \ {c} : call'[d] = call[d]
<1> DEFINE next == [at |-> "put", i |-> i, n |-> n]
<1>1. next \in PutCalls /\ next.at = "put"
  BY DEF PutCalls, Putting
<1>2. Moved(c, next)
  BY DEF Puts, Moved
<1> HIDE DEF next
<1>3. QED
  BY <1>1, <1>2, MovedCalls DEF CallTypes, CallOK

LEMMA UpsertedRow ==
  ASSUME TypeOK, NEW i \in Installations, NEW n \in Names, Upsert(i, n)
  PROVE  /\ ~txOpen
         /\ revision' \in [Installations -> Rows] /\ durable' = revision'
         /\ revision'[i][n] = revision[i][n] + 1
         /\ \A j \in Installations, m \in Names :
              j # i \/ m # n => revision'[j][m] = revision[j][m]
<1>1. revision \in [Installations -> [Names -> Nat]] /\ revision[i][n] \in Nat
  BY DEF TypeOK, Rows
<1>2. revision' = [revision EXCEPT ![i][n] = revision[i][n] + 1]
  BY DEF Upsert
<1>3. revision' \in [Installations -> [Names -> Nat]]
  BY <1>1, <1>2
<1>4. QED
  BY <1>1, <1>2, <1>3 DEF Upsert, Rows

LEMMA ReadBackRow ==
  ASSUME TypeOK, NEW c \in Callers, ReadBack(c)
  PROVE  /\ call[c] \in PutCalls /\ call[c].i \in Installations /\ call[c].n \in Names
         /\ promised' \in [Installations -> Rows]
         /\ \A j \in Installations, m \in Names :
              promised'[j][m] = promised[j][m] \/ promised'[j][m] = revision[j][m]
<1> DEFINE i == call[c].i
           n == call[c].n
<1>1. call[c] \in PutCalls /\ i \in Installations /\ n \in Names
  BY CallKinds DEF ReadBack, At, Putting, PutCalls
<1>2. /\ promised \in [Installations -> [Names -> Nat]] /\ promised[i][n] \in Nat
      /\ revision[i][n] \in Nat
  BY <1>1 DEF TypeOK, Rows
<1>3. \/ promised' = promised
      \/ promised' = [promised EXCEPT ![i][n] = Max({promised[i][n], revision[i][n]})]
  BY DEF ReadBack
<1> HIDE DEF i, n
<1>4. CASE promised' = [promised EXCEPT ![i][n] = Max({promised[i][n], revision[i][n]})]
  <2>1. PICK m \in Nat : /\ m = Max({promised[i][n], revision[i][n]})
                         /\ m = promised[i][n] \/ m = revision[i][n]
    BY <1>2, MaxOfTwo
  <2>2. promised' = [promised EXCEPT ![i][n] = m]
    BY <1>4, <2>1
  <2>3. promised' \in [Installations -> [Names -> Nat]]
    BY <1>2, <2>2
  <2>4. \A j \in Installations, k \in Names :
          promised'[j][k] = IF j = i /\ k = n THEN m ELSE promised[j][k]
    BY <1>2, <2>2
  <2>5. QED
    BY <1>1, <2>1, <2>3, <2>4 DEF Rows, i, n
<1>5. CASE promised' = promised
  BY <1>1, <1>2, <1>5 DEF Rows, i, n
<1>6. QED
  BY <1>3, <1>4, <1>5

LEMMA PutTypes ==
  ASSUME TypeOK, NEW c \in Callers, PutValue(c) \/ ReadBack(c) \/ AppendAudit(c)
  PROVE  StepOK
<1>1. call[c] \in PutCalls /\ call[c].i \in Installations /\ call[c].n \in Names
  BY CallKinds DEF PutValue, ReadBack, AppendAudit, Served, At, Putting, PutCalls
<1>2. UNCHANGED <<registry, used, interrupted, served, txOpen, calls>>
  BY DEF PutValue, ReadBack, AppendAudit, tables, values, ghosts
<1>3. CASE PutValue(c)
  <2>1. CallOK'
    BY <1>1, <1>3, PutGoesOn DEF PutValue, Putting, CallOK
  <2>2. ValuesOK'
    BY <1>1, <1>2, <1>3, UpsertedRow DEF PutValue, ValuesOK, TypeOK, ghosts
  <2>3. QED
    BY <1>2, <1>3, <2>1, <2>2, SameRegistry, SameAnswer DEF PutValue, StepOK
<1>4. CASE ReadBack(c)
  <2>1. CallOK'
    BY <1>1, <1>4, PutGoesOn, EndedCall DEF ReadBack, Putting, CallOK
  <2>2. ValuesOK'
    BY <1>4, ReadBackRow DEF ReadBack, ValuesOK, TypeOK, tables, values
  <2>3. AnswerOK'
    <3>1. [kind |-> "disappeared", i |-> call[c].i, n |-> call[c].n] \in AnswerTypes
      BY <1>1 DEF AnswerTypes, Disappeared
    <3>2. QED
      BY <1>4, <3>1, SameAnswer DEF ReadBack, AnswerOK, TypeOK
  <2>4. QED
    BY <1>2, <2>1, <2>2, <2>3, SameRegistry, SameAnswer DEF StepOK
<1>5. CASE AppendAudit(c)
  <2>1. CallOK'
    BY <1>5, EndedCall DEF AppendAudit, CallOK
  <2>2. QED
    BY <1>2, <1>5, <2>1, SameRegistry, SameValues, SameAnswer
       DEF AppendAudit, StepOK, tables, values, ghosts
<1>6. QED
  BY <1>3, <1>4, <1>5

LEMMA OtherTypes ==
  ASSUME TypeOK,
         OtherTransaction \/ \E i \in Installations : DeleteSecret(i)
  PROVE  StepOK
<1>1. UNCHANGED <<registry, call, answer, used, interrupted, served>>
  BY DEF OtherTransaction, DeleteSecret, ghosts
<1>2. CallOK' /\ AnswerOK'
  BY <1>1 DEF TypeOK, CallOK, AnswerOK
<1>3. (calls \in Nat)'
  BY SameAnswer DEF OtherTransaction, DeleteSecret
<1>4. ValuesOK'
  <2>1. CASE OtherTransaction
    BY <2>1 DEF OtherTransaction, TypeOK, ValuesOK, ghosts
  <2>2. ASSUME NEW i \in Installations, DeleteSecret(i)
        PROVE  ValuesOK'
    <3>1. /\ revision \in [Installations -> [Names -> Nat]]
          /\ promised \in [Installations -> [Names -> Nat]]
      BY DEF TypeOK, Rows
    <3>2. "secret" \in Names
      BY DEF Names
    <3>3. /\ revision' \in [Installations -> [Names -> Nat]]
          /\ promised' \in [Installations -> [Names -> Nat]]
      BY <2>2, <3>1, <3>2 DEF DeleteSecret
    <3>4. QED
      BY <2>2, <3>3 DEF DeleteSecret, TypeOK, ValuesOK, Rows
  <2>3. QED
    BY <2>1, <2>2
<1>5. QED
  BY <1>1, <1>2, <1>3, <1>4, SameRegistry DEF StepOK

-----------------------------------------------------------------------------
(* All steps. *)

\* The steps by what they touch.
RegistryStep(c) ==
  \/ CreateInstallation(c) \/ BindFirstVersion(c) \/ BindVersionOnce(c)
  \/ SwitchActiveVersion(c) \/ ReadState(c) \/ ApplyEvent(c) \/ Activates(c)
ReaderStep(c) == ReadRow(c) \/ ReadActive(c) \/ ReadVersions(c)
PutStep(c) == PutValue(c) \/ ReadBack(c) \/ AppendAudit(c)

LEMMA StepKinds ==
  Steps => \/ OtherTransaction
           \/ \E i \in Installations : RemoveInstallation(i) \/ DeleteSecret(i)
           \/ \E c \in Callers :
                \/ \E i \in Installations : Disables(c, i) \/ Reads(c, i)
                \/ \E i \in Installations, v \in Versions : Inserts(c, i, v) \/ Upgrades(c, i, v)
                \/ \E i \in Installations, n \in Names : Puts(c, i, n)
                \/ RegistryStep(c) \/ ReaderStep(c) \/ PutStep(c) \/ CallFails(c)
BY Zenon DEF Steps, Calls, Commands, RegistryStep, ReaderStep, PutStep

LEMMA BeginningTypes ==
  ASSUME TypeOK, NEW c \in Callers,
         \/ \E i \in Installations : Disables(c, i) \/ Reads(c, i)
         \/ \E i \in Installations, v \in Versions : Inserts(c, i, v) \/ Upgrades(c, i, v)
  PROVE  StepOK
<1>1. /\ "read row" \in RegistryPlaces /\ "create" \in RegistryPlaces /\ "bind" \in RegistryPlaces
      /\ \A target \in {"None", "Validated", "Active", "Draining"} :
           target \in Targets
      /\ NoVersion \in Serving /\ Versions \subseteq Serving
  BY DEF RegistryPlaces, Reading, Writing, Inserting, Targets, States, Serving
<1>2. ASSUME NEW i \in Installations, Disables(c, i) \/ Reads(c, i)
      PROVE  StepOK
  <2>1. active[i] \in Serving
    BY DEF TypeOK
  <2>2. QED
    BY <1>1, <1>2, <2>1, BeginsType DEF Disables, Reads
<1>3. ASSUME NEW i \in Installations, NEW v \in Versions, Inserts(c, i, v) \/ Upgrades(c, i, v)
      PROVE  StepOK
  BY <1>1, <1>3, BeginsType DEF Inserts, Upgrades
<1>4. QED
  BY <1>2, <1>3

LEMMA PutBeginningTypes ==
  ASSUME TypeOK, NEW c \in Callers, NEW i \in Installations, NEW n \in Names, Puts(c, i, n)
  PROVE  StepOK
<1>1. UNCHANGED <<registry, values, used, interrupted, served, promised>>
  BY DEF Puts, tables, ghosts
<1>2. CallOK' /\ answer' = [answer EXCEPT ![c] = NoAnswer] /\ calls' = calls + 1
  BY PutBegun DEF Puts
<1>3. QED
  BY <1>1, <1>2, SameRegistry, SameValues, SameAnswer DEF StepOK

LEMMA StepTypes ==
  ASSUME TypeOK, RegistryInv, Steps
  PROVE  StepOK
<1>1. ASSUME NEW c \in Callers,
             RegistryStep(c) \/ ReaderStep(c) \/ PutStep(c) \/ CallFails(c)
      PROVE  StepOK
  BY <1>1, WriterTypes, LifecycleTypes, ReaderTypes, PutTypes, FailureTypes
     DEF RegistryStep, ReaderStep, PutStep
<1>2. QED
  BY <1>1, StepKinds, RemovedType, OtherTypes, BeginningTypes, PutBeginningTypes

LEMMA ShownIsAView ==
  ASSUME TypeOK, StepOK, NEW i \in Installations
  PROVE  Shown(i) \in Views /\ Shown(i)' \in Views
<1>1. /\ Candidates(i) \in SUBSET Versions /\ Candidates(i)' \in SUBSET Versions
  BY DEF Candidates
<1>2. active[i] \in Serving /\ active'[i] \in Serving
  BY DEF TypeOK, StepOK, RegistryOK
<1>3. HasRecord(i) => VersionOf(i) \in Serving
  BY <1>1, <1>2, MaxIsGreatest DEF HasRecord, VersionOf, Serving
<1>4. HasRecord(i)' => VersionOf(i)' \in Serving
  BY <1>1, <1>2, MaxIsGreatest DEF HasRecord, VersionOf, Serving
<1>5. QED
  BY <1>2, <1>3, <1>4 DEF Shown, Views, Serving

LEMMA WatchTypes ==
  ASSUME TypeOK, StepOK, Watches
  PROVE  WatchOK'
<1> DEFINE View == [shown : SUBSET Views, disturbed : BOOLEAN]
<1>1. ASSUME NEW c \in Callers
      PROVE  watch'[c] \in View
  <2> DEFINE reads == call[c].at \in Reading
             seen == IF reads THEN watch[c] ELSE Unwatched
             of == {i \in Installations : i = IF reads THEN call[c].i ELSE call'[c].i}
             next == [shown |-> seen.shown \cup {Shown(i)' : i \in of},
                      disturbed |-> \/ seen.disturbed
                                    \/ \E i \in of : \/ WorkedOn(i) \/ WorkedOn(i)'
                                                     \/ life[i] # life'[i]]
  <2>1. watch'[c] \in {Unwatched, watch[c], next}
    BY DEF Watches
  <2>2. Unwatched \in View /\ watch[c] \in View
    BY DEF Unwatched, TypeOK, WatchOK
  <2>3. seen.shown \in SUBSET Views /\ seen.disturbed \in BOOLEAN
    BY <2>2
  <2>4. {Shown(i)' : i \in of} \in SUBSET Views
    BY ShownIsAView
  <2>5. next \in View
    <3> HIDE DEF seen, of
    <3>1. seen.shown \cup {Shown(i)' : i \in of} \in SUBSET Views
      BY <2>3, <2>4
    <3>2. (\/ seen.disturbed
           \/ \E i \in of : WorkedOn(i) \/ WorkedOn(i)' \/ life[i] # life'[i]) \in BOOLEAN
      BY <2>3
    <3>3. QED
      BY <3>1, <3>2
  <2>6. QED
    BY <2>1, <2>2, <2>5
<1>2. watch' = [c \in Callers |-> watch'[c]]
  BY DEF Watches
<1>3. QED
  BY <1>1, <1>2 DEF WatchOK

LEMMA TypeStep ==
  ASSUME TypeOK, RegistryInv, [Next]_vars
  PROVE  TypeOK'
<1>1. CASE Next
  <2>1. StepOK
    BY <1>1, StepTypes DEF Next
  <2>2. WatchOK'
    BY <1>1, <2>1, WatchTypes DEF Next
  <2>3. QED
    BY <2>1, <2>2 DEF TypeOK, StepOK, CallOK, AnswerOK, RegistryOK, ValuesOK
<1>2. CASE UNCHANGED vars
  BY <1>2 DEF TypeOK, WatchOK, vars, tables, registry, values, ghosts
<1>3. QED
  BY <1>1, <1>2

-----------------------------------------------------------------------------
(* Every step keeps what is known of the rows and of their writers.  A     *)
(* step works at one installation; elsewhere nothing changes.              *)

SameRow(j) ==
  /\ life'[j] = life[j] /\ bound'[j] = bound[j] /\ active'[j] = active[j]
  /\ served'[j] = served[j]
  /\ j \in used' <=> j \in used
  /\ j \in interrupted => j \in interrupted'

\* The callers that move work at i.
OnlyAt(i) ==
  \A d \in Callers : \/ call'[d] = call[d]
                      \/ /\ Works(d) => call[d].i = i
                         /\ Works(d)' => call'[d].i = i

LEMMA BindingIsWork == \A c \in Callers : At(c, "bind first") => Works(c)
BY DEF At, Works, Writing, Inserting

LEMMA SameRowView ==
  ASSUME NEW j \in Installations, SameRow(j)
  PROVE  /\ Candidates(j)' = Candidates(j)
         /\ HasRecord(j)' <=> HasRecord(j)
         /\ Young(j)' <=> Young(j)
         /\ YoungRow(j) => YoungRow(j)'
<1>1. Candidates(j)' = Candidates(j)
  BY DEF SameRow, Candidates
<1>2. QED
  BY <1>1 DEF SameRow, HasRecord, Young, YoungRow

LEMMA SameRowKept ==
  ASSUME RegistryInv, NEW j \in Installations, SameRow(j),
         \A d \in Callers : At(d, "bind first") /\ call[d].i = j =>
           call'[d] = call[d] \/ j \in interrupted'
  PROVE  RowInv(j)'
<1>1. RowInv(j)
  BY DEF RegistryInv
<1>2. (life[j] # "None" /\ ~HasRecord(j) =>
         j \in interrupted \/ \E c \in Callers : At(c, "bind first") /\ call[c].i = j)'
  <2>1. SUFFICES ASSUME life'[j] # "None", ~HasRecord(j)', j \notin interrupted'
                 PROVE  \E c \in Callers : At(c, "bind first")' /\ call'[c].i = j
    OBVIOUS
  <2>2. life[j] # "None" /\ ~HasRecord(j) /\ j \notin interrupted
    BY <2>1, SameRowView DEF SameRow
  <2>3. PICK c \in Callers : At(c, "bind first") /\ call[c].i = j
    BY <1>1, <2>2 DEF RowInv
  <2>4. call'[c] = call[c]
    BY <2>1, <2>3
  <2>5. QED
    BY <2>3, <2>4 DEF At
<1>3. QED
  BY <1>1, <1>2, SameRowView DEF RowInv, SameRow

LEMMA SameWriterKept ==
  ASSUME RegistryInv, NEW d \in Callers, call'[d] = call[d], Works(d),
         call[d].i \in Installations, SameRow(call[d].i),
         \A e \in Callers : Works(e)' /\ call'[e].i = call[d].i =>
           Works(e) /\ call[e].i = call[d].i
  PROVE  WriterInv(d)'
<1>1. WriterInv(d)
  BY DEF RegistryInv
<1> DEFINE i == call[d].i
<1>2. i \in Installations /\ SameRow(i) /\ call'[d].i = i
  OBVIOUS
<1>3. Candidates(i)' = Candidates(i) /\ (Young(i)' <=> Young(i))
  BY <1>2, SameRowView
<1>4. (i \in used' <=> i \in used) /\ life'[i] = life[i]
  BY DEF SameRow
<1>5. \A place : At(d, place)' <=> At(d, place)
  BY DEF At
<1>6. Young(i)' => \A e \in Callers : Works(e)' /\ call'[e].i = i => e = d
  BY <1>1, <1>3 DEF WriterInv
<1>7. QED
  BY <1>1, <1>3, <1>4, <1>5, <1>6 DEF WriterInv

LEMMA Elsewhere ==
  ASSUME TypeOK, RegistryInv, NEW i \in Installations,
         \A j \in Installations \ {i} : SameRow(j), OnlyAt(i),
         RowInv(i)', \A d \in Callers : Works(d)' /\ call'[d].i = i => WriterInv(d)'
  PROVE  RegistryInv'
<1>1. ASSUME NEW j \in Installations \ {i}
      PROVE  RowInv(j)'
  <2>1. \A d \in Callers : At(d, "bind first") /\ call[d].i = j => call'[d] = call[d]
    BY <1>1, BindingIsWork DEF OnlyAt
  <2>2. QED
    BY <2>1, SameRowKept
<1>2. ASSUME NEW d \in Callers, Works(d)', call'[d].i # i
      PROVE  WriterInv(d)'
  <2>1. call'[d] = call[d] /\ Works(d) /\ call[d].i # i
    BY <1>2 DEF OnlyAt, Works
  <2>2. call[d].i \in Installations
    BY <2>1, WriterArguments
  <2>3. \A e \in Callers : Works(e)' /\ call'[e].i = call[d].i =>
          Works(e) /\ call[e].i = call[d].i
    BY <2>1 DEF OnlyAt, Works
  <2>4. SameRow(call[d].i)
    BY <2>1, <2>2
  <2>5. QED
    BY <2>1, <2>2, <2>3, <2>4, SameWriterKept
<1>3. \A d \in Callers : ~Works(d)' => WriterInv(d)'
  BY DEF WriterInv
<1>4. QED
  BY <1>1, <1>2, <1>3 DEF RegistryInv

\* A step that leaves the registry and its writers alone.
LEMMA Quiet ==
  ASSUME TypeOK, RegistryInv, UNCHANGED <<registry, used, interrupted, served>>,
         \A d \in Callers : call'[d] = call[d] \/ (~Works(d) /\ ~Works(d)')
  PROVE  RegistryInv'
<1>1. \A j \in Installations : SameRow(j)
  BY DEF SameRow, registry
<1>2. ASSUME NEW j \in Installations
      PROVE  RowInv(j)'
  BY <1>1, BindingIsWork, SameRowKept
<1>3. ASSUME NEW d \in Callers
      PROVE  WriterInv(d)'
  <2>1. CASE Works(d)'
    <3>1. call'[d] = call[d] /\ Works(d)
      BY <2>1 DEF Works
    <3>2. call[d].i \in Installations
      BY <3>1, WriterArguments
    <3>3. \A e \in Callers : Works(e)' /\ call'[e].i = call[d].i =>
            Works(e) /\ call[e].i = call[d].i
      BY DEF Works
    <3>4. SameRow(call[d].i)
      BY <1>1, <3>2
    <3>5. QED
      BY <3>1, <3>2, <3>3, <3>4, SameWriterKept
  <2>2. CASE ~Works(d)'
    BY <2>2 DEF WriterInv
  <2>3. QED
    BY <2>1, <2>2
<1>4. QED
  BY <1>2, <1>3 DEF RegistryInv

LEMMA FailureKeepsRegistry ==
  ASSUME TypeOK, RegistryInv, NEW c \in Callers, CallFails(c)
  PROVE  RegistryInv'
<1>1. /\ call'[c] = Idle /\ ~Works(c)'
      /\ \A d \in Callers \ {c} : call'[d] = call[d]
  BY EndedCall DEF CallFails, Works, Idle, Writing, Inserting
<1>2. UNCHANGED <<life, bound, active, used, served>>
  BY DEF CallFails, tables, registry
<1>3. /\ interrupted \subseteq interrupted'
      /\ At(c, "bind first") => call[c].i \in interrupted'
  BY DEF CallFails
<1>4. \A j \in Installations : SameRow(j)
  BY <1>2, <1>3 DEF SameRow
<1>5. ASSUME NEW j \in Installations
      PROVE  RowInv(j)'
  BY <1>1, <1>3, <1>4, SameRowKept
<1>6. ASSUME NEW d \in Callers
      PROVE  WriterInv(d)'
  <2>1. CASE Works(d)'
    <3>1. call'[d] = call[d] /\ Works(d)
      BY <1>1, <2>1 DEF Works
    <3>2. call[d].i \in Installations
      BY <3>1, WriterArguments
    <3>3. \A e \in Callers : Works(e)' /\ call'[e].i = call[d].i =>
            Works(e) /\ call[e].i = call[d].i
      BY <1>1 DEF Works
    <3>4. SameRow(call[d].i)
      BY <1>4, <3>2
    <3>5. QED
      BY <3>1, <3>2, <3>3, <3>4, SameWriterKept
  <2>2. CASE ~Works(d)'
    BY <2>2 DEF WriterInv
  <2>3. QED
    BY <2>1, <2>2
<1>7. QED
  BY <1>5, <1>6 DEF RegistryInv

\* A writer that began when the record was served knows little of it.
LEMMA GrownWriter ==
  ASSUME NEW i \in Installations, i \in used', ~Young(i)', NEW d \in Callers,
         call'[d].i = i, Works(d)', call'[d].v \in Versions, call'[d].at \notin Inserting,
         call'[d].at = "advance" => call'[d].state \in DOMAIN NextState
  PROVE  WriterInv(d)'
BY DEF WriterInv, At, Inserting

LEMMA OtherGrownWriters ==
  ASSUME RegistryInv, NEW i \in Installations, i \in used, i \in used', ~Young(i)',
         NEW d \in Callers, call'[d] = call[d], call[d].i = i
  PROVE  WriterInv(d)'
<1>1. SUFFICES ASSUME Works(d)' PROVE WriterInv(d)'
  BY DEF WriterInv
<1>2. WriterInv(d) /\ Works(d)
  BY <1>1 DEF RegistryInv, Works
<1>3. call[d].v \in Versions /\ call[d].at # "create"
  BY <1>2 DEF WriterInv, At
<1>4. \A place : At(d, place)' <=> At(d, place)
  BY DEF At
<1>5. QED
  BY <1>2, <1>3, <1>4 DEF WriterInv

LEMMA RemovalKeepsRegistry ==
  ASSUME TypeOK, RegistryInv, NEW i \in Installations, RemoveInstallation(i)
  PROVE  RegistryInv'
<1>1. /\ life' = [life EXCEPT ![i] = "None"] /\ active' = [active EXCEPT ![i] = NoVersion]
      /\ bound' = [bound EXCEPT ![i] = [v \in Versions |-> Unbound]]
      /\ UNCHANGED <<call, used, interrupted, served>>
  BY DEF RemoveInstallation, RemoveRows
<1>2. RowInv(i) /\ life[i] # "None" /\ i \in used
  BY DEF RegistryInv, RowInv, RemoveInstallation, HasRecord
<1>3. /\ life'[i] = "None" /\ active'[i] = NoVersion
      /\ \A v \in Versions : bound'[i][v] = Unbound
  BY <1>1 DEF TypeOK
<1>4. \A j \in Installations \ {i} : SameRow(j)
  BY <1>1 DEF TypeOK, SameRow
<1>5. OnlyAt(i)
  BY <1>1 DEF OnlyAt
<1>6. RowInv(i)'
  <2>1. YoungRow(i)'
    BY <1>3 DEF YoungRow, Candidates, Unbound
  <2>2. \A v \in Versions : bound'[i][v].state # "installed"
    BY <1>3 DEF Unbound
  <2>3. QED
    BY <1>1, <1>2, <1>3, <2>1, <2>2 DEF RowInv
<1>7. ASSUME NEW d \in Callers, Works(d)', call'[d].i = i
      PROVE  WriterInv(d)'
  BY <1>1, <1>2, <1>3, <1>7, OtherGrownWriters DEF Young
<1>8. QED
  BY <1>4, <1>5, <1>6, <1>7, Elsewhere

LEMMA InsertKeepsRegistry ==
  ASSUME TypeOK, RegistryInv, NEW c \in Callers, NEW i \in Installations, NEW v \in Versions,
         Inserts(c, i, v)
  PROVE  RegistryInv'
<1>1. /\ call'[c].at = "create" /\ call'[c].i = i /\ call'[c].v = v
      /\ call'[c].target = "Validated"
      /\ \A d \in Callers \ {c} : call'[d] = call[d]
  <2>1. /\ "create" \in RegistryPlaces /\ v \in Serving
        /\ "Validated" \in Targets
    BY DEF RegistryPlaces, Writing, Inserting, Targets, States, Serving
  <2>2. Begins(c, "create", i, v, "Validated")
    BY DEF Inserts
  <2>3. QED
    BY <2>1, <2>2, BegunCall
<1>2. UNCHANGED <<registry, used, interrupted, served>> /\ i \notin used /\ ~Works(c)
  BY DEF Inserts, Begins, tables, ghosts, At, Works, Writing, Inserting
<1>3. \A j \in Installations : SameRow(j)
  BY <1>2 DEF SameRow, registry
<1>4. OnlyAt(i)
  BY <1>1, <1>2 DEF OnlyAt
<1>5. RowInv(i)'
  BY <1>1, <1>2, <1>3, BindingIsWork, SameRowKept
<1>6. \A d \in Callers : ~(Works(d) /\ call[d].i = i)
  <2>1. \A d \in Callers : Works(d) /\ call[d].i = i => call[d].at = "create"
    BY <1>2 DEF RegistryInv, WriterInv, At
  <2>2. \A d \in Callers : call[d].at \in Writing => call[d].i # i
    BY DEF Inserts
  <2>3. QED
    BY <2>1, <2>2 DEF Writing, Inserting
<1>7. \A d \in Callers : Works(d)' /\ call'[d].i = i => d = c
  BY <1>1, <1>6 DEF Works
<1>8. WriterInv(c)'
  <2>1. ~At(c, "advance")' /\ At(c, "create")'
    BY <1>1 DEF At
  <2>2. i \notin used'
    BY <1>2
  <2>3. QED
    BY <1>1, <1>7, <2>1, <2>2 DEF WriterInv
<1>9. QED
  BY <1>3, <1>4, <1>5, <1>7, <1>8, Elsewhere

LEMMA UpdateKeepsRegistry ==
  ASSUME TypeOK, RegistryInv, NEW c \in Callers, NEW i \in Installations,
         Disables(c, i) \/ \E v \in Versions : Upgrades(c, i, v)
  PROVE  RegistryInv'
<1>1. RowInv(i) /\ life[i] = "Active"
  BY DEF RegistryInv, Disables, Upgrades
<1>2. active[i] \in Versions /\ i \in used /\ ~Young(i)
  BY <1>1 DEF RowInv, YoungRow, Young, TypeOK, Serving
<1>3. \E v \in Versions, target \in {"Active", "Draining"} : Begins(c, "bind", i, v, target)
  BY <1>2 DEF Disables, Upgrades
<1>4. /\ call'[c].at = "bind" /\ call'[c].i = i /\ call'[c].v \in Versions
      /\ \A d \in Callers \ {c} : call'[d] = call[d]
  <2>1. /\ "bind" \in RegistryPlaces /\ Versions \subseteq Serving
        /\ {"Active", "Draining"} \subseteq Targets
    BY DEF RegistryPlaces, Writing, Inserting, Targets, States, Serving
  <2>2. PICK v \in Versions, target \in {"Active", "Draining"} : Begins(c, "bind", i, v, target)
    BY <1>3
  <2>3. v \in Serving /\ target \in Targets
    BY <2>1
  <2>4. QED
    BY <2>1, <2>2, <2>3, BegunCall
<1>5. UNCHANGED <<registry, used, interrupted, served>> /\ ~Works(c)
  BY DEF Disables, Upgrades, Begins, tables, ghosts, At, Works, Writing, Inserting
<1>6. \A j \in Installations : SameRow(j)
  BY <1>5 DEF SameRow, registry
<1>7. OnlyAt(i)
  BY <1>4, <1>5 DEF OnlyAt
<1>8. RowInv(i)'
  BY <1>4, <1>5, <1>6, BindingIsWork, SameRowKept
<1>9. i \in used' /\ ~Young(i)'
  BY <1>2, <1>5, <1>6, SameRowView
<1>10. WriterInv(c)'
  BY <1>4, <1>9, GrownWriter DEF Works, Writing, Inserting
<1>11. ASSUME NEW d \in Callers \ {c}, Works(d)', call'[d].i = i
       PROVE  WriterInv(d)'
  BY <1>2, <1>4, <1>9, <1>11, OtherGrownWriters
<1>12. QED
  BY <1>6, <1>7, <1>8, <1>10, <1>11, Elsewhere

LEMMA CreateKeepsRegistry ==
  ASSUME TypeOK, RegistryInv, NEW c \in Callers, CreateInstallation(c)
  PROVE  RegistryInv'
<1>1. Works(c) /\ At(c, "create")
  BY DEF CreateInstallation, Served, At, Works, Writing, Inserting
<1>2. call[c] \in RegistryCalls /\ call[c].i \in Installations /\ call[c].v \in Versions
  BY <1>1, WriterArguments
<1>3. PICK i \in Installations : i = call[c].i
  BY <1>2
<1>4. /\ call[c] \in RegistryCalls /\ i = call[c].i /\ call[c].v \in Versions
      /\ WriterInv(c) /\ RowInv(i)
  BY <1>2, <1>3 DEF RegistryInv
<1>5. i \notin used /\ call[c].target = "Validated"
  BY <1>1, <1>4 DEF WriterInv, At, Inserting
<1>6. /\ call'[c].at = "bind first" /\ call'[c].i = i /\ call'[c].v = call[c].v
      /\ call'[c].target = "Validated"
      /\ \A d \in Callers \ {c} : call'[d] = call[d]
  <2>1. "bind first" \in RegistryPlaces
    BY DEF RegistryPlaces, Writing, Inserting
  <2>2. QED
    BY <1>4, <1>5, <2>1, GoesOn DEF CreateInstallation
<1>7. /\ life' = [life EXCEPT ![i] = "Installed"] /\ used' = used \cup {i}
      /\ UNCHANGED <<bound, active, served, interrupted>>
  BY <1>4 DEF CreateInstallation
<1>8. /\ life'[i] = "Installed" /\ active'[i] = NoVersion /\ i \in used'
      /\ \A v \in Versions : bound'[i][v] = Unbound
  BY <1>4, <1>5, <1>7 DEF TypeOK, RowInv
<1>9. \A j \in Installations \ {i} : SameRow(j)
  BY <1>4, <1>7 DEF TypeOK, SameRow
<1>10. OnlyAt(i)
  BY <1>4, <1>6 DEF OnlyAt
<1>11. Candidates(i)' = {}
  BY <1>8 DEF Candidates, Unbound
<1>12. RowInv(i)'
  <2>1. YoungRow(i)'
    BY <1>8, <1>11 DEF YoungRow, Unbound
  <2>2. \A v \in Versions : bound'[i][v].state # "installed"
    BY <1>8 DEF Unbound
  <2>3. At(c, "bind first")' /\ call'[c].i = i
    BY <1>6 DEF At
  <2>4. QED
    BY <1>8, <2>1, <2>2, <2>3 DEF RowInv
<1>13. \A d \in Callers : Works(d)' /\ call'[d].i = i => d = c
  BY <1>1, <1>4, <1>5, <1>6 DEF WriterInv, Young, Works
<1>14. WriterInv(c)'
  <2>1. \A place : At(c, place)' <=> place = "bind first"
    BY <1>6 DEF At
  <2>2. QED
    BY <1>4, <1>6, <1>8, <1>11, <1>13, <2>1 DEF WriterInv, Inserting
<1>15. QED
  BY <1>4, <1>9, <1>10, <1>12, <1>13, <1>14, Elsewhere

\* A young installation is bound to the one version of its writer.
LEMMA BindingKeepsRegistry ==
  ASSUME TypeOK, RegistryInv, NEW c \in Callers, BindFirstVersion(c) \/ BindVersionOnce(c)
  PROVE  RegistryInv'
<1>1. Works(c) /\ (IF BindFirstVersion(c) THEN At(c, "bind first") ELSE At(c, "bind"))
  BY DEF BindFirstVersion, BindVersionOnce, Served, At, Works, Writing, Inserting
<1>2. call[c] \in RegistryCalls /\ call[c].i \in Installations /\ call[c].v \in Versions
  BY <1>1, WriterArguments
<1>3. PICK i \in Installations, v \in Versions : i = call[c].i /\ v = call[c].v
  BY <1>2
<1>4. call[c] \in RegistryCalls /\ i = call[c].i /\ v = call[c].v /\ WriterInv(c) /\ RowInv(i)
  BY <1>2, <1>3 DEF RegistryInv
<1>5. /\ UNCHANGED <<life, active, used, interrupted, served>> /\ life[i] # "None"
      /\ i \in used
  <2>1. UNCHANGED <<life, active, used, interrupted, served>> /\ life[i] # "None"
    BY <1>4 DEF BindFirstVersion, BindVersionOnce, ghosts
  <2>2. QED
    BY <1>4, <2>1 DEF RowInv
<1>6. PICK second \in Seconds : BindsAs(i, v, second)
  BY <1>4 DEF BindFirstVersion, BindVersionOnce
<1>7. /\ bound' \in [Installations -> [Versions -> Bound \cup {Unbound}]]
      /\ \A j \in Installations, w \in Versions :
           IF j = i /\ w = v /\ bound[i][v] = Unbound
           THEN bound'[j][w] = [state |-> "candidate", created |-> second]
           ELSE bound'[j][w] = bound[j][w]
  BY <1>4, <1>6, BoundType
<1>8. /\ call'[c].i = i /\ call'[c].v = v /\ call'[c].target = call[c].target
      /\ call'[c].at = IF At(c, "bind first") THEN "read state" ELSE "switch"
      /\ \A d \in Callers \ {c} : call'[d] = call[d]
  <2>1. "read state" \in RegistryPlaces /\ "switch" \in RegistryPlaces
    BY DEF RegistryPlaces, Writing, Inserting
  <2>2. CASE BindFirstVersion(c)
    BY <1>4, <2>1, <2>2, GoesOn DEF BindFirstVersion, Served
  <2>3. CASE BindVersionOnce(c)
    <3>1. ~At(c, "bind first")
      BY <2>3 DEF BindVersionOnce, Served, At
    <3>2. QED
      BY <1>4, <2>1, <2>3, <3>1, GoesOn DEF BindVersionOnce
  <2>4. QED
    BY <2>2, <2>3
<1>9. \A j \in Installations \ {i} : SameRow(j)
  <2>1. ASSUME NEW j \in Installations \ {i}
        PROVE  bound'[j] = bound[j]
    <3>1. /\ bound[j] \in [Versions -> Bound \cup {Unbound}]
          /\ bound'[j] \in [Versions -> Bound \cup {Unbound}]
      BY <1>7 DEF TypeOK
    <3>2. \A w \in Versions : bound'[j][w] = bound[j][w]
      BY <1>7
    <3>3. QED
      BY <3>1, <3>2
  <2>2. QED
    BY <1>5, <2>1 DEF SameRow
<1>10. OnlyAt(i)
  BY <1>4, <1>8 DEF OnlyAt
<1>11. Young(i)' <=> Young(i)
  BY <1>5 DEF Young
<1>12. \A w \in Versions : bound'[i][w].state = "installed" <=> bound[i][w].state = "installed"
  BY <1>4, <1>7 DEF Unbound
<1>13. ASSUME Young(i)
       PROVE  Candidates(i)' = {v}
  <2>1. active[i] = NoVersion
    BY <1>5, <1>13 DEF Young
  <2>2. /\ Candidates(i) = IF At(c, "bind first") THEN {} ELSE {v}
        /\ \A w \in Versions : bound[i][w].state # "installed"
    BY <1>1, <1>4, <1>5, <1>13, <2>1 DEF WriterInv, RowInv, YoungRow
  <2>3. bound[i][v] \in Bound \cup {Unbound}
    BY <1>4 DEF TypeOK
  <2>4. bound'[i][v].state = "candidate"
    <3>1. CASE bound[i][v] = Unbound
      <4>1. bound'[i][v] = [state |-> "candidate", created |-> second]
        BY <1>7, <3>1
      <4>2. QED
        BY <4>1
    <3>2. CASE bound[i][v] # Unbound
      <4>1. bound[i][v] \in Bound /\ bound'[i][v] = bound[i][v]
        BY <1>7, <2>3, <3>2
      <4>2. bound[i][v].state = "candidate"
        BY <2>2, <4>1 DEF Bound
      <4>3. QED
        BY <4>1, <4>2
    <3>3. QED
      BY <3>1, <3>2
  <2>5. \A w \in Versions \ {v} : bound'[i][w] = bound[i][w] /\ bound[i][w].state # "candidate"
    BY <1>4, <1>7, <2>2 DEF Candidates
  <2>6. QED
    BY <1>4, <2>4, <2>5 DEF Candidates
<1>14. RowInv(i)'
  <2>1. YoungRow(i)'
    <3>1. SUFFICES ASSUME active[i] = NoVersion PROVE YoungRow(i)'
      BY <1>5 DEF YoungRow
    <3>2. Young(i)
      BY <1>5, <3>1 DEF Young
    <3>3. QED
      BY <1>4, <1>5, <1>12, <1>13, <3>1, <3>2 DEF YoungRow, RowInv
  <2>2. HasRecord(i)'
    <3>1. active[i] = NoVersion => Candidates(i)' = {v}
      BY <1>5, <1>13 DEF Young
    <3>2. QED
      BY <1>5, <3>1 DEF HasRecord
  <2>3. \A w \in Versions : bound'[i][w].state = "installed" => w \in served'[i]
    BY <1>4, <1>5, <1>12 DEF RowInv
  <2>4. QED
    BY <1>5, <2>1, <2>2, <2>3 DEF RowInv
<1>15. i \in used'
  BY <1>5
<1>16. ASSUME ~Young(i), NEW d \in Callers, Works(d)', call'[d].i = i
       PROVE  WriterInv(d)'
  <2>1. CASE d = c
    <3>1. call'[d].at \notin Inserting /\ call'[d].at # "advance"
      BY <1>8, <2>1 DEF Inserting
    <3>2. QED
      BY <1>4, <1>8, <1>11, <1>15, <1>16, <2>1, <3>1, GrownWriter
  <2>2. CASE d # c
    BY <1>5, <1>8, <1>11, <1>15, <1>16, <2>2, OtherGrownWriters
  <2>3. QED
    BY <2>1, <2>2
<1>17. ASSUME Young(i), NEW d \in Callers, Works(d)', call'[d].i = i
       PROVE  WriterInv(d)'
  <2>1. \A e \in Callers : Works(e)' /\ call'[e].i = i => e = c
    BY <1>1, <1>4, <1>8, <1>17 DEF WriterInv, Works
  <2>2. d = c
    BY <1>17, <2>1
  <2>3. \A place : At(c, place)' <=> place = IF At(c, "bind first") THEN "read state" ELSE "switch"
    BY <1>8 DEF At
  <2>4. At(c, "bind first") => call[c].target = "Validated"
    BY <1>1, <1>4 DEF WriterInv, Inserting, At
  <2>5. QED
    BY <1>4, <1>5, <1>8, <1>13, <1>15, <1>17, <2>1, <2>2, <2>3, <2>4 DEF WriterInv, Inserting
<1>18. QED
  BY <1>4, <1>9, <1>10, <1>14, <1>16, <1>17, Elsewhere

LEMMA SwitchKeepsRegistry ==
  ASSUME TypeOK, RegistryInv, NEW c \in Callers, SwitchActiveVersion(c)
  PROVE  RegistryInv'
<1>1. Works(c) /\ At(c, "switch")
  BY DEF SwitchActiveVersion, Served, At, Works, Writing, Inserting
<1>2. call[c] \in RegistryCalls /\ call[c].i \in Installations /\ call[c].v \in Versions
  BY <1>1, WriterArguments
<1>3. PICK i \in Installations, v \in Versions : i = call[c].i /\ v = call[c].v
  BY <1>2
<1>4. RowInv(i) /\ i = call[c].i /\ v = call[c].v
  BY <1>3 DEF RegistryInv
<1>5. /\ life[i] # "None" /\ bound[i][v] # Unbound
      /\ active' = [active EXCEPT ![i] = v]
      /\ bound' = [bound EXCEPT ![i][v].state = "installed"]
      /\ served' = [served EXCEPT ![i] = served[i] \cup {v}]
      /\ UNCHANGED <<life, used, interrupted>>
  BY <1>4 DEF SwitchActiveVersion
<1>6. /\ bound' \in [Installations -> [Versions -> Bound \cup {Unbound}]]
      /\ \A j \in Installations, w \in Versions :
           j # i \/ w # v => bound'[j][w] = bound[j][w]
  BY <1>5, SwitchedType
<1>7. active'[i] = v /\ v # NoVersion /\ i \in used' /\ life'[i] # "None"
  <2>1. active'[i] = v
    BY <1>5 DEF TypeOK
  <2>2. v # NoVersion
    BY VersionsAssumption DEF NoVersion
  <2>3. QED
    BY <1>4, <1>5, <2>1, <2>2 DEF RowInv
<1>8. /\ call'[c].at = "read state" /\ call'[c].i = i /\ call'[c].v = v
      /\ \A d \in Callers \ {c} : call'[d] = call[d]
  <2>1. "read state" \in RegistryPlaces
    BY DEF RegistryPlaces, Writing, Inserting
  <2>2. QED
    BY <1>2, <1>4, <2>1, GoesOn DEF SwitchActiveVersion
<1>9. ASSUME NEW j \in Installations \ {i}
      PROVE  SameRow(j)
  <2>1. bound'[j] = bound[j]
    <3>1. /\ bound[j] \in [Versions -> Bound \cup {Unbound}]
          /\ bound'[j] \in [Versions -> Bound \cup {Unbound}]
      BY <1>6 DEF TypeOK
    <3>2. \A w \in Versions : bound'[j][w] = bound[j][w]
      BY <1>6
    <3>3. QED
      BY <3>1, <3>2
  <2>2. active'[j] = active[j] /\ served'[j] = served[j]
    BY <1>5 DEF TypeOK
  <2>3. QED
    BY <1>5, <2>1, <2>2 DEF SameRow
<1>10. OnlyAt(i)
  BY <1>4, <1>8 DEF OnlyAt
<1>11. RowInv(i)'
  <2>1. HasRecord(i)' /\ YoungRow(i)'
    BY <1>7 DEF HasRecord, YoungRow
  <2>2. served'[i] = served[i] \cup {v}
    BY <1>5 DEF TypeOK
  <2>3. ASSUME NEW w \in Versions, bound'[i][w].state = "installed"
        PROVE  w \in served'[i]
    <3>1. w # v => bound[i][w].state = "installed"
      BY <1>6, <2>3
    <3>2. QED
      BY <1>4, <2>2, <3>1 DEF RowInv
  <2>4. QED
    BY <1>7, <2>1, <2>3 DEF RowInv
<1>12. ~Young(i)' /\ i \in used
  BY <1>5, <1>7 DEF Young
<1>13. ASSUME NEW d \in Callers, Works(d)', call'[d].i = i
       PROVE  WriterInv(d)'
  <2>1. CASE d = c
    <3>1. call'[d].at \notin Inserting /\ call'[d].at # "advance"
      BY <1>8, <2>1 DEF Inserting
    <3>2. QED
      BY <1>7, <1>8, <1>12, <1>13, <2>1, <3>1, GrownWriter
  <2>2. CASE d # c
    BY <1>7, <1>8, <1>12, <1>13, <2>2, OtherGrownWriters
  <2>3. QED
    BY <2>1, <2>2
<1>14. QED
  BY <1>9, <1>10, <1>11, <1>13, Elsewhere

LEMMA FirstState == NextState["Installed"] = "Validated"
BY DEF NextState

\* A young installation goes from Installed to Validated, and no further.
LEMMA LifecycleKeepsRegistry ==
  ASSUME TypeOK, RegistryInv, NEW c \in Callers, ReadState(c) \/ ApplyEvent(c) \/ Activates(c)
  PROVE  RegistryInv'
<1>1. /\ Works(c)
      /\ ReadState(c) => At(c, "read state")
      /\ ApplyEvent(c) => At(c, "advance")
      /\ Activates(c) => At(c, "inserted")
      /\ call[c].at \notin Inserting
  BY DEF ReadState, ApplyEvent, Activates, Served, At, Works, Writing, Inserting
<1>2. call[c] \in RegistryCalls /\ call[c].i \in Installations /\ call[c].v \in Versions
  BY <1>1, WriterArguments
<1>3. PICK i \in Installations, v \in Versions : i = call[c].i /\ v = call[c].v
  BY <1>2
<1>4. RowInv(i) /\ WriterInv(c) /\ i = call[c].i /\ v = call[c].v
  BY <1>3 DEF RegistryInv
<1>5. UNCHANGED <<bound, active, used, interrupted, served>>
  BY DEF ReadState, ApplyEvent, Activates, tables, registry, ghosts
<1>6. \/ life' = life /\ ~ApplyEvent(c)
      \/ /\ ApplyEvent(c) /\ life[i] = call[c].state
         /\ life' = [life EXCEPT ![i] = NextState[call[c].state]]
  BY <1>4 DEF ReadState, ApplyEvent, Activates, tables, registry, Served, At
<1>7. /\ \A d \in Callers \ {c} : call'[d] = call[d]
      /\ \/ call'[c].at = "idle"
         \/ /\ call'[c].at \in {"advance", "inserted", "bind"}
            /\ call'[c].i = i /\ call'[c].v = v
            /\ call'[c].at # "bind" => call'[c].target = call[c].target
            /\ call'[c].at = "advance" =>
                 /\ call'[c].state \in DOMAIN NextState
                 /\ call'[c].state # call[c].target
                 /\ call'[c].state = IF At(c, "read state") THEN life[i]
                                     ELSE NextState[call[c].state]
                 /\ ~Activates(c)
  <2>1. call'[c].at = "advance" => ~Activates(c)
    <3>1. Activates(c) => call'[c].at = "bind"
      BY <1>2 DEF Activates, TypeOK, RegistryCalls
    <3>2. QED
      BY <3>1
  <2>2. QED
    BY <1>4, <2>1, LifecycleCalls
<1>8. \A j \in Installations \ {i} : SameRow(j)
  BY <1>5, <1>6 DEF SameRow, TypeOK
<1>9. OnlyAt(i)
  BY <1>4, <1>7 DEF OnlyAt, Works, Writing, Inserting
<1>10. life'[i] # "None" <=> life[i] # "None"
  <2>1. CASE ApplyEvent(c)
    <3>1. /\ call[c].state \in DOMAIN NextState /\ life[i] = call[c].state
          /\ life'[i] = NextState[call[c].state]
      BY <1>1, <1>4, <1>6, <2>1 DEF WriterInv, TypeOK
    <3>2. QED
      BY <3>1 DEF NextState
  <2>2. CASE ~ApplyEvent(c)
    BY <1>6, <2>2
  <2>3. QED
    BY <2>1, <2>2
<1>11. /\ Candidates(i)' = Candidates(i) /\ (Young(i)' <=> Young(i))
       /\ HasRecord(i)' <=> HasRecord(i)
  <2>1. Candidates(i)' = Candidates(i)
    BY <1>5 DEF Candidates
  <2>2. QED
    BY <1>5, <1>10, <2>1 DEF Young, HasRecord
<1>12. ASSUME active[i] = NoVersion, life[i] # "None"
       PROVE  /\ life'[i] \in {"Installed", "Validated"}
              /\ At(c, "advance") => call[c].state = "Installed"
              /\ call[c].at \in {"read state", "advance"} => call[c].target = "Validated"
              /\ life[i] \in {"Installed", "Validated"}
  <2>1. Young(i) /\ i \in used
    BY <1>4, <1>12 DEF Young, RowInv
  <2>2. /\ At(c, "advance") => call[c].state = "Installed"
        /\ call[c].at \in {"read state", "advance"} => call[c].target = "Validated"
    BY <1>1, <1>4, <2>1 DEF WriterInv
  <2>3. life[i] \in {"Installed", "Validated"}
    BY <1>4, <1>12 DEF RowInv, YoungRow
  <2>4. ApplyEvent(c) => life'[i] = "Validated"
    BY <1>1, <1>6, <2>2, FirstState DEF TypeOK
  <2>5. QED
    BY <1>6, <2>2, <2>3, <2>4
<1>13. RowInv(i)'
  <2>1. YoungRow(i)'
    <3>1. active[i] = NoVersion => life'[i] \in {"None", "Installed", "Validated"}
      BY <1>10, <1>12
    <3>2. QED
      BY <1>4, <1>5, <1>11, <3>1 DEF RowInv, YoungRow
  <2>2. (life[i] # "None" /\ ~HasRecord(i) =>
           i \in interrupted \/ \E d \in Callers : At(d, "bind first") /\ call[d].i = i)'
    <3>1. SUFFICES ASSUME life'[i] # "None", ~HasRecord(i)', i \notin interrupted'
                   PROVE  \E d \in Callers : At(d, "bind first")' /\ call'[d].i = i
      OBVIOUS
    <3>2. PICK d \in Callers : At(d, "bind first") /\ call[d].i = i
      BY <1>4, <1>5, <1>10, <1>11, <3>1 DEF RowInv
    <3>3. d # c
      BY <1>1, <3>2 DEF At, Inserting
    <3>4. QED
      BY <1>7, <3>2, <3>3 DEF At
  <2>3. QED
    BY <1>4, <1>5, <1>10, <2>1, <2>2 DEF RowInv
<1>14. ASSUME Works(c)'
       PROVE  WriterInv(c)'
  <2>1. /\ call'[c].at \in {"advance", "inserted", "bind"} /\ call'[c].i = i /\ call'[c].v = v
    BY <1>7, <1>14 DEF Works, Writing, Inserting
  <2>2. i \in used'
    BY <1>1, <1>4, <1>5 DEF WriterInv, At, Inserting
  <2>3. /\ ~At(c, "create")' /\ ~At(c, "bind first")' /\ call'[c].at \notin Inserting
        /\ ~At(c, "create") /\ ~At(c, "bind first")
    BY <1>1, <2>1 DEF At, Inserting
  <2>4. At(c, "advance")' => call'[c].state \in DOMAIN NextState
    BY <1>7 DEF At
  <2>5. Young(i)' => \A d \in Callers : Works(d)' /\ call'[d].i = i => d = c
    BY <1>1, <1>4, <1>7, <1>11 DEF WriterInv, Works
  <2>6. ASSUME Young(i)'
        PROVE  /\ Candidates(i)' = {v}
               /\ call'[c].at \in {"read state", "advance"} => call'[c].target = "Validated"
               /\ At(c, "advance")' => call'[c].state = "Installed"
    <3>1. active[i] = NoVersion /\ life[i] # "None" /\ Young(i) /\ i \in used
      BY <1>5, <1>11, <2>2, <2>6 DEF Young
    <3>2. Candidates(i)' = {v}
      BY <1>1, <1>4, <1>11, <2>3, <3>1 DEF WriterInv
    <3>3. ASSUME call'[c].at = "advance"
          PROVE  call'[c].target = "Validated" /\ call'[c].state = "Installed"
      <4>1. At(c, "read state") \/ At(c, "advance")
        BY <1>1, <1>7, <3>3
      <4>2. call[c].target = "Validated" /\ call'[c].target = "Validated"
        BY <1>7, <1>12, <3>1, <3>3, <4>1 DEF At
      <4>3. At(c, "advance") => NextState[call[c].state] = "Validated"
        BY <1>12, <3>1, FirstState
      <4>4. QED
        BY <1>7, <1>12, <3>1, <3>3, <4>1, <4>2, <4>3
    <3>4. QED
      BY <2>1, <3>2, <3>3 DEF At
  <2>7. QED
    BY <2>1, <2>2, <2>3, <2>4, <2>5, <2>6 DEF WriterInv
<1>15. ASSUME NEW d \in Callers \ {c}, Works(d)', call'[d].i = i
       PROVE  WriterInv(d)'
  <2>1. call'[d] = call[d] /\ Works(d) /\ call[d].i = i /\ d # c
    BY <1>7, <1>15 DEF Works
  <2>2. ~Young(i)
    BY <1>1, <1>4, <2>1 DEF WriterInv
  <2>3. i \in used /\ i \in used'
    BY <1>1, <1>4, <1>5 DEF WriterInv, At, Inserting
  <2>4. QED
    BY <1>11, <2>1, <2>2, <2>3, OtherGrownWriters
<1>16. QED
  BY <1>8, <1>9, <1>13, <1>14, <1>15, Elsewhere

LEMMA ReadersKeepRegistry ==
  ASSUME TypeOK, RegistryInv, NEW c \in Callers,
         \/ ReaderStep(c) \/ PutStep(c)
         \/ \E i \in Installations : Reads(c, i)
         \/ \E i \in Installations, n \in Names : Puts(c, i, n)
  PROVE  RegistryInv'
<1>1. UNCHANGED <<registry, used, interrupted, served>>
  BY DEF ReaderStep, PutStep, ReadRow, ReadActive, ReadVersions, PutValue, ReadBack, AppendAudit,
         Reads, Begins, Puts, tables, ghosts
<1>2. ~Works(c)
  BY DEF ReaderStep, PutStep, ReadRow, ReadActive, ReadVersions, PutValue, ReadBack, AppendAudit,
         Reads, Puts, Served, At, Works, Writing, Inserting
<1>3. /\ \A d \in Callers \ {c} : call'[d] = call[d]
      /\ call'[c].at \in Reading \cup Putting \cup {"idle"}
  <2>1. CASE \E i \in Installations : Reads(c, i)
    <3>1. /\ "read row" \in RegistryPlaces /\ "read row" \in Reading /\ NoVersion \in Serving
          /\ "None" \in Targets
      BY DEF RegistryPlaces, Reading, Serving, Targets, States
    <3>2. PICK i \in Installations : Begins(c, "read row", i, NoVersion, "None")
      BY <2>1 DEF Reads
    <3>3. QED
      BY <3>1, <3>2, BegunCall
  <2>2. CASE \E i \in Installations, n \in Names : Puts(c, i, n)
    BY <2>2, PutBegun DEF Putting
  <2>3. CASE ReaderStep(c) /\ ~ReadActive(c)
    <3>1. call[c] \in RegistryCalls /\ "read active" \in RegistryPlaces
      BY <2>3, CallKinds DEF ReaderStep, ReadRow, ReadVersions, Served, At, RegistryPlaces, Reading
    <3>2. Ends(c) \/ GoTo(c, "read active")
      BY <2>3 DEF ReaderStep, ReadRow, ReadVersions
    <3>3. QED
      BY <3>1, <3>2, EndedCall, GoesOn DEF Reading
  <2>4. CASE ReadActive(c)
    BY <2>4, ReadActiveCall DEF Reading
  <2>5. CASE PutStep(c)
    <3>1. call[c] \in PutCalls /\ {"read back", "audit"} \subseteq Putting
      BY <2>5, CallKinds DEF PutStep, PutValue, ReadBack, AppendAudit, Served, At, Putting
    <3>2. Ends(c) \/ GoTo(c, "read back") \/ GoTo(c, "audit")
      BY <2>5 DEF PutStep, PutValue, ReadBack, AppendAudit
    <3>3. QED
      BY <3>1, <3>2, EndedCall, PutGoesOn
  <2>6. QED
    BY <2>1, <2>2, <2>3, <2>4, <2>5 DEF ReaderStep
<1>4. ~Works(c)'
  BY <1>3 DEF Works, Reading, Putting, Writing, Inserting
<1>5. QED
  BY <1>1, <1>2, <1>3, <1>4, Quiet

LEMMA RegistryStepKept ==
  ASSUME TypeOK, RegistryInv, [Next]_vars
  PROVE  RegistryInv'
<1>1. ASSUME NEW c \in Callers,
             \/ \E i \in Installations : Disables(c, i) \/ Reads(c, i)
             \/ \E i \in Installations, v \in Versions : Inserts(c, i, v) \/ Upgrades(c, i, v)
             \/ \E i \in Installations, n \in Names : Puts(c, i, n)
             \/ RegistryStep(c) \/ ReaderStep(c) \/ PutStep(c) \/ CallFails(c)
      PROVE  RegistryInv'
  <2>1. CASE \E i \in Installations, v \in Versions : Inserts(c, i, v)
    BY <2>1, InsertKeepsRegistry
  <2>2. CASE \E i \in Installations : Disables(c, i) \/ \E v \in Versions : Upgrades(c, i, v)
    BY <2>2, UpdateKeepsRegistry
  <2>3. CASE RegistryStep(c)
    BY <2>3, CreateKeepsRegistry, BindingKeepsRegistry, SwitchKeepsRegistry,
       LifecycleKeepsRegistry DEF RegistryStep
  <2>4. CASE CallFails(c)
    BY <2>4, FailureKeepsRegistry
  <2>5. CASE \/ ReaderStep(c) \/ PutStep(c)
             \/ \E i \in Installations : Reads(c, i)
             \/ \E i \in Installations, n \in Names : Puts(c, i, n)
    BY <2>5, ReadersKeepRegistry
  <2>6. QED
    BY <1>1, <2>1, <2>2, <2>3, <2>4, <2>5
<1>2. CASE OtherTransaction \/ \E i \in Installations : DeleteSecret(i)
  BY <1>2, Quiet DEF OtherTransaction, DeleteSecret, ghosts
<1>3. CASE UNCHANGED vars
  BY <1>3, Quiet DEF vars, tables, ghosts
<1>4. QED
  BY <1>1, <1>2, <1>3, StepKinds, RemovalKeepsRegistry DEF Next

-----------------------------------------------------------------------------
(* What the tables compose is the ledger of InstallationLedger.            *)

SameRecord(i) == RecordOf(i)' = RecordOf(i)
OthersSame(i) == removed' = removed /\ \A j \in Installations \ {i} : SameRecord(j)

LEMMA LedgerStays ==
  ASSUME \A i \in Installations : SameRecord(i), removed' = removed
  PROVE  UNCHANGED Ledger!vars
BY DEF SameRecord, records, Ledger!vars

LEMMA RecordChange ==
  ASSUME NEW i \in Installations, \A j \in Installations \ {i} : SameRecord(j),
         NEW new, RecordOf(i)' = new
  PROVE  records' = [records EXCEPT ![i] = new] /\ records[i] = RecordOf(i)
BY DEF SameRecord, records

LEMMA LedgerInsert ==
  ASSUME NEW i \in Installations, NEW v \in Versions, OthersSame(i),
         ~HasRecord(i), i \notin removed, HasRecord(i)', VersionOf(i)' = v,
         active'[i] = NoVersion, life'[i] = "Installed"
  PROVE  Ledger!Insert(i, v)
<1>1. RecordOf(i) = Ledger!NoRecord
  BY DEF RecordOf, Ledger!NoRecord
<1>2. RecordOf(i)' = [Ledger!NoRecord EXCEPT !.version = v, !.state = "Installed"]
  <2>1. RecordOf(i)' = [version |-> v, serves |-> NoVersion, state |-> "Installed"]
    BY Zenon DEF RecordOf
  <2>2. [Ledger!NoRecord EXCEPT !.version = v] =
        [version |-> v, serves |-> NoVersion, state |-> "None"]
    BY DEF Ledger!NoRecord
  <2>3. [[version |-> v, serves |-> NoVersion, state |-> "None"] EXCEPT !.state = "Installed"] =
        [version |-> v, serves |-> NoVersion, state |-> "Installed"]
    OBVIOUS
  <2>4. QED
    BY <2>1, <2>2, <2>3
<1>3. QED
  BY <1>1, <1>2, RecordChange DEF Ledger!Insert, OthersSame

LEMMA LedgerAdvance ==
  ASSUME NEW i \in Installations, OthersSame(i), HasRecord(i), HasRecord(i)',
         VersionOf(i)' = VersionOf(i), active'[i] = active[i],
         life[i] \in DOMAIN NextState, life'[i] = NextState[life[i]]
  PROVE  Ledger!Advance(i)
<1>1. RecordOf(i)' = [RecordOf(i) EXCEPT !.state = NextState[@]] /\ RecordOf(i).state = life[i]
  BY DEF RecordOf
<1>2. Ledger!NextState = NextState
  BY DEF Ledger!NextState, NextState
<1>3. QED
  BY <1>1, <1>2, RecordChange DEF Ledger!Advance, OthersSame

LEMMA LedgerServe ==
  ASSUME NEW i \in Installations, NEW v \in Versions, OthersSame(i), HasRecord(i), HasRecord(i)',
         active[i] = NoVersion => VersionOf(i) = v,
         VersionOf(i)' = v, active'[i] = v, life'[i] = life[i]
  PROVE  Ledger!Serve(i, v)
<1>1. /\ RecordOf(i)' = [RecordOf(i) EXCEPT !.version = v, !.serves = v]
      /\ RecordOf(i).serves = active[i] /\ RecordOf(i).version = VersionOf(i)
  <2>1. RecordOf(i)' = [version |-> v, serves |-> v, state |-> life[i]]
    BY Zenon DEF RecordOf
  <2>2. RecordOf(i) = [version |-> VersionOf(i), serves |-> active[i], state |-> life[i]]
    BY Zenon DEF RecordOf
  <2>3. [RecordOf(i) EXCEPT !.version = v] =
        [version |-> v, serves |-> active[i], state |-> life[i]]
    BY <2>2
  <2>4. [[version |-> v, serves |-> active[i], state |-> life[i]] EXCEPT !.serves = v] =
        [version |-> v, serves |-> v, state |-> life[i]]
    OBVIOUS
  <2>5. [RecordOf(i) EXCEPT !.version = v, !.serves = v] =
        [version |-> v, serves |-> v, state |-> life[i]]
    BY <2>3, <2>4
  <2>6. RecordOf(i).serves = active[i] /\ RecordOf(i).version = VersionOf(i)
    BY <2>2
  <2>7. QED
    BY <2>1, <2>5, <2>6
<1>2. RecordOf(i) # Ledger!NoRecord
  <2>1. RecordOf(i).state # "None"
    BY DEF RecordOf, HasRecord
  <2>2. QED
    BY <2>1 DEF Ledger!NoRecord
<1>3. QED
  BY <1>1, <1>2, RecordChange DEF Ledger!Serve, OthersSame

LEMMA LedgerRemove ==
  ASSUME NEW i \in Installations, \A j \in Installations \ {i} : SameRecord(j),
         HasRecord(i), ~HasRecord(i)', removed' = removed \cup {i}
  PROVE  Ledger!Remove(i)
<1>1. RecordOf(i)' = Ledger!NoRecord
  BY DEF RecordOf, Ledger!NoRecord
<1>2. RecordOf(i) # Ledger!NoRecord
  <2>1. RecordOf(i).state # "None"
    BY DEF RecordOf, HasRecord
  <2>2. QED
    BY <2>1 DEF Ledger!NoRecord
<1>3. QED
  BY <1>1, <1>2, RecordChange DEF Ledger!Remove

LEMMA SameTables ==
  ASSUME NEW j \in Installations, life'[j] = life[j], bound'[j] = bound[j], active'[j] = active[j]
  PROVE  SameRecord(j)
<1>1. Candidates(j)' = Candidates(j)
  BY DEF Candidates
<1>2. QED
  BY <1>1 DEF SameRecord, RecordOf, HasRecord, VersionOf

LEMMA RegistryUntouched ==
  ASSUME UNCHANGED <<registry, used>>
  PROVE  UNCHANGED Ledger!vars
BY SameTables, LedgerStays DEF registry, removed

\* An installation that nobody has served is bound to at most one version.
LEMMA OnlyVersion ==
  ASSUME RegistryInv, NEW i \in Installations, NEW v \in Candidates(i), active[i] = NoVersion
  PROVE  Candidates(i) = {v} /\ VersionOf(i) = v
<1>1. Candidates(i) = {v} /\ v \in Versions
  BY DEF RegistryInv, RowInv, YoungRow, Candidates
<1>2. QED
  BY <1>1, MaxOfOne DEF VersionOf

LEMMA WriterStepOfLedger ==
  ASSUME TypeOK, RegistryInv, RegistryInv', NEW c \in Callers,
         \/ CreateInstallation(c) \/ BindFirstVersion(c) \/ BindVersionOnce(c)
         \/ SwitchActiveVersion(c)
  PROVE  [Ledger!Next]_(Ledger!vars)
<1>1. Works(c)
  BY DEF CreateInstallation, BindFirstVersion, BindVersionOnce, SwitchActiveVersion,
         Served, At, Works, Writing, Inserting
<1>2. call[c] \in RegistryCalls /\ call[c].i \in Installations /\ call[c].v \in Versions
  BY <1>1, WriterArguments
<1>3. PICK i \in Installations, v \in Versions : i = call[c].i /\ v = call[c].v
  BY <1>2
<1>4. RowInv(i) /\ RowInv(i)' /\ WriterInv(c) /\ i = call[c].i /\ v = call[c].v
  BY <1>3 DEF RegistryInv
<1>5. CASE CreateInstallation(c)
  <2>1. /\ i \notin used /\ used' = used \cup {i} /\ life' = [life EXCEPT ![i] = "Installed"]
        /\ UNCHANGED <<bound, active>>
    BY <1>1, <1>4, <1>5 DEF CreateInstallation, Served, WriterInv
  <2>2. life[i] = "None" /\ active[i] = NoVersion /\ \A w \in Versions : bound[i][w] = Unbound
    BY <1>4, <2>1 DEF RowInv
  <2>3. ~HasRecord(i) /\ ~HasRecord(i)'
    BY <2>1, <2>2 DEF HasRecord, Candidates, Unbound
  <2>4. SameRecord(i)
    BY <2>3, Zenon DEF SameRecord, RecordOf
  <2>5. \A j \in Installations \ {i} : SameRecord(j)
    BY <2>1, SameTables DEF TypeOK
  <2>6. removed' = removed
    BY <2>1 DEF removed, TypeOK
  <2>7. QED
    BY <2>4, <2>5, <2>6, LedgerStays
<1>6. CASE BindFirstVersion(c) \/ BindVersionOnce(c)
  <2>1. /\ UNCHANGED <<life, active, used>> /\ life[i] # "None"
        /\ \E second \in Seconds : BindsAs(i, v, second)
    BY <1>4, <1>6 DEF BindFirstVersion, BindVersionOnce, ghosts
  <2>2. /\ \A j \in Installations \ {i} : \A w \in Versions : bound'[j][w] = bound[j][w]
        /\ \A w \in Versions \ {v} : bound'[i][w] = bound[i][w]
        /\ bound[i][v] # Unbound => bound'[i][v] = bound[i][v]
        /\ bound[i][v] = Unbound => bound'[i][v].state = "candidate"
        /\ bound' \in [Installations -> [Versions -> Bound \cup {Unbound}]]
    <3>1. PICK second \in Seconds : BindsAs(i, v, second)
      BY <2>1
    <3>2. /\ bound' \in [Installations -> [Versions -> Bound \cup {Unbound}]]
          /\ \A j \in Installations, w \in Versions :
               IF j = i /\ w = v /\ bound[i][v] = Unbound
               THEN bound'[j][w] = [state |-> "candidate", created |-> second]
               ELSE bound'[j][w] = bound[j][w]
      BY <3>1, BoundType
    <3>3. bound[i][v] = Unbound => bound'[i][v] = [state |-> "candidate", created |-> second]
      BY <3>2
    <3>4. bound[i][v] = Unbound => bound'[i][v].state = "candidate"
      BY <3>3
    <3>5. QED
      BY <3>2, <3>4
  <2>3. \A j \in Installations \ {i} : bound'[j] = bound[j]
    <3>1. ASSUME NEW j \in Installations \ {i}
          PROVE  bound'[j] = bound[j]
      <4>1. /\ bound[j] \in [Versions -> Bound \cup {Unbound}]
            /\ bound'[j] \in [Versions -> Bound \cup {Unbound}]
        BY <2>2 DEF TypeOK
      <4>2. QED
        BY <2>2, <4>1
    <3>2. QED
      BY <3>1
  <2>4. OthersSame(i)
    BY <2>1, <2>3, SameTables DEF OthersSame, removed
  <2>5. CASE active[i] # NoVersion
    <3>1. HasRecord(i) /\ HasRecord(i)' /\ VersionOf(i) = active[i] /\ VersionOf(i)' = active[i]
      BY <2>1, <2>5 DEF HasRecord, VersionOf
    <3>2. SameRecord(i)
      BY <2>1, <3>1 DEF SameRecord, RecordOf
    <3>3. QED
      BY <2>4, <3>2, LedgerStays DEF OthersSame
  <2>6. CASE active[i] = NoVersion /\ bound[i][v] # Unbound
    <3>1. bound'[i] = bound[i]
      <4>1. /\ bound[i] \in [Versions -> Bound \cup {Unbound}]
            /\ bound'[i] \in [Versions -> Bound \cup {Unbound}]
        BY <2>2 DEF TypeOK
      <4>2. QED
        BY <2>2, <2>6, <4>1
    <3>2. SameRecord(i)
      BY <2>1, <3>1, SameTables
    <3>3. QED
      BY <2>4, <3>2, LedgerStays DEF OthersSame
  <2>7. CASE active[i] = NoVersion /\ bound[i][v] = Unbound
    <3>1. Young(i) /\ i \in used
      BY <1>4, <2>1, <2>7 DEF Young, RowInv
    <3>2. v \notin Candidates(i)
      BY <2>7 DEF Candidates, Unbound
    <3>3. At(c, "bind first") /\ Candidates(i) = {} /\ life[i] = "Installed"
      BY <1>1, <1>4, <3>1, <3>2 DEF WriterInv
    <3>4. v \in Candidates(i)'
      BY <2>2, <2>7 DEF Candidates
    <3>5. VersionOf(i)' = v
      <4>1. \A w \in Candidates(i)' : w = v
        BY <1>4, <2>1, <2>7, <3>4 DEF RowInv, YoungRow
      <4>2. Candidates(i)' = {v}
        BY <3>4, <4>1
      <4>3. QED
        BY <2>1, <2>7, <4>2, MaxOfOne DEF VersionOf
    <3>6. ~HasRecord(i) /\ HasRecord(i)' /\ i \notin removed
      BY <2>1, <2>7, <3>3, <3>4 DEF HasRecord, removed
    <3>7. Ledger!Insert(i, v)
      BY <2>1, <2>4, <2>7, <3>3, <3>5, <3>6, LedgerInsert
    <3>8. QED
      BY <3>7 DEF Ledger!Next
  <2>8. QED
    BY <2>5, <2>6, <2>7
<1>7. CASE SwitchActiveVersion(c)
  <2>1. /\ life[i] # "None" /\ bound[i][v] # Unbound /\ At(c, "switch")
        /\ active' = [active EXCEPT ![i] = v]
        /\ bound' = [bound EXCEPT ![i][v].state = "installed"]
        /\ UNCHANGED <<life, used>>
    BY <1>4, <1>7 DEF SwitchActiveVersion, Served
  <2>2. /\ bound' \in [Installations -> [Versions -> Bound \cup {Unbound}]]
        /\ \A j \in Installations, w \in Versions :
             j # i \/ w # v => bound'[j][w] = bound[j][w]
    BY <2>1, SwitchedType
  <2>3. \A j \in Installations \ {i} : bound'[j] = bound[j]
    <3>1. ASSUME NEW j \in Installations \ {i}
          PROVE  bound'[j] = bound[j]
      <4>1. /\ bound[j] \in [Versions -> Bound \cup {Unbound}]
            /\ bound'[j] \in [Versions -> Bound \cup {Unbound}]
        BY <2>2 DEF TypeOK
      <4>2. QED
        BY <2>2, <4>1
    <3>2. QED
      BY <3>1
  <2>4. active'[i] = v /\ v # NoVersion
    BY <2>1, VersionsAssumption DEF TypeOK, NoVersion
  <2>5. OthersSame(i)
    BY <2>1, <2>3, SameTables DEF OthersSame, removed, TypeOK
  <2>6. ASSUME active[i] = NoVersion
        PROVE  HasRecord(i) /\ VersionOf(i) = v
    <3>1. Young(i) /\ i \in used
      BY <1>4, <2>1, <2>6 DEF Young, RowInv
    <3>2. Candidates(i) = {v}
      BY <1>1, <1>4, <2>1, <3>1 DEF WriterInv, At
    <3>3. QED
      BY <2>1, <2>6, <3>2, MaxOfOne DEF HasRecord, VersionOf
  <2>7. HasRecord(i) /\ HasRecord(i)' /\ VersionOf(i)' = v
    BY <2>1, <2>4, <2>6 DEF HasRecord, VersionOf
  <2>8. Ledger!Serve(i, v)
    BY <2>1, <2>4, <2>5, <2>6, <2>7, LedgerServe
  <2>9. QED
    BY <2>8 DEF Ledger!Next
<1>8. QED
  BY <1>5, <1>6, <1>7

LEMMA ApplyStepOfLedger ==
  ASSUME TypeOK, RegistryInv, NEW c \in Callers, ApplyEvent(c)
  PROVE  [Ledger!Next]_(Ledger!vars)
<1>1. Works(c) /\ At(c, "advance")
  BY DEF ApplyEvent, Served, At, Works, Writing, Inserting
<1>2. call[c] \in RegistryCalls /\ call[c].i \in Installations
  BY <1>1, WriterArguments
<1>3. PICK i \in Installations : i = call[c].i
  BY <1>2
<1>4. /\ life[i] \in DOMAIN NextState
      /\ life' = [life EXCEPT ![i] = NextState[life[i]]]
      /\ UNCHANGED <<bound, active, used>>
  BY <1>1, <1>3 DEF ApplyEvent, RegistryInv, WriterInv, ghosts
<1>5. life[i] # "None" /\ life'[i] # "None" /\ life'[i] = NextState[life[i]]
  BY <1>4 DEF NextState, TypeOK
<1>6. \A j \in Installations \ {i} : life'[j] = life[j]
  BY <1>4 DEF TypeOK
<1>7. OthersSame(i)
  BY <1>4, <1>5, <1>6, SameTables DEF OthersSame, removed, TypeOK
<1>8. Candidates(i)' = Candidates(i)
  BY <1>4 DEF Candidates
<1>9. HasRecord(i)' = HasRecord(i) /\ VersionOf(i)' = VersionOf(i) /\ active'[i] = active[i]
  BY <1>4, <1>5, <1>8 DEF HasRecord, VersionOf
<1>10. CASE HasRecord(i)
  <2>1. Ledger!Advance(i)
    BY <1>4, <1>5, <1>7, <1>9, <1>10, LedgerAdvance
  <2>2. QED
    BY <2>1 DEF Ledger!Next
<1>11. CASE ~HasRecord(i)
  <2>1. SameRecord(i)
    BY <1>9, <1>11, Zenon DEF SameRecord, RecordOf
  <2>2. QED
    BY <1>7, <2>1, LedgerStays DEF OthersSame
<1>12. QED
  BY <1>10, <1>11

LEMMA RemoveStepOfLedger ==
  ASSUME TypeOK, RegistryInv, NEW i \in Installations, RemoveInstallation(i)
  PROVE  [Ledger!Next]_(Ledger!vars)
<1>1. /\ HasRecord(i) /\ life[i] # "None" /\ UNCHANGED used
      /\ life' = [life EXCEPT ![i] = "None"]
      /\ active' = [active EXCEPT ![i] = NoVersion]
      /\ bound' = [bound EXCEPT ![i] = [v \in Versions |-> Unbound]]
  BY DEF RemoveInstallation, RemoveRows, HasRecord
<1>2. \A j \in Installations \ {i} : SameRecord(j)
  BY <1>1, SameTables DEF TypeOK
<1>3. ~HasRecord(i)'
  BY <1>1 DEF HasRecord, TypeOK
<1>4. i \in used /\ removed' = removed \cup {i}
  BY <1>1 DEF RegistryInv, RowInv, removed, TypeOK
<1>5. Ledger!Remove(i)
  BY <1>1, <1>2, <1>3, <1>4, LedgerRemove
<1>6. QED
  BY <1>5 DEF Ledger!Next

LEMMA LedgerStep ==
  ASSUME TypeOK, RegistryInv, RegistryInv', [Next]_vars
  PROVE  [Ledger!Next]_(Ledger!vars)
<1>1. ASSUME NEW c \in Callers,
             \/ \E i \in Installations : Disables(c, i) \/ Reads(c, i)
             \/ \E i \in Installations, v \in Versions : Inserts(c, i, v) \/ Upgrades(c, i, v)
             \/ \E i \in Installations, n \in Names : Puts(c, i, n)
             \/ RegistryStep(c) \/ ReaderStep(c) \/ PutStep(c) \/ CallFails(c)
      PROVE  [Ledger!Next]_(Ledger!vars)
  <2>1. CASE \/ \E i \in Installations : Disables(c, i) \/ Reads(c, i)
             \/ \E i \in Installations, v \in Versions : Inserts(c, i, v) \/ Upgrades(c, i, v)
    <3>1. UNCHANGED <<registry, used>>
      BY <2>1 DEF Disables, Reads, Inserts, Upgrades, Begins, tables, ghosts
    <3>2. QED
      BY <3>1, RegistryUntouched
  <2>2. CASE \/ \E i \in Installations, n \in Names : Puts(c, i, n)
             \/ ReaderStep(c) \/ PutStep(c) \/ CallFails(c)
             \/ ReadState(c) \/ Activates(c)
    <3>1. UNCHANGED <<registry, used>>
      BY <2>2 DEF Puts, ReaderStep, ReadRow, ReadActive, ReadVersions, PutStep, PutValue,
         ReadBack, AppendAudit, CallFails, ReadState, Activates, tables, ghosts
    <3>2. QED
      BY <3>1, RegistryUntouched
  <2>3. CASE RegistryStep(c)
    BY <2>2, <2>3, WriterStepOfLedger, ApplyStepOfLedger DEF RegistryStep
  <2>4. QED
    BY <1>1, <2>1, <2>2, <2>3
<1>2. CASE \/ OtherTransaction \/ \E i \in Installations : DeleteSecret(i)
           \/ UNCHANGED vars
  <2>1. UNCHANGED <<registry, used>>
    BY <1>2 DEF OtherTransaction, DeleteSecret, vars, tables, ghosts
  <2>2. QED
    BY <2>1, RegistryUntouched
<1>3. QED
  BY <1>1, <1>2, StepKinds, RemoveStepOfLedger DEF Next

LEMMA InitRegistry == Init => TypeOK /\ RegistryInv
<1> SUFFICES ASSUME Init PROVE TypeOK /\ RegistryInv
  OBVIOUS
<1>1. TypeOK
  <2>1. revision \in [Installations -> Rows] /\ durable = revision /\ promised = revision
    BY DEF Init, NoValues, Rows
  <2>2. WatchOK
    BY DEF Init, Unwatched, WatchOK
  <2>3. QED
    BY <2>1, <2>2 DEF Init, TypeOK, States, Serving, CallTypes, AnswerTypes
<1>2. \A c \in Callers : ~Works(c)
  BY DEF Init, Idle, Works, Writing, Inserting
<1>3. \A i \in Installations : Candidates(i) = {}
  BY DEF Init, Candidates, Unbound
<1>4. \A i \in Installations : RowInv(i)
  BY <1>3 DEF Init, RowInv, YoungRow, Unbound
<1>5. QED
  BY <1>1, <1>2, <1>4 DEF RegistryInv, WriterInv

\* The types, of the tables, of what the callers are doing and of what they read.
THEOREM TypeCorrect == Spec => []TypeOK
<1>1. TypeOK /\ RegistryInv /\ [Next]_vars => TypeOK' /\ RegistryInv'
  BY TypeStep, RegistryStepKept
<1>2. QED
  BY <1>1, InitRegistry, PTL DEF Spec

\* The three tables implement the ledger of installations of ComponentRegistryPort: as
\* the commands of any number of callers interleave and stop half way, every record
\* appears once, changes its version and its digest together, moves its life cycle
\* forward only and never comes back.
THEOREM RecordsAreALedger == Spec => ImplementsInstallations
<1>1. TypeOK /\ RegistryInv /\ [Next]_vars => TypeOK' /\ RegistryInv'
  BY TypeStep, RegistryStepKept
<1>2. Init => Ledger!Init
  <2>1. Init => \A i \in Installations : RecordOf(i) = Ledger!NoRecord
    BY DEF Init, RecordOf, HasRecord, Ledger!NoRecord
  <2>2. QED
    BY <2>1 DEF Init, records, removed, Ledger!Init
<1>3. TypeOK /\ RegistryInv /\ RegistryInv' /\ [Next]_vars => [Ledger!Next]_(Ledger!vars)
  BY LedgerStep
<1>4. QED
  BY <1>1, <1>2, <1>3, InitRegistry, PTL DEF Spec, ImplementsInstallations, Ledger!Spec

-----------------------------------------------------------------------------
(* Where a step leads.                                                     *)

LEMMA CallsMove ==
  ASSUME TypeOK, NEW c \in Callers, Calls(c)
  PROVE  /\ \A d \in Callers \ {c} : call'[d] = call[d] /\ answer'[d] = answer[d]
         /\ answer'[c] = NoAnswer
         /\ UNCHANGED <<tables, ghosts>>
         /\ \/ call'[c].at \in {"create", "bind", "put"}
            \/ /\ call'[c] \in RegistryCalls /\ call'[c].at = "read row"
               /\ call[c].at \notin Reading
<1>1. /\ answer' = [answer EXCEPT ![c] = NoAnswer]
      /\ UNCHANGED <<tables, ghosts>>
      /\ At(c, "idle")
  BY DEF Calls, Disables, Reads, Inserts, Upgrades, Puts, Begins
<1>2. /\ answer'[c] = NoAnswer
      /\ \A d \in Callers \ {c} : answer'[d] = answer[d]
  BY <1>1 DEF TypeOK
<1>3. "read row" \in RegistryPlaces /\ "create" \in RegistryPlaces /\ "bind" \in RegistryPlaces
  BY DEF RegistryPlaces, Reading, Writing, Inserting
<1>4. /\ NoVersion \in Serving /\ Versions \subseteq Serving
      /\ \A target \in {"None", "Validated", "Active", "Draining"} : target \in Targets
      /\ \A i \in Installations : active[i] \in Serving
  BY DEF Serving, Targets, States, TypeOK
<1>5. ASSUME NEW i \in Installations, Reads(c, i)
      PROVE  /\ \A d \in Callers \ {c} : call'[d] = call[d]
             /\ call'[c] \in RegistryCalls /\ call'[c].at = "read row"
  BY <1>3, <1>4, <1>5, BegunCall DEF Reads
<1>6. ASSUME NEW i \in Installations, Disables(c, i)
      PROVE  /\ \A d \in Callers \ {c} : call'[d] = call[d]
             /\ call'[c].at = "bind"
  BY <1>3, <1>4, <1>6, BegunCall DEF Disables
<1>7. ASSUME NEW i \in Installations, NEW v \in Versions, Inserts(c, i, v) \/ Upgrades(c, i, v)
      PROVE  /\ \A d \in Callers \ {c} : call'[d] = call[d]
             /\ call'[c].at \in {"create", "bind"}
  BY <1>3, <1>4, <1>7, BegunCall DEF Inserts, Upgrades
<1>8. ASSUME NEW i \in Installations, NEW n \in Names, Puts(c, i, n)
      PROVE  /\ \A d \in Callers \ {c} : call'[d] = call[d]
             /\ call'[c].at = "put"
  BY <1>8, PutBegun
<1>9. call[c].at \notin Reading
  BY <1>1 DEF At, Reading
<1>10. \/ /\ \A d \in Callers \ {c} : call'[d] = call[d]
          /\ call'[c].at \in {"create", "bind", "put"}
       \/ /\ \A d \in Callers \ {c} : call'[d] = call[d]
          /\ call'[c] \in RegistryCalls /\ call'[c].at = "read row"
  BY <1>5, <1>6, <1>7, <1>8 DEF Calls
<1>11. QED
  BY <1>1, <1>2, <1>9, <1>10

LEMMA CommandsMove ==
  ASSUME TypeOK, RegistryInv, NEW c \in Callers, Commands(c)
  PROVE  /\ \A d \in Callers \ {c} : call'[d] = call[d] /\ answer'[d] = answer[d]
         /\ \/ answer'[c] = answer[c]
            \/ ReadVersions(c) /\ answer'[c] = Composed(c)
            \/ /\ ReadBack(c) /\ revision[call[c].i][call[c].n] = 0
               /\ answer'[c] = [kind |-> "disappeared", i |-> call[c].i, n |-> call[c].n]
         /\ \/ call'[c].at \notin Reading \cup {"read back"}
            \/ /\ ReadRow(c) /\ life[call[c].i] # "None"
               /\ call'[c] \in RegistryCalls
               /\ call'[c].at = "read active" /\ call'[c].i = call[c].i
            \/ /\ ReadActive(c) /\ call'[c] \in RegistryCalls
               /\ call'[c].at = "read versions" /\ call'[c].i = call[c].i
               /\ call'[c].binding = active[call[c].i]
            \/ /\ PutValue(c)
               /\ call'[c].at = "read back" /\ call'[c].i = call[c].i /\ call'[c].n = call[c].n
<1> DEFINE Rest == /\ \A d \in Callers \ {c} : call'[d] = call[d]
                   /\ call'[c].at \notin Reading \cup {"read back"}
<1>1. /\ \A d \in Callers \ {c} : answer'[d] = answer[d]
      /\ \/ answer'[c] = answer[c]
         \/ ReadVersions(c) /\ answer'[c] = Composed(c)
         \/ /\ ReadBack(c) /\ revision[call[c].i][call[c].n] = 0
            /\ answer'[c] = [kind |-> "disappeared", i |-> call[c].i, n |-> call[c].n]
  <2>1. CASE ReadVersions(c)
    BY <2>1 DEF ReadVersions, TypeOK
  <2>2. CASE ReadBack(c)
    BY <2>2 DEF ReadBack, TypeOK
  <2>3. CASE ~ReadVersions(c) /\ ~ReadBack(c)
    <3>1. UNCHANGED answer
      BY <2>3 DEF Commands, CreateInstallation, BindFirstVersion, Activates, BindVersionOnce,
         SwitchActiveVersion, ReadState, ApplyEvent, ReadRow, ReadActive, PutValue, AppendAudit,
         CallFails
    <3>2. QED
      BY <3>1
  <2>4. QED
    BY <2>1, <2>2, <2>3
<1>2. CASE Ends(c)
  BY <1>1, <1>2, EndedCall DEF Reading
<1>3. CASE ReadState(c) \/ ApplyEvent(c) \/ Activates(c)
  <2>1. Rest
    BY <1>3, LifecycleCalls DEF Reading
  <2>2. QED
    BY <1>1, <2>1
<1>4. CASE \/ CreateInstallation(c) \/ BindFirstVersion(c) \/ BindVersionOnce(c)
           \/ SwitchActiveVersion(c)
  <2>1. Works(c) /\ \E place \in {"bind first", "read state", "switch"} : GoTo(c, place)
    BY <1>4 DEF CreateInstallation, BindFirstVersion, BindVersionOnce, SwitchActiveVersion,
       Served, At, Works, Writing, Inserting
  <2>2. {"bind first", "read state", "switch"} \subseteq RegistryPlaces
    BY DEF RegistryPlaces, Writing, Inserting
  <2>3. Rest
    BY <2>1, <2>2, WriterArguments, GoesOn DEF Reading
  <2>4. QED
    BY <1>1, <2>3
<1>5. CASE ReadRow(c) /\ ~Ends(c)
  <2>1. call[c] \in RegistryCalls /\ "read active" \in RegistryPlaces
    BY <1>5, CallKinds DEF ReadRow, Served, At, RegistryPlaces, Reading
  <2>2. GoTo(c, "read active") /\ life[call[c].i] # "None"
    BY <1>5 DEF ReadRow
  <2>3. /\ \A d \in Callers \ {c} : call'[d] = call[d]
        /\ call'[c] \in RegistryCalls
        /\ call'[c].at = "read active" /\ call'[c].i = call[c].i
    BY <2>1, <2>2, GoesOn
  <2>4. QED
    BY <1>1, <1>5, <2>2, <2>3
<1>6. CASE ReadActive(c)
  BY <1>1, <1>6, ReadActiveCall
<1>7. CASE PutValue(c) \/ (ReadBack(c) /\ ~Ends(c))
  <2>1. call[c] \in PutCalls /\ {"read back", "audit"} \subseteq Putting
    BY <1>7, CallKinds DEF PutValue, ReadBack, At, Putting
  <2>2. CASE PutValue(c)
    <3>1. GoTo(c, "read back")
      BY <2>2 DEF PutValue
    <3>2. QED
      BY <1>1, <2>1, <2>2, <3>1, PutGoesOn
  <2>3. CASE ReadBack(c) /\ ~Ends(c)
    <3>1. GoTo(c, "audit")
      BY <2>3 DEF ReadBack
    <3>2. Rest
      BY <2>1, <3>1, PutGoesOn DEF Reading
    <3>3. QED
      BY <1>1, <3>2
  <2>4. QED
    BY <1>7, <2>2, <2>3
<1>8. CASE ReadVersions(c) \/ AppendAudit(c) \/ CallFails(c)
  BY <1>2, <1>8 DEF ReadVersions, AppendAudit, CallFails
<1>9. QED
  BY <1>2, <1>3, <1>4, <1>5, <1>6, <1>7, <1>8 DEF Commands

-----------------------------------------------------------------------------
(* The number that a put answered is kept.                                 *)

GoneStays == \A i \in Installations : ConfigGone(i) => ConfigGone(i)'

LEMMA GoneForGood ==
  ASSUME TypeOK, RegistryInv, [Next]_vars
  PROVE  GoneStays
<1>1. ASSUME NEW c \in Callers, RegistryStep(c)
      PROVE  GoneStays
  <2>1. Works(c) /\ call[c] \in RegistryCalls /\ call[c].i \in Installations
    BY <1>1, WriterArguments DEF RegistryStep, CreateInstallation, BindFirstVersion,
       BindVersionOnce, SwitchActiveVersion, ReadState, ApplyEvent, Activates, Served, At,
       Works, Writing, Inserting
  <2>2. CASE CreateInstallation(c)
    <3>1. /\ call[c].i \notin used /\ used \subseteq used'
          /\ life' = [life EXCEPT ![call[c].i] = "Installed"]
      BY <2>1, <2>2 DEF CreateInstallation, Served, RegistryInv, WriterInv
    <3>2. QED
      BY <3>1 DEF GoneStays, ConfigGone, TypeOK
  <2>3. CASE ApplyEvent(c)
    <3>1. /\ life[call[c].i] \in DOMAIN NextState /\ UNCHANGED used
          /\ life' = [life EXCEPT ![call[c].i] = NextState[call[c].state]]
      BY <2>1, <2>3 DEF ApplyEvent, Served, RegistryInv, WriterInv, ghosts
    <3>2. life[call[c].i] # "None"
      BY <3>1 DEF NextState
    <3>3. QED
      BY <3>1, <3>2 DEF GoneStays, ConfigGone, TypeOK
  <2>4. CASE ~CreateInstallation(c) /\ ~ApplyEvent(c)
    <3>1. UNCHANGED <<life, used>>
      BY <1>1, <2>4 DEF RegistryStep, BindFirstVersion, BindVersionOnce, SwitchActiveVersion,
         ReadState, Activates, tables, registry, ghosts
    <3>2. QED
      BY <3>1 DEF GoneStays, ConfigGone
  <2>5. QED
    BY <2>2, <2>3, <2>4
<1>2. ASSUME NEW c \in Callers, Calls(c) \/ ReaderStep(c) \/ PutStep(c) \/ CallFails(c)
      PROVE  GoneStays
  <2>1. UNCHANGED <<life, used>>
    BY <1>2, CallsMove DEF ReaderStep, ReadRow, ReadActive, ReadVersions, PutStep, PutValue,
       ReadBack, AppendAudit, CallFails, tables, registry, ghosts
  <2>2. QED
    BY <2>1 DEF GoneStays, ConfigGone
<1>3. ASSUME NEW i \in Installations, RemoveInstallation(i)
      PROVE  GoneStays
  BY <1>3 DEF RemoveInstallation, RemoveRows, GoneStays, ConfigGone, TypeOK
<1>4. CASE \/ OtherTransaction \/ \E i \in Installations : DeleteSecret(i)
           \/ UNCHANGED vars
  BY <1>4 DEF OtherTransaction, DeleteSecret, vars, tables, registry, ghosts, GoneStays, ConfigGone
<1>5. QED
  BY <1>1, <1>2, <1>3, <1>4 DEF Next, Steps, Commands, RegistryStep, ReaderStep, PutStep

LEMMA StillPositive == \A m, n \in Nat : n >= m /\ m > 0 => n > 0
OBVIOUS

ConfigStays ==
  \A i \in Installations :
    ConfigGone(i)' \/ revision'[i]["config"] >= revision[i]["config"]

LEMMA AnswerWaits ==
  ASSUME TypeOK, GoneStays, NEW c \in Callers, DisappearedIsGone(c),
         answer'[c] = answer[c] \/ answer'[c].kind # "disappeared"
  PROVE  DisappearedIsGone(c)'
<1>1. SUFFICES ASSUME answer'[c].kind = "disappeared", answer'[c].n = "config"
               PROVE  ConfigGone(answer[c].i)'
  BY DEF DisappearedIsGone
<1>2. answer'[c] = answer[c] /\ answer[c].kind = "disappeared" /\ answer[c].n = "config"
  BY <1>1
<1>3. answer[c] \in Disappeared
  <2>1. /\ \A a \in Records : a.kind = "record"
        /\ \A a \in Corrupt : a.kind = "corrupt"
        /\ NoAnswer.kind = "none"
    BY DEF Records, Corrupt, NoAnswer
  <2>2. QED
    BY <1>2, <2>1 DEF AnswerTypes, TypeOK
<1>4. PICK i \in Installations : i = answer[c].i
  BY <1>3 DEF Disappeared
<1>5. ConfigGone(i)
  BY <1>2, <1>4 DEF DisappearedIsGone
<1>6. ConfigGone(i)' /\ i = answer'[c].i
  BY <1>2, <1>4, <1>5 DEF GoneStays
<1>7. QED
  BY <1>6 DEF ConfigGone

\* What a caller knows outlives a step that leaves its call and its config alone.
LEMMA PutterWaits ==
  ASSUME TypeOK, TypeOK', GoneStays, NEW c \in Callers, PutterInv(c),
         call'[c] = call[c] \/ call'[c].at # "read back",
         answer'[c] = answer[c] \/ answer'[c].kind # "disappeared", ConfigStays
  PROVE  PutterInv(c)'
<1>1. ASSUME call'[c].at = "read back", call'[c].n = "config"
      PROVE  revision'[call'[c].i]["config"] > 0 \/ ConfigGone(call[c].i)'
  <2>1. call'[c] = call[c] /\ At(c, "read back")
    BY <1>1 DEF At
  <2>2. call[c].i \in Installations
    BY <2>1, CallKinds DEF At, Putting, PutCalls
  <2>3. PICK i \in Installations : i = call[c].i
    BY <2>2
  <2>4. revision[i]["config"] > 0 \/ ConfigGone(i)
    BY <1>1, <2>1, <2>3 DEF PutterInv
  <2>5. revision[i]["config"] \in Nat /\ revision'[i]["config"] \in Nat
    <3>1. "config" \in Names
      BY DEF Names
    <3>2. revision[i] \in [Names -> Nat]
      BY DEF TypeOK, Rows
    <3>3. revision'[i] \in [Names -> Nat]
      BY DEF TypeOK, Rows
    <3>4. QED
      BY <3>1, <3>2, <3>3
  <2>6. revision[i]["config"] > 0 => revision'[i]["config"] > 0 \/ ConfigGone(i)'
    <3>1. ASSUME revision'[i]["config"] >= revision[i]["config"], revision[i]["config"] > 0
          PROVE  revision'[i]["config"] > 0
      BY <2>5, <3>1, StillPositive, Zenon
    <3>2. QED
      BY <3>1 DEF ConfigStays
  <2>7. ConfigGone(i) => ConfigGone(i)'
    BY DEF GoneStays
  <2>8. i = call'[c].i
    BY <2>1, <2>3
  <2>9. revision'[i]["config"] > 0 \/ ConfigGone(i)'
    BY <2>4, <2>6, <2>7
  <2>10. QED
    BY <2>8, <2>9 DEF ConfigGone
<1>2. DisappearedIsGone(c)'
  BY AnswerWaits DEF PutterInv
<1>3. QED
  BY <1>1, <1>2 DEF PutterInv, At

PromisesKept == \A i \in Installations, n \in Names : promised[i][n] <= durable[i][n]

\* A step of a caller that writes no config and no secret.
LEMMA ValuesUntouched ==
  ASSUME TypeOK, TypeOK', GoneStays, ValueInv, UNCHANGED <<revision, durable, promised>>,
         NEW c \in Callers,
         \A d \in Callers \ {c} : call'[d] = call[d] /\ answer'[d] = answer[d],
         PutterInv(c)'
  PROVE  ValueInv'
<1>1. ConfigStays
  BY DEF ConfigStays, TypeOK, Rows, Names
<1>2. \A d \in Callers \ {c} : PutterInv(d)'
  BY <1>1, PutterWaits DEF ValueInv
<1>3. QED
  BY <1>2 DEF ValueInv

LEMMA CallerKeepsValues ==
  ASSUME TypeOK, TypeOK', RegistryInv, GoneStays, ValueInv, NEW c \in Callers,
         Calls(c) \/ Commands(c), ~PutValue(c), ~ReadBack(c)
  PROVE  ValueInv'
<1>1. UNCHANGED <<revision, durable, promised>>
  BY CallsMove DEF Commands, CreateInstallation, BindFirstVersion, Activates, BindVersionOnce,
     SwitchActiveVersion, ReadState, ApplyEvent, ReadRow, ReadActive, ReadVersions,
     AppendAudit, CallFails, tables, values, ghosts
<1>2. /\ \A d \in Callers \ {c} : call'[d] = call[d] /\ answer'[d] = answer[d]
      /\ call'[c].at # "read back"
      /\ answer'[c] = answer[c] \/ answer'[c] = NoAnswer \/ answer'[c] = Composed(c)
  BY CallsMove, CommandsMove DEF Reading
<1>3. Composed(c).kind # "disappeared" /\ NoAnswer.kind # "disappeared"
  BY DEF Composed, NoAnswer
<1>4. ConfigStays
  BY <1>1 DEF ConfigStays, TypeOK, Rows, Names
<1>5. PutterInv(c)'
  BY <1>2, <1>3, <1>4, PutterWaits DEF ValueInv
<1>6. QED
  BY <1>1, <1>2, <1>5, ValuesUntouched

LEMMA PutKeepsValues ==
  ASSUME TypeOK, TypeOK', RegistryInv, GoneStays, ValueInv, NEW c \in Callers, PutValue(c)
  PROVE  ValueInv'
<1>1. call[c] \in PutCalls
  BY CallKinds DEF PutValue, At, Putting
<1>2. PICK i \in Installations, n \in Names : i = call[c].i /\ n = call[c].n
  BY <1>1 DEF PutCalls
<1>3. Upsert(i, n) /\ UNCHANGED <<answer, promised>>
  BY <1>2 DEF PutValue, ghosts
<1>4. /\ revision' = durable'
      /\ revision'[i][n] = revision[i][n] + 1
      /\ \A j \in Installations, m \in Names :
           j # i \/ m # n => revision'[j][m] = revision[j][m]
  BY <1>3, UpsertedRow
<1>5. /\ \A j \in Installations, m \in Names : revision[j][m] \in Nat /\ promised[j][m] \in Nat
      /\ "config" \in Names
  BY DEF TypeOK, Rows, Names
<1>6. \A j \in Installations, m \in Names : revision'[j][m] >= revision[j][m]
  BY <1>4, <1>5
<1>7. PromisesKept'
  <2>1. revision = durable /\ PromisesKept
    BY DEF ValueInv, PromisesKept
  <2>2. ASSUME NEW j \in Installations, NEW m \in Names
        PROVE  promised[j][m] <= revision'[j][m]
    <3>1. promised[j][m] <= revision[j][m]
      BY <2>1 DEF PromisesKept
    <3>2. revision'[j][m] \in Nat
      BY <1>4, <1>5
    <3>3. QED
      BY <1>5, <1>6, <3>1, <3>2
  <2>3. QED
    BY <1>3, <1>4, <2>2 DEF PromisesKept
<1>8. ConfigStays
  BY <1>5, <1>6 DEF ConfigStays
<1>9. \/ ReadVersions(c)
      \/ /\ \A d \in Callers \ {c} : call'[d] = call[d] /\ answer'[d] = answer[d]
         /\ call'[c].at = "read back" /\ call'[c].i = call[c].i /\ call'[c].n = call[c].n
  <2>1. GoTo(c, "read back") /\ "read back" \in Putting
    BY DEF PutValue, Putting
  <2>2. QED
    BY <1>1, <1>3, <2>1, PutGoesOn
<1>10. ~ReadVersions(c)
  BY DEF ReadVersions, PutValue, Served, At
<1>11. PutterInv(c)'
  <2>1. n = "config" => revision'[i]["config"] > 0
    BY <1>4, <1>5
  <2>2. answer'[c] = answer[c] /\ PutterInv(c)
    BY <1>3 DEF ValueInv
  <2>3. DisappearedIsGone(c)'
    BY <2>2, AnswerWaits DEF PutterInv
  <2>4. (At(c, "read back") /\ call[c].n = "config" =>
           revision[call[c].i]["config"] > 0 \/ ConfigGone(call[c].i))'
    BY <1>2, <1>9, <1>10, <2>1 DEF ConfigGone
  <2>5. QED
    BY <2>3, <2>4 DEF PutterInv
<1>12. \A d \in Callers \ {c} : PutterInv(d)'
  BY <1>8, <1>9, <1>10, PutterWaits DEF ValueInv
<1>13. QED
  BY <1>4, <1>7, <1>11, <1>12 DEF ValueInv, PromisesKept

LEMMA ReadBackKeepsValues ==
  ASSUME TypeOK, TypeOK', RegistryInv, GoneStays, ValueInv, NEW c \in Callers, ReadBack(c)
  PROVE  ValueInv'
<1>1. PICK i \in Installations, n \in Names : i = call[c].i /\ n = call[c].n
  BY ReadBackRow
<1>2. UNCHANGED <<revision, durable>>
  BY DEF ReadBack, tables, values
<1>3. PromisesKept'
  <2>1. revision = durable /\ PromisesKept
    BY DEF ValueInv, PromisesKept
  <2>2. \A j \in Installations, m \in Names :
          /\ promised'[j][m] = promised[j][m] \/ promised'[j][m] = revision[j][m]
          /\ revision[j][m] \in Nat
    BY ReadBackRow DEF TypeOK, Rows
  <2>3. QED
    BY <1>2, <2>1, <2>2 DEF PromisesKept
<1>4. Commands(c) /\ ~ReadVersions(c) /\ ~ReadRow(c) /\ ~ReadActive(c) /\ ~PutValue(c)
  BY DEF Commands, ReadBack, ReadVersions, ReadRow, ReadActive, PutValue, Served, At
<1>5. /\ \A d \in Callers \ {c} : call'[d] = call[d] /\ answer'[d] = answer[d]
      /\ call'[c].at # "read back"
      /\ \/ answer'[c] = answer[c]
         \/ /\ revision[i][n] = 0
            /\ answer'[c] = [kind |-> "disappeared", i |-> i, n |-> n]
  BY <1>1, <1>4, CommandsMove
<1>6. ConfigStays
  BY <1>2 DEF ConfigStays, TypeOK, Rows, Names
<1>7. PutterInv(c)'
  <2>1. CASE answer'[c] = answer[c]
    BY <1>5, <1>6, <2>1, PutterWaits DEF ValueInv
  <2>2. CASE revision[i][n] = 0 /\ answer'[c] = [kind |-> "disappeared", i |-> i, n |-> n]
    <3>1. n = "config" => ConfigGone(i)
      <4>1. At(c, "read back") /\ PutterInv(c)
        BY DEF ReadBack, ValueInv
      <4>2. n = "config" => ~ (revision[i]["config"] > 0)
        BY <2>2
      <4>3. n = "config" => revision[i]["config"] > 0 \/ ConfigGone(i)
        BY <1>1, <4>1, Zenon DEF PutterInv
      <4>4. QED
        BY <4>2, <4>3
    <3>2. n = "config" => ConfigGone(i)'
      BY <3>1 DEF GoneStays
    <3>3. answer'[c].i = i /\ answer'[c].n = n
      BY <2>2
    <3>4. DisappearedIsGone(c)'
      BY <3>2, <3>3 DEF DisappearedIsGone, ConfigGone
    <3>5. QED
      BY <1>5, <3>4 DEF PutterInv, At
  <2>3. QED
    BY <1>5, <2>1, <2>2
<1>8. \A d \in Callers \ {c} : PutterInv(d)'
  BY <1>5, <1>6, PutterWaits DEF ValueInv
<1>9. QED
  BY <1>2, <1>3, <1>7, <1>8 DEF ValueInv, PromisesKept

\* The steps that nobody's call is part of.
LEMMA ErasureKeepsValues ==
  ASSUME TypeOK, TypeOK', RegistryInv, GoneStays, ValueInv,
         \/ OtherTransaction \/ UNCHANGED vars
         \/ \E i \in Installations : RemoveInstallation(i) \/ DeleteSecret(i)
  PROVE  ValueInv'
<1>1. UNCHANGED <<call, answer>>
  BY DEF OtherTransaction, RemoveInstallation, DeleteSecret, vars
<1>2. revision = durable /\ PromisesKept
  BY DEF ValueInv, PromisesKept
<1>3. \A j \in Installations, m \in Names : revision[j][m] \in Nat /\ promised[j][m] \in Nat
  BY DEF TypeOK, Rows
<1>4. "config" \in Names /\ "secret" \in Names /\ "config" # "secret"
  BY DEF Names
<1>5. ASSUME NEW i \in Installations, RemoveInstallation(i)
      PROVE  revision' = durable' /\ PromisesKept' /\ ConfigStays
  <2>1. /\ revision' = [revision EXCEPT ![i] = NoValues] /\ durable' = revision'
        /\ promised' = [promised EXCEPT ![i] = NoValues]
        /\ life' = [life EXCEPT ![i] = "None"] /\ life[i] # "None" /\ UNCHANGED used
    BY <1>5 DEF RemoveInstallation, RemoveRows, HasRecord
  <2>2. ConfigGone(i)'
    BY <2>1 DEF ConfigGone, RegistryInv, RowInv, TypeOK
  <2>3. /\ revision'[i] = NoValues /\ promised'[i] = NoValues
        /\ \A j \in Installations \ {i} : revision'[j] = revision[j] /\ promised'[j] = promised[j]
    BY <2>1 DEF TypeOK
  <2>4. \A m \in Names : promised'[i][m] <= revision'[i][m]
    BY <2>3 DEF NoValues
  <2>5. PromisesKept'
    BY <1>2, <2>1, <2>3, <2>4 DEF PromisesKept
  <2>6. ConfigStays
    <3>1. \A j \in Installations \ {i} : revision'[j]["config"] >= revision[j]["config"]
      BY <1>3, <1>4, <2>3
    <3>2. QED
      BY <2>2, <3>1, Zenon DEF ConfigStays
  <2>7. QED
    BY <2>1, <2>5, <2>6
<1>6. ASSUME NEW i \in Installations, DeleteSecret(i)
      PROVE  revision' = durable' /\ PromisesKept' /\ ConfigStays
  <2>1. /\ revision' = [revision EXCEPT ![i]["secret"] = 0] /\ durable' = revision'
        /\ promised' = [promised EXCEPT ![i]["secret"] = 0]
    BY <1>6 DEF DeleteSecret
  <2>2. /\ revision \in [Installations -> [Names -> Nat]]
        /\ promised \in [Installations -> [Names -> Nat]]
    BY DEF TypeOK, Rows
  <2>3. \A j \in Installations, m \in Names :
          IF j = i /\ m = "secret" THEN revision'[j][m] = 0 /\ promised'[j][m] = 0
          ELSE revision'[j][m] = revision[j][m] /\ promised'[j][m] = promised[j][m]
    BY <1>4, <2>1, <2>2
  <2>4. PromisesKept'
    BY <1>2, <1>3, <2>1, <2>3 DEF PromisesKept
  <2>5. ConfigStays
    BY <1>3, <1>4, <2>3 DEF ConfigStays
  <2>6. QED
    BY <2>1, <2>4, <2>5
<1>7. ASSUME OtherTransaction \/ UNCHANGED vars
      PROVE  revision' = durable' /\ PromisesKept' /\ ConfigStays
  <2>1. revision' = revision /\ durable' = durable /\ promised' = promised
    BY <1>2, <1>7 DEF OtherTransaction, vars, tables, values, ghosts
  <2>2. QED
    BY <1>2, <1>3, <1>4, <2>1 DEF PromisesKept, ConfigStays
<1>8. revision' = durable' /\ PromisesKept' /\ ConfigStays
  BY <1>5, <1>6, <1>7
<1>9. \A c \in Callers : PutterInv(c)'
  BY <1>1, <1>8, PutterWaits DEF ValueInv
<1>10. QED
  BY <1>8, <1>9 DEF ValueInv, PromisesKept

LEMMA ValueStep ==
  ASSUME TypeOK, TypeOK', RegistryInv, ValueInv, [Next]_vars
  PROVE  ValueInv'
<1>1. GoneStays
  BY GoneForGood
<1>2. ASSUME NEW c \in Callers, Calls(c) \/ Commands(c)
      PROVE  ValueInv'
  BY <1>1, <1>2, CallerKeepsValues, PutKeepsValues, ReadBackKeepsValues
<1>3. QED
  BY <1>1, <1>2, ErasureKeepsValues DEF Next, Steps

LEMMA InitValues == Init => ValueInv
<1> SUFFICES ASSUME Init PROVE ValueInv
  OBVIOUS
<1>1. revision = durable /\ \A i \in Installations, n \in Names : promised[i][n] <= durable[i][n]
  BY DEF Init, NoValues
<1>2. \A c \in Callers : call[c].at = "idle" /\ answer[c].kind = "none"
  BY DEF Init, Idle, NoAnswer
<1>3. \A c \in Callers : PutterInv(c)
  BY <1>2 DEF PutterInv, DisappearedIsGone, At
<1>4. QED
  BY <1>1, <1>3 DEF ValueInv

\* A put's number: no rollback of somebody else's state transaction, no stop and no
\* other call takes back the number that a put of config or of a secret answered, and
\* config is missing when it is read back only if its installation was removed.
THEOREM PutsAreKept == Spec => []PromisedIsKept
<1>1. TypeOK /\ RegistryInv /\ ValueInv /\ [Next]_vars => TypeOK' /\ RegistryInv' /\ ValueInv'
  BY TypeStep, RegistryStepKept, ValueStep
<1>2. ValueInv => PromisedIsKept
  BY DEF ValueInv, PutterInv, DisappearedIsGone, ConfigGone, PromisedIsKept
<1>3. QED
  BY <1>1, <1>2, InitRegistry, InitValues, PTL DEF Spec

-----------------------------------------------------------------------------
(* What a read returns was true.                                           *)

LEMMA Movers ==
  ASSUME TypeOK, RegistryInv, Steps, NEW c \in Callers
  PROVE  \/ call'[c] = call[c] /\ answer'[c] = answer[c]
         \/ Calls(c)
         \/ Commands(c)
<1>1. ASSUME NEW d \in Callers \ {c}, Calls(d) \/ Commands(d)
      PROVE  call'[c] = call[c] /\ answer'[c] = answer[c]
  BY <1>1, CallsMove, CommandsMove
<1>2. CASE OtherTransaction \/ \E i \in Installations : RemoveInstallation(i) \/ DeleteSecret(i)
  BY <1>2 DEF OtherTransaction, RemoveInstallation, DeleteSecret
<1>3. QED
  BY <1>1, <1>2 DEF Steps

LEMMA ActiveMoves ==
  ASSUME TypeOK, RegistryInv, Steps, NEW i \in Installations
  PROVE  active'[i] = active[i] \/ active'[i] = NoVersion \/ WorkedOn(i)
<1>1. ASSUME NEW c \in Callers, SwitchActiveVersion(c), ~WorkedOn(i)
      PROVE  active'[i] = active[i]
  <2>1. Works(c) /\ call[c].at \in Writing
    BY <1>1 DEF SwitchActiveVersion, Served, At, Works, Writing, Inserting
  <2>2. call[c].i # i
    BY <1>1, <2>1 DEF WorkedOn
  <2>3. active' = [active EXCEPT ![call[c].i] = call[c].v]
    BY <1>1 DEF SwitchActiveVersion
  <2>4. QED
    BY <2>2, <2>3 DEF TypeOK
<1>2. ASSUME NEW c \in Callers, Calls(c) \/ Commands(c), ~SwitchActiveVersion(c)
      PROVE  UNCHANGED active
  BY <1>2, CallsMove DEF Commands, CreateInstallation, BindFirstVersion, Activates,
     BindVersionOnce, ReadState, ApplyEvent, ReadRow, ReadActive, ReadVersions, PutValue,
     ReadBack, AppendAudit, CallFails, tables, registry
<1>3. ASSUME NEW j \in Installations, RemoveInstallation(j)
      PROVE  active'[i] = active[i] \/ active'[i] = NoVersion
  BY <1>3 DEF RemoveInstallation, RemoveRows, TypeOK
<1>4. CASE OtherTransaction \/ \E j \in Installations : DeleteSecret(j)
  BY <1>4 DEF OtherTransaction, DeleteSecret, registry
<1>5. QED
  BY <1>1, <1>2, <1>3, <1>4 DEF Steps

LEMMA GhostsGrow ==
  ASSUME TypeOK, RegistryInv, Steps
  PROVE  /\ \A i \in Installations : served[i] \subseteq served'[i]
         /\ interrupted \subseteq interrupted'
<1>1. ASSUME NEW c \in Callers, SwitchActiveVersion(c)
      PROVE  \A i \in Installations : served[i] \subseteq served'[i]
  BY <1>1 DEF SwitchActiveVersion, TypeOK
<1>2. ASSUME NEW c \in Callers, Calls(c) \/ Commands(c)
      PROVE  /\ UNCHANGED served \/ SwitchActiveVersion(c)
             /\ interrupted \subseteq interrupted'
  BY <1>2, CallsMove DEF Commands, CreateInstallation, BindFirstVersion, Activates,
     BindVersionOnce, SwitchActiveVersion, ReadState, ApplyEvent, ReadRow, ReadActive,
     ReadVersions, PutValue, ReadBack, AppendAudit, CallFails, ghosts
<1>3. CASE OtherTransaction \/ \E j \in Installations : DeleteSecret(j) \/ RemoveInstallation(j)
  BY <1>3 DEF OtherTransaction, DeleteSecret, RemoveInstallation, ghosts
<1>4. QED
  BY <1>1, <1>2, <1>3 DEF Steps

LEMMA SeenSoFar ==
  ASSUME TypeOK, Watches, NEW c \in Callers, NEW i \in Installations,
         call[c].at \in Reading, i = call[c].i
  PROVE  /\ watch[c].shown \subseteq watch'[c].shown
         /\ Shown(i)' \in watch'[c].shown
         /\ watch[c].disturbed \/ WorkedOn(i) \/ WorkedOn(i)' \/ life[i] # life'[i] =>
              watch'[c].disturbed
<1> DEFINE of == {j \in Installations : j = call[c].i}
<1>1. watch'[c] = [shown |-> watch[c].shown \cup {Shown(j)' : j \in of},
                   disturbed |-> \/ watch[c].disturbed
                                 \/ \E j \in of : \/ WorkedOn(j) \/ WorkedOn(j)'
                                                  \/ life[j] # life'[j]]
  BY Zenon DEF Watches
<1>2. i \in of
  OBVIOUS
<1> HIDE DEF of
<1>3. PICK more : more = {Shown(j)' : j \in of}
  OBVIOUS
<1>4. PICK flag : flag = (\/ watch[c].disturbed
                         \/ \E j \in of : WorkedOn(j) \/ WorkedOn(j)' \/ life[j] # life'[j])
  OBVIOUS
<1>5. watch'[c].shown = watch[c].shown \cup more /\ watch'[c].disturbed = flag
  <2>1. watch'[c] = [shown |-> watch[c].shown \cup more, disturbed |-> flag]
    BY <1>1, <1>3, <1>4, Zenon
  <2>2. QED
    BY <2>1
<1>6. watch[c].shown \subseteq watch'[c].shown /\ Shown(i)' \in watch'[c].shown
  <2>1. Shown(i)' \in more
    BY <1>2, <1>3
  <2>2. QED
    BY <1>5, <2>1
<1>7. ASSUME watch[c].disturbed \/ WorkedOn(i) \/ WorkedOn(i)' \/ life[i] # life'[i]
      PROVE  watch'[c].disturbed
  <2>1. \/ watch[c].disturbed
        \/ \E j \in of : WorkedOn(j) \/ WorkedOn(j)' \/ life[j] # life'[j]
    BY <1>2, <1>7, Zenon
  <2>2. QED
    BY <1>4, <1>5, <2>1, Zenon
<1>8. QED
  BY <1>6, <1>7

LEMMA FirstSeen ==
  ASSUME TypeOK, Watches, NEW c \in Callers, NEW i \in Installations,
         call[c].at \notin Reading, call'[c].at \in Reading, i = call'[c].i
  PROVE  Shown(i)' \in watch'[c].shown /\ (WorkedOn(i)' => watch'[c].disturbed)
<1> DEFINE of == {j \in Installations : j = call'[c].i}
<1>1. watch'[c] = [shown |-> Unwatched.shown \cup {Shown(j)' : j \in of},
                   disturbed |-> \/ Unwatched.disturbed
                                 \/ \E j \in of : \/ WorkedOn(j) \/ WorkedOn(j)'
                                                  \/ life[j] # life'[j]]
  BY Zenon DEF Watches
<1>2. i \in of
  OBVIOUS
<1> HIDE DEF of
<1>3. PICK more : more = {Shown(j)' : j \in of}
  OBVIOUS
<1>4. PICK flag : flag = (\/ Unwatched.disturbed
                         \/ \E j \in of : WorkedOn(j) \/ WorkedOn(j)' \/ life[j] # life'[j])
  OBVIOUS
<1>5. watch'[c].shown = Unwatched.shown \cup more /\ watch'[c].disturbed = flag
  <2>1. watch'[c] = [shown |-> Unwatched.shown \cup more, disturbed |-> flag]
    BY <1>1, <1>3, <1>4, Zenon
  <2>2. QED
    BY <2>1
<1>6. Shown(i)' \in watch'[c].shown
  <2>1. Shown(i)' \in more
    BY <1>2, <1>3
  <2>2. QED
    BY <1>5, <2>1
<1>7. ASSUME WorkedOn(i)'
      PROVE  watch'[c].disturbed
  <2>1. \E j \in of : WorkedOn(j) \/ WorkedOn(j)' \/ life[j] # life'[j]
    BY <1>2, <1>7, Zenon
  <2>2. QED
    BY <1>4, <1>5, <2>1, Zenon
<1>8. QED
  BY <1>6, <1>7

LEMMA KeptAnswer ==
  ASSUME TypeOK, Watches, NEW c \in Callers, answer'[c] # NoAnswer,
         call[c].at \notin Reading, call'[c].at \notin Reading
  PROVE  watch'[c] = watch[c]
BY Zenon DEF Watches

\* A version that is served is what the record shows.
LEMMA ServedIsShown ==
  ASSUME TypeOK, RegistryInv, NEW i \in Installations, active[i] # NoVersion
  PROVE  Shown(i) = [version |-> active[i], serves |-> active[i]]
<1>1. RowInv(i)
  BY DEF RegistryInv
<1>2. HasRecord(i) /\ VersionOf(i) = active[i]
  BY <1>1 DEF RowInv, HasRecord, VersionOf
<1>3. QED
  BY <1>2 DEF Shown

LEMMA ReaderKnows ==
  ASSUME TypeOK, TypeOK', RegistryInv, Steps, Watches, NEW c \in Callers,
         NEW i \in Installations, ReaderInv(c),
         call[c].at \in Reading, call'[c].at \in Reading, i = call[c].i,
         \/ call'[c] = call[c]
         \/ ReadRow(c) /\ life[i] # "None" /\ call'[c].at = "read active"
         \/ /\ ReadActive(c) /\ call'[c].at = "read versions" /\ call'[c].binding = active[i]
            /\ active'[i] = active[i]
  PROVE  Knows(c, i)'
<1>1. /\ watch[c].shown \subseteq watch'[c].shown
      /\ watch[c].disturbed \/ WorkedOn(i) \/ life[i] # life'[i] => watch'[c].disturbed
  BY SeenSoFar
<1>2. Shown(i) \in watch[c].shown /\ Knows(c, i)
  BY DEF ReaderInv
<1>3. active'[i] = active[i] \/ active'[i] = NoVersion \/ WorkedOn(i)
  BY ActiveMoves
<1>4. call'[c].at # "read row" /\ ~watch'[c].disturbed => life'[i] # "None"
  <2>1. SUFFICES ASSUME call'[c].at # "read row", ~watch'[c].disturbed
                 PROVE  life[i] # "None"
    BY <1>1
  <2>2. CASE call'[c] = call[c]
    <3>1. ~At(c, "read row")
      BY <2>1, <2>2 DEF At
    <3>2. ~watch[c].disturbed
      BY <1>1, <2>1, Zenon
    <3>3. QED
      BY <1>2, <3>1, <3>2, Zenon DEF Knows
  <2>3. CASE ReadActive(c)
    BY <1>1, <1>2, <2>1, <2>3 DEF Knows, At, ReadActive, Served
  <2>4. QED
    BY <2>2, <2>3
<1>5. call'[c].at = "read versions" =>
        IF call'[c].binding = NoVersion
        THEN watch'[c].disturbed \/ active'[i] = NoVersion
        ELSE [version |-> call'[c].binding, serves |-> call'[c].binding] \in watch'[c].shown
  <2>1. CASE call'[c] = call[c]
    BY <1>1, <1>2, <1>3, <2>1 DEF Knows, At
  <2>2. CASE ReadRow(c) /\ call'[c].at = "read active"
    BY <2>2
  <2>3. CASE /\ ReadActive(c) /\ call'[c].binding = active[i] /\ active'[i] = active[i]
    <3>1. active[i] # NoVersion =>
            [version |-> active[i], serves |-> active[i]] \in watch[c].shown
      BY <1>2, ServedIsShown
    <3>2. QED
      BY <1>1, <2>3, <3>1
  <2>4. QED
    BY <2>1, <2>2, <2>3
<1>6. QED
  BY <1>4, <1>5 DEF Knows, At

LEMMA ReaderStepKept ==
  ASSUME TypeOK, TypeOK', RegistryInv, Steps, Watches, NEW c \in Callers, ReaderInv(c)
  PROVE  ReaderInv(c)'
<1>1. SUFFICES ASSUME NEW i \in Installations, call'[c].at \in Reading, i = call'[c].i
               PROVE  /\ answer'[c] = NoAnswer
                      /\ Shown(i)' \in watch'[c].shown
                      /\ WorkedOn(i)' => watch'[c].disturbed
                      /\ Knows(c, i)'
  BY DEF ReaderInv
<1>2. CASE Calls(c)
  <2>1. call'[c].at = "read row" /\ call[c].at \notin Reading /\ answer'[c] = NoAnswer
    BY <1>1, <1>2, CallsMove DEF Reading
  <2>2. Shown(i)' \in watch'[c].shown /\ (WorkedOn(i)' => watch'[c].disturbed)
    BY <1>1, <2>1, FirstSeen
  <2>3. Knows(c, i)'
    BY <2>1 DEF Knows, At
  <2>4. QED
    BY <2>1, <2>2, <2>3
<1>3. CASE ~Calls(c)
  <2>1. /\ answer'[c] = answer[c] /\ call[c].at \in Reading /\ i = call[c].i
        /\ \/ call'[c] = call[c]
           \/ ReadRow(c) /\ life[i] # "None" /\ call'[c].at = "read active"
           \/ /\ ReadActive(c) /\ call'[c].at = "read versions" /\ call'[c].binding = active[i]
              /\ active'[i] = active[i]
    <3>1. CASE call'[c] = call[c] /\ answer'[c] = answer[c]
      BY <1>1, <3>1
    <3>2. CASE Commands(c)
      <4>1. ~ReadVersions(c) /\ ~ReadBack(c)
        BY <1>1, <3>2, CommandsMove DEF ReadVersions, ReadBack, ReadRow, ReadActive, PutValue,
           Served, At, Reading
      <4>2. ReadRow(c) \/ ReadActive(c)
        BY <1>1, <3>2, CommandsMove DEF Reading
      <4>3. call[c].at \in Reading
        BY <4>2 DEF ReadRow, ReadActive, Served, At, Reading
      <4>4. UNCHANGED active
        BY <4>2 DEF ReadRow, ReadActive, tables, registry
      <4>5. answer'[c] = answer[c]
        BY <3>2, <4>1, CommandsMove
      <4>6. \/ /\ ReadRow(c) /\ life[call[c].i] # "None"
               /\ call'[c].at = "read active" /\ call'[c].i = call[c].i
            \/ /\ ReadActive(c) /\ call'[c].at = "read versions" /\ call'[c].i = call[c].i
               /\ call'[c].binding = active[call[c].i]
        BY <1>1, <3>2, CommandsMove DEF Reading
      <4>7. QED
        BY <1>1, <4>3, <4>4, <4>5, <4>6
    <3>3. QED
      BY <1>3, <3>1, <3>2, Movers
  <2>2. answer'[c] = NoAnswer
    BY <2>1 DEF ReaderInv
  <2>3. Shown(i)' \in watch'[c].shown /\ (WorkedOn(i)' => watch'[c].disturbed)
    BY <2>1, SeenSoFar
  <2>4. Knows(c, i)'
    BY <1>1, <2>1, ReaderKnows
  <2>5. QED
    BY <2>2, <2>3, <2>4
<1>4. QED
  BY <1>2, <1>3

\* A read that ends composes its answer of what it knows.
LEMMA ComposedIsTrue ==
  ASSUME TypeOK, TypeOK', RegistryInv, Steps, Watches, NEW c \in Callers, ReaderInv(c),
         ReadVersions(c), answer'[c] = Composed(c)
  PROVE  AnswerWasTrue(c)'
<1>1. call[c] \in RegistryCalls /\ call[c].at = "read versions"
  BY CallKinds DEF ReadVersions, Served, At, RegistryPlaces, Reading
<1>2. PICK i \in Installations, binding \in Serving : i = call[c].i /\ binding = call[c].binding
  BY <1>1 DEF RegistryCalls
<1>3. /\ Shown(i) \in watch[c].shown
      /\ WorkedOn(i) => watch[c].disturbed
      /\ ~watch[c].disturbed => life[i] # "None"
      /\ IF binding = NoVersion
         THEN watch[c].disturbed \/ active[i] = NoVersion
         ELSE [version |-> binding, serves |-> binding] \in watch[c].shown
  BY <1>1, <1>2 DEF ReaderInv, Knows, Reading, At
<1>4. /\ watch[c].shown \subseteq watch'[c].shown
      /\ watch[c].disturbed => watch'[c].disturbed
  BY <1>1, <1>2, SeenSoFar DEF Reading
<1>5. UNCHANGED <<served, interrupted>> /\ RowInv(i)
  BY DEF ReadVersions, ghosts, RegistryInv
<1>6. CASE binding = NoVersion /\ Candidates(i) = {}
  <2>1. answer'[c] = [kind |-> "corrupt", i |-> i]
    BY <1>2, <1>6 DEF Composed
  <2>2. ASSUME ~watch[c].disturbed
        PROVE  i \in interrupted
    <3>1. life[i] # "None" /\ ~HasRecord(i)
      BY <1>3, <1>6, <2>2 DEF HasRecord
    <3>2. ~WorkedOn(i)
      BY <1>3, <2>2
    <3>3. ~ \E d \in Callers : At(d, "bind first") /\ call[d].i = i
      BY <3>2 DEF WorkedOn, At, Writing, Inserting
    <3>4. QED
      BY <1>5, <3>1, <3>3 DEF RowInv
  <2>3. watch'[c].disturbed \/ i \in interrupted'
    BY <1>4, <1>5, <2>2, Zenon
  <2>4. answer'[c].kind = "corrupt" /\ answer'[c].i = i
    BY <2>1
  <2>5. QED
    BY <2>3, <2>4 DEF AnswerWasTrue
<1>7. CASE ~ (binding = NoVersion /\ Candidates(i) = {})
  <2>1. PICK version, good :
          /\ version = IF binding # NoVersion THEN binding ELSE Max(Candidates(i))
          /\ good = LastKnownGood(i, binding)
    OBVIOUS
  <2>2. answer'[c] = [kind |-> "record", i |-> i, serves |-> binding, version |-> version,
                      lastKnownGood |-> good]
    BY <1>2, <1>7, <2>1 DEF Composed
  <2>3. ASSUME binding # NoVersion \/ ~watch'[c].disturbed
        PROVE  [version |-> version, serves |-> binding] \in watch'[c].shown
    <3>1. CASE binding # NoVersion
      BY <1>3, <1>4, <2>1, <3>1
    <3>2. CASE binding = NoVersion
      <4>1. ~watch[c].disturbed
        BY <1>4, <2>3, <3>2, Zenon
      <4>2. active[i] = NoVersion /\ life[i] # "None" /\ Candidates(i) # {}
        BY <1>3, <1>7, <3>2, <4>1
      <4>3. Shown(i) = [version |-> version, serves |-> binding]
        BY <2>1, <3>2, <4>2 DEF Shown, HasRecord, VersionOf
      <4>4. QED
        BY <1>3, <1>4, <4>3
    <3>3. QED
      BY <3>1, <3>2
  <2>4. good \in {binding} \cup served'[i]
    <3>1. Retained(i) \subseteq served[i]
      BY <1>5 DEF RowInv, Retained
    <3>2. QED
      BY <1>5, <2>1, <3>1, LastKnownGoodType
  <2>5. /\ answer'[c].kind = "record" /\ answer'[c].i = i /\ answer'[c].serves = binding
        /\ answer'[c].version = version /\ answer'[c].lastKnownGood = good
    BY <2>2
  <2>6. QED
    BY <2>3, <2>4, <2>5 DEF AnswerWasTrue
<1>8. QED
  BY <1>6, <1>7

\* An answer that stays is as true as it was.
LEMMA AnswerStays ==
  ASSUME TypeOK, TypeOK', RegistryInv, Steps, Watches, NEW c \in Callers, AnswerWasTrue(c),
         answer'[c] = answer[c], answer[c] = NoAnswer \/ watch'[c] = watch[c]
  PROVE  AnswerWasTrue(c)'
<1>1. /\ \A i \in Installations : served[i] \subseteq served'[i]
      /\ interrupted \subseteq interrupted'
  BY GhostsGrow
<1>2. CASE answer'[c].kind \notin {"record", "corrupt"}
  BY <1>2 DEF AnswerWasTrue
<1>3. CASE answer[c].kind \in {"record", "corrupt"}
  <2>1. watch'[c] = watch[c]
    BY <1>3 DEF NoAnswer
  <2>2. answer[c].kind = "record" => answer[c].i \in Installations
    <3>1. /\ \A a \in Disappeared : a.kind = "disappeared"
          /\ \A a \in Corrupt : a.kind = "corrupt"
          /\ NoAnswer.kind = "none"
      BY DEF Disappeared, Corrupt, NoAnswer
    <3>2. answer[c].kind = "record" => answer[c] \in Records
      BY <3>1 DEF AnswerTypes, TypeOK
    <3>3. QED
      BY <3>2 DEF Records
  <2>3. answer[c].kind = "record" => served[answer[c].i] \subseteq served'[answer[c].i]
    BY <1>1, <2>2
  <2>4. QED
    BY <1>1, <2>1, <2>3 DEF AnswerWasTrue
<1>4. QED
  BY <1>2, <1>3

LEMMA AnswerStepKept ==
  ASSUME TypeOK, TypeOK', RegistryInv, Steps, Watches, NEW c \in Callers, ReaderInv(c),
         AnswerWasTrue(c)
  PROVE  AnswerWasTrue(c)'
<1>1. CASE ReadVersions(c) /\ answer'[c] = Composed(c)
  BY <1>1, ComposedIsTrue
<1>2. CASE answer'[c].kind \in {"none", "disappeared"}
  BY <1>2 DEF AnswerWasTrue
<1>3. CASE answer'[c] = answer[c]
  <2>1. call[c].at \in Reading => answer[c] = NoAnswer
    <3>1. call[c].at \in Reading => call[c].i \in Installations
      BY CallKinds DEF RegistryPlaces, RegistryCalls
    <3>2. QED
      BY <3>1 DEF ReaderInv
  <2>2. call'[c].at \in Reading => answer'[c] = NoAnswer
    <3>1. call'[c].at \in Reading => call'[c].i \in Installations
      <4>1. call'[c] \in CallTypes
        BY DEF TypeOK
      <4>2. /\ Idle.at \notin Reading
            /\ \A p \in PutCalls : p.at \notin Reading
            /\ \A r \in RegistryCalls : r.i \in Installations
        BY DEF Idle, Reading, PutCalls, Putting, RegistryCalls
      <4>3. QED
        BY <4>1, <4>2 DEF CallTypes
    <3>2. ReaderInv(c)'
      BY ReaderStepKept
    <3>3. QED
      BY <3>1, <3>2 DEF ReaderInv
  <2>3. answer[c] = NoAnswer \/ watch'[c] = watch[c]
    BY <1>3, <2>1, <2>2, KeptAnswer
  <2>4. QED
    BY <1>3, <2>3, AnswerStays
<1>4. QED
  <2>1. NoAnswer.kind = "none"
    BY DEF NoAnswer
  <2>2. Calls(c) => answer'[c] = NoAnswer
    BY CallsMove
  <2>3. Commands(c) => \/ answer'[c] = answer[c]
                       \/ ReadVersions(c) /\ answer'[c] = Composed(c)
                       \/ answer'[c] = [kind |-> "disappeared", i |-> call[c].i, n |-> call[c].n]
    BY CommandsMove
  <2>4. Commands(c) => \/ answer'[c] = answer[c]
                       \/ ReadVersions(c) /\ answer'[c] = Composed(c)
                       \/ answer'[c].kind = "disappeared"
    BY <2>3
  <2>5. QED
    BY <1>1, <1>2, <1>3, <2>1, <2>2, <2>4, Movers

LEMMA ReadStep ==
  ASSUME TypeOK, TypeOK', RegistryInv, ReadInv, [Next]_vars
  PROVE  ReadInv'
<1>1. CASE Next
  BY <1>1, ReaderStepKept, AnswerStepKept DEF Next, ReadInv, AnswersWereTrue
<1>2. CASE UNCHANGED vars
  <2>1. UNCHANGED <<life, bound, active, call, answer, served, interrupted, watch>>
    BY <1>2 DEF vars, tables, registry, ghosts
  <2>2. \A i \in Installations : Shown(i)' = Shown(i) /\ (WorkedOn(i)' <=> WorkedOn(i))
    BY <2>1 DEF Shown, WorkedOn, HasRecord, VersionOf, Candidates
  <2>3. QED
    BY <2>1, <2>2 DEF ReadInv, ReaderInv, Knows, At, AnswersWereTrue, AnswerWasTrue
<1>3. QED
  BY <1>1, <1>2

LEMMA InitReads == Init => ReadInv
<1> SUFFICES ASSUME Init PROVE ReadInv
  OBVIOUS
<1>1. \A c \in Callers : call[c].at = "idle" /\ answer[c].kind = "none"
  BY DEF Init, Idle, NoAnswer
<1>2. \A c \in Callers : ReaderInv(c)
  BY <1>1 DEF ReaderInv, Reading
<1>3. AnswersWereTrue
  BY <1>1 DEF AnswersWereTrue, AnswerWasTrue
<1>4. QED
  BY <1>2, <1>3 DEF ReadInv

\* The reads: the version and the digest that a read of an installation returns were
\* its record's at one moment of the read, unless it returns no digest while somebody
\* is at work; the rollback target it derives was served once; and corruption is
\* reported only then, or where an insertion ended half way.
THEOREM ReadsWereTrue == Spec => []AnswersWereTrue
<1>1. /\ TypeOK /\ RegistryInv /\ ReadInv /\ [Next]_vars =>
           TypeOK' /\ RegistryInv' /\ ReadInv'
  BY TypeStep, RegistryStepKept, ReadStep
<1>2. ReadInv => AnswersWereTrue
  BY DEF ReadInv
<1>3. QED
  BY <1>1, <1>2, InitRegistry, InitReads, PTL DEF Spec
=============================================================================

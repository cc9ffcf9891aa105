-------------------------- MODULE SensorFormProofs --------------------------
(***************************************************************************)
(* What the registry's contract implies, and the editors of a sensor: a    *)
(* command never overwrites what it has not seen.  The argument is that a  *)
(* version names one content (ChangeRenews): what a command saw is what    *)
(* the sensor holds for as long as its version is the one that was seen,   *)
(* and that version is what the command sends.  Of the in-memory store     *)
(* this is true of what is read after the version, not of the key.         *)
(***************************************************************************)
EXTENDS SensorForm, TLAPS

-----------------------------------------------------------------------------
(* The registry.                                                            *)

\* A step of a caller who may ask for any specification and any edit.
Change ==
  \E i \in Ids :
    \/ \E k \in Keys, s \in SUBSET Items : Register(i, k, s)
    \/ \E v \in Versions, e \in Edit : Patch(i, v, e)
    \/ \E r \in Reporters : SendData(i, r)
    \/ Delete(i)

LEMMA NextIsChange == Next => Change
BY RequestsAssumption DEF Next, Change

LEMMA ChangeTyped ==
  ASSUME TypeOK, Change
  PROVE  TypeOK'
<1>1. ASSUME NEW i \in Ids, NEW k \in Keys, NEW s \in SUBSET Items, Register(i, k, s)
      PROVE TypeOK'
  <2>1. issued + 1 \in Versions
    BY <1>1, MaxVersionAssumption DEF TypeOK, Register, Versions
  <2>2. [key |-> k, spec |-> s, data |-> {}, version |-> issued + 1] \in Sensor
    BY <2>1 DEF Sensor
  <2>3. QED
    BY <1>1, <2>1, <2>2 DEF TypeOK, Register, Versions
<1>2. ASSUME NEW i \in Ids, NEW v \in Versions, NEW e \in Edit, Patch(i, v, e)
      PROVE TypeOK'
  <2>1. issued + 1 \in Versions
    BY <1>2, MaxVersionAssumption DEF TypeOK, Patch, Versions
  <2>2. sensors[i] \in Sensor
    BY <1>2, MaxVersionAssumption DEF TypeOK, Patch, Present, Absent
  <2>3. EditedKey(e, sensors[i].key) \in Keys
    BY <2>2 DEF EditedKey, Edit, Sensor
  <2>4. EditedSpec(e, sensors[i].spec) \in SUBSET Items
    BY <2>2 DEF EditedSpec, Edit, Sensor
  <2> DEFINE n == [sensors[i] EXCEPT !.key = EditedKey(e, sensors[i].key),
                                     !.spec = EditedSpec(e, sensors[i].spec),
                                     !.version = issued + 1]
  <2>5. n \in Sensor
    BY <2>1, <2>2, <2>3, <2>4 DEF Sensor
  <2>6. sensors' = [sensors EXCEPT ![i] = n]
    BY <1>2 DEF Patch, TypeOK
  <2>7. sensors' \in [Ids -> Sensor \cup {Absent}]
    BY <2>5, <2>6 DEF TypeOK
  <2>8. issued' \in 0..MaxVersion
    BY <1>2, <2>1 DEF Patch, Versions
  <2>9. QED
    BY <2>7, <2>8 DEF TypeOK
<1>3. ASSUME NEW i \in Ids, NEW r \in Reporters, SendData(i, r)
      PROVE TypeOK'
  <2>1. sensors[i] \in Sensor
    BY <1>3, MaxVersionAssumption DEF TypeOK, SendData, Present, Absent
  <2>2. [sensors[i] EXCEPT !.data = @ \cup {r}] \in Sensor
    BY <2>1 DEF Sensor
  <2>3. QED
    BY <1>3, <2>2 DEF TypeOK, SendData
<1>4. ASSUME NEW i \in Ids, Delete(i)
      PROVE TypeOK'
  BY <1>4 DEF TypeOK, Delete
<1>5. QED
  BY <1>1, <1>2, <1>3, <1>4 DEF Change

(* Every sensor keeps its type and every version drawn stays in bounds.     *)
THEOREM TypeCorrect == Spec => []TypeOK
<1>1. Init => TypeOK
  BY MaxVersionAssumption DEF Init, TypeOK
<1>2. TypeOK /\ [Next]_vars => TypeOK'
  <2>1. TypeOK /\ UNCHANGED vars => TypeOK'
    BY DEF TypeOK, vars
  <2> QED
    BY <2>1, NextIsChange, ChangeTyped
<1>3. QED
  BY <1>1, <1>2, PTL DEF Spec

\* What one step may make of a sensor.
Renewed(i) ==
  \/ sensors'[i].version = 0
  \/ sensors'[i].version > issued
  \/ /\ sensors'[i].version = sensors[i].version
     /\ sensors'[i].key = sensors[i].key
     /\ sensors'[i].spec = sensors[i].spec

LEMMA ChangeRenews ==
  ASSUME TypeOK, Change, NEW j \in Ids
  PROVE  Renewed(j)
<1> USE DEF Renewed
<1>1. ASSUME NEW i \in Ids, NEW k \in Keys, NEW s \in SUBSET Items, Register(i, k, s)
      PROVE sensors'[j] = sensors[j] \/ sensors'[j].version > issued
  BY <1>1, MaxVersionAssumption DEF TypeOK, Register
<1>2. ASSUME NEW i \in Ids, NEW v \in Versions, NEW e \in Edit, Patch(i, v, e)
      PROVE sensors'[j] = sensors[j] \/ sensors'[j].version > issued
  <2>1. CASE j # i
    BY <1>2, <2>1 DEF TypeOK, Patch
  <2>2. CASE j = i
    <3>1. sensors'[i].version = issued + 1
      BY <1>2 DEF TypeOK, Patch, Sensor, Absent
    <3>2. QED
      BY <2>2, <3>1, MaxVersionAssumption DEF TypeOK
  <2>3. QED
    BY <2>1, <2>2
<1>3. ASSUME NEW i \in Ids, NEW r \in Reporters, SendData(i, r)
      PROVE /\ sensors'[j].version = sensors[j].version
            /\ sensors'[j].key = sensors[j].key
            /\ sensors'[j].spec = sensors[j].spec
  BY <1>3 DEF SendData, TypeOK, Sensor, Absent
<1>4. ASSUME NEW i \in Ids, Delete(i)
      PROVE sensors'[j] = sensors[j] \/ sensors'[j].version = 0
  BY <1>4 DEF TypeOK, Delete, Absent
<1>5. QED
  BY <1>1, <1>2, <1>3, <1>4 DEF Change

(* A version names one content: a step leaves a sensor absent, with a       *)
(* version never drawn before, or with the version, key and specification   *)
(* it had, so comparing versions is comparing contents (Patch).             *)
THEOREM VersionsNameContent == Spec => VersionNamesContent
<1>1. TypeOK /\ [Next]_vars => [\A i \in Ids : Renewed(i)]_vars
  BY NextIsChange, ChangeRenews
<1>2. QED
  BY <1>1, TypeCorrect, PTL DEF Spec, VersionNamesContent, Renewed

-----------------------------------------------------------------------------
(* The editors.                                                             *)

\* What a command saw is true while its version is.
SeenTrue(x) ==
  /\ editing[x] \in Ids
  /\ seen[x].version \in 0..issued
  /\ stage[x] # "looking" =>
       /\ seen[x].version # 0
       /\ sensors[editing[x]].version = seen[x].version =>
            SpecAsSeen(x) /\ (memory \/ KeyAsSeen(x))

SeeingInv ==
  /\ EditorsTypeOK
  /\ \A x \in Editors : stage[x] # "idle" => editing[x] \in Ids
  /\ \A x \in Editors : stage[x] = "looking" => memory
  /\ \A x \in Commands :
       /\ stage[x] # "idle" => SeenTrue(x)
       /\ stage[x] = "posting" => base[x] = seen[x].version

LEMMA PresentSensor ==
  ASSUME TypeOK, NEW i \in Ids, Present(i)
  PROVE  sensors[i] \in Sensor
BY MaxVersionAssumption DEF TypeOK, Present, Absent

(* What the store holds has been drawn.                                     *)
VersionsDrawn == \A i \in Ids : sensors[i].version <= issued

LEMMA ChangeDrawn ==
  ASSUME TypeOK, VersionsDrawn, Change
  PROVE  VersionsDrawn' /\ issued <= issued'
<1> SUFFICES \A j \in Ids : sensors'[j].version <= issued' /\ issued <= issued'
  <2>1. issued <= issued'
    BY MaxVersionAssumption DEF Change, Register, Patch, SendData, Delete, TypeOK
  <2> QED
    BY <2>1 DEF VersionsDrawn
<1> TAKE j \in Ids
<1>1. issued \in Nat /\ sensors[j].version \in Nat
  BY MaxVersionAssumption DEF TypeOK, Sensor, Versions, Absent
<1>2. ASSUME NEW i \in Ids, NEW k \in Keys, NEW s \in SUBSET Items, Register(i, k, s)
      PROVE  sensors'[j].version <= issued' /\ issued <= issued'
  BY <1>1, <1>2 DEF TypeOK, Register, VersionsDrawn
<1>3. ASSUME NEW i \in Ids, NEW v \in Versions, NEW e \in Edit, Patch(i, v, e)
      PROVE  sensors'[j].version <= issued' /\ issued <= issued'
  <2>1. CASE j # i
    BY <1>1, <1>3, <2>1 DEF TypeOK, Patch, VersionsDrawn
  <2>2. CASE j = i
    <3>1. sensors'[i].version = issued + 1
      BY <1>3 DEF TypeOK, Patch, Sensor, Absent
    <3> QED
      BY <1>1, <1>3, <2>2, <3>1 DEF Patch
  <2> QED
    BY <2>1, <2>2
<1>4. ASSUME NEW i \in Ids, NEW r \in Reporters, SendData(i, r)
      PROVE  sensors'[j].version = sensors[j].version /\ issued' = issued
  BY <1>4 DEF SendData, TypeOK, Sensor, Absent
<1>5. ASSUME NEW i \in Ids, Delete(i)
      PROVE  sensors'[j].version <= issued' /\ issued <= issued'
  BY <1>1, <1>5 DEF TypeOK, Delete, Absent, VersionsDrawn
<1> QED
  BY <1>1, <1>2, <1>3, <1>4, <1>5 DEF Change, VersionsDrawn

EInv == SeeingInv /\ VersionsDrawn

(* What an editor saw stays true of the version it saw.                     *)
LEMMA SeenStays ==
  ASSUME TypeOK, NEW x \in Editors, SeenTrue(x), Change \/ UNCHANGED vars,
         issued <= issued', editing'[x] = editing[x], seen'[x] = seen[x],
         stage'[x] = stage[x], memory' = memory, TypeOK'
  PROVE  SeenTrue(x)'
<1> DEFINE i == editing[x]
<1>1. i \in Ids /\ seen[x].version \in 0..issued
  BY DEF SeenTrue
<1>2. seen[x].version \in 0..issued'
  BY <1>1, MaxVersionAssumption DEF TypeOK
<1>3. Renewed(i) \/ UNCHANGED vars
  BY <1>1, ChangeRenews
<1>4. seen[x].version # 0 /\ sensors'[i].version = seen[x].version
        => sensors[i].version = seen[x].version
           /\ sensors'[i].key = sensors[i].key /\ sensors'[i].spec = sensors[i].spec
  BY <1>1, <1>3, MaxVersionAssumption DEF Renewed, vars, TypeOK
<1> HIDE DEF i
<1>5. ASSUME stage[x] # "looking"
      PROVE  /\ seen[x].version # 0
             /\ sensors'[i].version = seen[x].version =>
                  /\ sensors'[i].spec = seen[x].spec
                  /\ memory \/ sensors'[i].key = seen[x].key
  BY <1>4, <1>5 DEF SeenTrue, SpecAsSeen, KeyAsSeen, i
<1> QED
  BY <1>1, <1>2, <1>5 DEF SeenTrue, SpecAsSeen, KeyAsSeen, i

(* An editor that is done has nothing open.                                 *)
LEMMA CloseInv ==
  ASSUME EInv, NEW x \in Editors, Close(x), UNCHANGED memory, Change \/ UNCHANGED vars
  PROVE  EInv'
<1>1. TypeOK' /\ VersionsDrawn' /\ issued <= issued'
  BY ChangeTyped, ChangeDrawn, MaxVersionAssumption
  DEF EInv, SeeingInv, EditorsTypeOK, TypeOK, vars, VersionsDrawn
<1>2. EditorsTypeOK'
  <2>1. NoDraft \in Edit
    BY DEF NoDraft, Edit
  <2> QED
    BY <1>1, <2>1, MaxVersionAssumption DEF EInv, SeeingInv, EditorsTypeOK, Close, Stages, Seen, Nothing
<1>3. stage'[x] = "idle"
  BY DEF Close, EInv, SeeingInv, EditorsTypeOK
<1>4. \A y \in Editors \ {x} : /\ stage'[y] = stage[y] /\ editing'[y] = editing[y]
                              /\ seen'[y] = seen[y] /\ base'[y] = base[y]
  BY DEF Close, EInv, SeeingInv, EditorsTypeOK
<1>5. \A y \in Commands : stage'[y] # "idle" => SeenTrue(y)'
  <2> SUFFICES ASSUME NEW y \in Commands, stage'[y] # "idle" PROVE SeenTrue(y)'
    OBVIOUS
  <2>1. y \in Editors \ {x}
    BY <1>3 DEF Editors
  <2> QED
    BY <1>1, <1>4, <2>1, SeenStays DEF EInv, SeeingInv, EditorsTypeOK
<1> QED
  BY <1>1, <1>2, <1>3, <1>4, <1>5 DEF EInv, SeeingInv, Editors

(* A step of one editor that leaves the registry alone.                     *)
LEMMA OnlyEditor ==
  ASSUME EInv, NEW x \in Editors, UNCHANGED <<sensors, issued, memory>>, EditorsTypeOK',
         \A y \in Editors \ {x} : /\ stage'[y] = stage[y] /\ editing'[y] = editing[y]
                                  /\ seen'[y] = seen[y] /\ base'[y] = base[y],
         stage'[x] # "idle" => editing'[x] \in Ids, stage'[x] = "looking" => memory,
         x \in Commands => SeenTrue(x)' /\ (stage'[x] = "posting" => base'[x] = seen'[x].version)
  PROVE  EInv'
<1>1. VersionsDrawn'
  BY DEF EInv, VersionsDrawn
<1>2. \A y \in Commands \ {x} : y \in Editors /\ (SeenTrue(y) => SeenTrue(y)')
  BY DEF SeenTrue, SpecAsSeen, KeyAsSeen, Editors
<1> QED
  BY <1>1, <1>2 DEF EInv, SeeingInv

LEMMA EditorsStep == EInv /\ [EditorsNext]_allvars => EInv'
<1> SUFFICES ASSUME EInv, [EditorsNext]_allvars PROVE EInv'
  OBVIOUS
<1> USE DEF EInv
<1>1. ASSUME UNCHANGED editor, Change \/ UNCHANGED vars PROVE EInv'
  <2>1. TypeOK' /\ VersionsDrawn' /\ issued <= issued'
    BY <1>1, ChangeTyped, ChangeDrawn, MaxVersionAssumption
    DEF SeeingInv, EditorsTypeOK, TypeOK, vars, VersionsDrawn
  <2>2. EditorsTypeOK'
    BY <1>1, <2>1 DEF SeeingInv, EditorsTypeOK, editor
  <2>3. \A y \in Commands : stage'[y] # "idle" => SeenTrue(y)'
    <3> SUFFICES ASSUME NEW y \in Commands, stage'[y] # "idle" PROVE SeenTrue(y)'
      OBVIOUS
    <3> QED
      BY <1>1, <2>1, SeenStays DEF SeeingInv, EditorsTypeOK, editor, Editors
  <2> QED
    BY <1>1, <2>1, <2>2, <2>3 DEF SeeingInv, editor
<1>2. ASSUME NEW x \in Editors, NEW i \in Ids, Look(x, i) PROVE EInv'
  <2>1. /\ UNCHANGED <<sensors, issued, memory, draft, base>> /\ Present(i)
        /\ editing' = [editing EXCEPT ![x] = i]
    BY <1>2 DEF Look, vars
  <2>2. sensors[i] \in Sensor
    BY <2>1, PresentSensor DEF SeeingInv, EditorsTypeOK
  <2>3. sensors[i].version \in 1..issued
    BY <2>2, MaxVersionAssumption DEF VersionsDrawn, Sensor, Versions, SeeingInv, EditorsTypeOK, TypeOK
  <2>4. CASE memory
    <3> DEFINE n == [Nothing EXCEPT !.key = sensors[i].key]
    <3>1. /\ stage' = [stage EXCEPT ![x] = "looking"] /\ seen' = [seen EXCEPT ![x] = n]
      BY <1>2, <2>4 DEF Look
    <3>2. n \in Seen /\ n.version = 0
      BY <2>2, MaxVersionAssumption DEF Seen, Nothing, Sensor
    <3> HIDE DEF n
    <3>3. EditorsTypeOK'
      BY <2>1, <3>1, <3>2 DEF SeeingInv, EditorsTypeOK, TypeOK, Stages
    <3>4. stage'[x] = "looking" /\ editing'[x] = i /\ seen'[x].version \in 0..issued'
      BY <2>1, <2>3, <3>1, <3>2 DEF SeeingInv, EditorsTypeOK, TypeOK
    <3>5. SeenTrue(x)'
      BY <3>4 DEF SeenTrue
    <3> QED
      BY <2>1, <2>4, <3>1, <3>3, <3>4, <3>5, OnlyEditor DEF SeeingInv, EditorsTypeOK
  <2>5. CASE ~memory
    <3>1. /\ stage' = [stage EXCEPT ![x] = "editing"]
          /\ seen' = [seen EXCEPT ![x] = Row(sensors[i])]
      BY <1>2, <2>5 DEF Look
    <3>2. Row(sensors[i]) \in Seen
      BY <2>2, MaxVersionAssumption DEF Row, Seen, Sensor, Versions
    <3>3. EditorsTypeOK'
      BY <2>1, <3>1, <3>2 DEF SeeingInv, EditorsTypeOK, TypeOK, Stages
    <3>4. stage'[x] = "editing" /\ editing'[x] = i /\ seen'[x] = Row(sensors[i])
      BY <2>1, <3>1 DEF SeeingInv, EditorsTypeOK
    <3>5. SeenTrue(x)'
      BY <2>1, <2>3, <3>4 DEF SeenTrue, SpecAsSeen, KeyAsSeen, Row, SeeingInv, EditorsTypeOK, TypeOK
    <3> QED
      BY <2>1, <3>1, <3>3, <3>4, <3>5, OnlyEditor DEF SeeingInv, EditorsTypeOK
  <2> QED
    BY <2>4, <2>5
<1>3. ASSUME NEW x \in Editors, LookOn(x) PROVE EInv'
  <2> DEFINE i == editing[x]
             now == sensors[i]
  <2>1. /\ UNCHANGED <<sensors, issued, memory, editing, draft, base>>
        /\ stage[x] = "looking" /\ i \in Ids
    BY <1>3 DEF LookOn, vars, SeeingInv
  <2>2. /\ now.version \in 0..issued /\ now.version \in 0..MaxVersion
        /\ now.spec \in SUBSET Items /\ seen[x] \in Seen
    BY <2>1, MaxVersionAssumption
    DEF VersionsDrawn, SeeingInv, EditorsTypeOK, TypeOK, Sensor, Absent, Versions
  <2> HIDE DEF now, i
  <2>3. CASE UNCHANGED stage /\ seen' = [seen EXCEPT ![x].version = now.version]
    <3>1. EditorsTypeOK'
      BY <2>1, <2>2, <2>3 DEF SeeingInv, EditorsTypeOK, TypeOK, Seen
    <3>2. stage'[x] = "looking" /\ editing'[x] \in Ids /\ seen'[x].version \in 0..issued'
      BY <2>1, <2>2, <2>3 DEF SeeingInv, EditorsTypeOK, Seen, i
    <3>3. SeenTrue(x)'
      BY <3>2 DEF SeenTrue
    <3> QED
      BY <2>1, <2>3, <3>1, <3>2, <3>3, OnlyEditor DEF SeeingInv, EditorsTypeOK
  <2>4. CASE /\ seen[x].version # 0
             /\ seen' = [seen EXCEPT ![x].spec = now.spec]
             /\ stage' = [stage EXCEPT ![x] = "editing"]
    <3>1. EditorsTypeOK'
      BY <2>1, <2>2, <2>4 DEF SeeingInv, EditorsTypeOK, TypeOK, Seen, Stages
    <3>2. /\ stage'[x] = "editing" /\ editing'[x] \in Ids
          /\ seen'[x].version = seen[x].version /\ seen'[x].spec = now.spec
      BY <2>1, <2>2, <2>4 DEF SeeingInv, EditorsTypeOK, Seen, i
    <3>3. ASSUME x \in Commands PROVE SeenTrue(x)'
      <4>1. seen[x].version \in 0..issued
        BY <2>1, <3>3 DEF SeeingInv, SeenTrue
      <4>2. memory
        BY <2>1, <3>3 DEF SeeingInv
      <4> QED
        BY <2>1, <2>4, <3>2, <4>1, <4>2 DEF SeenTrue, SpecAsSeen, KeyAsSeen, now, i
    <3> QED
      BY <2>1, <2>4, <3>1, <3>2, <3>3, OnlyEditor DEF SeeingInv, EditorsTypeOK
  <2> QED
    BY <1>3, <2>3, <2>4 DEF LookOn, now, i
<1>4. ASSUME NEW x \in Browsers, PostForm(x), ~Close(x) PROVE EInv'
  <2>1. PICK k \in Keys, s \in SUBSET Items :
          /\ UNCHANGED <<sensors, issued, memory, editing, seen>> /\ Present(editing[x])
          /\ stage[x] = "editing" /\ stage' = [stage EXCEPT ![x] = "posting"]
          /\ draft' = [draft EXCEPT ![x] = WholeForm(k, s)]
          /\ base' = [base EXCEPT ![x] = sensors[editing[x]].version]
    BY <1>4 DEF PostForm, vars
  <2>2. x \in Editors \ Commands
    BY EditorsAssumption DEF Editors
  <2>3. sensors[editing[x]].version \in 0..MaxVersion /\ WholeForm(k, s) \in Edit
    BY <2>1, <2>2, PresentSensor DEF SeeingInv, EditorsTypeOK, Sensor, Versions, WholeForm, Edit
  <2>4. EditorsTypeOK'
    BY <2>1, <2>2, <2>3 DEF SeeingInv, EditorsTypeOK, TypeOK, Stages
  <2> QED
    BY <2>1, <2>2, <2>4, OnlyEditor DEF SeeingInv, EditorsTypeOK
<1>5. ASSUME NEW x \in Commands, SendEdit(x) PROVE EInv'
  <2>1. PICK e \in Edits :
          /\ UNCHANGED <<sensors, issued, memory, editing, seen>>
          /\ stage[x] = "editing" /\ stage' = [stage EXCEPT ![x] = "posting"]
          /\ draft' = [draft EXCEPT ![x] = e]
          /\ base' = [base EXCEPT ![x] = seen[x].version]
    BY <1>5 DEF SendEdit, vars
  <2>2. x \in Editors
    BY DEF Editors
  <2>3. e \in Edit
    BY RequestsAssumption
  <2>4. seen[x].version \in 0..MaxVersion
    BY <2>2 DEF SeeingInv, EditorsTypeOK, Seen
  <2>5. EditorsTypeOK'
    BY <2>1, <2>2, <2>3, <2>4 DEF SeeingInv, EditorsTypeOK, TypeOK, Stages
  <2>6. stage'[x] = "posting" /\ base'[x] = seen'[x].version
    BY <2>1, <2>2 DEF SeeingInv, EditorsTypeOK
  <2>7. SeenTrue(x) /\ editing'[x] \in Ids
    BY <2>1, <2>2 DEF SeeingInv
  <2>8. SeenTrue(x)'
    BY <2>1, <2>6, <2>7 DEF SeenTrue, SpecAsSeen, KeyAsSeen
  <2> QED
    BY <2>1, <2>2, <2>5, <2>6, <2>7, <2>8, OnlyEditor DEF SeeingInv, EditorsTypeOK
<1>6. ASSUME NEW i \in Ids, DeletedElsewhere(i) PROVE EInv'
  <2>1. /\ Delete(i) /\ Change /\ UNCHANGED <<memory, editing, draft, base>>
        /\ sensors[i] \in Sensor
    BY <1>6, PresentSensor DEF DeletedElsewhere, Change, Delete, SeeingInv, EditorsTypeOK
  <2>2. TypeOK' /\ VersionsDrawn' /\ issued' = issued /\ sensors'[i].version = 0
    BY <2>1, ChangeTyped, ChangeDrawn DEF SeeingInv, EditorsTypeOK, Delete, TypeOK, Absent
  <2> DEFINE row(x) == Completed(seen[x], sensors[i])
  <2>3. \A x \in Editors :
          /\ seen'[x] = IF Looking(x, i) THEN row(x) ELSE seen[x]
          /\ stage'[x] = IF Looking(x, i) THEN "editing" ELSE stage[x]
    BY <1>6 DEF DeletedElsewhere
  <2>4. sensors[i].version \in 1..issued
    BY <2>1, MaxVersionAssumption DEF VersionsDrawn, Sensor, Versions, SeeingInv, EditorsTypeOK, TypeOK
  <2>5. \A x \in Editors :
          /\ row(x) \in Seen /\ row(x).version # 0
          /\ row(x).version \in {seen[x].version, sensors[i].version}
    <3> TAKE x \in Editors
    <3>1. seen[x].key \in Keys \cup {NoKey} /\ seen[x].version \in 0..MaxVersion
      BY DEF SeeingInv, EditorsTypeOK, Seen
    <3>2. sensors[i].spec \in SUBSET Items /\ sensors[i].version \in 1..MaxVersion
      BY <2>1 DEF Sensor, Versions
    <3> QED
      BY <3>1, <3>2, MaxVersionAssumption DEF Seen, Completed
  <2> HIDE DEF row
  <2>6. EditorsTypeOK'
    <3>1. stage' \in [Editors -> Stages]
      BY <1>6 DEF DeletedElsewhere, SeeingInv, EditorsTypeOK, Stages
    <3>2. \A x \in Editors : seen'[x] \in Seen
      BY <2>3, <2>5 DEF SeeingInv, EditorsTypeOK
    <3>3. seen' = [x \in Editors |-> seen'[x]]
      BY <1>6 DEF DeletedElsewhere
    <3> QED
      BY <2>1, <2>2, <3>1, <3>2, <3>3 DEF SeeingInv, EditorsTypeOK
  <2>7. \A x \in Editors : /\ stage'[x] # "idle" => stage[x] # "idle"
                           /\ stage'[x] = "looking" => stage[x] = "looking"
                           /\ stage'[x] = "posting" => stage[x] = "posting" /\ seen'[x] = seen[x]
    BY <2>1, <2>3 DEF Looking, SeeingInv
  <2>8. ASSUME NEW x \in Commands, stage'[x] # "idle" PROVE SeenTrue(x)'
    <3>1. x \in Editors /\ SeenTrue(x)
      BY <2>7, <2>8 DEF SeeingInv, Editors
    <3>2. CASE Looking(x, i)
      <4>1. seen'[x].version # 0 /\ seen'[x].version \in 0..issued'
        BY <2>2, <2>3, <2>4, <2>5, <3>1, <3>2 DEF SeenTrue
      <4>2. editing'[x] = i /\ sensors'[i].version = 0
        BY <2>1, <2>2, <3>2 DEF Looking
      <4> QED
        BY <3>1, <4>1, <4>2 DEF SeenTrue
    <3>3. CASE ~Looking(x, i)
      BY <2>1, <2>2, <2>3, <3>1, <3>3, SeenStays DEF SeeingInv, EditorsTypeOK, TypeOK
    <3> QED
      BY <3>2, <3>3
  <2> QED
    BY <2>1, <2>2, <2>6, <2>7, <2>8 DEF SeeingInv, Editors
<1>7. ASSUME NEW x \in Editors, Accepted(x) PROVE EInv'
  <2>1. Change
    <3>1. editing[x] \in Ids /\ draft[x] \in Edit
      BY <1>7 DEF Accepted, SeeingInv, EditorsTypeOK
    <3>2. base[x] \in Versions
      BY <1>7, <3>1, PresentSensor DEF Accepted, Patch, SeeingInv, EditorsTypeOK, Sensor
    <3> QED
      BY <1>7, <3>1, <3>2 DEF Accepted, Change
  <2> QED
    BY <1>7, <2>1, CloseInv DEF Accepted
<1>8. ASSUME NEW x \in Editors, Close(x), UNCHANGED <<vars, memory>> PROVE EInv'
  BY <1>8, CloseInv
<1>9. CASE Elsewhere
  <2>1. Change
    BY <1>9, RequestsAssumption DEF Elsewhere, Change
  <2> QED
    BY <1>1, <1>9, <2>1 DEF Elsewhere
<1>10. CASE UNCHANGED allvars
  BY <1>1, <1>10 DEF allvars
<1>11. \A x \in Editors : PostForm(x) => UNCHANGED <<vars, memory>> /\ x \in Browsers
  BY DEF PostForm
<1> QED
  BY <1>2, <1>3, <1>4, <1>5, <1>6, <1>7, <1>8, <1>9, <1>10, <1>11 DEF EditorsNext, Refused, SendEdit

LEMMA EditorsStart == EditorsInit => EInv
<1> SUFFICES ASSUME EditorsInit PROVE EInv
  OBVIOUS
<1>1. EditorsTypeOK
  <2>1. NoDraft \in Edit
    BY DEF NoDraft, Edit
  <2> QED
    BY <2>1, MaxVersionAssumption DEF EditorsInit, Init, EditorsTypeOK, TypeOK, Stages, Seen, Nothing
<1>2. VersionsDrawn
  <2>1. ASSUME NEW i \in Ids PROVE sensors[i].version = 0 /\ issued = 0
    BY DEF EditorsInit, Init, Absent
  <2>2. ASSUME NEW i \in Ids PROVE sensors[i].version <= issued
    BY <2>1
  <2> QED
    BY <2>2 DEF VersionsDrawn
<1> QED
  BY <1>1, <1>2 DEF EInv, SeeingInv, EditorsInit, Editors

(* The types of the registry and its editors.                               *)
THEOREM EditorsTypeCorrect == EditorsSpec => []EditorsTypeOK
<1>1. EInv => EditorsTypeOK
  BY DEF EInv, SeeingInv
<1> QED
  BY <1>1, EditorsStart, EditorsStep, PTL DEF EditorsSpec

(* The command line never overwrites what somebody else changed since the   *)
(* command read the sensor (runUpdate, update.go:192), however many forms   *)
(* and commands edit it, and whoever deletes and registers it in between:   *)
(* not its specification over either store, and not its key over Postgres.  *)
THEOREM NothingUnseenOverwritten == EditorsSpec => CommandsOverwriteNothing
<1>1. EInv /\ [EditorsNext]_allvars
        => [\A x \in Commands : Saves(x) => SpecAsSeen(x) /\ (memory \/ KeyAsSeen(x))]_allvars
  <2> SUFFICES ASSUME EInv, EditorsNext, NEW x \in Commands, Saves(x)
               PROVE  SpecAsSeen(x) /\ (memory \/ KeyAsSeen(x))
    OBVIOUS
  <2> USE DEF EInv
  <2>1. x \in Editors /\ stage[x] = "posting" /\ stage'[x] # stage[x] /\ issued' # issued
    BY DEF Saves, Editors
  <2>2. PICK y \in Editors : Accepted(y)
    BY <2>1 DEF EditorsNext, Look, LookOn, PostForm, SendEdit, Refused, Elsewhere,
                DeletedElsewhere, Delete, vars, editor
  <2>3. y = x
    BY <2>1, <2>2 DEF Accepted, Close, SeeingInv, EditorsTypeOK
  <2>4. sensors[editing[x]].version = seen[x].version
    BY <2>1, <2>2, <2>3 DEF Accepted, Patch, SeeingInv
  <2> QED
    BY <2>1, <2>4 DEF SeeingInv, SeenTrue
<1> QED
  BY <1>1, EditorsStart, EditorsStep, PTL DEF EditorsSpec, CommandsOverwriteNothing
=============================================================================

--------------------------- MODULE SensorRegistry ---------------------------
(***************************************************************************)
(* What a sensor store promises its callers: the contract of the           *)
(* SensorStorage interface (internal/storage/storage.go), stated as if     *)
(* every call of the service took effect in one indivisible step.          *)
(*                                                                         *)
(* A sensor is its natural key (the pair namespace, name), its             *)
(* specification (labels and condition rules, taken as one set of items,   *)
(* with description and periods), the data last reported for it and its    *)
(* resource version.  Versions are the numbers 1, 2, 3... in the order     *)
(* the store draws them: a random UUID is never drawn twice, and the only  *)
(* thing the code does with two versions is to compare them for equality.  *)
(***************************************************************************)
EXTENDS Integers

CONSTANTS
  Ids,          \* sensor identifiers
  Keys,         \* natural keys: pairs of a namespace and a name
  Items,        \* labels and condition rules a specification may hold
  Specs,        \* the specifications that are registered
  Edits,        \* the edits that are asked for
  Reporters,    \* the callers whose reports are told apart
  NoKey,        \* the patch leaves the natural key alone
  MaxVersion,   \* bound on the versions ever drawn
  PatchChecksKey  \* does Patch refuse a natural key that is in use?

ASSUME NoKeyAssumption == NoKey \notin Keys
ASSUME MaxVersionAssumption == MaxVersion \in Nat
ASSUME PatchChecksKeyAssumption == PatchChecksKey \in BOOLEAN

VARIABLES
  sensors,      \* sensors[i]: the sensor of identifier i, or Absent
  issued        \* versions drawn so far: 1..issued

vars == <<sensors, issued>>

Versions == 1..MaxVersion

\* An edit is what a JSON patch asks of a sensor: another natural key, items
\* to add and items to remove.
Edit == [key: Keys \cup {NoKey}, add: SUBSET Items, del: SUBSET Items]

ASSUME RequestsAssumption == Specs \subseteq SUBSET Items /\ Edits \subseteq Edit

\* Data is the set of callers whose report has been merged so far.
Sensor == [key: Keys, spec: SUBSET Items, data: SUBSET Reporters, version: Versions]

\* A sensor that is not there has version 0 and nothing else of interest.
Absent == [key |-> NoKey, spec |-> {}, data |-> {}, version |-> 0]

Present(i) == sensors[i].version # 0

KeyInUse(k, others) == \E j \in others : Present(j) /\ sensors[j].key = k

EditedKey(e, key) == IF e.key = NoKey THEN key ELSE e.key

EditedSpec(e, spec) == (spec \ e.del) \cup e.add

TypeOK ==
  /\ sensors \in [Ids -> Sensor \cup {Absent}]
  /\ issued \in 0..MaxVersion

Init ==
  /\ sensors = [i \in Ids |-> Absent]
  /\ issued = 0

\* Register adds a sensor under an identifier and a natural key nobody has.
Register(i, k, s) ==
  /\ issued < MaxVersion
  /\ ~Present(i)
  /\ ~KeyInUse(k, Ids)
  /\ issued' = issued + 1
  /\ sensors' = [sensors EXCEPT ![i] =
                   [key |-> k, spec |-> s, data |-> {}, version |-> issued + 1]]

\* Faulty variant: the version survives a patch.
PatchKeepsVersion(i, v, e) ==
  /\ Present(i)
  /\ sensors[i].version = v
  /\ PatchChecksKey => ~KeyInUse(EditedKey(e, sensors[i].key), Ids \ {i})
  /\ sensors' = [sensors EXCEPT
                   ![i].key = EditedKey(e, sensors[i].key),
                   ![i].spec = EditedSpec(e, sensors[i].spec)]
  /\ UNCHANGED issued

\* Patch edits the sensor as it is at that moment, provided the caller knows
\* its version, and draws a new version.
Patch(i, v, e) ==
  /\ issued < MaxVersion
  /\ Present(i)
  /\ sensors[i].version = v
  /\ PatchChecksKey => ~KeyInUse(EditedKey(e, sensors[i].key), Ids \ {i})
  /\ issued' = issued + 1
  /\ sensors' = [sensors EXCEPT
                   ![i].key = EditedKey(e, sensors[i].key),
                   ![i].spec = EditedSpec(e, sensors[i].spec),
                   ![i].version = issued + 1]

\* SendData merges reported data and touches nothing else.
SendData(i, r) ==
  /\ Present(i)
  /\ sensors' = [sensors EXCEPT ![i].data = @ \cup {r}]
  /\ UNCHANGED issued

Delete(i) ==
  /\ Present(i)
  /\ sensors' = [sensors EXCEPT ![i] = Absent]
  /\ UNCHANGED issued

Next ==
  \E i \in Ids :
    \/ \E k \in Keys, s \in Specs : Register(i, k, s)
    \/ \E v \in Versions, e \in Edits : Patch(i, v, e)
    \/ \E r \in Reporters : SendData(i, r)
    \/ Delete(i)

Spec == Init /\ [][Next]_vars

-----------------------------------------------------------------------------

(* No two sensors share a natural key: "The DB should enforce a unique      *)
(* constraint on (Namespace, Name)" (storage.go:65).                        *)
NaturalKeysUnique ==
  \A i, j \in Ids :
    Present(i) /\ Present(j) /\ sensors[i].key = sensors[j].key => i = j

(* A version names one content for ever: after any step a sensor has        *)
(* either a version that did not exist before, or the version, key and      *)
(* specification it already had.  This is what makes comparing versions a   *)
(* sufficient test for "nobody wrote since I read" in Patch.                *)
VersionNamesContent ==
  [][\A i \in Ids :
       \/ sensors'[i].version = 0
       \/ sensors'[i].version > issued
       \/ /\ sensors'[i].version = sensors[i].version
          /\ sensors'[i].key = sensors[i].key
          /\ sensors'[i].spec = sensors[i].spec]_vars
=============================================================================

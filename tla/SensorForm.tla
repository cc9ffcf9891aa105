----------------------------- MODULE SensorForm -----------------------------
(***************************************************************************)
(* Editing a sensor: in the form of the web UI (web/handlers/sensor.go)    *)
(* and from the command line (update.go), over the store's contract.  The  *)
(* command sends what is to change, with the version it read.  The form    *)
(* sends everything it shows, and its handler looks the version up when it *)
(* is posted.                                                              *)
(*                                                                         *)
(* Sensors are also registered, deleted and reported for, under the same   *)
(* identifiers.  What is refused, and how a handler works step by step, is *)
(* QiVitalsService's subject.  Of its steps only those are kept that an    *)
(* editor can notice: a reply of the in-memory store is read field by      *)
(* field from the live sensor, one of Postgres from a row.                 *)
(***************************************************************************)
EXTENDS SensorRegistry

CONSTANTS
  Browsers,    \* open pages of the web UI
  Commands,    \* runs of the update command
  NoId

ASSUME EditorsAssumption == Browsers \cap Commands = {} /\ NoId \notin Ids

\* Which store runs is a variable here, and with it what Patch checks (KeyTaken).
ASSUME StoreAssumption == PatchChecksKey = FALSE

Editors == Browsers \cup Commands

VARIABLES
  memory,      \* whether the in-memory store runs, or Postgres
  stage,       \* what each editor is doing
  editing,     \* the sensor it edits
  seen,        \* the sensor as the editor saw it
  draft,       \* the edit it is about to send
  base         \* the version it sends along

editor == <<memory, stage, editing, seen, draft, base>>
allvars == <<vars, editor>>

NoDraft == [key |-> NoKey, add |-> {}, del |-> {}]
Stages == {"idle", "looking", "editing", "posting"}

\* What has been read of a sensor; version 0: its key, or nothing.
Seen == [key: Keys \cup {NoKey}, spec: SUBSET Items, version: 0..MaxVersion]
Nothing == [key |-> NoKey, spec |-> {}, version |-> 0]
Row(s) == [key |-> s.key, spec |-> s.spec, version |-> s.version]

EditorsTypeOK ==
  /\ TypeOK
  /\ memory \in BOOLEAN
  /\ stage \in [Editors -> Stages]
  /\ editing \in [Editors -> Ids \cup {NoId}]
  /\ seen \in [Editors -> Seen]
  /\ draft \in [Editors -> Edit]
  /\ base \in [Editors -> 0..MaxVersion]

EditorsInit ==
  /\ Init
  /\ memory \in BOOLEAN
  /\ stage = [x \in Editors |-> "idle"] /\ editing = [x \in Editors |-> NoId]
  /\ seen = [x \in Editors |-> Nothing] /\ draft = [x \in Editors |-> NoDraft]
  /\ base = [x \in Editors |-> 0]

\* The editor is done, with or without an error.
Close(x) ==
  /\ stage' = [stage EXCEPT ![x] = "idle"]
  /\ editing' = [editing EXCEPT ![x] = NoId]
  /\ seen' = [seen EXCEPT ![x] = Nothing]
  /\ draft' = [draft EXCEPT ![x] = NoDraft]
  /\ base' = [base EXCEPT ![x] = 0]

-----------------------------------------------------------------------------
(* Seeing the sensor.                                                       *)

\* handleGet, and the query of runUpdate: a row of Postgres, or a pointer to the
\* sensor, of which the natural key is read first.
Look(x, i) ==
  /\ stage[x] = "idle" /\ Present(i)
  /\ editing' = [editing EXCEPT ![x] = i]
  /\ IF memory
       THEN /\ seen' = [seen EXCEPT ![x] = [Nothing EXCEPT !.key = sensors[i].key]]
            /\ stage' = [stage EXCEPT ![x] = "looking"]
       ELSE /\ seen' = [seen EXCEPT ![x] = Row(sensors[i])]
            /\ stage' = [stage EXCEPT ![x] = "editing"]
  /\ UNCHANGED <<vars, memory, draft, base>>

\* buildProtoSensor goes on to the version, and then to the specification.
LookOn(x) ==
  /\ stage[x] = "looking"
  /\ LET now == sensors[editing[x]] IN
       \/ /\ seen[x].version = 0
          /\ seen' = [seen EXCEPT ![x].version = now.version]
          /\ UNCHANGED stage
       \/ /\ seen[x].version # 0
          /\ seen' = [seen EXCEPT ![x].spec = now.spec]
          /\ stage' = [stage EXCEPT ![x] = "editing"]
  /\ UNCHANGED <<vars, memory, editing, draft, base>>

\* Everything the form shows, as its user leaves it.
WholeForm(key, spec) == [key |-> key, add |-> spec, del |-> Items \ spec]

\* handlePost: the operations from the form, and the version as it is now.
PostForm(x) ==
  /\ x \in Browsers /\ stage[x] = "editing"
  /\ IF Present(editing[x])
       THEN /\ \E k \in Keys, s \in SUBSET Items :
                 draft' = [draft EXCEPT ![x] = WholeForm(k, s)]
            /\ base' = [base EXCEPT ![x] = sensors[editing[x]].version]
            /\ stage' = [stage EXCEPT ![x] = "posting"]
            /\ UNCHANGED <<editing, seen>>
       ELSE Close(x)
  /\ UNCHANGED <<vars, memory>>

\* Faulty variant: the command does not send a version of its own, but the
\* newest one.
SendEditNewest(x) ==
  /\ x \in Commands /\ stage[x] = "editing"
  /\ draft' \in {[draft EXCEPT ![x] = e] : e \in Edits}
  /\ base' = [base EXCEPT ![x] = sensors[editing[x]].version]
  /\ stage' = [stage EXCEPT ![x] = "posting"]
  /\ UNCHANGED <<vars, memory, editing, seen>>

\* runUpdate: the operations from the flags, and the version that was read.
SendEdit(x) ==
  /\ x \in Commands /\ stage[x] = "editing"
  /\ draft' \in {[draft EXCEPT ![x] = e] : e \in Edits}
  /\ base' = [base EXCEPT ![x] = seen[x].version]
  /\ stage' = [stage EXCEPT ![x] = "posting"]
  /\ UNCHANGED <<vars, memory, editing, seen>>

-----------------------------------------------------------------------------
(* PatchSensor, for either.                                                 *)

\* The unique constraint of Postgres; the in-memory store does not look.
KeyTaken(x) ==
  LET i == editing[x] IN
    ~memory /\ KeyInUse(EditedKey(draft[x], sensors[i].key), Ids \ {i})

Accepted(x) ==
  /\ stage[x] = "posting"
  /\ ~KeyTaken(x)
  /\ Patch(editing[x], base[x], draft[x])
  /\ Close(x)
  /\ UNCHANGED memory

Refused(x) ==
  /\ stage[x] = "posting"
  /\ \/ ~Present(editing[x])
     \/ sensors[editing[x]].version # base[x]
     \/ KeyTaken(x)
  /\ Close(x)
  /\ UNCHANGED <<vars, memory>>

-----------------------------------------------------------------------------

Elsewhere ==
  /\ \E i \in Ids :
       \/ \E k \in Keys, s \in Specs : Register(i, k, s)
       \/ \E r \in Reporters : SendData(i, r)
  /\ UNCHANGED editor

Looking(x, i) == stage[x] = "looking" /\ editing[x] = i

Completed(read, s) ==
  [key |-> read.key, spec |-> s.spec,
   version |-> IF read.version # 0 THEN read.version ELSE s.version]

\* A deleted sensor no longer changes, so who still reads it through a pointer
\* finds the rest of it as it was deleted.
DeletedElsewhere(i) ==
  /\ Delete(i)
  /\ seen' = [x \in Editors |->
                IF Looking(x, i) THEN Completed(seen[x], sensors[i]) ELSE seen[x]]
  /\ stage' = [x \in Editors |-> IF Looking(x, i) THEN "editing" ELSE stage[x]]
  /\ UNCHANGED <<memory, editing, draft, base>>

EditorsNext ==
  \/ \E x \in Editors :
       \/ \E i \in Ids : Look(x, i)
       \/ LookOn(x)
       \/ PostForm(x) \/ SendEdit(x)
       \/ Accepted(x) \/ Refused(x)
  \/ Elsewhere
  \/ \E i \in Ids : DeletedElsewhere(i)

EditorsSpec == EditorsInit /\ [][EditorsNext]_allvars

-----------------------------------------------------------------------------
(* Properties.                                                              *)

Saves(x) == stage[x] = "posting" /\ stage'[x] = "idle" /\ issued' # issued

KeyAsSeen(x) == sensors[editing[x]].key = seen[x].key
SpecAsSeen(x) == sensors[editing[x]].spec = seen[x].spec

(* The command line never overwrites what somebody else changed since the   *)
(* command read the sensor, also if the sensor was deleted and registered   *)
(* again under its identifier, and although fields are read one by one in   *)
(* memory (runUpdate, update.go:192).  Over that store this is true of the  *)
(* specification only (KeysOverwrittenAsSeen).                              *)
CommandsOverwriteNothing ==
  [][\A x \in Commands : Saves(x) => SpecAsSeen(x) /\ (memory \/ KeyAsSeen(x))]_allvars

-----------------------------------------------------------------------------
(* Statements of the documentation that this code does not meet (README).   *)

(* The same of the natural key over either store: a patch based on what is  *)
(* no longer there "should fail due to stale resource version"              *)
(* (storage_contract_test.go:492).  In memory the key is read before the    *)
(* version (qivitals_svc.go:205), so a key that was left may come with the  *)
(* newest version.                                                          *)
KeysOverwrittenAsSeen == [][\A x \in Commands : Saves(x) => KeyAsSeen(x)]_allvars

(* A patch from a version that is no longer the sensor's "should fail due   *)
(* to stale resource version" (storage_contract_test.go:492), the patches   *)
(* of the form included: what was shown is what is replaced.                *)
FormsOverwriteNothing ==
  [][\A x \in Browsers : Saves(x) => SpecAsSeen(x) /\ KeyAsSeen(x)]_allvars
=============================================================================

-------------------------- MODULE QiVitalsService --------------------------
(***************************************************************************)
(* The sensor service as it runs: every call is a goroutine that passes    *)
(* through the authorisation middleware (qivitals_authz.go) and the        *)
(* handler (qivitals_svc.go, qivitals_patching.go), and a handler makes    *)
(* several separate calls of the store, so calls interleave between them.  *)
(*                                                                         *)
(* The store is one of two.  The in-memory store (memory_storage.go) takes *)
(* a mutex for each operation, but GetStatus and Query return pointers     *)
(* into its map, whose fields the handler reads one by one after the mutex *)
(* is released, while Patch writes them one by one under it.  The Postgres *)
(* store (postgresql_storage.go) runs one statement per operation, except  *)
(* that a Patch that matched no row asks a second time why.                *)
(***************************************************************************)
EXTENDS Integers, FiniteSets

CONSTANTS
  Clients,      \* callers of the service, one call of each at a time
  Ids,          \* sensor identifiers
  Keys,         \* natural keys: pairs of a namespace and a name
  Items,        \* labels and condition rules a specification may hold
  NoId, NoKey, NoClient,
  Edits,        \* the patches clients may send
  Specs,        \* the specifications clients may register
  Access,       \* Access[c]: keys in a namespace c has access to
  Listed,       \* Listed[c]: keys in a namespace c's entity names itself
  Calls,        \* Calls[c]: the operations c calls
  Backend,      \* which store runs: "memory" or "postgres"
  MaxVersion    \* bound on the versions ever drawn

Memory == Backend = "memory"

Versions == 1..MaxVersion

Edit == [key: Keys \cup {NoKey}, add: SUBSET Items, del: SUBSET Items,
         needs: SUBSET Items, valid: BOOLEAN]

ASSUME DistinctAssumption == NoId \notin Ids /\ NoKey \notin Keys /\ NoClient \notin Clients
ASSUME MaxVersionAssumption == MaxVersion \in Nat
ASSUME RequestAssumption == Edits \subseteq Edit /\ Specs \subseteq SUBSET Items
ASSUME AccessAssumption ==
  /\ Access \in [Clients -> SUBSET Keys]
  /\ Listed \in [Clients -> SUBSET Keys]
  /\ Calls \in [Clients -> SUBSET {"register", "report", "delete", "patch", "query"}]
ASSUME BackendAssumption == Backend \in {"memory", "postgres"}

VARIABLES
  table,        \* the store's map from identifiers to objects; 0: no entry
  heap,         \* the sensor objects ever made, by the version drawn at birth
  issued,       \* versions drawn so far: 1..issued
  lock,         \* the client whose Patch holds the in-memory store's mutex
  pc,           \* where a client's call stands
  req,          \* the request it carries
  target,       \* the identifier it was resolved to
  ref,          \* the object GetStatus returned; 0: none
  copy,         \* the fields read from it so far...
  got,          \* ... and their names
  todo,         \* columns a Patch in the in-memory store has yet to write
  wrote,        \* the version of the sensor as the call's effect left it; 0: no effect
  result,       \* how the client's last call ended
  view          \* the sensor the client was last sent

store == <<table, heap, issued, lock>>
vars == <<store, pc, req, target, ref, copy, got, todo, wrote, result, view>>

Object == [key: Keys, spec: SUBSET Items, data: SUBSET Clients, version: Versions]
NoObject == [key |-> NoKey, spec |-> {}, data |-> {}, version |-> 0]

\* A view is an object as a response shows it, with the identifier asked for.
View == [id: Ids, key: Keys, spec: SUBSET Items, version: Versions]
NoView == [id |-> NoId, key |-> NoKey, spec |-> {}, version |-> 0]

Copy == [key: Keys \cup {NoKey}, spec: SUBSET Items, version: 0..MaxVersion]
NoCopy == [key |-> NoKey, spec |-> {}, version |-> 0]

NoEdit == [key |-> NoKey, add |-> {}, del |-> {}, needs |-> {}, valid |-> TRUE]

Request(op, id, key, spec, version, edit) ==
  [op |-> op, id |-> id, key |-> key, spec |-> spec, version |-> version, edit |-> edit]

NoRequest == Request("none", NoId, NoKey, {}, 0, NoEdit)

Requests ==
  [op: {"none", "register", "report", "delete", "patch", "query"},
   id: Ids \cup {NoId}, key: Keys \cup {NoKey}, spec: SUBSET Items,
   version: 0..MaxVersion, edit: Edit]

PCs == {"idle", "admit", "resolve", "act", "load", "read", "write",
        "probe", "fetch", "render", "respond"}

Results == {"none", "ok", "denied", "invalid", "notfound", "exists",
            "mismatch", "keyclash", "error"}

\* The columns a patch may touch, and what a response is built from: all that
\* names a sensor in one field, all that specifies it in another.
Columns == {"key", "spec"}
Fields == {"key", "spec", "version"}

TypeOK ==
  /\ table \in [Ids -> 0..MaxVersion]
  /\ heap \in [Versions -> Object \cup {NoObject}]
  /\ issued \in 0..MaxVersion
  /\ lock \in Clients \cup {NoClient}
  /\ pc \in [Clients -> PCs]
  /\ req \in [Clients -> Requests]
  /\ target \in [Clients -> Ids \cup {NoId}]
  /\ ref \in [Clients -> 0..MaxVersion]
  /\ copy \in [Clients -> Copy]
  /\ got \in [Clients -> SUBSET Fields]
  /\ todo \in [Clients -> SUBSET Columns]
  /\ wrote \in [Clients -> 0..MaxVersion]
  /\ result \in [Clients -> Results]
  /\ view \in [Clients -> View \cup {NoView}]

Init ==
  /\ table = [i \in Ids |-> 0]
  /\ heap = [n \in Versions |-> NoObject]
  /\ issued = 0
  /\ lock = NoClient
  /\ pc = [c \in Clients |-> "idle"]
  /\ req = [c \in Clients |-> NoRequest]
  /\ target = [c \in Clients |-> NoId]
  /\ ref = [c \in Clients |-> 0]
  /\ copy = [c \in Clients |-> NoCopy]
  /\ got = [c \in Clients |-> {}]
  /\ todo = [c \in Clients |-> {}]
  /\ wrote = [c \in Clients |-> 0]
  /\ result = [c \in Clients |-> "none"]
  /\ view = [c \in Clients |-> NoView]

-----------------------------------------------------------------------------
(* What the store holds.                                                    *)

Present(i) == table[i] # 0

\* Faulty variant: no unique constraint at all.
KeyInUseUnchecked(k, others) == FALSE

KeyInUse(k, others) == \E j \in others : Present(j) /\ heap[table[j]].key = k

\* An operation of the in-memory store waits for its mutex.
StoreFree == lock = NoClient

\* The identities a request may resolve to: the sensor of its identifier, or
\* whichever sensor of its natural key the store comes across first.
Identities(r) ==
  IF r.id # NoId
    THEN {i \in {r.id} : Present(i)}
    ELSE {i \in Ids : Present(i) /\ heap[table[i]].key = r.key}

EditedKey(e, key) == IF e.key = NoKey THEN key ELSE e.key
EditedSpec(e, spec) == (spec \ e.del) \cup e.add

\* The columns the paths of an edit map to.
Touched(e) ==
  (IF e.key = NoKey THEN {} ELSE {"key"})
    \cup (IF e.add = {} /\ e.del = {} THEN {} ELSE {"spec"})

-----------------------------------------------------------------------------
(* Steps that begin, move and end a call.                                   *)

Goto(c, label) == pc' = [pc EXCEPT ![c] = label]

\* The handler returns: its local variables are gone, the caller has the code.
Answer(c, code) ==
  /\ Goto(c, "idle")
  /\ req' = [req EXCEPT ![c] = NoRequest]
  /\ target' = [target EXCEPT ![c] = NoId]
  /\ ref' = [ref EXCEPT ![c] = 0]
  /\ copy' = [copy EXCEPT ![c] = NoCopy]
  /\ got' = [got EXCEPT ![c] = {}]
  /\ todo' = [todo EXCEPT ![c] = {}]
  /\ wrote' = [wrote EXCEPT ![c] = 0]
  /\ result' = [result EXCEPT ![c] = code]

Refuse(c, code) == Answer(c, code) /\ UNCHANGED <<store, view>>

\* Bound: a call that draws a version starts only while one is left for it.
VersionLeft ==
  issued + Cardinality({d \in Clients : req[d].op \in {"register", "patch"}}) < MaxVersion

\* Bound: a fresh identifier is asked for only while one is left for it, and
\* no other registration takes it away.
Registering == {d \in Clients : req[d].op = "register"}

NewIds ==
  IF Cardinality(Registering) < Cardinality({i \in Ids : ~Present(i)})
    THEN Ids \cup {NoId}
    ELSE IF NoId \in {req[d].id : d \in Registering} THEN {} ELSE Ids

ClientRequests ==
  [op: {"report"}, id: Ids, key: {NoKey}, spec: {{}}, version: {0}, edit: {NoEdit}]
    \cup [op: {"report"}, id: {NoId}, key: Keys, spec: {{}}, version: {0}, edit: {NoEdit}]
    \cup [op: {"delete", "query"}, id: Ids, key: {NoKey}, spec: {{}}, version: {0}, edit: {NoEdit}]

DrawingRequests ==
  [op: {"register"}, id: NewIds, key: Keys, spec: Specs, version: {0}, edit: {NoEdit}]
    \cup [op: {"patch"}, id: Ids, key: {NoKey}, spec: {{}}, version: 1..issued, edit: Edits]

\* A client calls, with any version some response may have carried.
Call(c) ==
  /\ pc[c] = "idle"
  /\ \E r \in ClientRequests \cup (IF VersionLeft THEN DrawingRequests ELSE {}) :
       r.op \in Calls[c] /\ req' = [req EXCEPT ![c] = r]
  /\ Goto(c, "admit")
  /\ result' = [result EXCEPT ![c] = "none"]
  /\ UNCHANGED <<store, target, ref, copy, got, todo, wrote, view>>

-----------------------------------------------------------------------------
(* The middleware.                                                          *)

\* Left out: a key without a namespace is let in like one of the default namespace.
AdmitRegister(c) ==
  /\ pc[c] = "admit" /\ req[c].op = "register"
  /\ IF req[c].key \in Access[c]
       THEN /\ Goto(c, "act")
            /\ UNCHANGED <<store, req, target, ref, copy, got, todo, wrote, result, view>>
       ELSE Refuse(c, "denied")

AdmitQuery(c) ==
  /\ pc[c] = "admit" /\ req[c].op = "query"
  /\ Goto(c, "fetch")
  /\ target' = [target EXCEPT ![c] = req[c].id]
  /\ UNCHANGED <<store, req, ref, copy, got, todo, wrote, result, view>>

\* The other calls resolve the sensor and look at its namespace; what was
\* resolved is then forgotten, the handler starts from the request again.
Admitted(c) == IF req[c].op = "report" THEN Listed[c] ELSE Access[c]

AdmitResolved(c) ==
  /\ pc[c] = "admit" /\ req[c].op \in {"report", "delete", "patch"}
  /\ StoreFree
  /\ \/ Identities(req[c]) = {} /\ Refuse(c, "notfound")
     \/ \E i \in Identities(req[c]) :
          IF heap[table[i]].key \in Admitted(c)
            THEN /\ Goto(c, IF req[c].op = "patch" THEN "load" ELSE "resolve")
                 /\ UNCHANGED <<store, req, target, ref, copy, got, todo, wrote, result, view>>
            ELSE Refuse(c, "denied")

\* ReportSensor and DeleteSensor resolve the sensor once more.
ResolveIdentity(c) ==
  /\ pc[c] = "resolve"
  /\ StoreFree
  /\ \/ Identities(req[c]) = {} /\ Refuse(c, "notfound")
     \/ \E i \in Identities(req[c]) :
          /\ target' = [target EXCEPT ![c] = i]
          /\ Goto(c, "act")
          /\ UNCHANGED <<store, req, ref, copy, got, todo, wrote, result, view>>

-----------------------------------------------------------------------------
(* RegisterSensor, ReportSensor and DeleteSensor act on the store.          *)

\* The identifier of the request, or a fresh one when it names none.
RegisterSensor(c) ==
  /\ pc[c] = "act" /\ req[c].op = "register"
  /\ StoreFree
  /\ \E i \in IF req[c].id = NoId THEN {j \in Ids : ~Present(j)} ELSE {req[c].id} :
       IF Present(i) \/ KeyInUse(req[c].key, Ids)
         THEN Refuse(c, "exists")
         ELSE /\ issued < MaxVersion
              /\ issued' = issued + 1
              /\ table' = [table EXCEPT ![i] = issued + 1]
              /\ heap' = [heap EXCEPT ![issued + 1] =
                            [key |-> req[c].key, spec |-> req[c].spec,
                             data |-> {}, version |-> issued + 1]]
              /\ wrote' = [wrote EXCEPT ![c] = issued + 1]
              /\ target' = [target EXCEPT ![c] = i]
              /\ Goto(c, "fetch")
              /\ UNCHANGED <<lock, req, ref, copy, got, todo, result, view>>

\* Faulty variant: a report for a sensor that is gone is dropped silently.
ReportSensorDropped(c) ==
  /\ pc[c] = "act" /\ req[c].op = "report"
  /\ StoreFree
  /\ IF Present(target[c])
       THEN LET o == table[target[c]] IN
            /\ heap' = [heap EXCEPT ![o].data = @ \cup {c}]
            /\ wrote' = [wrote EXCEPT ![c] = heap[o].version]
            /\ Goto(c, "fetch")
            /\ UNCHANGED <<table, issued, lock, req, target, ref, copy, got, todo, result, view>>
       ELSE Refuse(c, "ok")

ReportSensor(c) ==
  /\ pc[c] = "act" /\ req[c].op = "report"
  /\ StoreFree
  /\ IF Present(target[c])
       THEN LET o == table[target[c]] IN
            /\ heap' = [heap EXCEPT ![o].data = @ \cup {c}]
            /\ wrote' = [wrote EXCEPT ![c] = heap[o].version]
            /\ Goto(c, "fetch")
            /\ UNCHANGED <<table, issued, lock, req, target, ref, copy, got, todo, result, view>>
       ELSE Refuse(c, "notfound")

DeleteSensor(c) ==
  /\ pc[c] = "act" /\ req[c].op = "delete"
  /\ StoreFree
  /\ IF Present(target[c])
       THEN /\ table' = [table EXCEPT ![target[c]] = 0]
            /\ wrote' = [wrote EXCEPT ![c] = heap[table[target[c]]].version]
            /\ Goto(c, "respond")
            /\ UNCHANGED <<heap, issued, lock, req, target, ref, copy, got, todo, result, view>>
       ELSE Refuse(c, "notfound")

-----------------------------------------------------------------------------
(* GetStatus, and what its caller reads through the result: a pointer to    *)
(* the live object in the in-memory store, a row of its own in Postgres.    *)

\* Faulty variant: the fields come from separate reads in either store.
GetStatusPiecemeal(c, i, names, next) ==
  /\ StoreFree
  /\ Goto(c, next)
  /\ target' = [target EXCEPT ![c] = i]
  /\ ref' = [ref EXCEPT ![c] = table[i]]
  /\ got' = [got EXCEPT ![c] = {}]
  /\ copy' = [copy EXCEPT ![c] = NoCopy]
  /\ UNCHANGED <<store, req, todo, wrote, result, view>>

\* Faulty variant: the handler keeps what it fetched first.
GetStatusCached(c, i, names, next) ==
  /\ StoreFree
  /\ Goto(c, next)
  /\ target' = [target EXCEPT ![c] = i]
  /\ ref' = [ref EXCEPT ![c] = table[i]]
  /\ got' = [got EXCEPT ![c] = Fields]
  /\ IF got[c] = {}
       THEN copy' = [copy EXCEPT ![c] = [key |-> heap[table[i]].key, spec |-> heap[table[i]].spec,
                                         version |-> heap[table[i]].version]]
       ELSE UNCHANGED copy
  /\ UNCHANGED <<store, req, todo, wrote, result, view>>

GetStatus(c, i, names, next) ==
  /\ StoreFree
  /\ Goto(c, next)
  /\ target' = [target EXCEPT ![c] = i]
  /\ ref' = [ref EXCEPT ![c] = table[i]]
  /\ IF Memory
       THEN /\ got' = [got EXCEPT ![c] = {}]
            /\ copy' = [copy EXCEPT ![c] = NoCopy]
       ELSE LET o == heap[table[i]] IN
            /\ got' = [got EXCEPT ![c] = names]
            /\ copy' = [copy EXCEPT ![c] =
                          [key |-> o.key, spec |-> o.spec, version |-> o.version]]
  /\ UNCHANGED <<store, req, todo, wrote, result, view>>

\* Reading one field of the live object takes no lock.
ReadField(c, f) ==
  /\ f \notin got[c]
  /\ got' = [got EXCEPT ![c] = @ \cup {f}]
  /\ copy' = [copy EXCEPT ![c] = [@ EXCEPT ![f] = heap[ref[c]][f]]]
  /\ UNCHANGED <<store, pc, req, target, ref, todo, wrote, result, view>>

-----------------------------------------------------------------------------
(* PatchSensor: load the sensor, check the paths, read it into a document,  *)
(* apply the operations to the document, store the columns they touched.    *)

PatchLoad(c) ==
  /\ pc[c] = "load"
  /\ \/ StoreFree /\ ~Present(req[c].id) /\ Refuse(c, "notfound")
     \/ Present(req[c].id) /\ ~req[c].edit.valid /\ StoreFree /\ Refuse(c, "invalid")
     \/ /\ Present(req[c].id) /\ req[c].edit.valid
        /\ GetStatus(c, req[c].id, Columns, "read")

PatchRead(c) == pc[c] = "read" /\ \E f \in Columns : ReadField(c, f)

DocumentRead(c) == pc[c] = "read" /\ Columns \subseteq got[c]

\* An operation on an item that is not in the document fails.
PatchInapplicable(c) ==
  /\ DocumentRead(c)
  /\ ~(req[c].edit.needs \subseteq copy[c].spec)
  /\ Refuse(c, "invalid")

Applicable(c) == DocumentRead(c) /\ req[c].edit.needs \subseteq copy[c].spec

\* Faulty variant: the client's version is not compared.
VersionMatchesAny(c) == Present(target[c])

VersionMatches(c) ==
  /\ Present(target[c])
  /\ heap[table[target[c]]].version = req[c].version

\* Faulty variant: the refusals forget to release the mutex.
PatchLockLeaky(c) ==
  /\ Memory /\ Applicable(c) /\ StoreFree
  /\ lock' = c
  /\ IF VersionMatches(c)
       THEN /\ ref' = [ref EXCEPT ![c] = table[target[c]]]
            /\ todo' = [todo EXCEPT ![c] = Touched(req[c].edit)]
            /\ Goto(c, "write")
            /\ UNCHANGED <<table, heap, issued, req, target, copy, got, wrote, result, view>>
       ELSE /\ Answer(c, IF Present(target[c]) THEN "mismatch" ELSE "notfound")
            /\ UNCHANGED <<table, heap, issued, view>>

\* Faulty variant: a patch that comes too late starts again.
PatchLockRetries(c) ==
  /\ Memory /\ Applicable(c) /\ StoreFree
  /\ IF VersionMatches(c)
       THEN /\ lock' = c
            /\ ref' = [ref EXCEPT ![c] = table[target[c]]]
            /\ todo' = [todo EXCEPT ![c] = Touched(req[c].edit)]
            /\ Goto(c, "write")
            /\ UNCHANGED <<table, heap, issued, req, target, copy, got, wrote, result, view>>
       ELSE /\ Goto(c, "load")
            /\ UNCHANGED <<table, heap, issued, lock, req, target, ref, copy, got, todo, wrote, result, view>>

\* In memory: the version is compared under the mutex, ...
PatchLock(c) ==
  /\ Memory /\ Applicable(c) /\ StoreFree
  /\ IF VersionMatches(c)
       THEN /\ lock' = c
            /\ ref' = [ref EXCEPT ![c] = table[target[c]]]
            /\ todo' = [todo EXCEPT ![c] = Touched(req[c].edit)]
            /\ Goto(c, "write")
            /\ UNCHANGED <<table, heap, issued, req, target, copy, got, wrote, result, view>>
       ELSE Refuse(c, IF Present(target[c]) THEN "mismatch" ELSE "notfound")

\* ... the columns are written in the order a Go map yields them, ...
PatchWrite(c) ==
  /\ pc[c] = "write"
  /\ \E f \in todo[c] :
       /\ heap' = [heap EXCEPT ![ref[c]] =
                     IF f = "key"
                       THEN [@ EXCEPT !.key = EditedKey(req[c].edit, copy[c].key)]
                       ELSE [@ EXCEPT !.spec = EditedSpec(req[c].edit, copy[c].spec)]]
       /\ todo' = [todo EXCEPT ![c] = @ \ {f}]
  /\ UNCHANGED <<table, issued, lock, pc, req, target, ref, copy, got, wrote, result, view>>

\* Faulty variant: the mutex is released, the version stays.
PatchStampNoVersion(c) ==
  /\ pc[c] = "write" /\ todo[c] = {}
  /\ lock' = NoClient
  /\ wrote' = [wrote EXCEPT ![c] = heap[ref[c]].version]
  /\ Goto(c, "fetch")
  /\ UNCHANGED <<table, heap, issued, req, target, ref, copy, got, todo, result, view>>

\* ... and the new version last, before the mutex is released.
PatchStamp(c) ==
  /\ pc[c] = "write" /\ todo[c] = {}
  /\ issued < MaxVersion
  /\ issued' = issued + 1
  /\ heap' = [heap EXCEPT ![ref[c]].version = issued + 1]
  /\ lock' = NoClient
  /\ wrote' = [wrote EXCEPT ![c] = issued + 1]
  /\ Goto(c, "fetch")
  /\ UNCHANGED <<table, req, target, ref, copy, got, todo, result, view>>

\* The touched columns take the document's values, the others stay.
Updated(o, e, doc, v) ==
  [key |-> IF "key" \in Touched(e) THEN EditedKey(e, doc.key) ELSE o.key,
   spec |-> IF "spec" \in Touched(e) THEN EditedSpec(e, doc.spec) ELSE o.spec,
   data |-> o.data, version |-> v]

\* In Postgres: one UPDATE of the row with that identifier and version, under
\* the unique constraint on the natural key.
PatchUpdate(c) ==
  /\ ~Memory /\ Applicable(c)
  /\ LET o == table[target[c]]
         e == req[c].edit
     IN CASE ~VersionMatches(c) ->
               /\ Goto(c, "probe")
               /\ UNCHANGED <<store, req, target, ref, copy, got, todo, wrote, result, view>>
          [] VersionMatches(c) /\ KeyInUse(EditedKey(e, heap[o].key), Ids \ {target[c]}) ->
               Refuse(c, "keyclash")
          [] OTHER ->
               /\ issued < MaxVersion
               /\ issued' = issued + 1
               /\ heap' = [heap EXCEPT ![o] = Updated(heap[o], e, copy[c], issued + 1)]
               /\ wrote' = [wrote EXCEPT ![c] = issued + 1]
               /\ Goto(c, "fetch")
               /\ UNCHANGED <<table, lock, req, target, ref, copy, got, todo, result, view>>

\* A miss is explained by a second statement.
PatchProbe(c) ==
  /\ pc[c] = "probe"
  /\ Refuse(c, IF Present(target[c]) THEN "mismatch" ELSE "notfound")

-----------------------------------------------------------------------------
(* The response: the handler fetches the sensor again, whatever has         *)
(* happened to it since, and builds the reply from what it reads there.     *)
(* A query that finds nothing is answered with an empty list.               *)

Missing(c) == IF req[c].op = "query" THEN "ok" ELSE "notfound"

Fetch(c) ==
  /\ pc[c] = "fetch"
  /\ \/ StoreFree /\ ~Present(target[c]) /\ Refuse(c, Missing(c))
     \/ Present(target[c]) /\ GetStatus(c, target[c], Fields, "render")

Render(c) == pc[c] = "render" /\ \E f \in Fields : ReadField(c, f)

RespondSensor(c) ==
  /\ pc[c] = "render" /\ got[c] = Fields
  /\ view' = [view EXCEPT ![c] = [id |-> target[c], key |-> copy[c].key,
                                  spec |-> copy[c].spec, version |-> copy[c].version]]
  /\ Answer(c, "ok")
  /\ UNCHANGED store

RespondDeleted(c) ==
  /\ pc[c] = "respond"
  /\ Answer(c, "ok")
  /\ UNCHANGED <<store, view>>

-----------------------------------------------------------------------------
(* Postgres may be out of reach: a statement fails, or it is done and its   *)
(* acknowledgement is lost, or the caller has gone and taken the context of *)
(* the call along.  After an effect the first and the second look the same  *)
(* to the caller, except that a deletion makes no statement after its own.  *)

CallsStore(c) ==
  \/ pc[c] = "admit" /\ req[c].op \in {"report", "delete", "patch"}
  \/ pc[c] \in {"resolve", "act", "load", "probe", "fetch", "respond"}
  \/ Applicable(c)

\* The middleware takes every error for a sensor that does not exist.
StatementFails(c) ==
  /\ ~Memory /\ CallsStore(c)
  /\ Refuse(c, IF pc[c] = "admit" THEN "notfound" ELSE "error")

Step(c) ==
  \/ AdmitRegister(c) \/ AdmitQuery(c) \/ AdmitResolved(c) \/ ResolveIdentity(c)
  \/ RegisterSensor(c) \/ ReportSensor(c) \/ DeleteSensor(c)
  \/ PatchLoad(c) \/ PatchRead(c) \/ PatchInapplicable(c)
  \/ PatchLock(c) \/ PatchWrite(c) \/ PatchStamp(c)
  \/ PatchUpdate(c) \/ PatchProbe(c)
  \/ Fetch(c) \/ Render(c) \/ RespondSensor(c) \/ RespondDeleted(c)
  \/ StatementFails(c)

Next == \E c \in Clients : Call(c) \/ Step(c)

Spec == Init /\ [][Next]_vars

\* The Go scheduler runs every goroutine, and sync.RWMutex starves nobody who
\* waits for it: a call that could proceed again and again does so.  Clients
\* owe nothing.
FairSpec == Spec /\ \A c \in Clients : SF_vars(Step(c))

-----------------------------------------------------------------------------
(* Properties.                                                              *)

(* No two sensors share a natural key: "The DB should enforce a unique      *)
(* constraint on (Namespace, Name)" (storage.go:65).  Register checks it in *)
(* both stores; Patch, which can rename a sensor, only in Postgres.         *)
NaturalKeysUnique ==
  \A i, j \in Ids :
    /\ Present(i) /\ Present(j) /\ StoreFree
    /\ heap[table[i]].key = heap[table[j]].key
    => i = j

(* PatchSensor computes its document from an earlier read than the one the  *)
(* store compares versions with.  Whenever that comparison would succeed,   *)
(* the document is still the sensor's content, field by field, even when    *)
(* the fields were read one by one from the live object while other calls   *)
(* patched, deleted or registered it anew: no update is lost.               *)
DocumentCurrent ==
  \A c \in Clients :
    pc[c] = "read" /\ StoreFree /\ VersionMatches(c)
      => \A f \in got[c] : copy[c][f] = heap[table[target[c]]][f]

(* The sensor a client was sent is the sensor's content for as long as its  *)
(* version is current: a client that patches the version it was shown       *)
(* patches what it was shown (the "cached" version of                       *)
(* storage_contract_test.go:470).  This holds over Postgres; in memory a    *)
(* reply is read while others write (README).                               *)
ViewCurrent ==
  \A c \in Clients :
    LET v == view[c] IN
    v.id # NoId =>
      (Present(v.id) /\ StoreFree /\ heap[table[v.id]].version = v.version
         => v.key = heap[table[v.id]].key /\ v.spec = heap[table[v.id]].spec)

(* A reply that follows an effect of the call was read after it: the        *)
(* version in the reply is that of the effect or a later one, although the  *)
(* handler fetches the sensor anew and others may have changed it since.    *)
ReadYourWrites ==
  \A c \in Clients :
    pc[c] = "render" /\ "version" \in got[c] => copy[c].version >= wrote[c]

(* What the code in the answer says of the store: a refusal means that the  *)
(* call changed nothing, success that it did.  NotFound says neither: the   *)
(* sensor may have been deleted between the effect and the second fetch;    *)
(* nor does an error of the store, which may come before or after.          *)
AnswersTellEffect ==
  [][\A c \in Clients :
       pc[c] # "idle" /\ pc'[c] = "idle" =>
         /\ result'[c] \in {"denied", "invalid", "exists", "mismatch", "keyclash"}
              => wrote[c] = 0
         /\ result'[c] = "ok" /\ req[c].op # "query" => wrote[c] # 0]_vars

(* Every call is answered: no path of a handler leaves the in-memory        *)
(* store's mutex locked or waits for something nobody will do.              *)
CallsAnswered ==
  \A c \in Clients : pc[c] # "idle" ~> pc[c] = "idle"

(* The service implements the contract of the store although its calls      *)
(* interleave: while a Patch in memory holds the mutex, the sensor is still *)
(* what that patch read; everything happens when its version changes, and   *)
(* what happens is one edit that some client may ask for, applied to the    *)
(* sensor as it is at that moment.                                          *)
RegistrySensor(i) ==
  IF ~Present(i)
    THEN [key |-> NoKey, spec |-> {}, data |-> {}, version |-> 0]
    ELSE LET o == heap[table[i]]
             writing == lock # NoClient /\ ref[lock] = table[i]
         IN [key |-> IF writing THEN copy[lock].key ELSE o.key,
             spec |-> IF writing THEN copy[lock].spec ELSE o.spec,
             data |-> o.data, version |-> o.version]

Registry == INSTANCE SensorRegistry WITH
  Reporters <- Clients,
  PatchChecksKey <- ~Memory,
  Edits <- {[key |-> e.key, add |-> e.add, del |-> e.del] : e \in {f \in Edits : f.valid}},
  sensors <- [i \in Ids |-> RegistrySensor(i)]

ImplementsRegistry == Registry!Spec

(* A statement that the code does not meet (README).  "sensor %s not found" *)
(* (qivitals_authz.go:65): there is no sensor that the request names.       *)
MissingMeansMissing ==
  [][\A c \in Clients :
       pc[c] = "admit" /\ result'[c] = "notfound" => Identities(req[c]) = {}]_vars

-----------------------------------------------------------------------------
(* The inductive invariant behind DocumentCurrent, in named parts.          *)

Writing(o) == lock # NoClient /\ ref[lock] = o

Born(o) == heap[o] \in Object

\* Everything the store refers to has been drawn already.
Drawn ==
  /\ \A i \in Ids : table[i] <= issued /\ (Present(i) => Born(table[i]))
  /\ \A n \in Versions : heap[n].version <= issued
  /\ \A c \in Clients : req[c].version <= issued

\* A call knows by its place in the handler what it is about.
CallsWellFormed ==
  \A c \in Clients :
    /\ req[c].op \in {"delete", "patch", "query"} => req[c].id \in Ids
    /\ req[c].op = "register" => req[c].key \in Keys
    /\ pc[c] = "act" => req[c].op \in {"register", "report", "delete"}
    /\ pc[c] = "resolve" => req[c].op \in {"report", "delete"}
    /\ pc[c] = "act" /\ req[c].op # "register" => target[c] \in Ids
    /\ pc[c] \in {"load", "read", "write", "probe"} => req[c].op = "patch"
    /\ pc[c] \in {"read", "write", "probe", "fetch", "render"} => target[c] \in Ids
    /\ pc[c] \in {"read", "write", "render"} => ref[c] \in 1..issued /\ Born(ref[c])

\* What has been read was in a live object.
CopiesRead ==
  \A c \in Clients :
    /\ "key" \in got[c] => copy[c].key \in Keys
    /\ "version" \in got[c] => copy[c].version \in Versions
    /\ pc[c] = "write" => Columns \subseteq got[c]

\* The mutex is held exactly by the patch that is writing, and the object it
\* writes keeps the version that was compared until the patch stamps it.
LockHeld ==
  \A c \in Clients :
    /\ pc[c] = "write" <=> lock = c
    /\ lock = c => /\ Memory
                   /\ ref[c] = table[target[c]]
                   /\ heap[ref[c]].version = req[c].version

\* A document whose version is still the current one was read from the object
\* that is still in the table, and is still what that object holds.
DocumentsFresh ==
  \A c \in Clients :
    pc[c] = "read" /\ VersionMatches(c) /\ ~Writing(table[target[c]])
      => /\ ref[c] = table[target[c]]
         /\ \A f \in got[c] \cap Columns : copy[c][f] = heap[table[target[c]]][f]

DocumentsPartial == \A c \in Clients : pc[c] = "read" => got[c] \subseteq Columns

IInv ==
  /\ TypeOK
  /\ Drawn
  /\ CallsWellFormed
  /\ CopiesRead
  /\ LockHeld
  /\ DocumentsPartial
  /\ DocumentsFresh

-----------------------------------------------------------------------------
(* What the refinement needs besides.                                       *)

\* An object is the sensor of one identifier.
SensorsApart == \A i, j \in Ids : Present(i) /\ table[i] = table[j] => i = j

\* A call asks for what clients may ask for, and a patch whose paths were
\* refused gets no further.
RequestsAllowed ==
  \A c \in Clients :
    /\ req[c].op = "register" => req[c].spec \in Specs
    /\ req[c].op = "patch" => req[c].edit \in Edits
    /\ pc[c] \in {"read", "write"} => req[c].edit.valid

\* A column that is not to be written any more is what the patch wants it to
\* be, whether it was written or never touched.
ColumnsWritten ==
  \A c \in Clients :
    pc[c] = "write" =>
      /\ "key" \notin todo[c] => heap[ref[c]].key = EditedKey(req[c].edit, copy[c].key)
      /\ "spec" \notin todo[c] => heap[ref[c]].spec = EditedSpec(req[c].edit, copy[c].spec)

RInv == IInv /\ SensorsApart /\ RequestsAllowed /\ ColumnsWritten
=============================================================================

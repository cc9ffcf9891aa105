----------------------- MODULE QiVitalsServiceProofs -----------------------
(***************************************************************************)
(* Proofs about QiVitalsService, for every number of clients, sensors and  *)
(* versions, and for both stores: first its inductive invariant, then that *)
(* it implements SensorRegistry, and what follows from that.               *)
(***************************************************************************)
EXTENDS QiVitalsService, TLAPS

(* A report replaces the data of an object and nothing else of it.          *)
LEMMA DataAdded ==
  ASSUME NEW h \in Object, NEW d
  PROVE  [h EXCEPT !.data = h.data \cup {d}] =
           [key |-> h.key, spec |-> h.spec, data |-> h.data \cup {d}, version |-> h.version]
BY DEF Object

USE DistinctAssumption, MaxVersionAssumption, RequestAssumption

(* What a call starts from and is reset to is well typed.                    *)
LEMMA Blank == NoRequest \in Requests /\ NoCopy \in Copy /\ "idle" \in PCs
BY DEF PCs, Requests, NoRequest, Request, NoEdit, Edit, Copy, NoCopy

LEMMA InitInv == Init => IInv
<1> SUFFICES ASSUME Init PROVE IInv
  OBVIOUS
<1> USE DEF Init
<1>1. TypeOK
  BY DEF TypeOK, Versions, Object, NoObject, PCs, Requests, NoRequest, Request, NoEdit, Edit,
         Copy, NoCopy, Fields, Columns, Results, View, NoView
<1>2. Drawn
  BY DEF Drawn, Present, NoObject, NoRequest, Request
<1>3. CallsWellFormed
  BY DEF CallsWellFormed, NoRequest, Request
<1>4. CopiesRead /\ LockHeld /\ DocumentsPartial /\ DocumentsFresh
  BY DEF CopiesRead, LockHeld, DocumentsPartial, DocumentsFresh
<1> QED
  BY <1>1, <1>2, <1>3, <1>4 DEF IInv

(* A call that ends, by refusal or by answer, while it does not hold the     *)
(* mutex preserves the invariant.                                            *)
LEMMA AnswerInv ==
  ASSUME IInv, NEW c \in Clients, NEW code \in Results, pc[c] # "write",
         Answer(c, code), UNCHANGED store, view' \in [Clients -> View \cup {NoView}]
  PROVE  IInv'
<1> USE DEF Answer, Goto, store, IInv
<1>1. TypeOK'
  <2>1. UNCHANGED <<table, heap, issued, lock>>
    OBVIOUS
  <2>2. pc' \in [Clients -> PCs] /\ req' \in [Clients -> Requests]
    BY Blank DEF TypeOK
  <2>3. target' \in [Clients -> Ids \cup {NoId}] /\ ref' \in [Clients -> 0..MaxVersion]
    BY DEF TypeOK
  <2>4. copy' \in [Clients -> Copy] /\ got' \in [Clients -> SUBSET Fields]
    BY Blank DEF TypeOK
  <2>5. todo' \in [Clients -> SUBSET Columns] /\ wrote' \in [Clients -> 0..MaxVersion]
    BY DEF TypeOK
  <2>6. result' \in [Clients -> Results]
    BY DEF TypeOK
  <2> QED
    BY <2>1, <2>2, <2>3, <2>4, <2>5, <2>6 DEF TypeOK
<1>2. Drawn'
  BY DEF Drawn, TypeOK, Present, Born, NoRequest, Request
<1>3. CallsWellFormed'
  BY DEF CallsWellFormed, TypeOK, Born, NoRequest, Request
<1>4. CopiesRead' /\ DocumentsPartial'
  BY DEF CopiesRead, DocumentsPartial, TypeOK
<1>5. LockHeld'
  BY DEF LockHeld, TypeOK
<1>6. DocumentsFresh'
  BY DEF DocumentsFresh, VersionMatches, Present, Writing, LockHeld, TypeOK
<1> QED
  BY <1>1, <1>2, <1>3, <1>4, <1>5, <1>6

(* A call that only moves on, possibly with a resolved target.               *)
LEMMA MoveInv ==
  ASSUME IInv, NEW c \in Clients, NEW t \in Ids \cup {NoId},
         NEW label \in {"act", "load", "resolve", "fetch", "probe"},
         pc[c] # "write",
         label = "act" => req[c].op \in {"register", "report", "delete"},
         label = "act" /\ req[c].op # "register" => t \in Ids,
         label = "resolve" => req[c].op \in {"report", "delete"},
         label \in {"load", "probe"} => req[c].op = "patch",
         label \in {"fetch", "probe"} => t \in Ids,
         Goto(c, label), target' = [target EXCEPT ![c] = t],
         UNCHANGED <<store, req, ref, copy, got, todo, wrote, result, view>>
  PROVE  IInv'
<1> USE DEF Goto, store, IInv
<1>1. TypeOK'
  <2>1. pc' \in [Clients -> PCs]
    BY DEF TypeOK, PCs
  <2>2. target' \in [Clients -> Ids \cup {NoId}]
    BY DEF TypeOK
  <2> QED
    BY <2>1, <2>2 DEF TypeOK
<1>2. Drawn'
  BY DEF Drawn, TypeOK, Present, Born
<1>3. CallsWellFormed'
  BY DEF CallsWellFormed, TypeOK, Born
<1>4. CopiesRead' /\ DocumentsPartial'
  BY DEF CopiesRead, DocumentsPartial, TypeOK
<1>5. LockHeld'
  BY DEF LockHeld, TypeOK
<1>6. DocumentsFresh'
  BY DEF DocumentsFresh, VersionMatches, Present, Writing, LockHeld, TypeOK
<1> QED
  BY <1>1, <1>2, <1>3, <1>4, <1>5, <1>6

(* GetStatus of a present sensor, for the document or for the response.      *)
LEMMA GetStatusInv ==
  ASSUME IInv, NEW c \in Clients, NEW i \in Ids, Present(i),
         NEW names \in {Columns, Fields}, NEW next \in {"read", "render"},
         pc[c] # "write",
         next = "read" => names = Columns /\ req[c].op = "patch",
         GetStatus(c, i, names, next)
  PROVE  IInv'
<1> USE DEF GetStatus, Goto, store, IInv
<1>0. Born(table[i]) /\ table[i] \in 1..issued /\ issued \in 0..MaxVersion
  BY DEF Drawn, Present, TypeOK
<1>1. TypeOK'
  <2>1. pc' \in [Clients -> PCs] /\ target' \in [Clients -> Ids \cup {NoId}]
    BY DEF TypeOK, PCs
  <2>2. ref' \in [Clients -> 0..MaxVersion]
    BY DEF TypeOK
  <2>3. got' \in [Clients -> SUBSET Fields]
    BY DEF TypeOK, Columns, Fields
  <2>4. copy' \in [Clients -> Copy]
    <3>1. [key |-> heap[table[i]].key, spec |-> heap[table[i]].spec,
           version |-> heap[table[i]].version] \in Copy
      BY <1>0 DEF Copy, Born, Object, Versions
    <3> QED
      BY <3>1, Blank DEF TypeOK
  <2> QED
    BY <2>1, <2>2, <2>3, <2>4 DEF TypeOK
<1>2. Drawn'
  BY DEF Drawn, TypeOK, Present, Born
<1>3. CallsWellFormed'
  BY <1>0 DEF CallsWellFormed, TypeOK, Born
<1>4. CopiesRead'
  BY <1>0 DEF CopiesRead, TypeOK, Born, Object, Columns, Fields
<1>5. LockHeld'
  BY DEF LockHeld, TypeOK
<1>6. DocumentsPartial'
  BY DEF DocumentsPartial, TypeOK
<1>7. DocumentsFresh'
  <2>1. copy'[c] = [key |-> heap[table[i]].key, spec |-> heap[table[i]].spec,
                    version |-> heap[table[i]].version]
        \/ got'[c] = {}
    BY DEF TypeOK
  <2> QED
    BY <2>1 DEF DocumentsFresh, VersionMatches, Present, Writing, LockHeld, TypeOK, Columns
<1> QED
  BY <1>1, <1>2, <1>3, <1>4, <1>5, <1>6, <1>7

(* Reading one field of the live object.                                     *)
LEMMA ReadFieldInv ==
  ASSUME IInv, NEW c \in Clients, NEW f \in Fields, pc[c] \in {"read", "render"},
         pc[c] = "read" => f \in Columns, ReadField(c, f)
  PROVE  IInv'
<1> USE DEF ReadField, store, IInv
<1>0. Born(ref[c]) /\ ref[c] \in Versions
  BY DEF CallsWellFormed, TypeOK, Versions
<1>1. copy' \in [Clients -> Copy]
  <2>1. copy[c] \in Copy
    BY DEF TypeOK
  <2>2. [copy[c] EXCEPT ![f] = heap[ref[c]][f]] \in Copy
    BY <2>1, <1>0 DEF Fields, Born, Object, Copy, Versions
  <2> QED
    BY <2>2 DEF TypeOK
<1>2. TypeOK'
  <2>1. got' \in [Clients -> SUBSET Fields]
    BY DEF TypeOK
  <2> QED
    BY <1>1, <2>1 DEF TypeOK
<1>3. Drawn'
  BY DEF Drawn, TypeOK, Present, Born
<1>4. CallsWellFormed'
  BY DEF CallsWellFormed, TypeOK, Born
<1>5. CopiesRead'
  <2>1. copy'[c] = [copy[c] EXCEPT ![f] = heap[ref[c]][f]] /\ got'[c] = got[c] \cup {f}
    BY DEF TypeOK
  <2>2. "key" \in got'[c] => copy'[c].key \in Keys
    BY <1>0, <2>1 DEF CopiesRead, TypeOK, Born, Object, Copy, Fields
  <2>3. "version" \in got'[c] => copy'[c].version \in Versions
    BY <1>0, <2>1 DEF CopiesRead, TypeOK, Born, Object, Copy, Fields
  <2> QED
    BY <2>2, <2>3 DEF CopiesRead, TypeOK
<1>6. LockHeld' /\ DocumentsPartial'
  BY DEF LockHeld, DocumentsPartial, TypeOK
<1>7. DocumentsFresh'
  <2> SUFFICES ASSUME NEW d \in Clients,
                      pc'[d] = "read", VersionMatches(d)', ~Writing(table[target[d]])'
               PROVE  /\ ref'[d] = table'[target'[d]]
                      /\ \A g \in got'[d] \cap Columns :
                           copy'[d][g] = heap'[table'[target'[d]]][g]
    BY DEF DocumentsFresh
  <2>1. /\ ref[d] = table[target[d]]
        /\ \A g \in got[d] \cap Columns : copy[d][g] = heap[table[target[d]]][g]
    BY DEF DocumentsFresh, VersionMatches, Present, Writing
  <2>2. CASE d = c
    <3>1. copy'[c] = [copy[c] EXCEPT ![f] = heap[ref[c]][f]] /\ got'[c] = got[c] \cup {f}
      BY DEF TypeOK
    <3> QED
      BY <2>1, <2>2, <3>1 DEF TypeOK, Copy, Fields, Columns
  <2>3. CASE d # c
    BY <2>1, <2>3 DEF TypeOK
  <2> QED
    BY <2>2, <2>3
<1> QED
  BY <1>2, <1>3, <1>4, <1>5, <1>6, <1>7

-----------------------------------------------------------------------------
(* Every action preserves the invariant.                                     *)

LEMMA CallInv ==
  ASSUME IInv, NEW c \in Clients, Call(c)
  PROVE  IInv'
<1> USE DEF Goto, store, IInv
<1>1. PICK r \in ClientRequests \cup DrawingRequests : req' = [req EXCEPT ![c] = r]
  BY DEF Call
<1>2. /\ pc[c] = "idle" /\ pc' = [pc EXCEPT ![c] = "admit"]
      /\ result' = [result EXCEPT ![c] = "none"]
      /\ UNCHANGED <<table, heap, issued, lock, target, ref, copy, got, todo, wrote, view>>
  BY DEF Call
<1>3. r \in Requests /\ r.version <= issued
  <2>1. NoEdit \in Edit /\ 0 \in 0..MaxVersion /\ issued \in 0..MaxVersion
    BY DEF NoEdit, Edit, TypeOK
  <2>2. CASE r \in ClientRequests
    BY <2>1, <2>2 DEF ClientRequests, Requests
  <2>3. CASE r \in DrawingRequests
    <3>1. NewIds \subseteq Ids \cup {NoId}
      BY DEF NewIds
    <3> QED
      BY <2>1, <2>3, <3>1, RequestAssumption DEF DrawingRequests, Requests
  <2> QED
    BY <1>1, <2>2, <2>3
<1>4. /\ r.op \in {"delete", "patch", "query"} => r.id \in Ids
      /\ r.op = "register" => r.key \in Keys
  BY DEF ClientRequests, DrawingRequests
<1>5. TypeOK'
  <2>1. pc' \in [Clients -> PCs] /\ req' \in [Clients -> Requests]
    BY <1>1, <1>2, <1>3 DEF TypeOK, PCs
  <2>2. result' \in [Clients -> Results]
    BY <1>2 DEF TypeOK, Results
  <2> QED
    BY <1>2, <2>1, <2>2 DEF TypeOK
<1>6. Drawn'
  BY <1>1, <1>2, <1>3 DEF Drawn, TypeOK, Present, Born
<1>7. CallsWellFormed'
  BY <1>1, <1>2, <1>4 DEF CallsWellFormed, TypeOK, Born
<1>8. CopiesRead' /\ DocumentsPartial' /\ LockHeld'
  BY <1>1, <1>2 DEF CopiesRead, DocumentsPartial, LockHeld, TypeOK
<1>9. DocumentsFresh'
  BY <1>1, <1>2 DEF DocumentsFresh, VersionMatches, Present, Writing, LockHeld, TypeOK
<1> QED
  BY <1>5, <1>6, <1>7, <1>8, <1>9

(* A refusal is an answer.                                                   *)
LEMMA RefuseInv ==
  ASSUME IInv, NEW c \in Clients, NEW code \in Results, pc[c] # "write", Refuse(c, code)
  PROVE  IInv'
BY AnswerInv DEF Refuse, IInv, TypeOK

LEMMA AdmitInv ==
  ASSUME IInv, NEW c \in Clients, AdmitRegister(c) \/ AdmitQuery(c) \/ AdmitResolved(c)
  PROVE  IInv'
<1> USE DEF IInv
<1>1. CASE AdmitRegister(c)
  <2>1. CASE Refuse(c, "denied")
    BY <1>1, <2>1, RefuseInv DEF AdmitRegister, Results
  <2>2. CASE Goto(c, "act") /\ UNCHANGED <<store, req, target, ref, copy, got, todo, wrote, result, view>>
    <3>1. target' = [target EXCEPT ![c] = target[c]] /\ target[c] \in Ids \cup {NoId}
      BY <2>2 DEF TypeOK
    <3> QED
      BY <1>1, <2>2, <3>1, MoveInv DEF AdmitRegister
  <2> QED
    BY <1>1, <2>1, <2>2 DEF AdmitRegister
<1>2. CASE AdmitQuery(c)
  BY <1>2, MoveInv DEF AdmitQuery, CallsWellFormed
<1>3. CASE AdmitResolved(c)
  <2>1. CASE \E code \in {"notfound", "denied"} : Refuse(c, code)
    BY <1>3, <2>1, RefuseInv DEF AdmitResolved, Results
  <2>2. CASE /\ Goto(c, IF req[c].op = "patch" THEN "load" ELSE "resolve")
             /\ UNCHANGED <<store, req, target, ref, copy, got, todo, wrote, result, view>>
    <3>1. target' = [target EXCEPT ![c] = target[c]] /\ target[c] \in Ids \cup {NoId}
      BY <2>2 DEF TypeOK
    <3> QED
      BY <1>3, <2>2, <3>1, MoveInv DEF AdmitResolved
  <2> QED
    BY <1>3, <2>1, <2>2 DEF AdmitResolved
<1> QED
  BY <1>1, <1>2, <1>3

LEMMA ResolveInv ==
  ASSUME IInv, NEW c \in Clients, ResolveIdentity(c)
  PROVE  IInv'
<1> USE DEF IInv
<1>1. CASE Refuse(c, "notfound")
  BY <1>1, RefuseInv DEF ResolveIdentity, Results
<1>2. CASE \E i \in Identities(req[c]) :
             /\ target' = [target EXCEPT ![c] = i]
             /\ Goto(c, "act")
             /\ UNCHANGED <<store, req, ref, copy, got, todo, wrote, result, view>>
  <2>1. PICK i \in Identities(req[c]) :
             /\ target' = [target EXCEPT ![c] = i]
             /\ Goto(c, "act")
             /\ UNCHANGED <<store, req, ref, copy, got, todo, wrote, result, view>>
    BY <1>2
  <2>2. i \in Ids
    BY DEF Identities, TypeOK, Requests
  <2> QED
    BY <2>1, <2>2, MoveInv DEF ResolveIdentity, CallsWellFormed
<1> QED
  BY <1>1, <1>2 DEF ResolveIdentity

LEMMA RegisterInv ==
  ASSUME IInv, NEW c \in Clients, RegisterSensor(c)
  PROVE  IInv'
<1> USE DEF IInv
<1>1. CASE Refuse(c, "exists")
  BY <1>1, RefuseInv DEF RegisterSensor, Results
<1>2. CASE ~Refuse(c, "exists")
  <2>1. PICK i \in Ids : /\ ~Present(i)
                         /\ table' = [table EXCEPT ![i] = issued + 1]
                         /\ target' = [target EXCEPT ![c] = i]
    BY <1>2 DEF RegisterSensor, TypeOK, Requests
  <2> DEFINE o == [key |-> req[c].key, spec |-> req[c].spec, data |-> {}, version |-> issued + 1]
  <2>2. /\ pc[c] = "act" /\ req[c].op = "register" /\ lock = NoClient
        /\ issued < MaxVersion /\ issued' = issued + 1
        /\ heap' = [heap EXCEPT ![issued + 1] = o]
        /\ wrote' = [wrote EXCEPT ![c] = issued + 1]
        /\ pc' = [pc EXCEPT ![c] = "fetch"]
        /\ UNCHANGED <<lock, req, ref, copy, got, todo, result, view>>
    BY <1>2 DEF RegisterSensor, StoreFree, Goto
  <2>3. issued + 1 \in Versions /\ o \in Object /\ issued \in Nat
    <3>1. issued + 1 \in Versions /\ issued \in Nat
      BY <2>2 DEF TypeOK, Versions
    <3>2. req[c].key \in Keys /\ req[c].spec \in SUBSET Items
      BY <2>2 DEF CallsWellFormed, TypeOK, Requests
    <3> QED
      BY <3>1, <3>2 DEF Object
  <2> HIDE DEF o
  <2>4. o.version = issued + 1
    BY DEF o
  <2>5. TypeOK'
    <3>1. heap' \in [Versions -> Object \cup {NoObject}]
      BY <2>2, <2>3 DEF TypeOK
    <3>2. table' \in [Ids -> 0..MaxVersion] /\ issued' \in 0..MaxVersion
      BY <2>1, <2>2, <2>3 DEF TypeOK, Versions
    <3>3. pc' \in [Clients -> PCs] /\ target' \in [Clients -> Ids \cup {NoId}]
      BY <2>1, <2>2 DEF TypeOK, PCs
    <3>4. wrote' \in [Clients -> 0..MaxVersion]
      BY <2>2, <2>3 DEF TypeOK, Versions
    <3> QED
      BY <2>2, <3>1, <3>2, <3>3, <3>4 DEF TypeOK
  <2>6. Drawn'
    <3>1. \A j \in Ids : table'[j] <= issued' /\ (Present(j)' => Born(table[j])')
      BY <2>1, <2>2, <2>3 DEF Drawn, TypeOK, Present, Born, Versions
    <3>2. \A n \in Versions : heap'[n].version <= issued'
      BY <2>2, <2>3, <2>4 DEF Drawn, TypeOK, Versions, NoObject, Object
    <3>3. \A d \in Clients : req'[d].version <= issued'
      BY <2>2, <2>3 DEF Drawn, TypeOK, Requests
    <3> QED
      BY <3>1, <3>2, <3>3 DEF Drawn
  <2>7. CallsWellFormed'
    BY <2>1, <2>2, <2>3 DEF CallsWellFormed, TypeOK, Born, Versions
  <2>8. CopiesRead' /\ DocumentsPartial'
    BY <2>2 DEF CopiesRead, DocumentsPartial, TypeOK
  <2>9. LockHeld'
    BY <2>2, DistinctAssumption DEF LockHeld, TypeOK
  <2>10. DocumentsFresh'
    <3> SUFFICES ASSUME NEW d \in Clients,
                        pc'[d] = "read", VersionMatches(d)', ~Writing(table[target[d]])'
                 PROVE  /\ ref'[d] = table'[target'[d]]
                        /\ \A g \in got'[d] \cap Columns :
                             copy'[d][g] = heap'[table'[target'[d]]][g]
      BY DEF DocumentsFresh
    <3>1. d # c /\ pc[d] = "read" /\ target'[d] = target[d] /\ target[d] \in Ids
      BY <2>1, <2>2 DEF TypeOK, CallsWellFormed
    <3>2. req[d].version <= issued /\ req[d].version \in Nat
      BY DEF Drawn, TypeOK, Requests
    <3>3. target[d] # i
      BY <2>1, <2>2, <2>3, <2>4, <3>1, <3>2 DEF VersionMatches, TypeOK
    <3>4. table'[target[d]] = table[target[d]] /\ heap'[table[target[d]]] = heap[table[target[d]]]
      BY <2>1, <2>2, <2>3, <3>1, <3>3 DEF TypeOK, Drawn, Versions
    <3> QED
      BY <2>2, <3>1, <3>4 DEF DocumentsFresh, VersionMatches, Present, Writing
  <2> QED
    BY <2>5, <2>6, <2>7, <2>8, <2>9, <2>10
<1> QED
  BY <1>1, <1>2

LEMMA ReportInv ==
  ASSUME IInv, NEW c \in Clients, ReportSensor(c)
  PROVE  IInv'
<1> USE DEF IInv
<1>1. CASE ~Present(target[c])
  BY <1>1, RefuseInv DEF ReportSensor, Results
<1>2. CASE Present(target[c])
  <2> DEFINE o == table[target[c]]
  <2>1. /\ pc[c] = "act" /\ req[c].op = "report" /\ lock = NoClient
        /\ heap' = [heap EXCEPT ![o].data = @ \cup {c}]
        /\ wrote' = [wrote EXCEPT ![c] = heap[o].version]
        /\ pc' = [pc EXCEPT ![c] = "fetch"]
        /\ UNCHANGED <<table, issued, lock, req, target, ref, copy, got, todo, result, view>>
    BY <1>2 DEF ReportSensor, StoreFree, Goto
  <2>2. target[c] \in Ids /\ o \in Versions /\ heap[o] \in Object
    BY <1>2, <2>1 DEF CallsWellFormed, TypeOK, Present, Drawn, Born, Versions
  <2> HIDE DEF o
  <2>3. heap' = [heap EXCEPT ![o] = [heap[o] EXCEPT !.data = heap[o].data \cup {c}]]
    BY <2>1
  <2>4. [heap[o] EXCEPT !.data = heap[o].data \cup {c}] \in Object
    BY <2>2 DEF Object
  <2>5. \A n \in Versions : /\ heap'[n].key = heap[n].key /\ heap'[n].spec = heap[n].spec
                            /\ heap'[n].version = heap[n].version
                            /\ heap[n] \in Object => heap'[n] \in Object
    BY <2>2, <2>3, <2>4 DEF TypeOK, Object
  <2>6. TypeOK'
    <3>1. heap' \in [Versions -> Object \cup {NoObject}]
      BY <2>3, <2>4 DEF TypeOK
    <3>2. pc' \in [Clients -> PCs] /\ wrote' \in [Clients -> 0..MaxVersion]
      BY <2>1, <2>2 DEF TypeOK, PCs, Object, Versions
    <3> QED
      BY <2>1, <3>1, <3>2 DEF TypeOK
  <2>a. \A i \in Ids : Present(i) => table[i] \in Versions
    BY DEF TypeOK, Present, Versions
  <2>b. \A d \in Clients : ref[d] \in 1..issued => ref[d] \in Versions
    BY DEF TypeOK, Versions
  <2>7. Drawn'
    <3>1. \A i \in Ids : table'[i] <= issued' /\ (Present(i)' => Born(table[i])')
      BY <2>1, <2>5, <2>a DEF Drawn, Present, Born
    <3>2. \A n \in Versions : heap'[n].version <= issued'
      BY <2>1, <2>5 DEF Drawn
    <3> QED
      BY <2>1, <3>1, <3>2 DEF Drawn
  <2>8. CallsWellFormed'
    <3> SUFFICES ASSUME NEW d \in Clients, pc'[d] \in {"read", "write", "render"}
                 PROVE  ref'[d] \in 1..issued' /\ Born(ref[d])'
      BY <2>1, <2>2 DEF CallsWellFormed, TypeOK
    <3> QED
      BY <2>1, <2>5, <2>b DEF CallsWellFormed, TypeOK, Born
  <2>9. CopiesRead' /\ DocumentsPartial'
    BY <2>1 DEF CopiesRead, DocumentsPartial, TypeOK
  <2>10. LockHeld'
    BY <2>1, DistinctAssumption DEF LockHeld, TypeOK
  <2>11. DocumentsFresh'
    <3> SUFFICES ASSUME NEW d \in Clients,
                        pc'[d] = "read", VersionMatches(d)', ~Writing(table[target[d]])'
                 PROVE  /\ ref'[d] = table'[target'[d]]
                        /\ \A g \in got'[d] \cap Columns :
                             copy'[d][g] = heap'[table'[target'[d]]][g]
      BY DEF DocumentsFresh
    <3>1. pc[d] = "read" /\ target[d] \in Ids /\ Present(target[d])
      BY <2>1 DEF TypeOK, CallsWellFormed, VersionMatches, Present
    <3>2. VersionMatches(d)
      BY <2>1, <2>5, <2>a, <3>1 DEF VersionMatches
    <3>3. /\ ref[d] = table[target[d]]
          /\ \A g \in got[d] \cap Columns : copy[d][g] = heap[table[target[d]]][g]
      BY <2>1, <3>1, <3>2 DEF DocumentsFresh, Writing
    <3>4. \A g \in Columns : heap'[table[target[d]]][g] = heap[table[target[d]]][g]
      BY <2>5, <2>a, <3>1 DEF Columns
    <3> QED
      BY <2>1, <3>3, <3>4
  <2> QED
    BY <2>6, <2>7, <2>8, <2>9, <2>10, <2>11
<1> QED
  BY <1>1, <1>2

LEMMA DeleteInv ==
  ASSUME IInv, NEW c \in Clients, DeleteSensor(c)
  PROVE  IInv'
<1> USE DEF IInv
<1>1. CASE ~Present(target[c])
  BY <1>1, RefuseInv DEF DeleteSensor, Results
<1>2. CASE Present(target[c])
  <2>1. /\ pc[c] = "act" /\ req[c].op = "delete" /\ lock = NoClient
        /\ table' = [table EXCEPT ![target[c]] = 0]
        /\ wrote' = [wrote EXCEPT ![c] = heap[table[target[c]]].version]
        /\ pc' = [pc EXCEPT ![c] = "respond"]
        /\ UNCHANGED <<heap, issued, lock, req, target, ref, copy, got, todo, result, view>>
    BY <1>2 DEF DeleteSensor, StoreFree, Goto
  <2>2. target[c] \in Ids /\ heap[table[target[c]]].version \in Versions
    BY <1>2, <2>1 DEF CallsWellFormed, TypeOK, Drawn, Born, Object
  <2>3. TypeOK'
    <3>0. table \in [Ids -> 0..MaxVersion] /\ 0 \in 0..MaxVersion
      BY DEF TypeOK
    <3>1. table' \in [Ids -> 0..MaxVersion]
      BY <2>1, <3>0
    <3>2. pc' \in [Clients -> PCs]
      BY <2>1 DEF TypeOK, PCs
    <3>3. wrote' \in [Clients -> 0..MaxVersion]
      BY <2>1, <2>2 DEF TypeOK, Versions
    <3> QED
      BY <2>1, <3>1, <3>2, <3>3 DEF TypeOK
  <2>4. Drawn'
    BY <2>1 DEF Drawn, TypeOK, Present, Born
  <2>5. CallsWellFormed'
    BY <2>1 DEF CallsWellFormed, TypeOK, Born
  <2>6. CopiesRead' /\ DocumentsPartial'
    BY <2>1 DEF CopiesRead, DocumentsPartial, TypeOK
  <2>7. LockHeld'
    BY <2>1, DistinctAssumption DEF LockHeld, TypeOK
  <2>8. DocumentsFresh'
    BY <2>1 DEF DocumentsFresh, VersionMatches, Present, Writing, TypeOK, CallsWellFormed
  <2> QED
    BY <2>3, <2>4, <2>5, <2>6, <2>7, <2>8
<1> QED
  BY <1>1, <1>2

LEMMA PatchReadInv ==
  ASSUME IInv, NEW c \in Clients, PatchLoad(c) \/ PatchRead(c) \/ PatchInapplicable(c)
  PROVE  IInv'
<1> USE DEF IInv
<1>1. CASE PatchLoad(c)
  <2>1. CASE \E code \in {"notfound", "invalid"} : Refuse(c, code)
    BY <1>1, <2>1, RefuseInv DEF PatchLoad, Results
  <2>2. CASE Present(req[c].id) /\ GetStatus(c, req[c].id, Columns, "read")
    BY <1>1, <2>2, GetStatusInv DEF PatchLoad, CallsWellFormed
  <2> QED
    BY <1>1, <2>1, <2>2 DEF PatchLoad
<1>2. CASE PatchRead(c)
  BY <1>2, ReadFieldInv DEF PatchRead, Columns, Fields
<1>3. CASE PatchInapplicable(c)
  BY <1>3, RefuseInv DEF PatchInapplicable, DocumentRead, Results
<1> QED
  BY <1>1, <1>2, <1>3

(* Under the mutex the version was compared and found current, so the        *)
(* document read before is what the object holds.                            *)
LEMMA PatchLockInv ==
  ASSUME IInv, NEW c \in Clients, PatchLock(c)
  PROVE  IInv'
<1> USE DEF IInv
<1>1. pc[c] = "read" /\ Columns \subseteq got[c] /\ lock = NoClient /\ Memory
  BY DEF PatchLock, Applicable, DocumentRead, StoreFree
<1>2. CASE ~VersionMatches(c)
  BY <1>1, <1>2, RefuseInv DEF PatchLock, Results
<1>3. CASE VersionMatches(c)
  <2>1. /\ lock' = c
        /\ ref' = [ref EXCEPT ![c] = table[target[c]]]
        /\ todo' = [todo EXCEPT ![c] = Touched(req[c].edit)]
        /\ pc' = [pc EXCEPT ![c] = "write"]
        /\ UNCHANGED <<table, heap, issued, req, target, copy, got, wrote, result, view>>
    BY <1>3 DEF PatchLock, Goto
  <2>2. /\ target[c] \in Ids /\ req[c].op = "patch"
        /\ table[target[c]] \in 1..issued /\ Born(table[target[c]])
        /\ heap[table[target[c]]].version = req[c].version
    BY <1>1, <1>3 DEF CallsWellFormed, VersionMatches, Present, Drawn, TypeOK
  <2>3. TypeOK'
    <3>1. ref' \in [Clients -> 0..MaxVersion] /\ lock' \in Clients \cup {NoClient}
      BY <2>1, <2>2 DEF TypeOK
    <3>2. pc' \in [Clients -> PCs] /\ todo' \in [Clients -> SUBSET Columns]
      BY <2>1 DEF TypeOK, PCs, Touched, Columns
    <3> QED
      BY <2>1, <3>1, <3>2 DEF TypeOK
  <2>4. Drawn'
    BY <2>1 DEF Drawn, TypeOK, Present, Born
  <2>5. CallsWellFormed'
    BY <2>1, <2>2 DEF CallsWellFormed, TypeOK, Born
  <2>6. CopiesRead' /\ DocumentsPartial'
    BY <1>1, <2>1 DEF CopiesRead, DocumentsPartial, TypeOK
  <2>7. LockHeld'
    BY <1>1, <2>1, <2>2, DistinctAssumption DEF LockHeld, TypeOK
  <2>8. DocumentsFresh'
    BY <1>1, <2>1, DistinctAssumption DEF DocumentsFresh, VersionMatches, Present, Writing, TypeOK
  <2> QED
    BY <2>3, <2>4, <2>5, <2>6, <2>7, <2>8
<1> QED
  BY <1>2, <1>3

LEMMA PatchWriteInv ==
  ASSUME IInv, NEW c \in Clients, PatchWrite(c)
  PROVE  IInv'
<1> USE DEF IInv
<1>1. PICK f \in todo[c] :
        /\ heap' = [heap EXCEPT ![ref[c]] =
                     IF f = "key"
                       THEN [@ EXCEPT !.key = EditedKey(req[c].edit, copy[c].key)]
                       ELSE [@ EXCEPT !.spec = EditedSpec(req[c].edit, copy[c].spec)]]
        /\ todo' = [todo EXCEPT ![c] = @ \ {f}]
  BY DEF PatchWrite
<1>2. /\ pc[c] = "write"
      /\ UNCHANGED <<table, issued, lock, pc, req, target, ref, copy, got, wrote, result, view>>
  BY DEF PatchWrite
<1> DEFINE o == ref[c]
<1>3. /\ lock = c /\ o \in Versions /\ heap[o] \in Object /\ "key" \in got[c]
      /\ o = table[target[c]] /\ heap[o].version = req[c].version
  BY <1>2 DEF LockHeld, CallsWellFormed, TypeOK, Born, Versions, CopiesRead, Columns
<1>4. EditedKey(req[c].edit, copy[c].key) \in Keys /\ EditedSpec(req[c].edit, copy[c].spec) \in SUBSET Items
  <2>1. /\ req[c].edit.key \in Keys \cup {NoKey} /\ req[c].edit.add \in SUBSET Items
        /\ copy[c].key \in Keys /\ copy[c].spec \in SUBSET Items
    BY <1>3 DEF TypeOK, Requests, Edit, Copy, CopiesRead
  <2> QED
    BY <2>1 DEF EditedKey, EditedSpec
<1> HIDE DEF o
<1>5. /\ heap'[o] \in Object /\ heap'[o].version = heap[o].version
      /\ \A n \in Versions \ {o} : heap'[n] = heap[n]
  <2>1. \A n \in Versions \ {o} : heap'[n] = heap[n]
    BY <1>1 DEF TypeOK, o
  <2>2. heap'[o] \in Object /\ heap'[o].version = heap[o].version
    <3>1. heap'[o] = IF f = "key"
                       THEN [heap[o] EXCEPT !.key = EditedKey(req[c].edit, copy[c].key)]
                       ELSE [heap[o] EXCEPT !.spec = EditedSpec(req[c].edit, copy[c].spec)]
      BY <1>1, <1>3 DEF TypeOK, o
    <3> QED
      BY <1>3, <1>4, <3>1 DEF Object
  <2> QED
    BY <2>1, <2>2
<1>6. TypeOK'
  <2>1. heap' \in [Versions -> Object \cup {NoObject}]
    BY <1>1, <1>5 DEF TypeOK
  <2>2. todo' \in [Clients -> SUBSET Columns]
    BY <1>1 DEF TypeOK
  <2> QED
    BY <1>2, <2>1, <2>2 DEF TypeOK
<1>7. \A n \in Versions : heap'[n].version = heap[n].version /\ (heap[n] \in Object => heap'[n] \in Object)
  BY <1>5
<1>a. \A i \in Ids : Present(i) => table[i] \in Versions
  BY DEF TypeOK, Present, Versions
<1>b. \A d \in Clients : ref[d] \in 1..issued => ref[d] \in Versions
  BY DEF TypeOK, Versions
<1>8. Drawn'
  <2>1. \A i \in Ids : table'[i] <= issued' /\ (Present(i)' => Born(table[i])')
    BY <1>2, <1>7, <1>a DEF Drawn, Present, Born
  <2>2. \A n \in Versions : heap'[n].version <= issued'
    BY <1>2, <1>7 DEF Drawn
  <2> QED
    BY <1>2, <2>1, <2>2 DEF Drawn
<1>9. CallsWellFormed'
  <2> SUFFICES ASSUME NEW d \in Clients, pc'[d] \in {"read", "write", "render"}
               PROVE  ref'[d] \in 1..issued' /\ Born(ref[d])'
    BY <1>2 DEF CallsWellFormed, TypeOK
  <2> QED
    BY <1>2, <1>7, <1>b DEF CallsWellFormed, Born
<1>10. CopiesRead' /\ DocumentsPartial'
  BY <1>2 DEF CopiesRead, DocumentsPartial
<1>11. LockHeld'
  BY <1>2, <1>3, <1>7 DEF LockHeld, TypeOK
<1>12. DocumentsFresh'
  <2> SUFFICES ASSUME NEW d \in Clients,
                      pc'[d] = "read", VersionMatches(d)', ~Writing(table[target[d]])'
               PROVE  /\ ref'[d] = table'[target'[d]]
                      /\ \A g \in got'[d] \cap Columns :
                           copy'[d][g] = heap'[table'[target'[d]]][g]
    BY DEF DocumentsFresh
  <2>1. target[d] \in Ids /\ table[target[d]] \in Versions /\ Present(target[d])
    BY <1>2, <1>a DEF VersionMatches, Present, CallsWellFormed
  <2>2. table[target[d]] # o
    BY <1>2, <1>3, DistinctAssumption DEF Writing, o
  <2>3. heap'[table[target[d]]] = heap[table[target[d]]]
    BY <1>5, <2>1, <2>2
  <2> QED
    BY <1>2, <2>3 DEF DocumentsFresh, VersionMatches, Present, Writing
<1> QED
  BY <1>6, <1>8, <1>9, <1>10, <1>11, <1>12

(* An object of the table gets a new version, larger than any a document was *)
(* asked for with: the common end of Patch in both stores.                   *)
LEMMA NewVersionInv ==
  ASSUME IInv, NEW c \in Clients, NEW o \in Versions, NEW obj \in Object,
         issued < MaxVersion, obj.version = issued + 1,
         pc[c] \in {"read", "write"}, target[c] \in Ids, lock \in {c, NoClient},
         Writing(o) \/ lock = NoClient,
         heap' = [heap EXCEPT ![o] = obj],
         issued' = issued + 1, lock' = NoClient,
         wrote' = [wrote EXCEPT ![c] = issued + 1],
         pc' = [pc EXCEPT ![c] = "fetch"],
         UNCHANGED <<table, req, target, ref, copy, got, todo, result, view>>
  PROVE  IInv'
<1> USE DEF IInv
<1>1. issued \in Nat /\ issued + 1 \in Versions
  BY DEF TypeOK, Versions
<1>2. /\ heap'[o] = obj
      /\ \A n \in Versions \ {o} : heap'[n] = heap[n]
  BY DEF TypeOK
<1>3. TypeOK'
  <2>1. heap' \in [Versions -> Object \cup {NoObject}]
    BY DEF TypeOK
  <2>2. issued' \in 0..MaxVersion /\ lock' \in Clients \cup {NoClient}
    BY <1>1 DEF Versions
  <2>3. pc' \in [Clients -> PCs]
    BY DEF TypeOK, PCs
  <2>4. wrote' \in [Clients -> 0..MaxVersion]
    BY <1>1 DEF TypeOK, Versions
  <2> QED
    BY <2>1, <2>2, <2>3, <2>4 DEF TypeOK
<1>a. \A i \in Ids : Present(i) => table[i] \in Versions
  BY DEF TypeOK, Present, Versions
<1>b. \A d \in Clients : ref[d] \in 1..issued => ref[d] \in Versions /\ ref[d] \in 1..issued'
  BY <1>1 DEF TypeOK, Versions
<1>4. Drawn'
  <2>0. \A i \in Ids : table[i] \in Nat
    BY DEF TypeOK
  <2>1. \A i \in Ids : table'[i] <= issued' /\ (Present(i)' => Born(table[i])')
    <3>1. \A i \in Ids : table'[i] <= issued'
      BY <1>1, <2>0 DEF Drawn
    <3>2. \A i \in Ids : Present(i)' => Born(table[i])'
      BY <1>2, <1>a DEF Drawn, Present, Born
    <3> QED
      BY <3>1, <3>2
  <2>2. \A n \in Versions : heap'[n].version <= issued'
    <3>1. ASSUME NEW n \in Versions PROVE heap[n].version \in Nat
      <4>1. CASE heap[n] \in Object
        BY <4>1 DEF Object, Versions
      <4>2. CASE heap[n] = NoObject
        BY <4>2 DEF NoObject
      <4> QED
        BY <4>1, <4>2 DEF TypeOK
    <3> QED
      BY <1>1, <1>2, <3>1 DEF Drawn
  <2>3. \A d \in Clients : req'[d].version <= issued'
    BY <1>1 DEF Drawn, TypeOK, Requests
  <2> QED
    BY <2>1, <2>2, <2>3 DEF Drawn
<1>5. CallsWellFormed'
  <2>1. ASSUME NEW d \in Clients, pc'[d] \in {"read", "write", "render"}
        PROVE  ref'[d] \in 1..issued' /\ Born(ref[d])'
    BY <1>2, <1>b, <2>1 DEF CallsWellFormed, Born, TypeOK
  <2> QED
    BY <2>1 DEF CallsWellFormed, TypeOK
<1>6. CopiesRead' /\ DocumentsPartial'
  BY DEF CopiesRead, DocumentsPartial, TypeOK
<1>7. LockHeld'
  BY DistinctAssumption DEF LockHeld, TypeOK
<1>8. DocumentsFresh'
  <2> SUFFICES ASSUME NEW d \in Clients,
                      pc'[d] = "read", VersionMatches(d)', ~Writing(table[target[d]])'
               PROVE  /\ ref'[d] = table'[target'[d]]
                      /\ \A g \in got'[d] \cap Columns :
                           copy'[d][g] = heap'[table'[target'[d]]][g]
    BY DEF DocumentsFresh
  <2>1. /\ target[d] \in Ids /\ table[target[d]] \in Versions /\ Present(target[d])
        /\ pc[d] = "read"
    BY <1>a DEF VersionMatches, Present, CallsWellFormed, TypeOK
  <2>2. req[d].version <= issued /\ req[d].version \in Nat
    BY DEF Drawn, TypeOK, Requests
  <2>3. table[target[d]] # o
    BY <1>1, <1>2, <2>1, <2>2 DEF VersionMatches
  <2>4. heap'[table[target[d]]] = heap[table[target[d]]]
    BY <1>2, <2>1, <2>3
  <2>5. ~Writing(table[target[d]])
    BY <2>3 DEF Writing
  <2> QED
    BY <2>1, <2>4, <2>5 DEF DocumentsFresh, VersionMatches, Present
<1> QED
  BY <1>3, <1>4, <1>5, <1>6, <1>7, <1>8

LEMMA PatchStampInv ==
  ASSUME IInv, NEW c \in Clients, PatchStamp(c)
  PROVE  IInv'
<1> USE DEF IInv
<1> DEFINE obj == [heap[ref[c]] EXCEPT !.version = issued + 1]
<1>1. /\ pc[c] = "write" /\ lock = c /\ target[c] \in Ids
      /\ ref[c] \in Versions /\ heap[ref[c]] \in Object
  BY DEF PatchStamp, LockHeld, CallsWellFormed, TypeOK, Born, Versions
<1>2. issued + 1 \in Versions
  BY DEF PatchStamp, TypeOK, Versions
<1>3. obj \in Object /\ obj.version = issued + 1
  BY <1>1, <1>2 DEF Object
<1>4. Writing(ref[c])
  BY <1>1, DistinctAssumption DEF Writing
<1>5. heap' = [heap EXCEPT ![ref[c]] = obj]
  BY DEF PatchStamp
<1> HIDE DEF obj
<1> QED
  BY <1>1, <1>3, <1>4, <1>5, NewVersionInv DEF PatchStamp, Goto

LEMMA PatchUpdateInv ==
  ASSUME IInv, NEW c \in Clients, PatchUpdate(c)
  PROVE  IInv'
<1> USE DEF IInv
<1> DEFINE o == table[target[c]]
           e == req[c].edit
           obj == Updated(heap[o], e, copy[c], issued + 1)
<1>1. /\ pc[c] = "read" /\ target[c] \in Ids /\ req[c].op = "patch" /\ Columns \subseteq got[c]
      /\ lock = NoClient
  BY DEF PatchUpdate, Applicable, DocumentRead, CallsWellFormed, LockHeld, TypeOK
<1>2. CASE ~VersionMatches(c)
  <2>1. /\ Goto(c, "probe")
        /\ UNCHANGED <<store, req, target, ref, copy, got, todo, wrote, result, view>>
    BY <1>2 DEF PatchUpdate
  <2>2. target' = [target EXCEPT ![c] = target[c]]
    BY <2>1 DEF TypeOK
  <2> QED
    BY <1>1, <2>1, <2>2, MoveInv
<1>3. CASE VersionMatches(c) /\ KeyInUse(EditedKey(e, heap[o].key), Ids \ {target[c]})
  BY <1>1, <1>3, RefuseInv DEF PatchUpdate, Results
<1>4. CASE VersionMatches(c) /\ ~KeyInUse(EditedKey(e, heap[o].key), Ids \ {target[c]})
  <2>1. /\ issued < MaxVersion
        /\ issued' = issued + 1
        /\ heap' = [heap EXCEPT ![o] = obj]
        /\ wrote' = [wrote EXCEPT ![c] = issued + 1]
        /\ pc' = [pc EXCEPT ![c] = "fetch"]
        /\ UNCHANGED <<table, lock, req, target, ref, copy, got, todo, result, view>>
    BY <1>4 DEF PatchUpdate, Goto
  <2>2. o \in Versions /\ heap[o] \in Object
    BY <1>1, <1>4 DEF VersionMatches, Present, Drawn, Born, TypeOK, Versions
  <2>3. issued + 1 \in Versions
    BY <2>1 DEF TypeOK, Versions
  <2>4. /\ e.key \in Keys \cup {NoKey} /\ e.add \in SUBSET Items
        /\ copy[c].key \in Keys /\ copy[c].spec \in SUBSET Items
    BY <1>1 DEF TypeOK, Requests, Edit, Copy, CopiesRead, Columns
  <2> HIDE DEF o, e
  <2>5. obj \in Object /\ obj.version = issued + 1
    BY <2>2, <2>3, <2>4 DEF Updated, EditedKey, EditedSpec, Object
  <2> HIDE DEF obj
  <2> QED
    BY <1>1, <2>1, <2>2, <2>5, NewVersionInv
<1> QED
  BY <1>2, <1>3, <1>4

LEMMA RespondInv ==
  ASSUME IInv, NEW c \in Clients,
         PatchProbe(c) \/ Fetch(c) \/ Render(c) \/ RespondSensor(c) \/ RespondDeleted(c)
  PROVE  IInv'
<1> USE DEF IInv
<1>1. CASE PatchProbe(c)
  BY <1>1, RefuseInv DEF PatchProbe, Results
<1>2. CASE Fetch(c)
  <2>1. CASE Refuse(c, Missing(c))
    BY <1>2, <2>1, RefuseInv DEF Fetch, Results, Missing
  <2>2. CASE Present(target[c]) /\ GetStatus(c, target[c], Fields, "render")
    BY <1>2, <2>2, GetStatusInv DEF Fetch, CallsWellFormed
  <2> QED
    BY <1>2, <2>1, <2>2 DEF Fetch
<1>3. CASE Render(c)
  BY <1>3, ReadFieldInv DEF Render
<1>4. CASE RespondSensor(c)
  <2>1. [id |-> target[c], key |-> copy[c].key, spec |-> copy[c].spec,
         version |-> copy[c].version] \in View
    BY <1>4 DEF RespondSensor, CallsWellFormed, CopiesRead, TypeOK, Copy, View, Fields
  <2>2. view' \in [Clients -> View \cup {NoView}]
    BY <1>4, <2>1 DEF RespondSensor, TypeOK
  <2> QED
    BY <1>4, <2>2, AnswerInv DEF RespondSensor, Results
<1>5. CASE RespondDeleted(c)
  BY <1>5, AnswerInv DEF RespondDeleted, Results, TypeOK
<1> QED
  BY <1>1, <1>2, <1>3, <1>4, <1>5

LEMMA FailInv ==
  ASSUME IInv, NEW c \in Clients, StatementFails(c)
  PROVE  IInv'
<1>1. pc[c] # "write"
  BY DEF StatementFails, CallsStore, Applicable, DocumentRead
<1> QED
  BY <1>1, RefuseInv DEF StatementFails, Results

-----------------------------------------------------------------------------

LEMMA NextInv == IInv /\ [Next]_vars => IInv'
<1> SUFFICES ASSUME IInv, [Next]_vars PROVE IInv'
  OBVIOUS
<1>1. CASE UNCHANGED vars
  <2>1. /\ UNCHANGED <<table, heap, issued, lock, pc, req, target, ref, copy, got, todo>>
        /\ UNCHANGED <<wrote, result, view>>
    BY <1>1 DEF vars, store
  <2> QED
    BY <2>1 DEF IInv, TypeOK, Drawn, CallsWellFormed, CopiesRead, LockHeld, DocumentsPartial,
                DocumentsFresh, VersionMatches, Present, Writing, Born
<1>2. CASE Next
  <2>1. PICK c \in Clients : Call(c) \/ Step(c)
    BY <1>2 DEF Next
  <2> QED
    BY <2>1, CallInv, AdmitInv, ResolveInv, RegisterInv, ReportInv, DeleteInv, PatchReadInv,
       PatchLockInv, PatchWriteInv, PatchStampInv, PatchUpdateInv, RespondInv,
       FailInv DEF Step
<1> QED
  BY <1>1, <1>2

(* The inductive invariant holds throughout, in particular every variable    *)
(* keeps its type and the mutex is held by exactly the patch that writes.    *)
THEOREM Invariance == Spec => []IInv
BY InitInv, NextInv, PTL DEF Spec

THEOREM TypeCorrect == Spec => []TypeOK
<1>1. IInv => TypeOK
  BY DEF IInv
<1> QED
  BY <1>1, Invariance, PTL

(* No update is lost: PatchSensor's document is the content of the sensor    *)
(* whenever the store would accept the version it came with, whatever other  *)
(* calls did between the read and the write, in either store.                *)
THEOREM NoLostUpdate == Spec => []DocumentCurrent
<1>1. IInv => DocumentCurrent
  BY DEF IInv, DocumentCurrent, DocumentsFresh, DocumentsPartial, StoreFree, Writing
<1> QED
  BY <1>1, Invariance, PTL

-----------------------------------------------------------------------------
(***************************************************************************)
(* The service implements the registry: every step of QiVitalsService is a *)
(* step of SensorRegistry or changes nothing there, for both stores and    *)
(* all values of the constants.  What the registry promises then holds of  *)
(* the service: over Postgres, natural keys are unique and the views that  *)
(* clients keep stay current.  Replies follow the effects of their calls,  *)
(* and answers tell the truth about them, over either store.               *)
(***************************************************************************)

Mapped == [i \in Ids |-> RegistrySensor(i)]

(* What the registry sees of a sensor that is there.                        *)
LEMMA PresentFacts ==
  ASSUME IInv, NEW i \in Ids, Present(i)
  PROVE  /\ table[i] \in Versions /\ table[i] <= issued /\ heap[table[i]] \in Object
         /\ RegistrySensor(i).version = heap[table[i]].version
         /\ RegistrySensor(i).version \in Versions
BY DEF IInv, Drawn, Born, Present, TypeOK, Versions, RegistrySensor, Object

(* The registry and the service agree on which sensors there are, ...       *)
LEMMA SamePresent ==
  ASSUME IInv, NEW i \in Ids
  PROVE  Registry!Present(i) <=> Present(i)
<1>1. CASE Present(i)
  BY <1>1, PresentFacts DEF Registry!Present, Versions
<1>2. CASE ~Present(i)
  BY <1>2 DEF Registry!Present, RegistrySensor
<1> QED
  BY <1>1, <1>2

(* ... and, while nobody writes, on what they are.                          *)
LEMMA FreeFacts ==
  ASSUME lock = NoClient, NEW i \in Ids, Present(i)
  PROVE  RegistrySensor(i) = [key |-> heap[table[i]].key, spec |-> heap[table[i]].spec,
                              data |-> heap[table[i]].data, version |-> heap[table[i]].version]
BY DEF RegistrySensor

LEMMA SameKeys ==
  ASSUME IInv, lock = NoClient, NEW k, NEW others \in SUBSET Ids
  PROVE  Registry!KeyInUse(k, others) <=> KeyInUse(k, others)
<1>1. ASSUME NEW j \in others
      PROVE  Registry!Present(j) /\ Mapped[j].key = k <=> Present(j) /\ heap[table[j]].key = k
  BY SamePresent, FreeFacts DEF Mapped
<1> QED
  BY <1>1 DEF Registry!KeyInUse, KeyInUse, Mapped

-----------------------------------------------------------------------------
(* Steps the registry does not notice.                                      *)

\* Nothing in the store changes, and a call that does not write goes on.
Quiet(c) ==
  /\ UNCHANGED store
  /\ pc[c] # "write" /\ pc'[c] # "write"
  /\ \A d \in Clients \ {c} : /\ pc'[d] = pc[d] /\ req'[d] = req[d] /\ ref'[d] = ref[d]
                              /\ copy'[d] = copy[d] /\ todo'[d] = todo[d]
  /\ \/ req'[c] = req[c] /\ (pc'[c] = "read" => pc[c] = "read" \/ req[c].edit.valid)
     \/ req'[c] \in {NoRequest} \cup ClientRequests \cup DrawingRequests /\ pc'[c] \in {"idle", "admit"}

LEMMA QuietMapped ==
  ASSUME IInv, NEW c \in Clients, Quiet(c)
  PROVE  UNCHANGED Registry!vars
<1>1. lock # c /\ (lock = NoClient \/ lock \in Clients \ {c})
  BY DistinctAssumption DEF IInv, LockHeld, Quiet, TypeOK
<1>2. UNCHANGED <<table, heap, issued, lock>>
  BY DEF Quiet, store
<1>3. lock # NoClient => ref'[lock] = ref[lock] /\ copy'[lock] = copy[lock]
  BY <1>1 DEF Quiet
<1>4. \A i \in Ids : RegistrySensor(i)' = RegistrySensor(i)
  BY <1>2, <1>3 DEF RegistrySensor, Present
<1> QED
  BY <1>2, <1>4 DEF Registry!vars

LEMMA QuietInv ==
  ASSUME RInv, IInv', NEW c \in Clients, Quiet(c)
  PROVE  RInv'
<1>1. UNCHANGED <<table, heap, issued, lock>>
  BY DEF Quiet, store
<1>2. SensorsApart'
  BY <1>1 DEF RInv, SensorsApart, Present
<1>3. RequestsAllowed'
  <2> SUFFICES ASSUME NEW d \in Clients
               PROVE  /\ req'[d].op = "register" => req'[d].spec \in Specs
                      /\ req'[d].op = "patch" => req'[d].edit \in Edits
                      /\ pc'[d] \in {"read", "write"} => req'[d].edit.valid
    BY DEF RequestsAllowed
  <2>1. CASE d # c
    BY <2>1 DEF Quiet, RInv, RequestsAllowed
  <2>2. CASE d = c /\ req'[c] = req[c] /\ (pc'[c] = "read" => pc[c] = "read" \/ req[c].edit.valid)
    BY <2>2 DEF Quiet, RInv, RequestsAllowed
  <2>3. CASE /\ d = c /\ pc'[c] \in {"idle", "admit"}
             /\ req'[c] \in {NoRequest} \cup ClientRequests \cup DrawingRequests
    BY <2>3 DEF NoRequest, Request, ClientRequests, DrawingRequests
  <2> QED
    BY <2>1, <2>2, <2>3 DEF Quiet
<1>4. ColumnsWritten'
  <2> SUFFICES ASSUME NEW d \in Clients, pc'[d] = "write"
               PROVE  d \in Clients \ {c} /\ pc[d] = "write"
    BY <1>1 DEF Quiet, RInv, ColumnsWritten
  <2> QED
    BY DEF Quiet
<1> QED
  BY <1>2, <1>3, <1>4 DEF RInv

LEMMA RefuseQuiet ==
  ASSUME IInv, NEW c \in Clients, NEW code, pc[c] # "write", Answer(c, code), UNCHANGED store
  PROVE  Quiet(c)
BY DEF IInv, TypeOK, Answer, Goto, Quiet

LEMMA MoveQuiet ==
  ASSUME IInv, NEW c \in Clients, NEW label \in PCs \ {"read", "write"}, pc[c] # "write",
         Goto(c, label), UNCHANGED <<store, req, ref, copy, todo>>
  PROVE  Quiet(c)
BY DEF IInv, TypeOK, Goto, Quiet

LEMMA GetStatusQuiet ==
  ASSUME IInv, NEW c \in Clients, NEW i, NEW names, NEW next \in {"read", "render"}, pc[c] # "write",
         next = "read" => req[c].edit.valid, GetStatus(c, i, names, next)
  PROVE  Quiet(c)
BY DEF IInv, TypeOK, GetStatus, Goto, Quiet

LEMMA ReadFieldQuiet ==
  ASSUME IInv, NEW c \in Clients, NEW f, pc[c] # "write", ReadField(c, f)
  PROVE  Quiet(c)
BY DEF IInv, TypeOK, ReadField, Quiet

(* Every step but the seven that follow is one of these.                    *)
LEMMA StepQuiet ==
  ASSUME IInv, NEW c \in Clients,
         \/ Call(c) \/ AdmitRegister(c) \/ AdmitQuery(c) \/ AdmitResolved(c) \/ ResolveIdentity(c)
         \/ PatchLoad(c) \/ PatchRead(c) \/ PatchInapplicable(c) \/ PatchProbe(c)
         \/ Fetch(c) \/ Render(c) \/ RespondSensor(c) \/ RespondDeleted(c) \/ StatementFails(c)
  PROVE  Quiet(c)
<1>1. ASSUME Call(c) PROVE Quiet(c)
  BY <1>1 DEF Call, Goto, IInv, TypeOK, Quiet
<1>2. ASSUME NEW code, pc[c] # "write", Refuse(c, code) PROVE Quiet(c)
  BY <1>2, RefuseQuiet DEF Refuse
<1>3. ASSUME AdmitRegister(c) \/ AdmitQuery(c) \/ AdmitResolved(c) \/ ResolveIdentity(c)
      PROVE  Quiet(c)
  <2>1. pc[c] # "write"
    BY <1>3 DEF AdmitRegister, AdmitQuery, AdmitResolved, ResolveIdentity
  <2>2. \/ \E code \in Results : Refuse(c, code)
        \/ \E label \in {"act", "fetch", "load", "resolve"} :
             Goto(c, label) /\ UNCHANGED <<store, req, ref, copy, todo>>
    BY <1>3 DEF AdmitRegister, AdmitQuery, AdmitResolved, ResolveIdentity, Results
  <2> QED
    BY <1>2, <2>1, <2>2, MoveQuiet DEF PCs
<1>4. ASSUME PatchLoad(c) \/ Fetch(c) PROVE Quiet(c)
  <2>1. pc[c] # "write"
    BY <1>4 DEF PatchLoad, Fetch
  <2>2. \/ \E code \in Results : Refuse(c, code)
        \/ req[c].edit.valid /\ GetStatus(c, req[c].id, Columns, "read")
        \/ GetStatus(c, target[c], Fields, "render")
    BY <1>4 DEF PatchLoad, Fetch, Missing, Results
  <2> QED
    BY <1>2, <2>1, <2>2, GetStatusQuiet
<1>5. ASSUME PatchRead(c) \/ Render(c) PROVE Quiet(c)
  BY <1>5, ReadFieldQuiet DEF PatchRead, Render
<1>6. ASSUME PatchInapplicable(c) \/ PatchProbe(c) PROVE Quiet(c)
  BY <1>2, <1>6 DEF PatchInapplicable, PatchProbe, DocumentRead
<1>7. ASSUME RespondSensor(c) \/ RespondDeleted(c) PROVE Quiet(c)
  BY <1>7, RefuseQuiet DEF RespondSensor, RespondDeleted
<1>8. ASSUME StatementFails(c) PROVE Quiet(c)
  BY <1>2, <1>8 DEF StatementFails, CallsStore, Applicable, DocumentRead
<1> QED
  BY <1>1, <1>3, <1>4, <1>5, <1>6, <1>7, <1>8

-----------------------------------------------------------------------------
(* Effects.                                                                 *)

(* One sensor changes.                                                      *)
LEMMA MappedExcept ==
  ASSUME NEW i \in Ids, NEW x, RegistrySensor(i)' = x,
         \A j \in Ids \ {i} : RegistrySensor(j)' = RegistrySensor(j)
  PROVE  Mapped' = [Mapped EXCEPT ![i] = x]
BY DEF Mapped

(* After an effect nobody writes, and a call that had one goes on to answer. *)
LEMMA EffectInv ==
  ASSUME RInv, IInv', NEW c \in Clients, NEW label \in {"fetch", "respond"},
         pc' = [pc EXCEPT ![c] = label], req' = req, lock' = NoClient
  PROVE  RequestsAllowed' /\ ColumnsWritten'
<1>1. RequestsAllowed'
  BY DEF RInv, RequestsAllowed, IInv, TypeOK
<1>2. \A d \in Clients : pc'[d] # "write"
  BY DistinctAssumption DEF IInv, LockHeld
<1> QED
  BY <1>1, <1>2 DEF ColumnsWritten

LEMMA RegisterStep ==
  ASSUME RInv, IInv', NEW c \in Clients, RegisterSensor(c), ~Refuse(c, "exists")
  PROVE  RInv' /\ Registry!Next
<1> USE DEF RInv
<1>1. PICK i \in Ids : /\ ~Present(i) /\ ~KeyInUse(req[c].key, Ids)
                       /\ table' = [table EXCEPT ![i] = issued + 1]
  BY DEF RegisterSensor, IInv, TypeOK, Requests
<1> DEFINE o == [key |-> req[c].key, spec |-> req[c].spec, data |-> {}, version |-> issued + 1]
<1>2. /\ pc[c] = "act" /\ req[c].op = "register" /\ lock = NoClient
      /\ issued < MaxVersion /\ issued' = issued + 1
      /\ heap' = [heap EXCEPT ![issued + 1] = o]
      /\ pc' = [pc EXCEPT ![c] = "fetch"]
      /\ UNCHANGED <<lock, req, ref, copy, todo>>
  BY DEF RegisterSensor, StoreFree, Goto
<1>3. issued \in Nat /\ issued + 1 \in Versions /\ table \in [Ids -> 0..MaxVersion]
  BY <1>2 DEF IInv, TypeOK, Versions
<1>4. /\ heap'[issued + 1] = o
      /\ \A n \in Versions \ {issued + 1} : heap'[n] = heap[n]
  BY <1>2, <1>3 DEF IInv, TypeOK
<1>5. table'[i] = issued + 1 /\ \A j \in Ids \ {i} : table'[j] = table[j]
  BY <1>1, <1>3
<1>6. \A j \in Ids : Present(j) => table[j] \in Versions /\ table[j] <= issued
  BY PresentFacts
<1> HIDE DEF o
<1>7. SensorsApart'
  BY <1>3, <1>5, <1>6 DEF SensorsApart, Present
<1>8. RequestsAllowed' /\ ColumnsWritten'
  BY <1>2, EffectInv
<1>10. Registry!Register(i, req[c].key, req[c].spec)
  <2>1. ~Registry!Present(i) /\ ~Registry!KeyInUse(req[c].key, Ids)
    BY <1>1, <1>2, SamePresent, SameKeys
  <2>2. RegistrySensor(i)' = o
    <3>1. Present(i)' /\ heap'[table'[i]] = o /\ lock' = NoClient
      BY <1>2, <1>3, <1>4, <1>5 DEF Present
    <3>2. o = [key |-> o.key, spec |-> o.spec, data |-> o.data, version |-> o.version]
      BY DEF o
    <3> QED
      BY <3>1, <3>2 DEF RegistrySensor
  <2>3. ASSUME NEW j \in Ids \ {i} PROVE RegistrySensor(j)' = RegistrySensor(j)
    <3>1. Present(j)' <=> Present(j)
      BY <1>5 DEF Present
    <3>2. Present(j) => heap'[table[j]] = heap[table[j]]
      BY <1>3, <1>4, <1>6
    <3> QED
      BY <1>2, <1>5, <3>1, <3>2 DEF RegistrySensor
  <2>4. Mapped' = [Mapped EXCEPT ![i] = o]
    BY <2>2, <2>3, MappedExcept
  <2> QED
    BY <1>2, <2>1, <2>4 DEF Registry!Register, Mapped, o
<1>11. req[c].key \in Keys /\ req[c].spec \in Specs
  BY <1>2 DEF IInv, CallsWellFormed, RequestsAllowed
<1> QED
  BY <1>7, <1>8, <1>10, <1>11 DEF Registry!Next

(* An object of the table is replaced: the sensor it belongs to changes, and *)
(* no other.                                                                *)
LEMMA ObjectReplaced ==
  ASSUME RInv, NEW i \in Ids, Present(i), NEW obj \in Object,
         heap' = [heap EXCEPT ![table[i]] = obj], table' = table,
         lock = NoClient \/ ref[lock] = table[i], lock' = NoClient
  PROVE  Mapped' = [Mapped EXCEPT ![i] =
           [key |-> obj.key, spec |-> obj.spec, data |-> obj.data, version |-> obj.version]]
<1> USE DEF RInv
<1>1. table[i] \in Versions /\ heap'[table[i]] = obj
      /\ \A n \in Versions \ {table[i]} : heap'[n] = heap[n]
  BY PresentFacts DEF IInv, TypeOK
<1>2. RegistrySensor(i)' =
        [key |-> obj.key, spec |-> obj.spec, data |-> obj.data, version |-> obj.version]
  BY <1>1 DEF RegistrySensor, Present
<1>3. ASSUME NEW j \in Ids \ {i} PROVE RegistrySensor(j)' = RegistrySensor(j)
  <2>1. CASE Present(j)
    <3>1. table[j] \in Versions /\ table[j] # table[i]
      BY <2>1, PresentFacts DEF SensorsApart
    <3>2. heap'[table[j]] = heap[table[j]]
      BY <1>1, <3>1
    <3> QED
      BY <2>1, <3>1, <3>2 DEF RegistrySensor, Present
  <2>2. CASE ~Present(j)
    BY <2>2 DEF RegistrySensor, Present
  <2> QED
    BY <2>1, <2>2
<1> QED
  BY <1>2, <1>3, MappedExcept

LEMMA ReportStep ==
  ASSUME RInv, IInv', NEW c \in Clients, ReportSensor(c), Present(target[c])
  PROVE  RInv' /\ Registry!Next
<1> USE DEF RInv
<1> DEFINE i == target[c]
           o == table[i]
           obj == [key |-> heap[o].key, spec |-> heap[o].spec,
                   data |-> heap[o].data \cup {c}, version |-> heap[o].version]
<1>1. /\ pc[c] = "act" /\ req[c].op = "report" /\ lock = NoClient
      /\ heap' = [heap EXCEPT ![o].data = @ \cup {c}]
      /\ pc' = [pc EXCEPT ![c] = "fetch"]
      /\ UNCHANGED <<table, issued, lock, req>>
  BY DEF ReportSensor, StoreFree, Goto
<1>2. i \in Ids
  BY <1>1 DEF IInv, CallsWellFormed
<1>3. o \in Versions /\ heap[o] \in Object
  BY <1>2, PresentFacts
<1>4. obj \in Object /\ [heap[o] EXCEPT !.data = heap[o].data \cup {c}] = obj
  <2>1. obj \in Object
    BY <1>3 DEF Object
  <2> QED
    BY <1>3, <2>1, DataAdded
<1>5. heap' = [heap EXCEPT ![o] = obj]
  BY <1>1, <1>4
<1> HIDE DEF i
<1>6. RequestsAllowed' /\ ColumnsWritten'
  BY <1>1, EffectInv
<1>7. SensorsApart'
  BY <1>1 DEF SensorsApart, Present
<1>8. Mapped' = [Mapped EXCEPT ![i] = obj]
  <2>1. Present(i)
    BY DEF i
  <2> HIDE DEF obj
  <2>2. Mapped' = [Mapped EXCEPT ![i] =
          [key |-> obj.key, spec |-> obj.spec, data |-> obj.data, version |-> obj.version]]
    BY <1>1, <1>2, <1>4, <1>5, <2>1, ObjectReplaced
  <2> QED
    BY <2>2 DEF obj
<1>9. Registry!SendData(i, c)
  <2>1. Registry!Present(i)
    BY <1>2, SamePresent DEF i
  <2>2. Mapped[i] = [key |-> heap[o].key, spec |-> heap[o].spec,
                     data |-> heap[o].data, version |-> heap[o].version]
    BY <1>1, <1>2, FreeFacts DEF Mapped, i
  <2>3. [Mapped[i] EXCEPT !.data = Mapped[i].data \cup {c}] = obj
    <3> DEFINE names == {"key", "spec", "data", "version"}
               new == [Mapped[i] EXCEPT !.data = Mapped[i].data \cup {c}]
    <3>1. new = [x \in names |-> new[x]] /\ obj = [x \in names |-> obj[x]]
      BY <2>2
    <3>2. /\ new["key"] = obj["key"] /\ new["spec"] = obj["spec"]
          /\ new["data"] = obj["data"] /\ new["version"] = obj["version"]
      BY <2>2
    <3> HIDE DEF new, obj
    <3>3. \A x \in names : new[x] = obj[x]
      BY <3>2
    <3> QED
      BY <3>1, <3>3 DEF new
  <2>4. Mapped' = [Mapped EXCEPT ![i].data = @ \cup {c}]
    BY <1>8, <2>3
  <2> QED
    BY <1>1, <2>1, <2>4 DEF Registry!SendData, Mapped
<1> QED
  BY <1>2, <1>6, <1>7, <1>9 DEF Registry!Next

LEMMA DeleteStep ==
  ASSUME RInv, IInv', NEW c \in Clients, DeleteSensor(c), Present(target[c])
  PROVE  RInv' /\ Registry!Next
<1> USE DEF RInv
<1>1. PICK i \in Ids : i = target[c]
  BY DEF DeleteSensor, IInv, CallsWellFormed
<1>2. /\ lock = NoClient
      /\ table' = [table EXCEPT ![i] = 0]
      /\ pc' = [pc EXCEPT ![c] = "respond"]
      /\ UNCHANGED <<heap, issued, lock, req>>
  BY <1>1 DEF DeleteSensor, StoreFree, Goto
<1>3. table'[i] = 0 /\ \A j \in Ids \ {i} : table'[j] = table[j]
  BY <1>2 DEF IInv, TypeOK
<1>4. RequestsAllowed' /\ ColumnsWritten'
  BY <1>2, EffectInv
<1>5. SensorsApart'
  BY <1>3 DEF SensorsApart, Present
<1>6. Registry!Delete(i)
  <2>1. Registry!Present(i)
    BY <1>1, SamePresent
  <2>2. RegistrySensor(i)' = Registry!Absent
    BY <1>3 DEF RegistrySensor, Present, Registry!Absent
  <2>3. \A j \in Ids \ {i} : RegistrySensor(j)' = RegistrySensor(j)
    BY <1>2, <1>3 DEF RegistrySensor, Present
  <2>4. Mapped' = [Mapped EXCEPT ![i] = Registry!Absent]
    BY <2>2, <2>3, MappedExcept
  <2> QED
    BY <1>2, <2>1, <2>4 DEF Registry!Delete, Mapped
<1> QED
  BY <1>4, <1>5, <1>6 DEF Registry!Next

-----------------------------------------------------------------------------
(* A patch.                                                                 *)

AbstractEdit(e) == [key |-> e.key, add |-> e.add, del |-> e.del]

(* An effect that is an edit some client may ask for.                       *)
LEMMA PatchMapped ==
  ASSUME RInv, NEW i \in Ids, Present(i), NEW e \in Edits, e.valid,
         issued < MaxVersion, issued' = issued + 1,
         ~Memory => ~Registry!KeyInUse(EditedKey(e, Mapped[i].key), Ids \ {i}),
         Mapped' = [Mapped EXCEPT ![i] =
           [key |-> EditedKey(e, Mapped[i].key), spec |-> EditedSpec(e, Mapped[i].spec),
            data |-> Mapped[i].data, version |-> issued + 1]]
  PROVE  Registry!Next
<1> DEFINE a == AbstractEdit(e)
           new == [key |-> EditedKey(e, Mapped[i].key), spec |-> EditedSpec(e, Mapped[i].spec),
                   data |-> Mapped[i].data, version |-> issued + 1]
<1>1. a \in {[key |-> f.key, add |-> f.add, del |-> f.del] : f \in {g \in Edits : g.valid}}
  BY DEF AbstractEdit
<1>2. /\ \A k : Registry!EditedKey(a, k) = EditedKey(e, k)
      /\ \A s : Registry!EditedSpec(a, s) = EditedSpec(e, s)
  BY DEF AbstractEdit, Registry!EditedKey, EditedKey, Registry!EditedSpec, EditedSpec
<1> HIDE DEF a
<1>3. Registry!Present(i) /\ Mapped[i].version \in Registry!Versions
  BY SamePresent, PresentFacts DEF RInv, Mapped, Registry!Versions, Versions
<1>4. Mapped[i] = [key |-> Mapped[i].key, spec |-> Mapped[i].spec,
                   data |-> Mapped[i].data, version |-> Mapped[i].version]
  BY DEF Mapped, RegistrySensor
<1>5. [Mapped[i] EXCEPT !.key = EditedKey(e, Mapped[i].key), !.spec = EditedSpec(e, Mapped[i].spec),
                        !.version = issued + 1] = new
  <2> DEFINE names == {"key", "spec", "data", "version"}
             edited == [Mapped[i] EXCEPT !.key = EditedKey(e, Mapped[i].key),
                          !.spec = EditedSpec(e, Mapped[i].spec), !.version = issued + 1]
  <2>1. DOMAIN Mapped[i] = names
    BY <1>4
  <2>2. edited = [x \in names |-> edited[x]] /\ new = [x \in names |-> new[x]]
    BY <2>1
  <2>3. /\ edited["key"] = new["key"] /\ edited["spec"] = new["spec"]
        /\ edited["data"] = new["data"] /\ edited["version"] = new["version"]
    BY <2>1
  <2> HIDE DEF edited, new
  <2>4. \A x \in names : edited[x] = new[x]
    BY <2>3
  <2> QED
    BY <2>2, <2>4 DEF edited
<1>6. Mapped' = [Mapped EXCEPT ![i].key = EditedKey(e, Mapped[i].key),
                               ![i].spec = EditedSpec(e, Mapped[i].spec),
                               ![i].version = issued + 1]
  <2> HIDE DEF Mapped
  <2>1. Mapped' = [Mapped EXCEPT ![i] = [Mapped[i] EXCEPT !.key = EditedKey(e, Mapped[i].key),
                     !.spec = EditedSpec(e, Mapped[i].spec), !.version = issued + 1]]
    BY <1>5
  <2> QED
    BY <2>1
<1>7. Registry!Patch(i, Mapped[i].version, a)
  <2>1. Mapped' = [Mapped EXCEPT ![i].key = Registry!EditedKey(a, Mapped[i].key),
                                 ![i].spec = Registry!EditedSpec(a, Mapped[i].spec),
                                 ![i].version = issued + 1]
    BY <1>2, <1>6
  <2>2. ~Memory => ~Registry!KeyInUse(Registry!EditedKey(a, Mapped[i].key), Ids \ {i})
    BY <1>2
  <2> QED
    BY <1>3, <2>1, <2>2 DEF Registry!Patch, Mapped
<1> QED
  BY <1>1, <1>3, <1>7 DEF Registry!Next

(* The mutex is taken: what the patch read is what the sensor is.           *)
LEMMA LockStep ==
  ASSUME RInv, IInv', NEW c \in Clients, PatchLock(c), VersionMatches(c)
  PROVE  RInv' /\ UNCHANGED Registry!vars
<1> USE DEF RInv
<1>1. PICK i \in Ids : i = target[c]
  BY DEF PatchLock, Applicable, DocumentRead, IInv, CallsWellFormed
<1>2. /\ pc[c] = "read" /\ Columns \subseteq got[c] /\ lock = NoClient
      /\ lock' = c
      /\ ref' = [ref EXCEPT ![c] = table[i]]
      /\ todo' = [todo EXCEPT ![c] = Touched(req[c].edit)]
      /\ pc' = [pc EXCEPT ![c] = "write"]
      /\ UNCHANGED <<table, heap, issued, req, copy>>
  BY <1>1 DEF PatchLock, Applicable, DocumentRead, StoreFree, Goto
<1>3. Present(i) /\ table[i] \in Versions
  BY <1>1, PresentFacts DEF VersionMatches
<1>4. copy[c].key = heap[table[i]].key /\ copy[c].spec = heap[table[i]].spec
  <2>1. \A f \in Columns : copy[c][f] = heap[table[i]][f]
    BY <1>1, <1>2 DEF IInv, DocumentsFresh, Writing
  <2> QED
    BY <2>1 DEF Columns
<1>5. ref'[c] = table[i] /\ todo'[c] = Touched(req[c].edit) /\ pc'[c] = "write"
  BY <1>2 DEF IInv, TypeOK
<1>6. \A d \in Clients \ {c} : pc'[d] # "write" /\ pc'[d] = pc[d]
  BY <1>2 DEF IInv, LockHeld, TypeOK
<1>7. SensorsApart'
  BY <1>2 DEF SensorsApart, Present
<1>8. RequestsAllowed'
  BY <1>2, <1>6 DEF RequestsAllowed
<1>9. ColumnsWritten'
  <2>1. "key" \notin Touched(req[c].edit) => EditedKey(req[c].edit, copy[c].key) = copy[c].key
    BY DEF Touched, EditedKey
  <2>2. "spec" \notin Touched(req[c].edit) => EditedSpec(req[c].edit, copy[c].spec) = copy[c].spec
    BY DEF Touched, EditedSpec
  <2> QED
    BY <1>2, <1>4, <1>5, <1>6, <2>1, <2>2 DEF ColumnsWritten
<1>10. \A j \in Ids : RegistrySensor(j)' = RegistrySensor(j)
  <2> SUFFICES ASSUME NEW j \in Ids PROVE RegistrySensor(j)' = RegistrySensor(j)
    OBVIOUS
  <2>1. CASE table[j] = table[i]
    BY <1>2, <1>4, <1>5, <2>1, DistinctAssumption DEF RegistrySensor, Present
  <2>2. CASE table[j] # table[i]
    BY <1>2, <1>5, <2>2 DEF RegistrySensor, Present
  <2> QED
    BY <2>1, <2>2
<1> QED
  BY <1>2, <1>7, <1>8, <1>9, <1>10 DEF Registry!vars

(* A column is written, behind the mutex.                                   *)
LEMMA WriteStep ==
  ASSUME RInv, IInv', NEW c \in Clients, PatchWrite(c)
  PROVE  RInv' /\ UNCHANGED Registry!vars
<1> USE DEF RInv
<1>1. PICK f \in todo[c] :
        /\ heap' = [heap EXCEPT ![ref[c]] =
                     IF f = "key"
                       THEN [@ EXCEPT !.key = EditedKey(req[c].edit, copy[c].key)]
                       ELSE [@ EXCEPT !.spec = EditedSpec(req[c].edit, copy[c].spec)]]
        /\ todo' = [todo EXCEPT ![c] = @ \ {f}]
  BY DEF PatchWrite
<1>2. /\ pc[c] = "write" /\ f \in Columns
      /\ UNCHANGED <<table, issued, lock, pc, req, ref, copy>>
  BY DEF PatchWrite, IInv, TypeOK
<1>3. PICK o \in Versions : o = ref[c] /\ heap[o] \in Object
  BY <1>2 DEF IInv, CallsWellFormed, TypeOK, Born, Versions
<1>4. lock = c /\ c # NoClient
  BY <1>2, DistinctAssumption DEF IInv, LockHeld
<1>5. /\ \A n \in Versions \ {o} : heap'[n] = heap[n]
      /\ heap'[o] = IF f = "key"
                      THEN [heap[o] EXCEPT !.key = EditedKey(req[c].edit, copy[c].key)]
                      ELSE [heap[o] EXCEPT !.spec = EditedSpec(req[c].edit, copy[c].spec)]
      /\ todo'[c] = todo[c] \ {f}
  BY <1>1, <1>3 DEF IInv, TypeOK
<1>6. /\ heap'[o].version = heap[o].version /\ heap'[o].data = heap[o].data
      /\ f = "key" => heap'[o].key = EditedKey(req[c].edit, copy[c].key) /\ heap'[o].spec = heap[o].spec
      /\ f = "spec" => heap'[o].spec = EditedSpec(req[c].edit, copy[c].spec) /\ heap'[o].key = heap[o].key
  BY <1>3, <1>5 DEF Object
<1>7. SensorsApart' /\ RequestsAllowed'
  BY <1>2 DEF SensorsApart, Present, RequestsAllowed
<1>8. ColumnsWritten'
  <2>1. \A d \in Clients : pc'[d] = "write" => d = c
    BY <1>2, <1>4 DEF IInv, LockHeld
  <2> QED
    BY <1>2, <1>3, <1>5, <1>6, <2>1 DEF ColumnsWritten, Columns
<1>9. \A j \in Ids : RegistrySensor(j)' = RegistrySensor(j)
  <2> SUFFICES ASSUME NEW j \in Ids PROVE RegistrySensor(j)' = RegistrySensor(j)
    OBVIOUS
  <2>1. CASE table[j] = o
    BY <1>2, <1>3, <1>4, <1>6, <2>1 DEF RegistrySensor, Present
  <2>2. CASE table[j] # o /\ Present(j)
    <3>1. table[j] \in Versions
      BY <2>2, PresentFacts
    <3>2. heap'[table[j]] = heap[table[j]]
      BY <1>5, <2>2, <3>1
    <3> QED
      BY <1>2, <1>3, <1>4, <2>2, <3>2 DEF RegistrySensor, Present
  <2>3. CASE ~Present(j)
    BY <1>2, <2>3 DEF RegistrySensor, Present
  <2> QED
    BY <2>1, <2>2, <2>3
<1> QED
  BY <1>2, <1>7, <1>8, <1>9 DEF Registry!vars

(* The new version is stamped, and the whole patch shows.                   *)
LEMMA StampStep ==
  ASSUME RInv, IInv', NEW c \in Clients, PatchStamp(c)
  PROVE  RInv' /\ Registry!Next
<1> USE DEF RInv
<1>1. PICK i \in Ids : i = target[c]
  BY DEF PatchStamp, IInv, CallsWellFormed
<1> DEFINE o == table[i]
           e == req[c].edit
           obj == [key |-> EditedKey(e, copy[c].key), spec |-> EditedSpec(e, copy[c].spec),
                   data |-> heap[o].data, version |-> issued + 1]
<1>2. /\ pc[c] = "write" /\ todo[c] = {} /\ lock = c /\ c # NoClient /\ Memory /\ ref[c] = o
      /\ issued < MaxVersion /\ issued' = issued + 1 /\ lock' = NoClient
      /\ heap' = [heap EXCEPT ![o] = [heap[o] EXCEPT !.version = issued + 1]]
      /\ pc' = [pc EXCEPT ![c] = "fetch"]
      /\ UNCHANGED <<table, req>>
  BY <1>1, DistinctAssumption DEF PatchStamp, Goto, IInv, LockHeld
<1>3. o \in 1..issued /\ heap[o] \in Object /\ Present(i)
  BY <1>2 DEF IInv, CallsWellFormed, Born, Present, TypeOK
<1>4. issued + 1 \in Versions
  BY <1>2 DEF IInv, TypeOK, Versions
<1>5. heap[o].key = EditedKey(e, copy[c].key) /\ heap[o].spec = EditedSpec(e, copy[c].spec)
  BY <1>2 DEF ColumnsWritten
<1>6. obj \in Object /\ [heap[o] EXCEPT !.version = issued + 1] = obj
  BY <1>3, <1>4, <1>5 DEF Object
<1>7. Mapped[i] = [key |-> copy[c].key, spec |-> copy[c].spec,
                   data |-> heap[o].data, version |-> heap[o].version]
  BY <1>2, <1>3 DEF Mapped, RegistrySensor
<1>8. Mapped' = [Mapped EXCEPT ![i] = obj]
  <2> DEFINE full == obj
  <2>1. heap' = [heap EXCEPT ![o] = full]
    BY <1>2, <1>6
  <2>2. full = [key |-> full.key, spec |-> full.spec, data |-> full.data, version |-> full.version]
    OBVIOUS
  <2> HIDE DEF full
  <2>3. full \in Object
    BY <1>6 DEF full
  <2>4. Mapped' = [Mapped EXCEPT ![i] =
          [key |-> full.key, spec |-> full.spec, data |-> full.data, version |-> full.version]]
    BY <1>2, <1>3, <2>1, <2>3, ObjectReplaced
  <2> QED
    BY <2>2, <2>4 DEF full
<1>9. e \in Edits /\ e.valid
  BY <1>2 DEF IInv, CallsWellFormed, RequestsAllowed
<1>10. RequestsAllowed' /\ ColumnsWritten'
  BY <1>2, EffectInv
<1>11. SensorsApart'
  BY <1>2 DEF SensorsApart, Present
<1>12. Registry!Next
  <2>1. obj = [key |-> EditedKey(e, Mapped[i].key), spec |-> EditedSpec(e, Mapped[i].spec),
               data |-> Mapped[i].data, version |-> issued + 1]
    BY <1>7
  <2> HIDE DEF e, obj
  <2> QED
    BY <1>2, <1>3, <1>8, <1>9, <2>1, PatchMapped
<1> QED
  BY <1>10, <1>11, <1>12

(* Postgres: the row is updated.                                            *)
LEMMA UpdateStep ==
  ASSUME RInv, IInv', NEW c \in Clients, PatchUpdate(c), VersionMatches(c),
         ~KeyInUse(EditedKey(req[c].edit, heap[table[target[c]]].key), Ids \ {target[c]})
  PROVE  RInv' /\ Registry!Next
<1> USE DEF RInv
<1>1. PICK i \in Ids : i = target[c]
  BY DEF PatchUpdate, Applicable, DocumentRead, IInv, CallsWellFormed
<1> DEFINE o == table[i]
           e == req[c].edit
           obj == [key |-> EditedKey(e, heap[o].key), spec |-> EditedSpec(e, heap[o].spec),
                   data |-> heap[o].data, version |-> issued + 1]
<1>2. /\ pc[c] = "read" /\ Columns \subseteq got[c] /\ ~Memory
      /\ issued < MaxVersion /\ issued' = issued + 1
      /\ heap' = [heap EXCEPT ![o] = Updated(heap[o], e, copy[c], issued + 1)]
      /\ pc' = [pc EXCEPT ![c] = "fetch"]
      /\ UNCHANGED <<table, lock, req>>
  BY <1>1 DEF PatchUpdate, Applicable, DocumentRead, Goto
<1>3. lock = NoClient
  BY <1>2 DEF IInv, LockHeld, TypeOK
<1>4. Present(i) /\ o \in Versions /\ heap[o] \in Object
  BY <1>1, PresentFacts DEF VersionMatches
<1>5. copy[c].key = heap[o].key /\ copy[c].spec = heap[o].spec
  <2>1. \A f \in Columns : copy[c][f] = heap[o][f]
    BY <1>1, <1>2, <1>3 DEF IInv, DocumentsFresh, Writing
  <2> QED
    BY <2>1 DEF Columns
<1>6. Updated(heap[o], e, copy[c], issued + 1) = obj
  <2>1. "key" \notin Touched(e) => EditedKey(e, heap[o].key) = heap[o].key
    BY DEF Touched, EditedKey
  <2>2. "spec" \notin Touched(e) => EditedSpec(e, heap[o].spec) = heap[o].spec
    BY DEF Touched, EditedSpec
  <2> HIDE DEF e, o
  <2> QED
    BY <1>5, <2>1, <2>2 DEF Updated
<1>7. obj \in Object
  <2>1. /\ e.key \in Keys \cup {NoKey} /\ e.add \in SUBSET Items
        /\ heap[o].key \in Keys /\ heap[o].spec \in SUBSET Items
    BY <1>4 DEF IInv, TypeOK, Requests, Edit, Object
  <2>2. issued + 1 \in Versions
    BY <1>2 DEF IInv, TypeOK, Versions
  <2> HIDE DEF e, o
  <2> QED
    BY <1>4, <2>1, <2>2 DEF EditedKey, EditedSpec, Object
<1>8. Mapped[i] = [key |-> heap[o].key, spec |-> heap[o].spec,
                   data |-> heap[o].data, version |-> heap[o].version]
  BY <1>3, <1>4, FreeFacts DEF Mapped
<1>9. Mapped' = [Mapped EXCEPT ![i] = obj]
  <2> DEFINE full == obj
  <2>1. heap' = [heap EXCEPT ![o] = full]
    BY <1>2, <1>6
  <2>2. full = [key |-> full.key, spec |-> full.spec, data |-> full.data, version |-> full.version]
    OBVIOUS
  <2> HIDE DEF full
  <2>3. full \in Object
    BY <1>7 DEF full
  <2>4. Mapped' = [Mapped EXCEPT ![i] =
          [key |-> full.key, spec |-> full.spec, data |-> full.data, version |-> full.version]]
    BY <1>2, <1>3, <1>4, <2>1, <2>3, ObjectReplaced
  <2> QED
    BY <2>2, <2>4 DEF full
<1>10. e \in Edits /\ e.valid
  BY <1>2 DEF IInv, CallsWellFormed, RequestsAllowed
<1>11. RequestsAllowed' /\ ColumnsWritten'
  BY <1>2, <1>3, EffectInv
<1>12. SensorsApart'
  BY <1>2 DEF SensorsApart, Present
<1>13. Registry!Next
  <2>1. obj = [key |-> EditedKey(e, Mapped[i].key), spec |-> EditedSpec(e, Mapped[i].spec),
               data |-> Mapped[i].data, version |-> issued + 1]
    BY <1>8
  <2>2. ~Registry!KeyInUse(EditedKey(e, Mapped[i].key), Ids \ {i})
    BY <1>1, <1>3, <1>8, SameKeys
  <2> HIDE DEF e, obj
  <2> QED
    BY <1>2, <1>4, <1>9, <1>10, <2>1, <2>2, PatchMapped
<1> QED
  BY <1>11, <1>12, <1>13

-----------------------------------------------------------------------------

LEMMA RInit == Init => RInv /\ Registry!Init
<1> SUFFICES ASSUME Init PROVE RInv /\ Registry!Init
  OBVIOUS
<1>1. IInv
  BY InitInv
<1>2. SensorsApart /\ RequestsAllowed /\ ColumnsWritten
  BY DEF Init, SensorsApart, Present, RequestsAllowed, ColumnsWritten, NoRequest, Request
<1>3. \A i \in Ids : RegistrySensor(i) = Registry!Absent
  BY DEF Init, RegistrySensor, Present, Registry!Absent
<1> QED
  BY <1>1, <1>2, <1>3 DEF RInv, Registry!Init, Init

LEMMA RNext == RInv /\ [Next]_vars => RInv' /\ [Registry!Next]_Registry!vars
<1> SUFFICES ASSUME RInv, [Next]_vars PROVE RInv' /\ (Registry!Next \/ UNCHANGED Registry!vars)
  OBVIOUS
<1>1. IInv'
  BY NextInv DEF RInv
<1>2. CASE UNCHANGED vars
  <2>1. UNCHANGED <<table, heap, issued, lock, pc, req, ref, copy, todo>>
    BY <1>2 DEF vars, store
  <2>2. SensorsApart' /\ RequestsAllowed' /\ ColumnsWritten'
    BY <2>1 DEF RInv, SensorsApart, Present, RequestsAllowed, ColumnsWritten
  <2>3. \A i \in Ids : RegistrySensor(i)' = RegistrySensor(i)
    BY <2>1 DEF RegistrySensor, Present
  <2> QED
    BY <1>1, <2>1, <2>2, <2>3 DEF RInv, Registry!vars
<1>3. ASSUME NEW c \in Clients, Quiet(c)
      PROVE  RInv' /\ UNCHANGED Registry!vars
  BY <1>1, <1>3, QuietMapped, QuietInv DEF RInv
<1>4. ASSUME NEW c \in Clients, Call(c) \/ Step(c)
      PROVE  RInv' /\ (Registry!Next \/ UNCHANGED Registry!vars)
  <2>1. ASSUME NEW code, Refuse(c, code), pc[c] # "write"
        PROVE  RInv' /\ UNCHANGED Registry!vars
    BY <1>3, <2>1, RefuseQuiet DEF Refuse, RInv
  <2>2. CASE \/ Call(c) \/ AdmitRegister(c) \/ AdmitQuery(c) \/ AdmitResolved(c) \/ ResolveIdentity(c)
             \/ PatchLoad(c) \/ PatchRead(c) \/ PatchInapplicable(c) \/ PatchProbe(c)
             \/ Fetch(c) \/ Render(c) \/ RespondSensor(c) \/ RespondDeleted(c) \/ StatementFails(c)
    BY <1>3, <2>2, StepQuiet DEF RInv
  <2>3. CASE RegisterSensor(c)
    <3>1. pc[c] # "write"
      BY <2>3 DEF RegisterSensor
    <3> QED
      BY <1>1, <2>1, <2>3, <3>1, RegisterStep
  <2>4. CASE ReportSensor(c)
    <3>1. pc[c] # "write" /\ (~Present(target[c]) => Refuse(c, "notfound"))
      BY <2>4 DEF ReportSensor
    <3> QED
      BY <1>1, <2>1, <2>4, <3>1, ReportStep
  <2>5. CASE DeleteSensor(c)
    <3>1. pc[c] # "write" /\ (~Present(target[c]) => Refuse(c, "notfound"))
      BY <2>5 DEF DeleteSensor
    <3> QED
      BY <1>1, <2>1, <2>5, <3>1, DeleteStep
  <2>6. CASE PatchLock(c)
    <3>1. pc[c] # "write" /\ (~VersionMatches(c) => \E code \in Results : Refuse(c, code))
      BY <2>6 DEF PatchLock, Applicable, DocumentRead, Results
    <3> QED
      BY <1>1, <2>1, <2>6, <3>1, LockStep
  <2>7. CASE PatchWrite(c)
    BY <1>1, <2>7, WriteStep
  <2>8. CASE PatchStamp(c)
    BY <1>1, <2>8, StampStep
  <2>9. CASE PatchUpdate(c)
    <3>1. pc[c] # "write"
      BY <2>9 DEF PatchUpdate, Applicable, DocumentRead
    <3>2. CASE ~VersionMatches(c)
      <4>1. Quiet(c)
        BY <2>9, <3>1, <3>2, MoveQuiet DEF PatchUpdate, PCs, RInv
      <4> QED
        BY <1>3, <4>1
    <3>3. CASE /\ VersionMatches(c)
               /\ KeyInUse(EditedKey(req[c].edit, heap[table[target[c]]].key), Ids \ {target[c]})
      BY <2>1, <2>9, <3>1, <3>3 DEF PatchUpdate
    <3> QED
      BY <1>1, <2>9, <3>2, <3>3, UpdateStep
  <2> QED
    BY <1>4, <2>2, <2>3, <2>4, <2>5, <2>6, <2>7, <2>8, <2>9 DEF Step
<1> QED
  BY <1>2, <1>4 DEF Next

(* The service implements the contract of the store, over either store:     *)
(* whatever its store calls and field accesses are interleaved with, each   *)
(* call takes effect at once or not at all, and a patch is an edit some     *)
(* client asked for, applied to the sensor as it is at that moment.         *)
THEOREM Implementation == Spec => ImplementsRegistry
<1>1. Spec => Registry!Init /\ [][Registry!Next]_Registry!vars
  BY RInit, RNext, PTL DEF Spec
<1> QED
  BY <1>1 DEF ImplementsRegistry, Registry!Spec

-----------------------------------------------------------------------------
(* Over Postgres the contract's patch checks the natural key.               *)

LEMMA KeysNext ==
  ASSUME ~Memory, RInv, Registry!NaturalKeysUnique, Registry!Next
  PROVE  Registry!NaturalKeysUnique'
<1> DEFINE Unique(f) == \A i, j \in Ids :
             f[i].version # 0 /\ f[j].version # 0 /\ f[i].key = f[j].key => i = j
<1>1. /\ Registry!NaturalKeysUnique <=> Unique(Mapped)
      /\ Registry!NaturalKeysUnique' <=> Unique(Mapped')
  BY DEF Registry!NaturalKeysUnique, Registry!Present, Mapped
<1>2. \A i \in Ids : Mapped[i] = [key |-> Mapped[i].key, spec |-> Mapped[i].spec,
                                  data |-> Mapped[i].data, version |-> Mapped[i].version]
  BY DEF Mapped, RegistrySensor
<1>3. Mapped = [i \in Ids |-> Mapped[i]]
  BY DEF Mapped
<1>4. ASSUME NEW i \in Ids, NEW x, Mapped' = [Mapped EXCEPT ![i] = x],
             \/ x.version = 0
             \/ \A j \in Ids \ {i} : Mapped[j].version = 0 \/ Mapped[j].key # x.key
      PROVE  Unique(Mapped')
  <2>1. Mapped'[i] = x /\ \A j \in Ids \ {i} : Mapped'[j] = Mapped[j]
    BY <1>3, <1>4
  <2>2. Unique(Mapped)
    BY <1>1
  <2> QED
    BY <1>4, <2>1, <2>2
<1>5. PICK i \in Ids :
        \/ \E k \in Keys, s \in Specs : Registry!Register(i, k, s)
        \/ \E v \in Versions, e \in Edits : e.valid /\
             Registry!Patch(i, v, [key |-> e.key, add |-> e.add, del |-> e.del])
        \/ \E r \in Clients : Registry!SendData(i, r)
        \/ Registry!Delete(i)
  BY DEF Registry!Next, Registry!Versions, Versions
<1>6. ASSUME NEW k, NEW s, Registry!Register(i, k, s)
      PROVE  Unique(Mapped')
  <2> DEFINE x == [key |-> k, spec |-> s, data |-> {}, version |-> issued + 1]
  <2>1. Mapped' = [Mapped EXCEPT ![i] = x]
    BY <1>6 DEF Registry!Register, Mapped
  <2>2. \A j \in Ids : Mapped[j].version = 0 \/ Mapped[j].key # x.key
    BY <1>6 DEF Registry!Register, Registry!KeyInUse, Registry!Present, Mapped
  <2> HIDE DEF x
  <2> QED
    BY <1>4, <2>1, <2>2
<1>7. ASSUME NEW v, NEW e, Registry!Patch(i, v, e)
      PROVE  Unique(Mapped')
  <2> DEFINE x == [Mapped[i] EXCEPT !.key = Registry!EditedKey(e, Mapped[i].key),
                                    !.spec = Registry!EditedSpec(e, Mapped[i].spec),
                                    !.version = issued + 1]
  <2>1. Mapped' = [Mapped EXCEPT ![i] = x]
    BY <1>3, <1>7 DEF Registry!Patch, Mapped
  <2>2. x.key = Registry!EditedKey(e, Mapped[i].key)
    BY <1>2
  <2>3. \A j \in Ids \ {i} :
           Mapped[j].version = 0 \/ Mapped[j].key # Registry!EditedKey(e, Mapped[i].key)
    BY <1>7 DEF Registry!Patch, Registry!KeyInUse, Registry!Present, Mapped
  <2> HIDE DEF x
  <2> QED
    BY <1>4, <2>1, <2>2, <2>3
<1>8. ASSUME NEW r, Registry!SendData(i, r)
      PROVE  Unique(Mapped')
  <2>1. /\ Mapped'[i].key = Mapped[i].key /\ Mapped'[i].version = Mapped[i].version
        /\ \A j \in Ids \ {i} : Mapped'[j] = Mapped[j]
    BY <1>2, <1>3, <1>8 DEF Registry!SendData, Mapped
  <2> QED
    BY <1>1, <2>1
<1>9. ASSUME Registry!Delete(i)
      PROVE  Unique(Mapped')
  <2>1. Mapped' = [Mapped EXCEPT ![i] = Registry!Absent] /\ Registry!Absent.version = 0
    BY <1>9 DEF Registry!Delete, Registry!Absent, Mapped
  <2> QED
    BY <1>4, <2>1
<1> HIDE DEF Unique
<1> QED
  BY <1>1, <1>5, <1>6, <1>7, <1>8, <1>9

(* Over Postgres no two sensors ever share a natural key (storage.go:65),   *)
(* in whatever order the calls' statements reach the store.  In memory this *)
(* is false (README).                                                       *)
THEOREM KeysStayUniqueInPostgres == ASSUME ~Memory PROVE Spec => []NaturalKeysUnique
<1> DEFINE KInv == RInv /\ Registry!NaturalKeysUnique
<1>1. Init => KInv
  <2> SUFFICES ASSUME Init PROVE KInv
    OBVIOUS
  <2>1. RInv /\ Registry!Init
    BY RInit
  <2>2. \A i \in Ids : ~Registry!Present(i)
    BY <2>1, SamePresent DEF Init, Present, RInv
  <2> QED
    BY <2>1, <2>2 DEF Registry!NaturalKeysUnique
<1>2. KInv /\ [Next]_vars => KInv'
  <2> SUFFICES ASSUME KInv, [Next]_vars PROVE KInv'
    OBVIOUS
  <2>1. RInv' /\ (Registry!Next \/ UNCHANGED Registry!vars)
    BY RNext
  <2>2. CASE UNCHANGED Registry!vars
    BY <2>1, <2>2 DEF Registry!vars, Registry!NaturalKeysUnique, Registry!Present
  <2> QED
    BY <2>1, <2>2, KeysNext
<1>3. KInv => NaturalKeysUnique
  <2> SUFFICES ASSUME KInv, StoreFree,
                      NEW i \in Ids, NEW j \in Ids, Present(i), Present(j),
                      heap[table[i]].key = heap[table[j]].key
               PROVE  i = j
    BY DEF NaturalKeysUnique
  <2>1. Registry!Present(i) /\ Registry!Present(j)
    BY SamePresent DEF RInv
  <2>2. Mapped[i].key = Mapped[j].key
    BY FreeFacts DEF StoreFree, Mapped
  <2> QED
    BY <2>1, <2>2 DEF Registry!NaturalKeysUnique, Mapped
<1> QED
  BY <1>1, <1>2, <1>3, PTL DEF Spec

-----------------------------------------------------------------------------
(* Replies.                                                                 *)

\* What a reply is made of, of one client.
LocalsKept(d) ==
  /\ pc'[d] = pc[d] /\ target'[d] = target[d] /\ ref'[d] = ref[d] /\ copy'[d] = copy[d]
  /\ got'[d] = got[d] /\ wrote'[d] = wrote[d] /\ view'[d] = view[d] /\ req'[d] = req[d]

\* A step of a client leaves the locals of the others alone, shows its client
\* a sensor only when it responds, and gets to where a reply is read only by
\* a fetch.
Framed(c) ==
  /\ \A d \in Clients \ {c} : LocalsKept(d)
  /\ view'[c] = view[c] \/ RespondSensor(c)
  /\ pc'[c] = "render" => Fetch(c) \/ Render(c)

LEMMA AnswerFramed ==
  ASSUME IInv, NEW c \in Clients, NEW code, Answer(c, code), view' = view \/ RespondSensor(c)
  PROVE  Framed(c)
<1>1. \A d \in Clients \ {c} : view'[d] = view[d]
  BY DEF RespondSensor, IInv, TypeOK
<1> QED
  BY <1>1 DEF Answer, Goto, IInv, TypeOK, LocalsKept, Framed

LEMMA RefuseFramed ==
  ASSUME IInv, NEW c \in Clients, NEW code, Refuse(c, code)
  PROVE  Framed(c)
BY AnswerFramed DEF Refuse

LEMMA MoveFramed ==
  ASSUME IInv, NEW c \in Clients, NEW label \in PCs \ {"render"}, Goto(c, label),
         UNCHANGED <<copy, got, view>>,
         \A d \in Clients \ {c} : /\ req'[d] = req[d] /\ target'[d] = target[d]
                               /\ ref'[d] = ref[d] /\ wrote'[d] = wrote[d]
  PROVE  Framed(c)
BY DEF Goto, IInv, TypeOK, LocalsKept, Framed

LEMMA GetStatusFramed ==
  ASSUME IInv, NEW c \in Clients, NEW i, NEW names, NEW next \in {"read", "render"},
         GetStatus(c, i, names, next), next = "render" => Fetch(c)
  PROVE  Framed(c)
<1>1. pc' = [pc EXCEPT ![c] = next] /\ UNCHANGED <<req, wrote, view>>
  BY DEF GetStatus, Goto
<1>2. \A d \in Clients \ {c} : target'[d] = target[d] /\ ref'[d] = ref[d]
                            /\ copy'[d] = copy[d] /\ got'[d] = got[d]
  BY DEF GetStatus, IInv, TypeOK
<1> QED
  BY <1>1, <1>2 DEF IInv, TypeOK, LocalsKept, Framed

LEMMA RepliesFrame ==
  ASSUME IInv, NEW c \in Clients, Call(c) \/ Step(c)
  PROVE  Framed(c)
<1>1. CASE Call(c)
  <2>1. /\ Goto(c, "admit") /\ UNCHANGED <<target, ref, copy, got, wrote, view>>
        /\ \E x : req' = [req EXCEPT ![c] = x]
    BY <1>1 DEF Call
  <2>2. \A d \in Clients \ {c} : req'[d] = req[d]
    BY <2>1 DEF IInv, TypeOK
  <2> QED
    BY <2>1, <2>2, MoveFramed DEF PCs
<1>2. CASE AdmitRegister(c) \/ AdmitQuery(c) \/ AdmitResolved(c) \/ ResolveIdentity(c)
  <2>1. \/ \E code \in Results : Refuse(c, code)
        \/ /\ \E label \in PCs \ {"render"} : Goto(c, label)
           /\ target' = target \/ \E i : target' = [target EXCEPT ![c] = i]
           /\ UNCHANGED <<req, ref, copy, got, wrote, view>>
    BY <1>2 DEF AdmitRegister, AdmitQuery, AdmitResolved, ResolveIdentity, PCs, Results
  <2>2. CASE \E code \in Results : Refuse(c, code)
    BY <2>2, RefuseFramed
  <2>3. ASSUME NEW label \in PCs \ {"render"}, Goto(c, label),
               target' = target \/ \E i : target' = [target EXCEPT ![c] = i],
               UNCHANGED <<req, ref, copy, got, wrote, view>>
        PROVE  Framed(c)
    <3>1. \A d \in Clients \ {c} : target'[d] = target[d]
      BY <2>3 DEF IInv, TypeOK
    <3> QED
      BY <2>3, <3>1, MoveFramed
  <2> QED
    BY <2>1, <2>2, <2>3
<1>3. CASE RegisterSensor(c) \/ ReportSensor(c) \/ DeleteSensor(c)
  <2>1. \/ \E code \in Results : Refuse(c, code)
        \/ /\ \E label \in PCs \ {"render"} : Goto(c, label)
           /\ target' = target \/ \E i : target' = [target EXCEPT ![c] = i]
           /\ \E v : wrote' = [wrote EXCEPT ![c] = v]
           /\ UNCHANGED <<req, ref, copy, got, view>>
    BY <1>3 DEF RegisterSensor, ReportSensor, DeleteSensor, PCs, Results
  <2>2. CASE \E code \in Results : Refuse(c, code)
    BY <2>2, RefuseFramed
  <2>3. ASSUME NEW label \in PCs \ {"render"}, Goto(c, label),
               target' = target \/ \E i : target' = [target EXCEPT ![c] = i],
               NEW v, wrote' = [wrote EXCEPT ![c] = v],
               UNCHANGED <<req, ref, copy, got, view>>
        PROVE  Framed(c)
    <3>1. \A d \in Clients \ {c} : target'[d] = target[d] /\ wrote'[d] = wrote[d]
      BY <2>3 DEF IInv, TypeOK
    <3> QED
      BY <2>3, <3>1, MoveFramed
  <2> QED
    BY <2>1, <2>2, <2>3
<1>4. CASE PatchLoad(c) \/ Fetch(c)
  <2>1. \/ \E code \in Results : Refuse(c, code)
        \/ GetStatus(c, req[c].id, Columns, "read")
        \/ Fetch(c) /\ GetStatus(c, target[c], Fields, "render")
    BY <1>4 DEF PatchLoad, Fetch, Missing, Results
  <2> QED
    BY <2>1, RefuseFramed, GetStatusFramed
<1>5. CASE PatchRead(c) \/ Render(c)
  <2>1. PICK f \in Fields : ReadField(c, f)
    BY <1>5 DEF PatchRead, Render, Columns, Fields
  <2>2. pc[c] = "render" => Render(c)
    BY <1>5 DEF PatchRead
  <2> QED
    BY <2>1, <2>2 DEF ReadField, IInv, TypeOK, LocalsKept, Framed
<1>6. CASE PatchInapplicable(c) \/ PatchProbe(c) \/ StatementFails(c)
  BY <1>6, RefuseFramed DEF PatchInapplicable, PatchProbe, StatementFails
<1>7. CASE PatchLock(c)
  <2>1. \/ \E code \in Results : Refuse(c, code)
        \/ /\ Goto(c, "write") /\ \E o : ref' = [ref EXCEPT ![c] = o]
           /\ UNCHANGED <<req, target, copy, got, wrote, view>>
    BY <1>7 DEF PatchLock, Results
  <2>2. CASE \E code \in Results : Refuse(c, code)
    BY <2>2, RefuseFramed
  <2>3. ASSUME NEW o, ref' = [ref EXCEPT ![c] = o], Goto(c, "write"),
               UNCHANGED <<req, target, copy, got, wrote, view>>
        PROVE  Framed(c)
    <3>1. \A d \in Clients \ {c} : ref'[d] = ref[d]
      BY <2>3 DEF IInv, TypeOK
    <3> QED
      BY <2>3, <3>1, MoveFramed DEF PCs
  <2> QED
    BY <2>1, <2>2, <2>3
<1>8. CASE PatchWrite(c)
  BY <1>8 DEF PatchWrite, LocalsKept, Framed
<1>9. ASSUME NEW v, wrote' = [wrote EXCEPT ![c] = v], Goto(c, "fetch"),
             UNCHANGED <<req, target, ref, copy, got, view>>
      PROVE  Framed(c)
  <2>1. \A d \in Clients \ {c} : wrote'[d] = wrote[d]
    BY <1>9 DEF IInv, TypeOK
  <2> QED
    BY <1>9, <2>1, MoveFramed DEF PCs
<1>10. CASE PatchStamp(c)
  BY <1>9, <1>10 DEF PatchStamp
<1>11. CASE PatchUpdate(c)
  <2>1. \/ Refuse(c, "keyclash")
        \/ Goto(c, "probe") /\ UNCHANGED <<req, target, ref, copy, got, wrote, view>>
        \/ /\ wrote' = [wrote EXCEPT ![c] = issued + 1] /\ Goto(c, "fetch")
           /\ UNCHANGED <<req, target, ref, copy, got, view>>
    BY <1>11 DEF PatchUpdate
  <2> QED
    BY <1>9, <2>1, RefuseFramed, MoveFramed DEF PCs
<1>12. CASE RespondSensor(c) \/ RespondDeleted(c)
  BY <1>12, AnswerFramed DEF RespondSensor, RespondDeleted
<1> QED
  BY <1>1, <1>2, <1>3, <1>4, <1>5, <1>6, <1>7, <1>8, <1>10, <1>11, <1>12 DEF Step

\* What the store holds only grows newer: objects are stamped with later
\* versions, and a sensor that is registered anew has a version of its own.
Rises ==
  /\ issued <= issued'
  /\ \A n \in Versions : heap[n].version <= heap'[n].version
  /\ \A i \in Ids : Present(i)' => table'[i] = table[i] \/ heap'[table'[i]].version > issued

LEMMA StoreRises ==
  ASSUME IInv, IInv', NEW c \in Clients, Call(c) \/ Step(c)
  PROVE  Rises
<1>1. /\ issued \in Nat
      /\ \A n \in Versions : heap[n].version \in Nat /\ heap[n].version <= issued
  <2>1. issued \in Nat
    BY MaxVersionAssumption DEF IInv, TypeOK
  <2>2. ASSUME NEW n \in Versions PROVE heap[n].version \in Nat /\ heap[n].version <= issued
    <3>1. heap[n] \in Object \cup {NoObject} /\ heap[n].version <= issued
      BY DEF IInv, TypeOK, Drawn
    <3> QED
      BY <3>1, MaxVersionAssumption DEF Object, NoObject, Versions
  <2> QED
    BY <2>1, <2>2
<1> USE DEF Rises
<1>2. CASE UNCHANGED <<table, heap, issued>>
  BY <1>1, <1>2
<1>3. ASSUME NEW o \in Versions, NEW obj, obj.version = issued + 1 \/ obj.version = heap[o].version,
             heap' = [heap EXCEPT ![o] = obj], table' = table, issued' \in {issued, issued + 1}
      PROVE  Rises
  <2>1. heap'[o] = obj /\ \A n \in Versions \ {o} : heap'[n] = heap[n]
    BY <1>3 DEF IInv, TypeOK
  <2>2. heap[o].version <= obj.version
    BY <1>1, <1>3
  <2>3. \A n \in Versions : heap[n].version <= heap'[n].version
    BY <1>1, <2>1, <2>2
  <2>4. issued <= issued'
    BY <1>1, <1>3
  <2> QED
    BY <1>3, <2>3, <2>4
<1>4. CASE RegisterSensor(c)
  <2>1. CASE Refuse(c, "exists")
    BY <1>2, <2>1 DEF Refuse, store
  <2>2. CASE ~Refuse(c, "exists")
    <3>1. PICK i \in Ids : table' = [table EXCEPT ![i] = issued + 1]
      BY <1>4, <2>2 DEF RegisterSensor, IInv, TypeOK, Requests
    <3> DEFINE obj == [key |-> req[c].key, spec |-> req[c].spec, data |-> {}, version |-> issued + 1]
    <3>2. heap' = [heap EXCEPT ![issued + 1] = obj] /\ issued < MaxVersion /\ issued' = issued + 1
      BY <1>4, <2>2 DEF RegisterSensor
    <3>3. issued + 1 \in Versions /\ issued + 1 > issued
      BY <1>1, <3>2, MaxVersionAssumption DEF Versions
    <3>4. /\ heap'[issued + 1].version = issued + 1
          /\ \A n \in Versions \ {issued + 1} : heap'[n] = heap[n]
      BY <3>2, <3>3 DEF IInv, TypeOK
    <3>5. \A j \in Ids : table'[j] = table[j] \/ table'[j] = issued + 1
      BY <3>1 DEF IInv, TypeOK
    <3>6. \A n \in Versions : heap[n].version <= heap'[n].version
      BY <1>1, <3>4
    <3> QED
      BY <1>1, <3>2, <3>3, <3>4, <3>5, <3>6
  <2> QED
    BY <2>1, <2>2
<1>5. CASE ReportSensor(c)
  <2>1. CASE ~Present(target[c])
    BY <1>2, <1>5, <2>1 DEF ReportSensor, Refuse, store
  <2>2. CASE Present(target[c])
    <3> DEFINE o == table[target[c]]
               obj == [heap[o] EXCEPT !.data = heap[o].data \cup {c}]
    <3>1. target[c] \in Ids
      BY <1>5 DEF ReportSensor, IInv, CallsWellFormed
    <3>2. o \in Versions /\ heap[o] \in Object
      BY <2>2, <3>1, PresentFacts
    <3>3. heap' = [heap EXCEPT ![o] = obj] /\ UNCHANGED <<table, issued>>
      BY <1>5, <2>2 DEF ReportSensor
    <3>4. obj.version = heap[o].version
      BY <3>2 DEF Object
    <3> HIDE DEF obj, o, Rises
    <3> QED
      BY <1>3, <3>2, <3>3, <3>4
  <2> QED
    BY <2>1, <2>2
<1>6. CASE DeleteSensor(c)
  <2>1. UNCHANGED <<heap, issued>> /\ \E i : table' = table \/ table' = [table EXCEPT ![i] = 0]
    BY <1>6 DEF DeleteSensor, Refuse, store
  <2>2. \A j \in Ids : table'[j] = table[j] \/ table'[j] = 0
    BY <2>1 DEF IInv, TypeOK
  <2> QED
    BY <1>1, <2>1, <2>2 DEF Present
<1>7. CASE PatchWrite(c)
  <2>1. lock = c /\ ref[c] \in Versions /\ heap[ref[c]] \in Object
    BY <1>7 DEF PatchWrite, IInv, LockHeld, CallsWellFormed, Born, TypeOK, Versions
  <2>2. PICK obj \in {[heap[ref[c]] EXCEPT !.key = EditedKey(req[c].edit, copy[c].key)],
                      [heap[ref[c]] EXCEPT !.spec = EditedSpec(req[c].edit, copy[c].spec)]} :
          heap' = [heap EXCEPT ![ref[c]] = obj] /\ UNCHANGED <<table, issued>>
    BY <1>7 DEF PatchWrite
  <2>3. obj.version = heap[ref[c]].version
    BY <2>1, <2>2 DEF Object
  <2> HIDE DEF Rises
  <2> QED
    BY <1>3, <2>1, <2>2, <2>3
<1>8. CASE PatchStamp(c)
  <2>1. ref[c] \in Versions /\ heap[ref[c]] \in Object
    BY <1>8 DEF PatchStamp, IInv, CallsWellFormed, Born, TypeOK, Versions
  <2> DEFINE obj == [heap[ref[c]] EXCEPT !.version = issued + 1]
  <2>2. heap' = [heap EXCEPT ![ref[c]] = obj] /\ table' = table /\ issued' = issued + 1
    BY <1>8 DEF PatchStamp
  <2>3. obj.version = issued + 1
    BY <2>1 DEF Object
  <2> HIDE DEF Rises, obj
  <2> QED
    BY <1>3, <2>1, <2>2, <2>3
<1>9. CASE PatchUpdate(c)
  <2>1. CASE UNCHANGED <<table, heap, issued>>
    BY <1>2, <2>1
  <2>2. CASE ~UNCHANGED <<table, heap, issued>>
    <3> DEFINE o == table[target[c]]
               obj == Updated(heap[o], req[c].edit, copy[c], issued + 1)
    <3>1. heap' = [heap EXCEPT ![o] = obj] /\ table' = table /\ issued' = issued + 1
          /\ VersionMatches(c)
      BY <1>9, <2>2 DEF PatchUpdate, Refuse, store
    <3>2. o \in Versions
      BY <1>9, <3>1, PresentFacts
      DEF VersionMatches, PatchUpdate, Applicable, DocumentRead, IInv, CallsWellFormed
    <3>3. obj.version = issued + 1
      BY DEF Updated
    <3> HIDE DEF Rises, obj, o
    <3> QED
      BY <1>3, <3>1, <3>2, <3>3
  <2> QED
    BY <2>1, <2>2
<1>10. CASE PatchLock(c)
  BY <1>2, <1>10 DEF PatchLock, Refuse, store
<1>11. Quiet(c) => UNCHANGED <<table, heap, issued>>
  BY DEF Quiet, store
<1> HIDE DEF Rises
<1> QED
  BY <1>2, <1>4, <1>5, <1>6, <1>7, <1>8, <1>9, <1>10, <1>11, StepQuiet DEF Step, Rises

Replying == {"fetch", "render", "respond"}

\* A call that had an effect will read the sensor as the effect left it or as
\* it is later.
WrotePast(c) ==
  /\ wrote[c] <= issued
  /\ pc[c] \notin Replying => wrote[c] = 0
  /\ pc[c] \in Replying => req[c].op = "query" \/ wrote[c] # 0
  /\ pc[c] = "fetch" /\ Present(target[c]) => wrote[c] <= heap[table[target[c]]].version
  /\ pc[c] = "render" => wrote[c] <= heap[ref[c]].version
  /\ pc[c] = "render" /\ "version" \in got[c] => wrote[c] <= copy[c].version

LEMMA OthersWrotePast ==
  ASSUME IInv, IInv', NEW d \in Clients, WrotePast(d), LocalsKept(d), Rises
  PROVE  WrotePast(d)'
<1>1. wrote[d] \in Nat /\ issued \in Nat /\ issued' \in Nat
  BY MaxVersionAssumption DEF IInv, TypeOK
<1>2. \A n \in Versions : heap[n].version \in Nat /\ heap'[n].version \in Nat
  <2> SUFFICES ASSUME NEW n \in Versions PROVE heap[n].version \in Nat /\ heap'[n].version \in Nat
    OBVIOUS
  <2>1. heap[n] \in Object \cup {NoObject} /\ heap'[n] \in Object \cup {NoObject}
    BY DEF IInv, TypeOK
  <2> QED
    BY <2>1 DEF Object, NoObject, Versions
<1>3. wrote'[d] <= issued'
  BY <1>1 DEF WrotePast, LocalsKept, Rises
<1>4. ASSUME pc[d] = "fetch", Present(target[d])' PROVE wrote[d] <= heap'[table'[target[d]]].version
  <2>1. target[d] \in Ids
    BY <1>4 DEF IInv, CallsWellFormed
  <2>2. table[target[d]] \in 0..MaxVersion /\ table'[target[d]] \in Versions
    BY <1>4, <2>1 DEF IInv, TypeOK, Present, Versions, LocalsKept
  <2>3. CASE table'[target[d]] = table[target[d]]
    BY <1>1, <1>2, <1>4, <2>2, <2>3 DEF WrotePast, Rises, Present, LocalsKept, Versions
  <2>4. CASE heap'[table'[target[d]]].version > issued
    BY <1>1, <1>2, <2>2, <2>4 DEF WrotePast
  <2> QED
    BY <1>4, <2>1, <2>3, <2>4 DEF Rises, LocalsKept, Present
<1>5. ASSUME pc[d] = "render" PROVE wrote[d] <= heap'[ref[d]].version
  <2>1. ref[d] \in Versions
    BY <1>5 DEF IInv, CallsWellFormed, TypeOK, Versions
  <2> QED
    BY <1>1, <1>2, <1>5, <2>1 DEF WrotePast, Rises
<1> QED
  BY <1>3, <1>4, <1>5 DEF WrotePast, LocalsKept, Present

\* A call that answers, or goes on without an effect, has had none.
LEMMA OwnWrotePast ==
  ASSUME IInv, IInv', NEW c \in Clients, WrotePast(c), Rises, Call(c) \/ Step(c)
  PROVE  WrotePast(c)'
<1>1. wrote[c] \in Nat /\ issued \in Nat /\ issued' \in Nat /\ issued + 1 > 0
  BY MaxVersionAssumption DEF IInv, TypeOK
<1>2. ASSUME NEW n \in Versions PROVE heap[n].version \in Nat /\ heap'[n].version \in Nat
  <2>1. heap[n] \in Object \cup {NoObject} /\ heap'[n] \in Object \cup {NoObject}
    BY DEF IInv, TypeOK
  <2> QED
    BY <2>1 DEF Object, NoObject, Versions
<1>3. ASSUME NEW code, Answer(c, code) PROVE WrotePast(c)'
  BY <1>1, <1>3 DEF Answer, Goto, IInv, TypeOK, WrotePast, Replying
<1>4. ASSUME NEW code, Refuse(c, code) PROVE WrotePast(c)'
  BY <1>3, <1>4 DEF Refuse
<1>5. ASSUME pc[c] \notin Replying, NEW label \in PCs \ Replying, Goto(c, label), wrote' = wrote
      PROVE  WrotePast(c)'
  <2>1. pc'[c] = label /\ wrote'[c] = 0
    BY <1>5 DEF Goto, IInv, TypeOK, WrotePast
  <2> QED
    BY <1>1, <1>5, <2>1 DEF WrotePast, Replying
<1>6. CASE Call(c) \/ AdmitRegister(c) \/ AdmitResolved(c) \/ ResolveIdentity(c)
  BY <1>4, <1>5, <1>6 DEF Call, AdmitRegister, AdmitResolved, ResolveIdentity, PCs, Replying
<1>7. ASSUME Goto(c, "fetch"), target'[c] \in Ids, req' = req, req[c].op = "query" \/ wrote'[c] # 0,
             \/ wrote'[c] = 0
             \/ /\ wrote'[c] = heap'[table'[target'[c]]].version
                /\ table'[target'[c]] \in Versions /\ wrote'[c] <= issued'
      PROVE  WrotePast(c)'
  <2>1. pc'[c] = "fetch" /\ wrote'[c] \in Nat
    BY <1>7 DEF Goto, IInv, TypeOK
  <2>2. wrote'[c] <= issued'
    BY <1>1, <1>7
  <2>3. Present(target[c])' => wrote'[c] <= heap'[table'[target'[c]]].version
    <3>1. Present(target[c])' => table'[target'[c]] \in Versions
      BY <1>7 DEF Present, IInv, TypeOK, Versions
    <3> QED
      BY <1>2, <1>7, <3>1
  <2> QED
    BY <1>7, <2>1, <2>2, <2>3 DEF WrotePast, Replying
<1>8. CASE AdmitQuery(c)
  <2>1. Goto(c, "fetch") /\ target' = [target EXCEPT ![c] = req[c].id] /\ wrote' = wrote
        /\ pc[c] = "admit" /\ req[c].id \in Ids /\ req' = req /\ req[c].op = "query"
    BY <1>8 DEF AdmitQuery, IInv, CallsWellFormed
  <2>2. target'[c] \in Ids /\ wrote'[c] = 0
    BY <2>1 DEF IInv, TypeOK, WrotePast, Replying
  <2> QED
    BY <1>7, <2>1, <2>2
<1>9. CASE RegisterSensor(c)
  <2>1. CASE Refuse(c, "exists")
    BY <1>4, <2>1
  <2>2. CASE ~Refuse(c, "exists")
    <3>1. PICK i \in Ids : /\ table' = [table EXCEPT ![i] = issued + 1]
                           /\ target' = [target EXCEPT ![c] = i]
      BY <1>9, <2>2 DEF RegisterSensor, IInv, TypeOK, Requests
    <3> DEFINE obj == [key |-> req[c].key, spec |-> req[c].spec, data |-> {}, version |-> issued + 1]
    <3>2. /\ heap' = [heap EXCEPT ![issued + 1] = obj] /\ issued < MaxVersion /\ issued' = issued + 1
          /\ wrote' = [wrote EXCEPT ![c] = issued + 1] /\ Goto(c, "fetch") /\ req' = req
      BY <1>9, <2>2 DEF RegisterSensor
    <3>3. issued + 1 \in Versions
      BY <1>1, <3>2, MaxVersionAssumption DEF Versions
    <3>4. /\ target'[c] = i /\ table'[i] = issued + 1 /\ wrote'[c] = issued + 1
          /\ heap'[issued + 1].version = issued + 1
      BY <3>1, <3>2, <3>3 DEF IInv, TypeOK
    <3> QED
      BY <1>1, <1>7, <3>2, <3>3, <3>4
  <2> QED
    BY <2>1, <2>2
<1>10. CASE ReportSensor(c)
  <2>1. CASE ~Present(target[c])
    BY <1>4, <1>10, <2>1 DEF ReportSensor
  <2>2. CASE Present(target[c])
    <3> DEFINE o == table[target[c]]
               obj == [heap[o] EXCEPT !.data = heap[o].data \cup {c}]
    <3>1. target[c] \in Ids
      BY <1>10 DEF ReportSensor, IInv, CallsWellFormed
    <3>2. o \in Versions /\ heap[o] \in Object
      BY <2>2, <3>1, PresentFacts
    <3>3. /\ heap' = [heap EXCEPT ![o] = obj] /\ UNCHANGED <<table, issued, target, req>>
          /\ wrote' = [wrote EXCEPT ![c] = heap[o].version] /\ Goto(c, "fetch")
      BY <1>10, <2>2 DEF ReportSensor
    <3>4. obj.version = heap[o].version
      BY <3>2 DEF Object
    <3> HIDE DEF obj
    <3>5. heap'[o].version = heap[o].version /\ wrote'[c] = heap[o].version
      BY <3>2, <3>3, <3>4 DEF IInv, TypeOK
    <3>6. heap[o].version <= issued /\ heap[o].version # 0
      BY <3>2, MaxVersionAssumption DEF IInv, Drawn, Object, Versions
    <3> QED
      BY <1>7, <3>1, <3>2, <3>3, <3>5, <3>6
  <2> QED
    BY <2>1, <2>2
<1>11. CASE DeleteSensor(c)
  <2>1. CASE ~Present(target[c])
    BY <1>4, <1>11, <2>1 DEF DeleteSensor
  <2>2. CASE Present(target[c])
    <3>1. /\ wrote' = [wrote EXCEPT ![c] = heap[table[target[c]]].version]
          /\ Goto(c, "respond") /\ issued' = issued /\ req' = req
      BY <1>11, <2>2 DEF DeleteSensor
    <3>2. table[target[c]] \in Versions /\ heap[table[target[c]]] \in Object
      BY <1>11, <2>2, PresentFacts DEF DeleteSensor, IInv, CallsWellFormed
    <3>3. wrote'[c] = heap[table[target[c]]].version /\ pc'[c] = "respond"
      BY <3>1 DEF Goto, IInv, TypeOK
    <3>4. heap[table[target[c]]].version <= issued /\ heap[table[target[c]]].version # 0
      BY <3>2, MaxVersionAssumption DEF IInv, Drawn, Object, Versions
    <3> QED
      BY <3>1, <3>3, <3>4 DEF WrotePast, Replying
  <2> QED
    BY <2>1, <2>2
<1>12. CASE PatchLoad(c)
  <2>1. \/ \E code \in Results : Refuse(c, code)
        \/ pc[c] = "load" /\ Goto(c, "read") /\ wrote' = wrote
    BY <1>12 DEF PatchLoad, GetStatus, Results
  <2> QED
    BY <1>4, <1>5, <2>1 DEF PCs, Replying
<1>13. CASE PatchRead(c)
  BY <1>1, <1>13 DEF PatchRead, ReadField, WrotePast, Replying, store
<1>14. CASE PatchInapplicable(c) \/ PatchProbe(c) \/ StatementFails(c)
  BY <1>4, <1>14 DEF PatchInapplicable, PatchProbe, StatementFails
<1>15. CASE PatchLock(c)
  BY <1>4, <1>5, <1>15 DEF PatchLock, Applicable, DocumentRead, PCs, Replying
<1>16. CASE PatchWrite(c)
  BY <1>1, <1>16 DEF PatchWrite, WrotePast, Replying
<1>17. CASE PatchStamp(c)
  <2>1. /\ pc[c] = "write" /\ issued < MaxVersion /\ issued' = issued + 1
        /\ heap' = [heap EXCEPT ![ref[c]].version = issued + 1]
        /\ wrote' = [wrote EXCEPT ![c] = issued + 1] /\ Goto(c, "fetch")
        /\ UNCHANGED <<table, target, req>>
    BY <1>17 DEF PatchStamp
  <2>2. /\ ref[c] = table[target[c]] /\ ref[c] \in Versions /\ heap[ref[c]] \in Object
        /\ target[c] \in Ids
    BY <2>1 DEF IInv, LockHeld, CallsWellFormed, Born, TypeOK, Versions
  <2>3. heap'[ref[c]].version = issued + 1 /\ wrote'[c] = issued + 1
    BY <2>1, <2>2 DEF IInv, TypeOK, Object
  <2> QED
    BY <1>1, <1>7, <2>1, <2>2, <2>3
<1>18. CASE PatchUpdate(c)
  <2>1. CASE Refuse(c, "keyclash")
    BY <1>4, <2>1
  <2>2. CASE Goto(c, "probe") /\ wrote' = wrote
    BY <1>5, <1>18, <2>2 DEF PatchUpdate, Applicable, DocumentRead, PCs, Replying
  <2>3. CASE ~Refuse(c, "keyclash") /\ ~(Goto(c, "probe") /\ wrote' = wrote)
    <3> DEFINE o == table[target[c]]
               obj == Updated(heap[o], req[c].edit, copy[c], issued + 1)
    <3>1. /\ VersionMatches(c) /\ issued' = issued + 1
          /\ heap' = [heap EXCEPT ![o] = obj]
          /\ wrote' = [wrote EXCEPT ![c] = issued + 1] /\ Goto(c, "fetch")
          /\ UNCHANGED <<table, target, req>>
      BY <1>18, <2>3 DEF PatchUpdate
    <3>2. target[c] \in Ids
      BY <1>18 DEF PatchUpdate, Applicable, DocumentRead, IInv, CallsWellFormed
    <3>3. o \in Versions
      BY <3>1, <3>2, PresentFacts DEF VersionMatches
    <3>4. obj.version = issued + 1
      BY DEF Updated
    <3> HIDE DEF obj
    <3>5. heap'[o].version = issued + 1 /\ wrote'[c] = issued + 1
      BY <3>1, <3>3, <3>4 DEF IInv, TypeOK
    <3> QED
      BY <1>1, <1>7, <3>1, <3>2, <3>3, <3>5
  <2> QED
    BY <2>1, <2>2, <2>3
<1>19. CASE Fetch(c)
  <2>1. CASE Refuse(c, Missing(c))
    BY <1>4, <2>1
  <2>2. CASE Present(target[c]) /\ GetStatus(c, target[c], Fields, "render")
    <3> DEFINE o == table[target[c]]
    <3>1. /\ Goto(c, "render") /\ ref' = [ref EXCEPT ![c] = o]
          /\ UNCHANGED <<table, heap, issued, wrote, req>> /\ pc[c] = "fetch"
      BY <1>19, <2>2 DEF Fetch, GetStatus, store
    <3>2. \/ got' = [got EXCEPT ![c] = {}]
          \/ copy' = [copy EXCEPT ![c] =
               [key |-> heap[o].key, spec |-> heap[o].spec, version |-> heap[o].version]]
      BY <2>2 DEF GetStatus
    <3>3. wrote[c] <= heap[o].version
      BY <1>19, <2>2 DEF Fetch, WrotePast
    <3>4. pc'[c] = "render" /\ ref'[c] = o
      BY <3>1 DEF Goto, IInv, TypeOK
    <3>5. got'[c] = {} \/ copy'[c].version = heap[o].version
      BY <3>2 DEF IInv, TypeOK
    <3> HIDE DEF o
    <3> QED
      BY <3>1, <3>3, <3>4, <3>5 DEF WrotePast, Replying
  <2> QED
    BY <1>19, <2>1, <2>2 DEF Fetch
<1>20. CASE Render(c)
  <2>1. PICK f \in Fields : ReadField(c, f)
    BY <1>20 DEF Render
  <2>2. /\ UNCHANGED <<heap, issued, pc, ref, wrote, req>> /\ pc[c] = "render"
        /\ got'[c] = got[c] \cup {f}
        /\ copy'[c] = [copy[c] EXCEPT ![f] = heap[ref[c]][f]]
    BY <1>20, <2>1 DEF Render, ReadField, store, IInv, TypeOK
  <2>3. copy[c] \in Copy
    BY DEF IInv, TypeOK
  <2>4. /\ f = "version" => copy'[c].version = heap[ref[c]].version
        /\ f # "version" => copy'[c].version = copy[c].version
    BY <2>2, <2>3 DEF Copy
  <2> QED
    BY <2>2, <2>4 DEF WrotePast, Replying
<1>21. CASE RespondSensor(c) \/ RespondDeleted(c)
  BY <1>3, <1>21 DEF RespondSensor, RespondDeleted
<1> QED
  BY <1>6, <1>8, <1>9, <1>10, <1>11, <1>12, <1>13, <1>14, <1>15, <1>16, <1>17, <1>18, <1>19,
     <1>20, <1>21 DEF Step

WInv == IInv /\ \A c \in Clients : WrotePast(c)

LEMMA InitWritten == Init => WInv
<1> SUFFICES ASSUME Init PROVE WInv
  OBVIOUS
<1>1. IInv
  BY InitInv
<1> QED
  BY <1>1, MaxVersionAssumption DEF Init, WInv, WrotePast, Replying

LEMMA NextWritten == WInv /\ [Next]_vars => WInv'
<1> SUFFICES ASSUME WInv, [Next]_vars PROVE WInv'
  OBVIOUS
<1> USE DEF WInv
<1>1. IInv'
  BY NextInv
<1>2. ASSUME NEW c \in Clients, Call(c) \/ Step(c) PROVE WInv'
  <2>1. Framed(c) /\ Rises
    BY <1>1, <1>2, RepliesFrame, StoreRises
  <2>2. WrotePast(c)'
    BY <1>1, <1>2, <2>1, OwnWrotePast
  <2>3. \A d \in Clients \ {c} : WrotePast(d)'
    BY <1>1, <2>1, OthersWrotePast DEF Framed
  <2> QED
    BY <1>1, <2>2, <2>3
<1>3. CASE UNCHANGED vars
  BY <1>1, <1>3 DEF vars, store, WrotePast, Present
<1> QED
  BY <1>2, <1>3 DEF Next

(* A reply that follows an effect of the call was read after it: it shows   *)
(* the version that the effect left or a later one, over either store, also *)
(* when the fields are read one by one from the live object and when the    *)
(* sensor is deleted and registered anew in between.                        *)
THEOREM RepliesReadTheirWrites == Spec => []ReadYourWrites
<1>1. WInv => ReadYourWrites
  <2> SUFFICES ASSUME WInv, NEW c \in Clients, pc[c] = "render", "version" \in got[c]
               PROVE  copy[c].version >= wrote[c]
    BY DEF ReadYourWrites
  <2>1. copy[c].version \in Nat /\ wrote[c] \in Nat
    BY MaxVersionAssumption DEF WInv, IInv, TypeOK, Copy
  <2> QED
    BY <2>1 DEF WInv, WrotePast
<1> QED
  BY <1>1, InitWritten, NextWritten, PTL DEF Spec

\* What a call is answered with, by where its handler is.
LEMMA ReturnTells ==
  ASSUME IInv, NEW c \in Clients, Call(c) \/ Step(c), pc[c] # "idle", pc'[c] = "idle"
  PROVE  \/ pc[c] \notin Replying /\ result'[c] # "ok"
         \/ result'[c] \in {"notfound", "error"}
         \/ pc[c] \in Replying /\ result'[c] = "ok"
<1>1. ASSUME NEW label \in PCs \ {"idle"}, Goto(c, label) PROVE FALSE
  BY <1>1 DEF Goto, IInv, TypeOK
<1>2. ASSUME NEW code, Answer(c, code) PROVE result'[c] = code
  BY <1>2 DEF Answer, IInv, TypeOK
<1>3. ASSUME NEW code, Refuse(c, code) PROVE result'[c] = code
  BY <1>2, <1>3 DEF Refuse
<1>4. CASE Call(c) \/ PatchRead(c) \/ Render(c) \/ PatchWrite(c) \/ PatchStamp(c)
  BY <1>1, <1>4 DEF Call, PatchRead, Render, ReadField, PatchWrite, PatchStamp, PCs
<1>5. CASE AdmitRegister(c) \/ AdmitQuery(c) \/ AdmitResolved(c) \/ ResolveIdentity(c)
  BY <1>1, <1>3, <1>5
  DEF AdmitRegister, AdmitQuery, AdmitResolved, ResolveIdentity, PCs, Replying
<1>6. CASE RegisterSensor(c) \/ ReportSensor(c) \/ DeleteSensor(c)
  BY <1>1, <1>3, <1>6 DEF RegisterSensor, ReportSensor, DeleteSensor, PCs, Replying
<1>7. CASE PatchLoad(c) \/ PatchLock(c)
  BY <1>1, <1>3, <1>7 DEF PatchLoad, PatchLock, GetStatus, Applicable, DocumentRead, PCs, Replying
<1>8. CASE PatchUpdate(c) \/ PatchInapplicable(c) \/ PatchProbe(c)
  BY <1>1, <1>3, <1>8
  DEF PatchUpdate, PatchInapplicable, PatchProbe, Applicable, DocumentRead, PCs, Replying
<1>9. CASE Fetch(c) \/ StatementFails(c)
  BY <1>1, <1>3, <1>9 DEF Fetch, Missing, GetStatus, StatementFails, PCs, Replying
<1>10. CASE RespondSensor(c) \/ RespondDeleted(c)
  BY <1>2, <1>10 DEF RespondSensor, RespondDeleted, Replying
<1> QED
  BY <1>4, <1>5, <1>6, <1>7, <1>8, <1>9, <1>10 DEF Step

(* Answers tell the truth about effects: a call that is refused has changed *)
(* nothing, and one that succeeds, unless it asked for sensors, has.        *)
THEOREM AnswersTrue == Spec => AnswersTellEffect
<1> DEFINE Told == \A c \in Clients :
                     pc[c] # "idle" /\ pc'[c] = "idle" =>
                       /\ result'[c] \in {"denied", "invalid", "exists", "mismatch", "keyclash"}
                            => wrote[c] = 0
                       /\ result'[c] = "ok" /\ req[c].op # "query" => wrote[c] # 0
<1>1. WInv /\ [Next]_vars => [Told]_vars
  <2> SUFFICES ASSUME WInv, Next, NEW c \in Clients, pc[c] # "idle", pc'[c] = "idle"
               PROVE  /\ result'[c] \in {"denied", "invalid", "exists", "mismatch", "keyclash"}
                           => wrote[c] = 0
                      /\ result'[c] = "ok" /\ req[c].op # "query" => wrote[c] # 0
    OBVIOUS
  <2>1. PICK d \in Clients : Call(d) \/ Step(d)
    BY DEF Next
  <2>2. d = c
    BY <2>1, RepliesFrame DEF WInv, Framed, LocalsKept
  <2>3. \/ pc[c] \notin Replying /\ result'[c] # "ok"
        \/ result'[c] \in {"notfound", "error"}
        \/ pc[c] \in Replying /\ result'[c] = "ok"
    BY <2>1, <2>2, ReturnTells DEF WInv
  <2> QED
    BY <2>3 DEF WInv, WrotePast
<1> QED
  BY <1>1, InitWritten, NextWritten, PTL DEF Spec, AnswersTellEffect

-----------------------------------------------------------------------------
(* Views.                                                                   *)

\* What one step may make of a sensor, as the registry sees it.
LEMMA SensorsRenewed ==
  ASSUME RInv, RInv', Registry!Next \/ UNCHANGED Registry!vars, NEW i \in Ids
  PROVE  \/ Mapped'[i].version = 0
         \/ Mapped'[i].version > issued
         \/ /\ Mapped'[i].version = Mapped[i].version
            /\ Mapped'[i].key = Mapped[i].key
            /\ Mapped'[i].spec = Mapped[i].spec
<1> DEFINE Renewed == \/ Mapped'[i].version = 0
                      \/ Mapped'[i].version > issued
                      \/ /\ Mapped'[i].version = Mapped[i].version
                         /\ Mapped'[i].key = Mapped[i].key
                         /\ Mapped'[i].spec = Mapped[i].spec
<1>1. issued \in Nat
  BY MaxVersionAssumption DEF RInv, IInv, TypeOK
<1>2. \A j \in Ids : Mapped[j] = [key |-> Mapped[j].key, spec |-> Mapped[j].spec,
                                  data |-> Mapped[j].data, version |-> Mapped[j].version]
  BY DEF Mapped, RegistrySensor
<1>3. Mapped = [j \in Ids |-> Mapped[j]]
  BY DEF Mapped
<1>4. CASE UNCHANGED Registry!vars
  BY <1>4 DEF Registry!vars, Mapped
<1>5. ASSUME NEW j \in Ids, NEW x, Mapped' = [Mapped EXCEPT ![j] = x],
             \/ x.version \in {0, issued + 1}
             \/ x.version = Mapped[j].version /\ x.key = Mapped[j].key /\ x.spec = Mapped[j].spec
      PROVE  Renewed
  <2>1. CASE i # j
    BY <1>3, <1>5, <2>1
  <2>2. CASE i = j
    <3>1. Mapped'[i] = x
      BY <1>3, <1>5, <2>2
    <3> QED
      BY <1>1, <1>5, <2>2, <3>1
  <2> QED
    BY <2>1, <2>2
<1>6. ASSUME NEW j \in Ids, NEW k, NEW s, Registry!Register(j, k, s) PROVE Renewed
  <2> DEFINE x == [key |-> k, spec |-> s, data |-> {}, version |-> issued + 1]
  <2>1. Mapped' = [Mapped EXCEPT ![j] = x] /\ x.version = issued + 1
    BY <1>6 DEF Registry!Register, Mapped
  <2> HIDE DEF x
  <2> QED
    BY <1>5, <2>1
<1>7. ASSUME NEW j \in Ids, NEW v, NEW e, Registry!Patch(j, v, e) PROVE Renewed
  <2> DEFINE x == [Mapped[j] EXCEPT !.key = Registry!EditedKey(e, Mapped[j].key),
                                    !.spec = Registry!EditedSpec(e, Mapped[j].spec),
                                    !.version = issued + 1]
  <2>1. Mapped' = [Mapped EXCEPT ![j] = x]
    BY <1>3, <1>7 DEF Registry!Patch, Mapped
  <2>2. x.version = issued + 1
    BY <1>2
  <2> HIDE DEF x
  <2> QED
    BY <1>5, <2>1, <2>2
<1>8. ASSUME NEW j \in Ids, NEW r, Registry!SendData(j, r) PROVE Renewed
  <2> DEFINE x == [Mapped[j] EXCEPT !.data = Mapped[j].data \cup {r}]
  <2>1. Mapped' = [Mapped EXCEPT ![j] = x]
    BY <1>3, <1>8 DEF Registry!SendData, Mapped
  <2>2. x.version = Mapped[j].version /\ x.key = Mapped[j].key /\ x.spec = Mapped[j].spec
    BY <1>2
  <2> HIDE DEF x
  <2> QED
    BY <1>5, <2>1, <2>2
<1>9. ASSUME NEW j \in Ids, Registry!Delete(j) PROVE Renewed
  <2>1. Mapped' = [Mapped EXCEPT ![j] = Registry!Absent] /\ Registry!Absent.version = 0
    BY <1>9 DEF Registry!Delete, Registry!Absent, Mapped
  <2> QED
    BY <1>5, <2>1
<1>10. CASE Registry!Next
  <2>1. PICK j \in Ids : \/ \E k, s : Registry!Register(j, k, s)
                         \/ \E v, e : Registry!Patch(j, v, e)
                         \/ \E r : Registry!SendData(j, r)
                         \/ Registry!Delete(j)
    BY <1>10 DEF Registry!Next
  <2> QED
    BY <1>6, <1>7, <1>8, <1>9, <2>1
<1> QED
  BY <1>4, <1>10

\* A content and a version that belong together, as long as the version is
\* the sensor's.
Shown(i, x) ==
  /\ x.version \in 1..issued
  /\ Mapped[i].version = x.version => Mapped[i].key = x.key /\ Mapped[i].spec = x.spec

LEMMA ShownStays ==
  ASSUME RInv, RInv', Registry!Next \/ UNCHANGED Registry!vars, issued <= issued',
         NEW i \in Ids, NEW x, Shown(i, x)
  PROVE  /\ x.version \in 1..issued'
         /\ Mapped'[i].version = x.version => Mapped'[i].key = x.key /\ Mapped'[i].spec = x.spec
<1>1. issued \in Nat /\ issued' \in Nat
  BY MaxVersionAssumption DEF RInv, IInv, TypeOK
<1>2. x.version \in 1..issued'
  BY <1>1 DEF Shown
<1>3. ASSUME Mapped'[i].version = x.version
      PROVE  Mapped'[i].key = x.key /\ Mapped'[i].spec = x.spec
  <2>1. /\ Mapped[i].version = x.version
        /\ Mapped'[i].key = Mapped[i].key /\ Mapped'[i].spec = Mapped[i].spec
    BY <1>1, <1>3, SensorsRenewed DEF Shown
  <2> QED
    BY <2>1 DEF Shown
<1> QED
  BY <1>2, <1>3

\* Over Postgres a reply is made of one row.
ViewsShown ==
  \A c \in Clients :
    /\ view[c].id # NoId => Shown(view[c].id, view[c])
    /\ pc[c] = "render" => got[c] = Fields /\ Shown(target[c], copy[c])

LEMMA ViewsStep ==
  ASSUME ~Memory, RInv, RInv', ViewsShown, NEW c \in Clients, Call(c) \/ Step(c),
         Registry!Next \/ UNCHANGED Registry!vars
  PROVE  ViewsShown'
<1>1. Framed(c) /\ issued <= issued'
  BY RepliesFrame, StoreRises DEF RInv, Rises
<1>2. /\ \A d \in Clients : view[d].id \in Ids \cup {NoId}
      /\ \A d \in Clients : pc[d] = "render" => target[d] \in Ids
  BY DEF RInv, IInv, TypeOK, View, NoView, CallsWellFormed
<1>3. ASSUME NEW d \in Clients, view'[d] = view[d], view[d].id # NoId
      PROVE  Shown(view[d].id, view[d])'
  <2>1. PICK i \in Ids, x \in {view[d]} : i = view[d].id /\ x = view[d]
    BY <1>2, <1>3
  <2>2. Shown(i, x)
    BY <1>3, <2>1 DEF ViewsShown
  <2> QED
    BY <1>1, <1>3, <2>1, <2>2, ShownStays DEF Shown
<1>4. ASSUME NEW d \in Clients, pc[d] = "render", target'[d] = target[d], copy'[d] = copy[d]
      PROVE  Shown(target[d], copy[d])'
  <2>1. PICK i \in Ids, x \in {copy[d]} : i = target[d] /\ x = copy[d]
    BY <1>2, <1>4
  <2>2. Shown(i, x)
    BY <1>4, <2>1 DEF ViewsShown
  <2> QED
    BY <1>1, <1>4, <2>1, <2>2, ShownStays DEF Shown
<1>5. ASSUME NEW d \in Clients \ {c}
      PROVE  /\ view'[d].id # NoId => Shown(view[d].id, view[d])'
             /\ pc'[d] = "render" => got'[d] = Fields /\ Shown(target[d], copy[d])'
  BY <1>1, <1>3, <1>4 DEF Framed, LocalsKept, ViewsShown
<1>6. ASSUME view'[c].id # NoId PROVE Shown(view[c].id, view[c])'
  <2>1. CASE view'[c] = view[c]
    BY <1>3, <1>6, <2>1
  <2>2. CASE RespondSensor(c)
    <3>1. /\ pc[c] = "render" /\ UNCHANGED store
          /\ view'[c] = [id |-> target[c], key |-> copy[c].key,
                         spec |-> copy[c].spec, version |-> copy[c].version]
      BY <2>2 DEF RespondSensor, RInv, IInv, TypeOK
    <3>2. PICK i \in Ids, x \in {copy[c]} : i = target[c] /\ x = copy[c]
      BY <1>2, <3>1
    <3>3. Shown(i, x)
      BY <3>1, <3>2 DEF ViewsShown
    <3>4. /\ x.version \in 1..issued'
          /\ Mapped'[i].version = x.version => Mapped'[i].key = x.key /\ Mapped'[i].spec = x.spec
      BY <1>1, <3>3, ShownStays
    <3> QED
      BY <3>1, <3>2, <3>4 DEF Shown
  <2> QED
    BY <1>1, <2>1, <2>2 DEF Framed
<1>7. ASSUME pc'[c] = "render" PROVE got'[c] = Fields /\ Shown(target[c], copy[c])'
  <2>1. CASE Render(c)
    BY <2>1 DEF Render, ReadField, ViewsShown
  <2>2. CASE Fetch(c)
    <3> DEFINE i == target[c]
               o == heap[table[i]]
    <3>1. /\ Present(i) /\ i \in Ids /\ lock = NoClient
          /\ GetStatus(c, i, Fields, "render")
      BY <1>7, <2>2 DEF Fetch, Refuse, Answer, Goto, GetStatus, StoreFree,
                        RInv, IInv, TypeOK, CallsWellFormed
    <3>2. /\ UNCHANGED <<table, heap, issued, lock>> /\ target'[c] = i /\ got'[c] = Fields
          /\ copy'[c] = [key |-> o.key, spec |-> o.spec, version |-> o.version]
      BY <3>1 DEF GetStatus, store, RInv, IInv, TypeOK
    <3>3. Mapped'[i] = Mapped[i] /\ Mapped[i].key = o.key /\ Mapped[i].spec = o.spec
      BY <3>1, <3>2, FreeFacts DEF Mapped, RegistrySensor, Present
    <3>4. o.version \in 1..issued
      BY <3>1, PresentFacts DEF RInv, IInv, Drawn, Object, TypeOK, Versions
    <3> HIDE DEF i, o
    <3> QED
      BY <3>2, <3>3, <3>4 DEF Shown
  <2> QED
    BY <1>1, <1>7, <2>1, <2>2 DEF Framed
<1> QED
  BY <1>5, <1>6, <1>7 DEF ViewsShown

(* Over Postgres, the sensor a client was sent is the sensor's content for  *)
(* as long as its version is current, whatever other calls do after the     *)
(* reply was read: a client that patches the version it was shown patches   *)
(* what it was shown (storage_contract_test.go:470).                        *)
THEOREM ViewsStayCurrent == ASSUME ~Memory PROVE Spec => []ViewCurrent
<1> DEFINE SInv == RInv /\ ViewsShown
<1>1. Init => SInv
  BY RInit DEF Init, ViewsShown, NoView
<1>2. SInv /\ [Next]_vars => SInv'
  <2> SUFFICES ASSUME SInv, [Next]_vars PROVE SInv'
    OBVIOUS
  <2>1. RInv' /\ (Registry!Next \/ UNCHANGED Registry!vars)
    BY RNext
  <2>2. ASSUME NEW c \in Clients, Call(c) \/ Step(c) PROVE ViewsShown'
    BY <2>1, <2>2, ViewsStep
  <2>3. CASE UNCHANGED vars
    <3>1. UNCHANGED <<table, heap, issued, lock, ref, copy, pc, got, target, view>>
      BY <2>3 DEF vars, store
    <3>2. Mapped' = Mapped
      <4>1. \A i \in Ids : RegistrySensor(i)' = RegistrySensor(i)
        BY <3>1 DEF RegistrySensor, Present
      <4>2. UNCHANGED Registry!vars
        BY <3>1, <4>1 DEF Registry!vars
      <4> QED
        BY <4>2 DEF Registry!vars, Mapped
    <3> QED
      BY <2>1, <3>1, <3>2 DEF ViewsShown, Shown
  <2> QED
    BY <2>1, <2>2, <2>3 DEF Next
<1>3. SInv => ViewCurrent
  <2> SUFFICES ASSUME SInv, NEW c \in Clients, view[c].id # NoId,
                      Present(view[c].id), lock = NoClient,
                      heap[table[view[c].id]].version = view[c].version
               PROVE  /\ view[c].key = heap[table[view[c].id]].key
                      /\ view[c].spec = heap[table[view[c].id]].spec
    BY DEF ViewCurrent, StoreFree
  <2>1. PICK i \in Ids : i = view[c].id
    BY DEF RInv, IInv, TypeOK, View, NoView
  <2>2. Mapped[i] = [key |-> heap[table[i]].key, spec |-> heap[table[i]].spec,
                     data |-> heap[table[i]].data, version |-> heap[table[i]].version]
    BY <2>1, FreeFacts DEF Mapped
  <2>3. Shown(i, view[c])
    BY <2>1 DEF ViewsShown
  <2> QED
    BY <2>1, <2>2, <2>3 DEF Shown
<1> QED
  BY <1>1, <1>2, <1>3, PTL DEF Spec
=============================================================================

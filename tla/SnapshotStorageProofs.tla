----------------------- MODULE SnapshotStorageProofs -----------------------
(***************************************************************************)
(* Proofs about SnapshotStorage, for any sensors, natural keys and bounds: *)
(* the file covers the last finished snapshot, and a start follows the     *)
(* file.  Of the fields of an object only the version matters for the      *)
(* first: it only grows, and no two sensors share one (VersionsApart).     *)
(***************************************************************************)
EXTENDS SnapshotStorage, TLAPS

USE DistinctAssumption, BoundsAssumption

LEMMA Numbers == MaxVersion \in Nat /\ MaxReports \in Nat /\ MaxStops \in Nat /\ MaxFailures \in Nat
OBVIOUS

(* An object has a version that was drawn; what is none has not.            *)
LEMMA ObjectVersions ==
  /\ \A o \in Object : /\ o.version \in 1..MaxVersion /\ o.key \in Keys /\ o.reports \in 0..MaxReports
                       /\ o = [key |-> o.key, version |-> o.version, reports |-> o.reports]
  /\ NoObject \notin Object /\ NoObject.version = 0 /\ NoObject.key = NoKey
  /\ \A k \in Keys, v \in Versions, r \in 0..MaxReports :
       [key |-> k, version |-> v, reports |-> r] \in Object
  /\ Object \subseteq Unfinished /\ NoObject \in Unfinished
BY Numbers DEF Object, NoObject, Versions, Unfinished

LEMMA InitInv == Init => IInv
<1> SUFFICES ASSUME Init PROVE IInv
  OBVIOUS
<1> USE DEF Init
<1>1. TypeOK
  BY Numbers, ObjectVersions DEF TypeOK, Nothing, NoHeap, NoObjects, NoPatch, NoReading, EmptyFile, File, Versions
<1>2. VersionsApart
  BY ObjectVersions DEF VersionsApart, Known, VersionOf, Present, RefVersion, Nothing, NoObjects, EmptyFile
<1>3. ObjectsLive
  BY ObjectVersions DEF ObjectsLive, Nothing, NoHeap, NoPatch, Versions
<1>4. SnapshotUnderWay
  BY ObjectVersions DEF SnapshotUnderWay, RefVersion, Nothing, NoObjects, NoReading
<1>5. RestoreUnderWay /\ SnapshotCovers
  BY ObjectVersions DEF RestoreUnderWay, SnapshotCovers, EmptyFile, NoObjects, Nothing
<1> QED
  BY <1>1, <1>2, <1>3, <1>4, <1>5 DEF IInv

-----------------------------------------------------------------------------
(* Calls.                                                                   *)

(* A call that edits objects in place and draws no version: nothing that a  *)
(* snapshot has relied on moves.                                            *)
LEMMA EditInv ==
  ASSUME IInv, process = "serving", TypeOK',
         \A n \in Versions : heap'[n].version = heap[n].version /\ (heap[n] \in Object <=> heap'[n] \in Object),
         writing'.obj # 0 => issued < MaxVersion /\ \E i \in Ids : table[i] = writing'.obj,
         UNCHANGED <<table, issued, process, unloaded, snapshot, disk, bounds, history>>
  PROVE  IInv'
<1> USE DEF IInv, snapshot, disk, history
<1>1. /\ table \in [Ids -> 0..MaxVersion] /\ refs \in [Ids -> 0..MaxVersion]
      /\ table' = table /\ refs' = refs /\ doc' = doc /\ file' = file /\ asked' = asked
  BY DEF TypeOK
<1>2. \A i \in Ids : VersionOf(i)' = VersionOf(i) /\ RefVersion(i)' = RefVersion(i)
  <2> SUFFICES ASSUME NEW i \in Ids PROVE VersionOf(i)' = VersionOf(i) /\ RefVersion(i)' = RefVersion(i)
    OBVIOUS
  <2>1. (table[i] # 0 => table[i] \in Versions) /\ (refs[i] # 0 => refs[i] \in Versions)
    BY <1>1, Numbers DEF Versions
  <2> QED
    BY <1>1, <2>1 DEF VersionOf, RefVersion, Present
<1>3. VersionsApart'
  BY <1>1, <1>2 DEF VersionsApart, Known
<1>4. ObjectsLive'
  BY <1>1, Numbers DEF ObjectsLive, Versions
<1>5. SnapshotUnderWay'
  BY <1>1, <1>2 DEF SnapshotUnderWay, Unmarshalled
<1>6. RestoreUnderWay' /\ SnapshotCovers'
  BY DEF RestoreUnderWay, SnapshotCovers
<1> QED
  BY <1>3, <1>4, <1>5, <1>6

LEMMA PatchLockInv ==
  ASSUME IInv, NEW i \in Ids, NEW k \in Keys, PatchLock(i, k)
  PROVE  IInv'
<1>1. TypeOK'
  BY Numbers DEF IInv, TypeOK, PatchLock, snapshot, disk, bounds, history
<1>2. writing'.obj = table[i] /\ heap' = heap /\ issued < MaxVersion /\ process = "serving"
  BY DEF PatchLock, Unlocked
<1> QED
  BY <1>1, <1>2, EditInv DEF PatchLock

LEMMA PatchWriteInv ==
  ASSUME IInv, PatchWrite
  PROVE  IInv'
<1> DEFINE o == writing.obj
<1>1. /\ process = "serving" /\ issued < MaxVersion /\ o \in Versions
      /\ \E i \in Ids : table[i] = o
      /\ heap[o] \in Object /\ writing.key \in Keys
      /\ heap \in [Versions -> Object \cup {NoObject}]
      /\ writing \in [obj: 0..MaxVersion, key: Keys \cup {NoKey}]
  BY Numbers DEF IInv, ObjectsLive, PatchWrite, TypeOK, Versions
<1>2. /\ heap' = [heap EXCEPT ![o] = [heap[o] EXCEPT !.key = writing.key]]
      /\ writing' = [writing EXCEPT !.key = NoKey]
  BY DEF PatchWrite
<1>3. /\ [heap[o] EXCEPT !.key = writing.key] \in Object
      /\ [heap[o] EXCEPT !.key = writing.key].version = heap[o].version
  BY <1>1, ObjectVersions DEF Object
<1>4. \A n \in Versions : heap'[n].version = heap[n].version /\ (heap[n] \in Object <=> heap'[n] \in Object)
  BY <1>1, <1>2, <1>3
<1>5. writing'.obj = o /\ writing' \in [obj: 0..MaxVersion, key: Keys \cup {NoKey}]
  BY <1>1, <1>2
<1>6. heap' \in [Versions -> Object \cup {NoObject}]
  BY <1>1, <1>2, <1>3
<1>7. TypeOK'
  BY <1>5, <1>6 DEF PatchWrite, IInv, TypeOK, snapshot, disk, bounds, history
<1> QED
  BY <1>1, <1>4, <1>5, <1>7, EditInv DEF PatchWrite

LEMMA SendDataInv ==
  ASSUME IInv, NEW i \in Ids, SendData(i)
  PROVE  IInv'
<1> DEFINE o == table[i]
<1>1. /\ process = "serving" /\ o \in Versions /\ heap[o] \in Object
      /\ heap \in [Versions -> Object \cup {NoObject}]
  BY Numbers DEF IInv, ObjectsLive, SendData, Present, Unlocked, TypeOK, Versions
<1>2. heap' = [heap EXCEPT ![o] = [heap[o] EXCEPT !.reports = heap[o].reports + 1]]
  BY <1>1 DEF SendData
<1>3. /\ [heap[o] EXCEPT !.reports = heap[o].reports + 1] \in Object
      /\ [heap[o] EXCEPT !.reports = heap[o].reports + 1].version = heap[o].version
  BY <1>1, Numbers DEF Object, SendData
<1>4. \A n \in Versions : heap'[n].version = heap[n].version /\ (heap[n] \in Object <=> heap'[n] \in Object)
  BY <1>1, <1>2, <1>3
<1>5. heap' \in [Versions -> Object \cup {NoObject}]
  BY <1>1, <1>2, <1>3
<1>6. TypeOK'
  BY <1>5 DEF SendData, IInv, TypeOK, snapshot, disk, bounds, history
<1>7. writing' = writing /\ writing.obj = 0
  BY DEF SendData, Unlocked, NoPatch
<1> QED
  BY <1>1, <1>4, <1>6, <1>7, EditInv DEF SendData

(* The new version is greater than all that are known.                      *)
LEMMA PatchStampInv ==
  ASSUME IInv, PatchStamp
  PROVE  IInv'
<1> DEFINE o == writing.obj
           new == issued + 1
<1>1. /\ process = "serving" /\ issued \in Nat /\ new \in Versions /\ o \in Versions
      /\ \E i \in Ids : table[i] = o
      /\ heap[o] \in Object
      /\ heap \in [Versions -> Object \cup {NoObject}]
      /\ content \in [Versions -> Keys \cup {NoKey}]
  <2>1. /\ o # 0 /\ process = "serving" /\ issued < MaxVersion /\ o \in 0..MaxVersion
        /\ issued \in 0..MaxVersion
        /\ \E i \in Ids : table[i] = o
    BY DEF IInv, ObjectsLive, PatchStamp, TypeOK
  <2>2. issued \in Nat /\ new \in Versions /\ o \in Versions
    BY <2>1, Numbers DEF Versions
  <2>3. heap[o] \in Object
    BY <2>1 DEF IInv, ObjectsLive
  <2> QED
    BY <2>1, <2>2, <2>3 DEF IInv, TypeOK
<1>2. /\ heap' = [heap EXCEPT ![o] = [heap[o] EXCEPT !.version = new]]
      /\ issued' = new /\ writing' = NoPatch
      /\ content' = [content EXCEPT ![new] = heap[o].key]
      /\ UNCHANGED <<table, process, unloaded, loop, refs, reading, doc, tmp, file, stops, failures, floor, asked>>
  BY DEF PatchStamp, snapshot, disk, bounds
<1>3. /\ [heap[o] EXCEPT !.version = new] \in Object
      /\ [heap[o] EXCEPT !.version = new].version = new
  BY <1>1, ObjectVersions DEF Object
<1>4. /\ heap'[o] \in Object /\ heap'[o].version = new
      /\ \A n \in Versions \ {o} : heap'[n] = heap[n]
  BY <1>1, <1>2, <1>3
<1> HIDE DEF new
<1>5. heap' \in [Versions -> Object \cup {NoObject}]
  BY <1>1, <1>2, <1>3
<1>6. TypeOK'
  <2>1. content' \in [Versions -> Keys \cup {NoKey}]
    BY <1>1, <1>2, ObjectVersions
  <2>2. writing' \in [obj: 0..MaxVersion, key: Keys \cup {NoKey}] /\ issued' \in 0..MaxVersion
    BY <1>1, <1>2, Numbers DEF NoPatch, Versions, new
  <2> QED
    BY <1>2, <1>5, <2>1, <2>2 DEF IInv, TypeOK
<1>7. /\ table \in [Ids -> 0..MaxVersion] /\ refs \in [Ids -> 0..MaxVersion]
  BY DEF IInv, TypeOK
<1>8. \A i \in Ids : /\ VersionOf(i)' = IF table[i] = o THEN new ELSE VersionOf(i)
                     /\ RefVersion(i)' = IF refs[i] = o THEN new ELSE RefVersion(i)
  <2> SUFFICES ASSUME NEW i \in Ids
               PROVE  /\ VersionOf(i)' = IF table[i] = o THEN new ELSE VersionOf(i)
                      /\ RefVersion(i)' = IF refs[i] = o THEN new ELSE RefVersion(i)
    OBVIOUS
  <2>1. (table[i] # 0 => table[i] \in Versions) /\ (refs[i] # 0 => refs[i] \in Versions) /\ o # 0
    BY <1>1, <1>7, Numbers DEF Versions
  <2> QED
    BY <1>2, <1>4, <2>1 DEF VersionOf, RefVersion, Present
<1>9. \A i \in Ids : table[i] = o \/ refs[i] = o => heap[o].version \in Known(i)
  <2>1. heap[o].version # 0 /\ o # 0
    BY <1>1, ObjectVersions, Numbers DEF Versions
  <2> QED
    BY <2>1 DEF Known, VersionOf, RefVersion, Present
<1>10. VersionsApart'
  <2>1. \A i \in Ids : Known(i)' \subseteq Known(i) \cup {new}
    BY <1>2, <1>8 DEF Known
  <2>2. \A i \in Ids : Known(i) \subseteq 1..issued
    BY DEF IInv, VersionsApart
  <2>3. \A i \in Ids : new \notin Known(i)
    BY <1>1, <2>2 DEF new
  <2>4. \A i \in Ids : new \in Known(i)' => heap[o].version \in Known(i)
    <3> SUFFICES ASSUME NEW i \in Ids, new \in Known(i)' PROVE table[i] = o \/ refs[i] = o
      BY <1>9
    <3>1. new # VersionOf(i) /\ new # RefVersion(i) /\ new # doc[i].version /\ new # file.sensors[i].version
      BY <1>1, <2>3 DEF Known, new
    <3> QED
      BY <1>2, <1>8, <3>1 DEF Known
  <2>5. \A i, j \in Ids : i # j => Known(i) \cap Known(j) = {}
    BY DEF IInv, VersionsApart
  <2>6. 1..issued \subseteq 1..issued' /\ new \in 1..issued'
    BY <1>1, <1>2 DEF new
  <2> QED
    BY <2>1, <2>2, <2>3, <2>4, <2>5, <2>6 DEF VersionsApart
<1>11. ObjectsLive'
  <2>1. \A i \in Ids : (table'[i] # 0 => heap'[table[i]] \in Object) /\ (refs'[i] # 0 => heap'[refs[i]] \in Object)
    BY <1>2, <1>4, <1>7, Numbers DEF IInv, ObjectsLive, Versions
  <2>2. \A n \in Versions : heap'[n] \in Object => heap'[n].version \in n..issued'
    BY <1>1, <1>2, <1>4, ObjectVersions DEF IInv, ObjectsLive, Versions, new
  <2> QED
    BY <1>2, <2>1, <2>2 DEF ObjectsLive, NoPatch
<1>12. SnapshotUnderWay'
  <2>1. \A i \in Ids : RefVersion(i)' >= asked'[i]
    <3> SUFFICES ASSUME NEW i \in Ids PROVE RefVersion(i)' >= asked[i]
      BY <1>2
    <3>1. RefVersion(i) >= asked[i] /\ asked[i] \in Nat
      BY Numbers DEF IInv, SnapshotUnderWay, TypeOK
    <3>2. CASE refs[i] = o
      <4>1. RefVersion(i) = heap[o].version /\ heap[o].version \in o..issued
        BY <1>1, <3>2, Numbers DEF RefVersion, IInv, ObjectsLive, Versions
      <4> QED
        BY <1>1, <1>8, <3>1, <3>2, <4>1 DEF new, Versions
    <3> QED
      BY <1>8, <3>1, <3>2
  <2> QED
    BY <1>2, <2>1 DEF IInv, SnapshotUnderWay, Unmarshalled
<1>13. RestoreUnderWay' /\ SnapshotCovers'
  BY <1>1, <1>2 DEF IInv, RestoreUnderWay, SnapshotCovers
<1> QED
  BY <1>6, <1>10, <1>11, <1>12, <1>13 DEF IInv

(* The new object lies beyond all that were ever referred to.               *)
LEMMA RegisterInv ==
  ASSUME IInv, NEW i \in Ids, NEW k \in Keys, Register(i, k)
  PROVE  IInv'
<1> DEFINE new == issued + 1
           sensor == [key |-> k, version |-> new, reports |-> 0]
<1>1. /\ process = "serving" /\ issued \in Nat /\ new \in Versions
      /\ heap \in [Versions -> Object \cup {NoObject}]
      /\ content \in [Versions -> Keys \cup {NoKey}]
      /\ table \in [Ids -> 0..MaxVersion] /\ refs \in [Ids -> 0..MaxVersion]
  BY Numbers DEF IInv, Register, Unlocked, TypeOK, Versions
<1>2. /\ table' = [table EXCEPT ![i] = new] /\ heap' = [heap EXCEPT ![new] = sensor]
      /\ issued' = new /\ writing' = writing /\ writing = NoPatch
      /\ content' = [content EXCEPT ![new] = k]
      /\ UNCHANGED <<process, unloaded, loop, refs, reading, doc, tmp, file, stops, failures, floor, asked>>
  BY DEF Register, Unlocked, snapshot, disk, bounds
<1>3. sensor \in Object /\ sensor.version = new
  BY <1>1, ObjectVersions, Numbers
<1> HIDE DEF sensor
<1>4. /\ heap'[new] = sensor /\ \A n \in Versions \ {new} : heap'[n] = heap[n]
      /\ table'[i] = new /\ \A j \in Ids \ {i} : table'[j] = table[j]
  BY <1>1, <1>2
<1>5. new # 0 /\ issued < new /\ 1..issued \subseteq 1..issued' /\ new \in 1..issued'
  BY <1>1, <1>2
<1> HIDE DEF new
<1>6. TypeOK'
  <2>1. /\ content' \in [Versions -> Keys \cup {NoKey}]
        /\ heap' \in [Versions -> Object \cup {NoObject}]
        /\ table' \in [Ids -> 0..MaxVersion] /\ issued' \in 0..MaxVersion
    BY <1>1, <1>2, <1>3, Numbers DEF Versions
  <2> QED
    BY <1>2, <2>1 DEF IInv, TypeOK
<1>7. \A j \in Ids : /\ table[j] # 0 => table[j] \in Versions \ {new} /\ heap'[table[j]] = heap[table[j]]
                     /\ refs[j] # 0 => refs[j] \in Versions \ {new} /\ heap'[refs[j]] = heap[refs[j]]
  <2> SUFFICES ASSUME NEW n \in Versions, heap[n] \in Object PROVE n # new
    BY <1>1, <1>4, Numbers DEF IInv, ObjectsLive, Versions
  <2>1. heap[n].version \in n..issued
    BY DEF IInv, ObjectsLive
  <2> QED
    BY <1>1, <1>5, <2>1 DEF Versions
<1>8. \A j \in Ids : /\ VersionOf(j)' = IF j = i THEN new ELSE VersionOf(j)
                     /\ RefVersion(j)' = RefVersion(j)
  BY <1>2, <1>3, <1>4, <1>5, <1>7 DEF VersionOf, RefVersion, Present
<1>9. VersionsApart'
  <2>1. /\ \A j \in Ids \ {i} : Known(j)' = Known(j)
        /\ Known(i)' \subseteq Known(i) \cup {new}
    BY <1>2, <1>8 DEF Known
  <2>2. \A j \in Ids : Known(j) \subseteq 1..issued
    BY DEF IInv, VersionsApart
  <2>3. \A j \in Ids : new \notin Known(j)
    BY <1>1, <1>5, <2>2
  <2>4. \A j, l \in Ids : j # l => Known(j) \cap Known(l) = {}
    BY DEF IInv, VersionsApart
  <2> QED
    BY <1>5, <2>1, <2>2, <2>3, <2>4 DEF VersionsApart
<1>10. ObjectsLive'
  <2>1. \A j \in Ids : (table'[j] # 0 => heap'[table'[j]] \in Object) /\ (refs'[j] # 0 => heap'[refs'[j]] \in Object)
    BY <1>2, <1>3, <1>4, <1>7 DEF IInv, ObjectsLive
  <2>2. \A n \in Versions : heap'[n] \in Object => heap'[n].version \in n..issued'
    <3> SUFFICES ASSUME NEW n \in Versions, heap'[n] \in Object PROVE heap'[n].version \in n..issued'
      OBVIOUS
    <3>1. CASE n = new
      BY <1>1, <1>2, <1>3, <1>4, <3>1 DEF Versions
    <3>2. CASE n # new
      <4>1. heap'[n] = heap[n] /\ heap[n].version \in n..issued
        BY <1>4, <3>2 DEF IInv, ObjectsLive
      <4> QED
        BY <1>1, <1>2, <1>5, <4>1 DEF Versions
    <3> QED
      BY <3>1, <3>2
  <2> QED
    BY <1>2, <2>1, <2>2 DEF ObjectsLive, NoPatch
<1>11. SnapshotUnderWay'
  BY <1>2, <1>8 DEF IInv, SnapshotUnderWay, Unmarshalled
<1>12. RestoreUnderWay' /\ SnapshotCovers'
  BY <1>1, <1>2 DEF IInv, RestoreUnderWay, SnapshotCovers
<1> QED
  BY <1>6, <1>9, <1>10, <1>11, <1>12 DEF IInv

(* The object stays for those who have it.                                  *)
LEMMA DeleteInv ==
  ASSUME IInv, NEW i \in Ids, Delete(i)
  PROVE  IInv'
<1>1. /\ process = "serving" /\ writing = NoPatch
      /\ table \in [Ids -> 0..MaxVersion] /\ table' = [table EXCEPT ![i] = 0]
      /\ UNCHANGED <<heap, issued, writing, process, unloaded, loop, refs, reading, doc, tmp, file,
                     stops, failures, floor, asked, content>>
  BY DEF IInv, TypeOK, Delete, Unlocked, snapshot, disk, bounds, history
<1>2. \A j \in Ids : table'[j] = IF j = i THEN 0 ELSE table[j]
  BY <1>1
<1>3. TypeOK'
  BY <1>1, Numbers DEF IInv, TypeOK
<1>4. \A j \in Ids : Known(j)' \subseteq Known(j) /\ RefVersion(j)' = RefVersion(j)
  BY <1>1, <1>2 DEF Known, VersionOf, RefVersion, Present
<1>5. VersionsApart'
  BY <1>1, <1>4 DEF IInv, VersionsApart
<1>6. ObjectsLive'
  BY <1>1, <1>2 DEF IInv, ObjectsLive, NoPatch
<1>7. SnapshotUnderWay'
  BY <1>1, <1>4 DEF IInv, SnapshotUnderWay, Unmarshalled
<1>8. RestoreUnderWay' /\ SnapshotCovers'
  BY <1>1 DEF IInv, RestoreUnderWay, SnapshotCovers
<1> QED
  BY <1>3, <1>5, <1>6, <1>7, <1>8 DEF IInv

-----------------------------------------------------------------------------
(* The snapshot loop.                                                       *)

LEMMA SnapshotQueryInv ==
  ASSUME IInv, SnapshotQuery
  PROVE  IInv'
<1>1. /\ process = "serving" /\ loop = "wait" /\ writing = NoPatch
      /\ refs' = table /\ doc' = NoObjects /\ asked' = [i \in Ids |-> VersionOf(i)] /\ loop' = "marshal"
      /\ UNCHANGED <<table, heap, issued, writing, process, unloaded, reading, tmp, file, stops, failures, floor, content>>
  BY DEF SnapshotQuery, Unlocked, store, disk, bounds
<1>2. /\ table \in [Ids -> 0..MaxVersion] /\ heap \in [Versions -> Object \cup {NoObject}]
      /\ \A i \in Ids : table[i] # 0 => heap[table[i]] \in Object /\ table[i] \in Versions
  BY Numbers DEF IInv, TypeOK, ObjectsLive, Versions
<1>3. \A i \in Ids : /\ doc'[i] = NoObject /\ asked'[i] = VersionOf(i)
                     /\ VersionOf(i)' = VersionOf(i) /\ RefVersion(i)' = VersionOf(i)
                     /\ VersionOf(i) \in 0..MaxVersion /\ (table[i] # 0 <=> VersionOf(i) # 0)
  BY <1>1, <1>2, ObjectVersions, Numbers DEF NoObjects, VersionOf, RefVersion, Present
<1>4. TypeOK'
  <2>1. doc' \in [Ids -> Unfinished] /\ asked' \in [Ids -> 0..MaxVersion]
    BY <1>1, <1>3, ObjectVersions DEF NoObjects
  <2> QED
    BY <1>1, <2>1 DEF IInv, TypeOK
<1>5. \A i \in Ids : Known(i)' \subseteq Known(i)
  BY <1>1, <1>3, ObjectVersions DEF Known
<1>6. VersionsApart'
  BY <1>1, <1>5 DEF IInv, VersionsApart
<1>7. ObjectsLive'
  BY <1>1 DEF IInv, ObjectsLive
<1>8. SnapshotUnderWay'
  <2>1. reading.id = NoId
    BY <1>1 DEF IInv, SnapshotUnderWay
  <2>2. \A i \in Ids : /\ refs'[i] # 0 <=> asked'[i] # 0
                       /\ RefVersion(i)' >= asked'[i]
    BY <1>1, <1>3
  <2> QED
    BY <1>1, <1>3, <2>1, <2>2, ObjectVersions DEF SnapshotUnderWay
<1>9. RestoreUnderWay' /\ SnapshotCovers'
  BY <1>1 DEF IInv, RestoreUnderWay, SnapshotCovers
<1> QED
  BY <1>4, <1>6, <1>7, <1>8, <1>9 DEF IInv

(* What a field is read from is the object that Query returned.             *)
LEMMA MarshalInv ==
  ASSUME IInv, Marshal
  PROVE  IInv'
<1>1. /\ process = "serving" /\ loop = "marshal"
      /\ UNCHANGED <<table, heap, issued, writing, process, unloaded, loop, refs, tmp, file, stops, failures,
                     floor, asked, content>>
  BY DEF Marshal, store, disk, bounds, history
<1>2. /\ doc \in [Ids -> Unfinished] /\ reading \in [id: Ids \cup {NoId}, field: {"key", "version", "reports"}]
      /\ refs \in [Ids -> 0..MaxVersion] /\ asked \in [Ids -> 0..MaxVersion]
  BY DEF IInv, TypeOK
<1>3. PICK i \in Ids :
        /\ refs[i] # 0
        /\ \/ /\ doc[i].version = 0
              /\ doc' = [doc EXCEPT ![i].key = heap[refs[i]].key]
              /\ reading' = [id |-> i, field |-> "version"]
           \/ /\ reading.id = i /\ doc[i].key \in Keys
              /\ doc' = [doc EXCEPT ![i].version = heap[refs[i]].version]
              /\ reading' = [reading EXCEPT !.field = "reports"]
           \/ /\ reading.id = i
              /\ doc' = [doc EXCEPT ![i].reports = heap[refs[i]].reports]
              /\ reading' = NoReading
  <2>1. CASE reading.id = NoId
    BY <2>1 DEF Marshal, Unmarshalled
  <2>2. CASE reading.id # NoId
    <3>1. /\ reading.id \in Ids /\ refs[reading.id] # 0
          /\ reading.field = "version" => doc[reading.id].key \in Keys
      BY <1>2, <2>2 DEF IInv, SnapshotUnderWay
    <3> QED
      BY <2>2, <3>1 DEF Marshal
  <2> QED
    BY <2>1, <2>2
<1> DEFINE o == heap[refs[i]]
<1>4. o \in Object /\ RefVersion(i) = o.version
  BY <1>3 DEF IInv, ObjectsLive, RefVersion
<1>5. o.key \in Keys /\ o.version \in 1..MaxVersion /\ o.reports \in 0..MaxReports
  BY <1>4, ObjectVersions
<1>6. /\ doc[i] \in Unfinished
      /\ doc[i].key \in Keys \cup {NoKey} /\ doc[i].version \in 0..MaxVersion /\ doc[i].reports \in 0..MaxReports
      /\ doc[i].version # 0 => doc[i] \in Object /\ doc[i].version >= asked[i]
  BY <1>2 DEF Unfinished, IInv, SnapshotUnderWay
<1>7. /\ \A j \in Ids \ {i} : doc'[j] = doc[j]
      /\ doc' = [doc EXCEPT ![i] = doc'[i]]
      /\ doc'[i] \in Unfinished
      /\ doc'[i].version \in {0, doc[i].version, o.version}
      /\ doc'[i].version # 0 => doc'[i].key \in Keys
  <2> HIDE DEF o
  <2>1. CASE doc' = [doc EXCEPT ![i].key = o.key] /\ doc[i].version = 0
    <3>1. doc'[i] = [doc[i] EXCEPT !.key = o.key]
      BY <1>2, <2>1
    <3> QED
      BY <1>2, <1>5, <1>6, <2>1, <3>1 DEF Unfinished
  <2>2. CASE doc' = [doc EXCEPT ![i].version = o.version] /\ doc[i].key \in Keys
    <3>1. doc'[i] = [doc[i] EXCEPT !.version = o.version]
      BY <1>2, <2>2
    <3> QED
      BY <1>2, <1>5, <1>6, <2>2, <3>1 DEF Unfinished
  <2>3. CASE doc' = [doc EXCEPT ![i].reports = o.reports]
    <3>1. doc'[i] = [doc[i] EXCEPT !.reports = o.reports]
      BY <1>2, <2>3
    <3>2. doc[i].version # 0 => doc[i].key \in Keys
      BY <1>6, ObjectVersions
    <3> QED
      BY <1>2, <1>5, <1>6, <2>3, <3>1, <3>2 DEF Unfinished
  <2> QED
    BY <1>3, <2>1, <2>2, <2>3 DEF o
<1> HIDE DEF o
<1>8. doc'[i].version # 0 => doc'[i] \in Object /\ doc'[i].version >= asked'[i]
  <2>1. doc'[i].version # 0 => doc'[i] \in Object
    BY <1>7, Numbers DEF Unfinished, Object, Versions
  <2>2. o.version >= asked[i]
    BY <1>4 DEF IInv, SnapshotUnderWay
  <2> QED
    BY <1>1, <1>6, <1>7, <2>1, <2>2
<1>9. TypeOK'
  <2>1. doc' \in [Ids -> Unfinished]
    BY <1>2, <1>7
  <2>2. reading' \in [id: Ids \cup {NoId}, field: {"key", "version", "reports"}]
    BY <1>2, <1>3 DEF NoReading
  <2> QED
    BY <1>1, <2>1, <2>2 DEF IInv, TypeOK
<1>10. \A j \in Ids : RefVersion(j)' = RefVersion(j) /\ VersionOf(j)' = VersionOf(j)
  BY <1>1 DEF RefVersion, VersionOf, Present
<1>11. VersionsApart'
  <2>1. \A j \in Ids : Known(j)' \subseteq Known(j)
    BY <1>1, <1>4, <1>7, <1>10 DEF Known
  <2> QED
    BY <1>1, <2>1 DEF IInv, VersionsApart
<1>12. ObjectsLive'
  BY <1>1 DEF IInv, ObjectsLive
<1>13. SnapshotUnderWay'
  <2>1. reading'.id # NoId =>
          /\ refs'[reading'.id] # 0 /\ reading'.id = i
          /\ reading'.field = "version" => doc'[reading'.id].key \in Keys
    <3>1. doc' = [doc EXCEPT ![i].key = heap[refs[i]].key] => doc'[i].key = o.key
      BY <1>2, <1>6 DEF Unfinished, o
    <3> QED
      BY <1>1, <1>2, <1>3, <1>5, <3>1 DEF NoReading, o
  <2>2. \A j \in Ids :
          /\ refs'[j] # 0 <=> asked'[j] # 0
          /\ RefVersion(j)' >= asked'[j]
          /\ refs'[j] = 0 => doc'[j] = NoObject
          /\ doc'[j].version # 0 => doc'[j] \in Object /\ doc'[j].version >= asked'[j]
    BY <1>1, <1>3, <1>7, <1>8, <1>10 DEF IInv, SnapshotUnderWay
  <2> QED
    BY <1>1, <2>1, <2>2 DEF SnapshotUnderWay
<1>14. RestoreUnderWay' /\ SnapshotCovers'
  BY <1>1 DEF IInv, RestoreUnderWay, SnapshotCovers
<1> QED
  BY <1>9, <1>11, <1>12, <1>13, <1>14 DEF IInv

(* A document that is complete covers what its Query was asked for.         *)
LEMMA DocumentCovers ==
  ASSUME IInv, loop \in {"compare", "write", "rename"}
  PROVE  /\ reading.id = NoId
         /\ doc \in [Ids -> Object \cup {NoObject}]
         /\ \A i \in Ids : (doc[i].version # 0 <=> asked[i] # 0) /\ doc[i].version >= asked[i]
<1>1. reading.id = NoId /\ Unmarshalled = {}
  BY DEF IInv, SnapshotUnderWay
<1>2. \A i \in Ids : refs[i] # 0 <=> doc[i].version # 0
  BY <1>1, ObjectVersions DEF IInv, SnapshotUnderWay, Unmarshalled
<1>3. \A i \in Ids : doc[i] \in Object \cup {NoObject}
  BY <1>2 DEF IInv, SnapshotUnderWay
<1>4. \A i \in Ids : asked[i] \in Nat
  BY Numbers DEF IInv, TypeOK
<1>5. doc \in [Ids -> Object \cup {NoObject}]
  BY <1>3 DEF IInv, TypeOK
<1> QED
  BY <1>1, <1>2, <1>4, <1>5, ObjectVersions DEF IInv, SnapshotUnderWay

(* takeSnapshot returns, with the file it found or with its own.            *)
LEMMA ReturnInv ==
  ASSUME IInv, process = "serving", reading.id = NoId, Return,
         tmp' \in File, file' \in File, failures' \in 0..MaxFailures, floor' \in {floor, asked},
         \A i \in Ids : file'.sensors[i].version \in Known(i) \cup {0},
         SnapshotCovers',
         UNCHANGED <<store, process, unloaded, reading, stops, content>>
  PROVE  IInv'
<1>1. /\ loop' = "wait" /\ refs' = Nothing /\ doc' = NoObjects /\ asked' = Nothing
      /\ UNCHANGED <<table, heap, issued, writing>>
  BY DEF Return, store
<1>2. \A i \in Ids : refs'[i] = 0 /\ asked'[i] = 0 /\ doc'[i] = NoObject
  BY <1>1 DEF Nothing, NoObjects
<1>3. TypeOK'
  <2>1. /\ refs' \in [Ids -> 0..MaxVersion] /\ asked' \in [Ids -> 0..MaxVersion]
        /\ doc' \in [Ids -> Unfinished] /\ floor' \in [Ids -> 0..MaxVersion]
    BY <1>1, Numbers, ObjectVersions DEF Nothing, NoObjects, IInv, TypeOK
  <2> QED
    BY <1>1, <2>1 DEF IInv, TypeOK
<1>4. \A i \in Ids : RefVersion(i)' = 0 /\ VersionOf(i)' = VersionOf(i) /\ doc'[i].version = 0
  BY <1>1, <1>2, ObjectVersions DEF RefVersion, VersionOf, Present
<1>5. VersionsApart'
  <2>1. \A i \in Ids : Known(i)' \subseteq Known(i)
    BY <1>4 DEF Known
  <2> QED
    BY <1>1, <2>1 DEF IInv, VersionsApart
<1>6. ObjectsLive'
  BY <1>1, <1>2 DEF IInv, ObjectsLive
<1>7. SnapshotUnderWay'
  BY <1>1, <1>2, <1>4 DEF SnapshotUnderWay
<1>8. RestoreUnderWay'
  BY DEF IInv, RestoreUnderWay
<1> QED
  BY <1>3, <1>5, <1>6, <1>7, <1>8 DEF IInv

(* A step of the loop that only writes the temporary file or moves on.      *)
LEMMA MoveInv ==
  ASSUME IInv, process = "serving", reading.id = NoId, tmp' \in File,
         loop' \in {"compare", "write", "rename"}, Unmarshalled = {},
         loop' = "rename" => tmp' = [whole |-> TRUE, sensors |-> doc],
         UNCHANGED <<store, process, unloaded, refs, reading, doc, file, bounds, history>>
  PROVE  IInv'
<1> USE DEF store, bounds, history
<1>1. TypeOK'
  BY DEF IInv, TypeOK
<1>2. \A i \in Ids : RefVersion(i)' = RefVersion(i) /\ VersionOf(i)' = VersionOf(i)
  BY DEF RefVersion, VersionOf, Present
<1>3. VersionsApart' /\ ObjectsLive'
  BY <1>2 DEF IInv, VersionsApart, ObjectsLive, Known
<1>4. SnapshotUnderWay'
  BY <1>2 DEF IInv, SnapshotUnderWay, Unmarshalled
<1>5. RestoreUnderWay' /\ SnapshotCovers'
  BY DEF IInv, RestoreUnderWay, SnapshotCovers
<1> QED
  BY <1>1, <1>3, <1>4, <1>5 DEF IInv

LEMMA Files ==
  /\ EmptyFile \in File /\ PartialFile \in File
  /\ \A d \in [Ids -> Object \cup {NoObject}] : [whole |-> TRUE, sensors |-> d] \in File
BY DEF EmptyFile, PartialFile, File, NoObjects

LEMMA MarshalledInv ==
  ASSUME IInv, Marshalled
  PROVE  IInv'
<1>1. reading.id = NoId
  BY DEF Marshalled, NoReading
<1>2. tmp' = tmp /\ file' = file /\ tmp \in File
  BY DEF Marshalled, disk, IInv, TypeOK
<1> QED
  BY <1>1, <1>2, MoveInv DEF Marshalled

LEMMA CompareInv ==
  ASSUME IInv, Compare
  PROVE  IInv'
<1>1. /\ process = "serving" /\ loop = "compare"
      /\ UNCHANGED <<store, process, unloaded, reading, file, bounds, content>>
  BY DEF Compare
<1>2. CASE file = [whole |-> TRUE, sensors |-> doc]
  <2>1. Return /\ floor' = asked /\ tmp' = tmp
    BY <1>2 DEF Compare
  <2>2. SnapshotCovers'
    BY <1>1, <1>2, <2>1, DocumentCovers DEF SnapshotCovers
  <2>3. /\ tmp' \in File /\ file' \in File /\ failures' \in 0..MaxFailures
        /\ \A i \in Ids : file'.sensors[i].version \in Known(i) \cup {0}
    BY <1>1, <2>1 DEF IInv, TypeOK, Known, bounds
  <2> QED
    BY <1>1, <2>1, <2>2, <2>3, DocumentCovers, ReturnInv DEF bounds
<1>3. CASE file # [whole |-> TRUE, sensors |-> doc]
  <2>1. WriteTemporary
    BY <1>3 DEF Compare
  <2>2. Unmarshalled = {}
    BY <1>1 DEF IInv, SnapshotUnderWay
  <2> QED
    BY <1>1, <2>1, <2>2, Files, DocumentCovers, MoveInv DEF WriteTemporary, history
<1> QED
  BY <1>2, <1>3

LEMMA WriteInv ==
  ASSUME IInv, Write
  PROVE  IInv'
<1>1. /\ process = "serving" /\ loop = "write"
      /\ UNCHANGED <<store, process, unloaded, reading, file, stops, floor, content>>
  BY DEF Write
<1>2. CASE tmp' = [whole |-> TRUE, sensors |-> doc] /\ loop' = "rename" /\ UNCHANGED <<refs, doc, asked, failures>>
  <2>1. Unmarshalled = {}
    BY <1>1 DEF IInv, SnapshotUnderWay
  <2> QED
    BY <1>1, <1>2, <2>1, Files, DocumentCovers, MoveInv DEF history, bounds
<1>3. CASE failures < MaxFailures /\ failures' = failures + 1 /\ Return /\ UNCHANGED tmp
  <2>1. /\ tmp' \in File /\ file' \in File /\ failures' \in 0..MaxFailures
        /\ \A i \in Ids : file'.sensors[i].version \in Known(i) \cup {0}
    BY <1>1, <1>3, Numbers DEF IInv, TypeOK, Known
  <2>2. SnapshotCovers'
    BY <1>1 DEF IInv, SnapshotCovers
  <2> QED
    BY <1>1, <1>3, <2>1, <2>2, DocumentCovers, ReturnInv
<1> QED
  BY <1>2, <1>3 DEF Write

(* The rename puts a whole document in the place of another, or changes     *)
(* nothing.                                                                 *)
LEMMA RenameInv ==
  ASSUME IInv, Rename
  PROVE  IInv'
<1>1. /\ process = "serving" /\ loop = "rename" /\ Return
      /\ UNCHANGED <<store, process, unloaded, reading, stops, content>>
  BY DEF Rename
<1>2. tmp = [whole |-> TRUE, sensors |-> doc]
  BY <1>1 DEF IInv, SnapshotUnderWay
<1>3. CASE file' = tmp /\ tmp' = EmptyFile /\ floor' = asked /\ UNCHANGED failures
  <2>1. SnapshotCovers'
    BY <1>1, <1>2, <1>3, DocumentCovers DEF SnapshotCovers
  <2>2. /\ tmp' \in File /\ file' \in File /\ failures' \in 0..MaxFailures
        /\ \A i \in Ids : file'.sensors[i].version \in Known(i) \cup {0}
    BY <1>2, <1>3, Files DEF IInv, TypeOK, Known
  <2> QED
    BY <1>1, <1>3, <2>1, <2>2, DocumentCovers, ReturnInv
<1>4. CASE failures < MaxFailures /\ failures' = failures + 1 /\ UNCHANGED <<disk, floor>>
  <2>1. /\ tmp' \in File /\ file' \in File /\ failures' \in 0..MaxFailures
        /\ \A i \in Ids : file'.sensors[i].version \in Known(i) \cup {0}
    BY <1>4, Numbers DEF IInv, TypeOK, Known, disk
  <2>2. SnapshotCovers'
    BY <1>4 DEF IInv, SnapshotCovers, disk
  <2> QED
    BY <1>1, <1>4, <2>1, <2>2, DocumentCovers, ReturnInv
<1> QED
  BY <1>3, <1>4 DEF Rename

-----------------------------------------------------------------------------
(* The process.                                                             *)

LEMMA ForgetInv ==
  ASSUME IInv, NEW end \in {"crashed", "stopped"}, Forget(end)
  PROVE  IInv'
<1>1. /\ stops' \in 0..MaxStops /\ process' = end
      /\ table' = Nothing /\ heap' = NoHeap /\ writing' = NoPatch /\ unloaded' = {}
      /\ loop' = "wait" /\ refs' = Nothing /\ reading' = NoReading /\ doc' = NoObjects
      /\ asked' = Nothing
      /\ UNCHANGED <<issued, tmp, file, failures, floor, content>>
  BY Numbers DEF Forget, disk, IInv, TypeOK
<1>2. /\ \A i \in Ids : table'[i] = 0 /\ refs'[i] = 0 /\ asked'[i] = 0 /\ doc'[i] = NoObject
      /\ \A n \in Versions : heap'[n] = NoObject
  BY <1>1 DEF Nothing, NoObjects, NoHeap
<1>3. TypeOK'
  <2>1. /\ table' \in [Ids -> 0..MaxVersion] /\ refs' \in [Ids -> 0..MaxVersion]
        /\ asked' \in [Ids -> 0..MaxVersion] /\ doc' \in [Ids -> Unfinished]
        /\ heap' \in [Versions -> Object \cup {NoObject}]
    BY <1>1, Numbers, ObjectVersions DEF Nothing, NoObjects, NoHeap
  <2>2. /\ writing' \in [obj: 0..MaxVersion, key: Keys \cup {NoKey}]
        /\ reading' \in [id: Ids \cup {NoId}, field: {"key", "version", "reports"}]
    BY <1>1, Numbers DEF NoPatch, NoReading
  <2> QED
    BY <1>1, <2>1, <2>2 DEF IInv, TypeOK
<1>4. VersionsApart'
  <2>1. \A i \in Ids : Known(i)' \subseteq Known(i)
    BY <1>1, <1>2, ObjectVersions DEF Known, VersionOf, RefVersion, Present
  <2> QED
    BY <1>1, <2>1 DEF IInv, VersionsApart
<1>5. ObjectsLive'
  BY <1>1, <1>2, ObjectVersions DEF ObjectsLive, NoPatch
<1>6. SnapshotUnderWay'
  BY <1>1, <1>2, ObjectVersions DEF SnapshotUnderWay, RefVersion, NoReading
<1>7. RestoreUnderWay' /\ SnapshotCovers'
  BY <1>1 DEF IInv, RestoreUnderWay, SnapshotCovers
<1> QED
  BY <1>3, <1>4, <1>5, <1>6, <1>7 DEF IInv

LEMMA StartInv ==
  ASSUME IInv, Start
  PROVE  IInv'
<1>1. /\ process \in {"crashed", "stopped"} /\ process' = "loading"
      /\ unloaded' = {i \in Ids : file.whole /\ file.sensors[i].version # 0}
      /\ UNCHANGED <<table, heap, issued, writing, loop, refs, reading, doc, tmp, file, stops, failures,
                     floor, asked, content>>
  BY DEF Start, store, snapshot, disk, bounds, history
<1>2. TypeOK'
  BY <1>1 DEF IInv, TypeOK
<1>3. \A i \in Ids : RefVersion(i)' = RefVersion(i) /\ VersionOf(i)' = VersionOf(i)
  BY <1>1 DEF RefVersion, VersionOf, Present
<1>4. VersionsApart' /\ ObjectsLive'
  BY <1>1, <1>3 DEF IInv, VersionsApart, ObjectsLive, Known
<1>5. SnapshotUnderWay'
  BY <1>1, <1>3 DEF IInv, SnapshotUnderWay, Unmarshalled
<1>6. SnapshotCovers' /\ file.whole
  BY <1>1 DEF IInv, SnapshotCovers
<1>7. RestoreUnderWay'
  <2>1. \A i \in Ids : ~Present(i)'
    BY <1>1 DEF IInv, RestoreUnderWay, Nothing, Present
  <2> QED
    BY <1>1, <1>6, <2>1 DEF RestoreUnderWay
<1> QED
  BY <1>2, <1>4, <1>5, <1>6, <1>7 DEF IInv

(* Its version is known of no other sensor: the object that is made for it  *)
(* takes no other one's place.                                              *)
LEMMA LoadSensorInv ==
  ASSUME IInv, NEW i \in Ids, LoadSensor(i)
  PROVE  IInv'
<1> DEFINE s == file.sensors[i]
           o == [s EXCEPT !.reports = 0]
<1>1. /\ process = "loading" /\ i \in unloaded
      /\ unloaded' = unloaded \ {i}
      /\ UNCHANGED <<issued, writing, process, loop, refs, reading, doc, tmp, file, stops, failures,
                     floor, asked, content>>
  BY DEF LoadSensor, snapshot, disk, bounds, history
<1>2. /\ loop = "wait" /\ refs = Nothing /\ doc = NoObjects /\ writing.obj = 0
      /\ ~Present(i)
      /\ table \in [Ids -> 0..MaxVersion] /\ heap \in [Versions -> Object \cup {NoObject}]
      /\ issued \in Nat
  BY <1>1, Numbers DEF IInv, ObjectsLive, SnapshotUnderWay, RestoreUnderWay, TypeOK
<1>3. s \in Object /\ s.version # 0
  <2>1. s.version # 0
    BY <1>1 DEF IInv, RestoreUnderWay
  <2>2. s \in Object \cup {NoObject}
    BY DEF IInv, TypeOK, File
  <2> QED
    BY <2>1, <2>2, ObjectVersions
<1>4. CASE KeyInUse(s.key)
  <2>1. UNCHANGED <<table, heap>>
    BY <1>4 DEF LoadSensor
  <2>2. TypeOK'
    BY <1>1, <2>1 DEF IInv, TypeOK
  <2>3. \A j \in Ids : RefVersion(j)' = RefVersion(j) /\ VersionOf(j)' = VersionOf(j)
    BY <1>1, <2>1 DEF RefVersion, VersionOf, Present
  <2>4. VersionsApart' /\ ObjectsLive'
    BY <1>1, <2>1, <2>3 DEF IInv, VersionsApart, ObjectsLive, Known
  <2>5. SnapshotUnderWay'
    BY <1>1, <2>3 DEF IInv, SnapshotUnderWay, Unmarshalled
  <2>6. RestoreUnderWay'
    BY <1>1, <1>4, <2>1, <2>3 DEF IInv, RestoreUnderWay, Present, KeyInUse
  <2>7. SnapshotCovers'
    BY <1>1 DEF IInv, SnapshotCovers
  <2> QED
    BY <2>2, <2>4, <2>5, <2>6, <2>7 DEF IInv
<1>5. CASE ~KeyInUse(s.key)
  <2>1. table' = [table EXCEPT ![i] = s.version] /\ heap' = [heap EXCEPT ![s.version] = o]
    BY <1>5 DEF LoadSensor
  <2>2. s.version \in Versions /\ s.key \in Keys
    BY <1>3, ObjectVersions DEF Versions
  <2>3. o \in Object /\ o.version = s.version /\ o.key = s.key
    BY <1>3, Numbers DEF Object
  <2>4. s.version \in Known(i)
    BY <1>3 DEF Known
  <2> HIDE DEF o
  <2>5. /\ table'[i] = s.version /\ \A j \in Ids \ {i} : table'[j] = table[j]
        /\ heap'[s.version] = o /\ \A n \in Versions \ {s.version} : heap'[n] = heap[n]
    BY <1>2, <2>1, <2>2
  <2>6. \A j \in Ids \ {i} : Present(j) => table[j] \in Versions \ {s.version}
    <3> SUFFICES ASSUME NEW j \in Ids \ {i}, Present(j) PROVE table[j] \in Versions \ {s.version}
      OBVIOUS
    <3>1. table[j] = VersionOf(j) /\ table[j] # 0
      BY <1>1 DEF IInv, RestoreUnderWay, Present
    <3>2. table[j] \in Known(j)
      BY <3>1 DEF Known
    <3>3. Known(j) \cap Known(i) = {}
      BY DEF IInv, VersionsApart
    <3> QED
      BY <1>2, <2>4, <3>1, <3>2, <3>3, Numbers DEF Versions
  <2>7. \A j \in Ids : /\ VersionOf(j)' = IF j = i THEN s.version ELSE VersionOf(j)
                       /\ RefVersion(j)' = RefVersion(j)
    BY <1>1, <1>2, <1>3, <2>3, <2>5, <2>6 DEF VersionOf, RefVersion, Present, Nothing
  <2>8. TypeOK'
    <3>1. /\ table' \in [Ids -> 0..MaxVersion] /\ heap' \in [Versions -> Object \cup {NoObject}]
      BY <1>2, <2>1, <2>2, <2>3, Numbers DEF Versions
    <3> QED
      BY <1>1, <3>1 DEF IInv, TypeOK
  <2>9. VersionsApart'
    <3>1. \A j \in Ids : Known(j)' \subseteq Known(j)
      BY <1>1, <2>4, <2>7 DEF Known
    <3> QED
      BY <1>1, <3>1 DEF IInv, VersionsApart
  <2>10. ObjectsLive'
    <3>1. \A j \in Ids : table'[j] # 0 => heap'[table'[j]] \in Object
      BY <2>3, <2>5, <2>6 DEF IInv, ObjectsLive, Present
    <3>2. \A n \in Versions : heap'[n] \in Object => heap'[n].version \in n..issued
      <4>1. s.version \in s.version..issued
        <5>1. s.version \in 1..issued
          BY <2>4 DEF IInv, VersionsApart
        <5> QED
          BY <1>2, <5>1
      <4> QED
        BY <2>3, <2>5, <4>1 DEF IInv, ObjectsLive
    <3> QED
      BY <1>1, <1>2, <3>1, <3>2 DEF ObjectsLive, Nothing
  <2>11. SnapshotUnderWay'
    BY <1>1, <2>7 DEF IInv, SnapshotUnderWay, Unmarshalled
  <2>12. RestoreUnderWay'
    <3>1. Present(i)' /\ heap'[table'[i]].key = s.key
      BY <1>3, <2>3, <2>5 DEF Present
    <3>2. \A j \in Ids : Present(j) => Present(j)' /\ heap'[table'[j]].key = heap[table[j]].key
      BY <1>2, <2>5, <2>6 DEF Present
    <3>3. \A j \in Ids : file'.sensors[j] = file.sensors[j]
      BY <1>1
    <3>4. /\ table'[i] = file'.sensors[i].version /\ heap'[table'[i]].key = file'.sensors[i].key
          /\ VersionOf(i)' = file'.sensors[i].version
      BY <1>1, <2>3, <2>5, <2>7
    <3>5. \A j \in Ids \ {i} : Present(j)' =>
                       /\ j \notin unloaded'
                       /\ table'[j] = file'.sensors[j].version
                       /\ heap'[table'[j]].key = file'.sensors[j].key
                       /\ VersionOf(j)' = file'.sensors[j].version
      <4> SUFFICES ASSUME NEW j \in Ids \ {i}, Present(j)'
                   PROVE  /\ j \notin unloaded'
                          /\ table'[j] = file'.sensors[j].version
                          /\ heap'[table'[j]].key = file'.sensors[j].key
                          /\ VersionOf(j)' = file'.sensors[j].version
        OBVIOUS
      <4>1. Present(j) /\ table'[j] = table[j] /\ heap'[table[j]] = heap[table[j]] /\ VersionOf(j)' = VersionOf(j)
        BY <2>5, <2>6, <2>7 DEF Present
      <4> QED
        BY <1>1, <4>1 DEF IInv, RestoreUnderWay
    <3>6. ASSUME NEW j \in Ids
          PROVE  /\ j \in unloaded' => file'.sensors[j].version # 0
                 /\ file'.sensors[j].version # 0 => j \in unloaded' \/ KeyInUse(file.sensors[j].key)'
      <4>1. CASE j = i
        BY <1>1, <3>1, <4>1 DEF KeyInUse
      <4>2. CASE j # i
        <5>1. /\ j \in unloaded => file.sensors[j].version # 0
              /\ file.sensors[j].version # 0 => j \in unloaded \/ KeyInUse(file.sensors[j].key)
          BY <1>1 DEF IInv, RestoreUnderWay
        <5>2. KeyInUse(file.sensors[j].key) => KeyInUse(file.sensors[j].key)'
          BY <1>1, <3>2 DEF KeyInUse
        <5> QED
          BY <1>1, <3>3, <4>2, <5>1, <5>2
      <4> QED
        BY <4>1, <4>2
    <3>7. i \notin unloaded'
      BY <1>1
    <3> QED
      BY <1>1, <3>4, <3>5, <3>6, <3>7 DEF RestoreUnderWay
  <2>13. SnapshotCovers'
    BY <1>1 DEF IInv, SnapshotCovers
  <2> QED
    BY <2>8, <2>9, <2>10, <2>11, <2>12, <2>13 DEF IInv
<1> QED
  BY <1>4, <1>5

LEMMA LoadedInv ==
  ASSUME IInv, Loaded
  PROVE  IInv'
<1>1. /\ process = "loading" /\ process' = "serving"
      /\ UNCHANGED <<table, heap, issued, writing, unloaded, loop, refs, reading, doc, tmp, file, stops,
                     failures, floor, asked, content>>
  BY DEF Loaded, store, snapshot, disk, bounds, history
<1>2. TypeOK'
  BY <1>1 DEF IInv, TypeOK
<1>3. \A i \in Ids : RefVersion(i)' = RefVersion(i) /\ VersionOf(i)' = VersionOf(i)
  BY <1>1 DEF RefVersion, VersionOf, Present
<1>4. VersionsApart' /\ ObjectsLive'
  BY <1>1, <1>3 DEF IInv, VersionsApart, ObjectsLive, Known
<1>5. SnapshotUnderWay'
  BY <1>1, <1>3 DEF IInv, SnapshotUnderWay, Unmarshalled
<1>6. RestoreUnderWay' /\ SnapshotCovers'
  BY <1>1 DEF IInv, RestoreUnderWay, SnapshotCovers
<1> QED
  BY <1>2, <1>4, <1>5, <1>6 DEF IInv

-----------------------------------------------------------------------------

LEMMA NextInv == IInv /\ [Next]_vars => IInv'
<1> SUFFICES ASSUME IInv, [Next]_vars PROVE IInv'
  OBVIOUS
<1>1. CASE UNCHANGED vars
  <2> USE <1>1 DEF vars, store, snapshot, disk, bounds, history
  <2>1. TypeOK'
    BY DEF IInv, TypeOK
  <2>2. VersionsApart'
    <3>1. \A i \in Ids : Known(i)' = Known(i)
      BY DEF Known, VersionOf, Present, RefVersion
    <3> QED
      BY <3>1 DEF IInv, VersionsApart
  <2>3. ObjectsLive'
    BY DEF IInv, ObjectsLive
  <2>4. SnapshotUnderWay'
    BY DEF IInv, SnapshotUnderWay, Unmarshalled, RefVersion
  <2>5. RestoreUnderWay' /\ SnapshotCovers'
    BY DEF IInv, RestoreUnderWay, SnapshotCovers, Present, VersionOf, KeyInUse
  <2> QED
    BY <2>1, <2>2, <2>3, <2>4, <2>5 DEF IInv
<1>2. CASE \E i \in Ids : \/ \E k \in Keys : Register(i, k) \/ PatchLock(i, k)
                          \/ SendData(i) \/ Delete(i)
  BY <1>2, RegisterInv, PatchLockInv, SendDataInv, DeleteInv
<1>3. CASE PatchWrite \/ PatchStamp
  BY <1>3, PatchWriteInv, PatchStampInv
<1>4. CASE Loop
  BY <1>4, SnapshotQueryInv, MarshalInv, MarshalledInv, CompareInv, WriteInv, RenameInv DEF Loop
<1>5. CASE Load
  BY <1>5, LoadedInv, LoadSensorInv DEF Load
<1>6. CASE Crash \/ Shutdown \/ Start
  BY <1>6, ForgetInv, StartInv DEF Crash, Shutdown
<1> QED
  BY <1>1, <1>2, <1>3, <1>4, <1>5, <1>6 DEF Next

(* No version is known of two sensors, what a snapshot has read is no older *)
(* than what its Query returned, and what a start has loaded is as in the   *)
(* file: the invariant behind the two that follow.                          *)
THEOREM Invariance == Spec => []IInv
BY InitInv, NextInv, PTL DEF Spec

(* However the process ends, the file is whole and covers every call that   *)
(* was answered before the Query of the last finished snapshot              *)
(* (takeSnapshot, snapshot_storage.go:93).                                  *)
THEOREM FileCovers == Spec => []SnapshotCovers
<1>1. IInv => SnapshotCovers
  BY DEF IInv
<1> QED
  BY <1>1, Invariance, PTL

(* A start gives back the sensors of the file as the file has them, except  *)
(* those whose key another one has taken, and no other, even when a process *)
(* was ended while it loaded (loadInitialState, snapshot_storage.go:102).   *)
THEOREM StartFollowsFile == Spec => RestoreFollowsFile
<1> DEFINE Follows == process = "loading" /\ process' = "serving" =>
       \A i \in Ids :
         /\ Present(i) => /\ heap[table[i]].key = file.sensors[i].key
                          /\ VersionOf(i) = file.sensors[i].version
         /\ file.sensors[i].version # 0 => KeyInUse(file.sensors[i].key)
         /\ file.sensors[i].version # 0 /\ ~Present(i) =>
              \E j \in Ids \ {i} : file.sensors[j].key = file.sensors[i].key
<1>1. IInv /\ [Next]_vars => Follows
  <2> SUFFICES ASSUME IInv, [Next]_vars, process = "loading", process' = "serving", NEW i \in Ids
               PROVE  /\ Present(i) => /\ heap[table[i]].key = file.sensors[i].key
                                       /\ VersionOf(i) = file.sensors[i].version
                      /\ file.sensors[i].version # 0 => KeyInUse(file.sensors[i].key)
                      /\ file.sensors[i].version # 0 /\ ~Present(i) =>
                           \E j \in Ids \ {i} : file.sensors[j].key = file.sensors[i].key
    OBVIOUS
  <2>1. unloaded = {}
    <3>1. ~Loop /\ ~PatchWrite
      BY DEF Loop, SnapshotQuery, Unlocked, Marshal, Marshalled, Compare, Write, Rename,
             PatchWrite, IInv, ObjectsLive
    <3>2. ~PatchStamp /\ ~\E j \in Ids : \/ \E k \in Keys : Register(j, k) \/ PatchLock(j, k)
                                         \/ SendData(j) \/ Delete(j)
      BY DEF PatchStamp, Register, PatchLock, SendData, Delete, Unlocked, IInv, ObjectsLive
    <3>3. ~Crash /\ ~Shutdown /\ ~Start /\ ~UNCHANGED vars /\ \A j \in Ids : ~LoadSensor(j)
      BY DEF Crash, Shutdown, Start, Forget, LoadSensor, vars
    <3>4. Next
      BY <3>3
    <3>5. Load
      BY <3>1, <3>2, <3>3, <3>4 DEF Next
    <3> QED
      BY <3>3, <3>5 DEF Load, Loaded
  <2>2. /\ Present(i) => /\ heap[table[i]].key = file.sensors[i].key
                         /\ VersionOf(i) = file.sensors[i].version
        /\ file.sensors[i].version # 0 => KeyInUse(file.sensors[i].key)
    BY <2>1 DEF IInv, RestoreUnderWay
  <2>3. ASSUME file.sensors[i].version # 0, ~Present(i)
        PROVE  \E j \in Ids \ {i} : file.sensors[j].key = file.sensors[i].key
    <3>1. PICK j \in Ids : Present(j) /\ heap[table[j]].key = file.sensors[i].key
      BY <2>2, <2>3 DEF KeyInUse
    <3>2. heap[table[j]].key = file.sensors[j].key
      BY <3>1 DEF IInv, RestoreUnderWay
    <3> QED
      BY <2>3, <3>1, <3>2
  <2> QED
    BY <2>2, <2>3
<1> QED
  BY <1>1, Invariance, PTL DEF Spec, RestoreFollowsFile
=============================================================================

-------------------------- MODULE SnapshotStorage --------------------------
(***************************************************************************)
(* Persistence of the in-memory store (snapshot_storage.go): a loop asks   *)
(* the store for all its sensors, marshals what it gets and replaces a     *)
(* file by way of a temporary one; a starting process registers the        *)
(* sensors of that file again.  Between them the process may be killed, or *)
(* be asked to stop (app.go), at any moment.                               *)
(*                                                                         *)
(* Query returns pointers, so marshalling reads sensors that other calls   *)
(* patch, report for and delete meanwhile.  Marshalling iterates the map   *)
(* of reported data that a report writes: the Go runtime may abort the     *)
(* process over that, which Crash covers.                                  *)
(*                                                                         *)
(* A sensor is its natural key, its version, and how many reports have     *)
(* been merged into it (reported data and the time of the last report).    *)
(* That is their order in the document too.  The natural key stands for    *)
(* what a patch can change; what is marshalled after the version           *)
(* (description, labels, rules) is not told apart.                         *)
(***************************************************************************)
EXTENDS Integers, FiniteSets

CONSTANTS
  Ids,           \* sensor identifiers
  Keys,          \* natural keys
  NoId, NoKey,
  MaxVersion,    \* bound on the versions drawn by Register and Patch
  MaxReports,    \* bound on the reports merged into one sensor
  MaxStops,      \* bound on crashes and shutdowns
  MaxFailures    \* bound on failed writes and renames of the temporary file

ASSUME DistinctAssumption == NoId \notin Ids /\ NoKey \notin Keys
ASSUME BoundsAssumption == {MaxVersion, MaxReports, MaxStops, MaxFailures} \subseteq Nat

Versions == 1..MaxVersion

VARIABLES
  table,      \* the store's map from identifiers to objects; 0: no entry
  heap,       \* the sensor objects, by the version drawn at their birth
  issued,     \* versions drawn so far
  writing,    \* the object whose Patch holds the mutex, and what it assigns
  process,    \* "loading", "serving", "crashed" or "stopped"
  unloaded,   \* identifiers of the file that are still to be registered
  loop,       \* where the snapshot loop stands
  refs,       \* the objects Query returned, by identifier; 0: none
  reading,    \* the sensor being marshalled and its next field
  doc,        \* the document marshalled so far
  tmp, file,  \* the temporary file and the snapshot file
  stops, failures,
  floor,      \* versions the store held at the Query of the last finished snapshot
  asked,      \* ... and at the Query of the snapshot under way
  content     \* the natural key each version was drawn for

store == <<table, heap, issued, writing>>
snapshot == <<loop, refs, reading, doc>>
disk == <<tmp, file>>
bounds == <<stops, failures>>
history == <<floor, asked, content>>
vars == <<store, process, unloaded, snapshot, disk, bounds, history>>

Object == [key: Keys, version: Versions, reports: 0..MaxReports]
NoObject == [key |-> NoKey, version |-> 0, reports |-> 0]
NoObjects == [i \in Ids |-> NoObject]
Unfinished == [key: Keys \cup {NoKey}, version: 0..MaxVersion, reports: 0..MaxReports]
NoHeap == [n \in Versions |-> NoObject]
Nothing == [i \in Ids |-> 0]

\* A file that was never written holds no sensor.
File == [whole: BOOLEAN, sensors: [Ids -> Object \cup {NoObject}]]
EmptyFile == [whole |-> TRUE, sensors |-> NoObjects]
PartialFile == [whole |-> FALSE, sensors |-> NoObjects]

NoPatch == [obj |-> 0, key |-> NoKey]
NoReading == [id |-> NoId, field |-> "key"]

TypeOK ==
  /\ table \in [Ids -> 0..MaxVersion]
  /\ heap \in [Versions -> Object \cup {NoObject}]
  /\ issued \in 0..MaxVersion
  /\ writing \in [obj: 0..MaxVersion, key: Keys \cup {NoKey}]
  /\ process \in {"loading", "serving", "crashed", "stopped"}
  /\ unloaded \subseteq Ids
  /\ loop \in {"wait", "marshal", "compare", "write", "rename"}
  /\ refs \in [Ids -> 0..MaxVersion]
  /\ reading \in [id: Ids \cup {NoId}, field: {"key", "version", "reports"}]
  /\ doc \in [Ids -> Unfinished]
  /\ tmp \in File /\ file \in File
  /\ stops \in 0..MaxStops /\ failures \in 0..MaxFailures
  /\ floor \in [Ids -> 0..MaxVersion] /\ asked \in [Ids -> 0..MaxVersion]
  /\ content \in [Versions -> Keys \cup {NoKey}]

\* The first start finds no file.
Init ==
  /\ table = Nothing /\ heap = NoHeap /\ issued = 0 /\ writing = NoPatch
  /\ process = "serving" /\ unloaded = {}
  /\ loop = "wait" /\ refs = Nothing /\ reading = NoReading /\ doc = NoObjects
  /\ tmp = EmptyFile /\ file = EmptyFile
  /\ stops = 0 /\ failures = 0
  /\ floor = Nothing /\ asked = Nothing
  /\ content = [v \in Versions |-> NoKey]

-----------------------------------------------------------------------------
(* The calls of the service on the store, passed through.  A Patch holds    *)
(* the mutex from its first step to its last; those that are refused change *)
(* nothing and are left out.                                                *)

Present(i) == table[i] # 0
VersionOf(i) == IF Present(i) THEN heap[table[i]].version ELSE 0
KeyInUse(k) == \E j \in Ids : Present(j) /\ heap[table[j]].key = k

Unlocked == process = "serving" /\ writing = NoPatch

Register(i, k) ==
  /\ Unlocked /\ ~Present(i) /\ ~KeyInUse(k)
  /\ issued < MaxVersion
  /\ issued' = issued + 1
  /\ table' = [table EXCEPT ![i] = issued + 1]
  /\ heap' = [heap EXCEPT ![issued + 1] = [key |-> k, version |-> issued + 1, reports |-> 0]]
  /\ content' = [content EXCEPT ![issued + 1] = k]
  /\ UNCHANGED <<writing, process, unloaded, snapshot, disk, bounds, floor, asked>>

PatchLock(i, k) ==
  /\ Unlocked /\ Present(i)
  /\ issued < MaxVersion
  /\ writing' = [obj |-> table[i], key |-> k]
  /\ UNCHANGED <<table, heap, issued, process, unloaded, snapshot, disk, bounds, history>>

PatchWrite ==
  /\ writing.obj # 0 /\ writing.key # NoKey
  /\ heap' = [heap EXCEPT ![writing.obj].key = writing.key]
  /\ writing' = [writing EXCEPT !.key = NoKey]
  /\ UNCHANGED <<table, issued, process, unloaded, snapshot, disk, bounds, history>>

PatchStamp ==
  /\ writing.obj # 0 /\ writing.key = NoKey
  /\ issued' = issued + 1
  /\ heap' = [heap EXCEPT ![writing.obj].version = issued + 1]
  /\ content' = [content EXCEPT ![issued + 1] = heap[writing.obj].key]
  /\ writing' = NoPatch
  /\ UNCHANGED <<table, process, unloaded, snapshot, disk, bounds, floor, asked>>

SendData(i) ==
  /\ Unlocked /\ Present(i)
  /\ heap[table[i]].reports < MaxReports
  /\ heap' = [heap EXCEPT ![table[i]].reports = @ + 1]
  /\ UNCHANGED <<table, issued, writing, process, unloaded, snapshot, disk, bounds, history>>

Delete(i) ==
  /\ Unlocked /\ Present(i)
  /\ table' = [table EXCEPT ![i] = 0]
  /\ UNCHANGED <<heap, issued, writing, process, unloaded, snapshot, disk, bounds, history>>

-----------------------------------------------------------------------------
(* The snapshot loop: takeSnapshot at every tick.                           *)

SnapshotQuery ==
  /\ Unlocked /\ loop = "wait"
  /\ refs' = table
  /\ doc' = NoObjects
  /\ asked' = [i \in Ids |-> VersionOf(i)]
  /\ loop' = "marshal"
  /\ UNCHANGED <<store, process, unloaded, reading, disk, bounds, floor, content>>

Unmarshalled == {i \in Ids : refs[i] # 0 /\ doc[i].version = 0}

\* The fields of one sensor after the other, in the order of their declaration,
\* from the live objects.
Marshal ==
  /\ process = "serving" /\ loop = "marshal"
  /\ \/ /\ reading.id = NoId
        /\ \E i \in Unmarshalled :
             /\ doc' = [doc EXCEPT ![i].key = heap[refs[i]].key]
             /\ reading' = [id |-> i, field |-> "version"]
     \/ /\ reading.id # NoId /\ reading.field = "version"
        /\ doc' = [doc EXCEPT ![reading.id].version = heap[refs[reading.id]].version]
        /\ reading' = [reading EXCEPT !.field = "reports"]
     \/ /\ reading.id # NoId /\ reading.field = "reports"
        /\ doc' = [doc EXCEPT ![reading.id].reports = heap[refs[reading.id]].reports]
        /\ reading' = NoReading
  /\ UNCHANGED <<store, process, unloaded, loop, refs, disk, bounds, history>>

Marshalled ==
  /\ process = "serving" /\ loop = "marshal"
  /\ reading = NoReading /\ Unmarshalled = {}
  /\ loop' = "compare"
  /\ UNCHANGED <<store, process, unloaded, refs, reading, doc, disk, bounds, history>>

\* takeSnapshot returns.
Return ==
  /\ loop' = "wait"
  /\ refs' = Nothing /\ doc' = NoObjects /\ asked' = Nothing

WriteTemporary ==
  /\ loop' = "write"
  /\ tmp' = PartialFile
  /\ UNCHANGED <<refs, doc, asked, floor>>

\* Faulty variant: a sensor of the same version is taken for the same sensor.
CompareVersions ==
  /\ process = "serving" /\ loop = "compare"
  /\ IF file.whole /\ \A i \in Ids : file.sensors[i].version = doc[i].version
       THEN Return /\ floor' = asked /\ UNCHANGED tmp
       ELSE WriteTemporary
  /\ UNCHANGED <<store, process, unloaded, reading, file, bounds, content>>

\* The same bytes are not written again; otherwise the temporary file is
\* truncated and written.
Compare ==
  /\ process = "serving" /\ loop = "compare"
  /\ IF file = [whole |-> TRUE, sensors |-> doc]
       THEN Return /\ floor' = asked /\ UNCHANGED tmp
       ELSE WriteTemporary
  /\ UNCHANGED <<store, process, unloaded, reading, file, bounds, content>>

\* Faulty variant: the snapshot file is written in place.
WriteInPlace ==
  /\ process = "serving" /\ loop = "write"
  /\ IF file.whole
       THEN loop' = "write" /\ file' = PartialFile /\ UNCHANGED <<tmp, failures>>
       ELSE loop' = "rename" /\ tmp' = [whole |-> TRUE, sensors |-> doc] /\ UNCHANGED <<file, failures>>
  /\ UNCHANGED <<store, process, unloaded, refs, reading, doc, stops, history>>

\* The write succeeds, or fails and leaves the temporary file as it is.
Write ==
  /\ process = "serving" /\ loop = "write"
  /\ \/ /\ tmp' = [whole |-> TRUE, sensors |-> doc]
        /\ loop' = "rename"
        /\ UNCHANGED <<refs, doc, asked, failures>>
     \/ /\ failures < MaxFailures
        /\ failures' = failures + 1
        /\ Return
        /\ UNCHANGED tmp
  /\ UNCHANGED <<store, process, unloaded, reading, file, stops, floor, content>>

\* The rename replaces the file, or fails and leaves both files as they are.
Rename ==
  /\ process = "serving" /\ loop = "rename"
  /\ \/ /\ file' = tmp /\ tmp' = EmptyFile
        /\ floor' = asked
        /\ UNCHANGED failures
     \/ /\ failures < MaxFailures
        /\ failures' = failures + 1
        /\ UNCHANGED <<disk, floor>>
  /\ Return
  /\ UNCHANGED <<store, process, unloaded, reading, stops, content>>

-----------------------------------------------------------------------------
(* The process ends, and starts again from the file.                        *)

Forget(end) ==
  /\ stops < MaxStops
  /\ stops' = stops + 1
  /\ process' = end
  /\ table' = Nothing /\ heap' = NoHeap /\ writing' = NoPatch
  /\ unloaded' = {}
  /\ loop' = "wait" /\ refs' = Nothing /\ reading' = NoReading /\ doc' = NoObjects
  /\ asked' = Nothing
  /\ UNCHANGED <<issued, disk, failures, floor, content>>

Crash == process \in {"loading", "serving"} /\ Forget("crashed")

\* Asked to stop, the server waits for the calls under way and exits; nothing
\* calls Close, which would end the loop and save once more.
Shutdown == Unlocked /\ Forget("stopped")

\* A file that does not parse is as good as none.
Start ==
  /\ process \in {"crashed", "stopped"}
  /\ process' = "loading"
  /\ unloaded' = {i \in Ids : file.whole /\ file.sensors[i].version # 0}
  /\ UNCHANGED <<store, snapshot, disk, bounds, history>>

\* Faulty variant: the first sensor that is registered ends the loading.
LoadSensorFirst(i) ==
  /\ process = "loading" /\ i \in unloaded
  /\ unloaded' = {}
  /\ LET s == file.sensors[i] IN
     /\ table' = [table EXCEPT ![i] = s.version]
     /\ heap' = [heap EXCEPT ![s.version] = [s EXCEPT !.reports = 0]]
  /\ UNCHANGED <<issued, writing, process, snapshot, disk, bounds, history>>

\* Each sensor of the file is registered, in the order a Go map yields them;
\* an error is ignored.  Register starts a sensor without reports.
LoadSensor(i) ==
  /\ process = "loading" /\ i \in unloaded
  /\ unloaded' = unloaded \ {i}
  /\ LET s == file.sensors[i] IN
     IF KeyInUse(s.key)
       THEN UNCHANGED <<table, heap>>
       ELSE /\ table' = [table EXCEPT ![i] = s.version]
            /\ heap' = [heap EXCEPT ![s.version] = [s EXCEPT !.reports = 0]]
  /\ UNCHANGED <<issued, writing, process, snapshot, disk, bounds, history>>

Loaded ==
  /\ process = "loading" /\ unloaded = {}
  /\ process' = "serving"
  /\ UNCHANGED <<store, unloaded, snapshot, disk, bounds, history>>

Loop == SnapshotQuery \/ Marshal \/ Marshalled \/ Compare \/ Write \/ Rename
Load == Loaded \/ \E i \in Ids : LoadSensor(i)

Next ==
  \/ \E i \in Ids :
       \/ \E k \in Keys : Register(i, k) \/ PatchLock(i, k)
       \/ SendData(i) \/ Delete(i)
  \/ PatchWrite \/ PatchStamp
  \/ Loop \/ Load
  \/ Crash \/ Shutdown \/ Start

Spec == Init /\ [][Next]_vars

\* The ticker keeps ticking, the loop's goroutine and those of calls under way
\* are scheduled, and nobody waits for the mutex for ever.  Nothing makes
\* clients call, the process end, or an ended process start again.
FairSpec ==
  /\ Spec
  /\ SF_vars(Loop)
  /\ WF_vars(PatchWrite \/ PatchStamp)
  /\ WF_vars(Load)

-----------------------------------------------------------------------------
(* Properties.                                                              *)

(* Whatever kills the process, the file is whole and covers every call      *)
(* answered before the Query of the last finished snapshot: it has exactly  *)
(* the sensors of that moment, each at that version or, because the fields  *)
(* are read later, at a later one (takeSnapshot: temporary file and rename, *)
(* snapshot_storage.go:93).                                                 *)
SnapshotCovers ==
  /\ file.whole
  /\ \A i \in Ids :
       /\ file.sensors[i].version # 0 <=> floor[i] # 0
       /\ file.sensors[i].version >= floor[i]

(* A start brings back every sensor of the file as the file has it, save    *)
(* for one whose natural key another sensor of the file has as well, and    *)
(* invents none (loadInitialState).                                         *)
RestoreFollowsFile ==
  [][process = "loading" /\ process' = "serving" =>
       \A i \in Ids :
         /\ Present(i) => /\ heap[table[i]].key = file.sensors[i].key
                          /\ VersionOf(i) = file.sensors[i].version
         /\ file.sensors[i].version # 0 => KeyInUse(file.sensors[i].key)
         /\ file.sensors[i].version # 0 /\ ~Present(i) =>
              \E j \in Ids \ {i} : file.sensors[j].key = file.sensors[i].key]_vars

Held(i) == IF Present(i) THEN heap[table[i]] ELSE NoObject

(* What the store holds of a sensor, its content, its version and what it   *)
(* has reported, or that it holds no such sensor, gets into the file or is  *)
(* superseded, unless the process ends first; failed writes and renames     *)
(* only delay it (runSnapshotLoop).                                         *)
EventuallySaved ==
  \A i \in Ids : \A o \in Object \cup {NoObject} :
    process = "serving" /\ Held(i) = o
      ~> process # "serving" \/ Held(i) # o \/ file.sensors[i] = o

-----------------------------------------------------------------------------
(* The inductive invariant behind both, in named parts.                     *)

RefVersion(i) == IF refs[i] # 0 THEN heap[refs[i]].version ELSE 0

\* A version that was drawn for a sensor, wherever it is found.
Known(i) == {VersionOf(i), RefVersion(i), doc[i].version, file.sensors[i].version} \ {0}

\* No version is known of two sensors, so that no two objects meet when a file
\* is loaded, and every known version has been drawn.
VersionsApart ==
  /\ \A i \in Ids : Known(i) \subseteq 1..issued
  /\ \A i, j \in Ids : i # j => Known(i) \cap Known(j) = {}

\* Entries and references lead to objects; a Patch holds one that has an entry.
ObjectsLive ==
  /\ \A i \in Ids : /\ table[i] # 0 => heap[table[i]] \in Object
                    /\ refs[i] # 0 => heap[refs[i]] \in Object
  /\ \A n \in Versions : heap[n] \in Object => heap[n].version \in n..issued
  /\ writing.obj # 0 =>
       /\ process = "serving" /\ issued < MaxVersion
       /\ \E i \in Ids : table[i] = writing.obj

\* The objects of a snapshot are those of its Query, at no earlier version, and
\* so is what has been marshalled of them; nothing is written before all is.
SnapshotUnderWay ==
  /\ \A i \in Ids :
       /\ refs[i] # 0 <=> asked[i] # 0
       /\ RefVersion(i) >= asked[i]
       /\ refs[i] = 0 => doc[i] = NoObject
       /\ doc[i].version # 0 => doc[i] \in Object /\ doc[i].version >= asked[i]
  /\ reading.id # NoId =>
       /\ loop = "marshal" /\ refs[reading.id] # 0
       /\ reading.field = "version" => doc[reading.id].key \in Keys
  /\ loop \in {"compare", "write", "rename"} => Unmarshalled = {}
  /\ loop = "rename" => tmp = [whole |-> TRUE, sensors |-> doc]
  /\ process # "serving" => loop = "wait" /\ refs = Nothing /\ doc = NoObjects

\* What has been loaded is as in the file, and a sensor was passed over only
\* for another one of its key.
RestoreUnderWay ==
  /\ process \in {"crashed", "stopped"} => table = Nothing
  /\ process = "loading" => \A i \in Ids :
       /\ Present(i) => /\ i \notin unloaded
                        /\ table[i] = file.sensors[i].version
                        /\ heap[table[i]].key = file.sensors[i].key
                        /\ VersionOf(i) = file.sensors[i].version
       /\ i \in unloaded => file.sensors[i].version # 0
       /\ file.sensors[i].version # 0 => i \in unloaded \/ KeyInUse(file.sensors[i].key)

IInv ==
  /\ TypeOK
  /\ VersionsApart /\ ObjectsLive /\ SnapshotUnderWay /\ RestoreUnderWay
  /\ SnapshotCovers

-----------------------------------------------------------------------------
(* Statements of the documentation that this code does not meet (README).   *)

(* A start loses no sensor of the file: "Re-inject the loaded data into the *)
(* underlying memory storage" (snapshot_storage.go:114).                    *)
RestoreLosesNoSensor ==
  [][process = "loading" /\ process' = "serving" =>
       \A i \in Ids : file.sensors[i].version # 0 => Present(i)]_vars

(* A start brings back what a sensor has reported: the loop "periodically   *)
(* persists its state to a JSON file" (snapshot_storage.go:14).             *)
RestoreKeepsReports ==
  [][process = "loading" /\ process' = "serving" =>
       \A i \in Ids : Present(i) => heap[table[i]].reports = file.sensors[i].reports]_vars

(* A sensor in the file is one the store held: the content saved under a    *)
(* version is the content that version was drawn for.                       *)
SnapshotsWereLive ==
  \A i \in Ids :
    file.sensors[i].version # 0 => file.sensors[i].key = content[file.sensors[i].version]

(* A server that is asked to stop saves what it holds: the snapshot store   *)
(* "stops the snapshot loop and performs a final save"                      *)
(* (snapshot_storage.go:44).                                                *)
ShutdownSaves ==
  [][process = "serving" /\ process' = "stopped" =>
       \A i \in Ids : file.sensors[i].version = VersionOf(i)]_vars
=============================================================================

---------------------------- MODULE SensorReports ----------------------------
(***************************************************************************)
(* The report command and its sensor readers, from the thing observed to   *)
(* the state that is shown.  A job runs the command every now and then;    *)
(* runs may overlap, be killed, fail to collect or lose their connection.  *)
(* A run looks at a pool, a certificate or a disk (pkg/sensors), sends the *)
(* key-value pairs it found, and the store merges them key by key into     *)
(* what earlier reports left there.                                        *)
(*                                                                         *)
(* An observation says what was there to be found.  One key stands for all *)
(* keys that are always reported together, and the value of a key is the   *)
(* observation it was taken from.                                          *)
(***************************************************************************)
EXTENDS Integers, Sequences, SequencesExt

CONSTANTS
  Runners,      \* runs of the command that may overlap
  Observations, \* what may be observed
  Rules,        \* the condition rules of a sensor of each kind
  Graceful, Failure, MaxAge,
  MaxLead,      \* how far the clock that stamps reports may be ahead
  Nothing       \* a run that has not collected anything

Kinds == {"zpool", "tls", "smart", "generic"}

\* The keys each kind of sensor always reports.
Core(kind) ==
  CASE kind = "zpool" -> {"state"}
    [] kind = "tls" -> {"expired"}
    [] kind = "smart" -> {"health_status"}
    [] OTHER -> {}

\* What else may be there: a pool may have a root device, whose capacity is
\* said if it has any, have been scrubbed, and have a status and an action to
\* take while it has a problem; ...
ZpoolKeys(has) ==
  Core("zpool")
    \cup (IF "vdev" \in has THEN {"used_space"} \cup (has \cap {"capacity"}) ELSE {})
    \cup (IF "scan_stats" \in has THEN {"scrub_state"} ELSE {})
    \cup (has \cap {"status", "action"})

\* ... a certificate has expired or not, and its issuer may have a name; ...
TlsKeys(has) ==
  Core("tls")
    \cup (IF "expired" \in has THEN {"expired_days"} ELSE {"days_remaining"})
    \cup (has \cap {"issuer_org", "issuer_ou"})

\* ... a disk has the health log of an NVMe disk or a table of attributes.
SmartKeys(has) ==
  Core("smart")
    \cup (IF "nvme" \in has THEN {"available_spare_percent", "power_on_hours"} ELSE {})
    \cup (IF has \cap {"ata", "scsi"} # {}
            THEN has \cap {"reallocated_sectors", "power_on_hours"} ELSE {})

\* The keys of a report: those of its kind of sensor, or those on the command
\* line, where there need not be any.
Keys(o) ==
  CASE o.kind = "zpool" -> ZpoolKeys(o.has)
    [] o.kind = "tls" -> TlsKeys(o.has)
    [] o.kind = "smart" -> SmartKeys(o.has)
    [] OTHER -> o.has

Results(o) == [k \in Keys(o) |-> o]

OfKind(kind) == {o \in Observations : o.kind = kind}

\* The data of a sensor that has not been reported for.
NoData == << >>

\* A rule looks at one key.  Without that key its expression is an error,
\* unless it asks for the key first.
Rule == [name: STRING, key: STRING, bad: SUBSET Observations,
         asks: BOOLEAN, target: STRING]

ASSUME ObservationsAssumption ==
  \A o \in Observations : o.kind \in Kinds
ASSUME KindsRulesAssumption ==
  DOMAIN Rules = Kinds /\ \A kind \in Kinds : Rules[kind] \in Seq(Rule)
ASSUME PeriodsAssumption ==
  Graceful \in Nat /\ Failure \in Nat /\ MaxAge \in Nat /\ MaxLead \in Nat
    /\ Graceful <= MaxAge /\ Failure <= MaxAge
ASSUME NothingAssumption == Nothing \notin Observations

VARIABLES
  kind,    \* the kind of sensor the job names
  world,   \* what is there to be observed
  run,     \* run[r]: how far a run is, and what it has collected
  data,    \* the reported data of the sensor
  age      \* seconds since its last report or, before that, registration

reportsVars == <<kind, world, run, data, age>>

Off == [pc |-> "off", seen |-> Nothing]

ReportsTypeOK ==
  /\ kind \in Kinds
  /\ world \in OfKind(kind)
  /\ run \in [Runners -> {Off} \cup [pc: {"collected", "sent", "applied"}, seen: OfKind(kind)]]
  /\ DOMAIN data \subseteq UNION {Keys(o) : o \in OfKind(kind)}
  /\ \A k \in DOMAIN data : data[k] \in OfKind(kind) /\ k \in Keys(data[k])
  /\ age \in -MaxLead..MaxAge

ReportsInit ==
  /\ world \in Observations
  /\ kind = world.kind
  /\ run = [r \in Runners |-> Off]
  /\ data = NoData
  /\ age = 0

-----------------------------------------------------------------------------
(* One run of the command.  A run that fails to collect changes nothing.    *)

\* Faulty variant: an error of the reader is ignored, and what is sent is
\* what an earlier run had found.
CollectIgnoringErrors(r) ==
  /\ run[r].pc = "off"
  /\ \E o \in OfKind(kind) : run' = [run EXCEPT ![r] = [pc |-> "collected", seen |-> o]]
  /\ UNCHANGED <<kind, world, data, age>>

Collect(r) ==
  /\ run[r].pc = "off"
  /\ run' = [run EXCEPT ![r] = [pc |-> "collected", seen |-> world]]
  /\ UNCHANGED <<kind, world, data, age>>

Send(r) ==
  /\ run[r].pc = "collected"
  /\ run' = [run EXCEPT ![r].pc = "sent"]
  /\ UNCHANGED <<kind, world, data, age>>

\* A dry run ends without sending; a run is killed, or has no connection.
GiveUp(r) ==
  /\ run[r].pc \in {"collected", "sent"}
  /\ run' = [run EXCEPT ![r] = Off]
  /\ UNCHANGED <<kind, world, data, age>>

\* Faulty variant: what is there already stays.
MergeKeepingOld(new, old) ==
  [k \in DOMAIN new \cup DOMAIN old |-> IF k \in DOMAIN old THEN old[k] ELSE new[k]]

Merge(new, old) ==
  [k \in DOMAIN new \cup DOMAIN old |-> IF k \in DOMAIN new THEN new[k] ELSE old[k]]

\* Faulty variant: the store forgets to note when the report came.
SendDataUnstamped(r) ==
  /\ run[r].pc = "sent"
  /\ run' = [run EXCEPT ![r].pc = "applied"]
  /\ data' = Merge(Results(run[r].seen), data)
  /\ UNCHANGED <<kind, world, age>>

\* The store merges the report, which may be empty, and notes when it came, by
\* a clock that may be ahead of the one that reads it.
SendData(r) ==
  /\ run[r].pc = "sent"
  /\ run' = [run EXCEPT ![r].pc = "applied"]
  /\ data' = Merge(Results(run[r].seen), data)
  /\ \E lead \in 0..MaxLead : age' = -lead
  /\ UNCHANGED <<kind, world>>

\* The answer arrives or is lost; nobody tries again before the next run.
Finish(r) ==
  /\ run[r].pc = "applied"
  /\ run' = [run EXCEPT ![r] = Off]
  /\ UNCHANGED <<kind, world, data, age>>

\* What is observed changes by itself, and time passes.
Change ==
  /\ world' \in OfKind(kind)
  /\ UNCHANGED <<kind, run, data, age>>

\* Bound: once every period is over, more time makes no difference.
Tick ==
  /\ age < MaxAge
  /\ age' = age + 1
  /\ UNCHANGED <<kind, world, run, data>>

Proceed(r) == Send(r) \/ GiveUp(r) \/ SendData(r) \/ Finish(r)

ReportsNext == (\E r \in Runners : Collect(r) \/ Proceed(r)) \/ Change \/ Tick

\* Time passes, and a run that has begun ends: it has no loop, and its calls
\* fail when the connection does.  Nobody has to start one.
ReportsSpec ==
  /\ ReportsInit /\ [][ReportsNext]_reportsVars
  /\ WF_reportsVars(Tick) /\ \A r \in Runners : WF_reportsVars(Proceed(r))

-----------------------------------------------------------------------------
(* The state that is shown for the sensor.                                  *)

Status(rule, d) ==
  CASE rule.key \notin DOMAIN d /\ ~rule.asks -> "Unknown"
    [] rule.key \in DOMAIN d /\ d[rule.key] \in rule.bad -> "True"
    [] OTHER -> "False"

\* SensorHealth's view of reported data: what the rules tell apart.
Statuses(k) == [DOMAIN Rules[k] -> {"Unknown", "True", "False"}]

Reading(d) ==
  IF DOMAIN d = {} THEN Nothing
  ELSE [n \in DOMAIN Rules[kind] |-> Status(Rules[kind][n], d)]

HealthRules(k) ==
  [n \in DOMAIN Rules[k] |->
     [name |-> Rules[k][n].name, target |-> Rules[k][n].target,
      holds |-> {d \in Statuses(k) : d[n] = "True"},
      fails |-> {d \in Statuses(k) : d[n] = "Unknown"}
                  \cup (IF Rules[k][n].asks THEN {} ELSE {Nothing})]]

RulesOfKind == HealthRules(kind)

\* The rules that look at what every report carries.
CoreRules ==
  LET core == SelectSeq([n \in DOMAIN RulesOfKind |-> n],
                        LAMBDA n : Rules[kind][n].key \in Core(kind))
  IN [m \in DOMAIN core |-> RulesOfKind[core[m]]]

\* The sensor as SensorHealth sees it.
Health == INSTANCE SensorHealth WITH
  Names <- UNION {{Rules[k][n].name : n \in DOMAIN Rules[k]} : k \in Kinds},
  Readings <- UNION {Statuses(k) : k \in Kinds}, NoReading <- Nothing,
  Periods <- {Graceful, Failure},
  RuleLists <- {HealthRules(k) : k \in Kinds}, NewLists <- {HealthRules(k) : k \in Kinds},
  reading <- Reading(data), graceful <- Graceful, failure <- Failure, rules <- RulesOfKind

ShownBy(rules, d) == Health!ShownState(age, Graceful, Failure, rules, Reading(d))

-----------------------------------------------------------------------------
(* Properties.                                                              *)

CoreSays(o) == \A k \in Core(kind) : k \in DOMAIN data /\ data[k] = o

(* Trouble cannot stay hidden, and nobody has to do anything for that: when *)
(* the thing observed stays as it is, the sensor sooner or later shows what *)
(* is there, or is FAILED because it is silent.  Runs that overlap, are     *)
(* late, or fail again and again do not change that: a run that cannot      *)
(* collect must not report, for a report resets the age (report.go:106).    *)
TroubleSurfaces ==
  \A o \in Observations :
    <>[](world = o) => <>[](CoreSays(o) \/ Health!Base(age, Graceful, Failure) = "FAILED")

(* While reports keep coming, rules over keys that every report carries     *)
(* come to judge what is there, as if nothing had ever been reported        *)
(* before: they raise an alarm, and they take it back.                      *)
CoreRulesCatchUp ==
  \A o \in Observations :
    <>[](world = o) /\ []<>(\E r \in Runners : run[r].pc = "applied")
      => <>[](ShownBy(CoreRules, data) = ShownBy(CoreRules, Results(o)))

(* What the command and its readers do to a sensor is what SensorHealth     *)
(* says may happen to it, so its properties are those of reported sensors.  *)
ImplementsHealth == Health!Spec

-----------------------------------------------------------------------------
(* Statements of the documentation that this code does not meet (README).   *)

(* The status command shows the "latest telemetry data" (status.go:19): all *)
(* of it was taken from one observation.  Keys that stop being reported     *)
(* stay.                                                                    *)
LatestTelemetry ==
  \A k, l \in DOMAIN data : data[k] = data[l]

(* "If this expression evaluates to true" (qivitals.proto:31) of what is    *)
(* there now, a rule applies: all rules catch up, over whatever key.        *)
AllRulesCatchUp ==
  \A o \in Observations :
    <>[](world = o) /\ []<>(\E r \in Runners : run[r].pc = "applied")
      => <>[](ShownBy(RulesOfKind, data) = ShownBy(RulesOfKind, Results(o)))

=============================================================================

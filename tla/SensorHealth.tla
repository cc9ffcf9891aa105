---------------------------- MODULE SensorHealth ----------------------------
(***************************************************************************)
(* The state a sensor is shown in (qivitals_svc.go), which nothing stores: *)
(* every reply computes it from the time since the last report, the two    *)
(* periods and the condition rules, whose expressions are evaluated over   *)
(* what was reported (condition_evaluator.go).                             *)
(*                                                                         *)
(* Time counts in seconds since the last report.  It starts below zero     *)
(* when the clock that stamped the report is ahead of the one that reads   *)
(* it: Postgres stamps reports by its own clock and rounds to the nearest  *)
(* second.                                                                 *)
(***************************************************************************)
EXTENDS Integers, Sequences, FiniteSets, FiniteSetsExt, SequencesExt

CONSTANTS
  Names,       \* names of condition rules
  Readings,    \* what a sensor may have reported, as far as rules tell it apart
  NoReading,   \* it has not reported anything yet
  Periods,     \* graceful and failure periods a specification may set
  RuleLists,   \* lists of rules a sensor may be registered with...
  NewLists,    \* ... or be patched to
  MaxLead,     \* how far the clock that stamps reports may be ahead
  MaxAge       \* bound on the time that is told apart

\* SensorState of the API, in the order of its numbers.
States == <<"UNKNOWN", "OK", "DEGRADED", "FAILED", "PAUSED">>

Severity == [s \in ToSet(States) |-> CHOOSE n \in DOMAIN States : States[n] = s]

\* What a rule's target may say: nothing, a state, or something else.
Targets == ToSet(States) \cup {"", "other"}

\* A rule: for which data its expression is true, and for which it fails.
Rule == [name: Names, holds: SUBSET (Readings \cup {NoReading}),
         fails: SUBSET (Readings \cup {NoReading}), target: Targets]

ASSUME NoReadingAssumption == NoReading \notin Readings
ASSUME RuleListsAssumption == RuleLists \subseteq Seq(Rule) /\ NewLists \subseteq Seq(Rule)
ASSUME TimeAssumption ==
  /\ Periods \subseteq Nat
  /\ MaxLead \in Nat /\ MaxAge \in Nat
  /\ \A p \in Periods : p <= MaxAge

VARIABLES
  age,         \* seconds since the last report or, before that, registration
  reading,     \* what it has reported
  graceful, failure, rules

vars == <<age, reading, graceful, failure, rules>>
spec == <<graceful, failure, rules>>

TypeOK ==
  /\ age \in -MaxLead..MaxAge
  /\ reading \in Readings \cup {NoReading}
  /\ graceful \in Periods /\ failure \in Periods
  /\ rules \in RuleLists \cup NewLists

-----------------------------------------------------------------------------
(* The state in a reply.                                                    *)

\* Faulty variant: a failure period of zero means that there is none.
BaseUnlimited(a, g, f) ==
  CASE a < g -> "OK"
    [] a >= g /\ (a < f \/ f = 0) -> "DEGRADED"
    [] OTHER -> "FAILED"

\* Faulty variant: the failure period is looked at first.
BaseSwapped(a, g, f) ==
  CASE a < f -> "DEGRADED"
    [] a >= f /\ a < g -> "OK"
    [] OTHER -> "FAILED"

\* calculateSensorStatus
Base(a, g, f) ==
  CASE a < g -> "OK"
    [] a >= g /\ a < f -> "DEGRADED"
    [] OTHER -> "FAILED"

\* EvaluateConditions: one condition for each rule, in their order.
Condition(rule, data) ==
  [type |-> rule.name,
   status |-> CASE data \in rule.fails -> "Unknown"
                [] data \in rule.holds \ rule.fails -> "True"
                [] OTHER -> "False"]

Conditions(list, data) == [n \in DOMAIN list |-> Condition(list[n], data)]

\* Faulty variant: a state is taken over, whatever it was before.
RaiseAssign(state, to) == to

Raise(state, to) == IF Severity[to] > Severity[state] THEN to ELSE state

\* The target of a condition that is true: that of the first rule of its name
\* that has one.
Named(list, type) == {n \in DOMAIN list : list[n].name = type /\ list[n].target # ""}

TargetOf(list, type) ==
  IF Named(list, type) = {} THEN "" ELSE list[Min(Named(list, type))].target

\* One round of the loop in applyConditionOverrides.  Lists have no nil rules.
Override(list, state, cond) ==
  CASE cond.status = "Unknown" -> Raise(state, "FAILED")
    [] cond.status = "True" /\ TargetOf(list, cond.type) \in ToSet(States) ->
         Raise(state, TargetOf(list, cond.type))
    [] OTHER -> state

\* The state after each round, from what the age says.
Overridden(state, list, data) ==
  LET after[n \in 0..Len(list)] ==
        IF n = 0 THEN state ELSE Override(list, after[n - 1], Conditions(list, data)[n])
  IN after

ShownState(a, g, f, list, data) == Overridden(Base(a, g, f), list, data)[Len(list)]

Shown == ShownState(age, graceful, failure, rules, reading)

-----------------------------------------------------------------------------
(* What changes it.                                                         *)

Init ==
  /\ age = 0 /\ reading = NoReading
  /\ graceful \in Periods /\ failure \in Periods
  /\ rules \in RuleLists

\* SendData merges the data of the report and stamps it.  A report that says
\* nothing, or nothing new, is stamped like any other.
Report ==
  /\ reading' \in Readings \cup {reading}
  /\ \E lead \in 0..MaxLead : age' = -lead
  /\ UNCHANGED spec

Patch ==
  /\ graceful' \in Periods /\ failure' \in Periods
  /\ rules' \in NewLists
  /\ UNCHANGED <<age, reading>>

\* Bound: once every period is over, more time makes no difference.
Tick ==
  /\ age < MaxAge
  /\ age' = age + 1
  /\ UNCHANGED <<reading, spec>>

Next == Report \/ Patch \/ Tick

Spec == Init /\ [][Next]_vars

\* Time passes.  Nobody has to report, and nobody has to patch.
FairSpec == Spec /\ WF_vars(Tick)

-----------------------------------------------------------------------------
(* Properties.                                                              *)

Red == Shown \in {"FAILED", "PAUSED"}

UniqueNames(list) == \A m, n \in DOMAIN list : list[m].name = list[n].name => m = n

(* The state is the most severe of what the reports' age says, the targets  *)
(* of the rules that are true and, if any rule cannot be evaluated, FAILED: *)
(* rules neither shadow one another nor depend on their order, as long as   *)
(* their names differ (applyConditionOverrides).                            *)
RulesDecide ==
  UniqueNames(rules) =>
    LET says == {Base(age, graceful, failure)}
                  \cup {rules[n].target : n \in {m \in DOMAIN rules :
                          reading \in rules[m].holds \ rules[m].fails}}
                  \cup (IF \E n \in DOMAIN rules : reading \in rules[n].fails
                          THEN {"FAILED"} ELSE {})
        states == says \cap ToSet(States)
    IN Shown \in states /\ \A s \in states : Severity[s] <= Severity[Shown]

(* No set of rules hides that a sensor is silent: past both periods it is   *)
(* FAILED, or PAUSED by a rule that says so.                                *)
SilenceShows ==
  age >= graceful /\ age >= failure =>
    \/ Shown = "FAILED"
    \/ Shown = "PAUSED" /\ \E n \in DOMAIN rules : rules[n].target = "PAUSED"

(* A sensor recovers by reporting, or by a change of its specification, and *)
(* never by the mere passing of time, whatever its two periods are.         *)
OnlyDecays ==
  [][UNCHANGED <<reading, spec>> /\ age' > age
       => Severity[ShownState(age', graceful', failure', rules', reading')]
            >= Severity[ShownState(age, graceful, failure, rules, reading)]]_vars

(* A sensor that stops reporting goes red, however often it is patched:     *)
(* "sensors need to report regularily; otherwise they will go red"          *)
(* (README.md:7).                                                           *)
SilentTurnsRed == []<>(age <= 0 \/ Red)

-----------------------------------------------------------------------------
(* Statements of the documentation that this code does not meet (README).   *)

(* Every rule that is true counts: a rule's target is "the state to apply   *)
(* if this expression evaluates to true" (qivitals.proto:31).  Nothing      *)
(* keeps two rules from having one name.                                    *)
TrueRulesCount ==
  \A n \in DOMAIN rules :
    reading \in rules[n].holds \ rules[n].fails /\ rules[n].target \in ToSet(States)
      => Severity[Shown] >= Severity[rules[n].target]

(* A sensor that "has exceeded the failure period timeout"                  *)
(* (qivitals.proto:81) is FAILED, or PAUSED.                                *)
FailurePeriodFails == age >= failure => Red

(* A sensor that is registered but has not reported anything is UNKNOWN     *)
(* (qivitals.proto:71), whether or not an empty report has come in.         *)
UnreportedIsUnknown == reading = NoReading /\ rules = <<>> => Shown = "UNKNOWN"
=============================================================================

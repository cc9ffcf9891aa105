---------------------------- MODULE RulePatches ----------------------------
(***************************************************************************)
(* Editing a sensor's condition rules from the command line (update.go):   *)
(* the command reads the sensor, turns its flags into operations of a JSON *)
(* patch that name rules by their index, and sends them with the version   *)
(* it read.  The service (qivitals_patching.go) applies them one by one to *)
(* the list of rules it reads then, and stores the result if the version   *)
(* is still that one.  Others patch the list in the meantime.              *)
(***************************************************************************)
EXTENDS Integers, Sequences, FiniteSets, SequencesExt

CONSTANTS
  RuleLists,    \* lists of rules a sensor may have, or be given by others
  NewRules,     \* rules that the command's flags may hold
  MaxIndex,     \* bound on the indices in flags
  MaxAdds, MaxRemoves, MaxReplaces,   \* bounds on the flags of each kind
  MaxVersion    \* bound on the versions ever drawn

\* The index a flag gives for "all".
All == -1

Adds == SeqOf(NewRules, MaxAdds)
Removes == SeqOf({All} \cup 0..MaxIndex, MaxRemoves)
Replaces == SeqOf([index: 0..MaxIndex, rule: NewRules], MaxReplaces)

ASSUME RulesAssumption ==
  \A list \in RuleLists :
    list \in Seq(ToSet(list)) /\ IsInjective(list) /\ ToSet(list) \cap NewRules = {}
ASSUME BoundsAssumption ==
  {MaxIndex, MaxAdds, MaxRemoves, MaxReplaces, MaxVersion} \subseteq Nat

VARIABLES
  rules, version,   \* what the store holds
  pc,
  seen, base,       \* what the command read, and its version
  flags,            \* its --add-, --remove- and --replace-condition flags
  ops               \* the operations it sends

vars == <<rules, version, pc, seen, base, flags, ops>>

NoFlags == [add |-> <<>>, remove |-> <<>>, replace |-> <<>>]

PCs == {"idle", "read", "send", "done", "refused", "conflict", "failed"}

AllRules == NewRules \cup UNION {ToSet(list) : list \in RuleLists}

TypeOK ==
  /\ rules \in Seq(AllRules)
  /\ version \in 0..MaxVersion /\ base \in 0..MaxVersion
  /\ pc \in PCs
  /\ seen \in Seq(AllRules)
  /\ flags \in [add: Adds, remove: Removes, replace: Replaces]
  /\ \A n \in DOMAIN ops : ops[n].op \in {"add", "remove", "replace", "clear"}

Init ==
  /\ rules \in RuleLists /\ version = 0
  /\ pc = "idle" /\ seen = <<>> /\ base = 0 /\ flags = NoFlags /\ ops = <<>>

-----------------------------------------------------------------------------
(* The operations of a patch.                                               *)

\* Faulty variant: a removal does not count.
LeftAll(count, removes) ==
  LET left[n \in 0..Len(removes)] ==
        IF n = 0 THEN count ELSE IF removes[n] = All THEN 0 ELSE left[n - 1]
  IN left

\* How many rules there are to remove and to replace after each of some flags.
Left(count, removes) ==
  LET left[n \in 0..Len(removes)] ==
        IF n = 0 THEN count ELSE IF removes[n] = All THEN 0 ELSE left[n - 1] - 1
  IN left

\* Faulty variant: the rules that the command adds may be named as well.
InRangeOfAll(count, f) ==
  LET left == Left(count + Len(f.add), f.remove) IN
    /\ \A n \in DOMAIN f.remove : f.remove[n] < left[n - 1]
    /\ \A n \in DOMAIN f.replace : f.replace[n].index < left[Len(f.remove)]

\* Every index is in the range that the flags before it leave.
InRange(count, f) ==
  LET left == Left(count, f.remove) IN
    /\ \A n \in DOMAIN f.remove : f.remove[n] < left[n - 1]
    /\ \A n \in DOMAIN f.replace : f.replace[n].index < left[Len(f.remove)]

\* calculatePatchConditions: additions, then removals, then replacements.
Operations(f) ==
  [n \in DOMAIN f.add |-> [op |-> "add", rule |-> f.add[n]]] \o
  [n \in DOMAIN f.remove |->
     IF f.remove[n] = All THEN [op |-> "clear"]
                          ELSE [op |-> "remove", index |-> f.remove[n]]] \o
  [n \in DOMAIN f.replace |->
     [op |-> "replace", index |-> f.replace[n].index, rule |-> f.replace[n].rule]]

\* What the JSON patch library makes of an operation and a list: to remove
\* what is not there is allowed, and to replace it is an error.
Applies(list, o) == o.op = "replace" => o.index < Len(list)

Apply(list, o) ==
  CASE o.op = "add" -> Append(list, o.rule)
    [] o.op = "remove" /\ o.index < Len(list) -> RemoveAt(list, o.index + 1)
    [] o.op = "remove" /\ o.index >= Len(list) -> list
    [] o.op = "replace" -> ReplaceAt(list, o.index + 1, o.rule)
    [] o.op = "clear" -> <<>>

\* The list after each operation of a patch.
Applied(list, patch) ==
  LET after[n \in 0..Len(patch)] == IF n = 0 THEN list ELSE Apply(after[n - 1], patch[n])
  IN after

-----------------------------------------------------------------------------

\* The sensor is read for the command, which was called with some flags.
Read ==
  /\ pc = "idle"
  /\ seen' = rules /\ base' = version
  /\ flags' \in [add: Adds, remove: Removes, replace: Replaces]
  /\ pc' = "read"
  /\ UNCHANGED <<rules, version, ops>>

Build ==
  /\ pc = "read"
  /\ IF InRange(Len(seen), flags) /\ flags # NoFlags
       THEN ops' = Operations(flags) /\ pc' = "send"
       ELSE pc' = "refused" /\ UNCHANGED ops
  /\ UNCHANGED <<rules, version, seen, base, flags>>

\* Faulty variant: the version is not compared.
PatchAnyVersion ==
  /\ pc = "send" /\ version < MaxVersion
  /\ IF \E n \in DOMAIN ops : ~Applies(Applied(rules, ops)[n - 1], ops[n])
       THEN pc' = "failed" /\ UNCHANGED <<rules, version>>
       ELSE /\ pc' = "done"
            /\ rules' = Applied(rules, ops)[Len(ops)]
            /\ version' = version + 1
  /\ UNCHANGED <<seen, base, flags, ops>>

\* The service reads the list, applies the operations, and then compares the
\* version; that the list and the version it compares with belong together
\* is QiVitalsService's subject.
Patch ==
  /\ pc = "send" /\ version < MaxVersion
  /\ IF \E n \in DOMAIN ops : ~Applies(Applied(rules, ops)[n - 1], ops[n])
       THEN pc' = "failed" /\ UNCHANGED <<rules, version>>
       ELSE IF version # base
              THEN pc' = "conflict" /\ UNCHANGED <<rules, version>>
              ELSE /\ pc' = "done"
                   /\ rules' = Applied(rules, ops)[Len(ops)]
                   /\ version' = version + 1
  /\ UNCHANGED <<seen, base, flags, ops>>

\* Somebody else patches the list.
Other ==
  /\ pc \in {"read", "send"} /\ version < MaxVersion - 1   \* room for the command
  /\ rules' \in RuleLists /\ version' = version + 1
  /\ UNCHANGED <<pc, seen, base, flags, ops>>

Next == Read \/ Build \/ Patch \/ Other

Spec == Init /\ [][Next]_vars

-----------------------------------------------------------------------------
(* Properties.                                                              *)

Clears(f) == All \in ToSet(f.remove)

(* A command that is accepted adds all its rules, in order, behind those    *)
(* that were there, unless it also removes all of them: no removal and no   *)
(* replacement hits an added rule, although additions come first in the     *)
(* patch and indices shift (calculatePatchConditions, update.go:251).       *)
AdditionsStay ==
  pc = "done" /\ ~Clears(flags) => IsSuffix(flags.add, rules)

(* It removes as many rules as it names, and those that it neither removes  *)
(* nor replaces stay and keep their order; nobody else's change is in       *)
(* between.                                                                 *)
OthersKeepOrder ==
  pc = "done" /\ ~Clears(flags) =>
    /\ Len(rules) = Len(seen) + Len(flags.add) - Len(flags.remove)
    /\ Cardinality(ToSet(seen) \ ToSet(rules)) <= Len(flags.remove) + Len(flags.replace)
    /\ \A m, n \in DOMAIN rules, i, j \in DOMAIN seen :
         m < n /\ rules[m] = seen[i] /\ rules[n] = seen[j] => i < j

(* If nobody else patched the sensor, no operation of a command is refused: *)
(* every replacement finds its rule.  The service tolerates a removal that  *)
(* finds none (AllowMissingPathOnRemove), so that it is the replacements,   *)
(* which come after additions and removals, whose range could be wrong.     *)
OperationsFit == pc = "failed" => version # base

(* What the three rest on: until the command is done the list is one that   *)
(* somebody else stored, the list it read as long as the version is that    *)
(* one; what it sends are the operations of its flags, which are in range   *)
(* for the list it read, and what it leaves is that list after all of them. *)
EditInv ==
  /\ TypeOK
  /\ pc # "done" => rules \in RuleLists
  /\ pc # "idle" => seen \in RuleLists
  /\ base <= version
  /\ pc \in {"read", "send"} /\ version = base => rules = seen
  /\ pc \in {"send", "done"} => InRange(Len(seen), flags) /\ ops = Operations(flags)
  /\ pc = "done" => rules = Applied(seen, ops)[Len(ops)]
  /\ OperationsFit

-----------------------------------------------------------------------------
(* Statements of the documentation that this code does not meet (README).   *)

(* "Remove a condition rule by index" (update.go:98): the rules of the list *)
(* that the caller saw at those indices are gone, and no others.            *)
RemovedByIndex ==
  pc = "done" /\ ~Clears(flags) /\ flags.replace = <<>> /\ IsInjective(flags.remove) =>
    ToSet(seen) \ ToSet(rules) = {seen[n + 1] : n \in ToSet(flags.remove)}

(* "multiple add/remove/replace flags can be combined in a single command"  *)
(* (workflow_conditions_test.go:335): what is added is there afterwards.    *)
FlagsCombine == pc = "done" => ToSet(flags.add) \subseteq ToSet(rules)
=============================================================================

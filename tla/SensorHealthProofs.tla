------------------------- MODULE SensorHealthProofs -------------------------
(***************************************************************************)
(* Proofs about the health of a sensor (SensorHealth) and about the        *)
(* evaluator of its rules (ConditionEvaluator).  They hold for lists of    *)
(* rules of any length, any names, readings and periods and any number of  *)
(* goroutines.  The loop over the conditions is a recursive                *)
(* function; that it is one (OverriddenRounds), and what holds after its   *)
(* last round, follows from the least natural number that would be an      *)
(* exception (LeastNatural, RoundInduction).                               *)
(***************************************************************************)
EXTENDS SensorHealth, ConditionEvaluator, FiniteSetTheorems, WellFoundedInduction, TLAPS

-----------------------------------------------------------------------------
(* Induction, for sets rather than for formulas.                            *)

LEMMA LeastNatural ==
  ASSUME NEW T, T \subseteq Nat, T # {}
  PROVE  \E n \in T : \A m \in T : n <= m
<1> DEFINE Less == {p \in Nat \X Nat : p[1] < p[2]}
<1>1. IsWellFoundedOn(Less, Nat)
  <2>1. OpToRel(<, Nat) = Less
    BY DEF OpToRel
  <2> QED
    BY <2>1, NatLessThanWellFounded
<1>2. \A n, m \in Nat : m < n => <<m, n>> \in Less
  OBVIOUS
<1> HIDE DEF Less
<1>3. PICK n \in T : \A m \in T : ~(<<m, n>> \in Less)
  BY <1>1, WFMin
<1>4. ASSUME NEW m \in T PROVE n <= m
  <2>1. m \in Nat /\ n \in Nat /\ ~(m < n)
    BY <1>2, <1>3
  <2> QED
    BY <2>1
<1> QED
  BY <1>4

LEMMA RoundInduction ==
  ASSUME NEW len \in Nat, NEW S \in SUBSET (0..len), 0 \in S,
         \A n \in 1..len : n - 1 \in S => n \in S
  PROVE  S = 0..len
<1> SUFFICES ASSUME (0..len) \ S # {} PROVE FALSE
  OBVIOUS
<1>1. PICK n \in (0..len) \ S : \A m \in (0..len) \ S : n <= m
  <2> DEFINE T == (0..len) \ S
  <2>1. T \subseteq Nat /\ T # {}
    OBVIOUS
  <2> HIDE DEF T
  <2>2. \E n \in T : \A m \in T : n <= m
    BY <2>1, LeastNatural
  <2> QED
    BY <2>2 DEF T
<1>2. n \in 1..len /\ n - 1 \in 0..len /\ ~(n <= n - 1)
  BY <1>1
<1> QED
  BY <1>1, <1>2

-----------------------------------------------------------------------------
(* States and what raises them.                                             *)

Known == {"UNKNOWN", "OK", "DEGRADED", "FAILED", "PAUSED"}

LEMMA StatesKnown == ToSet(States) = Known
<1>1. DOMAIN States = 1..5
  BY DEF States
<1>2. /\ States[1] = "UNKNOWN" /\ States[2] = "OK" /\ States[3] = "DEGRADED"
      /\ States[4] = "FAILED" /\ States[5] = "PAUSED"
  BY DEF States
<1>3. 1..5 = {1, 2, 3, 4, 5}
  OBVIOUS
<1> QED
  BY <1>1, <1>2, <1>3 DEF ToSet, Known

LEMMA SeverityIs ==
  /\ Severity["UNKNOWN"] = 1 /\ Severity["OK"] = 2 /\ Severity["DEGRADED"] = 3
  /\ Severity["FAILED"] = 4 /\ Severity["PAUSED"] = 5
<1>1. DOMAIN States = {1, 2, 3, 4, 5}
  BY DEF States
<1>2. /\ States[1] = "UNKNOWN" /\ States[2] = "OK" /\ States[3] = "DEGRADED"
      /\ States[4] = "FAILED" /\ States[5] = "PAUSED"
  BY DEF States
<1>3. \A s \in Known : Severity[s] = CHOOSE n \in {1, 2, 3, 4, 5} : States[n] = s
  BY <1>1, StatesKnown DEF Severity
<1>4. \A s \in Known : Severity[s] \in {1, 2, 3, 4, 5} /\ States[Severity[s]] = s
  <2> SUFFICES ASSUME NEW s \in Known
               PROVE  Severity[s] \in {1, 2, 3, 4, 5} /\ States[Severity[s]] = s
    OBVIOUS
  <2>1. \E n \in {1, 2, 3, 4, 5} : States[n] = s
    BY <1>2 DEF Known
  <2> QED
    BY <1>3, <2>1
<1> QED
  BY <1>2, <1>4 DEF Known

LEMMA RaiseIs ==
  ASSUME NEW s \in Known, NEW t \in Known
  PROVE  /\ Raise(s, t) \in {s, t}
         /\ Severity[Raise(s, t)] >= Severity[s] /\ Severity[Raise(s, t)] >= Severity[t]
BY SeverityIs DEF Raise, Known

(* A round leaves a state as it is, or raises it to FAILED or to a target.  *)
LEMMA OverrideIs ==
  ASSUME NEW list, NEW s \in Known, NEW cond
  PROVE  \/ Override(list, s, cond) = s
         \/ /\ cond.status = "Unknown"
            /\ Override(list, s, cond) = Raise(s, "FAILED")
         \/ /\ cond.status = "True" /\ TargetOf(list, cond.type) \in Known
            /\ Override(list, s, cond) = Raise(s, TargetOf(list, cond.type))
BY StatesKnown DEF Override

LEMMA OverrideKnown ==
  ASSUME NEW list, NEW s \in Known, NEW cond
  PROVE  Override(list, s, cond) \in Known
BY OverrideIs, RaiseIs DEF Known

(* The loop does what it says, round by round.                              *)
LEMMA OverriddenRounds ==
  ASSUME NEW list \in Seq(Rule), NEW data, NEW state \in Known
  PROVE  LET after == Overridden(state, list, data) IN
           /\ after \in [0..Len(list) -> Known]
           /\ after[0] = state
           /\ \A n \in 1..Len(list) : after[n] = Override(list, after[n - 1], Conditions(list, data)[n])
<1> DEFINE len == Len(list)
           Body(s, n) == Override(list, s, Conditions(list, data)[n])
           Runs(n) == {g \in [0..n -> Known] : g[0] = state /\ \A m \in 1..n : g[m] = Body(g[m - 1], m)}
           S == {n \in 0..len : Runs(n) # {}}
           after == Overridden(state, list, data)
<1>1. len \in Nat
  OBVIOUS
<1>2. \A s \in Known, n \in 1..len : Body(s, n) \in Known
  BY OverrideKnown
<1>3. after = CHOOSE g : g = [n \in 0..len |-> IF n = 0 THEN state ELSE Body(g[n - 1], n)]
  BY DEF Overridden
<1> HIDE DEF len, Body, after
<1>4. 0 \in S
  <2> DEFINE g == [n \in 0..0 |-> state]
  <2>1. g \in Runs(0)
    OBVIOUS
  <2> QED
    BY <1>1, <2>1
<1>5. ASSUME NEW n \in 1..len, n - 1 \in S PROVE n \in S
  <2>1. PICK g \in Runs(n - 1) : TRUE
    BY <1>5
  <2> DEFINE h == [m \in 0..n |-> IF m = n THEN Body(g[n - 1], n) ELSE g[m]]
  <2>2. n \in Nat /\ n # 0 /\ n - 1 \in 0..(n - 1)
    BY <1>1
  <2>3. g \in [0..(n - 1) -> Known] /\ g[0] = state /\ \A m \in 1..(n - 1) : g[m] = Body(g[m - 1], m)
    BY <2>1
  <2>4. h \in [0..n -> Known]
    BY <1>2, <2>2, <2>3
  <2>5. h[0] = state
    BY <2>2, <2>3
  <2>6. \A m \in 1..n : h[m] = Body(h[m - 1], m)
    BY <2>2, <2>3
  <2> HIDE DEF h
  <2>7. h \in Runs(n)
    BY <2>4, <2>5, <2>6
  <2> QED
    BY <1>1, <2>7
<1>6. len \in S
  <2>1. S \in SUBSET (0..len)
    OBVIOUS
  <2> HIDE DEF S
  <2>2. S = 0..len
    BY <1>1, <1>4, <1>5, <2>1, RoundInduction
  <2> QED
    BY <1>1, <2>2
<1>7. PICK g \in Runs(len) : TRUE
  BY <1>6
<1>8. g = [n \in 0..len |-> IF n = 0 THEN state ELSE Body(g[n - 1], n)]
  <2>1. \A n \in 0..len : g[n] = IF n = 0 THEN state ELSE Body(g[n - 1], n)
    BY <1>1, <1>7
  <2>2. g \in [0..len -> Known]
    BY <1>7
  <2> QED
    BY <2>1, <2>2
<1>9. after = [n \in 0..len |-> IF n = 0 THEN state ELSE Body(after[n - 1], n)]
  BY <1>3, <1>8
<1>10. after[0] = state /\ \A n \in 1..len : after[n] = Body(after[n - 1], n)
  BY <1>1, <1>9
<1>11. \A n \in 0..len : after[n] \in Known
  <2> DEFINE K == {n \in 0..len : after[n] \in Known}
  <2>1. K \in SUBSET (0..len) /\ 0 \in K
    BY <1>1, <1>10
  <2>2. \A n \in 1..len : n - 1 \in K => n \in K
    BY <1>1, <1>2, <1>10
  <2>3. K = 0..len
    <3> HIDE DEF K
    <3> QED
      BY <1>1, <2>1, <2>2, RoundInduction
  <2> QED
    BY <2>3
<1>12. after \in [0..len -> Known]
  BY <1>9, <1>11
<1> QED
  BY <1>10, <1>12 DEF len, Body, after

-----------------------------------------------------------------------------
(* What the state in a reply is, for whatever a sensor is and has reported. *)

LEMMA RulesTyped ==
  ASSUME TypeOK
  PROVE  rules \in Seq(Rule)
BY RuleListsAssumption DEF TypeOK

LEMMA BaseIs ==
  ASSUME NEW a, NEW g, NEW f
  PROVE  Base(a, g, f) \in {"OK", "DEGRADED", "FAILED"} /\ Base(a, g, f) \in Known
BY DEF Base, Known

LEMMA ConditionIs ==
  ASSUME NEW list \in Seq(Rule), NEW data, NEW n \in 1..Len(list)
  PROVE  LET cond == Conditions(list, data)[n] IN
           /\ cond.type = list[n].name
           /\ (cond.status = "Unknown") <=> (data \in list[n].fails)
           /\ (cond.status = "True") <=> (data \in list[n].holds \ list[n].fails)
<1>1. Conditions(list, data)[n] = Condition(list[n], data)
  BY DEF Conditions
<1> QED
  BY <1>1 DEF Condition

LEMMA ListDomain ==
  ASSUME NEW list \in Seq(Rule)
  PROVE  1..Len(list) \subseteq Nat /\ DOMAIN list = 1..Len(list)
<1>1. Len(list) \in Nat
  OBVIOUS
<1> QED
  BY <1>1

LEMMA NamedIs ==
  ASSUME NEW list \in Seq(Rule), NEW k, NEW n
  PROVE  n \in Named(list, k) <=> n \in 1..Len(list) /\ list[n].name = k /\ list[n].target # ""
BY ListDomain, Zenon DEF Named

(* The target of a true condition is that of a rule of its name.            *)
LEMMA TargetIs ==
  ASSUME NEW list \in Seq(Rule), NEW k, TargetOf(list, k) # ""
  PROVE  \E n \in 1..Len(list) : list[n].name = k /\ list[n].target = TargetOf(list, k)
<1>1. Named(list, k) # {}
  BY DEF TargetOf
<1>2. \A n \in Named(list, k) : n \in 1..Len(list) /\ list[n].name = k
  BY NamedIs
<1> DEFINE T == Named(list, k)
<1>5. T \subseteq Nat /\ T # {}
  <2>1. 1..Len(list) \subseteq Nat
    BY ListDomain, Zenon
  <2> QED
    BY <1>1, <1>2, <2>1, Zenon
<1>6. \E n \in T : \A m \in T : n <= m
  <2> HIDE DEF T
  <2> QED
    BY <1>5, LeastNatural
<1>3. Min(Named(list, k)) \in Named(list, k)
  BY <1>6 DEF Min
<1>4. TargetOf(list, k) = list[Min(Named(list, k))].target
  BY <1>1 DEF TargetOf
<1> QED
  BY <1>2, <1>3, <1>4

(* If names differ, it is the target of the condition's own rule.           *)
LEMMA TargetOfUnique ==
  ASSUME NEW list \in Seq(Rule), UniqueNames(list), NEW n \in 1..Len(list)
  PROVE  TargetOf(list, list[n].name) = list[n].target
<1>0. \A m \in 1..Len(list) : list[m].name = list[n].name => m = n
  BY ListDomain, Zenon DEF UniqueNames
<1>1. CASE list[n].target = ""
  <2>1. Named(list, list[n].name) = {}
    BY <1>1, <1>0, NamedIs
  <2> QED
    BY <1>1, <2>1 DEF TargetOf
<1>2. CASE list[n].target # ""
  <2>1. Named(list, list[n].name) = {n}
    <3>1. \A m : m \in Named(list, list[n].name) => m \in 1..Len(list) /\ list[m].name = list[n].name
      BY NamedIs
    <3>2. n \in Named(list, list[n].name)
      BY <1>2, NamedIs
    <3> QED
      BY <1>0, <3>1, <3>2, Zenon
  <2>2. Min({n}) = n
    <3>1. n <= n
      OBVIOUS
    <3> QED
      BY <3>1, Zenon DEF Min
  <2> QED
    BY <2>1, <2>2 DEF TargetOf
<1> QED
  BY <1>1, <1>2

(* Past both periods the loop begins with FAILED, and a round can only put  *)
(* PAUSED in its place, for a rule that says so.                            *)
LEMMA SilentStates ==
  ASSUME TypeOK, age >= graceful, age >= failure
  PROVE  \/ Shown = "FAILED"
         \/ /\ Shown = "PAUSED"
            /\ \E n \in DOMAIN rules : rules[n].target = "PAUSED"
<1> DEFINE len == Len(rules)
           after == Overridden("FAILED", rules, reading)
           Paused == \E n \in DOMAIN rules : rules[n].target = "PAUSED"
           S == {n \in 0..len : after[n] = "FAILED" \/ (after[n] = "PAUSED" /\ Paused)}
<1>1. rules \in Seq(Rule) /\ len \in Nat /\ "FAILED" \in Known
  BY RulesTyped DEF Known
<1>2. Base(age, graceful, failure) = "FAILED"
  <2>1. age \in Int /\ graceful \in Int /\ failure \in Int
    BY TimeAssumption DEF TypeOK
  <2> QED
    BY <2>1 DEF Base
<1>3. Shown = after[len]
  BY <1>2 DEF Shown, ShownState
<1>4. /\ after \in [0..len -> Known] /\ after[0] = "FAILED"
      /\ \A n \in 1..len : after[n] = Override(rules, after[n - 1], Conditions(rules, reading)[n])
  BY <1>1, OverriddenRounds
<1> HIDE DEF after
<1>5. S \in SUBSET (0..len) /\ 0 \in S
  BY <1>1, <1>4
<1>6. ASSUME NEW n \in 1..len, n - 1 \in S PROVE n \in S
  <2> DEFINE s == after[n - 1]
             cond == Conditions(rules, reading)[n]
  <2>1. s \in {"FAILED", "PAUSED"} /\ (s = "PAUSED" => Paused)
    BY <1>6
  <2>2. s \in Known
    BY <2>1 DEF Known
  <2>3. after[n] = Override(rules, s, cond)
    BY <1>4
  <2> HIDE DEF s, cond
  <2>4. CASE Override(rules, s, cond) = s
    BY <1>1, <2>1, <2>3, <2>4
  <2>5. CASE Override(rules, s, cond) = Raise(s, "FAILED")
    BY <1>1, <2>1, <2>3, <2>5 DEF Raise
  <2>6. CASE TargetOf(rules, cond.type) \in Known /\ Override(rules, s, cond) = Raise(s, TargetOf(rules, cond.type))
    <3> DEFINE to == TargetOf(rules, cond.type)
    <3>1. to # ""
      BY <2>6 DEF Known
    <3>2. PICK m \in 1..Len(rules) : rules[m].target = to
      BY <1>1, <3>1, TargetIs
    <3>3. to = "PAUSED" => Paused
      BY <1>1, <3>2
    <3>4. Raise(s, to) = s \/ (Raise(s, to) = to /\ to = "PAUSED")
      <4>1. to \in Known
        BY <2>6
      <4> HIDE DEF to
      <4> QED
        BY <2>1, <4>1, SeverityIs DEF Raise, Known
    <3> QED
      BY <1>1, <2>1, <2>3, <2>6, <3>3, <3>4
  <2> QED
    BY <2>2, <2>4, <2>5, <2>6, OverrideIs
<1>7. S = 0..len
  <2> HIDE DEF S
  <2> QED
    BY <1>1, <1>5, <1>6, RoundInduction
<1> QED
  BY <1>1, <1>3, <1>7

(* The loop is monotone in what it begins with.                             *)
LEMMA LoopMonotone ==
  ASSUME NEW list \in Seq(Rule), NEW data, NEW s \in Known, NEW t \in Known, Severity[s] <= Severity[t]
  PROVE  Severity[Overridden(s, list, data)[Len(list)]] <= Severity[Overridden(t, list, data)[Len(list)]]
<1> DEFINE len == Len(list)
           low == Overridden(s, list, data)
           high == Overridden(t, list, data)
           S == {n \in 0..len : Severity[low[n]] <= Severity[high[n]]}
<1>1. len \in Nat
  OBVIOUS
<1>2. /\ low \in [0..len -> Known] /\ low[0] = s
      /\ \A n \in 1..len : low[n] = Override(list, low[n - 1], Conditions(list, data)[n])
      /\ high \in [0..len -> Known] /\ high[0] = t
      /\ \A n \in 1..len : high[n] = Override(list, high[n - 1], Conditions(list, data)[n])
  BY OverriddenRounds
<1> HIDE DEF low, high
<1>3. \A x, y, z \in Known : Severity[x] <= Severity[y] => Severity[Raise(x, z)] <= Severity[Raise(y, z)]
  BY SeverityIs DEF Raise, Known
<1>4. \A x, y \in Known : \A cond : Severity[x] <= Severity[y]
                            => Severity[Override(list, x, cond)] <= Severity[Override(list, y, cond)]
  BY <1>3, StatesKnown DEF Override, Known
<1>5. S \in SUBSET (0..len) /\ 0 \in S
  BY <1>1, <1>2
<1>6. \A n \in 1..len : n - 1 \in S => n \in S
  BY <1>1, <1>2, <1>4
<1>7. S = 0..len
  <2> HIDE DEF S
  <2> QED
    BY <1>1, <1>5, <1>6, RoundInduction
<1> QED
  BY <1>1, <1>7 DEF low, high

(* With different names, every round adds what its own rule says: after it  *)
(* the state is the most severe of what the age and the rules so far say.   *)
LEMMA RulesCount ==
  ASSUME TypeOK, UniqueNames(rules)
  PROVE  LET base == Base(age, graceful, failure)
             Holding == {m \in DOMAIN rules : reading \in rules[m].holds \ rules[m].fails}
             Failing == {m \in DOMAIN rules : reading \in rules[m].fails}
         IN /\ \/ Shown = base
               \/ Shown = "FAILED" /\ Failing # {}
               \/ \E m \in Holding : Shown = rules[m].target
            /\ Shown \in Known
            /\ Severity[Shown] >= Severity[base]
            /\ Failing # {} => Severity[Shown] >= Severity["FAILED"]
            /\ \A m \in Holding : rules[m].target \in Known => Severity[Shown] >= Severity[rules[m].target]
<1> DEFINE len == Len(rules)
           base == Base(age, graceful, failure)
           Holding == {m \in DOMAIN rules : reading \in rules[m].holds \ rules[m].fails}
           Failing == {m \in DOMAIN rules : reading \in rules[m].fails}
           after == Overridden(base, rules, reading)
           Said(s) == \/ s = base
                      \/ s = "FAILED" /\ Failing # {}
                      \/ \E m \in Holding : s = rules[m].target
           Above(s, n) ==
             /\ Severity[s] >= Severity[base]
             /\ \A m \in 1..n : /\ m \in Failing => Severity[s] >= Severity["FAILED"]
                                /\ m \in Holding /\ rules[m].target \in Known => Severity[s] >= Severity[rules[m].target]
           S == {n \in 0..len : Said(after[n]) /\ Above(after[n], n)}
<1>1. rules \in Seq(Rule) /\ len \in Nat /\ base \in Known /\ "FAILED" \in Known /\ DOMAIN rules = 1..len
  BY RulesTyped, BaseIs DEF Known
<1>2. Shown = after[len]
  BY DEF Shown, ShownState
<1>3. /\ after \in [0..len -> Known] /\ after[0] = base
      /\ \A n \in 1..len : after[n] = Override(rules, after[n - 1], Conditions(rules, reading)[n])
  BY <1>1, OverriddenRounds
<1>4. \A s \in Known : Severity[s] \in Nat
  BY SeverityIs DEF Known
<1> HIDE DEF after, base
<1>5. 0 \in S
  BY <1>1, <1>3, <1>4
<1>6. ASSUME NEW n \in 1..len, n - 1 \in S PROVE n \in S
  <2> DEFINE s == after[n - 1]
             t == after[n]
             cond == Conditions(rules, reading)[n]
  <2>1. s \in Known /\ Said(s) /\ Above(s, n - 1)
    BY <1>1, <1>3, <1>6
  <2>2. t = Override(rules, s, cond)
    BY <1>3
  <2>3. /\ cond.type = rules[n].name
        /\ (cond.status = "Unknown") <=> (n \in Failing)
        /\ (cond.status = "True") <=> (n \in Holding)
        /\ n \in Holding => n \notin Failing
    BY <1>1, ConditionIs
  <2>4. TargetOf(rules, cond.type) = rules[n].target
    BY <1>1, <2>3, TargetOfUnique
  <2>5. \A m \in 1..n : m \in 1..(n - 1) \/ m = n
    BY <1>1
  <2> HIDE DEF s, t, cond, Holding, Failing, len
  <2>6. /\ t \in Known /\ Severity[t] >= Severity[s]
        /\ \/ t = s
           \/ t = "FAILED" /\ n \in Failing
           \/ t = rules[n].target /\ n \in Holding
        /\ n \in Failing => Severity[t] >= Severity["FAILED"]
        /\ n \in Holding /\ rules[n].target \in Known => Severity[t] >= Severity[rules[n].target]
    <3>1. CASE n \in Failing
      <4>1. t = Raise(s, "FAILED")
        BY <2>2, <2>3, <3>1 DEF Override
      <4> QED
        BY <1>1, <2>1, <2>3, <3>1, <4>1, RaiseIs
    <3>2. CASE n \in Holding /\ rules[n].target \in Known
      <4>1. t = Raise(s, rules[n].target)
        BY <2>2, <2>3, <2>4, <3>2, StatesKnown DEF Override
      <4> QED
        BY <1>1, <2>1, <2>3, <3>2, <4>1, RaiseIs
    <3>3. CASE n \notin Failing /\ ~(n \in Holding /\ rules[n].target \in Known)
      <4>1. t = s
        BY <2>2, <2>3, <2>4, <3>3, StatesKnown DEF Override
      <4>2. Severity[s] \in Nat
        BY <1>4, <2>1
      <4> QED
        BY <2>1, <3>3, <4>1, <4>2
    <3> QED
      BY <3>1, <3>2, <3>3
  <2>7. Said(t)
    BY <2>1, <2>6
  <2>8. Above(t, n)
    <3>1. \A x \in Known : Severity[s] >= Severity[x] => Severity[t] >= Severity[x]
      <4>1. Severity[s] \in Nat /\ Severity[t] \in Nat
        BY <1>4, <2>1, <2>6
      <4> QED
        BY <1>4, <2>6, <4>1
    <3>2. Severity[t] >= Severity[base]
      BY <1>1, <2>1, <3>1
    <3>3. ASSUME NEW m \in 1..(n - 1)
          PROVE  /\ m \in Failing => Severity[t] >= Severity["FAILED"]
                 /\ m \in Holding /\ rules[m].target \in Known => Severity[t] >= Severity[rules[m].target]
      BY <1>1, <2>1, <3>1
    <3> QED
      BY <2>5, <2>6, <3>2, <3>3
  <2> QED
    BY <2>7, <2>8 DEF t, len
<1>7. S = 0..len
  <2>1. S \in SUBSET (0..len)
    OBVIOUS
  <2> HIDE DEF S
  <2> QED
    BY <1>1, <1>5, <1>6, <2>1, RoundInduction
<1>8. Said(Shown) /\ Above(Shown, len) /\ Shown \in Known
  BY <1>1, <1>2, <1>3, <1>7
<1>9. Failing \subseteq 1..len /\ Holding \subseteq 1..len
  BY <1>1
<1> HIDE DEF Holding, Failing
<1>10. /\ Failing # {} => Severity[Shown] >= Severity["FAILED"]
       /\ \A m \in Holding : rules[m].target \in Known => Severity[Shown] >= Severity[rules[m].target]
  BY <1>8, <1>9
<1> QED
  BY <1>8, <1>10 DEF Holding, Failing, base

-----------------------------------------------------------------------------

(* The types of what the state in a reply is computed from.                 *)
THEOREM TypeCorrect == Spec => []TypeOK
<1>1. Init => TypeOK
  BY TimeAssumption DEF Init, TypeOK
<1>2. TypeOK /\ [Next]_vars => TypeOK'
  <2> SUFFICES ASSUME TypeOK, [Next]_vars PROVE TypeOK'
    OBVIOUS
  <2>1. CASE Report
    <3>1. age' \in -MaxLead..MaxAge
      BY <2>1, TimeAssumption DEF Report
    <3> QED
      BY <2>1, <3>1 DEF Report, TypeOK, spec
  <2>2. CASE Patch
    BY <2>2 DEF Patch, TypeOK
  <2>3. CASE Tick
    BY <2>3, TimeAssumption DEF Tick, TypeOK, spec
  <2>4. CASE UNCHANGED vars
    BY <2>4 DEF vars, TypeOK
  <2> QED
    BY <2>1, <2>2, <2>3, <2>4 DEF Next
<1> QED
  BY <1>1, <1>2, PTL DEF Spec

(* No list of rules, of whatever length, hides that a sensor is silent      *)
(* (applyConditionOverrides, qivitals_svc.go:252).                          *)
THEOREM SilenceAlwaysShows == Spec => []SilenceShows
<1>1. TypeOK => SilenceShows
  BY SilentStates DEF SilenceShows
<1> QED
  BY <1>1, TypeCorrect, PTL

(* As long as the names of its rules differ, a sensor is shown in the most  *)
(* severe of the states that its age, its rules and their failures ask for, *)
(* in whatever order the rules are (applyConditionOverrides).               *)
THEOREM RulesAlwaysDecide == Spec => []RulesDecide
<1> DEFINE base == Base(age, graceful, failure)
           Holding == {m \in DOMAIN rules : reading \in rules[m].holds \ rules[m].fails}
           Failing == {m \in DOMAIN rules : reading \in rules[m].fails}
           says == {base} \cup {rules[n].target : n \in Holding}
                     \cup (IF Failing # {} THEN {"FAILED"} ELSE {})
<1>1. TypeOK => RulesDecide
  <2> SUFFICES ASSUME TypeOK, UniqueNames(rules) PROVE RulesDecide
    BY DEF RulesDecide
  <2>1. /\ \/ Shown = base
           \/ Shown = "FAILED" /\ Failing # {}
           \/ \E m \in Holding : Shown = rules[m].target
        /\ Shown \in Known
        /\ Severity[Shown] >= Severity[base]
        /\ Failing # {} => Severity[Shown] >= Severity["FAILED"]
        /\ \A m \in Holding : rules[m].target \in Known => Severity[Shown] >= Severity[rules[m].target]
    BY RulesCount
  <2>2. Failing # {} <=> \E n \in DOMAIN rules : reading \in rules[n].fails
    OBVIOUS
  <2>3. RulesDecide <=> Shown \in says \cap Known /\ \A s \in says \cap Known : Severity[s] <= Severity[Shown]
    BY <2>2, StatesKnown, Zenon DEF RulesDecide
  <2> HIDE DEF base, Holding, Failing
  <2>4. Shown \in says
    BY <2>1
  <2>5. \A s \in says \cap Known : Severity[Shown] >= Severity[s]
    BY <2>1
  <2>6. \A s \in Known : Severity[s] \in Nat
    BY SeverityIs DEF Known
  <2>7. \A s \in says \cap Known : Severity[s] <= Severity[Shown]
    BY <2>1, <2>5, <2>6
  <2> QED
    BY <2>1, <2>3, <2>4, <2>7
<1> QED
  BY <1>1, TypeCorrect, PTL

(* While nobody reports or patches, a sensor is never shown in a better     *)
(* state than before (calculateSensorStatus, qivitals_svc.go:234).          *)
THEOREM TimeOnlyDecays == Spec => OnlyDecays
<1>1. TypeOK /\ TypeOK' =>
        (UNCHANGED <<reading, spec>> /\ age' > age
           => Severity[ShownState(age', graceful', failure', rules', reading')]
                >= Severity[ShownState(age, graceful, failure, rules, reading)])
  <2> SUFFICES ASSUME TypeOK, TypeOK', UNCHANGED <<reading, spec>>, age' > age
               PROVE  Severity[ShownState(age', graceful, failure, rules, reading)]
                        >= Severity[ShownState(age, graceful, failure, rules, reading)]
    BY DEF spec
  <2> DEFINE s == Base(age, graceful, failure)
             t == Base(age', graceful, failure)
  <2>1. age \in Int /\ age' \in Int /\ graceful \in Int /\ failure \in Int
    BY TimeAssumption DEF TypeOK
  <2>2. s \in Known /\ t \in Known
    BY BaseIs
  <2>3. Severity[s] <= Severity[t]
    BY <2>1, SeverityIs DEF Base
  <2> HIDE DEF s, t
  <2> DEFINE x == Overridden(s, rules, reading)[Len(rules)]
             y == Overridden(t, rules, reading)[Len(rules)]
  <2>4. Severity[x] <= Severity[y]
    BY <2>2, <2>3, LoopMonotone, RulesTyped
  <2>5. x \in Known /\ y \in Known
    <3>1. rules \in Seq(Rule) /\ Len(rules) \in 0..Len(rules)
      BY RulesTyped
    <3> QED
      BY <2>2, <3>1, OverriddenRounds
  <2>6. Severity[x] \in Nat /\ Severity[y] \in Nat
    BY <2>5, SeverityIs DEF Known
  <2>7. Severity[y] >= Severity[x]
    BY <2>4, <2>6
  <2> QED
    BY <2>7 DEF ShownState, s, t
<1> QED
  BY <1>1, TypeCorrect, PTL DEF OnlyDecays

-----------------------------------------------------------------------------
(* The evaluator.                                                           *)

USE TextsAssumption, MaxCacheSizeAssumption

LEMMA EvaluatorInitInv == EvaluatorInit => IInv
<1> SUFFICES ASSUME EvaluatorInit PROVE IInv
  OBVIOUS
<1> USE DEF EvaluatorInit
<1>1. EvaluatorTypeOK
  BY DEF EvaluatorTypeOK, PCs
<1>2. Exclusive /\ Stored
  BY DEF Exclusive, Stored, Reading, Writing, ForTemplate
<1>3. IsFiniteSet(templates) /\ TemplatesBounded
  BY FS_EmptySet DEF TemplatesBounded
<1> QED
  BY <1>1, <1>2, <1>3 DEF IInv, CompiledOnce

(* A rule that ends, or goes on to its template, leaves every other          *)
(* goroutine where it is and holds nothing itself.                           *)
LEMMA RuleGoesOn ==
  ASSUME EvaluatorTypeOK, Stored, NEW w \in Workers, pc[w] # "idle",
         Finish(w) \/ RunProgram(w)
  PROVE  /\ pc' \in [Workers -> PCs]
         /\ expr' \in [Workers -> Exprs \cup {NoText}]
         /\ tmpl' \in [Workers -> Templates \cup {NoText}]
         /\ pc'[w] \in {"idle", "tmpl_rlock"}
         /\ pc'[w] = "tmpl_rlock" => expr'[w] \in Exprs /\ tmpl'[w] \in Templates
         /\ \A v \in Workers \ {w} :
              pc'[v] = pc[v] /\ expr'[v] = expr[v] /\ tmpl'[v] = tmpl[v]
<1>1. CASE Finish(w)
  BY <1>1 DEF Finish, Goto, EvaluatorTypeOK, PCs
<1>2. CASE tmpl[w] # NoText /\ Goto(w, "tmpl_rlock") /\ UNCHANGED task
  BY <1>2 DEF Goto, EvaluatorTypeOK, PCs, Stored, task
<1> QED
  BY <1>1, <1>2 DEF RunProgram

(* Steps that change neither the programs nor the templates have to keep     *)
(* only the types and what each goroutine holds.                             *)
LEMMA KeepStored ==
  ASSUME IInv, UNCHANGED <<programs, templates>>, EvaluatorTypeOK', Exclusive',
         \A v \in Workers :
           /\ pc'[v] # "idle" => expr'[v] \in Exprs
           /\ pc'[v] \in ForTemplate => tmpl'[v] \in Templates
           /\ pc'[v] = "expr_compile" => expr'[v] \notin cached
           /\ pc'[v] = "tmpl_parse" => Cardinality(templates) < MaxCacheSize
  PROVE  IInv'
BY DEF IInv, Stored, TemplatesBounded, CompiledOnce, programs

LEMMA EvaluateInv ==
  ASSUME IInv, NEW w \in Workers, Evaluate(w) PROVE IInv'
<1> USE DEF IInv, Evaluate, Goto
<1>1. EvaluatorTypeOK'
  BY DEF EvaluatorTypeOK, PCs, programs, mutex
<1>2. Exclusive'
  BY DEF EvaluatorTypeOK, Exclusive, Reading, Writing, mutex
<1> QED
  BY <1>1, <1>2, KeepStored DEF EvaluatorTypeOK, Stored, ForTemplate

LEMMA RLockInv ==
  ASSUME IInv, NEW w \in Workers, RLock(w) PROVE IInv'
<1> USE DEF IInv, RLock, Goto
<1>1. EvaluatorTypeOK'
  BY DEF EvaluatorTypeOK, PCs, programs, task
<1>2. Exclusive'
  BY DEF EvaluatorTypeOK, Exclusive, Reading, Writing
<1> QED
  BY <1>1, <1>2, KeepStored DEF EvaluatorTypeOK, Stored, ForTemplate, task

LEMMA LookExprInv ==
  ASSUME IInv, NEW w \in Workers, LookExpr(w) PROVE IInv'
<1> USE DEF IInv, LookExpr
<1>1. CASE expr[w] \in cached
  <2>1. RunProgram(w)
    BY <1>1
  <2>2. EvaluatorTypeOK'
    BY <2>1, RuleGoesOn DEF EvaluatorTypeOK, programs
  <2>3. Exclusive'
    BY <2>1, RuleGoesOn DEF EvaluatorTypeOK, Exclusive, Reading, Writing
  <2> QED
    BY <2>1, <2>2, <2>3, RuleGoesOn, KeepStored DEF Stored, ForTemplate
<1>2. CASE expr[w] \notin cached
  <2>1. EvaluatorTypeOK'
    BY <1>2 DEF EvaluatorTypeOK, PCs, programs, task, Goto
  <2>2. Exclusive'
    BY <1>2 DEF EvaluatorTypeOK, Exclusive, Reading, Writing, Goto
  <2> QED
    BY <1>2, <2>1, <2>2, KeepStored DEF EvaluatorTypeOK, Stored, ForTemplate, task, Goto
<1> QED
  BY <1>1, <1>2

LEMMA LookTemplateInv ==
  ASSUME IInv, NEW w \in Workers, LookTemplate(w) PROVE IInv'
<1> USE DEF IInv, LookTemplate
<1>1. CASE tmpl[w] \in templates
  <2>1. Finish(w)
    BY <1>1
  <2>2. EvaluatorTypeOK'
    BY <2>1, RuleGoesOn DEF EvaluatorTypeOK, programs
  <2>3. Exclusive'
    BY <2>1, RuleGoesOn DEF EvaluatorTypeOK, Exclusive, Reading, Writing
  <2> QED
    BY <2>1, <2>2, <2>3, RuleGoesOn, KeepStored DEF Stored, ForTemplate
<1>2. CASE tmpl[w] \notin templates
  <2>1. EvaluatorTypeOK'
    BY <1>2 DEF EvaluatorTypeOK, PCs, programs, task, Goto
  <2>2. Exclusive'
    BY <1>2 DEF EvaluatorTypeOK, Exclusive, Reading, Writing, Goto
  <2> QED
    BY <1>2, <2>1, <2>2, KeepStored DEF EvaluatorTypeOK, Stored, ForTemplate, task, Goto
<1> QED
  BY <1>1, <1>2

LEMMA LockInv ==
  ASSUME IInv, NEW w \in Workers, Lock(w) PROVE IInv'
<1> USE DEF IInv, Lock, Goto
<1>1. EvaluatorTypeOK'
  BY DEF EvaluatorTypeOK, PCs, programs, task
<1>2. Exclusive'
  BY DEF EvaluatorTypeOK, Exclusive, Reading, Writing
<1> QED
  BY <1>1, <1>2, KeepStored DEF EvaluatorTypeOK, Stored, ForTemplate, task

LEMMA LookExprAgainInv ==
  ASSUME IInv, NEW w \in Workers, LookExprAgain(w) PROVE IInv'
<1> USE DEF IInv, LookExprAgain
<1>1. CASE expr[w] \in cached
  <2>1. RunProgram(w)
    BY <1>1
  <2>2. EvaluatorTypeOK'
    BY <1>1, <2>1, RuleGoesOn DEF EvaluatorTypeOK, programs
  <2>3. Exclusive'
    BY <1>1, <2>1, RuleGoesOn DEF EvaluatorTypeOK, Exclusive, Reading, Writing
  <2> QED
    BY <2>1, <2>2, <2>3, RuleGoesOn, KeepStored DEF Stored, ForTemplate
<1>2. CASE expr[w] \notin cached
  <2>1. EvaluatorTypeOK'
    BY <1>2 DEF EvaluatorTypeOK, PCs, programs, task, Goto
  <2>2. Exclusive'
    BY <1>2 DEF EvaluatorTypeOK, Exclusive, Reading, Writing, Goto
  <2> QED
    BY <1>2, <2>1, <2>2, KeepStored DEF EvaluatorTypeOK, Stored, ForTemplate, task, Goto
<1> QED
  BY <1>1, <1>2

LEMMA CompileInv ==
  ASSUME IInv, NEW w \in Workers, Compile(w) PROVE IInv'
<1> USE DEF IInv, Compile, Compiled
<1>1. Finish(w) \/ RunProgram(w)
  OBVIOUS
<1>2. expr[w] \in Exprs
  BY DEF Stored
<1>3. EvaluatorTypeOK'
  BY <1>1, <1>2, RuleGoesOn DEF EvaluatorTypeOK
<1>4. Exclusive'
  BY <1>1, RuleGoesOn DEF EvaluatorTypeOK, Exclusive, Reading, Writing
<1>5. \A v \in Workers : pc'[v] \notin {"expr_compile", "tmpl_parse"}
  BY <1>4 DEF Exclusive, Writing
<1>6. Stored'
  <2>1. cached' = compiled' \ BadExprs
    BY DEF Stored
  <2>2. \A v \in Workers : /\ pc'[v] # "idle" => expr'[v] \in Exprs
                           /\ pc'[v] \in ForTemplate => tmpl'[v] \in Templates
    BY <1>1, RuleGoesOn DEF Stored, ForTemplate
  <2> QED
    BY <1>5, <2>1, <2>2 DEF Stored
<1>7. CompiledOnce'
  BY <1>2 DEF CompiledOnce, Stored
<1> QED
  BY <1>3, <1>4, <1>6, <1>7 DEF TemplatesBounded

LEMMA LookTemplateAgainInv ==
  ASSUME IInv, NEW w \in Workers, LookTemplateAgain(w) PROVE IInv'
<1> USE DEF IInv, LookTemplateAgain
<1>1. CASE tmpl[w] \in templates
  <2>1. Finish(w)
    BY <1>1
  <2>2. EvaluatorTypeOK'
    BY <1>1, <2>1, RuleGoesOn DEF EvaluatorTypeOK, programs
  <2>3. Exclusive'
    BY <1>1, <2>1, RuleGoesOn DEF EvaluatorTypeOK, Exclusive, Reading, Writing
  <2> QED
    BY <1>1, <2>1, <2>2, <2>3, RuleGoesOn, KeepStored DEF Stored, ForTemplate
<1>2. CASE tmpl[w] \notin templates
  <2> USE <1>2
  <2>1. PICK dropped \in IF Cardinality(templates) >= MaxCacheSize
                           THEN {{t} : t \in templates} ELSE {{}} :
          templates' = templates \ dropped
    OBVIOUS
  <2>2. Cardinality(templates) \in Nat /\ Cardinality(templates) <= MaxCacheSize
    BY FS_CardinalityType DEF TemplatesBounded
  <2>3. IsFiniteSet(templates') /\ Cardinality(templates') < MaxCacheSize
    <3>1. CASE Cardinality(templates) >= MaxCacheSize
      <4>1. PICK t \in templates : dropped = {t}
        BY <2>1, <3>1
      <4>2. templates' = templates \ {t}
        BY <2>1, <4>1
      <4>3. IsFiniteSet(templates') /\ Cardinality(templates') = Cardinality(templates) - 1
        BY <4>2, FS_RemoveElement
      <4> QED
        BY <2>2, <4>3
    <3>2. CASE ~(Cardinality(templates) >= MaxCacheSize)
      <4>1. templates' = templates
        BY <2>1, <3>2
      <4> QED
        BY <2>2, <3>2, <4>1
    <3> QED
      BY <3>1, <3>2
  <2>4. EvaluatorTypeOK'
    BY <2>1 DEF EvaluatorTypeOK, PCs, programs, task, Goto
  <2>5. Exclusive'
    BY DEF EvaluatorTypeOK, Exclusive, Reading, Writing, Goto
  <2>6. Stored'
    BY <2>3 DEF Stored, EvaluatorTypeOK, ForTemplate, programs, task, Goto
  <2> QED
    BY <2>2, <2>3, <2>4, <2>5, <2>6, FS_CardinalityType
    DEF TemplatesBounded, CompiledOnce, programs
<1> QED
  BY <1>1, <1>2

LEMMA ParseInv ==
  ASSUME IInv, NEW w \in Workers, Parse(w) PROVE IInv'
<1> USE DEF IInv, Parse
<1>1. tmpl[w] \in Templates /\ Cardinality(templates) < MaxCacheSize
  BY DEF Stored, ForTemplate
<1>2. EvaluatorTypeOK'
  BY <1>1, RuleGoesOn DEF EvaluatorTypeOK, programs
<1>3. Exclusive'
  BY RuleGoesOn DEF EvaluatorTypeOK, Exclusive, Reading, Writing
<1>4. \A v \in Workers : pc'[v] \notin {"expr_compile", "tmpl_parse"}
  BY <1>3 DEF Exclusive, Writing
<1>5. Stored'
  BY <1>4, RuleGoesOn DEF Stored, programs, ForTemplate
<1>6. IsFiniteSet(templates') /\ TemplatesBounded'
  <2>1. Cardinality(templates) \in Nat
    BY FS_CardinalityType
  <2>2. CASE tmpl[w] \in BadTemplates
    BY <2>2 DEF TemplatesBounded
  <2>3. CASE tmpl[w] \notin BadTemplates
    <3>1. templates' = templates \cup {tmpl[w]}
      BY <2>3
    <3>2. /\ IsFiniteSet(templates \cup {tmpl[w]})
          /\ Cardinality(templates \cup {tmpl[w]}) =
               IF tmpl[w] \in templates
                 THEN Cardinality(templates) ELSE Cardinality(templates) + 1
      BY FS_AddElement
    <3>3. Cardinality(templates \cup {tmpl[w]}) <= MaxCacheSize
      <4> HIDE DEF IInv, Parse
      <4> QED
        BY <1>1, <2>1, <3>2
    <3> QED
      BY <3>1, <3>2, <3>3 DEF TemplatesBounded
  <2> QED
    BY <2>2, <2>3
<1> QED
  BY <1>2, <1>3, <1>5, <1>6 DEF CompiledOnce, programs

LEMMA EvaluatorNextInv == IInv /\ [EvaluatorNext]_evaluatorVars => IInv'
<1> SUFFICES ASSUME IInv, [EvaluatorNext]_evaluatorVars PROVE IInv'
  OBVIOUS
<1>1. CASE UNCHANGED evaluatorVars
  BY <1>1 DEF evaluatorVars, programs, mutex, task, IInv, EvaluatorTypeOK, Exclusive, Stored,
              TemplatesBounded, CompiledOnce
<1>2. ASSUME NEW w \in Workers, Evaluate(w) \/ Step(w) PROVE IInv'
  BY <1>2, EvaluateInv, RLockInv, LookExprInv, LookTemplateInv, LockInv,
     LookExprAgainInv, CompileInv, LookTemplateAgainInv, ParseInv DEF Step
<1> QED
  BY <1>1, <1>2 DEF EvaluatorNext

(* What is written under the write lock was seen under the same lock, and    *)
(* the mutex has one writer or any number of readers.                        *)
THEOREM EvaluatorInvariance == EvaluatorSpec => []IInv
BY EvaluatorInitInv, EvaluatorNextInv, PTL DEF EvaluatorSpec

(* However many goroutines miss an expression at once, only one that does    *)
(* not compile is ever compiled again (compileExpression).                   *)
THEOREM NoneCompiledTwice == EvaluatorSpec => []CompiledOnce
<1>1. IInv => CompiledOnce
  BY DEF IInv
<1> QED
  BY <1>1, EvaluatorInvariance, PTL

(* The map of parsed templates never exceeds maxCacheSize (getTemplate).     *)
THEOREM TemplatesStayBounded == EvaluatorSpec => []TemplatesBounded
<1>1. IInv => TemplatesBounded
  BY DEF IInv
<1> QED
  BY <1>1, EvaluatorInvariance, PTL
=============================================================================

--------------------------- MODULE CommandsProofs ---------------------------
(***************************************************************************)
(* Proofs about the two commands with steps of their own: the update       *)
(* command's edits of condition rules (RulePatches), for lists of rules of *)
(* any length and any number of flags, and the report command              *)
(* (SensorReports), for any number of runs and any observations.           *)
(*                                                                         *)
(* What an edit leaves is followed operation by operation (Shape), through *)
(* the additions, then the removals and then the replacements              *)
(* (EditedShape); both loops are recursive functions, which are runs of    *)
(* their rounds (RunExists) and are followed by induction on the rounds,   *)
(* as in SensorHealthProofs.                                               *)
(***************************************************************************)
EXTENDS RulePatches, SensorReports, FiniteSetTheorems, SequenceTheorems, WellFoundedInduction,
        TLAPS

-----------------------------------------------------------------------------
(* Induction, for sets rather than for formulas.                            *)

LEMMA LeastNatural ==
  ASSUME NEW T, T \subseteq Nat, T # {}
  PROVE  \E n \in T : \A m \in T : n <= m
<1> DEFINE Less == {p \in Nat \X Nat : p[1] < p[2]}
<1>1. IsWellFoundedOn(Less, Nat)
  <2>1. OpToRel(<, Nat) = Less
    BY DEF OpToRel
  <2> QED
    BY <2>1, NatLessThanWellFounded
<1>2. \A n, m \in Nat : m < n => <<m, n>> \in Less
  OBVIOUS
<1> HIDE DEF Less
<1>3. PICK n \in T : \A m \in T : ~(<<m, n>> \in Less)
  BY <1>1, WFMin
<1>4. ASSUME NEW m \in T PROVE n <= m
  <2>1. m \in Nat /\ n \in Nat /\ ~(m < n)
    BY <1>2, <1>3
  <2> QED
    BY <2>1
<1> QED
  BY <1>4

LEMMA RoundInduction ==
  ASSUME NEW len \in Nat, NEW S \in SUBSET (0..len), 0 \in S,
         \A n \in 1..len : n - 1 \in S => n \in S
  PROVE  S = 0..len
<1> SUFFICES ASSUME (0..len) \ S # {} PROVE FALSE
  OBVIOUS
<1>1. PICK n \in (0..len) \ S : \A m \in (0..len) \ S : n <= m
  <2> DEFINE T == (0..len) \ S
  <2>1. T \subseteq Nat /\ T # {}
    OBVIOUS
  <2> HIDE DEF T
  <2>2. \E n \in T : \A m \in T : n <= m
    BY <2>1, LeastNatural
  <2> QED
    BY <2>2 DEF T
<1>2. n \in 1..len /\ n - 1 \in 0..len /\ ~(n <= n - 1)
  BY <1>1
<1> QED
  BY <1>1, <1>2


-----------------------------------------------------------------------------
(* A run of a loop: V is where its state is, and Step[n][v] is what round  *)
(* n makes of state v.                                                      *)
IsRun(g, V, start, len, Step) ==
  /\ g \in [0..len -> V]
  /\ \A n \in 0..len : g[n] = IF n = 0 THEN start ELSE Step[n][g[n - 1]]

LEMMA RunExists ==
  ASSUME NEW V, NEW start \in V, NEW len \in Nat, NEW Step \in [1..len -> [V -> V]]
  PROVE  \E g : IsRun(g, V, start, len, Step)
<1> DEFINE Round(v, n) == Step[n][v]
           Runs(n) == {g \in [0..n -> V] :
                         g[0] = start /\ \A m \in 1..n : g[m] = Round(g[m - 1], m)}
           S == {n \in 0..len : Runs(n) # {}}
<1>0. \A v \in V, n \in 1..len : Round(v, n) \in V
  OBVIOUS
<1> HIDE DEF Round
<1>1. 0 \in S
  <2> DEFINE g == [n \in 0..0 |-> start]
  <2>1. g \in Runs(0)
    OBVIOUS
  <2> QED
    BY <2>1
<1>2. ASSUME NEW n \in 1..len, n - 1 \in S PROVE n \in S
  <2>1. PICK g \in Runs(n - 1) : TRUE
    BY <1>2
  <2> DEFINE h == [m \in 0..n |-> IF m = n THEN Round(g[n - 1], n) ELSE g[m]]
  <2>2. n \in Nat /\ n # 0 /\ n - 1 \in 0..(n - 1)
    OBVIOUS
  <2>3. g \in [0..(n - 1) -> V] /\ g[0] = start /\ \A m \in 1..(n - 1) : g[m] = Round(g[m - 1], m)
    BY <2>1
  <2>4. Round(g[n - 1], n) \in V
    BY <1>0, <2>2, <2>3
  <2>5. h \in [0..n -> V]
    BY <2>2, <2>3, <2>4
  <2>6. h[0] = start
    BY <2>2, <2>3
  <2>7. \A m \in 1..n : h[m] = Round(h[m - 1], m)
    BY <2>2, <2>3
  <2> HIDE DEF h
  <2>8. h \in Runs(n)
    BY <2>5, <2>6, <2>7
  <2> QED
    BY <2>8
<1>3. len \in S
  <2>1. S \in SUBSET (0..len)
    OBVIOUS
  <2> HIDE DEF S
  <2>2. S = 0..len
    BY <1>1, <1>2, <2>1, RoundInduction
  <2> QED
    BY <2>2
<1>4. PICK g \in Runs(len) : TRUE
  BY <1>3
<1>5. \A n \in 0..len : g[n] = IF n = 0 THEN start ELSE Round(g[n - 1], n)
  BY <1>4
<1>6. g \in [0..len -> V]
  BY <1>4
<1> QED
  BY <1>5, <1>6 DEF Round, IsRun

-----------------------------------------------------------------------------
(* The operations.                                                          *)

LEMMA SequenceIs ==
  ASSUME NEW S, NEW len \in Nat, NEW s \in [1..len -> S]
  PROVE  s \in Seq(S) /\ Len(s) = len
OBVIOUS

LEMMA FlagsTyped ==
  ASSUME NEW f \in [add: Adds, remove: Removes, replace: Replaces]
  PROVE  /\ f.add \in Seq(NewRules)
         /\ f.remove \in Seq({All} \cup 0..MaxIndex)
         /\ f.replace \in Seq([index: 0..MaxIndex, rule: NewRules])
<1>1. ASSUME NEW S, NEW max \in Nat, NEW s \in SeqOf(S, max) PROVE s \in Seq(S)
  <2>1. PICK m \in 0..max : s \in [1..m -> S]
    BY DEF SeqOf
  <2> QED
    BY <2>1
<1>2. f.add \in Adds /\ f.remove \in Removes /\ f.replace \in Replaces
  OBVIOUS
<1> QED
  BY <1>1, <1>2, BoundsAssumption DEF Adds, Removes, Replaces

Operation ==
  [op: {"add"}, rule: NewRules] \cup [op: {"clear"}]
    \cup [op: {"remove"}, index: 0..MaxIndex]
    \cup [op: {"replace"}, index: 0..MaxIndex, rule: NewRules]

(* The operations of some flags, one by one.                                *)
LEMMA OperationsAre ==
  ASSUME NEW f \in [add: Adds, remove: Removes, replace: Replaces]
  PROVE  LET adds == Len(f.add)  removes == Len(f.remove)  replaces == Len(f.replace) IN
           /\ Operations(f) \in Seq(Operation)
           /\ Len(Operations(f)) = adds + removes + replaces
           /\ \A n \in 1..adds : Operations(f)[n] = [op |-> "add", rule |-> f.add[n]]
           /\ \A n \in 1..removes :
                Operations(f)[adds + n] =
                  IF f.remove[n] = All THEN [op |-> "clear"] ELSE [op |-> "remove", index |-> f.remove[n]]
           /\ \A n \in 1..replaces :
                Operations(f)[adds + removes + n] =
                  [op |-> "replace", index |-> f.replace[n].index, rule |-> f.replace[n].rule]
<1> DEFINE X == [n \in DOMAIN f.add |-> [op |-> "add", rule |-> f.add[n]]]
           Y == [n \in DOMAIN f.remove |->
                   IF f.remove[n] = All THEN [op |-> "clear"]
                                        ELSE [op |-> "remove", index |-> f.remove[n]]]
           Z == [n \in DOMAIN f.replace |->
                   [op |-> "replace", index |-> f.replace[n].index, rule |-> f.replace[n].rule]]
<1>1. X \in Seq(Operation) /\ Len(X) = Len(f.add)
  <2>1. f.add \in Seq(NewRules)
    BY FlagsTyped
  <2>2. \A n \in DOMAIN f.add : X[n] \in Operation
    BY <2>1 DEF Operation
  <2>3. DOMAIN f.add = 1..Len(f.add) /\ Len(f.add) \in Nat
    BY <2>1
  <2>4. X \in [1..Len(f.add) -> Operation]
    BY <2>2, <2>3
  <2> HIDE DEF X
  <2> QED
    BY <2>3, <2>4, SequenceIs
<1>2. Y \in Seq(Operation) /\ Len(Y) = Len(f.remove)
  <2>1. f.remove \in Seq({All} \cup 0..MaxIndex)
    BY FlagsTyped
  <2>2. \A n \in DOMAIN f.remove : Y[n] \in Operation
    BY <2>1 DEF Operation
  <2>3. DOMAIN f.remove = 1..Len(f.remove) /\ Len(f.remove) \in Nat
    BY <2>1
  <2>4. Y \in [1..Len(f.remove) -> Operation]
    BY <2>2, <2>3
  <2> HIDE DEF Y
  <2> QED
    BY <2>3, <2>4, SequenceIs
<1>3. Z \in Seq(Operation) /\ Len(Z) = Len(f.replace)
  <2>1. f.replace \in Seq([index: 0..MaxIndex, rule: NewRules])
    BY FlagsTyped
  <2>2. ASSUME NEW n \in DOMAIN f.replace PROVE Z[n] \in Operation
    <3>1. f.replace[n] \in [index: 0..MaxIndex, rule: NewRules]
      BY <2>1, LenProperties, ElementOfSeq
    <3>2. f.replace[n].index \in 0..MaxIndex /\ f.replace[n].rule \in NewRules
      BY <3>1
    <3>3. Z[n] \in [op: {"replace"}, index: 0..MaxIndex, rule: NewRules]
      BY <3>2
    <3> HIDE DEF Z
    <3> QED
      BY <3>3 DEF Operation
  <2>3. DOMAIN f.replace = 1..Len(f.replace) /\ Len(f.replace) \in Nat
    BY <2>1
  <2>4. Z \in [1..Len(f.replace) -> Operation]
    BY <2>2, <2>3
  <2> HIDE DEF Z
  <2> QED
    BY <2>3, <2>4, SequenceIs
<1>4. /\ DOMAIN f.add = 1..Len(f.add) /\ DOMAIN f.remove = 1..Len(f.remove)
      /\ DOMAIN f.replace = 1..Len(f.replace)
      /\ Len(f.add) \in Nat /\ Len(f.remove) \in Nat /\ Len(f.replace) \in Nat
  BY FlagsTyped
<1>5. Operations(f) = X \o Y \o Z
  BY DEF Operations
<1>6. \A n \in DOMAIN f.add : X[n] = [op |-> "add", rule |-> f.add[n]]
  OBVIOUS
<1>7. \A n \in DOMAIN f.remove :
        Y[n] = IF f.remove[n] = All THEN [op |-> "clear"] ELSE [op |-> "remove", index |-> f.remove[n]]
  OBVIOUS
<1>8. \A n \in DOMAIN f.replace :
        Z[n] = [op |-> "replace", index |-> f.replace[n].index, rule |-> f.replace[n].rule]
  OBVIOUS
<1> HIDE DEF X, Y, Z
<1>9. /\ X \o Y \o Z \in Seq(Operation)
      /\ Len(X \o Y \o Z) = Len(X) + Len(Y) + Len(Z)
      /\ \A n \in 1..Len(X) : (X \o Y \o Z)[n] = X[n]
      /\ \A n \in 1..Len(Y) : (X \o Y \o Z)[Len(X) + n] = Y[n]
      /\ \A n \in 1..Len(Z) : (X \o Y \o Z)[Len(X) + Len(Y) + n] = Z[n]
  <2>1. /\ X \o Y \in Seq(Operation) /\ Len(X \o Y) = Len(X) + Len(Y)
        /\ \A n \in 1..Len(X) + Len(Y) : (X \o Y)[n] = IF n <= Len(X) THEN X[n] ELSE Y[n - Len(X)]
    BY <1>1, <1>2, ConcatProperties
  <2>2. /\ X \o Y \o Z \in Seq(Operation) /\ Len(X \o Y \o Z) = Len(X) + Len(Y) + Len(Z)
        /\ \A n \in 1..Len(X) + Len(Y) + Len(Z) :
             (X \o Y \o Z)[n] = IF n <= Len(X) + Len(Y) THEN (X \o Y)[n] ELSE Z[n - (Len(X) + Len(Y))]
    <3> DEFINE W == X \o Y
    <3>1. W \in Seq(Operation) /\ Len(W) = Len(X) + Len(Y)
      BY <2>1
    <3>3. W \in Seq(Operation) /\ Z \in Seq(Operation)
      BY <1>3, <3>1
    <3> HIDE DEF W
    <3>2. /\ W \o Z \in Seq(Operation) /\ Len(W \o Z) = Len(W) + Len(Z)
          /\ \A n \in 1..Len(W) + Len(Z) : (W \o Z)[n] = IF n <= Len(W) THEN W[n] ELSE Z[n - Len(W)]
      BY <3>3, ConcatProperties
    <3> QED
      BY <3>1, <3>2 DEF W
  <2>3. \A n \in 1..Len(X) : (X \o Y \o Z)[n] = X[n]
    BY <1>1, <1>2, <1>3, <1>4, <2>1, <2>2
  <2>4. \A n \in 1..Len(Y) : (X \o Y \o Z)[Len(X) + n] = Y[n]
    BY <1>1, <1>2, <1>3, <1>4, <2>1, <2>2
  <2>5. ASSUME NEW n \in 1..Len(Z) PROVE (X \o Y \o Z)[Len(X) + Len(Y) + n] = Z[n]
    <3>1. Len(X) + Len(Y) + n \in 1..Len(X) + Len(Y) + Len(Z)
      BY <1>1, <1>2, <1>3, <1>4
    <3>2. ~(Len(X) + Len(Y) + n <= Len(X) + Len(Y)) /\ (Len(X) + Len(Y) + n) - (Len(X) + Len(Y)) = n
      BY <1>1, <1>2, <1>3, <1>4
    <3> QED
      BY <2>2, <3>1, <3>2
  <2>6. X \o Y \o Z \in Seq(Operation) /\ Len(X \o Y \o Z) = Len(X) + Len(Y) + Len(Z)
    BY <2>2
  <2> QED
    BY <2>3, <2>4, <2>5, <2>6
<1> QED
  BY <1>1, <1>2, <1>3, <1>4, <1>5, <1>6, <1>7, <1>8, <1>9

-----------------------------------------------------------------------------
(* Lists of rules.                                                          *)

LEMMA RemoveAtIs ==
  ASSUME NEW S, NEW s \in Seq(S), NEW i \in 1..Len(s)
  PROVE  /\ RemoveAt(s, i) \in Seq(S)
         /\ Len(RemoveAt(s, i)) = Len(s) - 1
         /\ \A n \in 1..(Len(s) - 1) : RemoveAt(s, i)[n] = s[IF n < i THEN n ELSE n + 1]
<1> DEFINE X == SubSeq(s, 1, i - 1)
           Y == SubSeq(s, i + 1, Len(s))
<1>1. /\ X \in Seq(S) /\ Len(X) = i - 1
      /\ \A n \in 1..(i - 1) : X[n] = s[n]
  OBVIOUS
<1>2. /\ Y \in Seq(S) /\ Len(Y) = Len(s) - i
      /\ \A n \in 1..(Len(s) - i) : Y[n] = s[i + n]
  OBVIOUS
<1>3. RemoveAt(s, i) = X \o Y
  BY DEF RemoveAt
<1> HIDE DEF X, Y
<1>4. X \o Y \in Seq(S) /\ Len(X \o Y) = Len(s) - 1
  <2>1. X \in Seq(S) /\ Y \in Seq(S)
    BY <1>1, <1>2
  <2>2. Len(X) + Len(Y) = Len(s) - 1
    BY <1>1, <1>2, LenProperties
  <2> QED
    BY <2>1, <2>2, ConcatProperties
<1>5. ASSUME NEW n \in 1..(Len(s) - 1) PROVE (X \o Y)[n] = s[IF n < i THEN n ELSE n + 1]
  <2>1. CASE n < i
    <3>1. (X \o Y)[n] = X[n] /\ n \in 1..(i - 1)
      BY <1>1, <1>2, <2>1
    <3> QED
      BY <1>1, <2>1, <3>1
  <2>2. CASE ~(n < i)
    <3>1. n - Len(X) \in 1..(Len(s) - i)
      BY <1>1, <2>2
    <3>2. (X \o Y)[n] = Y[n - Len(X)]
      BY <1>1, <1>2, <2>2
    <3>3. i + (n - Len(X)) = n + 1
      BY <1>1
    <3> QED
      BY <1>2, <2>2, <3>1, <3>2, <3>3
  <2> QED
    BY <2>1, <2>2
<1> QED
  BY <1>3, <1>4, <1>5

LEMMA ReplaceAtIs ==
  ASSUME NEW S, NEW s \in Seq(S), NEW i \in 1..Len(s), NEW e \in S
  PROVE  /\ ReplaceAt(s, i, e) \in Seq(S)
         /\ Len(ReplaceAt(s, i, e)) = Len(s)
         /\ \A n \in 1..Len(s) : ReplaceAt(s, i, e)[n] = IF n = i THEN e ELSE s[n]
BY DEF ReplaceAt

LEMMA ListTyped ==
  ASSUME NEW list \in RuleLists
  PROVE  /\ list \in Seq(AllRules) /\ IsFiniteSet(ToSet(list))
         /\ \A i, j \in 1..Len(list) : list[i] = list[j] => i = j
         /\ \A i \in 1..Len(list) : list[i] \notin NewRules
<1>1. list \in Seq(ToSet(list)) /\ IsInjective(list) /\ ToSet(list) \cap NewRules = {}
  BY RulesAssumption
<1>2. ToSet(list) \subseteq AllRules
  BY DEF AllRules
<1>3. /\ Len(list) \in Nat /\ DOMAIN list = 1..Len(list)
      /\ \A i \in 1..Len(list) : list[i] \in ToSet(list)
  BY <1>1, LenProperties, ElementOfSeq
<1>4. IsFiniteSet(ToSet(list))
  <2>1. list \in Surjection(1..Len(list), ToSet(list))
    BY <1>1, <1>3, LenProperties DEF Surjection, ToSet
  <2>2. IsFiniteSet(1..Len(list))
    BY <1>3, FS_Interval
  <2> QED
    BY <2>1, <2>2, FS_Surjection
<1>5. list \in Seq(AllRules)
  BY <1>1, <1>2, SeqMonotonic
<1> QED
  BY <1>1, <1>3, <1>4, <1>5 DEF IsInjective

LEMMA OperationHas ==
  ASSUME NEW o \in Operation
  PROVE  /\ o.op \in {"add", "clear", "remove", "replace"}
         /\ o.op \in {"add", "replace"} => o.rule \in NewRules
         /\ o.op \in {"remove", "replace"} => o.index \in 0..MaxIndex
<1>1. CASE o \in [op: {"add"}, rule: NewRules]
  BY <1>1
<1>2. CASE o \in [op: {"clear"}]
  BY <1>2
<1>3. CASE o \in [op: {"remove"}, index: 0..MaxIndex]
  BY <1>3
<1>4. CASE o \in [op: {"replace"}, index: 0..MaxIndex, rule: NewRules]
  BY <1>4
<1> QED
  BY <1>1, <1>2, <1>3, <1>4 DEF Operation

LEMMA ApplyTyped ==
  ASSUME NEW s \in Seq(AllRules), NEW o \in Operation
  PROVE  Apply(s, o) \in Seq(AllRules)
<1>1. CASE o.op = "add"
  <2>1. o.rule \in AllRules
    BY <1>1, OperationHas DEF AllRules
  <2> QED
    BY <1>1, <2>1, AppendProperties DEF Apply
<1>2. CASE o.op = "clear"
  BY <1>2 DEF Apply
<1>3. CASE o.op = "remove"
  <2>1. o.index \in Nat
    BY <1>3, BoundsAssumption, OperationHas
  <2>2. CASE o.index < Len(s)
    <3>1. o.index + 1 \in 1..Len(s)
      BY <2>1, <2>2
    <3> QED
      BY <1>3, <2>2, <3>1, RemoveAtIs DEF Apply
  <2>3. CASE ~(o.index < Len(s))
    <3>1. Apply(s, o) = s
      BY <1>3, <2>1, <2>3 DEF Apply
    <3> QED
      BY <3>1
  <2> QED
    BY <2>2, <2>3
<1>4. CASE o.op = "replace"
  <2>1. o.rule \in AllRules
    BY <1>4, OperationHas DEF AllRules
  <2>2. Apply(s, o) = [s EXCEPT ![o.index + 1] = o.rule]
    BY <1>4 DEF Apply, ReplaceAt
  <2>3. [s EXCEPT ![o.index + 1] = o.rule] \in Seq(AllRules)
    <3>1. s \in [1..Len(s) -> AllRules] /\ Len(s) \in Nat
      BY LenProperties
    <3>2. [s EXCEPT ![o.index + 1] = o.rule] \in [1..Len(s) -> AllRules]
      BY <2>1, <3>1
    <3> QED
      BY <3>1, <3>2, SequenceIs
  <2> QED
    BY <2>2, <2>3
<1>5. o.op \in {"add", "clear", "remove", "replace"}
  BY OperationHas
<1> QED
  BY <1>1, <1>2, <1>3, <1>4, <1>5

(* The list after each operation.                                           *)
LEMMA AppliedRounds ==
  ASSUME NEW list \in Seq(AllRules), NEW patch \in Seq(Operation)
  PROVE  /\ Applied(list, patch) \in [0..Len(patch) -> Seq(AllRules)]
         /\ Applied(list, patch)[0] = list
         /\ \A n \in 1..Len(patch) :
              Applied(list, patch)[n] = Apply(Applied(list, patch)[n - 1], patch[n])
<1> DEFINE len == Len(patch)
           V == Seq(AllRules)
           Step == [n \in 1..len |-> [s \in V |-> Apply(s, patch[n])]]
           after == Applied(list, patch)
<1>1. len \in Nat /\ \A n \in 1..len : patch[n] \in Operation
  OBVIOUS
<1>2. \A s \in V, n \in 1..len : Apply(s, patch[n]) \in V
  BY <1>1, ApplyTyped
<1>3. Step \in [1..len -> [V -> V]] /\ \A n \in 1..len, s \in V : Step[n][s] = Apply(s, patch[n])
  BY <1>2
<1>4. after = CHOOSE g : g = [n \in 0..len |-> IF n = 0 THEN list ELSE Apply(g[n - 1], patch[n])]
  BY DEF Applied
<1>5. list \in V
  OBVIOUS
<1> HIDE DEF len, V, Step, after
<1>6. PICK g \in [0..len -> V] : \A n \in 0..len : g[n] = IF n = 0 THEN list ELSE Step[n][g[n - 1]]
  <2>1. Step \in [1..len -> [V -> V]]
    BY <1>3
  <2>2. PICK g : IsRun(g, V, list, len, Step)
    BY <1>1, <1>5, <2>1, RunExists
  <2> QED
    BY <2>2 DEF IsRun
<1>7. \A n \in 0..len : n # 0 => n \in 1..len /\ n - 1 \in 0..len
  BY <1>1
<1>8. \A n \in 0..len : g[n] = IF n = 0 THEN list ELSE Apply(g[n - 1], patch[n])
  BY <1>3, <1>6, <1>7
<1>9. g = [n \in 0..len |-> IF n = 0 THEN list ELSE Apply(g[n - 1], patch[n])]
  BY <1>8
<1>10. after = [n \in 0..len |-> IF n = 0 THEN list ELSE Apply(after[n - 1], patch[n])]
  BY <1>4, <1>9
<1>11. after[0] = list /\ \A n \in 1..len : after[n] = Apply(after[n - 1], patch[n])
  BY <1>1, <1>10
<1>12. \A n \in 0..len : after[n] \in V
  <2> DEFINE K == {n \in 0..len : after[n] \in V}
  <2>1. K \in SUBSET (0..len) /\ 0 \in K
    BY <1>1, <1>5, <1>11
  <2>2. \A n \in 1..len : n - 1 \in K => n \in K
    BY <1>1, <1>2, <1>11
  <2>3. K = 0..len
    <3> HIDE DEF K
    <3> QED
      BY <1>1, <2>1, <2>2, RoundInduction
  <2> QED
    BY <2>3
<1>13. after \in [0..len -> V]
  BY <1>10, <1>12
<1> QED
  BY <1>11, <1>13 DEF len, V, after

(* How many rules the command counts after each removal.                    *)
LEMMA LeftRounds ==
  ASSUME NEW count \in Nat, NEW removes \in Seq({All} \cup 0..MaxIndex)
  PROVE  /\ Left(count, removes) \in [0..Len(removes) -> Int]
         /\ Left(count, removes)[0] = count
         /\ \A n \in 1..Len(removes) :
              Left(count, removes)[n] = IF removes[n] = All THEN 0 ELSE Left(count, removes)[n - 1] - 1
<1> DEFINE len == Len(removes)
           Step == [n \in 1..len |-> [c \in Int |-> IF removes[n] = All THEN 0 ELSE c - 1]]
           left == Left(count, removes)
<1>1. len \in Nat
  OBVIOUS
<1>2. /\ Step \in [1..len -> [Int -> Int]]
      /\ \A n \in 1..len, c \in Int : Step[n][c] = IF removes[n] = All THEN 0 ELSE c - 1
  OBVIOUS
<1>3. left = CHOOSE g : g = [n \in 0..len |-> IF n = 0 THEN count
                                              ELSE IF removes[n] = All THEN 0 ELSE g[n - 1] - 1]
  BY DEF Left
<1>4. count \in Int
  OBVIOUS
<1> HIDE DEF len, Step, left
<1>5. PICK g \in [0..len -> Int] : \A n \in 0..len : g[n] = IF n = 0 THEN count ELSE Step[n][g[n - 1]]
  <2>1. Step \in [1..len -> [Int -> Int]]
    BY <1>2
  <2>2. PICK g : IsRun(g, Int, count, len, Step)
    BY <1>1, <1>4, <2>1, RunExists
  <2> QED
    BY <2>2 DEF IsRun
<1>6. \A n \in 0..len : n # 0 => n \in 1..len /\ n - 1 \in 0..len
  BY <1>1
<1>7. \A n \in 0..len : g[n] = IF n = 0 THEN count ELSE IF removes[n] = All THEN 0 ELSE g[n - 1] - 1
  <2>1. \A n \in 0..len : n # 0 => g[n - 1] \in Int
    BY <1>5, <1>6
  <2>2. \A n \in 0..len : n # 0 => Step[n][g[n - 1]] = IF removes[n] = All THEN 0 ELSE g[n - 1] - 1
    BY <1>2, <1>6, <2>1
  <2> QED
    BY <1>5, <2>2
<1>8. g = [n \in 0..len |-> IF n = 0 THEN count ELSE IF removes[n] = All THEN 0 ELSE g[n - 1] - 1]
  BY <1>5, <1>7
<1>9. left = [n \in 0..len |-> IF n = 0 THEN count
                               ELSE IF removes[n] = All THEN 0 ELSE left[n - 1] - 1]
  BY <1>3, <1>8
<1>10. left[0] = count /\ \A n \in 1..len : left[n] = IF removes[n] = All THEN 0 ELSE left[n - 1] - 1
  BY <1>1, <1>9
<1>11. \A n \in 0..len : left[n] \in Int
  <2> DEFINE K == {n \in 0..len : left[n] \in Int}
  <2>1. K \in SUBSET (0..len) /\ 0 \in K
    BY <1>1, <1>4, <1>10
  <2>2. \A n \in 1..len : n - 1 \in K => n \in K
    BY <1>1, <1>10
  <2>3. K = 0..len
    <3> HIDE DEF K
    <3> QED
      BY <1>1, <2>1, <2>2, RoundInduction
  <2> QED
    BY <2>3
<1>12. left \in [0..len -> Int]
  BY <1>9, <1>11
<1> QED
  BY <1>10, <1>12 DEF len, left

-----------------------------------------------------------------------------
(* What a list looks like that began as list, after some operations of a    *)
(* command that does not clear it: len rules are left of it, in their       *)
(* order, at most gone of them are missing, and n rules of add follow.      *)
Shape(s, list, add, n, len, gone) ==
  /\ s \in Seq(AllRules) /\ Len(s) = len + n
  /\ \A k \in 1..n : s[len + k] = add[k]
  /\ \A k, m \in 1..Len(s), i, j \in 1..Len(list) :
       k < m /\ s[k] = list[i] /\ s[m] = list[j] => i < j
  /\ Cardinality(ToSet(list) \ ToSet(s)) <= gone

LEMMA NothingGone ==
  ASSUME NEW list \in RuleLists, NEW s, NEW t, ToSet(s) \subseteq ToSet(t)
  PROVE  Cardinality(ToSet(list) \ ToSet(t)) <= Cardinality(ToSet(list) \ ToSet(s))
<1>1. IsFiniteSet(ToSet(list) \ ToSet(s))
  BY ListTyped, FS_Subset
<1>2. ToSet(list) \ ToSet(t) \in SUBSET (ToSet(list) \ ToSet(s))
  OBVIOUS
<1> QED
  BY <1>1, <1>2, FS_Subset

LEMMA OneGone ==
  ASSUME NEW list \in RuleLists, NEW s, NEW t, NEW x, ToSet(s) \ {x} \subseteq ToSet(t)
  PROVE  /\ Cardinality(ToSet(list) \ ToSet(t)) \in Nat /\ Cardinality(ToSet(list) \ ToSet(s)) \in Nat
         /\ Cardinality(ToSet(list) \ ToSet(t)) <= Cardinality(ToSet(list) \ ToSet(s)) + 1
<1> DEFINE A == ToSet(list) \ ToSet(s)
           B == ToSet(list) \ ToSet(t)
<1>1. A \in SUBSET ToSet(list) /\ B \in SUBSET ToSet(list) /\ B \in SUBSET (A \cup {x})
  OBVIOUS
<1> HIDE DEF A, B
<1>2. IsFiniteSet(A) /\ IsFiniteSet(B)
  BY <1>1, ListTyped, FS_Subset
<1>3. Cardinality(A) \in Nat /\ Cardinality(B) \in Nat
  BY <1>2, FS_CardinalityType
<1>4. /\ IsFiniteSet(A \cup {x})
      /\ Cardinality(A \cup {x}) = IF x \in A THEN Cardinality(A) ELSE Cardinality(A) + 1
  BY <1>2, FS_AddElement
<1>5. Cardinality(B) <= Cardinality(A \cup {x})
  BY <1>1, <1>4, FS_Subset
<1>6. Cardinality(B) <= Cardinality(A) + 1
  BY <1>3, <1>4, <1>5
<1> QED
  BY <1>3, <1>6 DEF A, B

LEMMA ShapeAtFirst ==
  ASSUME NEW list \in RuleLists, NEW add
  PROVE  Shape(list, list, add, 0, Len(list), 0)
<1>1. list \in Seq(AllRules) /\ Len(list) \in Nat
  BY ListTyped
<1>2. Cardinality(ToSet(list) \ ToSet(list)) = 0
  BY FS_EmptySet
<1>3. \A k, m \in 1..Len(list), i, j \in 1..Len(list) :
        k < m /\ list[k] = list[i] /\ list[m] = list[j] => i < j
  BY ListTyped
<1> QED
  BY <1>1, <1>2, <1>3 DEF Shape

LEMMA AddKeepsShape ==
  ASSUME NEW list \in RuleLists, NEW add \in Seq(NewRules), NEW n \in 1..Len(add), NEW len \in Nat,
         NEW s, Shape(s, list, add, n - 1, len, 0)
  PROVE  Shape(Append(s, add[n]), list, add, n, len, 0)
<1> DEFINE t == Append(s, add[n])
<1>1. s \in Seq(AllRules) /\ Len(s) = len + (n - 1) /\ n \in Nat /\ add[n] \in NewRules
  BY ElementOfSeq DEF Shape
<1>2. add[n] \in AllRules
  BY <1>1 DEF AllRules
<1>3. /\ t \in Seq(AllRules) /\ Len(t) = len + n
      /\ \A k \in 1..(len + (n - 1)) : t[k] = s[k]
      /\ t[len + n] = add[n]
  <2>1. Len(s) + 1 = len + n
    BY <1>1
  <2> QED
    BY <1>1, <1>2, <2>1, AppendProperties
<1> HIDE DEF t
<1>4. ASSUME NEW k \in 1..n PROVE t[len + k] = add[k]
  <2>1. CASE k = n
    BY <1>3, <2>1
  <2>2. CASE k # n
    <3>1. k \in 1..(n - 1) /\ len + k \in 1..(len + (n - 1))
      BY <1>1, <2>2
    <3> QED
      BY <1>3, <3>1 DEF Shape
  <2> QED
    BY <2>1, <2>2
<1>5. ASSUME NEW k \in 1..Len(t), NEW m \in 1..Len(t), NEW i \in 1..Len(list), NEW j \in 1..Len(list),
             k < m, t[k] = list[i], t[m] = list[j]
      PROVE  i < j
  <2>1. m # len + n
    BY <1>1, <1>3, <1>5, ListTyped
  <2>2. k \in 1..Len(s) /\ m \in 1..Len(s)
    BY <1>1, <1>3, <1>5, <2>1
  <2>3. s[k] = list[i] /\ s[m] = list[j]
    BY <1>1, <1>3, <1>5, <2>2
  <2> QED
    BY <1>5, <2>2, <2>3 DEF Shape
<1>6. Cardinality(ToSet(list) \ ToSet(t)) <= 0
  <2>1. ToSet(s) \subseteq ToSet(t)
    <3>1. DOMAIN s = 1..(len + (n - 1)) /\ DOMAIN t = 1..(len + n)
      BY <1>1, <1>3
    <3>2. 1..(len + (n - 1)) \subseteq 1..(len + n)
      BY <1>1
    <3> QED
      BY <1>3, <3>1, <3>2 DEF ToSet
  <2>2. Cardinality(ToSet(list) \ ToSet(t)) <= Cardinality(ToSet(list) \ ToSet(s))
    BY <2>1, NothingGone
  <2>3. /\ Cardinality(ToSet(list) \ ToSet(t)) \in Nat /\ Cardinality(ToSet(list) \ ToSet(s)) \in Nat
    <3>1. ToSet(s) \ {add[n]} \subseteq ToSet(t)
      BY <2>1
    <3> QED
      BY <3>1, OneGone
  <2>4. Cardinality(ToSet(list) \ ToSet(s)) <= 0
    BY DEF Shape
  <2> QED
    BY <2>2, <2>3, <2>4
<1>7. Shape(t, list, add, n, len, 0)
  BY <1>3, <1>4, <1>5, <1>6 DEF Shape
<1> QED
  BY <1>7 DEF t

LEMMA RemoveKeepsShape ==
  ASSUME NEW list \in RuleLists, NEW add, NEW n \in Nat, NEW len \in Nat, NEW gone \in Nat,
         NEW s, Shape(s, list, add, n, len, gone), NEW r \in 1..len
  PROVE  Shape(RemoveAt(s, r), list, add, n, len - 1, gone + 1)
<1> DEFINE t == RemoveAt(s, r)
           At(k) == IF k < r THEN k ELSE k + 1
<1>1. s \in Seq(AllRules) /\ Len(s) = len + n
  BY DEF Shape
<1>2. r \in 1..Len(s) /\ Len(s) \in Nat /\ Len(s) - 1 = (len - 1) + n
  BY <1>1
<1>3. t \in Seq(AllRules) /\ Len(t) = Len(s) - 1 /\ \A k \in 1..(Len(s) - 1) : t[k] = s[At(k)]
  BY <1>1, <1>2, RemoveAtIs
<1> HIDE DEF t
<1>4. ASSUME NEW k \in 1..n PROVE t[(len - 1) + k] = add[k]
  <2>1. (len - 1) + k \in 1..(Len(s) - 1) /\ At((len - 1) + k) = len + k
    BY <1>1
  <2> QED
    BY <1>3, <2>1 DEF Shape
<1>5. ASSUME NEW k \in 1..Len(t), NEW m \in 1..Len(t), NEW i \in 1..Len(list), NEW j \in 1..Len(list),
             k < m, t[k] = list[i], t[m] = list[j]
      PROVE  i < j
  <2>1. At(k) \in 1..Len(s) /\ At(m) \in 1..Len(s) /\ At(k) < At(m)
    BY <1>2, <1>3, <1>5
  <2>2. s[At(k)] = list[i] /\ s[At(m)] = list[j]
    BY <1>3, <1>5
  <2> HIDE DEF At
  <2> QED
    BY <2>1, <2>2 DEF Shape
<1>6. Cardinality(ToSet(list) \ ToSet(t)) <= gone + 1
  <2>1. ToSet(s) \ {s[r]} \subseteq ToSet(t)
    <3> SUFFICES ASSUME NEW k \in 1..Len(s), s[k] # s[r] PROVE \E m \in 1..Len(t) : t[m] = s[k]
      BY <1>1, <1>3 DEF ToSet
    <3>1. CASE k < r
      <4>1. k \in 1..(Len(s) - 1) /\ At(k) = k
        BY <1>2, <3>1
      <4> QED
        BY <1>3, <4>1
    <3>2. CASE k > r
      <4>1. k - 1 \in 1..(Len(s) - 1) /\ At(k - 1) = k
        BY <1>2, <3>2
      <4> QED
        BY <1>3, <4>1
    <3> QED
      BY <1>2, <3>1, <3>2
  <2>2. Cardinality(ToSet(list) \ ToSet(s)) <= gone
    BY DEF Shape
  <2>3. /\ Cardinality(ToSet(list) \ ToSet(t)) \in Nat /\ Cardinality(ToSet(list) \ ToSet(s)) \in Nat
        /\ Cardinality(ToSet(list) \ ToSet(t)) <= Cardinality(ToSet(list) \ ToSet(s)) + 1
    BY <2>1, OneGone
  <2> QED
    BY <2>2, <2>3
<1>7. (len - 1) + n = Len(t)
  BY <1>2, <1>3
<1>8. Shape(t, list, add, n, len - 1, gone + 1)
  BY <1>3, <1>4, <1>5, <1>6, <1>7 DEF Shape
<1> QED
  BY <1>8 DEF t

LEMMA ReplaceKeepsShape ==
  ASSUME NEW list \in RuleLists, NEW add, NEW n \in Nat, NEW len \in Nat, NEW gone \in Nat,
         NEW s, Shape(s, list, add, n, len, gone), NEW r \in 1..len, NEW e \in NewRules
  PROVE  Shape(ReplaceAt(s, r, e), list, add, n, len, gone + 1)
<1> DEFINE t == ReplaceAt(s, r, e)
<1>1. s \in Seq(AllRules) /\ Len(s) = len + n
  BY DEF Shape
<1>2. r \in 1..Len(s) /\ Len(s) \in Nat /\ e \in AllRules
  BY <1>1 DEF AllRules
<1>3. t \in Seq(AllRules) /\ Len(t) = Len(s) /\ \A k \in 1..Len(s) : t[k] = IF k = r THEN e ELSE s[k]
  <2>1. s \in Seq(AllRules) /\ r \in 1..Len(s) /\ e \in AllRules
    BY <1>1, <1>2
  <2> HIDE DEF t
  <2>2. /\ ReplaceAt(s, r, e) \in Seq(AllRules) /\ Len(ReplaceAt(s, r, e)) = Len(s)
        /\ \A k \in 1..Len(s) : ReplaceAt(s, r, e)[k] = IF k = r THEN e ELSE s[k]
    BY <2>1, ReplaceAtIs
  <2> QED
    BY <2>2 DEF t
<1> HIDE DEF t
<1>4. ASSUME NEW k \in 1..n PROVE t[len + k] = add[k]
  <2>1. len + k \in 1..Len(s) /\ len + k # r
    BY <1>1
  <2> QED
    BY <1>3, <2>1 DEF Shape
<1>5. ASSUME NEW k \in 1..Len(t), NEW m \in 1..Len(t), NEW i \in 1..Len(list), NEW j \in 1..Len(list),
             k < m, t[k] = list[i], t[m] = list[j]
      PROVE  i < j
  <2>1. k # r /\ m # r
    BY <1>3, <1>5, ListTyped
  <2>2. s[k] = list[i] /\ s[m] = list[j]
    BY <1>3, <1>5, <2>1
  <2> QED
    BY <1>3, <1>5, <2>2 DEF Shape
<1>6. Cardinality(ToSet(list) \ ToSet(t)) <= gone + 1
  <2>1. ToSet(s) \ {s[r]} \subseteq ToSet(t)
    <3> SUFFICES ASSUME NEW k \in 1..Len(s), s[k] # s[r] PROVE \E m \in 1..Len(t) : t[m] = s[k]
      BY <1>1, <1>3 DEF ToSet
    <3> QED
      BY <1>3
  <2>2. Cardinality(ToSet(list) \ ToSet(s)) <= gone
    BY DEF Shape
  <2>3. /\ Cardinality(ToSet(list) \ ToSet(t)) \in Nat /\ Cardinality(ToSet(list) \ ToSet(s)) \in Nat
        /\ Cardinality(ToSet(list) \ ToSet(t)) <= Cardinality(ToSet(list) \ ToSet(s)) + 1
    BY <2>1, OneGone
  <2> QED
    BY <2>2, <2>3
<1>7. Shape(t, list, add, n, len, gone + 1)
  BY <1>1, <1>3, <1>4, <1>5, <1>6 DEF Shape
<1> QED
  BY <1>7 DEF t

-----------------------------------------------------------------------------
(* A command whose flags are in range, on the list they are in range for.   *)

LEMMA RangesWithoutClear ==
  ASSUME NEW list \in RuleLists, NEW f \in [add: Adds, remove: Removes, replace: Replaces],
         InRange(Len(list), f), ~Clears(f)
  PROVE  /\ \A n \in 1..Len(f.remove) : f.remove[n] # All /\ f.remove[n] \in 0..(Len(list) - n)
         /\ Len(f.remove) <= Len(list)
         /\ \A n \in 1..Len(f.replace) :
              f.replace[n].index \in 0..(Len(list) - Len(f.remove) - 1)
<1> DEFINE R == Len(f.remove)
           L == Len(list)
           left == Left(L, f.remove)
           K == {n \in 0..R : left[n] = L - n}
<1>1. /\ f.remove \in Seq({All} \cup 0..MaxIndex) /\ DOMAIN f.remove = 1..R
      /\ f.replace \in Seq([index: 0..MaxIndex, rule: NewRules]) /\ DOMAIN f.replace = 1..Len(f.replace)
      /\ R \in Nat /\ L \in Nat
  BY FlagsTyped, ListTyped, LenProperties
<1>2. \A n \in 1..R : f.remove[n] # All /\ f.remove[n] \in Nat
  <2>1. \A n \in 1..R : f.remove[n] # All
    BY <1>1 DEF Clears, ToSet
  <2>2. \A n \in 1..R : f.remove[n] \in {All} \cup 0..MaxIndex
    BY <1>1, ElementOfSeq
  <2> QED
    BY <2>1, <2>2, BoundsAssumption
<1>3. /\ \A n \in 1..R : f.remove[n] < left[n - 1]
      /\ \A n \in 1..Len(f.replace) : f.replace[n].index < left[R]
  BY <1>1 DEF InRange
<1>4. left[0] = L /\ \A n \in 1..R : left[n] = IF f.remove[n] = All THEN 0 ELSE left[n - 1] - 1
  BY <1>1, LeftRounds
<1> HIDE DEF R, L, left
<1>5. K = 0..R
  <2>1. K \in SUBSET (0..R) /\ 0 \in K
    BY <1>1, <1>4
  <2>2. ASSUME NEW n \in 1..R, n - 1 \in K PROVE n \in K
    <3>1. left[n] = left[n - 1] - 1 /\ left[n - 1] = L - (n - 1)
      BY <1>2, <1>4, <2>2
    <3> QED
      BY <1>1, <3>1
  <2> HIDE DEF K
  <2> QED
    BY <1>1, <2>1, <2>2, RoundInduction
<1>6. \A n \in 0..R : left[n] = L - n
  BY <1>5
<1> HIDE DEF K
<1>7. \A n \in 1..R : f.remove[n] \in 0..(L - n)
  <2> SUFFICES ASSUME NEW n \in 1..R PROVE f.remove[n] \in 0..(L - n)
    OBVIOUS
  <2>1. left[n - 1] = L - (n - 1)
    BY <1>1, <1>6
  <2> QED
    BY <1>1, <1>2, <1>3, <2>1
<1>8. R <= L
  <2>1. CASE R = 0
    BY <1>1, <2>1
  <2>2. CASE R # 0
    <3>1. f.remove[R] \in 0..(L - R)
      BY <1>1, <1>7, <2>2
    <3> QED
      BY <1>1, <3>1
  <2> QED
    BY <2>1, <2>2
<1>9. ASSUME NEW n \in 1..Len(f.replace) PROVE f.replace[n].index \in 0..(L - R - 1)
  <2>1. f.replace[n] \in [index: 0..MaxIndex, rule: NewRules]
    BY <1>1, ElementOfSeq
  <2>2. f.replace[n].index \in Nat
    BY <2>1, BoundsAssumption
  <2>3. f.replace[n].index < L - R
    BY <1>1, <1>3, <1>6
  <2> QED
    BY <1>1, <2>2, <2>3
<1> QED
  BY <1>2, <1>7, <1>8, <1>9 DEF R, L

(* Once all rules are removed there is no index left to replace.            *)
LEMMA ClearReplacesNothing ==
  ASSUME NEW list \in RuleLists, NEW f \in [add: Adds, remove: Removes, replace: Replaces],
         InRange(Len(list), f), Clears(f)
  PROVE  Len(f.replace) = 0
<1> DEFINE R == Len(f.remove)
           L == Len(list)
           left == Left(L, f.remove)
           K == {n \in 0..R : (\E k \in 1..n : f.remove[k] = All) => left[n] = 0}
<1>1. /\ f.remove \in Seq({All} \cup 0..MaxIndex) /\ DOMAIN f.remove = 1..R
      /\ f.replace \in Seq([index: 0..MaxIndex, rule: NewRules]) /\ DOMAIN f.replace = 1..Len(f.replace)
      /\ R \in Nat /\ L \in Nat /\ Len(f.replace) \in Nat
  BY FlagsTyped, ListTyped, LenProperties
<1>2. \A n \in 1..R : f.remove[n] # All => f.remove[n] \in Nat
  <2>1. \A n \in 1..R : f.remove[n] \in {All} \cup 0..MaxIndex
    BY <1>1, ElementOfSeq
  <2> QED
    BY <2>1, BoundsAssumption
<1>3. /\ \A n \in 1..R : f.remove[n] < left[n - 1]
      /\ \A n \in 1..Len(f.replace) : f.replace[n].index < left[R]
  BY <1>1 DEF InRange
<1>4. \A n \in 1..R : left[n] = IF f.remove[n] = All THEN 0 ELSE left[n - 1] - 1
  BY <1>1, LeftRounds
<1>5. \E k \in 1..R : f.remove[k] = All
  BY <1>1 DEF Clears, ToSet
<1> HIDE DEF R, L, left
<1>6. K = 0..R
  <2>1. K \in SUBSET (0..R) /\ 0 \in K
    BY <1>1
  <2>2. ASSUME NEW n \in 1..R, n - 1 \in K PROVE n \in K
    <3>1. CASE f.remove[n] = All
      BY <1>4, <3>1
    <3>2. CASE f.remove[n] # All
      <4>1. left[n - 1] # 0
        BY <1>2, <1>3, <3>2
      <4>2. \A k \in 1..(n - 1) : f.remove[k] # All
        BY <2>2, <4>1
      <4>3. \A k \in 1..n : f.remove[k] # All
        BY <3>2, <4>2
      <4> QED
        BY <4>3
    <3> QED
      BY <3>1, <3>2
  <2> HIDE DEF K
  <2> QED
    BY <1>1, <2>1, <2>2, RoundInduction
<1>7. left[R] = 0
  BY <1>1, <1>5, <1>6
<1>8. ASSUME NEW n \in 1..Len(f.replace) PROVE FALSE
  <2>1. f.replace[n] \in [index: 0..MaxIndex, rule: NewRules]
    BY <1>1, ElementOfSeq
  <2>2. f.replace[n].index \in Nat
    BY <2>1, BoundsAssumption
  <2> QED
    BY <1>3, <1>7, <2>2
<1> QED
  BY <1>1, <1>8

LEMMA ApplyIs ==
  ASSUME NEW s, NEW o
  PROVE  /\ o.op = "add" => Apply(s, o) = Append(s, o.rule)
         /\ o.op = "remove" /\ o.index \in Nat /\ Len(s) \in Nat /\ o.index < Len(s) =>
              Apply(s, o) = RemoveAt(s, o.index + 1)
         /\ o.op = "replace" => Apply(s, o) = ReplaceAt(s, o.index + 1, o.rule)
<1>1. ASSUME o.op = "add" PROVE Apply(s, o) = Append(s, o.rule)
  BY <1>1 DEF Apply
<1>2. ASSUME o.op = "remove", o.index \in Nat, Len(s) \in Nat, o.index < Len(s)
      PROVE  Apply(s, o) = RemoveAt(s, o.index + 1)
  BY <1>2 DEF Apply
<1>3. ASSUME o.op = "replace" PROVE Apply(s, o) = ReplaceAt(s, o.index + 1, o.rule)
  BY <1>3 DEF Apply
<1> QED
  BY <1>1, <1>2, <1>3

LEMMA EditedShape ==
  ASSUME NEW list \in RuleLists, NEW f \in [add: Adds, remove: Removes, replace: Replaces],
         InRange(Len(list), f), ~Clears(f)
  PROVE  LET after == Applied(list, Operations(f)) IN
           \A n \in 0..Len(f.replace) :
             Shape(after[Len(f.add) + Len(f.remove) + n], list, f.add, Len(f.add),
                   Len(list) - Len(f.remove), Len(f.remove) + n)
<1> DEFINE A == Len(f.add)
           R == Len(f.remove)
           P == Len(f.replace)
           L == Len(list)
           patch == Operations(f)
           after == Applied(list, patch)
           Adding == {n \in 0..A : Shape(after[n], list, f.add, n, L, 0)}
           Removing == {n \in 0..R : Shape(after[A + n], list, f.add, A, L - n, n)}
           Replacing == {n \in 0..P : Shape(after[A + R + n], list, f.add, A, L - R, R + n)}
<1>1. A \in Nat /\ R \in Nat /\ P \in Nat /\ L \in Nat /\ f.add \in Seq(NewRules)
  BY FlagsTyped, ListTyped, LenProperties
<1>2. /\ patch \in Seq(Operation) /\ Len(patch) = A + R + P
      /\ \A n \in 1..A : patch[n] = [op |-> "add", rule |-> f.add[n]]
      /\ \A n \in 1..R :
           patch[A + n] = IF f.remove[n] = All THEN [op |-> "clear"]
                                               ELSE [op |-> "remove", index |-> f.remove[n]]
      /\ \A n \in 1..P :
           patch[A + R + n] = [op |-> "replace", index |-> f.replace[n].index, rule |-> f.replace[n].rule]
  BY OperationsAre
<1>3. after[0] = list /\ \A n \in 1..(A + R + P) : after[n] = Apply(after[n - 1], patch[n])
  BY <1>2, ListTyped, AppliedRounds
<1>4. /\ \A n \in 1..R : f.remove[n] # All /\ f.remove[n] \in 0..(L - n)
      /\ R <= L
      /\ \A n \in 1..P : f.replace[n].index \in 0..(L - R - 1)
  BY RangesWithoutClear
<1>5. \A n \in 1..P : f.replace[n].rule \in NewRules
  <2>1. f.replace \in Seq([index: 0..MaxIndex, rule: NewRules])
    BY FlagsTyped
  <2>2. \A n \in 1..P : f.replace[n] \in [index: 0..MaxIndex, rule: NewRules]
    BY <2>1, ElementOfSeq
  <2> QED
    BY <2>2
<1> HIDE DEF A, R, P, L, patch, after
<1>6. Adding = 0..A
  <2>1. Adding \in SUBSET (0..A) /\ 0 \in Adding
    BY <1>1, <1>3, ShapeAtFirst DEF L
  <2>2. ASSUME NEW n \in 1..A, n - 1 \in Adding PROVE n \in Adding
    <3>1. Shape(after[n - 1], list, f.add, n - 1, L, 0)
      BY <2>2
    <3>2. n \in 1..(A + R + P) /\ n \in 0..A
      BY <1>1
    <3>3. after[n] = Append(after[n - 1], f.add[n])
      <4>1. after[n] = Apply(after[n - 1], patch[n])
        BY <1>3, <3>2
      <4>2. patch[n] = [op |-> "add", rule |-> f.add[n]]
        BY <1>2
      <4>3. patch[n].op = "add" /\ patch[n].rule = f.add[n]
        BY <4>2
      <4> QED
        BY <4>1, <4>3, ApplyIs
    <3>4. Shape(Append(after[n - 1], f.add[n]), list, f.add, n, L, 0)
      BY <1>1, <3>1, AddKeepsShape DEF A
    <3> QED
      BY <3>2, <3>3, <3>4
  <2> HIDE DEF Adding
  <2> QED
    BY <1>1, <2>1, <2>2, RoundInduction
<1>7. Removing = 0..R
  <2>1. Removing \in SUBSET (0..R) /\ 0 \in Removing
    <3>1. A \in 0..A /\ A + 0 = A /\ L - 0 = L /\ 0 \in 0..R
      BY <1>1
    <3>2. Shape(after[A], list, f.add, A, L, 0)
      BY <1>6, <3>1
    <3> QED
      BY <3>1, <3>2
  <2>2. ASSUME NEW n \in 1..R, n - 1 \in Removing PROVE n \in Removing
    <3>1. Shape(after[A + (n - 1)], list, f.add, A, L - (n - 1), n - 1)
      BY <2>2
    <3>2. A + n \in 1..(A + R + P) /\ n \in 0..R /\ (A + n) - 1 = A + (n - 1)
      BY <1>1
    <3>3. f.remove[n] \in Nat /\ f.remove[n] + 1 \in 1..(L - (n - 1))
      BY <1>1, <1>4
    <3>4. Len(after[A + (n - 1)]) = (L - (n - 1)) + A
      BY <3>1 DEF Shape
    <3>5. f.remove[n] < Len(after[A + (n - 1)])
      BY <1>1, <3>3, <3>4
    <3>6. patch[A + n] = [op |-> "remove", index |-> f.remove[n]]
      BY <1>2, <1>4
    <3>7. after[A + n] = RemoveAt(after[A + (n - 1)], f.remove[n] + 1)
      <4>1. after[A + n] = Apply(after[A + (n - 1)], patch[A + n])
        BY <1>3, <3>2
      <4>2. patch[A + n].op = "remove" /\ patch[A + n].index = f.remove[n]
        BY <3>6
      <4>3. Len(after[A + (n - 1)]) \in Nat
        BY <1>1, <3>3, <3>4
      <4> QED
        BY <3>3, <3>5, <4>1, <4>2, <4>3, ApplyIs
    <3>8. L - (n - 1) \in Nat /\ n - 1 \in Nat /\ (L - (n - 1)) - 1 = L - n /\ (n - 1) + 1 = n
      BY <1>1, <1>4
    <3>9. Shape(RemoveAt(after[A + (n - 1)], f.remove[n] + 1), list, f.add, A,
                (L - (n - 1)) - 1, (n - 1) + 1)
      BY <1>1, <3>1, <3>3, <3>8, RemoveKeepsShape
    <3> QED
      BY <3>2, <3>7, <3>8, <3>9
  <2> HIDE DEF Removing
  <2> QED
    BY <1>1, <2>1, <2>2, RoundInduction
<1>8. Replacing = 0..P
  <2>1. Replacing \in SUBSET (0..P) /\ 0 \in Replacing
    <3>1. R \in 0..R /\ (A + R) + 0 = A + R /\ R + 0 = R /\ 0 \in 0..P
      BY <1>1
    <3>2. Shape(after[A + R], list, f.add, A, L - R, R)
      BY <1>7, <3>1
    <3> QED
      BY <3>1, <3>2
  <2>2. ASSUME NEW n \in 1..P, n - 1 \in Replacing PROVE n \in Replacing
    <3> DEFINE i == f.replace[n].index
               e == f.replace[n].rule
               s == after[A + R + (n - 1)]
    <3>1. Shape(s, list, f.add, A, L - R, R + (n - 1))
      BY <2>2
    <3>2. A + R + n \in 1..(A + R + P) /\ n \in 0..P /\ (A + R + n) - 1 = A + R + (n - 1)
      BY <1>1
    <3>3. i \in Nat /\ i + 1 \in 1..(L - R) /\ L - R \in Nat
      BY <1>1, <1>4
    <3>4. after[A + R + n] = ReplaceAt(s, i + 1, e)
      <4>1. after[A + R + n] = Apply(s, patch[A + R + n])
        BY <1>3, <3>2
      <4>2. patch[A + R + n] = [op |-> "replace", index |-> i, rule |-> e]
        BY <1>2
      <4>3. patch[A + R + n].op = "replace" /\ patch[A + R + n].index = i /\ patch[A + R + n].rule = e
        BY <4>2
      <4> QED
        BY <4>1, <4>3, ApplyIs
    <3>5. R + (n - 1) \in Nat /\ (R + (n - 1)) + 1 = R + n
      BY <1>1
    <3>6. e \in NewRules
      BY <1>5
    <3> HIDE DEF i, e, s
    <3>7. Shape(ReplaceAt(s, i + 1, e), list, f.add, A, L - R, (R + (n - 1)) + 1)
      BY <1>1, <3>1, <3>3, <3>5, <3>6, ReplaceKeepsShape
    <3> QED
      BY <3>2, <3>4, <3>5, <3>7
  <2> HIDE DEF Replacing
  <2> QED
    BY <1>1, <2>1, <2>2, RoundInduction
<1> QED
  BY <1>8 DEF A, R, P, L, patch, after

LEMMA OperationsApply ==
  ASSUME NEW list \in RuleLists, NEW f \in [add: Adds, remove: Removes, replace: Replaces],
         InRange(Len(list), f)
  PROVE  \A n \in DOMAIN Operations(f) :
           Applies(Applied(list, Operations(f))[n - 1], Operations(f)[n])
<1> DEFINE A == Len(f.add)
           R == Len(f.remove)
           P == Len(f.replace)
           patch == Operations(f)
           after == Applied(list, patch)
<1>1. A \in Nat /\ R \in Nat /\ P \in Nat /\ Len(list) \in Nat
  BY FlagsTyped, ListTyped, LenProperties
<1>2. patch \in Seq(Operation) /\ Len(patch) = A + R + P
  BY OperationsAre
<1>3. \A n \in 1..A : patch[n] = [op |-> "add", rule |-> f.add[n]]
  BY OperationsAre
<1>4. \A n \in 1..R :
        patch[A + n] = IF f.remove[n] = All THEN [op |-> "clear"]
                                            ELSE [op |-> "remove", index |-> f.remove[n]]
  BY OperationsAre
<1>5. \A n \in 1..P :
        patch[A + R + n] = [op |-> "replace", index |-> f.replace[n].index, rule |-> f.replace[n].rule]
  BY OperationsAre
<1>6. DOMAIN patch = 1..(A + R + P)
  BY <1>2, LenProperties
<1> SUFFICES ASSUME NEW n \in 1..(A + R + P) PROVE Applies(after[n - 1], patch[n])
  BY <1>6
<1> HIDE DEF A, R, P, patch, after
<1>7. CASE n \in 1..A
  <2>1. patch[n] = [op |-> "add", rule |-> f.add[n]]
    BY <1>3, <1>7
  <2>2. patch[n].op = "add"
    BY <2>1
  <2> QED
    BY <2>2 DEF Applies
<1>8. CASE n \in (A + 1)..(A + R)
  <2> DEFINE k == n - A
  <2>1. k \in 1..R /\ A + k = n
    BY <1>1, <1>8
  <2> HIDE DEF k
  <2>2. patch[n] = IF f.remove[k] = All THEN [op |-> "clear"]
                                        ELSE [op |-> "remove", index |-> f.remove[k]]
    BY <1>4, <2>1
  <2>3. patch[n].op \in {"clear", "remove"}
    BY <2>2
  <2> QED
    BY <2>3 DEF Applies
<1>9. CASE n \in (A + R + 1)..(A + R + P)
  <2> DEFINE k == n - (A + R)
             s == after[A + R + (k - 1)]
  <2>1. k \in 1..P /\ A + R + k = n /\ n - 1 = A + R + (k - 1) /\ k - 1 \in 0..P /\ P # 0
    BY <1>1, <1>9
  <2> HIDE DEF k
  <2>2. ~Clears(f)
    BY <2>1, ClearReplacesNothing DEF P
  <2>3. Shape(s, list, f.add, A, Len(list) - R, R + (k - 1))
    BY <2>1, <2>2, EditedShape DEF A, R, P, patch, after
  <2>4. f.replace[k].index \in 0..(Len(list) - R - 1)
    BY <2>1, <2>2, RangesWithoutClear DEF R, P
  <2>5. f.replace[k].index < Len(s)
    <3>1. Len(s) = (Len(list) - R) + A
      BY <2>3 DEF Shape
    <3> HIDE DEF s
    <3> QED
      BY <1>1, <2>4, <3>1
  <2>6. patch[n] = [op |-> "replace", index |-> f.replace[k].index, rule |-> f.replace[k].rule]
    BY <1>5, <2>1
  <2>7. patch[n].index = f.replace[k].index
    BY <2>6
  <2> QED
    BY <2>1, <2>5, <2>7 DEF Applies
<1> QED
  BY <1>1, <1>7, <1>8, <1>9

LEMMA SuffixIs ==
  ASSUME NEW S, NEW s \in Seq(S), NEW t \in Seq(S), Len(s) <= Len(t),
         \A k \in 1..Len(s) : t[(Len(t) - Len(s)) + k] = s[k]
  PROVE  IsSuffix(s, t)
<1> DEFINE x == Reverse(s)
           y == Reverse(t)
<1>1. Len(s) \in Nat /\ Len(t) \in Nat
  BY LenProperties
<1>2. x \in [1..Len(s) -> S] /\ \A k \in 1..Len(s) : x[k] = s[(Len(s) - k) + 1]
  BY <1>1 DEF Reverse
<1>3. y \in [1..Len(t) -> S] /\ \A k \in 1..Len(t) : y[k] = t[(Len(t) - k) + 1]
  BY <1>1 DEF Reverse
<1> HIDE DEF x, y
<1>4. x \in Seq(S) /\ Len(x) = Len(s) /\ y \in Seq(S) /\ Len(y) = Len(t)
  BY <1>1, <1>2, <1>3, SequenceIs
<1>5. ASSUME NEW k \in 1..Len(s) PROVE x[k] = y[k]
  <2>1. (Len(s) - k) + 1 \in 1..Len(s) /\ k \in 1..Len(t)
    BY <1>1
  <2>2. t[(Len(t) - Len(s)) + ((Len(s) - k) + 1)] = s[(Len(s) - k) + 1]
    BY <2>1
  <2>3. (Len(t) - Len(s)) + ((Len(s) - k) + 1) = (Len(t) - k) + 1
    BY <1>1
  <2> QED
    BY <1>2, <1>3, <2>1, <2>2, <2>3
<1>6. SubSeq(x, 1, Len(x)) = x
  BY <1>4, SubSeqFull
<1>7. SubSeq(y, 1, Len(x)) = x
  <2>1. ASSUME NEW k \in 1..Len(s) PROVE y[k] \in S
    <3>1. k \in 1..Len(t)
      BY <1>1
    <3> QED
      BY <1>3, <3>1
  <2>2. /\ SubSeq(y, 1, Len(s)) \in Seq(S)
        /\ Len(SubSeq(y, 1, Len(s))) = Len(s)
        /\ \A k \in 1..Len(s) : SubSeq(y, 1, Len(s))[k] = y[k]
    BY <1>1, <2>1, SubSeqProperties
  <2> QED
    BY <1>4, <1>5, <2>2, SeqEqual
<1>8. IsPrefix(x, y)
  BY <1>4, <1>6, <1>7 DEF IsPrefix
<1> QED
  BY <1>8 DEF IsSuffix, x, y

-----------------------------------------------------------------------------
(* The invariant.                                                           *)

LEMMA EditInit == Init => EditInv
<1> SUFFICES ASSUME Init PROVE EditInv
  OBVIOUS
<1> USE DEF Init
<1>1. \A S : \A max \in Nat : <<>> \in SeqOf(S, max)
  BY DEF SeqOf
<1>2. NoFlags \in [add: Adds, remove: Removes, replace: Replaces]
  BY <1>1, BoundsAssumption DEF NoFlags, Adds, Removes, Replaces
<1>3. TypeOK
  BY <1>2, ListTyped, BoundsAssumption DEF TypeOK, PCs
<1> QED
  BY <1>3 DEF EditInv, OperationsFit

LEMMA ReadInv ==
  ASSUME EditInv, Read PROVE EditInv'
<1> USE DEF Read
<1>1. TypeOK'
  BY DEF EditInv, TypeOK, PCs
<1> QED
  BY <1>1 DEF EditInv, OperationsFit, TypeOK

LEMMA BuildInv ==
  ASSUME EditInv, Build PROVE EditInv'
<1> USE DEF Build
<1>1. CASE InRange(Len(seen), flags) /\ flags # NoFlags
  <2>1. ops' = Operations(flags) /\ pc' = "send"
    BY <1>1
  <2>2. ASSUME NEW n \in DOMAIN ops' PROVE ops'[n].op \in {"add", "remove", "replace", "clear"}
    <3>1. flags \in [add: Adds, remove: Removes, replace: Replaces]
      BY DEF EditInv, TypeOK
    <3>2. ops' \in Seq(Operation)
      BY <2>1, <3>1, OperationsAre
    <3>3. ops'[n] \in Operation
      BY <2>2, <3>2, LenProperties, ElementOfSeq
    <3> QED
      BY <3>3, OperationHas
  <2>3. TypeOK'
    BY <2>1, <2>2 DEF EditInv, TypeOK, PCs
  <2> QED
    BY <1>1, <2>1, <2>3 DEF EditInv, OperationsFit
<1>2. CASE ~(InRange(Len(seen), flags) /\ flags # NoFlags)
  <2>1. TypeOK'
    BY <1>2 DEF EditInv, TypeOK, PCs
  <2> QED
    BY <1>2, <2>1 DEF EditInv, OperationsFit
<1> QED
  BY <1>1, <1>2

LEMMA PatchInv ==
  ASSUME EditInv, Patch PROVE EditInv'
<1> USE DEF Patch
<1>1. /\ rules \in RuleLists /\ seen \in RuleLists
      /\ flags \in [add: Adds, remove: Removes, replace: Replaces]
      /\ InRange(Len(seen), flags) /\ ops = Operations(flags)
      /\ version = base => rules = seen
  BY DEF EditInv, TypeOK
<1>2. CASE \E n \in DOMAIN ops : ~Applies(Applied(rules, ops)[n - 1], ops[n])
  <2>1. pc' = "failed" /\ UNCHANGED <<rules, version, seen, base, flags, ops>>
    BY <1>2
  <2>2. version # base
    BY <1>1, <1>2, OperationsApply
  <2>3. TypeOK'
    BY <2>1 DEF EditInv, TypeOK, PCs
  <2> QED
    BY <2>1, <2>2, <2>3 DEF EditInv, OperationsFit
<1>3. CASE ~(\E n \in DOMAIN ops : ~Applies(Applied(rules, ops)[n - 1], ops[n])) /\ version # base
  <2>1. pc' = "conflict" /\ UNCHANGED <<rules, version, seen, base, flags, ops>>
    BY <1>3
  <2>2. TypeOK'
    BY <2>1 DEF EditInv, TypeOK, PCs
  <2> QED
    BY <2>1, <2>2 DEF EditInv, OperationsFit
<1>4. CASE ~(\E n \in DOMAIN ops : ~Applies(Applied(rules, ops)[n - 1], ops[n])) /\ version = base
  <2>1. /\ pc' = "done" /\ version' = version + 1 /\ rules' = Applied(rules, ops)[Len(ops)]
        /\ UNCHANGED <<seen, base, flags, ops>>
    BY <1>4
  <2>2. rules' = Applied(seen', ops')[Len(ops')]
    BY <1>1, <1>4, <2>1
  <2>3. rules' \in Seq(AllRules)
    <3>1. ops \in Seq(Operation) /\ Len(ops) \in Nat
      BY <1>1, OperationsAre, LenProperties
    <3>2. Applied(rules, ops) \in [0..Len(ops) -> Seq(AllRules)]
      BY <1>1, <3>1, ListTyped, AppliedRounds
    <3> QED
      BY <2>1, <3>1, <3>2
  <2>4. version' \in 0..MaxVersion
    BY <2>1, BoundsAssumption DEF EditInv, TypeOK
  <2>5. TypeOK'
    BY <2>1, <2>3, <2>4 DEF EditInv, TypeOK, PCs
  <2>6. base' <= version'
    BY <2>1, BoundsAssumption DEF EditInv, TypeOK
  <2> QED
    BY <1>1, <2>1, <2>2, <2>5, <2>6 DEF EditInv, OperationsFit
<1> QED
  BY <1>2, <1>3, <1>4

LEMMA OtherInv ==
  ASSUME EditInv, Other PROVE EditInv'
<1> USE DEF Other
<1>1. rules' \in RuleLists /\ rules' \in Seq(AllRules)
  BY ListTyped
<1>2. version' \in 0..MaxVersion /\ base <= version' /\ version' # base
  BY BoundsAssumption DEF EditInv, TypeOK
<1>3. TypeOK'
  BY <1>1, <1>2 DEF EditInv, TypeOK
<1> QED
  BY <1>1, <1>2, <1>3 DEF EditInv, OperationsFit

LEMMA EditNext == EditInv /\ [Next]_vars => EditInv'
<1>1. EditInv /\ UNCHANGED vars => EditInv'
  BY DEF vars, EditInv, TypeOK, OperationsFit
<1> QED
  BY <1>1, ReadInv, BuildInv, PatchInv, OtherInv DEF Next

(* Until the command is done the list is one that somebody else stored, and *)
(* what it then leaves is the list it read after all its operations.        *)
THEOREM EditInvariance == Spec => []EditInv
BY EditInit, EditNext, PTL DEF Spec

(* No operation of a command is refused, which is to say no replacement     *)
(* misses its rule, unless somebody else has patched the sensor since it    *)
(* was read (calculatePatchConditions).                                     *)
THEOREM OperationsAlwaysFit == Spec => []OperationsFit
<1>1. EditInv => OperationsFit
  BY DEF EditInv
<1> QED
  BY <1>1, EditInvariance, PTL

LEMMA WhatIsLeft ==
  ASSUME EditInv, pc = "done", ~Clears(flags)
  PROVE  /\ Shape(rules, seen, flags.add, Len(flags.add), Len(seen) - Len(flags.remove),
                  Len(flags.remove) + Len(flags.replace))
         /\ Len(flags.remove) <= Len(seen) /\ seen \in RuleLists
         /\ flags.add \in Seq(NewRules)
         /\ Len(flags.add) \in Nat /\ Len(flags.remove) \in Nat /\ Len(flags.replace) \in Nat
         /\ Len(seen) \in Nat
<1>1. /\ seen \in RuleLists /\ flags \in [add: Adds, remove: Removes, replace: Replaces]
      /\ InRange(Len(seen), flags) /\ ops = Operations(flags)
      /\ rules = Applied(seen, ops)[Len(ops)]
  BY DEF EditInv, TypeOK
<1>2. /\ flags.add \in Seq(NewRules)
      /\ Len(flags.add) \in Nat /\ Len(flags.remove) \in Nat /\ Len(flags.replace) \in Nat
      /\ Len(seen) \in Nat
  BY <1>1, FlagsTyped, ListTyped, LenProperties
<1>3. Len(ops) = Len(flags.add) + Len(flags.remove) + Len(flags.replace)
  BY <1>1, OperationsAre
<1>4. Len(flags.replace) \in 0..Len(flags.replace)
  BY <1>2
<1> QED
  BY <1>1, <1>2, <1>3, <1>4, EditedShape, RangesWithoutClear

(* Additions come first in the patch and indices shift under removals; no   *)
(* removal and no replacement of the same command hits an added rule.       *)
THEOREM AdditionsAlwaysStay == Spec => []AdditionsStay
<1>1. ASSUME EditInv, pc = "done", ~Clears(flags) PROVE IsSuffix(flags.add, rules)
  <2> DEFINE A == Len(flags.add)
             len == Len(seen) - Len(flags.remove)
  <2>1. /\ rules \in Seq(AllRules) /\ Len(rules) = len + A
        /\ \A k \in 1..A : rules[len + k] = flags.add[k]
    BY <1>1, WhatIsLeft DEF Shape
  <2>2. len \in Nat /\ A \in Nat
    BY <1>1, WhatIsLeft
  <2>3. flags.add \in Seq(AllRules)
    BY <1>1, WhatIsLeft, SeqMonotonic DEF AllRules
  <2> HIDE DEF len
  <2>4. Len(flags.add) <= Len(rules) /\ Len(rules) - Len(flags.add) = len
    BY <2>1, <2>2
  <2>5. \A k \in 1..Len(flags.add) : rules[(Len(rules) - Len(flags.add)) + k] = flags.add[k]
    BY <2>1, <2>4
  <2> QED
    BY <2>1, <2>3, <2>4, <2>5, SuffixIs
<1>2. EditInv => AdditionsStay
  BY <1>1 DEF AdditionsStay
<1> QED
  BY <1>2, EditInvariance, PTL

(* As many rules go as the command names, no more than it names or replaces *)
(* are missing, and the rest is in the order in which the command read it.  *)
THEOREM OthersAlwaysKeepOrder == Spec => []OthersKeepOrder
<1>1. ASSUME EditInv, pc = "done", ~Clears(flags)
      PROVE  /\ Len(rules) = Len(seen) + Len(flags.add) - Len(flags.remove)
             /\ Cardinality(ToSet(seen) \ ToSet(rules)) <= Len(flags.remove) + Len(flags.replace)
             /\ \A m, n \in DOMAIN rules, i, j \in DOMAIN seen :
                  m < n /\ rules[m] = seen[i] /\ rules[n] = seen[j] => i < j
  <2>1. Shape(rules, seen, flags.add, Len(flags.add), Len(seen) - Len(flags.remove),
              Len(flags.remove) + Len(flags.replace))
    BY <1>1, WhatIsLeft
  <2>2. Len(rules) = Len(seen) + Len(flags.add) - Len(flags.remove)
    BY <1>1, <2>1, WhatIsLeft DEF Shape
  <2>3. DOMAIN rules = 1..Len(rules) /\ DOMAIN seen = 1..Len(seen)
    BY <1>1, <2>1, WhatIsLeft, ListTyped, LenProperties DEF Shape
  <2> QED
    BY <2>1, <2>2, <2>3 DEF Shape
<1>2. EditInv => OthersKeepOrder
  BY <1>1 DEF OthersKeepOrder
<1> QED
  BY <1>2, EditInvariance, PTL

-----------------------------------------------------------------------------
(* Reports.  A run that has something to send has observed a sensor of its  *)
(* kind, and such an observation has keys.                                  *)

Collected == [pc: {"collected", "sent", "applied"}, seen: OfKind(kind)]

RunsInv ==
  /\ kind \in Kinds /\ world \in OfKind(kind)
  /\ run \in [Runners -> {Off} \cup Collected]

LEMMA RunsStep ==
  ASSUME RunsInv, [ReportsNext]_reportsVars
  PROVE  RunsInv'
<1> USE DEF RunsInv
<1>1. ASSUME NEW r \in Runners, Collect(r)
      PROVE  RunsInv'
  BY <1>1 DEF Collect, Collected
<1>2. ASSUME NEW r \in Runners, Send(r) \/ SendData(r)
      PROVE  RunsInv'
  <2>1. UNCHANGED <<kind, world>> /\ run[r].pc \in {"collected", "sent"}
    BY <1>2 DEF Send, SendData
  <2>2. run[r] \in Collected
    BY <2>1 DEF Off
  <2>3. PICK next \in {"sent", "applied"} : run' = [run EXCEPT ![r].pc = next]
    BY <1>2 DEF Send, SendData
  <2>4. [run[r] EXCEPT !.pc = next] \in Collected
    BY <2>2, <2>3 DEF Collected
  <2>5. run' = [run EXCEPT ![r] = [run[r] EXCEPT !.pc = next]]
    BY <2>3
  <2>6. run' \in [Runners -> {Off} \cup Collected]
    BY <2>4, <2>5
  <2>7. Collected' = Collected
    BY <2>1 DEF Collected, OfKind
  <2> QED
    BY <2>1, <2>6, <2>7 DEF OfKind, Off
<1>3. ASSUME NEW r \in Runners, GiveUp(r) \/ Finish(r)
      PROVE  RunsInv'
  BY <1>3 DEF GiveUp, Finish, Collected, Off, OfKind
<1>4. CASE Change \/ Tick \/ UNCHANGED reportsVars
  BY <1>4 DEF Change, Tick, reportsVars, Collected, Off, OfKind
<1> QED
  BY <1>1, <1>2, <1>3, <1>4 DEF ReportsNext, Proceed

LEMMA StatusKnown ==
  ASSUME NEW rule, NEW d
  PROVE  Status(rule, d) \in {"Unknown", "True", "False"}
BY DEF Status

(* Data that were reported say something, whatever they are merged into;    *)
(* nothing merged into nothing is nothing still.                            *)
LEMMA MergedReading ==
  ASSUME kind \in Kinds, NEW o \in Observations,
         kind' = kind, data' = Merge(Results(o), data)
  PROVE  Reading(data)' \in (UNION {Statuses(k) : k \in Kinds}) \cup {Reading(data)}
<1>1. DOMAIN data' = Keys(o) \cup DOMAIN data
  BY DEF Merge, Results
<1>2. CASE DOMAIN data' = {}
  <2>1. DOMAIN data = {}
    BY <1>1, <1>2
  <2>2. Reading(data)' = Nothing /\ Reading(data) = Nothing
    BY <1>2, <2>1 DEF Reading
  <2>3. Reading(data)' = Reading(data)
    BY <2>2
  <2> QED
    BY <2>3, Zenon
<1>3. CASE DOMAIN data' # {}
  <2>1. Reading(data)' = [n \in DOMAIN Rules[kind] |-> Status(Rules[kind][n], data')]
    <3> HIDE DEF Status
    <3> QED
      BY <1>3 DEF Reading
  <2>2. Reading(data)' \in Statuses(kind)
    BY <2>1, StatusKnown DEF Statuses
  <2> QED
    BY <2>2
<1> QED
  BY <1>2, <1>3

LEMMA ReportStep ==
  ASSUME RunsInv, [ReportsNext]_reportsVars
  PROVE  [Health!Next]_Health!vars
<1>1. kind' = kind
  BY DEF ReportsNext, Proceed, Collect, Send, GiveUp,
         SendData, Finish, Change, Tick, reportsVars
<1>2. UNCHANGED RulesOfKind /\ UNCHANGED <<Graceful, Failure>>
  BY <1>1 DEF RulesOfKind, HealthRules, Statuses
<1>3. ASSUME NEW r \in Runners, SendData(r)
      PROVE  Health!Report
  <2>1. /\ run[r].pc = "sent"
        /\ data' = Merge(Results(run[r].seen), data)
        /\ \E lead \in 0..MaxLead : age' = -lead
    BY <1>3 DEF SendData
  <2>2. run[r].seen \in Observations
    BY <2>1 DEF RunsInv, Collected, Off, OfKind
  <2>3. Reading(data)' \in (UNION {Statuses(k) : k \in Kinds}) \cup {Reading(data)}
    BY <1>1, <2>1, <2>2, MergedReading DEF RunsInv
  <2> QED
    BY <1>2, <2>1, <2>3, Zenon DEF Health!Report, Health!spec
<1>4. UNCHANGED data => UNCHANGED Reading(data)
  BY <1>1 DEF Reading, Status
<1>5. CASE Tick
  BY <1>2, <1>4, <1>5 DEF Tick, Health!Tick, Health!spec, Health!Next
<1>6. ASSUME UNCHANGED <<data, age>>
      PROVE  UNCHANGED Health!vars
  BY <1>2, <1>4, <1>6 DEF Health!vars
<1>7. ASSUME NEW r \in Runners,
             Collect(r) \/ Send(r) \/ GiveUp(r) \/ Finish(r)
      PROVE  UNCHANGED <<data, age>>
  BY <1>7 DEF Collect, Send, GiveUp, Finish
<1>8. CASE Change \/ UNCHANGED reportsVars
  BY <1>6, <1>8 DEF Change, reportsVars
<1> QED
  BY <1>3, <1>5, <1>6, <1>7, <1>8 DEF ReportsNext, Proceed, Health!Next

(* Runs of the report command, however they overlap, are late or fail, do   *)
(* to a sensor what may happen to it here (ImplementsHealth), so that what  *)
(* is proved of silence, rules and time holds of reported sensors.          *)
THEOREM ReportsImplement == ReportsSpec => ImplementsHealth
<1>1. ReportsInit => RunsInv /\ Health!Init
  <2> SUFFICES ASSUME ReportsInit PROVE RunsInv /\ Health!Init
    OBVIOUS
  <2>1. kind \in Kinds /\ world \in OfKind(kind)
    BY ObservationsAssumption DEF ReportsInit, OfKind
  <2>2. RunsInv
    BY <2>1 DEF ReportsInit, RunsInv
  <2>3. Reading(data) = Nothing /\ age = 0
    BY DEF ReportsInit, Reading, NoData
  <2> QED
    BY <2>1, <2>2, <2>3 DEF Health!Init, RulesOfKind
<1>2. RunsInv /\ [ReportsNext]_reportsVars => RunsInv' /\ [Health!Next]_Health!vars
  BY RunsStep, ReportStep
<1> QED
  BY <1>1, <1>2, PTL DEF ReportsSpec, ImplementsHealth, Health!Spec
=============================================================================

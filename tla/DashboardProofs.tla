-------------------------- MODULE DashboardProofs --------------------------
(***************************************************************************)
(* Proofs about SensorQuery and Dashboard, for any stores, filters and     *)
(* forms: answers hold what was asked for, pages of them the first of it,  *)
(* and the page in the browser what its form says.                         *)
(***************************************************************************)
EXTENDS Dashboard, FiniteSetTheorems, TLAPS

-----------------------------------------------------------------------------
(* Sequences as sets.                                                       *)

LEMMA Appended ==
  ASSUME NEW S, NEW s \in Seq(S), NEW e \in S
  PROVE  /\ Append(s, e) \in Seq(S)
         /\ ToSet(Append(s, e)) = ToSet(s) \cup {e}
         /\ Len(Append(s, e)) = Len(s) + 1
         /\ IsInjective(s) /\ e \notin ToSet(s) => IsInjective(Append(s, e))
<1>1. /\ Append(s, e) \in Seq(S) /\ Len(Append(s, e)) = Len(s) + 1
      /\ DOMAIN s = 1..Len(s) /\ DOMAIN Append(s, e) = 1..(Len(s) + 1) /\ Len(s) \in Nat
      /\ Append(s, e)[Len(s) + 1] = e /\ \A n \in 1..Len(s) : Append(s, e)[n] = s[n]
  OBVIOUS
<1>2. ToSet(Append(s, e)) = ToSet(s) \cup {e}
  BY <1>1 DEF ToSet
<1>3. ASSUME IsInjective(s), e \notin ToSet(s) PROVE IsInjective(Append(s, e))
  BY <1>1, <1>3 DEF ToSet, IsInjective
<1> QED
  BY <1>1, <1>2, <1>3

LEMMA HeadAndTail ==
  ASSUME NEW S, NEW s \in Seq(S), s # <<>>
  PROVE  /\ Head(s) \in S /\ Tail(s) \in Seq(S)
         /\ ToSet(s) = ToSet(Tail(s)) \cup {Head(s)}
         /\ Len(s) = Len(Tail(s)) + 1
         /\ IsInjective(s) => IsInjective(Tail(s)) /\ Head(s) \notin ToSet(Tail(s))
<1>1. /\ Head(s) = s[1] /\ Head(s) \in S /\ Tail(s) \in Seq(S) /\ Len(s) \in Nat \ {0}
      /\ Len(Tail(s)) = Len(s) - 1
      /\ DOMAIN s = 1..Len(s) /\ DOMAIN Tail(s) = 1..(Len(s) - 1)
      /\ \A n \in 1..(Len(s) - 1) : Tail(s)[n] = s[n + 1]
  OBVIOUS
<1>2. ToSet(s) = ToSet(Tail(s)) \cup {Head(s)}
  <2>1. ToSet(s) = {s[n] : n \in 1..Len(s)}
        /\ ToSet(Tail(s)) = {Tail(s)[n] : n \in 1..(Len(s) - 1)}
    BY <1>1 DEF ToSet
  <2>2. ASSUME NEW x \in ToSet(s), x # Head(s) PROVE x \in ToSet(Tail(s))
    <3>1. PICK n \in 1..Len(s) : s[n] = x
      BY <2>1
    <3>2. n - 1 \in 1..(Len(s) - 1) /\ Tail(s)[n - 1] = s[n]
      BY <1>1, <2>2, <3>1
    <3> QED
      BY <2>1, <3>1, <3>2
  <2>3. ASSUME NEW x \in ToSet(Tail(s)) PROVE x \in ToSet(s)
    <3>1. PICK n \in 1..(Len(s) - 1) : Tail(s)[n] = x
      BY <2>1
    <3>2. n + 1 \in 1..Len(s) /\ s[n + 1] = x
      BY <1>1, <3>1
    <3> QED
      BY <2>1, <3>2
  <2>4. Head(s) \in ToSet(s)
    BY <1>1, <2>1
  <2> QED
    BY <2>2, <2>3, <2>4
<1>3. ASSUME IsInjective(s) PROVE IsInjective(Tail(s)) /\ Head(s) \notin ToSet(Tail(s))
  <2>1. IsInjective(Tail(s))
    <3> SUFFICES ASSUME NEW m \in 1..(Len(s) - 1), NEW n \in 1..(Len(s) - 1), Tail(s)[m] = Tail(s)[n]
                 PROVE  m = n
      BY <1>1 DEF IsInjective
    <3>1. m + 1 \in 1..Len(s) /\ n + 1 \in 1..Len(s) /\ s[m + 1] = s[n + 1]
      BY <1>1
    <3>2. m + 1 = n + 1
      BY <1>1, <1>3, <3>1 DEF IsInjective
    <3> QED
      BY <3>2
  <2>2. Head(s) \notin ToSet(Tail(s))
    <3> SUFFICES ASSUME NEW n \in 1..(Len(s) - 1), Tail(s)[n] = Head(s) PROVE FALSE
      BY <1>1 DEF ToSet
    <3>1. n + 1 \in 1..Len(s) /\ 1 \in 1..Len(s) /\ s[n + 1] = s[1] /\ n + 1 # 1
      BY <1>1
    <3> QED
      BY <1>1, <1>3, <3>1 DEF IsInjective
  <2> QED
    BY <2>1, <2>2
<1> QED
  BY <1>1, <1>2, <1>3

(* The sequences of a finite set hold all of it: an injection between sets  *)
(* of one size is onto.                                                     *)
LEMMA SetsAsSequences ==
  ASSUME NEW S, IsFiniteSet(S), NEW s \in SetToSeqs(S)
  PROVE  s \in Seq(S) /\ ToSet(s) = S /\ IsInjective(s)
<1> DEFINE len == Cardinality(S)
<1>1. len \in Nat
  BY FS_CardinalityType
<1>2. s \in [1..len -> S] /\ \A i, j \in 1..len : i # j => s[i] # s[j]
  BY DEF SetToSeqs
<1>3. IsInjective(s)
  BY <1>2 DEF IsInjective
<1>4. s \in Injection(1..len, S)
  BY <1>2, <1>3 DEF Injection
<1>5. Cardinality(1..len) = len
  <2>1. Cardinality(1..len) = IF 1 > len THEN 0 ELSE len - 1 + 1
    BY <1>1, FS_Interval
  <2> QED
    BY <1>1, <2>1
<1>6. s \in Surjection(1..len, S)
  BY <1>4, <1>5, FS_Injection
<1>7. ToSet(s) = S
  BY <1>2, <1>6 DEF Surjection, ToSet
<1>8. s \in Seq(S)
  BY <1>1, <1>2
<1> QED
  BY <1>3, <1>7, <1>8

(* The first so many of a sequence.                                         *)
LEMMA FirstOnes ==
  ASSUME NEW S, NEW s \in Seq(S), NEW n \in Nat, n <= Len(s)
  PROVE  LET cut == SubSeq(s, 1, n) IN
           /\ cut \in Seq(S) /\ Len(cut) = n
           /\ ToSet(cut) \subseteq ToSet(s)
           /\ IsInjective(s) => IsInjective(cut)
           /\ \A a \in ToSet(cut), b \in ToSet(s) \ ToSet(cut) :
                \E i, j \in DOMAIN s : i < j /\ s[i] = a /\ s[j] = b
<1> DEFINE cut == SubSeq(s, 1, n)
<1>1. /\ cut \in Seq(S) /\ Len(cut) = n /\ Len(s) \in Nat
      /\ DOMAIN s = 1..Len(s) /\ DOMAIN cut = 1..n /\ \A i \in 1..n : cut[i] = s[i]
  OBVIOUS
<1> HIDE DEF cut
<1>2. ToSet(cut) \subseteq ToSet(s)
  BY <1>1 DEF ToSet
<1>3. ASSUME IsInjective(s) PROVE IsInjective(cut)
  BY <1>1, <1>3 DEF IsInjective
<1>4. ASSUME NEW a \in ToSet(cut), NEW b \in ToSet(s) \ ToSet(cut)
      PROVE  \E i, j \in DOMAIN s : i < j /\ s[i] = a /\ s[j] = b
  <2>1. PICK i \in 1..n : cut[i] = a
    BY <1>1 DEF ToSet
  <2>2. PICK j \in DOMAIN s : s[j] = b
    BY DEF ToSet
  <2>3. j \notin 1..n
    BY <1>1, <2>2 DEF ToSet
  <2> QED
    BY <1>1, <2>1, <2>2, <2>3
<1> QED
  BY <1>1, <1>2, <1>3, <1>4 DEF cut

-----------------------------------------------------------------------------
(* What the store answers.                                                  *)

LEMMA SelectedFinite ==
  ASSUME table \in Tables, NEW f
  PROVE  IsFiniteSet(Selected(f)) /\ Selected(f) \subseteq Ids /\ Selected(f) \subseteq DOMAIN table
<1>1. Selected(f) \subseteq DOMAIN table
  BY DEF Selected
<1>2. IsFiniteSet(DOMAIN table) /\ DOMAIN table \subseteq Ids
  BY TablesAssumption
<1> QED
  BY <1>1, <1>2, FS_Subset

LEMMA FoundByStore ==
  ASSUME table \in Tables, NEW f \in Filter, NEW seq \in SetToSeqs(Selected(f)), Ordered(f, seq)
  PROVE  LET cut == Limited(f, seq) IN
           /\ cut \in Seq(Ids) /\ IsInjective(cut) /\ ToSet(cut) \subseteq Selected(f)
           /\ f.limit = 0 => ToSet(cut) = Selected(f)
           /\ f.limit > 0 => Len(cut) = f.limit \/ ToSet(cut) = Selected(f)
           /\ Sorts(f.order) => \A i \in ToSet(cut), j \in Selected(f) \ ToSet(cut) : Before(f, i, j)
<1>1. seq \in Seq(Selected(f)) /\ ToSet(seq) = Selected(f) /\ IsInjective(seq)
  BY SelectedFinite, SetsAsSequences
<1>2. seq \in Seq(Ids) /\ Len(seq) \in Nat
  BY <1>1, SelectedFinite
<1>3. f.limit \in Nat
  BY LimitAssumption DEF Filter
<1>4. CASE f.limit > 0 /\ Len(seq) > f.limit
  <2> DEFINE cut == SubSeq(seq, 1, f.limit)
  <2>1. Limited(f, seq) = cut
    BY <1>4 DEF Limited
  <2>2. /\ cut \in Seq(Ids) /\ Len(cut) = f.limit /\ ToSet(cut) \subseteq ToSet(seq) /\ IsInjective(cut)
        /\ \A a \in ToSet(cut), b \in ToSet(seq) \ ToSet(cut) :
             \E i, j \in DOMAIN seq : i < j /\ seq[i] = a /\ seq[j] = b
    BY <1>1, <1>2, <1>3, <1>4, FirstOnes
  <2> HIDE DEF cut
  <2>3. ASSUME Sorts(f.order), NEW a \in ToSet(cut), NEW b \in Selected(f) \ ToSet(cut)
        PROVE  Before(f, a, b)
    <3>1. PICK i \in DOMAIN seq, j \in DOMAIN seq : i < j /\ seq[i] = a /\ seq[j] = b
      BY <1>1, <2>2
    <3>2. Before(f, seq[i], seq[j])
      BY <2>3, <3>1 DEF Ordered, Before
    <3> QED
      BY <3>1, <3>2
  <2> QED
    BY <1>1, <1>4, <2>1, <2>2, <2>3
<1>5. CASE ~(f.limit > 0 /\ Len(seq) > f.limit)
  <2>1. Limited(f, seq) = seq
    BY <1>5 DEF Limited
  <2> QED
    BY <1>1, <1>2, <2>1
<1> QED
  BY <1>4, <1>5

-----------------------------------------------------------------------------
(* The inductive invariant of a query.                                      *)

\* What it says of a query is said while the query is under way.
LEMMA NotUnderWay ==
  ASSUME QueryTypes, pc \notin {"admit", "query", "build", "done"}
  PROVE  QueryInv
BY DEF QueryInv, Queried, Admitted, OnceEach, NoneMissing, Full, RestLast, StartsAndEnds

LEMMA UnderWay ==
  ASSUME QueryTypes, pc = "admit", answer = <<>>
  PROVE  QueryInv
BY DEF QueryInv, Queried, Admitted, OnceEach, NoneMissing, Full, RestLast, StartsAndEnds

\* The store and what it is asked stay what they are while it answers.
LEMMA SameSelection ==
  ASSUME UNCHANGED <<memory, table, filter>>
  PROVE  /\ Selected(filter)' = Selected(filter) /\ Passing' = Passing
         /\ Sorts(filter.order)' = Sorts(filter.order)
         /\ \A i, j : Before(filter, i, j)' = Before(filter, i, j)
<1>1. Selected(filter)' = Selected(filter)
  BY DEF Selected, Matches, HasLabels, HasKeys
<1>2. Passing' = Passing
  BY <1>1 DEF Passing
<1>3. Sorts(filter.order)' = Sorts(filter.order)
  BY DEF Sorts
<1>4. \A i, j : Before(filter, i, j)' = Before(filter, i, j)
  BY DEF Before, Rank
<1> QED
  BY <1>1, <1>2, <1>3, <1>4

LEMMA AdmitInv ==
  ASSUME QueryInv, Admit
  PROVE  QueryInv'
<1> USE DEF QueryInv, Admit, asked
<1>1. CASE pc' = "failed"
  BY <1>1, NotUnderWay DEF QueryTypes, Queried, Admitted, OnceEach, NoneMissing, Full, RestLast,
                           StartsAndEnds
<1>2. CASE pc' = "query"
  <2>1. /\ anonymous => request.space \in {AnySpace, Public}
        /\ filter' = IF anonymous THEN [request EXCEPT !.space = Public, !.id = NoId] ELSE request
        /\ UNCHANGED <<asked, found, answer>> /\ answer = <<>>
    BY <1>2 DEF StartsAndEnds
  <2>2. filter' \in Filter
    BY <2>1, NumbersAssumption DEF QueryTypes, Filter
  <2>3. QueryTypes' /\ Admitted'
    BY <2>1, <2>2 DEF QueryTypes, Admitted
  <2>4. StartsAndEnds'
    BY <1>2, <2>1 DEF StartsAndEnds
  <2> QED
    BY <1>2, <2>3, <2>4 DEF Queried, OnceEach, NoneMissing, Full, RestLast
<1> QED
  BY <1>1, <1>2

LEMMA QueryStepInv ==
  ASSUME QueryInv, Query
  PROVE  QueryInv'
<1> USE DEF QueryInv, Query, asked
<1>1. CASE Refuses(filter)
  BY <1>1, NotUnderWay DEF QueryTypes, Queried, Admitted, OnceEach, NoneMissing, Full, RestLast,
                           StartsAndEnds
<1>2. CASE ~Refuses(filter)
  <2>1. /\ table \in Tables /\ filter \in Filter
        /\ pc = "query" /\ pc' = "build" /\ answer = <<>> /\ UNCHANGED <<asked, filter, answer>>
    BY <1>2 DEF QueryTypes, StartsAndEnds
  <2>2. PICK seq \in SetToSeqs(Selected(filter)) :
          Ordered(filter, seq) /\ found' = Limited(filter, seq)
    BY <1>2
  <2>3. /\ found' \in Seq(Ids) /\ IsInjective(found') /\ ToSet(found') \subseteq Selected(filter)
        /\ filter.limit = 0 => ToSet(found') = Selected(filter)
        /\ filter.limit > 0 => Len(found') = filter.limit \/ ToSet(found') = Selected(filter)
        /\ Sorts(filter.order) =>
             \A i \in ToSet(found'), j \in Selected(filter) \ ToSet(found') : Before(filter, i, j)
    BY <2>1, <2>2, FoundByStore
  <2>4. /\ Selected(filter)' = Selected(filter) /\ Passing' = Passing
        /\ Sorts(filter.order)' = Sorts(filter.order)
        /\ \A i, j : Before(filter, i, j)' = Before(filter, i, j)
    BY <2>1, SameSelection
  <2>5. ToSet(answer') = {} /\ Handled' = ToSet(found') /\ Len(answer') = 0 /\ IsInjective(answer')
    <3>1. ToSet(<<>>) = {} /\ IsInjective(<<>>)
      BY DEF ToSet, IsInjective
    <3> QED
      BY <2>1, <3>1 DEF Handled
  <2>6. QueryTypes' /\ Admitted' /\ StartsAndEnds'
    BY <2>1, <2>3 DEF QueryTypes, Admitted, StartsAndEnds
  <2>7. OnceEach'
    BY <2>3, <2>4, <2>5 DEF OnceEach
  <2>8. NoneMissing'
    BY <2>1, <2>3, <2>4, <2>5 DEF NoneMissing, Passing
  <2>9. Full'
    <3>1. Len(found') \in Nat
      BY <2>3
    <3> QED
      BY <2>1, <2>3, <2>4, <2>5, <3>1 DEF Full
  <2>10. RestLast'
    BY <2>1, <2>3, <2>4, <2>5 DEF RestLast
  <2> QED
    BY <2>6, <2>7, <2>8, <2>9, <2>10
<1> QED
  BY <1>1, <1>2

LEMMA AddSensorInv ==
  ASSUME QueryInv, AddSensor
  PROVE  QueryInv'
<1> USE DEF QueryInv, AddSensor, asked
<1> DEFINE first == Head(found)
           passes == filter.states = {} \/ table[first].state \in filter.states
<1>1. /\ pc = "build" /\ pc' = "build" /\ found # <<>> /\ found' = Tail(found)
      /\ UNCHANGED <<asked, filter>>
      /\ passes => answer' = Append(answer, first)
      /\ ~passes => answer' = answer
  OBVIOUS
<1>2. /\ first \in Ids /\ Tail(found) \in Seq(Ids) /\ ToSet(found) = ToSet(Tail(found)) \cup {first}
      /\ Len(found) = Len(Tail(found)) + 1
      /\ IsInjective(found) => IsInjective(Tail(found)) /\ first \notin ToSet(Tail(found))
  BY <1>1, HeadAndTail DEF QueryTypes
<1>3. /\ answer \in Seq(Ids) /\ Append(answer, first) \in Seq(Ids)
      /\ ToSet(Append(answer, first)) = ToSet(answer) \cup {first}
      /\ Len(Append(answer, first)) = Len(answer) + 1
      /\ IsInjective(answer) /\ first \notin ToSet(answer) => IsInjective(Append(answer, first))
  BY <1>2, Appended DEF QueryTypes
<1>4. /\ IsInjective(answer) /\ IsInjective(found) /\ ToSet(answer) \cap ToSet(found) = {}
      /\ ToSet(answer) \subseteq Passing /\ ToSet(found) \subseteq Selected(filter)
  BY <1>1 DEF OnceEach, Queried
<1>5. /\ Selected(filter)' = Selected(filter) /\ Passing' = Passing
      /\ Sorts(filter.order)' = Sorts(filter.order)
      /\ \A i, j : Before(filter, i, j)' = Before(filter, i, j)
  BY <1>1, SameSelection
<1>6. passes <=> first \in Passing
  BY <1>2, <1>4 DEF Passing
<1> HIDE DEF first, passes
<1>7. /\ ToSet(answer') = IF passes THEN ToSet(answer) \cup {first} ELSE ToSet(answer)
      /\ ToSet(found') \cup {first} = ToSet(found) /\ first \notin ToSet(found')
      /\ IsInjective(found')
  BY <1>1, <1>2, <1>3, <1>4
<1>8. QueryTypes' /\ Admitted' /\ StartsAndEnds'
  BY <1>1, <1>2, <1>3 DEF QueryTypes, Admitted, StartsAndEnds
<1>9. OnceEach'
  <2>1. IsInjective(answer')
    BY <1>1, <1>2, <1>3, <1>4
  <2>2. ToSet(answer') \cap ToSet(found') = {}
    BY <1>4, <1>7
  <2>3. ToSet(answer') \subseteq Passing /\ ToSet(found') \subseteq Selected(filter)
    BY <1>4, <1>6, <1>7
  <2> QED
    BY <1>5, <1>7, <2>1, <2>2, <2>3 DEF OnceEach
<1>10. /\ passes => Handled' = Handled
       /\ Passing \subseteq Handled => Passing \subseteq Handled'
  BY <1>6, <1>7 DEF Handled
<1>11. filter.states = {} => passes
  BY DEF passes
<1>12. NoneMissing'
  BY <1>1, <1>5, <1>10 DEF NoneMissing, Queried
<1>13. Full'
  <2>1. Len(answer) \in Nat /\ Len(found) \in Nat /\ Len(found') \in Nat
    BY <1>1, <1>2, <1>3 DEF QueryTypes
  <2>2. passes => Len(answer') + Len(found') = Len(answer) + Len(found)
    BY <1>1, <1>2, <1>3, <2>1
  <2> QED
    BY <1>1, <1>5, <1>10, <1>11, <2>2 DEF Full, Queried
<1>14. RestLast'
  BY <1>1, <1>5, <1>10, <1>11 DEF RestLast, Queried
<1> QED
  BY <1>8, <1>9, <1>12, <1>13, <1>14

LEMMA RespondInv ==
  ASSUME QueryInv, Respond
  PROVE  QueryInv'
<1> USE DEF QueryInv, Respond, asked
<1>1. /\ Selected(filter)' = Selected(filter) /\ Passing' = Passing
      /\ Sorts(filter.order)' = Sorts(filter.order)
      /\ \A i, j : Before(filter, i, j)' = Before(filter, i, j)
  BY SameSelection
<1>2. Handled' = Handled /\ Queried /\ pc' = "done"
  BY DEF Handled, Queried
<1>3. QueryTypes' /\ Admitted' /\ StartsAndEnds'
  BY DEF QueryTypes, Admitted, StartsAndEnds
<1>4. OnceEach' /\ NoneMissing' /\ Full' /\ RestLast'
  BY <1>1, <1>2 DEF OnceEach, NoneMissing, Full, RestLast
<1> QED
  BY <1>3, <1>4

LEMMA NextInv ==
  ASSUME QueryInv, Next
  PROVE  QueryInv'
BY AdmitInv, QueryStepInv, AddSensorInv, RespondInv DEF Next

LEMMA QueryUnchanged ==
  ASSUME QueryInv, UNCHANGED vars
  PROVE  QueryInv'
<1> USE DEF QueryInv, vars, asked
<1>1. /\ Selected(filter)' = Selected(filter) /\ Passing' = Passing
      /\ Sorts(filter.order)' = Sorts(filter.order)
      /\ \A i, j : Before(filter, i, j)' = Before(filter, i, j)
  BY SameSelection
<1>2. Handled' = Handled /\ Queried' = Queried
  BY DEF Handled, Queried
<1>3. QueryTypes' /\ Admitted' /\ StartsAndEnds'
  BY DEF QueryTypes, Admitted, StartsAndEnds
<1>4. OnceEach' /\ NoneMissing' /\ Full' /\ RestLast'
  BY <1>1, <1>2 DEF OnceEach, NoneMissing, Full, RestLast
<1> QED
  BY <1>3, <1>4

(* A query of any client, over either store, keeps the inductive invariant. *)
THEOREM Invariance == Spec => []QueryInv
<1>1. Init => QueryInv
  <2> SUFFICES ASSUME Init PROVE QueryInv
    OBVIOUS
  <2>1. QueryTypes /\ pc = "admit" /\ answer = <<>>
    BY FiltersAssumption DEF Init, QueryTypes
  <2> QED
    BY <2>1, UnderWay
<1>2. QueryInv /\ [Next]_vars => QueryInv'
  BY NextInv, QueryUnchanged
<1> QED
  BY <1>1, <1>2, PTL DEF Spec

-----------------------------------------------------------------------------
(* What is answered, and what was asked for.                                *)

\* The filters of a store, seen from the request, for the queries that have no
\* answer of their own.
LEMMA SelectedAsked ==
  ASSUME QueryInv, Answered, NEW i \in DOMAIN table
  PROVE  i \in Passing <=> Asked(i) /\ (anonymous => table[i].space = Public)
<1> DEFINE labels == IF table[i].labels = NoLabels THEN <<>> ELSE table[i].labels
<1>1. /\ pc = "done" /\ table \in Tables /\ request \in Filter
      /\ anonymous => request.id = NoId
      /\ memory => \A x \in DOMAIN request.labels : request.labels[x] # EmptyValue
  BY DEF Answered, QueryInv, QueryTypes
<1>2. /\ anonymous => request.space \in {AnySpace, Public}
      /\ filter = IF anonymous THEN [request EXCEPT !.space = Public, !.id = NoId] ELSE request
  BY <1>1 DEF QueryInv, Admitted
<1>3. table[i] \in Row /\ i \in Ids /\ i # NoId
  BY <1>1, TablesAssumption, NumbersAssumption
<1>4. /\ filter.search = request.search /\ filter.labels = request.labels
      /\ filter.has = request.has /\ filter.states = request.states
      /\ filter.id = IF anonymous THEN NoId ELSE request.id
      /\ filter.space = IF anonymous THEN Public ELSE request.space
  BY <1>1, <1>2 DEF Filter
<1>5. filter.id \in {NoId, i} <=> request.id = NoId \/ i = request.id
  BY <1>1, <1>3, <1>4
<1>6. filter.space \in {AnySpace, table[i].space} <=>
        /\ request.space = AnySpace \/ table[i].space = request.space
        /\ anonymous => table[i].space = Public
  BY <1>1, <1>2, <1>4, NumbersAssumption
<1>7. DOMAIN <<>> = {}
  OBVIOUS
<1>8. HasLabels(table[i], filter.labels) <=>
        \A x \in DOMAIN request.labels : x \in DOMAIN labels /\ labels[x] = request.labels[x]
  BY <1>1, <1>4, <1>7 DEF HasLabels
<1>9. HasKeys(table[i], filter.has) <=> request.has \subseteq DOMAIN labels
  BY <1>4, <1>7 DEF HasKeys
<1>10. Matches(table[i], filter.search) <=> table[i].name \in request.search.text
  BY <1>4 DEF Matches, Answered, Plain
<1> QED
  BY <1>4, <1>5, <1>6, <1>8, <1>9, <1>10 DEF Passing, Selected, Asked

LEMMA PassingExpected ==
  ASSUME QueryInv, Answered
  PROVE  Passing = Expected
<1>1. Passing \subseteq DOMAIN table
  BY DEF Passing, Selected
<1> QED
  BY <1>1, SelectedAsked DEF Expected

LEMMA AllAnswered ==
  ASSUME QueryInv
  PROVE  AnswersExact
<1> SUFFICES ASSUME Answered, request.limit = 0
             PROVE  IsInjective(answer) /\ ToSet(answer) = Expected
  BY DEF AnswersExact
<1>1. pc = "done" /\ Queried /\ found = <<>>
  BY DEF Answered, Queried, QueryInv, StartsAndEnds
<1>2. filter.limit = 0
  BY <1>1 DEF QueryInv, QueryTypes, Admitted, Filter
<1>3. ToSet(found) = {} /\ Handled = ToSet(answer)
  BY <1>1 DEF ToSet, Handled
<1>4. IsInjective(answer) /\ ToSet(answer) = Passing
  BY <1>1, <1>2, <1>3 DEF QueryInv, OnceEach, NoneMissing
<1> QED
  BY <1>4, PassingExpected

LEMMA PageFull ==
  ASSUME QueryInv
  PROVE  PagesFirst
<1> SUFFICES ASSUME Answered, request.limit > 0, request.states = {}
             PROVE  /\ Len(answer) = request.limit \/ ToSet(answer) = Expected
                    /\ request.order = "name" =>
                         \A i \in ToSet(answer), j \in Expected \ ToSet(answer) :
                           IF request.desc THEN table[i].name >= table[j].name
                                           ELSE table[i].name <= table[j].name
  BY DEF PagesFirst
<1>1. pc = "done" /\ Queried /\ found = <<>>
  BY DEF Answered, Queried, QueryInv, StartsAndEnds
<1>2. /\ filter.limit = request.limit /\ filter.states = {}
      /\ filter.order = request.order /\ filter.desc = request.desc
  BY <1>1 DEF QueryInv, QueryTypes, Admitted, Filter
<1>3. ToSet(found) = {} /\ Handled = ToSet(answer) /\ Len(found) = 0
  BY <1>1 DEF ToSet, Handled
<1>4. Passing = Expected /\ Selected(filter) = Expected /\ ToSet(answer) \subseteq Expected
  BY <1>1, <1>2, PassingExpected DEF Passing, QueryInv, OnceEach
<1>5. Len(answer) = request.limit \/ ToSet(answer) = Expected
  <2>1. Len(answer) \in Nat
    BY DEF QueryInv, QueryTypes
  <2>2. Len(answer) + Len(found) = filter.limit \/ Selected(filter) \subseteq Handled
    BY <1>1, <1>2 DEF QueryInv, Full
  <2>3. CASE Len(answer) + Len(found) = filter.limit
    BY <1>2, <1>3, <2>1, <2>3
  <2>4. CASE Selected(filter) \subseteq Handled
    BY <1>3, <1>4, <2>4
  <2> QED
    BY <2>2, <2>3, <2>4
<1>6. ASSUME request.order = "name", NEW i \in ToSet(answer), NEW j \in Expected \ ToSet(answer)
      PROVE  IF request.desc THEN table[i].name >= table[j].name ELSE table[i].name <= table[j].name
  <2>1. Sorts(filter.order) /\ \A x : Rank(filter.order, x) = table[x].name
    <3>1. filter.order = "name"
      BY <1>2, <1>6
    <3>2. \A x : Rank("name", x) = table[x].name
      BY DEF Rank
    <3>3. Sorts("name")
      BY DEF Sorts
    <3> QED
      BY <3>1, <3>2, <3>3
  <2>2. Before(filter, i, j)
    BY <1>1, <1>2, <1>3, <1>4, <1>6, <2>1 DEF QueryInv, RestLast
  <2> QED
    BY <1>2, <2>1, <2>2 DEF Before
<1> QED
  BY <1>5, <1>6

(* Whichever store answers, an answer without a limit holds exactly what    *)
(* was asked for, and one with a limit is full and holds the first by name  *)
(* (AnswersExact, PagesFirst), save for the queries Answered leaves out: an *)
(* identifier without signing in, an empty label in memory, a text with a   *)
(* wildcard in Postgres.                                                    *)
THEOREM QueriesAnswered == Spec => [](AnswersExact /\ PagesFirst)
BY Invariance, AllAnswered, PageFull, PTL

-----------------------------------------------------------------------------
(* Pages.                                                                   *)

LEMMA FormsMakeFilters ==
  ASSUME NEW f \in Form
  PROVE  /\ RequestOf(f) \in Filter
         /\ Resubmitted(f) \in Form
<1>1. RequestOf(f) \in Filter
  <2>1. ParseStates(f.statuses) \subseteq States
    BY DEF ParseStates, Form
  <2>2. Offered \subseteq Orders /\ 0 \in 0..MaxLimit
    BY LimitAssumption DEF Orders
  <2> QED
    BY <2>1, <2>2 DEF RequestOf, Form, Filter
<1>2. Resubmitted(f) \in Form
  <2> DEFINE keys == DOMAIN f.labels \cup {Undefined}
             all == [x \in keys |-> IF x \in DOMAIN f.labels THEN f.labels[x] ELSE EmptyValue]
  <2>1. PICK ks \in SUBSET LabelKeys : f.labels \in [ks -> LabelValues]
    BY DEF Form, Labels
  <2>2. keys \in SUBSET LabelKeys /\ all \in [keys -> LabelValues]
    BY <2>1, FormsAssumption
  <2>3. all \in Labels
    BY <2>2 DEF Labels
  <2>4. Resubmitted(f) = IF f.labels = <<>> THEN f ELSE [f EXCEPT !.labels = all]
    BY DEF Resubmitted
  <2> HIDE DEF all
  <2> QED
    BY <2>3, <2>4 DEF Form
<1> QED
  BY <1>1, <1>2

LEMMA AskInv ==
  ASSUME PageInv, NEW f \in Form, NEW partly, Ask(f, partly)
  PROVE  PageInv'
<1>1. RequestOf(f) \in Filter
  BY FormsMakeFilters
<1>2. QueryTypes'
  BY <1>1 DEF PageInv, QueryInv, QueryTypes, Ask
<1>3. QueryInv'
  <2>1. pc' = "admit" /\ answer' = <<>>
    BY DEF Ask
  <2> QED
    BY <1>2, <2>1 DEF QueryInv, Queried, Admitted, OnceEach, NoneMissing, Full, RestLast, StartsAndEnds
<1>4. FormAsked'
  BY FormsAssumption DEF FormAsked, Ask, RequestOf
<1> QED
  BY <1>3, <1>4 DEF PageInv

\* Between the answer and the next request nothing is promised of a query.
LEMMA ShownInv ==
  ASSUME PageInv, UNCHANGED <<memory, request, filter, found, answer, form>>,
         table' \in Tables, anonymous' \in BOOLEAN,
         pc' \in {"shown", "closed"}, form # NoForm
  PROVE  PageInv'
<1>1. QueryTypes'
  BY DEF PageInv, QueryInv, QueryTypes
<1>2. QueryInv'
  BY <1>1 DEF QueryInv, Queried, Admitted, OnceEach, NoneMissing, Full, RestLast, StartsAndEnds
<1>3. FormAsked'
  BY DEF PageInv, FormAsked, RequestOf
<1> QED
  BY <1>2, <1>3 DEF PageInv

LEMMA PageNextInv ==
  ASSUME PageInv, [PageNext]_pageVars
  PROVE  PageInv'
<1> USE DEF PageInv
<1>1. table \in Tables /\ anonymous \in BOOLEAN /\ (form # NoForm => form \in Form)
      /\ (pc = "shown" => form # NoForm)
  BY DEF QueryInv, QueryTypes, FormAsked
<1>2. CASE Serve
  <2>1. QueryInv'
    BY <1>2, NextInv DEF Serve
  <2>2. UNCHANGED <<form, request>> /\ pc' # "shown"
    BY <1>2 DEF Serve, page, Next, Admit, Query, AddSensor, Respond, asked
  <2> QED
    BY <2>1, <2>2 DEF FormAsked, RequestOf
<1>3. CASE Render
  BY <1>1, <1>3, ShownInv DEF Render, asked
<1>4. CASE RenderError
  BY <1>1, <1>4, ShownInv DEF RenderError, asked
<1>5. CASE Refresh
  BY <1>1, <1>5, AskInv DEF Refresh
<1>6. CASE Submit
  BY <1>1, <1>6, AskInv, FormsMakeFilters DEF Submit
<1>7. CASE CookieGone
  BY <1>1, <1>7, ShownInv DEF CookieGone, page
<1>8. CASE Change
  BY <1>1, <1>8, ShownInv, PageTablesAssumption DEF Change, page
<1>9. CASE UNCHANGED pageVars
  <2>1. QueryInv'
    BY <1>9, QueryUnchanged DEF pageVars
  <2>2. UNCHANGED <<form, request, pc>>
    BY <1>9 DEF pageVars, vars, page, asked
  <2> QED
    BY <2>1, <2>2 DEF FormAsked, RequestOf
<1> QED
  BY <1>2, <1>3, <1>4, <1>5, <1>6, <1>7, <1>8, <1>9 DEF PageNext

(* The invariant holds while pages are refreshed and sent again, sensors    *)
(* change and cookies are given up.                                         *)
THEOREM PageInvariance == PageSpec => []PageInv
<1>1. PageInit => PageInv
  <2> SUFFICES ASSUME PageInit PROVE PageInv
    OBVIOUS
  <2>1. pc = "admit" /\ answer = <<>>
    BY DEF PageInit, Init
  <2>2. CASE form = NoForm /\ Init
    <3>1. QueryTypes
      BY <2>2, FiltersAssumption DEF Init, QueryTypes
    <3> QED
      BY <2>1, <2>2, <3>1, UnderWay DEF PageInv, FormAsked
  <2>3. CASE /\ form \in Forms
             /\ memory \in BOOLEAN /\ table \in PageTables /\ anonymous \in BOOLEAN
             /\ request = RequestOf(form) /\ filter = request
             /\ found = <<>> /\ answer = <<>> /\ pc = "admit"
    <3>1. form \in Form
      BY <2>3, FormsAssumption
    <3>2. QueryTypes
      BY <2>3, <3>1, FormsMakeFilters, PageTablesAssumption DEF QueryTypes
    <3> QED
      BY <2>1, <2>3, <3>1, <3>2, UnderWay DEF PageInv, FormAsked
  <2> QED
    BY <2>2, <2>3 DEF PageInit
<1>2. PageInv /\ [PageNext]_pageVars => PageInv'
  BY PageNextInv
<1> QED
  BY <1>1, <1>2, PTL DEF PageSpec

(* Pages and other clients are answered exactly: an answer without a limit  *)
(* to a query that Answered does not leave out holds what was asked for and *)
(* may be seen, once (AnswersExact).                                        *)
THEOREM AnswersAreExact == PageSpec => []AnswersExact
<1>1. PageInv => AnswersExact
  BY AllAnswered DEF PageInv
<1> QED
  BY <1>1, PageInvariance, PTL

(* A page of an answer is full, and holds the first by name (PagesFirst).   *)
THEOREM PagesAreFirst == PageSpec => []PagesFirst
<1>1. PageInv => PagesFirst
  BY PageFull DEF PageInv
<1> QED
  BY <1>1, PageInvariance, PTL

-----------------------------------------------------------------------------
(* What is rendered.                                                        *)

LEMMA FormAnswered ==
  ASSUME PageInv, pc = "done", Ordinary
  PROVE  ToSet(answer) = {j \in DOMAIN table : FormAsks(j)}
<1>1. /\ form \in Form /\ request = RequestOf(form) /\ table \in Tables
      /\ Unknown \notin form.statuses /\ Undefined \notin DOMAIN form.labels
      /\ memory => EmptyValue \notin {form.labels[x] : x \in DOMAIN form.labels}
      /\ Plain(form.search)
  BY DEF Ordinary, PageInv, FormAsked, QueryInv, QueryTypes
<1>2. /\ request.id = NoId /\ request.space = form.space /\ request.search = form.search
      /\ request.labels = form.labels /\ request.has = form.has
      /\ request.states = form.statuses /\ request.limit = 0
  BY <1>1 DEF RequestOf, ParseStates
<1>3. ToSet(answer) = Expected
  <2>1. Answered
    BY <1>1, <1>2 DEF Answered
  <2> QED
    BY <1>2, <2>1, AllAnswered DEF PageInv, AnswersExact
<1>4. ASSUME NEW j \in DOMAIN table
      PROVE  FormAsks(j) <=> Asked(j) /\ (anonymous => table[j].space = Public)
  <2>1. DOMAIN form.labels \ {Undefined} = DOMAIN form.labels
    BY <1>1
  <2> QED
    BY <1>2, <2>1 DEF FormAsks, Asked
<1> QED
  BY <1>3, <1>4 DEF Expected

LEMMA Rendered ==
  ASSUME PageInv, pc = "done", Ordinary, Render
  PROVE  /\ ToSet(cards') = Wanted /\ IsInjective(cards')
         /\ \A m, n \in DOMAIN cards' : m < n =>
              \/ cards'[m].space < cards'[n].space
              \/ cards'[m].space = cards'[n].space /\ cards'[m].name <= cards'[n].name
<1> DEFINE asks == {j \in DOMAIN table : FormAsks(j)}
<1>1. ToSet(answer) = asks
  BY FormAnswered
<1>2. IsFiniteSet(asks)
  <2>1. IsFiniteSet(DOMAIN table)
    BY TablesAssumption DEF PageInv, QueryInv, QueryTypes
  <2> QED
    BY <2>1, FS_Subset
<1> HIDE DEF asks
<1>3. PICK seq \in SetToSeqs(asks) :
        Arranged(seq) /\ cards' = [n \in DOMAIN seq |-> CardOf(seq[n])]
  BY <1>1 DEF Render
<1>4. ToSet(seq) = asks /\ IsInjective(seq)
  BY <1>2, SetsAsSequences
<1>5. DOMAIN cards' = DOMAIN seq /\ \A n \in DOMAIN seq : cards'[n] = CardOf(seq[n])
  BY <1>3
<1>6. \A i : CardOf(i).id = i /\ CardOf(i).space = table[i].space /\ CardOf(i).name = table[i].name
  BY DEF CardOf
<1>7. ToSet(cards') = Wanted
  <2>1. ToSet(cards') = {CardOf(i) : i \in ToSet(seq)}
    BY <1>5 DEF ToSet
  <2>2. Wanted = {CardOf(i) : i \in asks}
    BY DEF Wanted, asks
  <2> QED
    BY <1>4, <2>1, <2>2
<1>8. IsInjective(cards')
  BY <1>4, <1>5, <1>6 DEF IsInjective
<1>9. ASSUME NEW m \in DOMAIN cards', NEW n \in DOMAIN cards', m < n
      PROVE  \/ cards'[m].space < cards'[n].space
             \/ cards'[m].space = cards'[n].space /\ cards'[m].name <= cards'[n].name
  BY <1>3, <1>5, <1>6, <1>9 DEF Arranged
<1> QED
  BY <1>7, <1>8, <1>9

(* A rendered page of an Ordinary form, one without the four things that    *)
(* are answered in their own way, shows what the form says, each sensor     *)
(* once, under its namespace and by name (PageAsAsked).                     *)
THEOREM PagesShowTheirForm == PageSpec => PageAsAsked
<1> DEFINE Shows ==
      pc = "done" /\ Ordinary =>
        /\ ToSet(cards') = Wanted /\ IsInjective(cards')
        /\ \A m, n \in DOMAIN cards' : m < n =>
             \/ cards'[m].space < cards'[n].space
             \/ cards'[m].space = cards'[n].space /\ cards'[m].name <= cards'[n].name
<1>1. PageInv /\ [PageNext]_pageVars => [Shows]_pageVars
  <2> SUFFICES ASSUME PageInv, PageNext, pc = "done", Ordinary
               PROVE  Shows
    OBVIOUS
  <2>1. Render
    BY DEF PageNext, Serve, Next, Admit, Query, AddSensor, Respond, RenderError, Refresh, Submit,
           CookieGone, Change
  <2> HIDE DEF Shows
  <2> QED
    BY <2>1, Rendered DEF Shows
<1>2. PageAsAsked <=> [][Shows]_pageVars
  BY DEF PageAsAsked
<1> HIDE DEF Shows
<1> QED
  BY <1>1, <1>2, PageInvariance, PTL DEF PageSpec
=============================================================================

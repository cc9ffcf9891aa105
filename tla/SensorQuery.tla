---------------------------- MODULE SensorQuery ----------------------------
(***************************************************************************)
(* Querying sensors: the filters, the order and the limit of a store's     *)
(* Query (memory_storage.go, postgresql_storage.go), and the states that   *)
(* QuerySensors (qivitals_svc.go) filters by itself, because no store      *)
(* knows them, when it builds its answer sensor by sensor.                 *)
(*                                                                         *)
(* A client who is not signed in sees one namespace, which the middleware  *)
(* (qivitals_authz.go) puts into the filter.                               *)
(*                                                                         *)
(* The filter for the name is left out: it works like those for identifier *)
(* and namespace.  A text that is searched for is two sets of names: those *)
(* it occurs in, and those that Postgres finds with it.  Descriptions,     *)
(* which are searched as well, are not told apart.                         *)
(*                                                                         *)
(* Sensors do not change during a query.  In memory what it returns are    *)
(* live sensors; what becomes of a reply that is read from them piece by   *)
(* piece is the subject of QiVitalsService and SensorForm.                 *)
(***************************************************************************)
EXTENDS Integers, Sequences, FiniteSets, SequencesExt

CONSTANTS
  Ids,         \* sensor identifiers: numbers, for a store may sort by them
  Names,       \* names: numbers too
  Spaces,      \* namespaces: numbers too...
  Public,      \* ... of which one is open to everybody
  LabelKeys,   \* keys of labels...
  LabelValues, \* ... and their values
  NoLabels,    \* a sensor has no map of labels at all
  EmptyValue,  \* the empty string, which is what Go finds for a missing key
  States,      \* states a sensor may be shown in
  Tables,      \* what the store may contain...
  Filters,     \* ... and what may be asked of it
  MaxLimit     \* bound on the limits

NoId == 0
AnySpace == 0

Labels == UNION {[ks -> LabelValues] : ks \in SUBSET LabelKeys}

\* A sensor, with what it is ordered by as numbers.
Row == [space: Spaces, labels: Labels \cup {NoLabels}, state: States,
        name: Names, reported: Nat, registered: Nat]

\* The orders the dashboard offers, and others.
Offered == {"", "name", "namespace", "last_updated", "state"}
Orders == Offered \cup {"id", "last_reported"}

\* What is searched for: the names it occurs in, and those its pattern matches.
\* Without a text both are all names.
Search == [text: SUBSET Names, pattern: SUBSET Names]

Filter == [id: Ids \cup {NoId}, space: Spaces \cup {AnySpace}, search: Search, labels: Labels,
           has: SUBSET LabelKeys, states: SUBSET States,
           order: Orders, desc: BOOLEAN, limit: 0..MaxLimit]

ASSUME NumbersAssumption == Ids \subseteq Nat \ {NoId} /\ Spaces \subseteq Nat \ {AnySpace}
                            /\ Public \in Spaces /\ Names \subseteq Nat
ASSUME TablesAssumption ==
  \A t \in Tables : /\ IsFiniteSet(DOMAIN t) /\ DOMAIN t \subseteq Ids
                    /\ \A i \in DOMAIN t : t[i] \in Row
ASSUME LimitAssumption == MaxLimit \in Nat
ASSUME FiltersAssumption == Filters \subseteq Filter

VARIABLES
  memory,      \* whether the in-memory store runs, or Postgres
  table,       \* the sensors of the store, by identifier
  anonymous,   \* whether the client is not signed in
  request,     \* what it asked
  filter,      \* what is asked of the store
  found,       \* what the store returned, as a sequence of identifiers
  answer,      \* what has been put into the answer of it so far
  pc

asked == <<memory, table, anonymous, request>>
vars == <<asked, filter, found, answer, pc>>

TypeOK ==
  /\ memory \in BOOLEAN /\ table \in Tables /\ anonymous \in BOOLEAN
  /\ request \in Filters /\ filter \in Filter
  /\ found \in Seq(Ids) /\ answer \in Seq(Ids)
  /\ pc \in {"admit", "query", "build", "done", "failed"}

Init ==
  /\ memory \in BOOLEAN /\ table \in Tables /\ anonymous \in BOOLEAN
  /\ request \in Filters /\ filter = request
  /\ found = <<>> /\ answer = <<>> /\ pc = "admit"

-----------------------------------------------------------------------------
(* The middleware.                                                          *)

\* Faulty variant: the filter keeps the namespace that was not asked for.
AdmitUnfiltered ==
  /\ pc = "admit"
  /\ pc' = IF anonymous /\ request.space \notin {AnySpace, Public} THEN "failed" ELSE "query"
  /\ UNCHANGED <<asked, filter, found, answer>>

Admit ==
  /\ pc = "admit"
  /\ IF anonymous /\ request.space \notin {AnySpace, Public}
       THEN pc' = "failed" /\ UNCHANGED filter
       ELSE /\ pc' = "query"
            /\ filter' = IF anonymous THEN [request EXCEPT !.space = Public, !.id = NoId]
                                      ELSE request
  /\ UNCHANGED <<asked, found, answer>>

-----------------------------------------------------------------------------
(* The store.                                                               *)

\* In Go a missing label reads as the empty string, unless there are no labels;
\* in Postgres the labels contain those asked for, or not.
HasLabels(row, labels) ==
  DOMAIN labels # {} =>
    /\ row.labels # NoLabels
    /\ \A k \in DOMAIN labels :
         IF k \in DOMAIN row.labels THEN row.labels[k] = labels[k]
                                    ELSE memory /\ labels[k] = EmptyValue

\* In memory the text is looked for as it is; Postgres is given a pattern of it,
\* in which %, _ and \ keep their meaning.
Matches(row, search) == row.name \in IF memory THEN search.text ELSE search.pattern

HasKeys(row, keys) == keys # {} => row.labels # NoLabels /\ keys \subseteq DOMAIN row.labels

Selected(f) ==
  {i \in DOMAIN table :
     /\ f.id \in {NoId, i}
     /\ f.space \in {AnySpace, table[i].space}
     /\ Matches(table[i], f.search)
     /\ HasLabels(table[i], f.labels)
     /\ HasKeys(table[i], f.has)}

\* What a store sorts by: Postgres knows other columns than the map does, and
\* the map takes every other name for the time of registration.
Sorts(order) ==
  IF memory THEN order # "" ELSE order \in {"name", "id", "namespace"}

Rank(order, i) ==
  CASE order = "name" -> table[i].name
    [] memory /\ order = "last_reported" -> table[i].reported
    [] memory /\ order \notin {"name", "last_reported"} -> table[i].registered
    [] ~memory /\ order = "id" -> i
    [] ~memory /\ order = "namespace" -> table[i].space

\* Faulty variant: always the smallest first.
OrderedUpwards(f, seq) ==
  Sorts(f.order) =>
    \A m, n \in DOMAIN seq : m < n => Rank(f.order, seq[m]) <= Rank(f.order, seq[n])

\* Sensors of one rank come in either order.
Before(f, i, j) ==
  IF f.desc THEN Rank(f.order, i) >= Rank(f.order, j) ELSE Rank(f.order, i) <= Rank(f.order, j)

Ordered(f, seq) ==
  Sorts(f.order) => \A m, n \in DOMAIN seq : m < n => Before(f, seq[m], seq[n])

Limited(f, seq) ==
  IF f.limit > 0 /\ Len(seq) > f.limit THEN SubSeq(seq, 1, f.limit) ELSE seq

\* Postgres refuses to sort by what it does not know.
Refuses(f) == ~memory /\ f.order # "" /\ ~Sorts(f.order)

Query ==
  /\ pc = "query"
  /\ IF Refuses(filter)
       THEN pc' = "failed" /\ UNCHANGED found
       ELSE /\ \E seq \in SetToSeqs(Selected(filter)) :
                 Ordered(filter, seq) /\ found' = Limited(filter, seq)
            /\ pc' = "build"
  /\ UNCHANGED <<asked, filter, answer>>

-----------------------------------------------------------------------------
(* The answer.                                                              *)

\* The next sensor is added, if it is in one of the states asked for.
AddSensor ==
  /\ pc = "build" /\ found # <<>>
  /\ found' = Tail(found)
  /\ answer' = IF filter.states = {} \/ table[Head(found)].state \in filter.states
                 THEN Append(answer, Head(found)) ELSE answer
  /\ UNCHANGED <<asked, filter, pc>>

Respond ==
  /\ pc = "build" /\ found = <<>>
  /\ pc' = "done"
  /\ UNCHANGED <<asked, filter, found, answer>>

Next == Admit \/ Query \/ AddSensor \/ Respond

Spec == Init /\ [][Next]_vars

-----------------------------------------------------------------------------
(* Properties.                                                              *)

\* What was asked for, field by field.
Asked(i) ==
  LET labels == IF table[i].labels = NoLabels THEN <<>> ELSE table[i].labels IN
    /\ request.id = NoId \/ i = request.id
    /\ request.space = AnySpace \/ table[i].space = request.space
    /\ table[i].name \in request.search.text
    /\ \A k \in DOMAIN request.labels : k \in DOMAIN labels /\ labels[k] = request.labels[k]
    /\ request.has \subseteq DOMAIN labels
    /\ request.states = {} \/ table[i].state \in request.states

Expected == {i \in DOMAIN table : Asked(i) /\ (anonymous => table[i].space = Public)}

\* A text that the store finds where it occurs and nowhere else.
Plain(search) == memory \/ search.pattern = search.text

\* Three kinds of queries are answered in their own way: a client who is not
\* signed in cannot ask for an identifier (IdentifiersKept), nor a client of
\* the in-memory store for an empty label (LabelsExact), nor one of Postgres
\* for a text with a wildcard (SearchesExact).
Answered ==
  /\ pc = "done"
  /\ anonymous => request.id = NoId
  /\ memory => EmptyValue \notin {request.labels[k] : k \in DOMAIN request.labels}
  /\ Plain(request.search)

(* An answer without a limit holds every sensor that was asked for and may  *)
(* be seen, once, and no other, whichever store and whatever the order,     *)
(* save for the queries that Answered leaves out.  Of answers with a limit  *)
(* PagesFirst says what they hold.                                          *)
AnswersExact ==
  Answered /\ request.limit = 0 => IsInjective(answer) /\ ToSet(answer) = Expected

(* A page without states is as full as it can be, and by name nothing that  *)
(* is left out comes before what is in it (the limit after the order).      *)
PagesFirst ==
  Answered /\ request.limit > 0 /\ request.states = {} =>
    /\ Len(answer) = request.limit \/ ToSet(answer) = Expected
    /\ request.order = "name" =>
         \A i \in ToSet(answer), j \in Expected \ ToSet(answer) :
           IF request.desc THEN table[i].name >= table[j].name
                           ELSE table[i].name <= table[j].name

-----------------------------------------------------------------------------
(* The inductive invariant: what is answered and what is still found, taken *)
(* together, is what the store selected, or the first of it.                *)

QueryTypes ==
  /\ memory \in BOOLEAN /\ table \in Tables /\ anonymous \in BOOLEAN
  /\ request \in Filter /\ filter \in Filter
  /\ found \in Seq(Ids) /\ answer \in Seq(Ids)

Queried == pc \in {"build", "done"}

\* The store is asked for what was asked for, within the open namespace.
Admitted ==
  pc \in {"query", "build", "done"} =>
    /\ anonymous => request.space \in {AnySpace, Public}
    /\ filter = IF anonymous THEN [request EXCEPT !.space = Public, !.id = NoId] ELSE request

Passing == {i \in Selected(filter) : filter.states = {} \/ table[i].state \in filter.states}
Handled == ToSet(answer) \cup ToSet(found)

\* No sensor comes twice, and none that was not selected.
OnceEach ==
  Queried =>
    /\ IsInjective(answer) /\ IsInjective(found) /\ ToSet(answer) \cap ToSet(found) = {}
    /\ ToSet(answer) \subseteq Passing /\ ToSet(found) \subseteq Selected(filter)

\* Without a limit none is missing; with one there are as many as it allows...
NoneMissing == Queried /\ filter.limit = 0 => Passing \subseteq Handled

Full ==
  Queried /\ filter.limit > 0 /\ filter.states = {} =>
    Len(answer) + Len(found) = filter.limit \/ Selected(filter) \subseteq Handled

\* ... and those that are missing come last.
RestLast ==
  Queried /\ filter.states = {} /\ Sorts(filter.order) =>
    \A i \in Handled, j \in Selected(filter) \ Handled : Before(filter, i, j)

\* A query starts from nothing and ends when all that was found is handled.
StartsAndEnds ==
  /\ pc \in {"admit", "query"} => answer = <<>>
  /\ pc = "done" => found = <<>>

QueryInv ==
  /\ QueryTypes /\ Admitted /\ OnceEach /\ NoneMissing /\ Full /\ RestLast /\ StartsAndEnds

-----------------------------------------------------------------------------
(* Statements of the documentation that this code does not meet (README).   *)

(* The states are an "IN clause for computed states" (storage.go:51), a     *)
(* filter like the others: a page of them is as full as it can be.          *)
StatesArePartOfTheQuery ==
  Answered /\ request.limit > 0 =>
    Len(answer) = request.limit \/ ToSet(answer) = Expected

(* Labels are "Exact matches (AND logic)" (storage.go:49).                  *)
LabelsExact ==
  pc = "done" =>
    \A n \in DOMAIN answer, k \in DOMAIN request.labels :
      /\ k \in DOMAIN table[answer[n]].labels
      /\ table[answer[n]].labels[k] = request.labels[k]

(* A search "Matches substring in Name or Description" (storage.go:48).     *)
SearchesExact ==
  pc = "done" => \A n \in DOMAIN answer : table[answer[n]].name \in request.search.text

(* Every order that the dashboard offers is one the store can sort by       *)
(* (filter-form.html:133-137).                                              *)
OfferedOrdersWork ==
  ~anonymous /\ request.order \in Offered => pc # "failed"

(* Who asks for one sensor by its identifier is answered with that sensor   *)
(* or with none: the page of a sensor shows the first sensor of the answer  *)
(* and says "Sensor not found" only if there is none (sensor.go:45-49).     *)
IdentifiersKept ==
  pc = "done" /\ request.id # NoId => ToSet(answer) \subseteq {request.id}
=============================================================================

---------------------------- MODULE MCDashboard ----------------------------
(* Three sensors, or none, in two namespaces and two states: with a label, *)
(* with another one, with both and without any.                            *)
EXTENDS Dashboard

CONSTANTS k, l, v, ok, failed

R(space, labels, state, name, reported, registered) ==
  [space |-> space, labels |-> labels, state |-> state,
   name |-> name, reported |-> reported, registered |-> registered]

\* The time of registration says how the three would come without an order.
r1 == R(1, [x \in {k} |-> v], ok, 1, 2, 1)
r2 == R(1, [x \in {l} |-> v], failed, 2, 1, 2)
r3 == R(2, [x \in {k, l} |-> v], failed, 3, 3, 1)
r4 == R(2, NoLabels, ok, 3, 1, 3)

MCTables == [Ids -> {r1, r2, r3, r4}] \cup [{} -> {r1}] \cup {[i \in {1, 3} |-> r2]}
MCPageTables == {<<r1, r2, r3>>, <<r2, r2, r3>>, <<r4, r1, r4>>, [i \in {1, 3} |-> r2], <<>>}

\* No text, one that occurs in the first name and is found there, and one that
\* occurs in no name but matches two in Postgres, such as "a_c".
All == [text |-> Names, pattern |-> Names]
Word == [text |-> {1}, pattern |-> {1}]
Wildcard == [text |-> {}, pattern |-> {1, 3}]

LabelsAsked == {<<>>, [x \in {k} |-> v], [x \in {k} |-> EmptyValue]}

\* A text or a namespace comes with every order, without a limit, and a text
\* with every limit; what is asked of labels and states comes with every order
\* and limit; an identifier comes alone.
MCFilters ==
  [id: {NoId}, space: {AnySpace, 2}, search: {All, Word, Wildcard}, labels: {<<>>, [x \in {k} |-> v]},
   has: {{}}, states: SUBSET {ok, failed}, order: {"", "name", "state"}, desc: {FALSE}, limit: {0}]
  \cup
  [id: {NoId}, space: {AnySpace}, search: {All}, labels: LabelsAsked,
   has: {{}, {k}}, states: {{}, {failed}}, order: Orders, desc: BOOLEAN, limit: 0..MaxLimit]
  \cup
  [id: {NoId}, space: {AnySpace}, search: {Word, Wildcard}, labels: {<<>>},
   has: {{}}, states: {{}}, order: {"", "name"}, desc: BOOLEAN, limit: 1..MaxLimit]
  \cup
  [id: Ids, space: {AnySpace}, search: {All}, labels: {<<>>},
   has: {{}}, states: {{}}, order: {"name"}, desc: {FALSE}, limit: {0, 1}]

MCForms ==
  [space: {AnySpace, 2}, search: {All}, labels: LabelsAsked, has: {{}, {l}},
   statuses: {{}, {failed}, {failed, Unknown}}, order: {"", "name", "last_updated"}, desc: {FALSE}]
  \cup
  [space: {AnySpace, 1}, search: {Word, Wildcard}, labels: {<<>>}, has: {{}},
   statuses: {{}, {ok}}, order: {"name"}, desc: {FALSE}]
=============================================================================

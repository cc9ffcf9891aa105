--------------------------- MODULE MCSensorHealth ---------------------------
(* Small instances of a sensor's health: two readings, periods of up to two *)
(* seconds, lists of up to two rules.                                       *)
EXTENDS SensorHealth

CONSTANTS n1, n2, low, high

R(name, holds, fails, target) ==
  [name |-> name, holds |-> holds, fails |-> fails, target |-> target]

\* Every rule that is true for one reading and may fail for another, and every
\* list of up to two of them that begins with the first name.
RulesNamed(n) ==
  {R(n, {low}, f, t) : f \in {{}, {high}}, t \in Targets}
AllLists ==
  {<<>>} \cup {<<r>> : r \in RulesNamed(n1)}
  \cup {<<r, s>> : r \in RulesNamed(n1), s \in RulesNamed(n1) \cup RulesNamed(n2)}

\* Rules that come and go with the readings and by patches.
SomeLists == {
  <<>>,
  <<R(n1, {low}, {}, "OK")>>,
  <<R(n1, {low}, {NoReading}, "DEGRADED")>>,
  <<R(n1, {low}, {}, "DEGRADED"), R(n2, {high}, {}, "FAILED")>>,
  <<R(n1, {high}, {}, "PAUSED"), R(n2, {low}, {high}, "DEGRADED")>>,
  <<R(n1, {}, {low}, ""), R(n2, {low, high}, {}, "OK")>> }

Empty == {<<>>}
=============================================================================

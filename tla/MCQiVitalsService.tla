------------------------- MODULE MCQiVitalsService -------------------------
(* Small instances of the service: two clients with one call each at a      *)
(* time, one or two sensors, two natural keys and two labels.               *)
EXTENDS QiVitalsService, TLC

CONSTANTS c1, c2, i1, i2, k1, k2, a, b

MCSpecs == {{a}}

\* Both columns at once, an operation on an item that may be missing, and a
\* path that is not patchable.
MCEdits == {
  [key |-> k2, add |-> {b}, del |-> {}, needs |-> {}, valid |-> TRUE],
  [key |-> NoKey, add |-> {}, del |-> {a}, needs |-> {a}, valid |-> TRUE],
  [key |-> NoKey, add |-> {a}, del |-> {}, needs |-> {}, valid |-> FALSE] }

\* One client is confined to the namespace of k1, the other has both.
MCAccess == c1 :> {k1} @@ c2 :> {k1, k2}
MCListed == MCAccess

\* Both clients patch, and the other calls are between them; every reply shows
\* a sensor, also without the query.
PostgresCalls == c1 :> {"register", "patch", "report"} @@ c2 :> {"patch", "delete", "query"}
MemoryCalls == c1 :> {"register", "patch", "report"} @@ c2 :> {"patch", "delete"}

\* One client registers and the other renames.
ClashCalls == c1 :> {"register", "report"} @@ c2 :> {"patch", "delete"}
=============================================================================

---------------------------- MODULE MCSensorForm ----------------------------
(* Two sensors, two natural keys, one item, one reporter, one page and one  *)
(* command.  Nothing tells the sensors, or the keys, apart from each other. *)
EXTENDS SensorForm, TLC

CONSTANTS i1, i2, k1, k2, a, r, page, cli

\* The command's flags may hold any edit.
MCEdits == Edit
MCSpecs == SUBSET Items

MCSymmetry == Permutations({i1, i2}) \cup Permutations({k1, k2})
=============================================================================

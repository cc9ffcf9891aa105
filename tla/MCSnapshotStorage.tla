------------------------- MODULE MCSnapshotStorage -------------------------
(* Small instances of the snapshot store: two sensors and two natural keys. *)
EXTENDS SnapshotStorage

CONSTANTS i1, i2, k1, k2
=============================================================================

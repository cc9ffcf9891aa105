----------------------------- MODULE MCSessions -----------------------------
(* Two links to two addresses, two visitors, one of them followed, one      *)
(* restart; an address that two users share, and one that is taken out of   *)
(* the configuration.                                                       *)
EXTENDS Sessions, TLC

CONSTANTS l1, l2, v1, v2, ann, bob

MCAddressOf == (l1 :> "ann@" @@ l2 :> "both@")
MCConfig == {(ann :> {"ann@", "both@"} @@ bob :> {"both@"}), (ann :> {} @@ bob :> {"both@"})}
=============================================================================

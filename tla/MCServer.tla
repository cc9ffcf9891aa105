------------------------------ MODULE MCServer ------------------------------
(* Three generating commands: for one place, or two for one and one for    *)
(* the other.                                                              *)
EXTENDS Server

CONSTANTS g1, g2, g3

MCPlans ==
  {[r \in Runs |-> IF r \in tls THEN "tls" ELSE "identity"] : tls \in {{}, {g1}, {g1, g2}, Runs}}
=============================================================================

------------------------ MODULE MCConditionEvaluator ------------------------
(* Two goroutines, two expressions that compile and one that does not, two  *)
(* templates that parse and one that does not, and room for one of them.    *)
EXTENDS ConditionEvaluator

CONSTANTS w1, w2, e1, e2, e3, t1, t2, t3
=============================================================================

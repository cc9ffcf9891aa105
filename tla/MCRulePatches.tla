--------------------------- MODULE MCRulePatches ---------------------------
(* Lists of up to three rules, commands with up to two additions, two       *)
(* removals and one replacement, and one patch by somebody else.            *)
EXTENDS RulePatches

CONSTANTS a, b, c, d, e

MCLists == {<<>>, <<a>>, <<a, b>>, <<a, b, c>>}
=============================================================================

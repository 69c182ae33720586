----------------------------- MODULE MCRuleGraph -----------------------------
(* RuleGraph on every document with the rules of the cfg.  No symmetry: it *)
(* is unsound for the liveness property the same run checks.               *)
EXTENDS RuleGraph
=============================================================================

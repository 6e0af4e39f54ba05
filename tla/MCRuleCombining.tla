-------------------------- MODULE MCRuleCombining --------------------------
(***************************************************************************)
(* Small policies for TLC: every list of at most MaxRules rules drawn from *)
(* the ways a rule of each effect can meet a request.                      *)
(***************************************************************************)
EXTENDS RuleCombining

CONSTANT MaxRules

(* One rule per distinct path through Rule.evaluate.                       *)
Paths == {<<"NO_MATCH", "TRUE">>, <<"INDETERMINATE", "TRUE">>, <<"MATCH", Absent>>,
          <<Absent, "TRUE">>, <<"MATCH", "FALSE">>, <<"MATCH", "ERROR">>}

RulesOf(v) == {[effect |-> e, target |-> p[1], condition |-> p[2], v3 |-> v] :
                 e \in Effects, p \in Paths}

(* All rules of a policy share the version of its namespace.               *)
MCRuleLists == UNION {[1 .. n -> RulesOf(v)] : n \in 0 .. MaxRules, v \in BOOLEAN}
=============================================================================

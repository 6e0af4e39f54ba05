------------------------------- MODULE Xacml -------------------------------
(***************************************************************************)
(* The vocabulary of the policy decision point: decisions, match results,  *)
(* and what one rule decides about one request.  A rule is abstracted to   *)
(* what its own evaluation can observe of the request: the outcome of its  *)
(* target, the outcome of its condition, its effect and the XACML version  *)
(* of the policy that holds it (org.wso2.balana.Rule, AbstractResult).     *)
(***************************************************************************)

Effects == {"Permit", "Deny"}

(* AbstractResult.DECISION_*: the extended indeterminate decisions name    *)
(* the effects the failed evaluation might have had.                       *)
Decisions == Effects \cup {"NotApplicable", "Indeterminate",
               "IndeterminateP", "IndeterminateD", "IndeterminateDP"}

Indeterminates == Decisions \ {"Permit", "Deny", "NotApplicable"}

MatchResults == {"MATCH", "NO_MATCH", "INDETERMINATE"}

(* A target or a condition that the rule does not have (null in the code). *)
Absent == "absent"

RuleInstances == [effect    : Effects,
                  target    : MatchResults \cup {Absent},
                  condition : {"TRUE", "FALSE", "ERROR", Absent},
                  v3        : BOOLEAN]

Opposite(effect) == IF effect = "Permit" THEN "Deny" ELSE "Permit"

(* The extended indeterminate decision that carries one effect only.       *)
IndeterminateOf(effect) ==
  IF effect = "Permit" THEN "IndeterminateP" ELSE "IndeterminateD"

(* What a rule answers when its target or its condition fails: only        *)
(* XACML 3.0 rules say which effect was lost.                              *)
Failed(rule) ==
  IF rule.v3 THEN IndeterminateOf(rule.effect) ELSE "Indeterminate"

Reached(rule)   == rule.target \in {"MATCH", Absent}
Errs(rule)      == \/ rule.target = "INDETERMINATE"
                   \/ Reached(rule) /\ rule.condition = "ERROR"
TakesEffect(rule) == Reached(rule) /\ rule.condition \in {"TRUE", Absent}

(* Rule.evaluate: target first, condition only when the target matched.    *)
RuleDecision(rule) ==
  IF Errs(rule) THEN Failed(rule)
  ELSE IF TakesEffect(rule) THEN rule.effect
  ELSE "NotApplicable"

(* What the rule could have decided had nothing failed: a rule that failed *)
(* would have had its effect or none.                                      *)
RuleOutcomes(rule) ==
  IF Errs(rule) THEN {rule.effect, "NotApplicable"} ELSE {RuleDecision(rule)}
=============================================================================

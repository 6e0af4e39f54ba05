------------------------- MODULE MCSemanticCoverage -------------------------
(***************************************************************************)
(* Small experiments for TLC.  The policies differ in what the tracer      *)
(* depends on: a loop that may stop before the last rule, a missing        *)
(* policy target, a rule identifier used twice.                            *)
(***************************************************************************)
EXTENDS SemanticCoverage

Policy(a, e, i, t) == [alg |-> a, effects |-> e, ids |-> i, hasTarget |-> t]

PD == <<"Permit", "Deny">>

MCMutants == {
  Policy("DenyOverrides3", PD, <<"r1", "r2">>, TRUE),
  Policy("FirstApplicable", PD, <<"r1", "r2">>, TRUE),
  Policy("DenyOverrides2", PD, <<"r1", "r2">>, TRUE),
  Policy("DenyUnlessPermit", <<"Deny", "Permit">>, <<"r1", "r2">>, TRUE),
  Policy("DenyOverrides3", PD, <<"r", "r">>, TRUE),
  Policy("PermitOverrides3", PD, <<"r1", "r2">>, FALSE)}

(* Every outcome of a target and of a condition, absent ones included, is  *)
(* that of some rule.                                                      *)
MCMeetings == {<<"MATCH", "TRUE">>, <<"NO_MATCH", "TRUE">>, <<"INDETERMINATE", "TRUE">>,
               <<Absent, "ERROR">>, <<"MATCH", "FALSE">>, <<"MATCH", Absent>>}

MCOracles == {"Permit", "Deny"}
=============================================================================

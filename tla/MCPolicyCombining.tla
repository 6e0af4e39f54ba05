------------------------- MODULE MCPolicyCombining -------------------------
(***************************************************************************)
(* Small policy sets for TLC: every list of at most MaxPolicies policies.  *)
(***************************************************************************)
EXTENDS PolicyCombining

CONSTANT MaxPolicies

(* A policy that matches may decide anything.  What stands behind a target *)
(* that fails or is missing is one of a few decisions: an effect, none, or *)
(* one that was lost.                                                      *)
Kinds == {<<"NO_MATCH", "Deny">>}
         \cup {<<"MATCH", d>> : d \in Decisions}
         \cup {<<"INDETERMINATE", d>> : d \in Outcomes \cup {"IndeterminateDP"}}
         \cup {<<Absent, d>> : d \in Outcomes}

MCPolicyLists ==
  UNION {[1 .. n -> {[target |-> k[1], combined |-> k[2]] : k \in Kinds}] : n \in 0 .. MaxPolicies}
=============================================================================

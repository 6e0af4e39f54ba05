--------------------------- MODULE MCPolicyRepair ---------------------------
(***************************************************************************)
(* Small policies for TLC: two rules with targets and conditions, and two  *)
(* rules that name no attribute at all.                                    *)
(***************************************************************************)
EXTENDS PolicyRepair

Yields(many, one) ==
  [op \in Operators |-> CASE op \in DOMAIN many -> many[op]
                          [] op \in one         -> 1
                          [] OTHER              -> 0]

MCPolicies ==
  {[rules |-> 2, attributes |-> TRUE,
    yields |-> Yields([CRC |-> 4, CCF |-> 4, RPTE |-> 2],
                      {"PTT", "PTF", "FPR", "RER", "CRE", "RTT", "RTF", "RCT", "RCF", "ANF"})],
   [rules |-> 2, attributes |-> FALSE,
    yields |-> Yields([CRC |-> 4], {"RER", "CRE", "RCF"})]}

MCMethods == {"smartly", "random order", "one by one"}
=============================================================================
